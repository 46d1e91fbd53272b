------------------------- MODULE TaskPushWedgeProofs -------------------------
(***************************************************************************)
(* Proof that a wedge of TaskPush is permanent: for any sets of nodes,     *)
(* tasks and texts, under every event, with any number of tasks in flight. *)
(* Only the number of files is restricted: the buffer of FileSum is shared *)
(* by the threads of an agent, and the sum of another file that a thread   *)
(* stores there between the hash and the comparison of a refused one could *)
(* be the sum the center holds.                                            *)
(***************************************************************************)
EXTENDS TaskPushProofs

OneFile == \A f, g \in Files : f = g

\* Wherever its thread is, it will not reach fopen: the rest of Wedged for task k.
Trapped(k, f) ==
    \/ pc[k] = "end"
    \/ pc[k] \in {"idle", "get", "check", "hash"} /\ job[k].sum = sum[f]
    \/ pc[k] = "size" /\ job[k].sum = sum[f] /\ Local(k) # Absent
    \/ /\ pc[k] = "compare" /\ job[k].sum = sum[f]
       /\ sumbuf[job[k].node] # sum[f] \/ sum[f] = Garbled

NoSumSent(k) == \A m \in wire : m.key = k => m.type # "filesum"

\* Wedged in these words: of one file, and of any file.
LEMMA WedgeIsTraps ==
    ASSUME NEW f \in Files
    PROVE  Wedged(f) <=>
             /\ sum[f] # NoSum
             /\ \A n \in Nodes : disk[n][f] \notin {Blank, sum[f]}
             /\ \A k \in Keys : job[k] # NoJob /\ job[k].file = f =>
                                   NoSumSent(k) /\ Trapped(k, f)
  BY DEF Wedged, Trapped, NoSumSent

\* Every created task is one of the file.
LEMMA WedgeTraps ==
    ASSUME OneFile, TypeOK, NEW f \in Files, Wedged(f), NEW k \in Keys, job[k] # NoJob
    PROVE  /\ job[k].file = f /\ job[k].node \in Nodes
           /\ NoSumSent(k) /\ Trapped(k, f)
           /\ Local(k) \notin {Blank, sum[f]}
<1>1. job[k] \in Jobs
  BY DEF TypeOK
<1>2. job[k].file = f /\ job[k].node \in Nodes
  BY <1>1 DEF Jobs, OneFile
<1> QED BY <1>2, WedgeIsTraps DEF Local

\* No thread has its file open or is on its way to it, and no sum is on its way to
\* the center.
LEMMA WedgeHolds ==
    ASSUME OneFile, TypeOK, NEW f \in Files, Wedged(f), NEW k \in Keys
    PROVE  /\ pc[k] \notin {"open", "body", "report", "sum", "load"}
           /\ NoSumSent(k)
<1>1. CASE job[k] = NoJob
  BY <1>1 DEF TypeOK, NothingBeforeCreation, Busy, Running, NoSumSent
<1>2. CASE job[k] # NoJob
  BY <1>2, WedgeTraps DEF Trapped
<1> QED BY <1>1, <1>2

\* A step of task k that leaves it trapped, sends no sum and stores none that the
\* center holds keeps the wedge.
LEMMA WedgeMove ==
    ASSUME OneFile, TypeOK, NEW f \in Files, Wedged(f), NEW k \in Keys,
           UNCHANGED <<sum, disk, job>>,
           \A j \in Keys \ {k} : pc'[j] = pc[j],
           \A m \in wire' : m \in wire \/ (m.key = k /\ m.type # "filesum"),
           \A n \in Nodes : \/ sumbuf'[n] = sumbuf[n]
                            \/ sumbuf'[n] # sum[f]
                            \/ sum[f] = Garbled,
           job[k] # NoJob => pc'[k] = pc[k] \/ Trapped(k, f)'
    PROVE  Wedged(f)'
<1>1. ASSUME NEW j \in Keys, job[j] # NoJob
      PROVE  NoSumSent(j)' /\ Trapped(j, f)'
  <2>1. /\ job[j].file = f /\ job[j].node \in Nodes
        /\ NoSumSent(j) /\ Trapped(j, f)
    BY <1>1, WedgeTraps
  <2>2. NoSumSent(j)'
    BY <2>1 DEF NoSumSent
  <2>3. CASE pc'[j] = pc[j]
    <3>1. job'[j] = job[j] /\ sum'[f] = sum[f] /\ Local(j)' = Local(j)
      BY DEF Local
    <3>2. \/ sumbuf'[job[j].node] = sumbuf[job[j].node]
          \/ sumbuf'[job[j].node] # sum[f]
          \/ sum[f] = Garbled
      BY <2>1
    <3> QED BY <2>1, <2>2, <2>3, <3>1, <3>2 DEF Trapped
  <2>4. CASE pc'[j] # pc[j]
    <3>1. j = k
      BY <2>4
    <3> QED BY <1>1, <2>2, <2>4, <3>1 DEF Trapped
  <2> QED BY <2>2, <2>3, <2>4
<1> QED BY <1>1 DEF Wedged, Trapped, NoSumSent

\* Every step but an edit on the node keeps the wedge.
LEMMA WedgeStep ==
    ASSUME OneFile, TypeOK, Phases, NEW f \in Files, Wedged(f), [Next]_vars
    PROVE  Wedged(f)' \/ \E n \in Nodes : LocalEdit(n, f)
<1>1. ASSUME NEW k \in Keys, NEW n \in Nodes, NEW g \in Files, RunTask(k, n, g)
      PROVE  Wedged(f)'
  <2>1. job[k] = NoJob
    BY <1>1 DEF RunTask, Phases, Phase
  <2>2. pc[k] \in {"idle", "end"} /\ NoSumSent(k)
    BY <2>1 DEF TypeOK, NothingBeforeCreation, Busy, Running, NoSumSent
  <2>3. /\ UNCHANGED <<sum, wire, disk, sumbuf, pc>>
        /\ job'[k].sum = sum[g] /\ \A j \in Keys \ {k} : job'[j] = job[j]
    BY <1>1 DEF RunTask, TypeOK
  <2>4. g = f
    BY DEF OneFile
  <2>5. NoSumSent(k)' /\ Trapped(k, f)'
    BY <2>2, <2>3, <2>4 DEF NoSumSent, Trapped
  <2>6. ASSUME NEW j \in Keys \ {k}, job[j] # NoJob PROVE NoSumSent(j)' /\ Trapped(j, f)'
    <3>1. NoSumSent(j) /\ Trapped(j, f)
      BY <2>6, WedgeTraps
    <3> QED BY <3>1, <2>3 DEF NoSumSent, Trapped, Local
  <2> QED BY <2>3, <2>5, <2>6 DEF Wedged, Trapped, NoSumSent
<1>2. ASSUME NEW k \in Keys, HwSend(k) PROVE Wedged(f)'
  BY <1>2, WedgeMove, MessageFacts DEF HwSend
<1>3. ASSUME NEW k \in Keys, CheckTaskState(k) PROVE Wedged(f)'
  BY <1>3, WedgeMove DEF CheckTaskState
<1>4. ASSUME NEW k \in Keys, StateMsg(k) PROVE Wedged(f)'
  BY <1>4, WedgeMove DEF StateMsg
<1>5. ASSUME NEW k \in Keys, NewSum(k) PROVE FALSE
  BY <1>5, WedgeHolds DEF NewSum, NoSumSent
<1>6. ASSUME NEW k \in Keys, CmdRun(k) PROVE Wedged(f)'
  <2>1. pc[k] = "idle" /\ pc'[k] \in {"get", "end"}
    BY <1>6 DEF CmdRun, Goto, TypeOK
  <2>2. job[k] # NoJob => Trapped(k, f)'
    <3> SUFFICES ASSUME job[k] # NoJob PROVE Trapped(k, f)'
      OBVIOUS
    <3>1. Trapped(k, f)
      BY WedgeTraps
    <3> QED BY <1>6, <2>1, <3>1 DEF Trapped, CmdRun, center
  <2>3. /\ UNCHANGED <<sum, disk, job, sumbuf>> /\ wire' \subseteq wire
        /\ \A j \in Keys \ {k} : pc'[j] = pc[j]
    BY <1>6 DEF CmdRun, Goto, center, TypeOK
  <2> QED BY <2>2, <2>3, WedgeMove
<1>7. ASSUME NEW k \in Keys, \/ ResFile(k) \/ FetchFails(k)
                             \/ FileFound(k) \/ GetFileLen(k)
      PROVE Wedged(f)'
  <2>1. job[k] # NoJob
    BY <1>7, JobFacts, DataFacts DEF ResFile, FetchFails, FileFound, GetFileLen, Goto
  <2>2. Trapped(k, f) /\ Local(k) # Blank /\ sum[f] # NoSum
    <3>1. sum[f] # NoSum
      BY DEF Wedged
    <3> QED BY <2>1, <3>1, WedgeTraps
  <2>3. UNCHANGED <<sum, disk, job, sumbuf, wire>> /\ \A j \in Keys \ {k} : pc'[j] = pc[j]
    BY <1>7 DEF ResFile, FetchFails, FileFound, GetFileLen, Goto, center, TypeOK
  <2>4. \/ pc[k] = "get" /\ pc'[k] \in {"check", "end"}
        \/ /\ pc[k] = "check" /\ Local(k) # Absent
           /\ pc'[k] = IF job[k].sum = NoSum THEN "open" ELSE "size"
        \/ pc[k] = "size" /\ pc'[k] = IF Local(k) \in {Absent, Blank} THEN "open" ELSE "hash"
    BY <1>7 DEF ResFile, FetchFails, FileFound, GetFileLen, Goto, TypeOK
  <2>5. Trapped(k, f)'
    BY <2>2, <2>3, <2>4 DEF Trapped, Local
  <2> QED BY <2>3, <2>5, WedgeMove
<1>8. ASSUME NEW k \in Keys, FileMissing(k) \/ SumVanished(k) PROVE Wedged(f)'
  <2>1. pc'[k] = "end" /\ \A j \in Keys \ {k} : pc'[j] = pc[j]
    BY <1>8 DEF FileMissing, SumVanished, Goto, TypeOK
  <2>2. UNCHANGED <<sum, disk, job, sumbuf>> /\ wire' \subseteq wire \cup {Verdict(k, "error")}
    BY <1>8 DEF FileMissing, SumVanished, Post, center
  <2>3. \A m \in wire' : m \in wire \/ (m.key = k /\ m.type # "filesum")
    BY <2>2, MessageFacts
  <2> QED BY <2>1, <2>2, <2>3, WedgeMove DEF Trapped
<1>9. ASSUME NEW k \in Keys, SumLocal(k) PROVE Wedged(f)'
  <2>1. job[k] # NoJob
    BY <1>9, JobFacts, DataFacts DEF SumLocal, Goto
  <2>2. /\ job[k].node \in Nodes /\ Trapped(k, f) /\ Local(k) # sum[f]
    BY <2>1, WedgeTraps
  <2>3. PICK s \in {Local(k)} \cup Clash(k, Local(k)) : sumbuf' = [sumbuf EXCEPT ![job[k].node] = s]
    BY <1>9 DEF SumLocal, StoreSum
  <2>4. s # sum[f] \/ sum[f] = Garbled
    BY <2>2 DEF Clash
  <2>5. /\ \A n \in Nodes \ {job[k].node} : sumbuf'[n] = sumbuf[n]
        /\ sumbuf'[job[k].node] # sum[f] \/ sum[f] = Garbled
    BY <2>2, <2>3, <2>4 DEF TypeOK
  <2>6. /\ UNCHANGED <<sum, disk, job, wire>>
        /\ pc[k] = "hash" /\ pc'[k] = "compare" /\ \A j \in Keys \ {k} : pc'[j] = pc[j]
    BY <1>9 DEF SumLocal, Goto, center, TypeOK
  <2>7. Trapped(k, f)'
    BY <2>2, <2>5, <2>6 DEF Trapped
  <2> QED BY <2>5, <2>6, <2>7, WedgeMove
<1>10. ASSUME NEW k \in Keys, CompareSum(k) PROVE Wedged(f)'
  <2>1. pc[k] = "compare" /\ job[k] # NoJob
    BY <1>10, JobFacts, DataFacts DEF CompareSum
  <2>2. job[k].sum = sum[f] /\ (sumbuf[job[k].node] # sum[f] \/ sum[f] = Garbled)
    BY <2>1, WedgeTraps DEF Trapped
  <2>3. \A s \in Loaded(k) : ~(s = job[k].sum /\ s # Garbled)
    BY <2>2 DEF Loaded, Clash
  <2>4. Goto(k, "compare", "end") /\ Post(Verdict(k, "error"))
    BY <1>10, <2>3 DEF CompareSum
  <2>5. pc'[k] = "end" /\ \A j \in Keys \ {k} : pc'[j] = pc[j]
    BY <2>4 DEF Goto, TypeOK
  <2>6. /\ UNCHANGED <<sum, disk, job, sumbuf>>
        /\ \A m \in wire' : m \in wire \/ (m.key = k /\ m.type # "filesum")
    BY <1>10, <2>4, MessageFacts DEF CompareSum, Post, center
  <2> QED BY <2>5, <2>6, WedgeMove DEF Trapped
<1>11. ASSUME NEW k \in Keys, \/ OpenFile(k) \/ OpenFails(k) \/ Writes(k) \/ ReportSuccess(k)
                              \/ SumWritten(k) \/ SumOfNothing(k) \/ ReportSum(k)
       PROVE FALSE
  BY <1>11, WedgeHolds
     DEF OpenFile, OpenFails, Writes, WriteBody, WriteFails, CloseFails, ReportSuccess,
         SumWritten, SumOfNothing, ReportSum, Goto
<1>12. ASSUME NEW g \in Files, EditConf(g) PROVE Wedged(f)'
  BY <1>12 DEF EditConf, Wedged, Local
<1>13. ASSUME NEW n \in Nodes, ChSte(n) PROVE Wedged(f)'
  BY <1>13 DEF ChSte, Wedged, Local
<1>14. ASSUME NEW n \in Nodes, Crash(n) PROVE Wedged(f)'
  <2>1. /\ UNCHANGED <<sum, disk, job, wire>>
        /\ \A m \in Nodes : sumbuf'[m] = sumbuf[m] \/ sumbuf'[m] = NoSum
        /\ \A j \in Keys : pc'[j] \in {pc[j], "end"}
    BY <1>14 DEF Crash, center, TypeOK
  <2>2. sum[f] # NoSum
    BY DEF Wedged
  <2>3. ASSUME NEW j \in Keys, job[j] # NoJob PROVE NoSumSent(j)' /\ Trapped(j, f)'
    <3>1. NoSumSent(j) /\ Trapped(j, f) /\ job[j].node \in Nodes
      BY <2>3, WedgeTraps
    <3> QED BY <3>1, <2>1, <2>2 DEF NoSumSent, Trapped, Local
  <2> QED BY <2>1, <2>3 DEF Wedged, Trapped, NoSumSent
<1>15. ASSUME NEW n \in Nodes, NEW g \in Files, LocalEdit(n, g)
       PROVE  \E m \in Nodes : LocalEdit(m, f)
  BY <1>15 DEF OneFile
<1>16. CASE UNCHANGED vars
  BY <1>16 DEF Wedged, Local, vars
<1> QED BY <1>1, <1>2, <1>3, <1>4, <1>5, <1>6, <1>7, <1>8, <1>9, <1>10, <1>11, <1>12,
           <1>13, <1>14, <1>15, <1>16
           DEF Next, TaskStep, Hcon, Writes

\* With one configuration file, a file whose sum at the center matches no node's
\* copy is never pushed again, whatever is edited, pushed, lost or restarted, until
\* somebody changes it on a node.
THEOREM WedgePermanent ==
    ASSUME OneFile
    PROVE  Spec => WedgeIsPermanent
<1>1. IInv /\ [Next]_vars =>
         [\A f \in Files : Wedged(f) =>
             Wedged(f)' \/ \E n \in Nodes : LocalEdit(n, f)]_vars
  BY WedgeStep DEF IInv
<1> QED BY <1>1, Invariance, PTL DEF Spec, WedgeIsPermanent
=============================================================================
