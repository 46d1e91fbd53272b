------------------------ MODULE TaskPushSerialProofs ------------------------
(***************************************************************************)
(* What TaskPush guarantees when the tasks of a file are run one by one,   *)
(* as the push page of one operator does: for any sets of nodes and texts  *)
(* and any finite set of tasks.  Each theorem names the events it excludes *)
(* and the further hypotheses it needs.                                    *)
(***************************************************************************)
EXTENDS TaskPushProofs, FiniteSetTheorems

OneByOne == MaxLive <= 1 /\ IsFiniteSet(Keys)

OneFile  == \A f, g \in Files : f = g
OneNode  == \A m, n \in Nodes : m = n

----------------------------------------------------------------------------
(* One task of a file at a time.                                           *)

One == \A j, k \in Keys : Busy(j) /\ Busy(k) /\ job[j].file = job[k].file => j = k

\* Where a task of a file may be created, none of them is in flight.
LEMMA NoneLive ==
    ASSUME OneByOne, NEW f \in Files, Cardinality(Live(f)) < MaxLive
    PROVE  Live(f) = {}
<1>1. IsFiniteSet(Live(f))
  BY FS_Subset DEF OneByOne, Live
<1>2. Cardinality(Live(f)) \in Nat
  BY <1>1, FS_CardinalityType
<1>3. Cardinality(Live(f)) = 0
  BY <1>2, MaxLiveIsNat DEF OneByOne
<1> QED BY <1>1, <1>3, FS_EmptySet

\* A task in flight has a job.
LEMMA BusyHasJob ==
    ASSUME TypeOK, NEW k \in Keys, Busy(k)
    PROVE  /\ job[k] # NoJob /\ job[k] \in Jobs
           /\ job[k].node \in Nodes /\ job[k].file \in Files /\ job[k].sum \in Sums
<1>1. job[k] # NoJob /\ job[k] \in Jobs
  BY DEF TypeOK, NothingBeforeCreation
<1> QED BY <1>1 DEF Jobs

\* Only a task that was in flight goes on being so, unless it was just created; and
\* no other step changes its job.
OfBusyOnly(k) == /\ UNCHANGED job
                 /\ Busy(k)
                 /\ \A j \in Keys \ {k} : /\ ui'[j] = ui[j] /\ pc'[j] = pc[j]
                                          /\ \A m \in wire' : m.key = j => m \in wire
                 /\ wire' \subseteq Messages

\* A step that makes no task busy keeps them one by one.
LEMMA BusyStays ==
    ASSUME NEW k \in Keys, OfBusyOnly(k), One
    PROVE  One'
<1>1. \A j \in Keys : Busy(j)' => Busy(j)
  BY DEF OfBusyOnly, Busy, Running
<1> QED BY <1>1 DEF One, OfBusyOnly

\* Every step keeps tasks one by one.
LEMMA OneStep ==
    ASSUME OneByOne, TypeOK, OpenPresent, Phases, One, [Next]_vars, TypeOK'
    PROVE  One'
<1>0. wire' \subseteq Messages
  BY DEF TypeOK
<1>1. ASSUME NEW k \in Keys, NEW n \in Nodes, NEW f \in Files, RunTask(k, n, f) PROVE One'
  <2>1. Live(f) = {}
    BY <1>1, NoneLive DEF RunTask
  <2>2. /\ job'[k].file = f /\ \A j \in Keys \ {k} : job'[j] = job[j]
        /\ \A j \in Keys \ {k} : Busy(j)' => Busy(j)
    BY <1>1 DEF RunTask, TypeOK, Busy, Running
  <2>3. \A j \in Keys \ {k} : Busy(j)' => job'[j].file # f
    BY <2>1, <2>2, BusyHasJob DEF Live
  <2> QED BY <2>2, <2>3 DEF One
<1>2. ASSUME NEW k \in Keys, HwSend(k) PROVE One'
  <2>1. OfBusyOnly(k)
    BY <1>2, <1>0, MessageFacts DEF HwSend, OfBusyOnly, Busy, TypeOK
  <2> QED BY <2>1, BusyStays
<1>3. ASSUME NEW k \in Keys, CheckTaskState(k) PROVE One'
  BY <1>3 DEF CheckTaskState, One, Busy, Running, TypeOK
<1>4. ASSUME NEW k \in Keys, StateMsg(k) \/ NewSum(k) \/ CmdRun(k) PROVE One'
  <2>1. Busy(k) /\ wire' \subseteq wire
    BY <1>4, MessageFacts DEF StateMsg, NewSum, CmdRun, Busy
  <2>2. \A j \in Keys \ {k} : ui'[j] = ui[j] /\ pc'[j] = pc[j]
    BY <1>4 DEF StateMsg, NewSum, CmdRun, Goto, TypeOK, center
  <2>3. UNCHANGED job
    BY <1>4 DEF StateMsg, NewSum, CmdRun, center
  <2>4. OfBusyOnly(k)
    BY <1>0, <2>1, <2>2, <2>3 DEF OfBusyOnly
  <2> QED BY <2>4, BusyStays
<1>5. ASSUME NEW k \in Keys, Hcon(k) PROVE One'
  <2>1. Busy(k)
    BY <1>5 DEF Hcon, ResFile, FetchFails, FileMissing, FileFound, GetFileLen, SumLocal,
                SumVanished, CompareSum, OpenFile, OpenFails, WriteBody, WriteFails,
                CloseFails, ReportSuccess, SumWritten, SumOfNothing, ReportSum, Goto,
                Busy, Running
  <2>2. \A j \in Keys \ {k} : pc'[j] = pc[j]
    BY <1>5 DEF Hcon, ResFile, FetchFails, FileMissing, FileFound, GetFileLen, SumLocal,
                SumVanished, CompareSum, OpenFile, OpenFails, WriteBody, WriteFails,
                CloseFails, ReportSuccess, SumWritten, SumOfNothing, ReportSum, Goto,
                TypeOK
  <2>3. UNCHANGED <<job, ui>>
    BY <1>5 DEF Hcon, ResFile, FetchFails, FileMissing, FileFound, GetFileLen, SumLocal,
                SumVanished, CompareSum, OpenFile, OpenFails, WriteBody, WriteFails,
                CloseFails, ReportSuccess, SumWritten, SumOfNothing, ReportSum, center
  <2>4. \A m \in wire' : m \in wire \/ m.key = k
    BY <1>5 DEF Hcon, ResFile, FetchFails, FileMissing, FileFound, GetFileLen, SumLocal,
                SumVanished, CompareSum, OpenFile, OpenFails, WriteBody, WriteFails,
                CloseFails, ReportSuccess, SumWritten, SumOfNothing, ReportSum, Post,
                Verdict, NewSumOf
  <2>5. OfBusyOnly(k)
    BY <1>0, <2>1, <2>2, <2>3, <2>4 DEF OfBusyOnly
  <2> QED BY <2>5, BusyStays
<1>6. ASSUME NEW n \in Nodes, Crash(n) PROVE One'
  BY <1>6 DEF Crash, One, Busy, Running, TypeOK, center
<1>7. ASSUME \/ \E f \in Files : EditConf(f)
             \/ \E n \in Nodes : ChSte(n)
             \/ \E n \in Nodes, f \in Files : LocalEdit(n, f)
             \/ UNCHANGED vars
      PROVE  One'
  BY <1>7 DEF EditConf, ChSte, LocalEdit, center, vars, One, Busy, Running
<1> QED BY <1>1, <1>2, <1>3, <1>4, <1>5, <1>6, <1>7 DEF Next, TaskStep

\* A step of task k at its file leaves the files of all other tasks in flight alone.
LEMMA DiskPut ==
    ASSUME TypeOK, One, NEW k \in Keys, Busy(k), NEW c, UNCHANGED job,
           disk' = [disk EXCEPT ![job[k].node][job[k].file] = c]
    PROVE  /\ Local(k)' = c
           /\ \A j \in Keys \ {k} : Busy(j) => Local(j)' = Local(j)
           /\ \A n \in Nodes, f \in Files :
                 f # job[k].file => disk'[n][f] = disk[n][f]
<1>1. job[k].node \in Nodes /\ job[k].file \in Files
  BY BusyHasJob
<1>2. \A n \in Nodes, f \in Files :
         disk'[n][f] = IF n = job[k].node /\ f = job[k].file THEN c ELSE disk[n][f]
  BY <1>1 DEF TypeOK
<1>3. Local(k)' = c
  BY <1>1, <1>2 DEF Local
<1>4. ASSUME NEW j \in Keys \ {k}, Busy(j) PROVE Local(j)' = Local(j)
  <2>1. job[j].node \in Nodes /\ job[j].file \in Files /\ job[j].file # job[k].file
    BY <1>4, BusyHasJob DEF One
  <2> QED BY <2>1, <1>2 DEF Local
<1> QED BY <1>2, <1>3, <1>4

----------------------------------------------------------------------------
(* A task that says "success" pushed the whole text.                       *)

\* No body breaks off, no write fails and nobody else writes the file.
NothingTorn == Events \cap {"cut", "write", "local"} = {}

\* From fopen to the verdict: the file is empty, then it is what the center sent.
Whole(k) ==
    /\ pc[k] = "body" => Local(k) = Blank
    /\ pc[k] = "report" => put[k] = body[k]
    /\ Verdict(k, "success") \in wire => put[k] = body[k]
    /\ task[k] \in {"success", "deleted"} => put[k] = body[k]

Wholes == \A k \in Keys : Whole(k)

\* Steps that write no file and receive no text.
LEMMA WholeFrame ==
    ASSUME Wholes, UNCHANGED <<job, body, put, disk>>,
           \A j \in Keys : pc'[j] \in {"body", "report"} => pc'[j] = pc[j],
           \A j \in Keys : Verdict(j, "success") \in wire' =>
                              Verdict(j, "success") \in wire \/ pc[j] = "report",
           \A j \in Keys : task'[j] \in {"success", "deleted"} =>
                              \/ task[j] \in {"success", "deleted"}
                              \/ Verdict(j, "success") \in wire
    PROVE  Wholes'
  BY DEF Wholes, Whole, Local

\* Every step leaves no file torn.
LEMMA WholeStep ==
    ASSUME NothingTorn, TypeOK, Phases, One, Wholes, [Next]_vars
    PROVE  Wholes'
<1>1. ASSUME NEW k \in Keys, NEW n \in Nodes, NEW f \in Files, RunTask(k, n, f) PROVE Wholes'
  <2>1. job[k] = NoJob
    BY <1>1 DEF RunTask, Phases, Phase
  <2>2. pc[k] \in {"idle", "end"}
    BY <2>1 DEF TypeOK, NothingBeforeCreation, Busy, Running
  <2>3. /\ UNCHANGED <<wire, disk, pc, body, put>> /\ task[k] = "unborn" /\ task'[k] = "wait"
        /\ \A j \in Keys \ {k} : job'[j] = job[j] /\ task'[j] = task[j]
    BY <1>1 DEF RunTask, TypeOK
  <2> QED BY <2>2, <2>3 DEF Wholes, Whole, Local
<1>2. ASSUME NEW k \in Keys, HwSend(k) PROVE Wholes'
  <2>1. \A j \in Keys : Verdict(j, "success") \in wire' => Verdict(j, "success") \in wire
    BY <1>2, MessageFacts DEF HwSend
  <2> QED BY <1>2, <2>1, WholeFrame DEF HwSend
<1>3. ASSUME NEW k \in Keys, CheckTaskState(k) PROVE Wholes'
  <2>1. \A j \in Keys : task'[j] \in {"success", "deleted"} => task[j] \in {"success", "deleted"}
    BY <1>3 DEF CheckTaskState, TypeOK
  <2> QED BY <1>3, <2>1, WholeFrame DEF CheckTaskState
<1>4. ASSUME NEW k \in Keys, StateMsg(k) PROVE Wholes'
  <2>1. PICK m \in wire : /\ m.type = "state" /\ m.key = k /\ wire' = wire \ {m}
                          /\ task' = [task EXCEPT ![k] = IF @ \in Rows THEN m.ste ELSE @]
    BY <1>4 DEF StateMsg
  <2>2. m.ste \in {"success", "error"} /\ m = Verdict(k, m.ste)
    BY <2>1, MessageFacts DEF TypeOK
  <2>3. \A j \in Keys : task'[j] \in {"success", "deleted"} =>
                           \/ task[j] \in {"success", "deleted"}
                           \/ Verdict(j, "success") \in wire
    BY <2>1, <2>2 DEF TypeOK
  <2> QED BY <1>4, <2>1, <2>3, WholeFrame DEF StateMsg
<1>5. ASSUME NEW k \in Keys, NewSum(k) PROVE Wholes'
  BY <1>5, WholeFrame DEF NewSum
<1>6. ASSUME NEW k \in Keys, ResFile(k) PROVE Wholes'
  <2>1. put[k] = NoWrite /\ task[k] = "wait" /\ ~Told(k)
    BY <1>6, BeforeOpen DEF ResFile, Before
  <2>2. /\ UNCHANGED <<task, job, wire, disk, put>> /\ pc'[k] \notin {"body", "report"}
        /\ \A j \in Keys \ {k} : pc'[j] = pc[j] /\ body'[j] = body[j]
    BY <1>6 DEF ResFile, Goto, TypeOK, center
  <2>3. Whole(k)'
    BY <2>1, <2>2 DEF Whole, Told
  <2>4. \A j \in Keys \ {k} : Whole(j)'
    BY <2>2 DEF Wholes, Whole, Local
  <2> QED BY <2>3, <2>4 DEF Wholes
<1>7. ASSUME NEW k \in Keys, OpenFile(k) PROVE Wholes'
  <2>1. put[k] = NoWrite /\ task[k] = "wait" /\ ~Told(k)
    BY <1>7, BeforeOpen DEF OpenFile, Goto, Before
  <2>2. Busy(k) /\ disk' = [disk EXCEPT ![job[k].node][job[k].file] = Blank] /\ UNCHANGED job
    BY <1>7 DEF OpenFile, Goto, Busy, Running, center
  <2>3. Local(k)' = Blank /\ \A j \in Keys \ {k} : Busy(j) => Local(j)' = Local(j)
    BY <2>2, DiskPut
  <2>4. /\ UNCHANGED <<task, wire, body>> /\ pc'[k] = "body"
        /\ \A j \in Keys \ {k} : pc'[j] = pc[j] /\ put'[j] = put[j]
    BY <1>7 DEF OpenFile, Goto, TypeOK, center
  <2>5. Whole(k)'
    BY <2>1, <2>3, <2>4 DEF Whole, Told
  <2>6. ASSUME NEW j \in Keys \ {k} PROVE Whole(j)'
    <3>1. pc[j] = "body" => Busy(j)
      BY DEF Busy, Running
    <3> QED BY <3>1, <2>3, <2>4 DEF Wholes, Whole
  <2> QED BY <2>5, <2>6 DEF Wholes
<1>8. ASSUME NEW k \in Keys, Writes(k) PROVE Wholes'
  <2>1. WriteBody(k) /\ pc[k] = "body"
    BY <1>8 DEF Writes, WriteBody, WriteFails, CloseFails, NothingTorn, Goto
  <2>2. Write(k, body[k])
    BY <2>1 DEF WriteBody, NothingTorn
  <2>3. Local(k) = Blank
    BY <2>1 DEF Wholes, Whole
  <2>4. After(k, body[k]) = {body[k]}
    BY <2>3 DEF After
  <2>5. /\ disk' = [disk EXCEPT ![job[k].node][job[k].file] = body[k]]
        /\ put' = [put EXCEPT ![k] = body[k]]
    BY <2>2, <2>4 DEF Write
  <2>6. Busy(k) /\ UNCHANGED <<job, task, wire, body>>
    BY <2>1 DEF WriteBody, Busy, Running, center
  <2>7. \A j \in Keys \ {k} : Busy(j) => Local(j)' = Local(j)
    BY <2>5, <2>6, DiskPut
  <2>8. /\ pc'[k] = "report" /\ put'[k] = body[k]
        /\ \A j \in Keys \ {k} : pc'[j] = pc[j] /\ put'[j] = put[j]
    BY <2>1, <2>5 DEF WriteBody, Goto, TypeOK
  <2>9. Whole(k)'
    BY <2>6, <2>8 DEF Whole
  <2>10. ASSUME NEW j \in Keys \ {k} PROVE Whole(j)'
    <3>1. pc[j] = "body" => Busy(j)
      BY DEF Busy, Running
    <3> QED BY <3>1, <2>6, <2>7, <2>8 DEF Wholes, Whole
  <2> QED BY <2>9, <2>10 DEF Wholes
<1>9. ASSUME NEW k \in Keys, \/ CmdRun(k) \/ FetchFails(k) \/ FileFound(k) \/ GetFileLen(k)
                             \/ SumLocal(k) \/ OpenFails(k) \/ SumWritten(k)
      PROVE  Wholes'
  <2>1. /\ \A j \in Keys : pc'[j] \in {"body", "report"} => pc'[j] = pc[j]
        /\ UNCHANGED <<job, task, body, put, disk>> /\ wire' \subseteq wire
    BY <1>9 DEF CmdRun, FetchFails, FileFound, GetFileLen, SumLocal, OpenFails, SumWritten,
                Goto, TypeOK, center
  <2> QED BY <2>1, WholeFrame
<1>10. ASSUME NEW k \in Keys, \/ FileMissing(k) \/ SumVanished(k) \/ CompareSum(k)
                              \/ SumOfNothing(k) \/ ReportSum(k)
       PROVE  Wholes'
  <2>1. /\ \A j \in Keys : pc'[j] \in {"body", "report"} => pc'[j] = pc[j]
        /\ UNCHANGED <<job, task, body, put, disk>>
    BY <1>10 DEF FileMissing, SumVanished, CompareSum, SumOfNothing, ReportSum, Goto,
                 TypeOK, center
  <2>2. \A j \in Keys : Verdict(j, "success") \in wire' => Verdict(j, "success") \in wire
    BY <1>10 DEF FileMissing, SumVanished, CompareSum, SumOfNothing, ReportSum, Post,
                 Verdict, NewSumOf
  <2> QED BY <2>1, <2>2, WholeFrame
<1>11. ASSUME NEW k \in Keys, ReportSuccess(k) PROVE Wholes'
  <2>1. /\ \A j \in Keys : pc'[j] \in {"body", "report"} => pc'[j] = pc[j]
        /\ UNCHANGED <<job, task, body, put, disk>> /\ pc[k] = "report"
    BY <1>11 DEF ReportSuccess, Goto, TypeOK, center
  <2>2. \A j \in Keys : Verdict(j, "success") \in wire' =>
                           Verdict(j, "success") \in wire \/ j = k
    BY <1>11 DEF ReportSuccess, Post, Verdict
  <2> QED BY <2>1, <2>2, WholeFrame
<1>12. ASSUME NEW n \in Nodes, Crash(n) PROVE Wholes'
  <2>1. /\ \A j \in Keys : pc'[j] \in {"body", "report"} => pc'[j] = pc[j]
        /\ UNCHANGED <<job, task, body, put, disk, wire>>
    BY <1>12 DEF Crash, center
  <2> QED BY <2>1 DEF Wholes, Whole, Local
<1>13. ASSUME NEW n \in Nodes, NEW f \in Files, LocalEdit(n, f) PROVE FALSE
  BY <1>13 DEF LocalEdit, NothingTorn
<1>14. ASSUME (\E f \in Files : EditConf(f)) \/ (\E n \in Nodes : ChSte(n)) \/ UNCHANGED vars
       PROVE  Wholes'
  BY <1>14 DEF EditConf, ChSte, vars, Wholes, Whole, Local
<1> QED BY <1>1, <1>2, <1>3, <1>4, <1>5, <1>6, <1>7, <1>8, <1>9, <1>10, <1>11, <1>12,
           <1>13, <1>14
           DEF Next, TaskStep, Hcon, Writes

----------------------------------------------------------------------------
(* The sum at the center is that of a node's copy.                         *)

\* Every report of a sum arrives, and nobody but a thread changes the file.
SumsArrive == Events \cap {"local", "drop", "crash"} = {}

Writing == {"body", "report", "sum", "load"}

\* A report on its way holds the sum of the file as it is, or none.
Sent == \A m \in wire : m.type = "filesum" =>
           /\ m.file = job[m.key].file /\ pc[m.key] = "end"
           /\ m.sum \in {NoSum, Local(m.key)}

\* A thread that takes a sum from the shared buffer finds its own there.
Loads == \A k \in Keys : pc[k] \in {"compare", "load"} => sumbuf[job[k].node] = Local(k)

\* A task of f has opened the file and has not yet told the center the new sum.
Owed(f) == \E k \in Keys :
              /\ job[k] # NoJob /\ job[k].file = f
              /\ \/ pc[k] \in Writing
                 \/ \E m \in wire : m.key = k /\ m.type = "filesum"

Tracks == \A f \in Files : Owed(f) \/ sum[f] = NoSum \/ \E n \in Nodes : disk[n][f] = sum[f]

SumInv == Sent /\ Loads /\ Tracks

\* With one file, a task in flight is the only one.
LEMMA Alone ==
    ASSUME OneFile, TypeOK, One, NEW k \in Keys, Busy(k)
    PROVE  /\ \A j \in Keys \ {k} : ~Busy(j) /\ pc[j] \in {"idle", "end"}
           /\ \A s : Clash(k, s) = {}
<1>1. \A j \in Keys \ {k} : ~Busy(j)
  BY BusyHasJob DEF One, OneFile
<1>2. \A j \in Keys \ {k} : pc[j] \in {"idle", "end"}
  BY <1>1 DEF Busy, Running
<1> QED BY <1>1, <1>2 DEF Clash

\* Steps that change no file, no sum and no report of a sum.
LEMMA SumFrame ==
    ASSUME SumInv, TypeOK, UNCHANGED <<sum, disk, job>>,
           \A m : m.type = "filesum" => (m \in wire' <=> m \in wire),
           \A j \in Keys : pc[j] \in Writing => pc'[j] \in Writing,
           \A j \in Keys : pc[j] = "end" => pc'[j] = "end",
           \A j \in Keys : pc'[j] \in {"compare", "load"} =>
                              sumbuf'[job[j].node] = Local(j)
    PROVE  SumInv'
<1>1. \A j \in Keys : Local(j)' = Local(j)
  BY DEF Local
<1>2. Sent'
  BY <1>1, MessageFacts DEF SumInv, Sent, TypeOK
<1>3. Loads'
  BY <1>1 DEF Loads
<1>4. \A f \in Files : Owed(f) => Owed(f)'
  BY DEF Owed
<1>5. Tracks'
  BY <1>4 DEF SumInv, Tracks
<1> QED BY <1>2, <1>3, <1>5 DEF SumInv

\* The task of a step that writes its file owes the center a sum from then on.
LEMMA SumPut ==
    ASSUME OneFile, TypeOK, One, SumInv, NEW k \in Keys, Busy(k), pc[k] # "end",
           UNCHANGED <<sum, job, wire>>, NEW c,
           disk' = [disk EXCEPT ![job[k].node][job[k].file] = c],
           pc'[k] \in {"body", "report", "sum"},
           \A j \in Keys \ {k} : pc'[j] = pc[j]
    PROVE  SumInv'
<1>1. \A j \in Keys \ {k} : ~Busy(j) /\ pc[j] \in {"idle", "end"}
  BY Alone
<1>2. \A m \in wire : m.type # "filesum"
  <2>1. \A m \in wire : m.key = k
    BY <1>1, MessageFacts DEF Busy, TypeOK
  <2> QED BY <2>1 DEF SumInv, Sent
<1>3. Sent'
  BY <1>2 DEF Sent
<1>4. Loads'
  BY <1>1 DEF Loads
<1>5. job[k] # NoJob /\ job[k].file \in Files
  BY BusyHasJob
<1>6. Owed(job[k].file)'
  BY <1>5 DEF Owed, Writing
<1>7. Tracks'
  BY <1>5, <1>6 DEF Tracks, OneFile
<1> QED BY <1>3, <1>4, <1>7 DEF SumInv

\* Every step keeps the sums tracked.
LEMMA SumStep ==
    ASSUME OneFile, SumsArrive, TypeOK, OpenPresent, Phases, One, SumInv, [Next]_vars
    PROVE  SumInv'
<1>1. ASSUME NEW k \in Keys, NEW n \in Nodes, NEW f \in Files, RunTask(k, n, f) PROVE SumInv'
  <2>1. job[k] = NoJob
    BY <1>1 DEF RunTask, Phases, Phase
  <2>2. /\ pc[k] \in {"idle", "end"} /\ \A m \in wire : m.key # k
    BY <2>1 DEF TypeOK, NothingBeforeCreation, Busy, Running
  <2>3. /\ UNCHANGED <<sum, wire, disk, sumbuf, pc>>
        /\ \A j \in Keys \ {k} : job'[j] = job[j] /\ Local(j)' = Local(j)
    BY <1>1 DEF RunTask, TypeOK, Local
  <2>4. Sent'
    BY <2>2, <2>3, MessageFacts DEF SumInv, Sent, TypeOK
  <2>5. Loads'
    BY <2>2, <2>3 DEF SumInv, Loads
  <2>6. \A g \in Files : Owed(g) => Owed(g)'
    BY <2>1, <2>3 DEF Owed
  <2>7. Tracks'
    BY <2>3, <2>6 DEF SumInv, Tracks
  <2> QED BY <2>4, <2>5, <2>7 DEF SumInv
<1>2. ASSUME NEW k \in Keys, HwSend(k) PROVE SumInv'
  <2>1. \A m : m.type = "filesum" => (m \in wire' <=> m \in wire)
    BY <1>2 DEF HwSend, Cmd
  <2> QED BY <1>2, <2>1, SumFrame DEF HwSend, SumInv, Loads
<1>3. ASSUME NEW k \in Keys, CheckTaskState(k) PROVE SumInv'
  BY <1>3, SumFrame DEF CheckTaskState, SumInv, Loads
<1>4. ASSUME NEW k \in Keys, StateMsg(k) PROVE SumInv'
  BY <1>4, SumFrame DEF StateMsg, SumInv, Loads
<1>5. ASSUME NEW k \in Keys, NewSum(k) PROVE SumInv'
  <2>1. PICK m \in wire : /\ m.type = "filesum" /\ m.key = k /\ wire' = wire \ {m}
                          /\ sum' = [sum EXCEPT ![m.file] = m.sum]
    BY <1>5 DEF NewSum
  <2>2. UNCHANGED <<disk, job, sumbuf, pc>> /\ \A j \in Keys : Local(j)' = Local(j)
    BY <1>5 DEF NewSum, Local
  <2>3. Busy(k) /\ m.file \in Files /\ m.file = job[k].file /\ m.sum \in {NoSum, Local(k)}
    BY <2>1, MessageFacts DEF Busy, TypeOK, SumInv, Sent
  <2>4. Sent' /\ Loads'
    BY <2>1, <2>2, MessageFacts DEF SumInv, Sent, Loads, TypeOK
  <2>5. sum'[m.file] = m.sum
    BY <2>1, <2>3 DEF TypeOK
  <2>6. job[k].node \in Nodes
    BY <2>3, BusyHasJob
  <2>7. sum'[m.file] = NoSum \/ disk[job[k].node][m.file] = sum'[m.file]
    BY <2>3, <2>5 DEF Local
  <2>8. Tracks'
    BY <2>2, <2>3, <2>6, <2>7 DEF Tracks, OneFile
  <2> QED BY <2>4, <2>8 DEF SumInv
<1>6. ASSUME NEW k \in Keys, CmdRun(k) PROVE SumInv'
  <2>1. \A m : m.type = "filesum" => (m \in wire' <=> m \in wire)
    BY <1>6 DEF CmdRun, Cmd
  <2>2. /\ pc[k] = "idle" /\ pc'[k] \in {"get", "end"} /\ \A j \in Keys \ {k} : pc'[j] = pc[j]
        /\ UNCHANGED <<sum, disk, job, sumbuf>>
    BY <1>6 DEF CmdRun, Goto, TypeOK, center
  <2> QED BY <2>1, <2>2, SumFrame DEF SumInv, Loads, Writing
<1>7. ASSUME NEW k \in Keys, \/ ResFile(k) \/ FetchFails(k) \/ FileFound(k) \/ GetFileLen(k)
                             \/ OpenFails(k)
      PROVE  SumInv'
  <2>1. /\ pc[k] \in Before /\ pc'[k] \notin {"compare", "load"}
        /\ \A j \in Keys \ {k} : pc'[j] = pc[j]
        /\ UNCHANGED <<sum, disk, job, sumbuf, wire>>
    BY <1>7 DEF ResFile, FetchFails, FileFound, GetFileLen, OpenFails, Before, Goto,
                TypeOK, center
  <2>2. pc[k] # "end"
    BY <2>1 DEF Before
  <2> QED BY <2>1, <2>2, SumFrame DEF SumInv, Loads, Writing, Before
<1>8. ASSUME NEW k \in Keys, \/ FileMissing(k) \/ SumVanished(k) \/ CompareSum(k)
                             \/ ReportSuccess(k)
      PROVE  SumInv'
  <2>1. /\ \/ pc[k] \in Before /\ pc'[k] \in {"open", "end"}
           \/ pc[k] = "report" /\ pc'[k] = "sum"
        /\ \A j \in Keys \ {k} : pc'[j] = pc[j]
        /\ UNCHANGED <<sum, disk, job, sumbuf>>
    BY <1>8 DEF FileMissing, SumVanished, CompareSum, ReportSuccess, Before, Goto,
                TypeOK, center
  <2>2. \A m : m.type = "filesum" => (m \in wire' <=> m \in wire)
    BY <1>8 DEF FileMissing, SumVanished, CompareSum, ReportSuccess, Post, Verdict
  <2> QED BY <2>1, <2>2, SumFrame DEF SumInv, Loads, Writing, Before
<1>9. ASSUME NEW k \in Keys, SumLocal(k) \/ SumWritten(k) PROVE SumInv'
  <2>1. Busy(k)
    BY <1>9 DEF SumLocal, SumWritten, Goto, Busy, Running
  <2>2. /\ (\A s : Clash(k, s) = {}) /\ job[k].node \in Nodes
        /\ \A j \in Keys \ {k} : pc[j] \in {"idle", "end"}
    BY <2>1, Alone, BusyHasJob
  <2>3. sumbuf' = [sumbuf EXCEPT ![job[k].node] = Local(k)]
    BY <1>9, <2>2 DEF SumLocal, SumWritten, StoreSum
  <2>4. sumbuf'[job[k].node] = Local(k)
    BY <2>2, <2>3 DEF TypeOK
  <2>5. /\ \/ pc[k] = "hash" /\ pc'[k] = "compare"
           \/ pc[k] = "sum" /\ pc'[k] = "load"
        /\ \A j \in Keys \ {k} : pc'[j] = pc[j]
        /\ UNCHANGED <<sum, disk, job, wire>>
    BY <1>9 DEF SumLocal, SumWritten, Goto, TypeOK, center
  <2> QED BY <2>2, <2>4, <2>5, SumFrame DEF Writing
<1>10. ASSUME NEW k \in Keys, OpenFile(k) PROVE SumInv'
  <2>1. /\ Busy(k) /\ pc[k] = "open" /\ pc'[k] = "body" /\ \A j \in Keys \ {k} : pc'[j] = pc[j]
        /\ disk' = [disk EXCEPT ![job[k].node][job[k].file] = Blank]
        /\ UNCHANGED <<sum, job, wire>>
    BY <1>10 DEF OpenFile, Goto, Busy, Running, TypeOK, center
  <2> QED BY <2>1, SumPut
<1>11. ASSUME NEW k \in Keys, Writes(k) PROVE SumInv'
  <2>1. pc[k] = "body" /\ UNCHANGED <<sum, job, wire>>
    BY <1>11, WriteLeaves
  <2>2. PICK c \in Contents : disk' = [disk EXCEPT ![job[k].node][job[k].file] = c]
    BY <1>11, WriteLeaves
  <2>3. pc'[k] \in {"report", "sum"} /\ \A j \in Keys \ {k} : pc'[j] = pc[j]
    BY <1>11, WriteLeaves DEF TypeOK
  <2>4. Busy(k)
    BY <2>1 DEF Busy, Running
  <2> QED BY <2>1, <2>2, <2>3, <2>4, SumPut
<1>12. ASSUME NEW k \in Keys, SumOfNothing(k) \/ ReportSum(k) PROVE SumInv'
  <2>1. /\ Busy(k) /\ pc[k] \in {"sum", "load"} /\ pc'[k] = "end"
        /\ \A j \in Keys \ {k} : pc'[j] = pc[j]
        /\ UNCHANGED <<sum, disk, job, sumbuf>>
    BY <1>12 DEF SumOfNothing, ReportSum, Goto, Busy, Running, TypeOK, center
  <2>2. (\A s : Clash(k, s) = {}) /\ \A j \in Keys \ {k} : pc[j] \in {"idle", "end"}
    BY <2>1, Alone
  <2>3. pc[k] = "load" => Loaded(k) = {Local(k)}
    BY <2>2 DEF Loaded, SumInv, Loads
  <2>4. \E s \in {NoSum, Local(k)} : wire' = wire \cup {NewSumOf(k, job[k].file, s)}
    BY <1>12, <2>3 DEF SumOfNothing, ReportSum, Goto, Post, SumsArrive
  <2>5. \A j \in Keys : Local(j)' = Local(j)
    BY <2>1 DEF Local
  <2>6. Sent'
    <3>1. PICK s \in {NoSum, Local(k)} : wire' = wire \cup {NewSumOf(k, job[k].file, s)}
      BY <2>4
    <3>2. ASSUME NEW m \in wire', m.type = "filesum"
          PROVE  /\ m.file = job[m.key].file /\ pc'[m.key] = "end"
                 /\ m.sum \in {NoSum, Local(m.key)}
      <4>1. CASE m \in wire
        BY <2>1, <3>2, <4>1, MessageFacts DEF SumInv, Sent, TypeOK
      <4>2. CASE m = NewSumOf(k, job[k].file, s)
        BY <2>1, <4>2 DEF NewSumOf
      <4> QED BY <3>1, <4>1, <4>2
    <3>3. \A m \in wire' : m.key \in Keys
      BY <3>1, MessageFacts DEF TypeOK, NewSumOf
    <3> QED BY <2>1, <2>5, <3>2, <3>3 DEF Sent
  <2>7. Loads'
    BY <2>1, <2>2 DEF Loads
  <2>8. job[k] # NoJob /\ job[k].file \in Files
    BY <2>1, BusyHasJob
  <2>9. \A f \in Files : Owed(f)'
    <3>1. \E m \in wire' : m.key = k /\ m.type = "filesum"
      <4>1. PICK s \in {NoSum, Local(k)} : NewSumOf(k, job[k].file, s) \in wire'
        BY <2>4
      <4>2. /\ NewSumOf(k, job[k].file, s).key = k
            /\ NewSumOf(k, job[k].file, s).type = "filesum"
        BY DEF NewSumOf
      <4> QED BY <4>1, <4>2
    <3>2. job'[k] # NoJob /\ \A f \in Files : job'[k].file = f
      BY <2>1, <2>8 DEF OneFile
    <3> QED BY <3>1, <3>2 DEF Owed
  <2>10. Tracks'
    BY <2>9 DEF Tracks
  <2> QED BY <2>6, <2>7, <2>10 DEF SumInv
<1>13. ASSUME \/ \E n \in Nodes : Crash(n)
              \/ \E n \in Nodes, f \in Files : LocalEdit(n, f)
       PROVE  FALSE
  BY <1>13 DEF Crash, LocalEdit, SumsArrive
<1>14. ASSUME (\E f \in Files : EditConf(f)) \/ (\E n \in Nodes : ChSte(n)) \/ UNCHANGED vars
       PROVE  SumInv'
  <2>1. UNCHANGED <<sum, disk, job, sumbuf, wire, pc>>
    BY <1>14 DEF EditConf, ChSte, vars
  <2> QED BY <2>1, SumFrame DEF SumInv, Loads
<1> QED BY <1>1, <1>2, <1>3, <1>4, <1>5, <1>6, <1>7, <1>8, <1>9, <1>10, <1>11, <1>12,
           <1>13, <1>14
           DEF Next, TaskStep, Hcon, Writes

----------------------------------------------------------------------------
(* A refusal means that the node's copy is missing.                        *)

\* Past the access check the file is there and, if it is compared, has a sum.
Checked(k) ==
    /\ pc[k] \in {"size", "hash", "compare", "open"} => Local(k) # Absent
    /\ pc[k] \in {"size", "hash", "compare"} => job[k].sum # NoSum

\* Until the thread opens the file, the sum its row was given is that of the file.
SumFits(k) == Busy(k) /\ pc[k] \in Before => job[k].sum \in {NoSum, Local(k)}

Refused(k) == Verdict(k, "error") \in wire \/ task[k] = "error" => Local(k) = Absent

RefusalInv == \A k \in Keys : Checked(k) /\ SumFits(k) /\ Refused(k)

\* Steps of a task that change no file and refuse nothing.
LEMMA RefusalFrame ==
    ASSUME TypeOK, RefusalInv, UNCHANGED <<disk, job>>, NEW k \in Keys, Checked(k)',
           \A j \in Keys \ {k} : pc'[j] = pc[j],
           \A j \in Keys : Busy(j)' => Busy(j),
           pc'[k] \in Before => pc[k] \in Before,
           \A j \in Keys : Verdict(j, "error") \in wire' =>
                              Verdict(j, "error") \in wire \/ Local(j) = Absent,
           \A j \in Keys : task'[j] = "error" =>
                              Verdict(j, "error") \in wire \/ task[j] = "error"
    PROVE  RefusalInv'
<1>1. \A j \in Keys : Local(j)' = Local(j)
  BY DEF Local
<1>2. ASSUME NEW j \in Keys PROVE Checked(j)'
  <2>1. CASE j = k
    BY <2>1
  <2>2. CASE j # k
    BY <1>1, <2>2 DEF RefusalInv, Checked
  <2> QED BY <2>1, <2>2
<1>3. ASSUME NEW j \in Keys PROVE SumFits(j)'
  BY <1>1 DEF RefusalInv, SumFits
<1>4. ASSUME NEW j \in Keys PROVE Refused(j)'
  BY <1>1 DEF RefusalInv, Refused
<1> QED BY <1>2, <1>3, <1>4 DEF RefusalInv

\* A thread writes its file: no row of that file was refused.
LEMMA RefusalPut ==
    ASSUME OneFile, OneNode, TypeOK, TypeOK', One, RefusalInv, NEW k \in Keys, Busy(k),
           pc'[k] \in {"body", "report", "sum"}, Local(k) # Absent,
           UNCHANGED <<task, job, wire>>,
           \A j \in Keys \ {k} : pc'[j] = pc[j] /\ (Busy(j)' => Busy(j))
    PROVE  RefusalInv'
<1>1. \A j \in Keys \ {k} : ~Busy(j) /\ pc[j] \in {"idle", "end"}
  BY Alone
<1>2. \A j \in Keys : Checked(j)' /\ SumFits(j)'
  BY <1>1 DEF Checked, SumFits, Before
<1>3. ASSUME NEW j \in Keys, Verdict(j, "error") \in wire \/ task[j] = "error" PROVE FALSE
  <2>1. job[j] # NoJob
    BY <1>3, MessageFacts DEF TypeOK, NothingBeforeCreation, Busy
  <2>2. /\ job[j].node \in Nodes /\ job[j].file \in Files
        /\ job[k].node \in Nodes /\ job[k].file \in Files
    BY <2>1, BusyHasJob DEF TypeOK, Jobs
  <2>3. Local(j) = Local(k)
    BY <2>2 DEF Local, OneFile, OneNode
  <2> QED BY <1>3, <2>3 DEF RefusalInv, Refused
<1>4. \A j \in Keys : Refused(j)'
  BY <1>3 DEF Refused
<1> QED BY <1>2, <1>4 DEF RefusalInv

\* Every step keeps refusals true.
LEMMA RefusalStep ==
    ASSUME OneByOne, OneFile, OneNode, SumsArrive,
           TypeOK, OpenPresent, Phases, One, SumInv, RefusalInv, [Next]_vars, TypeOK'
    PROVE  RefusalInv'
<1>1. ASSUME NEW k \in Keys, NEW n \in Nodes, NEW f \in Files, RunTask(k, n, f)
      PROVE  RefusalInv'
  <2>1. job[k] = NoJob /\ task[k] = "unborn"
    BY <1>1 DEF RunTask, Phases, Phase
  <2>2. /\ pc[k] \in {"idle", "end"} /\ Verdict(k, "error") \notin wire
    BY <2>1, MessageFacts DEF TypeOK, NothingBeforeCreation, Busy, Running
  <2>3. Live(f) = {}
    BY <1>1, NoneLive DEF RunTask
  <2>4. ~Owed(f)
    BY <2>3 DEF Owed, Live, Busy, Running, Writing
  <2>5. sum[f] = NoSum \/ \E m \in Nodes : disk[m][f] = sum[f]
    BY <2>4 DEF SumInv, Tracks
  <2>6. sum[f] \in {NoSum, disk[n][f]}
    BY <2>5 DEF OneNode
  <2>7. /\ UNCHANGED <<sum, wire, disk, sumbuf, pc>> /\ task'[k] = "wait"
        /\ job'[k].node = n /\ job'[k].file = f /\ job'[k].sum = sum[f]
        /\ \A j \in Keys \ {k} : /\ job'[j] = job[j] /\ task'[j] = task[j]
                                 /\ Local(j)' = Local(j) /\ (Busy(j)' <=> Busy(j))
    BY <1>1 DEF RunTask, TypeOK, Local, Busy, Running
  <2>8. Checked(k)' /\ SumFits(k)' /\ Refused(k)'
    BY <2>2, <2>6, <2>7 DEF Checked, SumFits, Refused, Local
  <2>9. ASSUME NEW j \in Keys \ {k} PROVE Checked(j)' /\ SumFits(j)' /\ Refused(j)'
    BY <2>7 DEF RefusalInv, Checked, SumFits, Refused
  <2> QED BY <2>8, <2>9 DEF RefusalInv
<1>2. ASSUME NEW k \in Keys, HwSend(k) PROVE RefusalInv'
  <2>1. \A j \in Keys : Verdict(j, "error") \in wire' => Verdict(j, "error") \in wire
    BY <1>2, MessageFacts DEF HwSend
  <2>2. \A j \in Keys : Busy(j)' => Busy(j)
    BY <1>2, MessageFacts DEF HwSend, Busy, Running, TypeOK
  <2>3. Checked(k)'
    BY <1>2 DEF HwSend, RefusalInv, Checked, Local
  <2> QED BY <1>2, <2>1, <2>2, <2>3, RefusalFrame DEF HwSend
<1>3. ASSUME NEW k \in Keys, CheckTaskState(k) PROVE RefusalInv'
  <2>1. \A j \in Keys : task'[j] = "error" => task[j] = "error"
    BY <1>3 DEF CheckTaskState, TypeOK
  <2>2. \A j \in Keys : Busy(j)' => Busy(j)
    BY <1>3 DEF CheckTaskState, Busy, Running, TypeOK
  <2>3. Checked(k)'
    BY <1>3 DEF CheckTaskState, RefusalInv, Checked, Local
  <2> QED BY <1>3, <2>1, <2>2, <2>3, RefusalFrame DEF CheckTaskState
<1>4. ASSUME NEW k \in Keys, StateMsg(k) PROVE RefusalInv'
  <2>1. PICK m \in wire : /\ m.type = "state" /\ m.key = k /\ wire' = wire \ {m}
                          /\ task' = [task EXCEPT ![k] = IF @ \in Rows THEN m.ste ELSE @]
    BY <1>4 DEF StateMsg
  <2>2. m = Verdict(k, m.ste)
    BY <2>1, MessageFacts DEF TypeOK
  <2>3. \A j \in Keys : task'[j] = "error" =>
                           Verdict(j, "error") \in wire \/ task[j] = "error"
    BY <2>1, <2>2 DEF TypeOK
  <2>4. \A j \in Keys : Busy(j)' => Busy(j)
    BY <1>4 DEF StateMsg, Busy, Running
  <2>5. Checked(k)'
    BY <1>4 DEF StateMsg, RefusalInv, Checked, Local
  <2> QED BY <1>4, <2>1, <2>3, <2>4, <2>5, RefusalFrame DEF StateMsg
<1>5. ASSUME NEW k \in Keys, NewSum(k) PROVE RefusalInv'
  <2>1. \A j \in Keys : Busy(j)' => Busy(j)
    BY <1>5 DEF NewSum, Busy, Running
  <2>2. Checked(k)'
    BY <1>5 DEF NewSum, RefusalInv, Checked, Local
  <2> QED BY <1>5, <2>1, <2>2, RefusalFrame DEF NewSum
<1>6. ASSUME NEW k \in Keys, Hcon(k)
      PROVE  /\ Busy(k) /\ \A j \in Keys : Busy(j)' => Busy(j)
             /\ \A j \in Keys \ {k} : pc'[j] = pc[j]
             /\ UNCHANGED <<task, job>>
  <2>1. Busy(k) /\ \A j \in Keys \ {k} : pc'[j] = pc[j]
    BY <1>6 DEF Hcon, ResFile, FetchFails, FileMissing, FileFound, GetFileLen, SumLocal,
                SumVanished, CompareSum, OpenFile, OpenFails, WriteBody, WriteFails,
                CloseFails, ReportSuccess, SumWritten, SumOfNothing, ReportSum, Goto,
                Busy, Running, TypeOK
  <2>2. UNCHANGED <<task, job, ui>>
    BY <1>6 DEF Hcon, ResFile, FetchFails, FileMissing, FileFound, GetFileLen, SumLocal,
                SumVanished, CompareSum, OpenFile, OpenFails, WriteBody, WriteFails,
                CloseFails, ReportSuccess, SumWritten, SumOfNothing, ReportSum, center
  <2>3. \A m \in wire' : m \in wire \/ m.key = k
    BY <1>6 DEF Hcon, ResFile, FetchFails, FileMissing, FileFound, GetFileLen, SumLocal,
                SumVanished, CompareSum, OpenFile, OpenFails, WriteBody, WriteFails,
                CloseFails, ReportSuccess, SumWritten, SumOfNothing, ReportSum, Post,
                Verdict, NewSumOf
  <2>4. \A j \in Keys : Busy(j)' => Busy(j)
    BY <2>1, <2>2, <2>3 DEF Busy, Running
  <2> QED BY <2>1, <2>2, <2>4
<1>7. ASSUME NEW k \in Keys, CmdRun(k) PROVE RefusalInv'
  <2>1. /\ pc[k] = "idle" /\ pc'[k] \in {"get", "end"} /\ \A j \in Keys \ {k} : pc'[j] = pc[j]
        /\ UNCHANGED <<task, disk, job, ui>> /\ wire' \subseteq wire /\ Cmd(k) \in wire
    BY <1>7 DEF CmdRun, Goto, TypeOK, center
  <2>2. \A j \in Keys : Busy(j)' => Busy(j)
    BY <2>1, MessageFacts DEF Busy, Running
  <2>3. Checked(k)'
    BY <2>1 DEF Checked
  <2> QED BY <2>1, <2>2, <2>3, RefusalFrame DEF Before
<1>8. ASSUME NEW k \in Keys, \/ ResFile(k) \/ FetchFails(k) \/ FileFound(k) \/ GetFileLen(k)
                             \/ SumLocal(k) \/ OpenFails(k) \/ SumWritten(k)
                             \/ ReportSuccess(k)
      PROVE  RefusalInv'
  <2>1. /\ \A j \in Keys : Busy(j)' => Busy(j)
        /\ \A j \in Keys \ {k} : pc'[j] = pc[j]
        /\ UNCHANGED <<task, job>>
    BY <1>6, <1>8 DEF Hcon
  <2>2. UNCHANGED disk /\ (pc'[k] \in Before => pc[k] \in Before)
    BY <1>8 DEF ResFile, FetchFails, FileFound, GetFileLen, SumLocal, OpenFails, SumWritten,
                ReportSuccess, Goto, Before, TypeOK
  <2>3. \A j \in Keys : Verdict(j, "error") \in wire' => Verdict(j, "error") \in wire
    BY <1>8 DEF ResFile, FetchFails, FileFound, GetFileLen, SumLocal, OpenFails, SumWritten,
                ReportSuccess, Post, Verdict
  <2>4. \/ pc[k] \in {"size", "hash"}
        \/ pc[k] = "check" /\ Local(k) # Absent /\ (pc'[k] # "open" => job[k].sum # NoSum)
        \/ pc'[k] \notin {"size", "hash", "compare", "open"}
    BY <1>8 DEF ResFile, FetchFails, FileFound, GetFileLen, SumLocal, OpenFails, SumWritten,
                ReportSuccess, Goto, TypeOK
  <2>5. Checked(k)'
    BY <2>1, <2>2, <2>4 DEF RefusalInv, Checked, Local
  <2> QED BY <2>1, <2>2, <2>3, <2>5, RefusalFrame
<1>9. ASSUME NEW k \in Keys, FileMissing(k) \/ SumOfNothing(k) \/ ReportSum(k)
      PROVE  RefusalInv'
  <2>1. /\ \A j \in Keys : Busy(j)' => Busy(j)
        /\ \A j \in Keys \ {k} : pc'[j] = pc[j]
        /\ UNCHANGED <<task, job>>
    BY <1>6, <1>9 DEF Hcon
  <2>2. UNCHANGED disk /\ pc'[k] = "end"
    BY <1>9 DEF FileMissing, SumOfNothing, ReportSum, Goto, TypeOK
  <2>3. \A j \in Keys : Verdict(j, "error") \in wire' =>
                           Verdict(j, "error") \in wire \/ Local(j) = Absent
    BY <1>9 DEF FileMissing, SumOfNothing, ReportSum, Post, Verdict, NewSumOf
  <2> QED BY <2>1, <2>2, <2>3, RefusalFrame DEF Checked, Before
<1>10. ASSUME NEW k \in Keys, SumVanished(k) PROVE FALSE
  BY <1>10 DEF SumVanished, Goto, RefusalInv, Checked
<1>11. ASSUME NEW k \in Keys, CompareSum(k) PROVE RefusalInv'
  <2>1. /\ Busy(k) /\ \A j \in Keys : Busy(j)' => Busy(j)
        /\ \A j \in Keys \ {k} : pc'[j] = pc[j]
        /\ UNCHANGED <<task, job, disk>>
    BY <1>6, <1>11 DEF Hcon, CompareSum
  <2>2. pc[k] = "compare" /\ Loaded(k) = {sumbuf[job[k].node]}
    BY <1>11, <2>1, Alone DEF CompareSum, Loaded
  <2>3. /\ sumbuf[job[k].node] = Local(k) /\ Local(k) # Absent
        /\ job[k].sum = Local(k)
    BY <2>1, <2>2 DEF SumInv, Loads, RefusalInv, Checked, SumFits, Before
  <2>4. Local(k) # Garbled
    BY <2>2, <2>3, JobFacts, SpecialValues
  <2>5. Goto(k, "compare", "open") /\ UNCHANGED wire
    BY <1>11, <2>2, <2>3, <2>4 DEF CompareSum
  <2>6. pc'[k] = "open"
    BY <2>5 DEF Goto, TypeOK
  <2>7. Checked(k)'
    BY <2>1, <2>3, <2>6 DEF Checked, Local
  <2> QED BY <2>1, <2>2, <2>5, <2>7, RefusalFrame DEF Before
<1>12. ASSUME NEW k \in Keys, OpenFile(k) \/ Writes(k) PROVE RefusalInv'
  <2>1. /\ Busy(k) /\ \A j \in Keys : Busy(j)' => Busy(j)
        /\ \A j \in Keys \ {k} : pc'[j] = pc[j]
        /\ UNCHANGED <<task, job>>
    BY <1>6, <1>12 DEF Hcon, Writes
  <2>2. /\ pc[k] \in {"open", "body"} /\ pc'[k] \in {"body", "report", "sum"}
        /\ UNCHANGED wire
    BY <1>12 DEF OpenFile, Writes, WriteBody, WriteFails, CloseFails, Goto, TypeOK
  <2>3. Local(k) # Absent
    BY <2>2 DEF OpenPresent, RefusalInv, Checked, Local
  <2> QED BY <2>1, <2>2, <2>3, RefusalPut
<1>13. ASSUME \/ \E n \in Nodes : Crash(n)
              \/ \E n \in Nodes, f \in Files : LocalEdit(n, f)
       PROVE  FALSE
  BY <1>13 DEF Crash, LocalEdit, SumsArrive
<1>14. ASSUME (\E f \in Files : EditConf(f)) \/ (\E n \in Nodes : ChSte(n)) \/ UNCHANGED vars
       PROVE  RefusalInv'
  <2>1. UNCHANGED <<sum, disk, job, wire, pc, task, ui>>
    BY <1>14 DEF EditConf, ChSte, vars
  <2> QED BY <2>1 DEF RefusalInv, Checked, SumFits, Refused, Local, Busy, Running
<1> QED BY <1>1, <1>2, <1>3, <1>4, <1>5, <1>7, <1>8, <1>9, <1>10, <1>11, <1>12,
           <1>13, <1>14
           DEF Next, TaskStep, Hcon, Writes

----------------------------------------------------------------------------
(* The theorems.                                                           *)

\* Initially nothing is in flight, reported or refused.
LEMMA InitSerial == Init => One /\ Wholes /\ SumInv /\ RefusalInv
<1> SUFFICES ASSUME Init PROVE One /\ Wholes /\ SumInv /\ RefusalInv
  OBVIOUS
<1>1. \A k \in Keys : pc[k] = "idle" /\ task[k] = "unborn" /\ ~Busy(k)
  BY DEF Init, Busy, Running
<1>2. wire = {} /\ \A f \in Files : sum[f] = NoSum
  BY DEF Init
<1> QED BY <1>1, <1>2 DEF One, Wholes, Whole, SumInv, Sent, Loads, Tracks, RefusalInv,
                          Checked, SumFits, Refused

\* Tasks of one file that are created one by one never overlap.
THEOREM Serial ==
    ASSUME OneByOne
    PROVE  Spec => [](IInv /\ One)
<1>1. Init => IInv /\ One
  BY InitInv, InitSerial
<1>2. IInv /\ One /\ [Next]_vars => IInv' /\ One'
  BY StepInv, OneStep DEF IInv
<1> QED BY <1>1, <1>2, PTL DEF Spec

\* "success" stands for the whole text the center sent, when tasks run one by one,
\* no body breaks off, no write fails and nobody else writes the file.
THEOREM WholeSuccess ==
    ASSUME OneByOne, NothingTorn
    PROVE  Spec => []SuccessMeansWhole
<1>1. Init => Wholes
  BY InitSerial
<1>2. IInv /\ One /\ Wholes /\ [Next]_vars => Wholes'
  BY WholeStep DEF IInv
<1>3. Wholes => SuccessMeansWhole
  BY DEF Wholes, Whole, SuccessMeansWhole
<1> QED BY <1>1, <1>2, <1>3, Serial, PTL DEF Spec

\* The sum of a file at the center is that of some node's copy whenever nothing of the
\* file is under way: for one file, tasks run one by one, reports that arrive and no
\* other writer; bodies may break off and writes fail.
THEOREM SumIsTracked ==
    ASSUME OneByOne, OneFile, SumsArrive
    PROVE  Spec => []SumTracksDisk
<1>1. Init => SumInv
  BY InitSerial
<1>2. IInv /\ One /\ SumInv /\ [Next]_vars => SumInv'
  BY SumStep DEF IInv
<1>3. SumInv => SumTracksDisk
  <2> SUFFICES ASSUME SumInv, NEW f \in Files, Live(f) = {}, sum[f] # NoSum
               PROVE  \E n \in Nodes : disk[n][f] = sum[f]
    BY DEF SumTracksDisk
  <2>1. ~Owed(f)
    BY DEF Owed, Live, Busy, Running, Writing
  <2> QED BY <2>1 DEF SumInv, Tracks
<1> QED BY <1>1, <1>2, <1>3, Serial, PTL DEF Spec

\* Under the same hypotheses and with one node, a push is refused only because the
\* node has no copy: no task is ever refused for a wrong sum.
THEOREM RefusalIsTrue ==
    ASSUME OneByOne, OneFile, OneNode, SumsArrive
    PROVE  Spec => []RefusalMeansLocalChange
<1>1. Init => SumInv /\ RefusalInv
  BY InitSerial
<1>2. IInv /\ One /\ SumInv /\ RefusalInv /\ [Next]_vars => SumInv' /\ RefusalInv'
  BY SumStep, RefusalStep, StepInv DEF IInv
<1>3. RefusalInv => RefusalMeansLocalChange
  BY DEF RefusalInv, Refused, RefusalMeansLocalChange, Local
<1> QED BY <1>1, <1>2, <1>3, Serial, PTL DEF Spec
=============================================================================
