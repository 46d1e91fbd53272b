--------------------------- MODULE TaskPushProofs ---------------------------
(***************************************************************************)
(* Proofs about TaskPush, for any sets of nodes, files, tasks and texts,   *)
(* any set of events and any number of tasks in flight.                    *)
(***************************************************************************)
EXTENDS TaskPush, TLAPS

----------------------------------------------------------------------------
(* The inductive invariant.                                                *)

\* A thread that writes its file has a file to write.
OpenPresent ==
    \A k \in Keys : pc[k] = "body" => disk[job[k].node][job[k].file] # Absent

Before == {"idle", "get", "check", "size", "hash", "compare", "open"}   \* file not opened yet
Told(k) == Verdict(k, "error") \in wire \/ Verdict(k, "success") \in wire

\* Where the thread of k is decides what the row, the wire and the file may hold.
Phase(k) ==
    /\ task[k] = "unborn" => job[k] = NoJob
    /\ pc[k] \in Before =>
          put[k] = NoWrite /\ task[k] \in {"unborn", "wait"} /\ ~Told(k)
    /\ pc[k] \in {"body", "report"} =>
          put[k] # NoWrite /\ task[k] = "wait" /\ ~Told(k)
    /\ pc[k] \in {"sum", "load"} => put[k] # NoWrite
    /\ Verdict(k, "error") \in wire => put[k] = NoWrite /\ task[k] = "wait"
    /\ Verdict(k, "success") \in wire => put[k] # NoWrite /\ task[k] = "wait"
    /\ task[k] = "error" => put[k] = NoWrite
    /\ task[k] \in {"success", "deleted"} => put[k] # NoWrite

Phases == \A k \in Keys : Phase(k)

IInv == TypeOK /\ OpenPresent /\ Phases

----------------------------------------------------------------------------
(* Facts about the constants and the messages.                             *)

\* What is known of contents.
LEMMA DataFacts ==
    /\ Blank \in Contents /\ Texts \subseteq Contents /\ Contents \subseteq Sums
    /\ NoSum \in Sums /\ Garbled \in Sums
    /\ Absent \notin Contents /\ NoWrite \notin Contents
    /\ Blank # Absent /\ Blank # NoWrite
    /\ NoJob \notin Jobs
    /\ \A t \in Texts : /\ [text |-> t, part |-> "torn"] \in Contents
                        /\ [text |-> t, part |-> "mixed"] \in Contents
<1>1. /\ Blank \in Contents /\ Texts \subseteq Contents /\ Contents \subseteq Sums
      /\ NoSum \in Sums /\ Garbled \in Sums
  BY DEF Contents, Sums
<1>2. Absent \notin Contents /\ NoWrite \notin Contents
  BY SpecialValues
<1>3. NoJob \notin Jobs
  BY SpecialValues DEF Jobs
<1>4. \A t \in Texts : /\ [text |-> t, part |-> "torn"] \in Contents
                       /\ [text |-> t, part |-> "mixed"] \in Contents
  BY DEF Contents, Partial
<1> QED BY <1>1, <1>2, <1>3, <1>4

\* What is known of messages.
LEMMA MessageFacts ==
    /\ \A k \in Keys : /\ Cmd(k) \in Messages /\ Cmd(k).key = k /\ Cmd(k).type = "cmd"
    /\ \A k \in Keys, v \in {"success", "error"} :
          Verdict(k, v) \in Messages /\ Verdict(k, v).key = k /\ Verdict(k, v).type = "state"
          /\ Verdict(k, v).ste = v
    /\ \A k \in Keys, f \in Files, s \in Sums :
          NewSumOf(k, f, s) \in Messages /\ NewSumOf(k, f, s).key = k
          /\ NewSumOf(k, f, s).type = "filesum"
    /\ \A m \in Messages : m.key \in Keys
    /\ \A m \in Messages : m.type = "state" =>
          m.ste \in {"success", "error"} /\ m = Verdict(m.key, m.ste)
    /\ \A m \in Messages : m.type = "filesum" => m.file \in Files /\ m.sum \in Sums
  BY DEF Messages, Cmd, Verdict, NewSumOf

\* What a thread of a node reads of its local file, once it has a job.
LEMMA JobFacts ==
    ASSUME TypeOK, NEW k \in Keys, pc[k] # "idle", pc[k] # "end"
    PROVE  /\ job[k] \in Jobs
           /\ job[k].node \in Nodes /\ job[k].file \in Files /\ job[k].sum \in Sums
           /\ Local(k) \in Contents \cup {Absent}
<1>1. job[k] # NoJob
  BY DEF TypeOK, NothingBeforeCreation, Busy, Running
<1>2. job[k] \in Jobs
  BY <1>1 DEF TypeOK
<1>3. job[k].node \in Nodes /\ job[k].file \in Files /\ job[k].sum \in Sums
  BY <1>2 DEF Jobs
<1> QED BY <1>2, <1>3 DEF TypeOK, Local
----------------------------------------------------------------------------
(* Every step keeps the types.                                             *)

\* The three ways out of the body loop leave a content in a file that is there.
Writes(k) == WriteBody(k) \/ WriteFails(k) \/ CloseFails(k)

\* What a write changes.
LEMMA WriteLeaves ==
    ASSUME TypeOK, OpenPresent, NEW k \in Keys, Writes(k)
    PROVE  /\ pc[k] = "body"
           /\ \E to \in {"report", "sum"} : pc' = [pc EXCEPT ![k] = to]
           /\ \E c \in Contents :
                 /\ disk' = [disk EXCEPT ![job[k].node][job[k].file] = c]
                 /\ put'  = [put EXCEPT ![k] = c]
           /\ UNCHANGED <<conf, nodeOn, sum, task, job, ui, wire, sumbuf, body>>
<1>1. /\ pc[k] = "body"
      /\ \E to \in {"report", "sum"} : pc' = [pc EXCEPT ![k] = to]
      /\ UNCHANGED <<conf, nodeOn, sum, task, job, ui, wire, sumbuf, body>>
  BY DEF Writes, WriteBody, WriteFails, CloseFails, Goto, center
<1>2. PICK d \in {body[k]} \cup Broken(k) : Write(k, d)
  BY DEF Writes, WriteBody, WriteFails, CloseFails
<1>3. Local(k) \in Contents
  BY <1>1, JobFacts DEF OpenPresent, Local
<1>4. d \in Contents /\ (d = Blank \/ body[k] \in Texts)
  BY DataFacts DEF Broken, TypeOK
<1>5. After(k, d) \subseteq Contents
  BY <1>3, <1>4, DataFacts DEF After
<1> QED BY <1>1, <1>2, <1>5 DEF Write

\* A step of one created task, and of no other, creates nothing early.
LEMMA OneTask ==
    ASSUME TypeOK, NEW k \in Keys, job[k] # NoJob, UNCHANGED job,
           \A j \in Keys \ {k} : task'[j] = task[j] /\ ui'[j] = ui[j] /\ pc'[j] = pc[j],
           \A m \in wire' : m \in wire \/ m.key = k
    PROVE  NothingBeforeCreation'
  BY DEF TypeOK, NothingBeforeCreation, Busy, Running

\* Every step keeps the types.
LEMMA TypeStep == ASSUME TypeOK, OpenPresent, [Next]_vars PROVE TypeOK'
<1>1. ASSUME NEW k \in Keys, NEW n \in Nodes, NEW f \in Files, RunTask(k, n, f) PROVE TypeOK'
  <2>1. NothingBeforeCreation'
    BY <1>1, DataFacts DEF TypeOK, NothingBeforeCreation, Busy, Running, Jobs, RunTask
  <2> QED BY <2>1, <1>1 DEF TypeOK, RunTask, Jobs, Rows
<1>2. ASSUME NEW k \in Keys, HwSend(k) PROVE TypeOK'
  <2>0. job[k] # NoJob
    BY <1>2 DEF HwSend, TypeOK, NothingBeforeCreation, Busy
  <2>1. wire' \subseteq wire \cup {Cmd(k)} /\ UNCHANGED <<task, job, pc>>
    BY <1>2 DEF HwSend
  <2>2. /\ ui' \in [Keys -> {"idle", "sending", "wait", "success", "error"}]
        /\ \A j \in Keys \ {k} : ui'[j] = ui[j]
    BY <1>2 DEF HwSend, TypeOK
  <2>3. wire' \subseteq Messages
    BY <2>1, MessageFacts DEF TypeOK
  <2>4. NothingBeforeCreation'
    BY <2>0, <2>1, <2>2, MessageFacts, OneTask
  <2> QED BY <2>3, <2>4, <1>2 DEF TypeOK, HwSend
<1>3. ASSUME NEW k \in Keys, CheckTaskState(k) PROVE TypeOK'
  BY <1>3 DEF TypeOK, NothingBeforeCreation, Busy, Running, CheckTaskState
<1>4. ASSUME NEW k \in Keys, StateMsg(k) PROVE TypeOK'
  BY <1>4, MessageFacts DEF TypeOK, NothingBeforeCreation, Busy, Running, Rows, StateMsg
<1>5. ASSUME NEW k \in Keys, NewSum(k) PROVE TypeOK'
  BY <1>5, MessageFacts DEF TypeOK, NothingBeforeCreation, Busy, Running, NewSum
<1>6. ASSUME NEW k \in Keys, CmdRun(k) PROVE TypeOK'
  <2>0. job[k] # NoJob
    BY <1>6, MessageFacts DEF CmdRun, TypeOK, NothingBeforeCreation, Busy
  <2>1. pc' \in [Keys -> Threads] /\ \A j \in Keys \ {k} : pc'[j] = pc[j]
    BY <1>6 DEF CmdRun, Goto, Threads, TypeOK
  <2>2. NothingBeforeCreation'
    BY <1>6, <2>0, <2>1, OneTask DEF CmdRun, center
  <2> QED BY <2>1, <2>2, <1>6 DEF TypeOK, CmdRun, center
<1>7. ASSUME NEW k \in Keys, ResFile(k) PROVE TypeOK'
  <2>0. pc[k] = "get" /\ job[k] # NoJob /\ job[k].file \in Files
    BY <1>7, JobFacts, DataFacts DEF ResFile
  <2>1. pc' \in [Keys -> Threads] /\ \A j \in Keys \ {k} : pc'[j] = pc[j]
    <3>1. PICK to \in {"check", "end"} : pc' = [pc EXCEPT ![k] = to]
      BY <1>7 DEF ResFile, Goto
    <3> QED BY <3>1 DEF Threads, TypeOK
  <2>2. body' \in [Keys -> Texts \cup {Blank}]
    BY <1>7, <2>0 DEF ResFile, TypeOK
  <2>3. NothingBeforeCreation'
    BY <1>7, <2>0, <2>1, OneTask DEF ResFile, center
  <2> QED BY <2>1, <2>2, <2>3, <1>7 DEF TypeOK, ResFile, center
<1>8. ASSUME NEW k \in Keys, FetchFails(k) PROVE TypeOK'
  BY <1>8
     DEF TypeOK, NothingBeforeCreation, Busy, Running, Threads, FetchFails, Goto, center
<1>9. ASSUME NEW k \in Keys, FileMissing(k) PROVE TypeOK'
  BY <1>9, MessageFacts
     DEF TypeOK, NothingBeforeCreation, Busy, Running, Threads, FileMissing, Goto,
         center, Post
<1>10. ASSUME NEW k \in Keys, FileFound(k) PROVE TypeOK'
  BY <1>10
     DEF TypeOK, NothingBeforeCreation, Busy, Running, Threads, FileFound, Goto, center
<1>11. ASSUME NEW k \in Keys, GetFileLen(k) PROVE TypeOK'
  BY <1>11
     DEF TypeOK, NothingBeforeCreation, Busy, Running, Threads, GetFileLen, Goto, center
<1>12. ASSUME NEW k \in Keys, SumLocal(k) PROVE TypeOK'
  <2>0. job[k] # NoJob /\ Local(k) \in Contents
    BY <1>12, JobFacts, DataFacts DEF SumLocal, Goto
  <2>1. sumbuf' \in [Nodes -> Sums]
    <3>1. PICK s \in {Local(k)} \cup Clash(k, Local(k)) : sumbuf' = [sumbuf EXCEPT ![job[k].node] = s]
      BY <1>12 DEF SumLocal, StoreSum
    <3>2. s \in Sums
      BY <2>0, DataFacts DEF Clash
    <3> QED BY <3>1, <3>2 DEF TypeOK
  <2>2. pc' \in [Keys -> Threads] /\ \A j \in Keys \ {k} : pc'[j] = pc[j]
    BY <1>12 DEF SumLocal, Goto, Threads, TypeOK
  <2>3. NothingBeforeCreation'
    BY <1>12, <2>0, <2>2, OneTask DEF SumLocal, center
  <2> QED BY <2>1, <2>2, <2>3, <1>12 DEF TypeOK, SumLocal, center
<1>13. ASSUME NEW k \in Keys, SumVanished(k) PROVE TypeOK'
  BY <1>13, MessageFacts
     DEF TypeOK, NothingBeforeCreation, Busy, Running, Threads, SumVanished, Goto,
         center, Post
<1>14. ASSUME NEW k \in Keys, CompareSum(k) PROVE TypeOK'
  <2>0. job[k] # NoJob
    BY <1>14, JobFacts, DataFacts DEF CompareSum
  <2>1. pc' \in [Keys -> Threads] /\ \A j \in Keys \ {k} : pc'[j] = pc[j]
    BY <1>14 DEF CompareSum, Goto, Threads, TypeOK
  <2>2. wire' \subseteq wire \cup {Verdict(k, "error")}
    BY <1>14 DEF CompareSum, Post
  <2>3. NothingBeforeCreation'
    BY <1>14, <2>0, <2>1, <2>2, OneTask, MessageFacts DEF CompareSum, center
  <2>4. wire' \subseteq Messages
    BY <2>2, MessageFacts DEF TypeOK
  <2> QED BY <2>1, <2>3, <2>4, <1>14 DEF TypeOK, CompareSum, center
<1>15. ASSUME NEW k \in Keys, OpenFile(k) PROVE TypeOK'
  <2>1. job[k].node \in Nodes /\ job[k].file \in Files /\ job[k] # NoJob
    BY <1>15, JobFacts, DataFacts DEF OpenFile, Goto
  <2>2. /\ disk' \in [Nodes -> [Files -> Contents \cup {Absent}]]
        /\ put'  \in [Keys -> Contents \cup {NoWrite}]
    BY <1>15, DataFacts DEF OpenFile, TypeOK
  <2>3. pc' \in [Keys -> Threads] /\ \A j \in Keys \ {k} : pc'[j] = pc[j]
    BY <1>15 DEF OpenFile, Goto, Threads, TypeOK
  <2>4. NothingBeforeCreation'
    BY <1>15, <2>1, <2>3, OneTask DEF OpenFile, center
  <2> QED BY <1>15, <2>2, <2>3, <2>4 DEF OpenFile, TypeOK, center
<1>16. ASSUME NEW k \in Keys, OpenFails(k) PROVE TypeOK'
  BY <1>16
     DEF TypeOK, NothingBeforeCreation, Busy, Running, Threads, OpenFails, Goto, center
<1>17. ASSUME NEW k \in Keys, Writes(k) PROVE TypeOK'
  <2>1. /\ pc[k] = "body" /\ job[k] # NoJob
        /\ job[k].node \in Nodes /\ job[k].file \in Files
        /\ UNCHANGED <<conf, nodeOn, sum, task, job, ui, wire, sumbuf, body>>
    BY <1>17, WriteLeaves, JobFacts, DataFacts
  <2>2. PICK to \in {"report", "sum"} : pc' = [pc EXCEPT ![k] = to]
    BY <1>17, WriteLeaves
  <2>3. PICK c \in Contents : /\ disk' = [disk EXCEPT ![job[k].node][job[k].file] = c]
                              /\ put'  = [put EXCEPT ![k] = c]
    BY <1>17, WriteLeaves
  <2>4. /\ disk' \in [Nodes -> [Files -> Contents \cup {Absent}]]
        /\ put'  \in [Keys -> Contents \cup {NoWrite}]
    BY <2>3 DEF TypeOK
  <2>5. pc' \in [Keys -> Threads]
    BY <2>2 DEF TypeOK, Threads
  <2>6. NothingBeforeCreation'
    BY <2>1, <2>2, OneTask
  <2> QED BY <2>1, <2>4, <2>5, <2>6 DEF TypeOK
<1>18. ASSUME NEW k \in Keys, ReportSuccess(k) PROVE TypeOK'
  BY <1>18, MessageFacts
     DEF TypeOK, NothingBeforeCreation, Busy, Running, Threads, ReportSuccess, Goto,
         center, Post
<1>19. ASSUME NEW k \in Keys, SumWritten(k) PROVE TypeOK'
  <2>0. job[k] # NoJob /\ Local(k) \in Contents
    BY <1>19, JobFacts, DataFacts DEF SumWritten, Goto
  <2>1. sumbuf' \in [Nodes -> Sums]
    <3>1. PICK s \in {Local(k)} \cup Clash(k, Local(k)) : sumbuf' = [sumbuf EXCEPT ![job[k].node] = s]
      BY <1>19 DEF SumWritten, StoreSum
    <3>2. s \in Sums
      BY <2>0, DataFacts DEF Clash
    <3> QED BY <3>1, <3>2 DEF TypeOK
  <2>2. pc' \in [Keys -> Threads] /\ \A j \in Keys \ {k} : pc'[j] = pc[j]
    BY <1>19 DEF SumWritten, Goto, Threads, TypeOK
  <2>3. NothingBeforeCreation'
    BY <1>19, <2>0, <2>2, OneTask DEF SumWritten, center
  <2> QED BY <2>1, <2>2, <2>3, <1>19 DEF TypeOK, SumWritten, center
<1>20. ASSUME NEW k \in Keys, SumOfNothing(k) PROVE TypeOK'
  <2>0. job[k] # NoJob /\ job[k].file \in Files
    BY <1>20, JobFacts, DataFacts DEF SumOfNothing, Goto
  <2>1. pc' \in [Keys -> Threads] /\ \A j \in Keys \ {k} : pc'[j] = pc[j]
    BY <1>20 DEF SumOfNothing, Goto, Threads, TypeOK
  <2>2. wire' \subseteq wire \cup {NewSumOf(k, job[k].file, NoSum)}
    BY <1>20 DEF SumOfNothing, Post
  <2>3. NothingBeforeCreation'
    BY <1>20, <2>0, <2>1, <2>2, OneTask, MessageFacts, DataFacts
       DEF SumOfNothing, center
  <2>4. wire' \subseteq Messages
    BY <2>0, <2>2, MessageFacts, DataFacts DEF TypeOK
  <2> QED BY <2>1, <2>3, <2>4, <1>20 DEF TypeOK, SumOfNothing, center
<1>21. ASSUME NEW k \in Keys, ReportSum(k) PROVE TypeOK'
  <2>0. job[k] # NoJob /\ job[k].file \in Files /\ Loaded(k) \subseteq Sums
    BY <1>21, JobFacts, DataFacts DEF ReportSum, Goto, TypeOK, Loaded, Clash
  <2>1. pc' \in [Keys -> Threads] /\ \A j \in Keys \ {k} : pc'[j] = pc[j]
    BY <1>21 DEF ReportSum, Goto, Threads, TypeOK
  <2>2. \E s \in Sums : wire' \subseteq wire \cup {NewSumOf(k, job[k].file, s)}
    BY <1>21, <2>0 DEF ReportSum, Post
  <2>3. NothingBeforeCreation'
    BY <1>21, <2>0, <2>1, <2>2, OneTask, MessageFacts DEF ReportSum, center
  <2>4. wire' \subseteq Messages
    BY <2>0, <2>2, MessageFacts DEF TypeOK
  <2> QED BY <2>1, <2>3, <2>4, <1>21 DEF TypeOK, ReportSum, center
<1>22. ASSUME NEW f \in Files, EditConf(f) PROVE TypeOK'
  BY <1>22 DEF TypeOK, NothingBeforeCreation, Busy, Running, EditConf
<1>23. ASSUME NEW n \in Nodes, ChSte(n) PROVE TypeOK'
  BY <1>23 DEF TypeOK, NothingBeforeCreation, Busy, Running, ChSte
<1>24. ASSUME NEW n \in Nodes, Crash(n) PROVE TypeOK'
  BY <1>24, DataFacts
     DEF TypeOK, NothingBeforeCreation, Busy, Running, Threads, Crash, center
<1>25. ASSUME NEW n \in Nodes, NEW f \in Files, LocalEdit(n, f) PROVE TypeOK'
  BY <1>25, DataFacts
     DEF TypeOK, NothingBeforeCreation, Busy, Running, LocalEdit, center
<1>26. CASE UNCHANGED vars
  BY <1>26 DEF TypeOK, NothingBeforeCreation, vars, Busy, Running
<1> QED BY <1>1, <1>2, <1>3, <1>4, <1>5, <1>6, <1>7, <1>8, <1>9, <1>10, <1>11, <1>12,
           <1>13, <1>14, <1>15, <1>16, <1>17, <1>18, <1>19, <1>20, <1>21, <1>22,
           <1>23, <1>24, <1>25, <1>26
           DEF Next, TaskStep, Hcon, Writes

----------------------------------------------------------------------------
(* Every step keeps the file of a writing thread present.                  *)

\* Every step keeps the files that threads write present.
LEMMA OpenStep ==
    ASSUME TypeOK, OpenPresent, Phases, [Next]_vars
    PROVE  OpenPresent'

<1>1. ASSUME NEW k \in Keys, NEW n \in Nodes, NEW f \in Files, RunTask(k, n, f) PROVE OpenPresent'
  BY <1>1 DEF RunTask, OpenPresent, Phases, Phase
<1>2. ASSUME NEW k \in Keys, HwSend(k) PROVE OpenPresent'
  BY <1>2 DEF OpenPresent, HwSend
<1>3. ASSUME NEW k \in Keys, CheckTaskState(k) PROVE OpenPresent'
  BY <1>3 DEF OpenPresent, CheckTaskState
<1>4. ASSUME NEW k \in Keys, StateMsg(k) PROVE OpenPresent'
  BY <1>4 DEF OpenPresent, StateMsg
<1>5. ASSUME NEW k \in Keys, NewSum(k) PROVE OpenPresent'
  BY <1>5 DEF OpenPresent, NewSum
<1>6. ASSUME NEW k \in Keys, CmdRun(k) PROVE OpenPresent'
  BY <1>6 DEF TypeOK, OpenPresent, CmdRun, Goto, center
<1>7. ASSUME NEW k \in Keys, ResFile(k) PROVE OpenPresent'
  BY <1>7 DEF TypeOK, OpenPresent, ResFile, Goto, center
<1>8. ASSUME NEW k \in Keys, FetchFails(k) PROVE OpenPresent'
  BY <1>8 DEF OpenPresent, FetchFails, Goto, center
<1>9. ASSUME NEW k \in Keys, FileMissing(k) PROVE OpenPresent'
  BY <1>9 DEF OpenPresent, FileMissing, Goto, center
<1>10. ASSUME NEW k \in Keys, FileFound(k) PROVE OpenPresent'
  BY <1>10 DEF OpenPresent, FileFound, Goto, center
<1>11. ASSUME NEW k \in Keys, GetFileLen(k) PROVE OpenPresent'
  BY <1>11 DEF OpenPresent, GetFileLen, Goto, center
<1>12. ASSUME NEW k \in Keys, SumLocal(k) PROVE OpenPresent'
  BY <1>12 DEF OpenPresent, SumLocal, Goto, center
<1>13. ASSUME NEW k \in Keys, SumVanished(k) PROVE OpenPresent'
  BY <1>13 DEF OpenPresent, SumVanished, Goto, center
<1>14. ASSUME NEW k \in Keys, CompareSum(k) PROVE OpenPresent'
  BY <1>14 DEF TypeOK, OpenPresent, CompareSum, Goto, center
<1>15. ASSUME NEW k \in Keys, OpenFile(k) PROVE OpenPresent'
  BY <1>15, DataFacts, JobFacts DEF TypeOK, OpenPresent, Running, OpenFile, Goto, center
<1>16. ASSUME NEW k \in Keys, OpenFails(k) PROVE OpenPresent'
  BY <1>16 DEF OpenPresent, OpenFails, Goto, center
<1>17. ASSUME NEW k \in Keys, Writes(k) PROVE OpenPresent'
  <2>1. /\ job[k].node \in Nodes /\ job[k].file \in Files
        /\ UNCHANGED job
    BY <1>17, WriteLeaves, JobFacts
  <2>2. PICK to \in {"report", "sum"} : pc' = [pc EXCEPT ![k] = to]
    BY <1>17, WriteLeaves
  <2>3. PICK c \in Contents : disk' = [disk EXCEPT ![job[k].node][job[k].file] = c]
    BY <1>17, WriteLeaves
  <2>4. c # Absent
    BY DataFacts
  <2> QED BY <2>1, <2>2, <2>3, <2>4 DEF OpenPresent
<1>18. ASSUME NEW k \in Keys, ReportSuccess(k) PROVE OpenPresent'
  BY <1>18 DEF OpenPresent, ReportSuccess, Goto, center
<1>19. ASSUME NEW k \in Keys, SumWritten(k) PROVE OpenPresent'
  BY <1>19 DEF OpenPresent, SumWritten, Goto, center
<1>20. ASSUME NEW k \in Keys, SumOfNothing(k) PROVE OpenPresent'
  BY <1>20 DEF OpenPresent, SumOfNothing, Goto, center
<1>21. ASSUME NEW k \in Keys, ReportSum(k) PROVE OpenPresent'
  BY <1>21 DEF OpenPresent, ReportSum, Goto, center
<1>22. ASSUME NEW f \in Files, EditConf(f) PROVE OpenPresent'
  BY <1>22 DEF OpenPresent, EditConf
<1>23. ASSUME NEW n \in Nodes, ChSte(n) PROVE OpenPresent'
  BY <1>23 DEF OpenPresent, ChSte
<1>24. ASSUME NEW n \in Nodes, Crash(n) PROVE OpenPresent'
  BY <1>24 DEF OpenPresent, Crash, center
<1>25. ASSUME NEW n \in Nodes, NEW f \in Files, LocalEdit(n, f) PROVE OpenPresent'
  BY <1>25 DEF OpenPresent, LocalEdit, center
<1>26. CASE UNCHANGED vars
  BY <1>26 DEF OpenPresent, vars
<1> QED BY <1>1, <1>2, <1>3, <1>4, <1>5, <1>6, <1>7, <1>8, <1>9, <1>10, <1>11, <1>12,
           <1>13, <1>14, <1>15, <1>16, <1>17, <1>18, <1>19, <1>20, <1>21, <1>22,
           <1>23, <1>24, <1>25, <1>26
           DEF Next, TaskStep, Hcon, Writes

----------------------------------------------------------------------------
(* Every step keeps the phases.                                            *)

\* A step of task k that puts no new verdict of another task on the wire keeps
\* the phase of every other task.
LEMMA PhaseOfOthers ==
    ASSUME Phases, NEW k \in Keys,
           \A j \in Keys \ {k} : /\ task'[j] = task[j] /\ job'[j] = job[j]
                                 /\ pc'[j] = pc[j] /\ put'[j] = put[j],
           \A j \in Keys \ {k}, v \in {"success", "error"} :
              Verdict(j, v) \in wire' => Verdict(j, v) \in wire
    PROVE  \A j \in Keys \ {k} : Phase(j)'
  BY DEF Phases, Phase, Told

\* A thread that has not opened its file belongs to a waiting row.
LEMMA BeforeOpen ==
    ASSUME TypeOK, Phases, NEW k \in Keys, pc[k] \in Before \ {"idle"}
    PROVE  put[k] = NoWrite /\ task[k] = "wait" /\ ~Told(k)
<1>1. job[k] # NoJob
  BY JobFacts, DataFacts DEF Before
<1> QED BY <1>1 DEF Phases, Phase

\* Every step keeps what each place of a thread says of its task.
LEMMA PhaseStep ==
    ASSUME TypeOK, OpenPresent, Phases, [Next]_vars
    PROVE  Phases'

<1>1. ASSUME NEW k \in Keys, NEW n \in Nodes, NEW f \in Files, RunTask(k, n, f) PROVE Phases'
  BY <1>1 DEF TypeOK, Phases, Phase, Told, RunTask
<1>2. ASSUME NEW k \in Keys, HwSend(k) PROVE Phases'
  <2>1. wire' \subseteq wire \cup {Cmd(k)} /\ UNCHANGED <<task, job, pc, put>>
    BY <1>2 DEF HwSend
  <2>2. \A j \in Keys, v \in {"success", "error"} :
           Verdict(j, v) \in wire' => Verdict(j, v) \in wire
    BY <2>1, MessageFacts
  <2> QED BY <2>1, <2>2 DEF Phases, Phase, Told
<1>3. ASSUME NEW k \in Keys, CheckTaskState(k) PROVE Phases'
  BY <1>3 DEF Phases, Phase, Told, CheckTaskState
<1>4. ASSUME NEW k \in Keys, StateMsg(k) PROVE Phases'
  BY <1>4, MessageFacts DEF TypeOK, Phases, Phase, Told, StateMsg
<1>5. ASSUME NEW k \in Keys, NewSum(k) PROVE Phases'
  BY <1>5 DEF Phases, Phase, Told, NewSum
<1>6. ASSUME NEW k \in Keys, CmdRun(k) PROVE Phases'
  BY <1>6 DEF TypeOK, Phases, Phase, Before, Told, CmdRun, Goto, center
<1>7. ASSUME NEW k \in Keys, ResFile(k) PROVE Phases'
  BY <1>7 DEF TypeOK, Phases, Phase, Before, Told, ResFile, Goto, center
<1>8. ASSUME NEW k \in Keys, FetchFails(k) PROVE Phases'
  BY <1>8 DEF Phases, Phase, Before, Told, FetchFails, Goto, center
<1>9. ASSUME NEW k \in Keys, FileMissing(k) PROVE Phases'
  <2>1. /\ pc[k] \in {"check", "hash", "compare"} /\ pc'[k] \in {"open", "end"}
        /\ wire' \subseteq wire \cup {Verdict(k, "error")}
        /\ pc'[k] = "open" => UNCHANGED wire
        /\ \A j \in Keys \ {k} : pc'[j] = pc[j]
        /\ UNCHANGED <<task, job, put>>
    BY <1>9 DEF FileMissing, Goto, Post, center, TypeOK
  <2>2. put[k] = NoWrite /\ task[k] = "wait" /\ ~Told(k)
    BY <2>1, BeforeOpen DEF Before
  <2>3. Verdict(k, "success") \notin wire'
    BY <2>1, <2>2, MessageFacts DEF Told
  <2>4. Phase(k)'
    BY <2>1, <2>2, <2>3 DEF Phase, Before, Told
  <2>5. \A j \in Keys \ {k}, v \in {"success", "error"} :
           Verdict(j, v) \in wire' => Verdict(j, v) \in wire
    BY <2>1, MessageFacts
  <2>6. \A j \in Keys \ {k} : Phase(j)'
    BY <2>1, <2>5, PhaseOfOthers
  <2> QED BY <2>4, <2>6 DEF Phases
<1>10. ASSUME NEW k \in Keys, FileFound(k) PROVE Phases'
  BY <1>10 DEF Phases, Phase, Before, Told, FileFound, Goto, center
<1>11. ASSUME NEW k \in Keys, GetFileLen(k) PROVE Phases'
  BY <1>11 DEF Phases, Phase, Before, Told, GetFileLen, Goto, center
<1>12. ASSUME NEW k \in Keys, SumLocal(k) PROVE Phases'
  BY <1>12 DEF Phases, Phase, Before, Told, SumLocal, Goto, center
<1>13. ASSUME NEW k \in Keys, SumVanished(k) PROVE Phases'
  <2>1. /\ pc[k] \in {"check", "hash", "compare"} /\ pc'[k] \in {"open", "end"}
        /\ wire' \subseteq wire \cup {Verdict(k, "error")}
        /\ pc'[k] = "open" => UNCHANGED wire
        /\ \A j \in Keys \ {k} : pc'[j] = pc[j]
        /\ UNCHANGED <<task, job, put>>
    BY <1>13 DEF SumVanished, Goto, Post, center, TypeOK
  <2>2. put[k] = NoWrite /\ task[k] = "wait" /\ ~Told(k)
    BY <2>1, BeforeOpen DEF Before
  <2>3. Verdict(k, "success") \notin wire'
    BY <2>1, <2>2, MessageFacts DEF Told
  <2>4. Phase(k)'
    BY <2>1, <2>2, <2>3 DEF Phase, Before, Told
  <2>5. \A j \in Keys \ {k}, v \in {"success", "error"} :
           Verdict(j, v) \in wire' => Verdict(j, v) \in wire
    BY <2>1, MessageFacts
  <2>6. \A j \in Keys \ {k} : Phase(j)'
    BY <2>1, <2>5, PhaseOfOthers
  <2> QED BY <2>4, <2>6 DEF Phases
<1>14. ASSUME NEW k \in Keys, CompareSum(k) PROVE Phases'
  <2>1. /\ pc[k] \in {"check", "hash", "compare"} /\ pc'[k] \in {"open", "end"}
        /\ wire' \subseteq wire \cup {Verdict(k, "error")}
        /\ pc'[k] = "open" => UNCHANGED wire
        /\ \A j \in Keys \ {k} : pc'[j] = pc[j]
        /\ UNCHANGED <<task, job, put>>
    BY <1>14 DEF CompareSum, Goto, Post, center, TypeOK
  <2>2. put[k] = NoWrite /\ task[k] = "wait" /\ ~Told(k)
    BY <2>1, BeforeOpen DEF Before
  <2>3. Verdict(k, "success") \notin wire'
    BY <2>1, <2>2, MessageFacts DEF Told
  <2>4. Phase(k)'
    BY <2>1, <2>2, <2>3 DEF Phase, Before, Told
  <2>5. \A j \in Keys \ {k}, v \in {"success", "error"} :
           Verdict(j, v) \in wire' => Verdict(j, v) \in wire
    BY <2>1, MessageFacts
  <2>6. \A j \in Keys \ {k} : Phase(j)'
    BY <2>1, <2>5, PhaseOfOthers
  <2> QED BY <2>4, <2>6 DEF Phases
<1>15. ASSUME NEW k \in Keys, OpenFile(k) PROVE Phases'
  BY <1>15, DataFacts, JobFacts
     DEF TypeOK, Phases, Phase, Before, Told, OpenFile, Goto, center
<1>16. ASSUME NEW k \in Keys, OpenFails(k) PROVE Phases'
  BY <1>16 DEF Phases, Phase, Before, Told, OpenFails, Goto, center
<1>17. ASSUME NEW k \in Keys, Writes(k) PROVE Phases'
  <2>1. /\ pc[k] = "body"
        /\ UNCHANGED <<task, job, wire>>
    BY <1>17, WriteLeaves
  <2>2. PICK to \in {"report", "sum"} : pc' = [pc EXCEPT ![k] = to]
    BY <1>17, WriteLeaves
  <2>3. PICK c \in Contents : put' = [put EXCEPT ![k] = c]
    BY <1>17, WriteLeaves
  <2>4. /\ pc'[k] \in {"report", "sum"} /\ put'[k] # NoWrite
        /\ \A j \in Keys \ {k} : pc'[j] = pc[j] /\ put'[j] = put[j]
    BY <2>2, <2>3, DataFacts DEF TypeOK
  <2>5. Phase(k)'
    BY <2>1, <2>4 DEF Phases, Phase, Before, Told
  <2>6. \A j \in Keys \ {k} : Phase(j)'
    BY <2>1, <2>4, PhaseOfOthers
  <2> QED BY <2>5, <2>6 DEF Phases
<1>18. ASSUME NEW k \in Keys, ReportSuccess(k) PROVE Phases'
  <2>1. /\ pc[k] = "report" /\ pc'[k] = "sum"
        /\ wire' \subseteq wire \cup {Verdict(k, "success")}
        /\ \A j \in Keys \ {k} : pc'[j] = pc[j]
        /\ UNCHANGED <<task, job, put>>
    BY <1>18 DEF ReportSuccess, Goto, Post, center, TypeOK
  <2>2. put[k] # NoWrite /\ task[k] = "wait" /\ ~Told(k) /\ Phase(k)
    BY <2>1 DEF Phases, Phase
  <2>3. Verdict(k, "error") \notin wire'
    BY <2>1, <2>2, MessageFacts DEF Told
  <2>4. Phase(k)'
    BY <2>1, <2>2, <2>3 DEF Phase, Before
  <2>5. \A j \in Keys \ {k}, v \in {"success", "error"} :
           Verdict(j, v) \in wire' => Verdict(j, v) \in wire
    BY <2>1, MessageFacts
  <2>6. \A j \in Keys \ {k} : Phase(j)'
    BY <2>1, <2>5, PhaseOfOthers
  <2> QED BY <2>4, <2>6 DEF Phases
<1>19. ASSUME NEW k \in Keys, SumWritten(k) PROVE Phases'
  BY <1>19 DEF Phases, Phase, Before, Told, SumWritten, Goto, center
<1>20. ASSUME NEW k \in Keys, SumOfNothing(k) PROVE Phases'
  <2>0. job[k].file \in Files
    BY <1>20, JobFacts DEF SumOfNothing, Goto
  <2>1. wire' \subseteq wire \cup {NewSumOf(k, job[k].file, NoSum)}
    BY <1>20 DEF SumOfNothing, Post
  <2>2. \A j \in Keys, v \in {"success", "error"} :
           Verdict(j, v) \in wire' => Verdict(j, v) \in wire
    BY <2>0, <2>1, DataFacts, MessageFacts
  <2> QED BY <2>2, <1>20 DEF Phases, Phase, Before, Told, SumOfNothing, Goto, center
<1>21. ASSUME NEW k \in Keys, ReportSum(k) PROVE Phases'
  <2>0. job[k].file \in Files /\ Loaded(k) \subseteq Sums
    BY <1>21, JobFacts, DataFacts DEF ReportSum, Goto, TypeOK, Loaded, Clash
  <2>1. \E s \in Sums : wire' \subseteq wire \cup {NewSumOf(k, job[k].file, s)}
    BY <1>21, <2>0 DEF ReportSum, Post
  <2>2. \A j \in Keys, v \in {"success", "error"} :
           Verdict(j, v) \in wire' => Verdict(j, v) \in wire
    BY <2>0, <2>1, MessageFacts
  <2> QED BY <2>2, <1>21 DEF Phases, Phase, Before, Told, ReportSum, Goto, center
<1>22. ASSUME NEW f \in Files, EditConf(f) PROVE Phases'
  BY <1>22 DEF Phases, Phase, Told, EditConf
<1>23. ASSUME NEW n \in Nodes, ChSte(n) PROVE Phases'
  BY <1>23 DEF Phases, Phase, Told, ChSte
<1>24. ASSUME NEW n \in Nodes, Crash(n) PROVE Phases'
  BY <1>24 DEF Phases, Phase, Before, Told, Crash, center
<1>25. ASSUME NEW n \in Nodes, NEW f \in Files, LocalEdit(n, f) PROVE Phases'
  BY <1>25 DEF Phases, Phase, Told, LocalEdit, center
<1>26. CASE UNCHANGED vars
  BY <1>26 DEF Phases, Phase, Told, vars
<1> QED BY <1>1, <1>2, <1>3, <1>4, <1>5, <1>6, <1>7, <1>8, <1>9, <1>10, <1>11, <1>12,
           <1>13, <1>14, <1>15, <1>16, <1>17, <1>18, <1>19, <1>20, <1>21, <1>22,
           <1>23, <1>24, <1>25, <1>26
           DEF Next, TaskStep, Hcon, Writes

----------------------------------------------------------------------------
(* The theorems.                                                           *)

\* The invariant holds at first.
LEMMA InitInv == Init => IInv
<1> SUFFICES ASSUME Init PROVE IInv
  OBVIOUS
<1>1. TypeOK
  BY DataFacts DEF Init, TypeOK, NothingBeforeCreation, Busy, Running, Threads
<1>2. OpenPresent /\ Phases
  BY DEF Init, OpenPresent, Phases, Phase, Told
<1> QED BY <1>1, <1>2 DEF IInv

\* Every step keeps it.
LEMMA StepInv == IInv /\ [Next]_vars => IInv'
  BY TypeStep, OpenStep, PhaseStep DEF IInv

\* The invariant holds in every reachable state.
THEOREM Invariance == Spec => []IInv
  BY InitInv, StepInv, PTL DEF Spec

\* Every variable keeps its type, and nothing of a task moves before its row is
\* inserted (RunTask, HwCreateTask).
THEOREM TypeCorrect == Spec => []TypeOK
<1>1. IInv => TypeOK
  BY DEF IInv
<1> QED BY <1>1, Invariance, PTL

\* Whatever is edited, lost, cut or crashes, a row that says "error" stands for a
\* file its thread never opened, and one that says "success" for one it did.
THEOREM VerdictsAreSound == Spec => []VerdictSound
<1>1. IInv => VerdictSound
  BY DEF IInv, Phases, Phase, VerdictSound
<1> QED BY <1>1, Invariance, PTL

----------------------------------------------------------------------------
(* TaskPush implements PushPromise.                                        *)

\* A step that changes neither a row's state nor what was written stutters.
LEMMA Stutter == UNCHANGED <<task, put>> => UNCHANGED Promise!vars
  BY DEF Promise!vars

\* Every step is one of the promise, or leaves it alone.
LEMMA PromiseStep ==
    ASSUME TypeOK, OpenPresent, Phases, [Next]_vars
    PROVE  [Promise!Next]_(Promise!vars)
<1> DEFINE hit == [j \in Keys |-> put[j] # NoWrite]
<1>1. ASSUME NEW k \in Keys, NEW n \in Nodes, NEW f \in Files, RunTask(k, n, f)
      PROVE  Promise!Next
  <2>1. Promise!Create(k)
    BY <1>1 DEF RunTask, Promise!Create, Promise!Become
  <2> QED BY <2>1 DEF Promise!Next
<1>2. ASSUME NEW k \in Keys, CheckTaskState(k)
      PROVE  [Promise!Next]_(Promise!vars)
  <2>1. CASE task[k] = "success"
    <3>1. Promise!Clear(k)
      BY <1>2, <2>1 DEF CheckTaskState, Promise!Clear, Promise!Become
    <3> QED BY <3>1 DEF Promise!Next
  <2>2. CASE task[k] = "error"
    BY <1>2, <2>2, Stutter DEF CheckTaskState, TypeOK
  <2> QED BY <1>2, <2>1, <2>2 DEF CheckTaskState
<1>3. ASSUME NEW k \in Keys, StateMsg(k)
      PROVE  Promise!Next
  <2>1. PICK m \in wire : /\ m.type = "state" /\ m.key = k
                          /\ task' = [task EXCEPT ![k] = IF @ \in Rows THEN m.ste ELSE @]
    BY <1>3 DEF StateMsg
  <2>2. m \in Messages /\ m.ste \in {"success", "error"} /\ m = Verdict(k, m.ste)
    BY <2>1, MessageFacts DEF TypeOK
  <2>3. task[k] = "wait" /\ (put[k] = NoWrite <=> m.ste = "error")
    BY <2>2 DEF Phases, Phase
  <2>4. task' = [task EXCEPT ![k] = m.ste] /\ UNCHANGED put
    BY <1>3, <2>1, <2>3 DEF StateMsg, Rows
  <2>5. CASE m.ste = "success"
    <3>1. Promise!Succeed(k)
      BY <2>3, <2>4, <2>5 DEF Promise!Succeed, Promise!Become
    <3> QED BY <3>1 DEF Promise!Next
  <2>6. CASE m.ste = "error"
    <3>1. Promise!Refuse(k)
      BY <2>3, <2>4, <2>6 DEF Promise!Refuse, Promise!Become
    <3> QED BY <3>1 DEF Promise!Next
  <2> QED BY <2>2, <2>5, <2>6
<1>4. ASSUME NEW k \in Keys, OpenFile(k)
      PROVE  Promise!Next
  <2>1. put[k] = NoWrite /\ task[k] = "wait"
    BY <1>4, BeforeOpen DEF OpenFile, Goto, Before
  <2>2. /\ put' = [put EXCEPT ![k] = Blank] /\ Blank # NoWrite
        /\ UNCHANGED task
    BY <1>4, DataFacts DEF OpenFile, center
  <2>3. hit' = [hit EXCEPT ![k] = TRUE]
    BY <2>2 DEF TypeOK
  <2>4. Promise!Overwrite(k)
    BY <2>1, <2>2, <2>3 DEF Promise!Overwrite
  <2> QED BY <2>4 DEF Promise!Next
<1>5. ASSUME NEW k \in Keys, Writes(k)
      PROVE  UNCHANGED Promise!vars
  <2>1. pc[k] = "body" /\ UNCHANGED task
    BY <1>5, WriteLeaves
  <2>2. PICK c \in Contents : put' = [put EXCEPT ![k] = c]
    BY <1>5, WriteLeaves
  <2>3. put[k] # NoWrite /\ c # NoWrite
    BY <2>1, DataFacts DEF Phases, Phase
  <2>4. hit' = hit
    BY <2>2, <2>3
  <2> QED BY <2>1, <2>4 DEF Promise!vars
<1>6. ASSUME NEW k \in Keys, \/ HwSend(k) \/ NewSum(k) \/ CmdRun(k) \/ ResFile(k) \/ FetchFails(k)
                               \/ FileMissing(k) \/ FileFound(k) \/ GetFileLen(k)
                               \/ SumLocal(k) \/ SumVanished(k) \/ CompareSum(k)
                               \/ OpenFails(k) \/ ReportSuccess(k) \/ SumWritten(k)
                               \/ SumOfNothing(k) \/ ReportSum(k)
      PROVE  UNCHANGED Promise!vars
  BY <1>6, Stutter
     DEF HwSend, NewSum, CmdRun, ResFile, FetchFails, FileMissing, FileFound,
         GetFileLen, SumLocal, SumVanished, CompareSum, OpenFails, ReportSuccess,
         SumWritten, SumOfNothing, ReportSum, center
<1>7. ASSUME \/ \E f \in Files : EditConf(f)
             \/ \E n \in Nodes : ChSte(n) \/ Crash(n)
             \/ \E n \in Nodes, f \in Files : LocalEdit(n, f)
             \/ UNCHANGED vars
      PROVE  UNCHANGED Promise!vars
  BY <1>7, Stutter DEF EditConf, ChSte, Crash, LocalEdit, center, vars
<1> QED BY <1>1, <1>2, <1>3, <1>4, <1>5, <1>6, <1>7 DEF Next, TaskStep, Hcon, Writes

\* The center and its agents keep the promise made to the operator: the verdict of
\* a task is given once, is never taken back, agrees with whether the node's file
\* was overwritten, and only a row that holds "success" is removed.
THEOREM PromiseKept == Spec => KeepsPromise
<1>1. Init => Promise!Init
  BY DEF Init, Promise!Init
<1>2. IInv /\ [Next]_vars => [Promise!Next]_(Promise!vars)
  BY PromiseStep DEF IInv
<1> QED BY <1>1, <1>2, Invariance, PTL DEF Spec, KeepsPromise, Promise!Spec
============================================================================
