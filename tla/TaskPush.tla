------------------------------ MODULE TaskPush ------------------------------
(***************************************************************************)
(* A push: the operator's browser asks the center (modle.php, task.php) to *)
(* push a file to a node; the center inserts a row in task_tab and sends   *)
(* the task key to the node's agent (confsvr); the agent starts a thread   *)
(* hcon that fetches the file from the center (set.php, ResFile), checks   *)
(* the local copy, overwrites it, and reports a verdict and the file's new *)
(* checksum over two more connections (set.php, StateMsg and NewSum); the  *)
(* browser polls the row until it holds a verdict.                         *)
(*                                                                         *)
(* Every PHP request is one action: the handlers run to the end on their   *)
(* own, and each reads or writes one row with one statement.  A thread of  *)
(* an agent takes one step per system call that other threads, the center  *)
(* or the node's owner can interleave with.                                *)
(*                                                                         *)
(* A file's content is a rendered text, at most one byte (Blank), or a     *)
(* partial or mixed piece of a text.  An MD5 sum is the content it was     *)
(* computed from: equal sums mean equal contents.                          *)
(***************************************************************************)
EXTENDS Naturals, FiniteSets

CONSTANTS
    Nodes,       \* managed machines (node_tab rows, one agent process each)
    Files,       \* configuration files (file_tab rows)
    Keys,        \* the tasks that may be created (task_tab.tkey)
    Texts,       \* contents of at least two bytes conf_tab may render to
    Blank,       \* content of at most one byte
    Absent,      \* no such file on the node
    NoSum,       \* file_tab.sum is null: sent as '0', not compared
    Garbled,     \* bytes of two sums mixed in the shared buffer of FileSum
    NoJob,       \* a task that was not created
    NoWrite,     \* a thread that opened no file
    Events,      \* what the environment may do in this instance
    MaxLive      \* bound: tasks of one file in flight at once

AllEvents == {"edit",    \* the operator changes the file's text in conf_tab
              "node",    \* the operator turns a node on or off
              "local",   \* the file is changed on the node itself
              "push",    \* the center cannot connect to the agent
              "frame",   \* the agent loses the command: ConInf reused, or
                         \*   the key read from the dead frame of CmdRun
              "fetch",   \* the fetch's connection or its header fails
              "cut",     \* the body's connection breaks midway
              "open",    \* fopen fails
              "write",   \* fwrite or fclose fails
              "drop",    \* the agent cannot connect to report
              "crash"}   \* the agent process dies and is started again

Partial  == [text : Texts, part : {"torn", "mixed"}]
Contents == Texts \cup {Blank} \cup Partial
Sums     == Contents \cup {NoSum, Garbled}

ASSUME SpecialValues ==
    /\ Blank \notin Texts
    /\ {Absent, NoSum, Garbled, NoWrite} \cap Contents = {}
    /\ NoSum # Garbled
    /\ NoJob \notin [node : Nodes, file : Files, sum : Sums]
ASSUME EventsKnown == Events \subseteq AllEvents
ASSUME MaxLiveIsNat == MaxLive \in Nat

VARIABLES
    conf,        \* conf[f]: what VeFileType renders for f now (conf_tab)
    nodeOn,      \* nodeOn[n]: node_tab.ste = 1
    sum,         \* sum[f]: file_tab.sum
    task,        \* task[k]: the row of k in task_tab and its ste
    job,         \* job[k]: ip, fid and fpath of the row: node, file and the
                 \*   sum file_tab held when the row was inserted
    ui,          \* ui[k]: the browser that started k
    wire,        \* requests on their way, in no order
    disk,        \* disk[n][f]: the file on the node
    sumbuf,      \* sumbuf[n]: the static result buffer of FileSum
    pc,          \* pc[k]: where the thread hcon for k is
    body,        \* body[k]: the content the center sent for k
    put          \* put[k]: what k's thread left in the file (history)

vars == <<conf, nodeOn, sum, task, job, ui, wire, disk, sumbuf, pc, body, put>>

center == <<conf, nodeOn, sum, task, job, ui>>

----------------------------------------------------------------------------
(* Requests on the wire.  A task has at most one of each kind.             *)

Cmd(k)            == [type |-> "cmd", key |-> k]
Verdict(k, v)     == [type |-> "state", key |-> k, ste |-> v]
NewSumOf(k, f, s) == [type |-> "filesum", key |-> k, file |-> f, sum |-> s]

Messages == [type : {"cmd"}, key : Keys]
       \cup [type : {"state"}, key : Keys, ste : {"success", "error"}]
       \cup [type : {"filesum"}, key : Keys, file : Files, sum : Sums]

Rows    == {"wait", "success", "error"}              \* ste is 0, 1 or -1
Threads == {"idle", "get", "check", "size", "hash", "compare", "open", "body",
            "report", "sum", "load", "end"}
Jobs    == [node : Nodes, file : Files, sum : Sums]

Local(k)   == disk[job[k].node][job[k].file]
Running(k) == pc[k] \notin {"idle", "end"}

\* k is in flight: its center request, its thread or a request of it is not done.
Busy(k) == \/ ui[k] = "sending"
           \/ Running(k)
           \/ \E m \in wire : m.key = k

Live(f) == {k \in Keys : job[k] # NoJob /\ job[k].file = f /\ Busy(k)}

NothingBeforeCreation == \A k \in Keys : job[k] = NoJob => task[k] = "unborn" /\ ~Busy(k)

TypeOK ==
    /\ conf   \in [Files -> Texts \cup {Blank}]
    /\ nodeOn \in [Nodes -> BOOLEAN]
    /\ sum    \in [Files -> Sums]
    /\ task   \in [Keys -> Rows \cup {"unborn", "deleted"}]
    /\ job    \in [Keys -> Jobs \cup {NoJob}]
    /\ ui     \in [Keys -> {"idle", "sending", "wait", "success", "error"}]
    /\ wire   \subseteq Messages
    /\ disk   \in [Nodes -> [Files -> Contents \cup {Absent}]]
    /\ sumbuf \in [Nodes -> Sums]
    /\ pc     \in [Keys -> Threads]
    /\ body   \in [Keys -> Texts \cup {Blank}]
    /\ put    \in [Keys -> Contents \cup {NoWrite}]
    /\ NothingBeforeCreation

\* Agents are up, no file was pushed yet; a node may have a file already.
Init ==
    /\ conf   \in [Files -> Texts \cup {Blank}]
    /\ nodeOn = [n \in Nodes |-> TRUE]
    /\ sum    = [f \in Files |-> NoSum]
    /\ task   = [k \in Keys |-> "unborn"]
    /\ job    = [k \in Keys |-> NoJob]
    /\ ui     = [k \in Keys |-> "idle"]
    /\ wire   = {}
    /\ disk   \in [Nodes -> [Files -> Texts \cup {Absent}]]
    /\ sumbuf = [n \in Nodes |-> NoSum]
    /\ pc     = [k \in Keys |-> "idle"]
    /\ body   = [k \in Keys |-> Blank]
    /\ put    = [k \in Keys |-> NoWrite]

----------------------------------------------------------------------------
(* The center and the browser.                                             *)

\* Chopts, deloption: the rows of conf_tab change, and with them the text.
EditConf(f) ==
    /\ "edit" \in Events
    /\ \E c \in (Texts \cup {Blank}) \ {conf[f]} : conf' = [conf EXCEPT ![f] = c]
    /\ UNCHANGED <<nodeOn, sum, task, job, ui, wire, disk, sumbuf, pc, body, put>>

\* chste on node_tab: nodeon, nodeoff.
ChSte(n) ==
    /\ "node" \in Events
    /\ nodeOn' = [nodeOn EXCEPT ![n] = ~@]
    /\ UNCHANGED <<conf, sum, task, job, ui, wire, disk, sumbuf, pc, body, put>>

\* Variant with a bug: goes on when the row could not be inserted.
RunTaskNoRow(k, n, f) ==
    /\ task[k] = "unborn"
    /\ Cardinality(Live(f)) < MaxLive
    /\ ui'   = [ui EXCEPT ![k] = "sending"]
    /\ UNCHANGED <<conf, nodeOn, sum, task, job, wire, disk, sumbuf, pc, body, put>>

\* RunTask, HwCheckFile, HwCreateTask: read the file's path and sum, insert a row.
\* Neither node_tab.ste nor file_tab.ste is read.
RunTask(k, n, f) ==
    /\ task[k] = "unborn"
    /\ Cardinality(Live(f)) < MaxLive
    /\ task' = [task EXCEPT ![k] = "wait"]
    /\ job'  = [job EXCEPT ![k] = [node |-> n, file |-> f, sum |-> sum[f]]]
    /\ ui'   = [ui EXCEPT ![k] = "sending"]
    /\ UNCHANGED <<conf, nodeOn, sum, wire, disk, sumbuf, pc, body, put>>

\* HwSend: connect to the agent and write the command; the row stays when it fails.
HwSend(k) ==
    /\ ui[k] = "sending"
    /\ \/ /\ ui'   = [ui EXCEPT ![k] = "wait"]
          /\ wire' = wire \cup {Cmd(k)}
       \/ /\ "push" \in Events
          /\ ui'   = [ui EXCEPT ![k] = "error"]
          /\ wire' = wire
    /\ UNCHANGED <<conf, nodeOn, sum, task, job, disk, sumbuf, pc, body, put>>

\* Variant with a bug: the row is deleted after any verdict.
CheckTaskStateDeleteAll(k) ==
    /\ ui[k] = "wait"
    /\ task[k] \in {"success", "error"}
    /\ ui'   = [ui EXCEPT ![k] = task[k]]
    /\ task' = [task EXCEPT ![k] = "deleted"]
    /\ UNCHANGED <<conf, nodeOn, sum, job, wire, disk, sumbuf, pc, body, put>>

\* CheckTaskState, polled by the browser while it reads "wait": a row that
\* succeeded is deleted, one that failed stays.
CheckTaskState(k) ==
    /\ ui[k] = "wait"
    /\ task[k] \in {"success", "error"}
    /\ ui'   = [ui EXCEPT ![k] = task[k]]
    /\ task' = [task EXCEPT ![k] = IF @ = "success" THEN "deleted" ELSE @]
    /\ UNCHANGED <<conf, nodeOn, sum, job, wire, disk, sumbuf, pc, body, put>>

\* set.php StateMsg: update the row, if it is there.
StateMsg(k) ==
    /\ \E m \in wire : /\ m.type = "state" /\ m.key = k
                       /\ wire' = wire \ {m}
                       /\ task' = [task EXCEPT ![k] = IF @ \in Rows THEN m.ste ELSE @]
    /\ UNCHANGED <<conf, nodeOn, sum, job, ui, disk, sumbuf, pc, body, put>>

\* Variant with a bug: only a null sum is filled in.
NewSumOnce(k) ==
    /\ \E m \in wire : /\ m.type = "filesum" /\ m.key = k
                       /\ wire' = wire \ {m}
                       /\ sum'  = [sum EXCEPT ![m.file] = IF @ = NoSum THEN m.sum ELSE @]
    /\ UNCHANGED <<conf, nodeOn, task, job, ui, disk, sumbuf, pc, body, put>>

\* set.php NewSum: the last report to arrive wins, whichever node it is from.
NewSum(k) ==
    /\ \E m \in wire : /\ m.type = "filesum" /\ m.key = k
                       /\ wire' = wire \ {m}
                       /\ sum'  = [sum EXCEPT ![m.file] = m.sum]
    /\ UNCHANGED <<conf, nodeOn, task, job, ui, disk, sumbuf, pc, body, put>>

----------------------------------------------------------------------------
(* The agent.                                                              *)

Goto(k, from, to) == pc[k] = from /\ pc' = [pc EXCEPT ![k] = to]

\* StateMsg of the agent: one connection per report, the answer is not read.
Post(m) == \/ wire' = wire \cup {m}
           \/ "drop" \in Events /\ wire' = wire

\* thread, CmdRun: a command starts the thread hcon, unless the agent loses it.
CmdRun(k) ==
    /\ Cmd(k) \in wire
    /\ wire' = wire \ {Cmd(k)}
    /\ \/ Goto(k, "idle", "get")
       \/ "frame" \in Events /\ Goto(k, "idle", "end")
    /\ UNCHANGED <<center, disk, sumbuf, body, put>>

\* HttpGet and set.php ResFile: the node is checked, the row is looked up and
\* the file's text of this moment is rendered.  A refusal is only logged.
ResFile(k) ==
    /\ pc[k] = "get"
    /\ IF nodeOn[job[k].node] /\ task[k] \in Rows
       THEN /\ Goto(k, "get", "check")
            /\ body' = [body EXCEPT ![k] = conf[job[k].file]]
       ELSE Goto(k, "get", "end") /\ UNCHANGED body
    /\ UNCHANGED <<center, wire, disk, sumbuf, put>>

\* The connection cannot be made, the header breaks off or is not a 200: logged.
FetchFails(k) ==
    /\ "fetch" \in Events
    /\ Goto(k, "get", "end")
    /\ UNCHANGED <<center, wire, disk, sumbuf, body, put>>

\* Variant with a bug: a missing file is not reported.
FileMissingSilent(k) ==
    /\ Goto(k, "check", "end")
    /\ Local(k) = Absent
    /\ UNCHANGED <<center, wire, disk, sumbuf, body, put>>

\* access fails: "File not found".
FileMissing(k) ==
    /\ Goto(k, "check", "end")
    /\ Local(k) = Absent
    /\ Post(Verdict(k, "error"))
    /\ UNCHANGED <<center, disk, sumbuf, body, put>>

\* access succeeds; without a sum from the center nothing is compared.
FileFound(k) ==
    /\ Goto(k, "check", IF job[k].sum = NoSum THEN "open" ELSE "size")
    /\ Local(k) # Absent
    /\ UNCHANGED <<center, wire, disk, sumbuf, body, put>>

\* A file of at most one byte, or one that is gone by now (-1), is not compared.
GetFileLen(k) ==
    /\ Goto(k, "size", IF Local(k) \in {Absent, Blank} THEN "open" ELSE "hash")
    /\ UNCHANGED <<center, wire, disk, sumbuf, body, put>>

\* FileSum stores the bytes of a sum one by one into a static buffer: a thread that
\* stores or copies s while another thread of the process stores a different sum
\* may mix the two.
Clash(k, s) == {Garbled : j \in {j \in Keys \ {k} :
                                   /\ job[j] # NoJob /\ job[j].node = job[k].node
                                   /\ pc[j] \in {"hash", "sum"}
                                   /\ Local(j) \notin {Absent, s}}}

StoreSum(k) == \E s \in {Local(k)} \cup Clash(k, Local(k)) :
                  sumbuf' = [sumbuf EXCEPT ![job[k].node] = s]

\* FileSum of the local file, up to its store into the static buffer.
SumLocal(k) ==
    /\ Goto(k, "hash", "compare")
    /\ Local(k) # Absent
    /\ StoreSum(k)
    /\ UNCHANGED <<center, wire, disk, body, put>>

\* FileSum cannot open the file any more: "(null)" is no sum of anything.
SumVanished(k) ==
    /\ Goto(k, "hash", "end")
    /\ Local(k) = Absent
    /\ Post(Verdict(k, "error"))
    /\ UNCHANGED <<center, disk, sumbuf, body, put>>

\* What thread k may copy out of the static buffer it shares.
Loaded(k) == LET s == sumbuf[job[k].node] IN {s} \cup Clash(k, s)

\* Variant with a bug: reports the error but does not leave (no goto VeError).
CompareSumFallsThrough(k) ==
    /\ Goto(k, "compare", "open")
    /\ \E s \in Loaded(k) :
          IF s = job[k].sum /\ s # Garbled THEN UNCHANGED wire
                                          ELSE Post(Verdict(k, "error"))
    /\ UNCHANGED <<center, disk, sumbuf, body, put>>

\* Variant with a bug: the sums are not compared.
CompareSumIgnored(k) ==
    /\ Goto(k, "compare", "open")
    /\ UNCHANGED <<center, wire, disk, sumbuf, body, put>>

\* memcmp of the copied sum with the one the center sent.
CompareSum(k) ==
    /\ pc[k] = "compare"
    /\ \E s \in Loaded(k) :
          IF s = job[k].sum /\ s # Garbled
          THEN Goto(k, "compare", "open") /\ UNCHANGED wire
          ELSE Goto(k, "compare", "end") /\ Post(Verdict(k, "error"))
    /\ UNCHANGED <<center, disk, sumbuf, body, put>>

\* Variant with a bug: the file is opened without truncating it.
OpenFileNoTruncate(k) ==
    /\ Goto(k, "open", "body")
    /\ put' = [put EXCEPT ![k] = Local(k)]
    /\ UNCHANGED <<center, wire, disk, sumbuf, body>>

\* fopen "wb" truncates or creates the file; a failure is only logged.
OpenFile(k) ==
    /\ Goto(k, "open", "body")
    /\ disk' = [disk EXCEPT ![job[k].node][job[k].file] = Blank]
    /\ put'  = [put EXCEPT ![k] = Blank]
    /\ UNCHANGED <<center, wire, sumbuf, body>>

OpenFails(k) ==
    /\ "open" \in Events
    /\ Goto(k, "open", "end")
    /\ UNCHANGED <<center, wire, disk, sumbuf, body, put>>

\* Part of the body: none of it, or a proper prefix.
Broken(k) == IF body[k] \in Texts
             THEN {Blank, [text |-> body[k], part |-> "torn"]}
             ELSE {}

\* What the file holds after thread k wrote d at its start: a file that was
\* filled since k truncated it may keep a longer tail; an empty d changes nothing.
After(k, d) ==
    IF d = Blank THEN {Local(k)}
    ELSE {d} \cup (IF Local(k) \in {Blank, d} THEN {}
                   ELSE {[text |-> body[k], part |-> "mixed"]})

Write(k, d) == \E c \in After(k, d) :
                  /\ disk' = [disk EXCEPT ![job[k].node][job[k].file] = c]
                  /\ put'  = [put EXCEPT ![k] = c]

\* The body loop ends on a closed or a broken connection alike; Hinfo.len is
\* not compared with what arrived.
WriteBody(k) ==
    /\ Goto(k, "body", "report")
    /\ \E d \in {body[k]} \cup (IF "cut" \in Events THEN Broken(k) ELSE {}) : Write(k, d)
    /\ UNCHANGED <<center, wire, sumbuf, body>>

\* fwrite fails: counted, logged, no verdict is sent.
WriteFails(k) ==
    /\ "write" \in Events
    /\ Goto(k, "body", "sum")
    /\ \E d \in Broken(k) : Write(k, d)
    /\ UNCHANGED <<center, wire, sumbuf, body>>

\* fclose fails to write out the stdio buffer: its result is not looked at.
CloseFails(k) ==
    /\ "write" \in Events
    /\ Goto(k, "body", "report")
    /\ \E d \in Broken(k) : Write(k, d)
    /\ UNCHANGED <<center, wire, sumbuf, body>>

ReportSuccess(k) ==
    /\ Goto(k, "report", "sum")
    /\ Post(Verdict(k, "success"))
    /\ UNCHANGED <<center, disk, sumbuf, body, put>>

\* FileSum of the file as it is now, up to its store into the static buffer.
SumWritten(k) ==
    /\ Goto(k, "sum", "load")
    /\ Local(k) # Absent
    /\ StoreSum(k)
    /\ UNCHANGED <<center, wire, disk, body, put>>

\* FileSum returns NULL, sent as "(null)": too short a sum to be compared later.
SumOfNothing(k) ==
    /\ Goto(k, "sum", "end")
    /\ Local(k) = Absent
    /\ Post(NewSumOf(k, job[k].file, NoSum))
    /\ UNCHANGED <<center, disk, sumbuf, body, put>>

\* sprintf copies the static buffer into the "filesum" report.
ReportSum(k) ==
    /\ Goto(k, "load", "end")
    /\ \E s \in Loaded(k) : Post(NewSumOf(k, job[k].file, s))
    /\ UNCHANGED <<center, disk, sumbuf, body, put>>

\* The node's owner edits the file in place, or creates or removes it while no
\* thread has it open.
LocalEdit(n, f) ==
    /\ "local" \in Events
    /\ \E c \in (Texts \cup {Absent}) \ {disk[n][f]} :
          /\ disk' = [disk EXCEPT ![n][f] = c]
          /\ Absent \in {c, disk[n][f]} =>
                ~ \E k \in Keys : pc[k] = "body" /\ job[k].node = n /\ job[k].file = f
    /\ UNCHANGED <<center, wire, sumbuf, pc, body, put>>

\* The agent process dies with its threads and their stdio buffers; it keeps
\* nothing on disk but the files, and comes back with an empty static buffer.
Crash(n) ==
    /\ "crash" \in Events
    /\ \E k \in Keys : Running(k) /\ job[k].node = n
    /\ pc' = [k \in Keys |-> IF Running(k) /\ job[k].node = n THEN "end" ELSE pc[k]]
    /\ sumbuf' = [sumbuf EXCEPT ![n] = NoSum]
    /\ UNCHANGED <<center, wire, disk, body, put>>

----------------------------------------------------------------------------
Hcon(k) == \/ ResFile(k)   \/ FetchFails(k)
           \/ FileMissing(k) \/ FileFound(k)
           \/ GetFileLen(k) \/ SumLocal(k) \/ SumVanished(k) \/ CompareSum(k)
           \/ OpenFile(k)  \/ OpenFails(k)
           \/ WriteBody(k) \/ WriteFails(k) \/ CloseFails(k)
           \/ ReportSuccess(k)
           \/ SumWritten(k) \/ SumOfNothing(k) \/ ReportSum(k)

TaskStep(k) == \/ \E n \in Nodes, f \in Files : RunTask(k, n, f)
               \/ HwSend(k)
               \/ CheckTaskState(k)
               \/ StateMsg(k)
               \/ NewSum(k)
               \/ CmdRun(k)
               \/ Hcon(k)

Next == \/ \E k \in Keys : TaskStep(k)
        \/ \E f \in Files : EditConf(f)
        \/ \E n \in Nodes : ChSte(n) \/ Crash(n)
        \/ \E n \in Nodes, f \in Files : LocalEdit(n, f)

Spec == Init /\ [][Next]_vars

\* The kernel runs every thread, PHP every request that arrives, and the
\* browser polls every second; nobody has to create a task or edit a file.
Fairness == \A k \in Keys : /\ WF_vars(HwSend(k))
                            /\ WF_vars(CheckTaskState(k))
                            /\ WF_vars(StateMsg(k))
                            /\ WF_vars(NewSum(k))
                            /\ WF_vars(CmdRun(k))
                            /\ WF_vars(Hcon(k))

FairSpec == Spec /\ Fairness

----------------------------------------------------------------------------
(* Properties.                                                             *)

\* The verdict a task holds is true of the node: "error" only if its thread
\* never opened the file, "success" only if it did (hcon reports "error" before
\* fopen and "success" after fclose; StateMsg writes what arrives).
VerdictSound ==
    \A k \in Keys : /\ task[k] = "error" => put[k] = NoWrite
                    /\ task[k] \in {"success", "deleted"} => put[k] # NoWrite

\* "success" means that the node's file became the whole text the center sent
\* (VeFile carries its length: set.php:72, conf_funs.h:46).
SuccessMeansWhole ==
    \A k \in Keys : task[k] \in {"success", "deleted"} => put[k] = body[k]

\* A push is refused only when the node's own copy is missing or was changed on
\* the node (the sum in file_tab stands for the last pushed copy).
RefusalMeansLocalChange ==
    \A k \in Keys : task[k] = "error" =>
        "local" \in Events \/ disk[job[k].node][job[k].file] = Absent

\* No push is refused over a copy that a push left on the node (file_tab.sum, the
\* file's checksum, is there to notice what was changed on the node: hfwdata.sql:17,
\* conf_funs.h:76-80).
PushedCopyAccepted ==
    \A k, j \in Keys : task[k] = "error" /\ job[j] # NoJob /\ job[j].node = job[k].node
                                          /\ job[j].file = job[k].file =>
        put[j] # Local(k)

\* Once every request and thread of a file is done, the sum in file_tab is the
\* sum of the file of some node (hfwdata.sql:17, NewSum).
SumTracksDisk ==
    \A f \in Files : Live(f) = {} /\ sum[f] # NoSum => \E n \in Nodes : disk[n][f] = sum[f]

\* A file whose sum matches no node's copy, with nothing under way that could
\* change either.
Wedged(f) ==
    /\ sum[f] # NoSum
    /\ \A n \in Nodes : disk[n][f] \notin {Blank, sum[f]}
    /\ \A k \in Keys : job[k] # NoJob /\ job[k].file = f =>
          /\ \A m \in wire : m.key = k => m.type # "filesum"
          /\ \/ pc[k] = "end"
             \/ pc[k] \in {"idle", "get", "check", "hash"} /\ job[k].sum = sum[f]
             \/ pc[k] = "size" /\ job[k].sum = sum[f] /\ Local(k) # Absent
             \/ /\ pc[k] = "compare" /\ job[k].sum = sum[f]
                /\ sumbuf[job[k].node] # sum[f] \/ sum[f] = Garbled

\* A wedge is permanent: no sequence of edits, pushes, faults and restarts ends
\* it but an edit on the node itself (RunTask sends the stale sum, hcon refuses,
\* and only a thread that was not refused reports a new sum).
WedgeIsPermanent ==
    [][\A f \in Files : Wedged(f) =>
          Wedged(f)' \/ \E n \in Nodes : LocalEdit(n, f)]_vars

\* The push keeps the promise of PushPromise.
Promise == INSTANCE PushPromise WITH
               st <- task, hit <- [k \in Keys |-> put[k] # NoWrite]
KeepsPromise == Promise!Spec

\* A browser that waits for the verdict gets one (CheckTaskState is polled until
\* the row's ste, the task's "execution state" of hfwdata.sql:50, is set).
PushAnswered == \A k \in Keys : ui[k] = "wait" ~> ui[k] \in {"success", "error"}
============================================================================
