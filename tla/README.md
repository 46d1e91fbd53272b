# config_center in TLA+

config_center keeps configuration files of many machines in one MySQL database.
An operator edits them in a PHP page and *pushes* a file to a machine: the page
sends a task key to the agent `confsvr` on that machine, the agent fetches the
file over HTTP, overwrites its copy and reports back. This directory holds TLA+
models of that program, TLC runs over small instances of them, and TLAPS proofs
about them for instances of every size. Line numbers refer to `src/`.

## 1. The system

### Components

| Component | Code | State | Operations |
|---|---|---|---|
| Push task life cycle | `conf.ve.cn/modle.php` (RunTask, CheckTaskState), `hfwinc/task.php`, `hfwindex.js` 411-439 | `task_tab` (ip, tkey, fid, fpath = path and checksum, ste), the browser's polling loop | create a row, contact the agent, poll, delete a row that succeeded |
| Node requests | `conf.ve.cn/set.php` | `task_tab`, `file_tab.sum`, `node_tab` | ResFile (get), StateMsg (state), NewSum (filesum) |
| Agent listener | `server/conf_funs.h` HwListen, thread, CmdRun; `confsvr.c` | listening socket, ConInf and SERINF frames, global thread ids, strtok's position | accept, receive and decode a command, start a push thread |
| Push thread | `server/conf_funs.h` hcon, HttpGet, StateMsg | the files of the node, HeadInfo, stdio buffer | fetch, check, overwrite, report a verdict, report a checksum |
| Checksum | `server/hwmd5.h` FileSum | a static result buffer | MD5 of a file |
| Codec | `server/conf_code.h`, `HwCrypt/` | none | padding, TEA, base64 |
| Editing and rendering | `modle.php` (CheConf, Chopts, deloption, chste), `set.php` VeFileType, `hfwindex.js` | `file_tab`, `conf_tab` | add, change and delete options; render a file |
| Sessions and rights | `checkuser.php`, `hfwinc/hwfunction.php`, `modle.php` (SaveUser, chste) | PHP session, `user_tab` | log in, check, re-check every 60 seconds, grant |
| Agent settings | `server/init.sql`, ReadInit | SQLite file read at start | none at run time |
| Operation log | WebCenterLogs | `fw_log`, write only | append |

Vendored code (SQLite, CodeMirror, jQuery, dialogs), RSA for the login form and
`conf.ve.cn/task.php` (an older copy of `hfwinc/task.php` that nothing includes)
are not part of the program's own logic.

### How they interact

    browser          center (PHP, MySQL)           agent confsvr on a node
      | runtask           |                              |
      |------------------>| insert task_tab              |
      |                   |---- "100 key" -------------->| thread -> CmdRun -> hcon
      |                   |<--- get ---------------------| hcon, its own thread
      |                   |---- VeFile header, body ---->| access, GetFileLen, FileSum
      |                   |                              | fopen "wb", write, fclose
      |                   |<--- state (verdict) ---------| own connection, answer not read
      |                   |<--- filesum (new MD5) -------| own connection, answer not read
      | chtask, every 1 s |                              |
      |------------------>| read ste; delete if success  |

Nothing but MySQL rows, the node's files and messages on separate connections
ties the two sides together; nothing is sent twice, and no side times out.

### What is hard, and what correct means

* *Push task and push thread* (modelled). Threads of one agent interleave at every
  system call and share FileSum's buffer and the files. Reports get lost or overtake
  each other. The center compares the node's file with a checksum read when the row was
  created. Several exits of hcon tell the center nothing. An agent may die between
  truncating the file and reporting. Correct means: a verdict is given at most
  once and is true of the node; "success" means the whole text arrived; a refusal
  means somebody changed the file on the node; file_tab.sum is the checksum of
  the file; the browser gets an answer.
* *Agent listener* (modelled). One ConInf is shared by all connection threads, one
  SERINF lives in a frame that has returned, strtok keeps its position for all threads,
  descriptors are reused or run out, threads are never joined. Correct means: a command is received
  once, starts one push of its own task, and its connection is closed once.
* *Sessions* (modelled). Rights are copied at login, the re-check depends on a clock
  that wraps. Correct means: a user who was disabled loses access within a bounded time.
* *Editing* (modelled). Ids chosen by the page, an id looked up by content after the
  insert, two saves in a row, a form and a rendering chosen by different rules, a
  renderer that stops at an empty section. Correct means: a page changes rows of its own
  file only, what was deleted stays so, and the rendered file holds exactly the options of the
  file, each once, in its section.
* *Codec* (modelled). Padding of up to 7 bytes, no end mark on whole blocks, a column
  that cuts, two ways to split. Correct means: what fits arrives, of the rest a beginning.

`PROJECT.json` lists every hazard with its line.

## 2. Modules

| Module | What it is |
|---|---|
| `PushPromise` | abstract: what one push promises its operator |
| `TaskPush` | detailed: center, wire, agents, threads, files |
| `MCTaskPush` | event sets and symmetry for TLC |
| `TaskPushProofs` | theorems about `TaskPush`, under all events |
| `TaskPushWedgeProofs` | the wedge is permanent, for one file |
| `TaskPushSerialProofs` | what holds when the tasks of a file run one by one |
| `IntakePromise` | abstract: what an agent promises about the commands sent to it |
| `NodeAgent`, `MCNodeAgent` | detailed: HwListen, thread, CmdRun, strtok, descriptors; symmetry for TLC |
| `NodeAgentProofs` | theorems about `NodeAgent` |
| `Session` | operators: logins, the re-check and its clock, changes of `user_tab` |
| `SessionProofs` | theorems about `Session` |
| `ConfEdit`, `MCConfEdit` | options and their pages, both renderings; symmetry for TLC |
| `ConfEditProofs` | theorems about `ConfEdit` |
| `Codec`, `MCCodec` | padding, TEA, base64, fields; small words for TLC |
| `CodecProofs` | theorems about `Codec` |
| `DataLemmas` | induction, division, folds and sequences, for these proofs |

How they fit together: the text `conf[f]` that `TaskPush` pushes is what `VeFileType` of
`ConfEdit` makes of the rows; the path and checksum `job[k]` of `TaskPush` travel the way
`Codec` follows; the events `frame` and `fetch` of `TaskPush` (a command that starts no thread, a
fetch without an answer) are all that `NodeAgent` may do to a push when commands come one at a
time; every request of a page in `TaskPush` and `ConfEdit` has passed `Chackuser` of `Session`.
They are checked one by one: their product is out of reach, and no two of them write a common
variable.

### PushPromise

Per task, the state `st` of its row and whether the node's file was overwritten,
`hit`. A task is created waiting; it may be overwritten once while it waits; it
succeeds only if it was overwritten and is refused only if it was not; only a success is
cleared away. Nothing is promised about time.

### TaskPush

State and code:

| Variable | Code |
|---|---|
| `conf[f]` | the text VeFileType renders from `conf_tab` at this moment |
| `nodeOn[n]` | `node_tab.ste`, read by CheckHost |
| `sum[f]` | `file_tab.sum` |
| `task[k]` | the row in `task_tab`: unborn, `ste` 0, 1, -1 (wait, success, error), deleted |
| `job[k]` | `ip`, `fid` and the checksum inside `fpath`, fixed when the row is inserted |
| `ui[k]` | the browser that started k: its request is running, it polls, it showed a verdict |
| `wire` | requests under way in both directions, unordered |
| `disk[n][f]` | the files of node n |
| `sumbuf[n]` | `static char output[33]` of FileSum in the agent of n |
| `pc[k]` | the thread hcon of k, by its next system call |
| `body[k]` | the text set.php sent to it |
| `put[k]` | history: what the thread of k left in the file, NoWrite if it never opened it |

Actions and code: `RunTask` reads the checksum and inserts the row; `HwSend` is the
rest of that request (it stays separate because other requests run in between).
`CheckTaskState`, `StateMsg`, `NewSum`, `ResFile` are one PHP request each: every one
reads or changes one row with one statement (set.php's `get` reads two tables that
no action changes together). hcon is cut at each call that others
can observe: `FileMissing`/`FileFound` (access), `GetFileLen`, `SumLocal`/`SumVanished`
(FileSum up to its store), `CompareSum` (the copy out of the static buffer and
memcmp), `OpenFile`/`OpenFails`, `WriteBody`/`WriteFails`/`CloseFails` (the body loop
and fclose), `ReportSuccess`, `SumWritten`/`SumOfNothing` and `ReportSum`. `CmdRun`
covers thread and CmdRun. `LocalEdit` and `Crash` are the environment. A poll that reads
"wait" changes nothing and is a stuttering step, so it has no action.

Data: a content is a rendered text, at most one byte (`Blank`: GetFileLen's limit), or a
partial (`torn`) or mixed piece of a text; a checksum *is* the content it was computed
from, so two contents never share one. `Garbled` stands for bytes of two different checksums in the static
buffer (its bytes are overwritten one by one, so two equal ones mix to themselves). A text of one byte or none is written as `Blank`, which makes the broken
piece of it the same as the whole. When two threads were both let through, the one that writes last writes its text over
what the other left and may keep a longer tail of it (`mixed`). The body loop of one thread
is one step, as is the reading of a file by FileSum: a checksum taken while another thread is
between two buffers of its body is taken before or after that loop.

Uninitialised memory: HeadInfo is not cleared, and some of its strings are copied
without their end. Every push has a fresh thread whose stack is never reused (threads are
neither joined nor detached), so these bytes are zero in the builds modelled.

Environment: `Events` says what may happen in an instance (`AllEvents` lists them: edits,
nodes turned on and off, local edits, connections that fail, a lost command, a broken body, failing
fopen/fwrite/fclose, a lost report, a crash). The lost command (`frame`) stands for the
shared frames of HwListen and CmdRun. The browser's own requests do not fail, MySQL
statements succeed, and file paths, node addresses and keys do not change.

### IntakePromise and NodeAgent

`IntakePromise`: a command is received at most once, and on behalf of a received command
at most one task is fetched: its own if the commands come one at a time, that of some
received command otherwise.

| Variable of NodeAgent | Code |
|---|---|
| `net[c]`, `unread` | the center's connections and the command each carries |
| `file[d]` | the process's descriptors; 0 is standard input at the start |
| `lpc`, `lret`, `conInf` | HwListen: its next step, `ret`, `ConInf.sock` |
| `starved` | history: an accept failed because no descriptor was left |
| `th[t]` | thread t, `thread` or `hcon`: program counter, socket, `arr`, the position strtok loaded, the key copied, the socket of a report and the reports it may still send |
| `serv[t]`, `reused` | the SERINF in the frame of t's CmdRun; frames overwritten after CmdRun returned |
| `tok` | strtok's static position |
| `born`, `denied` | threads created, none is ever given back; history: a pthread_create failed |
| `calm` | whether the center lets the agent finish with a command before it sends the next; an instance has one of the `Paces`, or both |
| `fetch[c]`, `th[t].cmd` | history: tasks fetched on behalf of command c |

`Accept` is the call of accept. The kernel sets the lowest free descriptor aside (`Awaited`) before it
waits for a connection; without a free one accept returns -1 at once, connection or not. `Accepted` is its
return with a connection. Both ways out go on with the memset, which puts 0 into `ConInf.sock`;
`StartThread` is the assignment and pthread_create (lines 129-132), after which the next accept, the moment it
returns or fails, overwrites ConInf whether or not `CopyConInf` (143) has run: a thread may thus serve
descriptor 0, -1, or the connection of the next one. `RecvCommand` takes the command off the socket for whichever thread
asks first. split is taken token by token (the random third
one of a command, which nobody looks at, and three of VeFile's five are left out): `SplitLoad` reads the static position, `SplitStore`
writes it back, so two splits tear each other's text apart. `CmdRun` creates hcon with the address of its
frame, `CopyFrame` (22) reads it, perhaps after `MayReuse`. `WildPointer` is strlen of an `arr[1]` that was
never set: it ends the process or reads junk. `HttpGetFails` leaks the socket when it is
connect that fails (9), closes it when it is send (8). `Close` closes whatever the number stands for by
then; a descriptor only set aside cannot be closed. `GetHeader` and `GetProc` begin hcon's two splits, of VeFile (44)
and of veProc (57); of a refusal's VeFile strtok finds the length alone. `Report` is the HttpGet of StateMsg, which leaks
its socket when connect fails, `Posted` its close, `WorkEnd` the close at the end of hcon. An hcon sends up to
`MaxReports` of them, two in the code (93, 95); what they say is in TaskPush. `KEYNUM`, hosts,
times and logs are left out; `thread`'s loop leaves after recv returns 0 or -1.

Left to the environment: the kernel serves queued connections in any order, hands out the
lowest free descriptor, and never refuses the center's connect.

### Session

| Variable | Code |
|---|---|
| `user[i]` | row i of `user_tab`: name and hash (one credential), `ste`, right 0 in `grup` |
| `sess[b]` | the PHP session of browser b: `#UID` and `#PWD`, `#TID`, right 0 of `#GRUP`, `#DTE` |
| `doing[b]` | a change of `user_tab` whose page has passed chackuser and Gants |
| `now` | the second of the 12-hour dial |
| `served`, `stale`, `turned` | histories of one browser, `Watched` |

`Login` is checkuser.php; `Chackuser` the check at the head of modle.php with seluser in it;
`Request` any page that leaves `user_tab` alone; `AskEdit` and `DoEdit` the two halves of useron, useroff and
SaveUser, since a request of another browser may come between check and statement; `Loginout` ends the session even of
a user who fails the check. `His` is `date('his')` with its digits, so that
the subtraction of hwfunction.php:41 is the one the program makes. `EditedRow` follows SaveUser: an empty
password keeps the hash, and a new row gets the hash of `$pwd`, a variable that is not set,
so it is `Locked` until it is saved again with a password. NextId counts rows, as user_tab has no delete.

What the model shows of the clock: a session's `#DTE` is compared as a number. After one
o'clock the difference is negative until the dial comes back to `#DTE`; a session whose `#DTE`
falls into the last minute (12:59:xx) is never checked again, and one that keeps polling
across one o'clock was last checked just there. That is why the two properties have the
exceptions they have; without them they fail. Rights taken away are not noticed at all: `sess[b].admin` changes at login only.

### ConfEdit

| Variable | Code |
|---|---|
| `table[i]`, `lastId` | `conf_tab` in the order a select without "order by" meets it, and its auto_increment |
| `name[f]` | the end of `file_tab.file`, of which both rules look at some part |
| `page[p]` | a dialog of HwConfig: its file, its form, the ids behind its buttons |
| `adding[p]` | Chopts between its insert and the select that looks the id up |
| `saved[f]` | history: the text saved last, or `Mixed` once an options form changed the file |

`Open` is confopt and HwConfig; `SaveOption`, `AddOption`, `DelOption` the buttons of the options form,
`SaveText` that of the text form, each with the statement it causes; `Answer` the select by
content, limit 1, and what the page does with the id; `CheConf` a renamed file. MyISAM puts a row
into the hole a delete left or at the end (`Insert`), so the first row by place is not the oldest. A page sends one
request at a time. `VeFileType` is a fold over the rows: `RenderIni` lists keys, `RenderText` goes
through the sections in the order of their first row, main first, and stops at the first without text.

Facts the model made plain, kept as hazards: the form looks behind the *first* dot of the
name and is case-sensitive, the rendering looks at the last four characters in lower
case, so `x.y.ini` has a text form and an `.ini` rendering, which leaves its row out; a text saved twice
from a new editor is in the file twice; an update of a row that is gone is
answered "chsuccess"; a key longer than its column makes the select miss.

### Codec

`encrypt`, `decrypt`, `Hcrypt`, `BaseEncode`, `BaseDecode` and `HwCrypt` are operators on byte strings:
padding is a NUL and letters drawn by hrand, whole blocks get no end mark, a decoded text that is no
whole number of blocks loses its rest, BaseDecode overwrites its input while reading it.
Exclusive or works byte by byte, from a table of bytes. `Text` is the C string PHP and strtok see. The state machine follows one path and checksum:
`HwCreateTask` encodes both into `fpath` and MySQL cuts at 256 (`Stored`), `ResFile` decodes,
splits with explode and encodes the header, `TakeHeader` is hcon's decode and strtok.

With the real sizes `Fit` is 192: a path of up to 159 bytes arrives with its 32 characters of
checksum; a longer one with a cut checksum, which is refused or not compared; of 192 or more, cut itself.
Buffers are not part of the model.

### Variants

Mutated variants of some actions stand next to them ("Variant with a bug"); no
specification uses them. They are what `PROJECT.json` "mutants" puts in the action's
place to show that the property tells the two apart.

## 3. Properties and runs

| Property | Says |
|---|---|
| `TypeOK` | types, and nothing of a task moves before its row exists |
| `VerdictSound` | an error row's thread never opened the file, a successful row's did |
| `SuccessMeansWhole` | after success the file became the whole text the center sent |
| `RefusalMeansLocalChange` | a push is refused only if the node's copy is missing or was changed there |
| `PushedCopyAccepted` | no push is refused over a copy an earlier push left on the node |
| `SumTracksDisk` | when a file is at rest, its checksum at the center is that of some node's file |
| `WedgeIsPermanent` | once the checksum fits no copy and nothing is under way, only an edit on the node ends it |
| `KeepsPromise` | TaskPush implements PushPromise |
| `PushAnswered` | a browser that waits gets a verdict |
| NodeAgent `KeepsIntake` | NodeAgent implements IntakePromise, races and all |
| `PushesOwnTask` | one command at a time: hcon has its command's key, unless its frame was reused, and the lines of its own answer |
| `DescriptorsReturned` | one command at a time: at rest every accepted connection is closed, only sockets whose connect failed are open |
| `NoCommandStuck` | one command at a time: at rest every accepted command has one hcon of its own |
| `CommandTaken` | one command at a time: a queued connection's hcon runs to its end |
| Session `RevokedSoon` | an operator no longer valid gets no page after Limit seconds, unless one o'clock passed |
| `RevokedEnds` | and loses the session, unless it was last checked in the last minute of the dial |
| ConfEdit `PagesListOwnFile` | the ids behind a page's buttons are of its file or of no row |
| `DeletedStaysDeleted` | no save brings a deleted row back, no id is used twice |
| `SavedIsRendered` | a text saved last is in what is rendered, unless rendered as .ini |
| `RenderKeepsAll` | the default rendering, if not empty, has each row once, under its section |
| Codec `PathArrives` | path and checksum that fit arrive unchanged |
| `CutArrives` | of others a beginning arrives, never other bytes |
| `HeaderTaken` | the header always has the five fields hcon asks for |

`DescriptorsReturned`, `NoCommandStuck` and `CommandTaken` have two exceptions, an accept that found no descriptor
(`starved`) and a pthread_create that failed (`denied`). Without the first they fail: a connect that fails leaves its
socket open (conf_funs.h:9); when all descriptors but one are used up that way, the next command takes the last one, accept
fails at once and overwrites ConInf under the thread of that command, which is lost with its connection open. From then on
accept returns -1 again and again and HwListen creates a thread each time.

`NodeAgent`, `Session`, `ConfEdit` and `Codec` also have a `TypeOK` with the shape invariants its state has (a thread
has a program counter only if it was created; an edit is under way only for a browser with right 0;
ids differ; the column holds at most `Column` letters).

| Run | Instance | Result |
|---|---|---|
| `push_serial` | 1 node, 1 file, 3 tasks, 2 texts, one task in flight; edits and refusals | SuccessMeansWhole, RefusalMeansLocalChange, SumTracksDisk hold |
| `push_faults` | 2 tasks in flight, 1 text, every event | TypeOK, VerdictSound, KeepsPromise hold |
| `push_wedge` | 3 tasks, 2 in flight, 2 texts, edits and lost reports | WedgeIsPermanent holds |
| `push_answered` | 2 tasks in flight, 1 text, local edits and broken bodies, fairness | PushAnswered holds |
| `agent_intake` | 2 commands, calm or not, 3 descriptors, 4 threads, no reports | KeepsIntake holds |
| `agent_calm` | 2 commands one at a time, 4 descriptors, 4 threads, 2 reports each, fairness | TypeOK, PushesOwnTask, DescriptorsReturned, NoCommandStuck, CommandTaken hold |
| `operators` | 2 browsers, 2 rows, 2 credentials, 1 change, a dial of 4 seconds, fairness | all of Session's hold |
| `conf_edit` | 2 files, 2 pages, 3 inserts, 1 key, 2 values, 2 sections | all of ConfEdit's hold |
| `path_codec` | 136 paths, 3 checksums, column of 24 | all of Codec's hold |
| `public_file` | 2 nodes, 3 tasks, one in flight, no fault | PushedCopyAccepted fails |
| `torn_success` | 1 task, broken bodies | SuccessMeansWhole fails |
| `push_unanswered` | 1 task, failing writes, fairness | PushAnswered fails |

The last three are disagreements between what the code's schema and comments say
and what it does; `PROJECT.json` "findings" quotes both sides:

* *public_file*: one checksum per file, a file may belong to all nodes. A text goes to node 1,
  is edited, and goes to node 2; the next push to node 1 is refused with "Md5sum error" over the copy
  the first one left there, for it comes with node 2's checksum.
* *torn_success*: the length is sent and parsed but never compared.
* *push_unanswered*: a failed write is logged on the node only.

`WedgeIsPermanent` says how bad a wrong checksum is. After an overlap or one lost report the
center compares every later push with a checksum no node has; each is refused, a
refused thread reports no new checksum, and so none of the operator's means
(editing, pushing again) helps. It is about what the code does, not a promise it makes. It is checked for
one file per agent: with two, the static buffer may by chance hold the right
checksum and let a push through.

`Wedged` and the two properties on checksums exclude what the code handles otherwise: a file of at
most one byte is never compared, and a null checksum is not compared.

### Bounds

* `MaxLive` bounds the tasks of one file in flight at once. One is the disciplined
  operator who waits for the outcome; two let any two steps of two pushes interleave. It
  is a guard of `RunTask` and `Keys` bounds the tasks in all.
* Three tasks in `push_serial`, `push_wedge` and `public_file`: one sets a checksum, a second
  makes it stale, a third meets it. `push_faults` and `push_answered` are about the exits of a
  push and what a second one in flight does to it; two tasks are enough.
* Two texts tell the old content from the new; where no edit matters, one text and
  `Blank` do.
* Tasks of one file at one node are interchangeable and no formula names a key or a text, so
  permutations of `Keys` (and `Texts`) are used as symmetry, in runs without liveness
  (`PushAnswered` is checked without symmetry). `KeepsPromise` and `WedgeIsPermanent` are
  properties of single steps that treat all keys alike.
* `agent_intake`: two commands are what a race needs, and four threads are those of two
  commands; three descriptors let standard input, a connection and one socket be open, so that accept and
  socket() run out of them in every order. A third command would only repeat the pair. Reports open and
  close one more socket and read nothing KeepsIntake is about, so they are left to `agent_calm` (`MaxReports = 0`).
  Connections are only compared with each other, and KeepsIntake treats all alike: their permutations are the symmetry.
* `agent_calm`: one more descriptor (`MaxFd = 3`), for a report while hcon's own socket is open and accept holds one
  back. The first command may leak none, one (its connect) or two (its reports), so accept, which may be called early or late,
  fails in some behaviours and not in others. `Paces` has the calm one alone: all five properties are about it. Four threads are those
  of two commands whose accepts succeed; what a failed accept starts comes on top, and `denied` is reached through it.
* `operators`: `Hours = 1, Minutes = 2, Seconds = 2, Base = 3, Limit = 2` keep what matters of
  12, 60, 60, 100 and 60: Limit is a minute, a minute's carry adds Base - Seconds to the difference,
  one o'clock brings the smallest number, and from the last minute no number is more than Limit away. One change of
  `user_tab` turns a user off (or on, or changes its password or shadows its row); what follows it is the re-check.
* `conf_edit`: three inserts give two twins and a hole before them; two pages race. `Names` has one
  name of each rendering (`x.y.ini` and `x.ini.bak` in their place give the same result).
* `path_codec`: words of two bytes and a column of 24 make blocks of 4 and `Fit` 16; paths of every length
  to 20 with three checksums go below, to and beyond it at each remainder.
* The runs of NodeAgent and `path_codec` turn the deadlock check off: when all commands are done, or
  the process has ended, or the header is taken, nothing is left to do.
* Of the runs of TaskPush only `torn_success` and `push_unanswered` turn the deadlock check off: their one
  task ends and no edit is enabled. In the other runs the operator can always edit,
  or the node's owner can.

### Fairness

`FairSpec` adds weak fairness, per task, of HwSend, CheckTaskState, StateMsg, NewSum, CmdRun and
the thread's steps taken together. The kernel runs every thread that can run; PHP
runs every request that arrives; the browser polls again one second after each "wait"
(hfwindex.js:432), with no limit. Nobody is obliged to create tasks or to edit, and no
fault is fair. `push_answered` leaves out the events after which the code knows it has told nobody:
refusals by the center, fopen and fwrite failures, lost commands and reports, crashes.

`agent_calm` assumes weak fairness of HwListen and of every thread: the kernel runs what can run; a
connection attempt, a recv and a header end one way or the other. No center has to send a command.

`operators` assumes that the clock runs and a statement ends, and strong fairness of a request of the
watched browser while its check is due. The latter is the browser that waits for a push: it polls every
second (hfwindex.js:432), so in every second in which the check is due. An operator who asks for
nothing is served nothing, and `RevokedSoon` covers that case without fairness.

## 4. Proofs

`TaskPushProofs` proves, for all finite or infinite sets of nodes, files, tasks and texts, for every
set of events and every `MaxLive`:

* `TypeCorrect`: Spec => []TypeOK,
* `VerdictsAreSound`: Spec => []VerdictSound,
* `PromiseKept`: Spec => KeepsPromise, that is, TaskPush implements PushPromise.

The assumptions are those of `TaskPush`: the special values differ from the contents
(`SpecialValues`), `Events` is a subset of `AllEvents` and `MaxLive` is a natural number.

VerdictSound is not inductive: it does not say why the verdict that arrives is true.
`IInv` adds, per task (`Phase`): while the thread has not opened the file, nothing was put, the row
waits and no verdict is on the wire; between opening and reporting, something was put and
the row still waits; a verdict on the wire agrees with what was put and its row
waits. `OpenPresent` adds that the file a thread is writing is there, which typing `put` needs.
The proof shows that each of TypeOK, OpenPresent and Phases is kept by each
action (`TypeStep`, `OpenStep`, `PhaseStep`); `WriteLeaves` treats the three ways out of the body loop as
one, `PhaseOfOthers` carries the tasks that do not move. `PromiseStep` maps RunTask to Create, OpenFile to
Overwrite, StateMsg to Succeed or Refuse, CheckTaskState to Clear or to nothing, and
everything else to a stuttering step.

`TaskPushWedgeProofs` and `TaskPushSerialProofs` go on from `IInv` and say more under hypotheses, each of them
named in the theorem. They exclude what the code cannot survive, and the runs show that it cannot:

* `WedgePermanent`: Spec => WedgeIsPermanent, for any events, any `MaxLive` and any nodes, if the agents
  have one file (`OneFile`). With a second file a sum that FileSum's static buffer holds for the other
  file can be reported and end the wedge by accident. A step that writes the file must
  come from a thread that passed the checksum, so while the sum at the center is no node's, nothing
  but the owner of a node changes a copy, and nothing a thread reports is new.
* `Serial`: if `MaxLive <= 1`, that is, nobody starts a task of a file while another is in flight, two tasks of a
  file never overlap (`OneByOne`; the set of tasks is finite, for `Live` is counted). What
  follows rests on this.
* `WholeSuccess`: Spec => []SuccessMeansWhole, if besides no body is cut, no write fails and nobody else writes
  the file (`NothingTorn`); drops, refusals and crashes are allowed. `torn_success` shows what one cut body does.
* `SumIsTracked`: Spec => []SumTracksDisk, if `OneFile` and no report is lost, no agent crashes and nobody else
  writes the file (`SumsArrive`); bodies may be cut and writes may fail. With a second file one thread may copy its checksum out of FileSum's static
  buffer while another stores the other file's there.
* `RefusalIsTrue`: Spec => []RefusalMeansLocalChange, with one node in addition (`OneNode`): one row of file_tab
  has one sum for all nodes, and `public_file` shows what two of them make of it.

The invariants behind them follow a text from the center to the file: `Whole` says what a
thread that has opened its file has put there, `Tracks` that the center's sum is
a copy's or is owed by a thread on its way to report, `Checked` and `SumFits` that the sum a thread was sent is
the one its node has.

`NodeAgentProofs` proves, for any number of commands, threads and descriptors, from the
assumption `NamesDiffer` (owners of a descriptor and connections are told apart) and that the limits are numbers:

* `TypeCorrect`: Spec => []TypeOK,
* `IntakeKept`: Spec => KeepsIntake, that is, NodeAgent implements IntakePromise, races included,
* `OwnTask`: Spec => []PushesOwnTask,
* `Descriptors`: Spec => []DescriptorsReturned,
* `NoneStuck`: Spec => []NoCommandStuck.

The invariant has parts for every interleaving and parts for commands that come one at a time. `ReadOnce` holds
under every interleaving: a token, a key, a frame and a fetch is of a command that was received, every received command
is carried by at most one thread, and nothing is fetched for it before HttpGet. Of a calm center, `OneWorker` says that one
command at most waits to be received or one thread at most is at work, and `OwnText` that the tokens split off so far and what strtok has left
are the text of the thread's own command or answer. Both survive a failed accept: Connect waits all the same until no
command is pending and no thread at work. `Handed` is for a calm center until an accept fails: `OneAtATime` (what may be in motion at once: while one
command is handed over all others rest, and while an hcon runs a thread is at most back in recv), `OwnDescriptors` and
`Owned` (each open descriptor is held by the thread that will close it, is set aside for the accept that waits, or is leaked)
and `Attended` (an open connection is on its way to a thread or carried by one). A failed accept ends `Handed` for good:
after it a thread may hold 0 or -1 for the connection it was started for. That
`calm` is the guard of Connect, not a hope about time, is what makes these inductive.

`SessionProofs` proves, for any browsers, credentials, rows and dial,

* `TypeCorrect`: Spec => []TypeOK,
* `RevocationIsSoon`: Spec => RevokedSoon,

from `DialAssumption`: the groups of the number hold its minutes and seconds (`Minutes <= Base`,
`Seconds < Base`; the code has 60 of each and 100) and the limit is at least a minute. The
core is `Spread`: two readings of the dial that are Limit seconds apart, with no one o'clock between,
differ by more than Limit, because a minute's carry makes the difference larger than the
time, never smaller. The invariant adds that #DTE is a reading at or before now (`Dated`)
and that nothing is stale while the row is valid (`Fresh`). The proof attempt changed the module twice: it needs
the assumption on `Base`, and two cases of Tick overlapped.

`ConfEditProofs` proves, for any number of files, pages, keys, values, sections and ids:

* `TypeCorrect`: Spec => []TypeOK, with the ids that differ and the text form that holds one,
* `PagesAreTrue`: Spec => []PagesListOwnFile,
* `NoResurrection`: Spec => DeletedStaysDeleted,
* `TextsAreStored`: Spec => []SavedKept, below,
* `SavedTextsAreRendered`: Spec => []SavedIsRendered,
* `RenderingKeepsOptions`: Spec => []RenderKeepsAll,

from the assumptions `Distinct` and `HoleIsNoRow` of `ConfEdit` (a place without a row does not look like
a row, a history mark not like a text, and there is a main section). PagesListOwnFile is not inductive: a new row could have
an id some page already holds. `IInv` adds that rows and pages know only ids that were handed out,
and that a page which waits for the id of an insert is open. Every action is first shown to be a `Grown` step
of conf_tab (rows of before, and at most one with a new id) and a `PagesKept` step of the
pages (ids a page had, or ids of rows of its file); the invariant follows from these two alone.

SavedIsRendered says nothing of where the text is, so it is not inductive either. `SavedKept` adds what holds while
only text forms have changed a file: an id behind a page's button is of a row that is still there
(else the update of a row that is gone would succeed and store nothing), and the text is in a row without a key, in main.
It also needs that no place behind the rows ever handed out is filled, so that an insert has a place. `FilesLeft`
goes through the actions: a step leaves a file's rows, stores a text in one, or marks the file `Mixed`.
What is left is about data, for every sequence of rows: `ChosenPlaces` (a loop with a condition takes each
row that fits once), `NodesOrdered` (each section once, main first), `FlattenPlaces` (where each member of
a concatenation is), `UnderSection` (the last header above a line is its section's) and `KeepsAll`, which counts
rows and lines by two functions that are one to one. RenderKeepsAll follows from the types alone, for any table.

`CodecProofs` proves, for words of any number of bytes, any number of rounds, any key, column, paths, sums
and padding letters (with the code's own among them: 4, 32, `HwKey`, 256),

* `TypeCorrect`: Spec => []TypeOK, the length of the column included,
* `PathsArrive`: Spec => []PathArrives,
* `BeginningsArrive`: Spec => []CutArrives,
* `HeadersAreTaken`: Spec => []HeaderTaken,

from `CodecAssumption`, which TLC evaluates: decrypt starts at the sum where encrypt ends (0xC6EF3720 is 32 times
0x9e3779b9, cut to a word), the exclusive or of two bytes is a byte (nothing else about it matters), names have
neither the byte 0 nor the separator, and the column holds a block. That last one came from the proof: if less than
a block is left, ResFile finds an empty path, and strtok four fields.

The proof undoes one layer after the other. `CycleUndone` and `TeaUndone`: a cycle back
undoes a cycle, because what it subtracts is computed from what the cycle left alone. `Digits` and
`Recombined`: a word is its bytes. `HcryptUndone`: the blocks that are whole come back, whatever follows
them. `BaseUndone`: writing byte c overwrites no letter a later byte is made of (`OneByte`), and a beginning of the letters
gives a beginning of the bytes. `TextArrives` puts them together and drops the padding.
`ExplodeMore`, `JoinFive` and `SplitAll` show that five names, joined, are five fields again, and `CutFields` what explode
makes of a beginning. Then the invariant needs only to say that the column is a beginning of the encoded text (`Delivered`)
and that header and fields are made of the bytes that arrived (`Found`).

The library's induction theorems take an operator as parameter, which the provers here cannot
instantiate. `DataLemmas` states induction about a set of numbers instead (`Induction`, from the least member
of a set of naturals), and derives from it that a recursive function, a fold and FlattenSeq are what
their equations say (`Iteration`, `FoldExists`, `FlattenSteps`). The operators of `Codec` and `ConfEdit` are therefore folds
and recursive functions; SelectSeq, which the prover cannot expand, is a fold too (`Chosen`).

Every invariant and action property that a passing run checks is one of these theorems. Only model-checked:
liveness (`CommandTaken`, `RevokedEnds`, `PushAnswered`), which is out of the prover's reach.

## 5. Not modelled

* MD5 collisions, and MD5 itself: a checksum stands for a content.
* The byte loop that looks for the end of the HTTP header and the other header lines (`Server:`,
  the status): a header arrives or the fetch fails.
* Buffer sizes of the agent (a hazard with a note) and its uninitialised memory (zero, section 2).
* ReadInit and init.sql: read once at start, constants of a run. The agent's port is
  always taken to be the one task.php contacts (`'32303'`; `node_tab.port` is read by nobody).
* The operation log: written, never read by a decision. Lists, paging, layout.
* rsa.php and hfwrsa.js: library cryptography around the login form.
* A failing MySQL statement: the handlers log it and go on.
* Vendored code. SQLite alone (`server/sqlite3.c`, `sqlite3.h`) is 99 of every 100 lines of C here
  and is used to read three settings at start; a model of it would say nothing about this program. Of what
  remains, the lines with state or decisions are mapped.

## 6. Plan

1. `TaskPush`, `PushPromise` and their proofs (done).
2. `NodeAgent`, `IntakePromise` and their proofs (done).
3. `Session` and its proofs (done).
4. `ConfEdit` and its proofs, the renderings among them (done).
5. `Codec` and its proofs (done).
6. Proofs about TaskPush: the wedge, and tasks run one by one (done).
