----------------------------- MODULE NodeAgent -----------------------------
(***************************************************************************)
(* The agent confsvr takes up commands: HwListen accepts a connection and  *)
(* starts a thread for it, the thread receives the command and CmdRun      *)
(* starts a second thread, hcon, that fetches the task of the key in it.   *)
(* What hcon does with the file is the subject of TaskPush; here it only   *)
(* holds a socket, splits two lines of the answer's header, reports and    *)
(* ends.                                                                   *)
(*                                                                         *)
(* Three things are shared: ConInf of HwListen, of which every thread gets *)
(* the address; the frame of CmdRun, whose address hcon gets; and the      *)
(* static position of strtok.  Threads are never joined, so each one       *)
(* counts against the limit of the process for good.                       *)
(*                                                                         *)
(* The center opens one connection per command, writes the command and     *)
(* closes.  calm says whether it leaves the agent the time to finish with  *)
(* one command before the next.  starved says whether accept ever failed   *)
(* because no descriptor was left: HwListen does not look, and starts a    *)
(* thread for the socket it did not get.                                   *)
(***************************************************************************)
EXTENDS Integers, Sequences

CONSTANTS
    Conns,       \* connections from the center; the key sent is named by its connection
    Paces,       \* how the center may send: calm TRUE, FALSE or either
    MaxFd,       \* descriptors 0..MaxFd, the listening socket's not counted
    MaxThreads,  \* bound: threads the process can create in its life
    MaxReports,  \* bound: reports one hcon sends, at most two in the code
    Free, Stdin, \* a closed descriptor; descriptor 0 at the start
    Leaked,      \* a socket nobody closes
    Awaited,     \* a descriptor the kernel keeps for the accept that waits
    Junk,        \* bytes that are no task's key
    Nobody       \* no connection

ASSUME LimitsAreNat == MaxFd \in Nat /\ MaxThreads \in Nat /\ MaxReports \in Nat /\ Paces \subseteq BOOLEAN

Fds   == 0 .. MaxFd
NoFd  == -1
Tids  == 1 .. MaxThreads
Parts == {"word", "key", "len", "path", "ver", "error"}

ASSUME NamesDiffer ==
    /\ Conns \cap (Tids \cup {Free, Stdin, Leaked, Awaited, Junk}) = {}
    /\ {Free, Stdin, Leaked, Awaited} \cap Tids = {}
    /\ Free # Stdin /\ Free # Leaked /\ Stdin # Leaked
    /\ Awaited \notin {Free, Stdin, Leaked}

Token(p, c) == [part |-> p, of |-> c]

\* "100\x01key" of the center's HwSend, whose third token is random and never looked
\* at; of the fields of VeFile the first, the only one a refusal fills in, and one
\* more; those of veProc.
Command(c) == <<Token("word", c), Token("key", c)>>
VeFile(c)  == <<Token("len", c), Token("path", c)>>
Refusal(c) == <<Token("len", c)>>
VeProc(c)  == <<Token("ver", c), Token("error", c)>>

VARIABLES
    calm,        \* the commands come one at a time
    net,         \* net[c]: new, queued by the kernel, accepted
    unread,      \* connections whose command was not received yet
    file,        \* file[d]: what descriptor d stands for
    lpc, lret,   \* HwListen: its next step, what accept returns
    conInf,      \* ConInf.sock
    starved,     \* an accept failed for want of a descriptor (history)
    born,        \* threads created so far
    denied,      \* a pthread_create failed (history)
    th,          \* th[t]: thread t and its local variables
    serv,        \* serv[t]: the key in the frame of t's CmdRun
    reused,      \* threads that overwrote that frame after CmdRun returned
    tok,         \* what strtok's static position points to
    up,          \* the process runs
    fetch        \* fetch[c]: the tasks fetched on behalf of command c (history)

listener == <<lpc, lret, conInf, net, starved>>
vars == <<calm, net, unread, file, lpc, lret, conInf, starved, born, denied, th, serv, reused, tok, up, fetch>>

Tokens  == [part : Parts, of : Conns]
\* A thread and its locals: start routine, program counter, socket, position
\* loaded by strtok, arr, the key copied by hcon, the socket of its report and the
\* reports it may still send; arg is the thread whose frame hcon was given; cmd is
\* history: the command it received or works for.
NewThread == [kind |-> "thread", pc |-> "none", fd |-> NoFd, pos |-> <<>>, arr |-> <<>>,
              key |-> Junk, rep |-> NoFd, due |-> 0, arg |-> 0, cmd |-> Nobody]

PcsOfThread == {"none", "copy", "recv", "more", "tok", "run", "sleep", "end"}
PcsOfHcon   == {"frame", "get", "head", "more", "tok", "proc", "work", "post", "end"}

TypeOK ==
    /\ {calm, up, denied, starved} \subseteq BOOLEAN
    /\ net \in [Conns -> {"new", "queued", "open"}]
    /\ unread \subseteq Conns
    /\ file \in [Fds -> Conns \cup Tids \cup {Free, Stdin, Leaked, Awaited}]
    /\ lpc \in {"accept", "wait", "create"} /\ lret \in Fds \cup {NoFd}
    /\ conInf \in Fds \cup {NoFd}
    /\ born \in 0 .. MaxThreads
    /\ DOMAIN th = Tids
    /\ \A t \in Tids :
          /\ th[t].pc \in (IF th[t].kind = "hcon" THEN PcsOfHcon ELSE PcsOfThread)
          /\ th[t].pc = "none" <=> t > born
          /\ {th[t].fd, th[t].rep} \subseteq Fds \cup {NoFd} /\ th[t].due \in 0 .. MaxReports
          /\ th[t].key \in Conns \cup {Junk}
          /\ th[t].arg \in 0 .. born
          /\ \A i \in DOMAIN th[t].arr : th[t].arr[i] \in Tokens
    /\ serv \in [Tids -> Conns \cup {Junk}]
    /\ reused \subseteq Tids

Init ==
    /\ calm \in Paces
    /\ net = [c \in Conns |-> "new"] /\ unread = Conns
    /\ file = [d \in Fds |-> IF d = 0 THEN Stdin ELSE Free]
    /\ lpc = "accept" /\ lret = NoFd /\ conInf = 0 /\ starved = FALSE
    /\ born = 0 /\ denied = FALSE /\ th = [t \in Tids |-> NewThread]
    /\ serv = [t \in Tids |-> Junk] /\ reused = {}
    /\ tok = <<>> /\ up = TRUE
    /\ fetch = [c \in Conns |-> <<>>]

----------------------------------------------------------------------------
(* The center.                                                             *)

\* Nothing of an earlier command is under way but the sleep before its close.
Settled == /\ lpc # "create"
           /\ \A c \in Conns : net[c] = "new" \/ (net[c] = "open" /\ c \notin unread)
           /\ \A t \in Tids : th[t].pc \in {"none", "sleep", "end"}

\* HwSend of task.php: connect, write the command, close.
Connect(c) ==
    /\ net[c] = "new"
    /\ calm => Settled
    /\ net' = [net EXCEPT ![c] = "queued"]
    /\ UNCHANGED <<calm, unread, file, lpc, lret, conInf, starved, born, denied, th, serv, reused, tok, up, fetch>>

----------------------------------------------------------------------------
(* HwListen.                                                               *)

FreeFds == {d \in Fds : file[d] = Free}
\* The kernel hands out the lowest free descriptor.
LowestFree(d) == d \in FreeFds /\ \A e \in FreeFds : d <= e

\* accept is called.  The kernel sets a descriptor aside before it waits; without a
\* free one it returns -1 at once, connection or not: the result is not looked at
\* and the memset of ConInf follows.
Accept ==
    /\ lpc = "accept"
    /\ \/ \E d \in Fds : /\ LowestFree(d)
                         /\ file' = [file EXCEPT ![d] = Awaited]
                         /\ lpc' = "wait" /\ lret' = d
                         /\ UNCHANGED <<conInf, starved>>
       \/ /\ FreeFds = {}
          /\ lpc' = "create" /\ lret' = NoFd
          /\ conInf' = 0 /\ starved' = TRUE
          /\ UNCHANGED file
    /\ UNCHANGED <<calm, net, unread, born, denied, th, serv, reused, tok, up, fetch>>

\* accept returns with a connection, then memset of ConInf.
Accepted ==
    /\ lpc = "wait" /\ lpc' = "create"
    /\ conInf' = 0
    /\ \E c \in Conns : /\ net[c] = "queued"
                       /\ net'  = [net EXCEPT ![c] = "open"]
                       /\ file' = [file EXCEPT ![lret] = c]
    /\ UNCHANGED <<calm, unread, lret, starved, born, denied, th, serv, reused, tok, up, fetch>>

\* Variant with a bug: a thread that was not created is counted.
CreateCounted(fields) ==
    /\ born' = born + 1 /\ denied' = denied
    /\ th' = [t \in Tids |-> IF t = born + 1 THEN fields ELSE th[t]]

\* pthread_create; its result is not looked at.
Create(fields) ==
    IF born < MaxThreads
    THEN born' = born + 1 /\ th' = [th EXCEPT ![born + 1] = fields] /\ UNCHANGED denied
    ELSE denied' = TRUE /\ UNCHANGED <<born, th>>

\* ConInf is filled and its address given to a new thread.
StartThread ==
    /\ lpc = "create" /\ lpc' = "accept"
    /\ conInf' = lret
    /\ Create([NewThread EXCEPT !.pc = "copy"])
    /\ UNCHANGED <<calm, net, unread, file, lret, starved, serv, reused, tok, up, fetch>>

----------------------------------------------------------------------------
(* thread and CmdRun.                                                      *)

At(t, kind, pc) == th[t].kind = kind /\ th[t].pc = pc

\* memcpy of ConInf as it is now.
CopyConInf(t) ==
    /\ At(t, "thread", "copy")
    /\ th' = [th EXCEPT ![t].pc = "recv", ![t].fd = conInf]
    /\ UNCHANGED <<calm, listener, unread, file, born, denied, serv, reused, tok, up, fetch>>

\* Calls after CmdRun returned may overwrite the frame hcon was pointed to.
MayReuse(t) == \/ UNCHANGED reused
               \/ /\ \E u \in Tids : At(u, "hcon", "frame") /\ th[u].arg = t
                  /\ reused' = reused \cup {t}

Holds(t, c) == th[t].fd \in Fds /\ file[th[t].fd] = c

\* split: the first strtok is given the text, takes its first token and leaves its
\* position behind.
SplitFirst(text) == <<Head(text)>>

\* Variant with a bug: the command is looked at but stays in the socket.
RecvPeeks(t) ==
    /\ At(t, "thread", "recv")
    /\ \E c \in Conns :
          /\ Holds(t, c)
          /\ unread' = unread \ {c}
          /\ th' = [th EXCEPT ![t].pc = "more", ![t].arr = SplitFirst(Command(c)), ![t].cmd = c]
          /\ tok' = Tail(Command(c))
    /\ UNCHANGED <<calm, listener, file, born, denied, serv, reused, up, fetch>>

\* recv delivers the command to whichever thread asks first, and its split begins.
RecvCommand(t) ==
    /\ At(t, "thread", "recv")
    /\ \E c \in unread :
          /\ Holds(t, c)
          /\ unread' = unread \ {c}
          /\ th' = [th EXCEPT ![t].pc = "more", ![t].arr = SplitFirst(Command(c)), ![t].cmd = c]
          /\ tok' = Tail(Command(c))
    /\ UNCHANGED <<calm, listener, file, born, denied, serv, reused, up, fetch>>

\* End of stream, a closed descriptor, -1, or no connection of the center's: the
\* loop is left (an answer read off hcon's socket is an unknown command first).
RecvEnd(t) ==
    /\ At(t, "thread", "recv")
    /\ \A c \in unread : ~Holds(t, c)
    /\ MayReuse(t)
    /\ th' = [th EXCEPT ![t].pc = "sleep"]
    /\ UNCHANGED <<calm, listener, unread, file, born, denied, serv, tok, up, fetch>>

\* strtok(NULL) loads the static position ...
SplitLoad(t) ==
    /\ th[t].pc = "more"
    /\ th' = [th EXCEPT ![t].pc = "tok", ![t].pos = tok]
    /\ UNCHANGED <<calm, listener, unread, file, born, denied, serv, reused, tok, up, fetch>>

AfterSplit(t) == IF th[t].kind = "thread" THEN "run"
                 ELSE IF Head(th[t].arr).part = "len" THEN "proc" ELSE "work"

\* ... takes the next token, if there is one, and stores the position.
SplitStore(t) ==
    /\ th[t].pc = "tok"
    /\ IF th[t].pos = <<>>
       THEN th' = [th EXCEPT ![t].pc = AfterSplit(t)] /\ tok' = <<>>
       ELSE /\ th'  = [th EXCEPT ![t].pc = "more", ![t].pos = <<>>,
                                 ![t].arr = Append(@, Head(th[t].pos))]
            /\ tok' = Tail(th[t].pos)
    /\ UNCHANGED <<calm, listener, unread, file, born, denied, serv, reused, up, fetch>>

\* Variant with a bug: takes the command's number for the key.
KeyOfWord(token) == IF token.part = "word" THEN token.of ELSE Junk

KeyOf(token) == IF token.part = "key" THEN token.of ELSE Junk

NewHcon(t) == [NewThread EXCEPT !.kind = "hcon", !.pc = "frame", !.due = MaxReports,
                                !.arg = t, !.cmd = th[t].cmd]

\* Variant with a bug: the command's number is not recognised.
CreateHconNever(t) ==
    th' = [th EXCEPT ![t].pc = "recv", ![t].arr = <<>>] /\ UNCHANGED <<born, denied>>

\* pthread_create from thread t, which goes on to its next recv.
CreateHcon(t) ==
    IF born < MaxThreads
    THEN /\ born' = born + 1 /\ UNCHANGED denied
         /\ th' = [th EXCEPT ![t].pc = "recv", ![t].arr = <<>>, ![born + 1] = NewHcon(t)]
    ELSE /\ denied' = TRUE /\ UNCHANGED born
         /\ th' = [th EXCEPT ![t].pc = "recv", ![t].arr = <<>>]

\* CmdRun: the key goes into serv, whose address hcon gets; arr[1] was never set
\* when the tokens were lost to another split.
CmdRun(t) ==
    /\ At(t, "thread", "run")
    /\ CreateHcon(t)
    /\ serv' = [serv EXCEPT ![t] = IF Len(th[t].arr) > 1 THEN KeyOf(th[t].arr[2]) ELSE Junk]
    /\ UNCHANGED <<calm, listener, unread, file, reused, tok, up, fetch>>

\* strlen of an arr[1] that was never set may end the process.
WildPointer(t) ==
    /\ At(t, "thread", "run")
    /\ Len(th[t].arr) < 2
    /\ up' = FALSE
    /\ UNCHANGED <<calm, listener, unread, file, born, denied, th, serv, reused, tok, fetch>>

\* Variant with a bug: the descriptor stays open.
CloseNothing(d) == file' = file

\* close of whatever the descriptor stands for now; close(-1) does nothing, nor does
\* a close of a descriptor the kernel only set aside.
Close(d) == file' = [e \in Fds |-> IF e = d /\ file[e] # Awaited THEN Free ELSE file[e]]

\* A thread that returned has no locals.
Ended(t) == [th[t] EXCEPT !.pc = "end", !.fd = NoFd, !.arr = <<>>, !.key = Junk, !.due = 0]

\* hms(300), close, return.
ThreadEnd(t) ==
    /\ At(t, "thread", "sleep")
    /\ MayReuse(t)
    /\ Close(th[t].fd)
    /\ th' = [th EXCEPT ![t] = Ended(t)]
    /\ UNCHANGED <<calm, listener, unread, born, denied, serv, tok, up, fetch>>

----------------------------------------------------------------------------
(* hcon.                                                                   *)

\* memcpy of the SERINF in the frame of CmdRun, which may have returned.
CopyFrame(t) ==
    /\ At(t, "hcon", "frame")
    /\ th' = [th EXCEPT ![t].pc = "get",
                        ![t].key = IF th[t].arg \in reused THEN Junk ELSE serv[th[t].arg]]
    /\ UNCHANGED <<calm, listener, unread, file, born, denied, serv, reused, tok, up, fetch>>

\* HttpGet connects and sends the key.
HttpGet(t) ==
    /\ At(t, "hcon", "get")
    /\ \E d \in Fds : /\ LowestFree(d)
                      /\ file' = [file EXCEPT ![d] = t]
                      /\ th'   = [th EXCEPT ![t].pc = "head", ![t].fd = d]
    /\ fetch' = IF th[t].key \in Conns
                THEN [fetch EXCEPT ![th[t].cmd] = Append(@, th[t].key)] ELSE fetch
    /\ UNCHANGED <<calm, listener, unread, born, denied, serv, reused, tok, up>>

\* No descriptor is free, send fails (that socket is closed), or connect fails
\* (that one is not).
HttpGetFails(t) ==
    /\ At(t, "hcon", "get")
    /\ th' = [th EXCEPT ![t] = Ended(t)]
    /\ \/ UNCHANGED file
       \/ \E d \in Fds : LowestFree(d) /\ file' = [file EXCEPT ![d] = Leaked]
    /\ UNCHANGED <<calm, listener, unread, born, denied, serv, reused, tok, up, fetch>>

\* VeFile of the answer for a task's key, or of a refusal.
Answers(t) == {Refusal(th[t].cmd)} \cup {VeFile(k) : k \in {th[t].key} \cap Conns}

\* The header of the answer arrives, and the split of VeFile begins.
GetHeader(t) ==
    /\ At(t, "hcon", "head")
    /\ Holds(t, t)
    /\ \E text \in Answers(t) :
          /\ th'  = [th EXCEPT ![t].pc = "more", ![t].arr = SplitFirst(text)]
          /\ tok' = Tail(text)
    /\ UNCHANGED <<calm, listener, unread, file, born, denied, serv, reused, up, fetch>>

\* The connection breaks, or another thread closed the descriptor or took the
\* bytes: close, return.
GetHeaderFails(t) ==
    /\ At(t, "hcon", "head")
    /\ th' = [th EXCEPT ![t] = Ended(t)]
    /\ Close(th[t].fd)
    /\ UNCHANGED <<calm, listener, unread, born, denied, serv, reused, tok, up, fetch>>

\* The split of veProc begins.
GetProc(t) ==
    /\ At(t, "hcon", "proc")
    /\ th'  = [th EXCEPT ![t].pc = "more", ![t].arr = SplitFirst(VeProc(th[t].cmd))]
    /\ tok' = Tail(VeProc(th[t].cmd))
    /\ UNCHANGED <<calm, listener, unread, file, born, denied, serv, reused, up, fetch>>

\* StateMsg, a success or an error and a filesum: HttpGet connects, or it does not
\* and the socket is left open.
Report(t) ==
    /\ At(t, "hcon", "work") /\ th[t].due > 0
    /\ \E d \in Fds :
          /\ LowestFree(d)
          /\ \/ /\ file' = [file EXCEPT ![d] = t]
                /\ th' = [th EXCEPT ![t].pc = "post", ![t].rep = d, ![t].due = @ - 1]
             \/ /\ file' = [file EXCEPT ![d] = Leaked]
                /\ th' = [th EXCEPT ![t].due = @ - 1]
    /\ UNCHANGED <<calm, listener, unread, born, denied, serv, reused, tok, up, fetch>>

\* The report was sent: close.
Posted(t) ==
    /\ At(t, "hcon", "post")
    /\ Close(th[t].rep)
    /\ th' = [th EXCEPT ![t].pc = "work", ![t].rep = NoFd]
    /\ UNCHANGED <<calm, listener, unread, born, denied, serv, reused, tok, up, fetch>>

\* No report is left, the exit sends none, or no descriptor is free for it: close,
\* return.
WorkEnd(t) ==
    /\ At(t, "hcon", "work")
    /\ Close(th[t].fd)
    /\ th' = [th EXCEPT ![t] = Ended(t)]
    /\ UNCHANGED <<calm, listener, unread, born, denied, serv, reused, tok, up, fetch>>

----------------------------------------------------------------------------
Split(t)  == SplitLoad(t) \/ SplitStore(t)
Thread(t) == \/ CopyConInf(t) \/ RecvCommand(t) \/ RecvEnd(t)
             \/ CmdRun(t) \/ WildPointer(t) \/ ThreadEnd(t)
Hcon(t)   == \/ CopyFrame(t) \/ HttpGet(t) \/ HttpGetFails(t)
             \/ GetHeader(t) \/ GetHeaderFails(t) \/ GetProc(t)
             \/ Report(t) \/ Posted(t) \/ WorkEnd(t)

HwListen == up /\ (Accept \/ Accepted \/ StartThread)
Step(t)  == up /\ (Thread(t) \/ Split(t) \/ Hcon(t))

Next == \/ \E c \in Conns : Connect(c)
        \/ HwListen
        \/ \E t \in Tids : Step(t)

Spec == Init /\ [][Next]_vars

\* The kernel runs every thread; nobody has to send a command.
FairSpec == Spec /\ WF_vars(HwListen) /\ \A t \in Tids : WF_vars(Step(t))

----------------------------------------------------------------------------
(* Properties.                                                             *)

\* At most one task is fetched on behalf of a command, and only of commands
\* received; its own if they come one at a time (conf_funs.h:132, 169, 174).
Intake == INSTANCE IntakePromise WITH read <- Conns \ unread
KeepsIntake == Intake!Spec

\* When commands come one at a time, hcon works with the key of its command,
\* unless the frame it copies was reused after CmdRun returned, and with the lines
\* of its own answer (strtok's position, the address of serv).
PushesOwnTask ==
    calm => \A t \in Tids : th[t].kind = "hcon" =>
        /\ th[t].pc \notin {"frame", "end"} => th[t].key = th[t].cmd \/ th[t].arg \in reused
        /\ \A i \in DOMAIN th[t].arr :
              th[t].arr[i] \in {VeFile(th[t].cmd)[i], VeProc(th[t].cmd)[i]}

AtRest == lpc # "create" /\ \A t \in Tids : th[t].pc \in {"none", "end"}

\* When commands come one at a time and no accept failed for want of a descriptor,
\* every accepted connection is closed once, by the time all threads ended: only
\* sockets whose connect failed stay open, unless a thread could not be created.
DescriptorsReturned ==
    calm /\ ~starved /\ AtRest /\ ~denied =>
        file[0] = Stdin /\ \A d \in Fds : file[d] \in {Free, Stdin, Leaked, Awaited}

\* When commands come one at a time and all threads ended, every accepted command
\* was received and taken up by an hcon of its own, unless an accept failed for want
\* of a descriptor or a thread could not be created (conf_funs.h:128-132, 153, 174).
NoCommandStuck ==
    calm /\ ~starved /\ AtRest /\ ~denied =>
        \A c \in Conns : net[c] = "open" =>
            \E t \in Tids : /\ th[t].kind = "hcon" /\ th[t].cmd = c
                            /\ \A u \in Tids : th[u].kind = "hcon" /\ th[u].cmd = c => u = t

\* When commands come one at a time, a connection that waits has its command
\* carried out up to the end of its hcon, unless an accept failed for want of a
\* descriptor or a thread could not be created (the loops of HwListen and thread,
\* the exits of hcon).
CommandTaken ==
    \A c \in Conns :
        calm /\ net[c] = "queued" ~> \/ \E t \in Tids : At(t, "hcon", "end") /\ th[t].cmd = c
                                     \/ starved \/ denied
============================================================================
