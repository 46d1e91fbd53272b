--------------------------- MODULE NodeAgentProofs ---------------------------
(***************************************************************************)
(* Proofs about NodeAgent, for any number of commands, descriptors and     *)
(* threads.                                                                *)
(***************************************************************************)
EXTENDS NodeAgent, SequenceTheorems, TLAPS

----------------------------------------------------------------------------
(* The inductive invariant.                                                *)

Records == [kind : {"thread", "hcon"}, pc : PcsOfThread \cup PcsOfHcon,
            fd : Fds \cup {NoFd}, pos : Seq(Tokens), arr : Seq(Tokens),
            key : Conns \cup {Junk}, rep : Fds \cup {NoFd}, due : 0 .. MaxReports,
            arg : 0 .. MaxThreads, cmd : Conns \cup {Nobody}]

\* TypeOK, and what it leaves open: positions, the command of a thread, fetch.
Types ==
    /\ calm \in BOOLEAN /\ up \in BOOLEAN /\ denied \in BOOLEAN /\ starved \in BOOLEAN
    /\ net \in [Conns -> {"new", "queued", "open"}]
    /\ unread \in SUBSET Conns
    /\ file \in [Fds -> Conns \cup Tids \cup {Free, Stdin, Leaked, Awaited}]
    /\ lpc \in {"accept", "wait", "create"} /\ lret \in Fds \cup {NoFd}
    /\ conInf \in Fds \cup {NoFd}
    /\ born \in 0 .. MaxThreads
    /\ th \in [Tids -> Records]
    /\ serv \in [Tids -> Conns \cup {Junk}]
    /\ reused \in SUBSET Tids
    /\ tok \in Seq(Tokens)
    /\ fetch \in [Conns -> Seq(Conns)]

Born ==
    \A t \in Tids :
        /\ th[t].pc \in (IF th[t].kind = "hcon" THEN PcsOfHcon ELSE PcsOfThread)
        /\ th[t].pc = "none" <=> t > born
        /\ th[t].arg <= born /\ (th[t].kind = "hcon" => th[t].arg \in Tids)

\* t received the command th[t].cmd, or works for it.
Carries(t) == th[t].kind = "hcon" \/ th[t].pc \in {"more", "tok", "run"}
Unfetched(t) == th[t].kind = "thread" \/ th[t].pc \in {"frame", "get"}

OfRead(s) == \A i \in DOMAIN s : s[i].of \notin unread

\* Whatever a race mixes up, it mixes up parts of commands that were received; each of
\* them is carried by one thread, and nothing was fetched for it before HttpGet.
ReadOnce ==
    /\ \A c \in Conns : net[c] # "open" => c \in unread
    /\ \A d \in Fds, c \in Conns : file[d] = c => net[c] = "open"
    /\ \A c \in unread : fetch[c] = <<>>
    /\ OfRead(tok)
    /\ \A t \in Tids : /\ OfRead(th[t].arr) /\ OfRead(th[t].pos)
                       /\ th[t].key \notin unread /\ serv[t] \notin unread
                       /\ Carries(t) => th[t].cmd \in Conns \ unread
                       /\ Carries(t) /\ Unfetched(t) => fetch[th[t].cmd] = <<>>
    /\ \A t, u \in Tids : Carries(t) /\ Carries(u) /\ th[t].cmd = th[u].cmd => t = u

----------------------------------------------------------------------------
(* When the commands come one at a time.                                   *)

Resting(t) == th[t].pc \in {"none", "sleep", "end"}
AllRest    == \A t \in Tids : Resting(t)

Working(t) == \/ th[t].kind = "hcon" /\ ~Resting(t)
              \/ th[t].pc \in {"more", "tok", "run"}
Pending(c) == net[c] # "new" /\ c \in unread

\* One command waits to be received, or one thread works for one.
OneWorker ==
    /\ \A t, u \in Tids : Working(t) /\ Working(u) => t = u
    /\ \A c, e \in Conns : Pending(c) /\ Pending(e) => c = e
    /\ \A t \in Tids, c \in Conns : ~(Working(t) /\ Pending(c))

\* What was split off text and what is left of it.
PartOf(text, done, rest) ==
    \E n \in 1 .. Len(text) : /\ Len(done) = n /\ Len(rest) = Len(text) - n
                              /\ \A i \in 1 .. n : done[i] = text[i]
                              /\ \A i \in 1 .. Len(text) - n : rest[i] = text[n + i]

TextsOf(t) == IF th[t].kind = "hcon"
              THEN {Refusal(th[t].cmd), VeFile(th[t].cmd), VeProc(th[t].cmd)}
              ELSE {Command(th[t].cmd)}

SplitOff(t, done, rest) == \E text \in TextsOf(t) : PartOf(text, done, rest)

\* A thread splits its own text to the end ...
Splits(t) ==
    /\ th[t].pc = "more" => SplitOff(t, th[t].arr, tok)
    /\ th[t].pc = "tok"  => SplitOff(t, th[t].arr, th[t].pos)
    /\ th[t].pc = "run"  => SplitOff(t, th[t].arr, <<>>)

\* ... and hcon gets the key of its command.
Works(t) ==
    th[t].kind = "hcon" =>
        /\ \A i \in DOMAIN th[t].arr :
              i \in {1, 2} /\ th[t].arr[i] \in {VeFile(th[t].cmd)[i], VeProc(th[t].cmd)[i]}
        /\ th[t].pc \in {"frame", "get", "head"} => th[t].arr = <<>>
        /\ IF th[t].pc = "frame" THEN serv[th[t].arg] = th[t].cmd
           ELSE \/ th[t].pc = "end"
                \/ th[t].key = th[t].cmd
                \/ th[t].key = Junk /\ th[t].arg \in reused

OwnText == \A t \in Tids : Splits(t) /\ Works(t)

----------------------------------------------------------------------------
(* When, besides, no accept failed for want of a descriptor.               *)

\* A connection waits, is being handed to a thread, or is served; meanwhile nothing
\* of another command moves, and a thread whose command was taken up has nothing
\* more to receive.
OneAtATime ==
    /\ \A c, e \in Conns : net[c] = "queued" /\ net[e] = "queued" => c = e
    /\ \A c \in Conns : net[c] = "queued" => lpc # "create" /\ AllRest
    /\ lpc = "create" => AllRest
    /\ \A t, u \in Tids : th[t].kind = th[u].kind /\ ~Resting(t) /\ ~Resting(u) => t = u
    /\ \A t, h \in Tids : th[h].kind = "hcon" /\ th[t].kind = "thread"
                          /\ ~Resting(h) /\ ~Resting(t) =>
          th[t].pc = "recv" /\ \A c \in unread : ~Holds(t, c)

Serving(t) == th[t].kind = "thread" /\ th[t].pc \in {"recv", "more", "tok", "run", "sleep"}
Fetching(t) == th[t].kind = "hcon" /\ th[t].pc \in {"head", "more", "tok", "proc", "work", "post"}
Posting(t) == th[t].kind = "hcon" /\ th[t].pc = "post"
Fresh(d) == d \in Fds /\ file[d] \in unread /\ \A t \in Tids : Serving(t) => th[t].fd # d

\* Every descriptor is held by the one thread that will close it.
OwnDescriptors ==
    /\ \A d \in Fds : file[d] = Stdin <=> d = 0
    /\ lpc = "wait" => lret \in Fds /\ file[lret] = Awaited
    /\ lpc = "create" => Fresh(lret)
    /\ \A t \in Tids : At(t, "thread", "copy") => Fresh(conInf)
    /\ \A t \in Tids : Serving(t) => th[t].fd \in Fds /\ file[th[t].fd] \in Conns
    /\ \A t, u \in Tids : Serving(t) /\ Serving(u) /\ th[t].fd = th[u].fd => t = u
    /\ \A t \in Tids : th[t].kind = "thread" /\ th[t].pc \in {"more", "tok", "run"} =>
          file[th[t].fd] \notin unread
    /\ \A t \in Tids : Fetching(t) => th[t].fd \in Fds /\ file[th[t].fd] = t
    /\ \A t \in Tids : Posting(t) => /\ th[t].rep \in Fds /\ file[th[t].rep] = t
                                     /\ th[t].rep # th[t].fd

\* A descriptor is closed by its owner, who is still there, unless no thread could be
\* created for it.
Owned ==
    /\ \A d \in Fds : file[d] \in Conns =>
          \/ denied
          \/ lpc = "create" /\ lret = d
          \/ \E t \in Tids : At(t, "thread", "copy") /\ conInf = d
          \/ \E t \in Tids : Serving(t) /\ th[t].fd = d
    /\ \A d \in Fds, t \in Tids : file[d] = t => \/ Fetching(t) /\ th[t].fd = d
                                                 \/ Posting(t) /\ th[t].rep = d

\* An accepted command is with a thread, unless one could not be created.
Attended ==
    \A c \in Conns : net[c] = "open" =>
        \/ denied
        \/ \E t \in Tids : Carries(t) /\ th[t].cmd = c
        \/ c \in unread /\ lpc = "create" /\ lret \in Fds /\ file[lret] = c
        \/ c \in unread /\ \E t \in Tids : \/ At(t, "thread", "copy") /\ conInf \in Fds
                                                                      /\ file[conInf] = c
                                           \/ At(t, "thread", "recv") /\ Holds(t, c)

Handed == OneAtATime /\ OwnDescriptors /\ Owned /\ Attended

IInv == /\ Types /\ Born /\ ReadOnce
        /\ calm => OneWorker /\ OwnText
        /\ calm /\ ~starved => Handed

----------------------------------------------------------------------------
(* Facts about the constants.                                              *)

\* What is known of descriptors.
LEMMA FdFacts == /\ 0 \in Fds /\ NoFd \notin Fds /\ Fds \subseteq Int /\ Fds \subseteq Nat
                 /\ Tids \subseteq Nat /\ 0 \notin Tids
  BY LimitsAreNat DEF Fds, NoFd, Tids

\* A connection's text is a sequence of tokens.
LEMMA TextFacts ==
    ASSUME NEW c \in Conns
    PROVE  /\ Command(c) \in Seq(Tokens) /\ VeFile(c) \in Seq(Tokens)
           /\ Refusal(c) \in Seq(Tokens) /\ VeProc(c) \in Seq(Tokens)
           /\ Len(Command(c)) = 2 /\ Len(VeFile(c)) = 2
           /\ Len(Refusal(c)) = 1 /\ Len(VeProc(c)) = 2
           /\ \A i \in 1 .. 2 : Command(c)[i].of = c
           /\ \A i \in 1 .. 2 : VeFile(c)[i].of = c /\ VeProc(c)[i].of = c
           /\ Refusal(c)[1].of = c /\ Refusal(c)[1] = VeFile(c)[1]
           /\ Command(c)[2] = Token("key", c)
<1>1. \A p \in Parts : Token(p, c) \in Tokens /\ Token(p, c).of = c
  BY DEF Token, Tokens
<1> QED BY <1>1 DEF Command, VeFile, Refusal, VeProc, Parts

\* The first element of a nonempty sequence.
LEMMA FirstFacts ==
    ASSUME NEW s \in Seq(Tokens), s # <<>>
    PROVE  /\ SplitFirst(s) \in Seq(Tokens) /\ Tail(s) \in Seq(Tokens)
           /\ Len(SplitFirst(s)) = 1 /\ SplitFirst(s)[1] = s[1]
           /\ Len(Tail(s)) = Len(s) - 1
           /\ \A i \in 1 .. Len(s) - 1 : Tail(s)[i] = s[i + 1]
           /\ Head(s) = s[1] /\ s[1] \in Tokens
  BY DEF SplitFirst

\* A sequence with one element more.
LEMMA AppendFacts ==
    ASSUME NEW s \in Seq(Tokens), NEW x \in Tokens
    PROVE  /\ Append(s, x) \in Seq(Tokens) /\ Len(Append(s, x)) = Len(s) + 1
           /\ \A i \in 1 .. Len(s) : Append(s, x)[i] = s[i]
           /\ Append(s, x)[Len(s) + 1] = x
  OBVIOUS

----------------------------------------------------------------------------
(* What each step does to the threads, field by field.                     *)

\* Thread t alone moves, to pc p, and creates no thread.
Moves(t, p) ==
    /\ th' \in [Tids -> Records]
    /\ \A u \in Tids \ {t} : th'[u] = th[u]
    /\ th'[t].pc = p /\ th'[t].kind = th[t].kind /\ th'[t].arg = th[t].arg
    /\ UNCHANGED <<calm, born, denied, lpc, lret, conInf, net, starved>>

\* A thread that goes to another place keeps the rest of its record.
LEMMA Move ==
    ASSUME Types, NEW t \in Tids, NEW r \in Records, th' = [th EXCEPT ![t] = r],
           r.kind = th[t].kind, r.arg = th[t].arg,
           UNCHANGED <<calm, born, denied, lpc, lret, conInf, net, starved>>
    PROVE  Moves(t, r.pc) /\ th'[t] = r
  BY DEF Moves, Types

\* The fields a step leaves alone.
Same(t, fields) == \A f \in fields : th'[t][f] = th[t][f]

\* What CopyConInf changes.
LEMMA CopyConInfEffect ==
    ASSUME Types, NEW t \in Tids, CopyConInf(t)
    PROVE  /\ At(t, "thread", "copy") /\ Moves(t, "recv")
           /\ th'[t].fd = conInf
           /\ Same(t, {"pos", "arr", "key", "cmd"})
           /\ UNCHANGED <<unread, file, serv, reused, tok, up, fetch>>
<1> DEFINE r == [[th[t] EXCEPT !.pc = "recv"] EXCEPT !.fd = conInf]
<1>1. th[t] \in Records /\ conInf \in Fds \cup {NoFd} /\ "recv" \in PcsOfThread
  BY DEF Types, PcsOfThread, PcsOfHcon
<1>2. /\ r \in Records /\ r.pc = "recv" /\ r.kind = th[t].kind /\ r.arg = th[t].arg
      /\ r.fd = conInf
      /\ \A f \in {"pos", "arr", "key", "cmd"} : r[f] = th[t][f]
  BY <1>1 DEF Records
<1>3. th' = [th EXCEPT ![t] = r]
  BY DEF CopyConInf
<1> HIDE DEF r
<1>4. Moves(t, "recv") /\ th'[t] = r
  <2>1. UNCHANGED <<calm, born, denied, lpc, lret, conInf, net, starved>>
    BY DEF CopyConInf, listener
  <2> QED BY <1>2, <1>3, <2>1, Move
<1> QED BY <1>2, <1>4 DEF CopyConInf, listener, Same

\* What RecvEnd changes.
LEMMA RecvEndEffect ==
    ASSUME Types, NEW t \in Tids, RecvEnd(t)
    PROVE  /\ At(t, "thread", "recv") /\ Moves(t, "sleep")
           /\ Same(t, {"fd", "pos", "arr", "key", "cmd"})
           /\ \A c \in unread : ~Holds(t, c)
           /\ reused' \in SUBSET Tids /\ reused \subseteq reused'
           /\ UNCHANGED <<unread, file, serv, tok, up, fetch>>
<1> DEFINE r == [th[t] EXCEPT !.pc = "sleep"]
<1>1. th[t] \in Records /\ "sleep" \in PcsOfThread
  BY DEF Types, PcsOfThread, PcsOfHcon
<1>2. /\ r \in Records /\ r.pc = "sleep" /\ r.kind = th[t].kind /\ r.arg = th[t].arg
      /\ \A f \in {"fd", "pos", "arr", "key", "cmd"} : r[f] = th[t][f]
  BY <1>1 DEF Records
<1>3. th' = [th EXCEPT ![t] = r]
  BY DEF RecvEnd
<1> HIDE DEF r
<1>4. Moves(t, "sleep") /\ th'[t] = r
  <2>1. UNCHANGED <<calm, born, denied, lpc, lret, conInf, net, starved>>
    BY DEF RecvEnd, listener
  <2> QED BY <1>2, <1>3, <2>1, Move
<1> QED BY <1>2, <1>4 DEF RecvEnd, listener, Same, MayReuse, Types

\* What SplitLoad changes.
LEMMA SplitLoadEffect ==
    ASSUME Types, NEW t \in Tids, SplitLoad(t)
    PROVE  /\ th[t].pc = "more" /\ Moves(t, "tok")
           /\ th'[t].pos = tok
           /\ Same(t, {"fd", "arr", "key", "cmd"})
           /\ UNCHANGED <<unread, file, serv, reused, tok, up, fetch>>
<1> DEFINE r == [[th[t] EXCEPT !.pc = "tok"] EXCEPT !.pos = tok]
<1>1. th[t] \in Records /\ tok \in Seq(Tokens) /\ "tok" \in PcsOfThread
  BY DEF Types, PcsOfThread, PcsOfHcon
<1>2. /\ r \in Records /\ r.pc = "tok" /\ r.kind = th[t].kind /\ r.arg = th[t].arg
      /\ r.pos = tok
      /\ \A f \in {"fd", "arr", "key", "cmd"} : r[f] = th[t][f]
  BY <1>1 DEF Records
<1>3. th' = [th EXCEPT ![t] = r]
  BY DEF SplitLoad
<1> HIDE DEF r
<1>4. Moves(t, "tok") /\ th'[t] = r
  <2>1. UNCHANGED <<calm, born, denied, lpc, lret, conInf, net, starved>>
    BY DEF SplitLoad, listener
  <2> QED BY <1>2, <1>3, <2>1, Move
<1> QED BY <1>2, <1>4 DEF SplitLoad, listener, Same

\* The record of a thread that returned.
LEMMA EndedMove ==
    ASSUME Types, NEW t \in Tids, th' = [th EXCEPT ![t] = Ended(t)],
           UNCHANGED <<calm, born, denied, lpc, lret, conInf, net, starved>>
    PROVE  Moves(t, "end") /\ th'[t].arr = <<>> /\ th'[t].key = Junk /\ Same(t, {"pos", "cmd"})
<1> DEFINE r == Ended(t)
<1>1. /\ th[t] \in Records /\ "end" \in PcsOfThread /\ <<>> \in Seq(Tokens)
      /\ 0 \in 0 .. MaxReports
  BY LimitsAreNat DEF Types, PcsOfThread
<1>2. /\ r \in Records /\ r.pc = "end" /\ r.kind = th[t].kind /\ r.arg = th[t].arg
      /\ r.arr = <<>> /\ r.key = Junk
      /\ \A f \in {"pos", "cmd"} : r[f] = th[t][f]
  BY <1>1 DEF Ended, Records
<1> HIDE DEF r
<1>3. th' = [th EXCEPT ![t] = r]
  BY DEF r
<1>4. Moves(t, "end") /\ th'[t] = r
  BY <1>2, <1>3, Move
<1> QED BY <1>2, <1>4 DEF Same

\* What ThreadEnd changes.
LEMMA ThreadEndEffect ==
    ASSUME Types, NEW t \in Tids, ThreadEnd(t)
    PROVE  /\ At(t, "thread", "sleep") /\ Moves(t, "end")
           /\ th'[t].arr = <<>> /\ th'[t].key = Junk /\ Same(t, {"pos", "cmd"})
           /\ Close(th[t].fd)
           /\ reused' \in SUBSET Tids /\ reused \subseteq reused'
           /\ UNCHANGED <<unread, serv, tok, up, fetch>>
<1>1. /\ th' = [th EXCEPT ![t] = Ended(t)]
      /\ UNCHANGED <<calm, born, denied, lpc, lret, conInf, net, starved>>
  BY DEF ThreadEnd, listener
<1>2. Moves(t, "end") /\ th'[t].arr = <<>> /\ th'[t].key = Junk /\ Same(t, {"pos", "cmd"})
  BY <1>1, EndedMove
<1> QED BY <1>2 DEF ThreadEnd, listener, MayReuse, Types

\* What CopyFrame changes.
LEMMA CopyFrameEffect ==
    ASSUME Types, Born, NEW t \in Tids, CopyFrame(t)
    PROVE  /\ At(t, "hcon", "frame") /\ Moves(t, "get")
           /\ th[t].arg \in Tids
           /\ th'[t].key = IF th[t].arg \in reused THEN Junk ELSE serv[th[t].arg]
           /\ Same(t, {"fd", "pos", "arr", "cmd"})
           /\ UNCHANGED <<unread, file, serv, reused, tok, up, fetch>>
<1> DEFINE k == IF th[t].arg \in reused THEN Junk ELSE serv[th[t].arg]
           r == [[th[t] EXCEPT !.pc = "get"] EXCEPT !.key = k]
<1>1. th[t] \in Records /\ k \in Conns \cup {Junk} /\ th[t].arg \in Tids /\ "get" \in PcsOfHcon
  BY DEF CopyFrame, At, Types, Born, PcsOfHcon
<1>2. /\ r \in Records /\ r.pc = "get" /\ r.kind = th[t].kind /\ r.arg = th[t].arg
      /\ r.key = k /\ \A f \in {"fd", "pos", "arr", "cmd"} : r[f] = th[t][f]
  <2> HIDE DEF k
  <2> QED BY <1>1 DEF Records
<1>3. th' = [th EXCEPT ![t] = r]
  BY DEF CopyFrame
<1> HIDE DEF r
<1>4. Moves(t, "get") /\ th'[t] = r
  <2>1. UNCHANGED <<calm, born, denied, lpc, lret, conInf, net, starved>>
    BY DEF CopyFrame, listener
  <2> QED BY <1>2, <1>3, <2>1, Move
<1> QED BY <1>1, <1>2, <1>4 DEF CopyFrame, listener, Same

\* What RecvCommand changes.
LEMMA RecvCommandEffect ==
    ASSUME Types, NEW t \in Tids, RecvCommand(t)
    PROVE  /\ At(t, "thread", "recv") /\ Moves(t, "more")
           /\ \E c \in unread :
                 /\ Holds(t, c) /\ unread' = unread \ {c}
                 /\ th'[t].arr = SplitFirst(Command(c)) /\ th'[t].cmd = c
                 /\ tok' = Tail(Command(c))
           /\ Same(t, {"fd", "pos", "key"})
           /\ UNCHANGED <<file, serv, reused, up, fetch>>
<1>0. PICK c \in unread :
         /\ Holds(t, c) /\ unread' = unread \ {c}
         /\ th' = [th EXCEPT ![t].pc = "more", ![t].arr = SplitFirst(Command(c)), ![t].cmd = c]
         /\ tok' = Tail(Command(c))
  BY DEF RecvCommand
<1> DEFINE a == SplitFirst(Command(c))
           r == [[[th[t] EXCEPT !.pc = "more"] EXCEPT !.arr = a] EXCEPT !.cmd = c]
<1>1. th[t] \in Records /\ c \in Conns /\ a \in Seq(Tokens) /\ "more" \in PcsOfThread
  BY TextFacts, FirstFacts DEF GetHeader, Types, PcsOfThread
<1>2. /\ r \in Records /\ r.pc = "more" /\ r.kind = th[t].kind /\ r.arg = th[t].arg
      /\ r.arr = a /\ r.cmd = c /\ \A f \in {"fd", "pos", "key"} : r[f] = th[t][f]
  <2> HIDE DEF a
  <2> QED BY <1>1 DEF Records
<1>3. th' = [th EXCEPT ![t] = r]
  BY <1>0
<1> HIDE DEF r
<1>4. Moves(t, "more") /\ th'[t] = r
  <2>1. UNCHANGED <<calm, born, denied, lpc, lret, conInf, net, starved>>
    BY DEF RecvCommand, listener
  <2> QED BY <1>2, <1>3, <2>1, Move
<1>5. th'[t].arr = SplitFirst(Command(c)) /\ th'[t].cmd = c
  BY <1>2, <1>4
<1> QED BY <1>0, <1>2, <1>4, <1>5 DEF RecvCommand, listener, Same

\* What SplitStore changes.
LEMMA SplitStoreEffect ==
    ASSUME Types, NEW t \in Tids, SplitStore(t)
    PROVE  /\ th[t].pc = "tok"
           /\ IF th[t].pos = <<>>
              THEN /\ Moves(t, AfterSplit(t)) /\ Same(t, {"fd", "pos", "arr", "key", "cmd"})
                   /\ tok' = <<>>
              ELSE /\ Moves(t, "more") /\ Same(t, {"fd", "key", "cmd"})
                   /\ th'[t].pos = <<>> /\ th'[t].arr = Append(th[t].arr, Head(th[t].pos))
                   /\ tok' = Tail(th[t].pos)
           /\ UNCHANGED <<unread, file, serv, reused, up, fetch>>
<1>0. th[t].pc = "tok" /\ UNCHANGED <<calm, born, denied, lpc, lret, conInf, net, starved>>
  BY DEF SplitStore, listener
<1>1. CASE th[t].pos = <<>>
  <2> DEFINE p == AfterSplit(t)
             r == [th[t] EXCEPT !.pc = p]
  <2>1. th[t] \in Records /\ p \in PcsOfThread \cup PcsOfHcon
    BY DEF AfterSplit, Types, PcsOfThread, PcsOfHcon
  <2>2. /\ r \in Records /\ r.pc = p /\ r.kind = th[t].kind /\ r.arg = th[t].arg
        /\ \A f \in {"fd", "pos", "arr", "key", "cmd"} : r[f] = th[t][f]
    <3> HIDE DEF p
    <3> QED BY <2>1 DEF Records
  <2>3. th' = [th EXCEPT ![t] = r]
    BY <1>1 DEF SplitStore
  <2> HIDE DEF r
  <2>4. Moves(t, p) /\ th'[t] = r
    BY <1>0, <2>2, <2>3, Move
  <2> QED BY <1>0, <1>1, <2>2, <2>4 DEF SplitStore, Same
<1>2. CASE th[t].pos # <<>>
  <2> DEFINE a == Append(th[t].arr, Head(th[t].pos))
             r == [[[th[t] EXCEPT !.pc = "more"] EXCEPT !.pos = <<>>] EXCEPT !.arr = a]
  <2>1. th[t] \in Records /\ a \in Seq(Tokens) /\ <<>> \in Seq(Tokens) /\ "more" \in PcsOfThread
    <3>1. th[t] \in Records
      BY DEF Types
    <3>2. th[t].pos \in Seq(Tokens) /\ th[t].arr \in Seq(Tokens)
      BY <3>1 DEF Records
    <3> QED BY <1>2, <3>1, <3>2 DEF PcsOfThread
  <2>2. /\ r \in Records /\ r.pc = "more" /\ r.kind = th[t].kind /\ r.arg = th[t].arg
        /\ r.pos = <<>> /\ r.arr = a /\ \A f \in {"fd", "key", "cmd"} : r[f] = th[t][f]
    <3> HIDE DEF a
    <3> QED BY <2>1 DEF Records
  <2>3. th' = [th EXCEPT ![t] = r]
    BY <1>2 DEF SplitStore
  <2> HIDE DEF r
  <2>4. Moves(t, "more") /\ th'[t] = r
    BY <1>0, <2>2, <2>3, Move
  <2> QED BY <1>0, <1>2, <2>2, <2>4 DEF SplitStore, Same
<1> QED BY <1>1, <1>2

\* What HttpGet changes.
LEMMA HttpGetEffect ==
    ASSUME Types, NEW t \in Tids, HttpGet(t)
    PROVE  /\ At(t, "hcon", "get") /\ Moves(t, "head")
           /\ th'[t].fd \in Fds /\ LowestFree(th'[t].fd)
           /\ file' = [file EXCEPT ![th'[t].fd] = t]
           /\ fetch' = IF th[t].key \in Conns
                       THEN [fetch EXCEPT ![th[t].cmd] = Append(@, th[t].key)] ELSE fetch
           /\ Same(t, {"pos", "arr", "key", "cmd"})
           /\ UNCHANGED <<unread, serv, reused, tok, up>>
<1>0. PICK d \in Fds : /\ LowestFree(d)
                       /\ file' = [file EXCEPT ![d] = t]
                       /\ th' = [th EXCEPT ![t].pc = "head", ![t].fd = d]
  BY DEF HttpGet
<1> DEFINE r == [[th[t] EXCEPT !.pc = "head"] EXCEPT !.fd = d]
<1>1. th[t] \in Records /\ "head" \in PcsOfHcon
  BY DEF Types, PcsOfHcon
<1>2. /\ r \in Records /\ r.pc = "head" /\ r.kind = th[t].kind /\ r.arg = th[t].arg
      /\ r.fd = d /\ \A f \in {"pos", "arr", "key", "cmd"} : r[f] = th[t][f]
  BY <1>1 DEF Records
<1>3. th' = [th EXCEPT ![t] = r]
  BY <1>0
<1> HIDE DEF r
<1>4. Moves(t, "head") /\ th'[t] = r
  <2>1. UNCHANGED <<calm, born, denied, lpc, lret, conInf, net, starved>>
    BY DEF HttpGet, listener
  <2> QED BY <1>2, <1>3, <2>1, Move
<1>5. th'[t].fd = d
  BY <1>2, <1>4
<1> QED BY <1>0, <1>2, <1>4, <1>5 DEF HttpGet, Same

\* What HttpGetFails changes.
LEMMA HttpGetFailsEffect ==
    ASSUME Types, NEW t \in Tids, HttpGetFails(t)
    PROVE  /\ At(t, "hcon", "get") /\ Moves(t, "end")
           /\ th'[t].arr = <<>> /\ th'[t].key = Junk /\ Same(t, {"pos", "cmd"})
           /\ UNCHANGED file \/ \E d \in Fds : LowestFree(d) /\ file' = [file EXCEPT ![d] = Leaked]
           /\ UNCHANGED <<unread, serv, reused, tok, up, fetch>>
<1>1. /\ th' = [th EXCEPT ![t] = Ended(t)]
      /\ UNCHANGED <<calm, born, denied, lpc, lret, conInf, net, starved>>
  BY DEF HttpGetFails, listener
<1>2. Moves(t, "end") /\ th'[t].arr = <<>> /\ th'[t].key = Junk /\ Same(t, {"pos", "cmd"})
  BY <1>1, EndedMove
<1> QED BY <1>2 DEF HttpGetFails

\* What GetHeader changes.
LEMMA GetHeaderEffect ==
    ASSUME Types, ReadOnce, NEW t \in Tids, GetHeader(t)
    PROVE  /\ At(t, "hcon", "head") /\ Moves(t, "more")
           /\ th[t].cmd \in Conns \ unread
           /\ \E text \in Answers(t) : th'[t].arr = SplitFirst(text) /\ tok' = Tail(text)
           /\ Same(t, {"fd", "pos", "key", "cmd"})
           /\ UNCHANGED <<unread, file, serv, reused, up, fetch>>
<1>0. PICK text \in Answers(t) :
         /\ th' = [th EXCEPT ![t].pc = "more", ![t].arr = SplitFirst(text)]
         /\ tok' = Tail(text)
  BY DEF GetHeader
<1>c. th[t].cmd \in Conns \ unread
  BY DEF GetHeader, At, ReadOnce, Carries
<1> DEFINE a == SplitFirst(text)
           r == [[th[t] EXCEPT !.pc = "more"] EXCEPT !.arr = a]
<1>1. th[t] \in Records /\ a \in Seq(Tokens) /\ "more" \in PcsOfThread
  <2>1. \E c \in Conns : text \in {Refusal(c), VeFile(c)}
    BY <1>0, <1>c DEF Answers
  <2>2. text \in Seq(Tokens) /\ text # <<>>
    BY <2>1, TextFacts
  <2> QED BY <2>2, FirstFacts DEF Types, PcsOfThread
<1>2. /\ r \in Records /\ r.pc = "more" /\ r.kind = th[t].kind /\ r.arg = th[t].arg
      /\ r.arr = a
      /\ \A f \in {"fd", "pos", "key", "cmd"} : r[f] = th[t][f]
  <2> HIDE DEF a
  <2> QED BY <1>1 DEF Records
<1>3. th' = [th EXCEPT ![t] = r]
  BY <1>0
<1> HIDE DEF r
<1>4. Moves(t, "more") /\ th'[t] = r
  <2>1. UNCHANGED <<calm, born, denied, lpc, lret, conInf, net, starved>>
    BY DEF GetHeader, listener
  <2> QED BY <1>2, <1>3, <2>1, Move
<1>5. th'[t].arr = SplitFirst(text)
  BY <1>2, <1>4
<1> QED BY <1>0, <1>c, <1>2, <1>4, <1>5 DEF GetHeader, listener, Same

\* What GetHeaderFails changes.
LEMMA GetHeaderFailsEffect ==
    ASSUME Types, NEW t \in Tids, GetHeaderFails(t)
    PROVE  /\ At(t, "hcon", "head") /\ Moves(t, "end")
           /\ th'[t].arr = <<>> /\ th'[t].key = Junk /\ Same(t, {"pos", "cmd"})
           /\ Close(th[t].fd)
           /\ UNCHANGED <<unread, serv, reused, tok, up, fetch>>
<1>1. /\ th' = [th EXCEPT ![t] = Ended(t)]
      /\ UNCHANGED <<calm, born, denied, lpc, lret, conInf, net, starved>>
  BY DEF GetHeaderFails, listener
<1>2. Moves(t, "end") /\ th'[t].arr = <<>> /\ th'[t].key = Junk /\ Same(t, {"pos", "cmd"})
  BY <1>1, EndedMove
<1> QED BY <1>2 DEF GetHeaderFails

\* What GetProc changes.
LEMMA GetProcEffect ==
    ASSUME Types, ReadOnce, NEW t \in Tids, GetProc(t)
    PROVE  /\ At(t, "hcon", "proc") /\ Moves(t, "more")
           /\ th[t].cmd \in Conns \ unread
           /\ th'[t].arr = SplitFirst(VeProc(th[t].cmd)) /\ tok' = Tail(VeProc(th[t].cmd))
           /\ Same(t, {"fd", "pos", "key", "cmd"})
           /\ UNCHANGED <<unread, file, serv, reused, up, fetch>>
<1>c. th[t].cmd \in Conns \ unread
  BY DEF GetProc, At, ReadOnce, Carries
<1> DEFINE a == SplitFirst(VeProc(th[t].cmd))
           r == [[th[t] EXCEPT !.pc = "more"] EXCEPT !.arr = a]
<1>1. th[t] \in Records /\ a \in Seq(Tokens) /\ "more" \in PcsOfThread
  <2>1. VeProc(th[t].cmd) \in Seq(Tokens) /\ VeProc(th[t].cmd) # <<>>
    BY <1>c, TextFacts DEF VeProc
  <2> QED BY <2>1, FirstFacts DEF Types, PcsOfThread
<1>2. /\ r \in Records /\ r.pc = "more" /\ r.kind = th[t].kind /\ r.arg = th[t].arg
      /\ r.arr = a
      /\ \A f \in {"fd", "pos", "key", "cmd"} : r[f] = th[t][f]
  <2> HIDE DEF a
  <2> QED BY <1>1 DEF Records
<1>3. th' = [th EXCEPT ![t] = r]
  BY DEF GetProc
<1> HIDE DEF r
<1>4. Moves(t, "more") /\ th'[t] = r
  <2>1. UNCHANGED <<calm, born, denied, lpc, lret, conInf, net, starved>>
    BY DEF GetProc, listener
  <2> QED BY <1>2, <1>3, <2>1, Move
<1> QED BY <1>c, <1>2, <1>4 DEF GetProc, listener, Same

\* What Report changes.
LEMMA ReportEffect ==
    ASSUME Types, NEW t \in Tids, Report(t)
    PROVE  /\ At(t, "hcon", "work")
           /\ \/ /\ Moves(t, "post") /\ th'[t].rep \in Fds /\ LowestFree(th'[t].rep)
                 /\ file' = [file EXCEPT ![th'[t].rep] = t]
              \/ /\ Moves(t, "work")
                 /\ \E d \in Fds : LowestFree(d) /\ file' = [file EXCEPT ![d] = Leaked]
           /\ Same(t, {"fd", "pos", "arr", "key", "cmd"})
           /\ UNCHANGED <<unread, serv, reused, tok, up, fetch>>
<1>0. PICK d \in Fds :
         /\ LowestFree(d)
         /\ \/ /\ file' = [file EXCEPT ![d] = t]
               /\ th' = [th EXCEPT ![t].pc = "post", ![t].rep = d, ![t].due = @ - 1]
            \/ /\ file' = [file EXCEPT ![d] = Leaked]
               /\ th' = [th EXCEPT ![t].due = @ - 1]
  BY DEF Report
<1>1. /\ th[t] \in Records /\ "post" \in PcsOfHcon /\ th[t].due - 1 \in 0 .. MaxReports
      /\ th[t].pc = "work"
      /\ UNCHANGED <<calm, born, denied, lpc, lret, conInf, net, starved>>
  <2>1. th[t] \in Records /\ th[t].due > 0
    BY DEF Report, Types
  <2>2. th[t].due \in 0 .. MaxReports
    BY <2>1 DEF Records
  <2> QED BY <2>1, <2>2, LimitsAreNat DEF Report, At, listener, PcsOfHcon
<1>2. CASE /\ file' = [file EXCEPT ![d] = t]
           /\ th' = [th EXCEPT ![t].pc = "post", ![t].rep = d, ![t].due = @ - 1]
  <2> DEFINE n == th[t].due - 1
             r == [[[th[t] EXCEPT !.pc = "post"] EXCEPT !.rep = d] EXCEPT !.due = n]
  <2>1. /\ r \in Records /\ r.pc = "post" /\ r.kind = th[t].kind /\ r.arg = th[t].arg
        /\ r.rep = d
        /\ \A f \in {"fd", "pos", "arr", "key", "cmd"} : r[f] = th[t][f]
    <3> HIDE DEF n
    <3>1. n \in 0 .. MaxReports
      BY <1>1 DEF n
    <3> QED BY <1>1, <3>1 DEF Records
  <2>2. th' = [th EXCEPT ![t] = r]
    BY <1>2
  <2> HIDE DEF r
  <2>3. Moves(t, "post") /\ th'[t] = r
    BY <1>1, <2>1, <2>2, Move
  <2>4. th'[t].rep = d
    BY <2>1, <2>3
  <2> QED BY <1>0, <1>2, <2>1, <2>3, <2>4 DEF Report, Same
<1>3. CASE /\ file' = [file EXCEPT ![d] = Leaked]
           /\ th' = [th EXCEPT ![t].due = @ - 1]
  <2> DEFINE n == th[t].due - 1
             r == [th[t] EXCEPT !.due = n]
  <2>1. /\ r \in Records /\ r.pc = "work" /\ r.kind = th[t].kind /\ r.arg = th[t].arg
        /\ \A f \in {"fd", "pos", "arr", "key", "cmd"} : r[f] = th[t][f]
    <3> HIDE DEF n
    <3>1. n \in 0 .. MaxReports
      BY <1>1 DEF n
    <3> QED BY <1>1, <3>1 DEF Records
  <2>2. th' = [th EXCEPT ![t] = r]
    BY <1>3
  <2> HIDE DEF r
  <2>3. Moves(t, "work") /\ th'[t] = r
    BY <1>1, <2>1, <2>2, Move
  <2> QED BY <1>0, <1>3, <2>1, <2>3 DEF Report, Same
<1> QED BY <1>0, <1>2, <1>3

\* What Posted changes.
LEMMA PostedEffect ==
    ASSUME Types, NEW t \in Tids, Posted(t)
    PROVE  /\ At(t, "hcon", "post") /\ Moves(t, "work")
           /\ Close(th[t].rep)
           /\ Same(t, {"fd", "pos", "arr", "key", "cmd"})
           /\ UNCHANGED <<unread, serv, reused, tok, up, fetch>>
<1> DEFINE r == [[th[t] EXCEPT !.pc = "work"] EXCEPT !.rep = NoFd]
<1>1. th[t] \in Records /\ "work" \in PcsOfHcon
  BY DEF Types, PcsOfHcon
<1>2. /\ r \in Records /\ r.pc = "work" /\ r.kind = th[t].kind /\ r.arg = th[t].arg
      /\ \A f \in {"fd", "pos", "arr", "key", "cmd"} : r[f] = th[t][f]
  BY <1>1 DEF Records
<1>3. th' = [th EXCEPT ![t] = r]
  BY DEF Posted
<1> HIDE DEF r
<1>4. Moves(t, "work") /\ th'[t] = r
  <2>1. UNCHANGED <<calm, born, denied, lpc, lret, conInf, net, starved>>
    BY DEF Posted, listener
  <2> QED BY <1>2, <1>3, <2>1, Move
<1> QED BY <1>2, <1>4 DEF Posted, Same

\* What WorkEnd changes.
LEMMA WorkEndEffect ==
    ASSUME Types, NEW t \in Tids, WorkEnd(t)
    PROVE  /\ At(t, "hcon", "work") /\ Moves(t, "end")
           /\ th'[t].arr = <<>> /\ th'[t].key = Junk /\ Same(t, {"pos", "cmd"})
           /\ Close(th[t].fd)
           /\ UNCHANGED <<unread, serv, reused, tok, up, fetch>>
<1>1. /\ th' = [th EXCEPT ![t] = Ended(t)]
      /\ UNCHANGED <<calm, born, denied, lpc, lret, conInf, net, starved>>
  BY DEF WorkEnd, listener
<1>2. Moves(t, "end") /\ th'[t].arr = <<>> /\ th'[t].key = Junk /\ Same(t, {"pos", "cmd"})
  BY <1>1, EndedMove
<1> QED BY <1>2 DEF WorkEnd

\* What StartThread changes.
LEMMA StartThreadEffect ==
    ASSUME Types, Born, StartThread
    PROVE  /\ lpc = "create" /\ lpc' = "accept" /\ conInf' = lret
           /\ UNCHANGED <<calm, net, unread, file, lret, starved, serv, reused, tok, up, fetch>>
           /\ th' \in [Tids -> Records]
           /\ \/ /\ denied' = TRUE /\ UNCHANGED <<born, th>>
              \/ /\ born' = born + 1 /\ born' \in Tids /\ UNCHANGED denied
                 /\ \A u \in Tids \ {born'} : th'[u] = th[u]
                 /\ th[born'].kind = "thread" /\ th[born'].pc = "none"
                 /\ th'[born'] = [NewThread EXCEPT !.pc = "copy"]
<1> DEFINE r == [NewThread EXCEPT !.pc = "copy"]
<1>1. r \in Records
  <2>1. r = [kind |-> "thread", pc |-> "copy", fd |-> NoFd, pos |-> <<>>,
             arr |-> <<>>, key |-> Junk, rep |-> NoFd, due |-> 0, arg |-> 0, cmd |-> Nobody]
    BY DEF NewThread
  <2>2. 0 \in 0 .. MaxThreads /\ 0 \in 0 .. MaxReports /\ <<>> \in Seq(Tokens) /\ "copy" \in PcsOfThread
    BY LimitsAreNat DEF PcsOfThread
  <2> HIDE DEF r
  <2> QED BY <2>1, <2>2 DEF Records
<1>2. CASE born < MaxThreads
  <2> HIDE DEF r
  <2>1. born + 1 \in Tids
    BY <1>2, LimitsAreNat DEF Types, Tids
  <2>2. th' = [th EXCEPT ![born + 1] = r] /\ born' = born + 1 /\ UNCHANGED denied
    BY <1>2 DEF StartThread, Create, r
  <2>3. th[born + 1].pc = "none" /\ th[born + 1].kind = "thread"
    <3>1. th[born + 1].kind \in {"thread", "hcon"}
      BY <2>1 DEF Types, Records
    <3>2. born + 1 > born
      BY LimitsAreNat DEF Types
    <3>3. th[born + 1].pc = "none"
      BY <2>1, <3>2 DEF Born
    <3> QED BY <2>1, <3>1, <3>3 DEF Born, PcsOfHcon
  <2>4. th' \in [Tids -> Records] /\ th'[born + 1] = r /\ \A u \in Tids \ {born + 1} : th'[u] = th[u]
    BY <1>1, <2>1, <2>2 DEF Types
  <2> QED BY <2>1, <2>2, <2>3, <2>4 DEF StartThread, r
<1>3. CASE ~(born < MaxThreads)
  BY <1>3 DEF StartThread, Create, Types
<1> QED BY <1>2, <1>3

\* What CmdRun changes.
LEMMA CmdRunEffect ==
    ASSUME Types, Born, NEW t \in Tids, CmdRun(t)
    PROVE  /\ At(t, "thread", "run")
           /\ serv' = [serv EXCEPT ![t] = IF Len(th[t].arr) > 1 THEN KeyOf(th[t].arr[2]) ELSE Junk]
           /\ UNCHANGED <<calm, listener, unread, file, reused, tok, up, fetch>>
           /\ th' \in [Tids -> Records]
           /\ th'[t].pc = "recv" /\ th'[t].arr = <<>>
           /\ Same(t, {"kind", "arg", "fd", "pos", "key", "cmd"})
           /\ \/ /\ denied' = TRUE /\ UNCHANGED born
                 /\ \A u \in Tids \ {t} : th'[u] = th[u]
              \/ /\ born' = born + 1 /\ born' \in Tids \ {t} /\ UNCHANGED denied
                 /\ \A u \in Tids \ {t, born'} : th'[u] = th[u]
                 /\ th[born'].kind = "thread" /\ th[born'].pc = "none"
                 /\ th'[born'] = NewHcon(t)
<1>0. At(t, "thread", "run") /\ CreateHcon(t)
  BY DEF CmdRun
<1> DEFINE r == [[th[t] EXCEPT !.pc = "recv"] EXCEPT !.arr = <<>>]
<1>1. th[t] \in Records /\ <<>> \in Seq(Tokens) /\ "recv" \in PcsOfThread
  BY DEF Types, PcsOfThread
<1>2. /\ r \in Records /\ r.pc = "recv" /\ r.arr = <<>>
      /\ \A f \in {"kind", "arg", "fd", "pos", "key", "cmd"} : r[f] = th[t][f]
  BY <1>1 DEF Records
<1>3. NewHcon(t) \in Records
  <2>1. /\ th[t].cmd \in Conns \cup {Nobody} /\ t \in 0 .. MaxThreads /\ "frame" \in PcsOfHcon
        /\ MaxReports \in 0 .. MaxReports
    BY <1>1, LimitsAreNat DEF Records, Tids, PcsOfHcon
  <2>2. NewThread \in Records
    <3>1. 0 \in 0 .. MaxThreads /\ 0 \in 0 .. MaxReports /\ <<>> \in Seq(Tokens) /\ "none" \in PcsOfThread
      BY LimitsAreNat DEF PcsOfThread
    <3> QED BY <3>1 DEF NewThread, Records
  <2> QED BY <2>1, <2>2 DEF NewHcon, Records
<1> HIDE DEF r
<1>4. CASE born < MaxThreads
  <2>0. born \in Nat /\ t <= born /\ t \in Nat
    <3>1. born \in 0 .. MaxThreads /\ th[t].pc # "none"
      BY <1>0 DEF Types, At
    <3>2. born \in Nat /\ t \in Nat
      BY <3>1, LimitsAreNat DEF Tids
    <3> QED BY <3>1, <3>2 DEF Born
  <2>1. born + 1 \in Tids /\ born + 1 # t
    BY <1>4, <2>0, LimitsAreNat DEF Tids
  <2>2. /\ born' = born + 1 /\ UNCHANGED denied
        /\ th' = [th EXCEPT ![t] = r, ![born + 1] = NewHcon(t)]
    BY <1>0, <1>4 DEF CreateHcon, r
  <2>3. th[born + 1].pc = "none" /\ th[born + 1].kind = "thread"
    <3>1. th[born + 1].kind \in {"thread", "hcon"}
      BY <2>1 DEF Types, Records
    <3>2. born + 1 > born
      BY LimitsAreNat DEF Types
    <3>3. th[born + 1].pc = "none"
      BY <2>1, <3>2 DEF Born
    <3> QED BY <2>1, <3>1, <3>3 DEF Born, PcsOfHcon
  <2>4. /\ th' \in [Tids -> Records] /\ th'[t] = r /\ th'[born + 1] = NewHcon(t)
        /\ \A u \in Tids \ {t, born + 1} : th'[u] = th[u]
    BY <1>2, <1>3, <2>1, <2>2 DEF Types
  <2> QED BY <1>0, <1>2, <2>1, <2>2, <2>3, <2>4 DEF CmdRun, Same
<1>5. CASE ~(born < MaxThreads)
  <2>1. th' = [th EXCEPT ![t] = r] /\ denied' = TRUE /\ UNCHANGED born
    BY <1>0, <1>5 DEF CreateHcon, r
  <2>2. th' \in [Tids -> Records] /\ th'[t] = r /\ \A u \in Tids \ {t} : th'[u] = th[u]
    BY <1>2, <2>1 DEF Types
  <2> QED BY <1>0, <1>2, <2>1, <2>2 DEF CmdRun, Same
<1> QED BY <1>4, <1>5

\* The record of a thread that was just started.
LEMMA NewThreadFields ==
    /\ \A f \in {"kind", "fd", "pos", "arr", "key", "arg", "cmd"} :
          [NewThread EXCEPT !.pc = "copy"][f] = NewThread[f]
    /\ [NewThread EXCEPT !.pc = "copy"].pc = "copy"
    /\ [NewThread EXCEPT !.pc = "copy"].kind = "thread"
    /\ NewThread.kind = "thread" /\ NewThread.pos = <<>> /\ NewThread.arr = <<>>
    /\ NewThread.key = Junk /\ NewThread.arg = 0
  BY DEF NewThread

\* The record of a thread that hcon was just started in.
LEMMA NewHconFields ==
    ASSUME NEW t \in Tids
    PROVE  /\ NewHcon(t).kind = "hcon" /\ NewHcon(t).pc = "frame" /\ NewHcon(t).arg = t
           /\ NewHcon(t).cmd = th[t].cmd /\ NewHcon(t).pos = <<>> /\ NewHcon(t).arr = <<>>
           /\ NewHcon(t).key = Junk
  BY DEF NewHcon, NewThread

----------------------------------------------------------------------------
(* Every step keeps the types.                                             *)

\* A thread that goes to a place of its kind leaves every thread started or not as it was.
LEMMA MoveBorn ==
    ASSUME Types, Born, NEW t \in Tids, NEW p, Moves(t, p), th[t].pc # "none", p # "none",
           p \in (IF th[t].kind = "hcon" THEN PcsOfHcon ELSE PcsOfThread)
    PROVE  Born'
  BY DEF Born, Moves

\* Every thread is as it was, or runs.
LEMMA AnyBorn ==
    ASSUME Types, Born, born' \in 0 .. MaxThreads, born <= born',
           \A u \in Tids :
              \/ th'[u] = th[u] /\ (u > born' <=> u > born)
              \/ /\ u <= born' /\ th'[u].pc # "none" /\ th'[u].arg <= born'
                 /\ th'[u].pc \in (IF th'[u].kind = "hcon" THEN PcsOfHcon ELSE PcsOfThread)
                 /\ th'[u].kind = "hcon" => th'[u].arg \in Tids
    PROVE  Born'
<1> SUFFICES ASSUME NEW u \in Tids
             PROVE  /\ th'[u].pc \in (IF th'[u].kind = "hcon" THEN PcsOfHcon ELSE PcsOfThread)
                    /\ th'[u].pc = "none" <=> u > born'
                    /\ th'[u].arg <= born' /\ (th'[u].kind = "hcon" => th'[u].arg \in Tids)
  BY DEF Born
<1>1. born \in Int /\ born' \in Int /\ u \in Int /\ th[u].arg \in Int
  BY LimitsAreNat DEF Types, Records, Tids
<1>2. CASE th'[u] = th[u] /\ (u > born' <=> u > born)
  BY <1>1, <1>2 DEF Born
<1>3. CASE /\ u <= born' /\ th'[u].pc # "none" /\ th'[u].arg <= born'
           /\ th'[u].pc \in (IF th'[u].kind = "hcon" THEN PcsOfHcon ELSE PcsOfThread)
           /\ th'[u].kind = "hcon" => th'[u].arg \in Tids
  BY <1>1, <1>3
<1> QED BY <1>2, <1>3

\* The variables no step of a thread changes.
LEMMA MoveTypes ==
    ASSUME Types, NEW t \in Tids, NEW p, Moves(t, p), UNCHANGED serv, up' \in BOOLEAN,
           unread' \in SUBSET Conns, reused' \in SUBSET Tids, tok' \in Seq(Tokens),
           file' \in [Fds -> Conns \cup Tids \cup {Free, Stdin, Leaked, Awaited}],
           fetch' \in [Conns -> Seq(Conns)]
    PROVE  Types'
  BY DEF Types, Moves

Files == [Fds -> Conns \cup Tids \cup {Free, Stdin, Leaked, Awaited}]

\* The descriptors after a close, a leak or a new socket.
LEMMA FileTypes ==
    ASSUME NEW t \in Tids, file \in Files
    PROVE  /\ \A d : Close(d) => file' \in Files
           /\ \A d \in Fds : /\ [file EXCEPT ![d] = Leaked] \in Files
                             /\ [file EXCEPT ![d] = t] \in Files
  BY DEF Close, Files

\* The positions and tokens a step stores.
LEMMA TokTypes ==
    ASSUME Types, NEW t \in Tids
    PROVE  /\ th[t].pos \in Seq(Tokens) /\ th[t].arr \in Seq(Tokens)
           /\ th[t].pos # <<>> => Tail(th[t].pos) \in Seq(Tokens)
           /\ \A c \in Conns : /\ Tail(Command(c)) \in Seq(Tokens)
                               /\ Tail(VeFile(c)) \in Seq(Tokens)
                               /\ Tail(Refusal(c)) \in Seq(Tokens)
                               /\ Tail(VeProc(c)) \in Seq(Tokens)
<1>1. th[t].pos \in Seq(Tokens) /\ th[t].arr \in Seq(Tokens)
  BY DEF Types, Records
<1>2. ASSUME NEW c \in Conns
      PROVE  /\ Tail(Command(c)) \in Seq(Tokens) /\ Tail(VeFile(c)) \in Seq(Tokens)
             /\ Tail(Refusal(c)) \in Seq(Tokens) /\ Tail(VeProc(c)) \in Seq(Tokens)
  <2>1. Command(c) # <<>> /\ VeFile(c) # <<>> /\ Refusal(c) # <<>> /\ VeProc(c) # <<>>
    BY DEF Command, VeFile, Refusal, VeProc
  <2> QED BY <2>1, TextFacts, FirstFacts
<1>3. th[t].pos # <<>> => Tail(th[t].pos) \in Seq(Tokens)
  BY <1>1, FirstFacts
<1> QED BY <1>1, <1>2, <1>3

\* Every step keeps the types.
LEMMA TypeStep == ASSUME Types, Born, ReadOnce, [Next]_vars PROVE Types' /\ Born'
<1>0. /\ unread \in SUBSET Conns /\ file \in Files /\ reused \in SUBSET Tids /\ up \in BOOLEAN
      /\ fetch \in [Conns -> Seq(Conns)] /\ tok \in Seq(Tokens)
  BY DEF Types, Files
<1>1. ASSUME NEW c \in Conns, Connect(c) PROVE Types' /\ Born'
  BY <1>1 DEF Connect, Types, Born
<1>2. CASE Accept
  <2>1. Types'
    BY <1>2, FdFacts DEF Accept, LowestFree, FreeFds, Types
  <2> QED BY <1>2, <2>1 DEF Accept, Born
<1>21. CASE Accepted
  <2>1. PICK c \in Conns : net' = [net EXCEPT ![c] = "open"] /\ file' = [file EXCEPT ![lret] = c]
    BY <1>21 DEF Accepted
  <2>2. net' \in [Conns -> {"new", "queued", "open"}] /\ file' \in Files
    BY <1>0, <2>1 DEF Types, Files
  <2>3. Types'
    BY <1>21, <2>2, FdFacts DEF Accepted, Types, Files
  <2> QED BY <1>21, <2>3 DEF Accepted, Born
<1>3. CASE StartThread
  <2>0. denied' \in BOOLEAN
    BY <1>3, StartThreadEffect DEF Types
  <2>1. born' \in 0 .. MaxThreads /\ born <= born'
    <3>1. born' = born \/ (born' = born + 1 /\ born' \in Tids)
      BY <1>3, StartThreadEffect
    <3>2. born \in 0 .. MaxThreads
      BY DEF Types
    <3>3. born \in Nat /\ born + 1 \in Nat
      BY <3>2, LimitsAreNat
    <3> QED BY <3>1, <3>2, <3>3, LimitsAreNat DEF Tids
  <2>2. ASSUME NEW u \in Tids
        PROVE  \/ th'[u] = th[u] /\ (u > born' <=> u > born)
               \/ /\ u <= born' /\ th'[u].pc # "none" /\ th'[u].arg <= born'
                  /\ th'[u].pc \in (IF th'[u].kind = "hcon" THEN PcsOfHcon ELSE PcsOfThread)
                  /\ th'[u].kind = "hcon" => th'[u].arg \in Tids
    <3>1. CASE UNCHANGED <<born, th>>
      BY <3>1
    <3>2. CASE u # born' /\ th'[u] = th[u] /\ born' = born + 1
      <4>1. u \in Int /\ born \in Int
        BY LimitsAreNat DEF Types, Tids
      <4> QED BY <3>2, <4>1
    <3>3. CASE u = born' /\ th'[u] = [NewThread EXCEPT !.pc = "copy"]
      <4>1. th'[u].pc = "copy" /\ th'[u].kind = "thread" /\ th'[u].arg = 0
        BY <3>3 DEF NewThread
      <4> QED BY <2>1, <3>3, <4>1 DEF PcsOfThread
    <3> QED BY <1>3, <3>1, <3>2, <3>3, StartThreadEffect
  <2>3. Born'
    BY <2>1, <2>2, AnyBorn
  <2> QED BY <1>3, <2>0, <2>1, <2>3, StartThreadEffect DEF Types
<1>4. ASSUME NEW t \in Tids, CopyConInf(t) PROVE Types' /\ Born'
  BY <1>0, <1>4, CopyConInfEffect, MoveTypes, MoveBorn DEF At, PcsOfThread, Files
<1>5. ASSUME NEW t \in Tids, RecvCommand(t) PROVE Types' /\ Born'
  BY <1>0, <1>5, RecvCommandEffect, TokTypes, MoveTypes, MoveBorn DEF At, PcsOfThread, Files
<1>6. ASSUME NEW t \in Tids, RecvEnd(t) PROVE Types' /\ Born'
  BY <1>0, <1>6, RecvEndEffect, MoveTypes, MoveBorn DEF At, PcsOfThread, Files
<1>7. ASSUME NEW t \in Tids, SplitLoad(t) PROVE Types' /\ Born'
  BY <1>0, <1>7, SplitLoadEffect, MoveTypes, MoveBorn DEF PcsOfThread, PcsOfHcon, Files
<1>8. ASSUME NEW t \in Tids, SplitStore(t) PROVE Types' /\ Born'
  <2>0. th[t].kind \in {"thread", "hcon"}
    BY DEF Types, Records
  <2>1. AfterSplit(t) \in (IF th[t].kind = "hcon" THEN PcsOfHcon ELSE PcsOfThread) \ {"none"}
    BY <2>0 DEF AfterSplit, PcsOfThread, PcsOfHcon
  <2>2. <<>> \in Seq(Tokens)
    OBVIOUS
  <2>3. PICK p \in {"more", AfterSplit(t)} : Moves(t, p)
    BY <1>8, SplitStoreEffect
  <2>4. th[t].pc # "none" /\ tok' \in Seq(Tokens)
    BY <1>8, <2>2, SplitStoreEffect, TokTypes
  <2>5. Born'
    BY <2>1, <2>3, <2>4, MoveBorn DEF PcsOfThread, PcsOfHcon
  <2> QED BY <1>0, <1>8, <2>3, <2>4, <2>5, SplitStoreEffect, MoveTypes DEF Files
<1>9. ASSUME NEW t \in Tids, CmdRun(t) PROVE Types' /\ Born'
  <2>1. serv' \in [Tids -> Conns \cup {Junk}]
    <3> DEFINE k == IF Len(th[t].arr) > 1 THEN KeyOf(th[t].arr[2]) ELSE Junk
    <3>1. Len(th[t].arr) > 1 => th[t].arr[2] \in Tokens
      <4>1. th[t].arr \in Seq(Tokens)
        BY TokTypes
      <4> QED BY <4>1
    <3>2. k \in Conns \cup {Junk}
      BY <3>1 DEF KeyOf, Tokens
    <3>3. serv' = [serv EXCEPT ![t] = k]
      BY <1>9, CmdRunEffect
    <3> HIDE DEF k
    <3> QED BY <3>2, <3>3 DEF Types
  <2>0. denied' \in BOOLEAN
    BY <1>9, CmdRunEffect DEF Types
  <2>2. born' \in 0 .. MaxThreads /\ born <= born'
    <3>1. born' = born \/ (born' = born + 1 /\ born' \in Tids)
      BY <1>9, CmdRunEffect
    <3>2. born \in 0 .. MaxThreads
      BY DEF Types
    <3>3. born \in Nat /\ born + 1 \in Nat
      BY <3>2, LimitsAreNat
    <3> QED BY <3>1, <3>2, <3>3, LimitsAreNat DEF Tids
  <2>3. ASSUME NEW u \in Tids
        PROVE  \/ th'[u] = th[u] /\ (u > born' <=> u > born)
               \/ /\ u <= born' /\ th'[u].pc # "none" /\ th'[u].arg <= born'
                  /\ th'[u].pc \in (IF th'[u].kind = "hcon" THEN PcsOfHcon ELSE PcsOfThread)
                  /\ th'[u].kind = "hcon" => th'[u].arg \in Tids
    <3>0. t \in Int /\ u \in Int /\ born \in Int /\ born' \in Int /\ t <= born
      <4>1. th[t].pc # "none"
        BY <1>9, CmdRunEffect DEF At
      <4> QED BY <2>2, <4>1, LimitsAreNat DEF Types, Tids, Born
    <3>1. CASE u = t
      <4>1. th'[u].pc = "recv" /\ th'[u].kind = "thread" /\ th'[u].arg = th[t].arg
        BY <1>9, <3>1, CmdRunEffect DEF At, Same
      <4>2. th[t].arg \in Int /\ th[t].arg <= born
        BY LimitsAreNat DEF Born, Types, Records
      <4> QED BY <2>2, <3>0, <3>1, <4>1, <4>2 DEF PcsOfThread
    <3>2. CASE u # t /\ UNCHANGED born /\ th'[u] = th[u]
      BY <3>2
    <3>3. CASE u # born' /\ th'[u] = th[u] /\ born' = born + 1
      BY <3>0, <3>3
    <3>4. CASE u = born' /\ th'[u] = NewHcon(t)
      BY <2>2, <3>0, <3>4, NewHconFields DEF PcsOfHcon
    <3> QED BY <1>9, <3>1, <3>2, <3>3, <3>4, CmdRunEffect
  <2>4. Born'
    BY <2>2, <2>3, AnyBorn
  <2>5. UNCHANGED <<calm, lpc, lret, conInf, net, starved, unread, file, reused, tok, up, fetch>>
    BY <1>9, CmdRunEffect DEF listener
  <2>6. th' \in [Tids -> Records]
    BY <1>9, CmdRunEffect
  <2> QED BY <2>0, <2>1, <2>2, <2>4, <2>5, <2>6 DEF Types
<1>10. ASSUME NEW t \in Tids, WildPointer(t) PROVE Types' /\ Born'
  BY <1>10 DEF WildPointer, listener, Types, Born
<1>11. ASSUME NEW t \in Tids, ThreadEnd(t) PROVE Types' /\ Born'
  BY <1>0, <1>11, ThreadEndEffect, FileTypes, MoveTypes, MoveBorn DEF At, PcsOfThread, Files
<1>12. ASSUME NEW t \in Tids, CopyFrame(t) PROVE Types' /\ Born'
  BY <1>0, <1>12, CopyFrameEffect, MoveTypes, MoveBorn DEF At, PcsOfHcon, Files
<1>13. ASSUME NEW t \in Tids, HttpGet(t) PROVE Types' /\ Born'
  <2>1. fetch' \in [Conns -> Seq(Conns)]
    <3>1. th[t].cmd \in Conns
      BY <1>13, HttpGetEffect DEF ReadOnce, Carries, At
    <3>2. th[t].key \in Conns => Append(fetch[th[t].cmd], th[t].key) \in Seq(Conns)
      <4>1. fetch[th[t].cmd] \in Seq(Conns)
        BY <1>0, <3>1
      <4> QED BY <4>1
    <3>3. CASE th[t].key \in Conns
      <4>1. fetch' = [fetch EXCEPT ![th[t].cmd] = Append(fetch[th[t].cmd], th[t].key)]
        BY <1>13, <3>3, HttpGetEffect
      <4> QED BY <1>0, <3>1, <3>2, <3>3, <4>1
    <3>4. CASE th[t].key \notin Conns
      BY <1>0, <1>13, <3>4, HttpGetEffect
    <3> QED BY <3>3, <3>4
  <2>2. Moves(t, "head") /\ At(t, "hcon", "get") /\ file' \in Files
    <3>1. Moves(t, "head") /\ At(t, "hcon", "get") /\ th'[t].fd \in Fds
          /\ file' = [file EXCEPT ![th'[t].fd] = t]
      BY <1>13, HttpGetEffect
    <3> QED BY <1>0, <3>1, FileTypes
  <2>3. UNCHANGED <<unread, serv, reused, tok, up>>
    BY <1>13, HttpGetEffect
  <2> QED BY <1>0, <2>1, <2>2, <2>3, MoveTypes, MoveBorn DEF At, PcsOfHcon, Files
<1>14. ASSUME NEW t \in Tids, HttpGetFails(t) PROVE Types' /\ Born'
  BY <1>0, <1>14, HttpGetFailsEffect, FileTypes, MoveTypes, MoveBorn DEF At, PcsOfHcon, Files
<1>15. ASSUME NEW t \in Tids, GetHeader(t) PROVE Types' /\ Born'
  <2>1. tok' \in Seq(Tokens)
    BY <1>15, GetHeaderEffect, TokTypes DEF Answers
  <2> QED BY <1>0, <1>15, <2>1, GetHeaderEffect, MoveTypes, MoveBorn DEF At, PcsOfHcon, Files
<1>22. ASSUME NEW t \in Tids, GetProc(t) PROVE Types' /\ Born'
  <2>1. tok' \in Seq(Tokens)
    BY <1>22, GetProcEffect, TokTypes
  <2> QED BY <1>0, <1>22, <2>1, GetProcEffect, MoveTypes, MoveBorn DEF At, PcsOfHcon, Files
<1>23. ASSUME NEW t \in Tids, Report(t) PROVE Types' /\ Born'
  <2>1. PICK p \in {"post", "work"} : Moves(t, p)
    BY <1>23, ReportEffect
  <2>2. file' \in Files
    <3>1. \E d \in Fds : file' = [file EXCEPT ![d] = t] \/ file' = [file EXCEPT ![d] = Leaked]
      BY <1>23, ReportEffect
    <3> QED BY <1>0, <3>1, FileTypes
  <2>3. UNCHANGED <<unread, serv, reused, tok, up, fetch>> /\ th[t].kind = "hcon" /\ th[t].pc = "work"
    BY <1>23, ReportEffect DEF At
  <2>4. Types'
    BY <1>0, <2>1, <2>2, <2>3, MoveTypes DEF Files
  <2>5. Born'
    BY <2>1, <2>3, MoveBorn DEF PcsOfHcon
  <2> QED BY <2>4, <2>5
<1>24. ASSUME NEW t \in Tids, Posted(t) PROVE Types' /\ Born'
  BY <1>0, <1>24, PostedEffect, FileTypes, MoveTypes, MoveBorn DEF At, PcsOfHcon, Files
<1>16. ASSUME NEW t \in Tids, GetHeaderFails(t) PROVE Types' /\ Born'
  BY <1>0, <1>16, GetHeaderFailsEffect, FileTypes, MoveTypes, MoveBorn DEF At, PcsOfHcon, Files
<1>17. ASSUME NEW t \in Tids, WorkEnd(t) PROVE Types' /\ Born'
  BY <1>0, <1>17, WorkEndEffect, FileTypes, MoveTypes, MoveBorn DEF At, PcsOfHcon, Files
<1>18. CASE UNCHANGED vars
  <2>1. Types'
    BY <1>18 DEF vars, Types
  <2> QED BY <1>18, <2>1 DEF vars, Born
<1> QED BY <1>1, <1>2, <1>3, <1>4, <1>5, <1>6, <1>7, <1>8, <1>9, <1>10, <1>11, <1>12,
           <1>13, <1>14, <1>15, <1>16, <1>17, <1>18, <1>21, <1>22, <1>23, <1>24
        DEF Next, HwListen, Step, Thread, Split, Hcon

----------------------------------------------------------------------------
(* Every step keeps the parts of commands with commands that were read.    *)

\* All parts of a command's text are of that command.
LEMMA TextParts ==
    ASSUME NEW c \in Conns
    PROVE  /\ \A i \in DOMAIN SplitFirst(Command(c)) : SplitFirst(Command(c))[i].of = c
           /\ \A i \in DOMAIN Tail(Command(c)) : Tail(Command(c))[i].of = c
           /\ \A text \in {VeFile(c), Refusal(c), VeProc(c)} :
                 /\ \A i \in DOMAIN SplitFirst(text) : SplitFirst(text)[i].of = c
                 /\ \A i \in DOMAIN Tail(text) : Tail(text)[i].of = c
<1>1. ASSUME NEW s \in Seq(Tokens), s # <<>>, \A i \in 1 .. Len(s) : s[i].of = c
      PROVE  /\ \A i \in DOMAIN SplitFirst(s) : SplitFirst(s)[i].of = c
             /\ \A i \in DOMAIN Tail(s) : Tail(s)[i].of = c
  <2>1. Len(s) \in Nat /\ Len(s) >= 1
    BY <1>1
  <2>2. \A i \in DOMAIN SplitFirst(s) : i = 1
    BY <1>1, FirstFacts
  <2>3. \A i \in DOMAIN Tail(s) : i + 1 \in 1 .. Len(s) /\ Tail(s)[i] = s[i + 1]
    BY <1>1, <2>1, FirstFacts
  <2> QED BY <1>1, <2>1, <2>2, <2>3, FirstFacts
<1>2. Command(c) # <<>> /\ VeFile(c) # <<>> /\ Refusal(c) # <<>> /\ VeProc(c) # <<>>
  BY DEF Command, VeFile, Refusal, VeProc
<1>3. \A text \in {VeFile(c), Refusal(c), VeProc(c)} :
         text \in Seq(Tokens) /\ text # <<>> /\ \A i \in 1 .. Len(text) : text[i].of = c
  BY <1>2, TextFacts
<1> QED BY <1>1, <1>2, <1>3, TextFacts

\* A split makes parts of received commands from parts of received commands.
LEMMA ReadParts ==
    ASSUME Types, NEW s \in Seq(Tokens), NEW a \in Seq(Tokens), OfRead(s), OfRead(a), s # <<>>
    PROVE  OfRead(Tail(s)) /\ OfRead(Append(a, Head(s)))
<1>1. /\ Tail(s) \in Seq(Tokens) /\ Len(Tail(s)) = Len(s) - 1 /\ Head(s) = s[1]
      /\ s[1] \in Tokens /\ 1 \in DOMAIN s /\ Len(s) \in Nat
      /\ \A i \in 1 .. Len(s) - 1 : Tail(s)[i] = s[i + 1] /\ i + 1 \in DOMAIN s
  BY FirstFacts
<1>2. OfRead(Tail(s))
  BY <1>1 DEF OfRead
<1>3. OfRead(Append(a, Head(s)))
  <2>1. \A i \in DOMAIN Append(a, Head(s)) : \/ i \in DOMAIN a /\ Append(a, Head(s))[i] = a[i]
                                             \/ Append(a, Head(s))[i] = s[1]
    BY <1>1, AppendFacts
  <2> QED BY <1>1, <2>1 DEF OfRead
<1> QED BY <1>2, <1>3

\* Closing or taking a descriptor hands nobody a connection.
Kept(f) == \A d \in Fds, c \in Conns : file'[d] = c => f[d] = c

\* Nor does leaking one.
LEMMA FileKeeps ==
    ASSUME NEW t \in Tids, file \in Files
    PROVE  /\ file' = file => Kept(file)
           /\ \A d : Close(d) => Kept(file)
           /\ \A e \in Fds : /\ file' = [file EXCEPT ![e] = Leaked] => Kept(file)
                             /\ file' = [file EXCEPT ![e] = t] => Kept(file)
  BY NamesDiffer DEF Close, Files, Kept

\* A move of one thread that receives nothing mixes up no command that was not received.
LEMMA ReadFrame ==
    ASSUME ReadOnce, NEW t \in Tids, NEW p, Moves(t, p), UNCHANGED <<unread, fetch, serv>>,
           Kept(file),
           OfRead(tok'), OfRead(th'[t].arr), OfRead(th'[t].pos), th'[t].key \notin unread,
           th'[t].cmd = th[t].cmd,
           Carries(t)' => Carries(t), Unfetched(t)' => Unfetched(t)
    PROVE  ReadOnce'
<1>1. \A u \in Tids \ {t} : th'[u] = th[u]
  BY DEF Moves
<1>2. net' = net
  BY DEF Moves
<1>3. \A u \in Tids : /\ th'[u].cmd = th[u].cmd
                      /\ Carries(u)' => Carries(u)
                      /\ Unfetched(u)' => Unfetched(u)
                      /\ OfRead(th[u].arr)' /\ OfRead(th[u].pos)' /\ (th[u].key \notin unread)'
  BY <1>1 DEF ReadOnce, Carries, Unfetched, OfRead
<1>4. OfRead(tok)'
  BY DEF OfRead
<1> QED BY <1>2, <1>3, <1>4 DEF ReadOnce, Kept

\* A step of t that keeps its command, its key and its text.
LEMMA ReadSame ==
    ASSUME Types, ReadOnce, NEW t \in Tids, NEW p, Moves(t, p),
           UNCHANGED <<unread, fetch, serv, tok>>,
           Kept(file),
           Same(t, {"pos", "arr", "key", "cmd"}),
           Carries(t)' => Carries(t), Unfetched(t)' => Unfetched(t)
    PROVE  ReadOnce'
<1>1. OfRead(tok') /\ OfRead(th'[t].arr) /\ OfRead(th'[t].pos) /\ th'[t].key \notin unread
      /\ th'[t].cmd = th[t].cmd
  BY DEF Same, ReadOnce
<1> QED BY <1>1, ReadFrame

\* The end of t.
LEMMA ReadEnd ==
    ASSUME Types, ReadOnce, NEW t \in Tids, Moves(t, "end"), th[t].pc # "none",
           UNCHANGED <<unread, fetch, serv, tok>>, Kept(file),
           th'[t].arr = <<>>, th'[t].key = Junk, Same(t, {"pos", "cmd"})
    PROVE  ReadOnce'
<1>1. OfRead(tok') /\ OfRead(th'[t].arr) /\ OfRead(th'[t].pos) /\ th'[t].key \notin unread
      /\ th'[t].cmd = th[t].cmd
  <2>1. OfRead(<<>>) /\ Junk \notin unread
    BY NamesDiffer DEF OfRead, Types
  <2> QED BY <2>1 DEF Same, ReadOnce
<1>2. (Carries(t)' => Carries(t)) /\ (Unfetched(t)' => Unfetched(t))
  BY DEF Moves, Carries, Unfetched
<1> QED BY <1>1, <1>2, ReadFrame

\* Every step keeps what is known of texts that were read.
LEMMA ReadStep == ASSUME Types, Born, ReadOnce, [Next]_vars PROVE ReadOnce'
<1>0. file \in Files
  BY DEF Types, Files
<1>1. ASSUME NEW c \in Conns, Connect(c) PROVE ReadOnce'
  BY <1>1 DEF Connect, Types, ReadOnce, Carries, Unfetched, OfRead
<1>2. CASE Accept
  <2>1. UNCHANGED <<net, unread, th, serv, tok, fetch>>
    BY <1>2 DEF Accept
  <2>2. \A d \in Fds, e \in Conns : file'[d] = e => file[d] = e
    BY <1>0, <1>2, NamesDiffer DEF Accept, Files
  <2> QED BY <2>1, <2>2 DEF ReadOnce, Carries, Unfetched, OfRead
<1>21. CASE Accepted
  <2>1. PICK c \in Conns : /\ net[c] = "queued" /\ net' = [net EXCEPT ![c] = "open"]
                           /\ file' = [file EXCEPT ![lret] = c]
    BY <1>21 DEF Accepted
  <2>2. UNCHANGED <<unread, th, serv, tok, fetch>>
    BY <1>21 DEF Accepted
  <2>3. /\ \A e \in Conns : net'[e] # "open" => e \in unread'
        /\ \A d \in Fds, e \in Conns : file'[d] = e => net'[e] = "open"
    <3>1. /\ \A e \in Conns : net[e] # "open" => e \in unread
          /\ \A d \in Fds, e \in Conns : file[d] = e => net[e] = "open"
      BY DEF ReadOnce
    <3>2. net \in [Conns -> {"new", "queued", "open"}] /\ file \in Files
      BY <1>0 DEF Types
    <3> QED BY <2>1, <2>2, <3>1, <3>2 DEF Files
  <2> QED BY <2>2, <2>3 DEF ReadOnce, Carries, Unfetched, OfRead
<1>3. CASE StartThread
  <2>1. UNCHANGED <<net, unread, file, serv, tok, fetch>>
    BY <1>3, StartThreadEffect
  <2>2. ASSUME NEW u \in Tids
        PROVE  \/ th'[u] = th[u]
               \/ /\ ~Carries(u)' /\ th'[u].arr = <<>> /\ th'[u].pos = <<>>
                  /\ th'[u].key = Junk
    BY <1>3, StartThreadEffect DEF NewThread, Carries
  <2>3. Junk \notin unread /\ OfRead(<<>>)'
    BY NamesDiffer DEF Types, OfRead
  <2>4. \A u \in Tids : /\ Carries(u)' => th'[u] = th[u]
                        /\ OfRead(th[u].arr)' /\ OfRead(th[u].pos)' /\ (th[u].key \notin unread)'
    BY <2>1, <2>2, <2>3 DEF ReadOnce, OfRead
  <2> QED BY <2>1, <2>4 DEF ReadOnce, Carries, Unfetched, OfRead
<1>4. ASSUME NEW t \in Tids, CopyConInf(t) PROVE ReadOnce'
  BY <1>4, CopyConInfEffect, ReadSame DEF At, Carries, Unfetched, Same, Moves, Kept
<1>5. ASSUME NEW t \in Tids, RecvCommand(t) PROVE ReadOnce'
  <2>1. PICK c \in unread :
           /\ Holds(t, c) /\ unread' = unread \ {c}
           /\ th'[t].arr = SplitFirst(Command(c)) /\ th'[t].cmd = c
           /\ tok' = Tail(Command(c))
    BY <1>5, RecvCommandEffect
  <2>2. /\ th[t].kind = "thread" /\ th[t].pc = "recv" /\ c \in Conns
        /\ th'[t].kind = "thread" /\ th'[t].pc = "more"
        /\ \A u \in Tids \ {t} : th'[u] = th[u]
        /\ th'[t].pos = th[t].pos /\ th'[t].key = th[t].key
        /\ UNCHANGED <<net, file, serv, fetch>>
    BY <1>5, RecvCommandEffect DEF At, Moves, Same, Types
  <2>3. /\ \A e \in Conns : net'[e] # "open" => e \in unread'
        /\ \A d \in Fds, e \in Conns : file'[d] = e => net'[e] = "open"
    <3>1. net[c] = "open"
      BY <2>1, <2>2 DEF Holds, ReadOnce
    <3> QED BY <2>1, <2>2, <3>1 DEF ReadOnce
  <2>4. fetch[c] = <<>> /\ \A e \in unread' : fetch'[e] = <<>>
    BY <2>1, <2>2 DEF ReadOnce
  <2>5. OfRead(tok)' /\ OfRead(th[t].arr)'
    BY <2>1, <2>2, TextParts DEF OfRead
  <2>6. ASSUME NEW u \in Tids
        PROVE  /\ OfRead(th[u].arr)' /\ OfRead(th[u].pos)'
               /\ (th[u].key \notin unread /\ serv[u] \notin unread)'
    <3>1. OfRead(th[u].arr) /\ OfRead(th[u].pos) /\ th[u].key \notin unread /\ serv[u] \notin unread
      BY DEF ReadOnce
    <3> QED BY <2>1, <2>2, <2>5, <3>1 DEF OfRead
  <2>7. ASSUME NEW u \in Tids
        PROVE  /\ Carries(u)' => (th[u].cmd \in Conns \ unread)'
               /\ (Carries(u) /\ Unfetched(u))' => (fetch[th[u].cmd] = <<>>)'
    <3>1. CASE u = t
      BY <2>1, <2>2, <2>4, <3>1
    <3>2. CASE u # t
      BY <2>1, <2>2, <3>2 DEF ReadOnce, Carries, Unfetched
    <3> QED BY <3>1, <3>2
  <2>8. ASSUME NEW u \in Tids, NEW v \in Tids, Carries(u)', Carries(v)', th'[u].cmd = th'[v].cmd
        PROVE  u = v
    <3>1. \A w \in Tids \ {t} : Carries(w)' => Carries(w) /\ th'[w].cmd = th[w].cmd
                                              /\ th[w].cmd \notin unread
      BY <2>2 DEF Carries, ReadOnce
    <3>2. CASE u # t /\ v # t
      BY <2>8, <3>1, <3>2 DEF ReadOnce
    <3>3. CASE u = t \/ v = t
      BY <2>1, <2>8, <3>1, <3>3
    <3> QED BY <3>2, <3>3
  <2> QED BY <2>3, <2>4, <2>5, <2>6, <2>7, <2>8 DEF ReadOnce
<1>6. ASSUME NEW t \in Tids, RecvEnd(t) PROVE ReadOnce'
  BY <1>6, RecvEndEffect, ReadSame DEF At, Carries, Unfetched, Same, Moves, Kept
<1>7. ASSUME NEW t \in Tids, SplitLoad(t) PROVE ReadOnce'
  <2>1. Carries(t)' => Carries(t)
    BY <1>7, SplitLoadEffect DEF Carries, Moves
  <2>2. Unfetched(t)' => Unfetched(t)
    BY <1>7, SplitLoadEffect DEF Unfetched, Moves
  <2>3. OfRead(tok') /\ OfRead(th'[t].arr) /\ OfRead(th'[t].pos) /\ th'[t].key \notin unread
        /\ th'[t].cmd = th[t].cmd
    <3>1. /\ OfRead(tok) /\ OfRead(th[t].arr) /\ th[t].key \notin unread
      BY DEF ReadOnce
    <3> QED BY <1>7, <3>1, SplitLoadEffect DEF Same
  <2>4. Kept(file)
    BY <1>7, SplitLoadEffect DEF Kept
  <2> QED BY <1>7, <2>1, <2>2, <2>3, <2>4, SplitLoadEffect, ReadFrame
<1>8. ASSUME NEW t \in Tids, SplitStore(t) PROVE ReadOnce'
  <2>1. th[t].pos \in Seq(Tokens) /\ th[t].arr \in Seq(Tokens)
    BY TokTypes
  <2>2. OfRead(th[t].pos) /\ OfRead(th[t].arr) /\ OfRead(<<>>) /\ th[t].key \notin unread
    BY DEF ReadOnce, OfRead
  <2>3. OfRead(tok') /\ OfRead(th'[t].arr) /\ OfRead(th'[t].pos) /\ th'[t].key \notin unread
        /\ th'[t].cmd = th[t].cmd
    BY <1>8, <2>1, <2>2, SplitStoreEffect, ReadParts DEF Same
  <2>4. PICK p \in {"more", AfterSplit(t)} : Moves(t, p)
    BY <1>8, SplitStoreEffect
  <2>5. th[t].pc = "tok" /\ th'[t].kind = th[t].kind /\ th'[t].pc \in {"more", "work", "proc", "run"}
    BY <1>8, <2>4, SplitStoreEffect DEF Moves, AfterSplit
  <2>6. (Carries(t)' => Carries(t)) /\ (Unfetched(t)' => Unfetched(t))
    BY <2>5 DEF Carries, Unfetched
  <2>7. UNCHANGED <<unread, fetch, serv>> /\ Kept(file)
    BY <1>8, SplitStoreEffect DEF Kept
  <2> QED BY <2>3, <2>4, <2>6, <2>7, ReadFrame
<1>9. ASSUME NEW t \in Tids, CmdRun(t) PROVE ReadOnce'
  <2>1. UNCHANGED <<net, unread, file, tok, fetch>>
    BY <1>9, CmdRunEffect DEF listener
  <2>2. /\ At(t, "thread", "run") /\ Carries(t) /\ Unfetched(t) /\ ~Carries(t)'
        /\ th'[t].arr = <<>> /\ th'[t].pos = th[t].pos /\ th'[t].key = th[t].key
    BY <1>9, CmdRunEffect DEF At, Carries, Unfetched, Same
  <2>3. Junk \notin unread /\ OfRead(<<>>)
    BY NamesDiffer DEF Types, OfRead
  <2>4. ASSUME NEW u \in Tids
        PROVE  \/ u = t
               \/ u # t /\ th'[u] = th[u]
               \/ u # t /\ born' = u /\ ~Carries(u) /\ th'[u] = NewHcon(t)
    BY <1>9, CmdRunEffect DEF Carries
  <2>5. ASSUME NEW u \in Tids PROVE serv'[u] \notin unread
    <3> DEFINE k == IF Len(th[t].arr) > 1 THEN KeyOf(th[t].arr[2]) ELSE Junk
    <3>1. th[t].arr \in Seq(Tokens) /\ OfRead(th[t].arr)
      BY TokTypes DEF ReadOnce
    <3>2. Len(th[t].arr) > 1 => 2 \in DOMAIN th[t].arr
      BY <3>1
    <3>3. k \notin unread
      BY <2>3, <3>1, <3>2 DEF KeyOf, OfRead
    <3>4. serv' = [serv EXCEPT ![t] = k]
      BY <1>9, CmdRunEffect
    <3> HIDE DEF k
    <3> QED BY <3>3, <3>4 DEF ReadOnce, Types
  <2>6. ASSUME NEW u \in Tids
        PROVE  /\ OfRead(th[u].arr)' /\ OfRead(th[u].pos)' /\ th'[u].key \notin unread
               /\ Carries(u)' => th'[u].cmd \in Conns \ unread
               /\ (Carries(u) /\ Unfetched(u))' => fetch[th'[u].cmd] = <<>>
    <3>1. CASE u = t
      BY <2>1, <2>2, <2>3, <3>1 DEF ReadOnce, OfRead
    <3>2. CASE u # t /\ th'[u] = th[u]
      BY <2>1, <3>2 DEF ReadOnce, OfRead, Carries, Unfetched
    <3>3. CASE th'[u] = NewHcon(t)
      <4>1. th'[u].arr = <<>> /\ th'[u].pos = <<>> /\ th'[u].key = Junk /\ th'[u].cmd = th[t].cmd
        BY <3>3, NewHconFields
      <4>2. th[t].cmd \in Conns \ unread /\ fetch[th[t].cmd] = <<>>
        BY <2>2 DEF ReadOnce
      <4> QED BY <2>1, <2>3, <4>1, <4>2 DEF OfRead
    <3> QED BY <2>4, <3>1, <3>2, <3>3
  <2>7. ASSUME NEW u \in Tids, NEW v \in Tids, Carries(u)', Carries(v)', th'[u].cmd = th'[v].cmd
        PROVE  u = v
    <3>1. \A w \in Tids : Carries(w)' =>
             /\ w # t
             /\ \/ th'[w] = th[w] /\ Carries(w)
                \/ w = born' /\ th'[w].cmd = th[t].cmd
      BY <2>2, <2>4, NewHconFields DEF Carries
    <3>2. CASE th'[u] = th[u] /\ Carries(u) /\ th'[v] = th[v] /\ Carries(v)
      BY <2>7, <3>2 DEF ReadOnce
    <3>3. CASE th'[u].cmd = th[t].cmd /\ th'[v].cmd = th[v].cmd /\ Carries(v)
      BY <2>2, <2>7, <3>1, <3>3 DEF ReadOnce
    <3>4. CASE th'[v].cmd = th[t].cmd /\ th'[u].cmd = th[u].cmd /\ Carries(u)
      BY <2>2, <2>7, <3>1, <3>4 DEF ReadOnce
    <3> QED BY <2>7, <3>1, <3>2, <3>3, <3>4
  <2>8. /\ \A e \in Conns : net'[e] # "open" => e \in unread'
        /\ \A d \in Fds, e \in Conns : file'[d] = e => net'[e] = "open"
        /\ \A e \in unread' : fetch'[e] = <<>>
        /\ OfRead(tok)'
    BY <2>1 DEF ReadOnce, OfRead
  <2> QED BY <2>1, <2>5, <2>6, <2>7, <2>8 DEF ReadOnce
<1>10. ASSUME NEW t \in Tids, WildPointer(t) PROVE ReadOnce'
  BY <1>10 DEF WildPointer, listener, ReadOnce, Carries, Unfetched, OfRead
<1>11. ASSUME NEW t \in Tids, ThreadEnd(t) PROVE ReadOnce'
  <2>1. Kept(file) /\ th[t].pc # "none"
    <3>1. Close(th[t].fd) /\ th[t].pc # "none"
      BY <1>11, ThreadEndEffect DEF At
    <3> QED BY <1>0, <3>1, FileKeeps
  <2> QED BY <1>11, <2>1, ThreadEndEffect, ReadEnd
<1>12. ASSUME NEW t \in Tids, CopyFrame(t) PROVE ReadOnce'
  <2>1. th'[t].key \notin unread
    <3>1. Junk \notin unread
      BY NamesDiffer DEF Types
    <3>2. th[t].arg \in Tids /\ serv[th[t].arg] \notin unread
      BY <1>12, CopyFrameEffect DEF ReadOnce
    <3> QED BY <1>12, <3>1, <3>2, CopyFrameEffect
  <2>2. OfRead(tok') /\ OfRead(th'[t].arr) /\ OfRead(th'[t].pos) /\ th'[t].cmd = th[t].cmd
    BY <1>12, CopyFrameEffect DEF Same, ReadOnce
  <2>3. (Carries(t)' => Carries(t)) /\ (Unfetched(t)' => Unfetched(t))
    <3>1. At(t, "hcon", "frame") /\ Moves(t, "get")
      BY <1>12, CopyFrameEffect
    <3> QED BY <3>1 DEF At, Moves, Carries, Unfetched
  <2>4. Kept(file)
    BY <1>12, CopyFrameEffect DEF Kept
  <2> QED BY <1>12, <2>1, <2>2, <2>3, <2>4, CopyFrameEffect, ReadFrame
<1>13. ASSUME NEW t \in Tids, HttpGet(t) PROVE ReadOnce'
  <2>1. /\ th[t].kind = "hcon" /\ th[t].pc = "get" /\ th'[t].kind = "hcon" /\ th'[t].pc = "head"
        /\ \A u \in Tids \ {t} : th'[u] = th[u]
        /\ th'[t].pos = th[t].pos /\ th'[t].arr = th[t].arr /\ th'[t].key = th[t].key
        /\ th'[t].cmd = th[t].cmd
        /\ UNCHANGED <<net, unread, serv, tok>>
    BY <1>13, HttpGetEffect DEF At, Moves, Same
  <2>2. Kept(file)
    <3>1. th'[t].fd \in Fds /\ file' = [file EXCEPT ![th'[t].fd] = t]
      BY <1>13, HttpGetEffect
    <3> QED BY <1>0, <3>1, FileKeeps
  <2>3. th[t].cmd \in Conns \ unread /\ Carries(t) /\ Unfetched(t)
    BY <2>1 DEF ReadOnce, Carries, Unfetched
  <2>4. \A c \in Conns \ {th[t].cmd} : fetch'[c] = fetch[c]
    <3>1. \/ fetch' = fetch
          \/ fetch' = [fetch EXCEPT ![th[t].cmd] = Append(fetch[th[t].cmd], th[t].key)]
      BY <1>13, HttpGetEffect
    <3>2. fetch \in [Conns -> Seq(Conns)]
      BY DEF Types
    <3> QED BY <3>1, <3>2
  <2>5. /\ \A e \in Conns : net'[e] # "open" => e \in unread'
        /\ \A d \in Fds, e \in Conns : file'[d] = e => net'[e] = "open"
        /\ \A e \in unread' : fetch'[e] = <<>>
        /\ OfRead(tok)'
    BY <2>1, <2>2, <2>3, <2>4 DEF ReadOnce, OfRead, Kept, Types
  <2>6. ASSUME NEW u \in Tids
        PROVE  /\ OfRead(th[u].arr)' /\ OfRead(th[u].pos)' /\ th'[u].key \notin unread
               /\ serv'[u] \notin unread
               /\ th'[u].cmd = th[u].cmd
               /\ Carries(u)' => Carries(u)
               /\ Unfetched(u)' => Unfetched(u) /\ u # t
    BY <2>1 DEF ReadOnce, OfRead, Carries, Unfetched
  <2>7. ASSUME NEW u \in Tids, Carries(u)', Unfetched(u)' PROVE fetch'[th'[u].cmd] = <<>>
    <3>1. Carries(u) /\ Unfetched(u) /\ u # t /\ th'[u].cmd = th[u].cmd
      BY <2>6, <2>7
    <3>2. th[u].cmd # th[t].cmd /\ fetch[th[u].cmd] = <<>> /\ th[u].cmd \in Conns
      BY <2>3, <3>1 DEF ReadOnce
    <3> QED BY <2>4, <3>1, <3>2
  <2>8. \A u \in Tids : Carries(u)' => th'[u].cmd \in Conns \ unread
    BY <2>6 DEF ReadOnce
  <2>9. \A u, v \in Tids : (Carries(u) /\ Carries(v))' /\ th'[u].cmd = th'[v].cmd => u = v
    BY <2>6 DEF ReadOnce
  <2> QED BY <2>1, <2>5, <2>6, <2>7, <2>8, <2>9 DEF ReadOnce
<1>14. ASSUME NEW t \in Tids, HttpGetFails(t) PROVE ReadOnce'
  <2>1. Kept(file) /\ th[t].pc # "none"
    <3>1. th[t].pc # "none" /\ (file' = file \/ \E d \in Fds : file' = [file EXCEPT ![d] = Leaked])
      BY <1>14, HttpGetFailsEffect DEF At
    <3> QED BY <1>0, <3>1, FileKeeps
  <2> QED BY <1>14, <2>1, HttpGetFailsEffect, ReadEnd
\* The split of a text of a received command begins.
<1>15. ASSUME NEW t \in Tids, NEW c \in Conns \ unread, NEW text \in {VeFile(c), Refusal(c), VeProc(c)},
              th'[t].arr = SplitFirst(text), tok' = Tail(text), Moves(t, "more"),
              Same(t, {"fd", "pos", "key", "cmd"}), UNCHANGED <<unread, file, serv, reused, up, fetch>>,
              th[t].kind = "hcon", ~Unfetched(t)
       PROVE  ReadOnce'
  <2>2. OfRead(tok') /\ OfRead(th'[t].arr) /\ OfRead(th'[t].pos) /\ th'[t].key \notin unread
        /\ th'[t].cmd = th[t].cmd
    <3>1. th'[t].key \notin unread /\ th'[t].cmd = th[t].cmd /\ OfRead(th'[t].pos)
      BY <1>15 DEF Same, ReadOnce
    <3>2. OfRead(Tail(text)) /\ OfRead(SplitFirst(text))
      BY <1>15, TextParts DEF OfRead
    <3> QED BY <1>15, <3>1, <3>2
  <2>3. (Carries(t)' => Carries(t)) /\ (Unfetched(t)' => Unfetched(t))
    BY <1>15 DEF Moves, Carries, Unfetched
  <2>4. Kept(file)
    BY <1>15 DEF Kept
  <2> QED BY <1>15, <2>2, <2>3, <2>4, ReadFrame
<1>25. ASSUME NEW t \in Tids, GetHeader(t) PROVE ReadOnce'
  <2>1. PICK text \in Answers(t) : th'[t].arr = SplitFirst(text) /\ tok' = Tail(text)
    BY <1>25, GetHeaderEffect
  <2>2. \E c \in Conns \ unread : text \in {VeFile(c), Refusal(c), VeProc(c)}
    <3>1. th[t].cmd \in Conns \ unread /\ th[t].key \notin unread
      BY <1>25, GetHeaderEffect DEF ReadOnce
    <3> QED BY <3>1 DEF Answers
  <2>3. th[t].kind = "hcon" /\ ~Unfetched(t)
    BY <1>25, GetHeaderEffect DEF At, Unfetched
  <2> QED BY <1>15, <1>25, <2>1, <2>2, <2>3, GetHeaderEffect
<1>22. ASSUME NEW t \in Tids, GetProc(t) PROVE ReadOnce'
  <2>1. th[t].kind = "hcon" /\ ~Unfetched(t) /\ th[t].cmd \in Conns \ unread
    BY <1>22, GetProcEffect DEF At, Unfetched
  <2> QED BY <1>15, <1>22, <2>1, GetProcEffect
<1>16. ASSUME NEW t \in Tids, GetHeaderFails(t) PROVE ReadOnce'
  <2>1. Kept(file) /\ th[t].pc # "none"
    <3>1. Close(th[t].fd) /\ th[t].pc # "none"
      BY <1>16, GetHeaderFailsEffect DEF At
    <3> QED BY <1>0, <3>1, FileKeeps
  <2> QED BY <1>16, <2>1, GetHeaderFailsEffect, ReadEnd
<1>23. ASSUME NEW t \in Tids, Report(t) PROVE ReadOnce'
  <2>1. Kept(file)
    <3>1. \E d \in Fds : file' = [file EXCEPT ![d] = t] \/ file' = [file EXCEPT ![d] = Leaked]
      BY <1>23, ReportEffect
    <3> QED BY <1>0, <3>1, FileKeeps
  <2>2. PICK p \in {"work", "post"} : Moves(t, p)
    BY <1>23, ReportEffect
  <2>3. (Carries(t)' => Carries(t)) /\ (Unfetched(t)' => Unfetched(t))
    BY <1>23, <2>2, ReportEffect DEF At, Carries, Unfetched, Moves
  <2>4. Same(t, {"pos", "arr", "key", "cmd"})
    BY <1>23, ReportEffect DEF Same
  <2> QED BY <1>23, <2>1, <2>2, <2>3, <2>4, ReportEffect, ReadSame
<1>24. ASSUME NEW t \in Tids, Posted(t) PROVE ReadOnce'
  <2>1. Kept(file)
    <3>1. Close(th[t].rep)
      BY <1>24, PostedEffect
    <3> QED BY <1>0, <3>1, FileKeeps
  <2>2. (Carries(t)' => Carries(t)) /\ (Unfetched(t)' => Unfetched(t))
    BY <1>24, PostedEffect DEF At, Carries, Unfetched, Moves
  <2>3. Same(t, {"pos", "arr", "key", "cmd"})
    BY <1>24, PostedEffect DEF Same
  <2> QED BY <1>24, <2>1, <2>2, <2>3, PostedEffect, ReadSame
<1>17. ASSUME NEW t \in Tids, WorkEnd(t) PROVE ReadOnce'
  <2>1. Kept(file) /\ th[t].pc # "none"
    <3>1. Close(th[t].fd) /\ th[t].pc # "none"
      BY <1>17, WorkEndEffect DEF At
    <3> QED BY <1>0, <3>1, FileKeeps
  <2> QED BY <1>17, <2>1, WorkEndEffect, ReadEnd
<1>18. CASE UNCHANGED vars
  BY <1>18 DEF vars, ReadOnce, Carries, Unfetched, OfRead
<1> QED BY <1>1, <1>2, <1>3, <1>4, <1>5, <1>6, <1>7, <1>8, <1>9, <1>10, <1>11, <1>12,
           <1>13, <1>14, <1>16, <1>17, <1>18, <1>21, <1>22, <1>23, <1>24, <1>25
        DEF Next, HwListen, Step, Thread, Split, Hcon

----------------------------------------------------------------------------
(* When the commands come one at a time: the steps that only move thread t *)
(* on, and touch no descriptor but its own and free ones.                  *)

OwnFile(t) == \A d \in Fds : \/ file'[d] = file[d]
                             \/ file[d] \in {Free, t} /\ file'[d] \in {Free, Leaked, t}

Quiet(t, p) ==
    /\ Moves(t, p) /\ ~Resting(t) /\ UNCHANGED unread /\ th'[t].cmd = th[t].cmd
    /\ \/ /\ th[t].kind = "thread" /\ th'[t].fd = th[t].fd /\ UNCHANGED file
          /\ \/ th[t].pc = "recv" /\ p = "sleep" /\ \A c \in unread : ~Holds(t, c)
             \/ th[t].pc \in {"more", "tok", "run"} /\ p \in {"more", "tok", "run"}
       \/ /\ th[t].kind = "hcon" /\ OwnFile(t)
          /\ Fetching(t)' => th'[t].fd \in Fds /\ file'[th'[t].fd] = t
          /\ Posting(t)' => /\ th'[t].rep \in Fds /\ file'[th'[t].rep] = t
                            /\ th'[t].rep # th'[t].fd
          /\ \A d \in Fds : file'[d] = t => \/ Fetching(t)' /\ th'[t].fd = d
                                            \/ Posting(t)' /\ th'[t].rep = d

\* A quiet step leaves the descriptors of connections and of other threads.
LEMMA QuietFile ==
    ASSUME Types, NEW t \in Tids, NEW p, Quiet(t, p), NEW d \in Fds
    PROVE  /\ file'[d] \in Conns \cup {Stdin, Awaited} <=> file[d] \in Conns \cup {Stdin, Awaited}
           /\ file[d] \in Conns \cup {Stdin, Awaited} => file'[d] = file[d]
           /\ \A u \in Tids \ {t} : file'[d] = u <=> file[d] = u
  BY NamesDiffer DEF Quiet, OwnFile

\* A quiet step leaves the other threads.
LEMMA QuietOthers ==
    ASSUME NEW t \in Tids, NEW p, Quiet(t, p), NEW u \in Tids, u # t
    PROVE  /\ th'[u] = th[u]
           /\ Serving(u)' <=> Serving(u)
           /\ Fetching(u)' <=> Fetching(u)
           /\ Posting(u)' <=> Posting(u)
           /\ Carries(u)' <=> Carries(u)
           /\ Resting(u)' <=> Resting(u)
           /\ \A k, p2 : At(u, k, p2)' <=> At(u, k, p2)
  BY DEF Quiet, Moves, Serving, Fetching, Posting, Carries, Resting, At

\* A quiet step keeps its own thread's claims.
LEMMA QuietSelf ==
    ASSUME NEW t \in Tids, NEW p, Quiet(t, p)
    PROVE  /\ th'[t].kind = th[t].kind /\ th'[t].cmd = th[t].cmd
           /\ Serving(t)' <=> Serving(t)
           /\ Carries(t)' <=> Carries(t)
           /\ Serving(t) => th'[t].fd = th[t].fd
           /\ ~At(t, "thread", "copy") /\ ~At(t, "thread", "copy")'
           /\ ~Resting(t)
           /\ At(t, "thread", "recv") => \A c \in unread : ~Holds(t, c)
           /\ th'[t].kind = "thread" /\ th'[t].pc \in {"more", "tok", "run"} =>
                 th[t].kind = "thread" /\ th[t].pc \in {"more", "tok", "run"}
  BY DEF Quiet, Moves, Serving, Carries, Resting, At

\* A quiet step starts no second thread.
LEMMA QuietOne ==
    ASSUME Types, OneAtATime, NEW t \in Tids, NEW p, Quiet(t, p)
    PROVE  OneAtATime'
<1>0. UNCHANGED <<net, lpc, unread>>
  BY DEF Quiet, Moves
<1>1. ~AllRest
  BY QuietSelf DEF AllRest
<1>2. (\A c \in Conns : net[c] # "queued") /\ lpc # "create"
  BY <1>1 DEF OneAtATime
<1>3. \A u \in Tids : ~Resting(u)' => ~Resting(u) /\ th'[u].kind = th[u].kind
  BY QuietSelf, QuietOthers
<1>4. ASSUME NEW u \in Tids, NEW h \in Tids, th'[h].kind = "hcon", th'[u].kind = "thread",
             ~Resting(h)', ~Resting(u)'
      PROVE  th'[u].pc = "recv" /\ \A c \in unread : ~Holds(u, c)'
  <2>1. th[u].pc = "recv" /\ \A c \in unread : ~Holds(u, c)
    BY <1>3, <1>4 DEF OneAtATime
  <2>2. u # t
    BY <1>4, <2>1 DEF Quiet, Moves, Resting
  <2>3. th'[u] = th[u]
    BY <2>2, QuietOthers
  <2>4. \A c \in unread : ~Holds(u, c)'
    BY <2>1, <2>3, QuietFile DEF Holds, Types
  <2> QED BY <2>1, <2>3, <2>4
<1>5. \A u, v \in Tids : th'[u].kind = th'[v].kind /\ ~Resting(u)' /\ ~Resting(v)' => u = v
  BY <1>3 DEF OneAtATime
<1> QED BY <1>0, <1>2, <1>4, <1>5 DEF OneAtATime

\* A quiet step keeps the owners of descriptors.
LEMMA QuietDescriptors ==
    ASSUME Types, OwnDescriptors, NEW t \in Tids, NEW p, Quiet(t, p)
    PROVE  OwnDescriptors'
<1>0. UNCHANGED <<lpc, lret, conInf, unread>> /\ unread \subseteq Conns
  BY DEF Quiet, Moves, Types
<1>1. \A u \in Tids : Serving(u)' => Serving(u) /\ th'[u].fd = th[u].fd
  BY QuietSelf, QuietOthers
<1>2. \A d : Fresh(d) => Fresh(d)'
  BY <1>0, <1>1, QuietFile DEF Fresh
<1>3. \A u \in Tids : At(u, "thread", "copy")' => At(u, "thread", "copy")
  BY QuietSelf, QuietOthers
<1>4. ASSUME NEW u \in Tids, th'[u].kind = "thread", th'[u].pc \in {"more", "tok", "run"}
      PROVE  file'[th'[u].fd] \notin unread
  <2>1. th[u].kind = "thread" /\ th[u].pc \in {"more", "tok", "run"}
    BY <1>4, QuietSelf, QuietOthers
  <2>2. Serving(u)' /\ Serving(u)
    BY <1>4, <2>1 DEF Serving
  <2>3. /\ th'[u].fd = th[u].fd /\ th[u].fd \in Fds /\ file[th[u].fd] \notin unread
        /\ file[th[u].fd] \in Conns
    BY <1>1, <2>1, <2>2 DEF OwnDescriptors
  <2> QED BY <2>3, QuietFile
<1>5. ASSUME NEW u \in Tids, Fetching(u)' PROVE th'[u].fd \in Fds /\ file'[th'[u].fd] = u
  <2>1. CASE u = t
    BY <1>5, <2>1 DEF Quiet, Moves, Fetching
  <2>2. CASE u # t
    <3>1. th'[u] = th[u] /\ Fetching(u)
      BY <1>5, <2>2, QuietOthers
    <3> QED BY <2>2, <3>1, QuietFile DEF OwnDescriptors
  <2> QED BY <2>1, <2>2
<1>10. ASSUME NEW u \in Tids, Posting(u)'
       PROVE  th'[u].rep \in Fds /\ file'[th'[u].rep] = u /\ th'[u].rep # th'[u].fd
  <2>1. CASE u = t
    BY <1>10, <2>1 DEF Quiet, Moves, Posting
  <2>2. CASE u # t
    <3>1. th'[u] = th[u] /\ Posting(u)
      BY <1>10, <2>2, QuietOthers
    <3> QED BY <2>2, <3>1, QuietFile DEF OwnDescriptors
  <2> QED BY <2>1, <2>2
<1>11. lpc = "wait" => lret \in Fds /\ file'[lret] = Awaited
  BY QuietFile DEF OwnDescriptors
<1>6. \A d \in Fds : file'[d] = Stdin <=> d = 0
  <2>1. \A d \in Fds : file'[d] = Stdin <=> file[d] = Stdin
    BY QuietFile, NamesDiffer DEF Quiet, OwnFile
  <2> QED BY <2>1 DEF OwnDescriptors
<1>7. \A u \in Tids : Serving(u)' => th'[u].fd \in Fds /\ file'[th'[u].fd] \in Conns
  BY <1>1, QuietFile DEF OwnDescriptors
<1>8. \A u, v \in Tids : Serving(u)' /\ Serving(v)' /\ th'[u].fd = th'[v].fd => u = v
  BY <1>1 DEF OwnDescriptors
<1>9. /\ lpc' = "create" => Fresh(lret)'
      /\ \A u \in Tids : At(u, "thread", "copy")' => Fresh(conInf)'
  BY <1>0, <1>2, <1>3 DEF OwnDescriptors, Fresh
<1> QED BY <1>0, <1>4, <1>5, <1>6, <1>7, <1>8, <1>9, <1>10, <1>11 DEF OwnDescriptors

\* A quiet step leaves no descriptor without an owner.
LEMMA QuietOwned ==
    ASSUME Types, Owned, NEW t \in Tids, NEW p, Quiet(t, p)
    PROVE  Owned'
<1>0. UNCHANGED <<lpc, lret, conInf, denied>>
  BY DEF Quiet, Moves
<1>1. \A u \in Tids : Serving(u) => Serving(u)' /\ th'[u].fd = th[u].fd
  BY QuietSelf, QuietOthers
<1>2. \A u \in Tids : At(u, "thread", "copy") => At(u, "thread", "copy")'
  BY QuietSelf, QuietOthers
<1>3. ASSUME NEW d \in Fds, file'[d] \in Conns
      PROVE  \/ denied
             \/ lpc = "create" /\ lret = d
             \/ \E u \in Tids : At(u, "thread", "copy")' /\ conInf = d
             \/ \E u \in Tids : Serving(u)' /\ th'[u].fd = d
  <2>1. file[d] \in Conns
    BY <1>3, NamesDiffer DEF Quiet, OwnFile
  <2> QED BY <1>1, <1>2, <2>1 DEF Owned
<1>4. ASSUME NEW d \in Fds, NEW u \in Tids, file'[d] = u
      PROVE  \/ Fetching(u)' /\ th'[u].fd = d
             \/ Posting(u)' /\ th'[u].rep = d
  <2>1. CASE u # t
    <3>1. /\ file[d] = u /\ th'[u] = th[u]
          /\ (Fetching(u) => Fetching(u)') /\ (Posting(u) => Posting(u)')
      BY <1>4, <2>1, QuietFile, QuietOthers
    <3> QED BY <3>1 DEF Owned
  <2>2. CASE u = t /\ th[t].kind = "hcon"
    BY <1>4, <2>2 DEF Quiet
  <2>3. CASE u = t /\ th[t].kind = "thread"
    BY <1>4, <2>3 DEF Quiet, Owned, Fetching, Posting
  <2> QED BY <2>1, <2>2, <2>3 DEF Quiet
<1> QED BY <1>0, <1>3, <1>4 DEF Owned

\* A quiet step leaves no command without a thread.
LEMMA QuietAttended ==
    ASSUME Types, Attended, NEW t \in Tids, NEW p, Quiet(t, p)
    PROVE  Attended'
<1>0. UNCHANGED <<lpc, lret, conInf, denied, net, unread>> /\ unread \subseteq Conns
  BY DEF Quiet, Moves, Types
<1>1. \A u \in Tids : Carries(u) => Carries(u)' /\ th'[u].cmd = th[u].cmd
  BY QuietSelf, QuietOthers
<1>2. \A u \in Tids : At(u, "thread", "copy") => At(u, "thread", "copy")'
  BY QuietSelf, QuietOthers
<1>3. \A d \in Fds, c \in Conns : file[d] = c => file'[d] = c
  BY QuietFile
<1>4. ASSUME NEW u \in Tids, NEW c \in unread, At(u, "thread", "recv"), Holds(u, c)
      PROVE  At(u, "thread", "recv")' /\ Holds(u, c)'
  <2>1. u # t
    BY <1>4, QuietSelf
  <2> QED BY <1>0, <1>3, <1>4, <2>1, QuietOthers DEF Holds
<1> SUFFICES ASSUME NEW c \in Conns, net[c] = "open"
             PROVE  \/ denied
                    \/ \E u \in Tids : Carries(u)' /\ th'[u].cmd = c
                    \/ c \in unread /\ lpc = "create" /\ lret \in Fds /\ file'[lret] = c
                    \/ c \in unread /\ \E u \in Tids :
                          \/ At(u, "thread", "copy")' /\ conInf \in Fds /\ file'[conInf] = c
                          \/ At(u, "thread", "recv")' /\ Holds(u, c)'
  BY <1>0 DEF Attended
<1> QED BY <1>1, <1>2, <1>3, <1>4 DEF Attended

\* Steps that touch no descriptor but the thread's own and free ones.
LEMMA OwnFileFacts ==
    ASSUME Types, NEW t \in Tids
    PROVE  /\ UNCHANGED file => OwnFile(t)
           /\ \A d \in Fds : /\ LowestFree(d) /\ file' = [file EXCEPT ![d] = t] => OwnFile(t)
                             /\ LowestFree(d) /\ file' = [file EXCEPT ![d] = Leaked] => OwnFile(t)
           /\ \A d \in Fds : file[d] = t /\ Close(d) =>
                 /\ OwnFile(t) /\ file'[d] = Free
                 /\ \A e \in Fds : e # d => file'[e] = file[e]
  BY NamesDiffer DEF OwnFile, LowestFree, FreeFds, Close, Types

\* The steps that are quiet.
LEMMA QuietSteps ==
    ASSUME Types, ReadOnce, OneAtATime, OwnDescriptors, Owned, NEW t \in Tids,
           \/ RecvEnd(t) \/ SplitLoad(t) \/ SplitStore(t) \/ (CopyFrame(t) /\ Born)
           \/ HttpGet(t) \/ HttpGetFails(t) \/ GetHeader(t) \/ GetHeaderFails(t)
           \/ GetProc(t) \/ Report(t) \/ Posted(t) \/ WorkEnd(t)
    PROVE  \E p : Quiet(t, p)
<1>0. /\ Fetching(t) => th[t].fd \in Fds /\ file[th[t].fd] = t
      /\ Posting(t) => th[t].rep \in Fds /\ file[th[t].rep] = t /\ th[t].rep # th[t].fd
      /\ \A d \in Fds : file[d] = t => \/ Fetching(t) /\ th[t].fd = d
                                       \/ Posting(t) /\ th[t].rep = d
  BY DEF OwnDescriptors, Owned
<1>k. th[t].kind \in {"thread", "hcon"}
  BY DEF Types, Records
<1>t. t # Free /\ t # Leaked
  BY NamesDiffer
<1>1. CASE RecvEnd(t)
  <2>1. Quiet(t, "sleep")
    BY <1>1, RecvEndEffect DEF Quiet, Same, At, Moves, Resting
  <2> QED BY <2>1
\* A step on the way from the header to the reports that touches no descriptor.
<1>s. ASSUME NEW p, Moves(t, p), th[t].pc \in {"head", "more", "tok", "proc"},
             th[t].kind = "thread" => p \in {"more", "tok", "run"} /\ th[t].pc \in {"more", "tok"},
             th[t].kind = "hcon" => p \in {"more", "tok", "proc", "work"},
             th'[t].fd = th[t].fd, th'[t].cmd = th[t].cmd, UNCHANGED <<unread, file>>
      PROVE  Quiet(t, p)
  <2>1. th'[t].kind = th[t].kind /\ th'[t].pc = p /\ ~Resting(t)
    BY <1>s DEF Moves, Resting
  <2>2. CASE th[t].kind = "thread"
    BY <1>s, <2>1, <2>2 DEF Quiet
  <2>3. CASE th[t].kind = "hcon"
    <3>1. Fetching(t) /\ Fetching(t)' /\ ~Posting(t) /\ ~Posting(t)'
      BY <1>s, <2>1, <2>3 DEF Fetching, Posting
    <3> QED BY <1>0, <1>s, <2>1, <2>3, <3>1, OwnFileFacts DEF Quiet
  <2> QED BY <1>k, <2>2, <2>3
<1>2. CASE SplitLoad(t)
  <2>1. /\ th[t].pc = "more" /\ Moves(t, "tok") /\ th'[t].fd = th[t].fd /\ th'[t].cmd = th[t].cmd
        /\ UNCHANGED <<unread, file>>
    BY <1>2, SplitLoadEffect DEF Same
  <2> QED BY <1>s, <2>1
<1>3. CASE SplitStore(t)
  <2>1. /\ th[t].pc = "tok" /\ th'[t].fd = th[t].fd /\ th'[t].cmd = th[t].cmd
        /\ UNCHANGED <<unread, file>>
    BY <1>3, SplitStoreEffect DEF Same
  <2>2. PICK p \in {"more", AfterSplit(t)} : Moves(t, p)
    BY <1>3, SplitStoreEffect
  <2>3. /\ th[t].kind = "thread" => p \in {"more", "run"}
        /\ th[t].kind = "hcon" => p \in {"more", "proc", "work"}
    BY <2>2 DEF AfterSplit
  <2> QED BY <1>s, <2>1, <2>2, <2>3
<1>4. CASE CopyFrame(t) /\ Born
  <2>1. /\ At(t, "hcon", "frame") /\ Moves(t, "get") /\ th'[t].cmd = th[t].cmd
        /\ UNCHANGED <<unread, file>>
    BY <1>4, CopyFrameEffect DEF Same
  <2>2. Quiet(t, "get")
    BY <1>0, <2>1, OwnFileFacts DEF Quiet, Moves, Resting, Fetching, Posting, At
  <2> QED BY <2>2
<1>5. CASE HttpGet(t)
  <2>1. /\ At(t, "hcon", "get") /\ Moves(t, "head") /\ th'[t].cmd = th[t].cmd
        /\ th'[t].fd \in Fds /\ LowestFree(th'[t].fd) /\ file' = [file EXCEPT ![th'[t].fd] = t]
        /\ UNCHANGED unread
    BY <1>5, HttpGetEffect DEF Same
  <2>2. Fetching(t)' /\ ~Fetching(t) /\ ~Posting(t) /\ ~Posting(t)'
    BY <2>1 DEF Fetching, Posting, At, Moves
  <2>3. /\ file'[th'[t].fd] = t
        /\ \A d \in Fds : file'[d] = t => th'[t].fd = d
    BY <1>0, <2>1, <2>2 DEF Types
  <2>4. Quiet(t, "head")
    BY <2>1, <2>2, <2>3, OwnFileFacts DEF Quiet, Moves, Resting, At
  <2> QED BY <2>4
<1>6. CASE HttpGetFails(t)
  <2>1. /\ At(t, "hcon", "get") /\ Moves(t, "end") /\ th'[t].cmd = th[t].cmd
        /\ UNCHANGED file \/ \E d \in Fds : LowestFree(d) /\ file' = [file EXCEPT ![d] = Leaked]
        /\ UNCHANGED unread
    BY <1>6, HttpGetFailsEffect DEF Same
  <2>2. ~Fetching(t)' /\ ~Fetching(t) /\ ~Posting(t) /\ ~Posting(t)'
    BY <2>1 DEF Fetching, Posting, At, Moves
  <2>3. \A d \in Fds : file'[d] # t
    BY <1>0, <1>t, <2>1, <2>2 DEF Types
  <2>4. Quiet(t, "end")
    BY <2>1, <2>2, <2>3, OwnFileFacts DEF Quiet, Moves, Resting, At
  <2> QED BY <2>4
<1>7. CASE GetHeader(t) \/ GetProc(t)
  <2>1. /\ th[t].kind = "hcon" /\ th[t].pc \in {"head", "proc"} /\ Moves(t, "more")
        /\ th'[t].fd = th[t].fd /\ th'[t].cmd = th[t].cmd /\ UNCHANGED <<unread, file>>
    BY <1>7, GetHeaderEffect, GetProcEffect DEF Same, At
  <2> QED BY <1>s, <2>1
<1>8. CASE GetHeaderFails(t) \/ WorkEnd(t)
  <2>1. /\ th[t].kind = "hcon" /\ th[t].pc \in {"head", "work"} /\ Moves(t, "end")
        /\ th'[t].cmd = th[t].cmd /\ UNCHANGED unread /\ Close(th[t].fd)
    BY <1>8, GetHeaderFailsEffect, WorkEndEffect DEF Same, At
  <2>2. Fetching(t) /\ ~Fetching(t)' /\ ~Posting(t) /\ ~Posting(t)'
    BY <2>1 DEF Fetching, Posting, Moves
  <2>3. OwnFile(t) /\ \A d \in Fds : file'[d] # t
    BY <1>0, <1>t, <2>1, <2>2, OwnFileFacts
  <2>4. Quiet(t, "end")
    BY <2>1, <2>2, <2>3 DEF Quiet, Moves, Resting
  <2> QED BY <2>4
<1>9. CASE Report(t)
  <2>1. /\ th[t].kind = "hcon" /\ th[t].pc = "work" /\ UNCHANGED unread
        /\ th'[t].fd = th[t].fd /\ th'[t].cmd = th[t].cmd
        /\ \/ /\ Moves(t, "post") /\ th'[t].rep \in Fds /\ LowestFree(th'[t].rep)
              /\ file' = [file EXCEPT ![th'[t].rep] = t]
           \/ /\ Moves(t, "work")
              /\ \E d \in Fds : LowestFree(d) /\ file' = [file EXCEPT ![d] = Leaked]
    BY <1>9, ReportEffect DEF Same, At
  <2>2. Fetching(t) /\ ~Posting(t) /\ ~Resting(t)
    BY <2>1 DEF Fetching, Posting, Resting
  <2>3. \A d \in Fds : LowestFree(d) => file[d] # t /\ d # th[t].fd
    BY <1>0, <1>t, <2>2 DEF LowestFree, FreeFds
  <2>4. CASE /\ Moves(t, "post") /\ th'[t].rep \in Fds /\ LowestFree(th'[t].rep)
             /\ file' = [file EXCEPT ![th'[t].rep] = t]
    <3>1. Fetching(t)' /\ Posting(t)' /\ th'[t].kind = "hcon"
      BY <2>1, <2>4 DEF Fetching, Posting, Moves
    <3>2. /\ file'[th'[t].rep] = t
          /\ \A d \in Fds : d # th'[t].rep => file'[d] = file[d]
      BY <2>4 DEF Types
    <3>3. Quiet(t, "post")
      BY <1>0, <2>1, <2>2, <2>3, <2>4, <3>1, <3>2, OwnFileFacts DEF Quiet
    <3> QED BY <3>3
  <2>5. CASE /\ Moves(t, "work")
             /\ \E d \in Fds : LowestFree(d) /\ file' = [file EXCEPT ![d] = Leaked]
    <3>1. Fetching(t)' /\ ~Posting(t)' /\ th'[t].kind = "hcon"
      BY <2>1, <2>5 DEF Fetching, Posting, Moves
    <3>2. PICK d \in Fds : LowestFree(d) /\ file' = [file EXCEPT ![d] = Leaked]
      BY <2>5
    <3>3. file'[d] = Leaked /\ \A e \in Fds : e # d => file'[e] = file[e]
      BY <3>2 DEF Types
    <3>4. Quiet(t, "work")
      BY <1>0, <1>t, <2>1, <2>2, <2>3, <2>5, <3>1, <3>2, <3>3, OwnFileFacts DEF Quiet
    <3> QED BY <3>4
  <2> QED BY <2>1, <2>4, <2>5
<1>10. CASE Posted(t)
  <2>1. /\ th[t].kind = "hcon" /\ th[t].pc = "post" /\ Moves(t, "work") /\ Close(th[t].rep)
        /\ th'[t].fd = th[t].fd /\ th'[t].cmd = th[t].cmd /\ UNCHANGED unread
    BY <1>10, PostedEffect DEF Same, At
  <2>2. /\ Fetching(t) /\ Posting(t) /\ Fetching(t)' /\ ~Posting(t)' /\ ~Resting(t)
        /\ th'[t].kind = "hcon"
    BY <2>1 DEF Fetching, Posting, Resting, Moves
  <2>3. /\ OwnFile(t) /\ file'[th[t].rep] = Free
        /\ \A e \in Fds : e # th[t].rep => file'[e] = file[e]
    BY <1>0, <2>1, <2>2, OwnFileFacts
  <2>4. Quiet(t, "work")
    BY <1>0, <1>t, <2>1, <2>2, <2>3 DEF Quiet
  <2> QED BY <2>4
<1> QED BY <1>1, <1>2, <1>3, <1>4, <1>5, <1>6, <1>7, <1>8, <1>9, <1>10

----------------------------------------------------------------------------
(* Splitting a text to the end.                                            *)

\* What the first call of strtok makes of a text.
LEMMA PartFirst ==
    ASSUME NEW text \in Seq(Tokens), text # <<>>
    PROVE  PartOf(text, SplitFirst(text), Tail(text))
<1>1. Len(text) \in Nat /\ 1 \in 1 .. Len(text)
  OBVIOUS
<1>2. /\ Len(SplitFirst(text)) = 1 /\ Len(Tail(text)) = Len(text) - 1
      /\ \A i \in 1 .. 1 : SplitFirst(text)[i] = text[i]
      /\ \A i \in 1 .. Len(text) - 1 : Tail(text)[i] = text[1 + i]
  BY FirstFacts
<1> QED BY <1>1, <1>2 DEF PartOf

\* What the next one makes.
LEMMA PartNext ==
    ASSUME NEW text \in Seq(Tokens), NEW done \in Seq(Tokens), NEW rest \in Seq(Tokens),
           PartOf(text, done, rest), rest # <<>>
    PROVE  PartOf(text, Append(done, Head(rest)), Tail(rest))
<1>1. PICK n \in 1 .. Len(text) : /\ Len(done) = n /\ Len(rest) = Len(text) - n
                                  /\ \A i \in 1 .. n : done[i] = text[i]
                                  /\ \A i \in 1 .. Len(text) - n : rest[i] = text[n + i]
  BY DEF PartOf
<1>2. /\ Len(text) \in Nat /\ Len(rest) \in Nat /\ Len(rest) >= 1
      /\ n + 1 \in 1 .. Len(text) /\ 1 \in 1 .. Len(text) - n
  BY <1>1
<1>3. /\ Head(rest) = rest[1] /\ rest[1] \in Tokens /\ Len(Tail(rest)) = Len(rest) - 1
      /\ \A i \in 1 .. Len(rest) - 1 : Tail(rest)[i] = rest[i + 1]
  BY FirstFacts
<1>4. /\ Len(Append(done, rest[1])) = n + 1 /\ Append(done, rest[1])[n + 1] = rest[1]
      /\ \A i \in 1 .. n : Append(done, rest[1])[i] = done[i]
  BY <1>1, <1>3, AppendFacts
<1>5. rest[1] = text[n + 1]
  BY <1>1, <1>2
<1>6. \A i \in 1 .. n + 1 : Append(done, rest[1])[i] = text[i]
  <2> SUFFICES ASSUME NEW i \in 1 .. n + 1 PROVE Append(done, rest[1])[i] = text[i]
    OBVIOUS
  <2>1. CASE i \in 1 .. n
    BY <1>1, <1>4, <2>1
  <2>2. CASE i = n + 1
    BY <1>4, <1>5, <2>2
  <2> QED BY <1>1, <2>1, <2>2
<1>7. \A i \in 1 .. Len(text) - (n + 1) : Tail(rest)[i] = text[n + 1 + i]
  <2> SUFFICES ASSUME NEW i \in 1 .. Len(text) - (n + 1) PROVE Tail(rest)[i] = text[n + 1 + i]
    OBVIOUS
  <2>1. i + 1 \in 1 .. Len(text) - n /\ i \in 1 .. Len(rest) - 1 /\ n + (i + 1) = n + 1 + i
    BY <1>1, <1>2
  <2> QED BY <1>1, <1>3, <2>1
<1>8. Len(Tail(rest)) = Len(text) - (n + 1)
  BY <1>1, <1>2, <1>3
<1>9. PartOf(text, Append(done, rest[1]), Tail(rest))
  BY <1>2, <1>4, <1>6, <1>7, <1>8 DEF PartOf
<1> QED BY <1>3, <1>9

\* What was cut is the beginning of the text, and all of it once nothing is left.
LEMMA PartIs ==
    ASSUME NEW text \in Seq(Tokens), NEW done \in Seq(Tokens), NEW rest \in Seq(Tokens),
           PartOf(text, done, rest)
    PROVE  /\ \A i \in DOMAIN done : i \in 1 .. Len(text) /\ done[i] = text[i]
           /\ rest = <<>> => Len(done) = Len(text)
<1>1. PICK n \in 1 .. Len(text) : /\ Len(done) = n /\ Len(rest) = Len(text) - n
                                  /\ \A i \in 1 .. n : done[i] = text[i]
  BY DEF PartOf
<1>2. DOMAIN done = 1 .. n /\ Len(text) \in Nat
  BY <1>1
<1> QED BY <1>1, <1>2

\* The texts a thread splits.
LEMMA TextsOfFacts ==
    ASSUME NEW t \in Tids, th[t].cmd \in Conns, NEW text \in TextsOf(t)
    PROVE  /\ text \in Seq(Tokens) /\ text # <<>>
           /\ th[t].kind = "hcon" => \A i \in 1 .. Len(text) :
                 i \in {1, 2} /\ text[i] \in {VeFile(th[t].cmd)[i], VeProc(th[t].cmd)[i]}
<1> DEFINE c == th[t].cmd
<1> HIDE DEF c
<1>1. /\ Command(c) \in Seq(Tokens) /\ Command(c) # <<>>
      /\ VeFile(c) \in Seq(Tokens) /\ Len(VeFile(c)) = 2 /\ VeFile(c) # <<>>
      /\ VeProc(c) \in Seq(Tokens) /\ Len(VeProc(c)) = 2 /\ VeProc(c) # <<>>
      /\ Refusal(c) \in Seq(Tokens) /\ Len(Refusal(c)) = 1 /\ Refusal(c) # <<>>
      /\ Refusal(c)[1] = VeFile(c)[1]
  <2>1. c \in Conns
    BY DEF c
  <2> QED BY <2>1, TextFacts
<1>2. text \in IF th[t].kind = "hcon" THEN {Refusal(c), VeFile(c), VeProc(c)} ELSE {Command(c)}
  BY DEF TextsOf, c
<1>3. text \in Seq(Tokens) /\ text # <<>>
  BY <1>1, <1>2
<1>4. ASSUME th[t].kind = "hcon", NEW i \in 1 .. Len(text)
      PROVE  i \in {1, 2} /\ text[i] \in {VeFile(c)[i], VeProc(c)[i]}
  <2>1. CASE text = Refusal(c)
    <3>1. i \in 1 .. 1
      BY <1>1, <1>4, <2>1
    <3>2. i = 1 /\ text[1] = VeFile(c)[1]
      BY <1>1, <2>1, <3>1
    <3> QED BY <3>2
  <2>2. CASE text \in {VeFile(c), VeProc(c)}
    BY <1>1, <1>4, <2>2
  <2> QED BY <1>2, <1>4, <2>1, <2>2
<1> QED BY <1>3, <1>4 DEF c

----------------------------------------------------------------------------
(* One command at a time is at work.                                       *)

\* While a thread works or a command waits to be received, no other thread works.
LEMMA Alone ==
    ASSUME OneWorker, Types, NEW u \in Tids,
           \/ \E t \in Tids : t # u /\ Working(t)
           \/ \E c \in Conns : Pending(c)
    PROVE  /\ ~Working(u) /\ th[u].pc \notin {"more", "tok", "run"}
           /\ th[u].kind = "hcon" => th[u].pc \in {"none", "sleep", "end"}
  BY DEF OneWorker, Working, Resting

\* A connection that holds a command nobody received is pending.
LEMMA HeldPending ==
    ASSUME ReadOnce, Types, NEW t \in Tids, NEW c \in unread, Holds(t, c)
    PROVE  c \in Conns /\ Pending(c)
  BY DEF ReadOnce, Types, Holds, Pending

\* No second one begins as long as no thread starts to work and no command comes.
LEMMA FewerWork ==
    ASSUME OneWorker, \A t \in Tids : Working(t)' => Working(t),
           \A c \in Conns : Pending(c)' => Pending(c)
    PROVE  OneWorker'
  BY DEF OneWorker

\* Every step of a thread that already works, and every step to a place where it does
\* not.
LEMMA MoveWorker ==
    ASSUME OneWorker, NEW t \in Tids, NEW p, Moves(t, p), UNCHANGED unread,
           Working(t) \/ (th[t].kind = "thread" /\ p \notin {"more", "tok", "run"})
    PROVE  OneWorker'
<1>1. th'[t].kind = th[t].kind /\ th'[t].pc = p /\ UNCHANGED net
  BY DEF Moves
<1>2. \A u \in Tids \ {t} : th'[u] = th[u]
  BY DEF Moves
<1>3. \A u \in Tids : Working(u)' => Working(u)
  BY <1>1, <1>2 DEF Working, Resting
<1>4. \A c \in Conns : Pending(c)' => Pending(c)
  BY <1>1 DEF Pending
<1> QED BY <1>3, <1>4, FewerWork

\* When the commands come one at a time, every step keeps at most one at work.
LEMMA OneWorkerStep ==
    ASSUME Types, Born, ReadOnce, calm, OneWorker, [Next]_vars
    PROVE  OneWorker'
<1>1. ASSUME NEW c \in Conns, Connect(c) PROVE OneWorker'
  <2>1. Settled /\ net' = [net EXCEPT ![c] = "queued"] /\ UNCHANGED <<unread, th>>
    BY <1>1 DEF Connect
  <2>2. \A t \in Tids : ~Working(t)'
    BY <2>1 DEF Settled, Working, Resting
  <2>3. \A e \in Conns : Pending(e)' => e = c
    BY <2>1 DEF Settled, Pending, Types
  <2> QED BY <2>2, <2>3 DEF OneWorker
<1>2. ASSUME UNCHANGED <<unread, th>>, \A c \in Conns : net'[c] # "new" => net[c] # "new"
      PROVE  OneWorker'
  <2>1. \A t \in Tids : Working(t)' => Working(t)
    BY <1>2 DEF Working, Resting
  <2>2. \A c \in Conns : Pending(c)' => Pending(c)
    BY <1>2 DEF Pending
  <2> QED BY <2>1, <2>2, FewerWork
<1>3. CASE Accept
  BY <1>2, <1>3 DEF Accept
<1>4. CASE Accepted
  <2>1. PICK c \in Conns : net[c] = "queued" /\ net' = [net EXCEPT ![c] = "open"]
    BY <1>4 DEF Accepted
  <2>2. \A e \in Conns : net'[e] # "new" => net[e] # "new"
    BY <2>1 DEF Types
  <2> QED BY <1>2, <1>4, <2>2 DEF Accepted
<1>5. CASE StartThread
  <2> DEFINE r == [NewThread EXCEPT !.pc = "copy"]
  <2>1. r.kind = "thread" /\ r.pc = "copy"
    BY NewThreadFields
  <2>2. UNCHANGED <<net, unread>> /\ \A u \in Tids : th'[u] = th[u] \/ th'[u] = r
    BY <1>5, StartThreadEffect
  <2> HIDE DEF r
  <2>3. \A u \in Tids : Working(u)' => Working(u)
    BY <2>1, <2>2 DEF Working, Resting
  <2>4. \A c \in Conns : Pending(c)' => Pending(c)
    BY <2>2 DEF Pending
  <2> QED BY <2>3, <2>4, FewerWork
<1>6. ASSUME NEW t \in Tids, RecvCommand(t) PROVE OneWorker'
  <2>1. PICK c \in unread : Holds(t, c) /\ unread' = unread \ {c}
    BY <1>6, RecvCommandEffect
  <2>2. UNCHANGED net /\ \A u \in Tids \ {t} : th'[u] = th[u]
    BY <1>6, RecvCommandEffect DEF Moves
  <2>3. c \in Conns /\ Pending(c)
    BY <2>1, HeldPending
  <2>4. \A u \in Tids : Working(u)' => u = t
    BY <2>2, <2>3, Alone DEF Working, Resting
  <2>5. \A e \in Conns : ~Pending(e)'
    BY <2>1, <2>2, <2>3 DEF OneWorker, Pending
  <2> QED BY <2>4, <2>5 DEF OneWorker
<1>7. ASSUME NEW t \in Tids, CmdRun(t) PROVE OneWorker'
  <2>1. /\ th[t].pc = "run" /\ th[t].kind = "thread" /\ UNCHANGED <<net, unread>>
        /\ th'[t].pc = "recv" /\ th'[t].kind = "thread"
    BY <1>7, CmdRunEffect DEF At, Same, listener
  <2>2. Working(t) /\ ~Working(t)'
    BY <2>1 DEF Working
  <2>3. \A u \in Tids : u # t => ~Working(u)
    BY <2>2 DEF OneWorker
  <2>4. \A u, v \in Tids : Working(u)' /\ Working(v)' => u = v
    <3>1. \/ \A u \in Tids \ {t} : th'[u] = th[u]
          \/ \E b \in Tids : \A u \in Tids \ {t, b} : th'[u] = th[u]
      BY <1>7, CmdRunEffect
    <3> QED BY <2>2, <2>3, <3>1 DEF Working, Resting
  <2>5. \A c \in Conns : ~Pending(c)'
    BY <2>1, <2>2 DEF OneWorker, Pending
  <2> QED BY <2>4, <2>5 DEF OneWorker
<1>8. ASSUME NEW t \in Tids, CopyConInf(t) \/ RecvEnd(t) \/ ThreadEnd(t) PROVE OneWorker'
  <2>1. \E p \in {"recv", "sleep", "end"} : Moves(t, p)
    BY <1>8, CopyConInfEffect, RecvEndEffect, ThreadEndEffect
  <2>2. th[t].kind = "thread" /\ UNCHANGED unread
    BY <1>8, CopyConInfEffect, RecvEndEffect, ThreadEndEffect DEF At
  <2> QED BY <2>1, <2>2, MoveWorker
<1>9. ASSUME NEW t \in Tids, Split(t) PROVE OneWorker'
  <2>1. (\E p : Moves(t, p)) /\ UNCHANGED unread /\ Working(t)
    BY <1>9, SplitLoadEffect, SplitStoreEffect DEF Split, Working
  <2> QED BY <2>1, MoveWorker
<1>10. ASSUME NEW t \in Tids, Hcon(t) PROVE OneWorker'
  <2>1. \/ CopyFrame(t) \/ HttpGet(t) \/ HttpGetFails(t) \/ GetHeader(t) \/ GetHeaderFails(t)
        \/ GetProc(t) \/ Report(t) \/ Posted(t) \/ WorkEnd(t)
    BY <1>10 DEF Hcon
  <2>2. Working(t)
    BY <2>1 DEF CopyFrame, HttpGet, HttpGetFails, GetHeader, GetHeaderFails, GetProc, Report,
                Posted, WorkEnd, At, Working, Resting
  <2>3. (\E p : Moves(t, p)) /\ UNCHANGED unread
    BY <2>1, CopyFrameEffect, HttpGetEffect, HttpGetFailsEffect, GetHeaderEffect,
       GetHeaderFailsEffect, GetProcEffect, ReportEffect, PostedEffect, WorkEndEffect
  <2> QED BY <2>2, <2>3, MoveWorker
<1>11. ASSUME NEW t \in Tids, WildPointer(t) PROVE OneWorker'
  BY <1>2, <1>11 DEF WildPointer, listener
<1>12. CASE UNCHANGED vars
  BY <1>2, <1>12 DEF vars
<1> QED BY <1>1, <1>3, <1>4, <1>5, <1>6, <1>7, <1>8, <1>9, <1>10, <1>11, <1>12
        DEF Next, HwListen, Step, Thread

----------------------------------------------------------------------------
(* Every step keeps the texts apart.                                       *)

\* The others keep what they have, while nobody else is between two strtok calls.
LEMMA OthersText ==
    ASSUME NEW u \in Tids, Splits(u), Works(u), th'[u] = th[u],
           th[u].pc = "more" => tok' = tok,
           th[u].kind = "hcon" /\ th[u].pc = "frame" => serv'[th[u].arg] = serv[th[u].arg],
           reused \subseteq reused'
    PROVE  Splits(u)' /\ Works(u)'
<1>1. TextsOf(u)' = TextsOf(u)
  BY DEF TextsOf
<1>2. Splits(u)'
  BY <1>1 DEF Splits, SplitOff
<1>3. Works(u)'
  BY DEF Works
<1> QED BY <1>2, <1>3

\* The split of one of hcon's own texts begins.
LEMMA BeginText ==
    ASSUME Types, OneWorker, OwnText, NEW t \in Tids, Moves(t, "more"),
           th[t].kind = "hcon", th[t].pc \in {"head", "proc"}, th[t].cmd \in Conns,
           NEW text \in TextsOf(t), th'[t].arr = SplitFirst(text), tok' = Tail(text),
           Same(t, {"key", "cmd"}), UNCHANGED <<serv, reused>>
    PROVE  OwnText'
<1>1. /\ th'[t].kind = "hcon" /\ th'[t].pc = "more" /\ th'[t].arg = th[t].arg
      /\ th'[t].key = th[t].key /\ th'[t].cmd = th[t].cmd
      /\ \A u \in Tids \ {t} : th'[u] = th[u]
  BY DEF Moves, Same
<1>2. TextsOf(t)' = TextsOf(t)
  BY <1>1 DEF TextsOf
<1>3. /\ text \in Seq(Tokens) /\ text # <<>>
      /\ \A i \in 1 .. Len(text) : i \in {1, 2} /\ text[i] \in {VeFile(th[t].cmd)[i], VeProc(th[t].cmd)[i]}
  BY TextsOfFacts
<1>4. Splits(t)'
  <2>1. PartOf(text, SplitFirst(text), Tail(text))
    BY <1>3, PartFirst
  <2> QED BY <1>1, <1>2, <2>1 DEF Splits, SplitOff
<1>5. Works(t)'
  <2>1. \A i \in DOMAIN SplitFirst(text) : i \in 1 .. Len(text) /\ SplitFirst(text)[i] = text[i]
    <3>1. SplitFirst(text) \in Seq(Tokens) /\ Len(SplitFirst(text)) = 1 /\ SplitFirst(text)[1] = text[1]
      BY <1>3, FirstFacts
    <3>2. Len(text) \in Nat /\ Len(text) >= 1
      BY <1>3
    <3> QED BY <3>1, <3>2
  <2>2. Works(t)
    BY DEF OwnText
  <2> QED BY <1>1, <1>3, <2>1, <2>2 DEF Works
<1>6. ASSUME NEW u \in Tids, u # t PROVE Splits(u)' /\ Works(u)'
  <2>1. Splits(u) /\ Works(u)
    BY DEF OwnText
  <2>2. th[u].pc # "more"
    <3>1. Working(t)
      BY DEF Working, Resting
    <3> QED BY <1>6, <3>1, Alone
  <2> QED BY <1>1, <1>6, <2>1, <2>2, OthersText
<1> QED BY <1>4, <1>5, <1>6 DEF OwnText

\* Every step keeps what is known of the parts that were cut.
LEMMA TextStep ==
    ASSUME Types, Born, ReadOnce, OneWorker, OwnText, [Next]_vars
    PROVE  OwnText'
<1>0. \A t \in Tids : Splits(t) /\ Works(t)
  BY DEF OwnText
<1>1. ASSUME NEW c \in Conns, Connect(c) PROVE OwnText'
  BY <1>0, <1>1, OthersText DEF Connect, OwnText
<1>2. CASE Accept \/ Accepted
  BY <1>0, <1>2, OthersText DEF Accept, Accepted, OwnText
<1>3. CASE StartThread
  <2>1. UNCHANGED <<serv, reused, tok>>
    BY <1>3, StartThreadEffect
  <2>2. ASSUME NEW u \in Tids
        PROVE  th'[u] = th[u] \/ (th'[u].kind = "thread" /\ th'[u].pc = "copy")
    <3> DEFINE r == [NewThread EXCEPT !.pc = "copy"]
    <3>1. r.kind = "thread" /\ r.pc = "copy"
      BY NewThreadFields
    <3>2. th'[u] = th[u] \/ th'[u] = r
      BY <1>3, StartThreadEffect
    <3> HIDE DEF r
    <3> QED BY <3>1, <3>2
  <2>3. ASSUME NEW u \in Tids PROVE Splits(u)' /\ Works(u)'
    <3>1. CASE th'[u] = th[u]
      BY <1>0, <2>1, <3>1, OthersText
    <3>2. CASE th'[u].kind = "thread" /\ th'[u].pc = "copy"
      BY <3>2 DEF Splits, Works
    <3> QED BY <2>2, <3>1, <3>2
  <2> QED BY <2>3 DEF OwnText
\* t comes to a point where OwnText says nothing of its text, or ends.
<1>4. ASSUME NEW t \in Tids, NEW p, Moves(t, p), p \notin {"more", "tok", "run", "frame"},
             UNCHANGED <<serv, tok>>, reused \subseteq reused', th'[t].cmd = th[t].cmd,
             \/ p = "end" /\ th'[t].arr = <<>>
             \/ /\ th'[t].arr = th[t].arr /\ th'[t].key = th[t].key
                /\ th[t].kind = "hcon" => th[t].pc \notin {"frame", "end"}
                /\ p \in {"get", "head"} => th[t].pc \in {"frame", "get"}
      PROVE  OwnText'
  <2>1. /\ th'[t].pc = p /\ th'[t].kind = th[t].kind /\ th'[t].arg = th[t].arg
        /\ \A u \in Tids \ {t} : th'[u] = th[u]
    BY <1>4 DEF Moves
  <2>2. Splits(t)'
    BY <1>4, <2>1 DEF Splits
  <2>3. Works(t)'
    <3>1. CASE p = "end" /\ th'[t].arr = <<>>
      BY <2>1, <3>1 DEF Works
    <3>2. CASE /\ th'[t].arr = th[t].arr /\ th'[t].key = th[t].key
               /\ th[t].kind = "hcon" => th[t].pc \notin {"frame", "end"}
               /\ p \in {"get", "head"} => th[t].pc \in {"frame", "get"}
      BY <1>0, <1>4, <2>1, <3>2 DEF Works
    <3> QED BY <1>4, <3>1, <3>2
  <2>4. ASSUME NEW u \in Tids, u # t PROVE Splits(u)' /\ Works(u)'
    BY <1>0, <1>4, <2>1, <2>4, OthersText
  <2> QED BY <2>2, <2>3, <2>4 DEF OwnText
<1>5. ASSUME NEW t \in Tids, RecvCommand(t) PROVE OwnText'
  <2>1. PICK c \in unread :
           /\ Holds(t, c)
           /\ th'[t].arr = SplitFirst(Command(c)) /\ th'[t].cmd = c
           /\ tok' = Tail(Command(c))
    BY <1>5, RecvCommandEffect
  <2>2. /\ th[t].kind = "thread" /\ th[t].pc = "recv" /\ c \in Conns
        /\ th'[t].kind = "thread" /\ th'[t].pc = "more"
        /\ \A u \in Tids \ {t} : th'[u] = th[u]
        /\ UNCHANGED <<serv, reused>>
    BY <1>5, RecvCommandEffect DEF At, Moves, Types
  <2>3. Splits(t)' /\ Works(t)'
    <3>1. PartOf(Command(c), SplitFirst(Command(c)), Tail(Command(c)))
      <4>1. Command(c) # <<>>
        BY DEF Command
      <4> QED BY <2>2, <4>1, TextFacts, PartFirst
    <3>2. Command(c) \in TextsOf(t)'
      BY <2>1, <2>2 DEF TextsOf
    <3> QED BY <2>1, <2>2, <3>1, <3>2 DEF Splits, SplitOff, Works
  <2>4. ASSUME NEW u \in Tids, u # t PROVE Splits(u)' /\ Works(u)'
    <3>1. th[u].pc # "more"
      BY <2>1, HeldPending, Alone
    <3> QED BY <1>0, <2>2, <2>4, <3>1, OthersText
  <2> QED BY <2>3, <2>4 DEF OwnText
<1>6. ASSUME NEW t \in Tids, SplitLoad(t) PROVE OwnText'
  <2>1. /\ th[t].pc = "more" /\ th'[t].pc = "tok" /\ th'[t].kind = th[t].kind
        /\ th'[t].pos = tok /\ th'[t].arr = th[t].arr /\ th'[t].key = th[t].key
        /\ th'[t].cmd = th[t].cmd /\ th'[t].arg = th[t].arg
        /\ \A u \in Tids \ {t} : th'[u] = th[u]
        /\ UNCHANGED <<serv, reused, tok>>
    BY <1>6, SplitLoadEffect DEF Moves, Same
  <2>2. Splits(t)' /\ Works(t)'
    <3>1. TextsOf(t)' = TextsOf(t)
      BY <2>1 DEF TextsOf
    <3>2. Splits(t)'
      BY <1>0, <2>1, <3>1 DEF Splits, SplitOff
    <3>3. Works(t)'
      BY <1>0, <2>1 DEF Works
    <3> QED BY <3>2, <3>3
  <2> QED BY <1>0, <2>1, <2>2, OthersText DEF OwnText
<1>7. ASSUME NEW t \in Tids, SplitStore(t) PROVE OwnText'
  <2>1. PICK p \in {"more", AfterSplit(t)} : Moves(t, p)
    BY <1>7, SplitStoreEffect
  <2>2. /\ th[t].pc = "tok" /\ th'[t].kind = th[t].kind /\ th'[t].arg = th[t].arg
        /\ th'[t].key = th[t].key /\ th'[t].cmd = th[t].cmd
        /\ \A u \in Tids \ {t} : th'[u] = th[u]
        /\ UNCHANGED <<serv, reused>>
    BY <1>7, <2>1, SplitStoreEffect DEF Moves, Same
  <2>3. Splits(t)' /\ Works(t)'
    <3>0. /\ th[t].kind \in {"thread", "hcon"} /\ th[t].cmd \in Conns
          /\ th[t].arr \in Seq(Tokens) /\ th[t].pos \in Seq(Tokens)
          /\ TextsOf(t)' = TextsOf(t) /\ Works(t)
      <4>1. th[t].kind \in {"thread", "hcon"}
        BY DEF Types, Records
      <4>2. th[t].cmd \in Conns
        BY <2>2, <4>1 DEF ReadOnce, Carries
      <4>3. TextsOf(t)' = TextsOf(t)
        BY <2>2 DEF TextsOf
      <4> QED BY <1>0, <4>1, <4>2, <4>3, TokTypes
    <3>1. PICK text \in TextsOf(t) : PartOf(text, th[t].arr, th[t].pos)
      BY <1>0, <2>2 DEF Splits, SplitOff
    <3>t. /\ text \in Seq(Tokens)
          /\ th[t].kind = "hcon" => \A i \in 1 .. Len(text) :
                i \in {1, 2} /\ text[i] \in {VeFile(th[t].cmd)[i], VeProc(th[t].cmd)[i]}
      BY <3>0, TextsOfFacts
    <3>2. CASE th[t].pos = <<>>
      <4>1. th'[t].pc = AfterSplit(t) /\ th'[t].arr = th[t].arr
        BY <1>7, <3>2, SplitStoreEffect DEF Moves, Same
      <4>2. AfterSplit(t) \in {"run", "proc", "work"}
        BY DEF AfterSplit
      <4>3. \E whole \in TextsOf(t)' : PartOf(whole, th'[t].arr, <<>>)
        BY <3>0, <3>1, <3>2, <4>1
      <4>4. Splits(t)'
        BY <4>1, <4>2, <4>3 DEF Splits, SplitOff
      <4>5. Works(t)'
        BY <2>2, <3>0, <4>1, <4>2 DEF Works
      <4> QED BY <4>4, <4>5
    <3>3. CASE th[t].pos # <<>>
      <4>1. /\ th'[t].pc = "more" /\ th'[t].arr = Append(th[t].arr, Head(th[t].pos))
            /\ tok' = Tail(th[t].pos)
        BY <1>7, <3>3, SplitStoreEffect DEF Moves
      <4>2. PartOf(text, th'[t].arr, tok')
        BY <3>0, <3>1, <3>3, <3>t, <4>1, PartNext
      <4>3. Splits(t)'
        BY <3>0, <4>1, <4>2 DEF Splits, SplitOff
      <4>4. Works(t)'
        <5>1. th'[t].arr \in Seq(Tokens) /\ tok' \in Seq(Tokens)
          BY <3>0, <3>3, <4>1, FirstFacts, AppendFacts
        <5>2. \A i \in DOMAIN th'[t].arr : i \in 1 .. Len(text) /\ th'[t].arr[i] = text[i]
          BY <3>t, <4>2, <5>1, PartIs
        <5> QED BY <2>2, <3>0, <3>t, <4>1, <5>2 DEF Works
      <4> QED BY <4>3, <4>4
    <3> QED BY <3>2, <3>3
  <2>4. ASSUME NEW u \in Tids, u # t PROVE Splits(u)' /\ Works(u)'
    <3>1. th[u].pc # "more"
      BY <2>2, <2>4, Alone DEF Working
    <3> QED BY <1>0, <2>2, <2>4, <3>1, OthersText
  <2> QED BY <2>3, <2>4 DEF OwnText
<1>8. ASSUME NEW t \in Tids, CmdRun(t) PROVE OwnText'
  <2>1. /\ th[t].kind = "thread" /\ th[t].pc = "run"
        /\ th'[t].kind = "thread" /\ th'[t].pc = "recv"
        /\ UNCHANGED <<reused, tok>>
    BY <1>8, CmdRunEffect DEF At, Same
  <2>2. th[t].cmd \in Conns
    BY <2>1 DEF ReadOnce, Carries
  <2>3. Len(th[t].arr) = 2 /\ th[t].arr[2] = Token("key", th[t].cmd)
    <3>1. th[t].arr \in Seq(Tokens) /\ <<>> \in Seq(Tokens) /\ Command(th[t].cmd) \in Seq(Tokens)
      BY <2>2, TokTypes, TextFacts
    <3>2. PartOf(Command(th[t].cmd), th[t].arr, <<>>)
      BY <1>0, <2>1 DEF Splits, SplitOff, TextsOf
    <3>3. /\ Len(th[t].arr) = Len(Command(th[t].cmd))
          /\ \A i \in DOMAIN th[t].arr : th[t].arr[i] = Command(th[t].cmd)[i]
      BY <3>1, <3>2, PartIs
    <3>4. Len(Command(th[t].cmd)) = 2 /\ Command(th[t].cmd)[2] = Token("key", th[t].cmd)
      BY <2>2, TextFacts
    <3>5. Len(th[t].arr) = 2 => 2 \in DOMAIN th[t].arr
      BY <3>1
    <3> QED BY <3>3, <3>4, <3>5
  <2>4. serv'[t] = th[t].cmd /\ \A u \in Tids \ {t} : serv'[u] = serv[u]
    <3>1. KeyOf(th[t].arr[2]) = th[t].cmd
      BY <2>3 DEF KeyOf, Token
    <3>2. serv' = [serv EXCEPT ![t] = KeyOf(th[t].arr[2])]
      <4>1. Len(th[t].arr) > 1
        BY <2>3
      <4>2. serv' = [serv EXCEPT ![t] = IF Len(th[t].arr) > 1 THEN KeyOf(th[t].arr[2]) ELSE Junk]
        BY <1>8, CmdRunEffect
      <4> QED BY <4>1, <4>2
    <3> QED BY <3>1, <3>2 DEF Types
  <2>5. Splits(t)' /\ Works(t)'
    BY <2>1 DEF Splits, Works
  <2>6. ASSUME NEW u \in Tids, u # t PROVE Splits(u)' /\ Works(u)'
    <3>1. th'[u] = th[u] \/ th'[u] = NewHcon(t)
      BY <1>8, <2>6, CmdRunEffect
    <3>2. CASE th'[u] = th[u]
      <4>1. th[u].kind = "hcon" => th[u].pc # "frame"
        BY <2>1, <2>6, Alone DEF Working
      <4> QED BY <1>0, <2>1, <3>2, <4>1, OthersText
    <3>3. CASE th'[u] = NewHcon(t)
      <4>1. /\ th'[u].kind = "hcon" /\ th'[u].pc = "frame" /\ th'[u].arg = t
            /\ th'[u].cmd = th[t].cmd /\ th'[u].arr = <<>>
        BY <3>3, NewHconFields
      <4> QED BY <2>4, <4>1 DEF Splits, Works
    <3> QED BY <3>1, <3>2, <3>3
  <2> QED BY <2>5, <2>6 DEF OwnText
<1>9. ASSUME NEW t \in Tids, CopyFrame(t) PROVE OwnText'
  <2>1. /\ th[t].kind = "hcon" /\ th[t].pc = "frame" /\ th'[t].pc = "get" /\ th'[t].kind = "hcon"
        /\ th'[t].key = IF th[t].arg \in reused THEN Junk ELSE serv[th[t].arg]
        /\ th'[t].arr = th[t].arr /\ th'[t].cmd = th[t].cmd /\ th'[t].arg = th[t].arg
        /\ \A u \in Tids \ {t} : th'[u] = th[u]
        /\ UNCHANGED <<serv, reused, tok>>
    BY <1>9, CopyFrameEffect DEF Moves, Same, At
  <2>2. Splits(t)' /\ Works(t)'
    BY <1>0, <2>1 DEF Splits, Works
  <2> QED BY <1>0, <2>1, <2>2, OthersText DEF OwnText
<1>10. ASSUME NEW t \in Tids, GetHeader(t) PROVE OwnText'
  <2>1. PICK text \in Answers(t) : th'[t].arr = SplitFirst(text) /\ tok' = Tail(text)
    BY <1>10, GetHeaderEffect
  <2>2. /\ th[t].kind = "hcon" /\ th[t].pc = "head" /\ th[t].cmd \in Conns /\ Moves(t, "more")
        /\ Same(t, {"key", "cmd"}) /\ UNCHANGED <<serv, reused>>
    BY <1>10, GetHeaderEffect DEF Same, At
  <2>3. th[t].key \in Conns => th[t].key = th[t].cmd
    BY <1>0, <2>2, NamesDiffer DEF Works
  <2>4. text \in TextsOf(t)
    BY <2>1, <2>2, <2>3 DEF Answers, TextsOf
  <2> QED BY <2>1, <2>2, <2>4, BeginText
<1>20. ASSUME NEW t \in Tids, GetProc(t) PROVE OwnText'
  <2>1. /\ th[t].kind = "hcon" /\ th[t].pc = "proc" /\ th[t].cmd \in Conns /\ Moves(t, "more")
        /\ th'[t].arr = SplitFirst(VeProc(th[t].cmd)) /\ tok' = Tail(VeProc(th[t].cmd))
        /\ Same(t, {"key", "cmd"}) /\ UNCHANGED <<serv, reused>>
    BY <1>20, GetProcEffect DEF Same, At
  <2>2. VeProc(th[t].cmd) \in TextsOf(t)
    BY <2>1 DEF TextsOf
  <2> QED BY <2>1, <2>2, BeginText
<1>11. ASSUME NEW t \in Tids, CopyConInf(t) PROVE OwnText'
  BY <1>4, <1>11, CopyConInfEffect DEF Same, At
<1>12. ASSUME NEW t \in Tids, RecvEnd(t) PROVE OwnText'
  BY <1>4, <1>12, RecvEndEffect DEF Same, At
<1>13. ASSUME NEW t \in Tids, ThreadEnd(t) PROVE OwnText'
  BY <1>4, <1>13, ThreadEndEffect DEF Same, At
<1>14. ASSUME NEW t \in Tids, HttpGet(t) PROVE OwnText'
  BY <1>4, <1>14, HttpGetEffect DEF Same, At
<1>15. ASSUME NEW t \in Tids, HttpGetFails(t) PROVE OwnText'
  BY <1>4, <1>15, HttpGetFailsEffect DEF Same
<1>16. ASSUME NEW t \in Tids, GetHeaderFails(t) PROVE OwnText'
  BY <1>4, <1>16, GetHeaderFailsEffect DEF Same
<1>17. ASSUME NEW t \in Tids, WorkEnd(t) PROVE OwnText'
  BY <1>4, <1>17, WorkEndEffect DEF Same
<1>21. ASSUME NEW t \in Tids, Report(t) PROVE OwnText'
  <2>1. PICK p \in {"post", "work"} : Moves(t, p)
    BY <1>21, ReportEffect
  <2> QED BY <1>4, <1>21, <2>1, ReportEffect DEF Same, At
<1>22. ASSUME NEW t \in Tids, Posted(t) PROVE OwnText'
  BY <1>4, <1>22, PostedEffect DEF Same, At
<1>18. ASSUME NEW t \in Tids, WildPointer(t) PROVE OwnText'
  BY <1>0, <1>18, OthersText DEF WildPointer, OwnText
<1>19. CASE UNCHANGED vars
  BY <1>0, <1>19, OthersText DEF vars, OwnText
<1> QED BY <1>1, <1>2, <1>3, <1>5, <1>6, <1>7, <1>8, <1>9, <1>10, <1>11, <1>12,
           <1>13, <1>14, <1>15, <1>16, <1>17, <1>18, <1>19, <1>20, <1>21, <1>22
        DEF Next, HwListen, Step, Thread, Split, Hcon

----------------------------------------------------------------------------
(* When the commands come one at a time: the steps that hand a connection  *)
(* on.                                                                     *)

\* A step that touches no descriptor keeps what was handed over.
LEMMA SameHanded ==
    ASSUME Handed, UNCHANGED <<net, unread, file, lpc, lret, conInf, denied, th>>
    PROVE  Handed'
<1>1. OneAtATime'
  BY DEF Handed, OneAtATime, AllRest, Resting, Holds
<1>2. OwnDescriptors'
  BY DEF Handed, OwnDescriptors, Fresh, Serving, Fetching, Posting, At
<1>3. Owned'
  BY DEF Handed, Owned, Serving, Fetching, Posting, At
<1>4. Attended'
  BY DEF Handed, Attended, Carries, Holds, At
<1> QED BY <1>1, <1>2, <1>3, <1>4 DEF Handed

\* So does a new connection.
LEMMA ConnectHanded ==
    ASSUME Types, calm, Handed, NEW c \in Conns, Connect(c)
    PROVE  Handed'
<1>1. /\ net[c] = "new" /\ Settled /\ net' = [net EXCEPT ![c] = "queued"]
      /\ UNCHANGED <<unread, file, lpc, lret, conInf, denied, th>>
  BY DEF Connect
<1>2. AllRest /\ lpc # "create" /\ \A e \in Conns : net[e] # "queued"
  BY <1>1 DEF Settled, AllRest, Resting
<1>3. \A e \in Conns : /\ net'[e] = "queued" => e = c
                       /\ net'[e] = "open" => net[e] = "open"
  BY <1>1, <1>2 DEF Types
<1>4. OneAtATime'
  BY <1>1, <1>2, <1>3 DEF OneAtATime, AllRest, Resting
<1>5. OwnDescriptors'
  BY <1>1 DEF Handed, OwnDescriptors, Fresh, Serving, Fetching, Posting, At
<1>6. Owned'
  BY <1>1 DEF Handed, Owned, Serving, Fetching, Posting, At
<1>7. Attended'
  BY <1>1, <1>3 DEF Handed, Attended, Carries, Holds, At
<1> QED BY <1>4, <1>5, <1>6, <1>7 DEF Handed

\* So does the call of accept, as long as there is a descriptor for it.
LEMMA AcceptHanded ==
    ASSUME Types, ReadOnce, Handed, Accept, ~starved'
    PROVE  Handed'
<1>1. PICK d \in Fds : /\ LowestFree(d) /\ file' = [file EXCEPT ![d] = Awaited]
                       /\ lpc' = "wait" /\ lret' = d
  BY DEF Accept
<1>2. lpc = "accept" /\ UNCHANGED <<net, unread, conInf, denied, th>>
  BY <1>1 DEF Accept
<1>3. /\ file[d] = Free /\ file'[d] = Awaited
      /\ \A e \in Fds : e # d => file'[e] = file[e]
  BY <1>1 DEF LowestFree, FreeFds, Types
<1>4. \A e \in Fds : file[e] \in Conns \cup Tids \/ file'[e] \in Conns \cup Tids =>
         e # d /\ file'[e] = file[e]
  BY <1>3, NamesDiffer
<1>5. \A e : Fresh(e) => Fresh(e)'
  BY <1>2, <1>4 DEF Fresh, Serving, Types
<1>6. OneAtATime'
  <2>1. \A t \in Tids, c \in unread : Holds(t, c)' => Holds(t, c)
    BY <1>2, <1>4 DEF Holds, Types
  <2> QED BY <1>1, <1>2, <2>1 DEF Handed, OneAtATime, AllRest, Resting
<1>7. OwnDescriptors'
  <2>1. \A e \in Fds : file'[e] = Stdin <=> e = 0
    BY <1>3, NamesDiffer DEF Handed, OwnDescriptors
  <2>2. \A t \in Tids : At(t, "thread", "copy")' => Fresh(conInf)'
    <3>1. \A t \in Tids : At(t, "thread", "copy")' => Fresh(conInf)
      BY <1>2 DEF Handed, OwnDescriptors, At
    <3> QED BY <1>2, <1>5, <3>1 DEF Fresh
  <2>3. \A t \in Tids : Serving(t)' => th[t].fd \in Fds /\ file'[th[t].fd] \in Conns
    BY <1>2, <1>4 DEF Handed, OwnDescriptors, Serving
  <2>4. \A t, u \in Tids : (Serving(t) /\ Serving(u))' /\ th[t].fd = th[u].fd => t = u
    BY <1>2 DEF Handed, OwnDescriptors, Serving
  <2>5. ASSUME NEW t \in Tids, th[t].kind = "thread", th[t].pc \in {"more", "tok", "run"}
        PROVE  file'[th[t].fd] \notin unread
    <3>1. th[t].fd \in Fds /\ file[th[t].fd] \in Conns \ unread
      BY <2>5 DEF Handed, OwnDescriptors, Serving
    <3> QED BY <1>4, <3>1
  <2>6. \A t \in Tids : Fetching(t)' => th[t].fd \in Fds /\ file'[th[t].fd] = t
    BY <1>2, <1>4 DEF Handed, OwnDescriptors, Fetching
  <2>7. \A t \in Tids : Posting(t)' => th[t].rep \in Fds /\ file'[th[t].rep] = t /\ th[t].rep # th[t].fd
    BY <1>2, <1>4 DEF Handed, OwnDescriptors, Posting
  <2> QED BY <1>1, <1>2, <1>3, <2>1, <2>2, <2>3, <2>4, <2>5, <2>6, <2>7 DEF OwnDescriptors
<1>8. Owned'
  BY <1>2, <1>4 DEF Handed, Owned, Serving, Fetching, Posting, At
<1>9. Attended'
  <2>1. ASSUME NEW c \in Conns, net[c] = "open"
        PROVE  \/ denied
               \/ \E t \in Tids : Carries(t) /\ th[t].cmd = c
               \/ c \in unread /\ \E t \in Tids :
                     \/ At(t, "thread", "copy") /\ conInf \in Fds /\ file'[conInf] = c
                     \/ At(t, "thread", "recv") /\ th[t].fd \in Fds /\ file'[th[t].fd] = c
    BY <1>2, <1>4, <2>1 DEF Handed, Attended, Holds
  <2> QED BY <1>2, <2>1 DEF Attended, Carries, Holds, At
<1> QED BY <1>6, <1>7, <1>8, <1>9 DEF Handed

\* So does the connection it waited for.
LEMMA AcceptedHanded ==
    ASSUME Types, ReadOnce, Handed, Accepted
    PROVE  Handed'
<1>0. PICK d : d = lret
  OBVIOUS
<1>1. PICK c \in Conns : /\ net[c] = "queued" /\ net' = [net EXCEPT ![c] = "open"]
                         /\ file' = [file EXCEPT ![d] = c]
  BY <1>0 DEF Accepted
<1>2. /\ lpc = "wait" /\ lpc' = "create" /\ conInf' = 0 /\ lret' = d
      /\ UNCHANGED <<unread, denied, th>>
  BY <1>0 DEF Accepted
<1>3. /\ AllRest /\ c \in unread
      /\ \A e \in Conns : net[e] = "queued" => e = c
  BY <1>1 DEF Handed, OneAtATime, ReadOnce
<1>4. d \in Fds /\ file[d] = Awaited
  BY <1>0, <1>2 DEF Handed, OwnDescriptors
<1>5. /\ file'[d] = c /\ \A e \in Fds \ {d} : file'[e] = file[e]
      /\ \A e \in Conns : net'[e] # "queued" /\ (e # c => net'[e] = net[e])
  BY <1>1, <1>3, <1>4 DEF Types
<1>6. OneAtATime'
  BY <1>2, <1>3, <1>5 DEF OneAtATime, AllRest, Resting
<1>7. \A t \in Tids : Serving(t) => th[t].fd # d
  BY <1>4, NamesDiffer DEF Handed, OwnDescriptors
<1>8. \A t \in Tids : ~At(t, "thread", "copy") /\ ~Fetching(t) /\ ~Posting(t)
                      /\ ~(th[t].kind = "thread" /\ th[t].pc \in {"more", "tok", "run"})
                      /\ ~At(t, "thread", "recv")
  BY <1>3 DEF AllRest, Resting, At, Fetching, Posting
<1>9. OwnDescriptors'
  <2>1. \A e \in Fds : file'[e] = Stdin <=> e = 0
    BY <1>4, <1>5, NamesDiffer DEF Handed, OwnDescriptors
  <2>2. Fresh(d)'
    BY <1>2, <1>3, <1>4, <1>5, <1>7 DEF Fresh, Serving
  <2>3. \A t \in Tids : Serving(t) => th[t].fd \in Fds /\ file'[th[t].fd] \in Conns
    BY <1>5, <1>7 DEF Handed, OwnDescriptors
  <2>4. \A t, u \in Tids : Serving(t) /\ Serving(u) /\ th[t].fd = th[u].fd => t = u
    BY DEF Handed, OwnDescriptors
  <2> QED BY <1>2, <1>4, <1>8, <2>1, <2>2, <2>3, <2>4
          DEF OwnDescriptors, Fresh, Serving, Fetching, Posting, At
<1>10. Owned'
  <2>1. \A e \in Fds \ {d} : file[e] \in Conns => \/ denied
                                                  \/ \E t \in Tids : Serving(t) /\ th[t].fd = e
    BY <1>2, <1>8 DEF Handed, Owned
  <2>2. \A e \in Fds, t \in Tids : file'[e] # t
    BY <1>5, <1>8, NamesDiffer DEF Handed, Owned
  <2> QED BY <1>2, <1>4, <1>5, <2>1, <2>2 DEF Owned, Serving, Fetching, Posting, At
<1>11. Attended'
  <2>1. \A e \in Conns \ {c} : net[e] = "open" =>
           denied \/ \E t \in Tids : Carries(t) /\ th[t].cmd = e
    BY <1>2, <1>8 DEF Handed, Attended
  <2> QED BY <1>2, <1>3, <1>4, <1>5, <2>1 DEF Attended, Carries, Holds, At
<1> QED BY <1>6, <1>9, <1>10, <1>11 DEF Handed

\* So does the start of a thread.
LEMMA StartHanded ==
    ASSUME Types, Born, Handed, StartThread
    PROVE  Handed'
<1> DEFINE r == [NewThread EXCEPT !.pc = "copy"]
<1>0. r.kind = "thread" /\ r.pc = "copy"
  BY NewThreadFields
<1>1. /\ lpc = "create" /\ lpc' = "accept" /\ conInf' = lret
      /\ UNCHANGED <<net, unread, file, lret>>
      /\ \/ denied' = TRUE /\ UNCHANGED th
         \/ /\ born' \in Tids /\ UNCHANGED denied
            /\ \A u \in Tids \ {born'} : th'[u] = th[u]
            /\ th[born'].kind = "thread" /\ th[born'].pc = "none"
            /\ th'[born'] = r
  BY StartThreadEffect
<1> HIDE DEF r
<1>2. AllRest /\ (\A c \in Conns : net[c] # "queued") /\ Fresh(lret)
  BY <1>1 DEF Handed, OneAtATime, OwnDescriptors
<1>3. \A t \in Tids : th'[t] = th[t] \/ (At(t, "thread", "copy")' /\ t = born' /\ denied' = denied)
  BY <1>0, <1>1 DEF At
<1>4. \A t \in Tids : /\ Serving(t)' <=> Serving(t) /\ th'[t] = th[t]
                      /\ Fetching(t)' <=> Fetching(t) /\ th'[t] = th[t]
                      /\ Posting(t)' <=> Posting(t) /\ th'[t] = th[t]
                      /\ Carries(t)' <=> Carries(t) /\ th'[t] = th[t]
                      /\ Serving(t) \/ Fetching(t) \/ Carries(t) => th'[t] = th[t]
  BY <1>0, <1>1 DEF Serving, Fetching, Posting, Carries
<1>5. \A t \in Tids : ~Resting(t)' => At(t, "thread", "copy")' /\ t = born'
  BY <1>2, <1>3 DEF AllRest, Resting
<1>6. \A t \in Tids : /\ ~At(t, "thread", "copy") /\ ~At(t, "thread", "recv")
                      /\ ~Fetching(t) /\ ~Posting(t)
  BY <1>2 DEF AllRest, Resting, At, Fetching, Posting
<1>7. denied' = TRUE \/ (denied' = denied /\ \E b \in Tids : At(b, "thread", "copy")')
  BY <1>0, <1>1 DEF At
<1>8. OneAtATime'
  BY <1>1, <1>2, <1>5 DEF OneAtATime, At
<1>9. OwnDescriptors'
  <2>1. Fresh(lret)'
    BY <1>1, <1>2, <1>4 DEF Fresh
  <2>2. \A t \in Tids : Serving(t)' => th'[t].fd \in Fds /\ file'[th'[t].fd] \in Conns
    BY <1>1, <1>4 DEF Handed, OwnDescriptors
  <2>3. \A t, u \in Tids : (Serving(t) /\ Serving(u))' /\ th'[t].fd = th'[u].fd => t = u
    BY <1>4 DEF Handed, OwnDescriptors
  <2>4. \A t \in Tids : th'[t].kind = "thread" => th'[t].pc \notin {"more", "tok", "run"}
    BY <1>5 DEF Resting, At
  <2>5. \A t \in Tids : ~Fetching(t)' /\ ~Posting(t)'
    BY <1>4, <1>6
  <2> QED BY <1>1, <2>1, <2>2, <2>3, <2>4, <2>5 DEF Handed, OwnDescriptors, Fresh
<1>10. Owned'
  <2>1. ASSUME NEW d \in Fds, file[d] \in Conns
        PROVE  \/ denied'
               \/ \E t \in Tids : At(t, "thread", "copy")' /\ conInf' = d
               \/ \E t \in Tids : Serving(t)' /\ th'[t].fd = d
    <3>1. \/ denied \/ lret = d
          \/ \E t \in Tids : Serving(t) /\ th[t].fd = d
      BY <1>6, <2>1 DEF Handed, Owned
    <3> QED BY <1>1, <1>4, <1>7, <3>1
  <2>2. \A d \in Fds, t \in Tids : file[d] # t
    BY <1>6 DEF Handed, Owned
  <2> QED BY <1>1, <2>1, <2>2 DEF Owned
<1>11. Attended'
  <2>1. ASSUME NEW c \in Conns, net[c] = "open"
        PROVE  \/ denied'
               \/ \E t \in Tids : Carries(t)' /\ th'[t].cmd = c
               \/ c \in unread /\ \E t \in Tids : At(t, "thread", "copy")' /\ conInf' \in Fds
                                                                         /\ file[conInf'] = c
    <3>1. \/ denied
          \/ \E t \in Tids : Carries(t) /\ th[t].cmd = c
          \/ c \in unread /\ lret \in Fds /\ file[lret] = c
      BY <1>6, <2>1 DEF Handed, Attended
    <3> QED BY <1>1, <1>4, <1>7, <3>1
  <2> QED BY <1>1, <2>1 DEF Attended
<1> QED BY <1>8, <1>9, <1>10, <1>11 DEF Handed

\* Facts about t alone, while t is neither asleep nor ended.
LEMMA BusyFacts ==
    ASSUME Types, Handed, NEW t \in Tids, th[t].kind = "thread", ~Resting(t)
    PROVE  /\ lpc # "create" /\ \A c \in Conns : net[c] # "queued"
           /\ \A u \in Tids \ {t} : th[u].kind = "thread" => Resting(u)
           /\ th[t].pc # "recv" \/ (\E c \in unread : Holds(t, c)) =>
                 \A u \in Tids \ {t} : Resting(u)
<1>1. lpc # "create" /\ \A c \in Conns : net[c] # "queued"
  BY DEF Handed, OneAtATime, AllRest, Types
<1>2. \A u \in Tids \ {t} : th[u].kind = "thread" => Resting(u)
  BY DEF Handed, OneAtATime
<1>3. \A u \in Tids : th[u].kind \in {"thread", "hcon"}
  BY DEF Types, Records
<1>4. \A u \in Tids : th[u].kind = "hcon" /\ ~Resting(u) =>
         th[t].pc = "recv" /\ \A c \in unread : ~Holds(t, c)
  BY DEF Handed, OneAtATime
<1> QED BY <1>1, <1>2, <1>3, <1>4

\* So does the copy of the descriptor.
LEMMA CopyHanded ==
    ASSUME Types, Handed, NEW t \in Tids, CopyConInf(t)
    PROVE  Handed'
<1>1. /\ th[t].kind = "thread" /\ th[t].pc = "copy"
      /\ th'[t].kind = "thread" /\ th'[t].pc = "recv" /\ th'[t].fd = conInf
      /\ \A u \in Tids \ {t} : th'[u] = th[u]
      /\ UNCHANGED <<net, lpc, lret, conInf, denied, unread, file>>
  BY CopyConInfEffect DEF At, Moves
<1>2. /\ lpc # "create" /\ \A c \in Conns : net[c] # "queued"
      /\ \A u \in Tids \ {t} : Resting(u)
  BY <1>1, BusyFacts DEF Resting
<1>3. Fresh(conInf)
  BY <1>1 DEF Handed, OwnDescriptors, At
<1>4. \A u \in Tids \ {t} : Resting(u)' /\ ~At(u, "thread", "copy") /\ ~At(u, "thread", "recv")
                            /\ ~Fetching(u) /\ ~Posting(u)
  BY <1>1, <1>2 DEF Resting, At, Fetching, Posting
<1>5. \A u \in Tids : /\ Serving(u)' => u = t \/ (Serving(u) /\ th'[u] = th[u])
                      /\ Serving(u) => Serving(u)' /\ th'[u] = th[u]
                      /\ Carries(u) => Carries(u)' /\ th'[u] = th[u]
                      /\ ~Fetching(u)' /\ ~Fetching(u) /\ ~Posting(u)' /\ ~Posting(u)
                      /\ ~At(u, "thread", "copy")'
                      /\ ~(th'[u].kind = "thread" /\ th'[u].pc \in {"more", "tok", "run"})
  BY <1>1, <1>4 DEF Serving, Carries, At, Resting, Fetching, Posting
<1>6. Serving(t)' /\ At(t, "thread", "recv")' /\ At(t, "thread", "copy")
  BY <1>1 DEF Serving, At
<1>7. OneAtATime'
  BY <1>1, <1>2, <1>4 DEF OneAtATime
<1>8. OwnDescriptors'
  <2>1. \A u \in Tids : Serving(u)' => th'[u].fd \in Fds /\ file[th'[u].fd] \in Conns
    BY <1>1, <1>3, <1>5 DEF Handed, OwnDescriptors, Fresh, Types
  <2>2. \A u, v \in Tids : (Serving(u) /\ Serving(v))' /\ th'[u].fd = th'[v].fd => u = v
    BY <1>1, <1>3, <1>5 DEF Handed, OwnDescriptors, Fresh
  <2> QED BY <1>1, <1>2, <1>5, <2>1, <2>2 DEF Handed, OwnDescriptors
<1>9. Owned'
  <2>1. ASSUME NEW d \in Fds, file[d] \in Conns
        PROVE  denied \/ \E u \in Tids : Serving(u)' /\ th'[u].fd = d
    <3>1. \/ denied \/ conInf = d
          \/ \E u \in Tids : Serving(u) /\ th[u].fd = d
      BY <1>2, <2>1 DEF Handed, Owned
    <3> QED BY <1>1, <1>5, <1>6, <3>1
  <2> QED BY <1>1, <1>5, <2>1 DEF Handed, Owned
<1>10. Attended'
  <2>1. ASSUME NEW c \in Conns, net[c] = "open"
        PROVE  \/ denied
               \/ \E u \in Tids : Carries(u)' /\ th'[u].cmd = c
               \/ c \in unread /\ \E u \in Tids : At(u, "thread", "recv")' /\ Holds(u, c)'
    <3>1. \/ denied
          \/ \E u \in Tids : Carries(u) /\ th[u].cmd = c
          \/ c \in unread /\ conInf \in Fds /\ file[conInf] = c
      <4>1. ~At(t, "thread", "recv")
        BY <1>1 DEF At
      <4> QED BY <1>2, <1>4, <2>1, <4>1 DEF Handed, Attended
    <3>2. conInf \in Fds /\ file[conInf] = c => Holds(t, c)'
      BY <1>1 DEF Holds
    <3> QED BY <1>5, <1>6, <3>1, <3>2
  <2> QED BY <1>1, <2>1 DEF Attended
<1> QED BY <1>7, <1>8, <1>9, <1>10 DEF Handed

\* So does a read.
LEMMA RecvHanded ==
    ASSUME Types, Handed, NEW t \in Tids, RecvCommand(t)
    PROVE  Handed'
<1>0. PICK c \in unread : Holds(t, c) /\ unread' = unread \ {c} /\ th'[t].cmd = c
  BY RecvCommandEffect
<1>1. /\ th[t].kind = "thread" /\ th[t].pc = "recv"
      /\ th'[t].kind = "thread" /\ th'[t].pc = "more" /\ th'[t].fd = th[t].fd
      /\ \A u \in Tids \ {t} : th'[u] = th[u]
      /\ UNCHANGED <<net, lpc, lret, conInf, denied, file>> /\ c \in Conns
  BY RecvCommandEffect DEF At, Moves, Same, Types
<1>2. /\ lpc # "create" /\ \A e \in Conns : net[e] # "queued"
      /\ \A u \in Tids \ {t} : Resting(u)
  BY <1>0, <1>1, BusyFacts DEF Resting
<1>3. \A u \in Tids \ {t} : Resting(u)' /\ ~At(u, "thread", "recv")
  BY <1>1, <1>2 DEF Resting, At
<1>4. \A u \in Tids : /\ Serving(u)' <=> Serving(u)
                      /\ th'[u].fd = th[u].fd
                      /\ Carries(u) => u # t /\ Carries(u)' /\ th'[u] = th[u]
                      /\ ~Fetching(u)' /\ ~Fetching(u) /\ ~Posting(u)' /\ ~Posting(u)
                      /\ ~At(u, "thread", "copy")' /\ ~At(u, "thread", "copy")
                      /\ th'[u].kind = "thread" /\ th'[u].pc \in {"more", "tok", "run"} => u = t
  BY <1>1, <1>2 DEF Serving, Carries, At, Resting, Fetching, Posting
<1>5. OneAtATime'
  BY <1>1, <1>2, <1>3 DEF OneAtATime
<1>6. OwnDescriptors'
  <2>1. file[th[t].fd] = c /\ c \notin unread'
    BY <1>0 DEF Holds
  <2> QED BY <1>1, <1>2, <1>4, <2>1 DEF Handed, OwnDescriptors
<1>7. Owned'
  BY <1>1, <1>4 DEF Handed, Owned
<1>8. Attended'
  <2>1. ASSUME NEW e \in Conns, net[e] = "open"
        PROVE  \/ denied
               \/ \E u \in Tids : Carries(u)' /\ th'[u].cmd = e
    <3>1. \/ denied
          \/ \E u \in Tids : Carries(u) /\ th[u].cmd = e
          \/ Holds(t, e)
      BY <1>2, <1>3, <1>4, <2>1 DEF Handed, Attended
    <3>2. Holds(t, e) => e = c
      BY <1>0 DEF Holds
    <3>3. Carries(t)' /\ th'[t].cmd = c
      BY <1>0, <1>1 DEF Carries
    <3> QED BY <1>4, <3>1, <3>2, <3>3
  <2> QED BY <1>1, <2>1 DEF Attended
<1> QED BY <1>5, <1>6, <1>7, <1>8 DEF Handed

\* So does a command.
LEMMA RunHanded ==
    ASSUME Types, Born, Handed, NEW t \in Tids, CmdRun(t)
    PROVE  Handed'
<1>1. /\ th[t].kind = "thread" /\ th[t].pc = "run"
      /\ th'[t].kind = "thread" /\ th'[t].pc = "recv" /\ th'[t].fd = th[t].fd
      /\ UNCHANGED <<net, lpc, lret, conInf, unread, file>>
  BY CmdRunEffect DEF At, Same, listener
<1>2. \/ denied' = TRUE /\ \A u \in Tids \ {t} : th'[u] = th[u]
      \/ /\ UNCHANGED denied
         /\ \E b \in Tids \ {t} : /\ th[b].kind = "thread" /\ th[b].pc = "none"
                                  /\ th'[b] = NewHcon(t)
                                  /\ \A u \in Tids \ {t, b} : th'[u] = th[u]
  BY CmdRunEffect
<1>3. /\ lpc # "create" /\ \A c \in Conns : net[c] # "queued"
      /\ \A u \in Tids \ {t} : Resting(u)
  BY <1>1, BusyFacts DEF Resting
<1>4. \A u \in Tids \ {t} : \/ th'[u] = th[u]
                            \/ /\ th[u].kind = "thread" /\ th[u].pc = "none" /\ th'[u].kind = "hcon"
                               /\ th'[u].pc = "frame" /\ th'[u].cmd = th[t].cmd
                               /\ \A v \in Tids \ {t, u} : th'[v] = th[v]
  BY <1>2, NewHconFields
<1>5. \A u \in Tids : /\ Serving(u)' <=> Serving(u)
                      /\ Serving(u) => th'[u].fd = th[u].fd
                      /\ Carries(u) /\ u # t => Carries(u)' /\ th'[u] = th[u]
                      /\ ~Fetching(u)' /\ ~Fetching(u) /\ ~Posting(u)' /\ ~Posting(u)
                      /\ ~At(u, "thread", "copy")' /\ ~At(u, "thread", "copy")
                      /\ ~At(u, "thread", "recv")
                      /\ ~(th'[u].kind = "thread" /\ th'[u].pc \in {"more", "tok", "run"})
                      /\ ~Resting(u)' => u = t \/ th'[u].kind = "hcon"
  BY <1>1, <1>3, <1>4 DEF Serving, Carries, At, Resting, Fetching, Posting
<1>6. OneAtATime'
  <2>1. \A c \in unread : ~Holds(t, c)'
    <3>1. file[th[t].fd] \notin unread
      BY <1>1 DEF Handed, OwnDescriptors
    <3> QED BY <1>1, <3>1 DEF Holds
  <2>2. \A u, v \in Tids : th'[u].kind = th'[v].kind /\ ~Resting(u)' /\ ~Resting(v)' => u = v
    BY <1>1, <1>3, <1>4 DEF Resting
  <2>3. \A u \in Tids : ~Resting(u)' /\ th'[u].kind = "thread" => u = t
    BY <1>5
  <2> QED BY <1>1, <1>3, <2>1, <2>2, <2>3 DEF OneAtATime
<1>7. OwnDescriptors'
  BY <1>1, <1>3, <1>5 DEF Handed, OwnDescriptors
<1>8. denied => denied'
  BY <1>2
<1>9. Owned'
  BY <1>1, <1>5, <1>8 DEF Handed, Owned
<1>10. Attended'
  <2>1. ASSUME NEW c \in Conns, net[c] = "open"
        PROVE  denied' \/ \E u \in Tids : Carries(u)' /\ th'[u].cmd = c
    <3>1. denied \/ \E u \in Tids : Carries(u) /\ th[u].cmd = c
      BY <1>3, <1>5, <2>1 DEF Handed, Attended
    <3>2. denied' \/ \E u \in Tids : Carries(u)' /\ th'[u].cmd = th[t].cmd
      BY <1>2, NewHconFields DEF Carries
    <3> QED BY <1>5, <1>8, <3>1, <3>2
  <2> QED BY <1>1, <2>1 DEF Attended
<1> QED BY <1>6, <1>7, <1>9, <1>10 DEF Handed

\* So does the end of a thread.
LEMMA EndHanded ==
    ASSUME Types, Handed, NEW t \in Tids, ThreadEnd(t)
    PROVE  Handed'
<1>1. /\ th[t].kind = "thread" /\ th[t].pc = "sleep"
      /\ th'[t].kind = "thread" /\ th'[t].pc = "end" /\ Close(th[t].fd)
      /\ \A u \in Tids \ {t} : th'[u] = th[u]
      /\ UNCHANGED <<net, lpc, lret, conInf, denied, unread>>
  BY ThreadEndEffect DEF At, Moves
<1>2. Serving(t) /\ th[t].fd \in Fds /\ file[th[t].fd] \in Conns
  BY <1>1 DEF Serving, Handed, OwnDescriptors
<1>3. /\ file'[th[t].fd] = Free
      /\ \A d \in Fds : d # th[t].fd => file'[d] = file[d]
  <2>1. file[th[t].fd] # Awaited
    BY <1>2, NamesDiffer
  <2> QED BY <1>1, <1>2, <2>1 DEF Close
<1>4. \A u \in Tids : /\ Resting(u)' <=> Resting(u)
                      /\ Serving(u)' => u # t /\ Serving(u) /\ th'[u] = th[u]
                      /\ Serving(u) => u = t \/ (Serving(u)' /\ th'[u] = th[u])
                      /\ Carries(u) => Carries(u)' /\ th'[u] = th[u]
                      /\ ~Resting(u)' => u # t /\ th'[u] = th[u]
                      /\ Fetching(u)' => u # t /\ Fetching(u) /\ th'[u] = th[u]
                      /\ Fetching(u) => Fetching(u)' /\ th'[u] = th[u]
                      /\ Posting(u)' => u # t /\ Posting(u) /\ th'[u] = th[u]
                      /\ Posting(u) => Posting(u)' /\ th'[u] = th[u]
                      /\ At(u, "thread", "copy")' <=> At(u, "thread", "copy")
                      /\ At(u, "thread", "recv") => At(u, "thread", "recv")' /\ th'[u] = th[u]
                                                    /\ Serving(u) /\ u # t
                      /\ th'[u].kind = "thread" /\ th'[u].pc \in {"more", "tok", "run"} =>
                            th'[u] = th[u] /\ Serving(u) /\ u # t
  BY <1>1 DEF Serving, Carries, At, Resting, Fetching, Posting
<1>5. \A u \in Tids : Serving(u) /\ u # t => th[u].fd # th[t].fd
  BY <1>2 DEF Handed, OwnDescriptors
<1>6. \A d : Fresh(d) => d # th[t].fd /\ Fresh(d)'
  <2> SUFFICES ASSUME NEW d, Fresh(d) PROVE d # th[t].fd /\ Fresh(d)'
    OBVIOUS
  <2>1. d # th[t].fd
    BY <1>2 DEF Fresh
  <2> QED BY <1>1, <1>3, <1>4, <2>1 DEF Fresh
<1>7. OneAtATime'
  <2>2. AllRest => AllRest'
    BY <1>4 DEF AllRest
  <2>3. ASSUME NEW u \in Tids, NEW h \in Tids, th'[h].kind = "hcon", th'[u].kind = "thread",
               ~Resting(h)', ~Resting(u)'
        PROVE  th'[u].pc = "recv" /\ \A c \in unread : ~Holds(u, c)'
    <3>1. th[u].pc = "recv" /\ (\A c \in unread : ~Holds(u, c)) /\ u # t
      BY <1>4, <2>3 DEF Handed, OneAtATime
    <3>2. Serving(u)
      BY <1>4, <2>3, <3>1 DEF Serving
    <3> QED BY <1>1, <1>3, <1>4, <1>5, <2>3, <3>1, <3>2 DEF Holds
  <2>4. \A u, v \in Tids : th'[u].kind = th'[v].kind /\ ~Resting(u)' /\ ~Resting(v)' => u = v
    BY <1>4 DEF Handed, OneAtATime
  <2> QED BY <1>1, <2>2, <2>3, <2>4 DEF Handed, OneAtATime
<1>8. OwnDescriptors'
  <2>1. \A d \in Fds : file'[d] = Stdin <=> d = 0
    BY <1>2, <1>3, NamesDiffer DEF Handed, OwnDescriptors
  <2>2. \A u \in Tids : Serving(u)' => th'[u].fd \in Fds /\ file'[th'[u].fd] \in Conns
    BY <1>3, <1>4, <1>5 DEF Handed, OwnDescriptors
  <2>3. \A u, v \in Tids : (Serving(u) /\ Serving(v))' /\ th'[u].fd = th'[v].fd => u = v
    BY <1>4 DEF Handed, OwnDescriptors
  <2>4. ASSUME NEW u \in Tids, th'[u].kind = "thread", th'[u].pc \in {"more", "tok", "run"}
        PROVE  file'[th'[u].fd] \notin unread
    BY <1>3, <1>4, <1>5, <2>4 DEF Handed, OwnDescriptors
  <2>5. \A u \in Tids : Fetching(u)' => th'[u].fd \in Fds /\ file'[th'[u].fd] = u
    <3> SUFFICES ASSUME NEW u \in Tids, Fetching(u)'
                 PROVE  th'[u].fd \in Fds /\ file'[th'[u].fd] = u
      OBVIOUS
    <3>1. th'[u] = th[u] /\ th[u].fd \in Fds /\ file[th[u].fd] = u
      BY <1>4 DEF Handed, OwnDescriptors
    <3>2. th[u].fd # th[t].fd
      BY <1>2, <3>1, NamesDiffer
    <3> QED BY <1>3, <3>1, <3>2
  <2>7. ASSUME NEW u \in Tids, Posting(u)'
        PROVE  th'[u].rep \in Fds /\ file'[th'[u].rep] = u /\ th'[u].rep # th'[u].fd
    <3>1. /\ th'[u] = th[u] /\ th[u].rep \in Fds /\ file[th[u].rep] = u
          /\ th[u].rep # th[u].fd
      BY <1>4, <2>7 DEF Handed, OwnDescriptors
    <3>2. th[u].rep # th[t].fd
      BY <1>2, <3>1, NamesDiffer
    <3> QED BY <1>3, <3>1, <3>2
  <2>8. lpc = "wait" => lret \in Fds /\ file'[lret] = Awaited
    <3>1. lpc = "wait" => lret \in Fds /\ file[lret] = Awaited
      BY DEF Handed, OwnDescriptors
    <3>2. lpc = "wait" => lret # th[t].fd
      BY <1>2, <3>1, NamesDiffer
    <3> QED BY <1>3, <3>1, <3>2
  <2>6. /\ lpc' = "create" => Fresh(lret)'
        /\ \A u \in Tids : At(u, "thread", "copy")' => Fresh(conInf)'
    <3>1. lpc = "create" => Fresh(lret)'
      BY <1>1, <1>6 DEF Handed, OwnDescriptors, Fresh
    <3>2. ASSUME NEW u \in Tids, At(u, "thread", "copy") PROVE Fresh(conInf)'
      BY <1>1, <1>6, <3>2 DEF Handed, OwnDescriptors, Fresh
    <3> QED BY <1>1, <1>4, <3>1, <3>2
  <2> QED BY <1>1, <2>1, <2>2, <2>3, <2>4, <2>5, <2>6, <2>7, <2>8 DEF OwnDescriptors
<1>9. Owned'
  <2>1. \A d \in Fds : file'[d] \in Conns => d # th[t].fd /\ file[d] \in Conns
    BY <1>3, NamesDiffer
  <2>2. \A d \in Fds, u \in Tids : file'[d] = u => file[d] = u
    BY <1>3, NamesDiffer
  <2> QED BY <1>1, <1>4, <2>1, <2>2 DEF Handed, Owned
<1>10. Attended'
  <2>1. ASSUME NEW c \in Conns, net[c] = "open"
        PROVE  \/ denied
               \/ \E u \in Tids : Carries(u)' /\ th'[u].cmd = c
               \/ c \in unread /\ lpc = "create" /\ lret \in Fds /\ file'[lret] = c
               \/ c \in unread /\ \E u \in Tids :
                     \/ At(u, "thread", "copy")' /\ conInf \in Fds /\ file'[conInf] = c
                     \/ At(u, "thread", "recv")' /\ Holds(u, c)'
    <3>1. CASE lpc = "create" /\ lret \in Fds /\ file[lret] = c
      <4>1. Fresh(lret)
        BY <3>1 DEF Handed, OwnDescriptors
      <4>2. c \in unread
        BY <3>1, <4>1 DEF Fresh
      <4> QED BY <1>3, <1>6, <3>1, <4>1, <4>2
    <3>2. ASSUME NEW u \in Tids, At(u, "thread", "copy"), conInf \in Fds, file[conInf] = c
          PROVE  At(u, "thread", "copy")' /\ file'[conInf] = c
      BY <1>3, <1>4, <1>6, <3>2 DEF Handed, OwnDescriptors
    <3>3. ASSUME NEW u \in Tids, At(u, "thread", "recv"), Holds(u, c)
          PROVE  At(u, "thread", "recv")' /\ Holds(u, c)'
      BY <1>3, <1>4, <1>5, <3>3 DEF Holds
    <3> QED BY <1>4, <2>1, <3>1, <3>2, <3>3 DEF Handed, Attended
  <2> QED BY <1>1, <2>1 DEF Attended
<1> QED BY <1>7, <1>8, <1>9, <1>10 DEF Handed

----------------------------------------------------------------------------
(* The theorems.                                                           *)

\* Whether commands come one at a time does not change, and an accept that failed has
\* failed for good.
LEMMA CalmStays == ASSUME [Next]_vars PROVE calm' = calm /\ (starved => starved')
<1>1. ASSUME NEW t \in Tids, Thread(t) PROVE UNCHANGED <<calm, starved>>
  BY <1>1 DEF Thread, CopyConInf, RecvCommand, RecvEnd, CmdRun, WildPointer, ThreadEnd, listener
<1>2. ASSUME NEW t \in Tids, Split(t) PROVE UNCHANGED <<calm, starved>>
  BY <1>2 DEF Split, SplitLoad, SplitStore, listener
<1>3. ASSUME NEW t \in Tids, Hcon(t) PROVE UNCHANGED <<calm, starved>>
  BY <1>3 DEF Hcon, CopyFrame, HttpGet, HttpGetFails, GetHeader, GetHeaderFails, GetProc, Report,
              Posted, WorkEnd, listener
<1> QED BY <1>1, <1>2, <1>3
        DEF Next, Connect, HwListen, Accept, Accepted, StartThread, Step, vars

\* Every step hands the connection on, as long as commands come one at a time and accept
\* finds a descriptor.
LEMMA HandedStep ==
    ASSUME Types, Born, ReadOnce, calm, Handed, ~starved', [Next]_vars
    PROVE  Handed'
<1>0. Types /\ Born /\ ReadOnce /\ Handed
  OBVIOUS
<1>1. ASSUME NEW c \in Conns, Connect(c) PROVE Handed'
  BY <1>0, <1>1, ConnectHanded
<1>2. CASE Accept
  BY <1>0, <1>2, AcceptHanded
<1>11. CASE Accepted
  BY <1>0, <1>11, AcceptedHanded
<1>3. CASE StartThread
  BY <1>0, <1>3, StartHanded
<1>4. ASSUME NEW t \in Tids, CopyConInf(t) PROVE Handed'
  BY <1>0, <1>4, CopyHanded
<1>5. ASSUME NEW t \in Tids, RecvCommand(t) PROVE Handed'
  BY <1>0, <1>5, RecvHanded
<1>6. ASSUME NEW t \in Tids, CmdRun(t) PROVE Handed'
  BY <1>0, <1>6, RunHanded
<1>7. ASSUME NEW t \in Tids, ThreadEnd(t) PROVE Handed'
  BY <1>0, <1>7, EndHanded
<1>8. ASSUME NEW t \in Tids,
             \/ RecvEnd(t) \/ Split(t) \/ CopyFrame(t)
             \/ HttpGet(t) \/ HttpGetFails(t) \/ GetHeader(t) \/ GetHeaderFails(t)
             \/ GetProc(t) \/ Report(t) \/ Posted(t) \/ WorkEnd(t)
      PROVE  Handed'
  <2>1. OneAtATime /\ OwnDescriptors /\ Owned /\ Attended
    BY <1>0 DEF Handed
  <2>2. PICK p : Quiet(t, p)
    BY <1>0, <1>8, <2>1, QuietSteps DEF Split
  <2> QED BY <1>0, <2>1, <2>2, QuietOne, QuietDescriptors, QuietOwned, QuietAttended DEF Handed
<1>9. ASSUME NEW t \in Tids, WildPointer(t) PROVE Handed'
  BY <1>0, <1>9, SameHanded DEF WildPointer, listener
<1>10. CASE UNCHANGED vars
  BY <1>0, <1>10, SameHanded DEF vars
<1> QED BY <1>1, <1>2, <1>3, <1>4, <1>5, <1>6, <1>7, <1>8, <1>9, <1>10, <1>11
        DEF Next, HwListen, Step, Thread, Hcon

\* The invariant holds at first.
LEMMA IInvInit == Init => IInv
<1> SUFFICES ASSUME Init PROVE IInv
  OBVIOUS
<1>0. \A t \in Tids : th[t] = NewThread
  BY DEF Init
<1>1. NewThread \in Records
  <2>1. 0 \in 0 .. MaxThreads /\ 0 \in 0 .. MaxReports /\ <<>> \in Seq(Tokens) /\ "none" \in PcsOfThread
    BY LimitsAreNat DEF PcsOfThread
  <2> QED BY <2>1 DEF NewThread, Records
<1>2. Types
  <2>1. th \in [Tids -> Records]
    BY <1>1 DEF Init
  <2>2. calm \in BOOLEAN /\ up \in BOOLEAN /\ denied \in BOOLEAN /\ starved \in BOOLEAN
    BY LimitsAreNat DEF Init
  <2>3. born \in 0 .. MaxThreads /\ conInf \in Fds
    BY LimitsAreNat, FdFacts DEF Init
  <2>4. fetch \in [Conns -> Seq(Conns)] /\ tok \in Seq(Tokens)
    BY DEF Init
  <2> QED BY <2>1, <2>2, <2>3, <2>4 DEF Init, Types
<1>3. \A t \in Tids : /\ th[t].kind = "thread" /\ th[t].pc = "none" /\ th[t].pos = <<>>
                      /\ th[t].arr = <<>> /\ th[t].key = Junk /\ th[t].arg = 0
  BY <1>0 DEF NewThread
<1>4. Born
  <2>1. \A t \in Tids : t > born /\ 0 <= born
    BY LimitsAreNat DEF Init, Tids
  <2>2. "none" \in PcsOfThread /\ born = 0
    BY DEF Init, PcsOfThread
  <2> QED BY <1>3, <2>1, <2>2 DEF Born
<1>5. ReadOnce
  <2>1. \A t \in Tids : ~Carries(t)
    BY <1>3 DEF Carries
  <2>2. OfRead(<<>>) /\ Junk \notin unread
    BY NamesDiffer DEF OfRead, Init
  <2>3. \A d \in Fds, c \in Conns : file[d] # c
    BY NamesDiffer DEF Init
  <2> QED BY <1>3, <2>1, <2>2, <2>3 DEF ReadOnce, Init
<1>6. Handed
  <2>1. \A t \in Tids : Resting(t) /\ ~Carries(t) /\ ~Serving(t) /\ ~Fetching(t)
                        /\ ~Posting(t) /\ ~At(t, "thread", "copy")
    BY <1>3 DEF Resting, Carries, Serving, Fetching, Posting, At
  <2>2. OneAtATime
    BY <2>1 DEF OneAtATime, AllRest, Init
  <2>3. OwnDescriptors
    BY <1>3, <2>1, NamesDiffer DEF OwnDescriptors, Init
  <2>4. Owned
    BY NamesDiffer, FdFacts DEF Owned, Init
  <2>5. Attended
    BY DEF Attended, Init
  <2> QED BY <2>2, <2>3, <2>4, <2>5 DEF Handed
<1>7. OneWorker /\ OwnText
  <2>1. OwnText
    BY <1>3 DEF OwnText, Splits, Works
  <2>2. \A t \in Tids : ~Working(t)
    BY <1>3 DEF Working, Resting
  <2>3. \A c \in Conns : ~Pending(c)
    BY DEF Pending, Init
  <2> QED BY <2>1, <2>2, <2>3 DEF OneWorker
<1> QED BY <1>2, <1>4, <1>5, <1>6, <1>7 DEF IInv

\* Every step keeps it.
LEMMA IInvStep == IInv /\ [Next]_vars => IInv'
<1> SUFFICES ASSUME IInv, [Next]_vars PROVE IInv'
  OBVIOUS
<1>1. Types' /\ Born' /\ ReadOnce'
  BY TypeStep, ReadStep DEF IInv
<1>2. calm' = calm /\ (starved => starved')
  BY CalmStays
<1>3. calm => OneWorker' /\ OwnText'
  BY OneWorkerStep, TextStep DEF IInv
<1>4. calm /\ ~starved' => Handed'
  BY <1>2, HandedStep DEF IInv
<1> QED BY <1>1, <1>2, <1>3, <1>4 DEF IInv

\* The invariant holds in every reachable state: where each thread stands and which command
\* it works for; while nothing overlaps, that every token and text is its own; and, until an
\* accept fails for want of a descriptor, that every descriptor is its own too.
THEOREM Invariance == Spec => []IInv
  BY IInvInit, IInvStep, PTL DEF Spec

\* Every variable keeps its type; a thread that was not created yet does nothing.
THEOREM TypeCorrect == Spec => []TypeOK
<1>1. IInv => TypeOK
  <2> SUFFICES ASSUME IInv PROVE TypeOK
    OBVIOUS
  <2>1. Types /\ Born
    BY DEF IInv
  <2>2. ASSUME NEW t \in Tids
        PROVE  /\ th[t].pc \in (IF th[t].kind = "hcon" THEN PcsOfHcon ELSE PcsOfThread)
               /\ th[t].pc = "none" <=> t > born
               /\ {th[t].fd, th[t].rep} \subseteq Fds \cup {NoFd} /\ th[t].due \in 0 .. MaxReports
               /\ th[t].key \in Conns \cup {Junk}
               /\ th[t].arg \in 0 .. born
               /\ \A i \in DOMAIN th[t].arr : th[t].arr[i] \in Tokens
    <3>1. th[t] \in Records
      BY <2>1 DEF Types
    <3>2. th[t].arg \in 0 .. MaxThreads /\ th[t].arg <= born /\ born \in 0 .. MaxThreads
      BY <2>1, <3>1 DEF Records, Born, Types
    <3>3. th[t].arr \in Seq(Tokens)
      BY <3>1 DEF Records
    <3>4. th[t].arg \in 0 .. born
      BY <3>2, LimitsAreNat
    <3>5. \A i \in DOMAIN th[t].arr : th[t].arr[i] \in Tokens
      BY <3>3
    <3>6. /\ {th[t].fd, th[t].rep} \subseteq Fds \cup {NoFd} /\ th[t].due \in 0 .. MaxReports
          /\ th[t].key \in Conns \cup {Junk}
      BY <3>1 DEF Records
    <3> QED BY <2>1, <3>4, <3>5, <3>6 DEF Born
  <2>3. {calm, up, denied, starved} \subseteq BOOLEAN
    BY <2>1 DEF Types
  <2> QED BY <2>1, <2>2, <2>3 DEF TypeOK, Types
<1> QED BY <1>1, Invariance, PTL

\* However threads mix up their sockets and tokens, no command is received twice, and at
\* most one task is fetched on behalf of a received one; its own, if they come one at a
\* time (HwListen, CmdRun, HttpGet).
THEOREM IntakeKept == Spec => KeepsIntake
<1>1. Init => Intake!Init
  BY LimitsAreNat DEF Init, Intake!Init
<1>2. IInv /\ [Next]_vars => [Intake!Next]_(Intake!vars)
  <2> SUFFICES ASSUME IInv, [Next]_vars PROVE [Intake!Next]_(Intake!vars)
    OBVIOUS
  <2>0. Types /\ Born /\ ReadOnce /\ calm' = calm
    BY CalmStays DEF IInv
  <2>1. ASSUME UNCHANGED <<unread, fetch>> PROVE UNCHANGED Intake!vars
    BY <2>0, <2>1 DEF Intake!vars
  <2>2. ASSUME NEW t \in Tids, RecvCommand(t) PROVE Intake!Next
    <3>1. PICK c \in unread : unread' = unread \ {c}
      BY <2>0, <2>2, RecvCommandEffect
    <3>2. fetch' = fetch /\ unread \subseteq Conns
      BY <2>0, <2>2, RecvCommandEffect DEF Types
    <3>3. Intake!Receive(c)
      BY <2>0, <3>1, <3>2 DEF Intake!Receive
    <3> QED BY <3>1, <3>2, <3>3 DEF Intake!Next
  <2>3. ASSUME NEW t \in Tids, HttpGet(t) PROVE Intake!Next \/ UNCHANGED Intake!vars
    <3>1. /\ th[t].kind = "hcon" /\ th[t].pc = "get" /\ UNCHANGED unread
          /\ th[t].key \notin Conns => fetch' = fetch
      BY <2>0, <2>3, HttpGetEffect DEF At
    <3>2. CASE th[t].key \in Conns
      <4> DEFINE c == th[t].cmd
                 k == th[t].key
      <4>1. c \in Conns \ unread /\ fetch[c] = <<>> /\ k \in Conns \ unread
        BY <2>0, <3>1, <3>2 DEF ReadOnce, Carries, Unfetched
      <4>2. fetch' = [fetch EXCEPT ![c] = Append(fetch[c], k)]
        BY <2>0, <2>3, <3>2, HttpGetEffect
      <4>3. calm => k = c
        <5>1. calm => Works(t)
          BY DEF IInv, OwnText
        <5> QED BY <3>1, <3>2, <5>1, NamesDiffer DEF Works
      <4>4. Append(fetch[c], k) = <<k>>
        BY <4>1
      <4> HIDE DEF c, k
      <4>5. Intake!Fetch(c)
        BY <2>0, <3>1, <4>1, <4>2, <4>3, <4>4 DEF Intake!Fetch
      <4> QED BY <4>1, <4>5 DEF Intake!Next
    <3>3. CASE th[t].key \notin Conns
      BY <2>1, <3>1, <3>3
    <3> QED BY <3>2, <3>3
  <2>4. ASSUME NEW t \in Tids, Thread(t), ~RecvCommand(t) PROVE UNCHANGED <<unread, fetch>>
    BY <2>4 DEF Thread, CopyConInf, RecvEnd, CmdRun, WildPointer, ThreadEnd
  <2>5. ASSUME NEW t \in Tids, Split(t) PROVE UNCHANGED <<unread, fetch>>
    BY <2>5 DEF Split, SplitLoad, SplitStore
  <2>6. ASSUME NEW t \in Tids, Hcon(t), ~HttpGet(t) PROVE UNCHANGED <<unread, fetch>>
    BY <2>6 DEF Hcon, CopyFrame, HttpGetFails, GetHeader, GetHeaderFails, GetProc, Report,
                Posted, WorkEnd
  <2>7. ASSUME \/ \E c \in Conns : Connect(c)
               \/ HwListen
               \/ UNCHANGED vars
        PROVE  UNCHANGED <<unread, fetch>>
    BY <2>7 DEF Connect, HwListen, Accept, Accepted, StartThread, vars
  <2> QED BY <2>1, <2>2, <2>3, <2>4, <2>5, <2>6, <2>7 DEF Next, Step
<1> QED BY <1>1, <1>2, Invariance, PTL DEF Spec, KeepsIntake, Intake!Spec

\* hcon works with the key and the lines of the answer of its own command, if the commands
\* come one at a time (the address of serv, the position of strtok).
THEOREM OwnTask == Spec => []PushesOwnTask
<1>1. IInv => PushesOwnTask
  <2> SUFFICES ASSUME IInv, calm, NEW t \in Tids, th[t].kind = "hcon"
               PROVE  /\ th[t].pc \notin {"frame", "end"} =>
                            th[t].key = th[t].cmd \/ th[t].arg \in reused
                      /\ \A i \in DOMAIN th[t].arr :
                            th[t].arr[i] \in {VeFile(th[t].cmd)[i], VeProc(th[t].cmd)[i]}
    BY DEF PushesOwnTask
  <2>1. Works(t)
    BY DEF IInv, OwnText
  <2> QED BY <2>1 DEF Works
<1> QED BY <1>1, Invariance, PTL

\* Once all threads ended, every accepted connection is closed and every socket of an hcon
\* too, but for those whose connect failed, if the commands come one at a time, no accept
\* failed for want of a descriptor and every thread could be created (close in thread and
\* hcon).
THEOREM Descriptors == Spec => []DescriptorsReturned
<1>1. IInv => DescriptorsReturned
  <2> SUFFICES ASSUME IInv, calm, ~starved, AtRest, ~denied
               PROVE  file[0] = Stdin /\ \A d \in Fds : file[d] \in {Free, Stdin, Leaked, Awaited}
    BY DEF DescriptorsReturned
  <2>1. Types /\ OwnDescriptors /\ Owned
    BY DEF IInv, Handed
  <2>2. /\ lpc # "create"
        /\ \A t \in Tids : /\ ~Serving(t) /\ ~Fetching(t) /\ ~Posting(t)
                           /\ ~At(t, "thread", "copy")
    BY DEF AtRest, Serving, Fetching, Posting, At
  <2>3. \A d \in Fds : file[d] \notin Conns \cup Tids
    BY <2>1, <2>2 DEF Owned
  <2>4. file[0] = Stdin
    BY <2>1, FdFacts DEF OwnDescriptors
  <2> QED BY <2>1, <2>3, <2>4 DEF Types
<1> QED BY <1>1, Invariance, PTL

\* No accepted command is lost between accept, recv and CmdRun, and none gets two hcons,
\* if the commands come one at a time, no accept failed for want of a descriptor and every
\* thread could be created.
THEOREM NoneStuck == Spec => []NoCommandStuck
<1>1. IInv => NoCommandStuck
  <2> SUFFICES ASSUME IInv, calm, ~starved, AtRest, ~denied, NEW c \in Conns, net[c] = "open"
               PROVE  \E t \in Tids : /\ th[t].kind = "hcon" /\ th[t].cmd = c
                                      /\ \A u \in Tids : th[u].kind = "hcon" /\ th[u].cmd = c => u = t
    BY DEF NoCommandStuck
  <2>1. ReadOnce /\ Attended
    BY DEF IInv, Handed
  <2>2. lpc # "create" /\ \A t \in Tids : ~At(t, "thread", "copy") /\ ~At(t, "thread", "recv")
    BY DEF AtRest, At
  <2>3. PICK t \in Tids : Carries(t) /\ th[t].cmd = c
    BY <2>1, <2>2 DEF Attended
  <2>4. th[t].kind = "hcon"
    BY <2>3 DEF AtRest, Carries
  <2>5. \A u \in Tids : th[u].kind = "hcon" /\ th[u].cmd = c => u = t
    BY <2>1, <2>3 DEF ReadOnce, Carries
  <2> QED BY <2>3, <2>4, <2>5
<1> QED BY <1>1, Invariance, PTL
=============================================================================
