------------------------------ MODULE Session ------------------------------
(***************************************************************************)
(* Operators of the center: rows of user_tab, PHP sessions of browsers,    *)
(* and the check every page starts with.  checkuser.php logs in,           *)
(* chackuser lets a request pass on the strength of the session and reads  *)
(* user_tab again (seluser) only when more than a minute seems to have     *)
(* passed; the pages behind right 0 change user_tab.                       *)
(*                                                                         *)
(* Time is read as date('his'): hour, minute and second of a 12-hour dial, *)
(* two decimal digits each, subtracted as one number.  The dial begins at  *)
(* 01:00:00 and ends at 12:59:59.                                          *)
(*                                                                         *)
(* user_tab is searched by name and password hash together, so the pair is *)
(* one credential.  Of the rights only 0 matters here: it opens the pages  *)
(* that change user_tab.                                                   *)
(***************************************************************************)
EXTENDS Integers, FiniteSets, FiniteSetsExt

CONSTANTS
    Browsers,       \* browsers, one PHP session each
    Watched,        \* the browser the histories and the properties are about
    MaxId,          \* bound: rows of user_tab; ids are counted up
    Creds,          \* name and password pairs somebody can type
    Veadmin,        \* the pair the database is installed with
    Locked,         \* no password: an empty hash, which matches nothing typed
    NoRow, NoSession, Idle,
    Hours, Minutes, Seconds,   \* of the dial: 12, 60, 60
    Base,           \* weight of a two-digit group: 100
    Limit,          \* the difference that calls for a re-check: 60
    MaxEdits        \* bound: changes of user_tab

ASSUME DialAssumption ==
    /\ {Hours, Minutes, Seconds, MaxId} \subseteq Nat \ {0}
    /\ Base \in Nat /\ Minutes <= Base /\ Seconds < Base /\ Seconds <= Limit
    /\ Limit \in Nat /\ MaxEdits \in Nat /\ Watched \in Browsers /\ Veadmin \in Creds

Ids  == 1 .. MaxId
Dial == 0 .. Hours * Minutes * Seconds - 1

\* date('his') at second t of the dial.
His(t) == LET h == t \div (Minutes * Seconds)
              m == (t \div Seconds) % Minutes
              s == t % Seconds
          IN  ((h + 1) * Base + m) * Base + s

Rows     == [cred : Creds \cup {Locked}, ste : {0, 1}, admin : BOOLEAN]
Sessions == [cred : Creds, tid : Ids, admin : BOOLEAN, dte : {His(t) : t \in Dial}]
\* chste, SaveUser of an existing row, SaveUser of a new row.
Edits    == [op : {"ste"}, id : Ids, ste : {0, 1}]
       \cup [op : {"save"}, id : Ids, row : Rows]
       \cup [op : {"add"}, row : [cred : Creds, ste : {0, 1}, admin : BOOLEAN]]

VARIABLES
    user,        \* user[i]: row i of user_tab
    sess,        \* sess[b]: #UID and #PWD, #TID, right 0 in #GRUP, #DTE
    doing,       \* doing[b]: a change of user_tab that passed chackuser and Gants
    now,         \* the second of the dial
    served,      \* Watched got a page in this second (history)
    edits,       \* changes of user_tab so far
    stale,       \* seconds since user_tab last agreed with sess[Watched] (history)
    turned       \* one o'clock passed since #DTE of Watched was set (history)

vars == <<user, sess, doing, now, served, edits, stale, turned>>

Live(b) == sess[b] # NoSession

TypeOK ==
    /\ user \in [Ids -> Rows \cup {NoRow}]
    /\ sess \in [Browsers -> Sessions \cup {NoSession}]
    /\ doing \in [Browsers -> Edits \cup {Idle}]
    /\ \A b \in Browsers : doing[b] # Idle => Live(b) /\ sess[b].admin
    /\ now \in Dial /\ served \in BOOLEAN
    /\ edits \in 0 .. MaxEdits
    /\ stale \in 0 .. Limit /\ turned \in BOOLEAN

\* hfwdata.sql's administrator, turned on, and an account made since, or none.
Init ==
    /\ \E other \in Rows \cup {NoRow} :
          user = [i \in Ids |-> CASE i = 1 -> [cred |-> Veadmin, ste |-> 1, admin |-> TRUE]
                                 [] i = 2 -> other
                                 [] OTHER -> NoRow]
    /\ sess = [b \in Browsers |-> NoSession] /\ doing = [b \in Browsers |-> Idle]
    /\ now \in Dial /\ edits = 0
    /\ served = FALSE /\ stale = 0 /\ turned = FALSE

----------------------------------------------------------------------------
\* The row a select by credential returns first.
Match(table, c) == {i \in Ids : table[i] # NoRow /\ table[i].cred = c}
Valid(table, c, i) == /\ Match(table, c) # {} /\ i = Min(Match(table, c))
                      /\ table[i].ste = 1

\* checkuser.php without a session: the first row that matches, if it is turned on.
\* (With a session the answer is "logined" and nothing is looked up.)
Login(b, c) ==
    /\ ~Live(b)
    /\ \E i \in Ids :
          /\ Valid(user, c, i)
          /\ sess' = [sess EXCEPT ![b] = [cred |-> c, tid |-> i, admin |-> user[i].admin,
                                          dte |-> His(now)]]
    /\ stale'  = IF b = Watched THEN 0 ELSE stale
    /\ turned' = (turned /\ b # Watched)
    /\ UNCHANGED <<user, doing, now, served, edits>>

\* Variant with a bug: the difference is taken the other way round.
DueSwapped(b) == sess[b].dte - His(now) > Limit

Due(b) == His(now) - sess[b].dte > Limit

\* seluser finds the row of the login, turned on.
Passes(b) == Valid(user, sess[b].cred, sess[b].tid)

\* The session after chackuser: when due it is ended or its #DTE set.
Checked(b) == CASE ~Due(b) -> sess[b]
                [] Due(b) /\ Passes(b) -> [sess[b] EXCEPT !.dte = His(now)]
                [] OTHER -> NoSession

\* Variant with a bug: every request sets #DTE.
ChackuserSliding(b) ==
    /\ Live(b) /\ doing[b] = Idle
    /\ sess'   = [sess EXCEPT ![b] = IF Due(b) /\ ~Passes(b) THEN NoSession
                                     ELSE [@ EXCEPT !.dte = His(now)]]
    /\ turned' = (turned /\ b # Watched)
    /\ served' = (served \/ (b = Watched /\ sess'[b] # NoSession))

\* chackuser, at the head of every page.  session_start keeps the session locked, so
\* a browser has one request at a time.
Chackuser(b) ==
    /\ Live(b) /\ doing[b] = Idle
    /\ sess'   = [sess EXCEPT ![b] = Checked(b)]
    /\ turned' = (turned /\ (b # Watched \/ ~Due(b)))
    /\ served' = (served \/ (b = Watched /\ sess'[b] # NoSession))

\* A page that leaves user_tab alone, for one the poll of a push (chtask).
Request(b) ==
    /\ Chackuser(b)
    /\ UNCHANGED <<user, doing, now, edits, stale>>

\* Variant with a bug: the right is not asked for.
AskEditOpen(b, e) ==
    /\ edits < MaxEdits
    /\ Chackuser(b) /\ sess'[b] # NoSession
    /\ doing' = [doing EXCEPT ![b] = e]
    /\ edits' = edits + 1
    /\ UNCHANGED <<user, now, stale>>

\* A page that changes user_tab, up to its statement: chackuser, then Gants(0) on the
\* rights copied at login.  (Refused, it is a Request.)
AskEdit(b, e) ==
    /\ edits < MaxEdits
    /\ Chackuser(b) /\ sess'[b] # NoSession /\ sess[b].admin
    /\ doing' = [doing EXCEPT ![b] = e]
    /\ edits' = edits + 1
    /\ UNCHANGED <<user, now, stale>>

NextId == Cardinality({i \in Ids : user[i] # NoRow}) + 1

\* Row i after the statement.  An update of no row changes nothing; a password left
\* empty keeps the hash; a new row gets the hash of a variable that is not set.
EditedRow(i, e) ==
    CASE e.op = "ste" /\ i = e.id /\ user[i] # NoRow  -> [user[i] EXCEPT !.ste = e.ste]
      [] e.op = "save" /\ i = e.id /\ user[i] # NoRow ->
             [e.row EXCEPT !.cred = IF @ = Locked THEN user[i].cred ELSE @]
      [] e.op = "add" /\ i = NextId -> [e.row EXCEPT !.cred = Locked]
      [] OTHER -> user[i]

\* The statement itself; requests of other browsers may have come in between.
DoEdit(b) ==
    /\ doing[b] # Idle
    /\ user'  = [i \in Ids |-> EditedRow(i, doing[b])]
    /\ doing' = [doing EXCEPT ![b] = Idle]
    /\ stale' = IF Live(Watched) /\ Valid(user', sess[Watched].cred, sess[Watched].tid)
                THEN 0 ELSE stale
    /\ UNCHANGED <<sess, now, served, edits, turned>>

\* loginout: whatever chackuser says before it, the session is gone after it.
Loginout(b) ==
    /\ Live(b) /\ doing[b] = Idle
    /\ sess' = [sess EXCEPT ![b] = NoSession]
    /\ turned' = (turned /\ b # Watched)
    /\ stale' = IF b = Watched THEN 0 ELSE stale
    /\ UNCHANGED <<user, doing, now, served, edits>>

\* A second passes.  (The two histories stop counting where the properties do.)
Tick ==
    /\ now' = (now + 1) % (Hours * Minutes * Seconds)
    /\ served' = FALSE
    /\ stale'  = IF ~Live(Watched) \/ Passes(Watched) THEN 0
                 ELSE IF stale = Limit THEN stale ELSE stale + 1
    /\ turned' = (Live(Watched) /\ (turned \/ now' = 0))
    /\ UNCHANGED <<user, sess, doing, edits>>

Next == \/ \E b \in Browsers : \/ \E c \in Creds : Login(b, c)
                               \/ Request(b)
                               \/ \E e \in Edits : AskEdit(b, e)
                               \/ DoEdit(b)
                               \/ Loginout(b)
        \/ Tick

Spec == Init /\ [][Next]_vars

\* The clock runs, a statement ends, and a browser that waits for a push polls in
\* every second, so also in the seconds in which the check is due.
FairSpec ==
    /\ Spec
    /\ WF_vars(Tick)
    /\ \A b \in Browsers : WF_vars(DoEdit(b))
    /\ SF_vars(Request(Watched) /\ Due(Watched))

----------------------------------------------------------------------------
\* An operator who was turned off, whose password was changed or whose row another
\* one shadows is served for less than Limit seconds more, unless one o'clock passed
\* since #DTE was set: then the difference is negative and the check does not run.
RevokedSoon ==
    [][served' /\ ~served => stale < Limit \/ turned]_vars

\* Such an operator's session ends, or user_tab agrees with it again, if #DTE is not
\* in the last minute of the dial: no later difference from there exceeds Limit.
LastSecond == His(Hours * Minutes * Seconds - 1)
Revoked == Live(Watched) /\ ~Passes(Watched)
RevokedEnds ==
    Revoked /\ sess[Watched].dte + Limit < LastSecond ~> ~Revoked
============================================================================
