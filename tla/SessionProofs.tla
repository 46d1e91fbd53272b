---------------------------- MODULE SessionProofs ----------------------------
(***************************************************************************)
(* Proofs about Session, for any sets of browsers and credentials, any     *)
(* number of rows and edits, and any dial whose groups are wide enough for *)
(* its minutes and seconds.                                                *)
(***************************************************************************)
EXTENDS Session, FiniteSetTheorems, TLAPS

----------------------------------------------------------------------------
(* The dial: what the difference of two readings says.                     *)

Hour(t)   == t \div (Minutes * Seconds)
Minute(t) == (t \div Seconds) % Minutes
Second(t) == t % Seconds

\* What is known of the clock.
LEMMA DialFacts ==
    /\ Hours \in Nat \ {0} /\ Minutes \in Nat \ {0} /\ Seconds \in Nat \ {0}
    /\ MaxId \in Nat \ {0} /\ MaxEdits \in Nat
    /\ Base \in Nat /\ Minutes <= Base /\ Seconds < Base
    /\ Limit \in Nat /\ Seconds <= Limit
    /\ Watched \in Browsers /\ Veadmin \in Creds
  BY DialAssumption

\* Quotient and remainder.
LEMMA Division ==
    ASSUME NEW a \in Nat, NEW b \in Nat \ {0}
    PROVE  /\ a \div b \in Nat /\ a % b \in 0 .. b - 1
           /\ a = b * (a \div b) + (a % b)
<1>1. a = b * (a \div b) + (a % b)
  BY Z3T(20)
<1>2. a \div b \in Nat
  BY SMTT(20)
<1>3. a % b \in 0 .. b - 1
  OBVIOUS
<1> QED BY <1>1, <1>2, <1>3

\* A larger factor makes a product larger by one more of the other factor.
LEMMA Larger ==
    ASSUME NEW a \in Int, NEW b \in Int, a > b, NEW d \in Nat
    PROVE  d * a >= d * b + d
  OBVIOUS

\* There is one quotient.
LEMMA Quotients ==
    ASSUME NEW d \in Nat, NEW a \in Int, NEW b \in Int, NEW r \in Int, NEW p \in Int,
           0 <= r, r < d, 0 <= p, p < d, d * a + r = d * b + p
    PROVE  a = b
<1>0. d * a \in Int /\ d * b \in Int
  OBVIOUS
<1>1. CASE a > b
  <2>1. d * a >= d * b + d
    BY <1>1, Larger
  <2> QED BY <1>0, <2>1
<1>2. CASE b > a
  <2>1. d * b >= d * a + d
    BY <1>2, Larger
  <2> QED BY <1>0, <2>1
<1> QED BY <1>1, <1>2

\* A second of the dial is its hour, minute and second.
LEMMA Parts ==
    ASSUME NEW t \in Nat
    PROVE  /\ Hour(t) \in Nat /\ Minute(t) \in 0 .. Minutes - 1
           /\ Second(t) \in 0 .. Seconds - 1
           /\ t = (Minutes * Seconds) * Hour(t) + Seconds * Minute(t) + Second(t)
<1> DEFINE D == Minutes * Seconds
           q == t \div Seconds
           h == q \div Minutes
           r == Seconds * Minute(t) + Second(t)
<1>0. Minutes \in Nat \ {0} /\ Seconds \in Nat \ {0}
  BY DialFacts
<1>1. D \in Nat \ {0}
  BY <1>0
<1>2. q \in Nat /\ Second(t) \in 0 .. Seconds - 1 /\ t = Seconds * q + Second(t)
  BY <1>0, Division DEF Second
<1>3. h \in Nat /\ Minute(t) \in 0 .. Minutes - 1 /\ q = Minutes * h + Minute(t)
  BY <1>0, <1>2, Division DEF Minute
<1>4. Hour(t) \in Nat /\ t % D \in 0 .. D - 1 /\ t = D * Hour(t) + (t % D)
  BY <1>1, Division DEF Hour
<1>5. Seconds * q = D * h + Seconds * Minute(t)
  <2>1. Seconds * (Minutes * h + Minute(t)) = (Minutes * Seconds) * h + Seconds * Minute(t)
    <3>1. h \in Int /\ Minute(t) \in Int
      BY <1>3
    <3> HIDE DEF h
    <3> QED BY <1>0, <3>1
  <2> HIDE DEF q, h
  <2> QED BY <1>3, <2>1
<1>6. r \in Nat /\ r < D
  <2>1. Seconds * Minute(t) \in Nat /\ Seconds * Minutes = D
    BY <1>0, <1>3
  <2>2. Seconds * Minutes >= Seconds * Minute(t) + Seconds
    BY <1>0, <1>3, Larger
  <2> HIDE DEF D
  <2> QED BY <1>0, <1>1, <1>2, <1>3, <2>1, <2>2
<1>7. D * h \in Int /\ D * Hour(t) \in Int
  BY <1>1, <1>3, <1>4
<1>8. t = D * h + r
  <2>1. Seconds * q \in Int /\ Seconds * Minute(t) \in Int /\ Second(t) \in Int
    BY <1>0, <1>2, <1>3
  <2> HIDE DEF D, q, h
  <2> QED BY <1>2, <1>5, <1>7, <2>1
<1>9. h = Hour(t)
  <2> DEFINE p == t % D
  <2>1. 0 <= p /\ p < D /\ p \in Int /\ D * Hour(t) + p = t
    BY <1>1, <1>4
  <2>2. D \in Nat /\ h \in Int /\ Hour(t) \in Int /\ r \in Int /\ 0 <= r /\ r < D
    BY <1>1, <1>3, <1>4, <1>6
  <2>3. D * h + r = D * Hour(t) + p
    BY <1>8, <2>1
  <2> HIDE DEF D, h, r, p
  <2> QED BY <2>1, <2>2, <2>3, Quotients
<1>10. t = D * Hour(t) + r
  <2> HIDE DEF D, h, r
  <2> QED BY <1>8, <1>9
<1>11. t = (Minutes * Seconds) * Hour(t) + Seconds * Minute(t) + Second(t)
  <2>1. D * Hour(t) \in Int /\ Seconds * Minute(t) \in Int /\ Second(t) \in Int
    BY <1>0, <1>2, <1>3, <1>7
  <2> QED BY <1>10, <2>1
<1> QED BY <1>2, <1>3, <1>4, <1>11

\* How far a reading is ahead of the second it was taken at.
LEMMA Reading ==
    ASSUME NEW t \in Nat
    PROVE  /\ His(t) \in Int
           /\ His(t) - t = Base * Base + (Base * Base - Minutes * Seconds) * Hour(t)
                           + (Base - Seconds) * Minute(t)
<1> DEFINE h == Hour(t)
           m == Minute(t)
           s == Second(t)
<1>1. His(t) = ((h + 1) * Base + m) * Base + s
  BY DEF His, Hour, Minute, Second
<1>2. h \in Nat /\ m \in Nat /\ s \in Nat /\ t = (Minutes * Seconds) * h + Seconds * m + s
  BY Parts, DialFacts
<1>3. Base \in Nat /\ Minutes \in Nat /\ Seconds \in Nat
  BY DialFacts
<1> HIDE DEF h, m, s
<1>4. ((h + 1) * Base + m) * Base + s
         = Base * Base + (Base * Base) * h + Base * m + s
  BY <1>2, <1>3
<1>5. (Base * Base - Minutes * Seconds) * h = (Base * Base) * h - (Minutes * Seconds) * h
  BY <1>2, <1>3
<1>6. (Base - Seconds) * m = Base * m - Seconds * m
  BY <1>2, <1>3
<1>7. /\ (Base * Base) * h \in Int /\ (Minutes * Seconds) * h \in Int
      /\ Base * m \in Int /\ Seconds * m \in Int /\ Base * Base \in Int
  BY <1>2, <1>3
<1>8. His(t) \in Int /\ His(t) - t = Base * Base + (Base * Base - Minutes * Seconds) * h
                                     + (Base - Seconds) * m
  BY <1>1, <1>2, <1>4, <1>5, <1>6, <1>7
<1> QED BY <1>8 DEF h, m

\* Limit seconds further on the dial, the reading has grown by more than Limit.
LEMMA Spread ==
    ASSUME NEW a \in Nat, NEW b \in Nat, b - a >= Limit
    PROVE  His(b) - His(a) > Limit
<1> DEFINE D == Minutes * Seconds
           X == Base * Base - D
           Y == Base - Seconds
<1>0. /\ Base \in Nat /\ Minutes \in Nat \ {0} /\ Seconds \in Nat \ {0} /\ Limit \in Nat
      /\ Minutes <= Base /\ Seconds < Base /\ Seconds <= Limit
  BY DialFacts
<1>1. /\ Hour(a) \in Nat /\ Minute(a) \in 0 .. Minutes - 1 /\ Second(a) \in 0 .. Seconds - 1
      /\ Hour(b) \in Nat /\ Minute(b) \in 0 .. Minutes - 1 /\ Second(b) \in 0 .. Seconds - 1
      /\ a = D * Hour(a) + Seconds * Minute(a) + Second(a)
      /\ b = D * Hour(b) + Seconds * Minute(b) + Second(b)
  BY Parts
<1>2. /\ His(a) \in Int /\ His(a) - a = Base * Base + X * Hour(a) + Y * Minute(a)
      /\ His(b) \in Int /\ His(b) - b = Base * Base + X * Hour(b) + Y * Minute(b)
  BY Reading
<1>3. D \in Nat /\ X \in Int /\ Y \in Nat /\ Y >= 1 /\ Base * Base \in Int
  BY <1>0
\* What an hour gains is more than what the minutes of one can lose.
<1>4. X >= Y * (Minutes - 1) + 1
  <2>1. X - Y * (Minutes - 1) = Base * (Base - Minutes) + Y
    BY <1>0
  <2>2. Base * (Base - Minutes) >= 0
    BY <1>0
  <2>3. Y * (Minutes - 1) \in Int /\ Base * (Base - Minutes) \in Int
    BY <1>0
  <2> HIDE DEF X, Y
  <2> QED BY <1>3, <2>1, <2>2, <2>3
<1>5. /\ D * Hour(a) \in Int /\ D * Hour(b) \in Int
      /\ Seconds * Minute(a) \in Nat /\ Seconds * Minute(b) \in Nat
      /\ X * Hour(a) \in Int /\ X * Hour(b) \in Int
      /\ Y * Minute(a) \in Nat /\ Y * Minute(b) \in Nat /\ Y * (Minutes - 1) \in Nat
  BY <1>0, <1>1, <1>3
<1>6. ASSUME NEW t \in {a, b} PROVE Seconds * Minute(t) + Second(t) < D
  <2>1. Seconds * Minutes >= Seconds * Minute(t) + Seconds
    BY <1>0, <1>1, Larger
  <2>2. Seconds * Minutes = D
    BY <1>0
  <2> HIDE DEF D
  <2> QED BY <1>0, <1>1, <1>3, <1>5, <2>1, <2>2
<1> HIDE DEF D, X, Y
<1>7. Hour(a) <= Hour(b)
  <2> SUFFICES ASSUME Hour(a) > Hour(b) PROVE FALSE
    BY <1>1
  <2>1. D * Hour(a) >= D * Hour(b) + D
    BY <1>1, <1>3, Larger
  <2> QED BY <1>0, <1>1, <1>3, <1>5, <1>6, <2>1
<1>8. X * Hour(b) + Y * Minute(b) > X * Hour(a) + Y * Minute(a)
  <2>1. CASE Hour(b) = Hour(a)
    <3>1. Minute(b) > Minute(a)
      <4>1. CASE Minute(b) = Minute(a)
        BY <1>0, <1>1, <1>5, <2>1, <4>1
      <4>2. CASE Minute(b) < Minute(a)
        <5>1. Seconds * Minute(a) >= Seconds * Minute(b) + Seconds
          BY <1>0, <1>1, <4>2, Larger
        <5> QED BY <1>0, <1>1, <1>5, <2>1, <5>1
      <4> QED BY <1>1, <4>1, <4>2
    <3>2. Y * Minute(b) >= Y * Minute(a) + Y
      BY <1>1, <1>3, <3>1, Larger
    <3> QED BY <1>3, <1>5, <2>1, <3>2
  <2>2. CASE Hour(b) > Hour(a)
    <3>1. X \in Nat
      BY <1>3, <1>4, <1>5
    <3>2. X * Hour(b) >= X * Hour(a) + X
      BY <1>1, <2>2, <3>1, Larger
    <3>3. Y * (Minutes - 1) >= Y * Minute(a)
      <4>1. CASE Minute(a) = Minutes - 1
        BY <4>1, <1>5
      <4>2. CASE Minute(a) < Minutes - 1
        <5>1. Y * (Minutes - 1) >= Y * Minute(a) + Y
          BY <1>0, <1>1, <1>3, <4>2, Larger
        <5> QED BY <1>3, <1>5, <5>1
      <4> QED BY <1>0, <1>1, <4>1, <4>2
    <3> QED BY <1>3, <1>4, <1>5, <3>2, <3>3
  <2> QED BY <1>1, <1>7, <2>1, <2>2
<1> QED BY <1>0, <1>2, <1>3, <1>5, <1>8

----------------------------------------------------------------------------
(* The inductive invariant.                                                *)

\* While user_tab agrees with the session, nothing is stale.
Fresh == Live(Watched) /\ Passes(Watched) => stale = 0

\* Until one o'clock passes, #DTE is a reading of the dial at or before now, and no
\* more is stale than the time since then.
Dated == Live(Watched) /\ ~turned =>
            \E t \in 0 .. now : sess[Watched].dte = His(t) /\ stale <= now - t

IInv == TypeOK /\ Fresh /\ Dated

----------------------------------------------------------------------------
(* Types.                                                                  *)

Length == Hours * Minutes * Seconds

\* What is known of the length of a session.
LEMMA LengthFacts ==
    /\ Length \in Nat \ {0} /\ Dial = 0 .. Length - 1
    /\ \A t \in Dial : t \in Nat /\ (t + 1) % Length \in Dial
                       /\ ((t + 1) % Length # 0 => (t + 1) % Length = t + 1)
<1>1. Length \in Nat \ {0}
  <2>1. Hours * Minutes \in Nat \ {0}
    BY DialFacts
  <2> QED BY <2>1, DialFacts DEF Length
<1>2. Dial = 0 .. Length - 1
  BY DEF Dial, Length
<1>3. ASSUME NEW t \in Dial
      PROVE  /\ t \in Nat /\ (t + 1) % Length \in Dial
             /\ (t + 1) % Length # 0 => (t + 1) % Length = t + 1
  <2>1. t \in 0 .. Length - 1
    BY <1>2
  <2>2. (t + 1) % Length \in 0 .. Length - 1
    BY <1>1, <2>1
  <2>3. CASE t + 1 = Length
    BY <1>1, <1>2, <2>1, <2>2, <2>3, SMTT(20)
  <2>4. CASE t + 1 < Length
    BY <1>1, <1>2, <2>1, <2>2, <2>4, SMTT(20)
  <2> QED BY <1>1, <2>1, <2>3, <2>4
<1> QED BY <1>1, <1>2, <1>3

\* The fields of a row.
LEMMA RowFacts ==
    /\ \A r \in Rows : /\ r.cred \in Creds \cup {Locked} /\ r.admin \in BOOLEAN
                       /\ \A s \in {0, 1} : [r EXCEPT !.ste = s] \in Rows
                       /\ \A c \in Creds \cup {Locked} : [r EXCEPT !.cred = c] \in Rows
    /\ \A r \in [cred : Creds, ste : {0, 1}, admin : BOOLEAN] :
          [r EXCEPT !.cred = Locked] \in Rows
  BY DEF Rows

\* The fields of a session.
LEMMA SessionFacts ==
    \A s \in Sessions :
       /\ s.cred \in Creds /\ s.tid \in Ids /\ s.admin \in BOOLEAN
       /\ \A t \in Dial : LET r == [s EXCEPT !.dte = His(t)]
                          IN  /\ r \in Sessions
                              /\ r.cred = s.cred /\ r.tid = s.tid /\ r.admin = s.admin
                              /\ r.dte = His(t)
  BY DEF Sessions

\* The kinds of edits.
LEMMA EditFacts ==
    \A e \in Edits : \/ e.op = "ste" /\ e.ste \in {0, 1}
                     \/ e.op = "save" /\ e.row \in Rows
                     \/ /\ e.op = "add"
                        /\ e.row \in [cred : Creds, ste : {0, 1}, admin : BOOLEAN]
  BY DEF Edits

\* A set of natural numbers has a least one: of the intervals that end at its members
\* one has no other of them strictly inside it.
LEMMA LeastMember ==
    ASSUME NEW S, S \subseteq Nat, S # {}
    PROVE  Min(S) \in S
<1> DEFINE Upto == {0 .. i : i \in S}
           Smaller == StrictSubsetOrdering(Nat)
<1>1. Upto \subseteq FiniteSubsetsOf(Nat) /\ Upto # {}
  <2>1. \A i \in S : 0 .. i \in SUBSET Nat /\ IsFiniteSet(0 .. i)
    BY FS_Interval
  <2> QED BY <2>1 DEF FiniteSubsetsOf
<1>2. IsWellFoundedOn(Smaller, FiniteSubsetsOf(Nat))
  BY FS_StrictSubsetOrderingWellFounded
<1>3. PICK x \in Upto : \A y \in Upto : ~(<<y, x>> \in Smaller)
  <2> HIDE DEF Upto, Smaller
  <2> QED BY <1>1, <1>2, WFMin
<1>4. PICK i \in S : x = 0 .. i
  BY <1>3
<1>5. ASSUME NEW j \in S, j < i PROVE FALSE
  <2>1. 0 .. j \in Upto /\ 0 .. j \in SUBSET Nat /\ 0 .. i \in SUBSET Nat
    BY <1>5
  <2>2. 0 .. j \subseteq 0 .. i /\ i \in 0 .. i /\ i \notin 0 .. j
    BY <1>5
  <2>3. <<0 .. j, 0 .. i>> \in Smaller
    BY <2>1, <2>2 DEF StrictSubsetOrdering
  <2> QED BY <1>3, <1>4, <2>1, <2>3
<1>6. \A j \in S : i <= j
  BY <1>5
<1> QED BY <1>6 DEF Min

\* A credential that is valid is that of a row.
LEMMA ValidRow ==
    ASSUME TypeOK, NEW c, NEW i, Valid(user, c, i)
    PROVE  i \in Ids /\ user[i] \in Rows
<1>1. Match(user, c) # {} /\ i = Min(Match(user, c)) /\ Match(user, c) \subseteq Nat
  BY DEF Valid, Match, Ids
<1>2. i \in Match(user, c)
  BY <1>1, LeastMember
<1> QED BY <1>2 DEF Match, TypeOK

\* A row after a statement is a row or none.
LEMMA EditedRowType ==
    ASSUME TypeOK, NEW i \in Ids, NEW e \in Edits
    PROVE  EditedRow(i, e) \in Rows \cup {NoRow}
<1>1. user[i] \in Rows \cup {NoRow}
  BY DEF TypeOK
<1>2. CASE e.op = "ste" /\ e.ste \in {0, 1}
  BY <1>1, <1>2, RowFacts DEF EditedRow
<1>3. CASE e.op = "save" /\ e.row \in Rows
  <2>1. CASE i = e.id /\ user[i] # NoRow
    <3>1. EditedRow(i, e) = [e.row EXCEPT !.cred = IF @ = Locked THEN user[i].cred ELSE @]
      BY <1>3, <2>1 DEF EditedRow
    <3>2. user[i].cred \in Creds \cup {Locked} /\ e.row.cred \in Creds \cup {Locked}
      BY <1>1, <1>3, <2>1, RowFacts
    <3> DEFINE c == IF e.row.cred = Locked THEN user[i].cred ELSE e.row.cred
    <3>3. c \in Creds \cup {Locked} /\ EditedRow(i, e) = [e.row EXCEPT !.cred = c]
      BY <3>1, <3>2
    <3> HIDE DEF c
    <3> QED BY <1>3, <3>3, RowFacts
  <2>2. CASE ~(i = e.id /\ user[i] # NoRow)
    BY <1>1, <1>3, <2>2 DEF EditedRow
  <2> QED BY <2>1, <2>2
<1>4. CASE e.op = "add" /\ e.row \in [cred : Creds, ste : {0, 1}, admin : BOOLEAN]
  BY <1>1, <1>4, RowFacts DEF EditedRow
<1> QED BY <1>2, <1>3, <1>4, EditFacts

\* What the check at the head of a page does to the session of its browser.
Updated(b) == /\ sess'[b] \in Sessions
              /\ sess'[b].cred = sess[b].cred /\ sess'[b].tid = sess[b].tid
              /\ sess'[b].admin = sess[b].admin /\ sess'[b].dte = His(now)

\* What Chackuser changes.
LEMMA ChackuserEffect ==
    ASSUME TypeOK, NEW b \in Browsers, Chackuser(b)
    PROVE  /\ doing[b] = Idle /\ Live(b) /\ sess[b] \in Sessions
           /\ sess' \in [Browsers -> Sessions \cup {NoSession}]
           /\ \A c \in Browsers \ {b} : sess'[c] = sess[c]
           /\ \/ Due(b) /\ ~Passes(b) /\ sess'[b] = NoSession
              \/ ~Due(b) /\ sess'[b] = sess[b]
              \/ Due(b) /\ Passes(b) /\ Updated(b)
           /\ served' \in BOOLEAN /\ turned' \in BOOLEAN
<1>1. doing[b] = Idle /\ Live(b) /\ sess[b] \in Sessions
  BY DEF Chackuser, Live, TypeOK
<1>2. /\ sess' = [sess EXCEPT ![b] = Checked(b)]
      /\ served' \in BOOLEAN /\ turned' \in BOOLEAN
  BY DEF Chackuser, TypeOK
<1>3. sess'[b] = Checked(b) /\ \A c \in Browsers \ {b} : sess'[c] = sess[c]
  BY <1>2 DEF TypeOK
<1>4. \/ Due(b) /\ ~Passes(b) /\ sess'[b] = NoSession
      \/ ~Due(b) /\ sess'[b] = sess[b]
      \/ Due(b) /\ Passes(b) /\ Updated(b)
  <2>1. CASE ~Due(b)
    BY <1>3, <2>1 DEF Checked
  <2>2. CASE Due(b) /\ Passes(b)
    <3>1. sess'[b] = [sess[b] EXCEPT !.dte = His(now)] /\ now \in Dial
      BY <1>3, <2>2 DEF Checked, TypeOK
    <3>2. Updated(b)
      BY <1>1, <3>1, SessionFacts DEF Updated
    <3> QED BY <2>2, <3>2
  <2>3. CASE Due(b) /\ ~Passes(b)
    BY <1>3, <2>3 DEF Checked
  <2> QED BY <2>1, <2>2, <2>3
<1>5. sess' \in [Browsers -> Sessions \cup {NoSession}]
  <2>1. sess'[b] \in Sessions \cup {NoSession}
    BY <1>1, <1>4 DEF Updated
  <2> QED BY <1>2, <1>3, <2>1 DEF TypeOK
<1> QED BY <1>1, <1>2, <1>3, <1>4, <1>5

\* What a login changes.
LEMMA LoginEffect ==
    ASSUME TypeOK, NEW b \in Browsers, NEW c \in Creds, Login(b, c)
    PROVE  /\ ~Live(b)
           /\ sess' \in [Browsers -> Sessions \cup {NoSession}]
           /\ \A d \in Browsers \ {b} : sess'[d] = sess[d]
           /\ sess'[b].dte = His(now)
<1>1. PICK i \in Ids :
         /\ Valid(user, c, i)
         /\ sess' = [sess EXCEPT ![b] = [cred |-> c, tid |-> i, admin |-> user[i].admin,
                                         dte |-> His(now)]]
  BY DEF Login
<1>2. user[i] \in Rows
  BY <1>1, ValidRow
<1>3. now \in Dial /\ user[i].admin \in BOOLEAN
  BY <1>2, RowFacts DEF TypeOK
<1> DEFINE r == [cred |-> c, tid |-> i, admin |-> user[i].admin, dte |-> His(now)]
<1>4. r \in Sessions /\ r.dte = His(now)
  BY <1>3 DEF Sessions
<1>5. sess' = [sess EXCEPT ![b] = r]
  BY <1>1
<1> HIDE DEF r
<1>6. /\ sess' \in [Browsers -> Sessions \cup {NoSession}]
      /\ \A d \in Browsers \ {b} : sess'[d] = sess[d]
      /\ sess'[b] = r
  BY <1>4, <1>5 DEF TypeOK
<1> QED BY <1>4, <1>6 DEF Login

\* Every step keeps the types.
LEMMA TypeStep == ASSUME TypeOK, [Next]_vars PROVE TypeOK'
<1>1. ASSUME NEW b \in Browsers, NEW c \in Creds, Login(b, c) PROVE TypeOK'
  <2>1. /\ sess' \in [Browsers -> Sessions \cup {NoSession}]
        /\ \A d \in Browsers \ {b} : sess'[d] = sess[d]
        /\ doing[b] = Idle
    BY <1>1, LoginEffect DEF TypeOK
  <2>2. \A d \in Browsers : doing'[d] # Idle => Live(d)' /\ sess'[d].admin
    BY <1>1, <2>1 DEF TypeOK, Login, Live
  <2>3. stale' \in 0 .. Limit
    BY <1>1, DialFacts DEF TypeOK, Login
  <2>4. turned' \in BOOLEAN
    BY <1>1 DEF TypeOK, Login
  <2> QED BY <1>1, <2>1, <2>2, <2>3, <2>4 DEF TypeOK, Login
<1>2. ASSUME NEW b \in Browsers, Request(b) PROVE TypeOK'
  <2>1. Chackuser(b)
    BY <1>2 DEF Request
  <2>2. \A d \in Browsers : doing'[d] # Idle => Live(d)' /\ sess'[d].admin
    BY <1>2, <2>1, ChackuserEffect DEF TypeOK, Request, Live
  <2> QED BY <1>2, <2>1, <2>2, ChackuserEffect DEF TypeOK, Request
<1>3. ASSUME NEW b \in Browsers, NEW e \in Edits, AskEdit(b, e) PROVE TypeOK'
  <2>1. /\ Chackuser(b) /\ sess'[b] # NoSession /\ sess[b].admin
        /\ doing' = [doing EXCEPT ![b] = e] /\ edits' = edits + 1 /\ edits < MaxEdits
        /\ UNCHANGED <<user, now, stale>>
    BY <1>3 DEF AskEdit
  <2>2. doing' \in [Browsers -> Edits \cup {Idle}] /\ \A d \in Browsers \ {b} : doing'[d] = doing[d]
    BY <2>1 DEF TypeOK
  <2>3. edits' \in 0 .. MaxEdits
    BY <2>1, DialFacts DEF TypeOK
  <2>4. sess'[b].admin /\ \A d \in Browsers \ {b} : sess'[d] = sess[d]
    BY <2>1, ChackuserEffect DEF Updated
  <2>5. \A d \in Browsers : doing'[d] # Idle => Live(d)' /\ sess'[d].admin
    BY <2>1, <2>2, <2>4 DEF TypeOK, Live
  <2> QED BY <2>1, <2>2, <2>3, <2>5, ChackuserEffect DEF TypeOK
<1>4. ASSUME NEW b \in Browsers, DoEdit(b) PROVE TypeOK'
  <2>1. doing[b] \in Edits
    BY <1>4 DEF DoEdit, TypeOK
  <2>2. user' \in [Ids -> Rows \cup {NoRow}]
    BY <1>4, <2>1, EditedRowType DEF DoEdit
  <2>3. /\ doing' \in [Browsers -> Edits \cup {Idle}]
        /\ \A d \in Browsers : doing'[d] # Idle => doing[d] # Idle
    BY <1>4 DEF DoEdit, TypeOK
  <2>4. \A d \in Browsers : doing'[d] # Idle => Live(d)' /\ sess'[d].admin
    BY <1>4, <2>3 DEF DoEdit, TypeOK, Live
  <2>5. stale' \in 0 .. Limit
    BY <1>4, DialFacts DEF TypeOK, DoEdit
  <2> QED BY <1>4, <2>2, <2>3, <2>4, <2>5 DEF TypeOK, DoEdit
<1>5. ASSUME NEW b \in Browsers, Loginout(b) PROVE TypeOK'
  <2>1. stale' \in 0 .. Limit
    BY <1>5, DialFacts DEF TypeOK, Loginout
  <2>2. turned' \in BOOLEAN
    BY <1>5 DEF TypeOK, Loginout
  <2>3. /\ sess' \in [Browsers -> Sessions \cup {NoSession}]
        /\ \A d \in Browsers \ {b} : sess'[d] = sess[d]
        /\ doing[b] = Idle
    BY <1>5 DEF TypeOK, Loginout
  <2>4. \A d \in Browsers : doing'[d] # Idle => Live(d)' /\ sess'[d].admin
    BY <1>5, <2>3 DEF TypeOK, Loginout, Live
  <2> QED BY <1>5, <2>1, <2>2, <2>3, <2>4 DEF TypeOK, Loginout
<1>6. ASSUME Tick PROVE TypeOK'
  <2>1. now' \in Dial
    BY <1>6, LengthFacts DEF Tick, TypeOK, Length
  <2>2. stale' \in 0 .. Limit
    <3>1. stale' \in {0, stale} \/ (stale # Limit /\ stale' = stale + 1)
      BY <1>6 DEF Tick
    <3> QED BY <3>1, DialFacts DEF TypeOK
  <2>3. turned' \in BOOLEAN /\ served' \in BOOLEAN
    BY <1>6 DEF Tick, TypeOK
  <2>4. UNCHANGED <<user, sess, doing, edits>>
    BY <1>6 DEF Tick
  <2> QED BY <2>1, <2>2, <2>3, <2>4 DEF TypeOK, Live
<1>7. CASE UNCHANGED vars
  BY <1>7 DEF TypeOK, vars, Live
<1> QED BY <1>1, <1>2, <1>3, <1>4, <1>5, <1>6, <1>7 DEF Next

----------------------------------------------------------------------------
(* What is stale, and since when.                                          *)

\* A step that leaves user_tab, the watched session and the histories alone.
LEMMA OthersStep ==
    ASSUME Fresh, Dated, UNCHANGED <<user, now, stale, turned>>,
           sess'[Watched] = sess[Watched]
    PROVE  Fresh' /\ Dated'
<1>1. (Live(Watched) <=> Live(Watched)') /\ (Passes(Watched) <=> Passes(Watched)')
  BY DEF Live, Passes, Valid, Match
<1> QED BY <1>1 DEF Fresh, Dated

\* Chackuser keeps sessions fresh and dated.
LEMMA ChackuserStep ==
    ASSUME TypeOK, Fresh, Dated, NEW b \in Browsers, Chackuser(b),
           UNCHANGED <<user, now, stale>>
    PROVE  Fresh' /\ Dated'
<1>1. CASE b # Watched
  <2>1. sess'[Watched] = sess[Watched]
    BY <1>1, ChackuserEffect, DialFacts
  <2>2. turned' = turned
    BY <1>1 DEF Chackuser, TypeOK
  <2> QED BY <2>1, <2>2, OthersStep
<1>2. CASE b = Watched
  <2>1. CASE Due(b) /\ ~Passes(b) /\ sess'[b] = NoSession
    BY <1>2, <2>1 DEF Fresh, Dated, Live
  <2>2. CASE ~Due(b) /\ sess'[b] = sess[b]
    <3>1. turned' = turned
      BY <1>2, <2>2 DEF Chackuser, TypeOK
    <3> QED BY <1>2, <2>2, <3>1, OthersStep
  <2>3. CASE Due(b) /\ Passes(b) /\ Updated(b)
    <3>1. stale = 0
      BY <1>2, <2>3, ChackuserEffect DEF Fresh
    <3>2. now \in 0 .. now /\ 0 <= now - now
      BY LengthFacts DEF TypeOK
    <3>3. sess'[Watched].dte = His(now)
      BY <1>2, <2>3 DEF Updated
    <3> QED BY <3>1, <3>2, <3>3 DEF Fresh, Dated
  <2> QED BY <2>1, <2>2, <2>3, ChackuserEffect
<1> QED BY <1>1, <1>2

\* Every step does.
LEMMA DatedStep ==
    ASSUME TypeOK, Fresh, Dated, [Next]_vars
    PROVE  Fresh' /\ Dated'
<1>0. now \in Nat /\ now \in 0 .. now /\ 0 <= now - now
  BY LengthFacts DEF TypeOK
<1>1. ASSUME NEW b \in Browsers, NEW c \in Creds, Login(b, c) PROVE Fresh' /\ Dated'
  <2>1. CASE b # Watched
    <3>1. sess'[Watched] = sess[Watched]
      BY <1>1, <2>1, LoginEffect, DialFacts
    <3>2. UNCHANGED <<user, now, stale, turned>>
      BY <1>1, <2>1 DEF Login, TypeOK
    <3> QED BY <3>1, <3>2, OthersStep
  <2>2. CASE b = Watched
    <3>1. stale' = 0 /\ UNCHANGED now /\ sess'[Watched].dte = His(now)
      BY <1>1, <2>2, LoginEffect DEF Login
    <3> QED BY <1>0, <3>1 DEF Fresh, Dated
  <2> QED BY <2>1, <2>2
<1>2. ASSUME NEW b \in Browsers, Request(b) PROVE Fresh' /\ Dated'
  BY <1>2, ChackuserStep DEF Request
<1>3. ASSUME NEW b \in Browsers, NEW e \in Edits, AskEdit(b, e) PROVE Fresh' /\ Dated'
  BY <1>3, ChackuserStep DEF AskEdit
<1>4. ASSUME NEW b \in Browsers, DoEdit(b) PROVE Fresh' /\ Dated'
  <2>1. UNCHANGED <<sess, now, turned>>
    BY <1>4 DEF DoEdit
  <2>2. stale' = IF Live(Watched) /\ Valid(user', sess[Watched].cred, sess[Watched].tid)
                 THEN 0 ELSE stale
    BY <1>4 DEF DoEdit
  <2>3. Live(Watched)' <=> Live(Watched)
    BY <2>1 DEF Live
  <2>4. Passes(Watched)' <=> Valid(user', sess[Watched].cred, sess[Watched].tid)
    BY <2>1 DEF Passes, Valid, Match
  <2>5. Fresh'
    BY <2>2, <2>3, <2>4 DEF Fresh
  <2>6. stale' \in Int /\ stale \in Int /\ stale' <= stale
    BY <2>2, DialFacts DEF TypeOK
  <2>7. Dated'
    <3> SUFFICES ASSUME Live(Watched)', ~turned'
                 PROVE  \E t \in 0 .. now' : sess'[Watched].dte = His(t) /\ stale' <= now' - t
      BY DEF Dated
    <3>1. PICK t \in 0 .. now : sess[Watched].dte = His(t) /\ stale <= now - t
      BY <2>1, <2>3 DEF Dated
    <3>2. stale' <= now - t
      BY <1>0, <2>6, <3>1
    <3> QED BY <2>1, <3>1, <3>2
  <2> QED BY <2>5, <2>7
<1>5. ASSUME NEW b \in Browsers, Loginout(b) PROVE Fresh' /\ Dated'
  <2>1. CASE b # Watched
    <3>1. sess'[Watched] = sess[Watched] /\ UNCHANGED <<user, now, stale, turned>>
      BY <1>5, <2>1, DialFacts DEF Loginout, TypeOK
    <3> QED BY <3>1, OthersStep
  <2>2. CASE b = Watched
    <3>1. sess'[Watched] = NoSession
      BY <1>5, <2>2 DEF Loginout, TypeOK
    <3> QED BY <3>1 DEF Fresh, Dated, Live
  <2> QED BY <2>1, <2>2
<1>6. ASSUME Tick PROVE Fresh' /\ Dated'
  <2>1. /\ UNCHANGED <<user, sess>>
        /\ now' = (now + 1) % Length
        /\ turned' = (Live(Watched) /\ (turned \/ now' = 0))
        /\ ~Live(Watched) \/ Passes(Watched) => stale' = 0
        /\ stale' \in {0, stale, stale + 1}
    <3>1. now' = (now + 1) % Length
      BY <1>6 DEF Tick, Length
    <3>2. /\ ~Live(Watched) \/ Passes(Watched) => stale' = 0
          /\ stale' \in {0, stale, stale + 1}
      BY <1>6 DEF Tick
    <3>3. UNCHANGED <<user, sess>> /\ turned' = (Live(Watched) /\ (turned \/ now' = 0))
      BY <1>6 DEF Tick
    <3> QED BY <3>1, <3>2, <3>3
  <2>2. (Live(Watched)' <=> Live(Watched)) /\ (Passes(Watched)' <=> Passes(Watched))
    BY <2>1 DEF Live, Passes, Valid, Match
  <2>3. Fresh'
    BY <2>1, <2>2 DEF Fresh
  <2>4. Dated'
    <3> SUFFICES ASSUME Live(Watched)', ~turned'
                 PROVE  \E t \in 0 .. now' : sess'[Watched].dte = His(t) /\ stale' <= now' - t
      BY DEF Dated
    <3>1. ~turned /\ now' # 0
      BY <2>1, <2>2
    <3>2. now' = now + 1
      BY <2>1, <3>1, LengthFacts DEF TypeOK
    <3>3. PICK t \in 0 .. now : sess[Watched].dte = His(t) /\ stale <= now - t
      BY <2>2, <3>1 DEF Dated
    <3>4. stale \in 0 .. Limit
      BY DEF TypeOK
    <3>5. t \in 0 .. now' /\ stale' <= now' - t
      BY <1>0, <2>1, <3>2, <3>3, <3>4, DialFacts
    <3> QED BY <2>1, <3>3, <3>5
  <2> QED BY <2>3, <2>4
<1>7. CASE UNCHANGED vars
  BY <1>7, OthersStep DEF vars
<1> QED BY <1>1, <1>2, <1>3, <1>4, <1>5, <1>6, <1>7 DEF Next

----------------------------------------------------------------------------
(* The theorems.                                                           *)

\* The invariant holds at first.
LEMMA InitInv == Init => IInv
<1> SUFFICES ASSUME Init PROVE IInv
  OBVIOUS
<1>1. PICK other \in Rows \cup {NoRow} :
         user = [i \in Ids |-> CASE i = 1 -> [cred |-> Veadmin, ste |-> 1, admin |-> TRUE]
                                 [] i = 2 -> other
                                 [] OTHER -> NoRow]
  BY DEF Init
<1>2. [cred |-> Veadmin, ste |-> 1, admin |-> TRUE] \in Rows
  BY DialFacts DEF Rows
<1>3. user \in [Ids -> Rows \cup {NoRow}]
  BY <1>1, <1>2
<1>4. TypeOK
  <2>1. /\ sess \in [Browsers -> Sessions \cup {NoSession}]
        /\ doing \in [Browsers -> Edits \cup {Idle}]
        /\ \A b \in Browsers : doing[b] = Idle
    BY DEF Init
  <2>2. edits \in 0 .. MaxEdits /\ stale \in 0 .. Limit /\ now \in Dial
    BY DialFacts DEF Init
  <2>3. served \in BOOLEAN /\ turned \in BOOLEAN
    BY DEF Init
  <2> QED BY <1>3, <2>1, <2>2, <2>3 DEF TypeOK
<1>5. ~Live(Watched)
  BY DialFacts DEF Init, Live
<1> QED BY <1>4, <1>5 DEF IInv, Fresh, Dated

\* Every step keeps it.
LEMMA StepInv == IInv /\ [Next]_vars => IInv'
  BY TypeStep, DatedStep DEF IInv

\* The invariant holds in every reachable state.
THEOREM Invariance == Spec => []IInv
  BY InitInv, StepInv, PTL DEF Spec

\* Every variable keeps its type; a change of user_tab that is under way belongs to a
\* session that lives and holds right 0.
THEOREM TypeCorrect == Spec => []TypeOK
<1>1. IInv => TypeOK
  BY DEF IInv
<1> QED BY <1>1, Invariance, PTL

\* A page is served to the watched browser only while less than Limit seconds are stale.
LEMMA ServedInTime ==
    ASSUME TypeOK, Fresh, Dated, NEW b \in Browsers, Chackuser(b), served', ~served
    PROVE  stale < Limit \/ turned
<1>1. b = Watched /\ sess'[b] # NoSession
  BY DEF Chackuser, TypeOK
<1>2. Live(Watched)
  BY <1>1, ChackuserEffect
<1>3. CASE Due(b) /\ Passes(b)
  BY <1>1, <1>2, <1>3, DialFacts DEF Fresh
<1>4. CASE ~Due(b)
  <2> SUFFICES ASSUME ~turned PROVE stale < Limit
    OBVIOUS
  <2>1. PICK t \in 0 .. now : sess[Watched].dte = His(t) /\ stale <= now - t
    BY <1>2 DEF Dated
  <2>2. now \in Nat /\ t \in Nat /\ stale \in Nat /\ Limit \in Nat
    BY <2>1, LengthFacts, DialFacts DEF TypeOK
  <2>3. ~(His(now) - His(t) > Limit)
    BY <1>1, <1>4, <2>1 DEF Due
  <2>4. now - t < Limit
    BY <2>2, <2>3, Spread
  <2> QED BY <2>1, <2>2, <2>4
<1> QED BY <1>1, <1>3, <1>4, ChackuserEffect

\* An operator who was turned off, whose password was changed or whose row is shadowed
\* gets pages for less than Limit seconds, unless one o'clock passed since #DTE was set:
\* no two readings of the dial Limit seconds apart differ by Limit or less.
THEOREM RevocationIsSoon == Spec => RevokedSoon
<1>1. IInv /\ [Next]_vars => [served' /\ ~served => stale < Limit \/ turned]_vars
  <2> SUFFICES ASSUME IInv, Next, served', ~served PROVE stale < Limit \/ turned
    BY DEF vars
  <2>1. ASSUME NEW b \in Browsers, Request(b) \/ \E e \in Edits : AskEdit(b, e)
        PROVE  stale < Limit \/ turned
    BY <2>1, ServedInTime DEF Request, AskEdit, IInv
  <2>2. ASSUME NEW b \in Browsers,
               (\E c \in Creds : Login(b, c)) \/ DoEdit(b) \/ Loginout(b)
        PROVE  FALSE
    BY <2>2 DEF Login, DoEdit, Loginout
  <2>3. ~Tick
    BY DEF Tick
  <2> QED BY <2>1, <2>2, <2>3 DEF Next
<1> QED BY <1>1, Invariance, PTL DEF Spec, RevokedSoon
=============================================================================
