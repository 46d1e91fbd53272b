----------------------------- MODULE DataLemmas -----------------------------
(***************************************************************************)
(* Induction, division, folds and concatenations: facts the proofs about   *)
(* data rest on.  Induction is stated about a set of numbers, so that the  *)
(* provers can instantiate it.                                             *)
(***************************************************************************)
EXTENDS Integers, SequencesExt, FiniteSetTheorems, SequenceTheorems, TLAPS

----------------------------------------------------------------------------
(* Induction.                                                              *)

\* A nonempty set of naturals has a least member.
LEMMA LeastMember ==
    ASSUME NEW S, S \subseteq Nat, S # {}
    PROVE  Min(S) \in S /\ \A i \in S : Min(S) <= i
<1> DEFINE Upto == {0 .. i : i \in S}
           Smaller == StrictSubsetOrdering(Nat)
<1>1. Upto \subseteq FiniteSubsetsOf(Nat) /\ Upto # {}
  <2>1. \A i \in S : 0 .. i \in SUBSET Nat /\ IsFiniteSet(0 .. i)
    BY FS_Interval
  <2> QED BY <2>1 DEF FiniteSubsetsOf
<1>2. IsWellFoundedOn(Smaller, FiniteSubsetsOf(Nat))
  BY FS_StrictSubsetOrderingWellFounded
<1>3. PICK x \in Upto : \A y \in Upto : ~(<<y, x>> \in Smaller)
  <2> HIDE DEF Upto, Smaller
  <2> QED BY <1>1, <1>2, WFMin
<1>4. PICK i \in S : x = 0 .. i
  BY <1>3
<1>5. ASSUME NEW j \in S, j < i PROVE FALSE
  <2>1. 0 .. j \in Upto /\ 0 .. j \in SUBSET Nat /\ 0 .. i \in SUBSET Nat
    BY <1>5
  <2>2. 0 .. j \subseteq 0 .. i /\ i \in 0 .. i /\ i \notin 0 .. j
    BY <1>5
  <2>3. <<0 .. j, 0 .. i>> \in Smaller
    BY <2>1, <2>2 DEF StrictSubsetOrdering
  <2> QED BY <1>3, <1>4, <2>1, <2>3
<1>6. \A j \in S : i <= j
  BY <1>5
<1> QED BY <1>6 DEF Min

\* Induction over the naturals, for a set.
LEMMA Induction ==
    ASSUME NEW P, 0 \in P, \A n \in Nat : n \in P => n + 1 \in P
    PROVE  Nat \subseteq P
<1> DEFINE Rest == Nat \ P
           m == Min(Rest)
<1>1. SUFFICES ASSUME Rest # {} PROVE FALSE
  OBVIOUS
<1>2. m \in Rest /\ \A i \in Rest : m <= i
  <2>1. Rest \subseteq Nat
    OBVIOUS
  <2> HIDE DEF Rest
  <2> QED BY <1>1, <2>1, LeastMember
<1> HIDE DEF m
<1>3. m \in Nat /\ m # 0 /\ m - 1 \in Nat
  BY <1>2
<1>4. m - 1 \in P
  BY <1>2, <1>3
<1>5. (m - 1) + 1 = m
  BY <1>3
<1> QED BY <1>2, <1>3, <1>4, <1>5

----------------------------------------------------------------------------
(* Division.                                                               *)

\* Quotient and remainder.
LEMMA Division ==
    ASSUME NEW a \in Int, NEW b \in Nat \ {0}
    PROVE  /\ a \div b \in Int /\ a % b \in 0 .. b - 1
           /\ a = b * (a \div b) + (a % b)
           /\ a \in Nat => a \div b \in Nat
<1>1. a = b * (a \div b) + (a % b)
  BY Z3T(20)
<1>2. a \div b \in Int /\ (a \in Nat => a \div b \in Nat)
  BY SMTT(20)
<1>3. a % b \in 0 .. b - 1
  OBVIOUS
<1> QED BY <1>1, <1>2, <1>3

\* A larger factor makes a product larger by one more of the other factor.
LEMMA Larger ==
    ASSUME NEW a \in Int, NEW b \in Int, a > b, NEW d \in Nat
    PROVE  d * a >= d * b + d
  OBVIOUS

\* Multiples grow with their factor.
LEMMA Multiples ==
    ASSUME NEW d \in Nat, NEW i \in Int, NEW n \in Int, i <= n
    PROVE  d * i \in Int /\ d * n \in Int /\ d * i <= d * n
<1>1. d * i \in Int /\ d * n \in Int
  OBVIOUS
<1>2. CASE n > i
  <2>1. d * n >= d * i + d
    BY <1>2, Larger
  <2> DEFINE x == d * i
             y == d * n
  <2>2. x \in Int /\ y \in Int /\ y >= x + d
    BY <1>1, <2>1
  <2> HIDE DEF x, y
  <2>3. x <= y
    BY <2>2
  <2> QED BY <1>1, <2>3 DEF x, y
<1>3. n > i \/ n = i
  OBVIOUS
<1> QED BY <1>1, <1>2, <1>3

\* Where byte j of block i is.
LEMMA InsideBlocks ==
    ASSUME NEW d \in Nat \ {0}, NEW n \in Nat, NEW i \in 1 .. n, NEW j \in 1 .. d
    PROVE  (i - 1) * d \in Nat /\ (i - 1) * d + j \in 1 .. d * n
<1> DEFINE y == (i - 1) * d
           z == d * n
           w == d * i
<1>1. y \in Nat /\ y + d = w
  OBVIOUS
<1>2. z \in Int /\ w \in Int /\ w <= z
  BY Multiples
<1> HIDE DEF y, z, w
<1>3. y + j \in 1 .. z
  BY <1>1, <1>2
<1> QED BY <1>1, <1>3 DEF y, z

\* Every place is in a block.
LEMMA BlockOfPlace ==
    ASSUME NEW d \in Nat \ {0}, NEW n \in Nat, NEW x \in 1 .. d * n
    PROVE  \E i \in 1 .. n, j \in 1 .. d : x = (i - 1) * d + j
<1> DEFINE q == (x - 1) \div d
           r == (x - 1) % d
           z == d * n
           y == d * q
<1>1. z \in Nat
  OBVIOUS
<1>2. x - 1 \in Nat
  <2> HIDE DEF z
  <2>1. x \in 1 .. z
    BY DEF z
  <2> QED BY <1>1, <2>1
<1>3. q \in Nat /\ r \in 0 .. d - 1 /\ x - 1 = d * q + r
  BY <1>2, Division
<1> HIDE DEF q, r
<1>4. y \in Nat /\ d * q = q * d
  BY <1>3
<1>5. q < n
  <2>1. SUFFICES ASSUME n <= q PROVE FALSE
    BY <1>3
  <2>2. z <= y
    BY <1>3, <2>1, Multiples
  <2>3. x <= z
    OBVIOUS
  <2>4. x - 1 = y + r
    BY <1>3
  <2> HIDE DEF y, z
  <2>5. x \in Int
    BY <1>2
  <2> QED BY <1>1, <1>3, <1>4, <2>2, <2>3, <2>4, <2>5
<1>6. q + 1 \in 1 .. n /\ r + 1 \in 1 .. d
  BY <1>3, <1>5
<1>7. x = ((q + 1) - 1) * d + (r + 1)
  <2>1. ((q + 1) - 1) * d = y
    BY <1>3, <1>4
  <2>2. x - 1 = y + r
    BY <1>3
  <2> HIDE DEF y
  <2>3. x \in Int
    OBVIOUS
  <2>4. x = y + (r + 1)
    BY <1>3, <1>4, <2>2, <2>3
  <2> QED BY <2>1, <2>4
<1> QED BY <1>6, <1>7

\* There is one quotient and one remainder.
LEMMA Unique ==
    ASSUME NEW b \in Nat \ {0}, NEW q \in Int, NEW x \in Int, NEW r \in Int, NEW y \in Int,
           0 <= r, r < b, 0 <= y, y < b, b * q + r = b * x + y
    PROVE  x = q /\ y = r
<1>1. b * x \in Int /\ b * q \in Int
  OBVIOUS
<1>2. CASE x > q
  <2>1. b * x >= b * q + b
    BY <1>2, Larger
  <2> QED BY <1>1, <2>1
<1>3. CASE q > x
  <2>1. b * q >= b * x + b
    BY <1>3, Larger
  <2> QED BY <1>1, <2>1
<1>4. x = q
  BY <1>2, <1>3
<1> QED BY <1>1, <1>4

\* A quotient is known by its remainder.
LEMMA Quotient ==
    ASSUME NEW a \in Int, NEW b \in Nat \ {0}, NEW q \in Int, NEW r \in Int,
           0 <= r, r < b, a = b * q + r
    PROVE  a \div b = q /\ a % b = r
<1> DEFINE x == a \div b
           y == a % b
<1>1. x \in Int /\ y \in Int /\ 0 <= y /\ y < b /\ a = b * x + y
  BY Division
<1> HIDE DEF x, y
<1>2. x = q /\ y = r
  BY <1>1, Unique
<1> QED BY <1>2 DEF x, y

\* A remainder does not see what was a multiple.
LEMMA Shifted ==
    ASSUME NEW a \in Int, NEW k \in Int, NEW b \in Nat \ {0}
    PROVE  (a + b * k) % b = a % b
<1> DEFINE q == a \div b
           r == a % b
<1>1. q \in Int /\ r \in Int /\ 0 <= r /\ r < b /\ a = b * q + r
  BY Division
<1> HIDE DEF q, r
<1>2. b * (q + k) = b * q + b * k /\ b * k \in Int /\ q + k \in Int
  BY <1>1
<1>3. a + b * k = b * (q + k) + r
  BY <1>1, <1>2
<1> HIDE DEF q, r
<1>4. (a + b * k) % b = r
  BY <1>1, <1>2, <1>3, Quotient
<1> QED BY <1>4 DEF r

----------------------------------------------------------------------------
(* Folds.  FoldLeft goes through the sets 1 .. i of positions.             *)

\* The greatest member of a set of integers.
LEMMA GreatestIs ==
    ASSUME NEW S, S \subseteq Int, NEW i \in S, \A j \in S : j <= i
    PROVE  Max(S) = i
<1>1. \A j \in S : i >= j
  OBVIOUS
<1>2. Max(S) \in S /\ \A j \in S : Max(S) >= j
  BY <1>1 DEF Max
<1>3. Max(S) \in Int /\ i \in Int /\ Max(S) <= i /\ Max(S) >= i
  BY <1>2
<1> HIDE DEF Max
<1> QED BY <1>3

\* The sets 1 .. i and their greatest members.
LEMMA Initials ==
    ASSUME NEW n \in Nat
    PROVE  /\ 1 .. 0 = {}
           /\ \A i \in 1 .. n : /\ 1 .. i \in SUBSET (1 .. n) /\ 1 .. i # {}
                                /\ Max(1 .. i) = i /\ (1 .. i) \ {i} = 1 .. i - 1
<1>1. ASSUME NEW i \in 1 .. n
      PROVE  /\ 1 .. i \in SUBSET (1 .. n) /\ 1 .. i # {}
             /\ Max(1 .. i) = i /\ (1 .. i) \ {i} = 1 .. i - 1
  <2>1. i \in 1 .. i /\ 1 .. i \subseteq Int /\ \A j \in 1 .. i : j <= i
    OBVIOUS
  <2>2. Max(1 .. i) = i
    BY <2>1, GreatestIs
  <2> QED BY <2>2
<1> QED BY <1>1

\* Max of a set of numbers to n.
LEMMA HasGreatest ==
    ASSUME NEW n \in Nat, NEW S \in SUBSET (0 .. n), S # {}
    PROVE  Max(S) \in S
<1> DEFINE Above == {k \in Nat : \A i \in S : i <= k}
           m == Min(Above)
<1>1. n \in Above /\ Above \subseteq Nat
  OBVIOUS
<1>2. m \in Above /\ \A k \in Above : m <= k
  <2> HIDE DEF Above
  <2> QED BY <1>1, LeastMember
<1> HIDE DEF m
<1>3. m \in Nat /\ \A i \in S : i <= m
  BY <1>2
<1>4. m \in S
  <2>1. SUFFICES ASSUME m \notin S PROVE FALSE
    OBVIOUS
  <2>2. PICK i \in S : TRUE
    OBVIOUS
  <2>3. m - 1 \in Nat /\ \A j \in S : j <= m - 1
    BY <1>3, <2>1, <2>2
  <2>4. m - 1 \in Above
    BY <2>3
  <2> HIDE DEF Above
  <2> QED BY <1>2, <1>3, <2>4
<1>5. S \subseteq Int
  OBVIOUS
<1> QED BY <1>3, <1>4, <1>5, GreatestIs

\* And of one of numbers from 1.
LEMMA Greatest ==
    ASSUME NEW n \in Nat, NEW S \in SUBSET (1 .. n), S # {}
    PROVE  Max(S) \in S
<1>1. S \in SUBSET (0 .. n)
  OBVIOUS
<1> QED BY <1>1, HasGreatest

IsFold(it, n, b, F) ==
    it = [S \in SUBSET (1 .. n) |-> IF S = {} THEN b ELSE F[<<it[S \ {Max(S)}], Max(S)>>]]

\* The function over sets of positions that a fold is defined by exists.
LEMMA FoldExists ==
    ASSUME NEW n \in Nat, NEW X, NEW b \in X, NEW F \in [X \X (1 .. n) -> X]
    PROVE  \E it \in [SUBSET (1 .. n) -> X] : IsFold(it, n, b, F)
<1> DEFINE Iter(m, it) == \A S \in SUBSET (1 .. m) :
                             it[S] = IF S = {} THEN b ELSE F[<<it[S \ {Max(S)}], Max(S)>>]
           Good(m) == m <= n => \E it \in [SUBSET (1 .. m) -> X] : Iter(m, it)
           P == {m \in Nat : Good(m)}
<1>1. Good(0)
  <2> DEFINE it == [S \in SUBSET (1 .. 0) |-> b]
  <2>1. it \in [SUBSET (1 .. 0) -> X] /\ Iter(0, it)
    OBVIOUS
  <2> QED BY <2>1
<1>2. ASSUME NEW m \in Nat, Good(m) PROVE Good(m + 1)
  <2>1. SUFFICES ASSUME m + 1 <= n
                 PROVE  \E it \in [SUBSET (1 .. m + 1) -> X] : Iter(m + 1, it)
    BY <1>2
  <2>2. PICK old \in [SUBSET (1 .. m) -> X] : Iter(m, old)
    <3>1. m <= n
      BY <2>1
    <3> HIDE DEF Iter
    <3> QED BY <1>2, <3>1
  <2> DEFINE it == [S \in SUBSET (1 .. m + 1) |->
                      IF m + 1 \in S THEN F[<<old[S \ {m + 1}], m + 1>>] ELSE old[S]]
  <2>3. ASSUME NEW S \in SUBSET (1 .. m + 1)
        PROVE  /\ S \ {m + 1} \in SUBSET (1 .. m)
               /\ m + 1 \in S => Max(S) = m + 1 /\ S # {}
               /\ m + 1 \notin S => S \in SUBSET (1 .. m)
    <3>1. S \subseteq Int /\ \A i \in S : i <= m + 1
      OBVIOUS
    <3>2. m + 1 \in S => Max(S) = m + 1
      BY <3>1, GreatestIs
    <3> QED BY <3>2
  <2>4. it \in [SUBSET (1 .. m + 1) -> X]
    BY <2>1, <2>3
  <2>5. ASSUME NEW S \in SUBSET (1 .. m + 1)
        PROVE  it[S] = IF S = {} THEN b ELSE F[<<it[S \ {Max(S)}], Max(S)>>]
    <3>1. CASE m + 1 \in S
      <4>1. it[S \ {m + 1}] = old[S \ {m + 1}]
        BY <2>3
      <4> QED BY <2>3, <3>1, <4>1
    <3>2. CASE m + 1 \notin S
      <4>1. it[S] = old[S] /\ S \in SUBSET (1 .. m)
        BY <2>3, <3>2
      <4>2. S \ {Max(S)} \in SUBSET (1 .. m) /\ S \ {Max(S)} \in SUBSET (1 .. m + 1)
        BY <4>1
      <4>3. it[S \ {Max(S)}] = old[S \ {Max(S)}]
        BY <3>2, <4>2
      <4> HIDE DEF it
      <4> QED BY <2>2, <4>1, <4>3
    <3> QED BY <3>1, <3>2
  <2> HIDE DEF it
  <2> QED BY <2>4, <2>5
<1>3. Good(n)
  <2> HIDE DEF Good
  <2>1. 0 \in P /\ \A m \in Nat : m \in P => m + 1 \in P
    BY <1>1, <1>2
  <2>2. n \in P
    BY <2>1, Induction
  <2> QED BY <2>2
<1>4. PICK it \in [SUBSET (1 .. n) -> X] : Iter(n, it)
  <2>1. n <= n
    OBVIOUS
  <2> HIDE DEF Iter
  <2> QED BY <1>3, <2>1
<1>5. it = [S \in SUBSET (1 .. n) |-> it[S]]
  BY <1>4
<1>6. it = [S \in SUBSET (1 .. n) |->
              IF S = {} THEN b ELSE F[<<it[S \ {Max(S)}], Max(S)>>]]
  BY <1>4, <1>5
<1> QED BY <1>6 DEF IsFold

IsIteration(g, n, b, F) ==
    g = [i \in 0 .. n |-> IF i = 0 THEN b ELSE F[<<g[i - 1], i>>]]

\* And so does one over the numbers to n.
LEMMA Iteration ==
    ASSUME NEW n \in Nat, NEW X, NEW b \in X, NEW F \in [X \X (1 .. n) -> X]
    PROVE  \E g \in [0 .. n -> X] : IsIteration(g, n, b, F)
<1>1. PICK it \in [SUBSET (1 .. n) -> X] : IsFold(it, n, b, F)
  BY FoldExists
<1> DEFINE g == [i \in 0 .. n |-> it[1 .. i]]
<1>2. g \in [0 .. n -> X]
  OBVIOUS
<1>3. g[0] = b
  BY <1>1, Initials DEF IsFold
<1>4. ASSUME NEW i \in 1 .. n PROVE g[i] = F[<<g[i - 1], i>>]
  <2>1. /\ 1 .. i \in SUBSET (1 .. n) /\ 1 .. i # {}
        /\ Max(1 .. i) = i /\ (1 .. i) \ {i} = 1 .. i - 1
    BY Initials
  <2>2. it[1 .. i] = F[<<it[1 .. i - 1], i>>]
    BY <1>1, <2>1 DEF IsFold
  <2>3. i \in 0 .. n /\ i - 1 \in 0 .. n
    OBVIOUS
  <2> QED BY <2>2, <2>3
<1>5. \A i \in 0 .. n : g[i] = IF i = 0 THEN b ELSE F[<<g[i - 1], i>>]
  <2> HIDE DEF g
  <2>1. \A i \in 0 .. n : i = 0 \/ i \in 1 .. n
    OBVIOUS
  <2>2. 0 \notin 1 .. n
    OBVIOUS
  <2> QED BY <1>3, <1>4, <2>1, <2>2
<1> HIDE DEF g
<1>6. g = [i \in 0 .. n |-> IF i = 0 THEN b ELSE F[<<g[i - 1], i>>]]
  BY <1>2, <1>5
<1> QED BY <1>2, <1>6 DEF IsIteration

----------------------------------------------------------------------------
(* Concatenations.                                                         *)

\* c holds the values FlattenSeq goes through.
Flattens(c, n, q) ==
    /\ c[0] = <<>>
    /\ \A i \in 1 .. n : c[i] = c[i - 1] \o q[i]
    /\ FlattenSeq(q) = c[n]

\* FlattenSeq goes through the concatenations of the beginnings.
LEMMA FlattenSteps ==
    ASSUME NEW n \in Nat, NEW S, NEW q \in [1 .. n -> Seq(S)]
    PROVE  \E c \in [0 .. n -> Seq(S)] : Flattens(c, n, q)
<1>0. q \in Seq(Seq(S)) /\ Len(q) = n /\ <<>> \in Seq(S)
  OBVIOUS
<1> DEFINE F == [p \in Seq(S) \X (1 .. n) |-> p[1] \o q[p[2]]]
           X == Seq(S)
<1>1. F \in [X \X (1 .. n) -> X]
  <2>1. ASSUME NEW p \in Seq(S) \X (1 .. n) PROVE p[1] \o q[p[2]] \in Seq(S)
    <3>1. p[1] \in Seq(S) /\ q[p[2]] \in Seq(S)
      OBVIOUS
    <3> QED BY <3>1
  <2> QED BY <2>1
<1>2. PICK g \in [0 .. n -> X] : IsIteration(g, n, <<>>, F)
  <2> HIDE DEF F, X
  <2> QED BY <1>0, <1>1, Iteration DEF X
<1>3. g[0] = <<>> /\ \A i \in 1 .. n : g[i] = g[i - 1] \o q[i]
  <2>1. ASSUME NEW i \in 1 .. n PROVE F[<<g[i - 1], i>>] = g[i - 1] \o q[i]
    <3>1. i - 1 \in 0 .. n /\ g[i - 1] \in Seq(S)
      OBVIOUS
    <3> QED BY <3>1
  <2>2. 0 \in 0 .. n /\ \A i \in 1 .. n : i \in 0 .. n /\ i # 0
    OBVIOUS
  <2> HIDE DEF F
  <2> QED BY <1>2, <2>1, <2>2 DEF IsIteration
<1> HIDE DEF F
<1>a. 1 \in 1 .. n => g[1] = q[1]
  <2>1. SUFFICES ASSUME 1 \in 1 .. n PROVE g[1] = q[1]
    OBVIOUS
  <2>2. g[1] = g[1 - 1] \o q[1]
    BY <1>3, <2>1
  <2>3. 1 - 1 = 0 /\ q[1] \in Seq(S)
    BY <2>1
  <2> QED BY <1>3, <2>2, <2>3, ConcatEmptySeq
<1>4. CASE n = 0
  <2>1. q = <<>>
    BY <1>0, <1>4
  <2>2. FlattenSeq(q) = <<>>
    BY <1>0, <1>4, <2>1 DEF FlattenSeq
  <2> QED BY <1>3, <1>4, <2>2 DEF Flattens
<1>5. CASE n # 0
  <2> DEFINE E(f) == f = [i \in 1 .. n |-> IF i = 1 THEN q[i] ELSE f[i - 1] \o q[i]]
             h == [i \in 1 .. n |-> g[i]]
             c == CHOOSE f : E(f)
             d == [i \in 0 .. n |-> IF i = 0 THEN <<>> ELSE c[i]]
  <2>1. E(h)
    <3>1. ASSUME NEW i \in 1 .. n PROVE h[i] = IF i = 1 THEN q[i] ELSE h[i - 1] \o q[i]
      <4>1. CASE i = 1
        <5>1. g[1] = q[1]
          BY <1>3, <1>a, <4>1
        <5> QED BY <4>1, <5>1
      <4>2. CASE i # 1
        <5>1. i - 1 \in 1 .. n
          BY <4>2
        <5> QED BY <1>3, <4>2, <5>1
      <4> QED BY <4>1, <4>2
    <3> HIDE DEF h
    <3>2. h = [i \in 1 .. n |-> h[i]]
      BY DEF h
    <3> QED BY <3>1, <3>2
  <2>2. E(c)
    <3> HIDE DEF E
    <3> QED BY <2>1
  <2>3. FlattenSeq(q) = c[n]
    BY <1>0, <1>5 DEF FlattenSeq
  <2> HIDE DEF c
  <2>4. d[n] = c[n] /\ d[0] = <<>>
    BY <1>5
  <2>5. \A i \in 0 .. n : d[i] = g[i]
    <3> DEFINE Good(i) == i <= n => d[i] = g[i]
               P == {i \in Nat : Good(i)}
    <3>1. Good(0)
      BY <1>3, <2>4
    <3>2. ASSUME NEW i \in Nat, Good(i) PROVE Good(i + 1)
      <4>1. SUFFICES ASSUME i + 1 <= n PROVE d[i + 1] = g[i + 1]
        OBVIOUS
      <4>2. i + 1 \in 1 .. n /\ (i + 1) - 1 = i /\ d[i + 1] = c[i + 1]
        BY <4>1
      <4>3. g[i + 1] = g[i] \o q[i + 1]
        BY <1>3, <4>2
      <4>4. CASE i = 0
        <5>1. c[1] = q[1]
          BY <2>2, <4>2, <4>4
        <5>2. g[1] = q[1]
          BY <1>a, <4>2, <4>4
        <5> QED BY <4>2, <4>4, <5>1, <5>2
      <4>5. CASE i # 0
        <5>1. i \in 1 .. n /\ i + 1 # 1 /\ d[i] = c[i]
          BY <4>1, <4>5
        <5>2. c[i + 1] = c[i] \o q[i + 1]
          BY <2>2, <4>2, <5>1
        <5>3. d[i] = g[i]
          BY <3>2, <5>1
        <5> QED BY <4>2, <4>3, <5>1, <5>2, <5>3
      <4> QED BY <4>4, <4>5
    <3> HIDE DEF Good
    <3>3. 0 \in P /\ \A i \in Nat : i \in P => i + 1 \in P
      BY <3>1, <3>2
    <3>4. Nat \subseteq P
      BY <3>3, Induction
    <3>5. \A i \in 0 .. n : Good(i)
      BY <3>4
    <3> HIDE DEF d
    <3> QED BY <3>5 DEF Good
  <2>6. FlattenSeq(q) = g[n]
    BY <2>3, <2>4, <2>5
  <2> QED BY <1>3, <2>6 DEF Flattens
<1> QED BY <1>4, <1>5

\* What a concatenation is made of.
LEMMA Joined ==
    ASSUME NEW S, NEW a \in Seq(S), NEW b \in Seq(S)
    PROVE  /\ a \o b \in Seq(S) /\ Len(a \o b) = Len(a) + Len(b)
           /\ \A x \in 1 .. Len(a) : (a \o b)[x] = a[x]
           /\ \A x \in 1 .. Len(b) : (a \o b)[Len(a) + x] = b[x]
<1>1. a \o b \in Seq(S) /\ Len(a \o b) = Len(a) + Len(b)
  OBVIOUS
<1>2. ASSUME NEW x \in 1 .. Len(a) PROVE (a \o b)[x] = a[x]
  OBVIOUS
<1>3. ASSUME NEW x \in 1 .. Len(b) PROVE (a \o b)[Len(a) + x] = b[x]
  <2>1. Len(a) \in Nat /\ Len(b) \in Nat
    OBVIOUS
  <2>2. Len(a) + x \in 1 .. Len(a) + Len(b) /\ ~(Len(a) + x <= Len(a)) /\ (Len(a) + x) - Len(a) = x
    BY <2>1
  <2> QED BY <2>2
<1> QED BY <1>1, <1>2, <1>3

\* f is made of n blocks of length k, those of q.
InBlocks(f, q, n, k) ==
    /\ Len(f) = n * k
    /\ \A i \in 1 .. n, j \in 1 .. k : f[(i - 1) * k + j] = q[i][j]

\* A concatenation of sequences of k elements has them in blocks of k.
LEMMA FlattenBlocks ==
    ASSUME NEW n \in Nat, NEW k \in Nat, NEW S, NEW q \in [1 .. n -> Seq(S)],
           \A i \in 1 .. n : Len(q[i]) = k
    PROVE  FlattenSeq(q) \in Seq(S) /\ InBlocks(FlattenSeq(q), q, n, k)
<1>0. PICK c \in [0 .. n -> Seq(S)] : Flattens(c, n, q)
  BY FlattenSteps
<1>1. /\ c[0] = <<>>
      /\ \A i \in 1 .. n : c[i] = c[i - 1] \o q[i]
      /\ FlattenSeq(q) = c[n]
  BY <1>0 DEF Flattens
<1> DEFINE Good(m) == m <= n => /\ Len(c[m]) = m * k
                                /\ \A i \in 1 .. m, j \in 1 .. k : c[m][(i - 1) * k + j] = q[i][j]
           P == {m \in Nat : Good(m)}
<1>2. Good(0)
  BY <1>1
<1>3. ASSUME NEW m \in Nat, Good(m) PROVE Good(m + 1)
  <2>1. SUFFICES ASSUME m + 1 <= n
                 PROVE  /\ Len(c[m + 1]) = (m + 1) * k
                        /\ \A i \in 1 .. m + 1, j \in 1 .. k :
                              c[m + 1][(i - 1) * k + j] = q[i][j]
    OBVIOUS
  <2>2. m + 1 \in 1 .. n /\ (m + 1) - 1 = m /\ m \in 0 .. n /\ m <= n
    BY <2>1
  <2>3. c[m + 1] = c[m] \o q[m + 1] /\ c[m] \in Seq(S) /\ q[m + 1] \in Seq(S)
        /\ Len(q[m + 1]) = k
    BY <1>1, <2>2
  <2>4. Len(c[m]) = m * k
    BY <1>3, <2>2
  <2>5. (m + 1) * k = m * k + k /\ m * k \in Nat
    OBVIOUS
  <2>6. /\ Len(c[m + 1]) = m * k + k
        /\ \A x \in 1 .. m * k : c[m + 1][x] = c[m][x]
        /\ \A x \in 1 .. k : c[m + 1][m * k + x] = q[m + 1][x]
    <3> DEFINE L == m * k
               e == c[m + 1]
               a == c[m]
               b == q[m + 1]
    <3>1. L \in Nat /\ Len(a) = L /\ Len(b) = k /\ e = a \o b /\ a \in Seq(S) /\ b \in Seq(S)
      BY <2>3, <2>4, <2>5
    <3> HIDE DEF L, e, a, b
    <3>2. /\ Len(e) = L + k
          /\ \A x \in 1 .. L : e[x] = a[x]
          /\ \A x \in 1 .. k : e[L + x] = b[x]
      <4>1. /\ Len(a \o b) = Len(a) + Len(b)
            /\ \A x \in 1 .. Len(a) : (a \o b)[x] = a[x]
            /\ \A x \in 1 .. Len(b) : (a \o b)[Len(a) + x] = b[x]
        <5>1. a \in Seq(S) /\ b \in Seq(S)
          BY <3>1
        <5> QED BY ONLY <5>1, Joined
      <4> QED BY ONLY <3>1, <4>1
    <3> QED BY <3>2 DEF L, e, a, b
  <2>7. ASSUME NEW i \in 1 .. m + 1, NEW j \in 1 .. k
        PROVE  c[m + 1][(i - 1) * k + j] = q[i][j]
    <3>1. CASE i = m + 1
      <4> DEFINE L == m * k
      <4>1. L \in Nat /\ (i - 1) * k = L
        BY <2>5, <3>1
      <4> HIDE DEF L
      <4>2. c[m + 1][L + j] = q[m + 1][j]
        BY <2>6 DEF L
      <4> QED BY <3>1, <4>1, <4>2
    <3>2. CASE i # m + 1
      <4>1. i \in 1 .. m
        BY <3>2
      <4> DEFINE L == m * k
                 y == (i - 1) * k
      <4>2. L \in Nat /\ y \in Nat /\ y + k <= L
        <5>1. y + k = i * k /\ y \in Nat
          OBVIOUS
        <5>2. i = m \/ m > i
          BY <4>1
        <5>3. CASE i = m
          BY <2>5, <5>1, <5>3
        <5>4. CASE m > i
          <6>1. k * m >= k * i + k
            BY <4>1, <5>4, Larger
          <6>2. k * m = m * k /\ k * i = i * k
            BY <4>1
          <6> QED BY <2>5, <5>1, <6>1, <6>2
        <5> QED BY <5>2, <5>3, <5>4
      <4>3. c[m][y + j] = q[i][j]
        BY <1>3, <2>2, <4>1
      <4>4. \A x \in 1 .. L : c[m + 1][x] = c[m][x]
        BY <2>6
      <4> HIDE DEF L, y
      <4>5. y + j \in 1 .. L
        BY <4>2
      <4>6. c[m + 1][y + j] = q[i][j]
        BY <4>3, <4>4, <4>5
      <4> QED BY <4>6 DEF y
    <3> QED BY <3>1, <3>2
  <2> QED BY <2>5, <2>6, <2>7
<1> HIDE DEF Good
<1>4. 0 \in P /\ \A m \in Nat : m \in P => m + 1 \in P
  BY <1>2, <1>3
<1>5. Nat \subseteq P
  BY <1>4, Induction
<1>6. Good(n)
  BY <1>5
<1>7. FlattenSeq(q) = c[n] /\ c[n] \in Seq(S) /\ n <= n
  BY <1>1
<1> QED BY <1>6, <1>7 DEF Good, InBlocks

----------------------------------------------------------------------------
(* Beginnings and ends of sequences.                                       *)

\* The first m elements.
LEMMA BeginningFacts ==
    ASSUME NEW S, NEW s \in Seq(S), NEW m \in 0 .. Len(s)
    PROVE  /\ SubSeq(s, 1, m) \in Seq(S) /\ Len(SubSeq(s, 1, m)) = m
           /\ \A i \in 1 .. m : SubSeq(s, 1, m)[i] = s[i]
<1>1. m \in Nat /\ \A i \in 1 .. m : s[i] \in S /\ 1 + i - 1 = i
  OBVIOUS
<1>2. /\ SubSeq(s, 1, m) \in Seq(S)
      /\ Len(SubSeq(s, 1, m)) = IF 1 <= m THEN m - 1 + 1 ELSE 0
      /\ \A i \in 1 .. m - 1 + 1 : SubSeq(s, 1, m)[i] = s[1 + i - 1]
  BY <1>1, SubSeqProperties
<1> QED BY <1>1, <1>2

\* All elements.
LEMMA WholeSequence == ASSUME NEW S, NEW s \in Seq(S) PROVE SubSeq(s, 1, Len(s)) = s
<1> DEFINE t == SubSeq(s, 1, Len(s))
<1>1. Len(s) \in 0 .. Len(s)
  OBVIOUS
<1>2. t \in Seq(S) /\ Len(t) = Len(s) /\ \A i \in 1 .. Len(t) : t[i] = s[i]
  BY <1>1, BeginningFacts
<1> HIDE DEF t
<1>3. t = s
  BY <1>2, SeqEqual
<1> QED BY <1>3 DEF t

\* The next element after the first i.
LEMMA OneMore ==
    ASSUME NEW S, NEW s \in Seq(S), NEW i \in Nat, i + 1 <= Len(s)
    PROVE  Append(SubSeq(s, 1, i), s[i + 1]) = SubSeq(s, 1, i + 1)
<1> DEFINE y == SubSeq(s, 1, i)
           z == SubSeq(s, 1, i + 1)
           a == s[i + 1]
           w == Append(y, a)
<1>1. i \in 0 .. Len(s) /\ i + 1 \in 0 .. Len(s) /\ i + 1 \in 1 .. Len(s)
  OBVIOUS
<1>2. a \in S
  BY <1>1
<1>3. /\ y \in Seq(S) /\ Len(y) = i /\ \A j \in 1 .. i : y[j] = s[j]
      /\ z \in Seq(S) /\ Len(z) = i + 1 /\ \A j \in 1 .. i + 1 : z[j] = s[j]
  BY <1>1, BeginningFacts
<1>4. z[i + 1] = a /\ \A j \in 1 .. i : z[j] = y[j]
  BY <1>3
<1> HIDE DEF y, z, a
<1>5. /\ w \in Seq(S) /\ Len(w) = i + 1 /\ w[i + 1] = a
      /\ \A j \in 1 .. i : w[j] = y[j]
  BY <1>2, <1>3, AppendProperties
<1> HIDE DEF w
<1>6. \A j \in 1 .. i + 1 : w[j] = z[j]
  <2>1. \A j \in 1 .. i + 1 : j \in 1 .. i \/ j = i + 1
    OBVIOUS
  <2> QED BY <1>4, <1>5, <2>1
<1>7. w = z
  BY <1>3, <1>5, <1>6, SeqEqual
<1> QED BY <1>7 DEF w, y, z, a

\* Another last element.
LEMMA LastReplaced ==
    ASSUME NEW S, NEW d \in Seq(S), NEW y \in S, NEW z \in S
    PROVE  [Append(d, y) EXCEPT ![Len(Append(d, y))] = z] = Append(d, z)
<1> DEFINE v == Append(d, y)
           w == Append(d, z)
           k == Len(d)
           l == Len(v)
           u == [v EXCEPT ![l] = z]
<1>1. k \in Nat
  OBVIOUS
<1>2. v \in Seq(S) /\ Len(v) = k + 1 /\ \A j \in 1 .. k : v[j] = d[j]
  BY AppendProperties
<1>3. /\ w \in Seq(S) /\ Len(w) = k + 1 /\ w[k + 1] = z
      /\ \A j \in 1 .. k : w[j] = d[j]
  BY AppendProperties
<1> HIDE DEF v, w, k
<1>4. l = k + 1 /\ l \in 1 .. Len(v) /\ Len(v) = l
  BY <1>1, <1>2
<1> HIDE DEF l
<1>5. /\ u \in Seq(S) /\ Len(u) = Len(v)
      /\ \A j \in 1 .. Len(v) : u[j] = IF j = l THEN z ELSE v[j]
  BY ONLY z \in S, <1>2, <1>4, ExceptSeq
<1> HIDE DEF u
<1>6. ASSUME NEW j \in 1 .. Len(u) PROVE u[j] = w[j]
  <2>1. j \in 1 .. k + 1 /\ j \in 1 .. Len(v)
    BY <1>4, <1>5
  <2>2. u[j] = IF j = l THEN z ELSE v[j]
    BY <1>5, <2>1
  <2>3. CASE j = l
    BY <1>3, <1>4, <2>2, <2>3
  <2>4. CASE j # l
    <3>1. j \in 1 .. k
      BY <1>1, <1>4, <2>1, <2>4
    <3> QED BY <1>2, <1>3, <2>2, <2>4, <3>1
  <2> QED BY <2>3, <2>4
<1>7. Len(u) = Len(w)
  BY <1>3, <1>4, <1>5
<1>8. u = w
  BY <1>3, <1>5, <1>6, <1>7, SeqEqual
<1> QED BY <1>8 DEF u, w, v, l

\* What Append makes, element by element.
LEMMA AppendIs ==
    ASSUME NEW S, NEW s \in Seq(S), NEW x \in S, NEW t \in Seq(S),
           Len(t) = Len(s) + 1, \A i \in 1 .. Len(s) : t[i] = s[i], t[Len(s) + 1] = x
    PROVE  Append(s, x) = t
<1> DEFINE u == Append(s, x)
           k == Len(s)
<1>1. u \in Seq(S) /\ Len(u) = k + 1 /\ u[k + 1] = x /\ \A i \in 1 .. k : u[i] = s[i]
  BY AppendProperties
<1> HIDE DEF u
<1>2. \A i \in 1 .. Len(u) : u[i] = t[i]
  <2>1. \A i \in 1 .. Len(u) : i \in 1 .. k \/ i = k + 1
    BY <1>1
  <2> QED BY <1>1, <2>1
<1>3. u = t
  BY <1>1, <1>2, SeqEqual
<1> QED BY <1>3 DEF u

\* Four elements appended to one.
LEMMA FiveAppended ==
    ASSUME NEW S, NEW a \in S, NEW b \in S, NEW c \in S, NEW d \in S, NEW e \in S
    PROVE  Append(Append(Append(Append(<<a>>, b), c), d), e) = <<a, b, c, d, e>>
<1> DEFINE t1 == <<a>>
           t2 == <<a, b>>
           t3 == <<a, b, c>>
           t4 == <<a, b, c, d>>
           t5 == <<a, b, c, d, e>>
<1>1. /\ t1 \in Seq(S) /\ Len(t1) = 1 /\ t1[1] = a
      /\ t2 \in Seq(S) /\ Len(t2) = 2 /\ t2[1] = a /\ t2[2] = b
      /\ t3 \in Seq(S) /\ Len(t3) = 3 /\ t3[1] = a /\ t3[2] = b /\ t3[3] = c
  OBVIOUS
<1>2. /\ t4 \in Seq(S) /\ Len(t4) = 4 /\ t4[1] = a /\ t4[2] = b /\ t4[3] = c /\ t4[4] = d
      /\ t5 \in Seq(S) /\ Len(t5) = 5
      /\ t5[1] = a /\ t5[2] = b /\ t5[3] = c /\ t5[4] = d /\ t5[5] = e
  OBVIOUS
<1> HIDE DEF t1, t2, t3, t4, t5
<1>3. /\ \A i \in 1 .. 1 : i = 1
      /\ \A i \in 1 .. 2 : i = 1 \/ i = 2
      /\ \A i \in 1 .. 3 : i = 1 \/ i = 2 \/ i = 3
      /\ \A i \in 1 .. 4 : i = 1 \/ i = 2 \/ i = 3 \/ i = 4
  OBVIOUS
<1>4. Append(t1, b) = t2
  <2>1. \A i \in 1 .. Len(t1) : t2[i] = t1[i]
    BY <1>1, <1>3
  <2>2. Len(t2) = Len(t1) + 1 /\ t2[Len(t1) + 1] = b
    BY <1>1
  <2> QED BY <1>1, <2>1, <2>2, AppendIs
<1>5. Append(t2, c) = t3
  <2>1. \A i \in 1 .. Len(t2) : t3[i] = t2[i]
    BY <1>1, <1>3
  <2>2. Len(t3) = Len(t2) + 1 /\ t3[Len(t2) + 1] = c
    BY <1>1
  <2> QED BY <1>1, <2>1, <2>2, AppendIs
<1>6. Append(t3, d) = t4
  <2>1. \A i \in 1 .. Len(t3) : t4[i] = t3[i]
    BY <1>1, <1>2, <1>3
  <2>2. Len(t4) = Len(t3) + 1 /\ t4[Len(t3) + 1] = d
    BY <1>1, <1>2
  <2> QED BY <1>1, <1>2, <2>1, <2>2, AppendIs
<1>7. Append(t4, e) = t5
  <2>1. \A i \in 1 .. Len(t4) : t5[i] = t4[i]
    BY <1>2, <1>3
  <2>2. Len(t5) = Len(t4) + 1 /\ t5[Len(t4) + 1] = e
    BY <1>1, <1>2
  <2> QED BY <1>2, <2>1, <2>2, AppendIs
<1> QED BY <1>4, <1>5, <1>6, <1>7 DEF t1, t5
=============================================================================
