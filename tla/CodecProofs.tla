---------------------------- MODULE CodecProofs ----------------------------
(***************************************************************************)
(* Proofs about Codec, for words of any length, any number of rounds, any  *)
(* key, any column and any paths and sums.                                 *)
(***************************************************************************)
EXTENDS Codec, DataLemmas

Word == 0 .. WordMod - 1

----------------------------------------------------------------------------
(* Powers of 256 and words.                                                *)

\* What the assumption says of the widths.
LEMMA Widths ==
    /\ WordBytes \in Nat \ {0} /\ Rounds \in Nat \ {0} /\ Column \in Nat \ {0}
    /\ Block \in Nat \ {0}
  BY CodecAssumption DEF Block

\* Power is what its equation says.
LEMMA PowerFacts ==
    /\ Power \in [0 .. WordBytes -> Nat \ {0}]
    /\ Power[0] = 1
    /\ \A i \in 1 .. WordBytes : Power[i] = 256 * Power[i - 1]
<1> DEFINE Positive == Nat \ {0}
           F == [p \in Positive \X (1 .. WordBytes) |-> 256 * p[1]]
           E(g) == g = [i \in 0 .. WordBytes |-> IF i = 0 THEN 1 ELSE 256 * g[i - 1]]
<1>1. F \in [Positive \X (1 .. WordBytes) -> Positive] /\ 1 \in Positive
  OBVIOUS
<1>2. PICK g \in [0 .. WordBytes -> Positive] : IsIteration(g, WordBytes, 1, F)
  <2>1. WordBytes \in Nat
    BY Widths
  <2> HIDE DEF F, Positive
  <2> QED BY <1>1, <2>1, Iteration
<1>3. E(g)
  <2>1. ASSUME NEW i \in 0 .. WordBytes, i # 0 PROVE F[<<g[i - 1], i>>] = 256 * g[i - 1]
    <3>1. g[i - 1] \in Positive /\ i \in 1 .. WordBytes
      BY <2>1, Widths
    <3> QED BY <3>1
  <2> HIDE DEF F
  <2> QED BY <1>2, <2>1 DEF IsIteration
<1>4. E(CHOOSE f : E(f))
  <2> HIDE DEF E
  <2> QED BY <1>3
<1>5. E(Power)
  BY <1>4 DEF Power
<1>6. \A i \in 0 .. WordBytes : Power[i] \in Nat \ {0}
  <2> DEFINE Good(i) == i <= WordBytes => Power[i] \in Nat \ {0}
             P == {i \in Nat : Good(i)}
  <2>1. Good(0)
    BY <1>5, Widths
  <2>2. ASSUME NEW i \in Nat, Good(i) PROVE Good(i + 1)
    BY <1>5, <2>2, Widths
  <2> HIDE DEF Good
  <2>3. 0 \in P /\ \A i \in Nat : i \in P => i + 1 \in P
    BY <2>1, <2>2
  <2>4. Nat \subseteq P
    <3> HIDE DEF P
    <3> QED BY ONLY <2>3, Induction
  <2>5. \A i \in 0 .. WordBytes : Good(i)
    BY <2>4
  <2> QED BY <2>5, Widths DEF Good
<1>7. Power = [i \in 0 .. WordBytes |-> Power[i]]
  BY <1>5
<1>8. Power[0] = 1 /\ \A i \in 1 .. WordBytes : Power[i] = 256 * Power[i - 1]
  BY <1>5, Widths
<1> QED BY <1>6, <1>7, <1>8

\* Sums and differences cut to a word are words.
LEMMA WordFacts ==
    /\ WordMod \in Nat \ {0}
    /\ \A a, b \in Int : Add(a, b) \in Word /\ Sub(a, b) \in Word
    /\ \A a \in Word : a \in Nat /\ a < WordMod
<1>1. WordMod \in Nat \ {0}
  BY PowerFacts, Widths DEF WordMod
<1>2. ASSUME NEW a \in Int, NEW b \in Int PROVE Add(a, b) \in Word /\ Sub(a, b) \in Word
  <2>1. a + b \in Int /\ a - b \in Int
    OBVIOUS
  <2> QED BY <1>1, <2>1, Division DEF Add, Sub, Word
<1> QED BY <1>1, <1>2 DEF Word

----------------------------------------------------------------------------
(* Words and bytes.                                                        *)

\* A remainder of a remainder.
LEMMA Nested ==
    ASSUME NEW p \in Nat \ {0}, NEW q \in Int, NEW t \in 0 .. 255, NEW r \in Int, 0 <= r, r < p
    PROVE  /\ p * (256 * q + t) + r = (256 * p) * q + (p * t + r)
           /\ 0 <= p * t + r /\ p * t + r < 256 * p
           /\ 256 * p \in Nat \ {0} /\ p * t + r \in Int /\ (256 * p) * q \in Int
<1>1. p * (256 * q + t) = (256 * p) * q + p * t
  OBVIOUS
<1>2. p * t \in Nat /\ p * t <= p * 255
  <2>1. t = 255 \/ 255 > t
    OBVIOUS
  <2>2. CASE t = 255
    BY <2>2
  <2>3. CASE 255 > t
    <3>1. p * 255 >= p * t + p
      BY <2>3, Larger
    <3>2. p * t \in Nat
      OBVIOUS
    <3> QED BY <3>1, <3>2
  <2> QED BY <2>1, <2>2, <2>3
<1>3. (256 * p) * q \in Int
  OBVIOUS
<1> DEFINE x == p * t
           y == (256 * p) * q
           z == p * (256 * q + t)
<1>4. x \in Nat /\ x <= p * 255 /\ y \in Int /\ z = y + x
  BY <1>1, <1>2, <1>3
<1> HIDE DEF x, y, z
<1>5. z + r = y + (x + r) /\ 0 <= x + r /\ x + r < 256 * p /\ x + r \in Int
  BY <1>4
<1> QED BY <1>4, <1>5 DEF x, y, z

\* The values WordAt goes through, for the bytes s.
Sums(g, n, s)   == g[0] = 0 /\ \A i \in 1 .. n : g[i] = g[i - 1] * 256 + s[i]
ValueOf(s)      == FoldLeft(LAMBDA w, b : w * 256 + b, 0, s)
AreBytes(s, n)  == DOMAIN s = 1 .. n /\ \A i \in 1 .. n : s[i] \in Bytes

\* WordAt goes through the values of the beginnings.
LEMMA WordSteps ==
    ASSUME NEW n \in Nat, NEW s, AreBytes(s, n)
    PROVE  \E g \in [0 .. n -> Nat] : Sums(g, n, s) /\ ValueOf(s) = g[n]
<1>a. DOMAIN s = 1 .. n /\ \A i \in 1 .. n : s[i] \in Bytes
  BY DEF AreBytes
<1>0. \A i \in 1 .. n : s[i] \in Nat
  <2>1. Bytes \subseteq Nat
    BY DEF Bytes
  <2> QED BY <1>a, <2>1
<1> DEFINE F == [p \in Nat \X (1 .. n) |-> p[1] * 256 + s[p[2]]]
           E(it) == it = [S \in SUBSET (1 .. n) |->
                            IF S = {} THEN 0 ELSE it[S \ {Max(S)}] * 256 + s[Max(S)]]
           c == CHOOSE f : E(f)
           g == [i \in 0 .. n |-> c[1 .. i]]
<1>1. F \in [Nat \X (1 .. n) -> Nat]
  <2>1. \A p \in Nat \X (1 .. n) : p[1] * 256 + s[p[2]] \in Nat
    BY <1>0
  <2> QED BY <2>1
<1>2. PICK it \in [SUBSET (1 .. n) -> Nat] : IsFold(it, n, 0, F)
  <2> HIDE DEF F
  <2> QED BY <1>1, FoldExists
<1>3. E(it)
  <2>1. ASSUME NEW S \in SUBSET (1 .. n), S # {}
        PROVE  F[<<it[S \ {Max(S)}], Max(S)>>] = it[S \ {Max(S)}] * 256 + s[Max(S)]
    <3>1. Max(S) \in 1 .. n /\ S \ {Max(S)} \in SUBSET (1 .. n)
      BY <2>1, Greatest
    <3> QED BY <3>1
  <2> HIDE DEF F
  <2> QED BY <1>2, <2>1 DEF IsFold
<1>4. E(c)
  <2> HIDE DEF E
  <2> QED BY <1>3
<1>5. FoldLeft(LAMBDA w, b : w * 256 + b, 0, s) = c[1 .. n]
  BY <1>a DEF FoldLeft, MapThenFoldSet
<1> HIDE DEF c
<1>6. g[0] = 0
  BY <1>4, Initials
<1>7. ASSUME NEW i \in 1 .. n PROVE g[i] = g[i - 1] * 256 + s[i]
  <2>1. /\ 1 .. i \in SUBSET (1 .. n) /\ 1 .. i # {}
        /\ Max(1 .. i) = i /\ (1 .. i) \ {i} = 1 .. i - 1
    BY Initials
  <2>2. c[1 .. i] = c[1 .. i - 1] * 256 + s[i]
    <3> DEFINE S == 1 .. i
               R == S \ {Max(S)}
    <3>1. S \in SUBSET (1 .. n) /\ S # {} /\ Max(S) = i /\ R = 1 .. i - 1
      BY <2>1
    <3> HIDE DEF S
    <3>2. c[S] = c[R] * 256 + s[Max(S)]
      BY <1>4, <3>1
    <3> HIDE DEF R
    <3>3. c[S] = c[1 .. i - 1] * 256 + s[i]
      BY ONLY <3>1, <3>2
    <3> QED BY <3>3 DEF S
  <2> QED BY <2>2
<1>8. g[n] = c[1 .. n]
  OBVIOUS
<1>9. g = [i \in 0 .. n |-> g[i]]
  OBVIOUS
<1> HIDE DEF g
<1>10. \A i \in 0 .. n : g[i] \in Nat
  <2> DEFINE Good(i) == i <= n => g[i] \in Nat
             P == {i \in Nat : Good(i)}
  <2>1. Good(0)
    BY <1>6
  <2>2. ASSUME NEW i \in Nat, Good(i) PROVE Good(i + 1)
    <3>1. SUFFICES ASSUME i + 1 <= n PROVE g[i + 1] \in Nat
      OBVIOUS
    <3>2. g[i] \in Nat /\ i + 1 \in 1 .. n /\ (i + 1) - 1 = i
      BY <2>2, <3>1
    <3>3. s[i + 1] \in Nat
      BY <1>0, <3>2
    <3> QED BY <1>7, <3>2, <3>3
  <2> HIDE DEF Good
  <2>3. 0 \in P /\ \A i \in Nat : i \in P => i + 1 \in P
    BY <2>1, <2>2
  <2>4. Nat \subseteq P
    BY <2>3, Induction
  <2> QED BY <2>4 DEF Good
<1> QED BY <1>5, <1>6, <1>7, <1>8, <1>9, <1>10 DEF Sums, ValueOf

\* What n bytes, most significant first, make.
LEMMA Digits ==
    ASSUME NEW s, AreBytes(s, WordBytes), NEW g \in [0 .. WordBytes -> Nat], Sums(g, WordBytes, s)
    PROVE  /\ g[WordBytes] \in Word
           /\ \A j \in 1 .. WordBytes : BytesOf(g[WordBytes])[j] = s[j]
<1>a. /\ \A i \in 1 .. WordBytes : s[i] \in Bytes
      /\ g[0] = 0 /\ \A i \in 1 .. WordBytes : g[i] = g[i - 1] * 256 + s[i]
  BY DEF AreBytes, Sums
<1> DEFINE n == WordBytes
           Good(k) == k <= n => \E r \in Int : /\ 0 <= r /\ r < Power[k]
                                               /\ g[n] = Power[k] * g[n - k] + r
           P == {k \in Nat : Good(k)}
<1>0. n \in Nat /\ n # 0
  BY Widths
<1> HIDE DEF n
<1>1. Good(0)
  <2>1. Power[0] = 1 /\ n - 0 = n /\ g[n] \in Nat
    BY <1>0, PowerFacts DEF n
  <2>2. g[n] = 1 * g[n] + 0
    BY <2>1
  <2> QED BY <2>1, <2>2
<1>2. ASSUME NEW k \in Nat, Good(k) PROVE Good(k + 1)
  <2>1. SUFFICES ASSUME k + 1 <= n
                 PROVE  \E r \in Int : /\ 0 <= r /\ r < Power[k + 1]
                                       /\ g[n] = Power[k + 1] * g[n - (k + 1)] + r
    OBVIOUS
  <2> DEFINE p == Power[k]
             j == n - k
             q == g[j - 1]
             t == s[j]
  <2>2. /\ k <= n /\ k \in 0 .. n /\ k + 1 \in 1 .. n /\ (k + 1) - 1 = k
        /\ j \in 1 .. n /\ j - 1 \in 0 .. n /\ n - (k + 1) = j - 1
    BY <1>0, <2>1
  <2>3. p \in Nat \ {0} /\ Power[k + 1] = 256 * p
    BY <2>2, PowerFacts DEF n
  <2>4. PICK r \in Int : 0 <= r /\ r < p /\ g[n] = p * g[j] + r
    BY <1>2, <2>2
  <2> HIDE DEF j, p
  <2>5. q \in Nat /\ t \in 0 .. 255 /\ g[j] = q * 256 + t
    BY <1>a, <2>2 DEF n, Bytes
  <2> HIDE DEF q, t
  <2>6. g[j] = 256 * q + t
    BY <2>5
  <2>7. /\ p * (256 * q + t) + r = (256 * p) * q + (p * t + r)
        /\ 0 <= p * t + r /\ p * t + r < 256 * p /\ p * t + r \in Int
    BY <2>3, <2>4, <2>5, Nested
  <2>8. g[n] = (256 * p) * q + (p * t + r)
    BY <2>4, <2>6, <2>7
  <2>9. Power[k + 1] * g[n - (k + 1)] = (256 * p) * q
    BY <2>2, <2>3 DEF q
  <2> DEFINE x == p * t + r
  <2>10. 0 <= x /\ x < Power[k + 1] /\ g[n] = Power[k + 1] * g[n - (k + 1)] + x /\ x \in Int
    BY <2>3, <2>7, <2>8, <2>9
  <2> HIDE DEF x
  <2> QED BY <2>10
<1> HIDE DEF Good
<1>3. 0 \in P /\ \A k \in Nat : k \in P => k + 1 \in P
  BY <1>1, <1>2
<1>4. Nat \subseteq P
  BY <1>3, Induction
<1>5. \A k \in 0 .. n : Good(k)
  BY <1>0, <1>4
<1>6. g[n] \in Word
  <2>1. Good(n) /\ n - n = 0 /\ n <= n
    BY <1>0, <1>5
  <2>2. PICK r \in Int : 0 <= r /\ r < Power[n] /\ g[n] = Power[n] * g[0] + r
    BY <2>1 DEF Good
  <2>3. Power[n] \in Nat /\ g[0] = 0
    BY <1>0, <1>a, PowerFacts DEF n
  <2>4. g[n] = r
    BY <2>2, <2>3
  <2> QED BY <2>2, <2>3, <2>4 DEF Word, WordMod, n
<1>7. ASSUME NEW j \in 1 .. n PROVE (g[n] \div Power[n - j]) % 256 = s[j]
  <2> DEFINE k == n - j
             p == Power[k]
             a == g[n]
             d == g[j]
             e == g[j - 1]
             t == s[j]
  <2>1. k \in 0 .. n /\ k <= n /\ n - k = j /\ j - 1 \in 0 .. n /\ j \in 0 .. n /\ n \in 0 .. n
    BY <1>0
  <2> HIDE DEF k
  <2>2. PICK r \in Int : 0 <= r /\ r < p /\ a = p * d + r
    BY <1>5, <2>1 DEF Good
  <2>3. p \in Nat \ {0}
    BY <2>1, PowerFacts DEF n
  <2>4. a \in Nat /\ d \in Nat /\ e \in Nat
    BY <2>1 DEF n
  <2>5. d = e * 256 + t /\ t \in Bytes
    BY <1>a DEF n
  <2> HIDE DEF a, d, e, p, t
  <2>6. a \div p = d
    BY <2>2, <2>3, <2>4, Quotient
  <2>7. t \in Int /\ 0 <= t /\ t < 256 /\ 256 \in Nat \ {0}
    BY <2>5 DEF Bytes
  <2>8. d = 256 * e + t
    BY <2>4, <2>5, <2>7
  <2>9. d % 256 = t
    BY <2>4, <2>7, <2>8, Quotient
  <2> QED BY <2>6, <2>9 DEF a, d, t, p, k
<1> QED BY <1>6, <1>7 DEF n, BytesOf

\* Dividing by p leaves one digit more than dividing by 256 * p.
LEMMA OneDigitMore ==
    ASSUME NEW p \in Nat \ {0}, NEW m \in Nat \ {0}, m = 256 * p,
           NEW u \in Int, NEW r \in Int, 0 <= r, r < p,
           NEW x \in Int, NEW y \in Int, 0 <= y, y < m, p * u + r = m * x + y
    PROVE  \E t \in 0 .. 255 : u = 256 * x + t
<1> DEFINE q == u \div 256
           t == u % 256
<1>1. q \in Int /\ t \in 0 .. 255 /\ u = 256 * q + t
  BY Division
<1> HIDE DEF q, t
<1> DEFINE z == p * t + r
<1>2. z \in Int /\ 0 <= z /\ z < m /\ p * u + r = m * q + z
  BY <1>1, Nested
<1> HIDE DEF z
<1>3. m * q + z = m * x + y
  BY <1>2
<1>4. x = q
  BY <1>1, <1>2, <1>3, Unique
<1> QED BY <1>1, <1>4

\* The bytes of a word make the word.
LEMMA Recombined ==
    ASSUME NEW w \in Word, NEW s, \A j \in 1 .. WordBytes : s[j] = BytesOf(w)[j],
           NEW g \in [0 .. WordBytes -> Nat], Sums(g, WordBytes, s)
    PROVE  g[WordBytes] = w
<1> DEFINE n == WordBytes
           Good(j) == j <= n => g[j] = w \div Power[n - j]
           P == {j \in Nat : Good(j)}
<1>0. n \in Nat /\ n # 0 /\ w \in Nat
  BY Widths, WordFacts
<1>a. g[0] = 0 /\ \A i \in 1 .. n : g[i] = g[i - 1] * 256 + s[i]
  BY DEF Sums
<1>1. Good(0)
  <2>1. Power[n] \in Nat \ {0} /\ n - 0 = n /\ w < Power[n] /\ 0 <= w
    BY <1>0, PowerFacts, WordFacts DEF WordMod
  <2>2. w = Power[n] * 0 + w
    BY <1>0, <2>1
  <2>3. w \div Power[n] = 0
    BY <1>0, <2>1, <2>2, Quotient
  <2> QED BY <1>a, <2>1, <2>3
<1>2. ASSUME NEW j \in Nat, Good(j) PROVE Good(j + 1)
  <2>1. SUFFICES ASSUME j + 1 <= n PROVE g[j + 1] = w \div Power[n - (j + 1)]
    OBVIOUS
  <2> DEFINE k == n - (j + 1)
             p == Power[k]
  <2>2. /\ k \in 0 .. n /\ k + 1 \in 1 .. n /\ (k + 1) - 1 = k /\ n - j = k + 1
        /\ j + 1 \in 1 .. n /\ (j + 1) - 1 = j /\ j <= n
    BY <1>0, <2>1
  <2> HIDE DEF k
  <2>3. p \in Nat \ {0} /\ Power[k + 1] = 256 * p
    <3>1. Power[k + 1] = 256 * Power[(k + 1) - 1]
      BY <2>2, PowerFacts
    <3>2. p \in Nat \ {0}
      BY <2>2, PowerFacts
    <3> QED BY <2>2, <3>1, <3>2
  <2> DEFINE m == Power[k + 1]
             x == w \div m
             y == w % m
             u == w \div p
             r == w % p
  <2>4. m = 256 * p /\ m \in Nat \ {0}
    BY <2>3
  <2>5. /\ u \in Int /\ r \in Int /\ 0 <= r /\ r < p /\ w = p * u + r
        /\ x \in Int /\ y \in Int /\ 0 <= y /\ y < m /\ w = m * x + y
    <3>1. w \in Int /\ p \in Nat \ {0} /\ m \in Nat \ {0}
      BY <1>0, <2>3, <2>4
    <3> HIDE DEF m, p
    <3>2. u \in Int /\ r \in Int /\ 0 <= r /\ r < p /\ w = p * u + r
      BY ONLY <3>1, Division
    <3>3. x \in Int /\ y \in Int /\ 0 <= y /\ y < m /\ w = m * x + y
      BY ONLY <3>1, Division
    <3> QED BY <3>2, <3>3
  <2>6. g[j + 1] = g[j] * 256 + s[j + 1] /\ g[j] = x /\ s[j + 1] = u % 256
    BY <1>2, <1>a, <2>2 DEF k, BytesOf
  <2> HIDE DEF p, m, x, y, u, r
  <2>7. PICK t \in 0 .. 255 : u = 256 * x + t
    <3>1. p * u + r = m * x + y
      BY <2>5
    <3> QED BY <2>3, <2>4, <2>5, <3>1, OneDigitMore
  <2>8. g[j + 1] = u
    <3>1. u \in Int /\ 256 \in Nat \ {0} /\ x \in Int /\ t \in Int /\ 0 <= t /\ t < 256
          /\ u = 256 * x + t
      BY <2>5, <2>7
    <3>2. u % 256 = t
      BY ONLY <3>1, Quotient
    <3> QED BY <2>6, <3>1, <3>2
  <2> QED BY <2>8 DEF u, p, k
<1> HIDE DEF Good
<1>3. 0 \in P /\ \A j \in Nat : j \in P => j + 1 \in P
  BY <1>1, <1>2
<1>4. Nat \subseteq P
  BY <1>3, Induction
<1>5. Good(n)
  BY <1>0, <1>4
<1>6. g[n] = w \div 1
  <2>1. n <= n /\ n - n = 0
    BY <1>0
  <2> QED BY <1>5, <2>1, PowerFacts DEF Good
<1>7. w \div 1 = w
  <2>1. w = 1 * w + 0
    BY <1>0
  <2> QED BY <1>0, <2>1, Quotient
<1> QED BY <1>6, <1>7

\* The word at i and its bytes.
LEMMA WordBytesAt ==
    ASSUME NEW dat, NEW i \in Int, \A j \in 1 .. WordBytes : dat[i + j - 1] \in Bytes
    PROVE  /\ WordAt(dat, i) \in Word
           /\ \A j \in 1 .. WordBytes : BytesOf(WordAt(dat, i))[j] = dat[i + j - 1]
<1> DEFINE n == WordBytes
           m == i + n - 1
           s == SubSeq(dat, i, m)
<1>1. n \in Nat /\ n # 0 /\ m \in Int /\ i <= m /\ m - i + 1 = n
  BY Widths
<1>2. \A k \in i .. m : dat[k] \in Bytes
  <2>1. ASSUME NEW k \in i .. m PROVE dat[k] \in Bytes
    <3>1. k - i + 1 \in 1 .. n /\ i + (k - i + 1) - 1 = k
      BY <1>1
    <3> QED BY <3>1
  <2> QED BY <2>1
<1>3. s \in Seq(Bytes) /\ Len(s) = n /\ \A j \in 1 .. n : s[j] = dat[i + j - 1]
  <2> HIDE DEF n, m
  <2> QED BY <1>1, <1>2, SubSeqProperties
<1> HIDE DEF s, m, n
<1>4. AreBytes(s, n)
  BY <1>3 DEF AreBytes
<1>5. PICK g \in [0 .. n -> Nat] : Sums(g, n, s) /\ ValueOf(s) = g[n]
  BY <1>1, <1>4, WordSteps
<1>6. WordAt(dat, i) = g[n]
  BY <1>5 DEF WordAt, ValueOf, s, m, n
<1>7. g[n] \in Word /\ \A j \in 1 .. n : BytesOf(g[n])[j] = s[j]
  BY <1>4, <1>5, Digits DEF n
<1> QED BY <1>3, <1>6, <1>7 DEF n

\* The bytes of a word are bytes.
LEMMA BytesOfType ==
    ASSUME NEW w \in Word
    PROVE  BytesOf(w) \in [1 .. WordBytes -> Bytes]
<1>1. ASSUME NEW j \in 1 .. WordBytes PROVE (w \div Power[WordBytes - j]) % 256 \in Bytes
  <2> DEFINE p == Power[WordBytes - j]
             a == w \div p
  <2>1. WordBytes - j \in 0 .. WordBytes
    BY Widths
  <2>2. p \in Nat \ {0}
    BY <2>1, PowerFacts
  <2>3. w \in Int
    BY WordFacts
  <2> HIDE DEF p
  <2>4. a \in Int
    BY <2>2, <2>3, Division
  <2> HIDE DEF a
  <2>5. a % 256 \in 0 .. 255
    BY <2>4
  <2> QED BY <2>5 DEF a, p, Bytes
<1> QED BY <1>1 DEF BytesOf

\* A word is found again where its bytes are.
LEMMA WordFound ==
    ASSUME NEW dat, NEW i \in Int, NEW w \in Word,
           \A j \in 1 .. WordBytes : dat[i + j - 1] = BytesOf(w)[j]
    PROVE  WordAt(dat, i) = w
<1> DEFINE n == WordBytes
           m == i + n - 1
           s == SubSeq(dat, i, m)
<1>1. n \in Nat /\ n # 0 /\ m \in Int /\ i <= m /\ m - i + 1 = n
  BY Widths
<1>2. \A j \in 1 .. n : dat[i + j - 1] \in Bytes
  BY BytesOfType
<1>3. \A k \in i .. m : dat[k] \in Bytes
  <2>1. ASSUME NEW k \in i .. m PROVE dat[k] \in Bytes
    <3>1. k - i + 1 \in 1 .. n /\ i + (k - i + 1) - 1 = k
      BY <1>1
    <3> QED BY <1>2, <3>1
  <2> QED BY <2>1
<1>4. s \in Seq(Bytes) /\ Len(s) = n /\ \A j \in 1 .. n : s[j] = dat[i + j - 1]
  <2> HIDE DEF n, m
  <2> QED BY <1>1, <1>3, SubSeqProperties
<1> HIDE DEF s, m, n
<1>5. AreBytes(s, n)
  BY <1>4 DEF AreBytes
<1>6. PICK g \in [0 .. n -> Nat] : Sums(g, n, s) /\ ValueOf(s) = g[n]
  BY <1>1, <1>5, WordSteps
<1>7. WordAt(dat, i) = g[n]
  BY <1>6 DEF WordAt, ValueOf, s, m, n
<1>8. \A j \in 1 .. n : s[j] = BytesOf(w)[j]
  BY <1>4 DEF n
<1>9. g[n] = w
  BY <1>5, <1>6, <1>8, Recombined DEF n
<1> QED BY <1>7, <1>9

----------------------------------------------------------------------------
(* TEA.                                                                    *)

\* Adding and taking away again.
LEMMA Undone ==
    ASSUME NEW a \in Word, NEW b \in Int
    PROVE  Sub(Add(a, b), b) = a
<1> DEFINE q == (a + b) \div WordMod
           r == (a + b) % WordMod
<1>1. /\ WordMod \in Nat \ {0} /\ a \in Nat /\ a < WordMod /\ a + b \in Int
  BY WordFacts
<1>2. q \in Int /\ r \in Int /\ a + b = WordMod * q + r
  BY <1>1, Division
<1> HIDE DEF q, r
<1> DEFINE z == WordMod * q
           k == -q
<1>3. k \in Int /\ z \in Int /\ WordMod * k = -z /\ a + b = z + r
  BY <1>1, <1>2
<1> HIDE DEF z, k
<1>4. r - b = a + WordMod * k
  <2> DEFINE y == WordMod * k
  <2>1. y = -z
    BY <1>3
  <2> HIDE DEF y
  <2>2. r - b = a + y
    BY <1>1, <1>2, <1>3, <2>1
  <2> QED BY <2>2 DEF y
<1>5. (r - b) % WordMod = a % WordMod
  <2>1. (a + WordMod * k) % WordMod = a % WordMod
    <3>1. a \in Int
      BY <1>1
    <3> QED BY <1>1, <1>3, <3>1, Shifted
  <2> QED BY <1>4, <2>1
<1>6. a % WordMod = a
  BY <1>1
<1> QED BY <1>5, <1>6 DEF Sub, Add, r

\* Exclusive or of two words is a word.
LEMMA XorIsAWord ==
    ASSUME NEW a \in Word, NEW b \in Word
    PROVE  XorOf(a, b) \in Word
<1> DEFINE x == [i \in 1 .. WordBytes |-> XorByte[<<BytesOf(a)[i], BytesOf(b)[i]>>]]
<1>1. XorByte \in [Bytes \X Bytes -> Bytes]
  BY CodecAssumption
<1>2. ASSUME NEW j \in 1 .. WordBytes PROVE XorByte[<<BytesOf(a)[j], BytesOf(b)[j]>>] \in Bytes
  <2> DEFINE y == BytesOf(a)[j]
             z == BytesOf(b)[j]
  <2>1. y \in Bytes /\ z \in Bytes
    BY BytesOfType
  <2> HIDE DEF y, z
  <2>2. XorByte[<<y, z>>] \in Bytes
    BY ONLY <1>1, <2>1
  <2> QED BY <2>2 DEF y, z
<1>3. ASSUME NEW j \in 1 .. WordBytes PROVE x[1 + j - 1] \in Bytes
  <2>1. 1 + j - 1 = j
    BY Widths
  <2> QED BY <1>2, <2>1
<1> HIDE DEF x
<1>4. WordAt(x, 1) \in Word
  BY <1>3, WordBytesAt
<1> QED BY <1>4 DEF XorOf, x

States == [v0 : Word, v1 : Word, sum : Word]

\* What a cycle adds is a word.
LEMMA MixType ==
    ASSUME NEW v \in Word, NEW s \in Word, NEW a \in Word, NEW b \in Word
    PROVE  Mix(v, s, a, b) \in Word
<1>1. v \in Nat /\ v * 16 \in Int /\ WordMod \in Nat \ {0}
  BY WordFacts
<1>2. (v * 16) % WordMod \in Int
  BY <1>1, Division
<1>3. v \div 32 \in Int
  BY <1>1, Division
<1>4. a \in Int /\ b \in Int /\ s \in Int
  BY WordFacts
<1>5. Add((v * 16) % WordMod, a) \in Word /\ Add(v, s) \in Word /\ Add(v \div 32, b) \in Word
  BY <1>1, <1>2, <1>3, <1>4, WordFacts
<1> HIDE DEF Word
<1> QED BY <1>5, XorIsAWord DEF Mix

\* The key and the sums are words.
LEMMA KeyFacts ==
    /\ Delta \in Word /\ FinalSum \in Word
    /\ \A i \in 1 .. 4 : TeaKey[i] \in Word
<1>1. Rounds * Delta \in Int
  BY CodecAssumption, Widths, WordFacts DEF Word
<1>2. FinalSum \in Word
  BY <1>1, CodecAssumption, WordFacts, Division DEF Word
<1> QED BY <1>2, CodecAssumption DEF Word

\* A cycle keeps words words, and CycleBack undoes it.
LEMMA CycleUndone ==
    ASSUME NEW s \in States
    PROVE  Cycle(s) \in States /\ CycleBack(Cycle(s)) = s
<1> DEFINE sum1 == Add(s.sum, Delta)
           m0 == Mix(s.v1, sum1, TeaKey[1], TeaKey[2])
           w0 == Add(s.v0, m0)
           m1 == Mix(w0, sum1, TeaKey[3], TeaKey[4])
           w1 == Add(s.v1, m1)
           t == Cycle(s)
<1>1. s.v0 \in Word /\ s.v1 \in Word /\ s.sum \in Word
      /\ s = [v0 |-> s.v0, v1 |-> s.v1, sum |-> s.sum]
  BY DEF States
<1>2. sum1 \in Word
  BY <1>1, KeyFacts, WordFacts
<1>3. m0 \in Word
  <2> HIDE DEF sum1
  <2> QED BY <1>1, <1>2, KeyFacts, MixType
<1>4. w0 \in Word
  <2> HIDE DEF m0
  <2> QED BY <1>1, <1>3, WordFacts
<1>5. m1 \in Word
  <2> HIDE DEF sum1, w0
  <2> QED BY <1>2, <1>4, KeyFacts, MixType
<1>6. w1 \in Word
  <2> HIDE DEF m1
  <2> QED BY <1>1, <1>5, WordFacts
<1>7. t = [v0 |-> w0, v1 |-> w1, sum |-> sum1]
  BY DEF Cycle
<1>8. t \in States
  BY <1>2, <1>4, <1>6, <1>7 DEF States
<1>9. Sub(w1, m1) = s.v1 /\ Sub(w0, m0) = s.v0 /\ Sub(sum1, Delta) = s.sum
  <2>1. m0 \in Int /\ m1 \in Int /\ Delta \in Int
    BY <1>3, <1>5, KeyFacts, WordFacts
  <2> HIDE DEF m0, m1
  <2> QED BY <1>1, <2>1, Undone
<1>10. CycleBack(t) = [v0 |-> Sub(w0, Mix(Sub(w1, m1), sum1, TeaKey[1], TeaKey[2])),
                       v1 |-> Sub(w1, m1), sum |-> Sub(sum1, Delta)]
  <2>1. t.v0 = w0 /\ t.v1 = w1 /\ t.sum = sum1
    BY <1>7
  <2> HIDE DEF t, w0, w1, sum1
  <2> QED BY <2>1 DEF CycleBack, m1
<1>11. CycleBack(t) = s
  <2> HIDE DEF t, w0, w1, sum1, m1
  <2> QED BY <1>1, <1>9, <1>10 DEF m0
<1> QED BY <1>8, <1>11

\* CycleBack keeps words words.
LEMMA CycleBackType == ASSUME NEW s \in States PROVE CycleBack(s) \in States
<1> DEFINE x0 == s.v0
           x1 == s.v1
           y == s.sum
           m1 == Mix(x0, y, TeaKey[3], TeaKey[4])
           w1 == Sub(x1, m1)
           m0 == Mix(w1, y, TeaKey[1], TeaKey[2])
<1>1. x0 \in Word /\ x1 \in Word /\ y \in Word
  BY DEF States
<1> HIDE DEF x0, x1, y
<1>2. m1 \in Word
  BY <1>1, KeyFacts, MixType
<1> HIDE DEF m1
<1>3. w1 \in Word
  <2>1. x1 \in Int /\ m1 \in Int
    BY <1>1, <1>2, WordFacts
  <2> QED BY <2>1, WordFacts
<1> HIDE DEF w1
<1>4. m0 \in Word
  BY <1>1, <1>3, KeyFacts, MixType
<1> HIDE DEF m0
<1>5. Sub(x0, m0) \in Word /\ Sub(y, Delta) \in Word
  <2>1. x0 \in Int /\ m0 \in Int /\ y \in Int /\ Delta \in Int
    BY <1>1, <1>4, KeyFacts, WordFacts
  <2> QED BY <2>1, WordFacts
<1>6. CycleBack(s) = [v0 |-> Sub(x0, m0), v1 |-> w1, sum |-> Sub(y, Delta)]
  BY DEF CycleBack, m0, w1, m1, x0, x1, y
<1> QED BY <1>3, <1>5, <1>6 DEF States

\* The states encrypt goes through.
LEMMA Encrypting ==
    ASSUME NEW v0 \in Word, NEW v1 \in Word
    PROVE  \E e \in [0 .. Rounds -> States] :
              /\ e[0] = [v0 |-> v0, v1 |-> v1, sum |-> 0]
              /\ \A i \in 1 .. Rounds : e[i] = Cycle(e[i - 1])
              /\ encrypt(v0, v1) = e[Rounds]
<1> DEFINE b == [v0 |-> v0, v1 |-> v1, sum |-> 0]
           F == [p \in States \X (1 .. Rounds) |-> Cycle(p[1])]
           E(g) == g = [i \in 0 .. Rounds |-> IF i = 0 THEN b ELSE Cycle(g[i - 1])]
           c == CHOOSE f : E(f)
<1>1. F \in [States \X (1 .. Rounds) -> States] /\ b \in States /\ Rounds \in Nat
  <2>1. 0 \in Word
    BY WordFacts DEF Word
  <2>2. b \in States
    BY <2>1 DEF States
  <2>3. \A p \in States \X (1 .. Rounds) : Cycle(p[1]) \in States
    BY CycleUndone
  <2> QED BY <2>2, <2>3, Widths
<1>2. PICK g \in [0 .. Rounds -> States] : IsIteration(g, Rounds, b, F)
  <2> HIDE DEF F, b
  <2> QED BY <1>1, Iteration
<1>3. E(g)
  <2>1. ASSUME NEW i \in 0 .. Rounds, i # 0 PROVE F[<<g[i - 1], i>>] = Cycle(g[i - 1])
    <3>1. g[i - 1] \in States /\ i \in 1 .. Rounds
      BY <1>1, <2>1
    <3> QED BY <3>1
  <2> HIDE DEF F, b
  <2> QED BY <1>2, <2>1 DEF IsIteration
<1>4. E(c)
  <2> HIDE DEF E
  <2> QED BY <1>3
<1>5. encrypt(v0, v1) = c[Rounds]
  BY DEF encrypt
<1> HIDE DEF c
<1>6. \A i \in 0 .. Rounds : c[i] \in States
  <2> DEFINE Good(i) == i <= Rounds => c[i] \in States
             P == {i \in Nat : Good(i)}
  <2>1. Good(0)
    BY <1>1, <1>4
  <2>2. ASSUME NEW i \in Nat, Good(i) PROVE Good(i + 1)
    <3>1. SUFFICES ASSUME i + 1 <= Rounds PROVE c[i + 1] \in States
      OBVIOUS
    <3>2. c[i] \in States /\ i + 1 \in 0 .. Rounds /\ i + 1 # 0 /\ (i + 1) - 1 = i
      BY <1>1, <2>2, <3>1
    <3>3. c[i + 1] = Cycle(c[i])
      BY <1>4, <3>2
    <3> QED BY <3>2, <3>3, CycleUndone
  <2> HIDE DEF Good
  <2>3. 0 \in P /\ \A i \in Nat : i \in P => i + 1 \in P
    BY <2>1, <2>2
  <2>4. Nat \subseteq P
    BY <2>3, Induction
  <2> QED BY <1>1, <2>4 DEF Good
<1>7. c = [i \in 0 .. Rounds |-> c[i]]
  BY <1>4
<1>8. c \in [0 .. Rounds -> States]
  BY <1>6, <1>7
<1>9. c[0] = b /\ \A i \in 1 .. Rounds : c[i] = Cycle(c[i - 1])
  BY <1>1, <1>4
<1> QED BY <1>5, <1>8, <1>9

\* And those decrypt goes through.
LEMMA Decrypting ==
    ASSUME NEW v0 \in Word, NEW v1 \in Word
    PROVE  \E d \in [0 .. Rounds -> States] :
              /\ d[0] = [v0 |-> v0, v1 |-> v1, sum |-> FinalSum]
              /\ \A i \in 1 .. Rounds : d[i] = CycleBack(d[i - 1])
              /\ decrypt(v0, v1) = d[Rounds]
<1> DEFINE b == [v0 |-> v0, v1 |-> v1, sum |-> FinalSum]
           F == [p \in States \X (1 .. Rounds) |-> CycleBack(p[1])]
           E(g) == g = [i \in 0 .. Rounds |-> IF i = 0 THEN b ELSE CycleBack(g[i - 1])]
           c == CHOOSE f : E(f)
<1>1. F \in [States \X (1 .. Rounds) -> States] /\ b \in States /\ Rounds \in Nat
  BY CycleBackType, Widths, KeyFacts DEF States
<1>2. PICK g \in [0 .. Rounds -> States] : IsIteration(g, Rounds, b, F)
  <2> HIDE DEF F, b
  <2> QED BY <1>1, Iteration
<1>3. E(g)
  <2>1. ASSUME NEW i \in 0 .. Rounds, i # 0 PROVE F[<<g[i - 1], i>>] = CycleBack(g[i - 1])
    <3>1. g[i - 1] \in States /\ i \in 1 .. Rounds
      BY <1>1, <2>1
    <3> QED BY <3>1
  <2> HIDE DEF F, b
  <2> QED BY <1>2, <2>1 DEF IsIteration
<1>4. E(c)
  <2> HIDE DEF E
  <2> QED BY <1>3
<1>5. decrypt(v0, v1) = c[Rounds]
  BY DEF decrypt
<1> HIDE DEF c
<1>6. \A i \in 0 .. Rounds : c[i] \in States
  <2> DEFINE Good(i) == i <= Rounds => c[i] \in States
             P == {i \in Nat : Good(i)}
  <2>1. Good(0)
    BY <1>1, <1>4
  <2>2. ASSUME NEW i \in Nat, Good(i) PROVE Good(i + 1)
    <3>1. SUFFICES ASSUME i + 1 <= Rounds PROVE c[i + 1] \in States
      OBVIOUS
    <3>2. c[i] \in States /\ i + 1 \in 0 .. Rounds /\ i + 1 # 0 /\ (i + 1) - 1 = i
      BY <1>1, <2>2, <3>1
    <3>3. c[i + 1] = CycleBack(c[i])
      BY <1>4, <3>2
    <3> QED BY <3>2, <3>3, CycleBackType
  <2> HIDE DEF Good
  <2>3. 0 \in P /\ \A i \in Nat : i \in P => i + 1 \in P
    BY <2>1, <2>2
  <2>4. Nat \subseteq P
    BY <2>3, Induction
  <2> QED BY <1>1, <2>4 DEF Good
<1>7. c = [i \in 0 .. Rounds |-> c[i]]
  BY <1>4
<1>8. c \in [0 .. Rounds -> States]
  BY <1>6, <1>7
<1>9. c[0] = b /\ \A i \in 1 .. Rounds : c[i] = CycleBack(c[i - 1])
  BY <1>1, <1>4
<1> QED BY <1>5, <1>8, <1>9

\* The sum after i cycles; where encrypt ends, decrypt starts.
LEMMA SumAfter ==
    ASSUME NEW e \in [0 .. Rounds -> States], e[0].sum = 0,
           \A i \in 1 .. Rounds : e[i] = Cycle(e[i - 1])
    PROVE  e[Rounds].sum = FinalSum
<1> DEFINE Good(i) == i <= Rounds => e[i].sum = (i * Delta) % WordMod
           P == {i \in Nat : Good(i)}
<1>0. Rounds \in Nat /\ Delta \in Int /\ WordMod \in Nat \ {0}
  BY Widths, KeyFacts, WordFacts
<1>1. Good(0)
  <2>1. 0 = WordMod * 0 + 0 /\ 0 * Delta = 0
    BY <1>0
  <2>2. 0 % WordMod = 0
    BY <1>0, <2>1, Quotient
  <2> QED BY <2>1, <2>2
<1>2. ASSUME NEW i \in Nat, Good(i) PROVE Good(i + 1)
  <2>1. SUFFICES ASSUME i + 1 <= Rounds PROVE e[i + 1].sum = ((i + 1) * Delta) % WordMod
    OBVIOUS
  <2> DEFINE x == i * Delta
             q == x \div WordMod
             r == x % WordMod
  <2>2. x \in Int /\ (i + 1) * Delta = x + Delta
    BY <1>0
  <2>3. q \in Int /\ r \in Int /\ x = WordMod * q + r
    <3> HIDE DEF x
    <3> QED BY <1>0, <2>2, Division
  <2>4. e[i].sum = r
    BY <1>0, <1>2, <2>1
  <2>5. e[i + 1].sum = (r + Delta) % WordMod
    <3>1. i + 1 \in 1 .. Rounds /\ (i + 1) - 1 = i
      BY <1>0, <2>1
    <3>2. e[i + 1] = Cycle(e[i])
      BY <3>1
    <3>3. e[i + 1].sum = Add(e[i].sum, Delta)
      BY <3>2 DEF Cycle
    <3> HIDE DEF r
    <3> QED BY <2>4, <3>3 DEF Add
  <2> HIDE DEF r, q, x
  <2>6. r + Delta \in Int /\ (r + Delta) + WordMod * q = x + Delta
    <3> DEFINE z == WordMod * q
    <3>1. z \in Int /\ x = z + r
      BY <1>0, <2>3
    <3> HIDE DEF z
    <3>2. (r + Delta) + z = x + Delta
      BY <1>0, <2>3, <3>1
    <3> QED BY <1>0, <2>3, <3>2 DEF z
  <2>7. ((r + Delta) + WordMod * q) % WordMod = (r + Delta) % WordMod
    BY <1>0, <2>3, <2>6, Shifted
  <2> QED BY <2>2, <2>5, <2>6, <2>7
<1> HIDE DEF Good
<1>3. 0 \in P /\ \A i \in Nat : i \in P => i + 1 \in P
  BY <1>1, <1>2
<1>4. Nat \subseteq P
  BY <1>3, Induction
<1>5. Good(Rounds)
  BY <1>0, <1>4
<1>6. e[Rounds].sum = (Rounds * Delta) % WordMod
  BY <1>0, <1>5 DEF Good
<1> QED BY <1>6, CodecAssumption

\* decrypt goes the way of encrypt backwards.
THEOREM TeaUndone ==
    ASSUME NEW v0 \in Word, NEW v1 \in Word
    PROVE  LET s == encrypt(v0, v1)
           IN  /\ s.v0 \in Word /\ s.v1 \in Word
               /\ decrypt(s.v0, s.v1).v0 = v0 /\ decrypt(s.v0, s.v1).v1 = v1
<1>1. PICK e \in [0 .. Rounds -> States] :
              /\ e[0] = [v0 |-> v0, v1 |-> v1, sum |-> 0]
              /\ \A i \in 1 .. Rounds : e[i] = Cycle(e[i - 1])
              /\ encrypt(v0, v1) = e[Rounds]
  BY Encrypting
<1>2. Rounds \in Nat /\ e[Rounds] \in States
  BY Widths
<1> DEFINE s == encrypt(v0, v1)
<1>3. /\ s = e[Rounds] /\ s.v0 \in Word /\ s.v1 \in Word
      /\ s = [v0 |-> s.v0, v1 |-> s.v1, sum |-> s.sum]
  BY <1>1, <1>2 DEF States
<1>4. s.sum = FinalSum
  <2>1. e[0].sum = 0
    BY <1>1
  <2> HIDE DEF s
  <2> QED BY <1>1, <1>3, <2>1, SumAfter
<1> HIDE DEF s
<1>5. PICK d \in [0 .. Rounds -> States] :
              /\ d[0] = [v0 |-> s.v0, v1 |-> s.v1, sum |-> FinalSum]
              /\ \A i \in 1 .. Rounds : d[i] = CycleBack(d[i - 1])
              /\ decrypt(s.v0, s.v1) = d[Rounds]
  BY <1>3, Decrypting
<1> DEFINE Good(i) == i <= Rounds => d[i] = e[Rounds - i]
           P == {i \in Nat : Good(i)}
<1>6. Good(0)
  <2>1. d[0] = s /\ Rounds - 0 = Rounds
    BY <1>2, <1>3, <1>4, <1>5
  <2> QED BY <1>3, <2>1
<1>7. ASSUME NEW i \in Nat, Good(i) PROVE Good(i + 1)
  <2>1. SUFFICES ASSUME i + 1 <= Rounds PROVE d[i + 1] = e[Rounds - (i + 1)]
    OBVIOUS
  <2> DEFINE j == Rounds - i
  <2>2. /\ i + 1 \in 1 .. Rounds /\ (i + 1) - 1 = i /\ i <= Rounds
        /\ j \in 1 .. Rounds /\ j - 1 \in 0 .. Rounds /\ Rounds - (i + 1) = j - 1
    BY <1>2, <2>1
  <2>3. d[i + 1] = CycleBack(d[i]) /\ d[i] = e[j]
    BY <1>5, <1>7, <2>2
  <2> HIDE DEF j
  <2>4. e[j] = Cycle(e[j - 1]) /\ e[j - 1] \in States
    BY <1>1, <2>2
  <2>5. CycleBack(e[j]) = e[j - 1]
    BY <2>4, CycleUndone
  <2> QED BY <2>2, <2>3, <2>5
<1> HIDE DEF Good
<1>8. 0 \in P /\ \A i \in Nat : i \in P => i + 1 \in P
  BY <1>6, <1>7
<1>9. Nat \subseteq P
  BY <1>8, Induction
<1>10. Good(Rounds)
  BY <1>2, <1>9
<1>11. d[Rounds] = e[0]
  <2>1. Rounds - Rounds = 0 /\ Rounds <= Rounds
    BY <1>2
  <2> QED BY <1>10, <2>1 DEF Good
<1>12. decrypt(s.v0, s.v1).v0 = v0 /\ decrypt(s.v0, s.v1).v1 = v1
  BY <1>1, <1>5, <1>11
<1> QED BY <1>3, <1>12 DEF s

----------------------------------------------------------------------------
(* Blocks.                                                                 *)

\* What Hcrypt makes of the block that starts at byte b.
BlockOf(act, dat, b) ==
    LET v0 == WordAt(dat, b)
        v1 == WordAt(dat, b + WordBytes)
        s  == IF act > 0 THEN decrypt(v0, v1) ELSE encrypt(v0, v1)
    IN  BytesOf(s.v0) \o BytesOf(s.v1)

\* The bytes of two words, one after the other.
LEMMA BytesConcat ==
    ASSUME NEW v \in Word, NEW w \in Word
    PROVE  /\ BytesOf(v) \o BytesOf(w) \in Seq(Bytes) /\ Len(BytesOf(v) \o BytesOf(w)) = Block
           /\ \A j \in 1 .. WordBytes :
                 /\ (BytesOf(v) \o BytesOf(w))[j] = BytesOf(v)[j]
                 /\ (BytesOf(v) \o BytesOf(w))[WordBytes + j] = BytesOf(w)[j]
<1> DEFINE a == BytesOf(v)
           c == BytesOf(w)
<1>1. a \in [1 .. WordBytes -> Bytes] /\ c \in [1 .. WordBytes -> Bytes] /\ WordBytes \in Nat
  BY BytesOfType, Widths
<1> HIDE DEF a, c
<1>2. a \in Seq(Bytes) /\ c \in Seq(Bytes) /\ Len(a) = WordBytes /\ Len(c) = WordBytes
  BY <1>1
<1>3. /\ a \o c \in Seq(Bytes) /\ Len(a \o c) = Len(a) + Len(c)
      /\ \A x \in 1 .. Len(a) : (a \o c)[x] = a[x]
      /\ \A x \in 1 .. Len(c) : (a \o c)[Len(a) + x] = c[x]
  <2>1. a \in Seq(Bytes) /\ c \in Seq(Bytes)
    BY <1>2
  <2> QED BY ONLY <2>1, Joined
<1>4. Block = WordBytes + WordBytes
  BY <1>1 DEF Block
<1> QED BY <1>2, <1>3, <1>4 DEF a, c

\* A block becomes a block.
LEMMA BlockFacts ==
    ASSUME NEW act \in {0, 1}, NEW dat, NEW b \in Int,
           \A j \in 1 .. Block : dat[b + j - 1] \in Bytes
    PROVE  BlockOf(act, dat, b) \in Seq(Bytes) /\ Len(BlockOf(act, dat, b)) = Block
<1> DEFINE v0 == WordAt(dat, b)
           v1 == WordAt(dat, b + WordBytes)
           s == IF act > 0 THEN decrypt(v0, v1) ELSE encrypt(v0, v1)
<1>0. WordBytes \in Nat /\ Block = WordBytes + WordBytes
  BY Widths DEF Block
<1>1. v0 \in Word
  <2>1. \A j \in 1 .. WordBytes : dat[b + j - 1] \in Bytes
    BY <1>0
  <2> QED BY <2>1, WordBytesAt
<1>2. v1 \in Word
  <2> DEFINE c == b + WordBytes
  <2>1. c \in Int
    BY <1>0
  <2>2. ASSUME NEW j \in 1 .. WordBytes PROVE dat[c + j - 1] \in Bytes
    <3>1. WordBytes + j \in 1 .. Block /\ b + (WordBytes + j) - 1 = c + j - 1
      BY <1>0
    <3> QED BY <3>1
  <2> HIDE DEF c
  <2>3. WordAt(dat, c) \in Word
    BY <2>1, <2>2, WordBytesAt
  <2> QED BY <2>3 DEF c
<1> HIDE DEF v0, v1
<1>3. decrypt(v0, v1).v0 \in Word /\ decrypt(v0, v1).v1 \in Word
  <2>1. PICK d \in [0 .. Rounds -> States] : decrypt(v0, v1) = d[Rounds]
    BY <1>1, <1>2, Decrypting
  <2> QED BY <2>1, Widths DEF States
<1>4. encrypt(v0, v1).v0 \in Word /\ encrypt(v0, v1).v1 \in Word
  BY <1>1, <1>2, TeaUndone
<1>5. s.v0 \in Word /\ s.v1 \in Word
  BY <1>3, <1>4
<1>6. BlockOf(act, dat, b) = BytesOf(s.v0) \o BytesOf(s.v1)
  BY DEF BlockOf, v0, v1
<1> HIDE DEF s
<1> QED BY <1>5, <1>6, BytesConcat

\* A block of bytes, what it is encrypted to, and what that is decrypted to.
IsBlock(dat, b)         == \A j \in 1 .. Block : dat[b + j - 1] \in Bytes
Encrypts(dat, b, e, c)  == \A j \in 1 .. Block : e[c + j - 1] = BlockOf(0, dat, b)[j]
Decrypts(dat, b, e, c)  == \A j \in 1 .. Block : BlockOf(1, e, c)[j] = dat[b + j - 1]

\* A block that was encrypted comes back wherever it is found.
LEMMA BlockUndone ==
    ASSUME NEW dat, NEW b \in Int, IsBlock(dat, b), NEW e, NEW c \in Int, Encrypts(dat, b, e, c)
    PROVE  Decrypts(dat, b, e, c)
<1> DEFINE n == WordBytes
           v0 == WordAt(dat, b)
           v1 == WordAt(dat, b + n)
           s == encrypt(v0, v1)
<1>0. n \in Nat /\ Block = n + n /\ b + n \in Int /\ c + n \in Int
  BY Widths DEF Block
<1>1. v0 \in Word /\ \A j \in 1 .. n : BytesOf(v0)[j] = dat[b + j - 1]
  <2>1. \A j \in 1 .. WordBytes : dat[b + j - 1] \in Bytes
    BY <1>0 DEF IsBlock
  <2> QED BY <2>1, WordBytesAt
<1>2. v1 \in Word /\ \A j \in 1 .. n : BytesOf(v1)[j] = dat[b + (n + j) - 1]
  <2> DEFINE d == b + n
  <2>1. d \in Int
    BY <1>0
  <2>2. \A j \in 1 .. n : n + j \in 1 .. Block /\ b + (n + j) - 1 = d + j - 1
    BY <1>0
  <2>3. \A j \in 1 .. WordBytes : dat[d + j - 1] \in Bytes
    BY <2>2 DEF IsBlock
  <2> HIDE DEF d
  <2>4. WordAt(dat, d) \in Word /\ \A j \in 1 .. WordBytes : BytesOf(WordAt(dat, d))[j] = dat[d + j - 1]
    BY <2>1, <2>3, WordBytesAt
  <2> QED BY <2>2, <2>4 DEF d
<1> HIDE DEF v0, v1
<1>3. s.v0 \in Word /\ s.v1 \in Word
      /\ decrypt(s.v0, s.v1).v0 = v0 /\ decrypt(s.v0, s.v1).v1 = v1
  BY <1>1, <1>2, TeaUndone
<1>4. BlockOf(0, dat, b) = BytesOf(s.v0) \o BytesOf(s.v1)
  BY DEF BlockOf, v0, v1, n
<1> HIDE DEF s
<1>5. \A j \in 1 .. n : /\ e[c + j - 1] = BytesOf(s.v0)[j]
                        /\ e[c + (n + j) - 1] = BytesOf(s.v1)[j]
  <2>1. \A j \in 1 .. n : j \in 1 .. Block /\ n + j \in 1 .. Block
    BY <1>0
  <2>2. \A j \in 1 .. WordBytes :
                 /\ (BytesOf(s.v0) \o BytesOf(s.v1))[j] = BytesOf(s.v0)[j]
                 /\ (BytesOf(s.v0) \o BytesOf(s.v1))[WordBytes + j] = BytesOf(s.v1)[j]
    BY <1>3, BytesConcat
  <2> QED BY <1>4, <2>1, <2>2 DEF Encrypts
<1>6. WordAt(e, c) = s.v0
  BY <1>3, <1>5, WordFound
<1>7. WordAt(e, c + n) = s.v1
  <2> DEFINE d == c + n
  <2>1. d \in Int /\ \A j \in 1 .. n : c + (n + j) - 1 = d + j - 1
    BY <1>0
  <2>2. \A j \in 1 .. WordBytes : e[d + j - 1] = BytesOf(s.v1)[j]
    BY <1>5, <2>1
  <2> HIDE DEF d
  <2>3. WordAt(e, d) = s.v1
    BY <1>3, <2>1, <2>2, WordFound
  <2> QED BY <2>3 DEF d
<1>8. BlockOf(1, e, c) = BytesOf(v0) \o BytesOf(v1)
  BY <1>3, <1>6, <1>7 DEF BlockOf, n
<1>9. \A j \in 1 .. WordBytes :
                 /\ (BytesOf(v0) \o BytesOf(v1))[j] = BytesOf(v0)[j]
                 /\ (BytesOf(v0) \o BytesOf(v1))[WordBytes + j] = BytesOf(v1)[j]
  BY <1>1, <1>2, BytesConcat
<1>10. ASSUME NEW j \in 1 .. Block PROVE BlockOf(1, e, c)[j] = dat[b + j - 1]
  <2>1. CASE j <= n
    <3>1. j \in 1 .. n
      BY <2>1, <1>0
    <3> QED BY <1>1, <1>8, <1>9, <3>1
  <2>2. CASE ~(j <= n)
    <3>1. j - n \in 1 .. n /\ n + (j - n) = j
      BY <2>2, <1>0
    <3>2. BytesOf(v1)[j - n] = dat[b + j - 1]
      BY <1>2, <3>1
    <3>3. (BytesOf(v0) \o BytesOf(v1))[j] = BytesOf(v1)[j - n]
      BY <1>9, <3>1
    <3> QED BY <1>8, <3>2, <3>3
  <2> QED BY <2>1, <2>2
<1> QED BY <1>10 DEF Decrypts

\* What Hcrypt does to n blocks.
LEMMA HcryptFacts ==
    ASSUME NEW act \in {0, 1}, NEW n \in Nat, NEW dat \in Seq(Bytes),
           Len(dat) = Block * n
    PROVE  /\ Hcrypt(act, dat) \in Seq(Bytes) /\ Len(Hcrypt(act, dat)) = Block * n
           /\ \A i \in 1 .. n, j \in 1 .. Block :
                 Hcrypt(act, dat)[(i - 1) * Block + j]
                    = BlockOf(act, dat, (i - 1) * Block + 1)[j]
<1> DEFINE q == [i \in 1 .. n |-> BlockOf(act, dat, (i - 1) * Block + 1)]
<1>1. Block \in Nat \ {0} /\ n * Block = Block * n
  BY Widths
<1>2. Len(dat) \div Block = n
  <2> DEFINE l == Len(dat)
  <2>1. l \in Int /\ l = Block * n + 0
    BY <1>1
  <2> HIDE DEF l
  <2>2. l \div Block = n
    BY <1>1, <2>1, Quotient
  <2> QED BY <2>2 DEF l
<1>3. ASSUME NEW i \in 1 .. n PROVE q[i] \in Seq(Bytes) /\ Len(q[i]) = Block
  <2> DEFINE y == (i - 1) * Block
             b == y + 1
  <2>1. y \in Nat
    BY <1>1, InsideBlocks
  <2>2. \A j \in 1 .. Block : y + j \in 1 .. Len(dat)
    BY <1>1, InsideBlocks
  <2> HIDE DEF y
  <2>3. b \in Int /\ \A j \in 1 .. Block : b + j - 1 = y + j
    BY <1>1, <2>1
  <2> HIDE DEF b
  <2>4. \A j \in 1 .. Block : dat[b + j - 1] \in Bytes
    BY <2>2, <2>3
  <2>5. BlockOf(act, dat, b) \in Seq(Bytes) /\ Len(BlockOf(act, dat, b)) = Block
    BY <2>3, <2>4, BlockFacts
  <2> QED BY <2>5 DEF b, y
<1>4. q \in [1 .. n -> Seq(Bytes)]
  BY <1>3
<1>5. Hcrypt(act, dat) = FlattenSeq(q)
  BY <1>2 DEF Hcrypt, BlockOf
<1>6. \A i \in 1 .. n : q[i] = BlockOf(act, dat, (i - 1) * Block + 1)
  OBVIOUS
<1> HIDE DEF q
<1>7. FlattenSeq(q) \in Seq(Bytes) /\ InBlocks(FlattenSeq(q), q, n, Block)
  <2>1. Block \in Nat /\ \A i \in 1 .. n : Len(q[i]) = Block
    BY <1>1, <1>3
  <2> QED BY <1>4, <2>1, FlattenBlocks
<1> QED BY <1>1, <1>5, <1>6, <1>7 DEF InBlocks

\* The first m of n encrypted blocks decrypt to the first m blocks.
THEOREM HcryptUndone ==
    ASSUME NEW n \in Nat, NEW dat \in Seq(Bytes), Len(dat) = Block * n,
           NEW m \in Nat, m <= n, NEW e \in Seq(Bytes), Len(e) = Block * m,
           \A x \in 1 .. Block * m : e[x] = Hcrypt(0, dat)[x]
    PROVE  /\ Hcrypt(1, e) \in Seq(Bytes) /\ Len(Hcrypt(1, e)) = Block * m
           /\ \A x \in 1 .. Block * m : Hcrypt(1, e)[x] = dat[x]
<1>1. Block \in Nat \ {0}
  BY Widths
<1>2. Hcrypt(1, e) \in Seq(Bytes) /\ Len(Hcrypt(1, e)) = Block * m
  BY HcryptFacts
<1>3. ASSUME NEW i \in 1 .. m, NEW j \in 1 .. Block
      PROVE  Hcrypt(1, e)[(i - 1) * Block + j] = dat[(i - 1) * Block + j]
  <2> DEFINE y == (i - 1) * Block
             b == y + 1
  <2>1. i \in 1 .. n /\ y \in Nat
    BY <1>1, InsideBlocks
  <2>2. \A k \in 1 .. Block : y + k \in 1 .. Block * m /\ y + k \in 1 .. Block * n
    BY <1>1, <2>1, InsideBlocks
  <2>3. \A k \in 1 .. Block : Hcrypt(0, dat)[y + k] = BlockOf(0, dat, b)[k]
    BY <2>1, HcryptFacts
  <2>4. \A k \in 1 .. Block : e[y + k] = Hcrypt(0, dat)[y + k]
    BY <2>2
  <2>5. \A k \in 1 .. Block : Hcrypt(1, e)[y + k] = BlockOf(1, e, b)[k]
    BY <2>1, HcryptFacts
  <2>6. \A k \in 1 .. Block : y + k \in 1 .. Len(dat)
    BY <2>2
  <2> HIDE DEF y
  <2>7. b \in Int /\ \A k \in 1 .. Block : b + k - 1 = y + k
    BY <1>1, <2>1
  <2> HIDE DEF b
  <2>8. \A k \in 1 .. Block : dat[b + k - 1] \in Bytes
    BY <2>6, <2>7
  <2>9. \A k \in 1 .. Block : e[b + k - 1] = BlockOf(0, dat, b)[k]
    BY <2>3, <2>4, <2>7
  <2>10. \A k \in 1 .. Block : BlockOf(1, e, b)[k] = dat[b + k - 1]
    <3>1. b \in Int
      BY <2>7
    <3>2. IsBlock(dat, b) /\ Encrypts(dat, b, e, b)
      BY <2>8, <2>9 DEF IsBlock, Encrypts
    <3>3. Decrypts(dat, b, e, b)
      BY ONLY <3>1, <3>2, BlockUndone
    <3> QED BY <3>3 DEF Decrypts
  <2>11. Hcrypt(1, e)[y + j] = dat[y + j]
    BY <2>5, <2>7, <2>10
  <2> QED BY <2>11 DEF y
<1>4. ASSUME NEW x \in 1 .. Block * m PROVE Hcrypt(1, e)[x] = dat[x]
  <2>1. PICK i \in 1 .. m, j \in 1 .. Block : x = (i - 1) * Block + j
    BY <1>1, BlockOfPlace
  <2> QED BY <1>3, <2>1
<1> QED BY <1>2, <1>4

----------------------------------------------------------------------------
(* Base64.                                                                 *)

Letters == 0 .. 63

\* The four letters of three bytes, and the bytes of four letters.
LEMMA ThreeBytes ==
    ASSUME NEW x \in Bytes, NEW y \in Bytes, NEW z \in Bytes
    PROVE  /\ x \div 4 \in Letters
           /\ (Byte(x * 64) + y \div 4) \div 4 = (x % 4) * 16 + y \div 16
           /\ (x % 4) * 16 + y \div 16 \in Letters
           /\ (Byte(y * 16) + z \div 16) \div 4 = (y % 16) * 4 + z \div 64
           /\ (y % 16) * 4 + z \div 64 \in Letters
           /\ Byte(z * 4) \div 4 = z % 64 /\ z % 64 \in Letters
<1>1. x \in 0 .. 255 /\ y \in 0 .. 255 /\ z \in 0 .. 255
  BY DEF Bytes
<1>2. /\ x \div 4 \in Letters
      /\ (Byte(x * 64) + y \div 4) \div 4 = (x % 4) * 16 + y \div 16
      /\ (x % 4) * 16 + y \div 16 \in Letters
  BY <1>1, SMTT(30) DEF Byte, Letters
<1>3. /\ (Byte(y * 16) + z \div 16) \div 4 = (y % 16) * 4 + z \div 64
      /\ (y % 16) * 4 + z \div 64 \in Letters
  BY <1>1, SMTT(30) DEF Byte, Letters
<1>4. Byte(z * 4) \div 4 = z % 64 /\ z % 64 \in Letters
  BY <1>1, SMTT(30) DEF Byte, Letters
<1> QED BY <1>2, <1>3, <1>4

\* Four letters give three bytes.
LEMMA FourLetters ==
    ASSUME NEW x \in Bytes, NEW y \in Bytes, NEW z \in Bytes
    PROVE  LET a == 4 * (x \div 4)
               b == 4 * ((x % 4) * 16 + y \div 16)
               c == 4 * ((y % 16) * 4 + z \div 64)
               d == 4 * (z % 64)
           IN  /\ a + b \div 64 = x
               /\ Byte(b * 4) + c \div 16 = y
               /\ Byte(c * 16) + d \div 4 = z
<1>1. x \in 0 .. 255 /\ y \in 0 .. 255 /\ z \in 0 .. 255
  BY DEF Bytes
<1>2. 4 * (x \div 4) + (4 * ((x % 4) * 16 + y \div 16)) \div 64 = x
  BY <1>1, SMTT(30)
<1>3. Byte((4 * ((x % 4) * 16 + y \div 16)) * 4) + (4 * ((y % 16) * 4 + z \div 64)) \div 16 = y
  BY <1>1, SMTT(30) DEF Byte
<1>4. Byte((4 * ((y % 16) * 4 + z \div 64)) * 16) + (4 * (z % 64)) \div 4 = z
  BY <1>1, SMTT(30) DEF Byte
<1> QED BY <1>2, <1>3, <1>4

\* How many letters n bytes make, and which letters come of which bytes.
LEMMA EncodedPlaces ==
    ASSUME NEW n \in Nat
    PROVE  /\ EncodedLen(n) \in Nat
           /\ \A q \in Nat : /\ 4 * q + 2 <= EncodedLen(n) => 3 * q + 1 <= n
                             /\ 4 * q + 1 <= EncodedLen(n) => 3 * q + 1 <= n
                             /\ 4 * q + 3 <= EncodedLen(n) => 3 * q + 2 <= n
                             /\ 4 * q + 4 <= EncodedLen(n) => 3 * q + 3 <= n
<1> DEFINE a == n \div 3
           r == n % 3
           e == CASE r = 0 -> 0 [] r = 1 -> 2 [] r = 2 -> 3
<1>1. a \in Nat /\ r \in 0 .. 2 /\ n = 3 * a + r
  BY SMTT(20)
<1>2. EncodedLen(n) = 4 * a + e
  BY DEF EncodedLen
<1> HIDE DEF a, r
<1>3. (r = 0 /\ e = 0) \/ (r = 1 /\ e = 2) \/ (r = 2 /\ e = 3)
  BY <1>1
<1> HIDE DEF e
<1>4. ASSUME NEW q \in Nat
      PROVE  /\ 4 * q + 2 <= 4 * a + e => 3 * q + 1 <= n
             /\ 4 * q + 1 <= 4 * a + e => 3 * q + 1 <= n
             /\ 4 * q + 3 <= 4 * a + e => 3 * q + 2 <= n
             /\ 4 * q + 4 <= 4 * a + e => 3 * q + 3 <= n
  BY <1>1, <1>3, SMTT(30)
<1> QED BY <1>1, <1>2, <1>3, <1>4

\* Every byte that is written has the letters it is made of.
LEMMA DecodedPlaces ==
    ASSUME NEW l \in Nat
    PROVE  /\ DecodedLen(l) \in Nat /\ DecodedLen(l) <= l /\ DecodedLen(l) = (3 * l) \div 4
           /\ \A q \in Nat : /\ 3 * q + 1 <= DecodedLen(l) => 4 * q + 2 <= l
                             /\ 3 * q + 2 <= DecodedLen(l) => 4 * q + 3 <= l
                             /\ 3 * q + 3 <= DecodedLen(l) => 4 * q + 4 <= l
<1> DEFINE a == l \div 4
           r == l % 4
           d == CASE r \in {0, 1} -> 0 [] r = 2 -> 1 [] r = 3 -> 2
<1>1. a \in Nat /\ r \in 0 .. 3 /\ l = 4 * a + r
  BY SMTT(20)
<1>2. DecodedLen(l) = 3 * a + d
  BY DEF DecodedLen
<1> HIDE DEF a, r
<1>3. (r = 0 /\ d = 0) \/ (r = 1 /\ d = 0) \/ (r = 2 /\ d = 1) \/ (r = 3 /\ d = 2)
  BY <1>1
<1> HIDE DEF d
<1>4. ASSUME NEW q \in Nat
      PROVE  /\ 3 * q + 1 <= 3 * a + d => 4 * q + 2 <= l
             /\ 3 * q + 2 <= 3 * a + d => 4 * q + 3 <= l
             /\ 3 * q + 3 <= 3 * a + d => 4 * q + 4 <= l
  BY <1>1, <1>3, SMTT(30)
<1>5. 3 * a + d = (3 * l) \div 4
  BY <1>1, <1>3, SMTT(30)
<1> QED BY <1>1, <1>2, <1>3, <1>4, <1>5

\* The decoded text is as long as the one that was encoded.
LEMMA LengthsAgree == ASSUME NEW n \in Nat PROVE DecodedLen(EncodedLen(n)) = n
<1> DEFINE a == n \div 3
           r == n % 3
           e == CASE r = 0 -> 0 [] r = 1 -> 2 [] r = 2 -> 3
           l == EncodedLen(n)
<1>1. a \in Nat /\ r \in 0 .. 2 /\ n = 3 * a + r
  BY SMTT(20)
<1>2. l = 4 * a + e
  BY DEF EncodedLen
<1> HIDE DEF a, r
<1>3. (r = 0 /\ e = 0) \/ (r = 1 /\ e = 2) \/ (r = 2 /\ e = 3)
  BY <1>1
<1> HIDE DEF e, l
<1>4. l \in Nat /\ (3 * l) \div 4 = n
  BY <1>1, <1>2, <1>3, SMTT(30)
<1>5. DecodedLen(l) = n
  BY <1>4, DecodedPlaces
<1> QED BY <1>5 DEF l

\* The letters of a text.
EncodesAs(dat, q, k) ==
    LET x == ByteAt(dat, 3 * q + 1)
        y == ByteAt(dat, 3 * q + 2)
        z == ByteAt(dat, 3 * q + 3)
    IN  CASE k = 1 -> x \div 4
          [] k = 2 -> (x % 4) * 16 + y \div 16
          [] k = 3 -> (y % 16) * 4 + z \div 64
          [] k = 4 -> z % 64

\* The letters of each group of three bytes.
LEMMA Encoded ==
    ASSUME NEW dat \in Seq(Bytes)
    PROVE  /\ BaseEncode(dat) \in Seq(Letters) /\ Len(BaseEncode(dat)) = EncodedLen(Len(dat))
           /\ \A i \in Nat : ByteAt(dat, i + 1) \in Bytes
           /\ \A q \in Nat, k \in 1 .. 4 : 4 * q + k <= EncodedLen(Len(dat)) =>
                 BaseEncode(dat)[4 * q + k] = EncodesAs(dat, q, k)
<1> DEFINE n == Len(dat)
           e == EncodedLen(n)
           B(i) == ByteAt(dat, i)
<1>1. n \in Nat
  OBVIOUS
<1>2. e \in Nat
  BY EncodedPlaces
<1>3. ASSUME NEW i \in Nat PROVE ByteAt(dat, i + 1) \in Bytes
  <2>1. CASE i + 1 <= n
    BY <1>1, <2>1 DEF ByteAt
  <2>2. CASE ~(i + 1 <= n)
    BY <2>2 DEF ByteAt, Bytes
  <2> QED BY <2>1, <2>2
<1>4. ASSUME NEW q \in Nat, NEW k \in 1 .. 4, 4 * q + k <= e
      PROVE  /\ 4 * q + k \in 1 .. e
             /\ BaseEncode(dat)[4 * q + k] = EncodesAs(dat, q, k)
             /\ EncodesAs(dat, q, k) \in Letters
  <2> DEFINE w == 4 * q + k
             x == B(3 * q + 1)
             y == B(3 * q + 2)
             z == B(3 * q + 3)
             c == 3 * ((w - 1) \div 4) + 1
             m == (w - 1) % 4
             f == BaseEncode(dat)[w]
             g == EncodesAs(dat, q, k)
  <2>1. w \in 1 .. e /\ c = 3 * q + 1 /\ m = k - 1
    <3>1. (w - 1) \div 4 = q /\ (w - 1) % 4 = k - 1
      BY SMTT(30)
    <3> QED BY <1>2, <1>4, <3>1
  <2>2. f = CASE m = 0 -> dat[c] \div 4
              [] m = 1 -> (Byte(dat[c] * 64) + ByteAt(dat, c + 1) \div 4) \div 4
              [] m = 2 -> (Byte(dat[c + 1] * 16) + ByteAt(dat, c + 2) \div 16) \div 4
              [] m = 3 -> Byte(dat[c + 2] * 4) \div 4
    BY <2>1 DEF BaseEncode
  <2>3. c + 1 = 3 * q + 2 /\ c + 2 = 3 * q + 3
    BY <2>1
  <2>4. x \in Bytes /\ y \in Bytes /\ z \in Bytes
    BY <1>3
  <2>5. /\ k \in {1, 2} => dat[c] = x
        /\ k = 3 => dat[c + 1] = y
        /\ k = 4 => dat[c + 2] = z
    BY <1>1, <1>4, <2>1, <2>3, EncodedPlaces DEF ByteAt
  <2>6. g = CASE k = 1 -> x \div 4
              [] k = 2 -> (x % 4) * 16 + y \div 16
              [] k = 3 -> (y % 16) * 4 + z \div 64
              [] k = 4 -> z % 64
    BY DEF EncodesAs
  <2>7. ByteAt(dat, c + 1) = y /\ ByteAt(dat, c + 2) = z
    BY <2>3
  <2> HIDE DEF x, y, z, c, m, f, g
  <2>8. /\ x \div 4 \in Letters
        /\ (Byte(x * 64) + y \div 4) \div 4 = (x % 4) * 16 + y \div 16
        /\ (x % 4) * 16 + y \div 16 \in Letters
        /\ (Byte(y * 16) + z \div 16) \div 4 = (y % 16) * 4 + z \div 64
        /\ (y % 16) * 4 + z \div 64 \in Letters
        /\ Byte(z * 4) \div 4 = z % 64 /\ z % 64 \in Letters
    BY ONLY <2>4, ThreeBytes
  <2>9. f = g /\ g \in Letters
    <3>1. CASE k = 1
      <4>1. f = dat[c] \div 4 /\ dat[c] = x /\ g = x \div 4
        BY <2>1, <2>2, <2>5, <2>6, <3>1
      <4> QED BY <2>8, <4>1
    <3>2. CASE k = 2
      <4>1. m = 1 /\ dat[c] = x
        BY <2>1, <2>5, <3>2
      <4>2. f = (Byte(dat[c] * 64) + ByteAt(dat, c + 1) \div 4) \div 4
        BY ONLY <2>2, <4>1
      <4>3. g = (x % 4) * 16 + y \div 16
        BY ONLY <2>6, <3>2
      <4> QED BY ONLY <2>7, <2>8, <4>1, <4>2, <4>3
    <3>3. CASE k = 3
      <4>1. m = 2 /\ dat[c + 1] = y
        BY <2>1, <2>5, <3>3
      <4>2. f = (Byte(dat[c + 1] * 16) + ByteAt(dat, c + 2) \div 16) \div 4
        BY ONLY <2>2, <4>1
      <4>3. g = (y % 16) * 4 + z \div 64
        BY ONLY <2>6, <3>3
      <4> QED BY ONLY <2>7, <2>8, <4>1, <4>2, <4>3
    <3>4. CASE k = 4
      <4>1. m = 3 /\ dat[c + 2] = z
        BY <2>1, <2>5, <3>4
      <4>2. f = Byte(dat[c + 2] * 4) \div 4
        BY ONLY <2>2, <4>1
      <4>3. g = z % 64
        BY ONLY <2>6, <3>4
      <4> QED BY ONLY <2>8, <4>1, <4>2, <4>3
    <3> QED BY <3>1, <3>2, <3>3, <3>4
  <2> QED BY <2>1, <2>9 DEF f, g
<1>5. ASSUME NEW w \in 1 .. e PROVE BaseEncode(dat)[w] \in Letters
  <2> DEFINE q == (w - 1) \div 4
             k == ((w - 1) % 4) + 1
  <2>1. q \in Nat /\ k \in 1 .. 4 /\ w = 4 * q + k
    BY <1>2, SMTT(30)
  <2> HIDE DEF q, k, e
  <2>2. 4 * q + k <= e
    BY <1>2, <2>1
  <2>3. BaseEncode(dat)[4 * q + k] = EncodesAs(dat, q, k) /\ EncodesAs(dat, q, k) \in Letters
    BY <1>4, <2>1, <2>2
  <2> QED BY <2>1, <2>3
<1>6. BaseEncode(dat) = [w \in 1 .. e |-> BaseEncode(dat)[w]]
  BY DEF BaseEncode
<1>7. BaseEncode(dat) \in Seq(Letters) /\ Len(BaseEncode(dat)) = e
  BY <1>2, <1>5, <1>6
<1> QED BY <1>3, <1>4, <1>7

\* BaseDecode: the buffer at the start, the byte written at c, and what it goes through.
Buffers(l)    == [1 .. l -> Int]
Start(txt)    == [i \in 1 .. Len(txt) |-> Byte(txt[i] * 4)]
ByteOf(buf, c) ==
    LET i == 4 * ((c - 1) \div 3) + 1
    IN  CASE (c - 1) % 3 = 0 -> buf[i] + buf[i + 1] \div 64
          [] (c - 1) % 3 = 1 -> Byte(buf[i + 1] * 4) + buf[i + 2] \div 16
          [] (c - 1) % 3 = 2 -> Byte(buf[i + 2] * 16) + buf[i + 3] \div 4
Writes(g, n, b) == g[0] = b /\ \A c \in 1 .. n : g[c] = [g[c - 1] EXCEPT ![c] = ByteOf(g[c - 1], c)]
Written(b, n) == FoldLeft(LAMBDA buf, c : [buf EXCEPT ![c] = ByteOf(buf, c)], b, [c \in 1 .. n |-> c])

\* The place a byte is written to is in the buffer.
LEMMA ByteOfType ==
    ASSUME NEW l \in Nat, NEW c \in 1 .. DecodedLen(l), NEW buf \in Buffers(l)
    PROVE  ByteOf(buf, c) \in Int /\ c \in 1 .. l
<1> DEFINE n == DecodedLen(l)
           q == (c - 1) \div 3
           m == (c - 1) % 3
           i == 4 * q + 1
           f == ByteOf(buf, c)
<1>1. n \in Nat /\ n <= l
  BY DecodedPlaces
<1>2. q \in Nat /\ m \in 0 .. 2 /\ c = 3 * q + (m + 1)
  <2>1. c \in 1 .. n
    OBVIOUS
  <2> HIDE DEF n
  <2> QED BY <1>1, <2>1, SMTT(30)
<1>3. f = CASE m = 0 -> buf[i] + buf[i + 1] \div 64
            [] m = 1 -> Byte(buf[i + 1] * 4) + buf[i + 2] \div 16
            [] m = 2 -> Byte(buf[i + 2] * 16) + buf[i + 3] \div 4
  BY DEF ByteOf
<1> HIDE DEF q, m, f
<1>4. /\ m = 0 => i + 1 <= l
      /\ m = 1 => i + 2 <= l
      /\ m = 2 => i + 3 <= l
  BY <1>2, DecodedPlaces
<1>5. i \in Nat /\ i >= 1
  BY <1>2
<1> HIDE DEF i, n
<1>6. \A j \in 1 .. l : buf[j] \in Int
  BY DEF Buffers
<1>7. f \in Int
  <2>1. CASE m = 0
    <3>1. buf[i] \in Int /\ buf[i + 1] \in Int
      BY <1>4, <1>5, <1>6, <2>1
    <3>2. f = buf[i] + buf[i + 1] \div 64
      BY ONLY <1>3, <2>1
    <3> QED BY ONLY <3>1, <3>2
  <2>2. CASE m = 1
    <3>1. buf[i + 1] \in Int /\ buf[i + 2] \in Int
      BY <1>4, <1>5, <1>6, <2>2
    <3>2. f = Byte(buf[i + 1] * 4) + buf[i + 2] \div 16
      BY ONLY <1>3, <2>2
    <3> QED BY ONLY <3>1, <3>2 DEF Byte
  <2>3. CASE m = 2
    <3>1. buf[i + 2] \in Int /\ buf[i + 3] \in Int
      BY <1>4, <1>5, <1>6, <2>3
    <3>2. f = Byte(buf[i + 2] * 16) + buf[i + 3] \div 4
      BY ONLY <1>3, <2>3
    <3> QED BY ONLY <3>1, <3>2 DEF Byte
  <2> QED BY <1>2, <2>1, <2>2, <2>3
<1>8. c \in 1 .. l
  <2>1. c \in 1 .. n
    BY DEF n
  <2> QED BY <1>1, <2>1
<1> QED BY <1>7, <1>8 DEF f

\* BaseDecode goes through the buffers after each byte.
LEMMA WriteSteps ==
    ASSUME NEW l \in Nat, NEW b \in Buffers(l)
    PROVE  \E g \in [0 .. DecodedLen(l) -> Buffers(l)] :
              Writes(g, DecodedLen(l), b) /\ Written(b, DecodedLen(l)) = g[DecodedLen(l)]
<1> DEFINE n == DecodedLen(l)
           X == Buffers(l)
           Op(buf, c) == [buf EXCEPT ![c] = ByteOf(buf, c)]
           F == [p \in X \X (1 .. n) |-> Op(p[1], p[2])]
           sq == [i \in 1 .. n |-> i]
           E(it) == it = [S \in SUBSET (DOMAIN sq) |->
                            IF S = {} THEN b ELSE Op(it[S \ {Max(S)}], sq[Max(S)])]
           c == CHOOSE f : E(f)
           g == [i \in 0 .. n |-> c[1 .. i]]
<1>0. n \in Nat
  BY DecodedPlaces
<1>1. \A buf \in X, i \in 1 .. n : Op(buf, i) \in X
  <2>1. ASSUME NEW buf \in X, NEW i \in 1 .. n PROVE Op(buf, i) \in X
    <3>1. ByteOf(buf, i) \in Int
      BY ByteOfType
    <3> QED BY <3>1 DEF Buffers
  <2> QED BY <2>1
<1>a. F \in [X \X (1 .. n) -> X]
  <2> HIDE DEF Op, X, n
  <2> QED BY <1>1
<1>2. PICK it \in [SUBSET (1 .. n) -> X] : IsFold(it, n, b, F)
  <2> HIDE DEF F, n
  <2> QED BY <1>0, <1>a, FoldExists
<1>b. DOMAIN sq = 1 .. n /\ \A i \in 1 .. n : sq[i] = i
  OBVIOUS
<1>3. E(it)
  <2>1. ASSUME NEW S \in SUBSET (1 .. n), S # {}
        PROVE  F[<<it[S \ {Max(S)}], Max(S)>>] = Op(it[S \ {Max(S)}], sq[Max(S)])
    <3>1. Max(S) \in 1 .. n /\ S \ {Max(S)} \in SUBSET (1 .. n) /\ sq[Max(S)] = Max(S)
      BY <1>0, <2>1, Greatest
    <3> HIDE DEF Op, X, n
    <3> QED BY <3>1
  <2> HIDE DEF F, Op, n, sq
  <2> QED BY <1>2, <1>b, <2>1 DEF IsFold
<1>4. E(c)
  <2> HIDE DEF E
  <2> QED BY <1>3
<1>5. Written(b, n) = c[1 .. n]
  BY DEF Written, FoldLeft, MapThenFoldSet
<1> HIDE DEF c
<1>6. g[0] = b
  <2> HIDE DEF Op, n, sq
  <2> QED BY <1>0, <1>4, <1>b, Initials
<1>7. ASSUME NEW i \in 1 .. n PROVE g[i] = Op(g[i - 1], i)
  <2> HIDE DEF Op, n, sq
  <2>1. /\ 1 .. i \in SUBSET (1 .. n) /\ 1 .. i # {}
        /\ Max(1 .. i) = i /\ (1 .. i) \ {i} = 1 .. i - 1
    BY <1>0, Initials
  <2>2. c[1 .. i] = Op(c[1 .. i - 1], i)
    <3>1. c[1 .. i] = Op(c[(1 .. i) \ {Max(1 .. i)}], sq[Max(1 .. i)])
      BY <1>4, <1>b, <2>1
    <3>2. sq[Max(1 .. i)] = i
      BY <1>b, <2>1
    <3> QED BY <2>1, <3>1, <3>2
  <2> QED BY <1>0, <2>2
<1>8. g[n] = c[1 .. n]
  <2> HIDE DEF n
  <2> QED BY <1>0
<1>9. g = [i \in 0 .. n |-> g[i]]
  OBVIOUS
<1> HIDE DEF g, X, n, sq
<1>10. \A i \in 0 .. n : g[i] \in X
  <2> DEFINE Good(i) == i <= n => g[i] \in X
             P == {i \in Nat : Good(i)}
  <2>1. Good(0)
    BY <1>6 DEF X
  <2>2. ASSUME NEW i \in Nat, Good(i) PROVE Good(i + 1)
    <3>1. SUFFICES ASSUME i + 1 <= n PROVE g[i + 1] \in X
      OBVIOUS
    <3>2. g[i] \in X /\ i + 1 \in 1 .. n /\ (i + 1) - 1 = i
      BY <1>0, <2>2, <3>1
    <3> HIDE DEF Op
    <3> QED BY <1>1, <1>7, <3>2
  <2> HIDE DEF Good
  <2>3. 0 \in P /\ \A i \in Nat : i \in P => i + 1 \in P
    BY <2>1, <2>2
  <2>4. Nat \subseteq P
    BY <2>3, Induction
  <2> QED BY <1>0, <2>4 DEF Good
<1>11. Writes(g, n, b)
  BY <1>6, <1>7 DEF Writes
<1> QED BY <1>5, <1>8, <1>9, <1>10, <1>11 DEF n, X

\* txt is the beginning of what dat encodes to.
Begins(txt, dat) ==
    /\ txt \in Seq(Letters) /\ Len(txt) <= EncodedLen(Len(dat))
    /\ \A i \in 1 .. Len(txt) : txt[i] = BaseEncode(dat)[i]

\* A letter, shifted, is a byte.
LEMMA LetterByte == ASSUME NEW v \in Letters PROVE Byte(v * 4) = 4 * v /\ Byte(v * 4) \in Int
<1>1. v \in 0 .. 63
  BY DEF Letters
<1> QED BY <1>1 DEF Byte

\* How many bytes a beginning of a text decodes to.
LEMMA BeginsFacts ==
    ASSUME NEW dat \in Seq(Bytes), NEW txt, Begins(txt, dat)
    PROVE  /\ Len(txt) \in Nat /\ Len(dat) \in Nat
           /\ DecodedLen(Len(txt)) \in Nat /\ DecodedLen(Len(txt)) <= Len(txt)
           /\ \A i \in 1 .. Len(txt) : txt[i] \in Letters
<1>1. txt \in Seq(Letters)
  BY DEF Begins
<1>2. Len(txt) \in Nat /\ Len(dat) \in Nat /\ \A i \in 1 .. Len(txt) : txt[i] \in Letters
  BY <1>1
<1>3. DecodedLen(Len(txt)) \in Nat /\ DecodedLen(Len(txt)) <= Len(txt)
  BY <1>2, DecodedPlaces
<1> QED BY <1>2, <1>3

\* Byte c is right as long as nothing from c on was written over.
LEMMA OneByte ==
    ASSUME NEW dat \in Seq(Bytes), NEW txt, Begins(txt, dat),
           NEW c \in 1 .. DecodedLen(Len(txt)), NEW buf,
           \A j \in c .. Len(txt) : buf[j] = Start(txt)[j]
    PROVE  c \in 1 .. Len(dat) /\ ByteOf(buf, c) = dat[c]
<1> DEFINE l == Len(txt)
           d == DecodedLen(l)
           n == Len(dat)
           q == (c - 1) \div 3
           m == (c - 1) % 3
           i == 4 * q + 1
           f == ByteOf(buf, c)
           x == ByteAt(dat, 3 * q + 1)
           y == ByteAt(dat, 3 * q + 2)
           z == ByteAt(dat, 3 * q + 3)
<1>1. /\ l \in Nat /\ n \in Nat /\ d \in Nat /\ d <= l /\ l <= EncodedLen(n)
      /\ \A j \in 1 .. l : txt[j] \in Letters /\ txt[j] = BaseEncode(dat)[j]
  BY BeginsFacts DEF Begins
<1>2. q \in Nat /\ m \in 0 .. 2 /\ c = 3 * q + (m + 1)
  <2>1. c \in 1 .. d
    OBVIOUS
  <2> HIDE DEF d
  <2> QED BY <1>1, <2>1, SMTT(30)
<1>3. f = CASE m = 0 -> buf[i] + buf[i + 1] \div 64
            [] m = 1 -> Byte(buf[i + 1] * 4) + buf[i + 2] \div 16
            [] m = 2 -> Byte(buf[i + 2] * 16) + buf[i + 3] \div 4
  BY DEF ByteOf
<1> HIDE DEF q, m, f, l
<1>c. c \in 1 .. d
  BY DEF l
<1>4. /\ m = 0 => 4 * q + 2 <= l
      /\ m = 1 => 4 * q + 3 <= l
      /\ m = 2 => 4 * q + 4 <= l
  <2>1. /\ m = 0 => 3 * q + 1 <= d
        /\ m = 1 => 3 * q + 2 <= d
        /\ m = 2 => 3 * q + 3 <= d
    <3> HIDE DEF d
    <3> QED BY <1>1, <1>2, <1>c
  <2>2. l \in Nat /\ q \in Nat
    BY <1>1, <1>2
  <2> QED BY <2>1, <2>2, DecodedPlaces
<1> HIDE DEF d
<1>5. x \in Bytes /\ y \in Bytes /\ z \in Bytes
  <2>1. /\ 3 * q + 1 = (3 * q) + 1 /\ 3 * q + 2 = (3 * q + 1) + 1 /\ 3 * q + 3 = (3 * q + 2) + 1
        /\ 3 * q \in Nat /\ 3 * q + 1 \in Nat /\ 3 * q + 2 \in Nat
    BY <1>2
  <2>2. \A j \in Nat : ByteAt(dat, j + 1) \in Bytes
    BY Encoded
  <2> QED BY <2>1, <2>2
<1>6. ASSUME NEW k \in 1 .. 4, 4 * q + k <= l, c <= 4 * q + k
      PROVE  buf[4 * q + k] = 4 * EncodesAs(dat, q, k)
  <2> DEFINE j == 4 * q + k
  <2>1. j \in 1 .. l /\ j \in c .. l
    BY <1>1, <1>2, <1>6
  <2>2. txt[j] = EncodesAs(dat, q, k)
    <3>1. 4 * q + k <= EncodedLen(Len(dat))
      <4>1. 4 * q + k \in Int /\ EncodedLen(Len(dat)) \in Int
        BY <1>1, <1>2, EncodedPlaces
      <4> QED BY <1>1, <1>6, <4>1
    <3>2. BaseEncode(dat)[4 * q + k] = EncodesAs(dat, q, k)
      BY <1>2, <3>1, Encoded
    <3> QED BY <1>1, <2>1, <3>2
  <2> HIDE DEF j
  <2>3. buf[j] = Byte(txt[j] * 4)
    BY <2>1 DEF Start, l
  <2>4. txt[j] \in Letters
    BY <1>1, <2>1
  <2>5. Byte(txt[j] * 4) = 4 * txt[j]
    BY ONLY <2>4, LetterByte
  <2> QED BY <2>2, <2>3, <2>5 DEF j
<1>7. /\ EncodesAs(dat, q, 1) = x \div 4
      /\ EncodesAs(dat, q, 2) = (x % 4) * 16 + y \div 16
      /\ EncodesAs(dat, q, 3) = (y % 16) * 4 + z \div 64
      /\ EncodesAs(dat, q, 4) = z % 64
  BY DEF EncodesAs
<1> HIDE DEF x, y, z
<1> DEFINE a == 4 * (x \div 4)
           b == 4 * ((x % 4) * 16 + y \div 16)
           g == 4 * ((y % 16) * 4 + z \div 64)
           h == 4 * (z % 64)
<1>8. /\ a + b \div 64 = x
      /\ Byte(b * 4) + g \div 16 = y
      /\ Byte(g * 16) + h \div 4 = z
  BY ONLY <1>5, FourLetters
<1>9. /\ i = 4 * q + 1 /\ i + 1 = 4 * q + 2 /\ i + 2 = 4 * q + 3 /\ i + 3 = 4 * q + 4
      /\ c <= 4 * q + 4 /\ c <= 4 * q + 3
      /\ m \in {0, 1} => c <= 4 * q + 2
      /\ m = 0 => c <= 4 * q + 1 /\ 4 * q + 1 <= l
  <2>1. 4 * q + 1 <= 4 * q + 2 /\ 4 * q \in Nat
    BY <1>2
  <2> QED BY <1>1, <1>2, <1>4, <2>1
<1>a. 1 \in 1 .. 4 /\ 2 \in 1 .. 4 /\ 3 \in 1 .. 4 /\ 4 \in 1 .. 4
  OBVIOUS
<1>b. \A u, v, w \in Int : v - u = 1 /\ v <= w => u <= w
  OBVIOUS
<1>10. /\ m = 0 => buf[i] = a /\ buf[i + 1] = b
       /\ m = 1 => buf[i + 1] = b /\ buf[i + 2] = g
       /\ m = 2 => buf[i + 2] = g /\ buf[i + 3] = h
  <2>1. CASE m = 0
    <3>1. buf[4 * q + 1] = 4 * EncodesAs(dat, q, 1) /\ buf[4 * q + 2] = 4 * EncodesAs(dat, q, 2)
      BY <1>a, <1>4, <1>6, <1>9, <2>1
    <3> QED BY ONLY <1>7, <1>9, <2>1, <3>1
  <2>2. CASE m = 1
    <3>1. 4 * q + 2 <= l
      BY <1>1, <1>2, <1>4, <2>2
    <3>2. buf[4 * q + 2] = 4 * EncodesAs(dat, q, 2) /\ buf[4 * q + 3] = 4 * EncodesAs(dat, q, 3)
      BY <1>a, <1>4, <1>6, <1>9, <2>2, <3>1
    <3> QED BY ONLY <1>7, <1>9, <2>2, <3>2
  <2>3. CASE m = 2
    <3>1. 4 * q + 3 <= l
      BY <1>1, <1>2, <1>4, <2>3
    <3>2. buf[4 * q + 3] = 4 * EncodesAs(dat, q, 3) /\ buf[4 * q + 4] = 4 * EncodesAs(dat, q, 4)
      BY <1>a, <1>4, <1>6, <1>9, <2>3, <3>1
    <3> QED BY ONLY <1>7, <1>9, <2>3, <3>2
  <2> QED BY <1>2, <2>1, <2>2, <2>3
<1> HIDE DEF a, b, g, h, i
<1>11. /\ m = 0 => 3 * q + 1 <= n
       /\ m = 1 => 3 * q + 2 <= n
       /\ m = 2 => 3 * q + 3 <= n
  <2>1. EncodedLen(n) \in Nat /\ \A k \in Nat : k <= l => k <= EncodedLen(n)
    BY <1>1, EncodedPlaces
  <2>2. 4 * q + 2 \in Nat /\ 4 * q + 3 \in Nat /\ 4 * q + 4 \in Nat
    BY <1>2
  <2> HIDE DEF n
  <2> QED BY <1>1, <1>2, <1>4, <2>1, <2>2, EncodedPlaces
<1>12. CASE m = 0
  <2>1. c = 3 * q + 1 /\ c \in 1 .. n
    BY <1>1, <1>2, <1>11, <1>12
  <2>2. f = buf[i] + buf[i + 1] \div 64
    BY ONLY <1>3, <1>12
  <2>3. f = x
    BY ONLY <1>8, <1>10, <1>12, <2>2
  <2> QED BY <2>1, <2>3 DEF x, ByteAt, f
<1>13. CASE m = 1
  <2>1. c = 3 * q + 2 /\ c \in 1 .. n
    BY <1>1, <1>2, <1>11, <1>13
  <2>2. f = Byte(buf[i + 1] * 4) + buf[i + 2] \div 16
    BY ONLY <1>3, <1>13
  <2>3. f = y
    BY ONLY <1>8, <1>10, <1>13, <2>2
  <2> QED BY <2>1, <2>3 DEF y, ByteAt, f
<1>14. CASE m = 2
  <2>1. c = 3 * q + 3 /\ c \in 1 .. n
    BY <1>1, <1>2, <1>11, <1>14
  <2>2. f = Byte(buf[i + 2] * 16) + buf[i + 3] \div 4
    BY ONLY <1>3, <1>14
  <2>3. f = z
    BY ONLY <1>8, <1>10, <1>14, <2>2
  <2> QED BY <2>1, <2>3 DEF z, ByteAt, f
<1> QED BY <1>2, <1>12, <1>13, <1>14

\* What was encoded comes back, as far as there are letters of it.
THEOREM BaseUndone ==
    ASSUME NEW dat \in Seq(Bytes), NEW txt, Begins(txt, dat)
    PROVE  /\ BaseDecode(txt) \in Seq(Bytes) /\ Len(BaseDecode(txt)) = DecodedLen(Len(txt))
           /\ DecodedLen(Len(txt)) <= Len(dat)
           /\ \A c \in 1 .. DecodedLen(Len(txt)) : BaseDecode(txt)[c] = dat[c]
<1> DEFINE l == Len(txt)
           n == DecodedLen(l)
           b == Start(txt)
<1>1. l \in Nat /\ n \in Nat /\ n <= l /\ Len(dat) \in Nat
  BY BeginsFacts
<1>2. b \in Buffers(l)
  <2>1. ASSUME NEW i \in 1 .. l PROVE Byte(txt[i] * 4) \in Int
    <3>1. txt[i] \in Letters
      BY BeginsFacts
    <3> QED BY ONLY <3>1, LetterByte
  <2> QED BY <2>1 DEF Start, Buffers
<1> HIDE DEF n, b, l
<1>3. PICK g \in [0 .. n -> Buffers(l)] : Writes(g, n, b) /\ Written(b, n) = g[n]
  BY <1>1, <1>2, WriteSteps DEF n
<1>4. g[0] = b /\ \A c \in 1 .. n : g[c] = [g[c - 1] EXCEPT ![c] = ByteOf(g[c - 1], c)]
  BY <1>3 DEF Writes
<1> DEFINE Good(k) == k <= n => \A j \in 1 .. l : g[k][j] = IF j <= k THEN dat[j] ELSE b[j]
           P == {k \in Nat : Good(k)}
<1>5. Good(0)
  BY <1>4
<1>6. ASSUME NEW k \in Nat, Good(k) PROVE Good(k + 1)
  <2>1. SUFFICES ASSUME k + 1 <= n, NEW j \in 1 .. l
                 PROVE  g[k + 1][j] = IF j <= k + 1 THEN dat[j] ELSE b[j]
    OBVIOUS
  <2>2. k + 1 \in 1 .. n /\ (k + 1) - 1 = k /\ k <= n /\ k \in 0 .. n /\ k + 1 \in 1 .. l
    BY <1>1, <2>1
  <2>3. g[k + 1] = [g[k] EXCEPT ![k + 1] = ByteOf(g[k], k + 1)]
    BY <1>4, <2>2
  <2>4. ByteOf(g[k], k + 1) = dat[k + 1]
    <3> DEFINE c == k + 1
               buf == g[k]
    <3>1. c \in 1 .. DecodedLen(Len(txt))
      BY <2>2 DEF n, l
    <3>2. \A i \in c .. Len(txt) : buf[i] = Start(txt)[i]
      BY <1>1, <1>6, <2>2 DEF l, b
    <3> HIDE DEF c, buf
    <3>3. ByteOf(buf, c) = dat[c]
      BY <3>1, <3>2, OneByte
    <3> QED BY <3>3 DEF c, buf
  <2>5. g[k] \in Buffers(l)
    BY <2>2
  <2>6. DOMAIN g[k] = 1 .. l
    BY <2>5 DEF Buffers
  <2>7. CASE j = k + 1
    BY <2>2, <2>3, <2>4, <2>6, <2>7
  <2>8. CASE j # k + 1
    <3>1. g[k + 1][j] = g[k][j]
      BY <2>3, <2>6, <2>8
    <3>2. g[k][j] = IF j <= k THEN dat[j] ELSE b[j]
      BY <1>6, <2>2
    <3>3. j <= k + 1 <=> j <= k
      BY <2>8, <1>1
    <3> QED BY <3>1, <3>2, <3>3
  <2> QED BY <2>7, <2>8
<1> HIDE DEF Good
<1>7. 0 \in P /\ \A k \in Nat : k \in P => k + 1 \in P
  BY <1>5, <1>6
<1>8. Nat \subseteq P
  BY <1>7, Induction
<1>9. \A c \in 1 .. n : g[n][c] = dat[c]
  <2>1. Good(n) /\ n <= n
    BY <1>1, <1>8
  <2> QED BY <1>1, <2>1 DEF Good
<1>10. ASSUME NEW c \in 1 .. n PROVE c \in 1 .. Len(dat) /\ dat[c] \in Bytes
  <2>1. c \in 1 .. DecodedLen(Len(txt))
    BY DEF n, l
  <2> DEFINE buf == Start(txt)
  <2>2. \A j \in c .. Len(txt) : buf[j] = Start(txt)[j]
    OBVIOUS
  <2>3. c \in 1 .. Len(dat)
    BY <2>1, <2>2, OneByte
  <2> QED BY <2>3
<1>11. n <= Len(dat)
  BY <1>1, <1>10
<1>12. BaseDecode(txt) = SubSeq(g[n], 1, n)
  <2>1. BaseDecode(txt) = SubSeq(Written(b, n), 1, n)
    BY DEF BaseDecode, Written, ByteOf, Start, b, n, l
  <2> QED BY <1>3, <2>1
<1>13. /\ SubSeq(g[n], 1, n) \in Seq(Bytes) /\ Len(SubSeq(g[n], 1, n)) = n
       /\ \A c \in 1 .. n : SubSeq(g[n], 1, n)[c] = g[n][c]
  <2> DEFINE s == g[n]
  <2>1. \A c \in 1 .. n : s[c] \in Bytes
    BY <1>9, <1>10
  <2> HIDE DEF s
  <2>2. /\ SubSeq(s, 1, n) \in Seq(Bytes)
        /\ Len(SubSeq(s, 1, n)) = IF 1 <= n THEN n - 1 + 1 ELSE 0
        /\ \A i \in 1 .. n - 1 + 1 : SubSeq(s, 1, n)[i] = s[1 + i - 1]
    BY <1>1, <2>1, SubSeqProperties
  <2>3. n - 1 + 1 = n /\ \A i \in 1 .. n : 1 + i - 1 = i
    BY <1>1
  <2> QED BY <1>1, <2>2, <2>3 DEF s
<1> QED BY <1>9, <1>11, <1>12, <1>13 DEF n, l

----------------------------------------------------------------------------
(* HwCrypt.                                                                *)

\* The padding fills whole blocks.
LEMMA PadFacts ==
    ASSUME NEW n \in Nat
    PROVE  PadLen(n) \in Nat /\ \E k \in Nat : n + PadLen(n) = Block * k
<1> DEFINE q == n \div Block
           r == n % Block
           p == PadLen(n)
<1>1. Block \in Nat \ {0}
  BY Widths
<1>2. q \in Nat /\ r \in 0 .. Block - 1 /\ n = Block * q + r
  <2>1. n \in Int /\ n \in Nat
    OBVIOUS
  <2> QED BY ONLY <1>1, <2>1, Division
<1>3. p = (Block - r) % Block
  BY DEF PadLen
<1> HIDE DEF q, r, p
<1>4. CASE r = 0
  <2>1. Block = Block * 1 + 0 /\ Block - r = Block
    BY <1>1, <1>4
  <2>2. Block % Block = 0
    BY <1>1, <2>1, Quotient
  <2>3. p = 0
    BY <1>3, <2>1, <2>2
  <2>4. n + p = Block * q
    BY <1>1, <1>2, <1>4, <2>3
  <2> QED BY <1>2, <2>3, <2>4 DEF p
<1>5. CASE r # 0
  <2>1. Block - r \in Int /\ 0 <= Block - r /\ Block - r < Block
    BY <1>1, <1>2, <1>5
  <2> DEFINE s == Block - r
  <2>2. s = Block * 0 + s
    BY <1>1, <2>1
  <2>3. s % Block = s
    <3>1. s \in Int /\ 0 <= s /\ s < Block
      BY <2>1
    <3> HIDE DEF s
    <3> QED BY <1>1, <2>2, <3>1, Quotient
  <2>4. p = s
    BY <1>3, <2>3
  <2> DEFINE y == Block * q
  <2>5. y \in Nat /\ Block * (q + 1) = y + Block
    BY <1>1, <1>2
  <2>6. n = y + r
    BY <1>2
  <2> HIDE DEF y
  <2>7. n + p = y + Block
    BY <1>1, <1>2, <2>4, <2>5, <2>6
  <2>8. p \in Nat /\ q + 1 \in Nat /\ n + p = Block * (q + 1)
    BY <1>1, <1>2, <2>1, <2>4, <2>5, <2>7
  <2> HIDE DEF s
  <2> QED BY <2>8 DEF p
<1> QED BY <1>4, <1>5

\* A text and what it is filled up with.
LEMMA PaddedFacts ==
    ASSUME NEW dat \in Seq(Bytes), NEW rnd \in Random(Len(dat))
    PROVE  /\ Padded(dat, rnd) \in Seq(Bytes)
           /\ Len(Padded(dat, rnd)) = Len(dat) + PadLen(Len(dat))
           /\ \A i \in 1 .. Len(dat) : Padded(dat, rnd)[i] = dat[i]
           /\ PadLen(Len(dat)) > 0 => Padded(dat, rnd)[Len(dat) + 1] = 0
<1> DEFINE n == Len(dat)
           k == PadLen(n)
           p == Padded(dat, rnd)
           j == dat \o rnd
<1>1. n \in Nat /\ k \in Nat
  BY PadFacts
<1>2. rnd \in [1 .. k -> Bytes]
  <2>1. Fill \subseteq Bytes
    BY CodecAssumption
  <2> QED BY <2>1 DEF Random
<1> HIDE DEF k
<1>3. rnd \in Seq(Bytes) /\ Len(rnd) = k
  BY <1>1, <1>2
<1>4. /\ j \in Seq(Bytes) /\ Len(j) = Len(dat) + Len(rnd)
      /\ \A x \in 1 .. Len(dat) : j[x] = dat[x]
  <2>1. dat \in Seq(Bytes) /\ rnd \in Seq(Bytes)
    BY <1>3
  <2> QED BY ONLY <2>1, Joined
<1> HIDE DEF j
<1>5. CASE k = 0
  <2>1. rnd = <<>>
    BY <1>3, <1>5
  <2>2. p = dat
    BY <2>1 DEF Padded
  <2> QED BY <1>1, <1>5, <2>2 DEF k
<1>6. CASE k # 0
  <2>1. rnd # <<>>
    BY <1>3, <1>6
  <2>2. p = [j EXCEPT ![n + 1] = 0]
    BY <2>1 DEF Padded, j
  <2>3. n + 1 \in 1 .. Len(j) /\ Len(j) = n + k
    BY <1>1, <1>3, <1>4, <1>6
  <2>4. 0 \in Bytes
    BY DEF Bytes
  <2>5. p \in Seq(Bytes) /\ Len(p) = Len(j)
    BY <1>4, <2>2, <2>3, <2>4
  <2>6. p[n + 1] = 0 /\ \A i \in 1 .. n : p[i] = dat[i]
    BY <1>1, <1>4, <2>2, <2>3
  <2> QED BY <2>3, <2>5, <2>6 DEF k
<1> QED BY <1>5, <1>6

\* HwCrypt makes letters, as many as the padded text needs.
LEMMA EncodeType ==
    ASSUME NEW dat \in Seq(Bytes), NEW rnd \in Random(Len(dat))
    PROVE  /\ HwCryptEncode(dat, rnd) \in Seq(Letters)
           /\ Len(HwCryptEncode(dat, rnd)) = EncodedLen(Len(dat) + PadLen(Len(dat)))
<1> DEFINE p == Padded(dat, rnd)
           n == Len(dat) + PadLen(Len(dat))
           h == Hcrypt(0, p)
<1>1. Len(dat) \in Nat
  OBVIOUS
<1>2. PICK k \in Nat : n = Block * k
  BY <1>1, PadFacts
<1>3. p \in Seq(Bytes) /\ Len(p) = n
  BY PaddedFacts
<1> HIDE DEF p, n
<1>4. h \in Seq(Bytes) /\ Len(h) = n
  BY <1>2, <1>3, HcryptFacts
<1>5. HwCryptEncode(dat, rnd) = BaseEncode(h)
  BY DEF HwCryptEncode, p
<1> HIDE DEF h
<1> QED BY <1>4, <1>5, Encoded DEF n

\* txt is the beginning of what HwCryptEncode makes of dat.
Delivered(txt, dat, rnd) ==
    /\ txt \in Seq(Letters) /\ Len(txt) <= Len(HwCryptEncode(dat, rnd))
    /\ \A i \in 1 .. Len(txt) : txt[i] = HwCryptEncode(dat, rnd)[i]

\* The bytes of a text of l letters that are in whole blocks.
WholeLen(l) == Block * (DecodedLen(l) \div Block)

\* A beginning of a text decodes to the beginning of what was encoded.
LEMMA DecodeUndone ==
    ASSUME NEW dat \in Seq(Bytes), NEW rnd \in Random(Len(dat)),
           NEW txt, Delivered(txt, dat, rnd)
    PROVE  /\ HwCryptDecode(txt) \in Seq(Bytes) /\ Len(HwCryptDecode(txt)) = WholeLen(Len(txt))
           /\ WholeLen(Len(txt)) \in Nat
           /\ WholeLen(Len(txt)) <= Len(dat) + PadLen(Len(dat))
           /\ \A x \in 1 .. WholeLen(Len(txt)) : HwCryptDecode(txt)[x] = Padded(dat, rnd)[x]
<1> DEFINE p == Padded(dat, rnd)
           n == Len(dat) + PadLen(Len(dat))
           h == Hcrypt(0, p)
           l == Len(txt)
           d == DecodedLen(l)
           m == d \div Block
           r == d % Block
           w == Block * m
           b == BaseDecode(txt)
           e == Whole(b)
<1>1. Len(dat) \in Nat /\ Block \in Nat \ {0}
  BY Widths
<1>2. PICK k \in Nat : n = Block * k
  BY <1>1, PadFacts
<1>3. p \in Seq(Bytes) /\ Len(p) = n
  BY PaddedFacts
<1>4. HwCryptEncode(dat, rnd) = BaseEncode(h)
  BY DEF HwCryptEncode
<1> HIDE DEF p, n
<1>5. h \in Seq(Bytes) /\ Len(h) = n
  BY <1>2, <1>3, HcryptFacts
<1> HIDE DEF h
<1>6. Begins(txt, h)
  <2>1. Len(BaseEncode(h)) = EncodedLen(Len(h))
    BY <1>5, Encoded
  <2> QED BY <1>4, <2>1 DEF Begins, Delivered
<1>7. /\ b \in Seq(Bytes) /\ Len(b) = d /\ d <= n /\ d \in Nat
      /\ \A c \in 1 .. d : b[c] = h[c]
  BY <1>5, <1>6, BaseUndone, BeginsFacts
<1> HIDE DEF b, d
<1>8. m \in Nat /\ r \in 0 .. Block - 1 /\ d = Block * m + r
  <2>1. d \in Int
    BY <1>7
  <2> QED BY ONLY <1>1, <1>7, <2>1, Division
<1> HIDE DEF m, r
<1>9. w \in Nat /\ d = w + r
  BY <1>1, <1>8
<1>10. m <= k
  <2>1. SUFFICES ASSUME m > k PROVE FALSE
    BY <1>2, <1>8
  <2>2. Block * m >= Block * k + Block
    BY <1>1, <1>8, <2>1, Larger
  <2>3. w >= n + Block
    BY <1>2, <2>2
  <2> HIDE DEF w
  <2>4. n \in Nat
    BY <1>5
  <2> QED BY <1>1, <1>7, <1>8, <1>9, <2>3, <2>4
<1> HIDE DEF w
<1>11. w <= d /\ d - r = w
  BY <1>7, <1>8, <1>9
<1>12. e = SubSeq(b, 1, w)
  BY <1>7, <1>11 DEF Whole, r
<1>13. e \in Seq(Bytes) /\ Len(e) = w /\ \A x \in 1 .. w : e[x] = b[x]
  <2>1. \A x \in 1 .. w : b[x] \in Bytes /\ 1 + x - 1 = x
    BY <1>7, <1>9, <1>11
  <2>2. /\ SubSeq(b, 1, w) \in Seq(Bytes)
        /\ Len(SubSeq(b, 1, w)) = IF 1 <= w THEN w - 1 + 1 ELSE 0
        /\ \A i \in 1 .. w - 1 + 1 : SubSeq(b, 1, w)[i] = b[1 + i - 1]
    BY <1>9, <2>1, SubSeqProperties
  <2> QED BY <1>9, <1>12, <2>1, <2>2
<1> HIDE DEF e
<1>14. \A x \in 1 .. w : e[x] = Hcrypt(0, p)[x]
  BY <1>7, <1>9, <1>11, <1>13 DEF h
<1>15. /\ Hcrypt(1, e) \in Seq(Bytes) /\ Len(Hcrypt(1, e)) = Block * m
       /\ \A x \in 1 .. Block * m : Hcrypt(1, e)[x] = p[x]
  <2>1. Len(e) = Block * m /\ Len(p) = Block * k /\ \A x \in 1 .. Block * m : e[x] = Hcrypt(0, p)[x]
    BY <1>2, <1>3, <1>13, <1>14 DEF w
  <2>2. e \in Seq(Bytes) /\ p \in Seq(Bytes) /\ m \in Nat
    BY <1>3, <1>8, <1>13
  <2> QED BY <1>10, <2>1, <2>2, HcryptUndone
<1>16. HwCryptDecode(txt) = Hcrypt(1, e)
  BY DEF HwCryptDecode, e, b
<1>17. WholeLen(Len(txt)) = w
  BY DEF WholeLen, w, m, d
<1>18. w <= n
  <2>1. n \in Nat
    BY <1>5
  <2> QED BY <1>7, <1>9, <1>11, <2>1
<1> QED BY <1>9, <1>15, <1>16, <1>17, <1>18 DEF w, p, n

\* What strlen sees: the text up to the first NUL.
LEMMA TextFacts ==
    ASSUME NEW p \in Seq(Bytes)
    PROVE  /\ (\A i \in 1 .. Len(p) : p[i] # 0) => Text(p) = p
           /\ \A n \in 0 .. Len(p) - 1 : 
                 (p[n + 1] = 0 /\ \A i \in 1 .. n : p[i] # 0) => Text(p) = SubSeq(p, 1, n)
<1> DEFINE I == {i \in 1 .. Len(p) : p[i] = 0}
<1>1. CString(p) = IF I # {} THEN Min(I) ELSE 0
  BY DEF CString, SelectInSeq
<1>2. ASSUME \A i \in 1 .. Len(p) : p[i] # 0 PROVE Text(p) = p
  <2>1. I = {}
    BY <1>2
  <2> QED BY <1>1, <2>1 DEF Text
<1>3. ASSUME NEW n \in 0 .. Len(p) - 1, p[n + 1] = 0, \A i \in 1 .. n : p[i] # 0
      PROVE  Text(p) = SubSeq(p, 1, n)
  <2>1. n + 1 \in I /\ I \subseteq Nat /\ n \in Nat
    BY <1>3
  <2>2. \A i \in I : n + 1 <= i
    BY <1>3
  <2>3. Min(I) \in I /\ \A i \in I : Min(I) <= i
    <3> HIDE DEF I
    <3>1. I # {}
      BY <2>1
    <3> QED BY <2>1, <3>1, LeastMember
  <2> DEFINE m == Min(I)
  <2> HIDE DEF m
  <2>4. m \in Nat /\ m <= n + 1 /\ n + 1 <= m
    BY <2>1, <2>2, <2>3 DEF m
  <2>5. m = n + 1 /\ m # 0 /\ m - 1 = n
    BY <2>1, <2>4
  <2>6. CString(p) = m
    BY <1>1, <2>1 DEF m
  <2> QED BY <2>5, <2>6 DEF Text
<1> QED BY <1>2, <1>3

Shorter(m, n) == IF m < n THEN m ELSE n

\* The text that arrives: the beginning of the text that was sent, or all of it.
THEOREM TextArrives ==
    ASSUME NEW dat \in Seq(Bytes \ {0}), NEW rnd \in Random(Len(dat)),
           NEW txt, Delivered(txt, dat, rnd)
    PROVE  Text(HwCryptDecode(txt)) = SubSeq(dat, 1, Shorter(WholeLen(Len(txt)), Len(dat)))
<1> DEFINE n == Len(dat)
           k == PadLen(n)
           m == WholeLen(Len(txt))
           p == HwCryptDecode(txt)
           f == Padded(dat, rnd)
<1>0. dat \in Seq(Bytes) /\ \A i \in 1 .. n : dat[i] # 0
  OBVIOUS
<1>1. n \in Nat /\ k \in Nat
  BY PadFacts
<1>2. /\ p \in Seq(Bytes) /\ Len(p) = m /\ m \in Nat /\ m <= n + k
      /\ \A x \in 1 .. m : p[x] = f[x]
  BY <1>0, DecodeUndone
<1>3. (\A i \in 1 .. n : f[i] = dat[i]) /\ (k > 0 => f[n + 1] = 0)
  BY <1>0, PaddedFacts
<1> HIDE DEF m, p, f, k
<1>4. CASE m <= n
  <2>1. \A i \in 1 .. Len(p) : p[i] # 0 /\ p[i] = dat[i]
    BY <1>0, <1>1, <1>2, <1>3, <1>4
  <2>2. Text(p) = p
    BY <1>2, <2>1, TextFacts
  <2>3. m \in 0 .. Len(dat)
    BY <1>1, <1>2, <1>4
  <2>4. /\ SubSeq(dat, 1, m) \in Seq(Bytes) /\ Len(SubSeq(dat, 1, m)) = m
        /\ \A i \in 1 .. m : SubSeq(dat, 1, m)[i] = dat[i]
    BY <1>0, <2>3, BeginningFacts
  <2>5. p = SubSeq(dat, 1, m)
    <3> DEFINE t == SubSeq(dat, 1, m)
    <3>1. t \in Seq(Bytes) /\ Len(t) = Len(p) /\ \A i \in 1 .. Len(p) : p[i] = t[i]
      BY <1>2, <2>1, <2>4
    <3> HIDE DEF t
    <3>2. p = t
      BY <1>2, <3>1, SeqEqual
    <3> QED BY <3>2 DEF t
  <2>6. Shorter(m, n) = m
    BY <1>1, <1>2, <1>4 DEF Shorter
  <2> QED BY <2>2, <2>5, <2>6 DEF p, m
<1>5. CASE n < m
  <2>1. n \in 0 .. Len(p) - 1 /\ n + 1 \in 1 .. m /\ k > 0
    BY <1>1, <1>2, <1>5
  <2>2. p[n + 1] = 0 /\ \A i \in 1 .. n : p[i] = dat[i]
    BY <1>1, <1>2, <1>3, <1>5, <2>1
  <2>3. Text(p) = SubSeq(p, 1, n)
    <3>1. \A i \in 1 .. n : p[i] # 0
      BY <1>0, <2>2
    <3> HIDE DEF n
    <3> QED BY <1>2, <2>1, <2>2, <3>1, TextFacts
  <2>4. n \in 0 .. Len(p)
    BY <1>1, <1>2, <1>5
  <2>5. /\ SubSeq(p, 1, n) \in Seq(Bytes) /\ Len(SubSeq(p, 1, n)) = n
        /\ \A i \in 1 .. n : SubSeq(p, 1, n)[i] = p[i]
    <3> HIDE DEF n
    <3> QED BY <1>2, <2>4, BeginningFacts
  <2>6. SubSeq(p, 1, n) = dat
    <3> DEFINE t == SubSeq(p, 1, n)
    <3>1. t \in Seq(Bytes) /\ Len(t) = Len(dat) /\ \A i \in 1 .. Len(t) : t[i] = dat[i]
      BY <2>2, <2>5
    <3> HIDE DEF t
    <3>2. t = dat
      BY <1>0, <3>1, SeqEqual
    <3> QED BY <3>2 DEF t
  <2>7. Shorter(m, n) = n /\ n \in 0 .. n
    BY <1>1, <1>2, <1>5 DEF Shorter
  <2>8. SubSeq(dat, 1, n) = dat
    BY <1>0, WholeSequence
  <2> QED BY <2>3, <2>6, <2>7, <2>8 DEF p, m
<1> QED BY <1>1, <1>2, <1>4, <1>5

----------------------------------------------------------------------------
(* Fields.                                                                 *)

Texts == Seq(Bytes)

\* Join, Explode and Split, and the values they go through.
JoinTo(b, s)        == FoldLeft(LAMBDA v, f : v \o <<Sep>> \o f, b, s)
Joins(g, n, b, s)   == g[0] = b /\ \A i \in 1 .. n : g[i] = (g[i - 1] \o <<Sep>>) \o s[i]

\* Join adds one field after the other.
LEMMA JoinSteps ==
    ASSUME NEW n \in Nat, NEW s \in [1 .. n -> Texts], NEW b \in Texts
    PROVE  \E g \in [0 .. n -> Texts] : Joins(g, n, b, s) /\ JoinTo(b, s) = g[n]
<1> DEFINE X == Texts
           Op(v, f) == v \o <<Sep>> \o f
           F == [p \in X \X (1 .. n) |-> Op(p[1], s[p[2]])]
           E(it) == it = [S \in SUBSET (DOMAIN s) |->
                            IF S = {} THEN b ELSE Op(it[S \ {Max(S)}], s[Max(S)])]
           c == CHOOSE f : E(f)
           g == [i \in 0 .. n |-> c[1 .. i]]
<1>1. DOMAIN s = 1 .. n /\ \A i \in 1 .. n : s[i] \in Texts
  OBVIOUS
<1>2. \A v \in X, f \in Texts : Op(v, f) \in X
  <2>1. <<Sep>> \in Texts
    BY DEF Texts, Bytes, Sep
  <2> QED BY <2>1 DEF Texts
<1> HIDE DEF Op, X
<1>3. F \in [X \X (1 .. n) -> X]
  BY <1>1, <1>2
<1>4. PICK it \in [SUBSET (1 .. n) -> X] : IsFold(it, n, b, F)
  <2>1. b \in X
    BY DEF X
  <2> HIDE DEF F
  <2> QED BY <1>3, <2>1, FoldExists
<1>5. E(it)
  <2>1. ASSUME NEW S \in SUBSET (1 .. n), S # {}
        PROVE  F[<<it[S \ {Max(S)}], Max(S)>>] = Op(it[S \ {Max(S)}], s[Max(S)])
    <3>1. Max(S) \in 1 .. n /\ S \ {Max(S)} \in SUBSET (1 .. n)
      BY <2>1, Greatest
    <3> QED BY <3>1
  <2> HIDE DEF F
  <2> QED BY <1>1, <1>4, <2>1 DEF IsFold
<1>6. E(c)
  <2> HIDE DEF E
  <2> QED BY <1>5
<1>7. JoinTo(b, s) = c[DOMAIN s]
  BY DEF JoinTo, FoldLeft, MapThenFoldSet, Op
<1> HIDE DEF c
<1>8. g[0] = b
  BY <1>1, <1>6, Initials
<1>9. ASSUME NEW i \in 1 .. n PROVE g[i] = Op(g[i - 1], s[i])
  <2>1. /\ 1 .. i \in SUBSET (1 .. n) /\ 1 .. i # {}
        /\ Max(1 .. i) = i /\ (1 .. i) \ {i} = 1 .. i - 1
    BY Initials
  <2>2. c[1 .. i] = Op(c[1 .. i - 1], s[i])
    BY <1>1, <1>6, <2>1
  <2> QED BY <2>2
<1>10. g[n] = c[1 .. n] /\ g = [i \in 0 .. n |-> g[i]]
  OBVIOUS
<1> HIDE DEF g
<1>11. \A i \in 0 .. n : g[i] \in X
  <2> DEFINE Good(i) == i <= n => g[i] \in X
             P == {i \in Nat : Good(i)}
  <2>1. Good(0)
    BY <1>8 DEF X
  <2>2. ASSUME NEW i \in Nat, Good(i) PROVE Good(i + 1)
    <3>1. SUFFICES ASSUME i + 1 <= n PROVE g[i + 1] \in X
      OBVIOUS
    <3>2. g[i] \in X /\ i + 1 \in 1 .. n /\ (i + 1) - 1 = i
      BY <2>2, <3>1
    <3> QED BY <1>1, <1>2, <1>9, <3>2
  <2> HIDE DEF Good
  <2>3. 0 \in P /\ \A i \in Nat : i \in P => i + 1 \in P
    BY <2>1, <2>2
  <2>4. Nat \subseteq P
    BY <2>3, Induction
  <2> QED BY <2>4 DEF Good
<1>12. Joins(g, n, b, s)
  BY <1>8, <1>9 DEF Joins, Op
<1> QED BY <1>1, <1>7, <1>10, <1>11, <1>12 DEF X

ExplodeFrom(b, s)     == FoldLeft(LAMBDA v, f : IF f = Sep THEN Append(v, <<>>)
                                                ELSE [v EXCEPT ![Len(v)] = Append(@, f)], b, s)
Explodes(g, n, b, s)  ==
    /\ g[0] = b
    /\ \A i \in 1 .. n : g[i] = IF s[i] = Sep THEN Append(g[i - 1], <<>>)
                                ELSE [g[i - 1] EXCEPT ![Len(g[i - 1])] = Append(@, s[i])]
Rows == {v \in Seq(Texts) : v # <<>>}

\* Explode goes through the fields of the beginnings.
LEMMA ExplodeSteps ==
    ASSUME NEW n \in Nat, NEW s \in [1 .. n -> Bytes], NEW b \in Rows
    PROVE  \E g \in [0 .. n -> Rows] : Explodes(g, n, b, s) /\ ExplodeFrom(b, s) = g[n]
<1> DEFINE X == Rows
           Op(v, f) == IF f = Sep THEN Append(v, <<>>)
                       ELSE [v EXCEPT ![Len(v)] = Append(@, f)]
           F == [p \in X \X (1 .. n) |-> Op(p[1], s[p[2]])]
           E(it) == it = [S \in SUBSET (DOMAIN s) |->
                            IF S = {} THEN b ELSE Op(it[S \ {Max(S)}], s[Max(S)])]
           c == CHOOSE f : E(f)
           g == [i \in 0 .. n |-> c[1 .. i]]
<1>1. DOMAIN s = 1 .. n /\ \A i \in 1 .. n : s[i] \in Bytes
  OBVIOUS
<1>2. \A v \in X, f \in Bytes : Op(v, f) \in X
  <2>1. ASSUME NEW v \in Rows, NEW f \in Bytes PROVE Op(v, f) \in Rows
    <3>1. v \in Seq(Texts) /\ Len(v) \in 1 .. Len(v)
      BY DEF Rows
    <3>2. Append(v, <<>>) \in Rows
      <4>1. <<>> \in Texts
        BY DEF Texts
      <4> QED BY <3>1, <4>1, AppendProperties DEF Rows
    <3>3. Append(v[Len(v)], f) \in Texts
      BY <3>1 DEF Texts
    <3>4. [v EXCEPT ![Len(v)] = Append(@, f)] \in Rows
      BY <3>1, <3>3 DEF Rows
    <3> QED BY <3>2, <3>4
  <2> QED BY <2>1
<1> HIDE DEF Op, X
<1>3. F \in [X \X (1 .. n) -> X]
  BY <1>1, <1>2
<1>4. PICK it \in [SUBSET (1 .. n) -> X] : IsFold(it, n, b, F)
  <2>1. b \in X
    BY DEF X
  <2> HIDE DEF F
  <2> QED BY <1>3, <2>1, FoldExists
<1>5. E(it)
  <2>1. ASSUME NEW S \in SUBSET (1 .. n), S # {}
        PROVE  F[<<it[S \ {Max(S)}], Max(S)>>] = Op(it[S \ {Max(S)}], s[Max(S)])
    <3>1. Max(S) \in 1 .. n /\ S \ {Max(S)} \in SUBSET (1 .. n)
      BY <2>1, Greatest
    <3> QED BY <3>1
  <2> HIDE DEF F
  <2> QED BY <1>1, <1>4, <2>1 DEF IsFold
<1>6. E(c)
  <2> HIDE DEF E
  <2> QED BY <1>5
<1>7. ExplodeFrom(b, s) = c[DOMAIN s]
  BY DEF ExplodeFrom, FoldLeft, MapThenFoldSet, Op
<1> HIDE DEF c
<1>8. g[0] = b
  BY <1>1, <1>6, Initials
<1>9. ASSUME NEW i \in 1 .. n PROVE g[i] = Op(g[i - 1], s[i])
  <2>1. /\ 1 .. i \in SUBSET (1 .. n) /\ 1 .. i # {}
        /\ Max(1 .. i) = i /\ (1 .. i) \ {i} = 1 .. i - 1
    BY Initials
  <2>2. c[1 .. i] = Op(c[1 .. i - 1], s[i])
    BY <1>1, <1>6, <2>1
  <2> QED BY <2>2
<1>10. g[n] = c[1 .. n] /\ g = [i \in 0 .. n |-> g[i]]
  OBVIOUS
<1> HIDE DEF g
<1>11. \A i \in 0 .. n : g[i] \in X
  <2> DEFINE Good(i) == i <= n => g[i] \in X
             P == {i \in Nat : Good(i)}
  <2>1. Good(0)
    BY <1>8 DEF X
  <2>2. ASSUME NEW i \in Nat, Good(i) PROVE Good(i + 1)
    <3>1. SUFFICES ASSUME i + 1 <= n PROVE g[i + 1] \in X
      OBVIOUS
    <3>2. g[i] \in X /\ i + 1 \in 1 .. n /\ (i + 1) - 1 = i
      BY <2>2, <3>1
    <3> QED BY <1>1, <1>2, <1>9, <3>2
  <2> HIDE DEF Good
  <2>3. 0 \in P /\ \A i \in Nat : i \in P => i + 1 \in P
    BY <2>1, <2>2
  <2>4. Nat \subseteq P
    BY <2>3, Induction
  <2> QED BY <2>4 DEF Good
<1>12. Explodes(g, n, b, s)
  BY <1>8, <1>9 DEF Explodes, Op
<1> QED BY <1>1, <1>7, <1>10, <1>11, <1>12 DEF X

SplitFrom(b, s)    == FoldLeft(LAMBDA v, f : IF f = <<>> THEN v ELSE Append(v, f), b, s)
Splits(g, n, b, s) ==
    /\ g[0] = b
    /\ \A i \in 1 .. n : g[i] = IF s[i] = <<>> THEN g[i - 1] ELSE Append(g[i - 1], s[i])

\* Split adds one field after the other.
LEMMA SplitSteps ==
    ASSUME NEW n \in Nat, NEW s \in [1 .. n -> Texts], NEW b \in Seq(Texts)
    PROVE  \E g \in [0 .. n -> Seq(Texts)] : Splits(g, n, b, s) /\ SplitFrom(b, s) = g[n]
<1> DEFINE X == Seq(Texts)
           Op(v, f) == IF f = <<>> THEN v ELSE Append(v, f)
           F == [p \in X \X (1 .. n) |-> Op(p[1], s[p[2]])]
           E(it) == it = [S \in SUBSET (DOMAIN s) |->
                            IF S = {} THEN b ELSE Op(it[S \ {Max(S)}], s[Max(S)])]
           c == CHOOSE f : E(f)
           g == [i \in 0 .. n |-> c[1 .. i]]
<1>1. DOMAIN s = 1 .. n /\ \A i \in 1 .. n : s[i] \in Texts
  OBVIOUS
<1>2. \A v \in X, f \in Texts : Op(v, f) \in X
  OBVIOUS
<1> HIDE DEF Op, X
<1>3. F \in [X \X (1 .. n) -> X]
  BY <1>1, <1>2
<1>4. PICK it \in [SUBSET (1 .. n) -> X] : IsFold(it, n, b, F)
  <2>1. b \in X
    BY DEF X
  <2> HIDE DEF F
  <2> QED BY <1>3, <2>1, FoldExists
<1>5. E(it)
  <2>1. ASSUME NEW S \in SUBSET (1 .. n), S # {}
        PROVE  F[<<it[S \ {Max(S)}], Max(S)>>] = Op(it[S \ {Max(S)}], s[Max(S)])
    <3>1. Max(S) \in 1 .. n /\ S \ {Max(S)} \in SUBSET (1 .. n)
      BY <2>1, Greatest
    <3> QED BY <3>1
  <2> HIDE DEF F
  <2> QED BY <1>1, <1>4, <2>1 DEF IsFold
<1>6. E(c)
  <2> HIDE DEF E
  <2> QED BY <1>5
<1>7. SplitFrom(b, s) = c[DOMAIN s]
  BY DEF SplitFrom, FoldLeft, MapThenFoldSet, Op
<1> HIDE DEF c
<1>8. g[0] = b
  BY <1>1, <1>6, Initials
<1>9. ASSUME NEW i \in 1 .. n PROVE g[i] = Op(g[i - 1], s[i])
  <2>1. /\ 1 .. i \in SUBSET (1 .. n) /\ 1 .. i # {}
        /\ Max(1 .. i) = i /\ (1 .. i) \ {i} = 1 .. i - 1
    BY Initials
  <2>2. c[1 .. i] = Op(c[1 .. i - 1], s[i])
    BY <1>1, <1>6, <2>1
  <2> QED BY <2>2
<1>10. g[n] = c[1 .. n] /\ g = [i \in 0 .. n |-> g[i]]
  OBVIOUS
<1> HIDE DEF g
<1>11. \A i \in 0 .. n : g[i] \in X
  <2> DEFINE Good(i) == i <= n => g[i] \in X
             P == {i \in Nat : Good(i)}
  <2>1. Good(0)
    BY <1>8 DEF X
  <2>2. ASSUME NEW i \in Nat, Good(i) PROVE Good(i + 1)
    <3>1. SUFFICES ASSUME i + 1 <= n PROVE g[i + 1] \in X
      OBVIOUS
    <3>2. g[i] \in X /\ i + 1 \in 1 .. n /\ (i + 1) - 1 = i
      BY <2>2, <3>1
    <3> QED BY <1>1, <1>2, <1>9, <3>2
  <2> HIDE DEF Good
  <2>3. 0 \in P /\ \A i \in Nat : i \in P => i + 1 \in P
    BY <2>1, <2>2
  <2>4. Nat \subseteq P
    BY <2>3, Induction
  <2> QED BY <2>4 DEF Good
<1>12. Splits(g, n, b, s)
  BY <1>8, <1>9 DEF Splits, Op
<1> QED BY <1>1, <1>7, <1>10, <1>11, <1>12 DEF X

\* Texts without separators.
Fields == Seq(Bytes \ {Sep})

\* Going through a text without separators makes it the last field.
LEMMA ExplodeSegment ==
    ASSUME NEW x \in Fields, NEW d \in Seq(Texts), NEW o \in Nat, NEW g,
           g[o] = Append(d, <<>>),
           \A i \in 1 .. Len(x) :
              g[o + i] = [g[o + (i - 1)] EXCEPT ![Len(g[o + (i - 1)])] = Append(@, x[i])]
    PROVE  g[o + Len(x)] = Append(d, x)
<1> DEFINE n == Len(x)
           Good(i) == i <= n => g[o + i] = Append(d, SubSeq(x, 1, i))
           P == {i \in Nat : Good(i)}
<1>1. n \in Nat /\ x \in Texts /\ \A i \in 1 .. n : x[i] \in Bytes
  BY DEF Fields, Texts
<1>2. Good(0)
  <2>1. SubSeq(x, 1, 0) = <<>>
    BY SubSeqEmpty
  <2>2. o + 0 = o
    OBVIOUS
  <2> QED BY <2>1, <2>2
<1>3. ASSUME NEW i \in Nat, Good(i) PROVE Good(i + 1)
  <2>1. SUFFICES ASSUME i + 1 <= n PROVE g[o + (i + 1)] = Append(d, SubSeq(x, 1, i + 1))
    OBVIOUS
  <2> DEFINE y == SubSeq(x, 1, i)
             z == SubSeq(x, 1, i + 1)
             v == Append(d, y)
             a == x[i + 1]
  <2>2. i \in 0 .. n /\ i + 1 \in 0 .. n /\ i + 1 \in 1 .. n /\ (i + 1) - 1 = i
    BY <1>1, <2>1
  <2>4. g[o + (i + 1)] = [v EXCEPT ![Len(v)] = Append(@, a)]
    <3>1. g[o + ((i + 1) - 1)] = v
      BY <1>1, <1>3, <2>2
    <3> HIDE DEF v
    <3> QED BY <2>2, <3>1
  <2>5. a \in Bytes
    BY <1>1, <2>2
  <2>6. Append(y, a) = z
    BY <1>1, <2>1, OneMore DEF Texts
  <2>3. y \in Texts /\ z \in Texts
    BY <1>1, <2>2, BeginningFacts DEF Texts
  <2> HIDE DEF y, z, a
  <2>7. [v EXCEPT ![Len(v)] = Append(@, a)] = Append(d, z)
    <3>1. [Append(d, y) EXCEPT ![Len(Append(d, y))] = z] = Append(d, z)
      BY <2>3, LastReplaced
    <3>2. v[Len(v)] = y
      <4>1. Len(v) = Len(d) + 1 /\ v[Len(d) + 1] = y
        BY <2>3, AppendProperties
      <4> HIDE DEF v
      <4> QED BY <4>1
    <3> QED BY <2>6, <3>1, <3>2
  <2> QED BY <2>4, <2>7 DEF z
<1> HIDE DEF Good
<1>4. 0 \in P /\ \A i \in Nat : i \in P => i + 1 \in P
  BY <1>2, <1>3
<1>5. Nat \subseteq P
  BY <1>4, Induction
<1>6. Good(n) /\ n <= n
  BY <1>1, <1>5
<1>7. SubSeq(x, 1, n) = x
  BY WholeSequence DEF Fields
<1> QED BY <1>6, <1>7 DEF Good

\* A text without a separator is one field.
LEMMA ExplodeOne ==
    ASSUME NEW x \in Fields
    PROVE  Explode(x) = <<x>>
<1> DEFINE n == Len(x)
           b == <<<<>>>>
<1>1. n \in Nat /\ x \in [1 .. n -> Bytes] /\ \A i \in 1 .. n : x[i] # Sep
  BY DEF Fields
<1>2. b \in Rows
  BY DEF Rows, Texts
<1> HIDE DEF n, b
<1>3. PICK g \in [0 .. n -> Rows] : Explodes(g, n, b, x) /\ ExplodeFrom(b, x) = g[n]
  BY <1>1, <1>2, ExplodeSteps
<1>4. g[0] = b /\ \A i \in 1 .. n : g[i] = [g[i - 1] EXCEPT ![Len(g[i - 1])] = Append(@, x[i])]
  BY <1>1, <1>3 DEF Explodes
<1>5. g[0 + Len(x)] = Append(<<>>, x)
  <2>1. <<>> \in Seq(Texts) /\ 0 \in Nat /\ b = Append(<<>>, <<>>)
    BY DEF b
  <2>2. \A i \in 1 .. n : 0 + i = i /\ 0 + (i - 1) = i - 1
    BY <1>1
  <2>3. g[0] = Append(<<>>, <<>>)
    BY <1>4, <2>1
  <2>4. \A i \in 1 .. Len(x) :
           g[0 + i] = [g[0 + (i - 1)] EXCEPT ![Len(g[0 + (i - 1)])] = Append(@, x[i])]
    BY <1>4, <2>2 DEF n
  <2> QED BY <2>1, <2>3, <2>4, ExplodeSegment
<1>6. 0 + Len(x) = n
  BY <1>1 DEF n
<1>7. Append(<<>>, x) = <<x>>
  OBVIOUS
<1>8. Explode(x) = ExplodeFrom(b, x)
  BY DEF Explode, ExplodeFrom, b
<1> QED BY <1>3, <1>5, <1>6, <1>7, <1>8

\* One more field.
Extended(s, x) == (s \o <<Sep>>) \o x

\* What follows a separator is one field more.
LEMMA ExplodeMore ==
    ASSUME NEW s \in Texts, NEW x \in Fields
    PROVE  Explode(Extended(s, x)) = Append(Explode(s), x)
<1> DEFINE n == Len(x)
           k == Len(s)
           b == <<<<>>>>
           a == s \o <<Sep>>
           t == a \o x
<1>1. /\ n \in Nat /\ x \in [1 .. n -> Bytes] /\ x \in Seq(Bytes) /\ \A i \in 1 .. n : x[i] # Sep
      /\ k \in Nat /\ s \in [1 .. k -> Bytes] /\ s \in Seq(Bytes)
  BY DEF Fields, Texts
<1>2. b \in Rows
  BY DEF Rows, Texts
<1>3. /\ a \in Seq(Bytes) /\ Len(a) = k + 1
      /\ (\A i \in 1 .. k : a[i] = s[i]) /\ a[k + 1] = Sep
  <2> DEFINE c == <<Sep>>
  <2>1. c \in Seq(Bytes) /\ Len(c) = 1 /\ c[1] = Sep /\ s \in Seq(Bytes) /\ 1 \in 1 .. 1
    BY <1>1 DEF Sep, Bytes
  <2> HIDE DEF c
  <2>2. /\ s \o c \in Seq(Bytes) /\ Len(s \o c) = Len(s) + Len(c)
        /\ \A i \in 1 .. Len(s) : (s \o c)[i] = s[i]
        /\ \A i \in 1 .. Len(c) : (s \o c)[Len(s) + i] = c[i]
    <3>1. s \in Seq(Bytes) /\ c \in Seq(Bytes)
      BY <2>1
    <3> QED BY ONLY <3>1, Joined
  <2> QED BY <2>1, <2>2 DEF c
<1> HIDE DEF a
<1>4. /\ t \in Seq(Bytes) /\ Len(t) = (k + 1) + n
      /\ \A i \in 1 .. k + 1 : t[i] = a[i]
      /\ \A i \in 1 .. n : t[(k + 1) + i] = x[i]
  <2>1. a \in Seq(Bytes) /\ x \in Seq(Bytes)
    BY <1>1, <1>3
  <2>2. /\ a \o x \in Seq(Bytes) /\ Len(a \o x) = Len(a) + Len(x)
        /\ \A i \in 1 .. Len(a) : (a \o x)[i] = a[i]
        /\ \A i \in 1 .. Len(x) : (a \o x)[Len(a) + i] = x[i]
    BY ONLY <2>1, Joined
  <2> QED BY <1>3, <2>2
<1> HIDE DEF t, n, k, b
<1> DEFINE m == (k + 1) + n
<1>5. m \in Nat /\ t \in [1 .. m -> Bytes]
  BY <1>1, <1>4
<1> HIDE DEF m
<1>6. PICK h \in [0 .. k -> Rows] : Explodes(h, k, b, s) /\ ExplodeFrom(b, s) = h[k]
  BY <1>1, <1>2, ExplodeSteps
<1>7. PICK g \in [0 .. m -> Rows] : Explodes(g, m, b, t) /\ ExplodeFrom(b, t) = g[m]
  BY <1>2, <1>5, ExplodeSteps
<1>8. /\ h[0] = b
      /\ \A i \in 1 .. k : h[i] = IF s[i] = Sep THEN Append(h[i - 1], <<>>)
                                  ELSE [h[i - 1] EXCEPT ![Len(h[i - 1])] = Append(@, s[i])]
  BY <1>6 DEF Explodes
<1>9. /\ g[0] = b
      /\ \A i \in 1 .. m : g[i] = IF t[i] = Sep THEN Append(g[i - 1], <<>>)
                                  ELSE [g[i - 1] EXCEPT ![Len(g[i - 1])] = Append(@, t[i])]
  BY <1>7 DEF Explodes
<1> DEFINE Good(i) == i <= k => g[i] = h[i]
           P == {i \in Nat : Good(i)}
<1>10. Good(0)
  BY <1>8, <1>9
<1>11. ASSUME NEW i \in Nat, Good(i) PROVE Good(i + 1)
  <2>1. SUFFICES ASSUME i + 1 <= k PROVE g[i + 1] = h[i + 1]
    OBVIOUS
  <2>2. /\ i + 1 \in 1 .. k /\ i + 1 \in 1 .. k + 1 /\ i + 1 \in 1 .. m
        /\ (i + 1) - 1 = i /\ i <= k
    BY <1>1, <2>1 DEF m
  <2>3. t[i + 1] = s[i + 1] /\ g[i] = h[i]
    BY <1>3, <1>4, <1>11, <2>2
  <2>4. h[i + 1] = IF s[i + 1] = Sep THEN Append(h[i], <<>>)
                   ELSE [h[i] EXCEPT ![Len(h[i])] = Append(@, s[i + 1])]
    BY <1>8, <2>2
  <2>5. g[i + 1] = IF t[i + 1] = Sep THEN Append(g[i], <<>>)
                   ELSE [g[i] EXCEPT ![Len(g[i])] = Append(@, t[i + 1])]
    BY <1>9, <2>2
  <2> QED BY <2>3, <2>4, <2>5
<1> HIDE DEF Good
<1>12. 0 \in P /\ \A i \in Nat : i \in P => i + 1 \in P
  BY <1>10, <1>11
<1>13. Nat \subseteq P
  BY <1>12, Induction
<1>14. g[k] = h[k] /\ h[k] \in Seq(Texts)
  <2>1. Good(k) /\ k <= k /\ k \in 0 .. k
    BY <1>1, <1>13
  <2> QED BY <2>1 DEF Good, Rows
<1> DEFINE o == k + 1
<1>15. o \in Nat /\ o \in 1 .. m /\ o - 1 = k /\ o \in 1 .. k + 1 /\ o + n = m
  BY <1>1 DEF m
<1>16. g[o] = Append(h[k], <<>>)
  <2>1. t[o] = Sep
    BY <1>3, <1>4, <1>15
  <2> HIDE DEF o
  <2>2. g[o] = Append(g[o - 1], <<>>)
    BY <1>9, <1>15, <2>1
  <2> QED BY <1>14, <1>15, <2>2
<1>17. \A i \in 1 .. n : g[o + i] = [g[o + (i - 1)] EXCEPT ![Len(g[o + (i - 1)])] = Append(@, x[i])]
  <2>1. \A i \in 1 .. n : o + i \in 1 .. m /\ (o + i) - 1 = o + (i - 1)
    BY <1>1, <1>15 DEF m
  <2>2. \A i \in 1 .. n : t[o + i] = x[i] /\ t[o + i] # Sep
    BY <1>1, <1>4
  <2> HIDE DEF o
  <2> QED BY <1>9, <2>1, <2>2
<1> HIDE DEF o
<1>18. g[o + Len(x)] = Append(h[k], x)
  <2>1. \A i \in 1 .. Len(x) :
           g[o + i] = [g[o + (i - 1)] EXCEPT ![Len(g[o + (i - 1)])] = Append(@, x[i])]
    BY <1>17 DEF n
  <2> QED BY <1>14, <1>15, <1>16, <2>1, ExplodeSegment
<1>19. g[m] = Append(h[k], x)
  BY <1>15, <1>18 DEF n
<1>20. Explode(s) = ExplodeFrom(b, s) /\ Explode(t) = ExplodeFrom(b, t)
  BY DEF Explode, ExplodeFrom, b
<1> QED BY <1>6, <1>7, <1>19, <1>20 DEF t, a, Extended

\* Two fields, joined.
LEMMA JoinTwo ==
    ASSUME NEW a \in Texts, NEW b \in Texts
    PROVE  Join(<<a, b>>) = Extended(a, b)
<1> DEFINE s == <<b>>
<1>1. s \in [1 .. 1 -> Texts] /\ s[1] = b /\ 1 \in 1 .. 1 /\ 1 - 1 = 0 /\ 1 \in Nat
  OBVIOUS
<1>2. Tail(<<a, b>>) = s /\ <<a, b>>[1] = a
  OBVIOUS
<1> HIDE DEF s
<1>3. PICK g \in [0 .. 1 -> Texts] : Joins(g, 1, a, s) /\ JoinTo(a, s) = g[1]
  BY <1>1, JoinSteps
<1>4. g[0] = a /\ g[1] = (g[1 - 1] \o <<Sep>>) \o s[1]
  BY <1>1, <1>3 DEF Joins
<1>5. Join(<<a, b>>) = JoinTo(a, s)
  BY <1>2 DEF Join, JoinTo
<1> QED BY <1>1, <1>3, <1>4, <1>5 DEF Extended

\* Five fields, joined.
LEMMA JoinFive ==
    ASSUME NEW a \in Texts, NEW b \in Texts, NEW c \in Texts, NEW d \in Texts, NEW e \in Texts
    PROVE  Join(<<a, b, c, d, e>>)
              = Extended(Extended(Extended(Extended(a, b), c), d), e)
<1> DEFINE s == <<b, c, d, e>>
<1>1. /\ s \in [1 .. 4 -> Texts] /\ s[1] = b /\ s[2] = c /\ s[3] = d /\ s[4] = e
      /\ 4 \in Nat /\ 1 \in 1 .. 4 /\ 2 \in 1 .. 4 /\ 3 \in 1 .. 4 /\ 4 \in 1 .. 4
      /\ 1 - 1 = 0 /\ 2 - 1 = 1 /\ 3 - 1 = 2 /\ 4 - 1 = 3
  OBVIOUS
<1>2. Tail(<<a, b, c, d, e>>) = s /\ <<a, b, c, d, e>>[1] = a
  OBVIOUS
<1> HIDE DEF s
<1>3. PICK g \in [0 .. 4 -> Texts] : Joins(g, 4, a, s) /\ JoinTo(a, s) = g[4]
  BY <1>1, JoinSteps
<1>4. /\ g[0] = a /\ g[1] = (g[1 - 1] \o <<Sep>>) \o s[1] /\ g[2] = (g[2 - 1] \o <<Sep>>) \o s[2]
      /\ g[3] = (g[3 - 1] \o <<Sep>>) \o s[3] /\ g[4] = (g[4 - 1] \o <<Sep>>) \o s[4]
  BY <1>1, <1>3 DEF Joins
<1>5. Join(<<a, b, c, d, e>>) = JoinTo(a, s)
  BY <1>2 DEF Join, JoinTo
<1>6. /\ g[0] = a /\ g[1] = Extended(g[0], b) /\ g[2] = Extended(g[1], c)
      /\ g[3] = Extended(g[2], d) /\ g[4] = Extended(g[3], e)
  BY <1>1, <1>4 DEF Extended
<1> QED BY <1>3, <1>5, <1>6

\* strtok finds every field when none is empty.
LEMMA SplitAll ==
    ASSUME NEW s, Explode(s) \in Seq(Texts),
           \A i \in 1 .. Len(Explode(s)) : Explode(s)[i] # <<>>
    PROVE  Split(s) = Explode(s)
<1> DEFINE q == Explode(s)
           n == Len(q)
<1>1. n \in Nat /\ q \in [1 .. n -> Texts] /\ q \in Seq(Texts) /\ \A i \in 1 .. n : q[i] # <<>>
  OBVIOUS
<1>2. Split(s) = SplitFrom(<<>>, q)
  BY DEF Split, SplitFrom
<1> HIDE DEF q, n
<1>3. PICK g \in [0 .. n -> Seq(Texts)] : Splits(g, n, <<>>, q) /\ SplitFrom(<<>>, q) = g[n]
  <2>1. <<>> \in Seq(Texts)
    OBVIOUS
  <2> QED BY <1>1, <2>1, SplitSteps
<1>4. g[0] = <<>> /\ \A i \in 1 .. n : g[i] = Append(g[i - 1], q[i])
  BY <1>1, <1>3 DEF Splits
<1> DEFINE Got(i) == i <= n => g[i] = SubSeq(q, 1, i)
           P == {i \in Nat : Got(i)}
<1>5. Got(0)
  BY <1>4, SubSeqEmpty
<1>6. ASSUME NEW i \in Nat, Got(i) PROVE Got(i + 1)
  <2>1. SUFFICES ASSUME i + 1 <= n PROVE g[i + 1] = SubSeq(q, 1, i + 1)
    OBVIOUS
  <2>2. i + 1 \in 1 .. n /\ (i + 1) - 1 = i /\ i <= n /\ i + 1 <= Len(q)
    BY <1>1, <2>1 DEF n
  <2>3. Append(SubSeq(q, 1, i), q[i + 1]) = SubSeq(q, 1, i + 1)
    BY <1>1, <2>2, OneMore
  <2>4. g[i + 1] = Append(g[i], q[i + 1])
    BY <1>4, <2>2
  <2> QED BY <1>6, <2>2, <2>3, <2>4
<1> HIDE DEF Got
<1>7. 0 \in P /\ \A i \in Nat : i \in P => i + 1 \in P
  BY <1>5, <1>6
<1>8. Nat \subseteq P
  BY <1>7, Induction
<1>9. g[n] = SubSeq(q, 1, n)
  <2>1. Got(n) /\ n <= n
    BY <1>1, <1>8
  <2> QED BY <2>1 DEF Got
<1>10. SubSeq(q, 1, n) = q
  BY <1>1, WholeSequence DEF n
<1> QED BY <1>2, <1>3, <1>9, <1>10 DEF q

\* Texts a field may have.
Names == Seq(Bytes \ {0, Sep})

\* A name is a text, without the bytes 0 and 1.
LEMMA NamesAre ==
    /\ Names \subseteq Fields /\ Names \subseteq Texts /\ Names \subseteq Seq(Bytes \ {0})
    /\ Fields \subseteq Texts
    /\ Zero \in Names /\ Zero # <<>>
    /\ <<Sep>> \in Seq(Bytes \ {0}) /\ <<Sep>> \in Texts
<1>1. Names \subseteq Fields /\ Names \subseteq Texts /\ Names \subseteq Seq(Bytes \ {0}) /\ Fields \subseteq Texts
  BY SeqMonotonic DEF Names, Fields, Texts
<1>2. Zero \in Names /\ Zero # <<>>
  BY DEF Zero, Names, Bytes, Sep
<1>3. <<Sep>> \in Seq(Bytes \ {0}) /\ <<Sep>> \in Texts
  BY DEF Texts, Bytes, Sep
<1> QED BY <1>1, <1>2, <1>3

\* A field after the others.
LEMMA FieldAdded ==
    ASSUME NEW S, NEW s \in Seq(S), <<Sep>> \in Seq(S), NEW x \in Seq(S)
    PROVE  Extended(s, x) \in Seq(S)
<1> DEFINE c == <<Sep>>
<1>1. c \in Seq(S)
  OBVIOUS
<1> HIDE DEF c
<1>2. s \o c \in Seq(S)
  BY <1>1
<1>3. (s \o c) \o x \in Seq(S)
  BY <1>2
<1> QED BY <1>3 DEF c, Extended

\* The header: five fields, none of them empty.
THEOREM HeaderFields ==
    ASSUME NEW a \in Names, NEW b \in Names, NEW c \in Names, NEW d \in Names, NEW e \in Names,
           a # <<>>, b # <<>>, c # <<>>, d # <<>>, e # <<>>
    PROVE  /\ Join(<<a, b, c, d, e>>) \in Seq(Bytes \ {0})
           /\ Split(Join(<<a, b, c, d, e>>)) = <<a, b, c, d, e>>
<1> DEFINE s2 == Extended(a, b)
           s3 == Extended(s2, c)
           s4 == Extended(s3, d)
           s5 == Extended(s4, e)
           S == Bytes \ {0}
<1>1. /\ a \in Fields /\ b \in Fields /\ c \in Fields /\ d \in Fields /\ e \in Fields
      /\ a \in Texts /\ b \in Texts /\ c \in Texts /\ d \in Texts /\ e \in Texts
      /\ a \in Seq(S) /\ b \in Seq(S) /\ c \in Seq(S) /\ d \in Seq(S) /\ e \in Seq(S)
      /\ <<Sep>> \in Seq(S)
  BY NamesAre
<1>2. Join(<<a, b, c, d, e>>) = s5
  <2>1. a \in Texts /\ b \in Texts /\ c \in Texts /\ d \in Texts /\ e \in Texts
    BY <1>1
  <2> QED BY ONLY <2>1, JoinFive
<1> HIDE DEF S
<1>3. s2 \in Seq(S)
  BY <1>1, FieldAdded
<1>a. Explode(s2) = Append(Explode(a), b)
  BY <1>1, ExplodeMore
<1> HIDE DEF s2
<1>4. s3 \in Seq(S)
  BY <1>1, <1>3, FieldAdded
<1>t. \A s \in Seq(S) : s \in Texts
  BY SeqMonotonic DEF S, Texts
<1>b. Explode(s3) = Append(Explode(s2), c)
  BY <1>1, <1>3, <1>t, ExplodeMore
<1> HIDE DEF s3
<1>5. s4 \in Seq(S)
  BY <1>1, <1>4, FieldAdded
<1>c. Explode(s4) = Append(Explode(s3), d)
  BY <1>1, <1>4, <1>t, ExplodeMore
<1> HIDE DEF s4
<1>6. s5 \in Seq(S)
  BY <1>1, <1>5, FieldAdded
<1>d. Explode(s5) = Append(Explode(s4), e)
  BY <1>1, <1>5, <1>t, ExplodeMore
<1> HIDE DEF s5
<1>7. Explode(a) = <<a>>
  BY <1>1, ExplodeOne
<1>8. Explode(s5) = <<a, b, c, d, e>>
  <2>1. Append(Append(Append(Append(<<a>>, b), c), d), e) = <<a, b, c, d, e>>
    BY <1>1, FiveAppended
  <2> QED BY ONLY <1>7, <1>a, <1>b, <1>c, <1>d, <2>1
<1>9. Split(s5) = Explode(s5)
  <2> DEFINE q == <<a, b, c, d, e>>
  <2>1. q \in Seq(Texts) /\ Len(q) = 5
    BY <1>1
  <2>2. \A i \in 1 .. 5 : q[i] # <<>>
    <3>1. \A i \in 1 .. 5 : i = 1 \/ i = 2 \/ i = 3 \/ i = 4 \/ i = 5
      OBVIOUS
    <3>2. q[1] = a /\ q[2] = b /\ q[3] = c /\ q[4] = d /\ q[5] = e
      OBVIOUS
    <3> HIDE DEF q
    <3> QED BY <3>1, <3>2
  <2> HIDE DEF q
  <2>3. Explode(s5) = q
    BY <1>8 DEF q
  <2>4. Explode(s5) \in Seq(Texts) /\ \A i \in 1 .. Len(Explode(s5)) : Explode(s5)[i] # <<>>
    BY <2>1, <2>2, <2>3
  <2> QED BY <2>4, SplitAll
<1> QED BY <1>2, <1>6, <1>8, <1>9 DEF S

\* The first m elements are a prefix.
LEMMA BeginningIsPrefix ==
    ASSUME NEW S, NEW s \in Seq(S), NEW m \in 0 .. Len(s)
    PROVE  IsPrefix(SubSeq(s, 1, m), s)
<1> DEFINE t == SubSeq(s, 1, m)
<1>1. t \in Seq(S) /\ Len(t) = m /\ m \in Nat /\ Len(s) \in Nat /\ m <= Len(s)
  BY BeginningFacts
<1> HIDE DEF t
<1>2. SubSeq(t, 1, Len(t)) = t
  BY <1>1, WholeSequence
<1>3. t = SubSeq(s, 1, Len(t))
  BY <1>1 DEF t
<1> QED BY <1>1, <1>2, <1>3 DEF IsPrefix, t

\* A path and a sum, joined.
LEMMA PlainFacts ==
    ASSUME NEW p \in Names, NEW s \in Names
    PROVE  LET j == Join(<<p, s>>)
           IN  /\ j \in Seq(Bytes \ {0}) /\ j = Extended(p, s)
               /\ Len(j) = Len(p) + 1 + Len(s)
               /\ (\A i \in 1 .. Len(p) : j[i] = p[i]) /\ j[Len(p) + 1] = Sep
               /\ \A i \in 1 .. Len(s) : j[Len(p) + 1 + i] = s[i]
<1> DEFINE c == <<Sep>>
           a == p \o c
           j == a \o s
           S == Bytes \ {0}
<1>1. p \in Texts /\ s \in Texts /\ p \in Seq(S) /\ s \in Seq(S) /\ c \in Seq(S)
  BY NamesAre
<1>2. Join(<<p, s>>) = j
  BY <1>1, JoinTwo DEF Extended
<1>3. Len(c) = 1 /\ c[1] = Sep /\ 1 \in 1 .. 1 /\ Len(p) \in Nat /\ Len(s) \in Nat
  OBVIOUS
<1> HIDE DEF c, S
<1>4. /\ a \in Seq(S) /\ Len(a) = Len(p) + Len(c)
      /\ \A i \in 1 .. Len(p) : a[i] = p[i]
      /\ \A i \in 1 .. Len(c) : a[Len(p) + i] = c[i]
  <2>1. p \in Seq(S) /\ c \in Seq(S)
    BY <1>1
  <2> QED BY ONLY <2>1, Joined
<1> HIDE DEF a
<1>5. /\ j \in Seq(S) /\ Len(j) = Len(a) + Len(s)
      /\ \A i \in 1 .. Len(a) : j[i] = a[i]
      /\ \A i \in 1 .. Len(s) : j[Len(a) + i] = s[i]
  <2>1. a \in Seq(S) /\ s \in Seq(S)
    BY <1>1, <1>4
  <2> QED BY ONLY <2>1, Joined
<1> HIDE DEF j
<1>6. Len(a) = Len(p) + 1 /\ Len(j) = Len(p) + 1 + Len(s)
  BY <1>3, <1>4, <1>5
<1>7. /\ \A i \in 1 .. Len(p) : j[i] = p[i]
      /\ j[Len(p) + 1] = Sep
      /\ \A i \in 1 .. Len(s) : j[Len(p) + 1 + i] = s[i]
  <2>1. (\A i \in 1 .. Len(p) : i \in 1 .. Len(a)) /\ Len(p) + 1 \in 1 .. Len(a)
    BY <1>3, <1>6
  <2> QED BY <1>3, <1>4, <1>5, <1>6, <2>1
<1>8. j = Extended(p, s)
  BY DEF j, a, c, Extended
<1> QED BY <1>2, <1>5, <1>6, <1>7, <1>8 DEF S

\* What ResFile finds in the first m bytes of a path and its sum.
LEMMA CutFields ==
    ASSUME NEW p \in Names, p # <<>>, NEW s \in Names, NEW m \in 1 .. Len(Join(<<p, s>>))
    PROVE  LET j == Join(<<p, s>>)
               f == FileFields(SubSeq(j, 1, m))
           IN  /\ f[1] \in Names /\ f[1] # <<>> /\ f[2] \in Names /\ f[2] # <<>>
               /\ IsPrefix(IF f[2] = Zero THEN f[1] ELSE Extended(f[1], f[2]), j)
               /\ m = Len(j) => f[1] = p /\ f[2] = (IF s = <<>> THEN Zero ELSE s)
<1> DEFINE j == Join(<<p, s>>)
           t == SubSeq(j, 1, m)
           f == FileFields(t)
           k == Len(p)
           S == Bytes \ {0}
<1>1. /\ j \in Seq(S) /\ j = Extended(p, s) /\ Len(j) = k + 1 + Len(s)
      /\ \A i \in 1 .. k : j[i] = p[i]
      /\ j[k + 1] = Sep
      /\ \A i \in 1 .. Len(s) : j[k + 1 + i] = s[i]
  BY PlainFacts
<1>2. /\ m \in 0 .. Len(j) /\ m >= 1 /\ Len(j) \in Nat
  BY <1>1
<1>3. k \in Nat /\ Len(s) \in Nat /\ p \in Seq(S) /\ s \in Seq(S)
  BY NamesAre DEF Names
<1>4. k # 0
  BY EmptySeq DEF Names
<1> HIDE DEF j, k, S
<1>5. /\ t \in Seq(S) /\ Len(t) = m /\ \A i \in 1 .. m : t[i] = j[i]
  BY <1>1, <1>2, BeginningFacts
<1>6. IsPrefix(t, j)
  BY <1>1, <1>2, BeginningIsPrefix
<1> HIDE DEF t
<1>7. CASE m <= k
  <2> DEFINE x == SubSeq(p, 1, m)
  <2>1. m \in 0 .. Len(p)
    BY <1>2, <1>3, <1>7 DEF k
  <2>2. x \in Names /\ Len(x) = m /\ \A i \in 1 .. m : x[i] = p[i]
    BY <2>1, BeginningFacts DEF Names
  <2> HIDE DEF x
  <2>3. x = t
    <3>1. x \in Seq(S)
      BY <2>2, NamesAre DEF S
    <3>2. ASSUME NEW i \in 1 .. m PROVE x[i] = t[i]
      <4>1. i \in 1 .. k
        BY ONLY <1>2, <1>3, <1>7
      <4>2. j[i] = p[i]
        BY ONLY <1>1, <4>1
      <4>3. t[i] = j[i]
        BY ONLY <1>5
      <4>4. x[i] = p[i]
        BY ONLY <2>2
      <4> QED BY ONLY <4>2, <4>3, <4>4
    <3>3. Len(x) = Len(t) /\ \A i \in 1 .. Len(x) : x[i] = t[i]
      BY ONLY <1>5, <2>2, <3>2
    <3> QED BY ONLY <1>5, <3>1, <3>3, SeqEqual
  <2>4. Explode(t) = <<t>>
    BY <2>2, <2>3, NamesAre, ExplodeOne
  <2>5. f[1] = t /\ f[2] = Zero
    <3>1. Len(<<t>>) < 2 /\ <<t>>[1] = t
      OBVIOUS
    <3>2. f = <<<<t>>[1], Zero>>
      BY <2>4, <3>1 DEF FileFields
    <3> QED BY <3>1, <3>2
  <2> HIDE DEF f
  <2>6. t \in Names /\ t # <<>>
    <3>1. t # <<>>
      BY <1>2, <1>5, EmptySeq
    <3> QED BY <2>2, <2>3, <3>1
  <2>7. m # Len(j)
    BY <1>1, <1>2, <1>3, <1>7
  <2> QED BY <1>6, <2>5, <2>6, <2>7, NamesAre DEF f, t, j
<1>8. CASE k < m
  <2> DEFINE n == m - (k + 1)
             x == SubSeq(s, 1, n)
             e == Extended(p, x)
             l == Join(<<p, x>>)
  <2>1. n \in 0 .. Len(s) /\ n \in Nat /\ m = k + 1 + n
    BY <1>1, <1>2, <1>3, <1>8
  <2> HIDE DEF n
  <2>2. x \in Names /\ Len(x) = n /\ \A i \in 1 .. n : x[i] = s[i]
    BY <2>1, BeginningFacts DEF Names
  <2>3. n = Len(s) => x = s
    BY WholeSequence DEF Names
  <2> HIDE DEF x
  <2>4. /\ l \in Seq(S) /\ l = e /\ Len(l) = k + 1 + n
        /\ \A i \in 1 .. k : l[i] = p[i]
        /\ l[k + 1] = Sep
        /\ \A i \in 1 .. n : l[k + 1 + i] = x[i]
    BY <2>2, PlainFacts DEF k, S
  <2> HIDE DEF l, e
  <2>5. l = t
    <3>1. ASSUME NEW i \in 1 .. m PROVE l[i] = t[i]
      <4>1. CASE i \in 1 .. k
        BY <1>1, <1>5, <2>4, <4>1
      <4>2. CASE i = k + 1
        BY <1>1, <1>5, <2>4, <4>2
      <4>3. CASE i > k + 1
        <5> DEFINE h == i - (k + 1)
        <5>1. h \in 1 .. n /\ i = k + 1 + h /\ h \in 1 .. Len(s)
          BY <1>3, <2>1, <4>3
        <5> HIDE DEF h
        <5>2. l[k + 1 + h] = x[h] /\ j[k + 1 + h] = s[h] /\ x[h] = s[h]
          BY <1>1, <2>2, <2>4, <5>1
        <5>3. l[i] = j[i]
          BY <5>1, <5>2
        <5> QED BY <1>5, <5>3
      <4> QED BY <1>3, <4>1, <4>2, <4>3
    <3>2. Len(l) = Len(t) /\ Len(l) = m
      BY <1>5, <2>1, <2>4
    <3> QED BY <1>5, <2>4, <3>1, <3>2, SeqEqual
  <2>6. Explode(t) = <<p, x>>
    <3>1. p \in Texts /\ p \in Fields /\ x \in Fields /\ x \in Texts
      BY <2>2, NamesAre
    <3>2. Explode(e) = Append(Explode(p), x) /\ Explode(p) = <<p>>
      BY <3>1, ExplodeMore, ExplodeOne DEF e
    <3>3. Append(<<p>>, x) = <<p, x>>
      <4>1. <<p>> \in Seq(Texts) /\ <<p, x>> \in Seq(Texts) /\ x \in Texts
        BY <3>1
      <4> DEFINE t1 == <<p>>
                 t2 == <<p, x>>
      <4>2. Len(t1) = 1 /\ Len(t2) = 2 /\ t2[1] = t1[1] /\ t2[2] = x
        OBVIOUS
      <4>3. \A i \in 1 .. 1 : i = 1
        OBVIOUS
      <4> HIDE DEF t1, t2
      <4>4. Len(t2) = Len(t1) + 1 /\ t2[Len(t1) + 1] = x /\ \A i \in 1 .. Len(t1) : t2[i] = t1[i]
        BY <4>2, <4>3
      <4>5. t1 \in Seq(Texts) /\ t2 \in Seq(Texts)
        BY <4>1 DEF t1, t2
      <4>6. Append(t1, x) = t2
        BY <4>1, <4>4, <4>5, AppendIs
      <4> QED BY <4>6 DEF t1, t2
    <3> QED BY <2>4, <2>5, <3>2, <3>3
  <2>7. f[1] = p /\ f[2] = IF x = <<>> THEN Zero ELSE x
    <3> DEFINE q == <<p, x>>
    <3>1. ~(Len(q) < 2) /\ q[1] = p /\ q[2] = x
      OBVIOUS
    <3> HIDE DEF q
    <3>2. f = <<q[1], IF q[2] = <<>> THEN Zero ELSE q[2]>>
      BY <2>6, <3>1 DEF FileFields, q
    <3> QED BY <3>1, <3>2
  <2> HIDE DEF f
  <2>8. f[1] \in Names /\ f[1] # <<>> /\ f[2] \in Names /\ f[2] # <<>>
    BY <2>2, <2>7, NamesAre
  <2>9. IsPrefix(p, j)
    <3>1. k \in 0 .. Len(j)
      BY <1>1, <1>3
    <3> DEFINE y == SubSeq(j, 1, k)
    <3>2. y \in Seq(S) /\ Len(y) = k /\ \A i \in 1 .. k : y[i] = j[i]
      BY <1>1, <3>1, BeginningFacts
    <3>3. IsPrefix(y, j)
      BY <1>1, <3>1, BeginningIsPrefix
    <3> HIDE DEF y
    <3>4. Len(y) = Len(p) /\ \A i \in 1 .. Len(y) : y[i] = p[i]
      BY <1>1, <3>2 DEF k
    <3>5. y = p
      BY <1>3, <3>2, <3>4, SeqEqual
    <3> QED BY <3>3, <3>5
  <2>10. IsPrefix(IF f[2] = Zero THEN f[1] ELSE Extended(f[1], f[2]), j)
    <3>1. CASE f[2] = Zero
      BY <2>7, <2>9, <3>1
    <3>2. CASE f[2] # Zero
      <4>1. f[2] = x
        BY <2>7, <3>2
      <4>2. Extended(f[1], f[2]) = t
        BY <2>4, <2>5, <2>7, <4>1 DEF e
      <4> QED BY <1>6, <3>2, <4>2
    <3> QED BY <3>1, <3>2
  <2>11. m = Len(j) => x = s
    <3>1. m = Len(j) => n = Len(s)
      BY <1>1, <1>3, <2>1
    <3> QED BY <2>3, <3>1
  <2> QED BY <2>7, <2>8, <2>10, <2>11 DEF f, t, j
<1> QED BY <1>2, <1>3, <1>7, <1>8

----------------------------------------------------------------------------
(* The way of a path and its sum.                                          *)

\* What the column keeps is a beginning of what was encoded; it holds at least one
\* block, and all of a text that fits.
LEMMA ColumnKeeps ==
    ASSUME NEW dat \in Seq(Bytes), NEW rnd \in Random(Len(dat)), Len(dat) # 0
    PROVE  LET txt == Stored(HwCryptEncode(dat, rnd))
           IN  /\ Delivered(txt, dat, rnd) /\ Len(txt) <= Column
               /\ Shorter(WholeLen(Len(txt)), Len(dat)) \in 1 .. Len(dat)
               /\ Len(dat) <= Fit => Shorter(WholeLen(Len(txt)), Len(dat)) = Len(dat)
<1> DEFINE n == Len(dat)
           s == n + PadLen(n)
           e == HwCryptEncode(dat, rnd)
           c == Column
           t == Stored(e)
           m == IF Len(e) < c THEN Len(e) ELSE c
           w == WholeLen(m)
<1>1. /\ n \in Nat /\ PadLen(n) \in Nat /\ n <= s /\ s \in Nat
      /\ c \in Nat \ {0} /\ Block \in Nat \ {0}
  <2>1. n \in Nat
    OBVIOUS
  <2> HIDE DEF n
  <2>2. PadLen(n) \in Nat
    BY <2>1, PadFacts
  <2> QED BY <2>1, <2>2, Widths
<1>2. PICK k \in Nat : s = Block * k
  BY <1>1, PadFacts
<1> HIDE DEF s
<1>3. e \in Seq(Letters) /\ Len(e) = EncodedLen(s) /\ Len(e) \in Nat
  <2>1. e \in Seq(Letters) /\ Len(e) = EncodedLen(s)
    BY EncodeType DEF s
  <2> HIDE DEF e
  <2> QED BY <2>1
<1> HIDE DEF c
<1>4. m \in 0 .. Len(e) /\ m <= c
  <2> HIDE DEF e
  <2> QED BY <1>1, <1>3
<1>5. t = SubSeq(e, 1, m)
  BY DEF Stored, c
<1> HIDE DEF t, m, e
<1>6. t \in Seq(Letters) /\ Len(t) = m /\ \A i \in 1 .. m : t[i] = e[i]
  BY <1>3, <1>4, <1>5, BeginningFacts
<1>7. Delivered(t, dat, rnd)
  BY <1>3, <1>4, <1>6 DEF Delivered, e
<1>8. ASSUME m = Len(e) PROVE w \in Nat /\ n <= w
  <2>1. DecodedLen(m) = s
    BY <1>1, <1>3, <1>8, LengthsAgree
  <2>2. s = Block * k + 0 /\ s \in Int
    BY <1>1, <1>2
  <2>3. s \div Block = k
    BY <1>1, <2>2, Quotient
  <2>4. w = s
    BY <1>2, <2>1, <2>3 DEF WholeLen
  <2> QED BY <1>1, <2>4
<1>9. ASSUME m = c PROVE w \in Nat /\ w >= Block /\ Fit = w
  <2> DEFINE d == (3 * c) \div 4
             q == d \div Block
             r == d % Block
             f == Block * q
  <2>1. DecodedLen(m) = d /\ d \in Nat
    BY <1>1, <1>9, DecodedPlaces
  <2>2. Block <= d
    BY CodecAssumption DEF c
  <2> HIDE DEF d
  <2>3. q \in Nat /\ r \in 0 .. Block - 1 /\ d = Block * q + r
    <3>1. d \in Int
      BY <2>1
    <3> QED BY ONLY <1>1, <2>1, <3>1, Division
  <2>4. w = f /\ Fit = f
    BY <2>1 DEF WholeLen, Fit, d, c
  <2> HIDE DEF q, r
  <2>5. q # 0
    BY <1>1, <2>2, <2>3
  <2>6. f \in Nat /\ f >= Block
    <3>1. Block * 1 <= Block * q /\ Block * q \in Nat
      BY <1>1, <2>3, <2>5, Multiples
    <3>2. Block * 1 = Block
      BY <1>1
    <3> QED BY <3>1, <3>2
  <2> HIDE DEF f
  <2> QED BY <1>1, <2>4, <2>6
<1>10. m = Len(e) \/ m = c
  BY DEF m
<1>11. w \in Nat /\ 1 <= w /\ (n <= Fit => n <= w)
  <2>1. n \in Nat /\ n # 0
    BY <1>1
  <2>2. (w \in Nat /\ n <= w) \/ (w \in Nat /\ w >= Block /\ Fit = w)
    BY <1>8, <1>9, <1>10
  <2> HIDE DEF w, n
  <2> QED BY <1>1, <2>1, <2>2
<1>12. Shorter(w, n) \in 1 .. n /\ (n <= Fit => Shorter(w, n) = n)
  <2>1. n \in Nat /\ n # 0
    BY <1>1
  <2> HIDE DEF w, n
  <2>2. CASE w < n
    <3>1. Shorter(w, n) = w /\ ~(n <= w)
      BY <1>11, <2>1, <2>2 DEF Shorter
    <3> QED BY <1>11, <2>1, <2>2, <3>1
  <2>3. CASE ~(w < n)
    <3>1. Shorter(w, n) = n
      BY <2>3 DEF Shorter
    <3> QED BY <2>1, <3>1
  <2> QED BY <2>2, <2>3
<1>13. Len(t) <= Column /\ w = WholeLen(Len(t))
  BY <1>4, <1>6 DEF c
<1> HIDE DEF w
<1>14. LET txt == t
       IN  /\ Delivered(txt, dat, rnd) /\ Len(txt) <= Column
           /\ Shorter(WholeLen(Len(txt)), Len(dat)) \in 1 .. Len(dat)
           /\ Len(dat) <= Fit => Shorter(WholeLen(Len(txt)), Len(dat)) = Len(dat)
  BY <1>7, <1>12, <1>13
<1> QED BY <1>14 DEF t, e

\* How many bytes of Plain the column holds, the fields in them, and the header.
Arrived   == Shorter(WholeLen(Len(fpath)), Len(Plain))
Found     == FileFields(SubSeq(Plain, 1, Arrived))
TheHeader == <<FileLen, Found[2], FileID, Found[1], TaskID>>

IInv ==
    /\ TypeOK /\ at # "refused"
    /\ at # "asked" => /\ \E rnd \in Random(Len(Plain)) : Delivered(fpath, Plain, rnd)
                       /\ Arrived \in 1 .. Len(Plain)
                       /\ Len(Plain) <= Fit => Arrived = Len(Plain)
    /\ at = "sent" =>
          \E rnd \in Random(Len(Join(TheHeader))) : header = HwCryptEncode(Join(TheHeader), rnd)
    /\ at = "taken" => got = TheHeader

\* What the assumption says of paths and sums, and their text.
LEMMA PlainType ==
    ASSUME path \in Paths, sum \in SumTexts
    PROVE  /\ path \in Names /\ path # <<>> /\ sum \in Names
           /\ Plain \in Seq(Bytes \ {0}) /\ Plain \in Seq(Bytes) /\ Len(Plain) \in Nat \ {0}
<1>1. path \in Names /\ path # <<>> /\ sum \in Names
  BY CodecAssumption DEF Names
<1> DEFINE j == Plain
<1>2. j \in Seq(Bytes \ {0}) /\ Len(j) = Len(path) + 1 + Len(sum)
  BY <1>1, PlainFacts DEF Plain
<1>3. Len(path) \in Nat /\ Len(sum) \in Nat
  BY <1>1 DEF Names
<1> HIDE DEF j
<1>4. j \in Seq(Bytes) /\ Len(j) \in Nat \ {0}
  BY <1>2, <1>3
<1> QED BY <1>1, <1>2, <1>4 DEF j

\* The fields found, and the header made of them.
LEMMA FoundFacts ==
    ASSUME path \in Paths, sum \in SumTexts, Arrived \in 1 .. Len(Plain)
    PROVE  /\ Found[1] \in Names /\ Found[1] # <<>> /\ Found[2] \in Names /\ Found[2] # <<>>
           /\ IsPrefix(IF Found[2] = Zero THEN Found[1] ELSE Extended(Found[1], Found[2]), Plain)
           /\ Arrived = Len(Plain) =>
                 Found[1] = path /\ Found[2] = (IF sum = <<>> THEN Zero ELSE sum)
           /\ Join(TheHeader) \in Seq(Bytes \ {0}) /\ Split(Join(TheHeader)) = TheHeader
           /\ TheHeader \in Seq(Names) /\ Len(TheHeader) = 5
<1> DEFINE m == Arrived
           f == Found
           h == TheHeader
<1>1. path \in Names /\ path # <<>> /\ sum \in Names
  BY PlainType
<1>2. Plain = Join(<<path, sum>>) /\ f = FileFields(SubSeq(Plain, 1, m))
  BY DEF Plain, Found
<1> HIDE DEF m, f
<1>3. m \in 1 .. Len(Join(<<path, sum>>))
  BY <1>2 DEF m
<1>4. /\ f[1] \in Names /\ f[1] # <<>> /\ f[2] \in Names /\ f[2] # <<>>
      /\ IsPrefix(IF f[2] = Zero THEN f[1] ELSE Extended(f[1], f[2]), Plain)
      /\ m = Len(Plain) => f[1] = path /\ f[2] = (IF sum = <<>> THEN Zero ELSE sum)
  BY <1>1, <1>2, <1>3, CutFields
<1>5. /\ FileLen \in Names /\ FileID \in Names /\ TaskID \in Names
      /\ FileLen # <<>> /\ FileID # <<>> /\ TaskID # <<>>
  BY CodecAssumption DEF Names
<1>6. h = <<FileLen, f[2], FileID, f[1], TaskID>>
  BY DEF TheHeader, f
<1>7. Join(h) \in Seq(Bytes \ {0}) /\ Split(Join(h)) = h
  BY <1>4, <1>5, <1>6, HeaderFields
<1>8. h \in Seq(Names) /\ Len(h) = 5
  BY <1>4, <1>5, <1>6
<1> QED BY <1>4, <1>7, <1>8 DEF m, f

\* The initial states.
LEMMA InitInvariant == Init => IInv
<1> SUFFICES ASSUME Init PROVE IInv
  OBVIOUS
<1>1. fpath \in Seq(0 .. 63) /\ header \in Seq(0 .. 63) /\ got \in Seq(Seq(Bytes \ {0, Sep}))
      /\ Len(fpath) <= Column
  BY Widths DEF Init
<1> QED BY <1>1 DEF Init, IInv, TypeOK

\* The column is written.
LEMMA CreateKeeps == IInv /\ HwCreateTask => IInv'
<1> SUFFICES ASSUME IInv, HwCreateTask PROVE IInv'
  OBVIOUS
<1>1. path \in Paths /\ sum \in SumTexts
  BY DEF IInv, TypeOK
<1> DEFINE p == Plain
<1>2. p \in Seq(Bytes) /\ Len(p) # 0
  BY <1>1, PlainType
<1>3. PICK rnd \in Random(Len(p)) : fpath' = Stored(HwCryptEncode(p, rnd))
  BY DEF HwCreateTask
<1>4. p' = p
  BY DEF HwCreateTask, Plain
<1> HIDE DEF p
<1>5. /\ Delivered(fpath', p, rnd) /\ Len(fpath') <= Column
      /\ Shorter(WholeLen(Len(fpath')), Len(p)) \in 1 .. Len(p)
      /\ Len(p) <= Fit => Shorter(WholeLen(Len(fpath')), Len(p)) = Len(p)
  BY <1>2, <1>3, ColumnKeeps
<1>6. /\ (\E r \in Random(Len(Plain)) : Delivered(fpath, Plain, r))'
      /\ (Arrived \in 1 .. Len(Plain) /\ (Len(Plain) <= Fit => Arrived = Len(Plain)))'
  BY <1>4, <1>5 DEF Arrived, p
<1>7. TypeOK'
  BY <1>5 DEF IInv, TypeOK, HwCreateTask, Delivered, Letters
<1>8. at' = "stored"
  BY DEF HwCreateTask
<1> QED BY <1>6, <1>7, <1>8 DEF IInv

\* The header is made from what the column holds.
LEMMA ResFileKeeps == IInv /\ ResFile => IInv'
<1> SUFFICES ASSUME IInv, ResFile PROVE IInv'
  OBVIOUS
<1>1. path \in Paths /\ sum \in SumTexts /\ at = "stored"
  BY DEF IInv, TypeOK, ResFile
<1>2. /\ Arrived \in 1 .. Len(Plain) /\ (Len(Plain) <= Fit => Arrived = Len(Plain))
      /\ \E rnd \in Random(Len(Plain)) : Delivered(fpath, Plain, rnd)
  BY <1>1 DEF IInv
<1> DEFINE p == Plain
           j == Join(TheHeader)
<1>3. PICK rnd \in Random(Len(p)) : Delivered(fpath, p, rnd)
  BY <1>2
<1>4. p \in Seq(Bytes \ {0})
  BY <1>1, PlainType
<1> HIDE DEF p
<1>5. Text(HwCryptDecode(fpath)) = SubSeq(p, 1, Shorter(WholeLen(Len(fpath)), Len(p)))
  BY <1>3, <1>4, TextArrives
<1>6. FileFields(Text(HwCryptDecode(fpath))) = Found
  BY <1>5 DEF Found, Arrived, p
<1>7. \E r \in Random(Len(j)) : header' = HwCryptEncode(j, r)
  BY <1>6 DEF ResFile, TheHeader
<1>8. j \in Seq(Bytes \ {0})
  BY <1>1, <1>2, FoundFacts
<1>9. UNCHANGED <<path, sum, fpath, got>> /\ at' = "sent"
  BY DEF ResFile
<1>10. p' = p /\ Arrived' = Arrived
  BY <1>9 DEF p, Plain, Arrived
<1>11. Found' = Found
  BY <1>10 DEF Found, p
<1>12. j' = j
  BY <1>11 DEF TheHeader
<1> HIDE DEF j
<1>13. header' \in Seq(Letters)
  <2>1. PICK r \in Random(Len(j)) : header' = HwCryptEncode(j, r)
    BY <1>7
  <2>2. j \in Seq(Bytes)
    BY <1>8
  <2> QED BY <2>1, <2>2, EncodeType
<1>14. TypeOK'
  BY <1>9, <1>13 DEF IInv, TypeOK, Letters
<1>15. (\E r \in Random(Len(Join(TheHeader))) : header = HwCryptEncode(Join(TheHeader), r))'
  BY <1>7, <1>12 DEF j
<1>16. (\E r \in Random(Len(Plain)) : Delivered(fpath, Plain, r))'
       /\ (Arrived \in 1 .. Len(Plain) /\ (Len(Plain) <= Fit => Arrived = Len(Plain)))'
  BY <1>2, <1>9, <1>10 DEF p
<1> QED BY <1>9, <1>14, <1>15, <1>16 DEF IInv

\* The header is taken.
LEMMA TakeKeeps == IInv /\ TakeHeader => IInv'
<1> SUFFICES ASSUME IInv, TakeHeader PROVE IInv'
  OBVIOUS
<1>1. path \in Paths /\ sum \in SumTexts /\ at = "sent"
  BY DEF IInv, TypeOK, TakeHeader
<1>2. /\ Arrived \in 1 .. Len(Plain) /\ (Len(Plain) <= Fit => Arrived = Len(Plain))
      /\ \E rnd \in Random(Len(Plain)) : Delivered(fpath, Plain, rnd)
  BY <1>1 DEF IInv
<1> DEFINE h == TheHeader
           j == Join(h)
<1>3. PICK rnd \in Random(Len(j)) : header = HwCryptEncode(j, rnd)
  BY <1>1 DEF IInv
<1>4. j \in Seq(Bytes \ {0}) /\ Split(j) = h /\ h \in Seq(Names) /\ Len(h) = 5
  BY <1>1, <1>2, FoundFacts
<1>5. UNCHANGED <<path, sum, fpath, header>>
  BY DEF TakeHeader
<1>6. Plain' = Plain /\ Arrived' = Arrived
  BY <1>5 DEF Plain, Arrived
<1>7. h' = h
  BY <1>6 DEF TheHeader, Found
<1> HIDE DEF j, h
<1>8. j \in Seq(Bytes) /\ Len(j) \in Nat
  BY <1>4
<1> DEFINE e == HwCryptEncode(j, rnd)
           w == WholeLen(Len(e))
<1>9. e \in Seq(Letters) /\ Len(e) = EncodedLen(Len(j) + PadLen(Len(j)))
  BY <1>8, EncodeType
<1>10. Delivered(e, j, rnd)
  BY <1>9 DEF Delivered
<1> HIDE DEF e
<1>11. Text(HwCryptDecode(e)) = SubSeq(j, 1, Shorter(w, Len(j)))
  BY <1>4, <1>10, TextArrives
<1>12. Shorter(w, Len(j)) = Len(j)
  <2> DEFINE s == Len(j) + PadLen(Len(j))
  <2>1. s \in Nat /\ Len(j) <= s
    <3>1. PadLen(Len(j)) \in Nat
      BY <1>8, PadFacts
    <3> QED BY <1>8, <3>1
  <2>2. PICK k \in Nat : s = Block * k
    BY <1>8, PadFacts
  <2> HIDE DEF s
  <2>3. DecodedLen(Len(e)) = s
    BY <1>9, <2>1, LengthsAgree DEF s
  <2>4. s \div Block = k
    <3>1. s \in Int /\ k \in Int /\ s = Block * k + 0 /\ Block \in Nat \ {0}
      BY <2>1, <2>2, Widths
    <3> QED BY <3>1, Quotient
  <2>5. w = s
    BY <2>2, <2>3, <2>4 DEF WholeLen
  <2> HIDE DEF w
  <2> QED BY <1>8, <2>1, <2>5 DEF Shorter
<1>13. Text(HwCryptDecode(header)) = j
  <2>1. SubSeq(j, 1, Len(j)) = j
    BY <1>8, WholeSequence
  <2>2. Text(HwCryptDecode(e)) = j
    BY ONLY <1>11, <1>12, <2>1
  <2>3. header = e
    BY <1>3 DEF e
  <2> QED BY ONLY <2>2, <2>3
<1>14. at' = "taken" /\ got' = h
  <2> DEFINE fs == Split(Text(HwCryptDecode(header)))
  <2>1. /\ at' = IF Len(fs) > 4 THEN "taken" ELSE "refused"
        /\ got' = IF Len(fs) > 4 THEN fs ELSE <<>>
    BY DEF TakeHeader
  <2>2. fs = h
    BY <1>4, <1>13
  <2> HIDE DEF fs
  <2>3. Len(fs) > 4
    <3>1. Len(fs) = 5
      BY ONLY <1>4, <2>2
    <3> QED BY ONLY <3>1
  <2> QED BY ONLY <2>1, <2>2, <2>3
<1>15. TypeOK'
  BY <1>4, <1>5, <1>14 DEF IInv, TypeOK, Names
<1>16. (\E r \in Random(Len(Plain)) : Delivered(fpath, Plain, r))'
       /\ (Arrived \in 1 .. Len(Plain) /\ (Len(Plain) <= Fit => Arrived = Len(Plain)))'
  BY <1>2, <1>5, <1>6
<1>17. (got = TheHeader)'
  BY <1>7, <1>14 DEF h
<1> QED BY <1>14, <1>15, <1>16, <1>17 DEF IInv

\* The invariant: what the column holds is a beginning of the encoded path and sum, and
\* every text after it is made from the bytes that arrived.
THEOREM Invariance == Spec => []IInv
<1>1. IInv /\ [Next]_vars => IInv'
  <2> SUFFICES ASSUME IInv, [Next]_vars PROVE IInv'
    OBVIOUS
  <2>1. CASE HwCreateTask
    BY <2>1, CreateKeeps
  <2>2. CASE ResFile
    BY <2>2, ResFileKeeps
  <2>3. CASE TakeHeader
    BY <2>3, TakeKeeps
  <2>4. CASE UNCHANGED vars
    <3>1. UNCHANGED <<at, path, sum, fpath, header, got>>
      BY <2>4 DEF vars
    <3>2. TypeOK' /\ Plain' = Plain /\ Arrived' = Arrived
      BY <3>1 DEF IInv, TypeOK, Plain, Arrived
    <3>3. TheHeader' = TheHeader
      BY <3>2 DEF TheHeader, Found
    <3> QED BY <3>1, <3>2, <3>3 DEF IInv
  <2> QED BY <2>1, <2>2, <2>3, <2>4 DEF Next
<1> QED BY <1>1, InitInvariant, PTL DEF Spec

\* Column, header and fields are of their types.
THEOREM TypeCorrect == Spec => []TypeOK
<1>1. IInv => TypeOK
  BY DEF IInv
<1> QED BY <1>1, Invariance, PTL

\* What HwCreateTask stores, a cut text too, ResFile always makes a header of that hcon
\* takes, with the five fields it was made from.
THEOREM HeadersAreTaken == Spec => []HeaderTaken
<1>1. IInv => HeaderTaken
  <2> SUFFICES ASSUME IInv PROVE HeaderTaken
    OBVIOUS
  <2>1. ASSUME at = "taken" PROVE Len(got) = 5
    BY <2>1, FoundFacts DEF IInv, TypeOK
  <2> QED BY <2>1 DEF HeaderTaken, IInv
<1> QED BY <1>1, Invariance, PTL

\* A path and sum that fit into the column arrive at the agent as they are.
THEOREM PathsArrive == Spec => []PathArrives
<1>1. IInv => PathArrives
  <2> SUFFICES ASSUME IInv, at = "taken", Len(Plain) <= Fit
               PROVE  got = <<FileLen, IF sum = <<>> THEN Zero ELSE sum, FileID, path, TaskID>>
    BY DEF PathArrives
  <2>1. Found[1] = path /\ Found[2] = (IF sum = <<>> THEN Zero ELSE sum)
    BY FoundFacts DEF IInv, TypeOK
  <2> QED BY <2>1 DEF IInv, TheHeader
<1> QED BY <1>1, Invariance, PTL

\* Of any path and sum a beginning arrives, and nothing else.
THEOREM BeginningsArrive == Spec => []CutArrives
<1>1. IInv => CutArrives
  <2> SUFFICES ASSUME IInv, at = "taken"
               PROVE  IsPrefix(IF got[2] = Zero THEN got[4] ELSE got[4] \o <<Sep>> \o got[2], Plain)
    BY DEF CutArrives
  <2>1. IsPrefix(IF Found[2] = Zero THEN Found[1] ELSE Extended(Found[1], Found[2]), Plain)
    BY FoundFacts DEF IInv, TypeOK
  <2>2. got[2] = Found[2] /\ got[4] = Found[1]
    <3> DEFINE f1 == Found[1]
               f2 == Found[2]
    <3>1. got = <<FileLen, f2, FileID, f1, TaskID>>
      BY DEF IInv, TheHeader
    <3> HIDE DEF f1, f2
    <3>2. got[2] = f2 /\ got[4] = f1
      BY <3>1
    <3> QED BY <3>2 DEF f1, f2
  <2> QED BY <2>1, <2>2 DEF Extended
<1> QED BY <1>1, Invariance, PTL
=============================================================================
