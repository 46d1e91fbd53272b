------------------------------- MODULE Codec -------------------------------
(***************************************************************************)
(* The encoding of everything center and agent tell each other (HwCrypt:   *)
(* padding, TEA, a base64 with letters of its own), and the way a path and *)
(* a checksum take through it: HwCheckFile and HwCreateTask encode them    *)
(* into task_tab.fpath, ResFile decodes the column and encodes the header  *)
(* VeFile, hcon decodes and splits that.                                   *)
(*                                                                         *)
(* A byte string is a sequence of 0 .. 255; a base64 text a sequence of    *)
(* 0 .. 63, for the letters of BaseStr are all different.  Words have      *)
(* WordBytes bytes instead of 4, and TEA Rounds rounds instead of 32.      *)
(***************************************************************************)
EXTENDS Integers, SequencesExt

CONSTANTS
    WordBytes,    \* bytes of a word: 4
    Rounds,       \* rounds of TEA: 32
    TeaKey,       \* HwKey, four words
    Delta,        \* the key schedule constant
    FinalSum,     \* 0xC6EF3720, where decrypt starts
    XorByte,      \* exclusive or of two bytes
    Column,       \* length of task_tab.fpath: 256
    Paths,        \* paths a file may have, without the bytes 0 and 1
    SumTexts,     \* texts of file_tab.sum, the empty one for null
    FileLen, FileID, TaskID,   \* the other fields of the header, as digits
    Fill          \* letters hrand may draw

\* 256 to the power of i.
Power[i \in 0 .. WordBytes] == IF i = 0 THEN 1 ELSE 256 * Power[i - 1]
WordMod == Power[WordBytes]
Block   == 2 * WordBytes
Sep     == 1            \* what explode and strtok separate at
Zero    == <<48>>       \* the text '0'
Bytes   == 0 .. 255

ASSUME CodecAssumption ==
    /\ {WordBytes, Rounds, Column} \subseteq Nat \ {0}
    /\ XorByte \in [Bytes \X Bytes -> Bytes]
    /\ TeaKey \in [1 .. 4 -> 0 .. WordMod - 1] /\ Delta \in 0 .. WordMod - 1
    /\ FinalSum = (Rounds * Delta) % WordMod
    /\ Fill # {} /\ Fill \subseteq Bytes \ {0, Sep}
    /\ Paths \cup SumTexts \cup {FileLen, FileID, TaskID} \subseteq Seq(Bytes \ {0, Sep})
    /\ <<>> \notin Paths \cup {FileLen, FileID, TaskID}
    /\ Block <= (3 * Column) \div 4

----------------------------------------------------------------------------
(* TEA.                                                                    *)

\* The word that starts at byte i, most significant byte first, and its bytes.
WordAt(dat, i) == FoldLeft(LAMBDA w, b : w * 256 + b, 0, SubSeq(dat, i, i + WordBytes - 1))
BytesOf(w)     == [i \in 1 .. WordBytes |-> (w \div Power[WordBytes - i]) % 256]

\* Byte by byte.
XorOf(a, b) == WordAt([i \in 1 .. WordBytes |-> XorByte[<<BytesOf(a)[i], BytesOf(b)[i]>>]], 1)

Add(a, b) == (a + b) % WordMod
Sub(a, b) == (a - b) % WordMod
Mix(v, sum, a, b) == XorOf(XorOf(Add((v * 16) % WordMod, a), Add(v, sum)), Add(v \div 32, b))

\* One cycle on [v0, v1, sum], forwards and back.
Cycle(s) ==
    LET sum == Add(s.sum, Delta)
        v0  == Add(s.v0, Mix(s.v1, sum, TeaKey[1], TeaKey[2]))
    IN  [v0 |-> v0, v1 |-> Add(s.v1, Mix(v0, sum, TeaKey[3], TeaKey[4])), sum |-> sum]

CycleBack(s) ==
    LET v1 == Sub(s.v1, Mix(s.v0, s.sum, TeaKey[3], TeaKey[4]))
    IN  [v0 |-> Sub(s.v0, Mix(v1, s.sum, TeaKey[1], TeaKey[2])), v1 |-> v1,
         sum |-> Sub(s.sum, Delta)]

encrypt(v0, v1) ==
    LET after[i \in 0 .. Rounds] == IF i = 0 THEN [v0 |-> v0, v1 |-> v1, sum |-> 0]
                                    ELSE Cycle(after[i - 1])
    IN  after[Rounds]

decrypt(v0, v1) ==
    LET after[i \in 0 .. Rounds] == IF i = 0 THEN [v0 |-> v0, v1 |-> v1, sum |-> FinalSum]
                                    ELSE CycleBack(after[i - 1])
    IN  after[Rounds]

\* Block by block; the length is a multiple of Block.  act is 0 to encrypt.
Hcrypt(act, dat) ==
    FlattenSeq([i \in 1 .. Len(dat) \div Block |->
        LET b  == (i - 1) * Block + 1
            v0 == WordAt(dat, b)
            v1 == WordAt(dat, b + WordBytes)
            s  == IF act > 0 THEN decrypt(v0, v1) ELSE encrypt(v0, v1)
        IN  BytesOf(s.v0) \o BytesOf(s.v1)])

----------------------------------------------------------------------------
(* Base64.  The last group may be of one or two bytes, then of two or      *)
(* three letters; there is no padding letter.                              *)

Byte(x)       == x % 256       \* what fits into an unsigned char
ByteAt(dat, i) == IF i <= Len(dat) THEN dat[i] ELSE 0
EncodedLen(n) == 4 * (n \div 3) + (CASE n % 3 = 0 -> 0 [] n % 3 = 1 -> 2 [] n % 3 = 2 -> 3)
DecodedLen(n) == 3 * (n \div 4) + (CASE n % 4 \in {0, 1} -> 0 [] n % 4 = 2 -> 1 [] n % 4 = 3 -> 2)

BaseEncode(dat) ==
    [w \in 1 .. EncodedLen(Len(dat)) |->
        LET c == 3 * ((w - 1) \div 4) + 1
        IN  CASE (w - 1) % 4 = 0 -> dat[c] \div 4
              [] (w - 1) % 4 = 1 -> (Byte(dat[c] * 64) + ByteAt(dat, c + 1) \div 4) \div 4
              [] (w - 1) % 4 = 2 -> (Byte(dat[c + 1] * 16) + ByteAt(dat, c + 2) \div 16) \div 4
              [] (w - 1) % 4 = 3 -> Byte(dat[c + 2] * 4) \div 4]

\* The bytes are written over the letters they are made of, in one buffer: byte c
\* after the first c - 1.
BaseDecode(txt) ==
    LET start == [i \in 1 .. Len(txt) |-> Byte(txt[i] * 4)]
        byte(buf, c) ==
            LET i == 4 * ((c - 1) \div 3) + 1
            IN  CASE (c - 1) % 3 = 0 -> buf[i] + buf[i + 1] \div 64
                  [] (c - 1) % 3 = 1 -> Byte(buf[i + 1] * 4) + buf[i + 2] \div 16
                  [] (c - 1) % 3 = 2 -> Byte(buf[i + 2] * 16) + buf[i + 3] \div 4
        n   == DecodedLen(Len(txt))
        end == FoldLeft(LAMBDA buf, c : [buf EXCEPT ![c] = byte(buf, c)],
                        start, [c \in 1 .. n |-> c])
    IN  SubSeq(end, 1, n)

----------------------------------------------------------------------------
(* HwCrypt.                                                                *)

PadLen(n) == (Block - (n % Block)) % Block

\* Variant with a bug: random bytes only.
PaddedNoNul(dat, rnd) == dat \o rnd

\* The text is filled up to whole blocks: a NUL and random bytes.
Padded(dat, rnd) == IF rnd = <<>> THEN dat ELSE [dat \o rnd EXCEPT ![Len(dat) + 1] = 0]

\* hrand: what may be drawn for a text of n bytes.  (It draws no letter twice, on
\* which nothing here depends.)
Random(n) == [1 .. PadLen(n) -> Fill]

HwCryptEncode(dat, rnd) == BaseEncode(Hcrypt(0, Padded(dat, rnd)))

\* Variant with a bug: a block that is not whole is filled up.
WholeFilled(dat) == dat \o [i \in 1 .. PadLen(Len(dat)) |-> 0]

\* What is not a whole block is left out.
Whole(dat) == SubSeq(dat, 1, Len(dat) - (Len(dat) % Block))

HwCryptDecode(txt) == Hcrypt(1, Whole(BaseDecode(txt)))

\* What strlen, "%s" and strtok see of a buffer.
CString(dat) == SelectInSeq(dat, LAMBDA b : b = 0)
Text(dat)    == IF CString(dat) = 0 THEN dat ELSE SubSeq(dat, 1, CString(dat) - 1)

----------------------------------------------------------------------------
(* Fields.                                                                 *)

Join(fields) == FoldLeft(LAMBDA s, f : s \o <<Sep>> \o f, fields[1], Tail(fields))

\* PHP: a field between any two separators.
Explode(s) == FoldLeft(LAMBDA fs, b : IF b = Sep THEN Append(fs, <<>>)
                                      ELSE [fs EXCEPT ![Len(fs)] = Append(@, b)],
                       <<<<>>>>, s)

\* strtok: empty fields do not count.
Split(s) == FoldLeft(LAMBDA fs, f : IF f = <<>> THEN fs ELSE Append(fs, f), <<>>, Explode(s))

----------------------------------------------------------------------------
(* The way of one path and sum.                                            *)

VARIABLES
    at,            \* how far it is
    path, sum,     \* file_tab.file and file_tab.sum
    fpath,         \* the column
    header,        \* the value of VeFile
    got            \* the fields hcon takes

vars == <<at, path, sum, fpath, header, got>>

TypeOK ==
    /\ at \in {"asked", "stored", "sent", "taken", "refused"}
    /\ path \in Paths /\ sum \in SumTexts
    /\ fpath \in Seq(0 .. 63) /\ Len(fpath) <= Column
    /\ header \in Seq(0 .. 63)
    /\ got \in Seq(Seq(Bytes \ {0, Sep}))

Init == /\ at = "asked"
        /\ path \in Paths /\ sum \in SumTexts
        /\ fpath = <<>> /\ header = <<>> /\ got = <<>>

\* Variant with a bug: the column takes any length.
StoredWhole(txt) == txt

\* MySQL keeps what fits into the column.
Stored(txt) == SubSeq(txt, 1, IF Len(txt) < Column THEN Len(txt) ELSE Column)

Plain == Join(<<path, sum>>)

\* HwCheckFile, HwCrypt_Encode and the insert of HwCreateTask.
HwCreateTask ==
    /\ at = "asked" /\ at' = "stored"
    /\ \E rnd \in Random(Len(Plain)) : fpath' = Stored(HwCryptEncode(Plain, rnd))
    /\ UNCHANGED <<path, sum, header, got>>

\* Variant with a bug: an empty sum is sent as it is.
FileFieldsRaw(s) == LET fs == Explode(s) IN <<fs[1], IF Len(fs) < 2 THEN <<>> ELSE fs[2]>>

\* ResFile: a sum that is empty, or not there, is '0'.
FileFields(s) == LET fs == Explode(s)
                 IN  <<fs[1], IF Len(fs) < 2 \/ fs[2] = <<>> THEN Zero ELSE fs[2]>>

\* (Sets of one element make TLC compute a value once.)
ResFile ==
    /\ at = "stored" /\ at' = "sent"
    /\ \E dat \in {HwCryptDecode(fpath)} :
       \E f \in {FileFields(Text(dat))} :
       \E plain \in {Join(<<FileLen, f[2], FileID, f[1], TaskID>>)} :
       \E rnd \in Random(Len(plain)) :
          header' = HwCryptEncode(plain, rnd)
    /\ UNCHANGED <<path, sum, fpath, got>>

\* hcon: more than four fields, or none is taken.
TakeHeader ==
    /\ at = "sent"
    /\ \E dat \in {HwCryptDecode(header)} :
       \E fs \in {Split(Text(dat))} :
          /\ at'  = IF Len(fs) > 4 THEN "taken" ELSE "refused"
          /\ got' = IF Len(fs) > 4 THEN fs ELSE <<>>
    /\ UNCHANGED <<path, sum, fpath, header>>

Next == HwCreateTask \/ ResFile \/ TakeHeader

Spec == Init /\ [][Next]_vars

----------------------------------------------------------------------------
\* The bytes of a text that fit into the column.
Fit == Block * (((3 * Column) \div 4) \div Block)

\* A path and its sum that fit into the column arrive as they are, a null sum as '0',
\* through both encodings, whatever hrand drew.
PathArrives ==
    at = "taken" /\ Len(Plain) <= Fit =>
        got = <<FileLen, IF sum = <<>> THEN Zero ELSE sum, FileID, path, TaskID>>

\* Of any others a beginning arrives, never other bytes: the path, or the path and
\* the sum, cut at Fit.  (The file that path names is then the one written.)
CutArrives ==
    at = "taken" =>
        IsPrefix(IF got[2] = Zero THEN got[4] ELSE got[4] \o <<Sep>> \o got[2], Plain)

\* The header for a task that was found is taken, with five fields: none of them is
\* empty, so strtok finds those that explode would.
HeaderTaken == at # "refused" /\ (at = "taken" => Len(got) = 5)
============================================================================
