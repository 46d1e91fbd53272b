------------------------------ MODULE MCCodec ------------------------------
(***************************************************************************)
(* Codec for TLC: words of two bytes, eight rounds, a short column.        *)
(***************************************************************************)
EXTENDS Codec, Bitwise

MCXor       == [p \in Bytes \X Bytes |-> p[1] ^^ p[2]]
MCKey       == <<3074, 2575, 263, 1552>>     \* HwKey, its first bytes
MCDelta     == 40503                         \* 0x9e37
MCFinalSum  == 61880                         \* 8 * 0x9e37, cut to a word

\* All paths of up to four bytes from a few, and one of each length to 20.
Few         == {2, 47, 255}
MCPaths     == UNION {[1 .. n -> Few] : n \in 1 .. 4}
               \cup {[i \in 1 .. n |-> ((i * 37) % 254) + 2] : n \in 5 .. 20}
MCSums      == {<<>>, <<57, 102>>, <<97, 98, 99, 100>>}
MCFileLen   == <<49, 50>>
MCFileID    == <<55>>
MCTaskID    == <<56>>
============================================================================
