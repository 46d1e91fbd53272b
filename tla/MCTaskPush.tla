----------------------------- MODULE MCTaskPush -----------------------------
(***************************************************************************)
(* TaskPush for TLC: the sets of events its runs let happen.               *)
(***************************************************************************)
EXTENDS TaskPush, TLC

NoFaults   == {"edit"}
Refusals   == {"edit", "node", "push", "frame", "fetch", "open"}
AllFaults  == AllEvents
Losses     == {"edit", "drop"}
MildEvents == {"local", "cut"}
Cuts       == {"cut"}
Writes     == {"write"}

KeySymmetry == Permutations(Keys)
Symmetry    == KeySymmetry \cup Permutations(Texts)
============================================================================
