--------------------------- MODULE IntakePromise ---------------------------
(***************************************************************************)
(* What an agent promises about the commands sent to it.  A command is     *)
(* received at most once, and on behalf of a received command at most one  *)
(* task is fetched from the center: its own if the commands come one at a  *)
(* time, that of some received command if they overlap.  Nothing is        *)
(* promised about when, and a command may be lost.                         *)
(***************************************************************************)
CONSTANT Conns           \* connections from the center, one command each

VARIABLES calm,          \* the commands come one at a time
          read,          \* the commands received
          fetch          \* fetch[c]: the tasks fetched on behalf of command c

vars == <<calm, read, fetch>>

Init == /\ calm \in BOOLEAN
        /\ read = {}
        /\ fetch = [c \in Conns |-> <<>>]

Receive(c) == /\ c \notin read
              /\ read' = read \cup {c}
              /\ UNCHANGED <<calm, fetch>>

Fetch(c) == /\ c \in read
            /\ fetch[c] = <<>>
            /\ \E k \in read : /\ calm => k = c
                               /\ fetch' = [fetch EXCEPT ![c] = <<k>>]
            /\ UNCHANGED <<calm, read>>

Next == \E c \in Conns : Receive(c) \/ Fetch(c)

Spec == Init /\ [][Next]_vars
============================================================================
