---------------------------- MODULE PushPromise ----------------------------
(***************************************************************************)
(* What one push task promises the operator who started it, whatever the   *)
(* center and the node agents do underneath.  A task is created waiting.   *)
(* The node's file may be overwritten once on its behalf.  The verdict     *)
(* "success" is given only if the file was overwritten, "error" only if it *)
(* was not, the verdict never changes, and only a task that succeeded is   *)
(* cleared away.  Nothing is promised about when: a task may wait forever. *)
(***************************************************************************)

CONSTANT Keys            \* the task keys (task_tab.tkey)

VARIABLES st,            \* st[k]: the state of the task row
          hit            \* hit[k]: the node's file was overwritten for k

vars == <<st, hit>>

States == {"unborn", "wait", "success", "error", "deleted"}

TypeOK == /\ st  \in [Keys -> States]
          /\ hit \in [Keys -> BOOLEAN]

Init == /\ st  = [k \in Keys |-> "unborn"]
        /\ hit = [k \in Keys |-> FALSE]

Become(k, from, to) == /\ st[k] = from
                       /\ st' = [st EXCEPT ![k] = to]

Create(k) == Become(k, "unborn", "wait") /\ UNCHANGED hit

Overwrite(k) == /\ st[k] = "wait"
                /\ ~hit[k]
                /\ hit' = [hit EXCEPT ![k] = TRUE]
                /\ UNCHANGED st

Succeed(k) == hit[k]  /\ Become(k, "wait", "success") /\ UNCHANGED hit

Refuse(k)  == ~hit[k] /\ Become(k, "wait", "error")   /\ UNCHANGED hit

Clear(k)   == Become(k, "success", "deleted") /\ UNCHANGED hit

Next == \E k \in Keys : \/ Create(k)
                        \/ Overwrite(k)
                        \/ Succeed(k)
                        \/ Refuse(k)
                        \/ Clear(k)

Spec == Init /\ [][Next]_vars
============================================================================
