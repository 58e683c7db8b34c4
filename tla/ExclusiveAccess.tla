-------------------------- MODULE ExclusiveAccess --------------------------
(***************************************************************************)
(* What every lock of CodeGraph promises its callers: a caller that asks   *)
(* for the index is let in when nobody else is in, and leaves again.  The  *)
(* in-process Mutex and the cross-process FileLock of src/src/utils.ts are *)
(* both measured against this specification.                               *)
(***************************************************************************)
CONSTANT Callers

VARIABLE stage          \* stage[c]: where caller c stands

Stages == {"outside", "asking", "inside", "left"}

Init == stage = [c \in Callers |-> "outside"]

NobodyInside == \A c \in Callers : stage[c] # "inside"

Ask(c) ==
    /\ stage[c] = "outside"
    /\ stage' = [stage EXCEPT ![c] = "asking"]

Enter(c) ==
    /\ stage[c] \in {"outside", "asking"}
    /\ NobodyInside
    /\ stage' = [stage EXCEPT ![c] = "inside"]

\* A caller may come back later: it leaves either for good or to ask again.
Leave(c) ==
    /\ stage[c] = "inside"
    /\ \E s \in {"outside", "left"} : stage' = [stage EXCEPT ![c] = s]

GiveUp(c) ==
    /\ stage[c] = "asking"
    /\ \E s \in {"outside", "left"} : stage' = [stage EXCEPT ![c] = s]

Next == \E c \in Callers : Ask(c) \/ Enter(c) \/ Leave(c) \/ GiveUp(c)

Spec == Init /\ [][Next]_stage
=============================================================================
