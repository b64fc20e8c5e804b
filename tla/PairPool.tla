------------------------------ MODULE PairPool ------------------------------
(***************************************************************************)
(* What the loop of the scan engine relies on: every module+target pair it *)
(* hands out is settled once, with one outcome, and stays settled.         *)
(***************************************************************************)
CONSTANT Pairs

VARIABLE outcome   \* per pair

Outcomes == {"found", "empty", "failed"}

Init == outcome = [p \in Pairs |-> "open"]

Settle(p) ==
    /\ outcome[p] = "open"
    /\ \E o \in Outcomes : outcome' = [outcome EXCEPT ![p] = o]

Next == \E p \in Pairs : Settle(p)

Spec == Init /\ [][Next]_outcome
=============================================================================
