---------------------------- MODULE PolicyStore ----------------------------
(***************************************************************************)
(* What the runtime-policy refresher of the proxy promises, seen from      *)
(* outside: the instance holds exactly one policy at a time, it starts     *)
(* with the one baked into the image, and it moves in one step to another  *)
(* one only if AppConfig offered it and nginx accepts it.  PolicyRefresh   *)
(* is shown to implement this although its script writes four files one    *)
(* after the other.                                                        *)
(***************************************************************************)

CONSTANTS
    Policies,      \* the policy documents AppConfig can deploy
    Acceptable,    \* those whose rendered files nginx accepts
    Initial        \* the policy baked into the image

VARIABLES
    offered,       \* every policy AppConfig has deployed so far
    stored         \* the one policy the instance holds

storeVars == <<offered, stored>>

Init == /\ offered \in SUBSET Policies
        /\ stored = Initial

Publish(p) == /\ offered' = offered \cup {p}
              /\ UNCHANGED stored

Adopt(p) == /\ p \in offered \cap Acceptable
            /\ stored' = p
            /\ UNCHANGED offered

Next == \E p \in Policies : Publish(p) \/ Adopt(p)

Spec == Init /\ [][Next]_storeVars
=============================================================================
