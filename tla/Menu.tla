-------------------------------- MODULE Menu --------------------------------
(***************************************************************************)
(* What order-service may rely on when it asks product-service for a       *)
(* variant: a product appears whole, is switched off and on as a whole,    *)
(* keeps its sizes, and once withdrawn is never sold again.                *)
(***************************************************************************)
CONSTANTS
    Products,   \* product ids
    Variants    \* a size of a product, on sale or not: [size, on]

VARIABLE menu   \* menu[p]: state of the product, and its variants

OneOfEachSize(V) == \A v, w \in V : v.size = w.size => v = w

Init == menu = [p \in Products |-> [state |-> "none", sizes |-> {}]]

Add(p, state, V) ==
    /\ menu[p].state = "none"
    /\ OneOfEachSize(V)
    /\ menu' = [menu EXCEPT ![p] = [state |-> state, sizes |-> V]]

Switch(p, state) ==
    /\ menu[p].state \in {"on", "off"}
    /\ menu' = [menu EXCEPT ![p].state = state]

Withdraw(p) ==
    /\ menu[p].state \in {"on", "off"}
    /\ menu' = [menu EXCEPT ![p] = [state |-> "gone", sizes |-> {}]]

Next ==
    \E p \in Products :
        \/ \E state \in {"on", "off"}, V \in SUBSET Variants : Add(p, state, V)
        \/ \E state \in {"on", "off"} : Switch(p, state)
        \/ Withdraw(p)

Spec == Init /\ [][Next]_menu
=============================================================================
