--------------------------- MODULE MCCartCheckout ---------------------------
(***************************************************************************)
(* CartCheckout for TLC: the ids are interchangeable.                      *)
(***************************************************************************)
EXTENDS CartCheckout, TLC

Symmetry ==
    Permutations(Users) \cup Permutations(Carts) \cup Permutations(Rows)
        \cup Permutations(Orders) \cup Permutations(Variants)
        \cup Permutations(Requests) \cup Permutations(Prices)
==============================================================================
