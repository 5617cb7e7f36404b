---------------------------- MODULE MCProfileApi ----------------------------
(***************************************************************************)
(* ProfileApi for TLC: the ids are interchangeable.                        *)
(***************************************************************************)
EXTENDS ProfileApi, TLC

Symmetry ==
    Permutations(Accounts) \cup Permutations(Fields) \cup Permutations(Values)
        \cup Permutations(Requests)
==============================================================================
