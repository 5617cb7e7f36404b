--------------------------- MODULE MCRegistration ---------------------------
(***************************************************************************)
(* Registration for TLC: the ids are interchangeable.                      *)
(***************************************************************************)
EXTENDS Registration, TLC

Symmetry ==
    Permutations(Accounts) \cup Permutations(Usernames) \cup Permutations(Emails)
        \cup Permutations(Requests)
==============================================================================
