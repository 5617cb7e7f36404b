----------------------------- MODULE MCCatalog ------------------------------
(***************************************************************************)
(* Catalog for TLC: the ids are interchangeable.                           *)
(***************************************************************************)
EXTENDS Catalog, TLC

Symmetry ==
    Permutations(Categories) \cup Permutations(Products) \cup Permutations(Names)
        \cup Permutations(Sizes) \cup Permutations(Requests)
==============================================================================
