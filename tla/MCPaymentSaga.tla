---------------------------- MODULE MCPaymentSaga ----------------------------
(***************************************************************************)
(* Instances of the payment saga for TLC.  Tasks, request slots and orders *)
(* are interchangeable: no action or invariant names one of them.          *)
(***************************************************************************)
EXTENDS PaymentSaga, TLC

Symmetry == Permutations(Tasks) \cup Permutations(Calls) \cup Permutations(Orders)
==============================================================================
