------------------------------ MODULE Settlement ------------------------------
(***************************************************************************)
(* What the payment saga promises of one order, without tasks, webhooks,   *)
(* retries or a reconciliation script: the ledger says only what happened  *)
(* to the customer's money, and the order follows the ledger.              *)
(***************************************************************************)
CONSTANT Orders

VARIABLES
    charged,    \* the orders the customer has paid for
    refused,    \* the orders with a refused attempt to pay
    ledger,     \* ledger[o]: what payment-service has on record
    order       \* order[o]: what order-service has on record

vars == <<charged, refused, ledger, order>>

Terminal == {"succeeded", "failed"}
Outcome(s) == IF s = "succeeded" THEN "paid" ELSE "cancelled"

Init ==
    /\ charged = {}
    /\ refused = {}
    /\ ledger = [o \in Orders |-> "absent"]
    /\ order = [o \in Orders |-> "absent"]

\* The fact that entitles the saga to write outcome s.
Evidence(o, s) == o \in IF s = "succeeded" THEN charged ELSE refused

Place(o) ==
    /\ order[o] = "absent"
    /\ order' = [order EXCEPT ![o] = "pending_payment"]
    /\ UNCHANGED <<charged, refused, ledger>>

Bill(o) ==
    /\ order[o] # "absent"
    /\ ledger[o] = "absent"
    /\ ledger' = [ledger EXCEPT ![o] = "pending"]
    /\ UNCHANGED <<charged, refused, order>>

Charge(o) ==
    /\ ledger[o] # "absent"
    /\ charged' = charged \cup {o}
    /\ UNCHANGED <<refused, ledger, order>>

\* No refusal after the money was taken.
Refuse(o) ==
    /\ ledger[o] # "absent"
    /\ o \notin charged
    /\ refused' = refused \cup {o}
    /\ UNCHANGED <<charged, ledger, order>>

Record(o, s) ==
    /\ ledger[o] # "absent"
    /\ Evidence(o, s)
    /\ ledger' = [ledger EXCEPT ![o] = s]
    /\ UNCHANGED <<charged, refused, order>>

\* The order is told an outcome only after the ledger has one.
Settle(o, s) ==
    /\ order[o] # "absent"
    /\ ledger[o] \in Terminal
    /\ Evidence(o, s)
    /\ order' = [order EXCEPT ![o] = Outcome(s)]
    /\ UNCHANGED <<charged, refused, ledger>>

Next == \E o \in Orders :
    \/ Place(o)
    \/ Bill(o)
    \/ Charge(o)
    \/ Refuse(o)
    \/ \E s \in Terminal : Record(o, s) \/ Settle(o, s)

Spec == Init /\ [][Next]_vars
==============================================================================
