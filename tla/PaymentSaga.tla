----------------------------- MODULE PaymentSaga -----------------------------
(***************************************************************************)
(* The whole payment saga: checkout, payment-service and the status        *)
(* endpoint (PaymentService), together with the reconciliation script that *)
(* cron starts every ten minutes.  The script reads the two databases in   *)
(* two separate queries and then calls the same PATCH endpoint, once per   *)
(* mismatch, while everything else goes on.                                *)
(***************************************************************************)
EXTENDS PaymentService

CONSTANT Cron    \* the reconciliation script, a caller of the endpoint

ASSUME CronAssumption == Cron \notin Tasks \cup {Nobody}

VARIABLE cron    \* the run under way: what it read, what is left to fix

vars == <<order, patches, checkout, init, charge, failed, inbox, payment,
          tasks, published, cron>>

serviceVars == <<initVars, paystackVars, payment, tasks, published>>

Idle == [pc |-> "idle", ledger |-> {}, todo |-> {}]

Init == ServiceInit /\ cron = Idle

-----------------------------------------------------------------------------
\* Mutant: the WHERE clause is lost, and a pending payment counts as not paid.
FetchPaymentsPendingToo ==
    /\ cron.pc = "idle"
    /\ cron' = [cron EXCEPT !.pc = "orders", !.ledger =
                 {<<o, payment[o]>> : o \in {x \in Orders : payment[x] # Absent}}]
    /\ UNCHANGED <<statusVars, serviceVars>>

\* SELECT the payments in a terminal state.
FetchPayments ==
    /\ cron.pc = "idle"
    /\ cron' = [cron EXCEPT !.pc = "orders", !.ledger =
                 {<<o, payment[o]>> : o \in {x \in Orders : payment[x] \in Terminal}}]
    /\ UNCHANGED <<statusVars, serviceVars>>

\* An order that the payment does not explain.  A shipped order is a paid one
\* that went on; an order that is not there is reported and PATCHed like others.
Mismatch(o, s) == order[o] \notin {OrderOutcome(s), "shipped", "delivered"}

\* SELECT the orders, and compare with the payments read before.
FetchOrders ==
    /\ cron.pc = "orders"
    /\ LET todo == {<<e[1], OrderOutcome(e[2])>> :
                      e \in {x \in cron.ledger : Mismatch(x[1], x[2])}}
       IN  cron' = IF todo = {} THEN Idle
                   ELSE [cron EXCEPT !.pc = "fix", !.todo = todo]
    /\ UNCHANGED <<statusVars, serviceVars>>

\* One PATCH at a time.
SendFix(o, s) ==
    /\ cron.pc = "fix"
    /\ <<o, s>> \in cron.todo
    /\ \A p \in patches : p.by # Cron
    /\ SendPatch(Cron, o, s)
    /\ cron' = [cron EXCEPT !.todo = @ \ {<<o, s>>}]
    /\ UNCHANGED serviceVars

\* The answer to a fix: on to the next mismatch, or the run is over.
NextFix == cron' = IF cron.todo = {} THEN Idle ELSE cron

FixApplied(p) ==
    /\ p.by = Cron
    /\ ApplyStatus(p)
    /\ NextFix
    /\ UNCHANGED serviceVars

\* Not 200, or the script's own 10 s timeout.
FixFailed(p) ==
    /\ p.by = Cron
    /\ RefusePatch(p) \/ AbandonPatch(p)
    /\ NextFix
    /\ UNCHANGED serviceVars

\* A database is unreachable, or the process dies.
CronAborts ==
    /\ cron.pc # "idle"
    /\ cron' = Idle
    /\ AbandonAll({Cron})
    /\ UNCHANGED serviceVars

CronStep ==
    \/ FetchPayments
    \/ FetchOrders
    \/ \E o \in Orders, s \in OrderStatuses : SendFix(o, s)
    \/ \E p \in patches : FixApplied(p) \/ FixFailed(p)
    \/ CronAborts

Next == (ServiceNext /\ UNCHANGED cron) \/ CronStep

Spec == Init /\ [][Next]_vars

-----------------------------------------------------------------------------
(* Fairness.  Background tasks and handlers run to their end unless the     *)
(* process dies.  Nothing forces a customer, a webhook delivery or a        *)
(* checkout to go on.  cron starts the script for ever, and outages end: no *)
(* step of the script and no PATCH of its own fails every time.             *)

TaskRuns(i) == \E t \in tasks : t.id = i /\ TaskStep(t) /\ UNCHANGED cron

OrphanEnds(i) == \E p \in patches : p.id = i /\ FinishOrphan(p) /\ UNCHANGED cron

FixLoads(o) ==
    \E p \in patches :
        p.by = Cron /\ p.order = o /\ Handle(p) /\ UNCHANGED cron

FixLands(o) == \E p \in patches : p.order = o /\ FixApplied(p)

Fairness ==
    /\ \A i \in Tasks : WF_vars(TaskRuns(i))
    /\ \A i \in Calls : WF_vars(OrphanEnds(i))
    /\ SF_vars(FetchPayments)
    /\ SF_vars(FetchOrders)
    /\ \A o \in Orders :
         /\ SF_vars(\E s \in OrderStatuses : SendFix(o, s))
         /\ SF_vars(FixLoads(o))
         /\ SF_vars(FixLands(o))

FairSpec == Spec /\ Fairness

-----------------------------------------------------------------------------
(* Properties.                                                              *)

\* Every variable has its type: the type invariant of the saga.
TypeOK ==
    /\ order \in [Orders -> OrderStatuses \cup {Absent}]
    /\ patches \subseteq PatchRequests(Tasks \cup {Cron})
    /\ checkout \in [Orders -> CheckoutStages]
    /\ init \in [Orders -> InitStages]
    /\ charge \in [Orders -> ChargeStates]
    /\ failed \in [Orders -> 0 .. MaxFailures]
    /\ inbox \in [Orders -> [Events -> 0 .. Attempts]]
    /\ payment \in [Orders -> PaymentStatuses \cup {Absent}]
    /\ tasks \subseteq TaskRecords
    /\ published \subseteq Orders \X Terminal
    /\ cron \in [pc : {"idle", "orders", "fix"},
                 ledger : SUBSET (Orders \X Terminal),
                 todo : SUBSET (Orders \X OrderStatuses)]

\* Whatever the path - webhook, retry, orphaned request, reconciliation - a
\* payment is "succeeded", an order "paid" and payment.succeeded published only
\* if Paystack holds the money, and the failure side only if an attempt failed.
NothingWithoutEvidence ==
    \A o \in Orders :
        /\ \/ payment[o] = "succeeded"
           \/ order[o] = "paid"
           \/ <<o, "succeeded">> \in published
           => charge[o] = "success"
        /\ \/ payment[o] = "failed"
           \/ order[o] = "cancelled"
           \/ <<o, "failed">> \in published
           => failed[o] > 0

\* payment-service "writes its own state first": no order is settled, and no
\* event tells of an outcome, before the payment row holds a terminal status,
\* through all retries, crashes and orphaned requests.
LedgerFirst ==
    \A o \in Orders :
        \/ order[o] \notin {Absent, "pending_payment"}
        \/ \E s \in Terminal : <<o, s>> \in published
        => payment[o] \in Terminal

\* With one outcome per payment page, a terminal payment never changes again,
\* whatever webhooks arrive late, twice or with a stale body.
LedgerFinal ==
    [][\A o \in Orders : payment[o] \in Terminal => payment'[o] = payment[o]]_vars

\* With one outcome per payment page, a settled order never changes again: no
\* retry, orphaned request or fix computed from old reads flips it.
OrderFinal ==
    [][\A o \in Orders :
         order[o] \in {"paid", "cancelled"} => order'[o] = order[o]]_vars

\* A 200 of the status endpoint means that the order then has the status the
\* caller asked for ("Returns True on success", order_client).
AckMeansApplied ==
    [][\A p \in patches : ApplyStatus(p) => order'[p.order] = p.to]_vars

\* A failed attempt to start the payment fails the whole checkout: a request
\* answered without an authorization_url leaves no order waiting for payment.
NoOrderWithoutUrl ==
    \A o \in Orders : checkout[o] = "nourl" => order[o] # "pending_payment"

Settled(o) ==
    payment[o] \in Terminal => order[o] = OrderOutcome(payment[o])

\* The reconciliation closes the gap: from some time on, every order shows what
\* its terminal payment implies, although each call may fail, time out or be
\* applied late, and either process may die at any time.
Convergence == \A o \in Orders : <>[]Settled(o)

\* A success webhook is answered before it is processed, and the payment is
\* recorded for all that ("the payment record was already written").
AcknowledgedChargeIsRecorded ==
    \A o \in Orders :
        (/\ charge[o] = "success"
         /\ \E t \in tasks : t.order = o /\ t.event = "charge.success")
        ~> payment[o] = "succeeded"

\* "The durable source of truth for was this charged": a payment recorded as
\* succeeded stays succeeded.
SuccessKept ==
    [][\A o \in Orders :
         payment[o] = "succeeded" => payment'[o] = "succeeded"]_vars

\* The saga implements the abstract settlement.
Abstract == INSTANCE Settlement WITH
    charged <- {o \in Orders : charge[o] = "success"},
    refused <- {o \in Orders : failed[o] > 0},
    ledger <- payment

\* Every step of the saga is a step of Settlement or changes nothing there.
ImplementsSettlement == Abstract!Spec

-----------------------------------------------------------------------------
(* The inductive invariant.  Every copy of an outcome - a row, a request in  *)
(* flight, a task past its checks, a row the script read - carries with it   *)
(* the evidence for the outcome, and evidence is never lost.                 *)

\* What Paystack's books must say before s may be written.
Proven(o, s) == IF s = "succeeded" THEN charge[o] = "success" ELSE failed[o] > 0

Recorded(o) == payment[o] \in Terminal

\* The order may be told status x.
MayTell(o, x) ==
    Recorded(o) /\ \E s \in Terminal : x = OrderOutcome(s) /\ Proven(o, s)

CheckoutInv ==
    \A o \in Orders :
        /\ checkout[o] = "none" => order[o] = Absent
        /\ checkout[o] # "none" => order[o] # Absent
        /\ checkout[o] \in {"none", "committed"} => init[o] = "none"
        /\ init[o] # "done" => payment[o] = Absent
        /\ init[o] \in {"none", "paystack"} => charge[o] = "none"

BooksInv ==
    \A o \in Orders :
        /\ charge[o] = "none" => failed[o] = 0
        /\ inbox[o]["charge.failure"] > 0 => failed[o] > 0
        /\ ~PageRetry /\ failed[o] > 0 => charge[o] = "closed"

PaymentInv ==
    \A o \in Orders : Recorded(o) => Proven(o, payment[o])

TaskInv ==
    \A t \in tasks :
        LET o == t.order
            s == PaymentOutcome(t.event)
        IN  /\ t.event = "charge.failure" => Proven(o, s)
            /\ t.stage \notin {"lookup", "verify"} => Proven(o, s)
            /\ t.stage \in {"send", "wait", "publish"} => Recorded(o)
            /\ t.stage # "lookup" => payment[o] # Absent
            /\ t.seen \in Terminal => Recorded(o)

OrderInv ==
    \A o \in Orders :
        order[o] \in {Absent, "pending_payment"} \/ MayTell(o, order[o])

PatchInv ==
    \A p \in patches :
        /\ MayTell(p.order, p.to)
        /\ p.seen # Unread => order[p.order] # Absent

PublishedInv ==
    \A e \in published : Recorded(e[1]) /\ Proven(e[1], e[2])

CronInv ==
    /\ \A e \in cron.ledger : Recorded(e[1]) /\ Proven(e[1], e[2])
    /\ \A e \in cron.todo : MayTell(e[1], e[2])

IInv ==
    /\ TypeOK
    /\ CheckoutInv
    /\ BooksInv
    /\ PaymentInv
    /\ TaskInv
    /\ OrderInv
    /\ PatchInv
    /\ PublishedInv
    /\ CronInv
==============================================================================
