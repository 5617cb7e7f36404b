--------------------------- MODULE PaymentService ---------------------------
(***************************************************************************)
(* payment-service: POST /payments/initialize called by a checkout, the    *)
(* Paystack transaction behind it, the webhook route with its in-memory    *)
(* background task, and the retried call that carries the outcome to       *)
(* order-service.  A checkout starts at most one payment, so a payment row *)
(* and its Paystack reference are named by the order.                      *)
(***************************************************************************)
EXTENDS OrderStatus

CONSTANTS
    Tasks,        \* bound: background tasks alive at one time
    MaxRetries,   \* MAX_RETRIES of order_client
    Attempts,     \* delivery attempts Paystack makes for one webhook
    MaxFailures,  \* bound: failed charge attempts on one payment page
    PageRetry     \* TRUE: the customer may try again after a failed attempt

ASSUME ServiceAssumption ==
    /\ MaxRetries \in Nat \ {0}
    /\ Attempts \in Nat
    /\ MaxFailures \in Nat
    /\ PageRetry \in BOOLEAN
    /\ Nobody \notin Tasks

VARIABLES
    checkout,   \* checkout[o]: where the checkout request of o stands
    init,       \* init[o]: where the initialize handler for o stands
    charge,     \* charge[o]: the transaction's state in Paystack's books
    failed,     \* failed[o]: failed charge attempts so far
    inbox,      \* inbox[o][e]: delivery attempts Paystack has left for webhook e
    payment,    \* payment[o]: status column of the payments row, or Absent
    tasks,      \* the background tasks of accepted webhooks
    published   \* events in the payment_events exchange: <<order, status>>

initVars == <<checkout, init>>
paystackVars == <<charge, failed, inbox>>

Events == {"charge.success", "charge.failure"}
Terminal == {"succeeded", "failed"}
PaymentStatuses == {"pending"} \cup Terminal

CheckoutStages == {"none", "committed", "calling", "url", "nourl", "lost"}
InitStages == {"none", "paystack", "store", "done", "failed"}
ChargeStates == {"none", "open", "closed", "success"}
TaskStages == {"lookup", "verify", "record", "send", "wait", "publish"}

TaskRecords ==
    [id : Tasks, order : Orders, event : Events, stage : TaskStages,
     seen : PaymentStatuses \cup {Unread}, attempt : 1 .. MaxRetries]

ServiceInit ==
    /\ OrderStatusInit
    /\ checkout = [o \in Orders |-> "none"]
    /\ init = [o \in Orders |-> "none"]
    /\ charge = [o \in Orders |-> "none"]
    /\ failed = [o \in Orders |-> 0]
    /\ inbox = [o \in Orders |-> [e \in Events |-> 0]]
    /\ payment = [o \in Orders |-> Absent]
    /\ tasks = {}
    /\ published = {}

-----------------------------------------------------------------------------
(* Checkout, as far as payment-service sees it: the order is committed, the *)
(* request publishes order.placed and then calls /payments/initialize.      *)

CommitCheckout(o) ==
    /\ checkout[o] = "none"
    /\ PlaceOrder(o)
    /\ checkout' = [checkout EXCEPT ![o] = "committed"]
    /\ UNCHANGED <<init, paystackVars, payment, tasks, published>>

CallInitialize(o) ==
    /\ checkout[o] = "committed"
    /\ checkout' = [checkout EXCEPT ![o] = "calling"]
    /\ init' = [init EXCEPT ![o] = "paystack"]
    /\ UNCHANGED <<statusVars, paystackVars, payment, tasks, published>>

\* What a request that still waits makes of the answer it gets.
AnswerCheckout(o, answer) ==
    checkout' = [checkout EXCEPT ![o] = IF @ = "calling" THEN answer ELSE @]

\* initialize_transaction: the transaction now exists at Paystack.
OpenTransaction(o) ==
    /\ init[o] = "paystack"
    /\ init' = [init EXCEPT ![o] = "store"]
    /\ charge' = [charge EXCEPT ![o] = "open"]
    /\ UNCHANGED <<statusVars, checkout, failed, inbox, payment, tasks, published>>

\* The row is committed and 201 answered with the authorization_url.
StorePayment(o) ==
    /\ init[o] = "store"
    /\ init' = [init EXCEPT ![o] = "done"]
    /\ payment' = [payment EXCEPT ![o] = "pending"]
    /\ AnswerCheckout(o, "url")
    /\ UNCHANGED <<statusVars, paystackVars, tasks, published>>

\* Paystack refused or was unreachable, or the insert failed: 502 or 500.
\* order-service logs PaymentServiceError and answers 201 without a url.
FailInitialize(o) ==
    /\ init[o] \in {"paystack", "store"}
    /\ init' = [init EXCEPT ![o] = "failed"]
    /\ AnswerCheckout(o, "nourl")
    /\ UNCHANGED <<statusVars, paystackVars, payment, tasks, published>>

\* order-service's 10 s timeout; the initialize handler runs on.
TimeoutInitialize(o) ==
    /\ checkout[o] = "calling"
    /\ AnswerCheckout(o, "nourl")
    /\ UNCHANGED <<statusVars, init, paystackVars, payment, tasks, published>>

\* order-service restarts while the request is in hand.
LoseCheckout(o) ==
    /\ checkout[o] \in {"committed", "calling"}
    /\ checkout' = [checkout EXCEPT ![o] = "lost"]
    /\ UNCHANGED <<statusVars, init, paystackVars, payment, tasks, published>>

-----------------------------------------------------------------------------
(* Paystack and the customer.  The payment page is reached through the      *)
(* authorization_url, which leaves payment-service once the row exists.     *)

Payable(o) == charge[o] = "open" /\ payment[o] # Absent

Announce(o, e) == inbox' = [inbox EXCEPT ![o][e] = Attempts]

AttemptFails(o) ==
    /\ Payable(o)
    /\ failed[o] < MaxFailures
    /\ failed' = [failed EXCEPT ![o] = @ + 1]
    /\ charge' = [charge EXCEPT ![o] = IF PageRetry THEN "open" ELSE "closed"]
    /\ Announce(o, "charge.failure")
    /\ UNCHANGED <<statusVars, initVars, payment, tasks, published>>

AttemptSucceeds(o) ==
    /\ Payable(o)
    /\ charge' = [charge EXCEPT ![o] = "success"]
    /\ Announce(o, "charge.success")
    /\ UNCHANGED <<statusVars, initVars, failed, payment, tasks, published>>

\* A charge.success that the verify API does not confirm: a stale body.
StaleNotice(o) ==
    /\ Payable(o)
    /\ inbox[o]["charge.success"] = 0
    /\ Announce(o, "charge.success")
    /\ UNCHANGED <<statusVars, initVars, charge, failed, payment, tasks, published>>

\* The delivery does not reach the route, or gets no 200.
FailDelivery(o, e) ==
    /\ inbox[o][e] > 0
    /\ inbox' = [inbox EXCEPT ![o][e] = @ - 1]
    /\ UNCHANGED <<statusVars, initVars, charge, failed, payment, tasks, published>>

-----------------------------------------------------------------------------
(* The webhook route and handle_webhook.                                    *)

\* The signature is checked, the task queued and 200 sent; Paystack stops
\* retrying only if the 200 arrives.
AcceptWebhook(o, e, heard) ==
    /\ inbox[o][e] > 0
    /\ inbox' = [inbox EXCEPT ![o][e] = IF heard THEN 0 ELSE @ - 1]
    /\ \E i \in Tasks \ {t.id : t \in tasks} :
         tasks' = tasks \cup
           {[id |-> i, order |-> o, event |-> e, stage |-> "lookup",
             seen |-> Unread, attempt |-> 1]}
    /\ UNCHANGED <<statusVars, initVars, charge, failed, payment, published>>

EndTask(t) == tasks' = tasks \ {t}
Proceed(t, u) == tasks' = (tasks \ {t}) \cup {u}

\* The payment status an event leads to, and the order status that follows
\* from a payment status (also PAYMENT_TO_ORDER_STATUS of the reconciliation).
PaymentOutcome(e) == IF e = "charge.success" THEN "succeeded" ELSE "failed"
OrderOutcome(s) == IF s = "succeeded" THEN "paid" ELSE "cancelled"

\* Mutant: the webhook body is trusted and nothing is verified.
LookupPaymentUnverified(t) ==
    /\ t.stage = "lookup"
    /\ IF payment[t.order] = Absent
         THEN EndTask(t)
         ELSE Proceed(t, [t EXCEPT !.seen = payment[t.order], !.stage = "record"])
    /\ UNCHANGED <<statusVars, initVars, paystackVars, payment, published>>

\* SELECT by reference; a reference without a row is ignored.
LookupPayment(t) ==
    /\ t.stage = "lookup"
    /\ IF payment[t.order] = Absent
         THEN EndTask(t)
         ELSE Proceed(t, [t EXCEPT
                !.seen = payment[t.order],
                !.stage = IF t.event = "charge.success" THEN "verify" ELSE "record"])
    /\ UNCHANGED <<statusVars, initVars, paystackVars, payment, published>>

\* Mutant: any answer of the verify API is taken for a confirmation.
ConfirmAnyCharge(t) ==
    /\ t.stage = "verify"
    /\ Proceed(t, [t EXCEPT !.stage = "record"])
    /\ UNCHANGED <<statusVars, initVars, paystackVars, payment, published>>

\* verify_transaction answers "success".
ConfirmCharge(t) ==
    /\ t.stage = "verify"
    /\ charge[t.order] = "success"
    /\ Proceed(t, [t EXCEPT !.stage = "record"])
    /\ UNCHANGED <<statusVars, initVars, paystackVars, payment, published>>

\* verify_transaction answers something else or fails, or a database statement
\* raises: the task returns, and the webhook was already acknowledged.
DropTask(t) ==
    /\ t.stage \in {"lookup", "verify", "record"}
    /\ EndTask(t)
    /\ UNCHANGED <<statusVars, initVars, paystackVars, payment, published>>

\* Mutant: the commit after the assignment is missing.
RecordPaymentUncommitted(t) ==
    /\ t.stage = "record"
    /\ Proceed(t, [t EXCEPT !.stage = "send"])
    /\ UNCHANGED <<statusVars, initVars, paystackVars, payment, published>>

\* The status assignment and its commit.
RecordPayment(t) ==
    /\ t.stage = "record"
    /\ payment' = [payment EXCEPT ![t.order] =
                     NetChange(@, t.seen, PaymentOutcome(t.event))]
    /\ Proceed(t, [t EXCEPT !.stage = "send"])
    /\ UNCHANGED <<statusVars, initVars, paystackVars, published>>

SendOutcome(t) ==
    /\ t.stage = "send"
    /\ SendPatch(t.id, t.order, OrderOutcome(PaymentOutcome(t.event)))
    /\ Proceed(t, [t EXCEPT !.stage = "wait"])
    /\ UNCHANGED <<initVars, paystackVars, payment, published>>

OutcomeApplied(t, p) ==
    /\ t.stage = "wait"
    /\ p.by = t.id
    /\ ApplyStatus(p)
    /\ Proceed(t, [t EXCEPT !.stage = "publish"])
    /\ UNCHANGED <<initVars, paystackVars, payment, published>>

\* Mutant: one attempt too many.
RetriesLeftOffByOne(t) == t.attempt <= MaxRetries

RetriesLeft(t) == t.attempt < MaxRetries

\* An attempt without a 200: sleep and try again, or give up and log CRITICAL.
AfterFailure(t) ==
    Proceed(t, IF RetriesLeft(t)
                 THEN [t EXCEPT !.stage = "send", !.attempt = @ + 1]
                 ELSE [t EXCEPT !.stage = "publish"])

OutcomeRefused(t, p) ==
    /\ t.stage = "wait"
    /\ p.by = t.id
    /\ RefusePatch(p)
    /\ AfterFailure(t)
    /\ UNCHANGED <<initVars, paystackVars, payment, published>>

OutcomeTimedOut(t, p) ==
    /\ t.stage = "wait"
    /\ p.by = t.id
    /\ AbandonPatch(p)
    /\ AfterFailure(t)
    /\ UNCHANGED <<initVars, paystackVars, payment, published>>

\* The event is published whatever became of the call; a failure is logged.
PublishOutcome(t, delivered) ==
    /\ t.stage = "publish"
    /\ published' = IF delivered
                      THEN published \cup {<<t.order, PaymentOutcome(t.event)>>}
                      ELSE published
    /\ EndTask(t)
    /\ UNCHANGED <<statusVars, initVars, paystackVars, payment>>

Handle(p) ==
    /\ LoadOrder(p)
    /\ UNCHANGED <<initVars, paystackVars, payment, tasks, published>>

\* The handler of a request nobody waits for ends, with or without effect.
FinishOrphan(p) ==
    /\ p.by = Nobody
    /\ ApplyStatus(p) \/ RefusePatch(p)
    /\ UNCHANGED <<initVars, paystackVars, payment, tasks, published>>

\* payment-service restarts: tasks and handlers live in its memory only.
CrashPaymentService ==
    /\ tasks # {} \/ \E o \in Orders : init[o] \in {"paystack", "store"}
    /\ tasks' = {}
    /\ AbandonAll(Tasks)
    /\ checkout' = [o \in Orders |->
         IF checkout[o] = "calling" THEN "nourl" ELSE checkout[o]]
    /\ init' = [o \in Orders |->
         IF init[o] \in {"paystack", "store"} THEN "failed" ELSE init[o]]
    /\ UNCHANGED <<paystackVars, payment, published>>

-----------------------------------------------------------------------------
TaskStep(t) ==
    \/ LookupPayment(t)
    \/ ConfirmCharge(t)
    \/ DropTask(t)
    \/ RecordPayment(t)
    \/ SendOutcome(t)
    \/ \E p \in patches :
         OutcomeApplied(t, p) \/ OutcomeRefused(t, p) \/ OutcomeTimedOut(t, p)
    \/ \E delivered \in BOOLEAN : PublishOutcome(t, delivered)

CheckoutStep(o) ==
    \/ CommitCheckout(o)
    \/ CallInitialize(o)
    \/ OpenTransaction(o)
    \/ StorePayment(o)
    \/ FailInitialize(o)
    \/ TimeoutInitialize(o)
    \/ LoseCheckout(o)

PaystackStep(o) ==
    \/ AttemptFails(o)
    \/ AttemptSucceeds(o)
    \/ StaleNotice(o)
    \/ \E e \in Events :
         \/ FailDelivery(o, e)
         \/ \E heard \in BOOLEAN : AcceptWebhook(o, e, heard)

ServiceNext ==
    \/ \E o \in Orders : CheckoutStep(o) \/ PaystackStep(o)
    \/ \E t \in tasks : TaskStep(t)
    \/ \E p \in patches : Handle(p) \/ FinishOrphan(p)
    \/ CrashPaymentService
==============================================================================
