-------------------------- MODULE PaymentSaga_proofs --------------------------
(***************************************************************************)
(* The safety of the payment saga for every number of orders, tasks,       *)
(* requests, retries and deliveries.  First a frame lemma per kind of step *)
(* (what it leaves alone), then a lemma per variable (how it may change),  *)
(* and from these, without looking at actions any more, that evidence is   *)
(* never lost and that each part of IInv is preserved.                     *)
(***************************************************************************)
EXTENDS PaymentSaga, TLAPS

USE DEF Absent, Unread, Terminal, Events

-----------------------------------------------------------------------------
(* What each kind of step leaves alone.                                     *)

\* A checkout step touches neither requests nor tasks (order_service.checkout).
LEMMA CheckoutFrame ==
    ASSUME NEW o \in Orders, CheckoutStep(o)
    PROVE  UNCHANGED <<patches, failed, inbox, tasks, published>>
BY DEF CheckoutStep, CommitCheckout, PlaceOrder, CallInitialize, OpenTransaction,
       StorePayment, FailInitialize, TimeoutInitialize, LoseCheckout, statusVars,
       paystackVars, initVars

\* Paystack and the webhook route change no row of either database.
LEMMA PaystackFrame ==
    ASSUME NEW o \in Orders, PaystackStep(o)
    PROVE  UNCHANGED <<order, patches, checkout, init, payment, published>>
BY DEF PaystackStep, AttemptFails, AttemptSucceeds, StaleNotice, FailDelivery,
       AcceptWebhook, statusVars, initVars

\* A background task (handle_webhook) leaves checkouts and Paystack alone.
LEMMA TaskFrame ==
    ASSUME NEW t \in tasks, TaskStep(t)
    PROVE  UNCHANGED <<checkout, init, charge, failed, inbox>>
BY DEF TaskStep, LookupPayment, ConfirmCharge, DropTask, RecordPayment, SendOutcome,
       OutcomeApplied, OutcomeRefused, OutcomeTimedOut, PublishOutcome, initVars,
       paystackVars

\* A handler of the status endpoint changes requests and orders only.
LEMMA HandlerFrame ==
    ASSUME NEW p \in patches, Handle(p) \/ FinishOrphan(p)
    PROVE  UNCHANGED <<checkout, init, charge, failed, inbox, payment, tasks, published>>
BY DEF Handle, FinishOrphan, initVars, paystackVars

\* A restart of payment-service changes no row of either database.
LEMMA CrashFrame ==
    ASSUME CrashPaymentService
    PROVE  UNCHANGED <<order, charge, failed, inbox, payment, published>>
BY DEF CrashPaymentService, AbandonAll, paystackVars

\* The reconciliation script only reads payment-service's database.
LEMMA CronFrame ==
    ASSUME CronStep
    PROVE  UNCHANGED <<checkout, init, charge, failed, inbox, payment, tasks, published>>
BY DEF CronStep, FetchPayments, FetchOrders, SendFix, FixApplied, FixFailed, CronAborts,
       serviceVars, initVars, paystackVars

\* The kinds of steps.
LEMMA StepKinds ==
    ASSUME [Next]_vars
    PROVE  \/ \E o \in Orders : CheckoutStep(o) /\ UNCHANGED cron
           \/ \E o \in Orders : PaystackStep(o) /\ UNCHANGED cron
           \/ \E t \in tasks : TaskStep(t) /\ UNCHANGED cron
           \/ \E p \in patches : (Handle(p) \/ FinishOrphan(p)) /\ UNCHANGED cron
           \/ CrashPaymentService /\ UNCHANGED cron
           \/ CronStep
           \/ UNCHANGED vars
BY DEF Next, ServiceNext

-----------------------------------------------------------------------------
(* How each variable may change.                                            *)

\* An order's status: placed, or set by a request whose handler has read it.
OrderChange(o) ==
    \/ order'[o] = order[o]
    \/ /\ order'[o] = "pending_payment"
       /\ checkout[o] = "none"
       /\ checkout'[o] # "none"
    \/ \E p \in patches :
         p.order = o /\ p.seen # Unread /\ order'[o] = p.to

\* A request: one that was there, possibly with the status it read, or a new
\* one, sent by a task past its commit or by the script for a mismatch.
PatchChange(q) ==
    \/ \E p \in patches :
         /\ q.order = p.order
         /\ q.to = p.to
         /\ q.seen = p.seen \/ (q.seen = order[q.order] /\ order[q.order] # Absent)
    \/ /\ q.seen = Unread
       /\ \/ <<q.order, q.to>> \in cron.todo
          \/ \E t \in tasks :
               /\ t.stage = "send"
               /\ t.order = q.order
               /\ q.to = OrderOutcome(PaymentOutcome(t.event))

\* What an ApplyStatus does to the order it names, and to no other.
LEMMA ApplyChange ==
    ASSUME TypeOK, NEW p \in patches, ApplyStatus(p)
    PROVE  /\ order' \in [Orders -> OrderStatuses \cup {Absent}]
           /\ \A o \in Orders : OrderChange(o)
           /\ patches' = patches \ {p}
<1>1. /\ p.order \in Orders
      /\ p.to \in OrderStatuses
  BY DEF TypeOK, PatchRequests
<1>2. order' = [order EXCEPT ![p.order] = NetChange(@, p.seen, p.to)]
  BY DEF ApplyStatus
<1>3. /\ p.seen # Unread
      /\ patches' = patches \ {p}
  BY DEF ApplyStatus
<1> QED
  BY <1>1, <1>2, <1>3 DEF TypeOK, OrderChange, NetChange

\* The only ways the orders table changes: a checkout commits a row, or a
\* request in hand is applied.
LEMMA OrderStep ==
    ASSUME TypeOK, [Next]_vars
    PROVE  /\ order' \in [Orders -> OrderStatuses \cup {Absent}]
           /\ \A o \in Orders : OrderChange(o)
<1>1. ASSUME NEW x \in Orders, CheckoutStep(x)
      PROVE  /\ order' \in [Orders -> OrderStatuses \cup {Absent}]
             /\ \A o \in Orders : OrderChange(o)
  BY <1>1 DEF CheckoutStep, CommitCheckout, PlaceOrder, CallInitialize, OpenTransaction,
     StorePayment, FailInitialize, TimeoutInitialize, LoseCheckout, statusVars, TypeOK,
     OrderStatuses, OrderChange
<1>2. CASE UNCHANGED order
  BY <1>2 DEF TypeOK, OrderChange
<1>3. ASSUME NEW t \in tasks, TaskStep(t)
      PROVE  UNCHANGED order \/ \E p \in patches : ApplyStatus(p)
  BY <1>3 DEF TaskStep, LookupPayment, ConfirmCharge, DropTask, RecordPayment,
     SendOutcome, SendPatch, OutcomeApplied, OutcomeRefused, RefusePatch,
     OutcomeTimedOut, AbandonPatch, PublishOutcome, statusVars
<1>4. ASSUME NEW p \in patches, Handle(p) \/ FinishOrphan(p)
      PROVE  UNCHANGED order \/ ApplyStatus(p)
  BY <1>4 DEF Handle, LoadOrder, FinishOrphan, RefusePatch
<1>5. ASSUME CronStep
      PROVE  UNCHANGED order \/ \E p \in patches : ApplyStatus(p)
  BY <1>5 DEF CronStep, FetchPayments, FetchOrders, SendFix, SendPatch, FixApplied,
     FixFailed, RefusePatch, AbandonPatch, CronAborts, AbandonAll, statusVars
<1>6. CASE \E p \in patches : ApplyStatus(p)
  BY <1>6, ApplyChange
<1> QED
  BY <1>1, <1>2, <1>3, <1>4, <1>5, <1>6, StepKinds, PaystackFrame, CrashFrame DEF vars

\* A request stays, loses its caller, or goes.
LEMMA ForgetChange ==
    ASSUME TypeOK, NEW p \in patches, AbandonPatch(p) \/ RefusePatch(p) \/ ApplyStatus(p)
    PROVE  /\ patches' \subseteq PatchRequests(Tasks \cup {Cron})
           /\ \A q \in patches' : PatchChange(q)
<1>1. p \in PatchRequests(Tasks \cup {Cron})
  BY DEF TypeOK
<1>2. [p EXCEPT !.by = Nobody] \in PatchRequests(Tasks \cup {Cron})
  BY <1>1 DEF PatchRequests
<1>3. /\ [p EXCEPT !.by = Nobody].order = p.order
      /\ [p EXCEPT !.by = Nobody].to = p.to
      /\ [p EXCEPT !.by = Nobody].seen = p.seen
  BY <1>1 DEF PatchRequests
<1>4. patches' \subseteq patches \cup {[p EXCEPT !.by = Nobody]}
  BY DEF AbandonPatch, RefusePatch, ApplyStatus
<1> QED
  BY <1>2, <1>3, <1>4 DEF TypeOK, PatchChange

\* A handler's SELECT copies the status the row has.
LEMMA LoadChange ==
    ASSUME TypeOK, NEW p \in patches, LoadOrder(p)
    PROVE  /\ patches' \subseteq PatchRequests(Tasks \cup {Cron})
           /\ \A q \in patches' : PatchChange(q)
<1> DEFINE r == [p EXCEPT !.seen = order[p.order]]
<1>1. p \in PatchRequests(Tasks \cup {Cron}) /\ order[p.order] # Absent
  BY DEF TypeOK, LoadOrder
<1>2. p.order \in Orders /\ order[p.order] \in OrderStatuses
  BY <1>1 DEF TypeOK, PatchRequests
<1>3. /\ r \in PatchRequests(Tasks \cup {Cron})
      /\ r.order = p.order
      /\ r.to = p.to
      /\ r.seen = order[p.order]
  BY <1>1, <1>2 DEF PatchRequests
<1>4. patches' \subseteq patches \cup {r}
  BY DEF LoadOrder
<1> HIDE DEF r
<1> QED
  BY <1>1, <1>3, <1>4 DEF TypeOK, PatchChange

\* A new request is what its sender asked for.
LEMMA SendChange ==
    ASSUME TypeOK, NEW c \in Tasks \cup {Cron}, NEW o \in Orders, NEW s \in OrderStatuses,
           SendPatch(c, o, s)
    PROVE  /\ patches' \subseteq PatchRequests(Tasks \cup {Cron})
           /\ \A q \in patches' :
                \/ q \in patches
                \/ q.order = o /\ q.to = s /\ q.seen = Unread
<1> DEFINE r(i) == [id |-> i, by |-> c, order |-> o, to |-> s, seen |-> Unread]
<1>1. PICK i \in Calls : patches' = patches \cup {r(i)}
  BY DEF SendPatch
<1>2. /\ r(i) \in PatchRequests(Tasks \cup {Cron})
      /\ r(i).order = o /\ r(i).to = s /\ r(i).seen = Unread
  BY DEF PatchRequests
<1> HIDE DEF r
<1> QED
  BY <1>1, <1>2 DEF TypeOK

\* The requests of a process that died go on without a caller.
LEMMA AbandonAllChange ==
    ASSUME TypeOK, NEW C, AbandonAll(C)
    PROVE  /\ patches' \subseteq PatchRequests(Tasks \cup {Cron})
           /\ \A q \in patches' : PatchChange(q)
<1> SUFFICES ASSUME NEW p \in patches, NEW b \in Tasks \cup {Cron, Nobody}
             PROVE  /\ [p EXCEPT !.by = b] \in PatchRequests(Tasks \cup {Cron})
                    /\ PatchChange([p EXCEPT !.by = b])
  <2>1. \A p \in patches : p.by \in Tasks \cup {Cron, Nobody}
    BY DEF TypeOK, PatchRequests
  <2>2. \A q \in patches' : \E p \in patches, b \in Tasks \cup {Cron, Nobody} :
          q = [p EXCEPT !.by = b]
    <3> SUFFICES ASSUME NEW q \in patches'
                 PROVE  \E p \in patches, b \in Tasks \cup {Cron, Nobody} :
                          q = [p EXCEPT !.by = b]
      OBVIOUS
    <3>1. PICK p \in patches : q = [p EXCEPT !.by = IF p.by \in C THEN Nobody ELSE p.by]
      BY DEF AbandonAll
    <3> DEFINE b == IF p.by \in C THEN Nobody ELSE p.by
    <3>2. b \in Tasks \cup {Cron, Nobody}
      BY <2>1
    <3>3. q = [p EXCEPT !.by = b]
      BY <3>1
    <3> HIDE DEF b
    <3> QED
      BY <3>2, <3>3
  <2> QED
    BY <2>2
<1>1. p \in PatchRequests(Tasks \cup {Cron})
  BY DEF TypeOK
<1>2. /\ [p EXCEPT !.by = b] \in PatchRequests(Tasks \cup {Cron})
      /\ [p EXCEPT !.by = b].order = p.order
      /\ [p EXCEPT !.by = b].to = p.to
      /\ [p EXCEPT !.by = b].seen = p.seen
  BY <1>1 DEF PatchRequests
<1> QED
  BY <1>2 DEF PatchChange

\* Where a request to the status endpoint comes from: it was there before, with
\* at most its reader or its waiter changed, or a task or the script sent it.
LEMMA PatchStep ==
    ASSUME TypeOK, [Next]_vars
    PROVE  /\ patches' \subseteq PatchRequests(Tasks \cup {Cron})
           /\ \A q \in patches' : PatchChange(q)
<1> DEFINE Forgets == \E p \in patches : AbandonPatch(p) \/ RefusePatch(p) \/ ApplyStatus(p)
<1>1. CASE UNCHANGED patches
  BY <1>1 DEF TypeOK, PatchChange
<1>2. CASE Forgets
  BY <1>2, ForgetChange
<1>3. CASE \E p \in patches : LoadOrder(p)
  BY <1>3, LoadChange
<1>4. ASSUME NEW t \in tasks, SendOutcome(t)
      PROVE  /\ patches' \subseteq PatchRequests(Tasks \cup {Cron})
             /\ \A q \in patches' : PatchChange(q)
  <2> DEFINE s == OrderOutcome(PaymentOutcome(t.event))
  <2>1. /\ t.id \in Tasks
        /\ t.order \in Orders
        /\ s \in OrderStatuses
    BY DEF TypeOK, TaskRecords, OrderOutcome, OrderStatuses
  <2>2. t.stage = "send" /\ SendPatch(t.id, t.order, s)
    BY <1>4 DEF SendOutcome
  <2> HIDE DEF s
  <2>3. /\ patches' \subseteq PatchRequests(Tasks \cup {Cron})
        /\ \A q \in patches' :
             q \in patches \/ (q.order = t.order /\ q.to = s /\ q.seen = Unread)
    BY <2>1, <2>2, SendChange
  <2> QED
    BY <2>2, <2>3 DEF PatchChange, s
<1>5. ASSUME NEW t \in tasks, TaskStep(t)
      PROVE  UNCHANGED patches \/ SendOutcome(t) \/ Forgets
  BY <1>5 DEF TaskStep, LookupPayment, ConfirmCharge, DropTask, RecordPayment,
     OutcomeApplied, OutcomeRefused, OutcomeTimedOut, PublishOutcome, statusVars
<1>6. ASSUME NEW p \in patches, Handle(p) \/ FinishOrphan(p)
      PROVE  LoadOrder(p) \/ Forgets
  BY <1>6 DEF Handle, FinishOrphan
<1>7. ASSUME CronStep
      PROVE  \/ UNCHANGED patches
             \/ Forgets
             \/ AbandonAll({Cron})
             \/ \E o \in Orders, s \in OrderStatuses : SendFix(o, s)
  BY <1>7 DEF CronStep, FetchPayments, FetchOrders, FixApplied, FixFailed, CronAborts,
     statusVars
<1>8. ASSUME NEW o \in Orders, NEW s \in OrderStatuses, SendFix(o, s)
      PROVE  /\ patches' \subseteq PatchRequests(Tasks \cup {Cron})
             /\ \A q \in patches' : PatchChange(q)
  <2>1. <<o, s>> \in cron.todo /\ SendPatch(Cron, o, s)
    BY <1>8 DEF SendFix
  <2>2. /\ patches' \subseteq PatchRequests(Tasks \cup {Cron})
        /\ \A q \in patches' :
             q \in patches \/ (q.order = o /\ q.to = s /\ q.seen = Unread)
    BY <2>1, SendChange
  <2> QED
    BY <2>1, <2>2 DEF PatchChange
<1>9. CrashPaymentService => AbandonAll(Tasks)
  BY DEF CrashPaymentService
<1>10. AbandonAll(Tasks) \/ AbandonAll({Cron}) =>
         /\ patches' \subseteq PatchRequests(Tasks \cup {Cron})
         /\ \A q \in patches' : PatchChange(q)
  BY AbandonAllChange
<1> QED
  BY <1>1, <1>2, <1>3, <1>4, <1>5, <1>6, <1>7, <1>8, <1>9, <1>10, StepKinds,
     CheckoutFrame, PaystackFrame DEF vars

-----------------------------------------------------------------------------
(* Paystack's books, the checkout and the payment row.                      *)

\* A payment row: stored by the initialize handler, or set by a task.
PaymentChange(o) ==
    \/ payment'[o] = payment[o]
    \/ /\ init[o] = "store"
       /\ init'[o] = "done"
       /\ payment'[o] = "pending"
    \/ \E t \in tasks :
         t.order = o /\ t.stage = "record" /\ payment'[o] = PaymentOutcome(t.event)

\* The only ways the payments table changes: a stored row, or a task's record.
LEMMA PaymentStep ==
    ASSUME TypeOK, [Next]_vars
    PROVE  /\ payment' \in [Orders -> PaymentStatuses \cup {Absent}]
           /\ \A o \in Orders : PaymentChange(o)
<1>1. CASE UNCHANGED payment
  BY <1>1 DEF TypeOK, PaymentChange
<1>2. ASSUME NEW x \in Orders, StorePayment(x)
      PROVE  /\ payment' \in [Orders -> PaymentStatuses \cup {Absent}]
             /\ \A o \in Orders : PaymentChange(o)
  BY <1>2 DEF StorePayment, TypeOK, PaymentStatuses, PaymentChange
<1>3. ASSUME NEW x \in Orders, CheckoutStep(x)
      PROVE  UNCHANGED payment \/ StorePayment(x)
  BY <1>3 DEF CheckoutStep, CommitCheckout, CallInitialize, OpenTransaction,
     FailInitialize, TimeoutInitialize, LoseCheckout
<1>4. ASSUME NEW t \in tasks, RecordPayment(t)
      PROVE  /\ payment' \in [Orders -> PaymentStatuses \cup {Absent}]
             /\ \A o \in Orders : PaymentChange(o)
  <2>1. /\ t.order \in Orders
        /\ PaymentOutcome(t.event) \in PaymentStatuses
    BY DEF TypeOK, TaskRecords, PaymentOutcome, PaymentStatuses
  <2>2. /\ t.stage = "record"
        /\ payment' = [payment EXCEPT ![t.order] =
                         NetChange(@, t.seen, PaymentOutcome(t.event))]
    BY <1>4 DEF RecordPayment
  <2> QED
    BY <2>1, <2>2 DEF TypeOK, PaymentChange, NetChange
<1>5. ASSUME NEW t \in tasks, TaskStep(t)
      PROVE  UNCHANGED payment \/ RecordPayment(t)
  BY <1>5 DEF TaskStep, LookupPayment, ConfirmCharge, DropTask, SendOutcome,
     OutcomeApplied, OutcomeRefused, OutcomeTimedOut, PublishOutcome
<1> QED
  BY <1>1, <1>2, <1>3, <1>4, <1>5, StepKinds, PaystackFrame, HandlerFrame, CrashFrame,
     CronFrame DEF vars

\* The checkout and initialize stages keep their types (StorePayment, crash and
\* timeout included).
LEMMA CheckoutTypes ==
    ASSUME TypeOK, [Next]_vars
    PROVE  /\ checkout' \in [Orders -> CheckoutStages]
           /\ init' \in [Orders -> InitStages]
<1>1. ASSUME NEW o \in Orders, CheckoutStep(o)
      PROVE  checkout' \in [Orders -> CheckoutStages] /\ init' \in [Orders -> InitStages]
  BY <1>1 DEF CheckoutStep, CommitCheckout, CallInitialize, OpenTransaction, StorePayment,
     FailInitialize, TimeoutInitialize, LoseCheckout, AnswerCheckout, TypeOK,
     CheckoutStages, InitStages
<1>2. CASE CrashPaymentService
  BY <1>2 DEF CrashPaymentService, TypeOK, CheckoutStages, InitStages
<1>3. CASE UNCHANGED <<checkout, init>>
  BY <1>3 DEF TypeOK
<1> QED
  BY <1>1, <1>2, <1>3, StepKinds, PaystackFrame, TaskFrame, HandlerFrame, CronFrame
  DEF vars

\* Paystack's books keep their types, the bounds on attempts included.
LEMMA BooksTypes ==
    ASSUME TypeOK, [Next]_vars
    PROVE  /\ charge' \in [Orders -> ChargeStates]
           /\ failed' \in [Orders -> 0 .. MaxFailures]
           /\ inbox' \in [Orders -> [Events -> 0 .. Attempts]]
<1>1. ASSUME NEW o \in Orders, PaystackStep(o)
      PROVE  /\ charge' \in [Orders -> ChargeStates]
             /\ failed' \in [Orders -> 0 .. MaxFailures]
             /\ inbox' \in [Orders -> [Events -> 0 .. Attempts]]
  <2>1. \A e \in Events, n \in 0 .. Attempts :
          inbox' = [inbox EXCEPT ![o][e] = n] => inbox' \in [Orders -> [Events -> 0 .. Attempts]]
    BY DEF TypeOK
  <2>2. /\ Attempts \in 0 .. Attempts
        /\ \A e \in Events : inbox[o][e] \in 0 .. Attempts
        /\ \A n \in 0 .. Attempts : n > 0 => n - 1 \in 0 .. Attempts
        /\ 0 \in 0 .. Attempts
    BY ServiceAssumption DEF TypeOK
  <2>3. ASSUME NEW e \in Events, FailDelivery(o, e) \/ \E heard \in BOOLEAN : AcceptWebhook(o, e, heard)
        PROVE  /\ inbox' \in [Orders -> [Events -> 0 .. Attempts]]
               /\ UNCHANGED <<charge, failed>>
    <3>1. PICK n \in 0 .. Attempts : inbox' = [inbox EXCEPT ![o][e] = n]
      BY <2>2, <2>3 DEF FailDelivery, AcceptWebhook
    <3> QED
      BY <2>1, <2>3, <3>1 DEF FailDelivery, AcceptWebhook
  <2>4. AttemptFails(o) \/ AttemptSucceeds(o) \/ StaleNotice(o)
          => inbox' \in [Orders -> [Events -> 0 .. Attempts]]
    BY <2>1, <2>2 DEF AttemptFails, AttemptSucceeds, StaleNotice, Announce
  <2>5. ASSUME AttemptFails(o)
        PROVE  charge' \in [Orders -> ChargeStates] /\ failed' \in [Orders -> 0 .. MaxFailures]
    <3>1. failed[o] + 1 \in 0 .. MaxFailures
      BY <2>5, ServiceAssumption DEF AttemptFails, TypeOK
    <3>2. failed' \in [Orders -> 0 .. MaxFailures]
      BY <2>5, <3>1 DEF AttemptFails, TypeOK
    <3>3. charge' \in [Orders -> ChargeStates]
      BY <2>5 DEF AttemptFails, TypeOK, ChargeStates
    <3> QED
      BY <3>2, <3>3
  <2>6. ASSUME AttemptSucceeds(o) \/ StaleNotice(o)
        PROVE  charge' \in [Orders -> ChargeStates] /\ failed' = failed
    BY <2>6 DEF AttemptSucceeds, StaleNotice, TypeOK, ChargeStates
  <2> QED
    BY <1>1, <2>3, <2>4, <2>5, <2>6 DEF PaystackStep, TypeOK
<1>2. ASSUME NEW o \in Orders, CheckoutStep(o)
      PROVE  charge' \in [Orders -> ChargeStates]
  BY <1>2 DEF CheckoutStep, CommitCheckout, CallInitialize, OpenTransaction, StorePayment,
     FailInitialize, TimeoutInitialize, LoseCheckout, TypeOK, ChargeStates, paystackVars
<1>3. CASE UNCHANGED <<charge, failed, inbox>>
  BY <1>3 DEF TypeOK
<1> QED
  BY <1>1, <1>2, <1>3, StepKinds, CheckoutFrame, TaskFrame, HandlerFrame, CrashFrame,
     CronFrame DEF vars, TypeOK

-----------------------------------------------------------------------------
(* Background tasks, the published events and the script's own copies.      *)

\* A task u that follows the task t of the state before.
Follows(u, t) ==
    /\ u.order = t.order
    /\ u.event = t.event
    /\ \/ u.stage = t.stage /\ u.seen = t.seen
       \/ /\ t.stage = "lookup"
          /\ u.stage \in {"verify", "record"}
          /\ u.stage = "record" => t.event = "charge.failure"
          /\ u.seen = payment[t.order]
          /\ payment[t.order] # Absent
       \/ /\ t.stage = "verify"
          /\ u.stage = "record"
          /\ u.seen = t.seen
          /\ charge[t.order] = "success"
       \/ /\ t.stage = "record"
          /\ u.stage = "send"
          /\ u.seen = t.seen
          /\ payment'[t.order] =
               NetChange(payment[t.order], t.seen, PaymentOutcome(t.event))
       \/ /\ t.stage \in {"send", "wait"}
          /\ u.stage \in {"send", "wait", "publish"}
          /\ u.seen = t.seen

\* A task: one of before, one step further, or the task of a webhook just taken.
TaskChange(u) ==
    \/ \E t \in tasks : Follows(u, t)
    \/ u.stage = "lookup" /\ u.seen = Unread /\ inbox[u.order][u.event] > 0

\* Each step of handle_webhook and update_order_status moves its task along.
LEMMA TaskMoves ==
    ASSUME TypeOK, NEW t \in tasks, TaskStep(t)
    PROVE  \/ tasks' \subseteq tasks
           \/ \E u \in TaskRecords : tasks' \subseteq tasks \cup {u} /\ Follows(u, t)
<1>1. /\ t \in TaskRecords
      /\ t.order \in Orders
      /\ t.event \in Events
      /\ payment \in [Orders -> PaymentStatuses \cup {Absent}]
  BY DEF TypeOK, TaskRecords
<1>2. \A u \in TaskRecords :
        Proceed(t, u) => tasks' \subseteq tasks \cup {u}
  BY DEF Proceed
<1>3. EndTask(t) => tasks' \subseteq tasks
  BY DEF EndTask
<1>4. ASSUME LookupPayment(t), payment[t.order] # Absent
      PROVE  \E u \in TaskRecords : Proceed(t, u) /\ Follows(u, t)
  <2> DEFINE st == IF t.event = "charge.success" THEN "verify" ELSE "record"
             u == [t EXCEPT !.seen = payment[t.order], !.stage = st]
  <2>1. Proceed(t, u) /\ t.stage = "lookup"
    BY <1>4 DEF LookupPayment
  <2>2. /\ st \in {"verify", "record"}
        /\ st = "record" => t.event = "charge.failure"
    BY <1>1
  <2> HIDE DEF st
  <2>3. payment[t.order] \in PaymentStatuses
    BY <1>1, <1>4
  <2>4. /\ u \in TaskRecords
        /\ u.order = t.order /\ u.event = t.event
        /\ u.stage = st /\ u.seen = payment[t.order]
    BY <1>1, <2>2, <2>3 DEF TaskRecords, TaskStages
  <2> QED
    BY <1>4, <2>1, <2>2, <2>4 DEF Follows
<1>5. ASSUME ConfirmCharge(t) \/ RecordPayment(t) \/ SendOutcome(t)
             \/ \E p \in patches : OutcomeApplied(t, p)
      PROVE  \E u \in TaskRecords : Proceed(t, u) /\ Follows(u, t)
  <2>1. PICK st \in {"record", "send", "wait", "publish"} :
          /\ Proceed(t, [t EXCEPT !.stage = st])
          /\ \/ st = "record" /\ t.stage = "verify" /\ charge[t.order] = "success"
             \/ /\ st = "send" /\ t.stage = "record"
                /\ payment' = [payment EXCEPT ![t.order] =
                                 NetChange(@, t.seen, PaymentOutcome(t.event))]
             \/ st \in {"wait", "publish"} /\ t.stage \in {"send", "wait"}
    BY <1>5 DEF ConfirmCharge, RecordPayment, SendOutcome, OutcomeApplied
  <2> DEFINE u == [t EXCEPT !.stage = st]
  <2>2. /\ u \in TaskRecords
        /\ u.order = t.order /\ u.event = t.event
        /\ u.stage = st /\ u.seen = t.seen
    BY <1>1 DEF TaskRecords, TaskStages
  <2> HIDE DEF u
  <2> QED
    BY <1>1, <2>1, <2>2 DEF Follows, u
<1>6. ASSUME \E p \in patches : OutcomeRefused(t, p) \/ OutcomeTimedOut(t, p)
      PROVE  \E u \in TaskRecords : Proceed(t, u) /\ Follows(u, t)
  <2>1. PICK st \in {"send", "publish"}, n \in 1 .. MaxRetries :
          Proceed(t, [t EXCEPT !.stage = st, !.attempt = n])
    <3>1. AfterFailure(t)
      BY <1>6 DEF OutcomeRefused, OutcomeTimedOut
    <3>2. CASE RetriesLeft(t)
      <4>1. t.attempt + 1 \in 1 .. MaxRetries
        BY <1>1, <3>2, ServiceAssumption DEF RetriesLeft, TaskRecords
      <4>2. Proceed(t, [t EXCEPT !.stage = "send", !.attempt = t.attempt + 1])
        BY <3>1, <3>2 DEF AfterFailure
      <4> QED
        BY <4>1, <4>2
    <3>3. CASE ~RetriesLeft(t)
      <4>1. t.attempt \in 1 .. MaxRetries
        BY <1>1 DEF TaskRecords
      <4>2. [t EXCEPT !.stage = "publish"]
              = [t EXCEPT !.stage = "publish", !.attempt = t.attempt]
        BY <1>1 DEF TaskRecords
      <4>3. Proceed(t, [t EXCEPT !.stage = "publish"])
        BY <3>1, <3>3 DEF AfterFailure
      <4> QED
        BY <4>1, <4>2, <4>3
    <3> QED
      BY <3>2, <3>3
  <2> DEFINE u == [t EXCEPT !.stage = st, !.attempt = n]
  <2>2. /\ u \in TaskRecords
        /\ u.order = t.order /\ u.event = t.event
        /\ u.stage = st /\ u.seen = t.seen
    BY <1>1 DEF TaskRecords, TaskStages
  <2>3. t.stage = "wait"
    BY <1>6 DEF OutcomeRefused, OutcomeTimedOut
  <2> HIDE DEF u
  <2> QED
    BY <2>1, <2>2, <2>3 DEF Follows, u
<1>7. LookupPayment(t) /\ payment[t.order] = Absent => EndTask(t)
  BY DEF LookupPayment
<1>8. DropTask(t) \/ (\E delivered \in BOOLEAN : PublishOutcome(t, delivered)) => EndTask(t)
  BY DEF DropTask, PublishOutcome
<1> QED
  BY <1>2, <1>3, <1>4, <1>5, <1>6, <1>7, <1>8 DEF TaskStep

\* Every background task after a step was there before, went on from one that
\* was, or comes from an accepted webhook.
LEMMA TasksStep ==
    ASSUME TypeOK, [Next]_vars
    PROVE  /\ tasks' \subseteq TaskRecords
           /\ \A u \in tasks' : TaskChange(u)
<1>1. \A t \in tasks : Follows(t, t)
  BY DEF Follows
<1>2. CASE tasks' \subseteq tasks
  BY <1>1, <1>2 DEF TypeOK, TaskChange
<1>3. ASSUME NEW t \in tasks, TaskStep(t)
      PROVE  /\ tasks' \subseteq TaskRecords
             /\ \A u \in tasks' : TaskChange(u)
  BY <1>1, <1>3, TaskMoves DEF TypeOK, TaskChange
<1>4. ASSUME NEW o \in Orders, NEW e \in Events, NEW heard \in BOOLEAN,
             AcceptWebhook(o, e, heard)
      PROVE  /\ tasks' \subseteq TaskRecords
             /\ \A u \in tasks' : TaskChange(u)
  <2> DEFINE u(i) == [id |-> i, order |-> o, event |-> e, stage |-> "lookup",
                      seen |-> Unread, attempt |-> 1]
  <2>1. PICK i \in Tasks : tasks' = tasks \cup {u(i)}
    BY <1>4 DEF AcceptWebhook
  <2>2. /\ u(i) \in TaskRecords
        /\ u(i).order = o /\ u(i).event = e
        /\ u(i).stage = "lookup" /\ u(i).seen = Unread
    BY ServiceAssumption DEF TaskRecords, TaskStages
  <2> HIDE DEF u
  <2>3. inbox[o][e] > 0
    BY <1>4 DEF AcceptWebhook
  <2> QED
    BY <1>1, <2>1, <2>2, <2>3 DEF TypeOK, TaskChange
<1>5. ASSUME NEW o \in Orders, PaystackStep(o)
      PROVE  \/ UNCHANGED tasks
             \/ \E e \in Events, heard \in BOOLEAN : AcceptWebhook(o, e, heard)
  BY <1>5 DEF PaystackStep, AttemptFails, AttemptSucceeds, StaleNotice, FailDelivery
<1>6. CrashPaymentService => tasks' \subseteq tasks
  BY DEF CrashPaymentService
<1> QED
  BY <1>2, <1>3, <1>4, <1>5, <1>6, StepKinds, CheckoutFrame, HandlerFrame, CronFrame
  DEF vars

\* A step publishes nothing or the outcome of a task that reached its end.
LEMMA PublishedStep ==
    ASSUME TypeOK, [Next]_vars
    PROVE  \A e \in published' :
             \/ e \in published
             \/ \E t \in tasks :
                  t.stage = "publish" /\ e = <<t.order, PaymentOutcome(t.event)>>
<1>1. CASE UNCHANGED published
  BY <1>1
<1>2. ASSUME NEW t \in tasks, NEW delivered \in BOOLEAN, PublishOutcome(t, delivered)
      PROVE  \A e \in published' :
               \/ e \in published
               \/ t.stage = "publish" /\ e = <<t.order, PaymentOutcome(t.event)>>
  BY <1>2 DEF PublishOutcome
<1>3. ASSUME NEW t \in tasks, TaskStep(t)
      PROVE  UNCHANGED published \/ \E delivered \in BOOLEAN : PublishOutcome(t, delivered)
  BY <1>3 DEF TaskStep, LookupPayment, ConfirmCharge, DropTask, RecordPayment, SendOutcome,
     OutcomeApplied, OutcomeRefused, OutcomeTimedOut
<1> QED
  BY <1>1, <1>2, <1>3, StepKinds, CheckoutFrame, PaystackFrame, HandlerFrame, CrashFrame,
     CronFrame DEF vars

\* The script's copies: rows it has just read, or what follows from them.
LEMMA CronChange ==
    ASSUME TypeOK, [Next]_vars
    PROVE  /\ cron' \in [pc : {"idle", "orders", "fix"},
                         ledger : SUBSET (Orders \X Terminal),
                         todo : SUBSET (Orders \X OrderStatuses)]
           /\ \A e \in cron'.ledger :
                \/ e \in cron.ledger
                \/ e[1] \in Orders /\ e[2] = payment[e[1]] /\ e[2] \in Terminal
           /\ \A f \in cron'.todo :
                \/ f \in cron.todo
                \/ \E e \in cron.ledger : f = <<e[1], OrderOutcome(e[2])>>
<1> DEFINE CronType == [pc : {"idle", "orders", "fix"},
                        ledger : SUBSET (Orders \X Terminal),
                        todo : SUBSET (Orders \X OrderStatuses)]
<1>0. cron \in CronType
  BY DEF TypeOK
<1>1. CASE UNCHANGED cron
  BY <1>0, <1>1
<1>2. CASE cron' = Idle
  BY <1>2 DEF Idle
<1>3. CASE FetchPayments
  <2> DEFINE L == {<<o, payment[o]>> : o \in {x \in Orders : payment[x] \in Terminal}}
  <2>1. L \in SUBSET (Orders \X Terminal)
    OBVIOUS
  <2>2. \A e \in L : e[1] \in Orders /\ e[2] = payment[e[1]] /\ e[2] \in Terminal
    OBVIOUS
  <2>3. cron' = [cron EXCEPT !.pc = "orders", !.ledger = L]
    BY <1>3 DEF FetchPayments
  <2> HIDE DEF L
  <2> QED
    BY <1>0, <2>1, <2>2, <2>3
<1>4. CASE FetchOrders
  <2> DEFINE T == {<<e[1], OrderOutcome(e[2])>> :
                      e \in {x \in cron.ledger : Mismatch(x[1], x[2])}}
  <2>1. \A f \in T : \E e \in cron.ledger : f = <<e[1], OrderOutcome(e[2])>>
    OBVIOUS
  <2>2. \A e \in cron.ledger : e[1] \in Orders /\ OrderOutcome(e[2]) \in OrderStatuses
    BY <1>0 DEF OrderOutcome, OrderStatuses
  <2>3. T \in SUBSET (Orders \X OrderStatuses)
    BY <2>1, <2>2
  <2>4. cron' = Idle \/ cron' = [cron EXCEPT !.pc = "fix", !.todo = T]
    BY <1>4 DEF FetchOrders
  <2> HIDE DEF T
  <2>5. CASE cron' = [cron EXCEPT !.pc = "fix", !.todo = T]
    BY <1>0, <2>1, <2>3, <2>5
  <2> QED
    BY <1>2, <2>4, <2>5
<1>5. CASE \E o \in Orders, s \in OrderStatuses : SendFix(o, s)
  <2>1. PICK o \in Orders, s \in OrderStatuses :
          cron' = [cron EXCEPT !.todo = @ \ {<<o, s>>}]
    BY <1>5 DEF SendFix
  <2> QED
    BY <1>0, <2>1
<1>6. CronStep => \/ UNCHANGED cron \/ cron' = Idle \/ FetchPayments \/ FetchOrders
                  \/ \E o \in Orders, s \in OrderStatuses : SendFix(o, s)
  BY DEF CronStep, FixApplied, FixFailed, NextFix, CronAborts
<1>7. UNCHANGED cron \/ CronStep
  BY StepKinds DEF vars
<1> QED
  BY <1>1, <1>2, <1>3, <1>4, <1>5, <1>6, <1>7

-----------------------------------------------------------------------------
(* Evidence is never lost, and the invariant is inductive.                  *)

\* Paystack's books: a failed attempt stays in them, and a taken charge too.
LEMMA BooksStep ==
    ASSUME IInv, [Next]_vars
    PROVE  /\ BooksInv'
           /\ \A o \in Orders : charge[o] = "success" => charge'[o] = "success"
           /\ \A o \in Orders : failed[o] > 0 => failed'[o] > 0
<1> USE DEF BooksInv
<1>1. /\ charge \in [Orders -> ChargeStates]
      /\ failed \in [Orders -> Nat]
      /\ inbox \in [Orders -> [Events -> Nat]]
      /\ BooksInv
  BY DEF IInv, TypeOK
<1>2. CASE UNCHANGED <<charge, failed, inbox>>
  BY <1>1, <1>2
<1>3. ASSUME NEW x \in Orders, CheckoutStep(x)
      PROVE  /\ UNCHANGED <<failed, inbox>>
             /\ \/ UNCHANGED charge
                \/ charge[x] = "none" /\ charge' = [charge EXCEPT ![x] = "open"]
  <2>1. OpenTransaction(x) => charge[x] = "none"
    BY DEF OpenTransaction, IInv, CheckoutInv
  <2> QED
    BY <1>3, <2>1, CheckoutFrame DEF CheckoutStep, CommitCheckout, CallInitialize,
       OpenTransaction, StorePayment, FailInitialize, TimeoutInitialize, LoseCheckout,
       paystackVars
<1>4. ASSUME NEW x \in Orders, AttemptFails(x)
      PROVE  /\ BooksInv'
             /\ \A o \in Orders : charge[o] = "success" => charge'[o] = "success"
             /\ \A o \in Orders : failed[o] > 0 => failed'[o] > 0
  BY <1>1, <1>4, ServiceAssumption DEF AttemptFails, Payable, Announce, ChargeStates
<1>5. ASSUME NEW x \in Orders, AttemptSucceeds(x)
      PROVE  /\ BooksInv'
             /\ \A o \in Orders : charge[o] = "success" => charge'[o] = "success"
             /\ \A o \in Orders : failed[o] > 0 => failed'[o] > 0
  BY <1>1, <1>5, ServiceAssumption DEF AttemptSucceeds, Payable, Announce, ChargeStates
<1>6. ASSUME NEW x \in Orders, PaystackStep(x), ~AttemptFails(x), ~AttemptSucceeds(x)
      PROVE  /\ UNCHANGED <<charge, failed>>
             /\ \A o \in Orders :
                  inbox'[o]["charge.failure"] > 0 => inbox[o]["charge.failure"] > 0
  <2>1. StaleNotice(x) => inbox' = [inbox EXCEPT ![x]["charge.success"] = Attempts]
    BY DEF StaleNotice, Announce
  <2>2. ASSUME NEW e \in Events, FailDelivery(x, e) \/ \E heard \in BOOLEAN : AcceptWebhook(x, e, heard)
        PROVE  /\ inbox[x][e] > 0
               /\ \E n \in {0, inbox[x][e] - 1} : inbox' = [inbox EXCEPT ![x][e] = n]
    BY <2>2 DEF FailDelivery, AcceptWebhook
  <2>3. UNCHANGED <<charge, failed>>
    BY <1>6 DEF PaystackStep, StaleNotice, FailDelivery, AcceptWebhook
  <2>4. \/ StaleNotice(x)
        \/ \E e \in Events : FailDelivery(x, e) \/ \E heard \in BOOLEAN : AcceptWebhook(x, e, heard)
    BY <1>6 DEF PaystackStep
  <2> QED
    BY <1>1, <2>1, <2>2, <2>3, <2>4
<1>7. ASSUME NEW x \in Orders, CheckoutStep(x)
      PROVE  /\ BooksInv'
             /\ \A o \in Orders : charge[o] = "success" => charge'[o] = "success"
             /\ \A o \in Orders : failed[o] > 0 => failed'[o] > 0
  BY <1>1, <1>3, <1>7 DEF ChargeStates
<1>8. ASSUME NEW x \in Orders, PaystackStep(x)
      PROVE  /\ BooksInv'
             /\ \A o \in Orders : charge[o] = "success" => charge'[o] = "success"
             /\ \A o \in Orders : failed[o] > 0 => failed'[o] > 0
  BY <1>1, <1>4, <1>5, <1>6, <1>8
<1> QED
  BY <1>2, <1>7, <1>8, StepKinds, TaskFrame, HandlerFrame, CrashFrame, CronFrame DEF vars

\* Once proven, once recorded, once there: for ever.
LEMMA EvidenceKept ==
    ASSUME IInv, [Next]_vars
    PROVE  /\ \A o \in Orders, s \in Terminal : Proven(o, s) => Proven(o, s)'
           /\ \A o \in Orders : Recorded(o) => Recorded(o)'
           /\ \A o \in Orders : payment[o] # Absent => payment'[o] # Absent
           /\ \A o \in Orders : order[o] # Absent => order'[o] # Absent
           /\ \A o \in Orders, x \in OrderStatuses : MayTell(o, x) => MayTell(o, x)'
<1>1. \A o \in Orders, s \in Terminal : Proven(o, s) => Proven(o, s)'
  BY BooksStep DEF Proven
<1>2. \A o \in Orders : PaymentChange(o) /\ OrderChange(o)
  BY PaymentStep, OrderStep DEF IInv
<1>3. \A o \in Orders : init[o] = "store" => payment[o] = Absent
  BY DEF IInv, CheckoutInv
<1>4. \A t \in tasks : PaymentOutcome(t.event) \in Terminal
  BY DEF PaymentOutcome
<1>5. \A o \in Orders : Recorded(o) => Recorded(o)'
  BY <1>2, <1>3, <1>4 DEF PaymentChange, Recorded
<1>6. \A o \in Orders : payment[o] # Absent => payment'[o] # Absent
  BY <1>2, <1>3, <1>4 DEF PaymentChange
<1>7. \A p \in patches : p.to # Absent
  BY DEF IInv, TypeOK, PatchRequests, OrderStatuses
<1>8. \A o \in Orders : order[o] # Absent => order'[o] # Absent
  BY <1>2, <1>7 DEF OrderChange
<1> QED
  BY <1>1, <1>5, <1>6, <1>8 DEF MayTell

\* Every action preserves the type invariant.
LEMMA TypeStep ==
    ASSUME TypeOK, [Next]_vars
    PROVE  TypeOK'
<1>1. published' \subseteq Orders \X Terminal
  <2>1. \A t \in tasks : <<t.order, PaymentOutcome(t.event)>> \in Orders \X Terminal
    BY DEF TypeOK, TaskRecords, PaymentOutcome
  <2>2. published \subseteq Orders \X Terminal
    BY DEF TypeOK
  <2>3. \A e \in published' :
          e \in published \/ \E t \in tasks : e = <<t.order, PaymentOutcome(t.event)>>
    BY PublishedStep
  <2> QED
    BY <2>1, <2>2, <2>3
<1> QED
  BY <1>1, OrderStep, PatchStep, PaymentStep, CheckoutTypes, BooksTypes, TasksStep,
     CronChange DEF TypeOK

\* Every action keeps order row, initialize call and payment row in step.
LEMMA CheckoutInvStep ==
    ASSUME IInv, [Next]_vars
    PROVE  CheckoutInv'
<1>1. /\ order \in [Orders -> OrderStatuses \cup {Absent}]
      /\ checkout \in [Orders -> CheckoutStages]
      /\ init \in [Orders -> InitStages]
      /\ charge \in [Orders -> ChargeStates]
      /\ payment \in [Orders -> PaymentStatuses \cup {Absent}]
      /\ CheckoutInv
  BY DEF IInv, TypeOK
<1>2. \A o \in Orders : order[o] # Absent => order'[o] # Absent
  BY EvidenceKept
<1>3. ASSUME NEW x \in Orders, CheckoutStep(x)
      PROVE  CheckoutInv'
  BY <1>1, <1>3 DEF CheckoutStep, CommitCheckout, PlaceOrder, CallInitialize,
     OpenTransaction, StorePayment, FailInitialize, TimeoutInitialize, LoseCheckout,
     AnswerCheckout, CheckoutInv, CheckoutStages, InitStages, statusVars, paystackVars
<1>4. ASSUME UNCHANGED <<checkout, init>>, 
             \A o \in Orders : charge'[o] = charge[o] \/ charge[o] = "open"
      PROVE  CheckoutInv'
  <2>1. \A o \in Orders : checkout[o] = "none" => order'[o] = Absent
    <3>1. \A o \in Orders : OrderChange(o)
      BY OrderStep DEF IInv
    <3>2. \A p \in patches : p.seen # Unread => order[p.order] # Absent
      BY DEF IInv, PatchInv
    <3> QED
      BY <1>1, <1>4, <3>1, <3>2 DEF OrderChange, CheckoutInv
  <2>2. \A o \in Orders : init[o] # "done" => payment'[o] = Absent
    <3>1. \A o \in Orders : PaymentChange(o)
      BY PaymentStep DEF IInv
    <3>2. \A t \in tasks : t.stage = "record" => payment[t.order] # Absent
      BY DEF IInv, TaskInv
    <3> QED
      BY <1>1, <1>4, <3>1, <3>2 DEF PaymentChange, CheckoutInv
  <2> QED
    BY <1>1, <1>2, <1>4, <2>1, <2>2 DEF CheckoutInv
<1>5. ASSUME CrashPaymentService
      PROVE  CheckoutInv'
  BY <1>1, <1>5, CrashFrame DEF CrashPaymentService, CheckoutInv, CheckoutStages, InitStages
<1>6. ASSUME NEW x \in Orders, PaystackStep(x)
      PROVE  \A o \in Orders : charge'[o] = charge[o] \/ charge[o] = "open"
  BY <1>1, <1>6 DEF PaystackStep, AttemptFails, AttemptSucceeds, StaleNotice, FailDelivery,
     AcceptWebhook, Payable
<1> QED
  BY <1>3, <1>4, <1>5, <1>6, StepKinds, PaystackFrame, TaskFrame, HandlerFrame, CronFrame
  DEF vars

\* Every action keeps a recorded outcome proven by Paystack's books.
LEMMA PaymentInvStep ==
    ASSUME IInv, [Next]_vars
    PROVE  PaymentInv'
<1>1. \A o \in Orders : PaymentChange(o)
  BY PaymentStep DEF IInv
<1>2. \A o \in Orders, s \in Terminal : Proven(o, s) => Proven(o, s)'
  BY EvidenceKept
<1>3. \A t \in tasks : t.order \in Orders /\ PaymentOutcome(t.event) \in Terminal
  BY DEF IInv, TypeOK, TaskRecords, PaymentOutcome
<1>4. \A t \in tasks : t.stage = "record" => Proven(t.order, PaymentOutcome(t.event))
  BY DEF IInv, TaskInv
<1>5. SUFFICES ASSUME NEW o \in Orders, Recorded(o)'
               PROVE  Proven(o, payment[o])'
  BY DEF PaymentInv
<1>6. payment'[o] \in Terminal
  BY <1>5 DEF Recorded
<1>7. CASE payment'[o] = payment[o]
  <2>1. Proven(o, payment[o])
    BY <1>6, <1>7 DEF IInv, PaymentInv, Recorded
  <2>2. Proven(o, payment'[o])
    BY <1>7, <2>1
  <2> QED
    BY <1>2, <1>6, <2>2 DEF Proven
<1>8. CASE payment'[o] # payment[o]
  <2>1. Proven(o, payment'[o])
    BY <1>1, <1>3, <1>4, <1>6, <1>8 DEF PaymentChange
  <2> QED
    BY <1>2, <1>6, <2>1 DEF Proven
<1> QED
  BY <1>7, <1>8

\* Every action keeps a task's outcome proven from the stage on at which the
\* code has checked it.
LEMMA TaskInvStep ==
    ASSUME IInv, [Next]_vars
    PROVE  TaskInv'
<1>1. /\ \A u \in tasks' : TaskChange(u) /\ u \in TaskRecords
      /\ payment \in [Orders -> PaymentStatuses \cup {Absent}]
      /\ payment' \in [Orders -> PaymentStatuses \cup {Absent}]
  BY TasksStep, PaymentStep DEF IInv, TypeOK
<1>2. \A s \in {PaymentOutcome(e) : e \in Events} : s \in Terminal
  BY DEF PaymentOutcome
<1> SUFFICES ASSUME NEW u \in tasks'
             PROVE  LET o == u.order
                        s == PaymentOutcome(u.event)
                    IN  /\ u.event = "charge.failure" => Proven(o, s)'
                        /\ u.stage \notin {"lookup", "verify"} => Proven(o, s)'
                        /\ u.stage \in {"send", "wait", "publish"} => Recorded(o)'
                        /\ u.stage # "lookup" => payment'[o] # Absent
                        /\ u.seen \in Terminal => Recorded(o)'
  BY DEF TaskInv, Proven, Recorded
<1> DEFINE o == u.order
           s == PaymentOutcome(u.event)
<1>3. /\ o \in Orders
      /\ u.event \in Events
      /\ s \in Terminal
  BY <1>1, <1>2 DEF TaskRecords
<1>4. /\ Proven(o, s) => Proven(o, s)'
      /\ Recorded(o) => Recorded(o)'
      /\ payment[o] # Absent => payment'[o] # Absent
  BY <1>3, EvidenceKept
<1>5. CASE u.stage = "lookup" /\ u.seen = Unread /\ inbox[o][u.event] > 0
  <2>1. u.event = "charge.failure" => Proven(o, s)
    BY <1>3, <1>5 DEF IInv, BooksInv, Proven, PaymentOutcome
  <2> QED
    BY <1>4, <1>5, <2>1
<1>6. ASSUME NEW t \in tasks, Follows(u, t)
      PROVE  /\ u.event = "charge.failure" => Proven(o, s)'
             /\ u.stage \notin {"lookup", "verify"} => Proven(o, s)'
             /\ u.stage \in {"send", "wait", "publish"} => Recorded(o)'
             /\ u.stage # "lookup" => payment'[o] # Absent
             /\ u.seen \in Terminal => Recorded(o)'
  <2>1. t.order = o /\ t.event = u.event
    BY <1>6 DEF Follows
  <2>2. /\ u.event = "charge.failure" => Proven(o, s)
        /\ t.stage \notin {"lookup", "verify"} => Proven(o, s)
        /\ t.stage \in {"send", "wait", "publish"} => Recorded(o)
        /\ t.stage # "lookup" => payment[o] # Absent
        /\ t.seen \in Terminal => Recorded(o)
    BY <2>1 DEF IInv, TaskInv
  <2>3. charge[o] = "success" /\ u.event = "charge.success" => Proven(o, s)
    BY DEF Proven, PaymentOutcome
  <2>4. CASE u.stage = t.stage /\ u.seen = t.seen
    BY <1>4, <2>2, <2>4
  <2>5. CASE /\ t.stage = "lookup"
             /\ u.stage \in {"verify", "record"}
             /\ u.stage = "record" => t.event = "charge.failure"
             /\ u.seen = payment[o]
             /\ payment[o] # Absent
    BY <1>4, <2>1, <2>2, <2>5 DEF Recorded
  <2>6. CASE t.stage = "verify" /\ u.stage = "record" /\ u.seen = t.seen
             /\ charge[o] = "success"
    BY <1>3, <1>4, <2>2, <2>3, <2>6
  <2>7. CASE /\ t.stage = "record" /\ u.stage = "send" /\ u.seen = t.seen
             /\ payment'[o] = NetChange(payment[o], t.seen, s)
    <3>1. Recorded(o)'
      BY <1>3, <1>4, <2>2, <2>7 DEF Recorded, NetChange
    <3> QED
      BY <1>4, <2>2, <2>7, <3>1
  <2>8. CASE /\ t.stage \in {"send", "wait"}
             /\ u.stage \in {"send", "wait", "publish"}
             /\ u.seen = t.seen
    BY <1>4, <2>2, <2>8
  <2> QED
    BY <1>6, <2>1, <2>4, <2>5, <2>6, <2>7, <2>8 DEF Follows
<1> QED
  BY <1>1, <1>5, <1>6 DEF TaskChange

\* Every action keeps a settled order backed by the ledger and the books.
LEMMA OrderInvStep ==
    ASSUME IInv, [Next]_vars
    PROVE  OrderInv'
<1>1. \A o \in Orders : OrderChange(o) /\ order'[o] \in OrderStatuses \cup {Absent}
  BY OrderStep DEF IInv
<1>2. \A p \in patches : MayTell(p.order, p.to)
  BY DEF IInv, PatchInv
<1>3. \A o \in Orders : order[o] \in {Absent, "pending_payment"} \/ MayTell(o, order[o])
  BY DEF IInv, OrderInv
<1>4. SUFFICES ASSUME NEW o \in Orders, order'[o] \notin {Absent, "pending_payment"}
               PROVE  MayTell(o, order[o])'
  BY DEF OrderInv
<1>5. MayTell(o, order'[o])
  BY <1>1, <1>2, <1>3, <1>4 DEF OrderChange
<1>6. PICK x \in OrderStatuses : x = order'[o]
  BY <1>1, <1>4
<1>7. MayTell(o, x)'
  BY <1>5, <1>6, EvidenceKept
<1> QED
  BY <1>6, <1>7 DEF MayTell

\* A request was one that the order may get already when it was sent.
LEMMA ToldBefore ==
    ASSUME IInv, NEW q, PatchChange(q)
    PROVE  MayTell(q.order, q.to)
<1>1. /\ \A p \in patches : MayTell(p.order, p.to)
      /\ \A t \in tasks : t.stage = "send" =>
           MayTell(t.order, OrderOutcome(PaymentOutcome(t.event)))
  BY DEF IInv, PatchInv, TaskInv, MayTell, PaymentOutcome
<1>2. ASSUME <<q.order, q.to>> \in cron.todo
      PROVE  MayTell(q.order, q.to)
  <2> DEFINE e == <<q.order, q.to>>
  <2>1. MayTell(e[1], e[2])
    BY <1>2 DEF IInv, CronInv
  <2> QED
    BY <2>1
<1> QED
  BY <1>1, <1>2 DEF PatchChange

\* Every action keeps a request in flight to order-service one it may get.
LEMMA PatchInvStep ==
    ASSUME IInv, [Next]_vars
    PROVE  PatchInv'
<1> SUFFICES ASSUME NEW q \in patches'
             PROVE  MayTell(q.order, q.to)' /\ (q.seen # Unread => order'[q.order] # Absent)
  BY DEF PatchInv, MayTell, Proven, Recorded
<1>1. PatchChange(q) /\ q.order \in Orders /\ q.to \in OrderStatuses
  BY PatchStep DEF IInv, PatchRequests
<1>2. MayTell(q.order, q.to)
  BY <1>1, ToldBefore
<1>3. q.seen # Unread => order[q.order] # Absent
  BY <1>1 DEF PatchChange, IInv, PatchInv
<1> QED
  BY <1>1, <1>2, <1>3, EvidenceKept

\* Every action keeps a published outcome recorded and proven.
LEMMA PublishedInvStep ==
    ASSUME IInv, [Next]_vars
    PROVE  PublishedInv'
<1>1. \A t \in tasks : t.stage = "publish" =>
        Recorded(t.order) /\ Proven(t.order, PaymentOutcome(t.event))
  BY DEF IInv, TaskInv
<1>2. \A e \in published : Recorded(e[1]) /\ Proven(e[1], e[2])
  BY DEF IInv, PublishedInv
<1>3. \A e \in published' : e \in Orders \X Terminal
  BY TypeStep DEF IInv, TypeOK
<1> SUFFICES ASSUME NEW e \in published'
             PROVE  Recorded(e[1])' /\ Proven(e[1], e[2])'
  BY DEF PublishedInv, Recorded, Proven
<1>4. Recorded(e[1]) /\ Proven(e[1], e[2])
  BY <1>1, <1>2, PublishedStep DEF IInv
<1> QED
  BY <1>3, <1>4, EvidenceKept

\* What the script read stays true however long it takes to act on it.
LEMMA CronInvStep ==
    ASSUME IInv, [Next]_vars
    PROVE  CronInv'
<1>1. /\ \A e \in cron.ledger : Recorded(e[1]) /\ Proven(e[1], e[2])
      /\ \A e \in cron.todo : MayTell(e[1], e[2])
  BY DEF IInv, CronInv
<1>2. /\ \A e \in cron.ledger : e \in Orders \X Terminal
      /\ \A e \in cron'.ledger : e \in Orders \X Terminal
      /\ \A f \in cron'.todo : f \in Orders \X OrderStatuses
  <2>1. cron \in [pc : {"idle", "orders", "fix"},
                  ledger : SUBSET (Orders \X Terminal),
                  todo : SUBSET (Orders \X OrderStatuses)]
    BY DEF IInv, TypeOK
  <2>2. cron' \in [pc : {"idle", "orders", "fix"},
                   ledger : SUBSET (Orders \X Terminal),
                   todo : SUBSET (Orders \X OrderStatuses)]
    BY CronChange DEF IInv
  <2> QED
    BY <2>1, <2>2
<1>3. ASSUME NEW e \in cron'.ledger
      PROVE  Recorded(e[1])' /\ Proven(e[1], e[2])'
  <2>1. \/ e \in cron.ledger
        \/ e[1] \in Orders /\ e[2] = payment[e[1]] /\ e[2] \in Terminal
    BY CronChange DEF IInv
  <2>2. Recorded(e[1]) /\ Proven(e[1], e[2])
    BY <1>1, <2>1 DEF IInv, PaymentInv, Recorded
  <2> QED
    BY <1>2, <2>2, EvidenceKept
<1>4. ASSUME NEW f \in cron'.todo
      PROVE  MayTell(f[1], f[2])'
  <2>1. \/ f \in cron.todo
        \/ \E e \in cron.ledger : f = <<e[1], OrderOutcome(e[2])>>
    BY CronChange DEF IInv
  <2>2. MayTell(f[1], f[2])
    <3>1. ASSUME NEW e \in cron.ledger, f = <<e[1], OrderOutcome(e[2])>>
          PROVE  MayTell(f[1], f[2])
      <4>1. f[1] = e[1] /\ f[2] = OrderOutcome(e[2]) /\ e[2] \in Terminal
        BY <1>2, <3>1
      <4> QED
        BY <1>1, <4>1 DEF MayTell
    <3> QED
      BY <1>1, <2>1, <3>1
  <2> QED
    BY <1>2, <2>2, EvidenceKept
<1> QED
  BY <1>3, <1>4 DEF CronInv, Recorded, Proven, MayTell

-----------------------------------------------------------------------------
(* The theorems.                                                            *)

\* The invariant holds in the initial states.
LEMMA InitIInv == Init => IInv
<1> SUFFICES ASSUME Init PROVE IInv
  OBVIOUS
<1>1. TypeOK
  BY ServiceAssumption DEF Init, ServiceInit, OrderStatusInit, Idle, TypeOK, OrderStatuses,
     CheckoutStages, InitStages, ChargeStates, PaymentStatuses
<1>2. CheckoutInv /\ BooksInv /\ PaymentInv /\ OrderInv
  BY DEF Init, ServiceInit, OrderStatusInit, CheckoutInv, BooksInv, PaymentInv, OrderInv,
     Recorded
<1>3. TaskInv /\ PatchInv /\ PublishedInv /\ CronInv
  BY DEF Init, ServiceInit, OrderStatusInit, Idle, TaskInv, PatchInv, PublishedInv, CronInv
<1> QED
  BY <1>1, <1>2, <1>3 DEF IInv

\* The invariant is inductive.
LEMMA NextIInv == IInv /\ [Next]_vars => IInv'
<1> SUFFICES ASSUME IInv, [Next]_vars PROVE IInv'
  OBVIOUS
<1>1. TypeOK'
  BY TypeStep DEF IInv
<1> QED
  BY <1>1, CheckoutInvStep, BooksStep, PaymentInvStep, TaskInvStep, OrderInvStep,
     PatchInvStep, PublishedInvStep, CronInvStep DEF IInv

\* The inductive invariant holds in every reachable state of the saga.
THEOREM Inductive == Spec => []IInv
  BY InitIInv, NextIInv, PTL DEF Spec

\* Every variable keeps its type.
THEOREM TypeCorrect == Spec => []TypeOK
<1>1. IInv => TypeOK
  BY DEF IInv
<1> QED
  BY <1>1, Inductive, PTL

\* No payment succeeded, order paid or event published without the money, and
\* no failure without a failed attempt (payment_service.handle_webhook).
THEOREM Evidence == Spec => []NothingWithoutEvidence
<1>1. IInv => NothingWithoutEvidence
  <2> SUFFICES ASSUME IInv, NEW o \in Orders
               PROVE  /\ \/ payment[o] = "succeeded"
                         \/ order[o] = "paid"
                         \/ <<o, "succeeded">> \in published
                         => charge[o] = "success"
                      /\ \/ payment[o] = "failed"
                         \/ order[o] = "cancelled"
                         \/ <<o, "failed">> \in published
                         => failed[o] > 0
    BY DEF NothingWithoutEvidence
  <2>1. /\ payment[o] = "succeeded" => charge[o] = "success"
        /\ payment[o] = "failed" => failed[o] > 0
    BY DEF IInv, PaymentInv, Recorded, Proven
  <2>2. /\ order[o] = "paid" => charge[o] = "success"
        /\ order[o] = "cancelled" => failed[o] > 0
    BY DEF IInv, OrderInv, MayTell, OrderOutcome, Proven
  <2>3. \A s \in Terminal : <<o, s>> \in published => Proven(o, s)
    <3> SUFFICES ASSUME NEW s \in Terminal, <<o, s>> \in published
                 PROVE  Proven(o, s)
      OBVIOUS
    <3> DEFINE e == <<o, s>>
    <3>1. Proven(e[1], e[2])
      BY DEF IInv, PublishedInv
    <3> QED
      BY <3>1
  <2> QED
    BY <2>1, <2>2, <2>3 DEF Proven
<1> QED
  BY <1>1, Inductive, PTL

\* payment-service writes its own state first: no settled order and no event
\* before a terminal payment row.
THEOREM RecordedFirst == Spec => []LedgerFirst
<1>1. IInv => LedgerFirst
  <2> SUFFICES ASSUME IInv, NEW o \in Orders,
                      \/ order[o] \notin {Absent, "pending_payment"}
                      \/ \E s \in Terminal : <<o, s>> \in published
               PROVE  Recorded(o)
    BY DEF LedgerFirst, Recorded
  <2>1. order[o] \notin {Absent, "pending_payment"} => Recorded(o)
    BY DEF IInv, OrderInv, MayTell
  <2>2. ASSUME NEW s \in Terminal, <<o, s>> \in published
        PROVE  Recorded(o)
    <3> DEFINE e == <<o, s>>
    <3>1. Recorded(e[1])
      BY <2>2 DEF IInv, PublishedInv
    <3> QED
      BY <3>1
  <2> QED
    BY <2>1, <2>2
<1> QED
  BY <1>1, Inductive, PTL

\* Where a payment page has one outcome, the evidence for one outcome excludes
\* the other one.
LEMMA OneOutcome ==
    ASSUME IInv, ~PageRetry, NEW o \in Orders, NEW s \in Terminal, NEW r \in Terminal,
           Proven(o, s), Proven(o, r)
    PROVE  s = r
BY DEF IInv, BooksInv, Proven

\* Where a payment page has one outcome, no step changes a settled order.
LEMMA SettledStays ==
    ASSUME IInv, [Next]_vars, ~PageRetry, NEW o \in Orders,
           order[o] \in {"paid", "cancelled"}
    PROVE  order'[o] = order[o]
<1>1. OrderChange(o)
  BY OrderStep DEF IInv
<1>2. checkout[o] # "none"
  BY DEF IInv, CheckoutInv
<1>3. PICK s \in Terminal : order[o] = OrderOutcome(s) /\ Proven(o, s)
  BY DEF IInv, OrderInv, MayTell
<1>4. \A p \in patches : p.order = o =>
        \E r \in Terminal : p.to = OrderOutcome(r) /\ Proven(o, r)
  BY DEF IInv, PatchInv, MayTell
<1> QED
  BY <1>1, <1>2, <1>3, <1>4, OneOutcome DEF OrderChange

\* With one outcome per payment page no step changes a terminal payment or a
\* settled order: late webhooks, orphaned requests and stale fixes included.
THEOREM Finality == ~PageRetry /\ Spec => LedgerFinal /\ OrderFinal
<1>1. ASSUME IInv, [Next]_vars, ~PageRetry, NEW o \in Orders, payment[o] \in Terminal
      PROVE  payment'[o] = payment[o]
  <2>1. Proven(o, payment[o])
    BY <1>1 DEF IInv, PaymentInv, Recorded
  <2>2. \A t \in tasks : t.stage = "record" =>
          /\ PaymentOutcome(t.event) \in Terminal
          /\ Proven(t.order, PaymentOutcome(t.event))
    BY <1>1 DEF IInv, TaskInv, PaymentOutcome
  <2>3. init[o] = "store" => payment[o] = Absent
    BY <1>1 DEF IInv, CheckoutInv
  <2>4. PaymentChange(o)
    BY <1>1, PaymentStep DEF IInv
  <2> QED
    BY <1>1, <2>1, <2>2, <2>3, <2>4, OneOutcome DEF PaymentChange
<1>2. ASSUME IInv, [Next]_vars, ~PageRetry, NEW o \in Orders,
             order[o] \in {"paid", "cancelled"}
      PROVE  order'[o] = order[o]
  BY <1>2, SettledStays
<1>3. IInv /\ [Next]_vars /\ ~PageRetry =>
        [\A o \in Orders : payment[o] \in Terminal => payment'[o] = payment[o]]_vars
  BY <1>1
<1>4. IInv /\ [Next]_vars /\ ~PageRetry =>
        [\A o \in Orders :
           order[o] \in {"paid", "cancelled"} => order'[o] = order[o]]_vars
  BY <1>2
<1>5. CASE ~PageRetry
  BY <1>3, <1>4, <1>5, Inductive, PTL DEF Spec, LedgerFinal, OrderFinal
<1>6. CASE PageRetry
  BY <1>6
<1> QED
  BY <1>5, <1>6

\* A handler that has read the status it is to set still finds it set.
SeenHolds == \A p \in patches : p.seen = p.to => order[p.order] = p.to

\* Every action keeps what a handler has read true, where it matters: a settled
\* order stays settled.
LEMMA SeenHoldsStep ==
    ASSUME IInv, ~PageRetry, SeenHolds, [Next]_vars
    PROVE  SeenHolds'
<1> SUFFICES ASSUME NEW q \in patches', q.seen = q.to
             PROVE  order'[q.order] = q.to
  BY DEF SeenHolds
<1>1. PatchChange(q) /\ q.order \in Orders /\ q.to # Unread
  BY PatchStep DEF IInv, PatchRequests, OrderStatuses, Unread
<1>2. order[q.order] = q.to
  BY <1>1 DEF PatchChange, SeenHolds
<1>3. MayTell(q.order, q.to)
  BY <1>1, ToldBefore
<1>4. q.to \in {"paid", "cancelled"}
  BY <1>3 DEF MayTell, OrderOutcome
<1> QED
  BY <1>1, <1>2, <1>4, SettledStays

\* A 200 of the status endpoint means that the order has the status asked for
\* (order_client.update_order_status): the UPDATE of a handler that loaded the
\* status it sets is empty, and nothing has overwritten the status since.
THEOREM Acknowledged == ~PageRetry /\ Spec => AckMeansApplied
<1>1. Init => SeenHolds
  BY DEF Init, ServiceInit, OrderStatusInit, SeenHolds
<1>2. IInv /\ ~PageRetry /\ SeenHolds /\ [Next]_vars => SeenHolds'
  BY SeenHoldsStep
<1>3. ASSUME IInv, SeenHolds, NEW p \in patches, ApplyStatus(p)
      PROVE  order'[p.order] = p.to
  <2>1. /\ p.order \in Orders
        /\ order' = [order EXCEPT ![p.order] = NetChange(@, p.seen, p.to)]
    BY <1>3 DEF IInv, TypeOK, PatchRequests, ApplyStatus
  <2>2. order'[p.order] = NetChange(order[p.order], p.seen, p.to)
    BY <1>3, <2>1 DEF IInv, TypeOK
  <2> QED
    BY <1>3, <2>2 DEF NetChange, SeenHolds
<1>4. IInv /\ SeenHolds /\ [Next]_vars =>
        [\A p \in patches : ApplyStatus(p) => order'[p.order] = p.to]_vars
  BY <1>3
<1>5. CASE ~PageRetry
  BY <1>1, <1>2, <1>4, <1>5, Inductive, PTL DEF Spec, AckMeansApplied
<1>6. CASE PageRetry
  BY <1>6
<1> QED
  BY <1>5, <1>6
==============================================================================
