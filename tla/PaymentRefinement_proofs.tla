----------------------- MODULE PaymentRefinement_proofs -----------------------
(***************************************************************************)
(* The payment saga implements Settlement: a step of the saga changes at   *)
(* most one of the four things Settlement speaks of, and when it does, the *)
(* inductive invariant supplies the guard of the abstract action.          *)
(***************************************************************************)
EXTENDS PaymentSaga_proofs

USE DEF Absent, Unread, Terminal, Events

\* What Settlement sees of the saga, and a step it does not see.
Hidden ==
    /\ UNCHANGED <<order, payment, failed>>
    /\ \A o \in Orders : (charge[o] = "success") = (charge'[o] = "success")

\* A step of a handler that leaves orders, payments and Paystack's books alone
\* is a stuttering step of Settlement.
LEMMA HiddenStutters ==
    ASSUME Hidden
    PROVE  UNCHANGED Abstract!vars
BY DEF Hidden, Abstract!vars

\* The initial states of the saga are initial states of Settlement.
LEMMA InitRefines == Init => Abstract!Init
<1> SUFFICES ASSUME Init PROVE Abstract!Init
  OBVIOUS
<1>1. /\ \A o \in Orders : ~(failed[o] > 0)
      /\ \A o \in Orders : charge[o] # "success"
  BY DEF Init, ServiceInit
<1>2. /\ {o \in Orders : charge[o] = "success"} = {}
      /\ {o \in Orders : failed[o] > 0} = {}
  BY <1>1
<1> QED
  BY <1>2 DEF Init, ServiceInit, OrderStatusInit, Abstract!Init

\* The commit of a checkout is Place, the stored payment row is Bill.
LEMMA CheckoutRefines ==
    ASSUME IInv, NEW o \in Orders, CheckoutStep(o)
    PROVE  Hidden \/ Abstract!Place(o) \/ Abstract!Bill(o)
<1>1. ASSUME CommitCheckout(o)
      PROVE  Abstract!Place(o)
  BY <1>1 DEF CommitCheckout, PlaceOrder, paystackVars, Abstract!Place
<1>2. ASSUME StorePayment(o)
      PROVE  Abstract!Bill(o)
  <2>1. order[o] # Absent /\ payment[o] = Absent
    BY <1>2 DEF StorePayment, IInv, CheckoutInv
  <2> QED
    BY <1>2, <2>1 DEF StorePayment, paystackVars, statusVars, Abstract!Bill
<1>3. ASSUME OpenTransaction(o)
      PROVE  Hidden
  <2>1. charge[o] = "none" /\ charge \in [Orders -> ChargeStates]
    BY <1>3 DEF OpenTransaction, IInv, CheckoutInv, TypeOK
  <2> QED
    BY <1>3, <2>1 DEF OpenTransaction, statusVars, Hidden
<1> QED
  BY <1>1, <1>2, <1>3 DEF CheckoutStep, CallInitialize, FailInitialize, TimeoutInitialize,
     LoseCheckout, paystackVars, statusVars, Hidden

\* The customer's attempts are Charge and Refuse; deliveries are not seen.
LEMMA PaystackRefines ==
    ASSUME IInv, NEW o \in Orders, PaystackStep(o)
    PROVE  Hidden \/ Abstract!Charge(o) \/ Abstract!Refuse(o)
<1>1. /\ charge \in [Orders -> ChargeStates]
      /\ failed \in [Orders -> Nat]
  BY DEF IInv, TypeOK
<1>2. ASSUME AttemptFails(o)
      PROVE  Abstract!Refuse(o)
  <2>1. /\ payment[o] # "absent"
        /\ charge[o] = "open"
        /\ failed' = [failed EXCEPT ![o] = @ + 1]
        /\ \E c \in {"open", "closed"} : charge' = [charge EXCEPT ![o] = c]
        /\ UNCHANGED <<payment, order>>
    BY <1>2 DEF AttemptFails, Payable, statusVars
  <2>2. {x \in Orders : failed'[x] > 0} = {x \in Orders : failed[x] > 0} \cup {o}
    BY <1>1, <2>1
  <2>3. {x \in Orders : charge'[x] = "success"} = {x \in Orders : charge[x] = "success"}
    BY <1>1, <2>1
  <2> QED
    BY <2>1, <2>2, <2>3 DEF Abstract!Refuse
<1>3. ASSUME AttemptSucceeds(o)
      PROVE  Abstract!Charge(o)
  <2>1. /\ payment[o] # "absent"
        /\ charge' = [charge EXCEPT ![o] = "success"]
        /\ UNCHANGED <<payment, order, failed>>
    BY <1>3 DEF AttemptSucceeds, Payable, statusVars
  <2>2. {x \in Orders : charge'[x] = "success"} =
          {x \in Orders : charge[x] = "success"} \cup {o}
    BY <1>1, <2>1
  <2> QED
    BY <2>1, <2>2 DEF Abstract!Charge
<1> QED
  BY <1>2, <1>3 DEF PaystackStep, StaleNotice, FailDelivery, AcceptWebhook, statusVars, Hidden

\* A request's commit is Settle, unless it writes nothing.
LEMMA ApplyRefines ==
    ASSUME IInv, NEW p \in patches, ApplyStatus(p),
           UNCHANGED <<charge, failed, payment>>
    PROVE  Hidden \/ \E o \in Orders, s \in Terminal : Abstract!Settle(o, s)
<1>1. /\ p.order \in Orders
      /\ order \in [Orders -> OrderStatuses \cup {Absent}]
  BY DEF IInv, TypeOK, PatchRequests
<1>2. /\ MayTell(p.order, p.to)
      /\ order[p.order] # Absent
      /\ order' = [order EXCEPT ![p.order] = NetChange(@, p.seen, p.to)]
  BY DEF IInv, PatchInv, ApplyStatus
<1>3. PICK s \in Terminal : p.to = OrderOutcome(s) /\ Proven(p.order, s)
  BY <1>2 DEF MayTell
<1>4. CASE p.to = p.seen
  BY <1>1, <1>2, <1>4 DEF NetChange, Hidden
<1>5. CASE p.to # p.seen
  <2>1. order' = [order EXCEPT ![p.order] = OrderOutcome(s)]
    BY <1>2, <1>3, <1>5 DEF NetChange
  <2>2. Abstract!Settle(p.order, s)
    BY <1>1, <1>2, <1>3, <2>1 DEF Abstract!Settle, Abstract!Evidence, Abstract!Outcome,
       Abstract!Terminal, MayTell, Recorded, Proven, OrderOutcome
  <2> QED
    BY <1>1, <2>2
<1> QED
  BY <1>4, <1>5

\* A task's commit is Record, its answered call Settle.
LEMMA TaskRefines ==
    ASSUME IInv, NEW t \in tasks, TaskStep(t)
    PROVE  Hidden \/ \E o \in Orders, s \in Terminal :
                        Abstract!Record(o, s) \/ Abstract!Settle(o, s)
<1>1. UNCHANGED <<charge, failed>>
  BY TaskFrame
<1>2. ASSUME RecordPayment(t)
      PROVE  Hidden \/ \E o \in Orders, s \in Terminal : Abstract!Record(o, s)
  <2> DEFINE s == PaymentOutcome(t.event)
  <2>1. /\ t.order \in Orders
        /\ s \in Terminal
        /\ payment \in [Orders -> PaymentStatuses \cup {Absent}]
    BY DEF IInv, TypeOK, TaskRecords, PaymentOutcome
  <2>2. Proven(t.order, s) /\ payment[t.order] # Absent
    BY <1>2 DEF RecordPayment, IInv, TaskInv
  <2>3. /\ payment' = [payment EXCEPT ![t.order] = NetChange(@, t.seen, s)]
        /\ UNCHANGED order
    BY <1>2 DEF RecordPayment, statusVars
  <2> HIDE DEF s
  <2>4. CASE s = t.seen
    BY <1>1, <2>1, <2>3, <2>4 DEF NetChange, Hidden
  <2>5. CASE s # t.seen
    <3>1. payment' = [payment EXCEPT ![t.order] = s]
      BY <2>3, <2>5 DEF NetChange
    <3>2. Abstract!Record(t.order, s)
      BY <1>1, <2>1, <2>2, <2>3, <3>1 DEF Abstract!Record, Abstract!Evidence, Proven
    <3> QED
      BY <2>1, <3>2
  <2> QED
    BY <2>4, <2>5
<1>3. ASSUME NEW p \in patches, OutcomeApplied(t, p)
      PROVE  Hidden \/ \E o \in Orders, s \in Terminal : Abstract!Settle(o, s)
  BY <1>1, <1>3, ApplyRefines DEF OutcomeApplied
<1> QED
  BY <1>1, <1>2, <1>3 DEF TaskStep, LookupPayment, ConfirmCharge, DropTask, SendOutcome,
     SendPatch, OutcomeRefused, RefusePatch, OutcomeTimedOut, AbandonPatch, PublishOutcome,
     statusVars, Hidden

\* The handler of a status request, answered or orphaned, is Settle or a stutter.
LEMMA HandlerRefines ==
    ASSUME IInv, NEW p \in patches, Handle(p) \/ FinishOrphan(p)
    PROVE  Hidden \/ \E o \in Orders, s \in Terminal : Abstract!Settle(o, s)
BY HandlerFrame, ApplyRefines DEF Handle, LoadOrder, FinishOrphan, RefusePatch, Hidden

\* The script's steps are Settle, when a fix lands, or a stutter.
LEMMA CronRefines ==
    ASSUME IInv, CronStep
    PROVE  Hidden \/ \E o \in Orders, s \in Terminal : Abstract!Settle(o, s)
<1>1. ASSUME NEW p \in patches, FixApplied(p)
      PROVE  Hidden \/ \E o \in Orders, s \in Terminal : Abstract!Settle(o, s)
  BY <1>1, CronFrame, ApplyRefines DEF FixApplied
<1> QED
  BY <1>1, CronFrame DEF CronStep, FetchPayments, FetchOrders, SendFix, SendPatch, FixFailed,
     RefusePatch, AbandonPatch, CronAborts, AbandonAll, statusVars, Hidden

\* Every step of the saga is a step of Settlement or invisible there.
LEMMA StepRefines ==
    ASSUME IInv, [Next]_vars
    PROVE  [Abstract!Next]_(Abstract!vars)
<1>1. CrashPaymentService => Hidden
  BY CrashFrame DEF Hidden
<1>2. UNCHANGED vars => Hidden
  BY DEF vars, Hidden
<1>3. \/ Hidden
      \/ \E o \in Orders :
           \/ Abstract!Place(o)
           \/ Abstract!Bill(o)
           \/ Abstract!Charge(o)
           \/ Abstract!Refuse(o)
           \/ \E s \in Terminal : Abstract!Record(o, s) \/ Abstract!Settle(o, s)
  BY <1>1, <1>2, StepKinds, CheckoutRefines, PaystackRefines, TaskRefines, HandlerRefines,
     CronRefines
<1> QED
  BY <1>3, HiddenStutters DEF Abstract!Next, Abstract!Terminal

\* The saga implements the abstract settlement, for any number of orders,
\* tasks and requests, with or without a second attempt on the payment page.
THEOREM Refinement == Spec => ImplementsSettlement
<1>1. Init => Abstract!Init
  BY InitRefines
<1>2. IInv /\ [Next]_vars => [Abstract!Next]_(Abstract!vars)
  BY StepRefines
<1> QED
  BY <1>1, <1>2, Inductive, PTL DEF Spec, ImplementsSettlement, Abstract!Spec
==============================================================================
