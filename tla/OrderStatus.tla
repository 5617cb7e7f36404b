----------------------------- MODULE OrderStatus -----------------------------
(***************************************************************************)
(* The status column of order-service's orders table and the endpoint that *)
(* changes it, PATCH /orders/{order_id}/status.  A handler of the endpoint *)
(* is two database statements with an await between them: the SELECT that  *)
(* loads the row into the session, and the commit.  Handlers of several    *)
(* callers interleave, and a handler outlives a caller that timed out.     *)
(***************************************************************************)
EXTENDS Naturals

CONSTANTS
    Orders,     \* order ids
    Calls,      \* bound: PATCH requests alive at one time
    Nobody      \* "by" of a request whose caller no longer waits

VARIABLES
    order,      \* order[o]: the status column of row o, or Absent
    patches     \* requests sent to the endpoint and not finished there

statusVars == <<order, patches>>

Absent == "absent"
Unread == "unread"

OrderStatuses ==
    {"draft", "pending_payment", "confirmed", "paid", "shipped", "delivered",
     "cancelled"}

\* by: who waits for the answer; seen: the status the handler's SELECT loaded.
PatchRequests(callers) ==
    [id : Calls, by : callers \cup {Nobody}, order : Orders,
     to : OrderStatuses, seen : OrderStatuses \cup {Unread}]

OrderStatusInit ==
    /\ order = [o \in Orders |-> Absent]
    /\ patches = {}

-----------------------------------------------------------------------------
\* The commit of a checkout: the row exists from here on.
PlaceOrder(o) ==
    /\ order[o] = Absent
    /\ order' = [order EXCEPT ![o] = "pending_payment"]
    /\ UNCHANGED patches

\* A client issues the request and waits.
SendPatch(caller, o, s) ==
    \E i \in Calls \ {p.id : p \in patches} :
        /\ patches' = patches \cup
             {[id |-> i, by |-> caller, order |-> o, to |-> s, seen |-> Unread]}
        /\ UNCHANGED order

\* The client's own timeout: it stops waiting, the handler keeps running.
AbandonPatch(p) ==
    /\ patches' = (patches \ {p}) \cup {[p EXCEPT !.by = Nobody]}
    /\ UNCHANGED order

\* The callers' process dies: nobody waits for its requests any more.
AbandonAll(callers) ==
    /\ patches' = {[p EXCEPT !.by = IF p.by \in callers THEN Nobody ELSE p.by] : p \in patches}
    /\ UNCHANGED order

\* The handler's SELECT.
LoadOrder(p) ==
    /\ p.seen = Unread
    /\ order[p.order] # Absent
    /\ patches' = (patches \ {p}) \cup {[p EXCEPT !.seen = order[p.order]]}
    /\ UNCHANGED order

\* What the session writes for a column assigned "new" after it loaded "seen":
\* an UPDATE names only the columns whose value really changed.
NetChange(current, seen, new) == IF new = seen THEN current ELSE new

\* Mutant: 200 is answered without the commit.
ApplyStatusUncommitted(p) ==
    /\ p.seen # Unread
    /\ patches' = patches \ {p}
    /\ UNCHANGED order

\* The handler's assignment, commit and 200 answer.
ApplyStatus(p) ==
    /\ p.seen # Unread
    /\ order' = [order EXCEPT ![p.order] = NetChange(@, p.seen, p.to)]
    /\ patches' = patches \ {p}

\* No 200 and no effect: unreachable, 404, 500, or order-service restarted.
RefusePatch(p) ==
    /\ patches' = patches \ {p}
    /\ UNCHANGED order
==============================================================================
