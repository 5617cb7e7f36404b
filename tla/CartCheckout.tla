---------------------------- MODULE CartCheckout ----------------------------
(***************************************************************************)
(* order-service before an order exists: the carts, their rows and the     *)
(* checkout that turns a cart into an order.  A request is a coroutine     *)
(* with a session of its own; it gives way at every statement it awaits,   *)
(* and each statement sees what is committed by then.  A row the session   *)
(* has loaded keeps the loaded values when a later SELECT returns it again *)
(* (the identity map), so a decision can rest on old values.               *)
(***************************************************************************)
EXTENDS Naturals, FiniteSets, Functions

CONSTANTS
    Users,        \* customers
    Carts,        \* bound: cart ids
    Rows,         \* bound: cart item ids
    Orders,       \* bound: order ids
    Variants,     \* product variants
    Requests,     \* bound: requests in hand at one time
    Prices,       \* prices a variant can have
    MaxQuantity,  \* bound: quantity of one row
    Serial,       \* TRUE: a customer waits for each answer before going on
    None          \* no cart, no row

ASSUME CartAssumption ==
    /\ MaxQuantity \in Nat \ {0}
    /\ Serial \in BOOLEAN
    /\ None \notin Users \cup Carts \cup Rows \cup Variants

VARIABLES
    carts,      \* carts[c]: owner and status of a cart row, or None
    rows,       \* rows[i]: a cart item row, or None; "gone" once deleted
    orders,     \* orders[n]: a committed order with its items, or None
    live,       \* live[v]: product-service's price, "out" of stock or "gone"
    session,    \* session[r]: the request r in hand
    added,      \* history: total quantity committed by add requests
    offered     \* history: prices on sale since checkout r began

vars == <<carts, rows, orders, live, session, added, offered>>

Kinds == {"get", "add", "remove", "checkout"}
Steps == {"idle", "find", "create", "refind", "load", "select", "write",
          "delete", "read", "verify"}

CartRecords == [user : Users, status : {"active", "checked_out"}]
RowRecords == [cart : Carts, variant : Variants, price : Prices,
               quantity : 1 .. MaxQuantity, gone : BOOLEAN]
Loaded == [row : Rows, variant : Variants, quantity : 1 .. MaxQuantity]
Priced == [row : Rows, variant : Variants, quantity : 1 .. MaxQuantity, price : Prices]
OrderRecords == [user : Users, cart : Carts, lines : SUBSET Priced]
SaleRecords == [user : Users, cart : Carts, bill : [Variants -> Nat]]

ASSUME RecordAssumption ==
    /\ None \notin CartRecords /\ None \notin RowRecords
    /\ None \notin OrderRecords /\ None \notin SaleRecords

Free == [pc |-> "idle", kind |-> "get", user |-> None, variant |-> None, price |-> None,
         cart |-> None, row |-> None, seen |-> {}, lines |-> {}]

Init ==
    /\ carts = [c \in Carts |-> None]
    /\ rows = [i \in Rows |-> None]
    /\ orders = [n \in Orders |-> None]
    /\ live \in [Variants -> Prices]
    /\ session = [r \in Requests |-> Free]
    /\ added = [c \in Carts |-> [v \in Variants |-> 0]]
    /\ offered = [r \in Requests |-> {}]

-----------------------------------------------------------------------------
(* What a SELECT returns now.                                               *)

RowsOf(c) == {i \in Rows : rows[i] # None /\ rows[i].cart = c /\ ~rows[i].gone}

\* Mutant: an inner join with the items, a cart without a row is not found.
ActiveCartsJoined(u) ==
    {c \in Carts : carts[c] = [user |-> u, status |-> "active"] /\ RowsOf(c) # {}}

ActiveCarts(u) == {c \in Carts : carts[c] = [user |-> u, status |-> "active"]}

Copy(i) == [row |-> i, variant |-> rows[i].variant, quantity |-> rows[i].quantity]

\* The session's object for row i: as loaded first, else as it is now.
Object(r, i) ==
    IF \E x \in session[r].seen : x.row = i
      THEN CHOOSE x \in session[r].seen : x.row = i
      ELSE Copy(i)

Go(r, change) == session' = [session EXCEPT ![r] = change]

\* The answer, whatever its status code: nothing is left of the request.
Answer(r) ==
    /\ Go(r, Free)
    /\ offered' = [offered EXCEPT ![r] = {}]

-----------------------------------------------------------------------------
\* A request arrives.  A row to remove is one the customer was shown.
Begin(r, u, kind, v, p, i) ==
    /\ session[r].pc = "idle"
    /\ Serial => \A q \in Requests : session[q].user # u
    /\ kind = "remove" => rows[i] # None /\ carts[rows[i].cart].user = u
    /\ Go(r, [Free EXCEPT !.pc = "find", !.kind = kind, !.user = u,
                !.variant = IF kind = "add" THEN v ELSE None,
                !.price = IF kind = "add" THEN p ELSE None,
                !.row = IF kind = "remove" THEN i ELSE None])
    /\ offered' = [offered EXCEPT ![r] =
                     {<<x, live[x]>> :
                        x \in {y \in Variants : kind = "checkout" /\ live[y] \in Prices}}]
    /\ UNCHANGED <<carts, rows, orders, live, added>>

\* get_active_cart: no cart, the cart, or MultipleResultsFound.
FindCart(r) ==
    /\ session[r].pc \in {"find", "refind"}
    /\ LET s == session[r]
           found == ActiveCarts(s.user)
       IN  \/ /\ Cardinality(found) = 1
              /\ \E c \in found : Go(r, [s EXCEPT !.pc = "load", !.cart = c])
              /\ UNCHANGED offered
           \/ /\ found = {} /\ s.pc = "find" /\ s.kind \in {"get", "add"}
              /\ Go(r, [s EXCEPT !.pc = "create"])
              /\ UNCHANGED offered
           \/ /\ found = {} => s.pc = "refind" \/ s.kind \in {"remove", "checkout"}
              /\ Cardinality(found) # 1
              /\ Answer(r)
    /\ UNCHANGED <<carts, rows, orders, live, added>>

\* Mutant: a cart of nobody's.
OwnerlessCart(u) == [user |-> None, status |-> "active"]
NewCart(u) == [user |-> u, status |-> "active"]

\* get_or_create_cart: the INSERT and its commit.
CreateCart(r) ==
    /\ session[r].pc = "create"
    /\ \E c \in Carts :
         /\ carts[c] = None
         /\ carts' = [carts EXCEPT ![c] = NewCart(session[r].user)]
    /\ Go(r, [session[r] EXCEPT !.pc = "refind"])
    /\ UNCHANGED <<rows, orders, live, added, offered>>

\* selectinload(Cart.items): the session's objects for the rows there are.
LoadRows(r) ==
    /\ session[r].pc = "load"
    /\ LET s == session[r]
           found == {Copy(i) : i \in RowsOf(s.cart)}
       IN  \/ /\ s.kind \in {"add", "remove"}
              /\ Go(r, [s EXCEPT !.pc = "select", !.seen = found])
              /\ UNCHANGED offered
           \/ /\ s.kind = "checkout" /\ found # {}
              /\ Go(r, [s EXCEPT !.pc = "read", !.seen = found])
              /\ UNCHANGED offered
           \/ /\ s.kind = "get" \/ (s.kind = "checkout" /\ found = {})
              /\ Answer(r)
    /\ UNCHANGED <<carts, rows, orders, live, added>>

-----------------------------------------------------------------------------
(* add_item and remove_item.                                                *)

SameVariant(r) ==
    {i \in RowsOf(session[r].cart) : rows[i].variant = session[r].variant}

\* Is the variant in the cart?  Two rows of it raise MultipleResultsFound.
SelectVariant(r) ==
    /\ session[r].pc = "select"
    /\ session[r].kind = "add"
    /\ LET s == session[r]
           found == SameVariant(r)
       IN  \/ /\ found = {}
              /\ Go(r, [s EXCEPT !.pc = "write"])
              /\ UNCHANGED offered
           \/ /\ Cardinality(found) = 1
              /\ \E i \in found :
                   Go(r, [s EXCEPT !.pc = "write", !.row = i, !.lines = {Object(r, i)}])
              /\ UNCHANGED offered
           \/ /\ Cardinality(found) > 1
              /\ Answer(r)
    /\ UNCHANGED <<carts, rows, orders, live, added>>

Count(c, v) == added' = [added EXCEPT ![c][v] = @ + 1]

\* A first row for the variant, committed.
InsertRow(r) ==
    /\ session[r].pc = "write"
    /\ session[r].row = None
    /\ \E i \in Rows :
         /\ rows[i] = None
         /\ rows' = [rows EXCEPT ![i] =
              [cart |-> session[r].cart, variant |-> session[r].variant,
               price |-> session[r].price, quantity |-> 1, gone |-> FALSE]]
    /\ Count(session[r].cart, session[r].variant)
    /\ Answer(r)
    /\ UNCHANGED <<carts, orders, live>>

\* Mutants: = n instead of += n; += n again after the refresh.
OnlyQuantity(x) == 1
TwiceQuantity(x) == x.quantity + 2
NewQuantity(x) == x.quantity + 1

\* quantity += n on the session's object, committed: the row gets the sum of
\* the loaded quantity, unless it was deleted (StaleDataError).
UpdateRow(r) ==
    /\ session[r].pc = "write"
    /\ \E x \in session[r].lines :
         IF rows[x.row].gone
           THEN UNCHANGED <<rows, added>>
           ELSE /\ x.quantity < MaxQuantity
                /\ rows' = [rows EXCEPT ![x.row].quantity = NewQuantity(x)]
                /\ Count(session[r].cart, session[r].variant)
    /\ Answer(r)
    /\ UNCHANGED <<carts, orders, live>>

\* Is the row in the cart?
SelectRow(r) ==
    /\ session[r].pc = "select"
    /\ session[r].kind = "remove"
    /\ IF session[r].row \in RowsOf(session[r].cart)
         THEN Go(r, [session[r] EXCEPT !.pc = "delete"]) /\ UNCHANGED offered
         ELSE Answer(r)
    /\ UNCHANGED <<carts, rows, orders, live, added>>

DeleteRow(r) ==
    /\ session[r].pc = "delete"
    /\ rows' = [rows EXCEPT ![session[r].row].gone = TRUE]
    /\ Answer(r)
    /\ UNCHANGED <<carts, orders, live, added>>

-----------------------------------------------------------------------------
(* OrderService.checkout.                                                   *)

\* The second SELECT of the rows: which rows is decided now, their values come
\* from the session's objects.
ReadItems(r) ==
    /\ session[r].pc = "read"
    /\ LET s == session[r]
           found == {Object(r, i) : i \in RowsOf(s.cart)}
       IN  IF found = {} THEN Answer(r)
           ELSE /\ Go(r, [s EXCEPT !.pc = "verify", !.seen = found])
                /\ UNCHANGED offered
    /\ UNCHANGED <<carts, rows, orders, live, added>>

\* Mutant: the price kept in the cart is used instead of the live one.
PriceOfCart(r, x) == rows[x.row].price
PriceOf(r, x) == live[x.variant]

\* get_variant for the next item: the live price is locked.
VerifyItem(r, x) ==
    /\ session[r].pc = "verify"
    /\ x \in session[r].seen
    /\ live[x.variant] \in Prices
    /\ Go(r, [session[r] EXCEPT
                !.seen = @ \ {x},
                !.lines = @ \cup {[row |-> x.row, variant |-> x.variant,
                                   quantity |-> x.quantity, price |-> PriceOf(r, x)]}])
    /\ UNCHANGED <<carts, rows, orders, live, added, offered>>

\* An item is not available, or product-service does not answer: 400.
RejectCheckout(r) ==
    /\ session[r].pc = "verify"
    /\ session[r].seen # {}
    /\ Answer(r)
    /\ UNCHANGED <<carts, rows, orders, live, added>>

\* Mutant: one verified item is enough.
OneVerified(r) == session[r].lines # {}
AllVerified(r) == session[r].seen = {}

\* Mutant: the cart is left active.
NotMarked(c) == carts
MarkedCheckedOut(c) == [carts EXCEPT ![c].status = "checked_out"]

\* Order, items and the cart's status in one commit.
CommitCheckout(r) ==
    /\ session[r].pc = "verify"
    /\ AllVerified(r)
    /\ \E n \in Orders :
         /\ orders[n] = None
         /\ orders' = [orders EXCEPT ![n] =
              [user |-> session[r].user, cart |-> session[r].cart,
               lines |-> session[r].lines]]
    /\ carts' = MarkedCheckedOut(session[r].cart)
    /\ Answer(r)
    /\ UNCHANGED <<rows, live, added>>

-----------------------------------------------------------------------------
\* product-service switches a product off or on, or deletes it for good (see
\* Catalog); a price is changed in its database, no route does.
ChangeVariant(v, x) ==
    /\ live[v] \notin {x, "gone"}
    /\ live' = [live EXCEPT ![v] = x]
    /\ offered' = [r \in Requests |->
         IF session[r].kind = "checkout" /\ x \in Prices THEN offered[r] \cup {<<v, x>>}
         ELSE offered[r]]
    /\ UNCHANGED <<carts, rows, orders, session, added>>

\* A connection is lost or order-service restarts: the session rolls back.
AbortRequest(r) ==
    /\ session[r].pc # "idle"
    /\ Answer(r)
    /\ UNCHANGED <<carts, rows, orders, live, added>>

RequestStep(r) ==
    \/ FindCart(r)
    \/ CreateCart(r)
    \/ LoadRows(r)
    \/ SelectVariant(r)
    \/ InsertRow(r)
    \/ UpdateRow(r)
    \/ SelectRow(r)
    \/ DeleteRow(r)
    \/ ReadItems(r)
    \/ \E x \in session[r].seen : VerifyItem(r, x)
    \/ RejectCheckout(r)
    \/ CommitCheckout(r)
    \/ AbortRequest(r)

Next ==
    \/ \E r \in Requests : RequestStep(r)
    \/ \E r \in Requests, u \in Users, kind \in Kinds, v \in Variants, p \in Prices,
          i \in Rows : Begin(r, u, kind, v, p, i)
    \/ \E v \in Variants, x \in Prices \cup {"out", "gone"} : ChangeVariant(v, x)

Spec == Init /\ [][Next]_vars

-----------------------------------------------------------------------------
(* Properties that hold however requests interleave.                        *)

\* Types of the tables and of a request's locals.
TypeOK ==
    /\ carts \in [Carts -> CartRecords \cup {None}]
    /\ rows \in [Rows -> RowRecords \cup {None}]
    /\ \A n \in Orders : orders[n] = None \/
         /\ orders[n].user \in Users /\ orders[n].cart \in Carts
         /\ orders[n].lines \subseteq Priced
    /\ live \in [Variants -> Prices \cup {"out", "gone"}]
    /\ \A r \in Requests :
         /\ session[r].pc \in Steps /\ session[r].kind \in Kinds
         /\ session[r].user \in Users \cup {None}
         /\ session[r].cart \in Carts \cup {None}
         /\ session[r].row \in Rows \cup {None}
         /\ session[r].seen \subseteq Loaded
         /\ session[r].lines \subseteq Loaded \cup Priced
         /\ offered[r] \subseteq Variants \X Prices
    /\ added \in [Carts -> [Variants -> Nat]]

\* The quantity of v that the rows of cart c stand for, deleted ones included.
InRows(c, v) ==
    LET mine == {i \in Rows : rows[i] # None /\ rows[i].cart = c /\ rows[i].variant = v}
    IN  SumFunction([i \in mine |-> rows[i].quantity])

\* The quantity of v that order n bills.
Billed(n, v) ==
    SumFunction([x \in {y \in orders[n].lines : y.variant = v} |-> x.quantity])

\* A customer is never billed for more of a variant than add requests put into
\* the cart, lost updates and stale objects notwithstanding: the lines come
\* from the session's objects, which another request may have overtaken.
NeverBilledMoreThanAdded ==
    \A n \in Orders, v \in Variants :
        orders[n] # None => Billed(n, v) <= added[orders[n].cart][v]

\* Order and cart status are one commit: whatever is interrupted and whichever
\* requests race, a cart is checked out exactly when an order was made from it.
CheckedOutMeansOrdered ==
    \A c \in Carts :
        (carts[c] # None /\ carts[c].status = "checked_out")
            <=> \E n \in Orders : orders[n] # None /\ orders[n].cart = c

\* "Re-verify each cart item's price": each line of a new order has a price at
\* which the variant was on sale at some moment of that checkout.
PricesWereOnSale ==
    [][\A n \in Orders : orders[n] = None /\ orders'[n] # None =>
         \E r \in Requests :
            /\ session[r].pc = "verify" /\ session'[r].pc = "idle"
            /\ \A x \in orders'[n].lines : <<x.variant, x.price>> \in offered[r]]_vars

-----------------------------------------------------------------------------
(* Properties of a customer who waits for each answer (Serial).             *)

\* "Get or create the active cart" (order_routes.py): there is one at most.
OneActiveCart ==
    \A u \in Users :
        Cardinality({c \in Carts : carts[c] = [user |-> u, status |-> "active"]}) <= 1

\* A cart is sold once.
OneOrderPerCart ==
    \A m, n \in Orders :
        orders[m] # None /\ orders[n] # None /\ orders[m].cart = orders[n].cart => m = n

\* "If the same variant is already in the cart, increment quantity rather than
\* adding a second row" (cart_service.py), and no increment is lost.
NothingLost ==
    \A c \in Carts, v \in Variants :
        /\ InRows(c, v) = added[c][v]
        /\ Cardinality({i \in RowsOf(c) : rows[i].variant = v}) <= 1

\* The order holds what the cart holds: every row with its whole quantity.
OrderIsCart ==
    \A n \in Orders :
        orders[n] # None =>
            {[row |-> x.row, variant |-> x.variant, quantity |-> x.quantity] :
                 x \in orders[n].lines}
              = {Copy(i) : i \in RowsOf(orders[n].cart)}

\* What cart c holds of v now.
Holds(c, v) ==
    SumFunction([i \in {j \in RowsOf(c) : rows[j].variant = v} |-> rows[i].quantity])

\* What the customers see of the tables.
Owners == [c \in Carts |-> IF carts[c] = None THEN None ELSE carts[c].user]
Baskets == [c \in Carts |-> [v \in Variants |-> Holds(c, v)]]
Sales == [n \in Orders |->
    IF orders[n] = None THEN None
    ELSE [user |-> orders[n].user, cart |-> orders[n].cart,
          bill |-> [v \in Variants |-> Billed(n, v)]]]

AtOnce == INSTANCE Shop WITH owner <- Owners, basket <- Baskets, sale <- Sales

\* Though every request is several statements with commits in between, and can be
\* lost at each, the customer sees requests that happen at once or not at all (Shop).
ImplementsShop == AtOnce!Spec
==============================================================================
