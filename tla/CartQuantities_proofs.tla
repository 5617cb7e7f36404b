------------------------- MODULE CartQuantities_proofs -------------------------
(***************************************************************************)
(* Quantities in carts and orders, for any number of customers, carts, rows *)
(* and requests.  A quantity is read as a set of units <<row, k>>, so that *)
(* "added" counts the units that were ever committed: however requests     *)
(* interleave no order bills a unit twice or one that was never added, and *)
(* a customer who waits for each answer loses none.                        *)
(***************************************************************************)
EXTENDS CartCheckout_proofs, FunctionTheorems, Sums

USE CartAssumption

-----------------------------------------------------------------------------
(* One request writes one row.                                              *)

\* Row i becomes t, in the cart of request r, which is answered.
Writes(r, i, t) ==
    /\ rows' = [rows EXCEPT ![i] = t]
    /\ t.cart = session[r].cart
    /\ session' = [session EXCEPT ![r] = Free]
    /\ UNCHANGED <<carts, orders>>

Inserts(r, i, t) ==
    /\ session[r].pc = "write" /\ session[r].row = None
    /\ rows[i] = None
    /\ t.variant = session[r].variant /\ t.quantity = 1 /\ ~t.gone
    /\ Count(session[r].cart, session[r].variant)

Increments(r, i, t) ==
    /\ session[r].pc = "write"
    /\ rows[i] # None /\ ~rows[i].gone
    /\ t.variant = rows[i].variant /\ ~t.gone
    /\ \E x \in session[r].lines : x.row = i /\ t.quantity = x.quantity + 1
    /\ Count(session[r].cart, session[r].variant)

Deletes(r, i, t) ==
    /\ session[r].pc = "delete"
    /\ rows[i] # None
    /\ t.variant = rows[i].variant /\ t.quantity = rows[i].quantity /\ t.gone
    /\ UNCHANGED added

LEMMA RowSteps ==
    ASSUME Tables, InHand, Placed, [Next]_vars
    PROVE  \/ UNCHANGED <<rows, added>>
           \/ \E r \in Requests, i \in Rows, t \in RowRecords :
                 Writes(r, i, t) /\ (Inserts(r, i, t) \/ Increments(r, i, t) \/ Deletes(r, i, t))
<1> DEFINE Written == \E r \in Requests, i \in Rows, t \in RowRecords :
                 Writes(r, i, t) /\ (Inserts(r, i, t) \/ Increments(r, i, t) \/ Deletes(r, i, t))
<1>1. ASSUME NEW r \in Requests, InsertRow(r)
      PROVE  Written
  <2>1. /\ session[r].cart \in Carts /\ session[r].variant \in Variants
        /\ session[r].price \in Prices
    BY <1>1 DEF InsertRow, InHand, RequestOK, WithCart
  <2> DEFINE new == [cart |-> session[r].cart, variant |-> session[r].variant,
                     price |-> session[r].price, quantity |-> 1, gone |-> FALSE]
  <2>a. new \in RowRecords
    BY <2>1 DEF RowRecords
  <2>2. PICK t \in RowRecords : t = new
    BY <2>a
  <2>3. PICK i \in Rows : rows[i] = None /\ rows' = [rows EXCEPT ![i] = t]
    BY <1>1, <2>2 DEF InsertRow
  <2>4. session' = [session EXCEPT ![r] = Free] /\ UNCHANGED <<carts, orders>>
    BY <1>1 DEF InsertRow, Answer, Go
  <2>5. /\ session[r].pc = "write" /\ session[r].row = None
        /\ Count(session[r].cart, session[r].variant)
    BY <1>1 DEF InsertRow
  <2>6. /\ t.cart = session[r].cart /\ t.variant = session[r].variant
        /\ t.quantity = 1 /\ ~t.gone
    BY <2>2
  <2>7. Writes(r, i, t) /\ Inserts(r, i, t)
    BY <2>3, <2>4, <2>5, <2>6 DEF Writes, Inserts
  <2> QED
    BY <2>7
<1>2. ASSUME NEW r \in Requests, UpdateRow(r), ~UNCHANGED <<rows, added>>
      PROVE  Written
  <2>1. PICK x \in session[r].lines :
           /\ ~rows[x.row].gone
           /\ x.quantity < MaxQuantity
           /\ rows' = [rows EXCEPT ![x.row].quantity = NewQuantity(x)]
           /\ Count(session[r].cart, session[r].variant)
    BY <1>2 DEF UpdateRow
  <2>2. PICK i \in Rows : /\ i = x.row /\ rows[i] # None
                          /\ rows[i].cart = session[r].cart
                          /\ x.quantity \in 1 .. MaxQuantity
    BY DEF Placed, InHand, RequestOK, SessionRecords, Loaded, Priced
  <2>3. rows[i] \in RowRecords /\ NewQuantity(x) = x.quantity + 1
        /\ x.quantity + 1 \in 1 .. MaxQuantity
    BY <2>1, <2>2 DEF Tables, NewQuantity
  <2>4. /\ [rows[i] EXCEPT !.quantity = NewQuantity(x)] \in RowRecords
        /\ [rows[i] EXCEPT !.quantity = NewQuantity(x)].cart = rows[i].cart
        /\ [rows[i] EXCEPT !.quantity = NewQuantity(x)].variant = rows[i].variant
        /\ [rows[i] EXCEPT !.quantity = NewQuantity(x)].gone = rows[i].gone
        /\ [rows[i] EXCEPT !.quantity = NewQuantity(x)].quantity = x.quantity + 1
    BY <2>3 DEF RowRecords
  <2>5. PICK t \in RowRecords :
           /\ t = [rows[i] EXCEPT !.quantity = NewQuantity(x)]
           /\ t.cart = rows[i].cart /\ t.variant = rows[i].variant
           /\ t.gone = rows[i].gone /\ t.quantity = x.quantity + 1
    BY <2>4
  <2>6. rows' = [rows EXCEPT ![i] = t]
    BY <2>1, <2>2, <2>5
  <2>7. session' = [session EXCEPT ![r] = Free] /\ UNCHANGED <<carts, orders>>
        /\ session[r].pc = "write"
    BY <1>2 DEF UpdateRow, Answer, Go
  <2>8. Writes(r, i, t) /\ Increments(r, i, t)
    BY <2>1, <2>2, <2>5, <2>6, <2>7 DEF Writes, Increments
  <2> QED
    BY <2>8
<1>3. ASSUME NEW r \in Requests, DeleteRow(r)
      PROVE  Written
  <2>1. PICK i \in Rows : /\ i = session[r].row /\ rows[i] # None
                          /\ rows[i].cart = session[r].cart
    BY <1>3 DEF DeleteRow, InHand, RequestOK, Placed
  <2>2. rows[i] \in RowRecords
    BY <2>1 DEF Tables
  <2>3. [rows[i] EXCEPT !.gone = TRUE] \in RowRecords
    BY <2>2, GoneIsRow DEF RowRecords
  <2>4. /\ [rows[i] EXCEPT !.gone = TRUE].cart = rows[i].cart
        /\ [rows[i] EXCEPT !.gone = TRUE].variant = rows[i].variant
        /\ [rows[i] EXCEPT !.gone = TRUE].quantity = rows[i].quantity
        /\ [rows[i] EXCEPT !.gone = TRUE].gone
    BY <2>2 DEF RowRecords
  <2>5. PICK t \in RowRecords :
           /\ t = [rows[i] EXCEPT !.gone = TRUE]
           /\ t.cart = rows[i].cart /\ t.variant = rows[i].variant
           /\ t.gone /\ t.quantity = rows[i].quantity
    BY <2>3, <2>4
  <2>6. rows' = [rows EXCEPT ![i] = t]
    BY <1>3, <2>1, <2>5 DEF DeleteRow
  <2>7. session' = [session EXCEPT ![r] = Free] /\ UNCHANGED <<carts, orders, added>>
        /\ session[r].pc = "delete"
    BY <1>3 DEF DeleteRow, Answer, Go
  <2>8. Writes(r, i, t) /\ Deletes(r, i, t)
    BY <2>1, <2>5, <2>6, <2>7 DEF Writes, Deletes
  <2> QED
    BY <2>8
<1> QED
  BY <1>1, <1>2, <1>3, Writers

\* A row keeps its variant.
LEMMA VariantKept ==
    ASSUME Tables, InHand, Placed, [Next]_vars, NEW i \in Rows, rows[i] # None
    PROVE  rows'[i].variant = rows[i].variant
<1>1. ASSUME NEW r \in Requests, NEW j \in Rows, NEW t \in RowRecords, Writes(r, j, t),
             Inserts(r, j, t) \/ Increments(r, j, t) \/ Deletes(r, j, t)
      PROVE  rows'[i].variant = rows[i].variant
  BY <1>1 DEF Writes, Inserts, Increments, Deletes, Tables
<1> QED
  BY <1>1, RowSteps

\* A request keeps its kind and its variant, and its row until it finds one.
LEMMA LocalsKept ==
    ASSUME InHand, [Next]_vars, NEW r \in Requests
    PROVE  \/ session'[r] = session[r]
           \/ session'[r] = Free
           \/ /\ session'[r].pc = "find" /\ session'[r].seen = {} /\ session'[r].lines = {}
              /\ session'[r].kind = "add" => session'[r].row = None
           \/ /\ session'[r].pc \notin {"idle", "find"}
              /\ session'[r].kind = session[r].kind
              /\ session'[r].variant = session[r].variant
              /\ session'[r].row = session[r].row \/ SelectVariant(r)
<1> DEFINE Kept == /\ session'[r].pc \notin {"idle", "find"}
                   /\ session'[r].kind = session[r].kind
                   /\ session'[r].variant = session[r].variant
                   /\ session'[r].row = session[r].row \/ SelectVariant(r)
<1>0. session \in [Requests -> SessionRecords] /\ session[r] \in SessionRecords
  BY DEF InHand
<1>1. Answer(r) => session'[r] = Free
  BY <1>0 DEF Answer, Go
<1>2. ASSUME NEW u, NEW kind, NEW v, NEW p, NEW i, Begin(r, u, kind, v, p, i)
      PROVE  /\ session'[r].pc = "find" /\ session'[r].seen = {} /\ session'[r].lines = {}
             /\ session'[r].kind = "add" => session'[r].row = None
  BY <1>0, <1>2 DEF Begin, Go, Free
<1>3. FindCart(r) => Answer(r) \/ Kept
  <2>1. ASSUME NEW c, Go(r, [session[r] EXCEPT !.pc = "load", !.cart = c])
        PROVE  Kept
    BY <1>0, <2>1 DEF Go, SessionRecords
  <2>2. Go(r, [session[r] EXCEPT !.pc = "create"]) => Kept
    BY <1>0 DEF Go, SessionRecords
  <2> QED
    BY <2>1, <2>2 DEF FindCart
<1>4. CreateCart(r) => Kept
  BY <1>0 DEF CreateCart, Go, SessionRecords
<1>5. LoadRows(r) \/ ReadItems(r) => Answer(r) \/ Kept
  <2>1. ASSUME NEW pc \in {"select", "read", "verify"}, NEW found,
               Go(r, [session[r] EXCEPT !.pc = pc, !.seen = found])
        PROVE  Kept
    BY <1>0, <2>1 DEF Go, SessionRecords
  <2>2. LoadRows(r) => Answer(r) \/ Kept
    BY <2>1 DEF LoadRows
  <2>3. ReadItems(r) => Answer(r) \/ Kept
    BY <2>1 DEF ReadItems
  <2> QED
    BY <2>2, <2>3
<1>6. SelectVariant(r) => Answer(r) \/ Kept
  <2>1. Go(r, [session[r] EXCEPT !.pc = "write"]) => Kept
    BY <1>0 DEF Go, SessionRecords
  <2>2. ASSUME NEW i, NEW L, Go(r, [session[r] EXCEPT !.pc = "write", !.row = i, !.lines = L])
        PROVE  /\ session'[r].pc = "write" /\ session'[r].kind = session[r].kind
               /\ session'[r].variant = session[r].variant
    BY <1>0, <2>2 DEF Go, SessionRecords
  <2> QED
    BY <2>1, <2>2 DEF SelectVariant
<1>7. SelectRow(r) => Answer(r) \/ Kept
  BY <1>0 DEF SelectRow, Go, SessionRecords
<1>8. ASSUME NEW x \in session[r].seen, VerifyItem(r, x)
      PROVE  Kept
  <2>1. ASSUME NEW seen, NEW L, Go(r, [session[r] EXCEPT !.seen = seen, !.lines = L]),
               session[r].pc = "verify"
        PROVE  Kept
    BY <1>0, <2>1 DEF Go, SessionRecords
  <2> QED
    BY <1>8, <2>1 DEF VerifyItem
<1>9. InsertRow(r) \/ UpdateRow(r) \/ DeleteRow(r) \/ RejectCheckout(r) \/ CommitCheckout(r)
        \/ AbortRequest(r) => Answer(r)
  BY DEF InsertRow, UpdateRow, DeleteRow, RejectCheckout, CommitCheckout, AbortRequest
<1>10. RequestStep(r) => Answer(r) \/ Kept
  BY <1>3, <1>4, <1>5, <1>6, <1>7, <1>8, <1>9 DEF RequestStep
<1> QED
  BY <1>1, <1>2, <1>10, Moves

-----------------------------------------------------------------------------
(* What requests note and what orders hold, however requests interleave.    *)

\* What is noted of a row has the row's variant; what is to be incremented has the
\* variant asked for.
Described == \A r \in Requests :
    /\ \A x \in session[r].seen \cup session[r].lines : rows[x.row].variant = x.variant
    /\ session[r].kind = "add" =>
         \A x \in session[r].lines : x.variant = session[r].variant

\* A row is noted once; a checkout prices it once.
Apart(L) == \A x, y \in L : x.row = y.row => x = y
Single == \A r \in Requests :
    /\ Apart(session[r].seen)
    /\ session[r].pc = "verify" =>
         /\ Apart(session[r].lines)
         /\ \A x \in session[r].seen, y \in session[r].lines : x.row # y.row

\* The lines of an order are of different rows of its cart.
Invoiced == \A n \in Orders : orders[n] # None =>
    /\ Apart(orders[n].lines)
    /\ \A x \in orders[n].lines :
         /\ rows[x.row] # None
         /\ rows[x.row].cart = orders[n].cart /\ rows[x.row].variant = x.variant

\* A row of the cart as the session has it.
LEMMA ObjectOfRow ==
    ASSUME Tables, InHand, Described, NEW r \in Requests, NEW c, NEW i \in RowsOf(c)
    PROVE  /\ i \in Rows /\ rows[i] # None
           /\ Object(r, i).row = i /\ Object(r, i).variant = rows[i].variant
           /\ Object(r, i) = Copy(i) \/ Object(r, i) \in session[r].seen
<1>1. session[r].seen \subseteq Loaded
  BY DEF InHand, SessionRecords
<1>2. i \in Rows /\ rows[i] # None /\ Object(r, i).row = i
  BY <1>1, CopyOK, ObjectOK
<1>3. Object(r, i) = Copy(i) \/ Object(r, i) \in session[r].seen
  BY DEF Object
<1>4. Copy(i).variant = rows[i].variant
  BY DEF Copy
<1> QED
  BY <1>2, <1>3, <1>4 DEF Described

LEMMA DescribedKept ==
    ASSUME Tables, InHand, Placed, Described, [Next]_vars
    PROVE  Described'
<1> SUFFICES ASSUME NEW r \in Requests
             PROVE  /\ \A x \in session'[r].seen \cup session'[r].lines :
                         rows'[x.row].variant = x.variant
                    /\ session'[r].kind = "add" =>
                         \A x \in session'[r].lines : x.variant = session'[r].variant
  BY DEF Described
<1> DEFINE Q == /\ \A x \in session'[r].seen \cup session'[r].lines :
                         rows'[x.row].variant = x.variant
                /\ session'[r].kind = "add" =>
                         \A x \in session'[r].lines : x.variant = session'[r].variant
<1>0. /\ session \in [Requests -> SessionRecords] /\ RequestOK(session[r], carts, rows)
      /\ session[r].seen \subseteq Loaded /\ session[r].lines \subseteq Loaded \cup Priced
  BY DEF InHand, SessionRecords
<1>a. \A x \in session[r].seen \cup session[r].lines :
         x.row \in Rows /\ rows[x.row] # None /\ rows[x.row].variant = x.variant
  BY <1>0 DEF Described, RequestOK, Loaded, Priced
<1>b. Answer(r) => Q
  BY <1>0 DEF Answer, Go, Free
<1>c. \A x \in session[r].seen \cup session[r].lines : rows'[x.row].variant = x.variant
  BY <1>a, VariantKept
<1>d. session[r].kind = "add" => \A x \in session[r].lines : x.variant = session[r].variant
  BY DEF Described
<1>e. \/ session'[r].seen = {} /\ session'[r].lines = {}
      \/ session'[r].kind = session[r].kind /\ session'[r].variant = session[r].variant
  BY LocalsKept DEF Free
<1>f. ASSUME session'[r].seen = session[r].seen, session'[r].lines = session[r].lines
      PROVE  Q
  BY <1>c, <1>d, <1>e, <1>f
<1>1. CASE session'[r] = session[r]
  BY <1>1, <1>f
<1>2. CASE session'[r].seen = {} /\ session'[r].lines = {}
  BY <1>2
<1>3. CASE LoadRows(r) /\ ~Answer(r)
  <2>1. /\ session'[r].lines = session[r].lines /\ session'[r].seen = Snapshot(session[r].cart)
        /\ UNCHANGED rows
    BY <1>3, NoteSteps
  <2>2. \A x \in Snapshot(session[r].cart) : rows[x.row].variant = x.variant
    BY DEF Snapshot, Copy
  <2> QED
    BY <1>c, <1>d, <1>e, <2>1, <2>2
<1>4. CASE SelectVariant(r) /\ ~Answer(r)
  <2>1. /\ session'[r].variant = session[r].variant
        /\ session'[r].seen = session[r].seen
        /\ \/ session'[r].lines = session[r].lines
           \/ \E i \in SameVariant(r) : session'[r].lines = {Object(r, i)}
        /\ UNCHANGED rows
    BY <1>4, NoteVariant
  <2>2. ASSUME NEW i \in SameVariant(r), session'[r].lines = {Object(r, i)}
        PROVE  Q
    <3>1. i \in RowsOf(session[r].cart) /\ rows[i].variant = session[r].variant
      BY DEF SameVariant
    <3>2. Object(r, i).row = i /\ Object(r, i).variant = rows[i].variant
      BY <3>1, ObjectOfRow
    <3> QED
      BY <1>c, <2>1, <2>2, <3>1, <3>2
  <2> QED
    BY <1>f, <2>1, <2>2
<1>5. CASE SelectRow(r) /\ ~Answer(r)
  BY <1>5, <1>f, NoteSteps
<1>6. CASE ReadItems(r) /\ ~Answer(r)
  <2>1. /\ session'[r].lines = session[r].lines
        /\ session'[r].seen = {Object(r, i) : i \in RowsOf(session[r].cart)}
        /\ UNCHANGED rows
    BY <1>6, NoteSteps
  <2>2. \A x \in session'[r].seen : rows[x.row].variant = x.variant
    BY <2>1, ObjectOfRow
  <2> QED
    BY <1>c, <1>d, <1>e, <2>1, <2>2
<1>7. ASSUME NEW x \in session[r].seen, VerifyItem(r, x)
      PROVE  Q
  <2>1. PICK y \in Priced :
             /\ session'[r].seen = session[r].seen \ {x}
             /\ session'[r].lines = session[r].lines \cup {y}
             /\ y.row = x.row /\ y.variant = x.variant
             /\ session[r].pc = "verify" /\ UNCHANGED rows
    BY <1>7, NoteItem
  <2>2. session[r].kind = "checkout"
    BY <1>0, <2>1 DEF RequestOK
  <2>3. session'[r].kind # "add"
    BY <1>e, <2>1, <2>2
  <2> QED
    BY <1>c, <2>1, <2>3
<1> QED
  BY <1>b, <1>f, <1>1, <1>2, <1>3, <1>4, <1>5, <1>6, <1>7, Noted DEF Notes

LEMMA SingleKept ==
    ASSUME Tables, InHand, Placed, Described, Single, [Next]_vars
    PROVE  Single'
<1> SUFFICES ASSUME NEW r \in Requests
             PROVE  /\ Apart(session'[r].seen)
                    /\ session'[r].pc = "verify" =>
                         /\ Apart(session'[r].lines)
                         /\ \A x \in session'[r].seen, y \in session'[r].lines : x.row # y.row
  BY DEF Single, Apart
<1> DEFINE Q == /\ Apart(session'[r].seen)
                /\ session'[r].pc = "verify" =>
                     /\ Apart(session'[r].lines)
                     /\ \A x \in session'[r].seen, y \in session'[r].lines : x.row # y.row
<1>0. session \in [Requests -> SessionRecords]
  BY DEF InHand
<1>a. Answer(r) => Q
  BY <1>0 DEF Answer, Go, Free, Apart
<1>1. CASE session'[r] = session[r]
  BY <1>1 DEF Single
<1>2. CASE session'[r].seen = {} /\ session'[r].pc # "verify"
  BY <1>2 DEF Apart
<1>3. CASE session'[r].seen = session[r].seen /\ session'[r].pc # "verify"
  BY <1>3 DEF Single
<1>4. CASE LoadRows(r) /\ ~Answer(r)
  <2>1. session'[r].pc # "verify" /\ session'[r].seen = Snapshot(session[r].cart)
    BY <1>4, NoteSteps
  <2>2. \A i \in RowsOf(session[r].cart) : Copy(i).row = i
    BY DEF Copy
  <2>3. Apart(Snapshot(session[r].cart))
    BY <2>2 DEF Apart, Snapshot
  <2> QED
    BY <2>1, <2>3
<1>5. CASE ReadItems(r) /\ ~Answer(r)
  <2>1. /\ session[r].pc = "read" /\ session'[r].lines = session[r].lines
        /\ session'[r].seen = {Object(r, i) : i \in RowsOf(session[r].cart)}
    BY <1>5, NoteSteps
  <2>2. \A i \in RowsOf(session[r].cart) : Object(r, i).row = i
    BY ObjectOfRow
  <2>3. session'[r].lines = {}
    BY <2>1 DEF Placed
  <2> QED
    BY <2>1, <2>2, <2>3 DEF Apart
<1>6. ASSUME NEW x \in session[r].seen, VerifyItem(r, x)
      PROVE  Q
  <2>1. PICK y \in Priced :
             /\ session[r].pc = "verify" /\ session'[r].pc = "verify"
             /\ session'[r].seen = session[r].seen \ {x}
             /\ session'[r].lines = session[r].lines \cup {y}
             /\ y.row = x.row
    BY <1>6, NoteItem
  <2>2. /\ Apart(session[r].seen) /\ Apart(session[r].lines)
        /\ \A z \in session[r].seen, w \in session[r].lines : z.row # w.row
    BY <2>1 DEF Single
  <2>3. Apart(session'[r].seen)
    BY <2>1, <2>2 DEF Apart
  <2>4. Apart(session'[r].lines)
    BY <2>1, <2>2 DEF Apart
  <2>5. ASSUME NEW z \in session'[r].seen, NEW w \in session'[r].lines
        PROVE  z.row # w.row
    <3>1. CASE w \in session[r].lines
      BY <2>1, <2>2, <3>1
    <3>2. CASE w = y
      BY <2>1, <2>2, <3>2 DEF Apart
    <3> QED
      BY <2>1, <3>1, <3>2
  <2> QED
    BY <2>3, <2>4, <2>5
<1>7. CASE SelectVariant(r) /\ ~Answer(r)
  BY <1>3, <1>7, NoteVariant
<1>8. CASE SelectRow(r) /\ ~Answer(r)
  BY <1>3, <1>8, NoteSteps
<1> QED
  BY <1>a, <1>1, <1>2, <1>3, <1>4, <1>5, <1>6, <1>7, <1>8, Noted DEF Notes

LEMMA InvoicedKept ==
    ASSUME Tables, InHand, Placed, Described, Single, Invoiced, [Next]_vars
    PROVE  Invoiced'
<1> SUFFICES ASSUME NEW n \in Orders, orders'[n] # None
             PROVE  /\ Apart(orders'[n].lines)
                    /\ \A x \in orders'[n].lines :
                         /\ rows'[x.row] # None
                         /\ rows'[x.row].cart = orders'[n].cart
                         /\ rows'[x.row].variant = x.variant
  BY DEF Invoiced, Apart
<1>1. ASSUME NEW i \in Rows, rows[i] # None
      PROVE  /\ rows'[i] # None
             /\ rows'[i].cart = rows[i].cart /\ rows'[i].variant = rows[i].variant
  BY <1>1, RowsKept, RowsPlaced, VariantKept
<1>2. CASE orders'[n] = orders[n]
  <2>1. \A x \in orders[n].lines : x.row \in Rows
    BY <1>2 DEF Tables, OrderRecords, Priced
  <2> QED
    BY <1>1, <1>2, <2>1 DEF Invoiced
<1>3. ASSUME NEW r \in Requests, CommitCheckout(r), orders'[n] # orders[n]
      PROVE  /\ Apart(orders'[n].lines)
             /\ \A x \in orders'[n].lines :
                  /\ rows'[x.row] # None
                  /\ rows'[x.row].cart = orders'[n].cart
                  /\ rows'[x.row].variant = x.variant
  <2>1. PICK m \in Orders, c \in Carts, order \in OrderRecords : Ordered(r, m, c, order)
    BY <1>3, Commits
  <2>2. orders'[n] = order
    BY <1>3, <2>1 DEF Ordered, Tables
  <2>3. /\ order.lines = session[r].lines /\ order.cart = session[r].cart
        /\ session[r].pc = "verify"
    BY <2>1 DEF Ordered
  <2>4. Apart(session[r].lines)
    BY <2>3 DEF Single
  <2>5. \A x \in session[r].lines :
           /\ x.row \in Rows /\ rows[x.row] # None
           /\ rows[x.row].cart = session[r].cart /\ rows[x.row].variant = x.variant
    BY DEF InHand, RequestOK, SessionRecords, Loaded, Priced, Placed, Described
  <2> QED
    BY <1>1, <2>2, <2>3, <2>4, <2>5
<1> QED
  BY <1>2, <1>3, Writers

-----------------------------------------------------------------------------
(* Units: <<i, k>> is the k-th piece of row i.                              *)

\* Somebody has it: the table, a session or an order.
Witnessed(i, k) ==
    \/ rows[i] # None /\ k <= rows[i].quantity
    \/ \E r \in Requests : \E x \in session[r].seen \cup session[r].lines :
          x.row = i /\ k <= x.quantity
    \/ \E n \in Orders : orders[n] # None /\
          \E x \in orders[n].lines : x.row = i /\ k <= x.quantity

\* The units of variant v in cart c that somebody has.
Known(c, v) ==
    {u \in Rows \X (1 .. MaxQuantity) :
        /\ rows[u[1]] # None /\ rows[u[1]].cart = c /\ rows[u[1]].variant = v
        /\ Witnessed(u[1], u[2])}

\* An overtaken write may lower a row's quantity, an overtaken session may have an
\* old one: neither makes a unit that was not added.
Counted == \A c \in Carts, v \in Variants :
    IsFiniteSet(Known(c, v)) /\ Cardinality(Known(c, v)) <= added[c][v]

QInv == CInv /\ Placed /\ Described /\ Single /\ Invoiced /\ Counted

\* Sessions and orders get their units from the table and from sessions.
LEMMA WitnessedStep ==
    ASSUME Tables, InHand, Described, [Next]_vars, NEW i \in Rows, NEW k, Witnessed(i, k)'
    PROVE  Witnessed(i, k) \/ (rows'[i] # None /\ k <= rows'[i].quantity)
<1>0. /\ session \in [Requests -> SessionRecords]
      /\ orders \in [Orders -> OrderRecords \cup {None}]
  BY DEF InHand, Tables
<1>1. ASSUME NEW r \in Requests, NEW x \in session'[r].seen \cup session'[r].lines,
             x.row = i, k <= x.quantity
      PROVE  Witnessed(i, k)
  <2>a. ASSUME x \in session[r].seen \cup session[r].lines
        PROVE  Witnessed(i, k)
    BY <1>1, <2>a DEF Witnessed
  <2>b. ASSUME NEW j \in RowsOf(session[r].cart), x = Object(r, j)
        PROVE  Witnessed(i, k)
    <3>1. rows[j] # None /\ Object(r, j).row = j
          /\ (Object(r, j) = Copy(j) \/ Object(r, j) \in session[r].seen)
      BY ObjectOfRow
    <3>2. CASE Object(r, j) = Copy(j)
      <4>1. x.quantity = rows[j].quantity
        BY <2>b, <3>2 DEF Copy
      <4> QED
        BY <1>1, <2>b, <3>1, <4>1 DEF Witnessed
    <3> QED
      BY <2>a, <2>b, <3>1, <3>2
  <2>1. CASE session'[r] = session[r]
    BY <1>1, <2>a, <2>1
  <2>2. CASE session'[r].seen = {} /\ session'[r].lines = {}
    BY <1>1, <2>2
  <2>3. CASE session'[r].seen = session[r].seen /\ session'[r].lines = session[r].lines
    BY <1>1, <2>a, <2>3
  <2>4. CASE LoadRows(r) /\ ~Answer(r)
    <3>1. session'[r].lines = session[r].lines /\ session'[r].seen = Snapshot(session[r].cart)
      BY <2>4, NoteSteps
    <3>2. ASSUME NEW j \in RowsOf(session[r].cart), x = Copy(j)
          PROVE  Witnessed(i, k)
      <4>1. rows[j] # None /\ x.row = j /\ x.quantity = rows[j].quantity
        BY <3>2 DEF RowsOf, Copy
      <4> QED
        BY <1>1, <4>1 DEF Witnessed
    <3> QED
      BY <1>1, <2>a, <3>1, <3>2 DEF Snapshot
  <2>5. CASE SelectVariant(r) /\ ~Answer(r)
    BY <1>1, <2>a, <2>b, <2>5, NoteVariant DEF SameVariant
  <2>6. CASE ReadItems(r) /\ ~Answer(r)
    <3>1. /\ session'[r].lines = session[r].lines
          /\ session'[r].seen = {Object(r, j) : j \in RowsOf(session[r].cart)}
      BY <2>6, NoteSteps
    <3> QED
      BY <1>1, <2>a, <2>b, <3>1
  <2>7. ASSUME NEW z \in session[r].seen, VerifyItem(r, z)
        PROVE  Witnessed(i, k)
    <3>1. PICK y \in Priced :
             /\ session'[r].seen = session[r].seen \ {z}
             /\ session'[r].lines = session[r].lines \cup {y}
             /\ y.row = z.row /\ y.quantity = z.quantity
      BY <2>7, NoteItem
    <3>2. CASE x = y
      BY <1>1, <3>1, <3>2 DEF Witnessed
    <3> QED
      BY <1>1, <2>a, <3>1, <3>2
  <2>8. CASE Answer(r)
    <3>1. session'[r].seen = {} /\ session'[r].lines = {}
      BY <1>0, <2>8 DEF Answer, Go, Free
    <3> QED
      BY <2>2, <3>1
  <2>9. CASE SelectRow(r) /\ ~Answer(r)
    BY <2>3, <2>9, NoteSteps
  <2> QED
    BY <2>1, <2>2, <2>3, <2>4, <2>5, <2>6, <2>7, <2>8, <2>9, Noted DEF Notes
<1>2. ASSUME NEW n \in Orders, orders'[n] # None, NEW x \in orders'[n].lines,
             x.row = i, k <= x.quantity
      PROVE  Witnessed(i, k)
  <2>1. CASE orders'[n] = orders[n]
    BY <1>2, <2>1 DEF Witnessed
  <2>2. ASSUME NEW r \in Requests, CommitCheckout(r), orders'[n] # orders[n]
        PROVE  Witnessed(i, k)
    <3>1. PICK m \in Orders, c \in Carts, order \in OrderRecords : Ordered(r, m, c, order)
      BY <2>2, Commits
    <3>2. orders'[n] = order /\ order.lines = session[r].lines
      BY <1>0, <2>2, <3>1 DEF Ordered
    <3> QED
      BY <1>2, <3>2 DEF Witnessed
  <2> QED
    BY <2>1, <2>2, Writers
<1> QED
  BY <1>1, <1>2 DEF Witnessed

\* No unit of a row that is not there.
LEMMA WitnessedRow ==
    ASSUME InHand, Invoiced, NEW i, NEW k, Witnessed(i, k)
    PROVE  rows[i] # None
BY DEF InHand, RequestOK, Invoiced, Witnessed

LEMMA KnownSteps ==
    ASSUME Tables, InHand, Placed, Described, Invoiced, [Next]_vars,
           NEW c \in Carts, NEW v \in Variants
    PROVE  \/ Known(c, v)' \subseteq Known(c, v) /\ added'[c][v] = added[c][v]
           \/ \E u : /\ Known(c, v)' \subseteq Known(c, v) \cup {u}
                     /\ added'[c][v] = added[c][v] + 1
<1> DEFINE Grows ==
      \/ Known(c, v)' \subseteq Known(c, v) /\ added'[c][v] = added[c][v]
      \/ \E u : Known(c, v)' \subseteq Known(c, v) \cup {u} /\ added'[c][v] = added[c][v] + 1
<1>0. rows \in [Rows -> RowRecords \cup {None}] /\ added \in [Carts -> [Variants -> Nat]]
  BY DEF Tables
<1>1. ASSUME NEW u \in Known(c, v)', rows'[u[1]] = rows[u[1]]
      PROVE  u \in Known(c, v)
  <2>1. /\ u \in Rows \X (1 .. MaxQuantity) /\ Witnessed(u[1], u[2])'
        /\ rows'[u[1]] # None /\ rows'[u[1]].cart = c /\ rows'[u[1]].variant = v
    BY DEF Known
  <2>2. Witnessed(u[1], u[2]) \/ (rows'[u[1]] # None /\ u[2] <= rows'[u[1]].quantity)
    <3>1. u[1] \in Rows
      BY <2>1
    <3> QED
      BY <2>1, <3>1, WitnessedStep
  <2>3. Witnessed(u[1], u[2])
    BY <1>1, <2>2 DEF Witnessed
  <2> QED
    BY <1>1, <2>1, <2>3 DEF Known
<1>2. CASE UNCHANGED <<rows, added>>
  BY <1>1, <1>2
<1>3. ASSUME NEW r \in Requests, NEW i \in Rows, NEW t \in RowRecords, Writes(r, i, t),
             Inserts(r, i, t) \/ Increments(r, i, t) \/ Deletes(r, i, t)
      PROVE  Grows
  <2>1. rows'[i] = t /\ \A j \in Rows : j # i => rows'[j] = rows[j]
    BY <1>0, <1>3 DEF Writes
  <2>2. ASSUME NEW u \in Known(c, v)', u \notin Known(c, v)
        PROVE  /\ u[1] = i /\ u = <<u[1], u[2]>> /\ t.cart = c /\ t.variant = v
               /\ u[2] \in 1 .. MaxQuantity
               /\ Witnessed(i, u[2]) \/ u[2] <= t.quantity
    <3>1. /\ u \in Rows \X (1 .. MaxQuantity) /\ Witnessed(u[1], u[2])'
          /\ rows'[u[1]].cart = c /\ rows'[u[1]].variant = v
      BY DEF Known
    <3>2. u[1] = i
      BY <1>1, <2>1, <2>2, <3>1
    <3> QED
      BY <2>1, <3>1, <3>2, WitnessedStep
  <2>3. ASSUME NEW k, \A u \in Known(c, v)' : u \in Known(c, v) \/ u = <<i, k>>,
               t.cart = c => t.cart = session[r].cart,
               Known(c, v)' \subseteq Known(c, v) \/ (session[r].cart = c /\ session[r].variant = v),
               session[r].cart \in Carts, session[r].variant \in Variants,
               Count(session[r].cart, session[r].variant)
        PROVE  Grows
    <3>1. added' = [added EXCEPT ![session[r].cart][session[r].variant] = @ + 1]
      BY <2>3 DEF Count
    <3>2. CASE session[r].cart = c /\ session[r].variant = v
      <4>1. added'[c][v] = added[c][v] + 1
        BY <1>0, <3>1, <3>2
      <4> QED
        BY <2>3, <4>1
    <3>3. CASE ~(session[r].cart = c /\ session[r].variant = v)
      <4>1. added'[c][v] = added[c][v]
        BY <1>0, <2>3, <3>1, <3>3
      <4> QED
        BY <2>3, <3>3, <4>1
    <3> QED
      BY <3>2, <3>3
  <2>4. session[r].pc = "write" => session[r].cart \in Carts /\ session[r].variant \in Variants
    BY DEF InHand, RequestOK, WithCart
  <2>5. t.cart = session[r].cart
    BY <1>3 DEF Writes
  <2>6. CASE Inserts(r, i, t)
    <3>1. ASSUME NEW u \in Known(c, v)', u \notin Known(c, v)
          PROVE  u = <<i, 1>> /\ session[r].cart = c /\ session[r].variant = v
      <4>1. ~Witnessed(i, u[2])
        BY <2>6, WitnessedRow DEF Inserts
      <4>2. u[2] \in 1 .. MaxQuantity /\ u[2] <= 1
        BY <2>2, <2>6, <3>1, <4>1 DEF Inserts
      <4>3. u[2] = 1
        BY <4>2
      <4> QED
        BY <2>2, <2>5, <2>6, <3>1, <4>3 DEF Inserts
    <3> QED
      BY <2>3, <2>4, <2>5, <2>6, <3>1 DEF Inserts
  <2>7. CASE Increments(r, i, t)
    <3>1. PICK x \in session[r].lines : x.row = i /\ t.quantity = x.quantity + 1
      BY <2>7 DEF Increments
    <3>2. t.variant = session[r].variant /\ x.quantity \in Nat
      <4>1. session[r].kind = "add"
        BY <2>7 DEF Increments, InHand, RequestOK
      <4>2. rows[i].variant = session[r].variant
        BY <3>1, <4>1 DEF Described
      <4>3. x \in Loaded \cup Priced
        BY DEF InHand, SessionRecords
      <4> QED
        BY <2>7, <4>2, <4>3 DEF Increments, Loaded, Priced
    <3>3. ASSUME NEW u \in Known(c, v)', u \notin Known(c, v)
          PROVE  u = <<i, t.quantity>> /\ session[r].cart = c /\ session[r].variant = v
      <4>1. ~Witnessed(i, u[2])
        <5>1. ASSUME Witnessed(i, u[2])
              PROVE  FALSE
          <6>1. u \in Rows \X (1 .. MaxQuantity) /\ u[1] = i /\ t.cart = c /\ t.variant = v
            BY <2>2, <3>3 DEF Known
          <6>2. rows[i].cart = t.cart /\ rows[i].variant = t.variant /\ rows[i] # None
            BY <2>5, <2>7, <3>1 DEF Increments, Placed
          <6> QED
            BY <3>3, <5>1, <6>1, <6>2 DEF Known
        <5> QED
          BY <5>1
      <4>2. ~(u[2] <= x.quantity)
        BY <3>1, <4>1 DEF Witnessed
      <4>3. u[2] \in 1 .. MaxQuantity /\ u[2] <= x.quantity + 1
        BY <2>2, <3>1, <3>3, <4>1
      <4>4. u[2] = t.quantity
        BY <3>1, <3>2, <4>2, <4>3
      <4> QED
        BY <2>2, <2>5, <3>2, <3>3, <4>4
    <3> QED
      BY <2>3, <2>4, <2>5, <2>7, <3>3 DEF Increments
  <2>8. CASE Deletes(r, i, t)
    <3>1. rows[i].cart = t.cart
      <4>1. rows'[i].cart = rows[i].cart
        BY <2>8, RowsPlaced DEF Deletes
      <4> QED
        BY <2>1, <4>1
    <3>2. ASSUME NEW u \in Known(c, v)', u \notin Known(c, v)
          PROVE  FALSE
      <4>1. Witnessed(i, u[2])
        BY <2>2, <2>8, <3>2 DEF Deletes, Witnessed
      <4>2. u \in Rows \X (1 .. MaxQuantity) /\ u[1] = i /\ t.cart = c /\ t.variant = v
        BY <2>2, <3>2 DEF Known
      <4> QED
        BY <2>8, <3>1, <3>2, <4>1, <4>2 DEF Deletes, Known
    <3> QED
      BY <2>8, <3>2 DEF Deletes
  <2> QED
    BY <1>3, <2>6, <2>7, <2>8
<1> QED
  BY <1>2, <1>3, RowSteps

LEMMA CountedKept ==
    ASSUME Tables, InHand, Placed, Described, Invoiced, Counted, [Next]_vars
    PROVE  Counted'
<1> SUFFICES ASSUME NEW c \in Carts, NEW v \in Variants
             PROVE  IsFiniteSet(Known(c, v)') /\ Cardinality(Known(c, v)') <= added'[c][v]
  BY DEF Counted
<1> DEFINE K == Known(c, v)
           L == Known(c, v)'
<1>1. IsFiniteSet(K) /\ Cardinality(K) <= added[c][v] /\ added[c][v] \in Nat
  BY DEF Counted, Tables
<1>2. CASE L \subseteq K /\ added'[c][v] = added[c][v]
  <2> HIDE DEF K, L
  <2>1. IsFiniteSet(L) /\ Cardinality(L) <= Cardinality(K)
    BY <1>1, <1>2, FS_Subset
  <2>2. Cardinality(L) \in Nat /\ Cardinality(K) \in Nat
    BY <1>1, <2>1, FS_CardinalityType
  <2> QED
    BY <1>1, <1>2, <2>1, <2>2 DEF L
<1>3. ASSUME NEW u, L \subseteq K \cup {u}, added'[c][v] = added[c][v] + 1
      PROVE  IsFiniteSet(L) /\ Cardinality(L) <= added'[c][v]
  <2> HIDE DEF K, L
  <2>a. /\ IsFiniteSet(K \cup {u})
        /\ Cardinality(K \cup {u}) = IF u \in K THEN Cardinality(K) ELSE Cardinality(K) + 1
    BY <1>1, FS_AddElement
  <2>1. IsFiniteSet(K \cup {u}) /\ Cardinality(K \cup {u}) <= Cardinality(K) + 1
        /\ Cardinality(K) \in Nat
    BY <1>1, <2>a, FS_CardinalityType
  <2>2. IsFiniteSet(L) /\ Cardinality(L) <= Cardinality(K \cup {u})
    BY <1>3, <2>1, FS_Subset
  <2>3. Cardinality(L) \in Nat /\ Cardinality(K \cup {u}) \in Nat
    BY <2>1, <2>2, FS_CardinalityType
  <2> QED
    BY <1>1, <1>3, <2>1, <2>2, <2>3
<1> QED
  BY <1>2, <1>3, KnownSteps

\* The quantity an order bills is a number of units of its cart, each known and none
\* counted twice.
LEMMA BilledIsKnown ==
    ASSUME Tables, Invoiced, NEW n \in Orders, orders[n] # None, NEW v \in Variants,
           IsFiniteSet(Known(orders[n].cart, v))
    PROVE  Billed(n, v) \in Nat /\ Billed(n, v) <= Cardinality(Known(orders[n].cart, v))
<1> DEFINE D == {y \in orders[n].lines : y.variant = v}
           q == [x \in D |-> x.quantity]
           K == Known(orders[n].cart, v)
           U == Units(q, D)
           f == [u \in U |-> <<u[1].row, u[2]>>]
           g == [x \in D |-> <<x.row, 1>>]
<1>1. orders[n].lines \subseteq Priced
  BY DEF Tables, OrderRecords
<1>2. ASSUME NEW x \in D
      PROVE  /\ x.row \in Rows /\ x.quantity \in 1 .. MaxQuantity
             /\ \A k \in 1 .. x.quantity : <<x.row, k>> \in K
  <2>1. x \in orders[n].lines /\ x.variant = v
    OBVIOUS
  <2>2. x.row \in Rows /\ x.quantity \in 1 .. MaxQuantity
    BY <1>1, <2>1 DEF Priced
  <2>3. rows[x.row] # None /\ rows[x.row].cart = orders[n].cart /\ rows[x.row].variant = v
    BY <2>1 DEF Invoiced
  <2>4. ASSUME NEW k \in 1 .. x.quantity
        PROVE  <<x.row, k>> \in K
    <3>1. k \in 1 .. MaxQuantity
      BY <2>2
    <3>2. Witnessed(x.row, k)
      BY <2>1 DEF Witnessed
    <3> QED
      BY <2>2, <2>3, <3>1, <3>2 DEF Known
  <2> QED
    BY <2>2, <2>4
<1>3. \A x, y \in D : x.row = y.row => x = y
  BY DEF Invoiced, Apart
<1>4. /\ DOMAIN q = D
      /\ \A x \in D : q[x] = x.quantity /\ q[x] \in Nat
  BY <1>2
<1>5. \A u \in U : \E x \in D : \E k \in 1 .. x.quantity : u = <<x, k>>
  BY <1>4, InUnits
<1>6. f \in Injection(U, K)
  <2>1. f \in [U -> K]
    <3>1. \A u \in U : f[u] \in K
      BY <1>2, <1>5
    <3> QED
      BY <3>1
  <2>2. \A u, w \in U : f[u] = f[w] => u = w
    BY <1>3, <1>5
  <2> HIDE DEF f, U, K
  <2> QED
    BY <2>1, <2>2, Fun_IsInj
<1>7. IsFiniteSet(U) /\ Cardinality(U) <= Cardinality(K)
  <2> HIDE DEF f, U, K
  <2> QED
    BY <1>6, FS_Injection DEF K
<1>8. IsFiniteSet(D)
  <2>1. g \in [D -> K]
    <3>1. \A x \in D : g[x] \in K
      BY <1>2
    <3> QED
      BY <3>1
  <2>2. \A x, y \in D : g[x] = g[y] => x = y
    BY <1>3
  <2> HIDE DEF g, D, K
  <2>3. g \in Injection(D, K)
    BY <2>1, <2>2, Fun_IsInj
  <2> QED
    BY <2>3, FS_Injection DEF K
<1>9. Billed(n, v) = Cardinality(U)
  <2>1. Billed(n, v) = SumFunction(q)
    BY DEF Billed
  <2> HIDE DEF q, D
  <2> QED
    BY <1>4, <1>8, <2>1, SumIsCount
<1> QED
  BY <1>7, <1>9, FS_CardinalityType

LEMMA QInvStarts == ASSUME Init PROVE QInv
<1>1. Placed /\ Described /\ Single
  BY DEF Init, Free, Placed, Described, Single, Apart
<1>2. Invoiced
  BY DEF Init, Invoiced
<1>3. ASSUME NEW c \in Carts, NEW v \in Variants
      PROVE  IsFiniteSet(Known(c, v)) /\ Cardinality(Known(c, v)) <= added[c][v]
  <2>1. Known(c, v) = {}
    BY DEF Init, Known
  <2>2. added[c][v] = 0
    BY DEF Init
  <2> QED
    BY <2>1, <2>2, FS_EmptySet
<1> QED
  BY <1>1, <1>2, <1>3, CInvStarts DEF QInv, Counted

LEMMA QInvKept == ASSUME QInv, [Next]_vars PROVE QInv'
<1>1. CInv /\ Tables /\ InHand /\ Placed /\ Described /\ Single /\ Invoiced /\ Counted
  BY DEF QInv, CInv
<1> QED
  BY <1>1, CInvKept, PlacedKept, DescribedKept, SingleKept, InvoicedKept, CountedKept
     DEF QInv

\* However requests interleave, a customer is never billed for more of a variant than
\* add requests put into the cart (add_item, OrderService.checkout).
THEOREM NeverOverbilled == Spec => []NeverBilledMoreThanAdded
<1>1. Init => QInv
  BY QInvStarts
<1>2. QInv /\ [Next]_vars => QInv'
  BY QInvKept
<1>3. ASSUME QInv
      PROVE  NeverBilledMoreThanAdded
  <2> SUFFICES ASSUME NEW n \in Orders, NEW v \in Variants, orders[n] # None
               PROVE  Billed(n, v) <= added[orders[n].cart][v]
    BY DEF NeverBilledMoreThanAdded
  <2> DEFINE K == Known(orders[n].cart, v)
  <2>1. orders[n].cart \in Carts
    BY <1>3 DEF QInv, CInv, Tables, OrderRecords
  <2>2. IsFiniteSet(K) /\ Cardinality(K) <= added[orders[n].cart][v]
    BY <1>3, <2>1 DEF QInv, Counted
  <2>3. Billed(n, v) \in Nat /\ Billed(n, v) <= Cardinality(K)
    BY <1>3, <2>2, BilledIsKnown DEF QInv, CInv
  <2>4. added[orders[n].cart][v] \in Nat /\ Cardinality(K) \in Nat
    BY <1>3, <2>1, <2>2, FS_CardinalityType DEF QInv, CInv, Tables
  <2> QED
    BY <2>2, <2>3, <2>4
<1> QED
  BY <1>1, <1>2, <1>3, PTL DEF Spec

-----------------------------------------------------------------------------
(* A customer who waits for each answer loses nothing.                      *)

\* What such a request has noted of its cart is what the cart holds: a first row is
\* written only for a variant without one, and an increment starts from the quantity
\* there is.
Ready == \A r \in Requests :
    /\ session[r].pc = "select" => session[r].seen = Snapshot(session[r].cart)
    /\ session[r].kind = "add" /\ session[r].pc # "write" => session[r].row = None
    /\ session[r].pc = "write" =>
         \/ session[r].row = None /\ SameVariant(r) = {} /\ session[r].lines = {}
         \/ session[r].row \in SameVariant(r) /\ session[r].lines = {Copy(session[r].row)}

\* One row per variant.
Merged == \A c \in Carts : \A i, j \in RowsOf(c) : rows[i].variant = rows[j].variant => i = j

\* The units in the rows are the units added.
Held(c, v) ==
    {u \in Rows \X (1 .. MaxQuantity) :
        /\ rows[u[1]] # None /\ rows[u[1]].cart = c /\ rows[u[1]].variant = v
        /\ u[2] <= rows[u[1]].quantity}
Balanced == \A c \in Carts, v \in Variants :
    IsFiniteSet(Held(c, v)) /\ Cardinality(Held(c, v)) = added[c][v]

\* While a request works on a cart nobody else writes in it.
LEMMA CartQuiet ==
    ASSUME Tables, InHand, Placed, Alone, Claimed, [Next]_vars, NEW r \in Requests,
           session[r].pc \in WithCart, session'[r] = session[r], NEW i \in Rows,
           \/ rows[i] # None /\ rows[i].cart = session[r].cart
           \/ rows'[i] # None /\ rows'[i].cart = session[r].cart
    PROVE  rows'[i] = rows[i]
<1>1. ASSUME NEW q \in Requests, NEW j \in Rows, NEW t \in RowRecords, Writes(q, j, t),
             Inserts(q, j, t) \/ Increments(q, j, t) \/ Deletes(q, j, t)
      PROVE  rows'[i] = rows[i]
  <2>1. q # r
    <3>1. session'[q].pc = "idle"
      BY <1>1 DEF Writes, InHand, Free
    <3> QED
      BY <3>1 DEF WithCart
  <2>2. session[q].pc \in {"write", "delete"}
    BY <1>1 DEF Inserts, Increments, Deletes
  <2>3. t.cart # session[r].cart
    BY <1>1, <2>1, <2>2, OwnCart DEF Writes
  <2>4. rows'[j] = t /\ \A k \in Rows : k # j => rows'[k] = rows[k]
    BY <1>1 DEF Writes, Tables
  <2>5. rows[j] # None => rows[j].cart = t.cart
    BY <2>4, RowsPlaced
  <2> QED
    BY <2>3, <2>4, <2>5
<1> QED
  BY <1>1, RowSteps

LEMMA ReadyKept ==
    ASSUME Tables, InHand, Placed, Alone, Claimed, Ready, [Next]_vars
    PROVE  Ready'
<1> SUFFICES ASSUME NEW r \in Requests
             PROVE  /\ session'[r].pc = "select" =>
                         session'[r].seen = Snapshot(session[r].cart)'
                    /\ session'[r].kind = "add" /\ session'[r].pc # "write" =>
                         session'[r].row = None
                    /\ session'[r].pc = "write" =>
                         \/ /\ session'[r].row = None /\ SameVariant(r)' = {}
                            /\ session'[r].lines = {}
                         \/ /\ session'[r].row \in SameVariant(r)'
                            /\ session'[r].lines = {Copy(session[r].row)'}
  BY DEF Ready
<1> DEFINE Q1 == session'[r].pc = "select" => session'[r].seen = Snapshot(session[r].cart)'
           Q2 == session'[r].kind = "add" /\ session'[r].pc # "write" => session'[r].row = None
           Q3 == session'[r].pc = "write" =>
                         \/ /\ session'[r].row = None /\ SameVariant(r)' = {}
                            /\ session'[r].lines = {}
                         \/ /\ session'[r].row \in SameVariant(r)'
                            /\ session'[r].lines = {Copy(session[r].row)'}
<1>0. session \in [Requests -> SessionRecords] /\ RequestOK(session[r], carts, rows)
  BY DEF InHand
<1>a. ASSUME session'[r].cart = session[r].cart,
             \A i \in Rows : (rows[i] # None /\ rows[i].cart = session[r].cart)
                               \/ (rows'[i] # None /\ rows'[i].cart = session[r].cart)
                             => rows'[i] = rows[i]
      PROVE  /\ Snapshot(session[r].cart)' = Snapshot(session[r].cart)
             /\ session'[r].variant = session[r].variant => SameVariant(r)' = SameVariant(r)
             /\ \A i \in SameVariant(r) : Copy(i)' = Copy(i)
  <2>1. RowsOf(session[r].cart)' = RowsOf(session[r].cart)
    BY <1>a DEF RowsOf
  <2>2. \A i \in RowsOf(session[r].cart) : rows'[i] = rows[i]
    BY <1>a DEF RowsOf
  <2>3. \A i \in RowsOf(session[r].cart) : Copy(i)' = Copy(i)
    BY <2>2 DEF Copy
  <2> QED
    BY <2>1, <2>2, <2>3 DEF Snapshot, SameVariant
<1>1. CASE session'[r] = session[r] /\ session[r].pc \in WithCart
  <2>1. /\ Snapshot(session[r].cart)' = Snapshot(session[r].cart)
        /\ SameVariant(r)' = SameVariant(r)
        /\ \A i \in SameVariant(r) : Copy(i)' = Copy(i)
    BY <1>1, <1>a, CartQuiet
  <2>2. Q1 /\ Q2
    BY <1>1, <2>1 DEF Ready
  <2>3. ASSUME session[r].pc = "write", session[r].row = None
        PROVE  Q3
    <3>1. None \notin SameVariant(r)
      BY CartAssumption DEF SameVariant, RowsOf
    <3> QED
      BY <1>1, <2>1, <2>3, <3>1 DEF Ready
  <2>4. ASSUME session[r].pc = "write", session[r].row # None
        PROVE  Q3
    <3>1. session[r].row \in SameVariant(r) /\ session[r].lines = {Copy(session[r].row)}
      BY <2>4 DEF Ready
    <3>2. Copy(session[r].row)' = Copy(session[r].row)
      BY <1>1, <2>1, <3>1 DEF Copy
    <3> QED
      BY <1>1, <2>1, <3>1, <3>2
  <2> QED
    BY <1>1, <2>2, <2>3, <2>4
<1>2. CASE session'[r] = session[r] /\ session[r].pc \notin WithCart
  BY <1>2 DEF Ready, WithCart
<1>3. CASE session'[r] = Free
  BY <1>3 DEF Free
<1>4. CASE session'[r].pc = "find" /\ (session'[r].kind = "add" => session'[r].row = None)
  BY <1>4
<1>5. CASE /\ session'[r].pc \notin {"idle", "find"}
           /\ session'[r].kind = session[r].kind /\ session'[r].variant = session[r].variant
           /\ session'[r].row = session[r].row \/ SelectVariant(r)
           /\ session'[r] # session[r]
  <2>0. ~Answer(r)
    BY <1>0, <1>5 DEF Answer, Go, Free
  <2>1. ASSUME SelectVariant(r)
        PROVE  Q1 /\ Q2 /\ Q3
    <3>1. /\ session[r].pc = "select" /\ session'[r].pc = "write"
          /\ session[r].kind = "add"
          /\ session'[r].cart = session[r].cart /\ UNCHANGED rows
          /\ \/ /\ SameVariant(r) = {} /\ session'[r].row = session[r].row
                /\ session'[r].lines = session[r].lines
             \/ \E i \in SameVariant(r) :
                   session'[r].row = i /\ session'[r].lines = {Object(r, i)}
      BY <2>0, <2>1, NoteVariant
    <3>2. /\ SameVariant(r)' = SameVariant(r)
          /\ \A i \in SameVariant(r) : Copy(i)' = Copy(i)
      BY <1>5, <1>a, <3>1
    <3>3. session[r].row = None /\ session[r].lines = {}
          /\ session[r].seen = Snapshot(session[r].cart)
      BY <3>1 DEF Ready, Placed
    <3>4. ASSUME NEW i \in SameVariant(r)
          PROVE  Object(r, i) = Copy(i)
      <4>1. i \in RowsOf(session[r].cart)
        BY DEF SameVariant
      <4> QED
        BY <3>3, <4>1, ObjectIsCopy
    <3>5. ASSUME NEW i \in SameVariant(r), session'[r].row = i,
                 session'[r].lines = {Object(r, i)}
          PROVE  Q3
      <4>1. Copy(session[r].row)' = Copy(i)
        BY <3>1, <3>5 DEF Copy
      <4> QED
        BY <3>2, <3>4, <3>5, <4>1
    <3> QED
      BY <3>1, <3>2, <3>3, <3>5
  <2>2. ASSUME ~SelectVariant(r)
        PROVE  Q1 /\ Q2 /\ Q3
    <3>1. session'[r].pc # "write" \/ session'[r].pc = "select"
      BY <1>0, <1>5, <2>0, <2>2, Noted, NoteSteps, NoteItem DEF Notes
    <3>2. session'[r].pc = "select" =>
             /\ LoadRows(r) /\ session'[r].seen = Snapshot(session[r].cart)
             /\ session'[r].cart = session[r].cart /\ UNCHANGED rows
      BY <1>0, <1>5, <2>0, <2>2, Noted, NoteSteps, NoteItem DEF Notes
    <3>3. Q1
      BY <1>a, <3>2
    <3>4. Q2
      <4>1. session[r].pc # "write"
        BY <1>5, <2>0, <2>2, Noted, NoteSteps, NoteItem DEF Notes, WithCart
      <4> QED
        BY <1>5, <2>2, <4>1 DEF Ready
    <3> QED
      BY <3>1, <3>3, <3>4
  <2> QED
    BY <2>1, <2>2
<1> QED
  BY <1>1, <1>2, <1>3, <1>4, <1>5, LocalsKept

\* What such a request writes.
LEMMA FreshWrites ==
    ASSUME Tables, InHand, Placed, Ready, NEW r \in Requests, NEW i \in Rows, NEW t
    PROVE  /\ Inserts(r, i, t) => SameVariant(r) = {}
           /\ Increments(r, i, t) => /\ rows[i].cart = session[r].cart
                                     /\ rows[i].variant = session[r].variant
                                     /\ t.quantity = rows[i].quantity + 1
<1>1. None \notin SameVariant(r)
  BY CartAssumption DEF SameVariant, RowsOf
<1>2. Inserts(r, i, t) => SameVariant(r) = {}
  BY <1>1 DEF Inserts, Ready
<1>3. ASSUME Increments(r, i, t)
      PROVE  /\ rows[i].cart = session[r].cart /\ rows[i].variant = session[r].variant
             /\ t.quantity = rows[i].quantity + 1
  <2>1. PICK x \in session[r].lines : x.row = i /\ t.quantity = x.quantity + 1
    BY <1>3 DEF Increments
  <2>2. session[r].row \in SameVariant(r) /\ x = Copy(session[r].row)
    BY <1>3, <2>1 DEF Increments, Ready
  <2>3. session[r].row = i /\ x.quantity = rows[i].quantity
    BY <2>1, <2>2 DEF Copy
  <2> QED
    BY <2>1, <2>2, <2>3 DEF SameVariant, RowsOf
<1> QED
  BY <1>2, <1>3

LEMMA MergedKept ==
    ASSUME Tables, InHand, Placed, Ready, Merged, [Next]_vars
    PROVE  Merged'
<1>1. ASSUME UNCHANGED rows
      PROVE  Merged'
  BY <1>1 DEF Merged, RowsOf
<1>2. ASSUME NEW r \in Requests, NEW k \in Rows, NEW t \in RowRecords, Writes(r, k, t),
             Inserts(r, k, t) \/ Increments(r, k, t) \/ Deletes(r, k, t)
      PROVE  Merged'
  <2> SUFFICES ASSUME NEW c \in Carts, NEW i \in Rows, NEW j \in Rows, i # j,
                      rows'[i] # None, rows'[i].cart = c, ~rows'[i].gone,
                      rows'[j] # None, rows'[j].cart = c, ~rows'[j].gone,
                      rows'[i].variant = rows'[j].variant
               PROVE  FALSE
    BY DEF Merged, RowsOf
  <2>1. rows'[k] = t /\ \A l \in Rows : l # k => rows'[l] = rows[l]
    BY <1>2 DEF Writes, Tables
  <2>2. ASSUME NEW l \in Rows, l # k, rows'[l] # None, ~rows'[l].gone,
               rows'[l].cart = t.cart, rows'[l].variant = t.variant, ~t.gone
        PROVE  FALSE
    <3>1. l \in RowsOf(session[r].cart)
      BY <1>2, <2>1, <2>2 DEF RowsOf, Writes
    <3>2. CASE Inserts(r, k, t)
      <4>1. l \in SameVariant(r)
        BY <2>1, <2>2, <3>1, <3>2 DEF SameVariant, Inserts
      <4> QED
        BY <3>2, <4>1, FreshWrites
    <3>3. CASE Increments(r, k, t)
      <4>1. k \in RowsOf(session[r].cart) /\ rows[k].variant = rows[l].variant
        BY <2>1, <2>2, <3>3, FreshWrites DEF RowsOf, Increments
      <4>2. session[r].cart \in Carts
        BY <3>3 DEF Increments, InHand, RequestOK, WithCart
      <4> QED
        BY <2>2, <3>1, <4>1, <4>2 DEF Merged
    <3>4. CASE Deletes(r, k, t)
      BY <2>2, <3>4 DEF Deletes
    <3> QED
      BY <1>2, <3>2, <3>3, <3>4
  <2>3. CASE i # k /\ j # k
    BY <2>1, <2>3 DEF Merged, RowsOf
  <2> QED
    BY <2>1, <2>2, <2>3
<1> QED
  BY <1>1, <1>2, RowSteps

LEMMA HeldSteps ==
    ASSUME Tables, InHand, Placed, Ready, [Next]_vars, NEW c \in Carts, NEW v \in Variants
    PROVE  \/ Held(c, v)' = Held(c, v) /\ added'[c][v] = added[c][v]
           \/ \E u : /\ u \notin Held(c, v) /\ Held(c, v)' = Held(c, v) \cup {u}
                     /\ added'[c][v] = added[c][v] + 1
<1>0. rows \in [Rows -> RowRecords \cup {None}] /\ added \in [Carts -> [Variants -> Nat]]
  BY DEF Tables
<1>1. CASE UNCHANGED <<rows, added>>
  BY <1>1 DEF Held
<1>2. ASSUME NEW r \in Requests, NEW i \in Rows, NEW t \in RowRecords, Writes(r, i, t),
             Inserts(r, i, t) \/ Increments(r, i, t)
      PROVE  \/ Held(c, v)' = Held(c, v) /\ added'[c][v] = added[c][v]
             \/ \E u : /\ u \notin Held(c, v) /\ Held(c, v)' = Held(c, v) \cup {u}
                       /\ added'[c][v] = added[c][v] + 1
  <2>1. rows'[i] = t /\ \A j \in Rows : j # i => rows'[j] = rows[j]
    BY <1>0, <1>2 DEF Writes
  <2>2. t.cart = session[r].cart /\ t.variant = session[r].variant
        /\ session[r].cart \in Carts /\ session[r].variant \in Variants
    <3>1. session[r].pc = "write"
      BY <1>2 DEF Inserts, Increments
    <3>2. session[r].cart \in Carts /\ session[r].variant \in Variants
      BY <3>1 DEF InHand, RequestOK, WithCart
    <3> QED
      BY <1>2, <3>2, FreshWrites DEF Writes, Inserts, Increments
  <2>3. added' = [added EXCEPT ![session[r].cart][session[r].variant] = @ + 1]
    BY <1>2 DEF Inserts, Increments, Count
  <2>4. t # None /\ t.quantity \in 1 .. MaxQuantity
    BY <1>2, RecordAssumption DEF RowRecords
  <2>5. CASE ~(session[r].cart = c /\ session[r].variant = v)
    <3>1. added'[c][v] = added[c][v]
      BY <1>0, <2>2, <2>3, <2>5
    <3>2. rows[i] # None => rows[i].cart = t.cart /\ rows[i].variant = t.variant
      BY <1>2, <2>2, FreshWrites DEF Inserts
    <3>3. \A u \in Rows \X (1 .. MaxQuantity) : u \in Held(c, v)' <=> u \in Held(c, v)
      BY <2>1, <2>2, <2>4, <2>5, <3>2 DEF Held
    <3>4. Held(c, v)' = Held(c, v)
      BY <3>3 DEF Held
    <3> QED
      BY <3>1, <3>4
  <2>6. CASE session[r].cart = c /\ session[r].variant = v
    <3> DEFINE u == <<i, t.quantity>>
    <3>1. added'[c][v] = added[c][v] + 1
      BY <1>0, <2>3, <2>6
    <3>2. u \in Rows \X (1 .. MaxQuantity)
      BY <2>4
    <3>3. CASE Inserts(r, i, t)
      <4>1. rows[i] = None /\ t.quantity = 1
        BY <3>3 DEF Inserts
      <4>2. u \notin Held(c, v)
        BY <4>1 DEF Held
      <4>3. \A w \in Rows \X (1 .. MaxQuantity) :
               w \in Held(c, v)' <=> w \in Held(c, v) \/ w = u
        BY <2>1, <2>2, <2>4, <2>6, <4>1 DEF Held
      <4>4. Held(c, v)' = Held(c, v) \cup {u}
        BY <3>2, <4>3 DEF Held
      <4> QED
        BY <3>1, <4>2, <4>4
    <3>4. CASE Increments(r, i, t)
      <4>1. /\ rows[i] # None /\ t.quantity = rows[i].quantity + 1
            /\ rows[i].cart = c /\ rows[i].variant = v
            /\ rows[i].quantity \in 1 .. MaxQuantity
        BY <1>0, <2>6, <3>4, FreshWrites DEF Increments, RowRecords
      <4>2. u \notin Held(c, v)
        BY <4>1 DEF Held
      <4>3. \A w \in Rows \X (1 .. MaxQuantity) :
               w \in Held(c, v)' <=> w \in Held(c, v) \/ w = u
        BY <2>1, <2>2, <2>4, <2>6, <4>1 DEF Held
      <4>4. Held(c, v)' = Held(c, v) \cup {u}
        BY <3>2, <4>3 DEF Held
      <4> QED
        BY <3>1, <4>2, <4>4
    <3> QED
      BY <1>2, <3>3, <3>4
  <2> QED
    BY <2>5, <2>6
<1>3. ASSUME NEW r \in Requests, NEW i \in Rows, NEW t \in RowRecords, Writes(r, i, t),
             Deletes(r, i, t)
      PROVE  Held(c, v)' = Held(c, v) /\ added'[c][v] = added[c][v]
  <2>1. rows'[i] = t /\ \A j \in Rows : j # i => rows'[j] = rows[j]
    BY <1>0, <1>3 DEF Writes
  <2>2. /\ rows[i] # None /\ t # None
        /\ t.variant = rows[i].variant /\ t.quantity = rows[i].quantity /\ UNCHANGED added
    BY <1>3, RecordAssumption DEF Deletes
  <2>3. t.cart = rows[i].cart
    BY <2>1, <2>2, RowsPlaced
  <2> QED
    BY <2>1, <2>2, <2>3 DEF Held
<1> QED
  BY <1>1, <1>2, <1>3, RowSteps

LEMMA BalancedKept ==
    ASSUME Tables, InHand, Placed, Ready, Balanced, [Next]_vars
    PROVE  Balanced'
<1> SUFFICES ASSUME NEW c \in Carts, NEW v \in Variants
             PROVE  IsFiniteSet(Held(c, v)') /\ Cardinality(Held(c, v)') = added'[c][v]
  BY DEF Balanced
<1>1. IsFiniteSet(Held(c, v)) /\ Cardinality(Held(c, v)) = added[c][v]
  BY DEF Balanced
<1>2. CASE Held(c, v)' = Held(c, v) /\ added'[c][v] = added[c][v]
  BY <1>1, <1>2
<1>3. ASSUME NEW u, u \notin Held(c, v), Held(c, v)' = Held(c, v) \cup {u},
             added'[c][v] = added[c][v] + 1
      PROVE  IsFiniteSet(Held(c, v)') /\ Cardinality(Held(c, v)') = added'[c][v]
  <2>1. /\ IsFiniteSet(Held(c, v) \cup {u})
        /\ Cardinality(Held(c, v) \cup {u}) =
             IF u \in Held(c, v) THEN Cardinality(Held(c, v)) ELSE Cardinality(Held(c, v)) + 1
    BY <1>1, FS_AddElement
  <2> QED
    BY <1>1, <1>3, <2>1
<1> QED
  BY <1>2, <1>3, HeldSteps

\* The quantity in a cart is the number of units held.
LEMMA InRowsIsHeld ==
    ASSUME Tables, NEW c, NEW v, IsFiniteSet(Held(c, v))
    PROVE  InRows(c, v) = Cardinality(Held(c, v))
<1> DEFINE mine == {i \in Rows : rows[i] # None /\ rows[i].cart = c /\ rows[i].variant = v}
           q == [i \in mine |-> rows[i].quantity]
           f == [i \in mine |-> <<i, 1>>]
<1>1. \A i \in mine : i \in Rows /\ rows[i].quantity \in 1 .. MaxQuantity
  BY DEF Tables, RowRecords
<1>2. DOMAIN q = mine /\ \A i \in mine : q[i] = rows[i].quantity /\ q[i] \in Nat
  BY <1>1
<1>3. IsFiniteSet(mine)
  <2>1. f \in [mine -> Held(c, v)]
    BY <1>1 DEF Held
  <2>2. \A i, j \in mine : f[i] = f[j] => i = j
    OBVIOUS
  <2> HIDE DEF f, mine
  <2>3. f \in Injection(mine, Held(c, v))
    BY <2>1, <2>2, Fun_IsInj
  <2> QED
    BY <2>3, FS_Injection
<1>4. Units(q, mine) = Held(c, v)
  <2>1. ASSUME NEW u \in Units(q, mine)
        PROVE  u \in Held(c, v)
    <3>1. PICK i \in mine : \E k \in 1 .. rows[i].quantity : u = <<i, k>>
      BY <1>2, InUnits
    <3> QED
      BY <1>1, <3>1 DEF Held
  <2>2. ASSUME NEW u \in Held(c, v)
        PROVE  u \in Units(q, mine)
    <3>1. u[1] \in mine /\ u[2] \in 1 .. rows[u[1]].quantity /\ u = <<u[1], u[2]>>
      BY DEF Held
    <3> QED
      BY <1>2, <3>1, InUnits
  <2> QED
    BY <2>1, <2>2
<1>5. InRows(c, v) = SumFunction(q)
  BY DEF InRows
<1> HIDE DEF q, mine
<1> QED
  BY <1>2, <1>3, <1>4, <1>5, SumIsCount

LEMMA ReadyStarts == ASSUME Init PROVE Placed /\ Ready /\ Merged /\ Balanced
<1>1. Placed /\ Ready
  BY DEF Init, Free, Placed, Ready
<1>2. Merged
  BY DEF Init, Merged, RowsOf
<1>3. ASSUME NEW c \in Carts, NEW v \in Variants
      PROVE  Held(c, v) = {} /\ added[c][v] = 0
  BY DEF Init, Held
<1> QED
  BY <1>1, <1>2, <1>3, FS_EmptySet DEF Balanced

\* "If the same variant is already in the cart, increment quantity rather than adding
\* a second row" (cart_service.py), and no increment is lost, if the customer waits.
THEOREM NothingIsLost == ASSUME Serial = TRUE PROVE Spec => []NothingLost
<1>1. Init => Placed /\ Ready /\ Merged /\ Balanced
  BY ReadyStarts
<1>2. SInv /\ Placed /\ Ready /\ Merged /\ Balanced /\ [Next]_vars
        => Placed' /\ Ready' /\ Merged' /\ Balanced'
  <2> SUFFICES ASSUME SInv, Placed, Ready, Merged, Balanced, [Next]_vars
               PROVE  Placed' /\ Ready' /\ Merged' /\ Balanced'
    OBVIOUS
  <2>1. Tables /\ InHand /\ Alone /\ Claimed
    BY DEF SInv, CInv
  <2> QED
    BY <2>1, PlacedKept, ReadyKept, MergedKept, BalancedKept
<1>3. ASSUME SInv, Merged, Balanced
      PROVE  NothingLost
  <2> SUFFICES ASSUME NEW c \in Carts, NEW v \in Variants
               PROVE  /\ InRows(c, v) = added[c][v]
                      /\ Cardinality({i \in RowsOf(c) : rows[i].variant = v}) <= 1
    BY DEF NothingLost
  <2>1. InRows(c, v) = added[c][v]
    BY <1>3, InRowsIsHeld DEF Balanced, SInv, CInv
  <2> DEFINE S == {i \in RowsOf(c) : rows[i].variant = v}
  <2>2. \A i, j \in S : i = j
    BY <1>3 DEF Merged
  <2>3. S = {} \/ \E i : S = {i}
    BY <2>2
  <2> HIDE DEF S
  <2>4. Cardinality(S) = 0 \/ Cardinality(S) = 1
    BY <2>3, FS_EmptySet, FS_Singleton
  <2>5. Cardinality(S) <= 1
    BY <2>4
  <2> QED
    BY <2>1, <2>5 DEF S
<1> QED
  BY <1>1, <1>2, <1>3, SInvAlways, PTL DEF Spec

-----------------------------------------------------------------------------
(* Requests that happen at once: CartCheckout implements Shop.              *)

\* Row i of the rows R is in cart c, of variant v.
In(R, i, c, v) ==
    i \in Rows /\ R[i] # None /\ R[i].cart = c /\ ~R[i].gone /\ R[i].variant = v

LEMMA HoldsSame ==
    ASSUME NEW c, NEW v,
           \A i \in Rows : In(rows, i, c, v) <=> In(rows', i, c, v),
           \A i \in Rows : In(rows, i, c, v) => rows'[i].quantity = rows[i].quantity
    PROVE  Holds(c, v)' = Holds(c, v)
<1> DEFINE S == {j \in RowsOf(c) : rows[j].variant = v}
           q == [i \in S |-> rows[i].quantity]
<1>1. S' = S
  BY DEF RowsOf, In
<1>2. \A i \in S : rows'[i].quantity = rows[i].quantity
  BY DEF RowsOf, In
<1>3. q' = q
  BY <1>1, <1>2
<1> HIDE DEF q
<1>4. Holds(c, v) = SumFunction(q) /\ Holds(c, v)' = SumFunction(q')
  BY DEF Holds, q
<1> QED
  BY <1>3, <1>4

LEMMA HoldsNone ==
    ASSUME NEW c, NEW v
    PROVE  /\ (\A i \in Rows : ~In(rows, i, c, v)) => Holds(c, v) = 0
           /\ (\A i \in Rows : ~In(rows', i, c, v)) => Holds(c, v)' = 0
<1> DEFINE S == {j \in RowsOf(c) : rows[j].variant = v}
           q == [i \in S |-> rows[i].quantity]
<1>1. /\ (\A i \in Rows : ~In(rows, i, c, v)) => S = {}
      /\ (\A i \in Rows : ~In(rows', i, c, v)) => S' = {}
  BY DEF RowsOf, In
<1>2. DOMAIN q = S /\ DOMAIN (q') = S'
  OBVIOUS
<1>3. Holds(c, v) = SumFunction(q) /\ Holds(c, v)' = SumFunction(q')
  BY DEF Holds
<1> HIDE DEF q, S
<1> QED
  BY <1>1, <1>2, <1>3, SumOfNone

LEMMA HoldsOne ==
    ASSUME NEW c, NEW v, NEW i \in Rows
    PROVE  /\ /\ In(rows, i, c, v) /\ rows[i].quantity \in Nat
              /\ \A j \in Rows : In(rows, j, c, v) => j = i
              => Holds(c, v) = rows[i].quantity
           /\ /\ In(rows', i, c, v) /\ rows'[i].quantity \in Nat
              /\ \A j \in Rows : In(rows', j, c, v) => j = i
              => Holds(c, v)' = rows'[i].quantity
<1> DEFINE S == {j \in RowsOf(c) : rows[j].variant = v}
           q == [j \in S |-> rows[j].quantity]
<1>1. ASSUME In(rows, i, c, v), rows[i].quantity \in Nat,
             \A j \in Rows : In(rows, j, c, v) => j = i
      PROVE  Holds(c, v) = rows[i].quantity
  <2>1. S = {i}
    BY <1>1 DEF RowsOf, In
  <2>2. DOMAIN q = {i} /\ q[i] = rows[i].quantity
    BY <2>1
  <2>3. Holds(c, v) = SumFunction(q)
    BY DEF Holds
  <2> HIDE DEF q, S
  <2> QED
    BY <1>1, <2>2, <2>3, SumOfOne
<1>2. ASSUME In(rows', i, c, v), rows'[i].quantity \in Nat,
             \A j \in Rows : In(rows', j, c, v) => j = i
      PROVE  Holds(c, v)' = rows'[i].quantity
  <2> DEFINE T == {j \in RowsOf(c)' : rows'[j].variant = v}
             p == [j \in T |-> rows'[j].quantity]
  <2>1. T = {i}
    BY <1>2 DEF RowsOf, In
  <2>2. DOMAIN p = {i} /\ p[i] = rows'[i].quantity
    BY <2>1
  <2>3. Holds(c, v)' = SumFunction(p)
    BY DEF Holds
  <2> HIDE DEF p, T
  <2> QED
    BY <1>2, <2>2, <2>3, SumOfOne
<1> QED
  BY <1>1, <1>2

\* A checkout that verifies has something to verify or verified.
Stocked == \A r \in Requests :
    session[r].pc = "verify" => session[r].seen \cup session[r].lines # {}

LEMMA StockedKept ==
    ASSUME InHand, Stocked, [Next]_vars
    PROVE  Stocked'
<1> SUFFICES ASSUME NEW r \in Requests, session'[r].pc = "verify"
             PROVE  session'[r].seen \cup session'[r].lines # {}
  BY DEF Stocked
<1>0. session \in [Requests -> SessionRecords]
  BY DEF InHand
<1>1. ~Answer(r)
  BY <1>0 DEF Answer, Go, Free
<1>2. CASE session'[r] = session[r]
  BY <1>2 DEF Stocked
<1>3. CASE ReadItems(r)
  <2>1. RowsOf(session[r].cart) # {}
    BY <1>1, <1>3 DEF ReadItems
  <2>2. session'[r].seen = {Object(r, i) : i \in RowsOf(session[r].cart)}
    BY <1>1, <1>3, NoteSteps
  <2> QED
    BY <2>1, <2>2
<1>4. ASSUME NEW x \in session[r].seen, VerifyItem(r, x)
      PROVE  session'[r].lines # {}
  <2>1. \E y : session'[r].lines = session[r].lines \cup {y}
    BY <1>4, NoteItem
  <2> QED
    BY <2>1
<1> QED
  BY <1>1, <1>2, <1>3, <1>4, Noted, NoteSteps, NoteVariant DEF Notes

\* Everything that holds of a customer who waits.
WInv == /\ SInv /\ QInv
        /\ Fresh /\ Ready /\ Merged /\ Balanced /\ Stocked

LEMMA WInvAlways == ASSUME Serial = TRUE PROVE Spec => []WInv
<1>1. Init => WInv
  <2> SUFFICES ASSUME Init PROVE WInv
    OBVIOUS
  <2>1. SInv /\ QInv
    BY SInvStarts, QInvStarts
  <2>2. Fresh /\ Stocked
    BY DEF Init, Free, Fresh, Stocked
  <2>3. Ready /\ Merged /\ Balanced
    BY ReadyStarts
  <2> QED
    BY <2>1, <2>2, <2>3 DEF WInv
<1>2. WInv /\ [Next]_vars => WInv'
  <2> SUFFICES ASSUME WInv, [Next]_vars PROVE WInv'
    OBVIOUS
  <2>1. SInv /\ QInv /\ Fresh /\ Ready /\ Merged /\ Balanced /\ Stocked
        /\ Tables /\ InHand /\ Alone /\ Claimed /\ Placed
    BY DEF WInv, SInv, CInv, QInv
  <2> QED
    BY <2>1, SInvKept, QInvKept, FreshKept, ReadyKept, MergedKept, BalancedKept, StockedKept
       DEF WInv
<1> QED
  BY <1>1, <1>2, PTL DEF Spec

\* A bill is a record like any other.
LEMMA SalesAre ==
    ASSUME QInv, NEW n \in Orders
    PROVE  /\ orders[n] = None => Sales[n] = None
           /\ orders[n] # None => Sales[n] # None /\ Sales[n].cart = orders[n].cart
<1>1. CASE orders[n] # None
  <2>1. orders[n] \in OrderRecords
    BY <1>1 DEF QInv, CInv, Tables
  <2>2. orders[n].user \in Users /\ orders[n].cart \in Carts
    BY <2>1 DEF OrderRecords
  <2>3. \A v \in Variants : Billed(n, v) \in Nat
    BY <1>1, <2>2, BilledIsKnown DEF QInv, CInv, Counted
  <2> DEFINE bill == [v \in Variants |-> Billed(n, v)]
             t == [user |-> orders[n].user, cart |-> orders[n].cart, bill |-> bill]
  <2>4. bill \in [Variants -> Nat]
    BY <2>3
  <2>5. Sales[n] = t
    BY <1>1 DEF Sales
  <2> HIDE DEF bill
  <2>6. t \in SaleRecords /\ t.cart = orders[n].cart
    BY <2>2, <2>4 DEF SaleRecords
  <2> HIDE DEF t
  <2> QED
    BY <1>1, <2>5, <2>6, RecordAssumption
<1>2. orders[n] = None => Sales[n] = None
  BY DEF Sales
<1> QED
  BY <1>1, <1>2

LEMMA ActiveIs ==
    ASSUME QInv, NEW c \in Carts, NEW u \in Users
    PROVE  AtOnce!Active(c, u) <=> ActiveCart(c, u)
<1>1. AtOnce!Sold(c) <=> \E n \in Orders : orders[n] # None /\ orders[n].cart = c
  BY SalesAre DEF AtOnce!Sold
<1>2. AtOnce!Sold(c) <=> carts[c] # None /\ carts[c].status = "checked_out"
  BY <1>1 DEF QInv, CInv, CheckedOutMeansOrdered
<1>3. Owners[c] = IF carts[c] = None THEN None ELSE carts[c].user
  BY DEF Owners
<1>4. CASE carts[c] = None
  BY <1>3, <1>4, RecordAssumption, CartAssumption DEF AtOnce!Active, ActiveCart, CartRecords
<1>5. CASE carts[c] # None
  <2>1. carts[c] \in CartRecords
    BY <1>5 DEF QInv, CInv, Tables
  <2>2. carts[c] = [user |-> carts[c].user, status |-> carts[c].status]
        /\ carts[c].status \in {"active", "checked_out"}
    BY <2>1 DEF CartRecords
  <2> QED
    BY <1>2, <1>3, <1>5, <2>2 DEF AtOnce!Active, ActiveCart
<1> QED
  BY <1>4, <1>5

LEMMA ShopInit == ASSUME Init PROVE AtOnce!Init
<1>1. Owners = [c \in Carts |-> None]
  BY DEF Init, Owners
<1>2. Sales = [n \in Orders |-> None]
  BY DEF Init, Sales
<1>3. ASSUME NEW c \in Carts, NEW v \in Variants
      PROVE  Holds(c, v) = 0
  <2>1. \A i \in Rows : ~In(rows, i, c, v)
    BY DEF Init, In
  <2> QED
    BY <2>1, HoldsNone
<1>4. Baskets = [c \in Carts |-> [v \in Variants |-> 0]]
  BY <1>3 DEF Baskets
<1> QED
  BY <1>1, <1>2, <1>4 DEF AtOnce!Init, AtOnce!Empty

\* What does not touch a table is not seen.
LEMMA BasketsSame == ASSUME UNCHANGED rows PROVE UNCHANGED Baskets
BY DEF Baskets, Holds, RowsOf

LEMMA SalesSame == ASSUME UNCHANGED orders PROVE UNCHANGED Sales
BY DEF Sales, Billed

LEMMA OwnersSame == ASSUME UNCHANGED carts PROVE UNCHANGED Owners
BY DEF Owners

\* get_or_create_cart is Open.
LEMMA CreateOpens ==
    ASSUME WInv, NEW r \in Requests, CreateCart(r)
    PROVE  \E c \in Carts, u \in Users : AtOnce!Open(c, u)
<1>1. session[r].pc = "create" /\ session[r].user \in Users /\ UNCHANGED <<rows, orders>>
  BY DEF CreateCart, WInv, SInv, CInv, InHand, RequestOK
<1>2. PICK u \in Users : u = session[r].user
  BY <1>1
<1>3. PICK c \in Carts : carts[c] = None /\ carts' = [carts EXCEPT ![c] = NewCart(u)]
  BY <1>2 DEF CreateCart
<1>4. Owners[c] = None
  BY <1>3 DEF Owners
<1>5. \A d \in Carts : ~AtOnce!Active(d, u)
  BY <1>1, <1>2, ActiveIs DEF WInv, SInv, Claimed
<1>6. Owners' = [Owners EXCEPT ![c] = u]
  <2>1. NewCart(u) # None /\ NewCart(u).user = u
    BY RecordAssumption DEF NewCart, CartRecords
  <2>2. \A d \in Carts : carts'[d] = IF d = c THEN NewCart(u) ELSE carts[d]
    BY <1>3 DEF WInv, SInv, CInv, Tables
  <2>3. \A d \in Carts : Owners'[d] = IF d = c THEN u ELSE Owners[d]
    BY <2>1, <2>2 DEF Owners
  <2> QED
    BY <2>3 DEF Owners
<1>7. UNCHANGED <<Baskets, Sales>>
  BY <1>1, BasketsSame, SalesSame
<1> QED
  BY <1>4, <1>5, <1>6, <1>7 DEF AtOnce!Open

\* A row of a cart is in the basket with its quantity; without a row the basket has none.
LEMMA BasketRow ==
    ASSUME Tables, Merged, NEW c \in Carts, NEW v
    PROVE  /\ \A i \in RowsOf(c) : rows[i].variant = v =>
                 /\ Holds(c, v) = rows[i].quantity /\ rows[i].quantity \in 1 .. MaxQuantity
                 /\ i \in Rows /\ In(rows, i, c, v)
                 /\ \A j \in Rows : In(rows, j, c, v) => j = i
           /\ (\A i \in RowsOf(c) : rows[i].variant # v) => Holds(c, v) = 0
<1>1. ASSUME NEW i \in RowsOf(c), rows[i].variant = v
      PROVE  /\ Holds(c, v) = rows[i].quantity /\ rows[i].quantity \in 1 .. MaxQuantity
             /\ i \in Rows /\ In(rows, i, c, v)
             /\ \A j \in Rows : In(rows, j, c, v) => j = i
  <2>1. i \in Rows /\ In(rows, i, c, v)
    BY <1>1 DEF RowsOf, In
  <2>2. \A j \in Rows : In(rows, j, c, v) => j = i
    BY <1>1 DEF RowsOf, In, Merged
  <2>3. rows[i].quantity \in 1 .. MaxQuantity
    BY <2>1 DEF In, Tables, RowRecords
  <2> QED
    BY <2>1, <2>2, <2>3, HoldsOne
<1>2. ASSUME \A i \in RowsOf(c) : rows[i].variant # v
      PROVE  Holds(c, v) = 0
  <2>1. \A i \in Rows : ~In(rows, i, c, v)
    BY <1>2 DEF RowsOf, In
  <2> QED
    BY <2>1, HoldsNone
<1> QED
  BY <1>1, <1>2

\* The bill of a checkout that has read and priced the whole cart is the basket.
LEMMA BillIsBasket ==
    ASSUME Tables, Merged, NEW c \in Carts, NEW L \in SUBSET Priced, Apart(L),
           Stripped(L) = Snapshot(c), NEW v
    PROVE  SumFunction([x \in {y \in L : y.variant = v} |-> x.quantity]) = Holds(c, v)
<1> DEFINE D == {y \in L : y.variant = v}
           q == [x \in D |-> x.quantity]
<1>1. DOMAIN q = D /\ \A x \in D : q[x] = x.quantity
  OBVIOUS
<1>2. ASSUME NEW y \in L
      PROVE  y.row \in RowsOf(c) /\ rows[y.row].variant = y.variant
             /\ rows[y.row].quantity = y.quantity
  <2>1. [row |-> y.row, variant |-> y.variant, quantity |-> y.quantity] \in Snapshot(c)
    BY DEF Stripped
  <2>2. PICK i \in RowsOf(c) :
           [row |-> y.row, variant |-> y.variant, quantity |-> y.quantity]
             = [row |-> i, variant |-> rows[i].variant, quantity |-> rows[i].quantity]
    BY <2>1 DEF Snapshot, Copy
  <2> QED
    BY <2>2
<1>3. ASSUME NEW i \in RowsOf(c), rows[i].variant = v
      PROVE  SumFunction(q) = Holds(c, v)
  <2>1. Copy(i) \in Stripped(L)
    BY DEF Snapshot
  <2>2. PICK x \in L : Copy(i) = [row |-> x.row, variant |-> x.variant, quantity |-> x.quantity]
    BY <2>1 DEF Stripped
  <2>3. x.row = i /\ x.variant = v /\ x.quantity = rows[i].quantity
    BY <1>3, <2>2 DEF Copy
  <2>4. ASSUME NEW y \in D
        PROVE  y = x
    <3>1. y.row \in RowsOf(c) /\ rows[y.row].variant = v
      BY <1>2
    <3>2. y.row = i
      BY <1>3, <3>1 DEF Merged
    <3> QED
      BY <2>3, <3>2 DEF Apart
  <2>5. D = {x}
    BY <2>3, <2>4
  <2>6. Holds(c, v) = rows[i].quantity /\ rows[i].quantity \in Nat
    BY <1>3, BasketRow
  <2>7. DOMAIN q = {x} /\ q[x] = rows[i].quantity
    BY <1>1, <2>3, <2>5
  <2> HIDE DEF q, D
  <2> QED
    BY <2>6, <2>7, SumOfOne
<1>4. ASSUME \A i \in RowsOf(c) : rows[i].variant # v
      PROVE  SumFunction(q) = Holds(c, v)
  <2>1. D = {}
    BY <1>2, <1>4
  <2>2. Holds(c, v) = 0
    BY <1>4, BasketRow
  <2> HIDE DEF q, D
  <2> QED
    BY <1>1, <2>1, <2>2, SumOfNone
<1> QED
  BY <1>3, <1>4

\* OrderService.checkout is Sell, at its commit.
LEMMA CommitSells ==
    ASSUME WInv, [Next]_vars, NEW r \in Requests, CommitCheckout(r)
    PROVE  \E n \in Orders, c \in Carts, u \in Users :
              AtOnce!Active(c, u) /\ AtOnce!Sell(n, c)
<1>0. /\ Tables /\ InHand /\ Merged /\ QInv /\ Claimed /\ Fresh /\ Single /\ Stocked
      /\ orders \in [Orders -> OrderRecords \cup {None}]
      /\ carts \in [Carts -> CartRecords \cup {None}]
  BY DEF WInv, SInv, CInv, QInv, Tables
<1>1. PICK n \in Orders, c \in Carts, order \in OrderRecords :
         Ordered(r, n, c, order) /\ carts[c] # None
  BY <1>0, Commits
<1>2. /\ session[r].pc = "verify" /\ session[r].cart = c /\ session[r].user = order.user
      /\ session[r].seen = {} /\ orders[n] = None
      /\ orders' = [orders EXCEPT ![n] = order]
      /\ order.cart = c /\ order.lines = session[r].lines
      /\ UNCHANGED rows
  BY <1>1 DEF Ordered, CommitCheckout
<1>3. ActiveCart(c, order.user) /\ order.user \in Users
  BY <1>0, <1>2 DEF Claimed, WithCart, OrderRecords
<1>4. AtOnce!Active(c, order.user)
  BY <1>0, <1>3, ActiveIs
<1>5. Stripped(order.lines) = Snapshot(c) /\ Apart(order.lines) /\ order.lines # {}
  <2>1. session[r].seen \cup Stripped(session[r].lines) = Snapshot(c)
    BY <1>0, <1>2 DEF Fresh
  <2> QED
    BY <1>0, <1>2, <2>1 DEF Single, Stocked
<1>6. order.lines \in SUBSET Priced
  BY DEF OrderRecords
<1>7. \A v \in Variants : Billed(n, v)' = Holds(c, v)
  <2> SUFFICES ASSUME NEW v \in Variants PROVE Billed(n, v)' = Holds(c, v)
    OBVIOUS
  <2>1. orders'[n] = order
    BY <1>0, <1>2
  <2>2. Billed(n, v)' =
          SumFunction([x \in {y \in order.lines : y.variant = v} |-> x.quantity])
    BY <2>1 DEF Billed
  <2> QED
    BY <1>0, <1>5, <1>6, <2>2, BillIsBasket
<1>8. Baskets[c] # AtOnce!Empty
  <2>1. PICK x \in order.lines : TRUE
    BY <1>5
  <2>2. [row |-> x.row, variant |-> x.variant, quantity |-> x.quantity] \in Snapshot(c)
    BY <1>5 DEF Stripped
  <2>3. PICK i \in RowsOf(c) : TRUE
    BY <2>2 DEF Snapshot
  <2>4. Holds(c, rows[i].variant) \in 1 .. MaxQuantity
    BY <1>0, <2>3, BasketRow
  <2>5. rows[i].variant \in Variants
    BY <1>0, <2>3 DEF RowsOf, Tables, RowRecords
  <2>6. Baskets[c][rows[i].variant] # 0
    BY <2>4, <2>5 DEF Baskets
  <2> QED
    BY <2>5, <2>6 DEF AtOnce!Empty
<1>9. UNCHANGED <<Owners, Baskets>>
  <2>1. \A d \in Carts : (carts'[d] = None) = (carts[d] = None)
                         /\ (carts[d] # None => carts'[d].user = carts[d].user)
    <3>1. carts[c] \in CartRecords
      BY <1>0, <1>1
    <3>2. /\ [carts[c] EXCEPT !.status = "checked_out"] \in CartRecords
          /\ [carts[c] EXCEPT !.status = "checked_out"].user = carts[c].user
      BY <3>1 DEF CartRecords
    <3>3. carts' = [carts EXCEPT ![c] = [carts[c] EXCEPT !.status = "checked_out"]]
      BY <1>1 DEF Ordered
    <3> QED
      BY <1>0, <1>1, <3>2, <3>3, RecordAssumption
  <2>2. UNCHANGED Owners
    BY <2>1 DEF Owners
  <2> QED
    BY <1>2, <2>2, BasketsSame
<1>10. Owners[c] = order.user /\ Baskets[c] = [v \in Variants |-> Holds(c, v)]
  BY <1>1, <1>3 DEF Owners, Baskets, ActiveCart
<1>11. Sales' = [Sales EXCEPT ![n] =
                   [user |-> Owners[c], cart |-> c, bill |-> Baskets[c]]]
  <2> DEFINE t == [user |-> Owners[c], cart |-> c, bill |-> Baskets[c]]
  <2>1. Sales'[n] = t
    <3>1. orders'[n] = order /\ order # None
      BY <1>0, <1>2, RecordAssumption
    <3>2. Sales'[n] = [user |-> order.user, cart |-> order.cart,
                       bill |-> [v \in Variants |-> Billed(n, v)']]
      BY <3>1 DEF Sales
    <3>3. [v \in Variants |-> Billed(n, v)'] = [v \in Variants |-> Holds(c, v)]
      BY <1>7
    <3> QED
      BY <1>2, <1>10, <3>2, <3>3
  <2>2. \A m \in Orders : m # n => Sales'[m] = Sales[m]
    <3>1. \A m \in Orders : m # n => orders'[m] = orders[m]
      BY <1>0, <1>2
    <3> QED
      BY <3>1 DEF Sales, Billed
  <2>3. DOMAIN Sales = Orders /\ DOMAIN (Sales') = Orders
    BY DEF Sales
  <2>4. Sales = [m \in Orders |-> Sales[m]] /\ Sales' = [m \in Orders |-> Sales'[m]]
    BY DEF Sales
  <2> HIDE DEF t
  <2>5. Sales' = [Sales EXCEPT ![n] = t]
    BY <2>1, <2>2, <2>3, <2>4
  <2> QED
    BY <2>5 DEF t
<1>12. Sales[n] = None
  BY <1>2 DEF Sales
<1>13. AtOnce!Sell(n, c)
  BY <1>8, <1>9, <1>11, <1>12 DEF AtOnce!Sell
<1> QED
  BY <1>3, <1>4, <1>13

\* A row written is an Add or a Remove, or is not seen: it was removed before.
LEMMA WriteActs ==
    ASSUME WInv, [Next]_vars, NEW r \in Requests, NEW i \in Rows, NEW t \in RowRecords,
           Writes(r, i, t), Inserts(r, i, t) \/ Increments(r, i, t) \/ Deletes(r, i, t)
    PROVE  \/ UNCHANGED <<Owners, Baskets, Sales>>
           \/ \E c \in Carts, u \in Users, v \in Variants :
                 AtOnce!Active(c, u) /\ (AtOnce!Add(c, v) \/ AtOnce!Remove(c, v))
<1>0. /\ Tables /\ InHand /\ Placed /\ Ready /\ Merged /\ QInv /\ Claimed
      /\ rows \in [Rows -> RowRecords \cup {None}]
  BY DEF WInv, SInv, CInv, QInv, Tables
<1>1. rows'[i] = t /\ \A j \in Rows : j # i => rows'[j] = rows[j]
  BY <1>0 DEF Writes
<1>2. PICK c \in Carts, v \in Variants : /\ c = session[r].cart /\ v = t.variant
                                         /\ t.cart = c
                                         /\ t # None /\ t.quantity \in 1 .. MaxQuantity
  <2>1. session[r].pc \in {"write", "delete"}
    BY DEF Inserts, Increments, Deletes
  <2>2. session[r].cart \in Carts
    BY <1>0, <2>1 DEF InHand, RequestOK, WithCart
  <2> QED
    BY <2>2, RecordAssumption DEF Writes, RowRecords
<1>3. rows[i] # None => rows[i].cart = c /\ rows[i].variant = v
  <2>1. rows[i] # None => rows[i].cart = t.cart
    BY <1>0, <1>1, RowsPlaced
  <2> QED
    BY <1>2, <2>1 DEF Inserts, Increments, Deletes
<1>4. \E u \in Users : AtOnce!Active(c, u)
  <2>1. session[r].pc \in WithCart /\ session[r].user \in Users
    BY <1>0 DEF Inserts, Increments, Deletes, InHand, RequestOK, WithCart
  <2>2. ActiveCart(c, session[r].user)
    BY <1>0, <1>2, <2>1 DEF Claimed
  <2> QED
    BY <1>0, <2>1, <2>2, ActiveIs
<1>5. ASSUME NEW d \in Carts, NEW w \in Variants, ~(d = c /\ w = v)
      PROVE  Holds(d, w)' = Holds(d, w)
  <2>1. ~In(rows, i, d, w) /\ ~In(rows', i, d, w)
    BY <1>1, <1>2, <1>3, <1>5 DEF In
  <2>2. \A j \in Rows : j # i => (In(rows', j, d, w) <=> In(rows, j, d, w))
    BY <1>1 DEF In
  <2>3. \A j \in Rows : In(rows, j, d, w) <=> In(rows', j, d, w)
    BY <2>1, <2>2
  <2>4. \A j \in Rows : In(rows, j, d, w) => rows'[j].quantity = rows[j].quantity
    BY <1>1, <2>1
  <2> QED
    BY <2>3, <2>4, HoldsSame
<1>6. Baskets' = [Baskets EXCEPT ![c][v] = Holds(c, v)']
  <2>1. \A d \in Carts, w \in Variants :
           Baskets[d][w] = Holds(d, w) /\ Baskets'[d][w] = Holds(d, w)'
    BY DEF Baskets
  <2>2. Baskets = [d \in Carts |-> [w \in Variants |-> Baskets[d][w]]]
    BY DEF Baskets
  <2>3. Baskets' = [d \in Carts |-> [w \in Variants |-> Baskets'[d][w]]]
    BY DEF Baskets
  <2> HIDE DEF Baskets
  <2>4. ASSUME NEW d \in Carts, NEW w \in Variants
        PROVE  Baskets'[d][w] =
                 IF d = c /\ w = v THEN Holds(c, v)' ELSE Baskets[d][w]
    BY <1>5, <2>1
  <2> QED
    BY <2>2, <2>3, <2>4
<1>7. Baskets[c][v] = Holds(c, v) /\ UNCHANGED <<Owners, Sales>>
  BY OwnersSame, SalesSame DEF Baskets, Writes
<1>8. ASSUME \A j \in Rows : j # i => ~In(rows, j, c, v), ~t.gone
      PROVE  Holds(c, v)' = t.quantity
  <2>1. In(rows', i, c, v) /\ \A j \in Rows : In(rows', j, c, v) => j = i
    BY <1>1, <1>2, <1>8 DEF In
  <2> QED
    BY <1>1, <1>2, <2>1, HoldsOne
<1>9. CASE Inserts(r, i, t)
  <2>1. SameVariant(r) = {} /\ rows[i] = None /\ session[r].variant = v
        /\ t.quantity = 1 /\ ~t.gone
    BY <1>0, <1>2, <1>9, FreshWrites DEF Inserts
  <2>2. \A j \in Rows : ~In(rows, j, c, v)
    BY <1>2, <2>1 DEF SameVariant, RowsOf, In
  <2>3. Holds(c, v) = 0 /\ Holds(c, v)' = 1
    BY <1>8, <2>1, <2>2, HoldsNone
  <2>4. AtOnce!Add(c, v)
    BY <1>6, <1>7, <2>3 DEF AtOnce!Add
  <2> QED
    BY <1>4, <2>4
<1>10. CASE Increments(r, i, t)
  <2>1. i \in RowsOf(c) /\ ~t.gone /\ t.quantity = rows[i].quantity + 1
    BY <1>0, <1>2, <1>10, FreshWrites DEF Increments, RowsOf
  <2>2. /\ Holds(c, v) = rows[i].quantity
        /\ \A j \in Rows : In(rows, j, c, v) => j = i
    BY <1>0, <1>3, <2>1, BasketRow DEF RowsOf
  <2>3. Holds(c, v)' = Holds(c, v) + 1
    BY <1>8, <2>1, <2>2
  <2>4. AtOnce!Add(c, v)
    BY <1>6, <1>7, <2>3 DEF AtOnce!Add
  <2> QED
    BY <1>4, <2>4
<1>11. CASE Deletes(r, i, t) /\ ~rows[i].gone
  <2>1. i \in RowsOf(c) /\ t.gone /\ rows[i].variant = v
    BY <1>3, <1>11 DEF Deletes, RowsOf
  <2>2. /\ Holds(c, v) \in 1 .. MaxQuantity
        /\ \A j \in Rows : In(rows, j, c, v) => j = i
    BY <1>0, <2>1, BasketRow
  <2>3. \A j \in Rows : ~In(rows', j, c, v)
    BY <1>1, <2>1, <2>2 DEF In
  <2>4. Holds(c, v)' = 0 /\ Holds(c, v) > 0
    BY <2>2, <2>3, HoldsNone
  <2>5. AtOnce!Remove(c, v)
    BY <1>6, <1>7, <2>4 DEF AtOnce!Remove
  <2> QED
    BY <1>4, <2>5
<1>12. CASE Deletes(r, i, t) /\ rows[i].gone
  <2>1. \A j \in Rows : In(rows, j, c, v) <=> In(rows', j, c, v)
    BY <1>1, <1>12 DEF Deletes, In
  <2>2. \A j \in Rows : In(rows, j, c, v) => rows'[j].quantity = rows[j].quantity
    BY <1>1, <1>12 DEF In
  <2>3. Holds(c, v)' = Holds(c, v)
    BY <2>1, <2>2, HoldsSame
  <2>4. \A d \in Carts, w \in Variants : Holds(d, w)' = Holds(d, w)
    BY <1>5, <2>3
  <2>5. UNCHANGED Baskets
    BY <2>4 DEF Baskets
  <2> QED
    BY <1>7, <2>5
<1> QED
  BY <1>9, <1>10, <1>11, <1>12

\* Every statement of a request is one step of the shop or none.
LEMMA ShopSteps == ASSUME WInv, [Next]_vars PROVE [AtOnce!Next]_(AtOnce!vars)
<1>0. Tables /\ InHand /\ Placed
  BY DEF WInv, QInv, CInv
<1>1. ASSUME NEW r \in Requests, NEW i \in Rows, NEW t \in RowRecords, Writes(r, i, t),
             Inserts(r, i, t) \/ Increments(r, i, t) \/ Deletes(r, i, t)
      PROVE  [AtOnce!Next]_(AtOnce!vars)
  BY <1>1, WriteActs DEF AtOnce!Next, AtOnce!vars
<1>2. ASSUME NEW r \in Requests, CreateCart(r)
      PROVE  [AtOnce!Next]_(AtOnce!vars)
  BY <1>2, CreateOpens DEF AtOnce!Next
<1>3. ASSUME NEW r \in Requests, CommitCheckout(r)
      PROVE  [AtOnce!Next]_(AtOnce!vars)
  BY <1>3, CommitSells DEF AtOnce!Next
<1>4. CASE UNCHANGED <<carts, rows, orders>>
  <2>1. UNCHANGED <<Owners, Baskets, Sales>>
    BY <1>4, OwnersSame, BasketsSame, SalesSame
  <2> QED
    BY <2>1 DEF AtOnce!vars
<1> QED
  BY <1>0, <1>1, <1>2, <1>3, <1>4, RowSteps, Writers

\* A customer who waits for each answer sees requests that happen at once or not at
\* all (ImplementsShop): get_or_create_cart, add_item, remove_item and checkout read and
\* write in several statements, and any of them may be the last.
THEOREM ShopRefinement == ASSUME Serial = TRUE PROVE Spec => ImplementsShop
<1>1. Init => AtOnce!Init
  BY ShopInit
<1>2. WInv /\ [Next]_vars => [AtOnce!Next]_(AtOnce!vars)
  BY ShopSteps
<1>3. Spec => []WInv
  BY WInvAlways
<1> QED
  BY <1>1, <1>2, <1>3, PTL DEF Spec, ImplementsShop, AtOnce!Spec
=============================================================================
