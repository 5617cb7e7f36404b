-------------------------- MODULE CartCheckout_proofs --------------------------
(***************************************************************************)
(* Carts and checkout for any number of customers, carts and requests.     *)
(* First what a request in hand relies on; then what holds however         *)
(* requests interleave (an order and its cart's status are one commit, the *)
(* prices of an order were on sale), and what a customer has who waits for *)
(* each answer (one active cart, sold once, the order is the cart).        *)
(***************************************************************************)
EXTENDS CartCheckout, FiniteSetTheorems, TLAPS

USE CartAssumption

SessionRecords ==
    [pc : Steps, kind : Kinds, user : Users \cup {None}, variant : Variants \cup {None},
     price : Prices \cup {None}, cart : Carts \cup {None}, row : Rows \cup {None},
     seen : SUBSET Loaded, lines : SUBSET (Loaded \cup Priced)]

\* The steps with a cart found.
WithCart == {"load", "select", "write", "delete", "read", "verify"}

\* What a request relies on: its locals are of its kind, and the cart and the rows
\* it found are there, if only as they once were.
RequestOK(s, C, R) ==
    /\ s \in SessionRecords
    /\ s.pc # "idle" => s.user \in Users
    /\ s.pc # "idle" /\ s.kind = "add" => s.variant \in Variants /\ s.price \in Prices
    /\ s.pc = "write" => s.kind = "add"
    /\ s.pc \in WithCart => s.cart \in Carts /\ C[s.cart] # None
    /\ s.pc \in {"read", "verify"} => s.kind = "checkout"
    /\ s.pc # "write" => s.lines \subseteq Priced
    /\ s.pc = "delete" => s.row \in Rows /\ R[s.row] # None
    /\ \A x \in s.seen \cup s.lines : R[x.row] # None

Tables == /\ carts \in [Carts -> CartRecords \cup {None}]
          /\ rows \in [Rows -> RowRecords \cup {None}]
          /\ orders \in [Orders -> OrderRecords \cup {None}]
          /\ live \in [Variants -> Prices \cup {"out", "gone"}]
          /\ added \in [Carts -> [Variants -> Nat]]
          /\ offered \in [Requests -> SUBSET (Variants \X Prices)]

InHand == /\ session \in [Requests -> SessionRecords]
          /\ \A r \in Requests : RequestOK(session[r], carts, rows)

-----------------------------------------------------------------------------
(* How the tables change.                                                   *)

\* Which request writes which table.
LEMMA Writers ==
    ASSUME [Next]_vars
    PROVE  /\ UNCHANGED carts \/ \E r \in Requests : CreateCart(r) \/ CommitCheckout(r)
           /\ \/ UNCHANGED <<rows, added>>
              \/ \E r \in Requests : InsertRow(r) \/ UpdateRow(r) \/ DeleteRow(r)
           /\ UNCHANGED orders \/ \E r \in Requests : CommitCheckout(r)
<1> DEFINE Same == UNCHANGED <<carts, rows, orders, added>>
<1>1. ASSUME NEW r \in Requests, RequestStep(r)
      PROVE  \/ Same
             \/ CreateCart(r) /\ UNCHANGED <<rows, orders, added>>
             \/ CommitCheckout(r) /\ UNCHANGED <<rows, added>>
             \/ /\ InsertRow(r) \/ UpdateRow(r) \/ DeleteRow(r)
                /\ UNCHANGED <<carts, orders>>
  <2>1. FindCart(r) \/ LoadRows(r) \/ SelectVariant(r) \/ SelectRow(r) => Same
    BY DEF FindCart, LoadRows, SelectVariant, SelectRow
  <2>2. InsertRow(r) \/ UpdateRow(r) \/ DeleteRow(r) => UNCHANGED <<carts, orders>>
    BY DEF InsertRow, UpdateRow, DeleteRow
  <2>3. /\ ReadItems(r) \/ RejectCheckout(r) \/ AbortRequest(r) => Same
        /\ \A x \in session[r].seen : VerifyItem(r, x) => Same
    BY DEF ReadItems, VerifyItem, RejectCheckout, AbortRequest
  <2>4. /\ CreateCart(r) => UNCHANGED <<rows, orders, added>>
        /\ CommitCheckout(r) => UNCHANGED <<rows, added>>
    BY DEF CreateCart, CommitCheckout
  <2> QED
    BY <1>1, <2>1, <2>2, <2>3, <2>4 DEF RequestStep
<1>2. ASSUME NEW r, NEW u, NEW kind, NEW v, NEW p, NEW i, Begin(r, u, kind, v, p, i)
      PROVE  Same
  BY <1>2 DEF Begin
<1>3. ASSUME NEW v, NEW x, ChangeVariant(v, x)
      PROVE  Same
  BY <1>3 DEF ChangeVariant
<1>4. UNCHANGED vars => Same
  BY DEF vars
<1>5. Same \/ \E r \in Requests : RequestStep(r)
  BY <1>2, <1>3, <1>4 DEF Next
<1> QED
  BY <1>1, <1>5

LEMMA CartsKept ==
    ASSUME Tables, InHand, [Next]_vars
    PROVE  /\ carts' \in [Carts -> CartRecords \cup {None}]
           /\ \A c \in Carts : carts[c] # None =>
                carts'[c] # None /\ carts'[c].user = carts[c].user
<1>1. ASSUME NEW r \in Requests, CreateCart(r)
      PROVE  /\ carts' \in [Carts -> CartRecords \cup {None}]
             /\ \A c \in Carts : carts[c] # None => carts'[c] = carts[c]
  <2>1. session[r].user \in Users
    BY <1>1 DEF CreateCart, InHand, RequestOK
  <2>2. NewCart(session[r].user) \in CartRecords
    BY <2>1 DEF NewCart, CartRecords
  <2> QED
    BY <1>1, <2>2 DEF CreateCart, Tables
<1>2. ASSUME NEW r \in Requests, CommitCheckout(r)
      PROVE  /\ carts' \in [Carts -> CartRecords \cup {None}]
             /\ \A c \in Carts : carts[c] # None =>
                  carts'[c] # None /\ carts'[c].user = carts[c].user
  <2>1. PICK d \in Carts : d = session[r].cart /\ carts[d] # None
    BY <1>2 DEF CommitCheckout, InHand, RequestOK, WithCart
  <2>2. carts' = [carts EXCEPT ![d] = [carts[d] EXCEPT !.status = "checked_out"]]
    BY <1>2, <2>1 DEF CommitCheckout, MarkedCheckedOut
  <2>3. carts[d] \in CartRecords
    BY <2>1 DEF Tables
  <2>4. /\ [carts[d] EXCEPT !.status = "checked_out"] \in CartRecords
        /\ [carts[d] EXCEPT !.status = "checked_out"].user = carts[d].user
    BY <2>3 DEF CartRecords
  <2> QED
    BY <2>2, <2>4, RecordAssumption DEF Tables
<1> QED
  BY <1>1, <1>2, Writers DEF Tables

LEMMA GoneIsRow ==
    ASSUME NEW Q, NEW t \in [cart : Carts, variant : Variants, price : Prices,
                             quantity : Q, gone : BOOLEAN]
    PROVE  [t EXCEPT !.gone = TRUE] \in [cart : Carts, variant : Variants, price : Prices,
                                         quantity : Q, gone : BOOLEAN]
OBVIOUS

LEMMA RowsKept ==
    ASSUME Tables, InHand, [Next]_vars
    PROVE  /\ rows' \in [Rows -> RowRecords \cup {None}]
           /\ added' \in [Carts -> [Variants -> Nat]]
           /\ \A i \in Rows : rows[i] # None => rows'[i] # None
<1> DEFINE Kept == /\ rows' \in [Rows -> RowRecords \cup {None}]
                   /\ added' \in [Carts -> [Variants -> Nat]]
                   /\ \A i \in Rows : rows[i] # None => rows'[i] # None
<1>a. ASSUME NEW c \in Carts, NEW v \in Variants, Count(c, v)
      PROVE  added' \in [Carts -> [Variants -> Nat]]
  BY <1>a DEF Count, Tables
<1>1. ASSUME NEW r \in Requests, InsertRow(r)
      PROVE  Kept
  <2>1. /\ session[r].cart \in Carts /\ session[r].variant \in Variants
        /\ session[r].price \in Prices
    BY <1>1 DEF InsertRow, InHand, RequestOK, WithCart
  <2>2. [cart |-> session[r].cart, variant |-> session[r].variant,
         price |-> session[r].price, quantity |-> 1, gone |-> FALSE] \in RowRecords
    BY <2>1 DEF RowRecords
  <2>3. PICK row \in RowRecords : \E i \in Rows : rows' = [rows EXCEPT ![i] = row]
    BY <1>1, <2>2 DEF InsertRow
  <2>4. added' \in [Carts -> [Variants -> Nat]]
    BY <1>1, <1>a, <2>1 DEF InsertRow
  <2>5. /\ rows' \in [Rows -> RowRecords \cup {None}]
        /\ \A i \in Rows : rows[i] # None => rows'[i] # None
    BY <2>3, RecordAssumption DEF Tables
  <2> QED
    BY <2>4, <2>5
<1>2. ASSUME NEW r \in Requests, UpdateRow(r)
      PROVE  Kept
  <2>1. PICK x \in session[r].lines :
           \/ UNCHANGED <<rows, added>>
           \/ /\ x.quantity < MaxQuantity
              /\ rows' = [rows EXCEPT ![x.row].quantity = NewQuantity(x)]
              /\ Count(session[r].cart, session[r].variant)
    BY <1>2 DEF UpdateRow
  <2>2. /\ session[r].cart \in Carts /\ session[r].variant \in Variants
        /\ x.row \in Rows /\ x.quantity \in 1 .. MaxQuantity /\ rows[x.row] # None
    BY <1>2 DEF UpdateRow, InHand, RequestOK, WithCart, SessionRecords, Loaded, Priced
  <2>3. CASE UNCHANGED <<rows, added>>
    BY <2>3 DEF Tables
  <2>4. CASE /\ x.quantity < MaxQuantity
             /\ rows' = [rows EXCEPT ![x.row].quantity = NewQuantity(x)]
             /\ Count(session[r].cart, session[r].variant)
    <3>1. rows[x.row] \in RowRecords /\ NewQuantity(x) \in 1 .. MaxQuantity
      BY <2>2, <2>4 DEF Tables, NewQuantity
    <3>2. [rows[x.row] EXCEPT !.quantity = NewQuantity(x)] \in RowRecords
      BY <3>1 DEF RowRecords
    <3>3. PICK row \in RowRecords : rows' = [rows EXCEPT ![x.row] = row]
      BY <2>4, <3>2
    <3>4. added' \in [Carts -> [Variants -> Nat]]
      BY <1>a, <2>2, <2>4
    <3>5. /\ rows' \in [Rows -> RowRecords \cup {None}]
          /\ \A i \in Rows : rows[i] # None => rows'[i] # None
      BY <2>2, <3>3, RecordAssumption DEF Tables
    <3> QED
      BY <3>4, <3>5
  <2> QED
    BY <2>1, <2>3, <2>4
<1>3. ASSUME NEW r \in Requests, DeleteRow(r)
      PROVE  Kept
  <2>1. PICK i \in Rows : i = session[r].row /\ rows[i] # None
    BY <1>3 DEF DeleteRow, InHand, RequestOK
  <2>2. rows' = [rows EXCEPT ![i] = [rows[i] EXCEPT !.gone = TRUE]] /\ UNCHANGED added
    BY <1>3, <2>1 DEF DeleteRow
  <2>3. [rows[i] EXCEPT !.gone = TRUE] \in RowRecords
    <3>1. rows[i] \in RowRecords
      BY <2>1 DEF Tables
    <3> QED
      BY <3>1, GoneIsRow DEF RowRecords
  <2>4. PICK row \in RowRecords : rows' = [rows EXCEPT ![i] = row]
    BY <2>2, <2>3
  <2>5. /\ rows' \in [Rows -> RowRecords \cup {None}]
        /\ \A j \in Rows : rows[j] # None => rows'[j] # None
    BY <2>4, RecordAssumption DEF Tables
  <2> QED
    BY <2>2, <2>5 DEF Tables
<1> QED
  BY <1>1, <1>2, <1>3, Writers DEF Tables
-----------------------------------------------------------------------------
(* The requests in hand.                                                    *)

LEMMA OthersInHand ==
    ASSUME Tables, InHand, [Next]_vars, NEW r \in Requests
    PROVE  RequestOK(session[r], carts', rows')
<1>1. RequestOK(session[r], carts, rows)
  BY DEF InHand
<1>2. session[r].pc \in WithCart => carts'[session[r].cart] # None
  BY <1>1, CartsKept DEF RequestOK
<1>3. ASSUME NEW x \in session[r].seen \cup session[r].lines
      PROVE  rows'[x.row] # None
  <2>1. x.row \in Rows /\ rows[x.row] # None
    BY <1>1 DEF RequestOK, SessionRecords, Loaded, Priced
  <2> QED
    BY <2>1, RowsKept
<1>4. session[r].pc = "delete" => rows'[session[r].row] # None
  BY <1>1, RowsKept DEF RequestOK
<1> QED
  BY <1>1, <1>2, <1>3, <1>4 DEF RequestOK

LEMMA FreeOK == \A C, R : RequestOK(Free, C, R)
BY DEF RequestOK, Free, SessionRecords, Steps, Kinds, WithCart

\* A row copied is a row that is there.
LEMMA CopyOK ==
    ASSUME Tables, NEW c, NEW i \in RowsOf(c)
    PROVE  Copy(i) \in Loaded /\ Copy(i).row = i /\ i \in Rows /\ rows[i] # None
<1>1. i \in Rows /\ rows[i] \in RowRecords /\ rows[i] # None
  BY DEF RowsOf, Tables
<1>2. rows[i].variant \in Variants /\ rows[i].quantity \in 1 .. MaxQuantity
  BY <1>1 DEF RowRecords
<1> QED
  BY <1>1, <1>2 DEF Copy, Loaded

LEMMA ObjectOK ==
    ASSUME Tables, NEW r \in Requests, session[r].seen \subseteq Loaded, NEW c, NEW i \in RowsOf(c)
    PROVE  Object(r, i) \in Loaded /\ Object(r, i).row = i
<1>1. CASE \E x \in session[r].seen : x.row = i
  <2> DEFINE y == CHOOSE x \in session[r].seen : x.row = i
  <2>1. y \in session[r].seen /\ y.row = i
    BY <1>1
  <2>2. Object(r, i) = y
    BY <1>1 DEF Object
  <2> QED
    BY <2>1, <2>2
<1>2. CASE ~ \E x \in session[r].seen : x.row = i
  BY <1>2, CopyOK DEF Object
<1> QED
  BY <1>1, <1>2

LEMMA InHandKept ==
    ASSUME Tables, InHand, [Next]_vars
    PROVE  InHand'
<1> USE DEF Steps, Kinds, WithCart
<1>0. /\ session \in [Requests -> SessionRecords]
      /\ \A r \in Requests : RequestOK(session[r], carts, rows)
  BY DEF InHand
<1>a. ASSUME NEW r \in Requests, NEW s, session' = [session EXCEPT ![r] = s],
             RequestOK(s, carts', rows')
      PROVE  InHand'
  <2>1. session' \in [Requests -> SessionRecords]
    BY <1>0, <1>a DEF RequestOK
  <2>2. \A q \in Requests : session'[q] = IF q = r THEN s ELSE session[q]
    BY <1>0, <1>a
  <2>3. \A q \in Requests : RequestOK(session'[q], carts', rows')
    BY <1>a, <2>2, OthersInHand
  <2> QED
    BY <2>1, <2>3 DEF InHand
<1>b. CASE UNCHANGED session
  BY <1>0, <1>b, OthersInHand DEF InHand
<1>1. ASSUME NEW r \in Requests, Answer(r)
      PROVE  InHand'
  BY <1>1, <1>a, FreeOK DEF Answer, Go
<1>2. ASSUME NEW r \in Requests, NEW u \in Users, NEW kind \in Kinds, NEW v \in Variants,
             NEW p \in Prices, NEW i \in Rows, Begin(r, u, kind, v, p, i)
      PROVE  InHand'
  <2> DEFINE w == IF kind = "add" THEN v ELSE None
             price == IF kind = "add" THEN p ELSE None
             row == IF kind = "remove" THEN i ELSE None
             s == [Free EXCEPT !.pc = "find", !.kind = kind, !.user = u, !.variant = w,
                               !.price = price, !.row = row]
  <2>1. session' = [session EXCEPT ![r] = s]
    BY <1>2 DEF Begin, Go
  <2>2. /\ w \in Variants \cup {None} /\ price \in Prices \cup {None}
        /\ row \in Rows \cup {None}
        /\ kind = "add" => w \in Variants /\ price \in Prices
    OBVIOUS
  <2> HIDE DEF w, price, row
  <2>3. /\ s \in SessionRecords
        /\ s.pc = "find" /\ s.user = u /\ s.kind = kind
        /\ s.variant = w /\ s.price = price /\ s.seen = {} /\ s.lines = {}
    <3>1. session[r] \in SessionRecords
      BY <1>0
    <3>2. s \in SessionRecords
      BY <2>2 DEF Free, SessionRecords
    <3> QED
      BY <2>2 DEF Free, SessionRecords
  <2> HIDE DEF s
  <2>4. RequestOK(s, carts', rows')
    BY <2>2, <2>3 DEF RequestOK
  <2> QED
    BY <1>a, <2>1, <2>4
<1>3. ASSUME NEW r \in Requests, FindCart(r)
      PROVE  InHand'
  <2>1. RequestOK(session[r], carts', rows') /\ session[r].pc \in {"find", "refind"}
        /\ session[r].user \in Users
    BY <1>0, <1>3, OthersInHand DEF FindCart, RequestOK
  <2>2. ASSUME NEW c \in ActiveCarts(session[r].user),
               session' = [session EXCEPT ![r] = [session[r] EXCEPT !.pc = "load", !.cart = c]]
        PROVE  InHand'
    <3> DEFINE s == [session[r] EXCEPT !.pc = "load", !.cart = c]
    <3>1. c \in Carts /\ carts[c] = [user |-> session[r].user, status |-> "active"]
      BY DEF ActiveCarts
    <3>2. carts[c] # None
      BY <2>1, <3>1, RecordAssumption DEF CartRecords
    <3>3. carts'[c] # None
      BY <3>1, <3>2, CartsKept
    <3>4. /\ s \in SessionRecords
          /\ s.pc = "load" /\ s.kind = session[r].kind
          /\ s.user = session[r].user /\ s.variant = session[r].variant
          /\ s.price = session[r].price /\ s.cart = c
          /\ s.seen = session[r].seen /\ s.lines = session[r].lines
      <4>1. session[r] \in SessionRecords
        BY <1>0
      <4>2. s \in SessionRecords
        BY <4>1, <3>1 DEF SessionRecords
      <4> QED
        BY <4>1, <4>2, <3>1 DEF SessionRecords
    <3>5. session' = [session EXCEPT ![r] = s]
      BY <2>2
    <3> HIDE DEF s
    <3>6. RequestOK(s, carts', rows')
      BY <2>1, <3>1, <3>3, <3>4 DEF RequestOK
    <3> QED
      BY <1>a, <3>5, <3>6
  <2>3. ASSUME session' = [session EXCEPT ![r] = [session[r] EXCEPT !.pc = "create"]]
        PROVE  InHand'
    <3> DEFINE s == [session[r] EXCEPT !.pc = "create"]
    <3>1. /\ s \in SessionRecords
          /\ s.pc = "create" /\ s.kind = session[r].kind
          /\ s.user = session[r].user /\ s.variant = session[r].variant
          /\ s.price = session[r].price
          /\ s.seen = session[r].seen /\ s.lines = session[r].lines
      <4>1. session[r] \in SessionRecords
        BY <1>0
      <4>2. s \in SessionRecords
        BY <4>1 DEF SessionRecords
      <4> QED
        BY <4>1, <4>2 DEF SessionRecords
    <3>2. session' = [session EXCEPT ![r] = s]
      BY <2>3
    <3> HIDE DEF s
    <3>3. RequestOK(s, carts', rows')
      BY <2>1, <3>1 DEF RequestOK
    <3> QED
      BY <1>a, <3>2, <3>3
  <2> QED
    BY <1>1, <1>3, <2>2, <2>3 DEF FindCart, Go
<1>4. ASSUME NEW r \in Requests, CreateCart(r)
      PROVE  InHand'
  <2> DEFINE s == [session[r] EXCEPT !.pc = "refind"]
  <2>1. session' = [session EXCEPT ![r] = s] /\ session[r].pc = "create"
    BY <1>4 DEF CreateCart, Go
  <2>2. /\ s \in SessionRecords
        /\ s.pc = "refind" /\ s.kind = session[r].kind
        /\ s.user = session[r].user /\ s.variant = session[r].variant
        /\ s.price = session[r].price
        /\ s.seen = session[r].seen /\ s.lines = session[r].lines
    <3>1. session[r] \in SessionRecords
      BY <1>0
    <3>2. s \in SessionRecords
      BY <3>1 DEF SessionRecords
    <3> QED
      BY <3>1, <3>2 DEF SessionRecords
  <2> HIDE DEF s
  <2>3. RequestOK(s, carts', rows')
    BY <2>1, <2>2, OthersInHand DEF RequestOK
  <2> QED
    BY <1>a, <2>1, <2>3
<1>5. ASSUME NEW r \in Requests, LoadRows(r)
      PROVE  InHand'
  <2> DEFINE found == {Copy(i) : i \in RowsOf(session[r].cart)}
  <2>1. RequestOK(session[r], carts', rows') /\ session[r].pc = "load"
    BY <1>5, OthersInHand DEF LoadRows
  <2>2. found \subseteq Loaded /\ \A x \in found : rows'[x.row] # None
    BY CopyOK, RowsKept
  <2>3. ASSUME NEW pc \in {"select", "read"}, pc = "read" => session[r].kind = "checkout",
               session' = [session EXCEPT ![r] = [session[r] EXCEPT !.pc = pc, !.seen = found]]
        PROVE  InHand'
    <3> HIDE DEF found
    <3> DEFINE s == [session[r] EXCEPT !.pc = pc, !.seen = found]
    <3>1. /\ s \in SessionRecords
          /\ s.pc = pc /\ s.kind = session[r].kind
          /\ s.user = session[r].user /\ s.variant = session[r].variant
          /\ s.price = session[r].price /\ s.cart = session[r].cart
          /\ s.seen = found /\ s.lines = session[r].lines
      <4>1. session[r] \in SessionRecords
        BY <1>0
      <4>2. s \in SessionRecords
        BY <4>1, <2>2 DEF SessionRecords
      <4> QED
        BY <4>1, <4>2, <2>2 DEF SessionRecords
    <3>2. session' = [session EXCEPT ![r] = s]
      BY <2>3
    <3> HIDE DEF s
    <3>3. RequestOK(s, carts', rows')
      BY <2>1, <2>2, <2>3, <3>1 DEF RequestOK
    <3> QED
      BY <1>a, <3>2, <3>3
  <2> QED
    BY <1>1, <1>5, <2>3 DEF LoadRows, Go
<1>6. ASSUME NEW r \in Requests, SelectVariant(r)
      PROVE  InHand'
  <2>1. RequestOK(session[r], carts', rows') /\ session[r].pc = "select"
        /\ session[r].kind = "add"
    BY <1>6, OthersInHand DEF SelectVariant
  <2>2. ASSUME NEW row \in Rows \cup {None}, NEW L \in SUBSET Loaded,
               \A x \in L : rows[x.row] # None,
               session' = [session EXCEPT ![r] =
                             [session[r] EXCEPT !.pc = "write", !.row = row, !.lines = L]]
        PROVE  InHand'
    <3> DEFINE s == [session[r] EXCEPT !.pc = "write", !.row = row, !.lines = L]
    <3>1. /\ s \in SessionRecords
          /\ s.pc = "write" /\ s.kind = session[r].kind
          /\ s.user = session[r].user /\ s.variant = session[r].variant
          /\ s.price = session[r].price /\ s.cart = session[r].cart
          /\ s.seen = session[r].seen /\ s.lines = L
      <4>1. session[r] \in SessionRecords
        BY <1>0
      <4>2. s \in SessionRecords
        BY <4>1 DEF SessionRecords
      <4> QED
        BY <4>1, <4>2 DEF SessionRecords
    <3>2. session' = [session EXCEPT ![r] = s]
      BY <2>2
    <3> HIDE DEF s
    <3>3. \A x \in L : rows'[x.row] # None
      BY <2>2, RowsKept DEF Loaded
    <3>4. RequestOK(s, carts', rows')
      BY <2>1, <3>1, <3>3 DEF RequestOK
    <3> QED
      BY <1>a, <3>2, <3>4
  <2>3. ASSUME session' = [session EXCEPT ![r] = [session[r] EXCEPT !.pc = "write"]]
        PROVE  InHand'
    <3> DEFINE s == [session[r] EXCEPT !.pc = "write"]
    <3>1. /\ s \in SessionRecords
          /\ s.pc = "write" /\ s.kind = session[r].kind
          /\ s.user = session[r].user /\ s.variant = session[r].variant
          /\ s.price = session[r].price /\ s.cart = session[r].cart
          /\ s.seen = session[r].seen /\ s.lines = session[r].lines
      <4>1. session[r] \in SessionRecords
        BY <1>0
      <4>2. s \in SessionRecords
        BY <4>1 DEF SessionRecords
      <4> QED
        BY <4>1, <4>2 DEF SessionRecords
    <3>2. session' = [session EXCEPT ![r] = s]
      BY <2>3
    <3> HIDE DEF s
    <3>3. RequestOK(s, carts', rows')
      BY <2>1, <3>1 DEF RequestOK
    <3> QED
      BY <1>a, <3>2, <3>3
  <2>4. ASSUME NEW i \in SameVariant(r)
        PROVE  i \in Rows /\ Object(r, i) \in Loaded /\ rows[Object(r, i).row] # None
    <3>1. i \in RowsOf(session[r].cart) /\ session[r].seen \subseteq Loaded
      BY <1>0 DEF SameVariant, SessionRecords
    <3> QED
      BY <3>1, CopyOK, ObjectOK
  <2>5. ASSUME NEW i \in SameVariant(r),
               Go(r, [session[r] EXCEPT !.pc = "write", !.row = i, !.lines = {Object(r, i)}])
        PROVE  InHand'
    <3>1. PICK x \in Loaded : x = Object(r, i) /\ rows[x.row] # None
      BY <2>4
    <3>2. PICK L \in SUBSET Loaded : L = {Object(r, i)}
      BY <3>1
    <3>3. session' = [session EXCEPT ![r] =
                        [session[r] EXCEPT !.pc = "write", !.row = i, !.lines = L]]
      BY <2>5, <3>2 DEF Go
    <3>4. i \in Rows \cup {None} /\ \A y \in L : rows[y.row] # None
      BY <2>4, <3>1, <3>2
    <3> QED
      BY <2>2, <3>3, <3>4
  <2> QED
    BY <1>1, <1>6, <2>3, <2>5 DEF SelectVariant, Go
<1>7. ASSUME NEW r \in Requests, SelectRow(r)
      PROVE  InHand'
  <2>1. RequestOK(session[r], carts', rows') /\ session[r].pc = "select"
    BY <1>7, OthersInHand DEF SelectRow
  <2>2. ASSUME session[r].row \in RowsOf(session[r].cart),
               session' = [session EXCEPT ![r] = [session[r] EXCEPT !.pc = "delete"]]
        PROVE  InHand'
    <3> DEFINE s == [session[r] EXCEPT !.pc = "delete"]
    <3>1. /\ s \in SessionRecords
          /\ s.pc = "delete" /\ s.kind = session[r].kind
          /\ s.user = session[r].user /\ s.variant = session[r].variant
          /\ s.price = session[r].price /\ s.cart = session[r].cart
          /\ s.row = session[r].row
          /\ s.seen = session[r].seen /\ s.lines = session[r].lines
      <4>1. session[r] \in SessionRecords
        BY <1>0
      <4>2. s \in SessionRecords
        BY <4>1 DEF SessionRecords
      <4> QED
        BY <4>1, <4>2 DEF SessionRecords
    <3>2. session' = [session EXCEPT ![r] = s]
      BY <2>2
    <3>3. session[r].row \in Rows /\ rows'[session[r].row] # None
      BY <2>2, CopyOK, RowsKept
    <3> HIDE DEF s
    <3>4. RequestOK(s, carts', rows')
      BY <2>1, <3>1, <3>3 DEF RequestOK
    <3> QED
      BY <1>a, <3>2, <3>4
  <2> QED
    BY <1>1, <1>7, <2>2 DEF SelectRow, Go
<1>8. ASSUME NEW r \in Requests, ReadItems(r)
      PROVE  InHand'
  <2> DEFINE found == {Object(r, i) : i \in RowsOf(session[r].cart)}
  <2>1. RequestOK(session[r], carts', rows') /\ session[r].pc = "read"
        /\ session[r].seen \subseteq Loaded
    BY <1>0, <1>8, OthersInHand DEF ReadItems, SessionRecords
  <2>2. found \subseteq Loaded /\ \A x \in found : rows'[x.row] # None
    BY <2>1, CopyOK, ObjectOK, RowsKept
  <2>3. ASSUME session' = [session EXCEPT ![r] = [session[r] EXCEPT !.pc = "verify", !.seen = found]]
        PROVE  InHand'
    <3> HIDE DEF found
    <3> DEFINE s == [session[r] EXCEPT !.pc = "verify", !.seen = found]
    <3>1. /\ s \in SessionRecords
          /\ s.pc = "verify" /\ s.kind = session[r].kind
          /\ s.user = session[r].user /\ s.variant = session[r].variant
          /\ s.price = session[r].price /\ s.cart = session[r].cart
          /\ s.seen = found /\ s.lines = session[r].lines
      <4>1. session[r] \in SessionRecords
        BY <1>0
      <4>2. s \in SessionRecords
        BY <4>1, <2>2 DEF SessionRecords
      <4> QED
        BY <4>1, <4>2, <2>2 DEF SessionRecords
    <3>2. session' = [session EXCEPT ![r] = s]
      BY <2>3
    <3> HIDE DEF s
    <3>3. RequestOK(s, carts', rows')
      BY <2>1, <2>2, <3>1 DEF RequestOK
    <3> QED
      BY <1>a, <3>2, <3>3
  <2> QED
    BY <1>1, <1>8, <2>3 DEF ReadItems, Go
<1>9. ASSUME NEW r \in Requests, NEW x \in session[r].seen, VerifyItem(r, x)
      PROVE  InHand'
  <2> DEFINE y == [row |-> x.row, variant |-> x.variant, quantity |-> x.quantity,
                   price |-> PriceOf(r, x)]
             s == [session[r] EXCEPT !.seen = session[r].seen \ {x},
                                     !.lines = session[r].lines \cup {y}]
  <2>1. RequestOK(session[r], carts', rows') /\ session[r].pc = "verify" /\ x \in Loaded
    BY <1>0, <1>9, OthersInHand DEF VerifyItem, SessionRecords
  <2>2. y \in Priced /\ y.row = x.row
    BY <1>9, <2>1 DEF VerifyItem, PriceOf, Priced, Loaded
  <2>3. session' = [session EXCEPT ![r] = s]
    BY <1>9 DEF VerifyItem, Go
  <2> HIDE DEF y
  <2>4. /\ s \in SessionRecords
        /\ s.pc = "verify" /\ s.kind = session[r].kind
        /\ s.user = session[r].user /\ s.variant = session[r].variant
        /\ s.price = session[r].price /\ s.cart = session[r].cart
        /\ s.seen = session[r].seen \ {x} /\ s.lines = session[r].lines \cup {y}
    <3>1. session[r] \in SessionRecords
      BY <1>0
    <3>2. s \in SessionRecords
      BY <3>1, <2>1, <2>2 DEF SessionRecords
    <3> QED
      BY <3>1, <3>2, <2>1, <2>2 DEF SessionRecords
  <2> HIDE DEF s
  <2>5. RequestOK(s, carts', rows')
    BY <2>1, <2>2, <2>4 DEF RequestOK
  <2> QED
    BY <1>a, <2>3, <2>5
<1>10. ASSUME NEW r \in Requests,
              InsertRow(r) \/ UpdateRow(r) \/ DeleteRow(r) \/ RejectCheckout(r)
                \/ CommitCheckout(r) \/ AbortRequest(r)
       PROVE  InHand'
  BY <1>1, <1>10 DEF InsertRow, UpdateRow, DeleteRow, RejectCheckout, CommitCheckout,
                     AbortRequest
<1>11. ASSUME NEW v, NEW x, ChangeVariant(v, x)
       PROVE  InHand'
  BY <1>b, <1>11 DEF ChangeVariant
<1>12. ASSUME NEW r \in Requests, RequestStep(r)
       PROVE  InHand'
  BY <1>3, <1>4, <1>5, <1>6, <1>7, <1>8, <1>9, <1>10, <1>12 DEF RequestStep
<1>13. UNCHANGED vars => UNCHANGED session
  BY DEF vars
<1> QED
  BY <1>b, <1>2, <1>11, <1>12, <1>13 DEF Next
-----------------------------------------------------------------------------
(* Orders, prices and types.                                                *)

\* The order a checkout commits, and the cart it was made from.
Ordered(r, n, c, order) ==
    /\ session[r].pc = "verify" /\ session[r].cart = c /\ session[r].user = order.user
    /\ session[r].seen = {}
    /\ orders[n] = None
    /\ orders' = [orders EXCEPT ![n] = order]
    /\ order.cart = c /\ order.lines = session[r].lines
    /\ carts' = [carts EXCEPT ![c] = [carts[c] EXCEPT !.status = "checked_out"]]

LEMMA Commits ==
    ASSUME InHand, NEW r \in Requests, CommitCheckout(r)
    PROVE  \E n \in Orders, c \in Carts, order \in OrderRecords :
               Ordered(r, n, c, order) /\ carts[c] # None
<1>1. /\ session[r].user \in Users /\ session[r].cart \in Carts
      /\ carts[session[r].cart] # None /\ session[r].lines \subseteq Priced
      /\ session[r].pc = "verify"
  BY DEF CommitCheckout, InHand, RequestOK, WithCart
<1>2. PICK c \in Carts : c = session[r].cart
  BY <1>1
<1>3. PICK order \in OrderRecords :
         order = [user |-> session[r].user, cart |-> session[r].cart,
                  lines |-> session[r].lines]
  BY <1>1 DEF OrderRecords
<1>4. PICK n \in Orders : orders[n] = None /\ orders' = [orders EXCEPT ![n] = order]
  BY <1>3 DEF CommitCheckout
<1>5. carts' = [carts EXCEPT ![c] = [carts[c] EXCEPT !.status = "checked_out"]]
  BY <1>2 DEF CommitCheckout, MarkedCheckedOut
<1>6. order.user = session[r].user /\ order.cart = c /\ order.lines = session[r].lines
  BY <1>2, <1>3
<1>7. session[r].seen = {}
  BY DEF CommitCheckout, AllVerified
<1> QED
  BY <1>1, <1>2, <1>4, <1>5, <1>6, <1>7 DEF Ordered

LEMMA CheckedOutKept ==
    ASSUME Tables, InHand, CheckedOutMeansOrdered, [Next]_vars
    PROVE  CheckedOutMeansOrdered'
<1>1. CASE UNCHANGED <<carts, orders>>
  BY <1>1 DEF CheckedOutMeansOrdered
<1>2. ASSUME NEW r \in Requests, CreateCart(r)
      PROVE  CheckedOutMeansOrdered'
  <2>1. session[r].user \in Users
    BY <1>2 DEF CreateCart, InHand, RequestOK
  <2>2. PICK c \in Carts : carts[c] = None
                           /\ carts' = [carts EXCEPT ![c] = NewCart(session[r].user)]
    BY <1>2 DEF CreateCart
  <2>3. carts'[c].status = "active" /\ UNCHANGED orders
    BY <1>2, <2>2 DEF CreateCart, NewCart, Tables
  <2>4. ~ \E n \in Orders : orders[n] # None /\ orders[n].cart = c
    BY <2>2 DEF CheckedOutMeansOrdered
  <2> QED
    BY <2>2, <2>3, <2>4 DEF CheckedOutMeansOrdered, Tables
<1>3. ASSUME NEW r \in Requests, CommitCheckout(r)
      PROVE  CheckedOutMeansOrdered'
  <2>1. PICK n \in Orders, c \in Carts, order \in OrderRecords :
           Ordered(r, n, c, order) /\ carts[c] # None
    BY <1>3, Commits
  <2>2. carts[c] \in CartRecords /\ order # None
    BY <2>1, RecordAssumption DEF Tables
  <2>3. carts'[c].status = "checked_out" /\ carts'[c] # None
    BY <2>1, <2>2, CartsKept DEF Ordered, Tables, CartRecords
  <2>4. \A d \in Carts : d # c => carts'[d] = carts[d]
    BY <2>1 DEF Ordered, Tables
  <2>5. orders'[n] # None /\ orders'[n].cart = c
    BY <2>1, <2>2 DEF Ordered, Tables
  <2>6. \A m \in Orders : m # n => orders'[m] = orders[m]
    BY <2>1 DEF Ordered, Tables
  <2>7. orders[n] = None
    BY <2>1 DEF Ordered
  <2>8. ASSUME NEW d \in Carts
        PROVE  carts'[d] # None /\ carts'[d].status = "checked_out"
                  <=> \E m \in Orders : orders'[m] # None /\ orders'[m].cart = d
    <3>1. CASE d = c
      BY <2>3, <2>5, <3>1
    <3>2. CASE d # c
      BY <2>4, <2>5, <2>6, <2>7, <3>2 DEF CheckedOutMeansOrdered
    <3> QED
      BY <3>1, <3>2
  <2> QED
    BY <2>8 DEF CheckedOutMeansOrdered
<1> QED
  BY <1>1, <1>2, <1>3, Writers

\* While a checkout runs, what is on sale now and what it has noted were offered.
Offers == \A r \in Requests : session[r].kind = "checkout" =>
    /\ \A v \in Variants : live[v] \in Prices => <<v, live[v]>> \in offered[r]
    /\ \A x \in session[r].lines : <<x.variant, x.price>> \in offered[r]

LEMMA OffersKept ==
    ASSUME Tables, InHand, Offers, [Next]_vars
    PROVE  /\ Offers'
           /\ live' \in [Variants -> Prices \cup {"out", "gone"}]
           /\ offered' \in [Requests -> SUBSET (Variants \X Prices)]
<1> DEFINE Kept == /\ Offers'
                   /\ live' \in [Variants -> Prices \cup {"out", "gone"}]
                   /\ offered' \in [Requests -> SUBSET (Variants \X Prices)]
<1>0. /\ session \in [Requests -> SessionRecords]
      /\ live \in [Variants -> Prices \cup {"out", "gone"}]
      /\ offered \in [Requests -> SUBSET (Variants \X Prices)]
  BY DEF InHand, Tables
<1>a. ASSUME NEW r \in Requests, Answer(r), UNCHANGED live
      PROVE  Kept
  BY <1>0, <1>a DEF Answer, Go, Free, Offers
<1>b. ASSUME NEW r \in Requests, NEW s, session' = [session EXCEPT ![r] = s],
             UNCHANGED <<live, offered>>,
             s.kind = session[r].kind, s.kind = "checkout" => s.lines = session[r].lines
      PROVE  Kept
  BY <1>0, <1>b DEF Offers
<1>c. CASE UNCHANGED <<session, live, offered>>
  BY <1>0, <1>c DEF Offers
<1>1. ASSUME NEW r \in Requests, NEW u \in Users, NEW kind \in Kinds, NEW v \in Variants,
             NEW p \in Prices, NEW i \in Rows, Begin(r, u, kind, v, p, i)
      PROVE  Kept
  <2> DEFINE offers == {<<x, live[x]>> :
                          x \in {y \in Variants : kind = "checkout" /\ live[y] \in Prices}}
  <2>1. offered' = [offered EXCEPT ![r] = offers] /\ UNCHANGED live
    BY <1>1 DEF Begin
  <2>2. offers \in SUBSET (Variants \X Prices)
    OBVIOUS
  <2>3. kind = "checkout" =>
           \A y \in Variants : live[y] \in Prices => <<y, live[y]>> \in offers
    OBVIOUS
  <2> HIDE DEF offers
  <2>4. session'[r].kind = kind /\ session'[r].lines = {}
    BY <1>0, <1>1 DEF Begin, Go, Free
  <2>5. \A q \in Requests : q # r => session'[q] = session[q]
    BY <1>0, <1>1 DEF Begin, Go
  <2>6. offered' \in [Requests -> SUBSET (Variants \X Prices)]
    BY <1>0, <2>1, <2>2
  <2>7. Offers'
    BY <1>0, <2>1, <2>3, <2>4, <2>5 DEF Offers
  <2> QED
    BY <1>0, <2>1, <2>6, <2>7
<1>2. ASSUME NEW v \in Variants, NEW y \in Prices \cup {"out", "gone"}, ChangeVariant(v, y)
      PROVE  Kept
  <2>1. live' = [live EXCEPT ![v] = y] /\ UNCHANGED session
    BY <1>2 DEF ChangeVariant
  <2>2. ASSUME NEW r \in Requests
        PROVE  /\ offered[r] \subseteq offered'[r] /\ offered'[r] \in SUBSET (Variants \X Prices)
               /\ session[r].kind = "checkout" /\ y \in Prices => <<v, y>> \in offered'[r]
    BY <1>0, <1>2 DEF ChangeVariant
  <2>3. offered' \in [Requests -> SUBSET (Variants \X Prices)]
    BY <1>2, <2>2 DEF ChangeVariant
  <2>4. Offers'
    BY <1>0, <2>1, <2>2 DEF Offers
  <2> QED
    BY <1>0, <2>1, <2>3, <2>4
<1>3. ASSUME NEW r \in Requests, NEW x \in session[r].seen, VerifyItem(r, x)
      PROVE  Kept
  <2> DEFINE y == [row |-> x.row, variant |-> x.variant, quantity |-> x.quantity,
                   price |-> PriceOf(r, x)]
             s == [session[r] EXCEPT !.seen = session[r].seen \ {x},
                                     !.lines = session[r].lines \cup {y}]
  <2>1. x \in Loaded /\ session[r].kind = "checkout"
    BY <1>0, <1>3 DEF VerifyItem, SessionRecords, InHand, RequestOK
  <2>2. y.variant = x.variant /\ y.price = live[x.variant] /\ live[x.variant] \in Prices
        /\ x.variant \in Variants
    BY <1>3, <2>1 DEF VerifyItem, PriceOf, Loaded
  <2>3. session' = [session EXCEPT ![r] = s] /\ UNCHANGED <<live, offered>>
    BY <1>3 DEF VerifyItem, Go
  <2> HIDE DEF y
  <2>4. s.kind = session[r].kind /\ s.lines = session[r].lines \cup {y}
    BY <1>0 DEF SessionRecords
  <2> HIDE DEF s
  <2> QED
    BY <1>0, <2>1, <2>2, <2>3, <2>4 DEF Offers
<1>4. ASSUME NEW r \in Requests, FindCart(r)
      PROVE  Kept
  <2>1. ASSUME NEW c,
               session' = [session EXCEPT ![r] = [session[r] EXCEPT !.pc = "load", !.cart = c]],
               UNCHANGED <<live, offered>>
        PROVE  Kept
    <3>1. /\ [session[r] EXCEPT !.pc = "load", !.cart = c].kind = session[r].kind
          /\ [session[r] EXCEPT !.pc = "load", !.cart = c].lines = session[r].lines
      BY <1>0 DEF SessionRecords
    <3> QED
      BY <1>b, <2>1, <3>1
  <2>2. ASSUME session' = [session EXCEPT ![r] = [session[r] EXCEPT !.pc = "create"]],
               UNCHANGED <<live, offered>>
        PROVE  Kept
    <3>1. /\ [session[r] EXCEPT !.pc = "create"].kind = session[r].kind
          /\ [session[r] EXCEPT !.pc = "create"].lines = session[r].lines
      BY <1>0 DEF SessionRecords
    <3> QED
      BY <1>b, <2>2, <3>1
  <2> QED
    BY <1>a, <1>4, <2>1, <2>2 DEF FindCart, Go
<1>5. ASSUME NEW r \in Requests, CreateCart(r)
      PROVE  Kept
  <2>1. /\ session' = [session EXCEPT ![r] = [session[r] EXCEPT !.pc = "refind"]]
        /\ UNCHANGED <<live, offered>>
    BY <1>5 DEF CreateCart, Go
  <2>2. /\ [session[r] EXCEPT !.pc = "refind"].kind = session[r].kind
        /\ [session[r] EXCEPT !.pc = "refind"].lines = session[r].lines
    BY <1>0 DEF SessionRecords
  <2> QED
    BY <1>b, <2>1, <2>2
<1>6. ASSUME NEW r \in Requests, LoadRows(r) \/ ReadItems(r)
      PROVE  Kept
  <2>1. ASSUME NEW pc, NEW seen,
               session' = [session EXCEPT ![r] = [session[r] EXCEPT !.pc = pc, !.seen = seen]],
               UNCHANGED <<live, offered>>
        PROVE  Kept
    <3>1. /\ [session[r] EXCEPT !.pc = pc, !.seen = seen].kind = session[r].kind
          /\ [session[r] EXCEPT !.pc = pc, !.seen = seen].lines = session[r].lines
      BY <1>0 DEF SessionRecords
    <3> QED
      BY <1>b, <2>1, <3>1
  <2>2. CASE LoadRows(r)
    BY <1>a, <2>1, <2>2 DEF LoadRows, Go
  <2>3. CASE ReadItems(r)
    BY <1>a, <2>1, <2>3 DEF ReadItems, Go
  <2> QED
    BY <1>6, <2>2, <2>3
<1>7. ASSUME NEW r \in Requests, SelectVariant(r)
      PROVE  Kept
  <2>1. CASE Answer(r)
    BY <1>a, <1>7, <2>1 DEF SelectVariant
  <2>2. CASE ~Answer(r)
    <3>1. UNCHANGED <<live, offered>> /\ session[r].kind = "add" /\ session[r] \in SessionRecords
      BY <1>0, <1>7, <2>2 DEF SelectVariant
    <3>2. ASSUME Go(r, [session[r] EXCEPT !.pc = "write"])
          PROVE  Kept
      <4>1. [session[r] EXCEPT !.pc = "write"].kind = "add"
        BY <3>1 DEF SessionRecords
      <4> QED
        BY <1>b, <3>1, <3>2, <4>1 DEF Go
    <3>3. ASSUME NEW i, NEW L, Go(r, [session[r] EXCEPT !.pc = "write", !.row = i, !.lines = L])
          PROVE  Kept
      <4>1. [session[r] EXCEPT !.pc = "write", !.row = i, !.lines = L].kind = "add"
        BY <3>1 DEF SessionRecords
      <4> QED
        BY <1>b, <3>1, <3>3, <4>1 DEF Go
    <3> QED
      BY <1>7, <2>2, <3>2, <3>3 DEF SelectVariant
  <2> QED
    BY <2>1, <2>2
<1>8. ASSUME NEW r \in Requests, SelectRow(r)
      PROVE  Kept
  <2>1. [session[r] EXCEPT !.pc = "delete"].kind = session[r].kind
        /\ [session[r] EXCEPT !.pc = "delete"].lines = session[r].lines
    BY <1>0 DEF SessionRecords
  <2> QED
    BY <1>a, <1>b, <1>8, <2>1 DEF SelectRow, Go
<1>9. ASSUME NEW r \in Requests,
             InsertRow(r) \/ UpdateRow(r) \/ DeleteRow(r) \/ RejectCheckout(r)
               \/ CommitCheckout(r) \/ AbortRequest(r)
      PROVE  Kept
  BY <1>a, <1>9 DEF InsertRow, UpdateRow, DeleteRow, RejectCheckout, CommitCheckout,
                    AbortRequest
<1>10. ASSUME NEW r \in Requests, RequestStep(r)
       PROVE  Kept
  BY <1>3, <1>4, <1>5, <1>6, <1>7, <1>8, <1>9, <1>10 DEF RequestStep
<1>11. UNCHANGED vars => UNCHANGED <<session, live, offered>>
  BY DEF vars
<1> QED
  BY <1>c, <1>1, <1>2, <1>10, <1>11 DEF Next
CInv == Tables /\ InHand /\ Offers /\ CheckedOutMeansOrdered

LEMMA TablesKept ==
    ASSUME Tables, InHand, Offers, [Next]_vars
    PROVE  Tables'
<1>1. orders' \in [Orders -> OrderRecords \cup {None}]
  <2>1. CASE UNCHANGED orders
    BY <2>1 DEF Tables
  <2>2. ASSUME NEW r \in Requests, CommitCheckout(r)
        PROVE  orders' \in [Orders -> OrderRecords \cup {None}]
    BY <2>2, Commits DEF Ordered, Tables
  <2> QED
    BY <2>1, <2>2, Writers
<1> QED
  BY <1>1, CartsKept, RowsKept, OffersKept DEF Tables

LEMMA CInvStarts == ASSUME Init PROVE CInv
<1>1. Tables
  BY DEF Init, Tables
<1>2. session = [r \in Requests |-> Free] /\ RequestOK(Free, carts, rows)
  BY FreeOK DEF Init
<1>3. InHand
  BY <1>2 DEF InHand, RequestOK
<1>4. Offers
  BY <1>2 DEF Offers, Free
<1>5. CheckedOutMeansOrdered
  BY DEF Init, CheckedOutMeansOrdered
<1> QED
  BY <1>1, <1>3, <1>4, <1>5 DEF CInv

LEMMA CInvKept == ASSUME CInv, [Next]_vars PROVE CInv'
BY TablesKept, InHandKept, OffersKept, CheckedOutKept DEF CInv

LEMMA CInvAlways == Spec => []CInv
<1>1. Init => CInv
  BY CInvStarts
<1>2. CInv /\ [Next]_vars => CInv'
  BY CInvKept
<1> QED
  BY <1>1, <1>2, PTL DEF Spec

\* The tables and the requests in hand have their types.
THEOREM TypeCorrect == Spec => []TypeOK
<1>1. ASSUME CInv
      PROVE  TypeOK
  <2>1. ASSUME NEW n \in Orders
        PROVE  orders[n] = None \/ /\ orders[n].user \in Users /\ orders[n].cart \in Carts
                                   /\ orders[n].lines \subseteq Priced
    BY <1>1 DEF CInv, Tables, OrderRecords
  <2>2. ASSUME NEW r \in Requests
        PROVE  /\ session[r].pc \in Steps /\ session[r].kind \in Kinds
               /\ session[r].user \in Users \cup {None}
               /\ session[r].cart \in Carts \cup {None}
               /\ session[r].row \in Rows \cup {None}
               /\ session[r].seen \subseteq Loaded
               /\ session[r].lines \subseteq Loaded \cup Priced
               /\ offered[r] \subseteq Variants \X Prices
    BY <1>1 DEF CInv, Tables, InHand, SessionRecords
  <2> QED
    BY <1>1, <2>1, <2>2 DEF CInv, Tables, TypeOK
<1> QED
  BY <1>1, CInvAlways, PTL

\* Order and cart status are one commit (OrderService.checkout): no interleaving
\* and no lost request leaves the one without the other.
THEOREM OneCommit == Spec => []CheckedOutMeansOrdered
<1>1. CInv => CheckedOutMeansOrdered
  BY DEF CInv
<1> QED
  BY <1>1, CInvAlways, PTL

\* "Re-verify each cart item's price": every line of a new order has a price at
\* which the variant was on sale during that checkout.
THEOREM PricesQuoted == Spec => PricesWereOnSale
<1> DEFINE Honest == \A n \in Orders : orders[n] = None /\ orders'[n] # None =>
         \E r \in Requests :
            /\ session[r].pc = "verify" /\ session'[r].pc = "idle"
            /\ \A x \in orders'[n].lines : <<x.variant, x.price>> \in offered[r]
<1>1. ASSUME CInv, [Next]_vars
      PROVE  [Honest]_vars
  <2> SUFFICES ASSUME NEW n \in Orders, orders[n] = None, orders'[n] # None
               PROVE  \E r \in Requests :
                        /\ session[r].pc = "verify" /\ session'[r].pc = "idle"
                        /\ \A x \in orders'[n].lines : <<x.variant, x.price>> \in offered[r]
    OBVIOUS
  <2>1. PICK r \in Requests : CommitCheckout(r)
    BY <1>1, Writers
  <2>2. PICK m \in Orders, c \in Carts, order \in OrderRecords : Ordered(r, m, c, order)
    BY <1>1, <2>1, Commits DEF CInv
  <2>3. orders'[n].lines = session[r].lines /\ session[r].pc = "verify"
    BY <1>1, <2>2 DEF Ordered, CInv, Tables
  <2>4. session[r].kind = "checkout"
    BY <1>1, <2>3 DEF CInv, InHand, RequestOK
  <2>5. session'[r].pc = "idle"
    BY <1>1, <2>1 DEF CommitCheckout, Answer, Go, Free, CInv, InHand
  <2> QED
    BY <1>1, <2>3, <2>4, <2>5 DEF CInv, Offers
<1>2. CInv /\ [Next]_vars => [Honest]_vars
  BY <1>1
<1> QED
  BY <1>2, CInvAlways, PTL DEF Spec, PricesWereOnSale
-----------------------------------------------------------------------------
(* A customer who waits for each answer.                                    *)

\* What a step makes of request r.
Path(r) ==
    \/ session'[r] = session[r]
    \/ session'[r] = Free
    \/ /\ session'[r].pc = "find"
       /\ Serial => \A q \in Requests : session[q].user # session'[r].user
       /\ \A q \in Requests : q # r => session'[q] = session[q]
    \/ /\ session[r].pc # "idle" /\ session'[r].user = session[r].user
       /\ \/ /\ session'[r].pc = "load" /\ session'[r].cart \in ActiveCarts(session[r].user)
             /\ UNCHANGED carts
          \/ /\ session'[r].pc = "create" /\ ActiveCarts(session[r].user) = {}
             /\ UNCHANGED carts
          \/ session'[r].pc = "refind"
          \/ /\ session[r].pc \in WithCart /\ session'[r].pc \in WithCart
             /\ session'[r].cart = session[r].cart
             /\ UNCHANGED carts

LEMMA Moves ==
    ASSUME InHand, [Next]_vars, NEW r \in Requests
    PROVE  \/ session'[r] = session[r]
           \/ RequestStep(r)
           \/ \E u \in Users, kind \in Kinds, v \in Variants, p \in Prices, i \in Rows :
                 Begin(r, u, kind, v, p, i)
<1>0. session \in [Requests -> SessionRecords]
  BY DEF InHand
<1>1. ASSUME NEW q \in Requests, NEW s, session' = [session EXCEPT ![q] = s], q # r
      PROVE  session'[r] = session[r]
  BY <1>0, <1>1
<1>2. ASSUME NEW q \in Requests, q # r, RequestStep(q)
      PROVE  session'[r] = session[r]
  <2>1. \E s : session' = [session EXCEPT ![q] = s]
    <3>1. FindCart(q) \/ LoadRows(q) \/ SelectVariant(q) \/ SelectRow(q) \/ CreateCart(q)
            => \E s : session' = [session EXCEPT ![q] = s]
      BY Zenon DEF FindCart, LoadRows, SelectVariant, SelectRow, CreateCart, Answer, Go
    <3>2. InsertRow(q) \/ UpdateRow(q) \/ DeleteRow(q) \/ CommitCheckout(q)
            => \E s : session' = [session EXCEPT ![q] = s]
      BY Zenon DEF InsertRow, UpdateRow, DeleteRow, CommitCheckout, Answer, Go
    <3>3. /\ ReadItems(q) \/ RejectCheckout(q) \/ AbortRequest(q)
               => \E s : session' = [session EXCEPT ![q] = s]
          /\ \A x \in session[q].seen : VerifyItem(q, x)
               => \E s : session' = [session EXCEPT ![q] = s]
      BY Zenon DEF ReadItems, RejectCheckout, AbortRequest, VerifyItem, Answer, Go
    <3> QED
      BY <1>2, <3>1, <3>2, <3>3 DEF RequestStep
  <2> QED
    BY <1>1, <1>2, <2>1
<1>3. ASSUME NEW q \in Requests, q # r, NEW u, NEW kind, NEW v, NEW p, NEW i,
             Begin(q, u, kind, v, p, i)
      PROVE  session'[r] = session[r]
  BY <1>1, <1>3 DEF Begin, Go
<1>4. ASSUME NEW v, NEW x, ChangeVariant(v, x)
      PROVE  UNCHANGED session
  BY <1>4 DEF ChangeVariant
<1>5. UNCHANGED vars => UNCHANGED session
  BY DEF vars
<1> QED
  BY <1>2, <1>3, <1>4, <1>5 DEF Next

LEMMA Paths ==
    ASSUME InHand, [Next]_vars, NEW r \in Requests
    PROVE  Path(r)
<1>0. session \in [Requests -> SessionRecords] /\ session[r] \in SessionRecords
  BY DEF InHand
<1>2. Answer(r) => Path(r)
  BY <1>0 DEF Answer, Go, Path
<1>3. ASSUME NEW pc \in WithCart, NEW s, session' = [session EXCEPT ![r] = s],
             session[r].pc \in WithCart, UNCHANGED carts,
             s.pc = pc, s.cart = session[r].cart, s.user = session[r].user
      PROVE  Path(r)
  BY <1>0, <1>3 DEF Path, WithCart
<1>4. ASSUME NEW u \in Users, NEW kind \in Kinds, NEW v \in Variants,
             NEW p \in Prices, NEW i \in Rows, Begin(r, u, kind, v, p, i)
      PROVE  Path(r)
  BY <1>0, <1>4 DEF Begin, Go, Free, Path
<1>5. CASE FindCart(r)
  <2>1. ASSUME NEW c \in ActiveCarts(session[r].user),
               session' = [session EXCEPT ![r] = [session[r] EXCEPT !.pc = "load", !.cart = c]]
        PROVE  Path(r)
    <3>1. /\ session'[r].pc = "load" /\ session'[r].cart = c
          /\ session'[r].user = session[r].user
      BY <1>0, <2>1 DEF SessionRecords
    <3> QED
      BY <1>5, <3>1 DEF FindCart, Path
  <2>2. ASSUME ActiveCarts(session[r].user) = {},
               session' = [session EXCEPT ![r] = [session[r] EXCEPT !.pc = "create"]]
        PROVE  Path(r)
    <3>1. session'[r].pc = "create" /\ session'[r].user = session[r].user
      BY <1>0, <2>2 DEF SessionRecords
    <3> QED
      BY <1>5, <2>2, <3>1 DEF FindCart, Path
  <2> QED
    BY <1>2, <1>5, <2>1, <2>2 DEF FindCart, Go
<1>6. CASE CreateCart(r)
  <2>1. session'[r].pc = "refind" /\ session'[r].user = session[r].user
    BY <1>0, <1>6 DEF CreateCart, Go, SessionRecords
  <2> QED
    BY <1>6, <2>1 DEF CreateCart, Path
<1>7. CASE LoadRows(r) \/ ReadItems(r)
  <2>1. ASSUME NEW pc \in WithCart, NEW seen,
               session' = [session EXCEPT ![r] = [session[r] EXCEPT !.pc = pc, !.seen = seen]]
        PROVE  Path(r)
    <3> DEFINE s == [session[r] EXCEPT !.pc = pc, !.seen = seen]
    <3>1. s.pc = pc /\ s.cart = session[r].cart /\ s.user = session[r].user
      BY <1>0 DEF SessionRecords
    <3>2. session' = [session EXCEPT ![r] = s]
      BY <2>1
    <3> HIDE DEF s
    <3>3. session[r].pc \in WithCart /\ UNCHANGED carts
      BY <1>7 DEF LoadRows, ReadItems, WithCart
    <3> QED
      BY <1>3, <3>1, <3>2, <3>3
  <2>2. CASE LoadRows(r)
    BY <1>2, <2>1, <2>2 DEF LoadRows, Go, WithCart
  <2>3. CASE ReadItems(r)
    BY <1>2, <2>1, <2>3 DEF ReadItems, Go, WithCart
  <2> QED
    BY <1>7, <2>2, <2>3
<1>8. CASE SelectVariant(r)
  <2>1. session[r].pc \in WithCart /\ "write" \in WithCart /\ UNCHANGED carts
    BY <1>8 DEF SelectVariant, WithCart
  <2>2. ASSUME Go(r, [session[r] EXCEPT !.pc = "write"])
        PROVE  Path(r)
    <3>1. /\ [session[r] EXCEPT !.pc = "write"].pc = "write"
          /\ [session[r] EXCEPT !.pc = "write"].cart = session[r].cart
          /\ [session[r] EXCEPT !.pc = "write"].user = session[r].user
      BY <1>0 DEF SessionRecords
    <3> QED
      BY <1>3, <2>1, <2>2, <3>1 DEF Go
  <2>3. ASSUME NEW i, NEW L, Go(r, [session[r] EXCEPT !.pc = "write", !.row = i, !.lines = L])
        PROVE  Path(r)
    <3> DEFINE s == [session[r] EXCEPT !.pc = "write", !.row = i, !.lines = L]
    <3>1. s.pc = "write" /\ s.cart = session[r].cart /\ s.user = session[r].user
      BY <1>0 DEF SessionRecords
    <3>2. session' = [session EXCEPT ![r] = s]
      BY <2>3 DEF Go
    <3> HIDE DEF s
    <3> QED
      BY <1>3, <2>1, <3>1, <3>2
  <2> QED
    BY <1>2, <1>8, <2>2, <2>3 DEF SelectVariant
<1>9. CASE SelectRow(r)
  <2>1. /\ [session[r] EXCEPT !.pc = "delete"].pc = "delete"
        /\ [session[r] EXCEPT !.pc = "delete"].cart = session[r].cart
        /\ [session[r] EXCEPT !.pc = "delete"].user = session[r].user
    BY <1>0 DEF SessionRecords
  <2>2. session[r].pc \in WithCart /\ "delete" \in WithCart /\ UNCHANGED carts
    BY <1>9 DEF SelectRow, WithCart
  <2> QED
    BY <1>2, <1>3, <1>9, <2>1, <2>2 DEF SelectRow, Go
<1>10. ASSUME NEW x \in session[r].seen, VerifyItem(r, x)
       PROVE  Path(r)
  <2> DEFINE y == [row |-> x.row, variant |-> x.variant, quantity |-> x.quantity,
                   price |-> PriceOf(r, x)]
             s == [session[r] EXCEPT !.seen = session[r].seen \ {x},
                                     !.lines = session[r].lines \cup {y}]
  <2>1. session' = [session EXCEPT ![r] = s]
    BY <1>10 DEF VerifyItem, Go
  <2> HIDE DEF y
  <2>2. s.pc = session[r].pc /\ s.cart = session[r].cart /\ s.user = session[r].user
    BY <1>0 DEF SessionRecords
  <2>3. session[r].pc \in WithCart /\ UNCHANGED carts
    BY <1>10 DEF VerifyItem, WithCart
  <2> HIDE DEF s
  <2> QED
    BY <1>3, <2>1, <2>2, <2>3
<1>11. ASSUME InsertRow(r) \/ UpdateRow(r) \/ DeleteRow(r) \/ RejectCheckout(r)
                \/ CommitCheckout(r) \/ AbortRequest(r)
       PROVE  Path(r)
  BY <1>2, <1>11 DEF InsertRow, UpdateRow, DeleteRow, RejectCheckout, CommitCheckout,
                     AbortRequest
<1>12. ASSUME RequestStep(r)
       PROVE  Path(r)
  BY <1>5, <1>6, <1>7, <1>8, <1>9, <1>10, <1>11, <1>12 DEF RequestStep
<1>13. session'[r] = session[r] => Path(r)
  BY DEF Path
<1> QED
  BY <1>4, <1>12, <1>13, Moves

ActiveCart(c, u) == carts[c] = [user |-> u, status |-> "active"]

\* A customer has one request in hand; it has the active cart, and there is one.
Alone == \A q, r \in Requests :
    session[q].pc # "idle" /\ session[r].pc # "idle" /\ session[q].user = session[r].user
        => q = r
Claimed == \A r \in Requests :
    /\ session[r].pc = "create" => \A c \in Carts : ~ActiveCart(c, session[r].user)
    /\ session[r].pc \in WithCart => ActiveCart(session[r].cart, session[r].user)
One == \A u \in Users, c, d \in Carts : ActiveCart(c, u) /\ ActiveCart(d, u) => c = d

SInv == CInv /\ Alone /\ Claimed /\ One

LEMMA AloneKept ==
    ASSUME Serial = TRUE, InHand, Alone, [Next]_vars
    PROVE  Alone'
<1> SUFFICES ASSUME NEW q \in Requests, NEW r \in Requests,
                    session'[q].pc # "idle", session'[r].pc # "idle",
                    session'[q].user = session'[r].user, q # r
             PROVE  FALSE
  BY DEF Alone
<1>0. Free.pc = "idle" /\ Path(q) /\ Path(r)
  BY Paths DEF Free
<1>1. ASSUME NEW t \in Requests, session'[t].pc # "idle"
      PROVE  \/ session[t].pc # "idle" /\ session'[t].user = session[t].user
             \/ /\ \A x \in Requests : session[x].user # session'[t].user
                /\ \A x \in Requests : x # t => session'[x] = session[x]
  BY <1>1, Paths DEF Path, Free
<1>2. CASE session[q].pc # "idle" /\ session'[q].user = session[q].user
           /\ session[r].pc # "idle" /\ session'[r].user = session[r].user
  BY <1>2 DEF Alone
<1>3. ASSUME NEW t \in Requests, NEW x \in Requests, t # x,
             session'[t].user = session'[x].user,
             \A y \in Requests : session[y].user # session'[t].user,
             \A y \in Requests : y # t => session'[y] = session[y]
      PROVE  FALSE
  BY <1>3
<1> QED
  BY <1>1, <1>2, <1>3

\* What a step makes of the carts.
LEMMA CartSteps ==
    ASSUME InHand, [Next]_vars
    PROVE  \/ UNCHANGED carts
           \/ \E q \in Requests, d \in Carts :
                 /\ session[q].pc = "create" /\ carts[d] = None
                 /\ session'[q].pc = "refind" /\ session[q].user \in Users
                 /\ carts' = [carts EXCEPT ![d] = NewCart(session[q].user)]
           \/ \E q \in Requests, n \in Orders, d \in Carts, order \in OrderRecords :
                 /\ Ordered(q, n, d, order) /\ carts[d] # None
                 /\ session' = [session EXCEPT ![q] = Free]
<1>1. ASSUME NEW q \in Requests, CreateCart(q)
      PROVE  \E d \in Carts :
                 /\ session[q].pc = "create" /\ carts[d] = None
                 /\ session'[q].pc = "refind" /\ session[q].user \in Users
                 /\ carts' = [carts EXCEPT ![d] = NewCart(session[q].user)]
  <2>1. session[q].pc = "create" /\ session[q].user \in Users
    BY <1>1 DEF CreateCart, InHand, RequestOK
  <2>2. session'[q].pc = "refind"
    BY <1>1 DEF CreateCart, Go, InHand, SessionRecords
  <2> QED
    BY <1>1, <2>1, <2>2 DEF CreateCart
<1>2. ASSUME NEW q \in Requests, CommitCheckout(q)
      PROVE  \E n \in Orders, d \in Carts, order \in OrderRecords :
                 /\ Ordered(q, n, d, order) /\ carts[d] # None
                 /\ session' = [session EXCEPT ![q] = Free]
  <2>1. session' = [session EXCEPT ![q] = Free]
    BY <1>2 DEF CommitCheckout, Answer, Go
  <2> QED
    BY <1>2, <2>1, Commits
<1> QED
  BY <1>1, <1>2, Writers

LEMMA ClaimedKept ==
    ASSUME Serial = TRUE, Tables, InHand, Alone, Claimed, [Next]_vars
    PROVE  Claimed'
<1> SUFFICES ASSUME NEW r \in Requests
             PROVE  /\ session'[r].pc = "create" =>
                         \A c \in Carts : ~ActiveCart(c, session[r].user)'
                    /\ session'[r].pc \in WithCart =>
                         ActiveCart(session[r].cart, session[r].user)'
  BY DEF Claimed
<1>0. InHand' /\ RequestOK(session[r], carts, rows)
  BY InHandKept DEF InHand
<1>1. CASE session'[r] = session[r]
  <2>1. CASE UNCHANGED carts
    BY <1>1, <2>1 DEF Claimed, ActiveCart
  <2>2. ASSUME NEW q \in Requests, NEW d \in Carts,
               session[q].pc = "create", carts[d] = None, session'[q].pc = "refind",
               carts' = [carts EXCEPT ![d] = NewCart(session[q].user)]
        PROVE  /\ session'[r].pc = "create" =>
                    \A c \in Carts : ~ActiveCart(c, session[r].user)'
               /\ session'[r].pc \in WithCart =>
                    ActiveCart(session[r].cart, session[r].user)'
    <3>1. CASE session[r].pc = "create"
      <4>1. session[q].user # session[r].user
        BY <1>1, <2>2, <3>1 DEF Alone
      <4>2. carts'[d] # [user |-> session[r].user, status |-> "active"]
        BY <2>2, <4>1 DEF NewCart, Tables
      <4> QED
        BY <1>1, <2>2, <3>1, <4>2 DEF Claimed, ActiveCart, Tables, WithCart
    <3>2. CASE session[r].pc \in WithCart
      <4>1. session[r].cart \in Carts /\ session[r].cart # d
        BY <1>0, <2>2, <3>2 DEF RequestOK
      <4> QED
        BY <1>1, <2>2, <3>2, <4>1 DEF Claimed, ActiveCart, Tables, WithCart
    <3> QED
      BY <1>1, <3>1, <3>2
  <2>3. ASSUME NEW q \in Requests, NEW n \in Orders, NEW d \in Carts,
               NEW order \in OrderRecords,
               Ordered(q, n, d, order), session' = [session EXCEPT ![q] = Free],
               carts[d] # None
        PROVE  /\ session'[r].pc = "create" =>
                    \A c \in Carts : ~ActiveCart(c, session[r].user)'
               /\ session'[r].pc \in WithCart =>
                    ActiveCart(session[r].cart, session[r].user)'
    <3>1. /\ session[q].pc = "verify" /\ session[q].cart = d
          /\ carts' = [carts EXCEPT ![d] = [carts[d] EXCEPT !.status = "checked_out"]]
      BY <2>3 DEF Ordered
    <3>2. carts[d] \in CartRecords
      BY <2>3 DEF Tables
    <3>3. carts'[d].status = "checked_out" /\ \A c \in Carts : c # d => carts'[c] = carts[c]
      BY <3>1, <3>2 DEF Tables, CartRecords
    <3>4. CASE session[r].pc = "create"
      BY <1>1, <3>3, <3>4 DEF Claimed, ActiveCart, WithCart
    <3>5. CASE session[r].pc \in WithCart
      <4>1. q # r
        BY <1>1, <2>3, <3>5 DEF Free, WithCart, InHand
      <4>2. session[q].user # session[r].user
        BY <3>1, <3>5, <4>1 DEF Alone, WithCart
      <4>3. ActiveCart(d, session[q].user) /\ ActiveCart(session[r].cart, session[r].user)
        BY <3>1, <3>5 DEF Claimed, WithCart
      <4>4. session[r].cart # d
        BY <4>2, <4>3 DEF ActiveCart
      <4>5. session[r].cart \in Carts
        BY <1>0, <3>5 DEF RequestOK
      <4> QED
        BY <1>1, <3>3, <3>5, <4>3, <4>4, <4>5 DEF ActiveCart, WithCart
    <3> QED
      BY <1>1, <3>4, <3>5
  <2> QED
    BY <2>1, <2>2, <2>3, CartSteps
<1>2. CASE session'[r] # session[r]
  <2>1. CASE session'[r] = Free
    BY <2>1 DEF Free, WithCart
  <2>2. CASE session'[r].pc \in {"find", "refind"}
    BY <2>2 DEF WithCart
  <2>3. CASE /\ session'[r].user = session[r].user /\ session'[r].pc = "load"
             /\ session'[r].cart \in ActiveCarts(session[r].user) /\ UNCHANGED carts
    BY <2>3 DEF ActiveCarts, ActiveCart
  <2>4. CASE /\ session'[r].user = session[r].user /\ session'[r].pc = "create"
             /\ ActiveCarts(session[r].user) = {} /\ UNCHANGED carts
    BY <2>4 DEF ActiveCarts, ActiveCart, WithCart
  <2>5. CASE /\ session'[r].user = session[r].user /\ session[r].pc \in WithCart
             /\ session'[r].pc \in WithCart /\ session'[r].cart = session[r].cart
             /\ UNCHANGED carts
    BY <2>5 DEF Claimed, ActiveCart, WithCart
  <2> QED
    BY <1>2, <2>1, <2>2, <2>3, <2>4, <2>5, Paths DEF Path
<1> QED
  BY <1>1, <1>2

LEMMA OneKept ==
    ASSUME Tables, InHand, Claimed, One, [Next]_vars
    PROVE  One'
<1> SUFFICES ASSUME NEW u \in Users, NEW c \in Carts, NEW d \in Carts,
                    ActiveCart(c, u)', ActiveCart(d, u)'
             PROVE  c = d
  BY DEF One
<1>1. CASE UNCHANGED carts
  BY <1>1 DEF One, ActiveCart
<1>2. ASSUME NEW q \in Requests, NEW e \in Carts, session[q].pc = "create",
             carts' = [carts EXCEPT ![e] = NewCart(session[q].user)]
      PROVE  c = d
  <2>1. \A x \in Carts : ~ActiveCart(x, session[q].user)
    BY <1>2 DEF Claimed
  <2>2. \A x \in Carts : ActiveCart(x, u)' =>
           IF x = e THEN session[q].user = u ELSE ActiveCart(x, u)
    BY <1>2 DEF ActiveCart, NewCart, Tables
  <2> QED
    BY <2>1, <2>2 DEF One
<1>3. ASSUME NEW q, NEW n, NEW e \in Carts, NEW order, Ordered(q, n, e, order), carts[e] # None
      PROVE  c = d
  <2>1. carts' = [carts EXCEPT ![e] = [carts[e] EXCEPT !.status = "checked_out"]]
        /\ carts[e] \in CartRecords
    BY <1>3 DEF Ordered, Tables
  <2>2. carts'[e].status = "checked_out" /\ \A x \in Carts : x # e => carts'[x] = carts[x]
    BY <2>1 DEF Tables, CartRecords
  <2>3. c # e /\ d # e
    BY <2>2 DEF ActiveCart
  <2> QED
    BY <2>2, <2>3 DEF One, ActiveCart
<1> QED
  BY <1>1, <1>2, <1>3, CartSteps

LEMMA SInvStarts == ASSUME Init PROVE SInv
<1>1. Alone /\ Claimed /\ One
  BY RecordAssumption DEF Init, Free, Alone, Claimed, One, ActiveCart, WithCart, CartRecords
<1> QED
  BY <1>1, CInvStarts DEF SInv

LEMMA SInvKept == ASSUME Serial = TRUE, SInv, [Next]_vars PROVE SInv'
<1>1. Tables /\ InHand /\ CInv /\ Alone /\ Claimed /\ One
  BY DEF SInv, CInv
<1> QED
  BY <1>1, CInvKept, AloneKept, ClaimedKept, OneKept DEF SInv

LEMMA SInvAlways == ASSUME Serial = TRUE PROVE Spec => []SInv
<1>1. Init => SInv
  BY SInvStarts
<1>2. SInv /\ [Next]_vars => SInv'
  BY SInvKept
<1> QED
  BY <1>1, <1>2, PTL DEF Spec

\* "Get or create the active cart": a customer who waits for each answer has at
\* most one, though nothing in the table says so (order_routes.py, cart_service.py).
THEOREM OneCart == ASSUME Serial = TRUE PROVE Spec => []OneActiveCart
<1>1. ASSUME SInv
      PROVE  OneActiveCart
  <2> SUFFICES ASSUME NEW u \in Users
               PROVE  Cardinality({c \in Carts : carts[c] = [user |-> u, status |-> "active"]}) <= 1
    BY DEF OneActiveCart
  <2> DEFINE S == {c \in Carts : carts[c] = [user |-> u, status |-> "active"]}
  <2>1. \A c, d \in S : c = d
    BY <1>1 DEF SInv, One, ActiveCart
  <2>2. S = {} \/ \E c : S = {c}
    BY <2>1
  <2> HIDE DEF S
  <2>3. Cardinality(S) = 0 \/ Cardinality(S) = 1
    BY <2>2, FS_EmptySet, FS_Singleton
  <2>4. Cardinality(S) <= 1
    BY <2>3
  <2> QED
    BY <2>4 DEF S
<1> QED
  BY <1>1, SInvAlways, PTL

\* Such a customer's cart is sold once: the cart a checkout commits is active until
\* that commit.
THEOREM SoldOnce == ASSUME Serial = TRUE PROVE Spec => []OneOrderPerCart
<1>1. Init => OneOrderPerCart
  BY DEF Init, OneOrderPerCart
<1>2. SInv /\ OneOrderPerCart /\ [Next]_vars => OneOrderPerCart'
  <2> SUFFICES ASSUME SInv, OneOrderPerCart, [Next]_vars
               PROVE  OneOrderPerCart'
    OBVIOUS
  <2>1. CASE UNCHANGED orders
    BY <2>1 DEF OneOrderPerCart
  <2>2. ASSUME NEW r \in Requests, CommitCheckout(r)
        PROVE  OneOrderPerCart'
    <3>1. PICK n \in Orders, c \in Carts, order \in OrderRecords : Ordered(r, n, c, order)
      BY <2>2, Commits DEF SInv, CInv
    <3>2. carts[c] = [user |-> session[r].user, status |-> "active"]
      BY <3>1 DEF SInv, Claimed, ActiveCart, Ordered, WithCart
    <3>3. \A m \in Orders : orders[m] # None => orders[m].cart # c
      BY <3>2 DEF SInv, CInv, CheckedOutMeansOrdered
    <3>4. \A m \in Orders : orders'[m] = IF m = n THEN order ELSE orders[m]
      BY <3>1 DEF Ordered, SInv, CInv, Tables
    <3>5. order.cart = c
      BY <3>1 DEF Ordered
    <3> QED
      BY <3>3, <3>4, <3>5 DEF OneOrderPerCart
  <2> QED
    BY <2>1, <2>2, Writers
<1> QED
  BY <1>1, <1>2, SInvAlways, PTL DEF Spec
-----------------------------------------------------------------------------
(* The order is the cart.                                                   *)

Snapshot(c) == {Copy(i) : i \in RowsOf(c)}
Stripped(L) == {[row |-> x.row, variant |-> x.variant, quantity |-> x.quantity] : x \in L}

\* The rows a request has noted are rows of its cart.
Placed == \A r \in Requests :
    /\ \A x \in session[r].seen \cup session[r].lines :
         session[r].pc \in WithCart /\ rows[x.row].cart = session[r].cart
    /\ session[r].pc = "delete" => rows[session[r].row].cart = session[r].cart
    /\ session[r].pc \in {"load", "select", "read"} => session[r].lines = {}

\* What a request that has read its cart has noted is what the cart holds.
Fresh == \A r \in Requests, c \in Carts : session[r].cart = c =>
    /\ session[r].pc = "read" => session[r].seen = Snapshot(c)
    /\ session[r].pc = "verify" =>
         session[r].seen \cup Stripped(session[r].lines) = Snapshot(c)

\* Only a request that writes in a cart changes its rows.
LEMMA RowWriters ==
    ASSUME Tables, InHand, Placed, [Next]_vars, NEW c \in Carts,
           \A q \in Requests : session[q].pc \in {"write", "delete"} => session[q].cart # c,
           NEW i \in Rows,
           \/ rows[i] # None /\ rows[i].cart = c
           \/ rows'[i] # None /\ rows'[i].cart = c
    PROVE  rows'[i] = rows[i]
<1>1. ASSUME NEW r \in Requests, InsertRow(r)
      PROVE  rows'[i] = rows[i]
  <2>1. session[r].cart # c
    BY <1>1 DEF InsertRow
  <2>2. PICK j \in Rows :
           /\ rows[j] = None
           /\ rows' = [rows EXCEPT ![j] =
                [cart |-> session[r].cart, variant |-> session[r].variant,
                 price |-> session[r].price, quantity |-> 1, gone |-> FALSE]]
    BY <1>1 DEF InsertRow
  <2>3. rows'[j].cart = session[r].cart /\ \A k \in Rows : k # j => rows'[k] = rows[k]
    BY <2>2 DEF Tables
  <2> QED
    BY <2>1, <2>2, <2>3
<1>2. ASSUME NEW r \in Requests, UpdateRow(r)
      PROVE  rows'[i] = rows[i]
  <2>1. session[r].cart # c
    BY <1>2 DEF UpdateRow
  <2>2. PICK x \in session[r].lines :
           \/ UNCHANGED rows
           \/ rows' = [rows EXCEPT ![x.row].quantity = NewQuantity(x)]
    BY <1>2 DEF UpdateRow
  <2>3. rows[x.row].cart = session[r].cart /\ x.row \in Rows /\ rows[x.row] # None
    BY DEF Placed, InHand, RequestOK, SessionRecords, Loaded, Priced
  <2>4. CASE rows' = [rows EXCEPT ![x.row].quantity = NewQuantity(x)]
    <3>1. PICK j \in Rows : j = x.row
      BY <2>3
    <3>2. rows[j] \in RowRecords
      BY <2>3, <3>1 DEF Tables
    <3>3. rows' = [rows EXCEPT ![j] = [rows[j] EXCEPT !.quantity = NewQuantity(x)]]
      BY <2>4, <3>1
    <3>4. [rows[j] EXCEPT !.quantity = NewQuantity(x)].cart = rows[j].cart
      BY <3>2 DEF RowRecords
    <3>5. rows'[j].cart = rows[j].cart /\ \A k \in Rows : k # j => rows'[k] = rows[k]
      BY <3>3, <3>4 DEF Tables
    <3> QED
      BY <2>1, <2>3, <3>1, <3>5
  <2> QED
    BY <2>2, <2>4
<1>3. ASSUME NEW r \in Requests, DeleteRow(r)
      PROVE  rows'[i] = rows[i]
  <2>1. session[r].cart # c
    BY <1>3 DEF DeleteRow
  <2>2. PICK j \in Rows : /\ j = session[r].row /\ rows[j] # None
                          /\ rows[j].cart = session[r].cart
    BY <1>3 DEF DeleteRow, InHand, RequestOK, Placed
  <2>3. rows[j] \in RowRecords
    BY <2>2 DEF Tables
  <2>4. rows' = [rows EXCEPT ![j] = [rows[j] EXCEPT !.gone = TRUE]]
    BY <1>3, <2>2 DEF DeleteRow
  <2>5. [rows[j] EXCEPT !.gone = TRUE].cart = rows[j].cart
    BY <2>3 DEF RowRecords
  <2>6. rows'[j].cart = rows[j].cart /\ \A k \in Rows : k # j => rows'[k] = rows[k]
    BY <2>4, <2>5 DEF Tables
  <2> QED
    BY <2>1, <2>2, <2>6
<1> QED
  BY <1>1, <1>2, <1>3, Writers

LEMMA SnapshotKept ==
    ASSUME Tables, InHand, Placed, [Next]_vars, NEW c \in Carts,
           \A q \in Requests : session[q].pc \in {"write", "delete"} => session[q].cart # c
    PROVE  Snapshot(c)' = Snapshot(c)
<1>1. \A i \in Rows : (rows[i] # None /\ rows[i].cart = c) \/ (rows'[i] # None /\ rows'[i].cart = c)
                        => rows'[i] = rows[i]
  BY RowWriters
<1>2. RowsOf(c)' = RowsOf(c)
  BY <1>1 DEF RowsOf
<1>3. \A i \in RowsOf(c) : Copy(i)' = Copy(i)
  BY <1>1 DEF RowsOf, Copy
<1> QED
  BY <1>2, <1>3 DEF Snapshot

\* A row keeps its cart.
LEMMA RowsPlaced ==
    ASSUME Tables, InHand, [Next]_vars, NEW i \in Rows, rows[i] # None
    PROVE  rows'[i].cart = rows[i].cart
<1>1. ASSUME NEW r \in Requests, InsertRow(r)
      PROVE  rows'[i].cart = rows[i].cart
  BY <1>1 DEF InsertRow, Tables
<1>2. ASSUME NEW j \in Rows, NEW row, row.cart = rows[j].cart,
             rows' = [rows EXCEPT ![j] = row]
      PROVE  rows'[i].cart = rows[i].cart
  BY <1>2 DEF Tables
<1>3. ASSUME NEW r \in Requests, UpdateRow(r)
      PROVE  rows'[i].cart = rows[i].cart
  <2>1. PICK x \in session[r].lines :
           \/ UNCHANGED rows
           \/ rows' = [rows EXCEPT ![x.row].quantity = NewQuantity(x)]
    BY <1>3 DEF UpdateRow
  <2>2. PICK j \in Rows : j = x.row /\ rows[j] # None
    BY DEF InHand, RequestOK, SessionRecords, Loaded, Priced
  <2>3. CASE rows' = [rows EXCEPT ![x.row].quantity = NewQuantity(x)]
    <3>1. rows[j] \in RowRecords
      BY <2>2 DEF Tables
    <3>2. [rows[j] EXCEPT !.quantity = NewQuantity(x)].cart = rows[j].cart
      BY <3>1 DEF RowRecords
    <3>3. rows' = [rows EXCEPT ![j] = [rows[j] EXCEPT !.quantity = NewQuantity(x)]]
      BY <2>2, <2>3
    <3> QED
      BY <1>2, <3>2, <3>3
  <2> QED
    BY <2>1, <2>3
<1>4. ASSUME NEW r \in Requests, DeleteRow(r)
      PROVE  rows'[i].cart = rows[i].cart
  <2>1. PICK j \in Rows : j = session[r].row /\ rows[j] # None
    BY <1>4 DEF DeleteRow, InHand, RequestOK
  <2>2. rows[j] \in RowRecords
    BY <2>1 DEF Tables
  <2>3. [rows[j] EXCEPT !.gone = TRUE].cart = rows[j].cart
    BY <2>2 DEF RowRecords
  <2>4. rows' = [rows EXCEPT ![j] = [rows[j] EXCEPT !.gone = TRUE]]
    BY <1>4, <2>1 DEF DeleteRow
  <2> QED
    BY <1>2, <2>3, <2>4
<1> QED
  BY <1>1, <1>3, <1>4, Writers
\* What a step makes of the rows a request has noted.
Notes(r) ==
    \/ session'[r] = session[r]
    \/ session'[r].seen = {} /\ session'[r].lines = {} /\ session'[r].pc \in {"idle", "find"}
    \/ /\ session[r].pc \notin WithCart /\ session'[r].pc \in {"load", "create", "refind"}
       /\ session'[r].seen = session[r].seen /\ session'[r].lines = session[r].lines
    \/ LoadRows(r) \/ SelectVariant(r) \/ SelectRow(r) \/ ReadItems(r)
    \/ \E x \in session[r].seen : VerifyItem(r, x)

LEMMA Noted ==
    ASSUME InHand, [Next]_vars, NEW r \in Requests
    PROVE  Notes(r)
<1>0. session \in [Requests -> SessionRecords] /\ session[r] \in SessionRecords
  BY DEF InHand
<1>1. Answer(r) => Notes(r)
  BY <1>0 DEF Answer, Go, Free, Notes
<1>2. ASSUME NEW u, NEW kind, NEW v, NEW p, NEW i, Begin(r, u, kind, v, p, i)
      PROVE  Notes(r)
  <2>1. session'[r].seen = {} /\ session'[r].lines = {} /\ session'[r].pc = "find"
    BY <1>0, <1>2 DEF Begin, Go, Free
  <2> QED
    BY <2>1 DEF Notes
<1>3. ASSUME FindCart(r)
      PROVE  Notes(r)
  <2>1. session[r].pc \notin WithCart
    BY <1>3 DEF FindCart, WithCart
  <2>2. ASSUME NEW c, Go(r, [session[r] EXCEPT !.pc = "load", !.cart = c])
        PROVE  Notes(r)
    <3>1. /\ session'[r].pc = "load" /\ session'[r].seen = session[r].seen
          /\ session'[r].lines = session[r].lines
      BY <1>0, <2>2 DEF Go, SessionRecords
    <3> QED
      BY <2>1, <3>1 DEF Notes
  <2>3. ASSUME Go(r, [session[r] EXCEPT !.pc = "create"])
        PROVE  Notes(r)
    <3>1. /\ session'[r].pc = "create" /\ session'[r].seen = session[r].seen
          /\ session'[r].lines = session[r].lines
      BY <1>0, <2>3 DEF Go, SessionRecords
    <3> QED
      BY <2>1, <3>1 DEF Notes
  <2> QED
    BY <1>1, <1>3, <2>2, <2>3 DEF FindCart
<1>4. ASSUME CreateCart(r)
      PROVE  Notes(r)
  <2>1. /\ session'[r].pc = "refind" /\ session'[r].seen = session[r].seen
        /\ session'[r].lines = session[r].lines /\ session[r].pc \notin WithCart
    BY <1>0, <1>4 DEF CreateCart, Go, SessionRecords, WithCart
  <2> QED
    BY <2>1 DEF Notes
<1>5. InsertRow(r) \/ UpdateRow(r) \/ DeleteRow(r) \/ RejectCheckout(r) \/ CommitCheckout(r)
        \/ AbortRequest(r) => Answer(r)
  BY DEF InsertRow, UpdateRow, DeleteRow, RejectCheckout, CommitCheckout, AbortRequest
<1>6. RequestStep(r) => Notes(r)
  BY <1>1, <1>3, <1>4, <1>5 DEF RequestStep, Notes
<1>7. session'[r] = session[r] => Notes(r)
  BY DEF Notes
<1> QED
  BY <1>2, <1>6, <1>7, Moves

\* The locals after each step that notes rows.
LEMMA NoteSteps ==
    ASSUME InHand, NEW r \in Requests
    PROVE  /\ LoadRows(r) => Answer(r) \/
                /\ session[r].pc = "load" /\ session'[r].pc \in {"select", "read"}
                /\ session'[r].cart = session[r].cart /\ session'[r].lines = session[r].lines
                /\ session'[r].seen = Snapshot(session[r].cart) /\ UNCHANGED rows
           /\ ReadItems(r) => Answer(r) \/
                /\ session[r].pc = "read" /\ session'[r].pc = "verify"
                /\ session'[r].cart = session[r].cart /\ session'[r].lines = session[r].lines
                /\ session'[r].seen = {Object(r, i) : i \in RowsOf(session[r].cart)}
                /\ UNCHANGED rows
           /\ SelectRow(r) => Answer(r) \/
                /\ session[r].pc = "select" /\ session'[r].pc = "delete"
                /\ session'[r].cart = session[r].cart /\ session'[r].row = session[r].row
                /\ session'[r].seen = session[r].seen /\ session'[r].lines = session[r].lines
                /\ session[r].row \in RowsOf(session[r].cart) /\ UNCHANGED rows
<1>0. session \in [Requests -> SessionRecords] /\ session[r] \in SessionRecords
  BY DEF InHand
<1>1. ASSUME LoadRows(r), ~Answer(r)
      PROVE  /\ session[r].pc = "load" /\ session'[r].pc \in {"select", "read"}
             /\ session'[r].cart = session[r].cart /\ session'[r].lines = session[r].lines
             /\ session'[r].seen = Snapshot(session[r].cart) /\ UNCHANGED rows
  <2> DEFINE found == {Copy(i) : i \in RowsOf(session[r].cart)}
  <2>1. PICK pc \in {"select", "read"} :
            session' = [session EXCEPT ![r] = [session[r] EXCEPT !.pc = pc, !.seen = found]]
    BY <1>1 DEF LoadRows, Go
  <2>2. session[r].pc = "load" /\ UNCHANGED rows /\ found = Snapshot(session[r].cart)
    BY <1>1 DEF LoadRows, Snapshot
  <2> HIDE DEF found
  <2>3. /\ session'[r].pc = pc /\ session'[r].seen = found
        /\ session'[r].cart = session[r].cart /\ session'[r].lines = session[r].lines
    BY <1>0, <2>1 DEF SessionRecords
  <2> QED
    BY <2>2, <2>3
<1>2. ASSUME ReadItems(r), ~Answer(r)
      PROVE  /\ session[r].pc = "read" /\ session'[r].pc = "verify"
             /\ session'[r].cart = session[r].cart /\ session'[r].lines = session[r].lines
             /\ session'[r].seen = {Object(r, i) : i \in RowsOf(session[r].cart)}
             /\ UNCHANGED rows
  <2> DEFINE found == {Object(r, i) : i \in RowsOf(session[r].cart)}
  <2>1. session' = [session EXCEPT ![r] = [session[r] EXCEPT !.pc = "verify", !.seen = found]]
    BY <1>2 DEF ReadItems, Go
  <2>2. session[r].pc = "read" /\ UNCHANGED rows
    BY <1>2 DEF ReadItems
  <2> HIDE DEF found
  <2>3. /\ session'[r].pc = "verify" /\ session'[r].seen = found
        /\ session'[r].cart = session[r].cart /\ session'[r].lines = session[r].lines
    BY <1>0, <2>1 DEF SessionRecords
  <2> QED
    BY <2>2, <2>3 DEF found
<1>3. ASSUME SelectRow(r), ~Answer(r)
      PROVE  /\ session[r].pc = "select" /\ session'[r].pc = "delete"
             /\ session'[r].cart = session[r].cart /\ session'[r].row = session[r].row
             /\ session'[r].seen = session[r].seen /\ session'[r].lines = session[r].lines
             /\ session[r].row \in RowsOf(session[r].cart) /\ UNCHANGED rows
  BY <1>0, <1>3 DEF SelectRow, Go, SessionRecords
<1> QED
  BY <1>1, <1>2, <1>3

LEMMA NoteVariant ==
    ASSUME InHand, NEW r \in Requests, SelectVariant(r)
    PROVE  Answer(r) \/
             /\ session[r].pc = "select" /\ session'[r].pc = "write"
             /\ session[r].kind = "add" /\ session'[r].variant = session[r].variant
             /\ session'[r].cart = session[r].cart /\ session'[r].seen = session[r].seen
             /\ \/ /\ SameVariant(r) = {} /\ session'[r].row = session[r].row
                   /\ session'[r].lines = session[r].lines
                \/ \E i \in SameVariant(r) :
                      session'[r].row = i /\ session'[r].lines = {Object(r, i)}
             /\ UNCHANGED rows
<1>0. session \in [Requests -> SessionRecords] /\ session[r] \in SessionRecords
  BY DEF InHand
<1> DEFINE Chosen == /\ session'[r].pc = "write" /\ session'[r].cart = session[r].cart
                     /\ session'[r].variant = session[r].variant
                     /\ session'[r].seen = session[r].seen
<1>1. ASSUME Go(r, [session[r] EXCEPT !.pc = "write"])
      PROVE  Chosen /\ session'[r].row = session[r].row /\ session'[r].lines = session[r].lines
  BY <1>0, <1>1 DEF Go, SessionRecords
<1>2. ASSUME NEW i \in SameVariant(r),
             Go(r, [session[r] EXCEPT !.pc = "write", !.row = i, !.lines = {Object(r, i)}])
      PROVE  Chosen /\ session'[r].row = i /\ session'[r].lines = {Object(r, i)}
  <2> DEFINE L == {Object(r, i)}
  <2>1. session' = [session EXCEPT ![r] = [session[r] EXCEPT !.pc = "write", !.row = i, !.lines = L]]
    BY <1>2 DEF Go
  <2> HIDE DEF L
  <2>2. Chosen /\ session'[r].row = i /\ session'[r].lines = L
    BY <1>0, <2>1 DEF SessionRecords
  <2> QED
    BY <2>2 DEF L
<1>3. session[r].pc = "select" /\ session[r].kind = "add" /\ UNCHANGED rows
  BY DEF SelectVariant
<1>4. \/ Answer(r)
      \/ SameVariant(r) = {} /\ Go(r, [session[r] EXCEPT !.pc = "write"])
      \/ \E i \in SameVariant(r) :
            Go(r, [session[r] EXCEPT !.pc = "write", !.row = i, !.lines = {Object(r, i)}])
  BY DEF SelectVariant
<1> QED
  BY <1>1, <1>2, <1>3, <1>4

LEMMA NoteItem ==
    ASSUME InHand, NEW r \in Requests, NEW x \in session[r].seen, VerifyItem(r, x)
    PROVE  \E y \in Priced :
             /\ session[r].pc = "verify" /\ session'[r].pc = "verify" /\ UNCHANGED rows
             /\ session'[r].cart = session[r].cart /\ session'[r].seen = session[r].seen \ {x}
             /\ session'[r].lines = session[r].lines \cup {y}
             /\ y.row = x.row /\ y.variant = x.variant /\ y.quantity = x.quantity
<1>0. session \in [Requests -> SessionRecords] /\ session[r] \in SessionRecords
  BY DEF InHand
<1> DEFINE z == [row |-> x.row, variant |-> x.variant, quantity |-> x.quantity,
                 price |-> PriceOf(r, x)]
<1>1. x \in Loaded /\ PriceOf(r, x) \in Prices
  BY <1>0 DEF SessionRecords, VerifyItem, PriceOf
<1>2. z \in Priced /\ z.row = x.row /\ z.variant = x.variant /\ z.quantity = x.quantity
  BY <1>1 DEF Priced, Loaded
<1>3. session' = [session EXCEPT ![r] = [session[r] EXCEPT !.seen = session[r].seen \ {x},
                                           !.lines = session[r].lines \cup {z}]]
  BY DEF VerifyItem, Go
<1> HIDE DEF z
<1>4. session[r].pc = "verify" /\ UNCHANGED rows
  BY DEF VerifyItem
<1>5. /\ session'[r].pc = session[r].pc /\ session'[r].cart = session[r].cart
      /\ session'[r].seen = session[r].seen \ {x}
      /\ session'[r].lines = session[r].lines \cup {z}
  BY <1>0, <1>3 DEF SessionRecords
<1> QED
  BY <1>2, <1>4, <1>5
LEMMA PlacedKept ==
    ASSUME Tables, InHand, Placed, [Next]_vars
    PROVE  Placed'
<1> SUFFICES ASSUME NEW r \in Requests
             PROVE  /\ \A x \in session'[r].seen \cup session'[r].lines :
                         session'[r].pc \in WithCart /\ rows'[x.row].cart = session'[r].cart
                    /\ session'[r].pc = "delete" =>
                         rows'[session'[r].row].cart = session'[r].cart
                    /\ session'[r].pc \in {"load", "select", "read"} => session'[r].lines = {}
  BY DEF Placed
<1> DEFINE Q == /\ \A x \in session'[r].seen \cup session'[r].lines :
                         session'[r].pc \in WithCart /\ rows'[x.row].cart = session'[r].cart
                /\ session'[r].pc = "delete" =>
                         rows'[session'[r].row].cart = session'[r].cart
                /\ session'[r].pc \in {"load", "select", "read"} => session'[r].lines = {}
<1>0. /\ session \in [Requests -> SessionRecords] /\ session[r] \in SessionRecords
      /\ RequestOK(session[r], carts, rows)
  BY DEF InHand
<1>a. /\ \A x \in session[r].seen \cup session[r].lines :
            session[r].pc \in WithCart /\ rows[x.row].cart = session[r].cart
               /\ x.row \in Rows /\ rows[x.row] # None
      /\ session[r].pc \in {"load", "select", "read"} => session[r].lines = {}
  BY <1>0 DEF Placed, RequestOK, SessionRecords, Loaded, Priced
<1>b. Answer(r) => Q
  BY <1>0 DEF Answer, Go, Free
<1>1. CASE session'[r] = session[r]
  <2>1. \A x \in session[r].seen \cup session[r].lines : rows'[x.row].cart = session[r].cart
    BY <1>a, RowsPlaced
  <2>2. session[r].pc = "delete" => rows'[session[r].row].cart = session[r].cart
    BY <1>0, RowsPlaced DEF RequestOK, Placed
  <2> QED
    BY <1>1, <1>a, <2>1, <2>2
<1>2. CASE session'[r].seen = {} /\ session'[r].lines = {} /\ session'[r].pc \in {"idle", "find"}
  BY <1>2
<1>3. CASE /\ session[r].pc \notin WithCart /\ session'[r].pc \in {"load", "create", "refind"}
           /\ session'[r].seen = session[r].seen /\ session'[r].lines = session[r].lines
  <2>1. session'[r].seen = {} /\ session'[r].lines = {}
    BY <1>3, <1>a
  <2> QED
    BY <1>3, <2>1
<1>4. ASSUME NEW i \in RowsOf(session[r].cart)
      PROVE  /\ Copy(i).row = i /\ Object(r, i).row = i /\ rows[i].cart = session[r].cart
             /\ i \in Rows
  BY <1>0, CopyOK, ObjectOK DEF RowsOf, SessionRecords
<1>5. CASE LoadRows(r) /\ ~Answer(r)
  <2>1. /\ session[r].pc = "load" /\ session'[r].pc \in {"select", "read"}
        /\ session'[r].cart = session[r].cart /\ session'[r].lines = session[r].lines
        /\ session'[r].seen = Snapshot(session[r].cart) /\ UNCHANGED rows
    BY <1>5, NoteSteps
  <2>2. \A x \in Snapshot(session[r].cart) : rows[x.row].cart = session[r].cart
    BY <1>4 DEF Snapshot
  <2> QED
    BY <1>a, <2>1, <2>2 DEF WithCart
<1>6. CASE SelectVariant(r) /\ ~Answer(r)
  BY <1>a, <1>4, <1>6, NoteVariant DEF WithCart, SameVariant
<1>7. CASE SelectRow(r) /\ ~Answer(r)
  BY <1>a, <1>4, <1>7, NoteSteps DEF WithCart
<1>8. CASE ReadItems(r) /\ ~Answer(r)
  <2>1. /\ session[r].pc = "read" /\ session'[r].pc = "verify"
        /\ session'[r].cart = session[r].cart /\ session'[r].lines = session[r].lines
        /\ session'[r].seen = {Object(r, i) : i \in RowsOf(session[r].cart)}
        /\ UNCHANGED rows
    BY <1>8, NoteSteps
  <2> QED
    BY <1>a, <1>4, <2>1 DEF WithCart
<1>9. ASSUME NEW x \in session[r].seen, VerifyItem(r, x)
      PROVE  Q
  <2>1. PICK y \in Priced :
             /\ session[r].pc = "verify" /\ session'[r].pc = "verify" /\ UNCHANGED rows
             /\ session'[r].cart = session[r].cart /\ session'[r].seen = session[r].seen \ {x}
             /\ session'[r].lines = session[r].lines \cup {y}
             /\ y.row = x.row
    BY <1>9, NoteItem
  <2> QED
    BY <1>a, <2>1 DEF WithCart
<1> QED
  BY <1>b, <1>1, <1>2, <1>3, <1>5, <1>6, <1>7, <1>8, <1>9, Noted DEF Notes

\* A customer's own requests are the only ones that write in the customer's cart.
LEMMA OwnCart ==
    ASSUME Tables, InHand, Alone, Claimed, NEW r \in Requests, NEW q \in Requests, q # r,
           session[r].pc \in WithCart, session[q].pc \in {"write", "delete"}
    PROVE  session[q].cart # session[r].cart
<1>1. session[q].user # session[r].user
  BY DEF Alone, WithCart
<1>2. /\ ActiveCart(session[r].cart, session[r].user)
      /\ ActiveCart(session[q].cart, session[q].user)
  BY DEF Claimed, WithCart
<1> QED
  BY <1>1, <1>2 DEF ActiveCart

\* The session's objects are the rows as long as nothing came between.
LEMMA ObjectIsCopy ==
    ASSUME Tables, NEW r \in Requests, NEW c, session[r].seen = Snapshot(c), NEW i \in RowsOf(c)
    PROVE  Object(r, i) = Copy(i)
<1>1. \A j \in RowsOf(c) : Copy(j).row = j
  BY CopyOK
<1>2. Copy(i) \in session[r].seen /\ Copy(i).row = i
  BY <1>1 DEF Snapshot
<1>3. \A x \in session[r].seen : x.row = i => x = Copy(i)
  BY <1>1 DEF Snapshot
<1> DEFINE y == CHOOSE x \in session[r].seen : x.row = i
<1>4. y \in session[r].seen /\ y.row = i
  BY <1>2
<1>5. Object(r, i) = y
  BY <1>2 DEF Object
<1> QED
  BY <1>3, <1>4, <1>5

LEMMA FreshKept ==
    ASSUME Tables, InHand, Placed, Alone, Claimed, Fresh, [Next]_vars
    PROVE  Fresh'
<1> SUFFICES ASSUME NEW r \in Requests, NEW c \in Carts, session'[r].cart = c
             PROVE  /\ session'[r].pc = "read" => session'[r].seen = Snapshot(c)'
                    /\ session'[r].pc = "verify" =>
                         session'[r].seen \cup Stripped(session'[r].lines) = Snapshot(c)'
  BY DEF Fresh, Stripped
<1> DEFINE Q == /\ session'[r].pc = "read" => session'[r].seen = Snapshot(c)'
                /\ session'[r].pc = "verify" =>
                     session'[r].seen \cup Stripped(session'[r].lines) = Snapshot(c)'
<1>0. /\ session \in [Requests -> SessionRecords] /\ session[r] \in SessionRecords
      /\ RequestOK(session[r], carts, rows)
  BY DEF InHand
<1>a. Answer(r) => Q
  BY <1>0 DEF Answer, Go, Free
<1>b. UNCHANGED rows => Snapshot(c)' = Snapshot(c)
  BY DEF Snapshot, RowsOf, Copy
<1>1. CASE session'[r] = session[r]
  <2>1. ASSUME session[r].pc \in {"read", "verify"}
        PROVE  Snapshot(c)' = Snapshot(c)
    <3>1. \A q \in Requests : session[q].pc \in {"write", "delete"} => session[q].cart # c
      BY <1>1, <2>1, OwnCart DEF WithCart
    <3> QED
      BY <3>1, SnapshotKept
  <2> QED
    BY <1>1, <2>1 DEF Fresh
<1>2. CASE LoadRows(r) /\ ~Answer(r)
  BY <1>2, <1>b, NoteSteps
<1>3. CASE ReadItems(r) /\ ~Answer(r)
  <2>1. /\ session[r].pc = "read" /\ session'[r].pc = "verify"
        /\ session[r].cart = c /\ session'[r].lines = session[r].lines
        /\ session'[r].seen = {Object(r, i) : i \in RowsOf(c)}
        /\ UNCHANGED rows
    BY <1>3, NoteSteps
  <2>2. session[r].seen = Snapshot(c) /\ session[r].lines = {}
    BY <2>1 DEF Fresh, Placed
  <2>3. \A i \in RowsOf(c) : Object(r, i) = Copy(i)
    BY <2>2, ObjectIsCopy
  <2>4. session'[r].seen = Snapshot(c)
    BY <2>1, <2>3 DEF Snapshot
  <2>5. Stripped(session'[r].lines) = {}
    BY <2>1, <2>2 DEF Stripped
  <2> QED
    BY <1>b, <2>1, <2>4, <2>5
<1>4. ASSUME NEW x \in session[r].seen, VerifyItem(r, x)
      PROVE  Q
  <2>1. PICK y \in Priced :
             /\ session[r].pc = "verify" /\ session'[r].pc = "verify" /\ UNCHANGED rows
             /\ session'[r].cart = session[r].cart /\ session'[r].seen = session[r].seen \ {x}
             /\ session'[r].lines = session[r].lines \cup {y}
             /\ y.row = x.row /\ y.variant = x.variant /\ y.quantity = x.quantity
    BY <1>4, NoteItem
  <2>2. x = [row |-> y.row, variant |-> y.variant, quantity |-> y.quantity]
    BY <1>0, <2>1 DEF SessionRecords, Loaded
  <2>3. Stripped(session'[r].lines) = Stripped(session[r].lines) \cup {x}
    BY <2>1, <2>2 DEF Stripped
  <2>4. session[r].seen \cup Stripped(session[r].lines) = Snapshot(c)
    BY <2>1 DEF Fresh
  <2>5. session'[r].seen \cup Stripped(session'[r].lines) = Snapshot(c)
    BY <2>1, <2>3, <2>4
  <2> QED
    BY <1>b, <2>1, <2>5
<1>5. CASE session'[r].pc \notin {"read", "verify"}
  BY <1>5
<1>6. /\ SelectRow(r) /\ ~Answer(r) => session'[r].pc = "delete"
      /\ SelectVariant(r) /\ ~Answer(r) => session'[r].pc = "write"
  BY NoteSteps, NoteVariant
<1> QED
  BY <1>a, <1>1, <1>2, <1>3, <1>4, <1>5, <1>6, Noted DEF Notes

\* What such a customer is billed is the cart: no row is missing, added or half
\* counted, though checkout reads the rows in two statements.
THEOREM OrderEqualsCart == ASSUME Serial = TRUE PROVE Spec => []OrderIsCart
<1> DEFINE Sold == \A n \in Orders, c \in Carts : orders[n] # None /\ orders[n].cart = c =>
                      Stripped(orders[n].lines) = Snapshot(c)
<1>1. Init => Placed /\ Fresh /\ Sold
  BY DEF Init, Free, Placed, Fresh
<1>2. SInv /\ Placed /\ Fresh /\ Sold /\ [Next]_vars => Placed' /\ Fresh' /\ Sold'
  <2> SUFFICES ASSUME SInv, Placed, Fresh, Sold, [Next]_vars
               PROVE  Placed' /\ Fresh' /\ Sold'
    OBVIOUS
  <2>0. Tables /\ InHand /\ CheckedOutMeansOrdered /\ Alone /\ Claimed
    BY DEF SInv, CInv
  <2>1. Placed' /\ Fresh'
    BY <2>0, PlacedKept, FreshKept
  <2>2. ASSUME NEW n \in Orders, NEW c \in Carts, orders'[n] # None, orders'[n].cart = c
        PROVE  Stripped(orders'[n].lines) = Snapshot(c)'
    <3>1. CASE orders'[n] = orders[n]
      <4>1. carts[c] # None /\ carts[c].status = "checked_out"
        BY <2>0, <2>2, <3>1 DEF CheckedOutMeansOrdered
      <4>2. \A q \in Requests : session[q].pc \in {"write", "delete"} => session[q].cart # c
        <5>1. ASSUME NEW q \in Requests, session[q].pc \in {"write", "delete"}
              PROVE  carts[session[q].cart].status = "active"
          <6>1. session[q].pc \in WithCart
            BY <5>1 DEF WithCart
          <6>2. ActiveCart(session[q].cart, session[q].user)
            BY <2>0, <6>1 DEF Claimed
          <6>3. carts[session[q].cart] = [user |-> session[q].user, status |-> "active"]
            BY <6>2 DEF ActiveCart
          <6> QED
            BY <6>3
        <5> QED
          BY <4>1, <5>1
      <4>3. Snapshot(c)' = Snapshot(c)
        BY <2>0, <4>2, SnapshotKept
      <4> QED
        BY <2>2, <3>1, <4>3
    <3>2. ASSUME NEW r \in Requests, CommitCheckout(r), orders'[n] # orders[n]
          PROVE  Stripped(orders'[n].lines) = Snapshot(c)'
      <4>1. PICK m \in Orders, d \in Carts, order \in OrderRecords : Ordered(r, m, d, order)
        BY <2>0, <3>2, Commits
      <4>2. m = n /\ orders'[n] = order /\ d = c
        <5>1. orders' = [orders EXCEPT ![m] = order] /\ order.cart = d
          BY <4>1 DEF Ordered
        <5> QED
          BY <2>0, <2>2, <3>2, <5>1 DEF Tables
      <4>3. Stripped(session[r].lines) = Snapshot(c)
        <5>1. session[r].pc = "verify" /\ session[r].cart = c /\ session[r].seen = {}
          BY <4>1, <4>2 DEF Ordered
        <5>2. session[r].seen \cup Stripped(session[r].lines) = Snapshot(c)
          BY <5>1 DEF Fresh
        <5> QED
          BY <5>1, <5>2
      <4>4. Snapshot(c)' = Snapshot(c)
        BY <3>2 DEF CommitCheckout, Snapshot, RowsOf, Copy
      <4> QED
        BY <4>1, <4>2, <4>3, <4>4 DEF Ordered
    <3> QED
      BY <3>1, <3>2, Writers
  <2>3. Sold'
    BY <2>2 DEF Stripped
  <2> QED
    BY <2>1, <2>3
<1>3. SInv /\ Sold => OrderIsCart
  BY DEF SInv, CInv, Tables, OrderRecords, OrderIsCart, Stripped, Snapshot
<1> QED
  BY <1>1, <1>2, <1>3, SInvAlways, PTL DEF Spec
==============================================================================
