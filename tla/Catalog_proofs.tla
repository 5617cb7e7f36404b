---------------------------- MODULE Catalog_proofs ----------------------------
(***************************************************************************)
(* The catalogue for all ids, names and numbers of requests: references    *)
(* hold, and the tables implement the abstract menu.  First what a request *)
(* in hand may rely on, then how each table may change, and from these the *)
(* properties.                                                             *)
(***************************************************************************)
EXTENDS Catalog, TLAPS

USE DEF Fields

ProductKinds == {"update_product", "delete_product", "get_product"}

\* What a request in hand relies on: its locals are of its kind, a product not
\* yet committed has no row, and one that was loaded had one.
RequestOK(s, P) ==
    /\ s \in SessionRecords
    /\ s.pc = "flushed" =>
         s.kind = "create_product" /\ s.id \in Products /\ s.ask \in Inserts /\ P[s.id] = None
    /\ s.pc = "variants" => s.kind \in ProductKinds
    /\ s.pc \in {"variants", "commit"} /\ s.kind \in ProductKinds =>
         s.id \in Products /\ P[s.id] # None /\ s.seen \in ProductRecords
    /\ s.pc \in {"variants", "commit"} /\ s.kind = "update_product" => s.ask \in Patches
    /\ s.pc = "commit" /\ s.kind = "update_category" =>
         s.id \in Categories /\ s.ask \in Names
    /\ s.pc = "children" => s.kind = "delete_category"
    /\ s.pc \in {"children", "commit"} /\ s.kind = "delete_category" => s.id \in Categories

\* Two products not yet committed are two products.
Apart == \A q, r \in Requests :
    session[q].pc = "flushed" /\ session[r].pc = "flushed" /\ session[q].id = session[r].id
        => q = r

Tables == /\ categories \in [Categories -> Names \cup {None, Gone}]
          /\ products \in [Products -> ProductRecords \cup {None, Gone}]
          /\ variants \in [Products -> SUBSET Variants]

InHand == /\ session \in [Requests -> SessionRecords]
          /\ \A r \in Requests : RequestOK(session[r], products)
          /\ Apart

\* Variants belong to a product that is there; a DELETE has loaded all of them.
Orphans == \A p \in Products : ~HasProduct(p) => variants[p] = {}
Loaded == \A r \in Requests :
    session[r].pc = "commit" /\ session[r].kind = "delete_product" =>
        variants[session[r].id] \subseteq session[r].loaded

CInv == Tables /\ InHand /\ Orphans /\ Loaded /\ CatalogIntact

-----------------------------------------------------------------------------
(* How the tables change.                                                   *)

\* A product: added by the request that flushed it, patched, or deleted.
ProductAdded(p) ==
    \E r \in Requests :
        /\ session[r].pc = "flushed" /\ session[r].id = p
        /\ session' = [session EXCEPT ![r] = Free]
        /\ SizesDiffer(session[r].ask.variants)
        /\ products' = [products EXCEPT ![p] = [category |-> session[r].ask.category,
                                                available |-> session[r].ask.available]]
        /\ variants' = [variants EXCEPT ![p] = session[r].ask.variants]
        /\ UNCHANGED categories

ProductPatched(p) ==
    \E r \in Requests :
        /\ session[r].pc = "commit" /\ session[r].kind = "update_product" /\ session[r].id = p
        /\ HasProduct(p) /\ CanUpdate(session[r])
        /\ session' = [session EXCEPT ![r] = [session[r] EXCEPT !.pc = "reply"]]
        /\ products' = [products EXCEPT ![p] = PatchedRow(session[r])]
        /\ UNCHANGED <<variants, categories>>

ProductDeleted(p) ==
    \E r \in Requests :
        /\ session[r].pc = "commit" /\ session[r].kind = "delete_product" /\ session[r].id = p
        /\ session' = [session EXCEPT ![r] = Free]
        /\ products' = [products EXCEPT ![p] = Gone]
        /\ variants' = [variants EXCEPT ![p] = @ \ session[r].loaded]
        /\ UNCHANGED categories

ProductChange ==
    \/ UNCHANGED <<products, variants>>
    \/ \E p \in Products : ProductAdded(p) \/ ProductPatched(p) \/ ProductDeleted(p)

LEMMA ProductChanges ==
    ASSUME InHand, [Next]_vars
    PROVE  ProductChange
<1>1. ASSUME NEW r \in Requests, CommitProduct(r)
      PROVE  ProductChange
  <2>1. session[r].id \in Products
    BY <1>1 DEF CommitProduct, InHand, RequestOK
  <2> QED
    BY <1>1, <2>1 DEF CommitProduct, End, Go, ProductChange, ProductAdded
<1>2. ASSUME NEW r \in Requests, UpdateProduct(r)
      PROVE  ProductChange
  <2>1. session[r].id \in Products
    BY <1>2 DEF UpdateProduct, InHand, RequestOK, ProductKinds
  <2> QED
    BY <1>2, <2>1 DEF UpdateProduct, Go, ProductChange, ProductPatched
<1>3. ASSUME NEW r \in Requests, DeleteProduct(r)
      PROVE  ProductChange
  <2>1. session[r].id \in Products
    BY <1>3 DEF DeleteProduct, InHand, RequestOK, ProductKinds
  <2> QED
    BY <1>3, <2>1 DEF DeleteProduct, End, Go, ProductChange, ProductDeleted
<1>4. ASSUME ~ \E r \in Requests : CommitProduct(r) \/ UpdateProduct(r) \/ DeleteProduct(r)
      PROVE  UNCHANGED <<products, variants>>
  BY <1>4 DEF Next, Step, CreateCategory, GetCategory, FlushProduct, GetProduct,
              ProductNotFound, RequestStep, UpdateCategory, LoadChildren, DeleteCategory,
              LoadVariants, Reply, AbortRequest, tables, vars
<1> QED
  BY <1>1, <1>2, <1>3, <1>4 DEF ProductChange

\* What a PATCH makes of a row is a row.
LEMMA PatchedIsRow ==
    ASSUME NEW s, s.ask \in Patches, products[s.id] \in ProductRecords
    PROVE  PatchedRow(s) \in ProductRecords
BY DEF PatchedRow, Changed, Patches, ProductRecords

LEMMA TablesKept ==
    ASSUME Tables, InHand, [Next]_vars
    PROVE  Tables'
<1>1. categories' \in [Categories -> Names \cup {None, Gone}]
  <2>1. ASSUME NEW r \in Requests, UpdateCategory(r)
        PROVE  categories' \in [Categories -> Names \cup {None, Gone}]
    <3>1. session[r].ask \in Names
      BY <2>1 DEF UpdateCategory, InHand, RequestOK
    <3> QED
      BY <2>1, <3>1 DEF UpdateCategory, Tables
  <2>2. ASSUME NEW c \in Categories, NEW n \in Names, CreateCategory(c, n)
        PROVE  categories' \in [Categories -> Names \cup {None, Gone}]
    BY <2>2 DEF CreateCategory, Tables
  <2>3. ASSUME NEW r \in Requests, DeleteCategory(r)
        PROVE  categories' \in [Categories -> Names \cup {None, Gone}]
    BY <2>3 DEF DeleteCategory, Tables
  <2>4. CASE UNCHANGED categories
    BY <2>4 DEF Tables
  <2> QED
    BY <2>1, <2>2, <2>3, <2>4
    DEF Next, Step, GetCategory, FlushProduct, GetProduct, ProductNotFound, RequestStep,
        LoadChildren, CommitProduct, LoadVariants, UpdateProduct, DeleteProduct, Reply,
        AbortRequest, tables, vars
<1>2. products' \in [Products -> ProductRecords \cup {None, Gone}]
      /\ variants' \in [Products -> SUBSET Variants]
  <2>1. CASE UNCHANGED <<products, variants>>
    BY <2>1 DEF Tables
  <2>2. ASSUME NEW p \in Products, ProductAdded(p)
        PROVE  products' \in [Products -> ProductRecords \cup {None, Gone}]
               /\ variants' \in [Products -> SUBSET Variants]
    BY <2>2 DEF ProductAdded, Tables, InHand, RequestOK, Inserts, ProductRecords
  <2>3. ASSUME NEW p \in Products, ProductPatched(p)
        PROVE  products' \in [Products -> ProductRecords \cup {None, Gone}]
               /\ variants' \in [Products -> SUBSET Variants]
    <3>1. PICK r \in Requests :
             /\ session[r].pc = "commit" /\ session[r].kind = "update_product"
             /\ session[r].id = p /\ HasProduct(p)
             /\ products' = [products EXCEPT ![p] = PatchedRow(session[r])]
             /\ UNCHANGED variants
      BY <2>3 DEF ProductPatched
    <3>2. products[p] \in ProductRecords /\ session[r].ask \in Patches
      BY <3>1 DEF HasProduct, Tables, InHand, RequestOK
    <3>3. PatchedRow(session[r]) \in ProductRecords
      BY <3>1, <3>2, PatchedIsRow
    <3> QED
      BY <3>1, <3>3 DEF Tables
  <2>4. ASSUME NEW p \in Products, ProductDeleted(p)
        PROVE  products' \in [Products -> ProductRecords \cup {None, Gone}]
               /\ variants' \in [Products -> SUBSET Variants]
    BY <2>4 DEF ProductDeleted, Tables
  <2> QED
    BY <2>1, <2>2, <2>3, <2>4, ProductChanges DEF ProductChange
<1> QED
  BY <1>1, <1>2 DEF Tables
-----------------------------------------------------------------------------
(* The requests in hand.                                                    *)

\* No row is taken back to None, and only the request that flushed a product adds it.
LEMMA ProductsStay ==
    ASSUME CatalogAssumption, Tables, InHand, [Next]_vars, NEW p \in Products
    PROVE  /\ products[p] # None => products'[p] # None
           /\ products[p] = None /\ products'[p] # None => ProductAdded(p)
<1>0. products'[p] # products[p] => ProductAdded(p) \/ ProductPatched(p) \/ ProductDeleted(p)
  <2>1. ASSUME NEW q \in Products, q # p,
               ProductAdded(q) \/ ProductPatched(q) \/ ProductDeleted(q)
        PROVE  products'[p] = products[p]
    BY <2>1 DEF ProductAdded, ProductPatched, ProductDeleted, Tables
  <2> QED
    BY <2>1, ProductChanges DEF ProductChange
<1>1. CASE ProductAdded(p)
  <2>1. \E c \in Categories, b \in BOOLEAN : products'[p] = [category |-> c, available |-> b]
    BY <1>1 DEF ProductAdded, Tables, InHand, RequestOK, Inserts
  <2>2. products'[p] \in ProductRecords
    BY <2>1 DEF ProductRecords
  <2> QED
    BY <1>1, <2>2 DEF CatalogAssumption, ProductRecords
<1>2. CASE ProductPatched(p)
  <2>1. products[p] # None /\ products'[p] \in ProductRecords
    BY <1>2, PatchedIsRow DEF ProductPatched, Tables, InHand, RequestOK, HasProduct
  <2> QED
    BY <2>1 DEF CatalogAssumption, ProductRecords
<1>3. CASE ProductDeleted(p)
  <2>1. products[p] # None /\ products'[p] = Gone
    BY <1>3 DEF ProductDeleted, Tables, InHand, RequestOK, ProductKinds
  <2> QED
    BY <2>1 DEF CatalogAssumption
<1> QED
  BY <1>0, <1>1, <1>2, <1>3

\* A request that does not step keeps what it relies on.
LEMMA OthersInHand ==
    ASSUME CatalogAssumption, Tables, InHand, [Next]_vars, NEW r \in Requests,
           session'[r] = session[r]
    PROVE  RequestOK(session'[r], products')
<1>1. RequestOK(session[r], products)
  BY DEF InHand
<1>2. ASSUME session[r].pc = "flushed"
      PROVE  products'[session[r].id] = None
  <2> DEFINE p == session[r].id
  <2>1. p \in Products /\ products[p] = None
    BY <1>1, <1>2 DEF RequestOK
  <2>2. ASSUME ProductAdded(p)
        PROVE  FALSE
    <3>1. PICK q \in Requests : /\ session[q].pc = "flushed" /\ session[q].id = p
                                /\ session' = [session EXCEPT ![q] = Free]
      BY <2>2 DEF ProductAdded
    <3>2. q = r
      BY <1>2, <3>1 DEF InHand, Apart
    <3> QED
      BY <1>2, <3>1, <3>2 DEF Free, InHand
  <2> HIDE DEF p
  <2>3. products'[p] = None
    BY <2>1, <2>2, ProductsStay
  <2> QED
    BY <2>3 DEF p
<1>3. session[r].pc \in {"variants", "commit"} /\ session[r].kind \in ProductKinds
        => products'[session[r].id] # None
  BY <1>1, ProductsStay DEF RequestOK
<1> QED
  BY <1>1, <1>2, <1>3 DEF RequestOK

LEMMA FreeOK == \A P : RequestOK(Free, P)
BY DEF RequestOK, Free, SessionRecords, Steps, Kinds

LEMMA InHandKept ==
    ASSUME CatalogAssumption, Tables, InHand, [Next]_vars
    PROVE  InHand'
<1> USE DEF Steps, Kinds, ProductKinds
<1>0. session \in [Requests -> SessionRecords] /\ \A r \in Requests : RequestOK(session[r], products)
  BY DEF InHand
<1>a. ASSUME NEW r \in Requests, NEW s, session' = [session EXCEPT ![r] = s],
             RequestOK(s, products'),
             s.pc = "flushed" =>
               \A q \in Requests : session[q].pc = "flushed" => session[q].id # s.id
      PROVE  InHand'
  <2>1. session' \in [Requests -> SessionRecords] /\ session'[r] = s
    BY <1>0, <1>a DEF RequestOK
  <2>2. \A q \in Requests : q # r => session'[q] = session[q]
    BY <1>0, <1>a
  <2>3. \A q \in Requests : RequestOK(session'[q], products')
    BY <1>a, <2>1, <2>2, OthersInHand
  <2>4. Apart'
    BY <1>a, <2>1, <2>2 DEF InHand, Apart
  <2> QED
    BY <2>1, <2>3, <2>4 DEF InHand
<1>b. CASE UNCHANGED session
  BY <1>0, <1>b, OthersInHand DEF InHand, Apart
<1>1. ASSUME NEW r \in Requests, End(r)
      PROVE  InHand'
  <2>1. session' = [session EXCEPT ![r] = Free] /\ Free.pc # "flushed"
    BY <1>1 DEF End, Go, Free
  <2> QED
    BY <1>a, <2>1, FreeOK
<1>2. ASSUME NEW r \in Requests, NEW kind \in Kinds, NEW c \in Categories, NEW n \in Names,
             GetCategory(r, kind, c, n)
      PROVE  InHand'
  <2>1. CASE kind = "update_category"
    <3> DEFINE s == [Free EXCEPT !.pc = "commit", !.kind = kind, !.id = c, !.ask = n,
                                 !.seen = categories[c]]
    <3>1. session' = [session EXCEPT ![r] = s]
      BY <1>2, <2>1 DEF GetCategory, Go
    <3>2. categories[c] \in Names
      BY <1>2 DEF GetCategory, HasCategory
    <3>3. s \in SessionRecords /\ s.pc = "commit" /\ s.kind = kind /\ s.id = c /\ s.ask = n
      BY <3>2 DEF Free, SessionRecords
    <3> HIDE DEF s
    <3>4. RequestOK(s, products') /\ s.pc # "flushed"
      BY <2>1, <3>3 DEF RequestOK
    <3> QED
      BY <1>a, <3>1, <3>4
  <2>2. CASE kind = "delete_category"
    <3> DEFINE s == [Free EXCEPT !.pc = "children", !.kind = kind, !.id = c]
    <3>1. session' = [session EXCEPT ![r] = s]
      BY <1>2, <2>2 DEF GetCategory, Go
    <3>2. s \in SessionRecords /\ s.pc = "children" /\ s.kind = kind /\ s.id = c
      BY DEF Free, SessionRecords
    <3> HIDE DEF s
    <3>3. RequestOK(s, products') /\ s.pc # "flushed"
      BY <2>2, <3>2 DEF RequestOK
    <3> QED
      BY <1>a, <3>1, <3>3
  <2> QED
    BY <1>2, <2>1, <2>2 DEF GetCategory
<1>3. ASSUME NEW r \in Requests, NEW p \in Products, NEW ask \in Inserts,
             FlushProduct(r, p, ask)
      PROVE  InHand'
  <2> DEFINE s == [Free EXCEPT !.pc = "flushed", !.kind = "create_product", !.id = p,
                               !.ask = ask]
  <2>1. /\ session' = [session EXCEPT ![r] = s]
        /\ products' = products /\ products[p] = None
        /\ \A q \in Requests : session[q].pc = "flushed" => session[q].id # p
    BY <1>3 DEF FlushProduct, Go, tables
  <2>2. /\ s \in SessionRecords /\ s.pc = "flushed" /\ s.kind = "create_product"
        /\ s.id = p /\ s.ask = ask
    BY DEF Free, SessionRecords
  <2> HIDE DEF s
  <2>3. RequestOK(s, products') /\ s.id = p
    BY <2>1, <2>2 DEF RequestOK
  <2> QED
    BY <1>a, <2>1, <2>3
<1>4. ASSUME NEW r \in Requests, NEW kind \in Kinds, NEW p \in Products, NEW ask \in Patches,
             GetProduct(r, kind, p, ask)
      PROVE  InHand'
  <2> DEFINE a == IF kind = "update_product" THEN ask ELSE None
             s == [Free EXCEPT !.pc = "variants", !.kind = kind, !.id = p, !.ask = a,
                               !.seen = products[p]]
  <2>1. /\ session' = [session EXCEPT ![r] = s] /\ kind \in ProductKinds
        /\ products' = products /\ products[p] # None /\ products[p] \in ProductRecords
    BY <1>4 DEF GetProduct, Go, tables, HasProduct, Tables
  <2>2. a \in Patches \cup {None} /\ (kind = "update_product" => a \in Patches)
    OBVIOUS
  <2> HIDE DEF a
  <2>3. /\ s \in SessionRecords /\ s.pc = "variants" /\ s.kind = kind
        /\ s.id = p /\ s.ask = a /\ s.seen = products[p]
    BY <2>1, <2>2 DEF Free, SessionRecords
  <2> HIDE DEF s
  <2>4. RequestOK(s, products') /\ s.pc # "flushed"
    BY <2>1, <2>2, <2>3 DEF RequestOK
  <2> QED
    BY <1>a, <2>1, <2>4
<1>5. ASSUME NEW r \in Requests, NEW p \in Products, ProductNotFound(r, p)
      PROVE  InHand'
  <2> DEFINE s == [Free EXCEPT !.pc = "reply", !.id = p, !.seen = products[p]]
  <2>1. session' = [session EXCEPT ![r] = s] /\ products[p] \in {None, Gone}
    BY <1>5 DEF ProductNotFound, Go, HasProduct
  <2>2. s \in SessionRecords /\ s.pc = "reply"
    BY <2>1 DEF Free, SessionRecords
  <2> HIDE DEF s
  <2>3. RequestOK(s, products') /\ s.pc # "flushed"
    BY <2>2 DEF RequestOK
  <2> QED
    BY <1>a, <2>1, <2>3
<1>6. ASSUME NEW r \in Requests, LoadVariants(r)
      PROVE  InHand'
  <2> DEFINE pc == IF session[r].kind = "get_product" THEN "reply" ELSE "commit"
             V == LoadedVariants(session[r].id)
             s == [session[r] EXCEPT !.loaded = V, !.pc = pc]
  <2>1. session' = [session EXCEPT ![r] = s] /\ UNCHANGED products /\ session[r].pc = "variants"
    BY <1>6 DEF LoadVariants, Go, tables
  <2>2. session[r].id \in Products /\ session[r].kind \in ProductKinds
    BY <1>0, <2>1 DEF RequestOK
  <2>3. V \in SUBSET Variants
    BY <2>2 DEF LoadedVariants, Tables
  <2>4. pc \in {"reply", "commit"} /\ (session[r].kind = "get_product" => pc = "reply")
    OBVIOUS
  <2> HIDE DEF pc, V
  <2>5. /\ s \in SessionRecords /\ s.pc = pc /\ s.kind = session[r].kind
        /\ s.id = session[r].id /\ s.ask = session[r].ask /\ s.seen = session[r].seen
    BY <1>0, <2>3, <2>4 DEF SessionRecords
  <2> HIDE DEF s
  <2>6. RequestOK(s, products') /\ s.pc # "flushed"
    BY <1>0, <2>1, <2>2, <2>4, <2>5 DEF RequestOK
  <2> QED
    BY <1>a, <2>1, <2>6
<1>7. ASSUME NEW r \in Requests, NEW pc \in {"commit", "reply"},
             session' = [session EXCEPT ![r] = [session[r] EXCEPT !.pc = pc]],
             session[r].pc \in {"children", "commit"},
             pc = "commit" => session[r].pc = "children"
      PROVE  InHand'
  <2> DEFINE s == [session[r] EXCEPT !.pc = pc]
  <2>1. /\ s \in SessionRecords /\ s.pc = pc /\ s.kind = session[r].kind
        /\ s.id = session[r].id
    BY <1>0 DEF SessionRecords
  <2>2. session' = [session EXCEPT ![r] = s]
    BY <1>7
  <2> HIDE DEF s
  <2>3. RequestOK(s, products') /\ s.pc # "flushed"
    BY <1>0, <1>7, <2>1 DEF RequestOK
  <2> QED
    BY <1>a, <2>2, <2>3
<1>8. ASSUME NEW r \in Requests,
             UpdateCategory(r) \/ LoadChildren(r) \/ DeleteCategory(r) \/ CommitProduct(r)
               \/ UpdateProduct(r) \/ DeleteProduct(r) \/ Reply(r) \/ AbortRequest(r)
      PROVE  InHand'
  BY <1>1, <1>7, <1>8 DEF UpdateCategory, LoadChildren, DeleteCategory, CommitProduct,
     UpdateProduct, DeleteProduct, Reply, AbortRequest, Go
<1> QED
  BY <1>b, <1>2, <1>3, <1>4, <1>5, <1>6, <1>8 DEF Next, Step, CreateCategory, RequestStep, vars
-----------------------------------------------------------------------------
(* Variants and references.                                                 *)

\* A step of request r.
Acts(r) ==
    \/ \E kind \in Kinds, c \in Categories, n \in Names : GetCategory(r, kind, c, n)
    \/ \E p \in Products, ask \in Inserts : FlushProduct(r, p, ask)
    \/ \E kind \in Kinds, p \in Products, ask \in Patches : GetProduct(r, kind, p, ask)
    \/ \E p \in Products : ProductNotFound(r, p)
    \/ RequestStep(r)

LEMMA Moves ==
    ASSUME InHand, [Next]_vars, NEW r \in Requests
    PROVE  session'[r] = session[r] \/ Acts(r)
<1>1. ASSUME NEW q \in Requests, q # r, Acts(q)
      PROVE  session'[r] = session[r]
  <2>1. \E s : session' = [session EXCEPT ![q] = s]
    BY <1>1, Zenon DEF Acts, GetCategory, FlushProduct, GetProduct, ProductNotFound, RequestStep,
       UpdateCategory, LoadChildren, DeleteCategory, CommitProduct, LoadVariants,
       UpdateProduct, DeleteProduct, Reply, AbortRequest, Go, End
  <2> QED
    BY <1>1, <2>1 DEF InHand
<1> QED
  BY <1>1 DEF Next, Step, Acts, CreateCategory, vars

LEMMA LoadedKept ==
    ASSUME CatalogAssumption, Tables, InHand, Loaded, [Next]_vars
    PROVE  Loaded'
<1> SUFFICES ASSUME NEW r \in Requests,
                    session'[r].pc = "commit", session'[r].kind = "delete_product"
             PROVE  variants'[session'[r].id] \subseteq session'[r].loaded
  BY DEF Loaded
<1>0. session \in [Requests -> SessionRecords]
  BY DEF InHand
<1>1. ASSUME session'[r] = session[r]
      PROVE  variants'[session'[r].id] \subseteq session'[r].loaded
  <2> DEFINE p == session[r].id
  <2>1. p \in Products /\ products[p] # None /\ variants[p] \subseteq session[r].loaded
    BY <1>1 DEF InHand, RequestOK, ProductKinds, Loaded
  <2>2. ~ProductAdded(p)
    BY <2>1 DEF ProductAdded, InHand, RequestOK
  <2> HIDE DEF p
  <2>3. variants'[p] \subseteq variants[p]
    <3>1. ASSUME NEW q \in Products, q # p, ProductAdded(q) \/ ProductDeleted(q)
          PROVE  variants'[p] = variants[p]
      BY <2>1, <3>1 DEF ProductAdded, ProductDeleted, Tables
    <3>2. ProductDeleted(p) => variants'[p] \subseteq variants[p]
      BY <2>1 DEF ProductDeleted, Tables
    <3>3. ASSUME NEW q \in Products, ProductPatched(q)
          PROVE  variants'[p] = variants[p]
      BY <3>3 DEF ProductPatched
    <3> QED
      BY <2>2, <3>1, <3>2, <3>3, ProductChanges DEF ProductChange
  <2> QED
    BY <1>1, <2>1, <2>3 DEF p
<1>2. CASE LoadVariants(r)
  <2> DEFINE V == LoadedVariants(session[r].id)
             pc == IF session[r].kind = "get_product" THEN "reply" ELSE "commit"
  <2>1. /\ session' = [session EXCEPT ![r] = [session[r] EXCEPT !.loaded = V, !.pc = pc]]
        /\ UNCHANGED variants
    BY <1>2 DEF LoadVariants, Go, tables
  <2>2. V = variants[session[r].id]
    BY DEF LoadedVariants
  <2> HIDE DEF V, pc
  <2>3. session'[r].loaded = V /\ session'[r].id = session[r].id
    BY <1>0, <2>1 DEF SessionRecords
  <2> QED
    BY <2>1, <2>2, <2>3
<1>3. ASSUME LoadChildren(r)
      PROVE  FALSE
  <2>1. session[r].kind = "delete_category" /\ session[r] \in SessionRecords
    BY <1>0, <1>3 DEF LoadChildren, InHand, RequestOK
  <2>2. session'[r] \in {Free, [session[r] EXCEPT !.pc = "commit"]}
    BY <1>0, <1>3 DEF LoadChildren, Go, End
  <2>3. session'[r].kind # "delete_product"
    BY <2>1, <2>2 DEF Free, SessionRecords
  <2> QED
    BY <2>3
<1>4. ASSUME End(r) \/ Go(r, [session[r] EXCEPT !.pc = "reply"])
      PROVE  FALSE
  <2>1. session'[r] \in {Free, [session[r] EXCEPT !.pc = "reply"]}
    BY <1>0, <1>4 DEF Go, End
  <2>2. Free.pc = "idle" /\ [session[r] EXCEPT !.pc = "reply"].pc = "reply"
    BY <1>0 DEF Free, SessionRecords
  <2> QED
    BY <2>1, <2>2
<1>5. ASSUME NEW kind \in Kinds, NEW c \in Categories, NEW n \in Names,
             GetCategory(r, kind, c, n)
      PROVE  FALSE
  <2>1. session'[r].kind \in {"update_category", "delete_category"}
    BY <1>0, <1>5 DEF GetCategory, Go, Free
  <2> QED
    BY <2>1
<1>6. ASSUME NEW p \in Products, NEW ask, FlushProduct(r, p, ask)
      PROVE  FALSE
  BY <1>0, <1>6 DEF FlushProduct, Go, Free
<1>7. ASSUME NEW kind, NEW p \in Products, NEW ask, GetProduct(r, kind, p, ask)
      PROVE  FALSE
  BY <1>0, <1>7 DEF GetProduct, Go, Free
<1>8. ASSUME NEW p \in Products, ProductNotFound(r, p)
      PROVE  FALSE
  BY <1>0, <1>8 DEF ProductNotFound, Go, Free
<1> QED
  BY <1>1, <1>2, <1>3, <1>4, <1>5, <1>6, <1>7, <1>8, Moves
  DEF Acts, RequestStep, UpdateCategory, DeleteCategory, CommitProduct, UpdateProduct,
      DeleteProduct, Reply, AbortRequest

LEMMA OrphansKept ==
    ASSUME CatalogAssumption, Tables, InHand, Loaded, Orphans, [Next]_vars
    PROVE  Orphans'
<1> SUFFICES ASSUME NEW p \in Products, ~HasProduct(p)'
             PROVE  variants'[p] = {}
  BY DEF Orphans
<1>1. CASE UNCHANGED <<products, variants>>
  BY <1>1 DEF Orphans, HasProduct
<1>2. ASSUME NEW q \in Products, q # p,
             ProductAdded(q) \/ ProductPatched(q) \/ ProductDeleted(q)
      PROVE  variants'[p] = {}
  BY <1>2 DEF ProductAdded, ProductPatched, ProductDeleted, Tables, Orphans, HasProduct
<1>3. ASSUME ProductAdded(p)
      PROVE  FALSE
  <2>1. \E c \in Categories, b \in BOOLEAN : products'[p] = [category |-> c, available |-> b]
    BY <1>3 DEF ProductAdded, Tables, InHand, RequestOK, Inserts
  <2> QED
    BY <2>1 DEF HasProduct, CatalogAssumption
<1>4. ASSUME ProductPatched(p)
      PROVE  FALSE
  <2>1. products'[p] \in ProductRecords
    BY <1>4, PatchedIsRow DEF ProductPatched, Tables, InHand, RequestOK, HasProduct
  <2> QED
    BY <2>1 DEF HasProduct, CatalogAssumption, ProductRecords
<1>5. CASE ProductDeleted(p)
  BY <1>5 DEF ProductDeleted, Loaded, Tables
<1> QED
  BY <1>1, <1>2, <1>3, <1>4, <1>5, ProductChanges DEF ProductChange

\* What a category is after a step: as it was, unless its own row is written.
LEMMA CategoriesStay ==
    ASSUME CatalogAssumption, Tables, InHand, CatalogIntact, [Next]_vars,
           NEW c \in Categories, HasCategory(c),
           ~HasCategory(c)'
    PROVE  ProductsOf(c) = {} /\ ~Held(c) /\ UNCHANGED <<products, variants>>
           /\ \E r \in Requests : End(r)
<1>1. ASSUME NEW r \in Requests, UpdateCategory(r)
      PROVE  FALSE
  <2>1. session[r].ask \in Names
    BY <1>1 DEF UpdateCategory, InHand, RequestOK
  <2> QED
    BY <1>1, <2>1 DEF UpdateCategory, HasCategory, Tables
<1>2. ASSUME NEW d \in Categories, NEW n \in Names, CreateCategory(d, n)
      PROVE  FALSE
  BY <1>2 DEF CreateCategory, HasCategory, Tables
<1>3. ASSUME NEW r \in Requests, DeleteCategory(r)
      PROVE  ProductsOf(c) = {} /\ ~Held(c) /\ UNCHANGED <<products, variants>> /\ End(r)
  <2>1. session[r].id = c
    BY <1>3 DEF DeleteCategory, HasCategory, Tables
  <2> QED
    BY <1>3, <2>1 DEF DeleteCategory, HasCategory, Referenced
<1>4. ~UNCHANGED categories
  BY DEF HasCategory
<1> QED
  BY <1>1, <1>2, <1>3, <1>4
    DEF Next, Step, GetCategory, FlushProduct, GetProduct, ProductNotFound, RequestStep,
        LoadChildren, CommitProduct, LoadVariants, UpdateProduct, DeleteProduct, Reply,
        AbortRequest, tables, vars
\* A step of a request in hand never leaves it flushed.
LEMMA FlushedBefore ==
    ASSUME InHand, [Next]_vars, NEW r \in Requests, session'[r].pc = "flushed"
    PROVE  \/ session'[r] = session[r]
           \/ \E p \in Products, ask \in Inserts : FlushProduct(r, p, ask)
<1>0. session \in [Requests -> SessionRecords]
  BY DEF InHand
<1>1. ASSUME End(r) \/ \E pc \in {"reply", "commit"} : Go(r, [session[r] EXCEPT !.pc = pc])
      PROVE  FALSE
  <2>1. \/ session'[r] = Free
        \/ \E pc \in {"reply", "commit"} : session'[r] = [session[r] EXCEPT !.pc = pc]
    BY <1>0, <1>1 DEF Go, End
  <2>2. /\ Free.pc = "idle"
        /\ \A pc \in {"reply", "commit"} : [session[r] EXCEPT !.pc = pc].pc = pc
    BY <1>0 DEF Free, SessionRecords
  <2> QED
    BY <2>1, <2>2
<1>2. ASSUME NEW kind \in Kinds, NEW c \in Categories, NEW n \in Names,
             GetCategory(r, kind, c, n)
      PROVE  FALSE
  <2>1. session'[r].pc \in {"commit", "children"}
    BY <1>0, <1>2 DEF GetCategory, Go, Free
  <2> QED
    BY <2>1
<1>3. ASSUME NEW kind, NEW p \in Products, NEW ask, GetProduct(r, kind, p, ask)
      PROVE  FALSE
  BY <1>0, <1>3 DEF GetProduct, Go, Free
<1>4. ASSUME NEW p \in Products, ProductNotFound(r, p)
      PROVE  FALSE
  BY <1>0, <1>4 DEF ProductNotFound, Go, Free
<1>5. ASSUME LoadVariants(r)
      PROVE  FALSE
  <2>1. session'[r].pc \in {"reply", "commit"}
    BY <1>0, <1>5 DEF LoadVariants, Go, SessionRecords
  <2> QED
    BY <2>1
<1> QED
  BY <1>1, <1>2, <1>3, <1>4, <1>5, Moves
  DEF Acts, RequestStep, UpdateCategory, LoadChildren, DeleteCategory, CommitProduct,
      UpdateProduct, DeleteProduct, Reply, AbortRequest

LEMMA IntactKept ==
    ASSUME CatalogAssumption, Tables, InHand, CatalogIntact, [Next]_vars
    PROVE  CatalogIntact'
<1>1. ASSUME NEW p \in Products, HasProduct(p)'
      PROVE  HasCategory(products[p].category)'
  <2>1. CASE products'[p] = products[p]
    <3>1. HasProduct(p) /\ products[p] \in ProductRecords
      BY <1>1, <2>1 DEF HasProduct, Tables
    <3>2. PICK c \in Categories : c = products[p].category
      BY <3>1 DEF ProductRecords
    <3>3. HasCategory(c) /\ p \in ProductsOf(c)
      BY <3>1, <3>2 DEF CatalogIntact, ProductsOf
    <3>4. HasCategory(c)'
      BY <3>3, CategoriesStay
    <3> QED
      BY <2>1, <3>2, <3>4 DEF HasCategory
  <2>2. CASE ProductAdded(p)
    <3>1. PICK r \in Requests :
             /\ session[r].pc = "flushed" /\ UNCHANGED categories
             /\ products' = [products EXCEPT ![p] = [category |-> session[r].ask.category,
                                                available |-> session[r].ask.available]]
      BY <2>2 DEF ProductAdded
    <3>2. products'[p].category = session[r].ask.category
      BY <3>1 DEF Tables
    <3> QED
      BY <3>1, <3>2 DEF CatalogIntact, HasCategory
  <2>3. CASE ProductPatched(p)
    <3>1. PICK r \in Requests :
             /\ session[r].pc = "commit" /\ session[r].kind = "update_product"
             /\ session[r].id = p /\ HasProduct(p) /\ CanUpdate(session[r])
             /\ products' = [products EXCEPT ![p] = PatchedRow(session[r])]
             /\ UNCHANGED categories
      BY <2>3 DEF ProductPatched
    <3>2. products'[p].category = IF "category" \in Changed(session[r])
                                    THEN session[r].ask.category ELSE products[p].category
      BY <3>1 DEF PatchedRow, Tables
    <3>3. "category" \in Changed(session[r]) => HasCategory(session[r].ask.category)
      BY <3>1 DEF CanUpdate
    <3>4. HasCategory(products[p].category)
      BY <3>1 DEF CatalogIntact
    <3> QED
      BY <3>1, <3>2, <3>3, <3>4 DEF HasCategory
  <2>4. ASSUME ProductDeleted(p)
        PROVE  FALSE
    BY <1>1, <2>4 DEF ProductDeleted, HasProduct, Tables
  <2>5. ASSUME NEW q \in Products, q # p,
               ProductAdded(q) \/ ProductPatched(q) \/ ProductDeleted(q)
        PROVE  products'[p] = products[p]
    BY <2>5 DEF ProductAdded, ProductPatched, ProductDeleted, Tables
  <2> QED
    BY <2>1, <2>2, <2>3, <2>4, <2>5, ProductChanges DEF ProductChange
<1>2. ASSUME NEW r \in Requests, session'[r].pc = "flushed"
      PROVE  HasCategory(session[r].ask.category)'
  <2>1. CASE session'[r] = session[r]
    <3>1. PICK c \in Categories : c = session[r].ask.category
      BY <1>2, <2>1 DEF InHand, RequestOK, Inserts
    <3>2. HasCategory(c) /\ Held(c)
      BY <1>2, <2>1, <3>1 DEF CatalogIntact, Held
    <3>3. HasCategory(c)'
      BY <3>2, CategoriesStay
    <3> QED
      BY <2>1, <3>1, <3>3 DEF HasCategory
  <2>2. ASSUME NEW p \in Products, NEW ask \in Inserts, FlushProduct(r, p, ask)
        PROVE  HasCategory(session[r].ask.category)'
    <3>1. session'[r].ask = ask /\ HasCategory(ask.category) /\ UNCHANGED categories
      BY <2>2 DEF FlushProduct, Go, Free, InHand, tables
    <3> QED
      BY <3>1 DEF HasCategory
  <2> QED
    BY <1>2, <2>1, <2>2, FlushedBefore
<1>3. ASSUME NEW c \in Categories, NEW d \in Categories,
             HasCategory(c)', categories'[c] = categories'[d]
      PROVE  c = d
  <2>1. CASE UNCHANGED categories
    BY <1>3, <2>1 DEF CatalogIntact, HasCategory
  <2>2. ASSUME NEW e \in Categories, NEW n \in Names, ~NameTaken(n, e),
               categories' = [categories EXCEPT ![e] = n]
        PROVE  c = d
    BY <1>3, <2>2 DEF CatalogIntact, HasCategory, NameTaken, Tables
  <2>3. ASSUME NEW r \in Requests, UpdateCategory(r)
        PROVE  c = d
    <3>1. session[r].id \in Categories /\ session[r].ask \in Names
      BY <2>3 DEF UpdateCategory, InHand, RequestOK
    <3> QED
      BY <2>1, <2>2, <2>3, <3>1 DEF UpdateCategory, CanRename
  <2>4. ASSUME NEW r \in Requests, DeleteCategory(r)
        PROVE  c = d
    <3>1. session[r].id \in Categories
      BY <2>4 DEF DeleteCategory, InHand, RequestOK
    <3> QED
      BY <1>3, <2>1, <2>4, <3>1 DEF DeleteCategory, CatalogIntact, HasCategory, Tables,
                                    CatalogAssumption
  <2>5. ASSUME NEW e \in Categories, NEW n \in Names, CreateCategory(e, n)
        PROVE  c = d
    BY <2>2, <2>5 DEF CreateCategory
  <2> QED
    BY <2>1, <2>3, <2>4, <2>5
    DEF Next, Step, GetCategory, FlushProduct, GetProduct, ProductNotFound, RequestStep,
        LoadChildren, CommitProduct, LoadVariants, UpdateProduct, DeleteProduct, Reply,
        AbortRequest, tables, vars
<1> QED
  BY <1>1, <1>2, <1>3 DEF CatalogIntact

LEMMA CInvAlways == Spec => []CInv
<1>1. Init => CInv
  <2> SUFFICES ASSUME Init PROVE CInv
    OBVIOUS
  <2>1. Tables
    BY DEF Init, Tables
  <2>2. session = [r \in Requests |-> Free] /\ RequestOK(Free, products)
    BY FreeOK DEF Init
  <2>3. InHand
    BY <2>2 DEF InHand, RequestOK, Apart, Free
  <2>4. Orphans
    BY DEF Init, Orphans
  <2>5. Loaded
    BY <2>2 DEF Free, Loaded
  <2>6. CatalogIntact
    BY <2>2, CatalogAssumption
    DEF Init, Free, CatalogIntact, HasProduct, HasCategory, CatalogAssumption
  <2> QED
    BY <2>1, <2>3, <2>4, <2>5, <2>6 DEF CInv
<1>2. CInv /\ [Next]_vars => CInv'
  BY CatalogAssumption, TablesKept, InHandKept, OrphansKept, LoadedKept, IntactKept DEF CInv
<1> QED
  BY <1>1, <1>2, PTL DEF Spec

\* A product always has its category and no two categories share a name, whatever
\* staff do at the same time (products.category_id, categories.name).
THEOREM References == Spec => []CatalogIntact
<1>1. CInv => CatalogIntact
  BY DEF CInv
<1> QED
  BY <1>1, CInvAlways, PTL

-----------------------------------------------------------------------------
(* What a PATCH may change.                                                 *)

\* "a field omitted from the request body is left alone", however many PATCHes
\* work on old rows of one product (product_service.update_product).
THEOREM FieldsKept == Spec => OmittedFieldsKept
<1> DEFINE Kept == \A p \in Products, f \in Fields :
         HasProduct(p) /\ HasProduct(p)' /\ products'[p][f] # products[p][f] =>
           \E r \in Requests :
             /\ session[r].pc = "commit" /\ session[r].kind = "update_product"
             /\ session[r].id = p /\ session[r].ask[f] = products'[p][f]
<1>1. ASSUME CInv, [Next]_vars
      PROVE  [Kept]_vars
  <2> SUFFICES ASSUME NEW p \in Products, NEW f \in Fields, HasProduct(p), HasProduct(p)',
                      products'[p][f] # products[p][f]
               PROVE  \E r \in Requests :
                        /\ session[r].pc = "commit" /\ session[r].kind = "update_product"
                        /\ session[r].id = p /\ session[r].ask[f] = products'[p][f]
    OBVIOUS
  <2>1. ProductPatched(p)
    <3>1. Tables /\ InHand
      BY <1>1 DEF CInv
    <3>2. ASSUME NEW q \in Products, q # p,
                 ProductAdded(q) \/ ProductPatched(q) \/ ProductDeleted(q)
          PROVE  products'[p] = products[p]
      BY <3>1, <3>2 DEF ProductAdded, ProductPatched, ProductDeleted, Tables
    <3>3. ~ProductAdded(p)
      BY <3>1 DEF ProductAdded, InHand, RequestOK, HasProduct
    <3>4. ~ProductDeleted(p)
      BY <3>1 DEF ProductDeleted, HasProduct, Tables
    <3> QED
      BY <1>1, <3>1, <3>2, <3>3, <3>4, ProductChanges DEF ProductChange
  <2>2. PICK r \in Requests :
           /\ session[r].pc = "commit" /\ session[r].kind = "update_product"
           /\ session[r].id = p
           /\ products' = [products EXCEPT ![p] = PatchedRow(session[r])]
    BY <2>1 DEF ProductPatched
  <2>3. products'[p][f] = IF f \in Changed(session[r]) THEN session[r].ask[f]
                          ELSE products[p][f]
    BY <1>1, <2>2 DEF PatchedRow, CInv, Tables
  <2> QED
    BY <2>2, <2>3
<1>2. CInv /\ [Next]_vars => [Kept]_vars
  BY <1>1
<1> QED
  BY <1>2, CInvAlways, PTL DEF Spec, OmittedFieldsKept

-----------------------------------------------------------------------------
(* The abstract menu.                                                       *)

LEMMA MenuInit ==
    ASSUME Init
    PROVE  MenuSpec!Init
<1>1. menuOf = [p \in Products |-> [state |-> "none", sizes |-> {}]]
  BY DEF Init, menuOf
<1> QED
  BY <1>1 DEF MenuSpec!Init

LEMMA MenuOfRow ==
    ASSUME CatalogAssumption, Tables, NEW p \in Products
    PROVE  /\ menuOf[p].sizes = variants[p]
           /\ products[p] = None => menuOf[p].state = "none"
           /\ products[p] = Gone => menuOf[p].state = "gone"
           /\ HasProduct(p) => menuOf[p].state \in {"on", "off"}
BY DEF menuOf, HasProduct, CatalogAssumption

\* Where row and variants stay, the menu does.
LEMMA MenuElsewhere ==
    ASSUME NEW p \in Products, NEW state, NEW V,
           \A q \in Products : q # p =>
               products'[q] = products[q] /\ variants'[q] = variants[q],
           menuOf'[p] = [state |-> state, sizes |-> V]
    PROVE  menuOf' = [menuOf EXCEPT ![p] = [state |-> state, sizes |-> V]]
<1>1. \A q \in Products : q # p => menuOf'[q] = menuOf[q]
  BY DEF menuOf
<1>2. /\ menuOf' = [q \in Products |-> menuOf'[q]]
      /\ menuOf = [q \in Products |-> menuOf[q]]
  BY DEF menuOf
<1> HIDE DEF menuOf
<1> QED
  BY <1>1, <1>2
\* Every step of the tables is a step of the menu or invisible there.
LEMMA MenuStep ==
    ASSUME CatalogAssumption, CInv, [Next]_vars
    PROVE  [MenuSpec!Next]_menuOf
<1>0. Tables /\ InHand /\ Tables' /\ InHand' /\ Orphans
  BY TablesKept, InHandKept DEF CInv
<1>1. CASE UNCHANGED <<products, variants>>
  BY <1>1 DEF menuOf
<1>2. ASSUME NEW p \in Products, ProductAdded(p)
      PROVE  MenuSpec!Next
  <2>1. PICK r \in Requests :
           /\ session[r].pc = "flushed" /\ session[r].id = p
           /\ SizesDiffer(session[r].ask.variants)
           /\ products' = [products EXCEPT ![p] = [category |-> session[r].ask.category,
                                                available |-> session[r].ask.available]]
           /\ variants' = [variants EXCEPT ![p] = session[r].ask.variants]
    BY <1>2 DEF ProductAdded
  <2>2. PICK V \in SUBSET Variants : V = session[r].ask.variants
    BY <1>0, <2>1 DEF InHand, RequestOK, Inserts
  <2>3. PICK row \in ProductRecords : products' = [products EXCEPT ![p] = row]
    <3>1. [category |-> session[r].ask.category, available |-> session[r].ask.available]
             \in ProductRecords
      BY <1>0, <2>1 DEF InHand, RequestOK, Inserts, ProductRecords
    <3> QED
      BY <2>1, <3>1
  <2>4. row # None /\ row # Gone
    BY DEF CatalogAssumption, ProductRecords
  <2>5. PICK state \in {"on", "off"} : state = IF row.available THEN "on" ELSE "off"
    OBVIOUS
  <2>6. menuOf'[p] = [state |-> state, sizes |-> V]
    BY <1>0, <2>1, <2>2, <2>3, <2>4, <2>5 DEF menuOf, Tables
  <2>7. menuOf' = [menuOf EXCEPT ![p] = [state |-> state, sizes |-> V]]
    <3>1. \A q \in Products : q # p =>
             products'[q] = products[q] /\ variants'[q] = variants[q]
      BY <1>0, <2>1 DEF Tables
    <3> QED
      BY <2>6, <3>1, MenuElsewhere
  <2>8. menuOf[p].state = "none"
    BY <1>0, <2>1, MenuOfRow DEF InHand, RequestOK
  <2>9. MenuSpec!OneOfEachSize(V)
    BY <2>1, <2>2 DEF SizesDiffer, MenuSpec!OneOfEachSize
  <2>10. MenuSpec!Add(p, state, V)
    BY <2>7, <2>8, <2>9 DEF MenuSpec!Add
  <2> QED
    BY <2>10 DEF MenuSpec!Next
<1>3. ASSUME NEW p \in Products, ProductPatched(p)
      PROVE  MenuSpec!Next
  <2>1. PICK r \in Requests :
           /\ session[r].pc = "commit" /\ session[r].kind = "update_product"
           /\ session[r].id = p /\ HasProduct(p)
           /\ products' = [products EXCEPT ![p] = PatchedRow(session[r])]
           /\ UNCHANGED variants
    BY <1>3 DEF ProductPatched
  <2>2. PatchedRow(session[r]) \in ProductRecords
    BY <1>0, <2>1, PatchedIsRow DEF Tables, InHand, RequestOK, HasProduct
  <2>3. PICK row \in ProductRecords : products' = [products EXCEPT ![p] = row]
    BY <2>1, <2>2
  <2>4. row # None /\ row # Gone
    BY DEF CatalogAssumption, ProductRecords
  <2>5. PICK state \in {"on", "off"} : state = IF row.available THEN "on" ELSE "off"
    OBVIOUS
  <2>6. menuOf'[p] = [state |-> state, sizes |-> variants[p]]
    BY <1>0, <2>1, <2>3, <2>4, <2>5 DEF menuOf, Tables
  <2>7. menuOf' = [menuOf EXCEPT ![p] = [state |-> state, sizes |-> variants[p]]]
    <3>1. \A q \in Products : q # p =>
             products'[q] = products[q] /\ variants'[q] = variants[q]
      BY <1>0, <2>1 DEF Tables
    <3> QED
      BY <2>6, <3>1, MenuElsewhere
  <2>8. menuOf[p].state \in {"on", "off"}
    BY <1>0, <2>1, MenuOfRow
  <2>9. [menuOf EXCEPT ![p].state = state]
           = [menuOf EXCEPT ![p] = [state |-> state, sizes |-> variants[p]]]
    <3>1. menuOf[p] = [state |-> menuOf[p].state, sizes |-> variants[p]]
      <4>1. CASE products[p].available
        BY <1>0, <2>1, <4>1 DEF menuOf, HasProduct
      <4>2. CASE ~products[p].available
        BY <1>0, <2>1, <4>2 DEF menuOf, HasProduct
      <4> QED
        BY <4>1, <4>2
    <3>2. [menuOf[p] EXCEPT !.state = state] = [state |-> state, sizes |-> variants[p]]
      <4>1. PICK x \in {"on", "off"} : x = menuOf[p].state
        BY <2>8
      <4>2. menuOf[p] = [state |-> x, sizes |-> variants[p]]
        BY <3>1, <4>1
      <4> QED
        BY <4>2
    <3>3. [menuOf EXCEPT ![p].state = state]
             = [menuOf EXCEPT ![p] = [menuOf[p] EXCEPT !.state = state]]
      OBVIOUS
    <3> QED
      BY <3>2, <3>3
  <2>10. MenuSpec!Switch(p, state)
    BY <2>7, <2>8, <2>9 DEF MenuSpec!Switch
  <2> QED
    BY <2>10 DEF MenuSpec!Next
<1>4. ASSUME NEW p \in Products, ProductDeleted(p)
      PROVE  MenuSpec!Next \/ menuOf' = menuOf
  <2>1. products[p] # None /\ products' = [products EXCEPT ![p] = Gone]
    BY <1>0, <1>4 DEF ProductDeleted, InHand, RequestOK, ProductKinds
  <2>2. \A q \in Products : q # p =>
             products'[q] = products[q] /\ variants'[q] = variants[q]
    BY <1>0, <1>4 DEF ProductDeleted, Tables
  <2>3. variants'[p] = {}
    BY <1>0, <1>4 DEF ProductDeleted, Tables, CInv, Loaded
  <2>4. CASE HasProduct(p)
    <3>1. menuOf'[p] = [state |-> "gone", sizes |-> {}]
      BY <1>0, <2>1, <2>3 DEF menuOf, Tables, CatalogAssumption
    <3>2. menuOf' = [menuOf EXCEPT ![p] = [state |-> "gone", sizes |-> {}]]
      BY <2>2, <3>1, MenuElsewhere
    <3>3. MenuSpec!Withdraw(p)
      BY <1>0, <2>4, <3>2, MenuOfRow DEF MenuSpec!Withdraw
    <3> QED
      BY <3>3 DEF MenuSpec!Next
  <2>5. CASE ~HasProduct(p)
    <3>1. products[p] = Gone /\ variants[p] = {}
      BY <1>0, <2>1, <2>5 DEF HasProduct, Orphans
    <3>2. products' = products
      BY <1>0, <2>1, <3>1 DEF Tables
    <3>3. \A q \in Products : variants'[q] = variants[q]
      BY <2>2, <2>3, <3>1
    <3> QED
      BY <3>2, <3>3 DEF menuOf
  <2> QED
    BY <2>4, <2>5
<1> QED
  BY <1>0, <1>1, <1>2, <1>3, <1>4, ProductChanges DEF ProductChange

\* The catalogue implements the menu a checkout relies on, for any number of
\* products and requests: a product appears whole, is switched as a whole, keeps
\* its sizes and never comes back once deleted.
THEOREM Refinement == Spec => ImplementsMenu
<1>1. Init => MenuSpec!Init
  BY MenuInit
<1>2. CInv /\ [Next]_vars => [MenuSpec!Next]_menuOf
  BY CatalogAssumption, MenuStep
<1> QED
  BY <1>1, <1>2, CInvAlways, PTL DEF Spec, ImplementsMenu, MenuSpec!Spec
-----------------------------------------------------------------------------
(* What an answer says.                                                     *)

\* A PATCH in hand: a field it sent with the value loaded has had that value, and
\* once it is to be answered every field it sent has had the value sent.
PatchSeen == \A r \in Requests :
    /\ session[r].kind = "update_category" /\ session[r].pc \in {"commit", "reply"} =>
         (session[r].pc = "reply" \/ session[r].ask = session[r].seen => "name" \in met[r])
    /\ session[r].kind = "update_product" /\ session[r].pc \in {"variants", "commit", "reply"} =>
         \A f \in Fields :
            session[r].ask[f] # Keep
              /\ (session[r].pc = "reply" \/ session[r].ask[f] = session[r].seen[f])
                => f \in met[r]

\* A reader in hand: the row it loaded, with the variants there are now, was on sale.
QuoteSeen == \A r \in Requests : session[r].kind = "get_product" =>
    /\ session[r].pc = "variants" => OnSale(session[r].seen, variants[session[r].id]) \in menus[r]
    /\ session[r].pc = "reply" => session[r].id \in Products /\ Quoted(r) \in menus[r]

Histories == /\ met \in [Requests -> SUBSET (Fields \cup {"name"})]
             /\ menus \in [Requests -> SUBSET SUBSET Variants]

LEMMA Observed ==
    ASSUME Next, NEW r \in Requests, session'[r].pc # "idle"
    PROVE  met'[r] = met[r] \cup MetNow(r)' /\ menus'[r] = menus[r] \cup MenuNow(r)'
<1>1. /\ met' = [q \in Requests |->
                   IF session'[q].pc = "idle" THEN {} ELSE met[q] \cup MetNow(q)']
      /\ menus' = [q \in Requests |->
                     IF session'[q].pc = "idle" THEN {} ELSE menus[q] \cup MenuNow(q)']
  BY DEF Next, Observe
<1> QED
  BY <1>1

\* A step that leaves request r in hand and changes what it has in hand.
InHandStep(r) ==
    \/ \E c \in Categories, n \in Names : GetCategory(r, "update_category", c, n)
    \/ session'[r].kind \in {"create_product", "delete_category"}
    \/ \E kind \in ProductKinds, p \in Products, ask \in Patches : GetProduct(r, kind, p, ask)
    \/ \E p \in Products : ProductNotFound(r, p)
    \/ UpdateCategory(r)
    \/ LoadVariants(r)
    \/ UpdateProduct(r)

LEMMA InHandSteps ==
    ASSUME InHand, [Next]_vars, NEW r \in Requests, session'[r].pc # "idle"
    PROVE  session'[r] = session[r] \/ InHandStep(r)
<1>0. session \in [Requests -> SessionRecords]
  BY DEF InHand
<1>1. ~End(r)
  BY <1>0 DEF End, Go, Free
<1>2. ASSUME NEW kind \in Kinds, NEW c \in Categories, NEW n \in Names,
             GetCategory(r, kind, c, n)
      PROVE  InHandStep(r)
  <2>1. CASE kind = "update_category"
    BY <1>2, <2>1 DEF InHandStep
  <2>2. CASE kind = "delete_category"
    <3>1. session' = [session EXCEPT ![r] =
                        [Free EXCEPT !.pc = "children", !.kind = "delete_category", !.id = c]]
      BY <1>2, <2>2 DEF GetCategory, Go
    <3>2. session'[r].kind = "delete_category"
      BY <1>0, <3>1 DEF Free
    <3> QED
      BY <3>2 DEF InHandStep
  <2> QED
    BY <1>2, <2>1, <2>2 DEF GetCategory
<1>3. ASSUME NEW p \in Products, NEW ask \in Inserts, FlushProduct(r, p, ask)
      PROVE  InHandStep(r)
  BY <1>0, <1>3 DEF FlushProduct, Go, Free, InHandStep
<1>4. ASSUME NEW kind \in Kinds, NEW p \in Products, NEW ask \in Patches,
             GetProduct(r, kind, p, ask)
      PROVE  InHandStep(r)
  BY <1>4 DEF GetProduct, InHandStep, ProductKinds
<1>5. ASSUME LoadChildren(r)
      PROVE  InHandStep(r)
  <2>1. session[r].kind = "delete_category" /\ session[r] \in SessionRecords
    BY <1>0, <1>5 DEF LoadChildren, InHand, RequestOK
  <2>2. session'[r] = [session[r] EXCEPT !.pc = "commit"]
    BY <1>0, <1>1, <1>5 DEF LoadChildren, Go
  <2>3. session'[r].kind = "delete_category"
    BY <2>1, <2>2 DEF SessionRecords
  <2> QED
    BY <2>3 DEF InHandStep
<1>6. DeleteCategory(r) \/ CommitProduct(r) \/ DeleteProduct(r) \/ Reply(r) \/ AbortRequest(r)
        => End(r)
  BY DEF DeleteCategory, CommitProduct, DeleteProduct, Reply, AbortRequest
<1> QED
  BY <1>1, <1>2, <1>3, <1>4, <1>5, <1>6, Moves DEF Acts, RequestStep, InHandStep

LEMMA PatchSeenKept ==
    ASSUME CatalogAssumption, Tables, InHand, PatchSeen, Next
    PROVE  PatchSeen'
<1> DEFINE Named(s, m) == s.kind = "update_category" /\ s.pc \in {"commit", "reply"} =>
                            (s.pc = "reply" \/ s.ask = s.seen => "name" \in m)
           Sent(s, m) ==
               s.kind = "update_product" /\ s.pc \in {"variants", "commit", "reply"} =>
                 \A f \in Fields :
                    s.ask[f] # Keep /\ (s.pc = "reply" \/ s.ask[f] = s.seen[f]) => f \in m
<1> SUFFICES ASSUME NEW r \in Requests, session'[r].pc # "idle"
             PROVE  Named(session'[r], met'[r]) /\ Sent(session'[r], met'[r])
  BY DEF PatchSeen
<1>0. session \in [Requests -> SessionRecords] /\ session[r] \in SessionRecords
      /\ RequestOK(session[r], products)
  BY DEF InHand
<1>a. met'[r] = met[r] \cup MetNow(r)'
  BY Observed
<1>b. Named(session[r], met'[r]) /\ Sent(session[r], met'[r])
  BY <1>a DEF PatchSeen
<1>1. CASE session'[r] = session[r]
  BY <1>b, <1>1
<1>2. ASSUME NEW c \in Categories, NEW n \in Names, GetCategory(r, "update_category", c, n)
      PROVE  Named(session'[r], met'[r]) /\ Sent(session'[r], met'[r])
  <2>1. /\ session'[r].pc = "commit" /\ session'[r].kind = "update_category"
        /\ session'[r].id = c /\ session'[r].ask = n /\ session'[r].seen = categories[c]
        /\ UNCHANGED categories
    BY <1>0, <1>2 DEF GetCategory, Go, Free, tables
  <2>2. categories[c] = n => "name" \in MetNow(r)'
    BY <2>1 DEF MetNow
  <2> QED
    BY <1>a, <2>1, <2>2
<1>3. ASSUME NEW kind \in ProductKinds, NEW p \in Products, NEW ask \in Patches,
             GetProduct(r, kind, p, ask)
      PROVE  Named(session'[r], met'[r]) /\ Sent(session'[r], met'[r])
  <2>1. /\ session'[r].pc = "variants" /\ session'[r].kind = kind /\ session'[r].id = p
        /\ session'[r].seen = products[p]
        /\ kind = "update_product" => session'[r].ask = ask
        /\ HasProduct(p) /\ UNCHANGED products
    BY <1>0, <1>3 DEF GetProduct, Go, Free, tables
  <2>2. HasProduct(p)'
    BY <2>1 DEF HasProduct
  <2>3. ASSUME kind = "update_product", NEW f \in Fields, ask[f] = products[p][f]
        PROVE  f \in MetNow(r)'
    BY <2>1, <2>2, <2>3 DEF MetNow
  <2> QED
    BY <1>a, <2>1, <2>3 DEF ProductKinds
<1>4. ASSUME NEW p \in Products, ProductNotFound(r, p)
      PROVE  Named(session'[r], met'[r]) /\ Sent(session'[r], met'[r])
  BY <1>0, <1>4 DEF ProductNotFound, Go, Free
<1>5. CASE UpdateCategory(r)
  <2>1. CanRename(r) /\ session' = [session EXCEPT ![r] = [session[r] EXCEPT !.pc = "reply"]]
        /\ categories' = IF session[r].ask = session[r].seen THEN categories
                           ELSE [categories EXCEPT ![session[r].id] = session[r].ask]
    BY <1>0, <1>5 DEF UpdateCategory, Go, End, Free
  <2>2. /\ session'[r].pc = "reply" /\ session'[r].kind = "update_category"
        /\ session'[r].id = session[r].id /\ session'[r].ask = session[r].ask
    BY <1>0, <1>5, <2>1 DEF UpdateCategory, SessionRecords
  <2>3. session[r].ask # session[r].seen => "name" \in MetNow(r)'
    BY <1>0, <1>5, <2>1, <2>2 DEF UpdateCategory, MetNow, RequestOK, Tables
  <2>4. session[r].ask = session[r].seen => "name" \in met'[r]
    BY <1>5, <1>b DEF UpdateCategory
  <2> QED
    BY <1>a, <2>2, <2>3, <2>4
<1>6. CASE LoadVariants(r)
  <2>1. /\ session'[r].pc \in {"commit", "reply"} /\ session'[r].kind = session[r].kind
        /\ session'[r].ask = session[r].ask /\ session'[r].seen = session[r].seen
        /\ session[r].kind # "get_product" => session'[r].pc = "commit"
        /\ session[r].pc = "variants"
    BY <1>0, <1>6 DEF LoadVariants, Go, SessionRecords
  <2>2. session[r].kind \in ProductKinds
    BY <1>0, <2>1 DEF RequestOK
  <2> QED
    BY <1>b, <2>1, <2>2 DEF ProductKinds
<1>7. CASE UpdateProduct(r)
  <2> DEFINE s == session[r]
  <2>1. /\ s.pc = "commit" /\ s.kind = "update_product" /\ CanUpdate(s)
        /\ session' = [session EXCEPT ![r] = [s EXCEPT !.pc = "reply"]]
        /\ products' = IF HasProduct(s.id) /\ Changed(s) # {}
                         THEN [products EXCEPT ![s.id] = PatchedRow(s)] ELSE products
    BY <1>0, <1>7 DEF UpdateProduct, Go, End, Free
  <2>2. /\ session'[r].pc = "reply" /\ session'[r].kind = "update_product"
        /\ session'[r].id = s.id /\ session'[r].ask = s.ask
    BY <1>0, <2>1 DEF SessionRecords
  <2>3. s.id \in Products /\ s.ask \in Patches
    BY <1>0, <2>1 DEF RequestOK, ProductKinds
  <2>4. ASSUME NEW f \in Fields, f \in Changed(s)
        PROVE  f \in MetNow(r)'
    <3>1. HasProduct(s.id) /\ products' = [products EXCEPT ![s.id] = PatchedRow(s)]
      BY <2>1, <2>4 DEF CanUpdate
    <3>2. products[s.id] \in ProductRecords
      BY <2>3, <3>1 DEF Tables, HasProduct
    <3>3. PatchedRow(s) \in ProductRecords
      BY <2>3, <3>2, PatchedIsRow
    <3>4. products'[s.id] = PatchedRow(s)
      BY <2>3, <3>1 DEF Tables
    <3>5. products'[s.id] \notin {None, Gone}
      BY <3>3, <3>4 DEF CatalogAssumption, ProductRecords
    <3>6. products'[s.id][f] = s.ask[f]
      BY <2>4, <3>4 DEF PatchedRow
    <3> QED
      BY <2>2, <3>5, <3>6 DEF MetNow, HasProduct
  <2>5. ASSUME NEW f \in Fields, s.ask[f] # Keep, f \notin Changed(s)
        PROVE  f \in met'[r]
    BY <1>b, <2>1, <2>5 DEF Changed
  <2> QED
    BY <1>a, <2>2, <2>4, <2>5
<1> QED
  BY <1>1, <1>2, <1>3, <1>4, <1>5, <1>6, <1>7, InHandSteps DEF InHandStep
LEMMA OnSaleTyped ==
    ASSUME NEW row, NEW V \in SUBSET Variants
    PROVE  OnSale(row, V) \subseteq Variants
BY DEF OnSale

LEMMA QuoteSeenKept ==
    ASSUME CatalogAssumption, Tables, InHand, Loaded, Orphans, QuoteSeen, Next
    PROVE  QuoteSeen'
<1> SUFFICES ASSUME NEW r \in Requests, session'[r].pc \in {"variants", "reply"},
                    session'[r].kind = "get_product"
             PROVE  /\ session'[r].pc = "variants" =>
                         OnSale(session'[r].seen, variants'[session'[r].id]) \in menus'[r]
                    /\ session'[r].pc = "reply" =>
                         session'[r].id \in Products
                         /\ OnSale(session'[r].seen, session'[r].loaded) \in menus'[r]
  BY DEF QuoteSeen, Quoted
<1>0. session \in [Requests -> SessionRecords] /\ session[r] \in SessionRecords
      /\ RequestOK(session[r], products)
  BY DEF InHand
<1>a. menus'[r] = menus[r] \cup {OnSale(products'[session'[r].id], variants'[session'[r].id])}
  BY Observed DEF MenuNow
<1>1. CASE session'[r] = session[r] /\ session'[r].pc = "variants"
  <2>1. session[r].id \in Products
    BY <1>0, <1>1 DEF RequestOK, ProductKinds
  <2>2. PICK p \in Products : p = session[r].id
    BY <2>1
  <2>3. CASE variants'[p] = variants[p]
    BY <1>1, <1>a, <2>2, <2>3 DEF QuoteSeen
  <2>4. CASE ProductDeleted(p)
    <3>1. products'[p] = Gone
      BY <2>4 DEF ProductDeleted, Tables
    <3>2. variants'[p] = {}
      BY <3>1, OrphansKept DEF Orphans, HasProduct
    <3>3. OnSale(products'[p], variants'[p]) = {} /\ OnSale(session[r].seen, variants'[p]) = {}
      BY <3>1, <3>2 DEF OnSale
    <3> QED
      BY <1>1, <1>a, <2>2, <3>3
  <2>5. ~ProductAdded(p)
    BY <1>0, <1>1, <2>2 DEF ProductAdded, InHand, RequestOK, ProductKinds
  <2>6. ASSUME NEW q \in Products, q # p,
               ProductAdded(q) \/ ProductPatched(q) \/ ProductDeleted(q)
        PROVE  variants'[p] = variants[p]
    BY <2>6 DEF ProductAdded, ProductPatched, ProductDeleted, Tables
  <2>7. ProductPatched(p) => variants'[p] = variants[p]
    BY DEF ProductPatched
  <2> QED
    BY <2>3, <2>4, <2>5, <2>6, <2>7, ProductChanges DEF ProductChange
<1>2. CASE session'[r] = session[r] /\ session'[r].pc = "reply"
  BY <1>2, <1>a DEF QuoteSeen, Quoted
<1>3. ASSUME NEW kind \in ProductKinds, NEW p \in Products, NEW ask \in Patches,
             GetProduct(r, kind, p, ask)
      PROVE  session'[r].pc = "variants"
             /\ OnSale(session'[r].seen, variants'[session'[r].id]) \in menus'[r]
  <2>1. /\ session'[r].pc = "variants" /\ session'[r].id = p
        /\ session'[r].seen = products[p] /\ UNCHANGED products
    BY <1>0, <1>3 DEF GetProduct, Go, Free, tables
  <2> QED
    BY <1>a, <2>1
<1>4. ASSUME NEW p \in Products, ProductNotFound(r, p)
      PROVE  /\ session'[r].pc = "reply" /\ session'[r].id \in Products
             /\ OnSale(session'[r].seen, session'[r].loaded) \in menus'[r]
  <2>1. /\ session'[r].pc = "reply" /\ session'[r].id = p /\ ~HasProduct(p)
        /\ session'[r].seen = products[p] /\ UNCHANGED products
    BY <1>0, <1>4 DEF ProductNotFound, Go, Free, tables
  <2>2. \A V : OnSale(products[p], V) = {}
    BY <2>1 DEF OnSale, HasProduct
  <2> QED
    BY <1>a, <2>1, <2>2
<1>5. CASE LoadVariants(r)
  <2>1. /\ session[r].pc = "variants"
        /\ session'[r].kind = session[r].kind /\ session'[r].id = session[r].id
        /\ session'[r].seen = session[r].seen
        /\ session[r].kind = "get_product" => session'[r].pc = "reply"
        /\ session'[r].loaded = variants[session[r].id]
    BY <1>0, <1>5 DEF LoadVariants, LoadedVariants, Go, SessionRecords
  <2>2. session[r].id \in Products
    BY <1>0, <2>1 DEF RequestOK, ProductKinds
  <2> QED
    BY <1>a, <2>1, <2>2 DEF QuoteSeen
<1>6. ASSUME NEW c \in Categories, NEW n \in Names, GetCategory(r, "update_category", c, n)
      PROVE  FALSE
  BY <1>0, <1>6 DEF GetCategory, Go, Free
<1>7. ASSUME UpdateCategory(r) \/ UpdateProduct(r)
      PROVE  FALSE
  <2>1. session'[r] = Free \/ session'[r] = [session[r] EXCEPT !.pc = "reply"]
    BY <1>0, <1>7 DEF UpdateCategory, UpdateProduct, Go, End
  <2>2. Free.pc = "idle" /\ [session[r] EXCEPT !.pc = "reply"].kind = session[r].kind
    BY <1>0 DEF Free, SessionRecords
  <2> QED
    BY <1>7, <2>1, <2>2 DEF UpdateCategory, UpdateProduct
<1> QED
  BY <1>1, <1>2, <1>3, <1>4, <1>5, <1>6, <1>7, InHandSteps DEF InHandStep

LEMMA HistoriesKept ==
    ASSUME Tables', InHand', QuoteSeen', Histories, Next
    PROVE  Histories'
<1>1. ASSUME NEW r \in Requests
      PROVE  MetNow(r)' \subseteq Fields \cup {"name"}
  BY DEF MetNow
<1>2. ASSUME NEW r \in Requests
      PROVE  MenuNow(r)' \subseteq SUBSET Variants
  <2>1. CASE session'[r].pc # "idle" /\ session'[r].kind = "get_product"
    <3>1. RequestOK(session'[r], products')
      BY DEF InHand
    <3>2. session'[r].id \in Products
      BY <2>1, <3>1 DEF QuoteSeen, RequestOK, ProductKinds, SessionRecords, Steps
    <3>3. variants'[session'[r].id] \in SUBSET Variants
      BY <3>2 DEF Tables
    <3> QED
      BY <2>1, <3>3, OnSaleTyped DEF MenuNow
  <2>2. CASE ~(session'[r].pc # "idle" /\ session'[r].kind = "get_product")
    BY <2>2 DEF MenuNow
  <2> QED
    BY <2>1, <2>2
<1>3. /\ met' = [q \in Requests |->
                   IF session'[q].pc = "idle" THEN {} ELSE met[q] \cup MetNow(q)']
      /\ menus' = [q \in Requests |->
                     IF session'[q].pc = "idle" THEN {} ELSE menus[q] \cup MenuNow(q)']
  BY DEF Next, Observe
<1> QED
  BY <1>1, <1>2, <1>3 DEF Histories

HInv == CInv /\ PatchSeen /\ QuoteSeen /\ Histories

LEMMA HInvAlways == Spec => []HInv
<1>1. Init => PatchSeen /\ QuoteSeen /\ Histories
  BY DEF Init, Free, PatchSeen, QuoteSeen, Histories
<1>2. CInv /\ CInv' /\ PatchSeen /\ QuoteSeen /\ Histories /\ [Next]_vars
        => PatchSeen' /\ QuoteSeen' /\ Histories'
  <2> SUFFICES ASSUME CInv, CInv', PatchSeen, QuoteSeen, Histories, [Next]_vars
               PROVE  PatchSeen' /\ QuoteSeen' /\ Histories'
    OBVIOUS
  <2>1. CASE Next
    BY <2>1, CatalogAssumption, PatchSeenKept, QuoteSeenKept, HistoriesKept DEF CInv
  <2>2. CASE UNCHANGED vars
    BY <2>2 DEF vars, PatchSeen, QuoteSeen, Quoted, Histories
  <2> QED
    BY <2>1, <2>2
<1> QED
  BY <1>1, <1>2, CInvAlways, PTL DEF Spec, HInv

\* A PATCH answered with success was true at some moment (update_category,
\* update_product), whatever ran beside it.
THEOREM PatchAnswers == Spec => []AnsweredPatchHeld
<1>1. HInv => AnsweredPatchHeld
  BY DEF HInv, PatchSeen, AnsweredPatchHeld
<1> QED
  BY <1>1, HInvAlways, PTL

\* What a checkout takes from get_product was on sale together at some moment,
\* though row and variants are read in two statements.
THEOREM Quotes == Spec => []QuoteWasLive
<1>1. HInv => QuoteWasLive
  BY DEF HInv, QuoteSeen, QuoteWasLive
<1> QED
  BY <1>1, HInvAlways, PTL

\* The tables and the requests have their types.
THEOREM TypeCorrect == Spec => []TypeOK
<1>1. HInv => TypeOK
  BY DEF HInv, CInv, Tables, InHand, Histories, TypeOK
<1> QED
  BY <1>1, HInvAlways, PTL
==============================================================================
