------------------------------- MODULE Catalog -------------------------------
(***************************************************************************)
(* product-service: the tables categories, products and product_variants   *)
(* and the requests on them.  A request has a session of its own (READ     *)
(* COMMITTED) and gives way at every statement it awaits; PATCH and DELETE *)
(* first load the row and act on the loaded object later.  A category is   *)
(* its name, a variant its size and whether it is on sale: prices and      *)
(* texts decide nothing here.  get_product is also what a checkout calls.  *)
(***************************************************************************)
EXTENDS Naturals

CONSTANTS
    Categories,  \* bound: category ids
    Products,    \* bound: product ids
    Names,       \* category names
    Sizes,       \* small, medium, large
    Requests,    \* bound: requests in hand at one time
    None,        \* no row yet, no value
    Gone,        \* a deleted row; ids are UUIDs, never used again
    Keep         \* a field a PATCH leaves out

ASSUME CatalogAssumption ==
    /\ None # Gone
    /\ {None, Gone} \cap Names = {}
    /\ {None, Gone, Keep} \cap Categories = {}
    /\ Keep \notin BOOLEAN
    /\ {None, Gone} \cap [category : Categories, available : BOOLEAN] = {}

VARIABLES
    categories,  \* categories[c]: name of the row
    products,    \* products[p]: category and availability of the row
    variants,    \* variants[p]: rows with product_id p
    session,     \* session[r]: the request r in hand
    met,         \* history: fields of PATCH r that had the value sent, since r began
    menus        \* history: what product r asks for had on sale, since r began

tables == <<categories, products, variants>>
vars == <<categories, products, variants, session, met, menus>>

Variants == [size : Sizes, on : BOOLEAN]
ProductRecords == [category : Categories, available : BOOLEAN]
Patches == [category : Categories \cup {Keep}, available : BOOLEAN \cup {Keep}]
Inserts == [category : Categories, available : BOOLEAN, variants : SUBSET Variants]
Fields == {"category", "available"}

Kinds == {"update_category", "delete_category", "create_product", "update_product",
          "delete_product", "get_product"}
Steps == {"idle", "children", "variants", "flushed", "commit", "reply"}

SessionRecords ==
    [pc : Steps, kind : Kinds, id : Categories \cup Products \cup {None},
     ask : Names \cup Inserts \cup Patches \cup {None},
     seen : Names \cup ProductRecords \cup {None, Gone}, loaded : SUBSET Variants]

Free == [pc |-> "idle", kind |-> "get_product", id |-> None, ask |-> None,
         seen |-> None, loaded |-> {}]

Init ==
    /\ categories = [c \in Categories |-> None]
    /\ products = [p \in Products |-> None]
    /\ variants = [p \in Products |-> {}]
    /\ session = [r \in Requests |-> Free]
    /\ met = [r \in Requests |-> {}]
    /\ menus = [r \in Requests |-> {}]

-----------------------------------------------------------------------------
HasCategory(c) == categories[c] \in Names
HasProduct(p) == products[p] \notin {None, Gone}

\* UNIQUE (name): another row than c has it.
NameTaken(n, c) == \E d \in Categories \ {c} : categories[d] = n

ProductsOf(c) == {p \in Products : HasProduct(p) /\ products[p].category = c}

\* An INSERT of a product not yet committed holds its category row.
Held(c) == \E r \in Requests : session[r].pc = "flushed" /\ session[r].ask.category = c

\* Mutant: the SELECT before is thought to be enough.
NotReferenced(c) == FALSE
\* FOREIGN KEY (category_id)
Referenced(c) == ProductsOf(c) # {}

Go(r, change) == session' = [session EXCEPT ![r] = change]
End(r) == Go(r, Free)

-----------------------------------------------------------------------------
(* Categories.                                                              *)

\* One INSERT and its commit.
CreateCategory(c, n) ==
    /\ categories[c] = None
    /\ ~NameTaken(n, c)
    /\ categories' = [categories EXCEPT ![c] = n]
    /\ UNCHANGED <<products, variants, session>>

\* get_category: the row a PATCH or a DELETE goes on with; else 404.
GetCategory(r, kind, c, n) ==
    /\ session[r].pc = "idle"
    /\ HasCategory(c)
    /\ \/ /\ kind = "update_category"
          /\ Go(r, [Free EXCEPT !.pc = "commit", !.kind = kind, !.id = c, !.ask = n,
                                !.seen = categories[c]])
       \/ /\ kind = "delete_category"
          /\ Go(r, [Free EXCEPT !.pc = "children", !.kind = kind, !.id = c])
    /\ UNCHANGED tables

\* The UPDATE matches its row (StaleDataError) and no other row has the name
\* (IntegrityError): one that a concurrent PATCH gave this very row is set
\* again. Without a change to the loaded row there is no UPDATE.
CanRename(r) ==
    \/ session[r].ask = session[r].seen
    \/ HasCategory(session[r].id) /\ ~NameTaken(session[r].ask, session[r].id)

UpdateCategory(r) ==
    /\ session[r].pc = "commit" /\ session[r].kind = "update_category"
    /\ \/ /\ CanRename(r)
          /\ categories' = IF session[r].ask = session[r].seen THEN categories
                           ELSE [categories EXCEPT ![session[r].id] = session[r].ask]
          /\ Go(r, [session[r] EXCEPT !.pc = "reply"])
       \/ /\ ~CanRename(r)
          /\ End(r)
          /\ UNCHANGED categories
    /\ UNCHANGED <<products, variants>>

\* The flush loads the category's products: with one the commit fails, because
\* its category_id would become NULL.
LoadChildren(r) ==
    /\ session[r].pc = "children"
    /\ IF ProductsOf(session[r].id) = {}
         THEN Go(r, [session[r] EXCEPT !.pc = "commit"])
         ELSE End(r)
    /\ UNCHANGED tables

\* DELETE and commit, refused by the foreign key; a row already gone is no error.
DeleteCategory(r) ==
    /\ session[r].pc = "commit" /\ session[r].kind = "delete_category"
    /\ ~Held(session[r].id)
    /\ categories' = IF Referenced(session[r].id) THEN categories
                     ELSE [categories EXCEPT ![session[r].id] = Gone]
    /\ End(r)
    /\ UNCHANGED <<products, variants>>

-----------------------------------------------------------------------------
(* Products.                                                                *)

\* create_product: the flush inserts the row, the foreign key is checked.
FlushProduct(r, p, ask) ==
    /\ session[r].pc = "idle"
    /\ products[p] = None
    /\ \A q \in Requests : session[q].pc = "flushed" => session[q].id # p
    /\ HasCategory(ask.category)
    /\ Go(r, [Free EXCEPT !.pc = "flushed", !.kind = "create_product", !.id = p, !.ask = ask])
    /\ UNCHANGED tables

\* Mutant: without UNIQUE (product_id, size).
AnySizes(V) == TRUE
\* UNIQUE (product_id, size)
SizesDiffer(V) == \A v, w \in V : v.size = w.size => v = w

\* The variants and the commit: the product appears with all of them or not.
CommitProduct(r) ==
    /\ session[r].pc = "flushed"
    /\ LET p == session[r].id
           ask == session[r].ask
       IN  \/ /\ SizesDiffer(ask.variants)
              /\ products' = [products EXCEPT ![p] =
                   [category |-> ask.category, available |-> ask.available]]
              /\ variants' = [variants EXCEPT ![p] = ask.variants]
           \/ /\ ~SizesDiffer(ask.variants)
              /\ UNCHANGED <<products, variants>>
    /\ End(r)
    /\ UNCHANGED categories

\* get_product, its first SELECT, for a reader, a PATCH or a DELETE.
GetProduct(r, kind, p, ask) ==
    /\ session[r].pc = "idle"
    /\ kind \in {"update_product", "delete_product", "get_product"}
    /\ HasProduct(p)
    /\ Go(r, [Free EXCEPT !.pc = "variants", !.kind = kind, !.id = p,
                          !.ask = IF kind = "update_product" THEN ask ELSE None,
                          !.seen = products[p]])
    /\ UNCHANGED tables

\* 404: a reader is told so.
ProductNotFound(r, p) ==
    /\ session[r].pc = "idle"
    /\ ~HasProduct(p)
    /\ Go(r, [Free EXCEPT !.pc = "reply", !.id = p, !.seen = products[p]])
    /\ UNCHANGED tables

\* Mutant: DELETE without the variants loaded.
NothingLoaded(p) == {}
LoadedVariants(p) == variants[p]

\* selectinload(Product.variants): its second SELECT.
LoadVariants(r) ==
    /\ session[r].pc = "variants"
    /\ Go(r, [session[r] EXCEPT
                !.loaded = LoadedVariants(session[r].id),
                !.pc = IF session[r].kind = "get_product" THEN "reply" ELSE "commit"])
    /\ UNCHANGED tables

\* The columns in the UPDATE: sent, and not what was loaded.
Changed(s) == {f \in Fields : s.ask[f] # Keep /\ s.ask[f] # s.seen[f]}

\* Mutants: every column as it was loaded; fields not sent as well.
WholeRow(s) ==
    [f \in Fields |-> IF s.ask[f] # Keep THEN s.ask[f] ELSE s.seen[f]]
AllFields(s) == s.ask
PatchedRow(s) ==
    [f \in Fields |-> IF f \in Changed(s) THEN s.ask[f] ELSE products[s.id][f]]

\* Mutant: an UPDATE of no row passes for a success.
UpdateAlways(s) == TRUE
\* The UPDATE matches its row (StaleDataError) and the category it names is there.
CanUpdate(s) ==
    \/ Changed(s) = {}
    \/ HasProduct(s.id) /\ ("category" \in Changed(s) => HasCategory(s.ask.category))

UpdateProduct(r) ==
    /\ session[r].pc = "commit" /\ session[r].kind = "update_product"
    /\ LET s == session[r]
       IN  \/ /\ CanUpdate(s)
              /\ products' = IF HasProduct(s.id) /\ Changed(s) # {}
                               THEN [products EXCEPT ![s.id] = PatchedRow(s)]
                               ELSE products
              /\ Go(r, [s EXCEPT !.pc = "reply"])
           \/ /\ ~CanUpdate(s)
              /\ End(r)
              /\ UNCHANGED products
    /\ UNCHANGED <<categories, variants>>

\* DELETE of the loaded variants and of the row, one commit.
DeleteProduct(r) ==
    /\ session[r].pc = "commit" /\ session[r].kind = "delete_product"
    /\ products' = [products EXCEPT ![session[r].id] = Gone]
    /\ variants' = [variants EXCEPT ![session[r].id] = @ \ session[r].loaded]
    /\ End(r)
    /\ UNCHANGED categories

-----------------------------------------------------------------------------
\* The refresh and the answer: 200, or 500 when the row is gone by now.
Reply(r) ==
    /\ session[r].pc = "reply"
    /\ End(r)
    /\ UNCHANGED tables

\* A lost connection or a restart: the session is closed, nothing committed.
AbortRequest(r) ==
    /\ session[r].pc # "idle"
    /\ End(r)
    /\ UNCHANGED tables

RequestStep(r) ==
    \/ UpdateCategory(r)
    \/ LoadChildren(r)
    \/ DeleteCategory(r)
    \/ CommitProduct(r)
    \/ LoadVariants(r)
    \/ UpdateProduct(r)
    \/ DeleteProduct(r)
    \/ Reply(r)
    \/ AbortRequest(r)

Step ==
    \/ \E c \in Categories, n \in Names : CreateCategory(c, n)
    \/ \E r \in Requests :
         \/ \E kind \in Kinds, c \in Categories, n \in Names : GetCategory(r, kind, c, n)
         \/ \E p \in Products, ask \in Inserts : FlushProduct(r, p, ask)
         \/ \E kind \in Kinds, p \in Products, ask \in Patches : GetProduct(r, kind, p, ask)
         \/ \E p \in Products : ProductNotFound(r, p)
         \/ RequestStep(r)

\* What get_variant makes of a product and its variants: those that can be sold.
OnSale(row, V) ==
    IF row \in {None, Gone} THEN {}
    ELSE IF row.available THEN {v \in V : v.on} ELSE {}

\* Mutant: the availability of the whole product is not looked at.
QuotedSizes(r) == {v \in session[r].loaded : v.on}
\* product_client.get_variant, on the product as it was answered.
Quoted(r) == OnSale(session[r].seen, session[r].loaded)

\* Fields of PATCH r whose row has the value sent now.
MetNow(r) ==
    CASE session[r].pc = "idle" -> {}
      [] session[r].kind = "update_category" ->
           {f \in {"name"} : categories[session[r].id] = session[r].ask}
      [] session[r].kind = "update_product" ->
           {f \in Fields : /\ HasProduct(session[r].id)
                           /\ products[session[r].id][f] = session[r].ask[f]}
      [] OTHER -> {}

MenuNow(r) ==
    IF session[r].pc # "idle" /\ session[r].kind = "get_product"
      THEN {OnSale(products[session[r].id], variants[session[r].id])}
      ELSE {}

\* The history variables follow the tables while a request is in hand.
Observe ==
    /\ met' = [r \in Requests |->
                 IF session'[r].pc = "idle" THEN {} ELSE met[r] \cup MetNow(r)']
    /\ menus' = [r \in Requests |->
                   IF session'[r].pc = "idle" THEN {} ELSE menus[r] \cup MenuNow(r)']

Next == Step /\ Observe

Spec == Init /\ [][Next]_vars

-----------------------------------------------------------------------------
\* Types of the tables and of a request's locals.
TypeOK ==
    /\ categories \in [Categories -> Names \cup {None, Gone}]
    /\ products \in [Products -> ProductRecords \cup {None, Gone}]
    /\ variants \in [Products -> SUBSET Variants]
    /\ session \in [Requests -> SessionRecords]
    /\ met \in [Requests -> SUBSET (Fields \cup {"name"})]
    /\ menus \in [Requests -> SUBSET SUBSET Variants]

\* Foreign keys and names: whatever staff create, move, rename and delete at the
\* same time, a product has a category, also one that is not committed yet, and
\* no two categories have one name.
CatalogIntact ==
    /\ \A p \in Products : HasProduct(p) => HasCategory(products[p].category)
    /\ \A r \in Requests :
         session[r].pc = "flushed" => HasCategory(session[r].ask.category)
    /\ \A c, d \in Categories :
         HasCategory(c) /\ categories[c] = categories[d] => c = d

\* "a field omitted from the request body is left alone": a column changes only
\* to a value that a PATCH of this product sent, so two PATCHes of different
\* fields never undo each other, however old the rows they loaded.
OmittedFieldsKept ==
    [][\A p \in Products, f \in Fields :
         HasProduct(p) /\ HasProduct(p)' /\ products'[p][f] # products[p][f] =>
           \E r \in Requests :
             /\ session[r].pc = "commit" /\ session[r].kind = "update_product"
             /\ session[r].id = p /\ session[r].ask[f] = products'[p][f]]_vars

\* A PATCH that is answered with success was true at some moment of the request:
\* each field it sent has had the value sent, whether this PATCH wrote it or found
\* it, in the row it loaded or in one that another PATCH changed the same way.
AnsweredPatchHeld ==
    \A r \in Requests :
        session[r].pc = "reply" =>
          /\ session[r].kind = "update_category" => "name" \in met[r]
          /\ session[r].kind = "update_product" =>
               \A f \in Fields : session[r].ask[f] # Keep => f \in met[r]

\* get_product reads row and variants in two statements; what a checkout takes
\* from the answer was on sale, all of it together, at some moment of the request.
QuoteWasLive ==
    \A r \in Requests :
        session[r].pc = "reply" /\ session[r].kind = "get_product" =>
            Quoted(r) \in menus[r]

-----------------------------------------------------------------------------
\* The abstract view of a product.
menuOf == [p \in Products |->
    [state |-> IF products[p] = None THEN "none" ELSE IF products[p] = Gone THEN "gone"
               ELSE IF products[p].available THEN "on" ELSE "off",
     sizes |-> variants[p]]]

MenuSpec == INSTANCE Menu WITH menu <- menuOf

\* Products appear with all their sizes, keep them, and never come back once
\* deleted, whatever old rows a PATCH or DELETE works on.
ImplementsMenu == MenuSpec!Spec
==============================================================================
