# Verification of pizzasale_api

TLA+ models of the five services, of the consumer of `user-service` and of
`scripts/reconcile_payments.py`, the TLC configurations that check them on small
instances, and TLAPS proofs about all of them. Each definition is translated from
the code; the file `PROJECT.json` maps it to its lines.

## 1. The system

Five FastAPI services, each with a PostgreSQL database of its own, a RabbitMQ
broker, a consumer process and a cron job.

| component | state it keeps | operations | interacts with | modelled in |
|---|---|---|---|---|
| auth-service | `users_auth` rows (username and email UNIQUE, `is_active`) | register, verify-email, login, refresh | publishes `user.registered`, sends mail through SES | `Registration`, then `Tokens` |
| user-service-worker | `user_profiles` rows (`user_id` UNIQUE) | consume one event, insert, ack or nack | RabbitMQ queue `user_service.user_registered` | `ProfileWorker` |
| user-service API | the same rows | read, partial update | tokens of auth-service | `ProfileApi` |
| product-service | `categories`, `products`, `product_variants` | create, PATCH, delete, read | staff tokens; read by checkout | `Catalog`; for a checkout `ChangeVariant` |
| order-service: cart and checkout | `carts`, `cart_items`, `orders`, `order_items` | get/create cart, add, remove, checkout | product-service, payment-service, RabbitMQ | `CartCheckout` up to the commit, `PaymentService` after it |
| order-service: status endpoint | `orders.status` | `PATCH /orders/{id}/status` | called by payment-service and by the script | `OrderStatus` |
| payment-service | `payments` rows, background tasks in memory | initialize, webhook, retried order update, publish | Paystack, order-service, RabbitMQ | `PaymentService` |
| reconciliation | nothing of its own; what a run has read | compare two databases, PATCH each mismatch | both databases, status endpoint | `PaymentSaga` |
| Paystack and the customer | transactions, webhook deliveries | charge, decline, deliver, redeliver | external | actions of `PaymentService` |
| migrations | the tables | upgrade | run before a service starts | the empty tables and their constraints: the `Init` of each module |
| webhook signature, CI, images, end-to-end script | none at run time | | | not modelled |

What makes it hard:

* **Two books.** A payment and its order live in two databases. Between the
  commit in one and the PATCH to the other there are retries with time-outs,
  handlers that outlive their callers, restarts and a script working on old reads.
* **In-memory work after the answer.** A webhook is answered before it is
  processed; a restart forgets the task and Paystack does not send it again.
* **Check, then act.** Carts, cart rows and accounts are looked up in one
  statement and inserted in a later one. Sessions use
  `expire_on_commit=False` and READ COMMITTED; a row loaded once keeps its loaded
  values in the session when a later SELECT returns it again.
* **Old rows.** A PATCH or DELETE loads its row in one statement and acts on the
  object later, while other requests commit; a category can be deleted while a
  product is put into it, and a checkout reads a product in two statements.
* **Claims in tokens.** What a token says was true when the password was given; no
  service asks auth-service again.
* **At-least-once delivery.** The worker can die between insert and ack, and the
  database can commit without its answer arriving.

What makes each component correct: an outcome is written only with evidence and
in the promised order (payment-service, script); a 200 means the status is set
(endpoint); a customer is billed for what is in the cart at live prices, once
(cart, checkout); accounts are distinct (auth-service); each event makes one
profile (worker); a PATCH changes what it sent and nothing else (profiles,
catalogue); a product always has its category and appears whole (catalogue); rights
and sessions end in time, and every service means the same account (tokens).

## 2. Modules

```
OrderStatus <- PaymentService <- PaymentSaga <- MCPaymentSaga
                                   |  INSTANCE Settlement (abstract)
                                   `- PaymentSaga_proofs <- PaymentRefinement_proofs
CartCheckout <- MCCartCheckout, CartCheckout_proofs <- CartQuantities_proofs
   `  INSTANCE Shop (abstract)               Sums <-'
ProfileWorker <- Registration <- MCRegistration, Registration_proofs
Catalog <- MCCatalog, Catalog_proofs
   `  INSTANCE Menu (abstract)
Tokens <- ProfileApi <- MCProfileApi, ProfileApi_proofs
```

**OrderStatus** - `order[o]` is the status column. A PATCH is a record in
`patches`: who waits (`by`), what it asks for (`to`), and what its SELECT loaded
(`seen`). `LoadOrder` and `ApplyStatus` are the two statements of the handler.
`NetChange` is what SQLAlchemy really writes: a column set to its loaded value
is not in the UPDATE, so a handler that loaded the status it is about to set
overwrites nothing. `AbandonPatch` is the caller's time-out; the handler
goes on with `by = Nobody`.

**PaymentService** - the checkout after its commit (`checkout[o]`), the
initialize handler (`init[o]`), the payments row (`payment[o]`), the background
tasks and the published outcomes. A task goes `lookup -> verify -> record -> send
-> wait -> publish`; a failure task skips `verify`, as in the code. `DropTask`
covers every return and swallowed exception before the commit. The retry loop is
`SendOutcome`, `OutcomeRefused`, `OutcomeTimedOut`, `AfterFailure`. Paystack and
the customer are external: `AttemptSucceeds`, `AttemptFails`, `StaleNotice`,
`FailDelivery`. An order starts at most one payment, so payment row and reference
are named by the order.

**PaymentSaga** - adds the `--fix` run of the script (`cron`): `FetchPayments`,
`FetchOrders` (with the comparison), then one `SendFix` after the other. It also
holds fairness, the properties and the inductive invariant.

**Settlement** - the abstract specification: for each order, whether it was
charged, whether an attempt was refused, what the ledger says, what the order
says. An outcome is recorded only on evidence; an order is settled only after
the ledger.

**CartCheckout** - carts, rows and orders as tables; a request is a record that
moves from statement to statement. `session[r].seen` is the identity map of its
session; `Object` gives the loaded values for a row that is in it. `UpdateRow`
writes the loaded quantity plus one; a row deleted meanwhile is a
StaleDataError. A second row for one variant or a second active cart makes
`scalar_one_or_none` raise, which ends the request. `ChangeVariant` is
product-service as a checkout sees it: a variant is switched off and on, changes its
price, or goes for good (`Catalog`, whose abstract view `Menu` allows no more). `added` and `offered` are history for the properties. Adds are of
quantity one; a larger quantity is several of them in one.

**Shop** - the abstract specification of cart and checkout for a customer who waits
for each answer: a cart is opened, a basket gets one more of a variant or none of it, and
the basket is sold, each in one step. It has no sessions, rows or copies. `Owners`,
`Baskets` and `Sales` in `CartCheckout` say what of the tables a customer sees.

**ProfileWorker** - the queue keeps an event first until it is acknowledged,
so a crash or a nack leaves it there; prefetch 1 makes the worker a single
record. `DatabaseFails` has both outcomes, not inserted and inserted without an
answer.

**Registration** - a request checks username, checks email, inserts, publishes,
mails; the UNIQUE columns decide at the insert. `AbortRequest` is an exception or
a restart after any step. A published event goes to the queue only if it is bound.

**Catalog** - the three tables of product-service and, in `session`, one record per
request. A category is its name; a variant is its size and whether it is on sale.
Deletes leave `Gone`, since an id is never used again. `GetCategory` and `GetProduct`
are the loads with which PATCH, DELETE and a reader begin; what follows works on
`seen`. `Changed` is the columns SQLAlchemy puts into an UPDATE, sent and unlike what
was loaded; an UPDATE that matches no row is a StaleDataError (`CanUpdate`). A rename
also fails if another row has the name, not if a concurrent PATCH gave it to the same
category (`CanRename`). An
INSERT of a product that is flushed and not committed holds its category row (`Held`),
so a delete waits for it; `LoadChildren` is the load of the category's products before
the DELETE, which fails if there are any. `met` and `menus` are history: which fields
of a PATCH have had the value sent, and what the product asked for has had on sale.

**Menu** - the abstract specification of a product as order-service needs it: it
appears whole, is switched off and on as a whole, keeps its sizes, and is not sold
again once withdrawn.

**Tokens** - rows (`active`, `staff`), the verification link and the set of tokens
that customers hold, each with its age. Time is counted in ticks; `Tick` ages
everything and drops what has expired. `Login` copies claims from the row, `Refresh`
from the token. `login` and `sinceStaff` are history. `CartOwner` and
`MayEditCatalog` are what order-service and product-service take from a token. The
password and the signature are left out: a token is one that auth-service made.

**ProfileApi** - the PATCH of user-service on top of it: `BeginPatch` checks token and
owner and loads the row, `CommitPatch` writes the changed columns later.

The `MC` modules add the symmetry sets. Operators marked *Mutant* are altered forms
of the definition that follows them, each a plausible slip (a missing commit, an
off-by-one, a dropped check); replacing the definition by one of them makes TLC
report the property it is paired with in `PROJECT.json`. They are used nowhere
in the specifications.

## 3. Runs

| run | instance | result |
|---|---|---|
| saga_one_outcome | 1 order, 2 tasks, 2 requests, 3 attempts per call, 2 deliveries | types, evidence, ledger first, the inductive invariant, finality of ledger and order, 200 means applied, refinement of `Settlement` |
| saga_convergence | 1 order, 1 task, 2 requests, retried page, fairness | evidence, and every order follows its payment in the end |
| saga_no_url | 1 order | **violated**: an order without a payment url stays `pending_payment` |
| saga_acknowledged | with fairness | **violated**: an acknowledged success is dropped |
| saga_late_failure | retried page | **violated**: `succeeded` becomes `failed` |
| cart_concurrent | 1 customer, 2 requests at once, 2 carts, 2 rows, 2 orders | never billed more than added; cart status follows the orders |
| cart_serial | 1 customer, one request at a time, 2 variants, 2 prices | one active cart, one order per cart, nothing lost, complete orders, live prices, refinement of `Shop` |
| cart_race | 2 requests at once | **violated**: two active carts |
| registration_profiles | 2 accounts, 2 requests, 2 usernames, 2 addresses, fairness | distinct accounts, one profile each, acked means profile, queued events become profiles |
| registration_lost_event | 1 account, fairness | **violated**: a lost event is never sent again |
| catalog_requests | 2 categories, 1 product, 2 names, 2 sizes, 2 requests at once | references, PATCHes answered held, quotes were live, fields not sent are kept, refinement of `Menu` |
| profile_tokens | 1 account, 2 requests at once, 2 fields, access life 0 and refresh life 2 ticks | rights and sessions end, only verified accounts, one identity, PATCHes held, fields not sent are kept |

The five violated runs state what a comment, a document or a test of the
repository says; `findings` in `PROJECT.json` quotes the line and the code. A sixth
finding rests on a run that passes: order-service (`core/auth.py:22-23`) and
user-service (`api/user_routes.py:15-16`) say that tokens carry no `user_id`, while
the login embeds it, the refresh copies it, and `OneIdentity` in profile_tokens shows
every token to have it.

**Bounds.** `Calls` and `Tasks` bound what is alive at one time, `Attempts` the
deliveries of one webhook, `MaxFailures` the declined attempts, `MaxQuantity`,
`Carts`, `Rows`, `Orders`, `Accounts` the ids. Two tasks are the smallest number
in which a success and a failure, or two deliveries of one webhook, overlap;
two requests the smallest in which an orphan of a timed-out call meets its retry
or a fix of the script. A second order shares tasks, requests and the script's list
with the first; that this does no harm is proved (`Refinement`, `Inductive`, both for
any number of orders) and not run. Two requests, carts and rows are
the smallest cart instance with a lost update, a duplicate row and a double
checkout. With two accounts an event stands behind another one. Two categories are needed to
move a product from one to the other while either is deleted or renamed, two requests
for a PATCH on an old row, and two sizes for a product that could show in part; a
second product shares only its category with the first, and the proofs cover it. A
life of 0 ticks is a token that is valid within the tick that made it, and a refresh
token of 2 ticks outlives three access tokens: the shortest lives in which a chain of
refreshes differs from a login. One account has all the tokens that can disagree about
it; a second one matters for the owner comparison of a PATCH (`IsSelf`), which
`ProfileApi_proofs!FieldsKept` covers for any number of accounts. Likewise, what the
run can find wrong with `OneIdentity` is a token without the claim; that the claim is
never another account's is `ProfileApi_proofs!OneAccount`, for any number of accounts.
(Two accounts make millions of states, of independent accounts for the most part.)

**`PageRetry`.** Whether a declined customer may try again on the same page is
Paystack's affair, so it is a parameter. With `FALSE` a page has one outcome and
finality holds (checked and proved); with `TRUE` it does not
(saga_late_failure), and convergence is checked under `TRUE`, the harder case.

**`Serial`.** `TRUE`: a customer waits for each answer. The cart is correct then;
with `FALSE` only the weaker properties of cart_concurrent remain. Lost updates,
duplicate rows and two orders of one cart are reachable with `FALSE`: the code does
not prevent them, so no property excludes them there.

**Fairness.** Tasks, handlers and the worker's nack are weakly fair: once
started they go on while the process lives. cron starts the script for ever
(`scripts/README.md`, crontab line), so the script's reads, its requests and their
application are strongly fair: outages and restarts may hit any number of runs,
but not all. The worker restarts (`restart: always`), and delivery, insert and ack
are strongly fair: an event that is retried without end meets a working
database at some time. No fairness is assumed of customers, webhook deliveries,
checkouts, e-mail, or of a publish succeeding, and none in the catalogue and
token modules, whose properties are all safety.

## 4. Proofs

Everything below holds for all values of the constants under the named ASSUMEs.

| module | theorem | states |
|---|---|---|
| `PaymentSaga_proofs` | `Inductive` | `Spec => []IInv` |
| | `TypeCorrect`, `Evidence`, `RecordedFirst` | `TypeOK`, `NothingWithoutEvidence`, `LedgerFirst` are invariant |
| | `Finality` | `~PageRetry /\ Spec => LedgerFinal /\ OrderFinal` |
| | `Acknowledged` | `~PageRetry /\ Spec => AckMeansApplied` |
| `PaymentRefinement_proofs` | `Refinement` | `Spec => ImplementsSettlement` |
| `CartCheckout_proofs` | `TypeCorrect`, `OneCommit` | `TypeOK`, `CheckedOutMeansOrdered` are invariant |
| | `PricesQuoted` | `Spec => PricesWereOnSale` |
| | `OneCart`, `SoldOnce`, `OrderEqualsCart` | if `Serial`: `OneActiveCart`, `OneOrderPerCart`, `OrderIsCart` are invariant |
| `Sums` | `SumIsCount` | `SumFunction(q)` is the number of units `<<i, k>>`, `k \in 1 .. q[i]` |
| `CartQuantities_proofs` | `NeverOverbilled` | `NeverBilledMoreThanAdded` is invariant |
| | `NothingIsLost` | if `Serial`: `NothingLost` is invariant |
| | `ShopRefinement` | if `Serial`: `Spec => ImplementsShop` |
| `Registration_proofs` | `TypeCorrect`, `Distinct`, `OneProfile` | `TypeOK`, `AccountsDistinct`, `OneProfileEach` are invariant |
| | `AckAfterProfile` | `Spec => AckedHasProfile` |
| `ProfileApi_proofs` | `TypeCorrect`, `StaffRightsEnd`, `SessionsEnd`, `OnlyVerified`, `OneAccount`, `PatchHeld` | `TypeOK`, `StaffEndsSoon`, `SessionEnds`, `VerifiedOnly`, `OneIdentity`, `ProfilePatchHeld` are invariant |
| | `FieldsKept` | `Spec => ProfileFieldsKept` |
| `Catalog_proofs` | `TypeCorrect`, `References`, `PatchAnswers`, `Quotes` | `TypeOK`, `CatalogIntact`, `AnsweredPatchHeld`, `QuoteWasLive` are invariant |
| | `FieldsKept`, `Refinement` | `Spec => OmittedFieldsKept`, `Spec => ImplementsMenu` |

**Assumptions.** `MaxRetries` and `MaxQuantity` are positive, lives and the other
bounds are natural numbers, `Serial` and `PageRetry` are Boolean; and the markers
(`Nobody`, `Cron`, `None`, `Gone`, `Keep`) are none of the values they stand beside,
nor one of the records in the same table (`RecordAssumption`,
`RegistrationAssumption`, `CatalogAssumption`). Nothing else is assumed; the theorems
on one customer at a time have `Serial = TRUE` in their statement.

**The saga.** `NothingWithoutEvidence` is not inductive: it says nothing about a task
between its check and its write, a request in flight, an orphan, or the rows the script
read. `IInv` adds one conjunct per place in which a copy of an outcome can be:
`TaskInv` (from the stage on at which the code has checked), `PatchInv`,
`PublishedInv`, `CronInv`, `PaymentInv`, `OrderInv`. Each says that the copy
carries its evidence, and evidence is monotone (`EvidenceKept`): a charge is never
undone and failed attempts are never uncounted. That is why staleness does no harm.
`CheckoutInv` orders row, initialize call and payment; `BooksInv` ties the webhooks
to Paystack's books. The proofs first state how each variable can change
(`OrderStep`, `PatchStep`, `PaymentStep`, `TasksStep`, `PublishedStep`), once for all
actions, and derive each conjunct from those facts. `Finality` uses that with one
outcome per page a success and a failure cannot both be proven. `Acknowledged` adds
`SeenHolds` to `IInv`: a handler that loaded the status it is to set writes nothing, so
its 200 is true only if the status still is what it loaded. It is, because no handler is
asked for another status than paid or cancelled (`ToldBefore`) and those stay
(`SettledStays`). `Refinement` maps
`charged` to the successful charges and `refused` to the orders with a failed attempt,
and shows for each action that it is a step of `Settlement` or leaves its variables
alone.

**Carts.** `CInv` has the types, what a request has in hand at each of its steps
(`InHand`: its cart and rows exist, its lines are typed and priced), that a verified
line has a price on sale since the checkout began (`Offers`), and
`CheckedOutMeansOrdered`. It holds for any interleaving, because the only statement
that checks a cart out is in the commit that inserts the order. For a customer who
waits, `SInv` adds three facts that fail one without the other: `Alone` (one request
each), `Claimed` (before the insert there is no active cart; after the lookup the
request's cart is the active one) and `One`. `OrderEqualsCart` needs two more: `Placed`
(noted rows are rows of the request's cart) and `Fresh` (between reading the cart and
the commit, what is noted and what is priced together are exactly what the cart
holds), which is where a lost item or an old quantity would show.

**Quantities.** `NeverBilledMoreThanAdded` and `NothingLost` speak of sums. A sum is a
recursion over sets, so `SumIsCount` turns it into a count once and for all: a function of
natural numbers stands for a set of units, and a least counterexample among the finite
subsets of its domain is impossible, since the subset with one element less would be
one too. From then on only sets are compared. Requests that interleave can lose an
increment, or bill a quantity that is not the cart's any more, so no equation holds; but
every write goes one above a quantity that some session or row had. `QInv` says so:
`Known(c, v)` is the set of units in rows, sessions and orders, a step makes at most one
new one, and only when it counts in `added` (`Counted`). An order's lines inject into it,
since they are of different rows (`Single`, `Invoiced`) and of the variant their row has
(`Described`). For a customer who waits, `Ready` says that what a request has noted before
it writes is what the cart holds; hence one row per variant (`Merged`), and the units in
the rows (`Held`) are exactly as many as were added (`Balanced`).

**Refinement of `Shop`.** `WInv` joins all of this with `Fresh` and with `Stocked`: a
checkout that verifies has something to sell. An insert or an increment is `Add`, because
by `Merged` one row is all the basket has of its variant; a delete is `Remove`, or nothing if
the row was gone; the insert of a cart is `Open`; the commit of a checkout is `Sell`,
because the priced lines are the cart's rows (`BillIsBasket`). Every other statement, every
refusal and every lost request changes nothing that is seen.

**Registration.** `RInv` adds to the types that an event or a link belongs to a
committed account (`Committed`), that the event in the worker's hand is the first of
the queue (`InHand`), and that it is acknowledged only with its profile there (`Done`).
Without `InHand` the ack could drop another event than the one inserted.

**Tokens and profiles.** `StaffEndsSoon` and `SessionEnds` rest on `TokenInv`: a
refresh token is as old as its login, an access token was made while the refresh token
of its login was valid (`Ages`), and a token with `is_staff` is as old as its login, at
which the account was staff (`StaffClaims`): so refreshed tokens cannot carry the
claim. `OwnerInv` adds that an active account was mailed its link. `ApiInv` and
`HeldInv` are about the PATCH: its row is its caller's, and a field left out of the
UPDATE because it was loaded with the value sent has had that value (`SeenIsMet`).

**Catalogue.** `CInv` says, besides types and references, that variants belong to a
product that is there (`Orphans`) and that a DELETE has loaded all the variants of its
product (`Loaded`), without which it would leave rows or fail. Every change of a product
is one of three (`ProductChange`), from which `FieldsKept` and `Refinement` follow.
`PatchSeen` is the catalogue's `SeenIsMet`; `QuoteSeen` says that the loaded row
together with the variants as they are now was on sale at some moment, which holds
because no statement changes the variants of a product that stays.

**Only model-checked**: `Convergence` and `QueuedGetsProfile`, since liveness under
fairness, and ENABLED, are beyond the prover. Every other property of a passing run is
stated by one of the theorems above. No module has RECURSIVE operators.

## 5. Not modelled

* Amounts and totals, names, texts, e-mail and payload layout; a category's
  `is_active` and `display_order`, and prices in the catalogue (no route changes a
  price after the product is made; a checkout's view of a price is `ChangeVariant`).
* The webhook's signature and the signatures of tokens, password hashing: pure checks
  before anything changes.
* List and read routes that change nothing, except `get_product`, which a checkout
  rests on.
* `order.placed` and the payment events beyond their publication, which nobody
  consumes; `shipped`, `delivered` and `confirmed`, which no code sets (the status type
  has them); `ProductVariantUpdate`, which no route takes.
* Malformed messages, which the only publisher cannot produce; a second verification
  mail, which no route sends.
* The migrations as runs, `env.py`, CI, images and deployment, and the end-to-end
  script, which drives the running services from outside.

## 6. Plan

Done, in order of importance: the payment saga, cart and checkout, registration and
worker, the catalogue, tokens and profiles, each with its proofs. Left:

1. **Checkout end to end**: CartCheckout's commit as the first step of the saga, with
   an abstract "cart to paid order" specification that both implement; `Shop` is its first half.
2. **Catalog with checkout**, in place of `ChangeVariant`: the two share one product
   read, and `QuoteWasLive` and `PricesWereOnSale` meet in it.
