# Mohcine API in TLA+

A formal model of the Mohcine API, a multi-tenant e-commerce backend (FastAPI,
SQLAlchemy, PostgreSQL, Redis): TLA+ modules, TLC configurations that check them on
small instances, and TLAPS proofs that hold for every value of the constants.
`PROJECT.json` lists the runs, the mutants that show each property can fail, the source
lines behind every definition, the hazards and the theorems.

    tlc -workers 2 -config MCFulfilment_workers.cfg MCFulfilment.tla
    tlc -workers 2 -config MCServices_all.cfg MCServices.tla
    tlapm FulfilmentProofs.tla

## The system

One FastAPI process serves the API and runs one `OutboxWorker` task (`app/main.py:71`);
several processes share one PostgreSQL database at READ COMMITTED. Services write domain
events to `event_outbox` in the transaction that makes the change; workers deliver them
to handlers, which run in transactions of their own and write the projections of other
domains.

| Component | State | Operations | Interacts with | Hard behaviour | Correct when |
|---|---|---|---|---|---|
| Orders (`domains/orders`) | `orders` (status, version, idempotency key), `order_items` | create, confirm, cancel, transition, `handle_order_created` | writes outbox rows; the handler calls `InventoryService.reserve`; creation reads catalog, pricing and inventory | API requests and the handler change one row; redelivery after a crash | status follows the table, a handler decides once, a decision and its stock commit together |
| Outbox (`core/outbox.py`) | `event_outbox` (status, retry count, next retry) | append; claim, deliver, commit, back off | every domain appends; the worker calls handlers | several workers, two transactions per event, lost connections, crashes | an event is acknowledged only after its effect, no row is lost or touched after it is final |
| Event registry (`core/event_registry.py`) | none | event name to list of handlers | worker | handlers of one event run in sequence, each commits | no event is lost to a handler that failed; the docs also say that it does not prevent the others, which the code contradicts |
| Inventory (`domains/inventory`) | `product_inventory` (quantity, reserved), `inventory_transactions` (unique key) | initialize, adjust, reserve, commit_sale, release | order handler, `ProductCreated` | read without lock, idempotency keys | the counter agrees with the ledger, no more is promised than exists |
| Pricing (`domains/pricing`) | `product_pricing` | initialize, update | `ProductCreated`; read by order creation | retry after a partial delivery | every product gets a price once |
| Catalog (`domains/catalog`, `core/slug.py`) | `products`, `categories` (slug, version, soft delete) | create, update, delete, list, tree | appends product and category events | slug check-then-insert, version column | slugs of live rows are unambiguous, no update is lost |
| Payments (`domains/payments`) | `payments` (status, version, key) | create, confirm, fail, refund | appends payment events; names an order | check-then-insert of the active payment | a payment and its event commit together, status follows the table |
| Unit of work, repository (`core/uow.py`, `core/repository.py`, `core/base.py`) | the session | commit, rollback, filtered queries, cursor pages, version column | all services | rollback on any exception, stale updates | all or nothing; pages neither skip nor repeat rows |
| Authentication, bootstrap (`services`) | `users`, `tenants`, Redis refresh tokens | register, login, refresh, bootstrap, revoke | API dependencies | check-then-insert, token expiry | one user per email, one default tenant |
| Start-up, migrations (`main.py`, `alembic`) | the schema and its revision, one advisory lock | upgrade, verify, serve | every process of a deployment starts on one database | processes that start together, crash, or lose the lock's connection | upgrades do not collide, a process serves on a migrated schema only |
| API, middleware | none of their own | parse, call a service, format | all | none beyond the services | (part of the services' requests) |

## What is modelled

| Module | Role |
|---|---|
| `OrderStates` | the order statuses and the transition table |
| `OrderDecision` | the abstract specification: an order is created, decided once in one atomic step that takes its stock, and otherwise moved along the table |
| `OutboxWorker` | the rows of `event_outbox` and the loop that claims, delivers and settles them, for any handlers; the two modules below extend it |
| `Fulfilment` | the detailed specification: API requests, outbox workers, `handle_order_created` and `reserve` over the database |
| `ProductProjection` | `ProductCreated` with its two handlers, and the orders that depend on what they write |
| `KeyedCreate` | the abstract specification of a creation guarded by a key, with the proof that it is idempotent; `OrderCreation` and `Accounts` implement it |
| `OrderCreation` | `create_order` up to its commit, while products come and go; its order is one that `Fulfilment` then fulfils |
| `Payments` | `create_payment` statement by statement; confirm, fail and refund; the events each appends and whether they have a row |
| `Accounts` | register, bootstrap and the seed script: tenants and users |
| `InventoryLedger` | every operation of `InventoryService` on one product in any order, as units of work, with the ledger |
| `Catalog` | products and categories: slugs, versions, soft deletion, the category tree |
| `CursorPages` | a client that reads a list page by page while rows come and go |
| `Schema`, `StartUp` | the columns of every table after each migration and in the models; processes that start, migrate and verify together |
| `MCFulfilment`, `MCProductProjection`, `MCServices` | the small instances for TLC |
| `FulfilmentProofs`, `ProductProjectionProofs`, `ServicesProofs` (payments, orders, accounts, the run of all services), `InventoryLedgerProofs`, `CatalogProofs` (catalog and pages), `StartUpProofs` | the theorems |
| `FiniteSums` | lemmas about sums over finite sets, for the proofs about stock |

Modules compose in three ways. `Fulfilment` and `ProductProjection` extend
`OutboxWorker`, with which they share the outbox. `OrderDecision` and `KeyedCreate` are
instantiated by what implements them. `OrderCreation` hands over to `Fulfilment` and
takes from `ProductProjection` and `Catalog` through what it promises or assumes:
`PlacedOrdersAreSound` is what `Fulfilment` assumes of carts, and `offered` and `priced`
change as freely as the catalog and the handlers allow. The other modules of
`MCServices` share no state with each other.

### How `OutboxWorker` corresponds to the code

`outbox` is the committed row of each event. `batch`, `locks` and `outcome` belong to
the outbox transaction of a worker, which locks a batch of rows and commits every
outcome at its end; `pc` is where the worker's loop is. `ClaimBatch` is SELECT ... FOR
UPDATE SKIP LOCKED, `TakeRow` the flush of PROCESSING, `RecordOutcome` the assignments
after the last handler or in the `except` branch, `CommitOutcomes` the final commit,
`AbortProcess` an exception out of `process_once`, `CrashProcess` and `LoseLocks` the
faults. A crash after a commit reached the database is the same as one in the next
state, so a lost acknowledgement of a commit is covered. The PROCESSING flush is never
visible to another transaction, so `EventStatus` has no such value and `TypeOK` says
that none is committed. `stop()` is a crash of an idle worker, which loses nothing; the
poll sleep is the time between two steps.

### How `Fulfilment` corresponds to the code

*State.* `status` and `version` are the columns of `orders`, `cart` the items of the
`OrderCreated` payload, `quantity` and `reserved` the columns of `product_inventory`,
`ledger` the reservation rows of `inventory_transactions` (the unique key names order
and product, so one number per pair is enough); the event of an order is its
`OrderCreated` row and has its number. These are committed values; `tx` is the
uncommitted handler transaction of a worker. `announced` is the history of events the
API published for an order; they have no handlers, and a property needs only the count.

*Steps.* One SQL statement, or one statement and the code up to the next one, is one
action, since at READ COMMITTED another transaction may commit between any two
statements. Three merges are sound and make the model smaller: `find_one` and `refresh`
in the handler (the second read replaces the first), the UPDATE and INSERT of `reserve`
(the row lock taken by the first covers the second), and the UPDATE of an order with the
commit that follows it at once.

| Action | Code |
|---|---|
| `CreateOrder` | the writes and the commit of `create_order` |
| `RequestStatus`, `CommitStatus`, `RejectStatus` | `confirm_order`, `cancel_order`, `transition_status`: the read and check; the versioned UPDATE and the commit; `StaleDataError` |
| `Claim`, `StartRow`, `CommitBatch`, `AbortBatch` | `process_once`: SELECT ... FOR UPDATE SKIP LOCKED, the flush of PROCESSING, the final commit, an exception out of it |
| `LoadOrder`, `ConfirmOrder`, `CancelOrder` | `handle_order_created` before and after its loop |
| `FindReservation`, `ReadStock`, `WriteReservation` | the statements of `reserve`, once per item |
| `DeadlockVictim` | PostgreSQL aborts one of a cycle of waiting transactions |
| `BackoffElapses` | `next_retry_at` passes |
| `Crash`, `LoseConnection`, `HandlerFails` | the process stops; the outbox connection drops; a statement of the handler fails |

*Abstractions.* Orders are numbered by `created_at` and may commit in any order. A
missing inventory row is the same as stock 0, since `reserve` refuses both, and so is a
negative quantity, which no schema excludes: `reserve` refuses every line of it, and each
is for at least 1. The properties and theorems about stock levels therefore read
`quantity` as the larger of 0 and the column. A request
whose transition is not allowed raises before it writes, so it has no step. Two equal
requests in flight are one member of `requests`: the second could only be rejected. Poll
sleep, log text, prices and tenants are left out: every row has the tenant of its order.
Rows of events without handlers are left out: they only become COMPLETED. `Carts` are
items with quantities of at least 1, as `create_order` requires. Stock is not adjusted
or sold while orders are fulfilled: no route or handler calls those operations.

### How `ProductProjection` corresponds to the code

`created`, `priced` and `stocked` are the products with a row in `products`,
`product_pricing` and `product_inventory`; `event` is the row a worker delivers. A
delivery of `ProductCreated` goes through the points `pricing` and `inventory`, each one
transaction; an exception in the first skips the second, and the retry starts again at
the first.

| Action | Code |
|---|---|
| `CreateProduct` | the commit of `create_product`: the product with its event |
| `CreateOrder` | `create_order`, which wants a product and a price but no inventory row |
| `InsertPricing`, `InsertInventory` | the handlers of `ProductCreated`: INSERT and commit, or the primary key refuses |
| `LookUpStock`, `DecideOrder` | `handle_order_created` with one item: confirmed if the inventory row is there, cancelled if not |
| `Crash`, `LoseConnection`, `HandlerFails` | as in `Fulfilment` |

*Abstractions.* Stock covers every order, so only a missing row refuses one; what
happens on scarce stock is the subject of `Fulfilment`. An INSERT of a handler and the
commit that follows are one step: another transaction with the same key waits for it.
The `inventory_transactions` row of an initial quantity is written in the same
transaction as the inventory row. `handle_order_created`'s two reads are one step: a
decision made between them makes the versioned UPDATE fail. Products are not deleted or
deactivated.

### How the services correspond to the code

In `Payments`, `OrderCreation`, `Accounts` and `Catalog` a request is a point in its
method (`creating`, `ordering`, `making`, `editing`) with what it has read; one SQL
statement is one step, since another request may commit between any two. An INSERT or a
versioned UPDATE, the event and the commit that follow are one step, because the row
lock of the first covers the others. A unique index is a function from keys to the row
that has the key, 0 if none. An exception of any kind rolls the session back, so a
request that fails ends with answer 0 and has changed nothing, and an answer may be lost
after the commit. History variables are named as such: what was gone all the while a
request ran (`withdrawn`), which rows were given a slug since it looked (`amid`,
`rowAmid`), which rows every page could have shown (`stable`), which events raised
instead of being appended (`raised`), and the three of `InventoryLedger`.

* `OrderCreation`: `FindOrder`, then `CheckProduct` and `CheckPrice` for each line, then
  `InsertOrder`. The lookup of the key is within the tenant; the column is unique over
  all of them, so a key of another tenant makes the insert fail. The answer to a
  repeated request is the order without its items, which is a matter of format.
* `Payments`: `FindPayment`, `CheckActive`, `InsertPayment`; `ReadPayment` and
  `WritePayment` for the three changes. `Fields` are what each event class declares and
  `Given` what each method passes; `Appends` says whether the event can be constructed and
  its payload encoded, since `OutboxStore.append` turns only UUIDs and datetimes into text
  and the engine has no encoder of its own. An event that cannot is a `TypeError`, and the
  unit of work rolls back. That is so for `PaymentCreated`, whose amount is a `Decimal`,
  and for `PaymentRefunded`, which has no field for the reason it is given. With this
  program alone the table would therefore stay empty; `Imported` are payments that another
  program has recorded, in any status. They are an assumption about the surroundings, and
  without them confirm, fail and refund could not be reached. The routes fail with an
  `UnboundLocalError` or a `NameError` for a payment that is not there; to the database
  that is one more request that ends with no change.
* `Accounts`: three flows over the same steps. `opened` is a tenant inserted by a
  transaction that is still open: bootstrap commits its tenant with its admin, the seed
  script before it. Another INSERT of that slug waits.
* `InventoryLedger`: one product, one action per operation. The statement-by-statement
  races of `reserve` belong to `Fulfilment`; here operations run one by one, and the
  interest is in long sequences of them: keys that repeat (an adjustment is keyed by the
  old and the new quantity), stock set below what is reserved, and sales and releases that
  no reservation precedes, which the service does not refuse and
  `tests/domains/inventory/test_service.py:80` makes. Quantities may be negative: nothing
  between the request's schema and the column excludes it, and an initial quantity that
  is not positive leaves no transaction. History variables record such an initial quantity
  (`opening`), that the stock was set below what was reserved (`undercut`), and that a sale
  or a release was made for no open reservation (`astray`).
* `Catalog`: slugs are sequences of words, since `generate_slug` matches them by prefix
  and appends a number; a name that leaves no letters has the slug "item". An update may
  send an empty name (the update schemas set no minimum length), for which "none" stands:
  it is written, and the slug stays what it was. `UpdateRow`
  takes the version the client has seen as an input, and nothing compares it, as in the
  code. The parent of a row cannot be reset to none. `TreeLevel` is `_build_tree` level
  by level.
* `CursorPages`: `stamp` is `created_at`, the start of the inserting transaction, so a
  row may appear behind a cursor that has passed its time. `list_products` passes the
  client's order in the statement but not to `cursor_paginate`, which compares cursors
  as if the order were the default; `sort` keeps both.
* `Schema`: `ColumnsAt(n, t)` are the columns of table t after n revisions, and `Models`
  those the SQLAlchemy models declare, mixins included. `StartUp`: `AcquireLock` to
  `Verify` are `lifespan`; a process may be configured not to migrate (`auto`). The lock
  belongs to a connection of its own, which may be lost while the upgrade runs.

## The runs

| Run | Instance | Shows |
|---|---|---|
| `workers` | 2 workers, 2 orders with crossed two-product carts, stock 1, one request in flight, one fault | the safety properties, what an order holds for good, and that `Fulfilment` implements `OrderDecision` |
| `live` | as `workers`, under `FairSpec`, cancellation the only request | every order is settled |
| `oversell` | 2 workers, one-line carts, stock 1 | `NoOversell` fails: the last unit is reserved twice |
| `leak` | 1 worker, 1 order, stock 0 or 1 | `CancelledHoldsNothing` fails: a cancelled order keeps stock |
| `twolines` | 1 worker, one product on two lines | `ConfirmedReservesItsCart` fails: the second line is not reserved |
| `projection_faults` | 2 workers, 2 products, 1 order created before the second product, 3 retries, 2 faults, under `FairSpec` | the safety properties of `ProductProjection`, and that every product gets a price |
| `projection_inorder` | 1 worker, 2 products, 2 orders, one created before and one after, no fault | no order overtakes its product |
| `projection_duplicate` | 1 product, 1 worker, 2 retries, 1 fault | `GivenUpIsStocked` fails: the event is given up for meeting its own price, and the inventory handler never runs |
| `services` | payments: 3 creations, of which one repeats a key and one finds an active payment, on top of 3 recorded payments (pending, paid, authorized), 2 changes in flight; orders: 3 requests with one key and two tenants, two-line carts; accounts: 5 requests of all flows on 2 tenants and 2 emails; catalog: 3 requests on 1 product and 2 categories, two names of which one is the other with a suffix; pages: 4 rows, pages of 1 and 2, 2 times; ledger: 2 buyers, 3 quantities of which one is negative; start: 2 processes, every revision, 2 faults | the properties of the seven modules, the two refinements of `KeyedCreate`, and that every process serves in the end |
| `payment_events` | the instance of `services` | `CreationOrRefundCommits` fails: a creation and a refund, each legal, both raise over their event |
| `unseen_version` | the same instance | `UpdatesTheVersionSeen` fails: an update from an old version overwrites a later one |
| `schema_drift` | 2 processes, every revision, 1 fault | `NoDrift` fails: the ledger's audit columns are in no migration |

*Bounds.* `MaxRequests` bounds requests between read and commit and `MaxFaults` all
faults of a behaviour. Two workers, orders and products are the smallest instance with a
lost update, a lock cycle, a second claim after a lost connection, and a batch of more
than one row; two retries give both a backoff and an exhausted row. `projection_faults`
has three retries and two faults, so that an event can be given up only through the
duplicates the code makes itself. The safety theorems do not depend on any of these
bounds. `MCServices` runs one module per behaviour (`running`) and leaves the others in
an initial state: they share no variable, so interleaving them would multiply states and
add no behaviour of any one. Three requests are the least with two that race and a third
that repeats a key, meets what they left, or moves a category under them; 4 rows with
pages of 2 have a full page, a tie in time and a row committed late. `CHECK_DEADLOCK
FALSE` is used because the system rests when every order is created and decided and
every row is final.

*Fairness.* `FairSpec` assumes each worker keeps taking steps (`run_forever` loops while
the process lives, a process that crashed is started again, which is up to the deployment
as it is below, and a started process starts a worker) and that a backoff ends. API
requests are never required, and faults never happen for ever. An order whose event is
FAILED is excused by `EveryOrderSettled`: after `max_retries` failed deliveries the code
gives up on purpose. `EveryProductPriced` is stated for fewer faults than retries.
`StartedProcessesServe` assumes weak fairness of each step of a start, strong fairness of
`AcquireLock`, since PostgreSQL grants an advisory lock to its waiters in turn, and that
a process which failed is started again. That last assumption is about the deployment
and not in the repository: `docker-compose.yml` configures no restart, so a supervisor
has to be added for it. The property is stated for deployments in which some process may
migrate.

## Properties

* `HoldingsAreDecisions`: reservations become visible with the handler's decision or
  never, and no API transition before or after it changes them. It is precise about the
  two cases the API leaves as they are: an order it confirmed first holds nothing, and
  one it cancels after the handler confirmed it keeps all its lines.
* `CancelledForWantOfStock`: a handler refuses a line by a counter that lost updates have
  spoilt, and yet only a line that the reservation rows leave no room for.
* `HandlerDecidesOnce`: every version step of an order beyond its creation is an
  announced API transition, except at most one silent one, the handler's; stock is held
  only after it.
* `ConfirmedReservesEveryProduct`, `CompletedMeansDecided`, and `CounterWithinLedger`: a
  lost update never over-counts. That with one worker the counter is exact
  (`CounterMatchesLedger`) and nothing is oversold (`NoOversell`) is proved and in no
  passing run.
* `StepsFollowTransitions` and `FinalRowsStay` constrain steps: the transition table at
  commit time, although it was checked on an earlier read; final rows stay final.
* `ImplementsOrderDecision` is the refinement, with `status`, `cart` and `ledger` mapped
  to themselves. The abstract `Decide` keeps what the lines before a refusal took,
  because that is what the code does.
* `EveryOrderSettled` is the liveness property.

Of `ProductProjection`:

* `CompletedMeansProjected`, `StockedMeansPriced`: what three transactions, in one
  delivery or several, may leave behind. `StockedMeansPriced` holds because the worker
  awaits the handlers of an event one after the other and stops at the first that fails.
  `docs/events.md:138` says the opposite, "Pricing and Inventory handlers are independent
  — failure in one does NOT prevent the other", and the code disagrees with it: were it
  so, a product could have stock and no price, which `create_order` would not sell.
* `GivenUpIsStocked`, which the code violates, is what the docs promise of a product whose
  event is given up after fewer faults than retries. It follows from either of two
  statements, that consumers skip rows that are there (line 127) and that the handlers
  are independent (line 138), so its violation refutes both.
* `NoErrorWithoutFault`: without faults each event is delivered once, by one worker.
* `NoOrderOvertakesItsProduct`: in-order delivery by one worker closes the window
  between the price, which admits orders, and the stock, which decides them.
* `GivenUpIsPriced`, `EveryProductPriced`: a product can lose its stock projection to
  the retries, but never its price.

Of the services:

* `OrdersImplementKeyedCreate`, `AccountsImplementKeyedCreate`: check-then-insert backed
  by a unique index is a creation in one step, with retries, lost answers and failures.
* `PublishedTellsStatus`: the events of a payment are its history since it was recorded,
  one per version, along the table. `CreationOrRefundCommits`, which the code violates, is
  what the docs say of the two methods whose event has no row: that payment and event
  commit together. It is stated of either, so that one run shows both failures. Because no
  creation commits, nothing is said of the check for an active payment: no constraint backs
  it, so two creations that raced could both pass it once the events are mended, and
  `docs/events.md:912` would not hold.
* `PlacedOrdersAreSound`, `AnswersStayInTenant`: checks made line by line and a key
  shared by tenants.
* `BootstrapIsAtomic`, `AnswersAreAccounts`: a tenant and its admin appear together.
* `SlugClashNeedsRace`, `LateWritesUndoNothing`, `TreeShowsTheRooted`: slugs, versions (a
  request that read its row before another deleted or renamed it undoes neither), and
  the tree against a declarative definition of what hangs from a root.
* `NoRowTwice`, `NoRowSkipped`: pages in the default order. Of the opposite order, which
  `list_products` offers and pages with the wrong comparison, `AscendingEndsAfterOnePage`
  says what goes wrong; like `SlugsAreOfNames`, it is proved and in no run.
* `LedgerExplainsStock`, `StockCoversOrders`: what the ledger says after any sequence of
  operations, and when the counters may cross or become negative. A sale or a release
  for no open reservation can make `reserved_quantity` negative, or leave more reserved
  than the ledger explains because `max(0, ...)` swallows a part of it; that these calls
  are the only ones that can is what the properties say. `docs/events.md:510` promises
  `new_quantity >= 0` after a sale, which `commit_sale` does not ensure; it has no caller,
  so this is a hazard and not a finding.
* `UpgradesDoNotCollide`, `UpMeansMigrated`, `StartedProcessesServe`: the start. The six
  tables that `verify_schema` looks up stand for the whole schema, because the last of
  them is made by the last revision.

Five of the violated properties state what `docs/events.md` promises, one the contract
of the update schema in `domains/catalog/schemas.py`, and one a step of the deployment
workflow; see "findings" in `PROJECT.json`.

## What is proved

Every safety property that a passing run checks is also a theorem, for every value of the
constants. `FulfilmentProofs` proves, from
the assumptions on the constants only (event numbers are positive, retries and batches
are at least 1, orders are finite in number, carts are non-empty sequences of items,
bounds are natural numbers), for any sets of orders, products and workers:

| Theorem | Property |
|---|---|
| `TypeCorrect` | `TypeOK` |
| `UndecidedHoldsNothing` | a pending order holds nothing |
| `DecidedOnce` | `HandlerDecidesOnce` |
| `TransitionsRespected` | `StepsFollowTransitions` |
| `AcknowledgedMeansDecided` | `CompletedMeansDecided` |
| `FinalRowsUntouched` | `FinalRowsStay` |
| `ConfirmedReserves` | `ConfirmedReservesEveryProduct` |
| `HoldingsAreForGood` | `HoldingsAreDecisions` |
| `RefusedForWant` | `CancelledForWantOfStock` |
| `FulfilmentImplementsOrderDecision` | `ImplementsOrderDecision` |
| `CounterNeverAhead` | `CounterWithinLedger` |
| `CounterExactAlone`, for one worker | `CounterMatchesLedger` |
| `NoOversellAlone`, for one worker | `NoOversell` |
| `CounterWithinStock` | no counter exceeds its stock |
| `DistinctLinesReserved`, if no cart repeats a product | `ConfirmedReservesItsCart` |
| `OneLineCancelledHoldsNothing`, if every cart has one line | `CancelledHoldsNothing` |

The argument has eight layers, each an inductive invariant that builds on earlier ones.

1. `TypeInv` adds to `TypeOK` that a handler reserving an item is at an item of its
   cart; without it `Line(w)` has no value.
2. `OrdersInv` is about orders. `OrderInv` is the version arithmetic (a pending order
   has version 1, holds nothing and was never announced); `RequestInv` and `HandlerInv`
   say that what a request or handler read is still true if the version is still the one
   it read. This makes a check on a stale copy safe: a versioned UPDATE succeeds only if
   the copy was not stale. `OrderWriters` lists the only four kinds of step that write
   an order.
3. `DeliveriesInv` is about events. `LockInv` says that locks are exclusive and cover
   only pending rows, and that a worker with locks holds those of its whole batch;
   `DeliveryInv` says that an "ok" outcome, still uncommitted, is already true of the
   database. So a commit of a batch acknowledges only decided orders, and touches only
   rows it has locked, which are pending.
4. `LinesInv` follows a handler through its cart: its uncommitted rows are exactly those
   of the lines before its item, the first line of each product counting. A handler that
   confirms is past its last line, so its rows cover every product, and the step it
   commits by is the abstract `Decide`, with the number of its lines as the witness.
   That step and the moves of the API are the only ones that change an order or the
   ledger, which is what the refinement needs.
5. `CountersInv` is about the counters of any number of workers. A counter is never above
   the sum of the ledger's rows, and what a handler read or wrote of it never above what
   the sum will be with its own rows: others only add rows meanwhile, so a lost update
   lowers the counter against the ledger and never raises it. `StockInv` says that every
   counter read, written or committed has passed the check against the stock. Together
   with the finding of `oversell` they say exactly what the lost update costs: the rows
   may exceed the stock, the counter and what is shown as available do not.
6. `AloneInv` makes the inequality of `CountersInv` an equality when there is one worker:
   what it read is still the counter when it writes. The hypothesis `OneWorker` is a
   deployment with one API process, which is what `scripts/start.sh` starts.
7. `DecisionsTake` says what a decision leaves behind for good: a confirmed order holds
   what all its lines take, a cancelled one what the lines before some refused line took.
   With it two findings become exact. The code violates `ConfirmedReservesItsCart` and
   `CancelledHoldsNothing` (runs `twolines` and `leak`); the last two theorems show that
   a product on two lines is the only cause of the first, and a line that was reserved
   before another was refused the only cause of the second. `HoldingsAreForGood` sets
   this against the history: versions and announcements count who moved the order, and by
   `RequestInv` no API move starts from an order that a handler cancelled.
8. `RefusalInv` is about a handler that has refused a line and not yet committed: the rows
   of other orders and that line together exceed the stock. It holds although the counter
   it compared with may be too low, since by layer 5 the counter is never above the rows,
   and it stays true since rows are never taken back. So lost updates make the code
   promise too much (`oversell`) but never refuse wrongly (`RefusedForWant`).

`ProductProjectionProofs` proves, for any sets of products, orders and workers and any
number of faults:

| Theorem | Property |
|---|---|
| `TypeCorrect` | `TypeOK` |
| `AcknowledgedMeansProjected` | `CompletedMeansProjected` |
| `PriceBeforeStock` | `StockedMeansPriced` |
| `DeliveredOnce` | `NoErrorWithoutFault` |
| `NoProductGivenUpUnpriced` | `GivenUpIsPriced` |
| `NoOvertakingAlone`, for one worker | `NoOrderOvertakesItsProduct`, while nothing has failed |

The assumptions are those of `OutboxWorker` and that every order is for a product. The
second and third come from `ProjectionInv`: projections are never deleted, so what an
uncommitted "ok" outcome, or a delivery between its handlers, says of them stays true,
and locks are not needed. `DeliveredOnce` needs them. `LocksInv` says that the locked
rows of a worker are exactly those still to come, the one in a handler and those with an
outcome, and that no two workers share one; `WaitingInv` that a row no delivery has
reached has left no trace in the other tables; `HandlersInv` that what a handler is
about to write is not there. All of it holds while `faults = 0` and is false after the
first lost connection. `NoProductGivenUpUnpriced` holds with faults: `ChargedInv` charges
each retry of a product without a price, and each error about to become one, to a fault
of its own, since the only error such a product can meet is an injected one;
`LockShape`, which does survive a lost connection, keeps two workers from turning one
error into two retries. `NoOvertakingAlone` needs that a product with a price and
without stock is at that moment between its two handlers (`InOrderInv`), so a single
worker that looks up the stock of an order finds none such.

For the services, each proof has one inductive invariant, for any number of requests,
rows, keys and processes:

| Module | Theorems (property) | The invariant |
|---|---|---|
| `ServicesProofs` (`Payments`) | `HistoryPublished` (`PublishedTellsStatus`), `CreatesAndRefundsNothing` | a change whose version is still the present one is still allowed; a creation that has not ended has made nothing |
| `ServicesProofs` (`OrderCreation`) | `PlacedOrdersSound` (`PlacedOrdersAreSound`), `AnswersInTenant` (`AnswersStayInTenant`), `OrdersRefine` (`OrdersImplementKeyedCreate`), `OrdersIdempotent` | what a request has checked by the time it is at each step stays checked |
| `ServicesProofs` (`Accounts`) | `BootstrapAtomic` (`BootstrapIsAtomic`), `AnswersNameAccounts` (`AnswersAreAccounts`), `AccountsRefine` (`AccountsImplementKeyedCreate`), `AccountsIdempotent` | a request past its tenant finds it committed or in its own transaction, so no user is committed without one |
| `InventoryLedgerProofs` | `LedgerExplains` (`LedgerExplainsStock`), `StockCovers` (`StockCoversOrders`), `HeldIsOpenReservations` | as long as nothing went astray, what is reserved is the sum of the open reservations, so a release finds at least what it takes and its `max(0, ...)` never acts; the two properties are not inductive without it |
| `CatalogProofs` (`Catalog`) | `ClashRaced` (`SlugClashNeedsRace`), `TreeIsRooted` (`TreeShowsTheRooted`), `ComparedUpdatesAreSeen` | a row whose version is the one that was read has not been deleted; whoever has a slug that was free at a request's last look got it since |
| | `LateWritesHarmless` (`LateWritesUndoNothing`), `SlugsOfNames` | `RenamingInv`: every slug, written or about to be, is made from the name beside it; a request whose version is still the row's brings a new slug only with a new name |
| `CatalogProofs` (`CursorPages`) | `NothingTwice` (`NoRowTwice`), `NothingSkipped` (`NoRowSkipped`), `AscendingEnds` | what was returned is on one side of the cursor, what is due on the other |
| `StartUpProofs` | `NoCollision` (`UpgradesDoNotCollide`), `UpIsMigrated` (`UpMeansMigrated`) | without faults exactly the process between lock and unlock holds the lock; one that serves has seen the last revision |

Refinement pays off in `KeyedCreate`: `KeyedIsIdempotent` proves once, of the abstract
creation, that a key has one row, that requests with one key are answered with that row,
and that neither a row nor an answer is ever replaced; `OrdersIdempotent` and
`AccountsIdempotent` are that theorem through the two refinement mappings.
`RunFollowsSpecifications` shows that in the run of all services each module behaves as
its own specification says, and `ServicesTypeCorrect` (`ServicesTypeOK`) follows from the
seven type theorems.

Three theorems say how far a fault of the code reaches. `CreatesAndRefundsNothing` says of
the findings of `payment_events` that they are not about some calls but about all:
whatever the requests and their interleaving, no creation and no refund commits.
`ComparedUpdatesAreSeen` narrows the finding of `unseen_version`: under the hypothesis
`ClientsAreCurrent`, which is the comparison that `update_product` leaves out, the version
column does the rest, so that comparison alone is missing. `AscendingEnds` says what an
ascending list loses: the first page leaves every row that is later than its cursor out of
reach, those of the cursor's own instant excepted, and no later page returns them.

Each also proves its type invariant (`PaymentsTypeCorrect` and so on). Some arguments
are not about steps. `CatalogProofs` shows that `FirstFree` finds a suffix: n slugs
cannot take all of n + 1 candidates (an injection into a smaller set), and of the free
numbers there is a least one. Of pages, it shows that one that is not the last
has a row with exactly `limit - 1` rows ahead of it, since the order is total and the
numbers of rows ahead are distinct. `StartUpProofs` shows that payments come with the
last revision. `TreeIsRooted` needs no more of the invariant than types: the recursion
over levels yields the paths of live categories from a root; two paths to one category
agree from the end backwards, since a row has one parent, so there is at most one and it
is no longer than there are categories; and the categories without a path are together a
set that hangs in the air. The assumptions are those named in each module: tables and
lists are finite, request and row numbers are positive (0 stands for none), and slugs are
not empty.

`FiniteSums` and the tree need induction over sets, sequences and numbers. The library's
induction theorems are out of the provers' reach, because they take an operator as a
parameter; that every non-empty set of numbers has a least element is not, so these
proofs take the least counterexample. A recursive function is shown to exist by giving
one that satisfies its equation.

Only model-checked: `EveryOrderSettled`, `EveryProductPriced` and
`StartedProcessesServe`, which are liveness properties under fairness and out of the
provers' reach, and the properties the code violates.

## Not modelled

* Login and refresh change no row. Refresh tokens are Redis entries with an expiry, each
  written by one request; `revoke` and `revoke_all_for_user` have no caller.
* Code without a caller: `paginate`, `update_price`. `adjust_quantity`, `commit_sale`
  and `release` have none either, but are the operations of `InventoryLedger`.
* Amounts, currencies, snapshots of names and prices: no decision depends on them after
  the validation of a request.
* Malformed cursors, HTTP status codes and formats, headers, logging, password hashing
  and token encoding: they keep no state the properties depend on.
* Column types, defaults, indexes and downgrades of the migrations. `Fulfilment` and the
  services run on the schema of the models; that a migrated database lacks columns of
  the ledger is the finding of `schema_drift`.
* Events other than `OrderCreated` and `ProductCreated` have no handlers, and but for
  those of payments and orders their payloads are left out. (`StockChanged` of a sale
  carries the new quantity as the old one, too: it is built after the update.)

## What is left of the plan

Every finding has a theorem that narrows it to its cause: layer 7 for `twolines` and
`leak`, `NoOversellAlone`, `CounterWithinStock` and `RefusedForWant` for `oversell`,
`NoProductGivenUpUnpriced` for `projection_duplicate` (what is given up after fewer faults
than retries has its price already), `CreatesAndRefundsNothing` for `payment_events`,
`ComparedUpdatesAreSeen` for `unseen_version` and `UpIsMigrated` for `schema_drift`. What
is left is to model the operations of `InventoryLedger` statement by statement, once one
of them besides `reserve` has a caller.
