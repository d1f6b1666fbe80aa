----------------------------- MODULE Fulfilment -----------------------------
(* Order fulfilment over PostgreSQL at READ COMMITTED: API requests that     *)
(* create, confirm, cancel or move an order, and outbox workers (one per API *)
(* process) that deliver OrderCreated to handle_order_created, which         *)
(* reserves stock and decides the order.  Each worker has two database       *)
(* transactions: the outbox one holds the row locks of its batch and commits *)
(* every outcome at the end; the handler one commits per event.  A handler   *)
(* step is one SQL statement, so two handlers interleave between statements. *)
EXTENDS OutboxWorker, OrderStates, Sequences, FiniteSetsExt

CONSTANTS
    Products,
    Carts,        \* item lists an order may have: sequences of [product, quantity]
    StockLevels,  \* initial quantities; 0 also stands for a missing inventory row
                  \* and for a negative quantity: reserve refuses every line of all
    ApiTargets,   \* statuses the API moves orders to
    MaxRequests,  \* bound: status requests between their read and their commit
    MaxFaults     \* bound: crashes, lost connections and transient errors in all

\* Every order has one OrderCreated row, and is named by it.
Orders == Events

Item == [product : Products, quantity : Nat \ {0}]

ASSUME CartsAssumption == Carts \subseteq Seq(Item) \ {<<>>}
\* The tables hold finitely many rows: stock is summed over all orders.
ASSUME OrdersAssumption == IsFiniteSet(Orders)
ASSUME BoundsAssumption ==
    /\ StockLevels \subseteq Nat
    /\ ApiTargets \subseteq OrderStatus
    /\ MaxRequests \in Nat
    /\ MaxFaults \in Nat

VARIABLES
    status,    \* orders.status, or "absent" before the order is created
    version,   \* orders.version_id
    cart,      \* the items in the OrderCreated payload of each order
    announced, \* statuses published by confirm, cancel and transition_status
    quantity,  \* product_inventory.quantity
    reserved,  \* product_inventory.reserved_quantity
    ledger,    \* quantity on the reservation row of order o and product p, 0 if none
    requests,  \* API requests that have read and checked their order
    tx,        \* the handler transaction of each worker
    faults

db == <<status, version, cart, announced, quantity, reserved, ledger>>
wk == <<pc, batch, locks, outcome, tx>>
vars == <<db, outbox, requests, wk, faults>>

Request == [order : Orders, to : OrderStatus, version : Nat]

(* A handler transaction: the order and the version it loaded, the item it   *)
(* is at, the reserved_quantity it read, and its uncommitted writes: rows[p] *)
(* is the quantity on the inserted reservation row, and when it is not 0 the *)
(* inventory row of p is locked and holds value[p].                          *)
Handler == [order : Orders \union {0}, version : Nat, item : Nat \ {0}, read : Nat,
            rows : [Products -> Nat], value : [Products -> Nat]]
NoHandler == [order |-> 0, version |-> 0, item |-> 1, read |-> 0,
              rows |-> [p \in Products |-> 0], value |-> [p \in Products |-> 0]]

Init ==
    /\ status = [o \in Orders |-> "absent"]
    /\ version = [o \in Orders |-> 0]
    /\ cart \in [Orders -> Carts]
    /\ announced = [o \in Orders |-> <<>>]
    /\ quantity \in [Products -> StockLevels]
    /\ reserved = [p \in Products |-> 0]
    /\ ledger = [o \in Orders |-> [p \in Products |-> 0]]
    /\ OutboxInit
    /\ requests = {}
    /\ tx = [w \in Workers |-> NoHandler]
    /\ faults = 0

-----------------------------------------------------------------------------
(* API requests *)

\* Mutant of Current: the mapper has no version column.
CurrentUnchecked(o, v) == TRUE

\* The version column in the WHERE clause of every UPDATE of an order.
Current(o, v) == version[o] = v

\* create_order, past its validation: the order, its items and the
\* OrderCreated row commit together.
CreateOrder(o) ==
    /\ status[o] = "absent"
    /\ status' = [status EXCEPT ![o] = "pending"]
    /\ version' = [version EXCEPT ![o] = 1]
    /\ AppendRow(o)
    /\ UNCHANGED <<cart, announced, quantity, reserved, ledger, requests, wk, faults>>

\* confirm_order, cancel_order and transition_status load the order and check
\* the transition on what they loaded.  A transition that is not allowed is a
\* ValueError: the request ends and nothing has changed.
RequestStatus(o, to) ==
    /\ status[o] # "absent"
    /\ CanTransition(status[o], to)
    /\ Cardinality(requests) < MaxRequests
    /\ requests' = requests \union {[order |-> o, to |-> to, version |-> version[o]]}
    /\ UNCHANGED <<db, outbox, wk, faults>>

\* Their UPDATE ... WHERE version_id = <the version loaded>, event and commit.
CommitStatus(r) ==
    /\ Current(r.order, r.version)
    /\ status' = [status EXCEPT ![r.order] = r.to]
    /\ version' = [version EXCEPT ![r.order] = @ + 1]
    /\ announced' = [announced EXCEPT ![r.order] = Append(@, r.to)]
    /\ requests' = requests \ {r}
    /\ UNCHANGED <<cart, quantity, reserved, ledger, outbox, wk, faults>>

\* The UPDATE matches no row: StaleDataError, rollback.
RejectStatus(r) ==
    /\ ~Current(r.order, r.version)
    /\ requests' = requests \ {r}
    /\ UNCHANGED <<db, outbox, wk, faults>>

-----------------------------------------------------------------------------
(* The worker's steps around the handler *)

Claim(w) == ClaimBatch(w) /\ UNCHANGED <<db, requests, tx, faults>>

StartRow(w) ==
    /\ \E o \in batch[w] :
        /\ TakeRow(w, o, "load")
        /\ tx' = [tx EXCEPT ![w] = [NoHandler EXCEPT !.order = o]]
    /\ UNCHANGED <<db, requests, faults>>

CommitBatch(w) == CommitOutcomes(w) /\ UNCHANGED <<db, requests, tx, faults>>
AbortBatch(w) == AbortProcess(w) /\ UNCHANGED <<db, requests, tx, faults>>
BackoffElapses(o) == RetryDue(o) /\ UNCHANGED <<db, requests, tx, faults>>

-----------------------------------------------------------------------------
(* handle_order_created, in a transaction of its own *)

\* The handler returns or raises: its transaction is over, the loop goes on.
EndHandler(w, result) ==
    /\ RecordOutcome(w, tx[w].order, result)
    /\ tx' = [tx EXCEPT ![w] = NoHandler]

\* Mutant of LoadOrder: no check of the status.
LoadOrderUnchecked(w) ==
    /\ pc[w] = "load"
    /\ pc' = [pc EXCEPT ![w] = "key"]
    /\ tx' = [tx EXCEPT ![w].version = version[tx[w].order]]
    /\ UNCHANGED <<db, outbox, requests, batch, locks, outcome, faults>>

\* The order is loaded and refreshed; one that is no longer PENDING is skipped.
LoadOrder(w) ==
    /\ pc[w] = "load"
    /\ IF status[tx[w].order] = "pending"
       THEN /\ pc' = [pc EXCEPT ![w] = "key"]
            /\ tx' = [tx EXCEPT ![w].version = version[tx[w].order]]
            /\ UNCHANGED <<batch, locks, outcome>>
       ELSE EndHandler(w, "ok")
    /\ UNCHANGED <<db, outbox, requests, faults>>

Items(w) == cart[tx[w].order]
Line(w) == Items(w)[tx[w].item]

\* reserve: a row with this idempotency key, committed or inserted earlier in
\* this transaction, counts as reserved.
FindReservation(w) ==
    /\ pc[w] = "key"
    /\ tx[w].item <= Len(Items(w))
    /\ IF ledger[tx[w].order][Line(w).product] # 0 \/ tx[w].rows[Line(w).product] # 0
       THEN /\ tx' = [tx EXCEPT ![w].item = @ + 1]
            /\ UNCHANGED pc
       ELSE /\ pc' = [pc EXCEPT ![w] = "read"]
            /\ UNCHANGED tx
    /\ UNCHANGED <<db, outbox, requests, batch, locks, outcome, faults>>

\* Mutant of Refused: the last units are never given away.
RefusedTheLast(w) == quantity[Line(w).product] <= reserved[Line(w).product] + Line(w).quantity

\* reserve reads the inventory row without locking it; a missing row or too
\* little available is a refusal.
Refused(w) == quantity[Line(w).product] < reserved[Line(w).product] + Line(w).quantity

ReadStock(w) ==
    /\ pc[w] = "read"
    /\ IF Refused(w)
       THEN /\ pc' = [pc EXCEPT ![w] = "refused"]
            /\ UNCHANGED tx
       ELSE /\ pc' = [pc EXCEPT ![w] = "write"]
            /\ tx' = [tx EXCEPT ![w].read = reserved[Line(w).product]]
    /\ UNCHANGED <<db, outbox, requests, batch, locks, outcome, faults>>

\* The handler transactions that hold the inventory row w is about to update.
Blockers(w) == {v \in Workers \ {w} : pc[w] = "write" /\ tx[v].rows[Line(w).product] # 0}

\* reserve writes the sum it computed from its read, waiting for the row lock,
\* then inserts the reservation; the unique key refuses a second one.
WriteReservation(w) ==
    /\ pc[w] = "write"
    /\ Blockers(w) = {}
    /\ IF ledger[tx[w].order][Line(w).product] = 0
       THEN /\ tx' = [tx EXCEPT ![w].rows[Line(w).product] = Line(w).quantity,
                                ![w].value[Line(w).product] = tx[w].read + Line(w).quantity,
                                ![w].item = @ + 1]
            /\ pc' = [pc EXCEPT ![w] = "key"]
            /\ UNCHANGED <<batch, locks, outcome>>
       ELSE EndHandler(w, "error")
    /\ UNCHANGED <<db, outbox, requests, faults>>

\* PostgreSQL aborts one of the transactions of a cycle of waits.
DeadlockVictim(w) ==
    /\ \E D \in SUBSET Workers : w \in D /\ \A v \in D : Blockers(v) \intersect D # {}
    /\ EndHandler(w, "error")
    /\ UNCHANGED <<db, outbox, requests, faults>>

\* Mutant of StockAfter: the quantity is added again at commit.
StockAfterTwice(w) == [p \in Products |->
    IF tx[w].rows[p] # 0 THEN tx[w].value[p] + tx[w].rows[p] ELSE reserved[p]]

\* The committed rows with the writes of w's handler applied.
StockAfter(w) == [p \in Products |->
    IF tx[w].rows[p] # 0 THEN tx[w].value[p] ELSE reserved[p]]
LedgerAfter(w) == [ledger EXCEPT ![tx[w].order] = [p \in Products |->
    IF tx[w].rows[p] # 0 THEN tx[w].rows[p] ELSE @[p]]]

\* The last flush and the commit.  The decision and the reservations made so
\* far commit together if the order's version is still the one loaded.
Decide(w, decision) ==
    LET o == tx[w].order IN
    /\ IF Current(o, tx[w].version)
       THEN /\ status' = [status EXCEPT ![o] = decision]
            /\ version' = [version EXCEPT ![o] = @ + 1]
            /\ reserved' = StockAfter(w)
            /\ ledger' = LedgerAfter(w)
            /\ EndHandler(w, "ok")
       ELSE /\ EndHandler(w, "error")
            /\ UNCHANGED <<status, version, reserved, ledger>>
    /\ UNCHANGED <<cart, announced, quantity, outbox, requests, faults>>

ConfirmOrder(w) ==
    /\ pc[w] = "key"
    /\ tx[w].item > Len(Items(w))
    /\ Decide(w, "confirmed")

\* Mutant of CancelOrder: a refusal does not spoil all_succeeded.
CancelOrderIgnored(w) ==
    /\ pc[w] = "refused"
    /\ Decide(w, "confirmed")

CancelOrder(w) ==
    /\ pc[w] = "refused"
    /\ Decide(w, "cancelled")

-----------------------------------------------------------------------------
(* Faults, MaxFaults of them at most *)

\* Both transactions of the process are rolled back.
Crash(w) ==
    /\ CrashProcess(w)
    /\ tx' = [tx EXCEPT ![w] = NoHandler]
    /\ UNCHANGED <<db, requests>>

LoseConnection(w) == LoseLocks(w) /\ UNCHANGED <<db, requests, tx>>

\* A statement of the handler fails (no pooled connection, connection reset).
HandlerFails(w) ==
    /\ InHandler(w)
    /\ EndHandler(w, "error")
    /\ UNCHANGED <<db, outbox, requests>>

Fault(w) ==
    /\ faults < MaxFaults
    /\ faults' = faults + 1
    /\ Crash(w) \/ LoseConnection(w) \/ HandlerFails(w)

-----------------------------------------------------------------------------
HandlerStep(w) ==
    \/ LoadOrder(w) \/ FindReservation(w) \/ ReadStock(w) \/ WriteReservation(w)
    \/ DeadlockVictim(w) \/ ConfirmOrder(w) \/ CancelOrder(w)

WorkerStep(w) ==
    \/ Claim(w) \/ StartRow(w) \/ CommitBatch(w) \/ AbortBatch(w) \/ HandlerStep(w)

ApiStep ==
    \/ \E o \in Orders : CreateOrder(o) \/ \E to \in ApiTargets : RequestStatus(o, to)
    \/ \E r \in requests : CommitStatus(r) \/ RejectStatus(r)

Next ==
    \/ ApiStep
    \/ \E o \in Orders : BackoffElapses(o)
    \/ \E w \in Workers : WorkerStep(w) \/ Fault(w)

Spec == Init /\ [][Next]_vars

\* run_forever polls as long as the process lives, and a backoff ends.
Fairness ==
    /\ \A w \in Workers : WF_vars(WorkerStep(w))
    /\ \A o \in Orders : WF_vars(BackoffElapses(o))

FairSpec == Spec /\ Fairness

-----------------------------------------------------------------------------
(* Properties *)

Decided(o) == status[o] \notin {"absent", "pending"}
Reserves(o) == \E p \in Products : ledger[o][p] # 0
LedgerSum(p) == MapThenSumSet(LAMBDA o : ledger[o][p], Orders)

\* Every variable has its type; in particular no committed row is PROCESSING.
TypeOK ==
    /\ status \in [Orders -> OrderStatus \union {"absent"}]
    /\ version \in [Orders -> Nat]
    /\ cart \in [Orders -> Carts]
    /\ announced \in [Orders -> Seq(OrderStatus)]
    /\ quantity \in [Products -> Nat]
    /\ reserved \in [Products -> Nat]
    /\ ledger \in [Orders -> [Products -> Nat]]
    /\ outbox \in [Orders -> Row]
    /\ requests \in SUBSET Request
    /\ pc \in [Workers -> {"idle", "row", "load", "key", "read", "write", "refused"}]
    /\ batch \in [Workers -> SUBSET Orders]
    /\ locks \in [Workers -> SUBSET Orders]
    /\ outcome \in [Workers -> [Orders -> {"none", "ok", "error"}]]
    /\ tx \in [Workers -> Handler]
    /\ \A w \in Workers : InHandler(w) => tx[w].order \in Orders
    /\ faults \in 0..MaxFaults

\* An order that is not decided holds no stock, whatever workers, retries,
\* crashes and rollbacks did before: the reservations of handle_order_created
\* become visible with its decision or not at all.
PendingHoldsNothing == \A o \in Orders : Reserves(o) => Decided(o)

\* Of all deliveries of one OrderCreated, at most one ever decides the order;
\* every other version step is an API transition with its own event, and stock
\* is held only by orders a handler decided.
HandlerDecidesOnce ==
    \A o \in Orders : status[o] # "absent" =>
        LET silent == version[o] - (1 + Len(announced[o]))
        IN silent \in {0, 1} /\ (Reserves(o) => silent = 1)

\* An order the handler confirmed has a reservation for every product in it.
HandlerConfirmed(o) == status[o] = "confirmed" /\ announced[o] = <<>>
ConfirmedReservesEveryProduct ==
    \A o \in Orders : HandlerConfirmed(o) =>
        \A i \in DOMAIN cart[o] : ledger[o][cart[o][i].product] # 0

\* A row is COMPLETED only after its order left PENDING: a delivery is never
\* acknowledged without its effect.
CompletedMeansDecided ==
    \A o \in Orders : outbox[o].status = "completed" => Decided(o)

\* Two handlers that read the same reserved_quantity lose an update, never gain
\* one: the counter is at most what the reservation rows add up to.
CounterWithinLedger == \A p \in Products : reserved[p] <= LedgerSum(p)

\* With a single worker the counter is exact.
CounterMatchesLedger == \A p \in Products : reserved[p] = LedgerSum(p)

\* No more stock is promised than there is.
NoOversell == \A p \in Products : LedgerSum(p) <= quantity[p]

\* The abstract specification, whose Decide is one atomic step.
Decision == INSTANCE OrderDecision
ImplementsOrderDecision == Decision!Spec

\* What an order holds is for good what its handler took, whatever the API does
\* to the order before or after: nothing if the API moved it first, even if it
\* confirmed it; and all its lines if the handler confirmed it, even if the API
\* cancelled it since.
HandlerDecided(o) == version[o] = 2 + Len(announced[o])
HoldingsAreDecisions ==
    \A o \in Orders :
        IF HandlerDecided(o)
        THEN \E n \in 0..Len(cart[o]) :
                /\ ledger[o] = Decision!Taken(cart[o], n)
                /\ n = Len(cart[o]) <=> status[o] # "cancelled" \/ announced[o] # <<>>
        ELSE ~Reserves(o)

\* A handler cancels an order only for want of stock: although it compares with
\* a counter that lost updates have spoilt, one line it refused is for more than
\* the reservation rows leave of its product, then and ever after.
HandlerCancelled(o) == status[o] = "cancelled" /\ announced[o] = <<>>
CancelledForWantOfStock ==
    \A o \in Orders : HandlerCancelled(o) =>
        \E i \in DOMAIN cart[o] : LET p == cart[o][i].product IN
            ledger[o][p] = 0 /\ quantity[p] < LedgerSum(p) + cart[o][i].quantity

\* Stock promised to a cancelled order: what a refusal in mid-order leaves.
CancelledHoldsNothing == \A o \in Orders : HandlerCancelled(o) => ~Reserves(o)

\* A confirmed order holds all it asked for, line by line.
Asked(o, p) == MapThenSumSet(LAMBDA i : IF cart[o][i].product = p
                                        THEN cart[o][i].quantity ELSE 0, DOMAIN cart[o])
ConfirmedReservesItsCart ==
    \A o \in Orders : HandlerConfirmed(o) => \A p \in Products : ledger[o][p] = Asked(o, p)

\* Every status change is one OrderStateMachine allows, although each request
\* and each handler checks it on a copy it read some steps before.
StatusStep == \A o \in Orders : status[o] # "absent" =>
                  status'[o] = status[o] \/ CanTransition(status[o], status'[o])
StepsFollowTransitions == [][StatusStep]_vars

\* A COMPLETED or FAILED row is never touched again, although workers write
\* back outcomes they computed long after they claimed the row.
FinalRowStep == \A o \in Orders :
    outbox[o].status \in {"completed", "failed"} => outbox'[o] = outbox[o]
FinalRowsStay == [][FinalRowStep]_vars

\* No order is left PENDING for ever unless its event used up its retries:
\* crashes, lost connections, deadlocks and rollbacks only delay the decision.
EveryOrderSettled ==
    \A o \in Orders :
        status[o] = "pending" ~> Decided(o) \/ outbox[o].status = "failed"

=============================================================================
