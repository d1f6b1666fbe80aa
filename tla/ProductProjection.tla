------------------------- MODULE ProductProjection -------------------------
(* What becomes of a new product: create_product appends ProductCreated, and *)
(* the outbox worker calls pricing_handler and then inventory_handler, each  *)
(* of which inserts a row under the primary key product_id and commits.  The *)
(* API takes orders for a product as soon as it has a price; their own rows  *)
(* go through the same workers.  Initial quantities cover every order, so an *)
(* order is refused only when it does not find the inventory row.            *)
EXTENDS OutboxWorker

CONSTANTS
    Products,   \* the events that are ProductCreated; the others are OrderCreated
    ProductOf,  \* the product of each order
    MaxFaults   \* bound: crashes, lost connections and transient errors in all

Orders == Events \ Products

ASSUME ProductsAssumption == Products \subseteq Events /\ ProductOf \in [Orders -> Products]
ASSUME FaultsAssumption == MaxFaults \in Nat

VARIABLES
    created,   \* products that exist
    priced,    \* products with a product_pricing row
    stocked,   \* products with a product_inventory row
    status,    \* orders.status, or "absent"
    event,     \* the row a worker is delivering, 0 if none
    faults

db == <<created, priced, stocked, status>>
vars == <<db, outbox, pc, batch, locks, outcome, event, faults>>

Init ==
    /\ created = {} /\ priced = {} /\ stocked = {}
    /\ status = [o \in Orders |-> "absent"]
    /\ OutboxInit
    /\ event = [w \in Workers |-> 0]
    /\ faults = 0

-----------------------------------------------------------------------------
(* API requests *)

\* The product and its ProductCreated row commit together.
CreateProduct(p) ==
    /\ p \notin created
    /\ created' = created \union {p}
    /\ AppendRow(p)
    /\ UNCHANGED <<priced, stocked, status, pc, batch, locks, outcome, event, faults>>

\* Mutant of CreateOrder: the price is not asked for.
CreateOrderUnpriced(o) ==
    /\ status[o] = "absent"
    /\ ProductOf[o] \in created
    /\ status' = [status EXCEPT ![o] = "pending"]
    /\ AppendRow(o)
    /\ UNCHANGED <<created, priced, stocked, pc, batch, locks, outcome, event, faults>>

\* create_order wants the product and its price; an inventory row it can do
\* without.
CreateOrder(o) ==
    /\ status[o] = "absent"
    /\ ProductOf[o] \in created /\ ProductOf[o] \in priced
    /\ status' = [status EXCEPT ![o] = "pending"]
    /\ AppendRow(o)
    /\ UNCHANGED <<created, priced, stocked, pc, batch, locks, outcome, event, faults>>

-----------------------------------------------------------------------------
(* The worker's steps around the handlers *)

\* The point at which the handler list of an event starts.
FirstHandler(e) == IF e \in Products THEN "pricing" ELSE "order"

Claim(w) == ClaimBatch(w) /\ UNCHANGED <<db, event, faults>>

StartRow(w) ==
    /\ \E e \in batch[w] : /\ TakeRow(w, e, FirstHandler(e))
                           /\ event' = [event EXCEPT ![w] = e]
    /\ UNCHANGED <<db, faults>>

CommitBatch(w) == CommitOutcomes(w) /\ UNCHANGED <<db, event, faults>>
AbortBatch(w) == AbortProcess(w) /\ UNCHANGED <<db, event, faults>>
BackoffElapses(e) == RetryDue(e) /\ UNCHANGED <<db, event, faults>>

\* The next handler of the event starts.
GoTo(w, point) == pc' = [pc EXCEPT ![w] = point] /\ UNCHANGED <<batch, locks, outcome, event>>

\* The last handler returned, or one raised and the others are not called.
EndDelivery(w, result) ==
    /\ RecordOutcome(w, event[w], result)
    /\ event' = [event EXCEPT ![w] = 0]

\* Mutant of AfterPricing: an event has one handler.
AfterPricingNothing(w) == EndDelivery(w, "ok")

AfterPricing(w) == GoTo(w, "inventory")

-----------------------------------------------------------------------------
(* The handlers *)

\* Mutant of InsertPricing: the unit of work is left without its commit.
InsertPricingUncommitted(w) ==
    /\ pc[w] = "pricing"
    /\ IF event[w] \notin priced THEN AfterPricing(w) ELSE EndDelivery(w, "error")
    /\ UNCHANGED <<db, outbox, faults>>

\* pricing_handler: INSERT and commit, or an IntegrityError when the product
\* has its price already.
InsertPricing(w) ==
    /\ pc[w] = "pricing"
    /\ IF event[w] \notin priced
       THEN priced' = priced \union {event[w]} /\ AfterPricing(w)
       ELSE EndDelivery(w, "error") /\ UNCHANGED priced
    /\ UNCHANGED <<created, stocked, status, outbox, faults>>

\* inventory_handler: the inventory row and the transaction row of its initial
\* quantity, or an IntegrityError.
InsertInventory(w) ==
    /\ pc[w] = "inventory"
    /\ IF event[w] \notin stocked
       THEN stocked' = stocked \union {event[w]} /\ EndDelivery(w, "ok")
       ELSE EndDelivery(w, "error") /\ UNCHANGED stocked
    /\ UNCHANGED <<created, priced, status, outbox, faults>>

\* handle_order_created skips an order that is not PENDING and looks for the
\* inventory row of its product.  A decision made between the two reads fails
\* at the commit, so one step is enough.
LookUpStock(w) ==
    /\ pc[w] = "order"
    /\ IF status[event[w]] = "pending"
       THEN GoTo(w, IF ProductOf[event[w]] \in stocked THEN "confirm" ELSE "cancel")
       ELSE EndDelivery(w, "ok")
    /\ UNCHANGED <<db, outbox, faults>>

Decision(point) == IF point = "confirm" THEN "confirmed" ELSE "cancelled"

\* It commits its decision, unless another delivery has decided the order.
DecideOrder(w) ==
    /\ pc[w] \in {"confirm", "cancel"}
    /\ IF status[event[w]] = "pending"
       THEN /\ status' = [status EXCEPT ![event[w]] = Decision(pc[w])]
            /\ EndDelivery(w, "ok")
       ELSE EndDelivery(w, "error") /\ UNCHANGED status
    /\ UNCHANGED <<created, priced, stocked, outbox, faults>>

-----------------------------------------------------------------------------
(* Faults, MaxFaults of them at most *)

Crash(w) == CrashProcess(w) /\ event' = [event EXCEPT ![w] = 0]
LoseConnection(w) == LoseLocks(w) /\ UNCHANGED event

HandlerFails(w) == InHandler(w) /\ EndDelivery(w, "error") /\ UNCHANGED outbox

Fault(w) ==
    /\ faults < MaxFaults
    /\ faults' = faults + 1
    /\ Crash(w) \/ LoseConnection(w) \/ HandlerFails(w)
    /\ UNCHANGED db

-----------------------------------------------------------------------------
WorkerStep(w) ==
    \/ Claim(w) \/ StartRow(w) \/ CommitBatch(w) \/ AbortBatch(w)
    \/ InsertPricing(w) \/ InsertInventory(w) \/ LookUpStock(w) \/ DecideOrder(w)

Next ==
    \/ \E p \in Products : CreateProduct(p)
    \/ \E o \in Orders : CreateOrder(o)
    \/ \E e \in Events : BackoffElapses(e)
    \/ \E w \in Workers : WorkerStep(w) \/ Fault(w)

Spec == Init /\ [][Next]_vars

\* run_forever polls as long as the process lives, and a backoff ends.
Fairness ==
    /\ \A w \in Workers : WF_vars(WorkerStep(w))
    /\ \A e \in Events : WF_vars(BackoffElapses(e))

FairSpec == Spec /\ Fairness

-----------------------------------------------------------------------------
(* Properties *)

Points == {"idle", "row", "pricing", "inventory", "order", "confirm", "cancel"}

\* Every variable has its type, and a worker in a handler delivers an event the
\* handler is registered for.
TypeOK ==
    /\ created \subseteq Products /\ priced \subseteq Products /\ stocked \subseteq Products
    /\ status \in [Orders -> {"absent", "pending", "confirmed", "cancelled"}]
    /\ outbox \in [Events -> Row]
    /\ pc \in [Workers -> Points]
    /\ batch \in [Workers -> SUBSET Events]
    /\ locks \in [Workers -> SUBSET Events]
    /\ outcome \in [Workers -> [Events -> {"none", "ok", "error"}]]
    /\ event \in [Workers -> Events \union {0}]
    /\ \A w \in Workers : /\ pc[w] \in {"pricing", "inventory"} => event[w] \in Products
                          /\ pc[w] \in {"order", "confirm", "cancel"} => event[w] \in Orders
    /\ faults \in 0..MaxFaults

\* A ProductCreated row is COMPLETED only when the product has both its
\* projections, although each was committed by a transaction of its own, maybe
\* in different deliveries, and the row by a third.
CompletedMeansProjected ==
    \A p \in Products : outbox[p].status = "completed" => p \in priced \intersect stocked

\* No product has stock and no price, whatever was delivered twice or half: the
\* handlers run one after the other, and the second only when the first has
\* returned.  Were they independent, as docs/events.md:138 has it, a failure of
\* the first would leave such a product; GivenUpIsStocked is about that promise.
StockedMeansPriced == stocked \subseteq priced

\* While nothing fails, SKIP LOCKED makes every delivery the only one: none
\* meets a row an earlier delivery left, and none is retried.
NoErrorWithoutFault ==
    faults = 0 => /\ \A e \in Events : outbox[e].retries = 0
                  /\ \A w \in Workers, e \in Events : outcome[w][e] # "error"

\* One worker delivers in order, whatever created_at says: an order placed
\* between the two handlers of its product is delivered after the second, and
\* is never refused.
NoOrderOvertakesItsProduct == \A o \in Orders : status[o] # "cancelled"

\* With fewer faults than retries a product is given up only after its price
\* was committed: what exhausts the retries is the first handler meeting its own row.
GivenUpIsPriced ==
    faults < MaxRetries => \A p \in Products : outbox[p].status = "failed" => p \in priced

\* Every product gets its price in the end, if faults are fewer than retries.
EveryProductPriced == \A p \in Products : p \in created ~> p \in priced

\* A product whose event is given up after fewer faults than retries has stock.
\* docs/events.md promises it twice: if a consumer skips what is already there
\* (line 127), a delivery without a fault creates the inventory row; and if the
\* two handlers are independent (line 138), a failure of the pricing handler
\* does not keep the inventory handler from creating it.
GivenUpIsStocked ==
    faults < MaxRetries => \A p \in Products : outbox[p].status = "failed" => p \in stocked

=============================================================================
