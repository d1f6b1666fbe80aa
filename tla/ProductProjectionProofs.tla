---------------------- MODULE ProductProjectionProofs ----------------------
(* Theorems about ProductProjection, for every set of products, orders and   *)
(* workers, every retry limit and batch size, and any number of faults.      *)
EXTENDS ProductProjection, TLAPS

\* The actions wrap those of OutboxWorker.
USE DEF Orders, AppendRow, ClaimBatch, TakeRow, RecordOutcome, CommitOutcomes,
        AbortProcess, RetryDue, CrashProcess, LoseLocks

-----------------------------------------------------------------------------
(* Types *)

\* The row that settles a delivery is a row.
LEMMA RowAfterType ==
    ASSUME NEW row \in Row, NEW result \in {"none", "ok", "error"}
    PROVE  RowAfter(row, result) \in Row
BY WorkerAssumption DEF Row, EventStatus, RowAfter, Completed, AfterFailure

\* The end of a delivery keeps the types of the worker's variables.
LEMMA EndDeliveryType ==
    ASSUME TypeOK, NEW w \in Workers, NEW result \in {"ok", "error"}, EndDelivery(w, result)
    PROVE  /\ pc' \in [Workers -> Points]
           /\ batch' \in [Workers -> SUBSET Events]
           /\ locks' \in [Workers -> SUBSET Events]
           /\ outcome' \in [Workers -> [Events -> {"none", "ok", "error"}]]
           /\ event' \in [Workers -> Events \union {0}]
           /\ \A v \in Workers :
                /\ pc'[v] \in {"pricing", "inventory"} => event'[v] \in Products
                /\ pc'[v] \in {"order", "confirm", "cancel"} => event'[v] \in Orders
<1>1. outcome' \in [Workers -> [Events -> {"none", "ok", "error"}]]
  BY DEF TypeOK, EndDelivery
<1>2. \A v \in Workers : v # w => pc'[v] = pc[v] /\ event'[v] = event[v]
  BY DEF TypeOK, EndDelivery
<1>3. pc'[w] = "row"
  BY DEF TypeOK, EndDelivery
<1> QED
  BY <1>1, <1>2, <1>3 DEF TypeOK, EndDelivery, Points

\* So does going on to the next handler.
LEMMA GoToType ==
    ASSUME TypeOK, NEW w \in Workers, NEW point, GoTo(w, point),
           \/ point = "inventory" /\ event[w] \in Products
           \/ point \in {"confirm", "cancel"} /\ event[w] \in Orders
    PROVE  /\ pc' \in [Workers -> Points]
           /\ batch' \in [Workers -> SUBSET Events]
           /\ locks' \in [Workers -> SUBSET Events]
           /\ outcome' \in [Workers -> [Events -> {"none", "ok", "error"}]]
           /\ event' \in [Workers -> Events \union {0}]
           /\ \A v \in Workers :
                /\ pc'[v] \in {"pricing", "inventory"} => event'[v] \in Products
                /\ pc'[v] \in {"order", "confirm", "cancel"} => event'[v] \in Orders
BY DEF TypeOK, GoTo, Points

\* And so does the end of process_once.
LEMMA EndProcessType ==
    ASSUME TypeOK, NEW w \in Workers, EndProcess(w),
           event' = event \/ event' = [event EXCEPT ![w] = 0]
    PROVE  /\ pc' \in [Workers -> Points]
           /\ batch' \in [Workers -> SUBSET Events]
           /\ locks' \in [Workers -> SUBSET Events]
           /\ outcome' \in [Workers -> [Events -> {"none", "ok", "error"}]]
           /\ event' \in [Workers -> Events \union {0}]
           /\ \A v \in Workers :
                /\ pc'[v] \in {"pricing", "inventory"} => event'[v] \in Products
                /\ pc'[v] \in {"order", "confirm", "cancel"} => event'[v] \in Orders
<1>1. NoOutcome \in [Events -> {"none", "ok", "error"}]
  BY DEF NoOutcome
<1>2. outcome' \in [Workers -> [Events -> {"none", "ok", "error"}]]
  BY <1>1 DEF TypeOK, EndProcess
<1>3. /\ pc'[w] = "idle"
      /\ \A v \in Workers : v # w => pc'[v] = pc[v] /\ event'[v] = event[v]
  BY DEF TypeOK, EndProcess
<1> QED
  BY <1>2, <1>3 DEF TypeOK, EndProcess, Points

LEMMA TypeInit == Init => TypeOK
BY FaultsAssumption, ProductsAssumption
   DEF Init, OutboxInit, TypeOK, NoRow, NewRow, Row, EventStatus, NoOutcome, Points

\* Each request of the API keeps the types.
LEMMA TypeApi ==
    ASSUME TypeOK,
           \/ \E p \in Products : CreateProduct(p)
           \/ \E o \in Orders : CreateOrder(o)
           \/ \E e \in Events : BackoffElapses(e)
    PROVE  TypeOK'
<1>1. NewRow \in Row
  BY DEF NewRow, Row, EventStatus
<1>2. ASSUME NEW p \in Products, CreateProduct(p) PROVE TypeOK'
  BY <1>1, <1>2, ProductsAssumption DEF TypeOK, CreateProduct
<1>3. ASSUME NEW o \in Orders, CreateOrder(o) PROVE TypeOK'
  BY <1>1, <1>3 DEF TypeOK, CreateOrder
<1>4. ASSUME NEW e \in Events, BackoffElapses(e) PROVE TypeOK'
  <2>1. [outbox[e] EXCEPT !.next = "due"] \in Row
    BY DEF TypeOK, Row
  <2>2. outbox' \in [Events -> Row]
    BY <1>4, <2>1 DEF BackoffElapses, TypeOK
  <2> QED
    BY <1>4, <2>2 DEF TypeOK, BackoffElapses, db
<1> QED
  BY <1>2, <1>3, <1>4

\* Each step of a worker keeps the types.
LEMMA TypeWorker ==
    ASSUME TypeOK, NEW w \in Workers, WorkerStep(w)
    PROVE  TypeOK'
<1>1. CASE Claim(w)
  <2>1. OldestOf(Claimable) \subseteq Events
    BY DEF OldestOf, Claimable
  <2> QED
    BY <1>1, <2>1 DEF TypeOK, Claim, db, Points
<1>2. CASE StartRow(w)
  <2>1. PICK e \in batch[w] : TakeRow(w, e, FirstHandler(e)) /\ event' = [event EXCEPT ![w] = e]
    BY <1>2 DEF StartRow
  <2>2. e \in Events
    BY DEF TypeOK
  <2>3. \/ e \in Products /\ FirstHandler(e) = "pricing"
        \/ e \in Orders /\ FirstHandler(e) = "order"
    BY <2>2 DEF FirstHandler
  <2>4. event'[w] = e /\ pc'[w] = FirstHandler(e)
    BY <2>1 DEF TypeOK
  <2>5. \A v \in Workers : v # w => event'[v] = event[v] /\ pc'[v] = pc[v]
    BY <2>1 DEF TypeOK
  <2> QED
    BY <1>2, <2>1, <2>2, <2>3, <2>4, <2>5 DEF TypeOK, StartRow, db, Points
<1>3. CASE CommitBatch(w)
  <2>1. \A e \in Events : RowAfter(outbox[e], outcome[w][e]) \in Row
    BY RowAfterType DEF TypeOK
  <2>2. outbox' \in [Events -> Row]
    BY <1>3, <2>1 DEF CommitBatch
  <2> QED
    BY <1>3, <2>2, EndProcessType DEF TypeOK, CommitBatch, db
<1>4. CASE AbortBatch(w)
  BY <1>4, EndProcessType DEF TypeOK, AbortBatch, db
<1>5. CASE InsertPricing(w)
  <2>1. event[w] \in Products
    BY <1>5 DEF InsertPricing, TypeOK
  <2>2. CASE event[w] \notin priced
    <3>1. GoTo(w, "inventory")
      BY <1>5, <2>2 DEF InsertPricing, AfterPricing
    <3> QED
      BY <1>5, <2>1, <2>2, <3>1, GoToType DEF TypeOK, InsertPricing
  <2>3. CASE event[w] \in priced
    BY <1>5, <2>3, EndDeliveryType DEF TypeOK, InsertPricing
  <2> QED
    BY <2>2, <2>3
<1>6. CASE InsertInventory(w)
  <2>1. event[w] \in Products
    BY <1>6 DEF InsertInventory, TypeOK
  <2>2. PICK result \in {"ok", "error"} : EndDelivery(w, result)
    BY <1>6 DEF InsertInventory
  <2> QED
    BY <1>6, <2>1, <2>2, EndDeliveryType DEF TypeOK, InsertInventory
<1>7. CASE LookUpStock(w)
  <2>1. event[w] \in Orders
    BY <1>7 DEF LookUpStock, TypeOK
  <2>2. CASE status[event[w]] = "pending"
    <3>1. PICK point \in {"confirm", "cancel"} : GoTo(w, point)
      BY <1>7, <2>2 DEF LookUpStock
    <3> QED
      BY <1>7, <2>1, <3>1, GoToType DEF TypeOK, LookUpStock, db
  <2>3. CASE status[event[w]] # "pending"
    BY <1>7, <2>3, EndDeliveryType DEF TypeOK, LookUpStock, db
  <2> QED
    BY <2>2, <2>3
<1>8. CASE DecideOrder(w)
  <2>1. event[w] \in Orders
    BY <1>8 DEF DecideOrder, TypeOK
  <2>2. PICK result \in {"ok", "error"} : EndDelivery(w, result)
    BY <1>8 DEF DecideOrder
  <2>3. status' \in [Orders -> {"absent", "pending", "confirmed", "cancelled"}]
    BY <1>8 DEF DecideOrder, Decision, TypeOK
  <2> QED
    BY <1>8, <2>2, <2>3, EndDeliveryType DEF TypeOK, DecideOrder
<1> QED
  BY <1>1, <1>2, <1>3, <1>4, <1>5, <1>6, <1>7, <1>8 DEF WorkerStep

\* Each fault keeps the types.
LEMMA TypeFault ==
    ASSUME TypeOK, NEW w \in Workers, Fault(w)
    PROVE  TypeOK'
<1>1. faults' \in 0..MaxFaults
  BY FaultsAssumption DEF Fault, TypeOK
<1>2. CASE Crash(w)
  BY <1>1, <1>2, EndProcessType DEF TypeOK, Fault, Crash, db
<1>3. CASE LoseConnection(w)
  BY <1>1, <1>3 DEF TypeOK, Fault, LoseConnection, db
<1>4. CASE HandlerFails(w)
  BY <1>1, <1>4, EndDeliveryType DEF TypeOK, Fault, HandlerFails, db
<1> QED
  BY <1>2, <1>3, <1>4 DEF Fault

LEMMA TypeStep == TypeOK /\ [Next]_vars => TypeOK'
<1> SUFFICES ASSUME TypeOK, [Next]_vars PROVE TypeOK'
  OBVIOUS
<1>1. CASE UNCHANGED vars
  BY <1>1 DEF TypeOK, vars, db
<1>2. CASE Next
  BY <1>2, TypeApi, TypeWorker, TypeFault DEF Next
<1> QED
  BY <1>1, <1>2

\* Every variable keeps its type; no committed outbox row is ever PROCESSING.
THEOREM TypeCorrect == Spec => []TypeOK
BY TypeInit, TypeStep, PTL DEF Spec

-----------------------------------------------------------------------------
(* Projections *)

\* What a delivery of ProductCreated has done so far is in the database, and
\* stays there: nothing deletes a projection.
HandlersInOrder == \A w \in Workers : pc[w] = "inventory" => event[w] \in priced

OutcomesProjected ==
    \A w \in Workers, p \in Products : outcome[w][p] = "ok" => p \in priced \intersect stocked

ProjectionInv ==
    /\ TypeOK
    /\ StockedMeansPriced
    /\ HandlersInOrder
    /\ OutcomesProjected
    /\ CompletedMeansProjected

LEMMA ProjectionInit == Init => ProjectionInv
<1> SUFFICES ASSUME Init PROVE ProjectionInv
  OBVIOUS
<1>1. TypeOK
  BY TypeInit
<1>2. CompletedMeansProjected
  <2>1. NoRow.status = "absent"
    BY DEF NoRow, NewRow
  <2> QED
    BY <2>1, ProductsAssumption DEF Init, OutboxInit, CompletedMeansProjected
<1>3. OutcomesProjected
  BY ProductsAssumption DEF Init, OutboxInit, OutcomesProjected, NoOutcome
<1> QED
  BY <1>1, <1>2, <1>3 DEF Init, OutboxInit, ProjectionInv, StockedMeansPriced, HandlersInOrder

\* A delivery that ends with an error, or with "ok" for an event that is not a
\* product or has both its projections, leaves no false claim.
LEMMA EndDeliveryProjected ==
    ASSUME ProjectionInv, NEW w \in Workers, NEW result \in {"ok", "error"},
           EndDelivery(w, result), priced \subseteq priced', stocked \subseteq stocked',
           result = "ok" /\ event[w] \in Products => event[w] \in priced' \intersect stocked'
    PROVE  HandlersInOrder' /\ OutcomesProjected'
<1>1. pc'[w] = "row" /\ \A v \in Workers : v # w => pc'[v] = pc[v] /\ event'[v] = event[v]
  BY DEF EndDelivery, ProjectionInv, TypeOK
<1>2. \A v \in Workers, e \in Events :
        outcome'[v][e] = IF v = w /\ e = event[w] THEN result ELSE outcome[v][e]
  BY DEF EndDelivery, ProjectionInv, TypeOK
<1>3. HandlersInOrder'
  BY <1>1 DEF HandlersInOrder, ProjectionInv
<1>4. OutcomesProjected'
  BY <1>2, ProductsAssumption DEF OutcomesProjected, ProjectionInv
<1> QED
  BY <1>3, <1>4

\* The end of process_once forgets its outcomes.
LEMMA EndProcessProjected ==
    ASSUME ProjectionInv, NEW w \in Workers, EndProcess(w),
           UNCHANGED <<priced, stocked>>, event' = event \/ event' = [event EXCEPT ![w] = 0]
    PROVE  HandlersInOrder' /\ OutcomesProjected'
<1>1. pc'[w] = "idle" /\ \A v \in Workers : v # w => pc'[v] = pc[v] /\ event'[v] = event[v]
  BY DEF EndProcess, ProjectionInv, TypeOK
<1>2. \A v \in Workers, e \in Events :
        outcome'[v][e] = IF v = w THEN "none" ELSE outcome[v][e]
  BY DEF EndProcess, NoOutcome, ProjectionInv, TypeOK
<1>3. HandlersInOrder'
  BY <1>1 DEF HandlersInOrder, ProjectionInv
<1>4. OutcomesProjected'
  BY <1>2, ProductsAssumption DEF OutcomesProjected, ProjectionInv
<1> QED
  BY <1>3, <1>4

\* A batch completes only rows whose outcome is "ok".
LEMMA RowAfterCompleted ==
    ASSUME NEW row \in Row, NEW result \in {"none", "ok", "error"},
           RowAfter(row, result).status = "completed"
    PROVE  row.status = "completed" \/ result = "ok"
<1>1. CASE result = "error"
  <2>1. RowAfter(row, result) = AfterFailure(row)
    BY <1>1 DEF RowAfter
  <2> QED
    BY <2>1 DEF AfterFailure
<1>2. CASE result = "none"
  BY <1>2 DEF RowAfter
<1> QED
  BY <1>1, <1>2

LEMMA ProjectionWorker ==
    ASSUME ProjectionInv, NEW w \in Workers, WorkerStep(w), TypeOK'
    PROVE  ProjectionInv'
<1> USE DEF ProjectionInv
<1>1. CASE Claim(w)
  BY <1>1 DEF Claim, db, TypeOK, StockedMeansPriced, HandlersInOrder, OutcomesProjected,
              CompletedMeansProjected
<1>2. CASE StartRow(w)
  <2>1. PICK e \in batch[w] : TakeRow(w, e, FirstHandler(e)) /\ event' = [event EXCEPT ![w] = e]
    BY <1>2 DEF StartRow
  <2>2. pc'[w] # "inventory"
    BY <2>1 DEF FirstHandler, TypeOK
  <2>3. \A v \in Workers : v # w => event'[v] = event[v] /\ pc'[v] = pc[v]
    BY <2>1 DEF TypeOK
  <2>4. HandlersInOrder'
    BY <1>2, <2>2, <2>3 DEF StartRow, db, HandlersInOrder
  <2> QED
    BY <1>2, <2>1, <2>4 DEF StartRow, db, StockedMeansPriced, OutcomesProjected,
                            CompletedMeansProjected
<1>3. CASE CommitBatch(w)
  <2>1. HandlersInOrder' /\ OutcomesProjected'
    BY <1>3, EndProcessProjected DEF CommitBatch, db
  <2>2. \A p \in Products :
          outbox'[p].status = "completed" => outbox[p].status = "completed" \/ outcome[w][p] = "ok"
    BY <1>3, RowAfterCompleted, ProductsAssumption DEF CommitBatch, TypeOK
  <2>3. CompletedMeansProjected'
    BY <1>3, <2>2 DEF CommitBatch, db, CompletedMeansProjected, OutcomesProjected
  <2> QED
    BY <1>3, <2>1, <2>3 DEF CommitBatch, db, StockedMeansPriced
<1>4. CASE AbortBatch(w)
  <2>1. HandlersInOrder' /\ OutcomesProjected'
    BY <1>4, EndProcessProjected DEF AbortBatch, db
  <2> QED
    BY <1>4, <2>1 DEF AbortBatch, db, StockedMeansPriced, CompletedMeansProjected
<1>5. CASE InsertPricing(w)
  <2>1. CompletedMeansProjected' /\ StockedMeansPriced'
    BY <1>5 DEF InsertPricing, CompletedMeansProjected, StockedMeansPriced
  <2>2. CASE event[w] \notin priced
    <3>1. GoTo(w, "inventory") /\ event[w] \in priced'
      BY <1>5, <2>2 DEF InsertPricing, AfterPricing
    <3>2. HandlersInOrder'
      BY <1>5, <3>1 DEF GoTo, InsertPricing, HandlersInOrder, TypeOK
    <3>3. OutcomesProjected'
      BY <1>5, <3>1 DEF GoTo, InsertPricing, OutcomesProjected
    <3> QED
      BY <2>1, <3>2, <3>3
  <2>3. CASE event[w] \in priced
    <3>1. EndDelivery(w, "error") /\ UNCHANGED <<priced, stocked>>
      BY <1>5, <2>3 DEF InsertPricing
    <3> QED
      BY <2>1, <3>1, EndDeliveryProjected
  <2> QED
    BY <2>2, <2>3
<1>6. CASE InsertInventory(w)
  <2>1. event[w] \in priced
    BY <1>6 DEF InsertInventory, HandlersInOrder
  <2>2. StockedMeansPriced' /\ CompletedMeansProjected'
    BY <1>6, <2>1 DEF InsertInventory, StockedMeansPriced, CompletedMeansProjected
  <2>3. CASE event[w] \notin stocked
    <3>1. EndDelivery(w, "ok") /\ event[w] \in stocked' /\ stocked \subseteq stocked'
          /\ UNCHANGED priced
      BY <1>6, <2>3 DEF InsertInventory
    <3> QED
      BY <2>1, <2>2, <3>1, EndDeliveryProjected
  <2>4. CASE event[w] \in stocked
    <3>1. EndDelivery(w, "error") /\ UNCHANGED <<priced, stocked>>
      BY <1>6, <2>4 DEF InsertInventory
    <3> QED
      BY <2>2, <3>1, EndDeliveryProjected
  <2> QED
    BY <2>3, <2>4
<1>7. CASE LookUpStock(w)
  <2>1. event[w] \notin Products /\ UNCHANGED <<priced, stocked, outbox>>
    BY <1>7 DEF LookUpStock, TypeOK, db
  <2>2. CASE status[event[w]] = "pending"
    <3>1. PICK point \in {"confirm", "cancel"} : GoTo(w, point)
      BY <1>7, <2>2 DEF LookUpStock
    <3> QED
      BY <2>1, <3>1 DEF GoTo, TypeOK, StockedMeansPriced, HandlersInOrder, OutcomesProjected,
                        CompletedMeansProjected
  <2>3. CASE status[event[w]] # "pending"
    <3>1. EndDelivery(w, "ok")
      BY <1>7, <2>3 DEF LookUpStock
    <3> QED
      BY <2>1, <3>1, EndDeliveryProjected DEF StockedMeansPriced, CompletedMeansProjected
  <2> QED
    BY <2>2, <2>3
<1>8. CASE DecideOrder(w)
  <2>1. event[w] \notin Products /\ UNCHANGED <<priced, stocked, outbox>>
    BY <1>8 DEF DecideOrder, TypeOK
  <2>2. PICK result \in {"ok", "error"} : EndDelivery(w, result)
    BY <1>8 DEF DecideOrder
  <2> QED
    BY <2>1, <2>2, EndDeliveryProjected DEF StockedMeansPriced, CompletedMeansProjected
<1> QED
  BY <1>1, <1>2, <1>3, <1>4, <1>5, <1>6, <1>7, <1>8 DEF WorkerStep

LEMMA ProjectionFault ==
    ASSUME ProjectionInv, NEW w \in Workers, Fault(w), TypeOK'
    PROVE  ProjectionInv'
<1>1. UNCHANGED <<priced, stocked, outbox>>
  BY DEF Fault, db, Crash, CrashProcess, LoseConnection, LoseLocks, HandlerFails
<1>2. StockedMeansPriced' /\ CompletedMeansProjected'
  BY <1>1 DEF ProjectionInv, StockedMeansPriced, CompletedMeansProjected
<1>3. CASE Crash(w)
  BY <1>1, <1>2, <1>3, EndProcessProjected DEF Crash, ProjectionInv
<1>4. CASE LoseConnection(w)
  BY <1>1, <1>2, <1>4 DEF LoseConnection, ProjectionInv, HandlersInOrder, OutcomesProjected
<1>5. CASE HandlerFails(w)
  BY <1>1, <1>2, <1>5, EndDeliveryProjected DEF HandlerFails, ProjectionInv
<1> QED
  BY <1>3, <1>4, <1>5 DEF Fault

LEMMA ProjectionApi ==
    ASSUME ProjectionInv, TypeOK',
           \/ \E p \in Products : CreateProduct(p)
           \/ \E o \in Orders : CreateOrder(o)
           \/ \E e \in Events : BackoffElapses(e)
    PROVE  ProjectionInv'
<1>1. UNCHANGED <<priced, stocked, pc, outcome, event>>
  BY DEF CreateProduct, CreateOrder, BackoffElapses, db
<1>2. \A p \in Products : outbox'[p].status = "completed" => outbox[p].status = "completed"
  <2>1. NewRow.status # "completed"
    BY DEF NewRow
  <2>2. ASSUME NEW e \in Events, BackoffElapses(e)
        PROVE  \A f \in Events : outbox'[f].status = outbox[f].status
    BY <2>2 DEF BackoffElapses, ProjectionInv, TypeOK, Row
  <2> QED
    BY <2>1, <2>2, ProductsAssumption DEF CreateProduct, CreateOrder, ProjectionInv, TypeOK
<1> QED
  BY <1>1, <1>2 DEF ProjectionInv, StockedMeansPriced, HandlersInOrder, OutcomesProjected,
                    CompletedMeansProjected

LEMMA ProjectionStep == ProjectionInv /\ [Next]_vars => ProjectionInv'
<1> SUFFICES ASSUME ProjectionInv, [Next]_vars PROVE ProjectionInv'
  OBVIOUS
<1>1. TypeOK'
  BY TypeStep DEF ProjectionInv
<1>2. CASE UNCHANGED vars
  BY <1>1, <1>2 DEF vars, db, ProjectionInv, StockedMeansPriced, HandlersInOrder,
                    OutcomesProjected, CompletedMeansProjected
<1>3. CASE Next
  BY <1>1, <1>3, ProjectionApi, ProjectionWorker, ProjectionFault DEF Next
<1> QED
  BY <1>2, <1>3

LEMMA ProjectionAlways == Spec => []ProjectionInv
BY ProjectionInit, ProjectionStep, PTL DEF Spec

\* A ProductCreated event is acknowledged only when its product has a price and
\* stock, whichever deliveries wrote them.
THEOREM AcknowledgedMeansProjected == Spec => []CompletedMeansProjected
<1>1. ProjectionInv => CompletedMeansProjected
  BY DEF ProjectionInv
<1> QED
  BY <1>1, ProjectionAlways, PTL

\* No product has stock and no price, at any moment of any delivery.
THEOREM PriceBeforeStock == Spec => []StockedMeansPriced
<1>1. ProjectionInv => StockedMeansPriced
  BY DEF ProjectionInv
<1> QED
  BY <1>1, ProjectionAlways, PTL

-----------------------------------------------------------------------------
(* Deliveries without faults *)

\* A row is appended with the product or the order it announces.
AppendInv ==
    \A e \in Events :
        outbox[e].status = "absent" <=> IF e \in Products THEN e \notin created
                                                         ELSE status[e] = "absent"

Unprojected(p) == p \notin priced /\ p \notin stocked

\* No handler has yet committed anything for the event.
Untouched(e) == IF e \in Products THEN Unprojected(e) ELSE status[e] = "pending"

\* The event of a handler: the row of the batch that is neither to come nor settled.
Delivering(w, e) == InHandler(w) /\ event[w] = e

\* A worker's locks are its batch, exactly: rows to come, the one in a handler,
\* and those with an outcome.  Each is in one of these states.
LocksInv ==
    \A w \in Workers :
        /\ pc[w] = "idle" => locks[w] = {}
        /\ \A v \in Workers : v # w => locks[v] \intersect locks[w] = {}
        /\ \A e \in Events :
            /\ e \in locks[w] => outbox[e].status = "pending"
            /\ e \in locks[w] <=> e \in batch[w] \/ Delivering(w, e) \/ outcome[w][e] # "none"
            /\ e \in batch[w] => ~ Delivering(w, e) /\ outcome[w][e] = "none"
            /\ Delivering(w, e) => outcome[w][e] = "none"

\* What a handler is going to insert or decide is not there yet.
HandlersInv ==
    \A w \in Workers :
        /\ pc[w] = "pricing" => Unprojected(event[w])
        /\ pc[w] = "inventory" => event[w] \notin stocked
        /\ pc[w] \in {"order", "confirm", "cancel"} => status[event[w]] = "pending"

\* A row no delivery has reached is untouched.
WaitingInv ==
    \A e \in Events :
        /\ outbox[e].status = "absent" /\ e \in Products => Unprojected(e)
        /\ /\ outbox[e].status = "pending"
           /\ \A w \in Workers : e \in locks[w] => e \in batch[w]
           => Untouched(e)

\* While nothing has failed, each event is delivered once.
NoErrorInv ==
    /\ \A e \in Events : outbox[e].retries = 0
    /\ \A w \in Workers, e \in Events : outcome[w][e] # "error"

Once == AppendInv /\ LocksInv /\ HandlersInv /\ WaitingInv /\ NoErrorInv

OnceInv == faults = 0 => Once

\* The event of a handler is locked by its worker, and by no other.
LEMMA Held ==
    ASSUME TypeOK, LocksInv, NEW w \in Workers, InHandler(w)
    PROVE  /\ event[w] \in Events
           /\ event[w] \in locks[w] /\ event[w] \notin batch[w]
           /\ outbox[event[w]].status = "pending"
           /\ \A v \in Workers : v # w => ~ Delivering(v, event[w])
<1>1. pc[w] \in Points \ {"idle", "row"}
  BY DEF TypeOK, InHandler
<1>2. event[w] \in Events
  BY <1>1, ProductsAssumption DEF Points, TypeOK
<1>3. Delivering(w, event[w])
  BY DEF Delivering
<1> QED
  BY <1>2, <1>3 DEF LocksInv

\* The end of a delivery moves its event from the handler to the outcomes.
LEMMA EndDeliveryLocks ==
    ASSUME TypeOK, LocksInv, NEW w \in Workers, InHandler(w), EndDelivery(w, "ok"),
           UNCHANGED outbox
    PROVE  LocksInv'
<1>1. UNCHANGED <<batch, locks>> /\ pc'[w] = "row"
  BY DEF EndDelivery, TypeOK
<1>2. \A v \in Workers : v # w => pc'[v] = pc[v] /\ event'[v] = event[v]
  BY DEF EndDelivery, TypeOK
<1>3. \A v \in Workers, e \in Events :
        outcome'[v][e] = IF v = w /\ e = event[w] THEN "ok" ELSE outcome[v][e]
  BY DEF EndDelivery, TypeOK
<1>4. \A e \in Events : ~ Delivering(w, e)'
  BY <1>1 DEF Delivering, InHandler
<1>5. \A v \in Workers, e \in Events : v # w => (Delivering(v, e)' <=> Delivering(v, e))
  BY <1>2 DEF Delivering, InHandler
<1>6. \A e \in Events : Delivering(w, e) <=> e = event[w]
  BY DEF Delivering
<1>7. ASSUME NEW v \in Workers, v # w
      PROVE  /\ pc'[v] = "idle" => locks'[v] = {}
             /\ \A e \in Events :
                 /\ e \in locks'[v] => outbox'[e].status = "pending"
                 /\ e \in locks'[v] <=> e \in batch'[v] \/ Delivering(v, e)' \/ outcome'[v][e] # "none"
                 /\ e \in batch'[v] => ~ Delivering(v, e)' /\ outcome'[v][e] = "none"
                 /\ Delivering(v, e)' => outcome'[v][e] = "none"
  BY <1>1, <1>2, <1>3, <1>5, <1>7 DEF LocksInv
<1>8. ASSUME NEW e \in Events
      PROVE  /\ e \in locks'[w] => outbox'[e].status = "pending"
             /\ e \in locks'[w] <=> e \in batch'[w] \/ Delivering(w, e)' \/ outcome'[w][e] # "none"
             /\ e \in batch'[w] => ~ Delivering(w, e)' /\ outcome'[w][e] = "none"
             /\ Delivering(w, e)' => outcome'[w][e] = "none"
  BY <1>1, <1>3, <1>4, <1>6, Held DEF LocksInv
<1> QED
  BY <1>1, <1>7, <1>8 DEF LocksInv

\* Going on to the next handler leaves the event where it is.
LEMMA GoToLocks ==
    ASSUME TypeOK, LocksInv, NEW w \in Workers, InHandler(w),
           NEW point \in {"inventory", "confirm", "cancel"}, GoTo(w, point), UNCHANGED outbox
    PROVE  LocksInv'
<1>1. pc'[w] = point /\ \A v \in Workers : v # w => pc'[v] = pc[v]
  BY DEF GoTo, TypeOK
<1>2. \A v \in Workers, e \in Events : Delivering(v, e)' <=> Delivering(v, e)
  BY <1>1 DEF GoTo, Delivering, InHandler
<1>3. \A v \in Workers : pc'[v] = "idle" => pc[v] = "idle"
  BY <1>1
<1> QED
  BY <1>2, <1>3 DEF GoTo, LocksInv

LEMMA OnceInit == Init => Once
<1> SUFFICES ASSUME Init PROVE Once
  OBVIOUS
<1>1. NoRow.status = "absent" /\ NoRow.retries = 0
  BY DEF NoRow, NewRow
<1>2. /\ \A e \in Events : outbox[e] = NoRow
      /\ \A w \in Workers : /\ pc[w] = "idle" /\ batch[w] = {} /\ locks[w] = {}
                            /\ \A e \in Events : outcome[w][e] = "none"
  BY DEF Init, OutboxInit, NoOutcome
<1>3. AppendInv
  BY <1>1, <1>2 DEF Init, AppendInv
<1>4. LocksInv
  BY <1>2 DEF LocksInv, Delivering, InHandler
<1>5. HandlersInv
  BY <1>2 DEF HandlersInv
<1>6. WaitingInv
  BY <1>1, <1>2 DEF Init, WaitingInv, Unprojected
<1>7. NoErrorInv
  BY <1>1, <1>2 DEF NoErrorInv
<1> QED
  BY <1>3, <1>4, <1>5, <1>6, <1>7 DEF Once

\* A new row is locked by no worker, and nothing has been done for its event.
LEMMA OnceApi ==
    ASSUME TypeOK, Once,
           \/ \E p \in Products : CreateProduct(p)
           \/ \E o \in Orders : CreateOrder(o)
           \/ \E e \in Events : BackoffElapses(e)
    PROVE  Once'
<1> USE DEF Once
<1>1. NewRow.status = "pending" /\ NewRow.retries = 0
  BY DEF NewRow
<1>2. UNCHANGED <<pc, batch, locks, outcome, event, priced, stocked>>
  BY DEF CreateProduct, CreateOrder, BackoffElapses, db
<1>3. \A w \in Workers, e \in Events : Delivering(w, e)' <=> Delivering(w, e)
  BY <1>2 DEF Delivering, InHandler
<1>4. ASSUME NEW p \in Products, CreateProduct(p) PROVE Once'
  <2>1. p \in Events /\ outbox[p].status = "absent" /\ UNCHANGED status
    BY <1>4, ProductsAssumption DEF CreateProduct, AppendInv
  <2>2. /\ outbox'[p] = NewRow /\ \A e \in Events : e # p => outbox'[e] = outbox[e]
        /\ created' = created \union {p}
    BY <1>4, <2>1 DEF CreateProduct, TypeOK
  <2>3. AppendInv'
    BY <1>1, <2>1, <2>2 DEF AppendInv
  <2>4. LocksInv'
    BY <1>1, <1>2, <1>3, <2>1, <2>2 DEF LocksInv
  <2>5. HandlersInv'
    BY <1>2, <2>1 DEF HandlersInv, Unprojected
  <2>6. WaitingInv'
    BY <1>1, <1>2, <2>1, <2>2 DEF WaitingInv, Untouched, Unprojected
  <2>7. NoErrorInv'
    BY <1>1, <1>2, <2>2 DEF NoErrorInv
  <2> QED
    BY <2>3, <2>4, <2>5, <2>6, <2>7
<1>5. ASSUME NEW o \in Orders, CreateOrder(o) PROVE Once'
  <2>1. o \in Events /\ o \notin Products /\ outbox[o].status = "absent" /\ UNCHANGED created
    BY <1>5 DEF CreateOrder, AppendInv
  <2>2. /\ outbox'[o] = NewRow /\ \A e \in Events : e # o => outbox'[e] = outbox[e]
        /\ status'[o] = "pending" /\ \A e \in Orders : e # o => status'[e] = status[e]
    BY <1>5, <2>1 DEF CreateOrder, TypeOK
  <2>3. AppendInv'
    BY <1>1, <2>1, <2>2 DEF AppendInv
  <2>4. LocksInv'
    BY <1>1, <1>2, <1>3, <2>1, <2>2 DEF LocksInv
  <2>5. HandlersInv'
    BY <1>2, <2>2 DEF HandlersInv, Unprojected, TypeOK
  <2>6. WaitingInv'
    BY <1>1, <1>2, <2>1, <2>2 DEF WaitingInv, Untouched, Unprojected
  <2>7. NoErrorInv'
    BY <1>1, <1>2, <2>2 DEF NoErrorInv
  <2> QED
    BY <2>3, <2>4, <2>5, <2>6, <2>7
<1>6. ASSUME NEW e \in Events, BackoffElapses(e) PROVE Once'
  <2>1. \A f \in Events : /\ outbox'[f].status = outbox[f].status
                          /\ outbox'[f].retries = outbox[f].retries
    BY <1>6 DEF BackoffElapses, TypeOK, Row
  <2>2. UNCHANGED <<created, status>>
    BY <1>6 DEF BackoffElapses, db
  <2>3. AppendInv'
    BY <2>1, <2>2 DEF AppendInv
  <2>4. LocksInv'
    BY <1>2, <1>3, <2>1 DEF LocksInv
  <2>5. HandlersInv'
    BY <1>2, <2>2 DEF HandlersInv, Unprojected
  <2>6. WaitingInv'
    BY <1>2, <2>1, <2>2 DEF WaitingInv, Untouched, Unprojected
  <2>7. NoErrorInv'
    BY <1>2, <2>1 DEF NoErrorInv
  <2> QED
    BY <2>3, <2>4, <2>5, <2>6, <2>7
<1> QED
  BY <1>4, <1>5, <1>6

LEMMA OnceClaim ==
    ASSUME TypeOK, Once, NEW w \in Workers, Claim(w)
    PROVE  Once'
<1> USE DEF Once
<1> DEFINE S == OldestOf(Claimable)
<1>1. /\ S \subseteq Events
      /\ \A e \in S : outbox[e].status = "pending" /\ \A v \in Workers : e \notin locks[v]
  BY DEF OldestOf, Claimable
<1>2. pc[w] = "idle" /\ pc'[w] = "row" /\ batch'[w] = S /\ locks'[w] = S
  BY DEF Claim, TypeOK
<1>3. \A v \in Workers : v # w => pc'[v] = pc[v] /\ batch'[v] = batch[v] /\ locks'[v] = locks[v]
  BY DEF Claim, TypeOK
<1>4. UNCHANGED <<outbox, outcome, event, created, priced, stocked, status>>
  BY DEF Claim, db
<1> HIDE DEF S
<1>5. \A v \in Workers, e \in Events : Delivering(v, e)' <=> Delivering(v, e)
  BY <1>2, <1>3, <1>4 DEF Delivering, InHandler
<1>6. \A e \in Events : ~ Delivering(w, e) /\ outcome[w][e] = "none" /\ e \notin batch[w]
  BY <1>2 DEF LocksInv
<1>7. LocksInv'
  <2>1. ASSUME NEW v \in Workers, v # w
        PROVE  locks'[v] \intersect locks'[w] = {}
    BY <1>1, <1>2, <1>3, <2>1
  <2>2. ASSUME NEW e \in Events
        PROVE  /\ e \in locks'[w] => outbox'[e].status = "pending"
               /\ e \in locks'[w] <=> e \in batch'[w] \/ Delivering(w, e)' \/ outcome'[w][e] # "none"
               /\ e \in batch'[w] => ~ Delivering(w, e)' /\ outcome'[w][e] = "none"
               /\ Delivering(w, e)' => outcome'[w][e] = "none"
    BY <1>1, <1>2, <1>4, <1>5, <1>6
  <2> QED
    BY <1>2, <1>3, <1>4, <1>5, <2>1, <2>2 DEF LocksInv
<1>8. HandlersInv'
  BY <1>2, <1>3, <1>4 DEF HandlersInv, Unprojected
<1>9. WaitingInv'
  <2>1. \A e \in Events : (\A v \in Workers : e \in locks'[v] => e \in batch'[v])
                       => (\A v \in Workers : e \in locks[v] => e \in batch[v])
    BY <1>2, <1>3 DEF LocksInv
  <2> QED
    BY <1>4, <2>1 DEF WaitingInv, Untouched, Unprojected
<1>10. AppendInv' /\ NoErrorInv'
  BY <1>4 DEF AppendInv, NoErrorInv
<1> QED
  BY <1>7, <1>8, <1>9, <1>10

LEMMA OnceStart ==
    ASSUME TypeOK, Once, NEW w \in Workers, StartRow(w)
    PROVE  Once'
<1> USE DEF Once
<1>1. PICK e \in batch[w] : TakeRow(w, e, FirstHandler(e)) /\ event' = [event EXCEPT ![w] = e]
  BY DEF StartRow
<1>2. e \in Events /\ e \in locks[w] /\ outbox[e].status = "pending"
  BY DEF LocksInv, TypeOK
<1>3. /\ pc[w] = "row" /\ pc'[w] = FirstHandler(e) /\ event'[w] = e
      /\ batch'[w] = batch[w] \ {e}
  BY <1>1 DEF TypeOK
<1>4. \A v \in Workers : v # w => pc'[v] = pc[v] /\ batch'[v] = batch[v] /\ event'[v] = event[v]
  BY <1>1 DEF TypeOK
<1>5. UNCHANGED <<outbox, locks, outcome, created, priced, stocked, status>>
  BY <1>1 DEF StartRow, db
<1>6. Untouched(e)
  BY <1>2 DEF WaitingInv, LocksInv
<1>7. \A v \in Workers, f \in Events :
        /\ v # w => (Delivering(v, f)' <=> Delivering(v, f))
        /\ v = w => ~ Delivering(v, f) /\ (Delivering(v, f)' <=> f = e)
  BY <1>3, <1>4 DEF Delivering, InHandler, FirstHandler
<1>8. LocksInv'
  <2>1. ASSUME NEW f \in Events
        PROVE  /\ f \in locks'[w] => outbox'[f].status = "pending"
               /\ f \in locks'[w] <=> f \in batch'[w] \/ Delivering(w, f)' \/ outcome'[w][f] # "none"
               /\ f \in batch'[w] => ~ Delivering(w, f)' /\ outcome'[w][f] = "none"
               /\ Delivering(w, f)' => outcome'[w][f] = "none"
    BY <1>2, <1>3, <1>5, <1>7 DEF LocksInv
  <2>2. pc'[w] # "idle"
    BY <1>3 DEF FirstHandler
  <2> QED
    BY <1>4, <1>5, <1>7, <2>1, <2>2 DEF LocksInv
<1>9. HandlersInv'
  BY <1>3, <1>4, <1>5, <1>6 DEF HandlersInv, Untouched, Unprojected, FirstHandler
<1>10. WaitingInv'
  BY <1>3, <1>4, <1>5 DEF WaitingInv, Untouched, Unprojected
<1>11. AppendInv' /\ NoErrorInv'
  BY <1>5 DEF AppendInv, NoErrorInv
<1> QED
  BY <1>8, <1>9, <1>10, <1>11

\* The end of process_once gives up its locks: what they covered is complete.
LEMMA OnceEnd ==
    ASSUME TypeOK, Once, NEW w \in Workers, CommitBatch(w) \/ AbortBatch(w)
    PROVE  Once'
<1> USE DEF Once
<1>1. EndProcess(w) /\ pc[w] = "row" /\ UNCHANGED <<event, created, priced, stocked, status>>
  BY DEF CommitBatch, AbortBatch, db
<1>2. batch[w] = {}
  BY DEF CommitBatch, AbortBatch, LocksInv, TypeOK
<1>3. \A e \in Events : outbox'[e] = IF e \in locks[w] THEN Completed ELSE outbox[e]
  <2>1. CASE CommitBatch(w)
    <3>1. \A e \in Events : e \in locks[w] <=> outcome[w][e] # "none"
      BY <1>1, <1>2 DEF LocksInv, Delivering, InHandler
    <3>2. \A e \in Events : outcome[w][e] \in {"none", "ok"}
      BY DEF NoErrorInv, TypeOK
    <3>3. \A e \in Events : RowAfter(outbox[e], outcome[w][e])
                          = IF e \in locks[w] THEN Completed ELSE outbox[e]
      BY <3>1, <3>2 DEF RowAfter
    <3> QED
      BY <2>1, <3>3 DEF CommitBatch
  <2>2. CASE AbortBatch(w)
    BY <2>2 DEF AbortBatch
  <2> QED
    BY <2>1, <2>2
<1>4. Completed.status = "completed" /\ Completed.retries = 0
  BY DEF Completed
<1>5. /\ pc'[w] = "idle" /\ batch'[w] = {} /\ locks'[w] = {}
      /\ \A e \in Events : outcome'[w][e] = "none" /\ ~ Delivering(w, e)'
  BY <1>1 DEF EndProcess, NoOutcome, TypeOK, Delivering, InHandler
<1>6. \A v \in Workers : v # w => /\ pc'[v] = pc[v] /\ batch'[v] = batch[v]
                                  /\ locks'[v] = locks[v] /\ outcome'[v] = outcome[v]
  BY <1>1 DEF EndProcess, TypeOK
<1>7. \A v \in Workers, e \in Events : v # w => (Delivering(v, e)' <=> Delivering(v, e))
  BY <1>1, <1>6 DEF Delivering, InHandler
<1>8. \A v \in Workers, e \in Events : v # w /\ e \in locks[v] => outbox'[e] = outbox[e]
  BY <1>3 DEF LocksInv
<1>9. LocksInv'
  BY <1>5, <1>6, <1>7, <1>8 DEF LocksInv
<1>10. HandlersInv'
  BY <1>1, <1>5, <1>6 DEF HandlersInv, Unprojected
<1>11. AppendInv'
  BY <1>1, <1>3, <1>4 DEF AppendInv, LocksInv
<1>12. WaitingInv'
  BY <1>1, <1>3, <1>4, <1>6 DEF WaitingInv, Untouched, Unprojected
<1>13. NoErrorInv'
  BY <1>3, <1>4, <1>5, <1>6 DEF NoErrorInv
<1> QED
  BY <1>9, <1>10, <1>11, <1>12, <1>13

\* A handler changes only what belongs to the event its worker holds.
LEMMA OnceHandler ==
    ASSUME TypeOK, Once, NEW w \in Workers,
           InsertPricing(w) \/ InsertInventory(w) \/ LookUpStock(w) \/ DecideOrder(w)
    PROVE  Once'
<1> USE DEF Once
<1>1. InHandler(w) /\ UNCHANGED <<outbox, created>>
  BY DEF InHandler, InsertPricing, InsertInventory, LookUpStock, DecideOrder, db
<1>2. /\ event[w] \in Events /\ outbox[event[w]].status = "pending"
      /\ event[w] \in locks[w] /\ event[w] \notin batch[w]
      /\ \A v \in Workers : v # w => ~ Delivering(v, event[w])
  BY <1>1, Held
<1>3. \/ EndDelivery(w, "ok")
      \/ \E point \in {"inventory", "confirm", "cancel"} :
            /\ GoTo(w, point)
            /\ point = "inventory" => event[w] \notin stocked'
            /\ point # "inventory" => status'[event[w]] = "pending"
  BY DEF InsertPricing, InsertInventory, LookUpStock, DecideOrder, AfterPricing, HandlersInv,
         Unprojected, db
<1>4. LocksInv'
  BY <1>1, <1>3, EndDeliveryLocks, GoToLocks
<1>5. \A e \in Events \ {event[w]} : /\ e \in priced' <=> e \in priced
                                     /\ e \in stocked' <=> e \in stocked
                                     /\ e \in Orders => status'[e] = status[e]
  BY DEF InsertPricing, InsertInventory, LookUpStock, DecideOrder, db, TypeOK
<1>6. UNCHANGED <<locks, batch>>
  BY <1>3 DEF EndDelivery, GoTo
<1>7. HandlersInv'
  <2>1. ASSUME NEW v \in Workers, v # w
        PROVE  /\ pc'[v] = "pricing" => Unprojected(event[v])'
               /\ pc'[v] = "inventory" => event'[v] \notin stocked'
               /\ pc'[v] \in {"order", "confirm", "cancel"} => status'[event'[v]] = "pending"
    <3>1. pc'[v] = pc[v] /\ event'[v] = event[v]
      BY <1>3, <2>1 DEF EndDelivery, GoTo, TypeOK
    <3>2. InHandler(v) => event[v] # event[w]
      BY <1>2, <2>1 DEF Delivering
    <3>3. /\ pc[v] \in {"pricing", "inventory"} => event[v] \in Events \ {event[w]}
          /\ pc[v] \in {"order", "confirm", "cancel"} => event[v] \in Orders \ {event[w]}
      BY <3>2, ProductsAssumption DEF TypeOK, InHandler
    <3> QED
      BY <1>5, <3>1, <3>3 DEF HandlersInv, Unprojected
  <2>2. /\ pc'[w] # "pricing"
        /\ pc'[w] = "inventory" => event'[w] \notin stocked'
        /\ pc'[w] \in {"order", "confirm", "cancel"} => status'[event'[w]] = "pending"
    BY <1>3 DEF EndDelivery, GoTo, TypeOK
  <2> QED
    BY <2>1, <2>2 DEF HandlersInv
<1>8. WaitingInv'
  BY <1>1, <1>2, <1>5, <1>6 DEF WaitingInv, Untouched, Unprojected
<1>9. AppendInv'
  <2>1. event[w] \in Orders => status'[event[w]] # "absent"
    BY <1>2 DEF InsertPricing, InsertInventory, LookUpStock, DecideOrder, Decision, db,
                TypeOK, HandlersInv
  <2> QED
    BY <1>1, <1>2, <1>5, <2>1 DEF AppendInv
<1>10. NoErrorInv'
  <2>1. CASE EndDelivery(w, "ok")
    <3>1. \A v \in Workers, e \in Events :
            outcome'[v][e] = IF v = w /\ e = event[w] THEN "ok" ELSE outcome[v][e]
      BY <2>1 DEF EndDelivery, TypeOK
    <3> QED
      BY <1>1, <3>1 DEF NoErrorInv
  <2>2. CASE UNCHANGED outcome
    BY <1>1, <2>2 DEF NoErrorInv
  <2> QED
    BY <1>3, <2>1, <2>2 DEF GoTo
<1> QED
  BY <1>4, <1>7, <1>8, <1>9, <1>10

LEMMA OnceStep == TypeOK /\ OnceInv /\ [Next]_vars => OnceInv'
<1> SUFFICES ASSUME TypeOK, OnceInv, [Next]_vars, faults' = 0 PROVE Once'
  BY DEF OnceInv
<1>1. ASSUME NEW w \in Workers, Fault(w) PROVE FALSE
  BY <1>1, FaultsAssumption DEF Fault, TypeOK
<1>2. CASE UNCHANGED vars
  BY <1>2 DEF OnceInv, Once, vars, db, AppendInv, LocksInv, HandlersInv, WaitingInv, NoErrorInv,
              Untouched, Unprojected, Delivering, InHandler
<1>3. CASE \/ \E p \in Products : CreateProduct(p)
           \/ \E o \in Orders : CreateOrder(o)
           \/ \E e \in Events : BackoffElapses(e)
  BY <1>3, OnceApi DEF OnceInv, CreateProduct, CreateOrder, BackoffElapses
<1>4. ASSUME NEW w \in Workers, WorkerStep(w) PROVE Once'
  <2>1. faults' = faults
    BY <1>4 DEF WorkerStep, Claim, StartRow, CommitBatch, AbortBatch, InsertPricing,
                InsertInventory, LookUpStock, DecideOrder
  <2> QED
    BY <1>4, <2>1, OnceClaim, OnceStart, OnceEnd, OnceHandler DEF WorkerStep, OnceInv
<1> QED
  BY <1>1, <1>2, <1>3, <1>4 DEF Next

\* While nothing fails, each event is delivered once and no handler meets a row
\* that an earlier delivery left, for any number of workers.
THEOREM DeliveredOnce == Spec => []NoErrorWithoutFault
<1>1. Init => OnceInv
  BY OnceInit DEF OnceInv
<1>2. OnceInv => NoErrorWithoutFault
  BY DEF OnceInv, Once, NoErrorInv, NoErrorWithoutFault
<1> QED
  BY <1>1, <1>2, TypeInit, TypeStep, OnceStep, PTL DEF Spec

-----------------------------------------------------------------------------
(* Retries *)

\* A worker that still has its locks has all of them, and shares none.
LockShape ==
    \A w \in Workers :
        /\ \A v \in Workers : v # w => locks[v] \intersect locks[w] = {}
        /\ pc[w] = "idle" => \A e \in Events : outcome[w][e] = "none"
        /\ locks[w] # {} => /\ batch[w] \subseteq locks[w]
                            /\ InHandler(w) => event[w] \in locks[w]
                            /\ \A e \in Events : outcome[w][e] # "none" => e \in locks[w]

\* Every retry of a product without a price, counted or about to be, was paid
\* for by a fault of its own.
ChargedInv ==
    /\ \A e \in Events : outbox[e].status = "failed" => outbox[e].retries >= MaxRetries
    /\ \A p \in Products \ priced :
        /\ outbox[p].retries <= faults
        /\ \A w \in Workers :
              p \in locks[w] /\ outcome[w][p] = "error" => outbox[p].retries < faults

RetryInv == LockShape /\ ChargedInv

LEMMA RetryInit == Init => RetryInv
<1> SUFFICES ASSUME Init PROVE RetryInv
  OBVIOUS
<1>1. NoRow.status = "absent" /\ NoRow.retries = 0
  BY DEF NoRow, NewRow
<1>2. /\ \A e \in Events : outbox[e] = NoRow
      /\ \A w \in Workers : /\ locks[w] = {} /\ \A e \in Events : outcome[w][e] = "none"
      /\ faults = 0
  BY DEF Init, OutboxInit, NoOutcome
<1> QED
  BY <1>1, <1>2, ProductsAssumption DEF RetryInv, LockShape, ChargedInv

\* What a settled row counts.
LEMMA RowAfterRetries ==
    ASSUME NEW row \in Row, NEW result \in {"none", "ok", "error"}
    PROVE  /\ RowAfter(row, result).retries <= row.retries \/ result = "error"
           /\ RowAfter(row, result).retries <= row.retries + 1
           /\ RowAfter(row, result).status = "failed" =>
                 \/ row.status = "failed" /\ result = "none"
                 \/ RowAfter(row, result).retries >= MaxRetries
           /\ result = "none" => RowAfter(row, result) = row
<1>1. row.retries \in Nat
  BY DEF Row
<1>2. CASE result = "none"
  BY <1>1, <1>2 DEF RowAfter
<1>3. CASE result = "ok"
  <2>1. RowAfter(row, result) = Completed
    BY <1>3 DEF RowAfter
  <2> QED
    BY <1>1, <1>3, <2>1 DEF Completed
<1>4. CASE result = "error"
  <2>1. RowAfter(row, result) = AfterFailure(row)
    BY <1>4 DEF RowAfter
  <2> QED
    BY <1>1, <1>4, <2>1, WorkerAssumption DEF AfterFailure
<1> QED
  BY <1>2, <1>3, <1>4

\* A delivery may end with an error for free only where the price is there.
LEMMA EndDeliveryRetry ==
    ASSUME TypeOK, RetryInv, NEW w \in Workers, NEW result \in {"ok", "error"}, InHandler(w),
           EndDelivery(w, result), UNCHANGED outbox, priced \subseteq priced',
           faults' \in Nat, faults <= faults',
           result = "error" /\ event[w] \in Products \ priced' => faults' = faults + 1
    PROVE  RetryInv'
<1>1. UNCHANGED <<batch, locks>> /\ pc'[w] = "row"
  BY DEF EndDelivery, TypeOK
<1>2. \A v \in Workers : v # w => pc'[v] = pc[v] /\ event'[v] = event[v]
  BY DEF EndDelivery, TypeOK
<1>3. \A v \in Workers, e \in Events :
        outcome'[v][e] = IF v = w /\ e = event[w] THEN result ELSE outcome[v][e]
  BY DEF EndDelivery, TypeOK
<1>4. \A v \in Workers : v # w => (InHandler(v)' <=> InHandler(v))
  BY <1>2 DEF InHandler
<1>5. ~ InHandler(w)'
  BY <1>1 DEF InHandler
<1>6. LockShape'
  BY <1>1, <1>2, <1>3, <1>4, <1>5 DEF RetryInv, LockShape
<1>7. faults \in Nat /\ \A e \in Events : outbox[e].retries \in Nat
  BY FaultsAssumption DEF TypeOK, Row
<1>8. ASSUME NEW p \in Products \ priced'
      PROVE  /\ outbox'[p].retries <= faults'
             /\ \A v \in Workers :
                   p \in locks'[v] /\ outcome'[v][p] = "error" => outbox'[p].retries < faults'
  <2>1. p \in Products \ priced /\ p \in Events
    BY ProductsAssumption
  <2>2. outbox[p].retries <= faults
    BY <2>1 DEF RetryInv, ChargedInv
  <2>3. ASSUME NEW v \in Workers, p \in locks'[v], outcome'[v][p] = "error"
        PROVE  outbox[p].retries < faults'
    <3>1. CASE v = w /\ p = event[w]
      BY <1>3, <1>7, <2>1, <2>2, <2>3, <3>1
    <3>2. CASE ~(v = w /\ p = event[w])
      <4>1. p \in locks[v] /\ outcome[v][p] = "error"
        BY <1>1, <1>3, <2>1, <2>3, <3>2
      <4> QED
        BY <1>7, <2>1, <4>1 DEF RetryInv, ChargedInv
    <3> QED
      BY <3>1, <3>2
  <2> QED
    BY <1>7, <2>1, <2>2, <2>3
<1> QED
  BY <1>6, <1>8 DEF RetryInv, ChargedInv

\* Going on to the next handler leaves the rows and the retries as they are.
LEMMA GoToRetry ==
    ASSUME TypeOK, RetryInv, NEW w \in Workers, InHandler(w), NEW point, point # "idle",
           GoTo(w, point), UNCHANGED <<outbox, faults>>, priced \subseteq priced'
    PROVE  RetryInv'
<1>1. pc'[w] # "idle" /\ \A v \in Workers : v # w => pc'[v] = pc[v]
  BY DEF GoTo, TypeOK
<1>2. \A v \in Workers : InHandler(v)' => InHandler(v)
  BY <1>1 DEF InHandler
<1>3. LockShape'
  BY <1>1, <1>2 DEF GoTo, RetryInv, LockShape
<1>4. ChargedInv'
  BY DEF GoTo, RetryInv, ChargedInv
<1> QED
  BY <1>3, <1>4 DEF RetryInv

\* The end of process_once without a commit gives its outcomes up.
LEMMA EndProcessRetry ==
    ASSUME TypeOK, RetryInv, NEW w \in Workers, EndProcess(w), UNCHANGED <<outbox, priced>>,
           event' = event \/ event' = [event EXCEPT ![w] = 0],
           faults' \in Nat, faults <= faults'
    PROVE  RetryInv'
<1>1. /\ pc'[w] = "idle" /\ batch'[w] = {} /\ locks'[w] = {}
      /\ \A e \in Events : outcome'[w][e] = "none"
  BY DEF EndProcess, NoOutcome, TypeOK
<1>2. \A v \in Workers : v # w => /\ pc'[v] = pc[v] /\ batch'[v] = batch[v] /\ event'[v] = event[v]
                                  /\ locks'[v] = locks[v] /\ outcome'[v] = outcome[v]
  BY DEF EndProcess, TypeOK
<1>3. \A v \in Workers : v # w => (InHandler(v)' <=> InHandler(v))
  BY <1>2 DEF InHandler
<1>4. LockShape'
  BY <1>1, <1>2, <1>3 DEF RetryInv, LockShape
<1>5. faults \in Nat /\ \A p \in Products : outbox[p].retries \in Nat
  BY FaultsAssumption, ProductsAssumption DEF TypeOK, Row
<1>6. ChargedInv'
  BY <1>1, <1>2, <1>5 DEF RetryInv, ChargedInv
<1> QED
  BY <1>4, <1>6 DEF RetryInv

\* A commit turns an error into a retry, and what paid for the one pays for the other.
LEMMA CommitRetry ==
    ASSUME TypeOK, RetryInv, NEW w \in Workers, CommitBatch(w)
    PROVE  RetryInv'
<1>1. /\ pc'[w] = "idle" /\ batch'[w] = {} /\ locks'[w] = {}
      /\ \A e \in Events : outcome'[w][e] = "none"
  BY DEF CommitBatch, EndProcess, NoOutcome, TypeOK
<1>2. \A v \in Workers : v # w => /\ pc'[v] = pc[v] /\ batch'[v] = batch[v] /\ event'[v] = event[v]
                                  /\ locks'[v] = locks[v] /\ outcome'[v] = outcome[v]
  BY DEF CommitBatch, EndProcess, TypeOK
<1>3. UNCHANGED <<priced, faults>> /\ faults \in Nat
  BY FaultsAssumption DEF CommitBatch, db, TypeOK
<1>4. \A v \in Workers : v # w => (InHandler(v)' <=> InHandler(v))
  BY <1>2 DEF InHandler
<1>5. LockShape'
  BY <1>1, <1>2, <1>4 DEF RetryInv, LockShape
<1>6. \A e \in Events : /\ outbox'[e] = RowAfter(outbox[e], outcome[w][e])
                        /\ outbox[e] \in Row /\ outbox[e].retries \in Nat
                        /\ outbox'[e].retries \in Nat
                        /\ outcome[w][e] \in {"none", "ok", "error"}
  BY RowAfterType DEF CommitBatch, TypeOK, Row
<1>7. \A e \in Events : outcome[w][e] # "none" => e \in locks[w]
  BY DEF CommitBatch, RetryInv, LockShape
<1>8. \A e \in Events : outbox'[e].status = "failed" => outbox'[e].retries >= MaxRetries
  BY <1>6, RowAfterRetries DEF RetryInv, ChargedInv
<1>9. ASSUME NEW p \in Products \ priced
      PROVE  /\ outbox'[p].retries <= faults
             /\ \A v \in Workers :
                   p \in locks'[v] /\ outcome'[v][p] = "error" => outbox'[p].retries < faults
  <2>1. p \in Events
    BY ProductsAssumption
  <2>2. outbox'[p].retries <= faults
    <3>1. CASE outcome[w][p] = "error"
      <4>1. outbox[p].retries < faults
        BY <1>7, <2>1, <3>1 DEF RetryInv, ChargedInv
      <4>2. outbox'[p].retries <= outbox[p].retries + 1
        BY <1>6, <2>1, RowAfterRetries
      <4> QED
        BY <1>3, <1>6, <2>1, <4>1, <4>2
    <3>2. CASE outcome[w][p] # "error"
      <4>1. outbox'[p].retries <= outbox[p].retries
        BY <1>6, <2>1, <3>2, RowAfterRetries
      <4>2. outbox[p].retries <= faults
        BY DEF RetryInv, ChargedInv
      <4> QED
        BY <1>3, <1>6, <2>1, <4>1, <4>2
    <3> QED
      BY <3>1, <3>2
  <2>3. ASSUME NEW v \in Workers, p \in locks'[v], outcome'[v][p] = "error"
        PROVE  outbox'[p].retries < faults
    <3>1. v # w /\ p \in locks[v] /\ outcome[v][p] = "error"
      BY <1>1, <1>2, <2>3
    <3>2. outcome[w][p] = "none"
      BY <1>6, <1>7, <2>1, <3>1 DEF RetryInv, LockShape
    <3>3. outbox'[p] = outbox[p]
      BY <1>6, <2>1, <3>2, RowAfterRetries
    <3> QED
      BY <3>1, <3>3 DEF RetryInv, ChargedInv
  <2> QED
    BY <2>2, <2>3
<1> QED
  BY <1>3, <1>5, <1>8, <1>9 DEF RetryInv, ChargedInv

LEMMA RetryWorker ==
    ASSUME ProjectionInv, RetryInv, NEW w \in Workers, WorkerStep(w)
    PROVE  RetryInv'
<1>0. TypeOK /\ HandlersInOrder /\ faults \in Nat
  BY FaultsAssumption DEF ProjectionInv, TypeOK
<1>1. CASE Claim(w)
  <2> DEFINE S == OldestOf(Claimable)
  <2>1. \A e \in S : e \in Events /\ \A v \in Workers : e \notin locks[v]
    BY DEF OldestOf, Claimable
  <2>2. pc[w] = "idle" /\ pc'[w] = "row" /\ batch'[w] = S /\ locks'[w] = S
    BY <1>0, <1>1 DEF Claim, TypeOK
  <2>3. \A v \in Workers : v # w => pc'[v] = pc[v] /\ batch'[v] = batch[v] /\ locks'[v] = locks[v]
    BY <1>0, <1>1 DEF Claim, TypeOK
  <2>4. UNCHANGED <<outbox, outcome, event, priced, faults>>
    BY <1>1 DEF Claim, db
  <2> HIDE DEF S
  <2>5. \A v \in Workers : InHandler(v)' <=> InHandler(v)
    BY <2>2, <2>3 DEF InHandler
  <2>6. ~ InHandler(w) /\ \A e \in Events : outcome[w][e] = "none"
    BY <2>2 DEF InHandler, RetryInv, LockShape
  <2>7. LockShape'
    BY <2>1, <2>2, <2>3, <2>4, <2>5, <2>6 DEF RetryInv, LockShape
  <2>8. ChargedInv'
    <3>1. \A v \in Workers, p \in Products :
            p \in locks'[v] /\ outcome'[v][p] = "error" => p \in locks[v] /\ outcome[v][p] = "error"
      BY <2>3, <2>4, <2>6, ProductsAssumption
    <3> QED
      BY <2>4, <3>1 DEF RetryInv, ChargedInv
  <2> QED
    BY <2>7, <2>8 DEF RetryInv
<1>2. CASE StartRow(w)
  <2>1. PICK e \in batch[w] : TakeRow(w, e, FirstHandler(e)) /\ event' = [event EXCEPT ![w] = e]
    BY <1>2 DEF StartRow
  <2>2. pc'[w] # "idle" /\ event'[w] = e /\ batch'[w] = batch[w] \ {e}
    BY <1>0, <2>1 DEF TypeOK, FirstHandler
  <2>3. \A v \in Workers : v # w => pc'[v] = pc[v] /\ batch'[v] = batch[v] /\ event'[v] = event[v]
    BY <1>0, <2>1 DEF TypeOK
  <2>4. UNCHANGED <<outbox, locks, outcome, priced, faults>>
    BY <1>2, <2>1 DEF StartRow, db
  <2>5. \A v \in Workers : v # w => (InHandler(v)' <=> InHandler(v))
    BY <2>3 DEF InHandler
  <2>6. LockShape'
    BY <2>2, <2>3, <2>4, <2>5 DEF RetryInv, LockShape
  <2> QED
    BY <2>4, <2>6 DEF RetryInv, ChargedInv
<1>3. CASE CommitBatch(w)
  BY <1>0, <1>3, CommitRetry
<1>4. CASE AbortBatch(w)
  BY <1>0, <1>4, EndProcessRetry DEF AbortBatch, db
<1>5. CASE InsertPricing(w)
  <2>1. InHandler(w) /\ UNCHANGED <<outbox, faults>> /\ priced \subseteq priced'
    BY <1>5 DEF InsertPricing, InHandler
  <2>2. CASE event[w] \notin priced
    <3>1. GoTo(w, "inventory")
      BY <1>5, <2>2 DEF InsertPricing, AfterPricing
    <3> QED
      BY <1>0, <2>1, <3>1, GoToRetry
  <2>3. CASE event[w] \in priced
    <3>1. EndDelivery(w, "error") /\ UNCHANGED priced
      BY <1>5, <2>3 DEF InsertPricing
    <3> QED
      BY <1>0, <2>1, <2>3, <3>1, EndDeliveryRetry
  <2> QED
    BY <2>2, <2>3
<1>6. CASE InsertInventory(w)
  <2>1. InHandler(w) /\ UNCHANGED <<outbox, faults, priced>>
    BY <1>6 DEF InsertInventory, InHandler
  <2>2. event[w] \in priced
    BY <1>0, <1>6 DEF InsertInventory, HandlersInOrder
  <2>3. PICK result \in {"ok", "error"} : EndDelivery(w, result)
    BY <1>6 DEF InsertInventory
  <2> QED
    BY <1>0, <2>1, <2>2, <2>3, EndDeliveryRetry
<1>7. CASE LookUpStock(w)
  <2>1. InHandler(w) /\ UNCHANGED <<outbox, faults, priced>>
    BY <1>7 DEF LookUpStock, InHandler, db
  <2>2. \/ EndDelivery(w, "ok")
        \/ \E point \in {"inventory", "confirm", "cancel"} : GoTo(w, point)
    BY <1>7 DEF LookUpStock
  <2> QED
    BY <1>0, <2>1, <2>2, EndDeliveryRetry, GoToRetry
<1>8. CASE DecideOrder(w)
  <2>1. InHandler(w) /\ UNCHANGED <<outbox, faults, priced>>
    BY <1>8 DEF DecideOrder, InHandler
  <2>2. event[w] \notin Products
    BY <1>0, <1>8 DEF DecideOrder, TypeOK
  <2>3. PICK result \in {"ok", "error"} : EndDelivery(w, result)
    BY <1>8 DEF DecideOrder
  <2> QED
    BY <1>0, <2>1, <2>2, <2>3, EndDeliveryRetry
<1> QED
  BY <1>1, <1>2, <1>3, <1>4, <1>5, <1>6, <1>7, <1>8 DEF WorkerStep

LEMMA RetryFault ==
    ASSUME TypeOK, RetryInv, NEW w \in Workers, Fault(w)
    PROVE  RetryInv'
<1>1. UNCHANGED <<priced, outbox>> /\ faults \in Nat /\ faults' = faults + 1
  BY FaultsAssumption DEF Fault, db, Crash, LoseConnection, HandlerFails, TypeOK
<1>2. CASE Crash(w)
  <2>1. EndProcess(w) /\ event' = [event EXCEPT ![w] = 0]
    BY <1>2 DEF Crash
  <2>2. faults' \in Nat /\ faults <= faults'
    BY <1>1
  <2> QED
    BY <1>1, <2>1, <2>2, EndProcessRetry
<1>3. CASE LoseConnection(w)
  <2>1. /\ locks'[w] = {} /\ \A v \in Workers : v # w => locks'[v] = locks[v]
        /\ UNCHANGED <<pc, batch, outcome, event>>
    BY <1>3 DEF LoseConnection, TypeOK
  <2>2. \A v \in Workers : InHandler(v)' <=> InHandler(v)
    BY <2>1 DEF InHandler
  <2>3. LockShape'
    BY <2>1, <2>2 DEF RetryInv, LockShape
  <2>4. \A p \in Products : outbox[p].retries \in Nat
    BY ProductsAssumption DEF TypeOK, Row
  <2>5. ChargedInv'
    BY <1>1, <2>1, <2>4 DEF RetryInv, ChargedInv
  <2> QED
    BY <2>3, <2>5 DEF RetryInv
<1>4. CASE HandlerFails(w)
  BY <1>1, <1>4, EndDeliveryRetry DEF HandlerFails
<1> QED
  BY <1>2, <1>3, <1>4 DEF Fault

LEMMA RetryApi ==
    ASSUME TypeOK, RetryInv,
           \/ \E p \in Products : CreateProduct(p)
           \/ \E o \in Orders : CreateOrder(o)
           \/ \E e \in Events : BackoffElapses(e)
    PROVE  RetryInv'
<1>1. UNCHANGED <<priced, pc, batch, locks, outcome, event, faults>> /\ faults \in Nat
  BY FaultsAssumption DEF CreateProduct, CreateOrder, BackoffElapses, db, TypeOK
<1>2. \A e \in Events : \/ outbox'[e].status # "failed" /\ outbox'[e].retries = 0
                        \/ /\ outbox'[e].status = outbox[e].status
                           /\ outbox'[e].retries = outbox[e].retries
  <2>1. NewRow.status = "pending" /\ NewRow.retries = 0
    BY DEF NewRow
  <2>2. ASSUME NEW e \in Events, BackoffElapses(e)
        PROVE  \A f \in Events : /\ outbox'[f].status = outbox[f].status
                                 /\ outbox'[f].retries = outbox[f].retries
    BY <2>2 DEF BackoffElapses, TypeOK, Row
  <2> QED
    BY <2>1, <2>2, ProductsAssumption DEF CreateProduct, CreateOrder, TypeOK
<1>3. \A p \in Products : p \in Events /\ outbox[p].retries \in Nat
  BY ProductsAssumption DEF TypeOK, Row
<1>4. LockShape'
  BY <1>1 DEF RetryInv, LockShape, InHandler
<1>5. ASSUME NEW p \in Products \ priced
      PROVE  /\ outbox'[p].retries <= faults
             /\ \A w \in Workers :
                   p \in locks[w] /\ outcome[w][p] = "error" => outbox'[p].retries < faults
  <2>1. /\ outbox[p].retries <= faults
        /\ \A w \in Workers :
              p \in locks[w] /\ outcome[w][p] = "error" => outbox[p].retries < faults
    BY DEF RetryInv, ChargedInv
  <2>2. outbox'[p].retries \in {0, outbox[p].retries}
    BY <1>2, <1>3
  <2> QED
    BY <1>1, <1>3, <2>1, <2>2
<1>6. ChargedInv'
  BY <1>1, <1>2, <1>5 DEF RetryInv, ChargedInv
<1> QED
  BY <1>4, <1>6 DEF RetryInv

LEMMA RetryStep == ProjectionInv /\ RetryInv /\ [Next]_vars => RetryInv'
<1> SUFFICES ASSUME ProjectionInv, RetryInv, [Next]_vars PROVE RetryInv'
  OBVIOUS
<1>1. CASE UNCHANGED vars
  BY <1>1 DEF vars, db, RetryInv, LockShape, ChargedInv, InHandler
<1>2. CASE Next
  BY <1>2, RetryApi, RetryWorker, RetryFault DEF Next, ProjectionInv
<1> QED
  BY <1>1, <1>2

\* A ProductCreated row is given up only after the price of its product was
\* committed or after as many faults as it has retries, for any number of
\* workers: no other error reaches an unpriced product.
THEOREM NoProductGivenUpUnpriced == Spec => []GivenUpIsPriced
<1>1. TypeOK /\ RetryInv => GivenUpIsPriced
  <2> SUFFICES ASSUME TypeOK, RetryInv, faults < MaxRetries,
                      NEW p \in Products, outbox[p].status = "failed"
               PROVE  p \in priced
    BY DEF GivenUpIsPriced
  <2>1. p \in Events /\ outbox[p].retries \in Nat /\ faults \in Nat /\ MaxRetries \in Nat
    BY ProductsAssumption, FaultsAssumption, WorkerAssumption DEF TypeOK, Row
  <2> QED
    BY <2>1 DEF RetryInv, ChargedInv
<1>2. ProjectionInv => TypeOK
  BY DEF ProjectionInv
<1> QED
  BY <1>1, <1>2, RetryInit, RetryStep, ProjectionAlways, PTL DEF Spec

-----------------------------------------------------------------------------
(* Orders behind their product *)

\* One API process.
OneWorker == \A v, w \in Workers : v = w

\* A product that has its price and not yet its stock is between its two
\* handlers, and orders are taken only for products that have their price.
InOrderInv ==
    /\ \A p \in priced \ stocked : \E w \in Workers : pc[w] = "inventory" /\ event[w] = p
    /\ \A o \in Orders : status[o] # "absent" => ProductOf[o] \in priced
    /\ \A w \in Workers : pc[w] # "cancel"
    /\ NoOrderOvertakesItsProduct

\* What is not a handler's business leaves it so.
LEMMA InOrderQuiet ==
    ASSUME InOrderInv, UNCHANGED <<priced, stocked, status>>,
           \A w \in Workers : /\ pc[w] = "inventory" => pc'[w] = pc[w] /\ event'[w] = event[w]
                              /\ pc'[w] # "cancel"
    PROVE  InOrderInv'
BY DEF InOrderInv, NoOrderOvertakesItsProduct

LEMMA InOrderWorker ==
    ASSUME OneWorker, TypeOK, InOrderInv, NEW w \in Workers, WorkerStep(w)
    PROVE  InOrderInv'
<1>0. \A v \in Workers : v = w
  BY DEF OneWorker
<1>1. \A p \in priced \ stocked : pc[w] = "inventory" /\ event[w] = p
  BY <1>0 DEF InOrderInv
<1>2. CASE Claim(w) \/ CommitBatch(w) \/ AbortBatch(w)
  <2>1. pc[w] # "inventory" /\ pc'[w] # "cancel" /\ UNCHANGED <<priced, stocked, status>>
    BY <1>2 DEF Claim, CommitBatch, AbortBatch, EndProcess, db, TypeOK
  <2> QED
    BY <1>0, <2>1, InOrderQuiet
<1>3. CASE StartRow(w)
  <2>1. PICK e \in batch[w] : TakeRow(w, e, FirstHandler(e))
    BY <1>3 DEF StartRow
  <2>2. pc[w] # "inventory" /\ pc'[w] # "cancel" /\ UNCHANGED <<priced, stocked, status>>
    BY <1>3, <2>1 DEF StartRow, FirstHandler, db, TypeOK
  <2> QED
    BY <1>0, <2>2, InOrderQuiet
<1>4. CASE InsertPricing(w)
  <2>1. pc[w] = "pricing" /\ UNCHANGED <<stocked, status>> /\ priced \subseteq stocked
    BY <1>1, <1>4 DEF InsertPricing
  <2>2. CASE event[w] \notin priced
    <3>1. /\ pc'[w] = "inventory" /\ event'[w] = event[w]
          /\ priced' = priced \union {event[w]}
      BY <1>4, <2>2 DEF InsertPricing, AfterPricing, GoTo, TypeOK
    <3> QED
      BY <1>0, <2>1, <3>1 DEF InOrderInv, NoOrderOvertakesItsProduct
  <2>3. CASE event[w] \in priced
    <3>1. UNCHANGED priced /\ pc'[w] = "row"
      BY <1>4, <2>3 DEF InsertPricing, EndDelivery, TypeOK
    <3> QED
      BY <1>0, <2>1, <3>1, InOrderQuiet
  <2> QED
    BY <2>2, <2>3
<1>5. CASE InsertInventory(w)
  <2>1. pc'[w] = "row" /\ UNCHANGED <<priced, status>>
    BY <1>5 DEF InsertInventory, EndDelivery, TypeOK
  <2>2. priced \subseteq stocked'
    BY <1>1, <1>5 DEF InsertInventory
  <2> QED
    BY <1>0, <2>1, <2>2 DEF InOrderInv, NoOrderOvertakesItsProduct
<1>6. CASE LookUpStock(w)
  <2>1. /\ pc[w] = "order" /\ event[w] \in Orders /\ priced \subseteq stocked
        /\ UNCHANGED <<priced, stocked, status>>
    BY <1>1, <1>6 DEF LookUpStock, TypeOK, db
  <2>2. status[event[w]] = "pending" => ProductOf[event[w]] \in stocked
    BY <2>1 DEF InOrderInv
  <2>3. pc'[w] \in {"row", "confirm"}
    BY <1>6, <2>2 DEF LookUpStock, GoTo, EndDelivery, TypeOK
  <2> QED
    BY <1>0, <2>1, <2>3, InOrderQuiet
<1>7. CASE DecideOrder(w)
  <2>1. pc[w] = "confirm" /\ event[w] \in Orders
    BY <1>7 DEF DecideOrder, InOrderInv, TypeOK
  <2>2. /\ priced \subseteq stocked /\ pc'[w] = "row" /\ UNCHANGED <<priced, stocked>>
    BY <1>1, <1>7, <2>1 DEF DecideOrder, EndDelivery, TypeOK
  <2>3. \A o \in Orders : \/ status'[o] = status[o]
                          \/ status'[o] = "confirmed" /\ status[o] = "pending"
    BY <1>7, <2>1 DEF DecideOrder, Decision, TypeOK
  <2> QED
    BY <1>0, <2>2, <2>3 DEF InOrderInv, NoOrderOvertakesItsProduct
<1> QED
  BY <1>2, <1>3, <1>4, <1>5, <1>6, <1>7 DEF WorkerStep

LEMMA InOrderApi ==
    ASSUME TypeOK, InOrderInv,
           \/ \E p \in Products : CreateProduct(p)
           \/ \E o \in Orders : CreateOrder(o)
           \/ \E e \in Events : BackoffElapses(e)
    PROVE  InOrderInv'
<1>1. UNCHANGED <<priced, stocked, pc, event>>
  BY DEF CreateProduct, CreateOrder, BackoffElapses, db
<1>2. CASE UNCHANGED status
  BY <1>1, <1>2, InOrderQuiet DEF InOrderInv
<1>3. ASSUME NEW o \in Orders, CreateOrder(o) PROVE InOrderInv'
  <2>1. ProductOf[o] \in priced
    BY <1>3 DEF CreateOrder
  <2>2. \A x \in Orders : status'[x] = IF x = o THEN "pending" ELSE status[x]
    BY <1>3 DEF CreateOrder, TypeOK
  <2> QED
    BY <1>1, <2>1, <2>2 DEF InOrderInv, NoOrderOvertakesItsProduct
<1> QED
  BY <1>2, <1>3 DEF CreateProduct, BackoffElapses, db

LEMMA InOrderStep ==
    OneWorker /\ TypeOK /\ (faults = 0 => InOrderInv) /\ [Next]_vars => (faults = 0 => InOrderInv)'
<1> SUFFICES ASSUME OneWorker, TypeOK, faults = 0 => InOrderInv, [Next]_vars, faults' = 0
             PROVE  InOrderInv'
  OBVIOUS
<1>1. ASSUME NEW w \in Workers, Fault(w) PROVE FALSE
  BY <1>1, FaultsAssumption DEF Fault, TypeOK
<1>2. CASE UNCHANGED vars
  BY <1>2 DEF vars, db, InOrderInv, NoOrderOvertakesItsProduct
<1>3. CASE \/ \E p \in Products : CreateProduct(p)
           \/ \E o \in Orders : CreateOrder(o)
           \/ \E e \in Events : BackoffElapses(e)
  BY <1>3, InOrderApi DEF CreateProduct, CreateOrder, BackoffElapses
<1>4. ASSUME NEW w \in Workers, WorkerStep(w) PROVE InOrderInv'
  <2>1. faults' = faults
    BY <1>4 DEF WorkerStep, Claim, StartRow, CommitBatch, AbortBatch, InsertPricing,
                InsertInventory, LookUpStock, DecideOrder
  <2> QED
    BY <1>4, <2>1, InOrderWorker
<1> QED
  BY <1>1, <1>2, <1>3, <1>4 DEF Next

\* One API process, while nothing fails, refuses no order for want of the
\* inventory row: the order is placed after the first handler of its product,
\* so it is delivered after the second, whatever the created_at of the two rows.
THEOREM NoOvertakingAlone ==
    ASSUME OneWorker PROVE Spec => [](faults = 0 => NoOrderOvertakesItsProduct)
<1>1. Init => InOrderInv
  BY DEF Init, OutboxInit, InOrderInv, NoOrderOvertakesItsProduct
<1>2. InOrderInv => NoOrderOvertakesItsProduct
  BY DEF InOrderInv
<1>3. TypeOK /\ (faults = 0 => InOrderInv) /\ [Next]_vars => (faults = 0 => InOrderInv)'
  BY InOrderStep
<1> QED
  BY <1>1, <1>2, <1>3, TypeInit, TypeStep, PTL DEF Spec

=============================================================================
