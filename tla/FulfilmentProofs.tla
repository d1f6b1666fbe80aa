-------------------------- MODULE FulfilmentProofs --------------------------
(* Theorems about Fulfilment, for every set of orders, products and workers, *)
(* every set of carts, every batch size and retry limit, and any number of   *)
(* faults and requests.                                                      *)
EXTENDS Fulfilment, FiniteSums

\* Orders are the events of the worker, and Fulfilment's actions wrap its.
USE DEF Orders, OutboxInit, NoRow, AppendRow, ClaimBatch, TakeRow, RecordOutcome,
        CommitOutcomes, AbortProcess, RetryDue, CrashProcess, LoseLocks

-----------------------------------------------------------------------------
(* Types *)

\* At these points the handler is at an item of its order.
AtItem(w) == pc[w] \in {"read", "write", "refused"}

ItemInRange == \A w \in Workers : AtItem(w) => tx[w].item \in DOMAIN Items(w)

TypeInv == TypeOK /\ ItemInRange

\* The item a handler is at is a product of the shop and a positive quantity.
LEMMA LineType ==
    ASSUME TypeOK, NEW w \in Workers, InHandler(w), tx[w].item \in DOMAIN Items(w)
    PROVE  Line(w).product \in Products /\ Line(w).quantity \in Nat \ {0}
<1>1. Items(w) \in Seq(Item)
  BY CartsAssumption DEF TypeOK, Items
<1>2. Line(w) \in Item
  BY <1>1 DEF Line
<1> QED
  BY <1>2 DEF Item

\* Ending a handler keeps the worker's variables in their types.
LEMMA EndHandlerType ==
    ASSUME TypeInv, NEW w \in Workers, NEW result \in {"ok", "error"}, InHandler(w),
           EndHandler(w, result), UNCHANGED cart
    PROVE  /\ pc' \in [Workers -> {"idle", "row", "load", "key", "read", "write", "refused"}]
           /\ batch' \in [Workers -> SUBSET Orders]
           /\ locks' \in [Workers -> SUBSET Orders]
           /\ outcome' \in [Workers -> [Orders -> {"none", "ok", "error"}]]
           /\ tx' \in [Workers -> Handler]
           /\ \A v \in Workers : InHandler(v)' => tx'[v].order \in Orders
           /\ ItemInRange'
<1>1. NoHandler \in Handler
  BY DEF NoHandler, Handler
<1>2. tx' \in [Workers -> Handler]
  BY <1>1 DEF EndHandler, TypeInv, TypeOK
<1>3. outcome' \in [Workers -> [Orders -> {"none", "ok", "error"}]]
  BY DEF EndHandler, TypeInv, TypeOK, InHandler
<1>4. \A v \in Workers : v # w => pc'[v] = pc[v] /\ tx'[v] = tx[v]
  BY DEF EndHandler, TypeInv, TypeOK
<1>5. pc' \in [Workers -> {"idle", "row", "load", "key", "read", "write", "refused"}]
      /\ pc'[w] = "row"
  BY DEF EndHandler, TypeInv, TypeOK
<1>6. \A v \in Workers : InHandler(v)' => tx'[v].order \in Orders
  BY <1>4, <1>5 DEF InHandler, TypeInv, TypeOK
<1>7. ItemInRange'
  BY <1>4, <1>5 DEF ItemInRange, AtItem, Items, TypeInv
<1> QED
  BY <1>2, <1>3, <1>5, <1>6, <1>7 DEF EndHandler, TypeInv, TypeOK

\* What the stock and the ledger are after a commit of w's handler.
LEMMA AfterCommitType ==
    ASSUME TypeOK, NEW w \in Workers
    PROVE  StockAfter(w) \in [Products -> Nat] /\ LedgerAfter(w) \in [Orders -> [Products -> Nat]]
<1>1. tx[w].rows \in [Products -> Nat] /\ tx[w].value \in [Products -> Nat]
  BY DEF TypeOK, Handler
<1>2. ledger \in [Orders -> [Products -> Nat]] /\ reserved \in [Products -> Nat]
  BY DEF TypeOK
<1> QED
  BY <1>1, <1>2 DEF StockAfter, LedgerAfter

LEMMA TypeInit == Init => TypeInv
<1> SUFFICES ASSUME Init PROVE TypeInv
  OBVIOUS
<1>1. NoHandler \in Handler
  BY DEF NoHandler, Handler
<1>2. NoOutcome \in [Orders -> {"none", "ok", "error"}]
  BY DEF NoOutcome
<1>3. [NewRow EXCEPT !.status = "absent"] \in Row
  BY DEF NewRow, Row, EventStatus
<1>4. quantity \in [Products -> Nat] /\ faults \in 0..MaxFaults
  BY BoundsAssumption DEF Init
<1>5. \A w \in Workers : ~InHandler(w) /\ ~AtItem(w)
  BY DEF Init, InHandler, AtItem
<1>6. <<>> \in Seq(OrderStatus)
  OBVIOUS
<1> QED
  BY <1>1, <1>2, <1>3, <1>4, <1>5, <1>6 DEF Init, TypeInv, TypeOK, ItemInRange

\* An API step or a backoff leaves the workers' variables alone.
LEMMA TypeApi == TypeInv /\ (ApiStep \/ \E o \in Orders : BackoffElapses(o)) => TypeInv'
<1> SUFFICES ASSUME TypeInv PROVE ApiStep \/ (\E o \in Orders : BackoffElapses(o)) => TypeInv'
  OBVIOUS
<1> USE DEF TypeInv, TypeOK, ItemInRange, AtItem, InHandler, Items, db, wk
<1>1. ASSUME NEW o \in Orders, CreateOrder(o) PROVE TypeInv'
  BY <1>1 DEF CreateOrder, OrderStatus, Row, NewRow, EventStatus
<1>2. ASSUME NEW o \in Orders, NEW to \in ApiTargets, RequestStatus(o, to) PROVE TypeInv'
  <2>1. [order |-> o, to |-> to, version |-> version[o]] \in Request
    BY BoundsAssumption DEF Request
  <2>2. requests' \in SUBSET Request
    BY <1>2, <2>1 DEF RequestStatus
  <2>3. UNCHANGED <<db, outbox, wk, faults>>
    BY <1>2 DEF RequestStatus
  <2> QED
    BY <2>2, <2>3
<1>3. ASSUME NEW r \in requests, CommitStatus(r) PROVE TypeInv'
  <2>1. r.order \in Orders /\ r.to \in OrderStatus
    BY DEF Request
  <2>2. announced' \in [Orders -> Seq(OrderStatus)]
    BY <1>3, <2>1 DEF CommitStatus
  <2> QED
    BY <1>3, <2>1, <2>2 DEF CommitStatus
<1>4. ASSUME NEW r \in requests, RejectStatus(r) PROVE TypeInv'
  BY <1>4 DEF RejectStatus
<1>5. ASSUME NEW o \in Orders, BackoffElapses(o) PROVE TypeInv'
  <2>0. outbox[o] \in Row
    OBVIOUS
  <2>1. [outbox[o] EXCEPT !.next = "due"] \in Row
    BY <2>0 DEF Row
  <2>2. outbox' \in [Orders -> Row]
    BY <1>5, <2>1 DEF BackoffElapses
  <2>3. UNCHANGED <<db, requests, wk, faults>>
    BY <1>5 DEF BackoffElapses
  <2> QED
    BY <2>2, <2>3
<1> QED
  BY <1>1, <1>2, <1>3, <1>4, <1>5 DEF ApiStep

\* A batch ends between two handlers, or a crash ends the handler with it.
EndBatch(w) == EndProcess(w) /\ (UNCHANGED tx \/ tx' = [tx EXCEPT ![w] = NoHandler])

\* Ending a batch keeps the worker's variables in their types.
LEMMA EndBatchType ==
    ASSUME TypeInv, NEW w \in Workers, EndBatch(w), UNCHANGED cart
    PROVE  /\ pc' \in [Workers -> {"idle", "row", "load", "key", "read", "write", "refused"}]
           /\ batch' \in [Workers -> SUBSET Orders]
           /\ locks' \in [Workers -> SUBSET Orders]
           /\ outcome' \in [Workers -> [Orders -> {"none", "ok", "error"}]]
           /\ tx' \in [Workers -> Handler]
           /\ \A v \in Workers : InHandler(v)' => tx'[v].order \in Orders
           /\ ItemInRange'
<1>1. NoHandler \in Handler /\ NoOutcome \in [Orders -> {"none", "ok", "error"}]
  BY DEF NoHandler, Handler, NoOutcome
<1>2. \A v \in Workers : v # w => pc'[v] = pc[v] /\ tx'[v] = tx[v]
  BY DEF EndBatch, EndProcess, TypeInv, TypeOK
<1>3. pc' \in [Workers -> {"idle", "row", "load", "key", "read", "write", "refused"}]
      /\ pc'[w] = "idle"
  BY DEF EndBatch, EndProcess, TypeInv, TypeOK
<1>4. \A v \in Workers : InHandler(v)' => tx'[v].order \in Orders
  BY <1>2, <1>3 DEF InHandler, TypeInv, TypeOK
<1>5. ItemInRange'
  BY <1>2, <1>3 DEF ItemInRange, AtItem, Items, TypeInv
<1>6. tx' \in [Workers -> Handler]
  BY <1>1 DEF EndBatch, TypeInv, TypeOK
<1>7. /\ batch' \in [Workers -> SUBSET Orders]
      /\ locks' \in [Workers -> SUBSET Orders]
      /\ outcome' \in [Workers -> [Orders -> {"none", "ok", "error"}]]
  BY <1>1 DEF EndBatch, EndProcess, TypeInv, TypeOK
<1> QED
  BY <1>3, <1>4, <1>5, <1>6, <1>7

\* The outbox rows a batch writes back.
LEMMA RowAfterType ==
    ASSUME NEW row \in Row, NEW result \in {"none", "ok", "error"}
    PROVE  RowAfter(row, result) \in Row
BY WorkerAssumption DEF RowAfter, Row, EventStatus, Completed, AfterFailure

\* The steps of process_once.
LEMMA TypeLoop ==
    ASSUME TypeInv, NEW w \in Workers,
           Claim(w) \/ StartRow(w) \/ CommitBatch(w) \/ AbortBatch(w)
    PROVE  TypeInv'
<1>1. CASE Claim(w)
  <2>1. OldestOf(Claimable) \subseteq Orders
    BY DEF OldestOf, Claimable
  <2>2. /\ pc' = [pc EXCEPT ![w] = "row"]
        /\ batch' = [batch EXCEPT ![w] = OldestOf(Claimable)]
        /\ locks' = [locks EXCEPT ![w] = OldestOf(Claimable)]
        /\ UNCHANGED <<db, outbox, requests, outcome, tx, faults>>
    BY <1>1 DEF Claim
  <2> QED
    BY <2>1, <2>2 DEF TypeInv, TypeOK, ItemInRange, AtItem, InHandler, Items, db
<1>2. CASE StartRow(w)
  <2>1. PICK o \in batch[w] : /\ batch' = [batch EXCEPT ![w] = @ \ {o}]
                              /\ tx' = [tx EXCEPT ![w] = [NoHandler EXCEPT !.order = o]]
    BY <1>2 DEF StartRow
  <2>2. o \in Orders
    BY <2>1 DEF TypeInv, TypeOK
  <2>3. [NoHandler EXCEPT !.order = o] \in Handler
        /\ [NoHandler EXCEPT !.order = o].order = o
    BY <2>2 DEF NoHandler, Handler
  <2>4. pc' = [pc EXCEPT ![w] = "load"] /\ UNCHANGED <<db, outbox, requests, locks, outcome, faults>>
    BY <1>2 DEF StartRow
  <2>5. tx' \in [Workers -> Handler] /\ batch' \in [Workers -> SUBSET Orders]
    BY <2>1, <2>2, <2>3 DEF TypeInv, TypeOK
  <2>6. \A v \in Workers : InHandler(v)' => tx'[v].order \in Orders
    BY <2>1, <2>2, <2>3, <2>4 DEF TypeInv, TypeOK, InHandler
  <2>7. ItemInRange'
    BY <2>1, <2>4 DEF TypeInv, TypeOK, ItemInRange, AtItem, Items, db
  <2> QED
    BY <2>4, <2>5, <2>6, <2>7 DEF TypeInv, TypeOK, db
<1>3. CASE CommitBatch(w)
  <2>0. \A o \in Orders : outbox[o] \in Row /\ outcome[w][o] \in {"none", "ok", "error"}
    BY DEF TypeInv, TypeOK
  <2>1. outbox' \in [Orders -> Row]
    BY <1>3, <2>0, RowAfterType DEF CommitBatch
  <2>2. EndBatch(w) /\ UNCHANGED <<db, requests, faults>>
    BY <1>3 DEF CommitBatch, EndBatch
  <2> QED
    BY <2>1, <2>2, EndBatchType DEF TypeInv, TypeOK, db
<1>4. CASE AbortBatch(w)
  <2>1. EndBatch(w) /\ UNCHANGED <<db, outbox, requests, faults>>
    BY <1>4 DEF AbortBatch, EndBatch
  <2> QED
    BY <2>1, EndBatchType DEF TypeInv, TypeOK, db
<1> QED
  BY <1>1, <1>2, <1>3, <1>4

\* The steps of a handler.
LEMMA TypeHandler == ASSUME TypeInv, NEW w \in Workers, HandlerStep(w) PROVE TypeInv'
<1> DEFINE Point == {"idle", "row", "load", "key", "read", "write", "refused"}
<1>0. tx[w] \in Handler /\ NoHandler \in Handler
  BY DEF TypeInv, TypeOK, NoHandler, Handler
<1>1. CASE LoadOrder(w)
  <2>1. InHandler(w)
    BY <1>1 DEF LoadOrder, InHandler
  <2>2. CASE status[tx[w].order] = "pending"
    <3>1. /\ pc' = [pc EXCEPT ![w] = "key"]
          /\ tx' = [tx EXCEPT ![w].version = version[tx[w].order]]
          /\ UNCHANGED <<db, outbox, requests, batch, locks, outcome, faults>>
      BY <1>1, <2>2 DEF LoadOrder
    <3>2. version[tx[w].order] \in Nat
      BY <2>1 DEF TypeInv, TypeOK
    <3>3. [tx[w] EXCEPT !.version = version[tx[w].order]] \in Handler
      BY <1>0, <3>2 DEF Handler
    <3>4. tx' \in [Workers -> Handler]
      BY <3>1, <3>3 DEF TypeInv, TypeOK
    <3>5. \A v \in Workers : tx'[v].order = tx[v].order
      BY <3>1, <1>0 DEF TypeInv, TypeOK, Handler
    <3>6. \A v \in Workers : InHandler(v)' => tx'[v].order \in Orders
      BY <2>1, <3>1, <3>5 DEF TypeInv, TypeOK, InHandler
    <3>7. ItemInRange'
      BY <3>1 DEF TypeInv, TypeOK, ItemInRange, AtItem, Items, db
    <3> QED
      BY <3>1, <3>4, <3>6, <3>7 DEF TypeInv, TypeOK, db
  <2>3. CASE status[tx[w].order] # "pending"
    <3>1. EndHandler(w, "ok") /\ UNCHANGED <<db, outbox, requests, faults>>
      BY <1>1, <2>3 DEF LoadOrder
    <3> QED
      BY <2>1, <3>1, EndHandlerType DEF TypeInv, TypeOK, db
  <2> QED
    BY <2>2, <2>3
<1>2. CASE FindReservation(w)
  <2>1. InHandler(w)
    BY <1>2 DEF FindReservation, InHandler
  <2>2. UNCHANGED <<db, outbox, requests, batch, locks, outcome, faults>>
    BY <1>2 DEF FindReservation
  <2>3. tx[w].item \in DOMAIN Items(w)
    <3>1. Items(w) \in Seq(Item)
      BY <2>1, CartsAssumption DEF TypeInv, TypeOK, Items
    <3>2. tx[w].item \in Nat \ {0} /\ tx[w].item <= Len(Items(w))
      BY <1>0, <1>2 DEF FindReservation, Handler
    <3> QED
      BY <3>1, <3>2
  <2>4. CASE tx' = [tx EXCEPT ![w].item = @ + 1] /\ UNCHANGED pc
    <3>1. [tx[w] EXCEPT !.item = @ + 1] \in Handler
      BY <1>0 DEF Handler
    <3>2. tx' \in [Workers -> Handler]
      BY <2>4, <3>1 DEF TypeInv, TypeOK
    <3>3. \A v \in Workers : tx'[v].order = tx[v].order
      BY <2>4, <1>0 DEF TypeInv, TypeOK, Handler
    <3>4. ItemInRange'
      BY <1>2, <2>2, <2>4 DEF FindReservation, TypeInv, TypeOK, ItemInRange, AtItem, Items, db
    <3> QED
      BY <2>2, <2>4, <3>2, <3>3, <3>4 DEF TypeInv, TypeOK, db, InHandler
  <2>5. CASE pc' = [pc EXCEPT ![w] = "read"] /\ UNCHANGED tx
    BY <2>1, <2>2, <2>3, <2>5 DEF TypeInv, TypeOK, ItemInRange, AtItem, Items, db, InHandler
  <2> QED
    BY <1>2, <2>4, <2>5 DEF FindReservation
<1>3. CASE ReadStock(w)
  <2>1. InHandler(w) /\ tx[w].item \in DOMAIN Items(w)
    BY <1>3 DEF ReadStock, InHandler, TypeInv, ItemInRange, AtItem
  <2>2. UNCHANGED <<db, outbox, requests, batch, locks, outcome, faults>>
    BY <1>3 DEF ReadStock
  <2>3. CASE pc' = [pc EXCEPT ![w] = "refused"] /\ UNCHANGED tx
    BY <2>1, <2>2, <2>3 DEF TypeInv, TypeOK, ItemInRange, AtItem, Items, db, InHandler
  <2>4. CASE /\ pc' = [pc EXCEPT ![w] = "write"]
             /\ tx' = [tx EXCEPT ![w].read = reserved[Line(w).product]]
    <3>1. reserved[Line(w).product] \in Nat
      BY <2>1, LineType DEF TypeInv, TypeOK
    <3>2. [tx[w] EXCEPT !.read = reserved[Line(w).product]] \in Handler
      BY <1>0, <3>1 DEF Handler
    <3>3. tx' \in [Workers -> Handler]
      BY <2>4, <3>2 DEF TypeInv, TypeOK
    <3>4. \A v \in Workers : tx'[v].order = tx[v].order /\ tx'[v].item = tx[v].item
      BY <2>4, <1>0 DEF TypeInv, TypeOK, Handler
    <3>5. ItemInRange'
      BY <2>1, <2>2, <2>4, <3>4 DEF TypeInv, TypeOK, ItemInRange, AtItem, Items, db
    <3> QED
      BY <2>1, <2>2, <2>4, <3>3, <3>4, <3>5 DEF TypeInv, TypeOK, db, InHandler
  <2> QED
    BY <1>3, <2>3, <2>4 DEF ReadStock
<1>4. CASE WriteReservation(w)
  <2>1. InHandler(w) /\ tx[w].item \in DOMAIN Items(w)
    BY <1>4 DEF WriteReservation, InHandler, TypeInv, ItemInRange, AtItem
  <2>2. UNCHANGED <<db, outbox, requests, faults>>
    BY <1>4 DEF WriteReservation
  <2>3. CASE EndHandler(w, "error")
    BY <2>1, <2>2, <2>3, EndHandlerType DEF TypeInv, TypeOK, db
  <2>4. CASE /\ tx' = [tx EXCEPT ![w].rows[Line(w).product] = Line(w).quantity,
                                 ![w].value[Line(w).product] = tx[w].read + Line(w).quantity,
                                 ![w].item = @ + 1]
             /\ pc' = [pc EXCEPT ![w] = "key"]
             /\ UNCHANGED <<batch, locks, outcome>>
    <3>1. Line(w).product \in Products /\ Line(w).quantity \in Nat \ {0}
      BY <2>1, LineType DEF TypeInv
    <3>2. [tx[w] EXCEPT !.rows[Line(w).product] = Line(w).quantity,
                        !.value[Line(w).product] = tx[w].read + Line(w).quantity,
                        !.item = @ + 1] \in Handler
      <4>1. [tx[w].rows EXCEPT ![Line(w).product] = Line(w).quantity] \in [Products -> Nat]
        BY <1>0, <3>1 DEF Handler
      <4>2. [tx[w].value EXCEPT ![Line(w).product] = tx[w].read + Line(w).quantity]
               \in [Products -> Nat]
        BY <1>0, <3>1 DEF Handler
      <4>3. tx[w].item + 1 \in Nat \ {0}
        BY <1>0 DEF Handler
      <4> QED
        BY <1>0, <4>1, <4>2, <4>3 DEF Handler
    <3>3. tx' \in [Workers -> Handler]
      BY <2>4, <3>2 DEF TypeInv, TypeOK
    <3>4. \A v \in Workers : tx'[v].order = tx[v].order
      BY <2>4, <1>0 DEF TypeInv, TypeOK, Handler
    <3>5. \A v \in Workers \ {w} : tx'[v] = tx[v] /\ pc'[v] = pc[v]
      BY <2>4 DEF TypeInv, TypeOK
    <3>6. ItemInRange'
      BY <2>2, <2>4, <3>4, <3>5 DEF TypeInv, TypeOK, ItemInRange, AtItem, Items, db
    <3> QED
      BY <2>1, <2>2, <2>4, <3>3, <3>4, <3>6 DEF TypeInv, TypeOK, db, InHandler
  <2> QED
    BY <1>4, <2>3, <2>4 DEF WriteReservation
<1>5. CASE DeadlockVictim(w)
  <2>1. InHandler(w)
    BY <1>5 DEF DeadlockVictim, Blockers, InHandler
  <2>2. EndHandler(w, "error") /\ UNCHANGED <<db, outbox, requests, faults>>
    BY <1>5 DEF DeadlockVictim
  <2> QED
    BY <2>1, <2>2, EndHandlerType DEF TypeInv, TypeOK, db
<1>6. ASSUME NEW decision \in OrderStatus, InHandler(w), Decide(w, decision) PROVE TypeInv'
  <2>1. UNCHANGED <<cart, announced, quantity, outbox, requests, faults>>
    BY <1>6 DEF Decide
  <2>2. \E result \in {"ok", "error"} : EndHandler(w, result)
    BY <1>6 DEF Decide
  <2>3. /\ status' \in [Orders -> OrderStatus \union {"absent"}]
        /\ version' \in [Orders -> Nat]
    <3>1. tx[w].order \in Orders
      BY <1>6 DEF TypeInv, TypeOK
    <3>2. \/ status' = [status EXCEPT ![tx[w].order] = decision]
             /\ version' = [version EXCEPT ![tx[w].order] = @ + 1]
          \/ UNCHANGED <<status, version>>
      BY <1>6 DEF Decide
    <3>3. status \in [Orders -> OrderStatus \union {"absent"}] /\ version \in [Orders -> Nat]
      BY DEF TypeInv, TypeOK
    <3> QED
      BY <1>6, <3>1, <3>2, <3>3
  <2>4. reserved' \in [Products -> Nat] /\ ledger' \in [Orders -> [Products -> Nat]]
    BY <1>6, AfterCommitType DEF Decide, TypeInv, TypeOK
  <2> QED
    BY <1>6, <2>1, <2>2, <2>3, <2>4, EndHandlerType DEF TypeInv, TypeOK
<1>7. CASE ConfirmOrder(w)
  BY <1>6, <1>7 DEF ConfirmOrder, InHandler, OrderStatus
<1>8. CASE CancelOrder(w)
  BY <1>6, <1>8 DEF CancelOrder, InHandler, OrderStatus
<1> QED
  BY <1>1, <1>2, <1>3, <1>4, <1>5, <1>7, <1>8 DEF HandlerStep

\* Faults.
LEMMA TypeFault == ASSUME TypeInv, NEW w \in Workers, Fault(w) PROVE TypeInv'
<1>0. faults' \in 0..MaxFaults
  BY BoundsAssumption DEF Fault, TypeInv, TypeOK
<1>1. CASE Crash(w)
  <2>1. EndBatch(w) /\ UNCHANGED <<db, outbox, requests>>
    BY <1>1 DEF Crash, EndBatch
  <2> QED
    BY <1>0, <2>1, EndBatchType DEF TypeInv, TypeOK, db
<1>2. CASE LoseConnection(w)
  BY <1>0, <1>2 DEF LoseConnection, TypeInv, TypeOK, ItemInRange, AtItem, Items, InHandler, db
<1>3. CASE HandlerFails(w)
  <2>1. InHandler(w) /\ EndHandler(w, "error") /\ UNCHANGED <<db, outbox, requests>>
    BY <1>3 DEF HandlerFails
  <2> QED
    BY <1>0, <2>1, EndHandlerType DEF TypeInv, TypeOK, db
<1> QED
  BY <1>1, <1>2, <1>3 DEF Fault

LEMMA TypeStep == TypeInv /\ [Next]_vars => TypeInv'
<1>1. TypeInv /\ UNCHANGED vars => TypeInv'
  BY DEF TypeInv, TypeOK, ItemInRange, AtItem, Items, InHandler, vars, db, wk
<1> QED
  BY <1>1, TypeApi, TypeLoop, TypeHandler, TypeFault DEF Next, WorkerStep

\* Every reachable state is well typed: no committed outbox row is PROCESSING,
\* no order leaves the status enumeration, every handler is at an item its
\* event really has.
THEOREM TypeCorrect == Spec => []TypeOK
<1>1. TypeInv => TypeOK
  BY DEF TypeInv
<1> QED
  BY TypeInit, TypeStep, <1>1, PTL DEF Spec

-----------------------------------------------------------------------------
(* Orders: their status, version, events and reservations *)

\* version_id tells an undecided order from a decided one, and counts the
\* transitions; stock is held only after the one transition with no event.
OrderInv == \A o \in Orders :
    /\ status[o] = "absent" => version[o] = 0 /\ announced[o] = <<>>
    /\ status[o] = "pending" => version[o] = 1 /\ announced[o] = <<>>
    /\ Decided(o) => version[o] >= 2
    /\ status[o] # "absent" => version[o] - (1 + Len(announced[o])) \in {0, 1}
    /\ Reserves(o) => Decided(o) /\ version[o] - (1 + Len(announced[o])) = 1

\* While the version is the one a request read, so is the status it checked.
RequestInv == \A r \in requests :
    /\ status[r.order] # "absent"
    /\ r.version <= version[r.order]
    /\ r.version = version[r.order] => CanTransition(status[r.order], r.to)

\* A handler past its status check holds the version of a PENDING order.
Loaded(w) == pc[w] \in {"key", "read", "write", "refused"}
HandlerInv == \A w \in Workers : Loaded(w) => tx[w].version = 1

LEMMA TransitionTarget ==
    ASSUME NEW from \in OrderStatus, NEW to, CanTransition(from, to)
    PROVE  to \in OrderStatus /\ to # "pending" /\ to # "absent"
BY DEF CanTransition, TRANSITIONS, OrderStatus

\* A handler that got through its items confirms, one that was refused cancels.
CommitsDecision(w, decision) ==
    /\ Loaded(w)
    /\ decision \in {"confirmed", "cancelled"}
    /\ IF decision = "confirmed" THEN ConfirmOrder(w) ELSE CancelOrder(w)
    /\ Current(tx[w].order, tx[w].version)
    /\ Decide(w, decision)

\* Nothing but these three kinds of steps writes an order or a reservation.
LEMMA OrderWriters ==
    ASSUME [Next]_vars
    PROVE  \/ UNCHANGED <<status, version, announced, reserved, ledger>>
           \/ \E o \in Orders : CreateOrder(o)
           \/ \E r \in requests : CommitStatus(r)
           \/ \E w \in Workers, d \in {"confirmed", "cancelled"} : CommitsDecision(w, d)
<1> DEFINE Quiet == UNCHANGED <<status, version, announced, reserved, ledger>>
<1>1. UNCHANGED vars => Quiet
  BY DEF vars, db
<1>2. ASSUME NEW o \in Orders, BackoffElapses(o) PROVE Quiet
  BY <1>2 DEF BackoffElapses, db
<1>3. ASSUME NEW o \in Orders, NEW to \in ApiTargets, RequestStatus(o, to) PROVE Quiet
  BY <1>3 DEF RequestStatus, db
<1>4. ASSUME NEW r \in requests, RejectStatus(r) PROVE Quiet
  BY <1>4 DEF RejectStatus, db
<1>5. ASSUME NEW w \in Workers, Fault(w) PROVE Quiet
  BY <1>5 DEF Fault, Crash, LoseConnection, HandlerFails, db
<1>6. ASSUME NEW w \in Workers, Claim(w) \/ StartRow(w) \/ CommitBatch(w) \/ AbortBatch(w)
      PROVE Quiet
  BY <1>6 DEF Claim, StartRow, CommitBatch, AbortBatch, db
<1>7. ASSUME NEW w \in Workers,
             LoadOrder(w) \/ FindReservation(w) \/ ReadStock(w) \/ WriteReservation(w)
             \/ DeadlockVictim(w)
      PROVE Quiet
  BY <1>7 DEF LoadOrder, FindReservation, ReadStock, WriteReservation, DeadlockVictim, db
<1>8. ASSUME NEW w \in Workers, ConfirmOrder(w) \/ CancelOrder(w)
      PROVE Quiet \/ \E d \in {"confirmed", "cancelled"} : CommitsDecision(w, d)
  <2>1. PICK d \in {"confirmed", "cancelled"} :
           Decide(w, d) /\ IF d = "confirmed" THEN ConfirmOrder(w) ELSE CancelOrder(w)
    BY <1>8 DEF ConfirmOrder, CancelOrder
  <2>2. Loaded(w)
    BY <1>8 DEF ConfirmOrder, CancelOrder, Loaded
  <2>3. CASE Current(tx[w].order, tx[w].version)
    BY <2>1, <2>2, <2>3 DEF CommitsDecision
  <2>4. CASE ~Current(tx[w].order, tx[w].version)
    BY <2>1, <2>4 DEF Decide
  <2> QED
    BY <2>3, <2>4
<1> QED
  BY <1>1, <1>2, <1>3, <1>4, <1>5, <1>6, <1>7, <1>8
  DEF Next, ApiStep, WorkerStep, HandlerStep

\* The orders a commit of a decision writes: one PENDING order moves on, with
\* its reservations, everything else stays.
LEMMA DecisionEffect ==
    ASSUME TypeInv, OrderInv, HandlerInv, NEW w \in Workers,
           NEW d \in {"confirmed", "cancelled"}, CommitsDecision(w, d)
    PROVE  /\ tx[w].order \in Orders
           /\ status[tx[w].order] = "pending"
           /\ version[tx[w].order] = 1
           /\ status' = [status EXCEPT ![tx[w].order] = d]
           /\ version' = [version EXCEPT ![tx[w].order] = 2]
           /\ \A q \in Orders \ {tx[w].order} : ledger'[q] = ledger[q]
           /\ UNCHANGED announced
<1>1. tx[w].order \in Orders
  BY DEF CommitsDecision, Loaded, TypeInv, TypeOK, InHandler
<1>2. version[tx[w].order] = 1
  BY DEF CommitsDecision, HandlerInv, Current
<1>3. status[tx[w].order] = "pending"
  BY <1>1, <1>2 DEF OrderInv, Decided
<1>4. /\ status' = [status EXCEPT ![tx[w].order] = d]
      /\ version' = [version EXCEPT ![tx[w].order] = @ + 1]
      /\ ledger' = LedgerAfter(w)
      /\ UNCHANGED announced
  BY DEF CommitsDecision, Decide
<1>5. \A q \in Orders \ {tx[w].order} : ledger'[q] = ledger[q]
  BY <1>1, <1>4 DEF LedgerAfter, TypeInv, TypeOK
<1> QED
  BY <1>1, <1>2, <1>3, <1>4, <1>5 DEF TypeInv, TypeOK

LEMMA OrderStep ==
    ASSUME TypeInv, OrderInv, RequestInv, HandlerInv, [Next]_vars
    PROVE  OrderInv'
<1>0. /\ status \in [Orders -> OrderStatus \union {"absent"}]
      /\ version \in [Orders -> Nat]
      /\ announced \in [Orders -> Seq(OrderStatus)]
      /\ ledger \in [Orders -> [Products -> Nat]]
      /\ requests \in SUBSET Request
  BY DEF TypeInv, TypeOK
<1>1. CASE UNCHANGED <<status, version, announced, reserved, ledger>>
  BY <1>1 DEF OrderInv, Decided, Reserves
<1>2. ASSUME NEW o \in Orders, CreateOrder(o) PROVE OrderInv'
  <2>1. /\ status[o] = "absent"
        /\ status' = [status EXCEPT ![o] = "pending"]
        /\ version' = [version EXCEPT ![o] = 1]
        /\ UNCHANGED <<announced, ledger>>
    BY <1>2 DEF CreateOrder
  <2>2. announced[o] = <<>> /\ ~Reserves(o)
    BY <2>1 DEF OrderInv, Decided
  <2> QED
    BY <1>0, <2>1, <2>2 DEF OrderInv, Decided, Reserves
<1>3. ASSUME NEW r \in requests, CommitStatus(r) PROVE OrderInv'
  <2> DEFINE o == r.order
  <2>1. o \in Orders /\ r.to \in OrderStatus
    BY <1>0 DEF Request
  <2>2. /\ status' = [status EXCEPT ![o] = r.to]
        /\ version' = [version EXCEPT ![o] = @ + 1]
        /\ announced' = [announced EXCEPT ![o] = Append(@, r.to)]
        /\ UNCHANGED ledger
        /\ r.version = version[o]
    BY <1>3 DEF CommitStatus, Current
  <2>3. status[o] # "absent" /\ CanTransition(status[o], r.to)
    BY <2>2 DEF RequestInv
  <2>4. r.to # "pending" /\ r.to # "absent"
    BY <1>0, <2>1, <2>3, TransitionTarget
  <2>5. version[o] >= 1 /\ version[o] - (1 + Len(announced[o])) \in {0, 1}
    BY <1>0, <2>1, <2>3 DEF OrderInv, Decided
  <2>6. announced'[o] = Append(announced[o], r.to) /\ Len(announced'[o]) = Len(announced[o]) + 1
    BY <1>0, <2>1, <2>2
  <2>7. version'[o] = version[o] + 1 /\ status'[o] = r.to /\ ledger'[o] = ledger[o]
    BY <1>0, <2>1, <2>2
  <2>8. version'[o] - (1 + Len(announced'[o])) = version[o] - (1 + Len(announced[o]))
    <3>1. Len(announced[o]) \in Nat /\ version[o] \in Nat
      BY <1>0, <2>1
    <3> QED
      BY <2>6, <2>7, <3>1
  <2>9. \A q \in Orders \ {o} : /\ status'[q] = status[q] /\ version'[q] = version[q]
                                /\ announced'[q] = announced[q] /\ ledger'[q] = ledger[q]
    BY <1>0, <2>2
  <2>10. Reserves(o)' <=> Reserves(o)
    BY <2>7 DEF Reserves
  <2>11. \A q \in Orders \ {o} : Reserves(q)' <=> Reserves(q)
    BY <2>9 DEF Reserves
  <2>12. version'[o] >= 2
    BY <1>0, <2>1, <2>5, <2>7
  <2> QED
    BY <2>1, <2>4, <2>5, <2>7, <2>8, <2>9, <2>10, <2>11, <2>12 DEF OrderInv, Decided
<1>4. ASSUME NEW w \in Workers, NEW d \in {"confirmed", "cancelled"}, CommitsDecision(w, d)
      PROVE  OrderInv'
  <2> DEFINE o == tx[w].order
  <2>1. /\ o \in Orders /\ status[o] = "pending"
        /\ status' = [status EXCEPT ![o] = d]
        /\ version' = [version EXCEPT ![o] = 2]
        /\ \A q \in Orders \ {o} : ledger'[q] = ledger[q]
        /\ UNCHANGED announced
    BY <1>4, DecisionEffect
  <2>2. announced[o] = <<>> /\ Len(announced[o]) = 0
    BY <2>1 DEF OrderInv
  <2>3. \A q \in Orders \ {o} : Reserves(q)' <=> Reserves(q)
    BY <2>1 DEF Reserves
  <2>4. version'[o] = 2 /\ status'[o] = d
    BY <1>0, <2>1
  <2>5. \A q \in Orders \ {o} : status'[q] = status[q] /\ version'[q] = version[q]
    BY <1>0, <2>1
  <2>6. version'[o] - (1 + Len(announced'[o])) = 1
    BY <2>1, <2>2, <2>4
  <2> QED
    BY <2>1, <2>3, <2>4, <2>5, <2>6 DEF OrderInv, Decided
<1> QED
  BY <1>1, <1>2, <1>3, <1>4, OrderWriters

\* Requests in flight: another request or a handler that commits first leaves
\* them with an old version.
LEMMA RequestStep ==
    ASSUME TypeInv, OrderInv, RequestInv, HandlerInv, [Next]_vars
    PROVE  RequestInv'
<1>0. /\ status \in [Orders -> OrderStatus \union {"absent"}]
      /\ version \in [Orders -> Nat]
      /\ \A r \in requests : r.order \in Orders /\ r.version \in Nat
  BY DEF TypeInv, TypeOK, Request
<1>1. ASSUME NEW o \in Orders, NEW to \in ApiTargets, RequestStatus(o, to) PROVE RequestInv'
  <2>1. /\ requests' = requests \union {[order |-> o, to |-> to, version |-> version[o]]}
        /\ status[o] # "absent" /\ CanTransition(status[o], to)
        /\ UNCHANGED <<status, version>>
    BY <1>1 DEF RequestStatus, db
  <2> QED
    BY <1>0, <2>1 DEF RequestInv
<1>2. CASE requests' \subseteq requests /\ UNCHANGED <<status, version>>
  BY <1>2 DEF RequestInv
<1>3. ASSUME NEW o \in Orders, CreateOrder(o) PROVE RequestInv'
  BY <1>0, <1>3 DEF CreateOrder, RequestInv
<1>4. ASSUME NEW r \in requests, CommitStatus(r) PROVE RequestInv'
  <2>1. /\ status' = [status EXCEPT ![r.order] = r.to]
        /\ version' = [version EXCEPT ![r.order] = @ + 1]
        /\ requests' \subseteq requests
        /\ r.version = version[r.order]
    BY <1>4 DEF CommitStatus, Current
  <2>2. r.to # "absent"
    <3>1. status[r.order] \in OrderStatus /\ CanTransition(status[r.order], r.to)
      BY <1>0, <2>1 DEF RequestInv
    <3> QED
      BY <3>1, TransitionTarget
  <2> QED
    BY <1>0, <2>1, <2>2 DEF RequestInv
<1>5. ASSUME NEW w \in Workers, NEW d \in {"confirmed", "cancelled"}, CommitsDecision(w, d)
      PROVE  RequestInv'
  <2>1. /\ tx[w].order \in Orders
        /\ version[tx[w].order] = 1
        /\ status' = [status EXCEPT ![tx[w].order] = d]
        /\ version' = [version EXCEPT ![tx[w].order] = 2]
    BY <1>5, DecisionEffect
  <2>2. requests' = requests
    BY <1>5 DEF CommitsDecision, Decide
  <2> QED
    BY <1>0, <2>1, <2>2 DEF RequestInv
<1>6. ASSUME UNCHANGED <<status, version, announced, reserved, ledger>>
      PROVE  \/ requests' \subseteq requests
             \/ \E o \in Orders, to \in ApiTargets : RequestStatus(o, to)
  <2>1. ASSUME NEW o \in Orders, BackoffElapses(o) PROVE requests' = requests
    BY <2>1 DEF BackoffElapses
  <2>2. ASSUME NEW r \in requests, RejectStatus(r) \/ CommitStatus(r) PROVE requests' \subseteq requests
    BY <2>2 DEF RejectStatus, CommitStatus
  <2>3. ASSUME NEW o \in Orders, CreateOrder(o) PROVE requests' = requests
    BY <2>3 DEF CreateOrder
  <2>4. ASSUME NEW w \in Workers, WorkerStep(w) \/ Fault(w) PROVE requests' = requests
    BY <2>4 DEF WorkerStep, HandlerStep, Fault, Crash, LoseConnection, HandlerFails, Claim,
                StartRow, CommitBatch, AbortBatch, LoadOrder, FindReservation, ReadStock,
                WriteReservation, DeadlockVictim, ConfirmOrder, CancelOrder, Decide
  <2>5. UNCHANGED vars => requests' = requests
    BY DEF vars
  <2> QED
    BY <2>1, <2>2, <2>3, <2>4, <2>5 DEF Next, ApiStep
<1> QED
  BY <1>1, <1>2, <1>3, <1>4, <1>5, <1>6, OrderWriters

\* Handlers: only LoadOrder lets one in, and then the order is PENDING.
LEMMA HandlerInvStep ==
    ASSUME TypeInv, OrderInv, HandlerInv, [Next]_vars
    PROVE  HandlerInv'
<1> DEFINE Same(v) == pc'[v] = pc[v] /\ tx'[v] = tx[v]
<1>0. pc \in [Workers -> {"idle", "row", "load", "key", "read", "write", "refused"}]
      /\ tx \in [Workers -> Handler]
  BY DEF TypeInv, TypeOK
<1>1. CASE UNCHANGED <<pc, tx>>
  BY <1>1 DEF HandlerInv, Loaded
<1>2. ASSUME NEW w \in Workers, \A v \in Workers \ {w} : Same(v),
             Loaded(w)' => tx'[w].version = 1
      PROVE  HandlerInv'
  BY <1>2 DEF HandlerInv, Loaded
<1>3. ASSUME NEW w \in Workers, NEW result, EndHandler(w, result) PROVE HandlerInv'
  BY <1>0, <1>2, <1>3 DEF EndHandler, Loaded
<1>4. ASSUME NEW w \in Workers, EndBatch(w) PROVE HandlerInv'
  BY <1>0, <1>2, <1>4 DEF EndBatch, EndProcess, Loaded
<1>5. ASSUME NEW w \in Workers, Claim(w) PROVE HandlerInv'
  BY <1>0, <1>2, <1>5 DEF Claim, Loaded
<1>6. ASSUME NEW w \in Workers, StartRow(w) PROVE HandlerInv'
  BY <1>0, <1>2, <1>6 DEF StartRow, Loaded
<1>7. ASSUME NEW w \in Workers, LoadOrder(w) PROVE HandlerInv'
  <2>1. CASE EndHandler(w, "ok")
    BY <1>3, <2>1
  <2>2. CASE status[tx[w].order] = "pending"
    <3>1. tx[w].order \in Orders
      BY <1>7 DEF LoadOrder, InHandler, TypeInv, TypeOK
    <3>2. version[tx[w].order] = 1
      BY <2>2, <3>1 DEF OrderInv
    <3>3. tx' = [tx EXCEPT ![w].version = 1] /\ pc' = [pc EXCEPT ![w] = "key"]
      BY <1>7, <2>2, <3>2 DEF LoadOrder
    <3>4. tx'[w].version = 1
      BY <1>0, <3>3 DEF Handler
    <3> QED
      BY <1>0, <1>2, <3>3, <3>4
  <2> QED
    BY <1>7, <2>1, <2>2 DEF LoadOrder
<1>8. ASSUME NEW w \in Workers, FindReservation(w) \/ ReadStock(w) \/ WriteReservation(w)
      PROVE  HandlerInv'
  <2>1. CASE EndHandler(w, "error")
    BY <1>3, <2>1
  <2>2. CASE ~EndHandler(w, "error")
    <3>1. Loaded(w)
      BY <1>8 DEF FindReservation, ReadStock, WriteReservation, Loaded
    <3>2. \A v \in Workers \ {w} : Same(v)
      BY <1>0, <1>8, <2>2 DEF FindReservation, ReadStock, WriteReservation
    <3>3. tx'[w].version = tx[w].version
      BY <1>0, <1>8, <2>2 DEF FindReservation, ReadStock, WriteReservation, Handler
    <3> QED
      BY <1>2, <3>1, <3>2, <3>3 DEF HandlerInv
  <2> QED
    BY <2>1, <2>2
<1>9. ASSUME NEW w \in Workers, HandlerStep(w) PROVE HandlerInv'
  BY <1>3, <1>7, <1>8, <1>9
  DEF HandlerStep, DeadlockVictim, ConfirmOrder, CancelOrder, Decide
<1>10. ASSUME NEW w \in Workers, WorkerStep(w) \/ Fault(w) PROVE HandlerInv'
  <2>1. CASE CommitBatch(w) \/ AbortBatch(w) \/ Crash(w)
    BY <1>4, <2>1 DEF CommitBatch, AbortBatch, Crash, EndBatch
  <2>2. CASE LoseConnection(w)
    BY <1>1, <2>2 DEF LoseConnection
  <2> QED
    BY <1>3, <1>5, <1>6, <1>9, <1>10, <2>1, <2>2 DEF WorkerStep, Fault, HandlerFails
<1>11. ASSUME ApiStep \/ (\E o \in Orders : BackoffElapses(o)) \/ UNCHANGED vars
       PROVE  UNCHANGED <<pc, tx>>
  BY <1>11 DEF ApiStep, CreateOrder, RequestStatus, CommitStatus, RejectStatus, BackoffElapses,
               vars, wk
<1> QED
  BY <1>1, <1>10, <1>11 DEF Next

OrdersInv == TypeInv /\ OrderInv /\ RequestInv /\ HandlerInv

LEMMA OrdersInit == Init => OrdersInv
<1>1. Init => OrderInv
  BY DEF Init, OrderInv, Decided, Reserves
<1>2. Init => RequestInv /\ HandlerInv
  BY DEF Init, RequestInv, HandlerInv, Loaded
<1> QED
  BY <1>1, <1>2, TypeInit DEF OrdersInv

LEMMA OrdersStep == OrdersInv /\ [Next]_vars => OrdersInv'
BY TypeStep, OrderStep, RequestStep, HandlerInvStep DEF OrdersInv

LEMMA OrdersAlways == Spec => []OrdersInv
BY OrdersInit, OrdersStep, PTL DEF Spec

\* handle_order_created is atomic to everyone else: whatever handlers, retries,
\* deadlocks and crashes went before, an order that is still undecided holds no
\* reservation.
THEOREM UndecidedHoldsNothing == Spec => []PendingHoldsNothing
<1>1. OrdersInv => PendingHoldsNothing
  BY DEF OrdersInv, OrderInv, PendingHoldsNothing
<1> QED
  BY <1>1, OrdersAlways, PTL

\* Redelivery is harmless: any number of deliveries of one event, by any number
\* of workers, decide the order at most once, and only that decision takes stock.
THEOREM DecidedOnce == Spec => []HandlerDecidesOnce
<1>1. OrdersInv => HandlerDecidesOnce
  BY DEF OrdersInv, OrderInv, HandlerDecidesOnce
<1> QED
  BY <1>1, OrdersAlways, PTL

\* Optimistic locking is enough: a transition checked on a stale copy of the
\* order is never committed, so every committed one is in the table.
THEOREM TransitionsRespected == Spec => StepsFollowTransitions
<1>1. OrdersInv /\ [Next]_vars => StatusStep
  <2> SUFFICES ASSUME OrdersInv, [Next]_vars PROVE StatusStep
    OBVIOUS
  <2>0. TypeInv /\ OrderInv /\ RequestInv /\ HandlerInv
    BY DEF OrdersInv
  <2>1. status \in [Orders -> OrderStatus \union {"absent"}]
    BY <2>0 DEF TypeInv, TypeOK
  <2>2. CASE UNCHANGED <<status, version, announced, reserved, ledger>>
    BY <2>2 DEF StatusStep
  <2>3. ASSUME NEW o \in Orders, CreateOrder(o) PROVE StatusStep
    BY <2>1, <2>3 DEF CreateOrder, StatusStep
  <2>4. ASSUME NEW r \in requests, CommitStatus(r) PROVE StatusStep
    <3>1. CanTransition(status[r.order], r.to)
      BY <2>0, <2>4 DEF RequestInv, CommitStatus, Current
    <3>2. status' = [status EXCEPT ![r.order] = r.to]
      BY <2>4 DEF CommitStatus
    <3> QED
      BY <2>1, <3>1, <3>2 DEF StatusStep
  <2>5. ASSUME NEW w \in Workers, NEW d \in {"confirmed", "cancelled"}, CommitsDecision(w, d)
        PROVE  StatusStep
    <3>1. status[tx[w].order] = "pending" /\ status' = [status EXCEPT ![tx[w].order] = d]
      BY <2>0, <2>5, DecisionEffect
    <3>2. CanTransition("pending", d)
      BY DEF CanTransition, TRANSITIONS
    <3> QED
      BY <2>1, <3>1, <3>2 DEF StatusStep
  <2> QED
    BY <2>2, <2>3, <2>4, <2>5, OrderWriters
<1> QED
  BY <1>1, OrdersAlways, PTL DEF Spec, StepsFollowTransitions

-----------------------------------------------------------------------------
(* Deliveries: the outbox rows, who holds them and what is written back *)

\* A decided order stays decided, and only create_order makes one exist.
LEMMA StatusFacts ==
    ASSUME OrdersInv, [Next]_vars, NEW o \in Orders
    PROVE  /\ Decided(o) => Decided(o)'
           /\ status[o] # "absent" => status'[o] # "absent"
           /\ status[o] = "absent" /\ status'[o] # "absent" => CreateOrder(o)
<1>0. TypeInv /\ OrderInv /\ RequestInv /\ HandlerInv
      /\ status \in [Orders -> OrderStatus \union {"absent"}]
  BY DEF OrdersInv, TypeInv, TypeOK
<1>1. CASE UNCHANGED <<status, version, announced, reserved, ledger>>
  BY <1>1 DEF Decided
<1>2. ASSUME NEW q \in Orders, CreateOrder(q)
      PROVE  /\ Decided(o) => Decided(o)'
             /\ status[o] # "absent" => status'[o] # "absent"
             /\ status[o] = "absent" /\ status'[o] # "absent" => CreateOrder(o)
  <2>1. status[q] = "absent" /\ status' = [status EXCEPT ![q] = "pending"]
    BY <1>2 DEF CreateOrder
  <2> QED
    BY <1>0, <1>2, <2>1 DEF Decided
<1>3. ASSUME NEW r \in requests, CommitStatus(r)
      PROVE  /\ Decided(o) => Decided(o)'
             /\ status[o] # "absent" <=> status'[o] # "absent"
  <2>1. /\ status' = [status EXCEPT ![r.order] = r.to]
        /\ r.version = version[r.order]
    BY <1>3 DEF CommitStatus, Current
  <2>2. r.order \in Orders /\ status[r.order] # "absent"
        /\ CanTransition(status[r.order], r.to)
    BY <1>0, <2>1 DEF RequestInv, TypeInv, TypeOK, Request
  <2>3. r.to # "absent" /\ r.to # "pending"
    BY <1>0, <2>2, TransitionTarget
  <2> QED
    BY <1>0, <2>1, <2>2, <2>3 DEF Decided
<1>4. ASSUME NEW w \in Workers, NEW d \in {"confirmed", "cancelled"}, CommitsDecision(w, d)
      PROVE  /\ Decided(o) => Decided(o)'
             /\ status[o] # "absent" <=> status'[o] # "absent"
  BY <1>0, <1>4, DecisionEffect DEF Decided
<1> QED
  BY <1>1, <1>2, <1>3, <1>4, OrderWriters

\* What a delivery knows about its order.
DeliveryInv ==
    /\ \A o \in Orders : /\ outbox[o].status = "absent" <=> status[o] = "absent"
                         /\ outbox[o].status = "completed" => Decided(o)
                         /\ outbox[o].next = "backoff" => outbox[o].status = "pending"
    /\ \A w \in Workers : /\ \A o \in batch[w] : status[o] # "absent"
                          /\ InHandler(w) => status[tx[w].order] # "absent"
                          /\ \A o \in Orders : outcome[w][o] = "ok" => Decided(o)

\* Who holds a row: everything a worker with a live outbox connection will
\* write back is locked by it, and a locked row is PENDING for everyone.
LockInv ==
    /\ \A w \in Workers :
        /\ pc[w] = "idle" => locks[w] = {} /\ outcome[w] = NoOutcome
        /\ locks[w] # {} =>
            /\ batch[w] \subseteq locks[w]
            /\ InHandler(w) => tx[w].order \in locks[w]
            /\ \A o \in Orders : outcome[w][o] # "none" => o \in locks[w]
        /\ \A o \in locks[w] : outbox[o].status = "pending"
    /\ \A v, w \in Workers : v # w => locks[v] \intersect locks[w] = {}

DeliveriesInv == OrdersInv /\ DeliveryInv /\ LockInv

LEMMA DeliveriesInit == Init => DeliveriesInv
<1> SUFFICES ASSUME Init PROVE DeliveriesInv
  OBVIOUS
<1>1. DeliveryInv
  BY DEF Init, DeliveryInv, NewRow, NoOutcome, InHandler
<1>2. LockInv
  BY DEF Init, LockInv
<1> QED
  BY <1>1, <1>2, OrdersInit DEF DeliveriesInv

\* Ending a handler with what it did to its order recorded.
LEMMA EndHandlerDelivery ==
    ASSUME DeliveriesInv, [Next]_vars, NEW w \in Workers, NEW result \in {"ok", "error"},
           InHandler(w), EndHandler(w, result), UNCHANGED outbox,
           NEW done \in Orders, done = tx[w].order, result = "ok" => Decided(done)'
    PROVE  DeliveryInv' /\ LockInv'
<1>0. /\ pc \in [Workers -> {"idle", "row", "load", "key", "read", "write", "refused"}]
      /\ tx \in [Workers -> Handler]
      /\ batch \in [Workers -> SUBSET Orders]
      /\ outcome \in [Workers -> [Orders -> {"none", "ok", "error"}]]
      /\ tx[w].order \in Orders
      /\ \A v \in Workers : InHandler(v) => tx[v].order \in Orders
  BY DEF DeliveriesInv, OrdersInv, TypeInv, TypeOK
<1>1. /\ pc' = [pc EXCEPT ![w] = "row"]
      /\ outcome' = [outcome EXCEPT ![w][tx[w].order] = result]
      /\ tx' = [tx EXCEPT ![w] = NoHandler]
      /\ UNCHANGED <<batch, locks>>
  BY DEF EndHandler
<1>2. \A o \in Orders : /\ Decided(o) => Decided(o)'
                        /\ status[o] # "absent" => status'[o] # "absent"
  BY StatusFacts DEF DeliveriesInv
<1>3. \A o \in Orders : status[o] = "absent" => status'[o] = "absent"
  <2>1. \A o \in Orders : CreateOrder(o) => FALSE
    BY <1>0, <1>1 DEF CreateOrder, wk, InHandler
  <2> QED
    BY <2>1, StatusFacts DEF DeliveriesInv
<1>4. \A v \in Workers, o \in Orders :
        outcome'[v][o] = IF v = w /\ o = tx[w].order THEN result ELSE outcome[v][o]
  BY <1>0, <1>1
<1>5. \A v \in Workers : InHandler(v)' => v # w /\ InHandler(v) /\ tx'[v] = tx[v]
  BY <1>0, <1>1 DEF InHandler
<1>6. DeliveryInv'
  <2>1. \A o \in Orders : /\ outbox'[o].status = "absent" <=> status'[o] = "absent"
                          /\ outbox'[o].status = "completed" => Decided(o)'
                          /\ outbox'[o].next = "backoff" => outbox'[o].status = "pending"
    BY <1>2, <1>3 DEF DeliveriesInv, DeliveryInv
  <2>2. \A v \in Workers : \A o \in batch'[v] : status'[o] # "absent"
    BY <1>0, <1>1, <1>2 DEF DeliveriesInv, DeliveryInv
  <2>3. \A v \in Workers : InHandler(v)' => status'[tx'[v].order] # "absent"
    BY <1>0, <1>2, <1>5 DEF DeliveriesInv, DeliveryInv
  <2>4. \A v \in Workers, o \in Orders : outcome'[v][o] = "ok" => Decided(o)'
    BY <1>2, <1>4 DEF DeliveriesInv, DeliveryInv
  <2> QED
    BY <2>1, <2>2, <2>3, <2>4 DEF DeliveryInv
<1>7. LockInv'
  <2>1. \A v \in Workers : pc'[v] = "idle" => v # w /\ pc[v] = "idle" /\ outcome'[v] = outcome[v]
    BY <1>0, <1>1
  <2>2. \A v \in Workers : pc'[v] = "idle" => locks'[v] = {} /\ outcome'[v] = NoOutcome
    BY <1>1, <2>1 DEF DeliveriesInv, LockInv
  <2>3. \A v \in Workers : locks'[v] # {} =>
            /\ batch'[v] \subseteq locks'[v]
            /\ InHandler(v)' => tx'[v].order \in locks'[v]
            /\ \A o \in Orders : outcome'[v][o] # "none" => o \in locks'[v]
    BY <1>1, <1>4, <1>5 DEF DeliveriesInv, LockInv
  <2>4. /\ \A v \in Workers : \A o \in locks'[v] : outbox'[o].status = "pending"
        /\ \A v, u \in Workers : v # u => locks'[v] \intersect locks'[u] = {}
    BY <1>1 DEF DeliveriesInv, LockInv
  <2> QED
    BY <2>2, <2>3, <2>4 DEF LockInv
<1> QED
  BY <1>6, <1>7

\* Ending a batch, its rows written back or not.
LEMMA EndBatchDelivery ==
    ASSUME DeliveriesInv, NEW w \in Workers, EndBatch(w), UNCHANGED status,
           \A o \in Orders :
             \/ outbox'[o] = outbox[o]
             \/ /\ o \in locks[w]
                /\ outbox'[o].status # "absent"
                /\ outbox'[o].status = "completed" => Decided(o)
                /\ outbox'[o].next = "backoff" => outbox'[o].status = "pending"
    PROVE  DeliveryInv' /\ LockInv'
<1>0. /\ pc \in [Workers -> {"idle", "row", "load", "key", "read", "write", "refused"}]
      /\ tx \in [Workers -> Handler]
      /\ batch \in [Workers -> SUBSET Orders]
      /\ locks \in [Workers -> SUBSET Orders]
      /\ outcome \in [Workers -> [Orders -> {"none", "ok", "error"}]]
      /\ DeliveryInv /\ LockInv
  BY DEF DeliveriesInv, OrdersInv, TypeInv, TypeOK
<1>1. /\ pc'[w] = "idle" /\ batch'[w] = {} /\ locks'[w] = {} /\ outcome'[w] = NoOutcome
      /\ \A v \in Workers \ {w} : /\ pc'[v] = pc[v] /\ batch'[v] = batch[v]
                                  /\ locks'[v] = locks[v] /\ outcome'[v] = outcome[v]
                                  /\ tx'[v] = tx[v]
  BY <1>0 DEF EndBatch, EndProcess
<1>2. \A o \in locks[w] : outbox[o].status = "pending" /\ o \in Orders
  BY <1>0 DEF LockInv
<1>3. DeliveryInv'
  <2>1. \A o \in Orders : /\ outbox'[o].status = "absent" <=> status'[o] = "absent"
                          /\ outbox'[o].status = "completed" => Decided(o)'
                          /\ outbox'[o].next = "backoff" => outbox'[o].status = "pending"
    BY <1>0, <1>2 DEF DeliveryInv, Decided
  <2>2. \A v \in Workers : \A o \in batch'[v] : status'[o] # "absent"
    BY <1>0, <1>1 DEF DeliveryInv
  <2>3. \A v \in Workers : InHandler(v)' => status'[tx'[v].order] # "absent"
    BY <1>0, <1>1 DEF DeliveryInv, InHandler
  <2>4. \A v \in Workers, o \in Orders : outcome'[v][o] = "ok" => Decided(o)'
    BY <1>0, <1>1 DEF DeliveryInv, Decided, NoOutcome
  <2> QED
    BY <2>1, <2>2, <2>3, <2>4 DEF DeliveryInv
<1>4. LockInv'
  <2>1. \A v \in Workers \ {w} : locks'[v] \intersect locks[w] = {}
    BY <1>0, <1>1 DEF LockInv
  <2>2. \A v \in Workers : \A o \in locks'[v] : outbox'[o].status = "pending"
    BY <1>0, <1>1, <2>1 DEF LockInv
  <2>3. \A v \in Workers : pc'[v] = "idle" => locks'[v] = {} /\ outcome'[v] = NoOutcome
    BY <1>0, <1>1 DEF LockInv
  <2>4. \A v \in Workers : locks'[v] # {} =>
            /\ batch'[v] \subseteq locks'[v]
            /\ InHandler(v)' => tx'[v].order \in locks'[v]
            /\ \A o \in Orders : outcome'[v][o] # "none" => o \in locks'[v]
    BY <1>0, <1>1 DEF LockInv, InHandler
  <2>5. \A v, u \in Workers : v # u => locks'[v] \intersect locks'[u] = {}
    BY <1>0, <1>1 DEF LockInv
  <2> QED
    BY <2>2, <2>3, <2>4, <2>5 DEF LockInv
<1> QED
  BY <1>3, <1>4

\* The steps that touch neither outbox rows nor deliveries.
LEMMA QuietDelivery ==
    ASSUME DeliveriesInv, [Next]_vars,
           UNCHANGED <<outbox, batch, locks, outcome>>,
           \A o \in Orders : status[o] = "absent" => status'[o] = "absent",
           \A w \in Workers : (InHandler(w) <=> InHandler(w)') /\ (pc'[w] = "idle" <=> pc[w] = "idle")
                              /\ tx'[w].order = tx[w].order
    PROVE  DeliveryInv' /\ LockInv'
<1>1. \A o \in Orders : /\ Decided(o) => Decided(o)'
                        /\ status[o] # "absent" <=> status'[o] # "absent"
  BY StatusFacts DEF DeliveriesInv
<1>2. \A w \in Workers : InHandler(w) => tx[w].order \in Orders
  BY DEF DeliveriesInv, OrdersInv, TypeInv, TypeOK
<1>3. \A w \in Workers : batch[w] \subseteq Orders
  BY DEF DeliveriesInv, OrdersInv, TypeInv, TypeOK
<1>4. DeliveryInv'
  BY <1>1, <1>2, <1>3 DEF DeliveriesInv, DeliveryInv
<1>5. LockInv'
  BY DEF DeliveriesInv, LockInv
<1> QED
  BY <1>4, <1>5

LEMMA DeliveryApi ==
    ASSUME DeliveriesInv, [Next]_vars,
           ApiStep \/ (\E o \in Orders : BackoffElapses(o)) \/ UNCHANGED vars
    PROVE  DeliveryInv' /\ LockInv'
<1>0. /\ status \in [Orders -> OrderStatus \union {"absent"}]
      /\ outbox \in [Orders -> Row]
      /\ \A w \in Workers : InHandler(w) => tx[w].order \in Orders
      /\ \A w \in Workers : batch[w] \subseteq Orders /\ locks[w] \subseteq Orders
      /\ DeliveryInv /\ LockInv
  BY DEF DeliveriesInv, OrdersInv, TypeInv, TypeOK
<1>1. ASSUME UNCHANGED <<outbox, wk>>, \A o \in Orders : status[o] = "absent" => status'[o] = "absent"
      PROVE  DeliveryInv' /\ LockInv'
  BY <1>1, QuietDelivery DEF wk, InHandler
<1>2. ASSUME NEW o \in Orders, NEW to \in ApiTargets, RequestStatus(o, to)
      PROVE  DeliveryInv' /\ LockInv'
  BY <1>1, <1>2 DEF RequestStatus, db
<1>3. ASSUME NEW r \in requests, RejectStatus(r) PROVE DeliveryInv' /\ LockInv'
  BY <1>1, <1>3 DEF RejectStatus, db
<1>4. ASSUME NEW r \in requests, CommitStatus(r) PROVE DeliveryInv' /\ LockInv'
  <2>1. status[r.order] # "absent"
    BY DEF DeliveriesInv, OrdersInv, RequestInv
  <2>2. status' = [status EXCEPT ![r.order] = r.to] /\ UNCHANGED <<outbox, wk>>
    BY <1>4 DEF CommitStatus
  <2> QED
    BY <1>0, <1>1, <2>1, <2>2
<1>5. CASE UNCHANGED vars
  BY <1>1, <1>5 DEF vars, db
<1>6. ASSUME NEW o \in Orders, CreateOrder(o) PROVE DeliveryInv' /\ LockInv'
  <2>1. /\ status[o] = "absent"
        /\ status' = [status EXCEPT ![o] = "pending"]
        /\ outbox' = [outbox EXCEPT ![o] = NewRow]
        /\ UNCHANGED <<pc, batch, locks, outcome, tx>>
    BY <1>6 DEF CreateOrder, wk
  <2>2. outbox'[o] = NewRow /\ status'[o] = "pending"
        /\ \A q \in Orders \ {o} : outbox'[q] = outbox[q] /\ status'[q] = status[q]
    BY <1>0, <2>1
  <2>3. \A q \in Orders : Decided(q) => Decided(q)'
    BY StatusFacts DEF DeliveriesInv
  <2>4. DeliveryInv'
    BY <1>0, <2>1, <2>2, <2>3 DEF DeliveryInv, NewRow, Decided, InHandler
  <2>5. LockInv'
    BY <1>0, <2>1, <2>2 DEF LockInv, DeliveryInv, NewRow, InHandler
  <2> QED
    BY <2>4, <2>5
<1>7. ASSUME NEW o \in Orders, BackoffElapses(o) PROVE DeliveryInv' /\ LockInv'
  <2>1. \A q \in Orders : /\ outbox'[q].status = outbox[q].status
                          /\ outbox'[q].next = "backoff" => outbox[q].next = "backoff"
    BY <1>0, <1>7 DEF BackoffElapses, Row
  <2>2. UNCHANGED <<status, pc, batch, locks, outcome, tx>>
    BY <1>7 DEF BackoffElapses, db, wk
  <2>3. DeliveryInv'
    BY <1>0, <2>1, <2>2 DEF DeliveryInv, Decided, InHandler
  <2>4. LockInv'
    BY <1>0, <2>1, <2>2 DEF LockInv, InHandler
  <2> QED
    BY <2>3, <2>4
<1> QED
  BY <1>2, <1>3, <1>4, <1>5, <1>6, <1>7 DEF ApiStep

LEMMA DeliveryLoop ==
    ASSUME DeliveriesInv, NEW w \in Workers,
           Claim(w) \/ StartRow(w) \/ CommitBatch(w) \/ AbortBatch(w)
    PROVE  DeliveryInv' /\ LockInv'
<1>0. /\ pc \in [Workers -> {"idle", "row", "load", "key", "read", "write", "refused"}]
      /\ tx \in [Workers -> Handler]
      /\ outbox \in [Orders -> Row]
      /\ batch \in [Workers -> SUBSET Orders]
      /\ locks \in [Workers -> SUBSET Orders]
      /\ outcome \in [Workers -> [Orders -> {"none", "ok", "error"}]]
      /\ DeliveryInv /\ LockInv
  BY DEF DeliveriesInv, OrdersInv, TypeInv, TypeOK
<1>1. CASE Claim(w)
  <2> DEFINE S == OldestOf(Claimable)
  <2>1. /\ S \subseteq Orders
        /\ \A o \in S : outbox[o].status = "pending" /\ \A v \in Workers : o \notin locks[v]
    BY DEF OldestOf, Claimable
  <2>2. /\ pc[w] = "idle" /\ pc' = [pc EXCEPT ![w] = "row"]
        /\ batch' = [batch EXCEPT ![w] = S]
        /\ locks' = [locks EXCEPT ![w] = S]
        /\ UNCHANGED <<status, outbox, outcome, tx>>
    BY <1>1 DEF Claim, db
  <2> HIDE DEF S
  <2>3. outcome[w] = NoOutcome
    BY <1>0, <2>2 DEF LockInv
  <2>4. \A v \in Workers : InHandler(v)' => v # w /\ InHandler(v)
    BY <1>0, <2>2 DEF InHandler
  <2>5. DeliveryInv'
    BY <1>0, <2>1, <2>2, <2>4 DEF DeliveryInv, Decided
  <2>6. LockInv'
    BY <1>0, <2>1, <2>2, <2>3, <2>4 DEF LockInv, NoOutcome
  <2> QED
    BY <2>5, <2>6
<1>2. CASE StartRow(w)
  <2>1. PICK o \in batch[w] : /\ batch' = [batch EXCEPT ![w] = @ \ {o}]
                              /\ tx' = [tx EXCEPT ![w] = [NoHandler EXCEPT !.order = o]]
    BY <1>2 DEF StartRow
  <2>2. /\ pc[w] = "row" /\ pc' = [pc EXCEPT ![w] = "load"] /\ locks[w] # {}
        /\ UNCHANGED <<status, outbox, outcome, locks>>
    BY <1>2 DEF StartRow, db
  <2>3. [NoHandler EXCEPT !.order = o].order = o
    BY DEF NoHandler
  <2>4. tx'[w].order = o /\ \A v \in Workers \ {w} : tx'[v] = tx[v] /\ pc'[v] = pc[v]
    BY <1>0, <2>1, <2>2, <2>3
  <2>5. status[o] # "absent" /\ o \in locks[w]
    BY <1>0, <2>1, <2>2 DEF DeliveryInv, LockInv
  <2>6. DeliveryInv'
    BY <1>0, <2>1, <2>2, <2>4, <2>5 DEF DeliveryInv, Decided, InHandler
  <2>7. LockInv'
    BY <1>0, <2>1, <2>2, <2>4, <2>5 DEF LockInv, InHandler
  <2> QED
    BY <2>6, <2>7
<1>3. CASE CommitBatch(w)
  <2>1. /\ locks[w] # {} /\ EndBatch(w) /\ UNCHANGED status
        /\ outbox' = [o \in Orders |-> RowAfter(outbox[o], outcome[w][o])]
    BY <1>3 DEF CommitBatch, EndBatch, db
  <2>2. ASSUME NEW o \in Orders
        PROVE  \/ outbox'[o] = outbox[o]
               \/ /\ o \in locks[w]
                  /\ outbox'[o].status # "absent"
                  /\ outbox'[o].status = "completed" => Decided(o)
                  /\ outbox'[o].next = "backoff" => outbox'[o].status = "pending"
    <3>1. CASE outcome[w][o] = "none"
      BY <2>1, <3>1 DEF RowAfter
    <3>2. CASE outcome[w][o] = "ok"
      BY <1>0, <2>1, <3>2 DEF RowAfter, Completed, LockInv, DeliveryInv
    <3>3. CASE outcome[w][o] = "error"
      BY <1>0, <2>1, <3>3 DEF RowAfter, AfterFailure, LockInv
    <3> QED
      BY <1>0, <3>1, <3>2, <3>3
  <2> QED
    BY <2>1, <2>2, EndBatchDelivery
<1>4. CASE AbortBatch(w)
  BY <1>4, EndBatchDelivery DEF AbortBatch, EndBatch, db
<1> QED
  BY <1>1, <1>2, <1>3, <1>4

LEMMA DeliveryHandler ==
    ASSUME DeliveriesInv, [Next]_vars, NEW w \in Workers, HandlerStep(w)
    PROVE  DeliveryInv' /\ LockInv'
<1>0. /\ pc \in [Workers -> {"idle", "row", "load", "key", "read", "write", "refused"}]
      /\ tx \in [Workers -> Handler]
      /\ status \in [Orders -> OrderStatus \union {"absent"}]
      /\ DeliveryInv /\ TypeInv /\ OrderInv /\ HandlerInv
  BY DEF DeliveriesInv, OrdersInv, TypeInv, TypeOK
<1>1. InHandler(w) /\ tx[w].order \in Orders
  <2>1. InHandler(w)
    BY DEF HandlerStep, LoadOrder, FindReservation, ReadStock, WriteReservation, DeadlockVictim,
           Blockers, ConfirmOrder, CancelOrder, InHandler
  <2> QED
    BY <1>0, <2>1 DEF TypeInv, TypeOK
<1>2. ASSUME EndHandler(w, "error"), UNCHANGED outbox PROVE DeliveryInv' /\ LockInv'
  BY <1>1, <1>2, EndHandlerDelivery
<1>3. ASSUME pc'[w] \notin {"idle", "row"}, tx'[w].order = tx[w].order,
             \A v \in Workers \ {w} : pc'[v] = pc[v] /\ tx'[v] = tx[v],
             UNCHANGED <<status, outbox, batch, locks, outcome>>
      PROVE  DeliveryInv' /\ LockInv'
  BY <1>1, <1>3, QuietDelivery DEF InHandler
<1>4. CASE LoadOrder(w)
  <2>1. CASE status[tx[w].order] = "pending"
    <3>1. /\ pc' = [pc EXCEPT ![w] = "key"]
          /\ tx' = [tx EXCEPT ![w].version = version[tx[w].order]]
          /\ UNCHANGED <<status, outbox, batch, locks, outcome>>
      BY <1>4, <2>1 DEF LoadOrder, db
    <3>2. tx'[w].order = tx[w].order
      BY <1>0, <3>1 DEF Handler
    <3> QED
      BY <1>0, <1>3, <3>1, <3>2
  <2>2. CASE status[tx[w].order] # "pending"
    <3>1. EndHandler(w, "ok") /\ UNCHANGED <<status, outbox>>
      BY <1>4, <2>2 DEF LoadOrder, db
    <3>2. PICK done \in Orders : done = tx[w].order
      BY <1>1
    <3>3. Decided(done)'
      BY <1>0, <1>1, <2>2, <3>1, <3>2 DEF DeliveryInv, Decided
    <3> QED
      BY <1>1, <3>1, <3>2, <3>3, EndHandlerDelivery
  <2> QED
    BY <2>1, <2>2
<1>5. CASE FindReservation(w) \/ ReadStock(w)
  <2>1. UNCHANGED <<status, outbox, batch, locks, outcome>>
    BY <1>5 DEF FindReservation, ReadStock, db
  <2>2. /\ pc'[w] \notin {"idle", "row"}
        /\ \A v \in Workers \ {w} : pc'[v] = pc[v] /\ tx'[v] = tx[v]
    BY <1>0, <1>5 DEF FindReservation, ReadStock
  <2>3. tx'[w].order = tx[w].order
    BY <1>0, <1>5 DEF FindReservation, ReadStock, Handler
  <2> QED
    BY <1>3, <2>1, <2>2, <2>3
<1>6. CASE WriteReservation(w)
  <2>1. UNCHANGED <<status, outbox>>
    BY <1>6 DEF WriteReservation, db
  <2>2. CASE ledger[tx[w].order][Line(w).product] = 0
    <3>1. UNCHANGED <<batch, locks, outcome>>
      BY <1>6, <2>2 DEF WriteReservation
    <3>2. /\ pc'[w] \notin {"idle", "row"}
          /\ \A v \in Workers \ {w} : pc'[v] = pc[v] /\ tx'[v] = tx[v]
      BY <1>0, <1>6, <2>2 DEF WriteReservation
    <3>3. tx'[w].order = tx[w].order
      BY <1>0, <1>6, <2>2 DEF WriteReservation, Handler
    <3> QED
      BY <1>3, <2>1, <3>1, <3>2, <3>3
  <2>3. CASE ledger[tx[w].order][Line(w).product] # 0
    BY <1>2, <1>6, <2>1, <2>3 DEF WriteReservation
  <2> QED
    BY <2>2, <2>3
<1>7. CASE DeadlockVictim(w)
  BY <1>2, <1>7 DEF DeadlockVictim
<1>8. ASSUME NEW d \in {"confirmed", "cancelled"}, Decide(w, d), Loaded(w),
             IF d = "confirmed" THEN ConfirmOrder(w) ELSE CancelOrder(w)
      PROVE  DeliveryInv' /\ LockInv'
  <2>1. UNCHANGED outbox
    BY <1>8 DEF Decide
  <2>2. CASE Current(tx[w].order, tx[w].version)
    <3>1. PICK done \in Orders : done = tx[w].order
      BY <1>1
    <3>2. CommitsDecision(w, d)
      BY <1>8, <2>2 DEF CommitsDecision
    <3>3. status'[done] = d
      BY <1>0, <3>1, <3>2, DecisionEffect
    <3>4. EndHandler(w, "ok")
      BY <1>8, <2>2 DEF Decide
    <3>5. Decided(done)'
      BY <3>3 DEF Decided
    <3> QED
      BY <1>1, <2>1, <3>1, <3>4, <3>5, EndHandlerDelivery
  <2>3. CASE ~Current(tx[w].order, tx[w].version)
    BY <1>2, <1>8, <2>1, <2>3 DEF Decide
  <2> QED
    BY <2>2, <2>3
<1>9. CASE ConfirmOrder(w) \/ CancelOrder(w)
  BY <1>8, <1>9 DEF ConfirmOrder, CancelOrder, Loaded
<1> QED
  BY <1>4, <1>5, <1>6, <1>7, <1>9 DEF HandlerStep

LEMMA DeliveryFault ==
    ASSUME DeliveriesInv, [Next]_vars, NEW w \in Workers, Fault(w)
    PROVE  DeliveryInv' /\ LockInv'
<1>1. CASE Crash(w)
  BY <1>1, EndBatchDelivery DEF Crash, EndBatch, db
<1>2. CASE LoseConnection(w)
  <2>1. locks \in [Workers -> SUBSET Orders] /\ DeliveryInv /\ LockInv
    BY DEF DeliveriesInv, OrdersInv, TypeInv, TypeOK
  <2>2. /\ locks' = [locks EXCEPT ![w] = {}]
        /\ UNCHANGED <<status, outbox, pc, batch, outcome, tx>>
    BY <1>2 DEF LoseConnection, db
  <2>3. DeliveryInv'
    BY <2>1, <2>2 DEF DeliveryInv, Decided, InHandler
  <2>4. LockInv'
    BY <2>1, <2>2 DEF LockInv, InHandler
  <2> QED
    BY <2>3, <2>4
<1>3. CASE HandlerFails(w)
  <2>1. tx[w].order \in Orders
    BY <1>3 DEF HandlerFails, DeliveriesInv, OrdersInv, TypeInv, TypeOK
  <2> QED
    BY <1>3, <2>1, EndHandlerDelivery DEF HandlerFails
<1> QED
  BY <1>1, <1>2, <1>3 DEF Fault

LEMMA DeliveriesAlways == Spec => []DeliveriesInv
<1>1. DeliveriesInv /\ [Next]_vars => DeliveriesInv'
  <2> SUFFICES ASSUME DeliveriesInv, [Next]_vars PROVE DeliveriesInv'
    OBVIOUS
  <2>1. OrdersInv'
    BY OrdersStep DEF DeliveriesInv
  <2>2. DeliveryInv' /\ LockInv'
    BY DeliveryApi, DeliveryLoop, DeliveryHandler, DeliveryFault DEF Next, WorkerStep
  <2> QED
    BY <2>1, <2>2 DEF DeliveriesInv
<1> QED
  BY <1>1, DeliveriesInit, PTL DEF Spec

\* At-least-once delivery: a row is acknowledged only when its order is decided,
\* by this delivery, by an earlier one or by the API.
THEOREM AcknowledgedMeansDecided == Spec => []CompletedMeansDecided
<1>1. DeliveriesInv => CompletedMeansDecided
  BY DEF DeliveriesInv, DeliveryInv, CompletedMeansDecided
<1> QED
  BY <1>1, DeliveriesAlways, PTL

\* SKIP LOCKED is enough: no worker ever overwrites a row that is COMPLETED or
\* FAILED, whatever it computed before and whatever locks it lost since.
THEOREM FinalRowsUntouched == Spec => FinalRowsStay
<1>1. DeliveriesInv /\ [Next]_vars => FinalRowStep
  <2> SUFFICES ASSUME DeliveriesInv, [Next]_vars PROVE FinalRowStep
    OBVIOUS
  <2>0. /\ outbox \in [Orders -> Row]
        /\ outcome \in [Workers -> [Orders -> {"none", "ok", "error"}]]
        /\ DeliveryInv /\ LockInv
    BY DEF DeliveriesInv, OrdersInv, TypeInv, TypeOK
  <2>1. CASE UNCHANGED outbox
    BY <2>1 DEF FinalRowStep
  <2>2. ASSUME NEW o \in Orders, CreateOrder(o) PROVE FinalRowStep
    <3>1. outbox[o].status = "absent" /\ outbox' = [outbox EXCEPT ![o] = NewRow]
      BY <2>0, <2>2 DEF CreateOrder, DeliveryInv
    <3> QED
      BY <2>0, <3>1 DEF FinalRowStep
  <2>3. ASSUME NEW o \in Orders, BackoffElapses(o) PROVE FinalRowStep
    <3>1. outbox[o].status = "pending" /\ outbox' = [outbox EXCEPT ![o].next = "due"]
      BY <2>0, <2>3 DEF BackoffElapses, DeliveryInv
    <3> QED
      BY <2>0, <3>1 DEF FinalRowStep
  <2>4. ASSUME NEW w \in Workers, CommitBatch(w) PROVE FinalRowStep
    <3>1. /\ locks[w] # {}
          /\ outbox' = [o \in Orders |-> RowAfter(outbox[o], outcome[w][o])]
      BY <2>4 DEF CommitBatch
    <3>2. \A o \in Orders : outcome[w][o] # "none" => outbox[o].status = "pending"
      BY <2>0, <3>1 DEF LockInv
    <3> QED
      BY <2>0, <3>1, <3>2 DEF FinalRowStep, RowAfter
  <2>5. ASSUME NEW w \in Workers, Fault(w) \/ HandlerStep(w) \/ Claim(w) \/ StartRow(w) \/ AbortBatch(w)
        PROVE  UNCHANGED outbox
    BY <2>5 DEF HandlerStep, Fault, Crash, LoseConnection, HandlerFails, Claim, StartRow,
                AbortBatch, LoadOrder, FindReservation, ReadStock, WriteReservation,
                DeadlockVictim, ConfirmOrder, CancelOrder, Decide
  <2>6. ASSUME NEW r \in requests, CommitStatus(r) \/ RejectStatus(r) PROVE UNCHANGED outbox
    BY <2>6 DEF CommitStatus, RejectStatus
  <2>7. ASSUME NEW o \in Orders, NEW to \in ApiTargets, RequestStatus(o, to) PROVE UNCHANGED outbox
    BY <2>7 DEF RequestStatus
  <2> QED
    BY <2>1, <2>2, <2>3, <2>4, <2>5, <2>6, <2>7 DEF Next, ApiStep, WorkerStep, vars
<1> QED
  BY <1>1, DeliveriesAlways, PTL DEF Spec, FinalRowsStay

-----------------------------------------------------------------------------
(* Lines: what a handler has reserved when it decides *)

\* No step changes what was ordered or what there is.
LEMMA FixedData == ASSUME [Next]_vars PROVE UNCHANGED <<cart, quantity>>
BY DEF Next, ApiStep, WorkerStep, HandlerStep, Fault, Crash, LoseConnection, HandlerFails, Claim,
       StartRow, CommitBatch, AbortBatch, LoadOrder, FindReservation, ReadStock, WriteReservation,
       DeadlockVictim, ConfirmOrder, CancelOrder, Decide, CreateOrder, RequestStatus,
       CommitStatus, RejectStatus, BackoffElapses, vars, db

\* A handler transaction that has written nothing.
Fresh(h) == h.item = 1 /\ h.rows = [p \in Products |-> 0]

\* All a step can do to the handler of v.
LEMMA HandlerMoves ==
    ASSUME TypeInv, [Next]_vars, NEW v \in Workers
    PROVE  \/ pc'[v] = pc[v] /\ tx'[v] = tx[v]
           \/ ~Loaded(v) /\ ~Loaded(v)' /\ tx'[v] = tx[v]
           \/ ~Loaded(v)' /\ Fresh(tx'[v])
           \/ LoadOrder(v) /\ status[tx[v].order] = "pending"
           \/ FindReservation(v)
           \/ ReadStock(v)
           \/ WriteReservation(v) /\ ledger[tx[v].order][Line(v).product] = 0
<1> DEFINE Goal == \/ pc'[v] = pc[v] /\ tx'[v] = tx[v]
                   \/ ~Loaded(v) /\ ~Loaded(v)' /\ tx'[v] = tx[v]
                   \/ ~Loaded(v)' /\ Fresh(tx'[v])
                   \/ LoadOrder(v) /\ status[tx[v].order] = "pending"
                   \/ FindReservation(v)
                   \/ ReadStock(v)
                   \/ WriteReservation(v) /\ ledger[tx[v].order][Line(v).product] = 0
<1>0. pc \in [Workers -> {"idle", "row", "load", "key", "read", "write", "refused"}]
      /\ tx \in [Workers -> Handler]
  BY DEF TypeInv, TypeOK
<1>1. Fresh(NoHandler) /\ \A o : Fresh([NoHandler EXCEPT !.order = o])
  BY DEF Fresh, NoHandler
<1>2. CASE ApiStep \/ (\E o \in Orders : BackoffElapses(o)) \/ UNCHANGED vars
  BY <1>2 DEF ApiStep, CreateOrder, RequestStatus, CommitStatus, RejectStatus, BackoffElapses,
              vars, wk
<1>3. ASSUME NEW w \in Workers, NEW result, EndHandler(w, result) PROVE Goal
  BY <1>0, <1>1, <1>3 DEF EndHandler, Loaded
<1>4. ASSUME NEW w \in Workers, EndBatch(w), pc[w] = "row" \/ tx' = [tx EXCEPT ![w] = NoHandler]
      PROVE  Goal
  BY <1>0, <1>1, <1>4 DEF EndBatch, EndProcess, Loaded
<1>5. ASSUME NEW w \in Workers, Claim(w) PROVE Goal
  BY <1>0, <1>5 DEF Claim, Loaded
<1>6. ASSUME NEW w \in Workers, StartRow(w) PROVE Goal
  BY <1>0, <1>1, <1>6 DEF StartRow, Loaded
<1>7. ASSUME NEW w \in Workers, LoadOrder(w) PROVE Goal
  BY <1>0, <1>3, <1>7 DEF LoadOrder
<1>8. ASSUME NEW w \in Workers, FindReservation(w) \/ ReadStock(w) \/ WriteReservation(w) PROVE Goal
  BY <1>0, <1>3, <1>8 DEF FindReservation, ReadStock, WriteReservation
<1>9. ASSUME NEW w \in Workers, HandlerStep(w) PROVE Goal
  BY <1>3, <1>7, <1>8, <1>9
  DEF HandlerStep, DeadlockVictim, ConfirmOrder, CancelOrder, Decide
<1>10. ASSUME NEW w \in Workers, WorkerStep(w) \/ Fault(w) PROVE Goal
  <2>1. CASE CommitBatch(w) \/ AbortBatch(w)
    BY <1>4, <2>1 DEF CommitBatch, AbortBatch, EndBatch
  <2>2. CASE Crash(w)
    BY <1>4, <2>2 DEF Crash, EndBatch
  <2>3. CASE LoseConnection(w)
    BY <2>3 DEF LoseConnection
  <2> QED
    BY <1>3, <1>5, <1>6, <1>9, <1>10, <2>1, <2>2, <2>3 DEF WorkerStep, Fault, HandlerFails
<1> QED
  BY <1>2, <1>10 DEF Next

\* What the first lines of a cart take: the next line adds the product it names,
\* unless a line before it named the same product.
LEMMA TakenFacts ==
    ASSUME NEW c \in Seq(Item), NEW n \in 0..Len(c)
    PROVE  /\ Decision!Taken(c, n) \in [Products -> Nat]
           /\ \A i \in 1..n : Decision!Taken(c, n)[c[i].product] # 0
           /\ \A p \in Products : (\A i \in 1..n : c[i].product # p) => Decision!Taken(c, n)[p] = 0
<1> DEFINE Lines(p) == {i \in 1..n : c[i].product = p}
<1>1. \A i \in 1..n : c[i] \in Item
  OBVIOUS
<1>2. \A p \in Products : Decision!Taken(c, n)[p] =
          IF Lines(p) = {} THEN 0 ELSE c[Decision!Min(Lines(p))].quantity
  BY DEF Decision!Taken
<1>3. ASSUME NEW p \in Products, Lines(p) # {}
      PROVE  c[Decision!Min(Lines(p))].quantity \in Nat \ {0}
  <2>1. Lines(p) \subseteq Nat
    OBVIOUS
  <2>2. \E x \in Lines(p) : \A y \in Lines(p) : x <= y
    <3> HIDE DEF Lines
    <3> QED
      BY <1>3, <2>1, LeastNumber
  <2>3. Decision!Min(Lines(p)) \in Lines(p)
    BY <2>2 DEF Decision!Min
  <2> QED
    BY <1>1, <2>3 DEF Item
<1>4. \A i \in 1..n : c[i].product \in Products /\ Lines(c[i].product) # {}
  BY <1>1 DEF Item
<1> HIDE DEF Lines
<1>5. Decision!Taken(c, n) \in [Products -> Nat]
  <2>1. \A p \in Products : Decision!Taken(c, n)[p] \in Nat
    BY <1>2, <1>3
  <2> QED
    BY <2>1 DEF Decision!Taken
<1>6. \A i \in 1..n : Decision!Taken(c, n)[c[i].product] # 0
  BY <1>2, <1>3, <1>4
<1>7. \A p \in Products : (\A i \in 1..n : c[i].product # p) => Decision!Taken(c, n)[p] = 0
  BY <1>2 DEF Lines
<1> QED
  BY <1>5, <1>6, <1>7

LEMMA TakenNext ==
    ASSUME NEW c \in Seq(Item), NEW n \in Nat, n < Len(c),
           NEW p \in Products, p = c[n + 1].product
    PROVE  /\ Decision!Taken(c, n)[p] # 0 => Decision!Taken(c, n + 1) = Decision!Taken(c, n)
           /\ Decision!Taken(c, n)[p] = 0 =>
                Decision!Taken(c, n + 1) = [Decision!Taken(c, n) EXCEPT ![p] = c[n + 1].quantity]
<1> DEFINE Lines(m, q) == {i \in 1..m : c[i].product = q}
<1>1. \A q \in Products \ {p} : Lines(n + 1, q) = Lines(n, q)
  OBVIOUS
<1>2. Lines(n + 1, p) = Lines(n, p) \union {n + 1}
  OBVIOUS
<1>3. \A m \in {n, n + 1} : Decision!Taken(c, m) = [q \in Products |->
          IF Lines(m, q) = {} THEN 0 ELSE c[Decision!Min(Lines(m, q))].quantity]
  BY DEF Decision!Taken
<1>4. CASE Decision!Taken(c, n)[p] # 0
  <2>1. Lines(n, p) # {} /\ Lines(n, p) \subseteq 1..n
    <3>1. Lines(n, p) \subseteq 1..n
      OBVIOUS
    <3> HIDE DEF Lines
    <3>2. Lines(n, p) # {}
      BY <1>3, <1>4
    <3> QED
      BY <3>1, <3>2
  <2>2. PICK x \in Lines(n, p) : \A y \in Lines(n, p) : x <= y
    <3>1. Lines(n, p) \subseteq Nat
      OBVIOUS
    <3> HIDE DEF Lines
    <3> QED
      BY <2>1, <3>1, LeastNumber
  <2>3. x \in Nat /\ x <= n
    BY <2>1
  <2> HIDE DEF Lines
  <2>4. \A y \in Lines(n + 1, p) : x <= y
    BY <1>2, <2>2, <2>3
  <2>5. Decision!Min(Lines(n, p)) = x /\ Decision!Min(Lines(n + 1, p)) = x
    <3>1. \A y \in Lines(n, p) \union {n + 1} : y \in Nat
      BY <2>1
    <3>2. x \in Lines(n + 1, p)
      BY <1>2
    <3>3. \A z \in Lines(n, p) : (\A y \in Lines(n, p) : z <= y) => z = x
      BY <2>2, <3>1
    <3>4. \A z \in Lines(n + 1, p) : (\A y \in Lines(n + 1, p) : z <= y) => z = x
      BY <1>2, <2>4, <3>1, <3>2
    <3> QED
      BY <2>2, <2>4, <3>2, <3>3, <3>4 DEF Decision!Min
  <2>6. Lines(n + 1, p) # {}
    BY <1>2
  <2>7. \A q \in Products : Decision!Taken(c, n + 1)[q] = Decision!Taken(c, n)[q]
    <3>1. Decision!Taken(c, n + 1)[p] = Decision!Taken(c, n)[p]
      BY <1>3, <2>1, <2>5, <2>6
    <3>2. \A q \in Products \ {p} : Decision!Taken(c, n + 1)[q] = Decision!Taken(c, n)[q]
      BY <1>1, <1>3
    <3> QED
      BY <3>1, <3>2
  <2>8. Decision!Taken(c, n + 1) = Decision!Taken(c, n)
    BY <1>3, <2>7
  <2> QED
    BY <1>4, <2>8
<1>5. CASE Decision!Taken(c, n)[p] = 0
  <2>1. Lines(n, p) = {}
    <3>1. c \in Seq(Item) /\ n \in 0..Len(c)
      OBVIOUS
    <3> QED
      BY <1>5, <3>1, TakenFacts
  <2>2. Lines(n + 1, p) = {n + 1}
    BY <1>2, <2>1
  <2> HIDE DEF Lines
  <2>3. Decision!Min(Lines(n + 1, p)) = n + 1
    BY <2>2 DEF Decision!Min
  <2>4. \A q \in Products :
          Decision!Taken(c, n + 1)[q] = [Decision!Taken(c, n) EXCEPT ![p] = c[n + 1].quantity][q]
    BY <1>1, <1>3, <2>2, <2>3
  <2>5. Decision!Taken(c, n + 1) = [Decision!Taken(c, n) EXCEPT ![p] = c[n + 1].quantity]
    BY <1>3, <2>4
  <2> QED
    BY <1>5, <2>5
<1> QED
  BY <1>4, <1>5

\* What a handler has written is what the lines behind it take, as long as its
\* order is undecided, and it writes no product twice.
LinesInv == \A w \in Workers :
    /\ ~Loaded(w) => Fresh(tx[w])
    /\ pc[w] \in {"read", "write"} => tx[w].rows[Line(w).product] = 0
    /\ Loaded(w) /\ status[tx[w].order] = "pending" =>
          /\ tx[w].item - 1 <= Len(Items(w))
          /\ tx[w].rows = Decision!Taken(Items(w), tx[w].item - 1)

\* An order that is undecided after a step of its handler was so before.
LEMMA StillPending ==
    ASSUME DeliveriesInv, [Next]_vars, NEW v \in Workers, InHandler(v),
           status'[tx[v].order] = "pending"
    PROVE  status[tx[v].order] = "pending"
<1>1. tx[v].order \in Orders /\ status[tx[v].order] # "absent"
  BY DEF DeliveriesInv, OrdersInv, TypeInv, TypeOK, DeliveryInv
<1> QED
  BY <1>1, StatusFacts DEF DeliveriesInv, Decided

LEMMA LinesInit == Init => LinesInv
BY DEF Init, LinesInv, Loaded, Fresh, NoHandler

LEMMA LinesStep ==
    ASSUME DeliveriesInv, LinesInv, [Next]_vars
    PROVE  LinesInv'
<1> SUFFICES ASSUME NEW v \in Workers
             PROVE  /\ ~Loaded(v)' => Fresh(tx'[v])
                    /\ pc'[v] \in {"read", "write"} => tx'[v].rows[Line(v)'.product] = 0
                    /\ Loaded(v)' /\ status'[tx'[v].order] = "pending" =>
                          /\ tx'[v].item - 1 <= Len(Items(v)')
                          /\ tx'[v].rows = Decision!Taken(Items(v)', tx'[v].item - 1)
  BY DEF LinesInv
<1> DEFINE o == tx[v].order
           n == tx[v].item - 1
           p == Line(v).product
<1>0. /\ pc \in [Workers -> {"idle", "row", "load", "key", "read", "write", "refused"}]
      /\ tx \in [Workers -> Handler] /\ tx[v] \in Handler
      /\ cart \in [Orders -> Carts]
      /\ ledger \in [Orders -> [Products -> Nat]]
      /\ TypeInv /\ TypeOK /\ OrderInv
  BY DEF DeliveriesInv, OrdersInv, TypeInv, TypeOK
<1>1. UNCHANGED cart
  BY FixedData
<1>2. InHandler(v) => o \in Orders /\ Items(v) \in Seq(Item)
  BY <1>0, CartsAssumption DEF TypeInv, TypeOK, Items
<1>3. n \in Nat /\ tx[v].item = n + 1
  BY <1>0 DEF Handler
<1>4. /\ ~Loaded(v) => Fresh(tx[v])
      /\ pc[v] \in {"read", "write"} => tx[v].rows[p] = 0
      /\ Loaded(v) /\ status[o] = "pending" =>
            n <= Len(Items(v)) /\ tx[v].rows = Decision!Taken(Items(v), n)
  BY DEF LinesInv
<1>5. Loaded(v) => InHandler(v)
  BY DEF Loaded, InHandler
<1>6. InHandler(v) /\ status'[o] = "pending" => status[o] = "pending"
  BY StillPending
<1> HIDE DEF o, n, p
<1>7. CASE pc'[v] = pc[v] /\ tx'[v] = tx[v]
  <2>1. Items(v)' = Items(v) /\ Line(v)' = Line(v)
    BY <1>1, <1>7 DEF Items, Line
  <2> QED
    BY <1>4, <1>5, <1>6, <1>7, <2>1 DEF Loaded, o, n, p
<1>8. CASE ~Loaded(v)' /\ (Fresh(tx'[v]) \/ (~Loaded(v) /\ tx'[v] = tx[v]))
  BY <1>4, <1>8 DEF Loaded
<1>9. CASE LoadOrder(v) /\ status[tx[v].order] = "pending"
  <2>1. /\ pc[v] = "load" /\ pc' = [pc EXCEPT ![v] = "key"]
        /\ tx' = [tx EXCEPT ![v].version = version[tx[v].order]]
    BY <1>9 DEF LoadOrder
  <2>2. pc'[v] = "key" /\ tx'[v].order = o /\ tx'[v].item = tx[v].item /\ tx'[v].rows = tx[v].rows
    BY <1>0, <2>1 DEF Handler, o
  <2>3. tx[v].item = 1 /\ tx[v].rows = [q \in Products |-> 0]
    BY <1>4, <2>1 DEF Loaded, Fresh
  <2>4. Items(v)' = Items(v) /\ Items(v) \in Seq(Item)
    BY <1>1, <1>2, <2>1, <2>2 DEF Items, InHandler, o
  <2>5. Decision!Taken(Items(v), 0) = [q \in Products |-> 0]
    <3>1. 0 \in 0..Len(Items(v)) /\ 1..0 = {}
      BY <2>4
    <3>2. /\ Decision!Taken(Items(v), 0) \in [Products -> Nat]
          /\ \A q \in Products : Decision!Taken(Items(v), 0)[q] = 0
      BY <2>4, <3>1, TakenFacts
    <3> QED
      BY <3>2
  <2>6. Len(Items(v)) \in Nat
    BY <2>4
  <2> QED
    BY <2>2, <2>3, <2>4, <2>5, <2>6 DEF Loaded
<1>10. CASE FindReservation(v)
  <2>1. /\ pc[v] = "key" /\ tx[v].item <= Len(Items(v))
        /\ UNCHANGED status
        /\ IF ledger[o][p] # 0 \/ tx[v].rows[p] # 0
           THEN tx' = [tx EXCEPT ![v].item = @ + 1] /\ UNCHANGED pc
           ELSE pc' = [pc EXCEPT ![v] = "read"] /\ UNCHANGED tx
    BY <1>10 DEF FindReservation, db, o, p
  <2>2. Loaded(v) /\ InHandler(v) /\ o \in Orders /\ Items(v) \in Seq(Item)
    BY <1>2, <2>1 DEF Loaded, InHandler
  <2>3. n < Len(Items(v)) /\ p = Items(v)[n + 1].product /\ p \in Products
    <3>1. tx[v].item \in DOMAIN Items(v)
      BY <1>3, <2>1, <2>2
    <3>2. p \in Products
      BY <1>0, <2>2, <3>1, LineType DEF p
    <3> QED
      BY <1>3, <2>1, <2>2, <3>2 DEF p, Line
  <2>4. CASE tx' = [tx EXCEPT ![v].item = @ + 1] /\ UNCHANGED pc /\ (ledger[o][p] # 0 \/ tx[v].rows[p] # 0)
    <3>1. tx'[v].order = o /\ tx'[v].item = n + 2 /\ tx'[v].rows = tx[v].rows
      BY <1>0, <1>3, <2>4 DEF Handler, o
    <3>2. Items(v)' = Items(v) /\ pc'[v] = "key"
      BY <1>0, <1>1, <2>1, <2>4, <3>1 DEF Items, o
    <3>3. ASSUME status[o] = "pending" PROVE tx[v].rows = Decision!Taken(Items(v), n + 1)
      <4>1. ledger[o][p] = 0
        BY <1>0, <2>2, <2>3, <3>3 DEF OrderInv, Reserves, Decided
      <4>2. Decision!Taken(Items(v), n)[p] # 0 /\ tx[v].rows = Decision!Taken(Items(v), n)
        BY <1>4, <2>2, <2>4, <3>3, <4>1
      <4> QED
        BY <1>3, <2>2, <2>3, <4>2, TakenNext
    <3> QED
      BY <1>3, <2>1, <2>2, <2>3, <3>1, <3>2, <3>3 DEF Loaded
  <2>5. CASE pc' = [pc EXCEPT ![v] = "read"] /\ UNCHANGED tx /\ tx[v].rows[p] = 0
    <3>1. Items(v)' = Items(v) /\ Line(v)' = Line(v) /\ pc'[v] = "read" /\ tx'[v] = tx[v]
      BY <1>0, <1>1, <2>5 DEF Items, Line
    <3> QED
      BY <1>4, <2>1, <2>2, <2>5, <3>1 DEF Loaded, o, n, p
  <2> QED
    BY <2>1, <2>4, <2>5
<1>11. CASE ReadStock(v)
  <2>1. /\ pc[v] = "read" /\ UNCHANGED status
        /\ \/ pc' = [pc EXCEPT ![v] = "refused"] /\ UNCHANGED tx
           \/ /\ pc' = [pc EXCEPT ![v] = "write"]
              /\ tx' = [tx EXCEPT ![v].read = reserved[Line(v).product]]
    BY <1>11 DEF ReadStock, db
  <2>2. /\ tx'[v].order = tx[v].order /\ tx'[v].item = tx[v].item /\ tx'[v].rows = tx[v].rows
        /\ pc'[v] \in {"refused", "write"}
    BY <1>0, <2>1 DEF Handler
  <2>3. Items(v)' = Items(v) /\ Line(v)' = Line(v)
    BY <1>1, <2>2 DEF Items, Line
  <2>4. Loaded(v)
    BY <2>1 DEF Loaded
  <2> QED
    BY <1>4, <2>1, <2>2, <2>3, <2>4 DEF Loaded, o, n, p
<1>12. CASE WriteReservation(v) /\ ledger[tx[v].order][Line(v).product] = 0
  <2>1. /\ pc[v] = "write" /\ UNCHANGED status
        /\ tx' = [tx EXCEPT ![v].rows[Line(v).product] = Line(v).quantity,
                            ![v].value[Line(v).product] = tx[v].read + Line(v).quantity,
                            ![v].item = @ + 1]
        /\ pc' = [pc EXCEPT ![v] = "key"]
    BY <1>12 DEF WriteReservation, db
  <2>2. /\ tx'[v].order = o /\ tx'[v].item = n + 2 /\ pc'[v] = "key"
        /\ tx'[v].rows = [tx[v].rows EXCEPT ![p] = Line(v).quantity]
    BY <1>0, <1>3, <2>1 DEF Handler, o, p
  <2>3. Loaded(v) /\ InHandler(v) /\ o \in Orders /\ Items(v) \in Seq(Item) /\ Items(v)' = Items(v)
    BY <1>1, <1>2, <2>1, <2>2 DEF Loaded, InHandler, Items, o
  <2>4. n < Len(Items(v)) /\ p = Items(v)[n + 1].product /\ p \in Products
        /\ Line(v).quantity = Items(v)[n + 1].quantity
    <3>1. tx[v].item \in DOMAIN Items(v)
      BY <1>0, <2>1 DEF TypeInv, ItemInRange, AtItem
    <3>2. p \in Products
      BY <1>0, <2>3, <3>1, LineType DEF p
    <3> QED
      BY <1>3, <2>3, <3>1, <3>2 DEF p, Line
  <2>5. ASSUME status[o] = "pending" PROVE tx'[v].rows = Decision!Taken(Items(v), n + 1)
    <3>1. Decision!Taken(Items(v), n)[p] = 0 /\ tx[v].rows = Decision!Taken(Items(v), n)
      BY <1>4, <2>1, <2>3, <2>5
    <3> QED
      BY <1>3, <2>2, <2>3, <2>4, <3>1, TakenNext
  <2> QED
    BY <1>3, <2>1, <2>2, <2>3, <2>4, <2>5 DEF Loaded
<1>13. \/ pc'[v] = pc[v] /\ tx'[v] = tx[v]
       \/ ~Loaded(v)' /\ (Fresh(tx'[v]) \/ (~Loaded(v) /\ tx'[v] = tx[v]))
       \/ LoadOrder(v) /\ status[tx[v].order] = "pending"
       \/ FindReservation(v)
       \/ ReadStock(v)
       \/ WriteReservation(v) /\ ledger[tx[v].order][Line(v).product] = 0
  BY <1>0, HandlerMoves
<1> QED
  BY <1>7, <1>8, <1>9, <1>10, <1>11, <1>12, <1>13

\* A decision commits what the lines behind the handler take: all of them when
\* it confirms, fewer when it was refused.
LEMMA DecisionTakes ==
    ASSUME DeliveriesInv, LinesInv, NEW w \in Workers, NEW d \in {"confirmed", "cancelled"},
           CommitsDecision(w, d)
    PROVE  LET o == tx[w].order
               n == tx[w].item - 1
           IN  /\ o \in Orders /\ cart[o] \in Seq(Item)
               /\ status[o] = "pending"
               /\ status' = [status EXCEPT ![o] = d]
               /\ \A p \in Products : ledger[o][p] = 0
               /\ ledger' = [ledger EXCEPT ![o] = tx[w].rows]
               /\ reserved' = StockAfter(w)
               /\ tx[w].rows = Decision!Taken(cart[o], n)
               /\ n \in 0..Len(cart[o])
               /\ d = "confirmed" <=> n = Len(cart[o])
<1> DEFINE o == tx[w].order
           n == tx[w].item - 1
<1>0. /\ tx[w] \in Handler /\ cart \in [Orders -> Carts]
      /\ ledger \in [Orders -> [Products -> Nat]]
      /\ TypeInv /\ TypeOK /\ OrderInv /\ HandlerInv
  BY DEF DeliveriesInv, OrdersInv, TypeInv, TypeOK
<1>1. /\ o \in Orders /\ status[o] = "pending" /\ status' = [status EXCEPT ![o] = d]
  BY <1>0, DecisionEffect
<1>2. cart[o] \in Seq(Item) /\ Items(w) = cart[o]
  BY <1>0, <1>1, CartsAssumption DEF Items
<1>3. Loaded(w) /\ (IF d = "confirmed" THEN ConfirmOrder(w) ELSE CancelOrder(w))
      /\ ledger' = LedgerAfter(w) /\ reserved' = StockAfter(w)
  BY DEF CommitsDecision, Decide
<1>4. \A p \in Products : ledger[o][p] = 0
  BY <1>0, <1>1 DEF OrderInv, Reserves, Decided
<1>5. n \in Nat /\ n <= Len(cart[o]) /\ tx[w].rows = Decision!Taken(cart[o], n)
  BY <1>0, <1>1, <1>2, <1>3 DEF LinesInv, Handler
<1>6. ledger' = [ledger EXCEPT ![o] = tx[w].rows]
  <2>1. [p \in Products |-> IF tx[w].rows[p] # 0 THEN tx[w].rows[p] ELSE ledger[o][p]] = tx[w].rows
    BY <1>0, <1>4 DEF Handler
  <2> QED
    BY <1>0, <1>1, <1>3, <2>1 DEF LedgerAfter
<1>7. CASE d = "confirmed"
  <2>1. tx[w].item > Len(cart[o])
    BY <1>2, <1>3, <1>7 DEF ConfirmOrder
  <2>2. n = Len(cart[o])
    BY <1>0, <1>2, <1>5, <2>1 DEF Handler
  <2> QED
    BY <1>1, <1>2, <1>3, <1>4, <1>5, <1>6, <1>7, <2>2
<1>8. CASE d = "cancelled"
  <2>1. tx[w].item \in DOMAIN Items(w)
    BY <1>0, <1>3, <1>8 DEF CancelOrder, TypeInv, ItemInRange, AtItem
  <2>2. n # Len(cart[o])
    BY <1>2, <2>1
  <2> QED
    BY <1>1, <1>2, <1>3, <1>4, <1>5, <1>6, <1>8, <2>2
<1> QED
  BY <1>7, <1>8

LEMMA ConfirmedStep ==
    ASSUME DeliveriesInv, LinesInv, ConfirmedReservesEveryProduct, [Next]_vars
    PROVE  ConfirmedReservesEveryProduct'
<1>0. /\ status \in [Orders -> OrderStatus \union {"absent"}]
      /\ announced \in [Orders -> Seq(OrderStatus)]
      /\ ledger \in [Orders -> [Products -> Nat]]
      /\ \A r \in requests : r.order \in Orders /\ r.to \in OrderStatus
  BY DEF DeliveriesInv, OrdersInv, TypeInv, TypeOK, Request
<1>1. UNCHANGED cart
  BY FixedData
<1>2. ASSUME NEW q \in Orders,
             \A o \in Orders \ {q} : status'[o] = status[o] /\ announced'[o] = announced[o]
                                     /\ ledger'[o] = ledger[o],
             HandlerConfirmed(q)' => \A i \in DOMAIN cart[q] : ledger'[q][cart[q][i].product] # 0
      PROVE  ConfirmedReservesEveryProduct'
  BY <1>1, <1>2 DEF ConfirmedReservesEveryProduct, HandlerConfirmed
<1>3. CASE UNCHANGED <<status, version, announced, reserved, ledger>>
  BY <1>1, <1>3 DEF ConfirmedReservesEveryProduct, HandlerConfirmed
<1>4. ASSUME NEW o \in Orders, CreateOrder(o) PROVE ConfirmedReservesEveryProduct'
  <2>1. status' = [status EXCEPT ![o] = "pending"] /\ UNCHANGED <<announced, ledger>>
    BY <1>4 DEF CreateOrder
  <2>2. ~HandlerConfirmed(o)'
    BY <1>0, <2>1 DEF HandlerConfirmed
  <2> QED
    BY <1>0, <1>2, <2>1, <2>2
<1>5. ASSUME NEW r \in requests, CommitStatus(r) PROVE ConfirmedReservesEveryProduct'
  <2>1. /\ status' = [status EXCEPT ![r.order] = r.to] /\ UNCHANGED ledger
        /\ announced' = [announced EXCEPT ![r.order] = Append(@, r.to)]
    BY <1>5 DEF CommitStatus
  <2>2. announced'[r.order] = Append(announced[r.order], r.to) /\ announced'[r.order] # <<>>
    BY <1>0, <2>1
  <2>3. ~HandlerConfirmed(r.order)'
    BY <2>2 DEF HandlerConfirmed
  <2> QED
    BY <1>0, <1>2, <2>1, <2>3
<1>6. ASSUME NEW w \in Workers, NEW d \in {"confirmed", "cancelled"}, CommitsDecision(w, d)
      PROVE  ConfirmedReservesEveryProduct'
  <2> DEFINE n == tx[w].item - 1
  <2>0. PICK o \in Orders : o = tx[w].order
    BY <1>6, DecisionTakes
  <2>1. /\ cart[o] \in Seq(Item)
        /\ status' = [status EXCEPT ![o] = d]
        /\ ledger' = [ledger EXCEPT ![o] = tx[w].rows]
        /\ tx[w].rows = Decision!Taken(cart[o], n)
        /\ n \in 0..Len(cart[o])
        /\ d = "confirmed" <=> n = Len(cart[o])
    BY <1>6, <2>0, DecisionTakes
  <2>2. UNCHANGED announced
    BY <1>6 DEF CommitsDecision, Decide
  <2> HIDE DEF n
  <2>3. ASSUME d = "confirmed" PROVE \A i \in DOMAIN cart[o] : ledger'[o][cart[o][i].product] # 0
    <3>1. \A i \in 1..n : Decision!Taken(cart[o], n)[cart[o][i].product] # 0
      BY <2>1, TakenFacts
    <3>2. DOMAIN cart[o] = 1..n
      BY <2>1, <2>3
    <3> QED
      BY <1>0, <2>1, <3>1, <3>2
  <2>4. HandlerConfirmed(o)' => d = "confirmed"
    BY <1>0, <2>1 DEF HandlerConfirmed
  <2> QED
    BY <1>0, <1>2, <2>1, <2>2, <2>3, <2>4
<1> QED
  BY <1>3, <1>4, <1>5, <1>6, OrderWriters

LEMMA LinesAlways == Spec => [](DeliveriesInv /\ LinesInv /\ ConfirmedReservesEveryProduct)
<1> DEFINE I == DeliveriesInv /\ LinesInv /\ ConfirmedReservesEveryProduct
<1>1. Init => LinesInv /\ ConfirmedReservesEveryProduct
  BY LinesInit DEF Init, ConfirmedReservesEveryProduct, HandlerConfirmed
<1>2. DeliveriesInv /\ DeliveriesInv' /\ LinesInv /\ ConfirmedReservesEveryProduct /\ [Next]_vars
      => LinesInv' /\ ConfirmedReservesEveryProduct'
  BY LinesStep, ConfirmedStep
<1> QED
  BY <1>1, <1>2, DeliveriesAlways, PTL DEF Spec

\* All or nothing, line by line: an order that a handler confirmed holds a
\* reservation for every product in it, however many deliveries, deadlocks and
\* rollbacks it took, and keeps them as long as the API leaves it alone.
THEOREM ConfirmedReserves == Spec => []ConfirmedReservesEveryProduct
BY LinesAlways, PTL

\* To a reader of orders and reservations, fulfilment is OrderDecision: between
\* its creation and its moves along the transition table, an order is decided
\* in one step, which takes at once what the lines behind the handler take.
THEOREM FulfilmentImplementsOrderDecision == Spec => ImplementsOrderDecision
<1> DEFINE dvars == <<status, cart, ledger>>
<1>1. Init => Decision!Init
  BY DEF Init, Decision!Init
<1>2. ASSUME DeliveriesInv, LinesInv, [Next]_vars PROVE [Decision!Next]_dvars
  <2>0. /\ status \in [Orders -> OrderStatus \union {"absent"}]
        /\ \A r \in requests : r.order \in Orders /\ r.to \in OrderStatus
        /\ RequestInv
    BY <1>2 DEF DeliveriesInv, OrdersInv, TypeInv, TypeOK, Request
  <2>1. UNCHANGED cart
    BY <1>2, FixedData
  <2>2. CASE UNCHANGED <<status, version, announced, reserved, ledger>>
    BY <2>1, <2>2
  <2>3. ASSUME NEW o \in Orders, CreateOrder(o) PROVE Decision!Next
    <3>1. Decision!Create(o)
      BY <2>3 DEF CreateOrder, Decision!Create
    <3> QED
      BY <3>1 DEF Decision!Next
  <2>4. ASSUME NEW r \in requests, CommitStatus(r) PROVE Decision!Next
    <3>1. status[r.order] # "absent" /\ CanTransition(status[r.order], r.to)
      BY <2>0, <2>4 DEF RequestInv, CommitStatus, Current
    <3>2. Decision!CanTransition(status[r.order], r.to)
      BY <3>1 DEF CanTransition, TRANSITIONS, Decision!CanTransition, Decision!TRANSITIONS
    <3>3. Decision!Move(r.order, r.to)
      BY <2>4, <3>1, <3>2 DEF CommitStatus, Decision!Move
    <3>4. r.order \in Orders /\ r.to \in Decision!OrderStatus
      BY <2>0 DEF OrderStatus, Decision!OrderStatus
    <3> QED
      BY <3>3, <3>4 DEF Decision!Next
  <2>5. ASSUME NEW w \in Workers, NEW d \in {"confirmed", "cancelled"}, CommitsDecision(w, d)
        PROVE  Decision!Next
    <3> DEFINE o == tx[w].order
               n == tx[w].item - 1
    <3>1. /\ o \in Orders /\ cart[o] \in Seq(Item)
          /\ status[o] = "pending"
          /\ status' = [status EXCEPT ![o] = d]
          /\ ledger' = [ledger EXCEPT ![o] = tx[w].rows]
          /\ tx[w].rows = Decision!Taken(cart[o], n)
          /\ n \in 0..Len(cart[o])
          /\ d = "confirmed" <=> n = Len(cart[o])
      BY <1>2, <2>5, DecisionTakes
    <3> HIDE DEF o, n
    <3>2. Decision!Decide(o, d, n)
      BY <2>1, <3>1 DEF Decision!Decide
    <3> QED
      BY <3>1, <3>2 DEF Decision!Next
  <2> QED
    BY <1>2, <2>2, <2>3, <2>4, <2>5, OrderWriters
<1> QED
  BY <1>1, <1>2, LinesAlways, PTL DEF Spec, ImplementsOrderDecision, Decision!Spec

-----------------------------------------------------------------------------
(* Counters: reserved_quantity and the sum of the reservation rows *)

\* What is reserved of p by the rows of each order.
Held(p) == [o \in Orders |-> ledger[o][p]]

LEMMA LedgerSumIs == TypeOK => \A p \in Products : LedgerSum(p) = SumOf(Held(p), Orders)
<1> SUFFICES ASSUME TypeOK, NEW p \in Products PROVE LedgerSum(p) = SumOf(Held(p), Orders)
  OBVIOUS
<1> DEFINE f == Held(p)
           Iter(h) == h = [s \in SUBSET Orders |->
               IF s = {} THEN 0 ELSE ledger[First(s)][p] + h[s \ {First(s)}]]
<1>1. LedgerSum(p) = (CHOOSE h : Iter(h))[Orders]
  BY DEF LedgerSum, MapThenSumSet, MapThenFoldSet, First
<1>2. \A o \in Orders : f[o] \in Int
  BY DEF TypeOK, Held
<1>3. ASSUME NEW h PROVE Iter(h) <=> Sums(f, Orders, h)
  <2>1. \A s \in SUBSET Orders : s # {} => f[First(s)] = ledger[First(s)][p]
    BY FirstIn DEF Held
  <2> HIDE DEF f
  <2>2. [s \in SUBSET Orders |-> IF s = {} THEN 0 ELSE ledger[First(s)][p] + h[s \ {First(s)}]]
        = [s \in SUBSET Orders |-> IF s = {} THEN 0 ELSE f[First(s)] + h[s \ {First(s)}]]
    BY <2>1
  <2> QED
    BY <2>2 DEF Sums
<1> HIDE DEF f, Iter
<1>4. PICK k : Sums(f, Orders, k)
  BY <1>2, OrdersAssumption, SumOfIs
<1>5. Iter(CHOOSE h : Iter(h))
  BY <1>3, <1>4
<1> QED
  BY <1>1, <1>2, <1>3, <1>5, OrdersAssumption, SumsEnd DEF f

LEMMA LedgerSumIsAfter ==
    (TypeOK => \A p \in Products : LedgerSum(p) = SumOf(Held(p), Orders))'
BY LedgerSumIs, PTL

\* The rows of a product add up to more and more: only a decision inserts rows,
\* and exactly those of its handler.
LEMMA LedgerGrows ==
    ASSUME DeliveriesInv, LinesInv, [Next]_vars, NEW p \in Products
    PROVE  /\ LedgerSum(p) \in Nat
           /\ \/ LedgerSum(p)' = LedgerSum(p) /\ reserved'[p] = reserved[p]
              \/ \E w \in Workers : /\ Loaded(w) /\ ~Loaded(w)'
                                    /\ LedgerSum(p)' = LedgerSum(p) + tx[w].rows[p]
                                    /\ reserved'[p] = IF tx[w].rows[p] # 0 THEN tx[w].value[p]
                                                      ELSE reserved[p]
<1>0. TypeOK /\ TypeOK' /\ ledger \in [Orders -> [Products -> Nat]]
      /\ ledger' \in [Orders -> [Products -> Nat]]
      /\ \A w \in Workers : tx[w] \in Handler
      /\ pc \in [Workers -> {"idle", "row", "load", "key", "read", "write", "refused"}]
  <2>1. TypeInv'
    BY TypeStep DEF DeliveriesInv, OrdersInv
  <2> QED
    BY <2>1 DEF DeliveriesInv, OrdersInv, TypeInv, TypeOK
<1>1. \A o \in Orders : Held(p)[o] \in Nat /\ Held(p)[o] \in Int
                        /\ Held(p)'[o] \in Nat /\ Held(p)'[o] \in Int
  BY <1>0 DEF Held
<1>2. LedgerSum(p) = SumOf(Held(p), Orders) /\ LedgerSum(p)' = SumOf(Held(p)', Orders)
  BY <1>0, LedgerSumIs, LedgerSumIsAfter
<1>3. LedgerSum(p) \in Nat
  BY <1>1, <1>2, OrdersAssumption, SumNat
<1>4. CASE UNCHANGED <<status, version, announced, reserved, ledger>>
  <2>1. Held(p)' = Held(p)
    BY <1>4 DEF Held
  <2> QED
    BY <1>2, <1>3, <1>4, <2>1
<1>5. ASSUME NEW o \in Orders, CreateOrder(o) PROVE UNCHANGED <<reserved, ledger>>
  BY <1>5 DEF CreateOrder
<1>6. ASSUME NEW r \in requests, CommitStatus(r) PROVE UNCHANGED <<reserved, ledger>>
  BY <1>6 DEF CommitStatus
<1>7. CASE UNCHANGED <<reserved, ledger>>
  <2>1. Held(p)' = Held(p)
    BY <1>7 DEF Held
  <2> QED
    BY <1>2, <1>3, <1>7, <2>1
<1>8. ASSUME NEW w \in Workers, NEW d \in {"confirmed", "cancelled"}, CommitsDecision(w, d)
      PROVE  /\ Loaded(w) /\ ~Loaded(w)'
             /\ LedgerSum(p)' = LedgerSum(p) + tx[w].rows[p]
             /\ reserved'[p] = IF tx[w].rows[p] # 0 THEN tx[w].value[p] ELSE reserved[p]
  <2>0. PICK o \in Orders : o = tx[w].order
    BY <1>8, DecisionTakes
  <2>1. /\ ledger[o][p] = 0
        /\ ledger' = [ledger EXCEPT ![o] = tx[w].rows]
        /\ reserved' = StockAfter(w)
    BY <1>8, <2>0, DecisionTakes
  <2>2. Held(p)[o] = 0 /\ Held(p)'[o] = tx[w].rows[p]
    BY <1>0, <2>1 DEF Held
  <2>3. \A q \in Orders \ {o} : Held(p)'[q] = Held(p)[q]
    BY <1>0, <2>1 DEF Held
  <2>4. SumOf(Held(p)', Orders) = SumOf(Held(p), Orders) - Held(p)[o] + Held(p)'[o]
    BY <1>1, <2>3, OrdersAssumption, SumUpdate
  <2>5. Loaded(w) /\ ~Loaded(w)'
    BY <1>0, <1>8 DEF CommitsDecision, Decide, EndHandler, Loaded
  <2>6. tx[w].rows[p] \in Nat
    BY <1>0 DEF Handler
  <2> QED
    BY <1>2, <1>3, <2>1, <2>2, <2>4, <2>5, <2>6 DEF StockAfter
<1> QED
  BY <1>3, <1>4, <1>5, <1>6, <1>7, <1>8, OrderWriters

\* What a handler read or is about to write is covered by the rows that were
\* there when it read, its own rows added.
CountersInv ==
    /\ CounterWithinLedger
    /\ \A w \in Workers : \A p \in Products :
        /\ pc[w] = "write" /\ Line(w).product = p => tx[w].read <= LedgerSum(p)
        /\ tx[w].rows[p] # 0 => tx[w].value[p] <= LedgerSum(p) + tx[w].rows[p]

LEMMA CountersInit == Init => CountersInv
<1> SUFFICES ASSUME Init PROVE CountersInv
  OBVIOUS
<1>1. TypeOK
  BY TypeInit DEF TypeInv
<1>2. ASSUME NEW p \in Products PROVE LedgerSum(p) \in Nat
  <2>1. \A o \in Orders : Held(p)[o] \in Nat /\ Held(p)[o] \in Int
    BY <1>1 DEF TypeOK, Held
  <2> QED
    BY <1>1, <2>1, LedgerSumIs, OrdersAssumption, SumNat
<1> QED
  BY <1>2 DEF Init, CountersInv, CounterWithinLedger, NoHandler

\* The writes of one handler step, to its transaction or to nothing.
LEMMA HandlerWrites ==
    ASSUME DeliveriesInv, LinesInv, [Next]_vars, NEW v \in Workers, NEW p \in Products
    PROVE  /\ \/ tx'[v].rows[p] = 0
              \/ tx'[v].rows[p] = tx[v].rows[p] /\ tx'[v].value[p] = tx[v].value[p]
                 /\ (Loaded(v)' => Loaded(v))
              \/ /\ pc[v] = "write" /\ Line(v).product = p
                 /\ tx'[v].rows[p] = Line(v).quantity
                 /\ tx'[v].value[p] = tx[v].read + Line(v).quantity
           /\ pc'[v] = "write" /\ Line(v)'.product = p =>
                 \/ pc[v] = "write" /\ Line(v)' = Line(v) /\ tx'[v].read = tx[v].read
                 \/ /\ pc[v] = "read" /\ Line(v)' = Line(v) /\ ~Refused(v)
                    /\ tx'[v].read = reserved[p] /\ reserved' = reserved
<1>0. /\ pc \in [Workers -> {"idle", "row", "load", "key", "read", "write", "refused"}]
      /\ tx \in [Workers -> Handler] /\ tx[v] \in Handler
      /\ TypeInv
  BY DEF DeliveriesInv, OrdersInv, TypeInv, TypeOK
<1>1. UNCHANGED cart
  BY FixedData
<1>2. CASE pc'[v] = pc[v] /\ tx'[v] = tx[v]
  BY <1>1, <1>2 DEF Loaded, Line, Items
<1>3. CASE ~Loaded(v)' /\ (Fresh(tx'[v]) \/ (~Loaded(v) /\ tx'[v] = tx[v]))
  BY <1>3 DEF Loaded, Fresh, LinesInv
<1>4. CASE LoadOrder(v) /\ status[tx[v].order] = "pending"
  <2>1. Fresh(tx[v])
    BY <1>4 DEF LoadOrder, LinesInv, Loaded
  <2> QED
    BY <1>0, <1>4, <2>1 DEF LoadOrder, Fresh, Handler
<1>5. CASE FindReservation(v)
  BY <1>0, <1>5 DEF FindReservation, Handler, Loaded
<1>6. CASE ReadStock(v)
  <2>1. pc[v] = "read" /\ UNCHANGED reserved
        /\ \/ pc' = [pc EXCEPT ![v] = "refused"] /\ UNCHANGED tx
           \/ /\ pc' = [pc EXCEPT ![v] = "write"] /\ ~Refused(v)
              /\ tx' = [tx EXCEPT ![v].read = reserved[Line(v).product]]
    BY <1>6 DEF ReadStock, db
  <2>2. /\ tx'[v].order = tx[v].order /\ tx'[v].item = tx[v].item
        /\ tx'[v].rows = tx[v].rows /\ tx'[v].value = tx[v].value
    BY <1>0, <2>1 DEF Handler
  <2>3. Line(v)' = Line(v)
    BY <1>1, <2>2 DEF Line, Items
  <2>4. pc'[v] = "write" => ~Refused(v) /\ tx'[v].read = reserved[Line(v).product]
    BY <1>0, <2>1 DEF Handler
  <2> QED
    BY <2>1, <2>2, <2>3, <2>4 DEF Loaded
<1>7. CASE WriteReservation(v) /\ ledger[tx[v].order][Line(v).product] = 0
  <2>1. /\ pc[v] = "write" /\ pc' = [pc EXCEPT ![v] = "key"]
        /\ tx' = [tx EXCEPT ![v].rows[Line(v).product] = Line(v).quantity,
                            ![v].value[Line(v).product] = tx[v].read + Line(v).quantity,
                            ![v].item = @ + 1]
    BY <1>7 DEF WriteReservation
  <2>2. /\ tx'[v].rows = [tx[v].rows EXCEPT ![Line(v).product] = Line(v).quantity]
        /\ tx'[v].value = [tx[v].value EXCEPT ![Line(v).product] = tx[v].read + Line(v).quantity]
        /\ pc'[v] = "key"
    BY <1>0, <2>1 DEF Handler
  <2>3. tx[v].rows \in [Products -> Nat] /\ tx[v].value \in [Products -> Nat]
    BY <1>0 DEF Handler
  <2> QED
    BY <2>1, <2>2, <2>3 DEF Loaded
<1>8. \/ pc'[v] = pc[v] /\ tx'[v] = tx[v]
      \/ ~Loaded(v)' /\ (Fresh(tx'[v]) \/ (~Loaded(v) /\ tx'[v] = tx[v]))
      \/ LoadOrder(v) /\ status[tx[v].order] = "pending"
      \/ FindReservation(v)
      \/ ReadStock(v)
      \/ WriteReservation(v) /\ ledger[tx[v].order][Line(v).product] = 0
  BY <1>0, HandlerMoves
<1> QED
  BY <1>2, <1>3, <1>4, <1>5, <1>6, <1>7, <1>8

LEMMA CountersStep ==
    ASSUME DeliveriesInv, LinesInv, CountersInv, [Next]_vars
    PROVE  CountersInv'
<1>0. /\ \A w \in Workers : tx[w] \in Handler
      /\ reserved \in [Products -> Nat] /\ TypeOK
  BY DEF DeliveriesInv, OrdersInv, TypeInv, TypeOK
<1>1. ASSUME NEW p \in Products
      PROVE  /\ LedgerSum(p) \in Nat /\ LedgerSum(p)' \in Nat /\ LedgerSum(p) <= LedgerSum(p)'
             /\ reserved[p] <= LedgerSum(p)
             /\ reserved'[p] <= LedgerSum(p)'
  <2>1. reserved[p] <= LedgerSum(p) /\ reserved[p] \in Nat
    BY <1>0 DEF CountersInv, CounterWithinLedger
  <2>2. CASE LedgerSum(p)' = LedgerSum(p) /\ reserved'[p] = reserved[p]
    BY <2>1, <2>2, LedgerGrows
  <2>3. ASSUME NEW w \in Workers,
               LedgerSum(p)' = LedgerSum(p) + tx[w].rows[p],
               reserved'[p] = IF tx[w].rows[p] # 0 THEN tx[w].value[p] ELSE reserved[p]
        PROVE  /\ LedgerSum(p) \in Nat /\ LedgerSum(p)' \in Nat /\ LedgerSum(p) <= LedgerSum(p)'
               /\ reserved'[p] <= LedgerSum(p)'
    <3>1. LedgerSum(p) \in Nat /\ tx[w].rows[p] \in Nat
      BY <1>0, LedgerGrows DEF Handler
    <3>2. tx[w].rows[p] # 0 => tx[w].value[p] <= LedgerSum(p) + tx[w].rows[p]
      BY DEF CountersInv
    <3> QED
      BY <2>1, <2>3, <3>1, <3>2
  <2> QED
    BY <2>1, <2>2, <2>3, LedgerGrows
<1>2. ASSUME NEW v \in Workers, NEW p \in Products
      PROVE  /\ pc'[v] = "write" /\ Line(v)'.product = p => tx'[v].read <= LedgerSum(p)'
             /\ tx'[v].rows[p] # 0 => tx'[v].value[p] <= LedgerSum(p)' + tx'[v].rows[p]
  <2>1. /\ tx[v].rows[p] \in Nat /\ tx[v].value[p] \in Nat /\ tx[v].read \in Nat
        /\ reserved[p] \in Nat
    BY <1>0 DEF Handler
  <2>2. /\ pc[v] = "write" /\ Line(v).product = p => tx[v].read <= LedgerSum(p)
        /\ tx[v].rows[p] # 0 => tx[v].value[p] <= LedgerSum(p) + tx[v].rows[p]
    BY DEF CountersInv
  <2>3. pc[v] = "write" => Line(v).quantity \in Nat
    BY LineType DEF DeliveriesInv, OrdersInv, TypeInv, ItemInRange, AtItem, InHandler
  <2>4. /\ LedgerSum(p) \in Nat /\ LedgerSum(p)' \in Nat /\ LedgerSum(p) <= LedgerSum(p)'
        /\ reserved[p] <= LedgerSum(p)
    BY <1>1
  <2>5. pc'[v] = "write" /\ Line(v)'.product = p => tx'[v].read <= LedgerSum(p)'
    BY <2>1, <2>2, <2>4, HandlerWrites
  <2>6. tx'[v].rows[p] # 0 => tx'[v].value[p] <= LedgerSum(p)' + tx'[v].rows[p]
    BY <2>1, <2>2, <2>3, <2>4, HandlerWrites
  <2> QED
    BY <2>5, <2>6
<1> QED
  BY <1>1, <1>2 DEF CountersInv, CounterWithinLedger

\* Two handlers that read the same counter lose an update and never gain one:
\* whatever they interleave, reserved_quantity stays within the rows.
THEOREM CounterNeverAhead == Spec => []CounterWithinLedger
<1> DEFINE I == DeliveriesInv /\ LinesInv
<1>1. I /\ CountersInv /\ [Next]_vars => CountersInv'
  BY CountersStep
<1>2. CountersInv => CounterWithinLedger
  BY DEF CountersInv
<1> QED
  BY <1>1, <1>2, CountersInit, LinesAlways, PTL DEF Spec

\* One API process: what a handler read stays what there is until it decides.
OneWorker == \A v, w \in Workers : v = w

AloneInv ==
    /\ CounterMatchesLedger
    /\ \A p \in Products : reserved[p] <= quantity[p]
    /\ \A w \in Workers : \A p \in Products :
        /\ pc[w] = "write" /\ Line(w).product = p =>
              tx[w].read = reserved[p] /\ tx[w].read + Line(w).quantity <= quantity[p]
        /\ tx[w].rows[p] # 0 =>
              tx[w].value[p] = reserved[p] + tx[w].rows[p] /\ tx[w].value[p] <= quantity[p]

LEMMA AloneInit == Init => AloneInv
<1> SUFFICES ASSUME Init PROVE AloneInv
  OBVIOUS
<1>1. TypeOK
  BY TypeInit DEF TypeInv
<1>2. ASSUME NEW p \in Products PROVE LedgerSum(p) = 0
  <2>1. \A o \in Orders : Held(p)[o] = 0
    BY DEF Init, Held
  <2>2. SumOf(Held(p), Orders) \in Nat /\ CounterWithinLedger
    <3>1. \A o \in Orders : Held(p)[o] \in Nat /\ Held(p)[o] \in Int
      BY <2>1
    <3> QED
      BY <3>1, OrdersAssumption, SumNat, CountersInit DEF CountersInv
  <2>3. SumOf(Held(p), Orders) = 0
    BY <2>1, OrdersAssumption, SumZero
  <2> QED
    BY <1>1, <2>3, LedgerSumIs
<1>3. quantity \in [Products -> Nat]
  BY <1>1 DEF TypeOK
<1> QED
  BY <1>2, <1>3 DEF Init, AloneInv, CounterMatchesLedger, NoHandler

LEMMA AloneStep ==
    ASSUME OneWorker, DeliveriesInv, LinesInv, LinesInv', AloneInv, [Next]_vars
    PROVE  AloneInv'
<1>0. /\ \A w \in Workers : tx[w] \in Handler
      /\ reserved \in [Products -> Nat] /\ quantity \in [Products -> Nat] /\ TypeOK
  BY DEF DeliveriesInv, OrdersInv, TypeInv, TypeOK
<1>1. UNCHANGED quantity
  BY FixedData
<1>2. ASSUME NEW p \in Products
      PROVE  /\ LedgerSum(p) = reserved[p] /\ LedgerSum(p) \in Nat
             /\ reserved'[p] = LedgerSum(p)' /\ reserved'[p] <= quantity[p]
             /\ \/ reserved'[p] = reserved[p]
                \/ \A v \in Workers : pc'[v] # "write" /\ tx'[v].rows[p] = 0
  <2>1. LedgerSum(p) = reserved[p] /\ LedgerSum(p) \in Nat /\ reserved[p] <= quantity[p]
    BY LedgerGrows DEF AloneInv, CounterMatchesLedger
  <2>2. ASSUME NEW w \in Workers, Loaded(w), ~Loaded(w)',
               LedgerSum(p)' = LedgerSum(p) + tx[w].rows[p],
               reserved'[p] = IF tx[w].rows[p] # 0 THEN tx[w].value[p] ELSE reserved[p]
        PROVE  /\ reserved'[p] = LedgerSum(p)' /\ reserved'[p] <= quantity[p]
               /\ \A v \in Workers : pc'[v] # "write" /\ tx'[v].rows[p] = 0
    <3>1. tx[w].rows[p] \in Nat /\ tx[w].value[p] \in Nat
      BY <1>0 DEF Handler
    <3>2. tx[w].rows[p] # 0 =>
             tx[w].value[p] = reserved[p] + tx[w].rows[p] /\ tx[w].value[p] <= quantity[p]
      BY DEF AloneInv
    <3>3. Fresh(tx'[w]) /\ pc'[w] # "write"
      BY <2>2 DEF LinesInv, Loaded
    <3>4. \A v \in Workers : v = w
      BY DEF OneWorker
    <3> QED
      BY <2>1, <2>2, <3>1, <3>2, <3>3, <3>4 DEF Fresh
  <2> QED
    BY <2>1, <2>2, LedgerGrows
<1>3. ASSUME NEW v \in Workers, NEW p \in Products
      PROVE  /\ pc'[v] = "write" /\ Line(v)'.product = p =>
                   tx'[v].read = reserved'[p] /\ tx'[v].read + Line(v)'.quantity <= quantity[p]
             /\ tx'[v].rows[p] # 0 =>
                   tx'[v].value[p] = reserved'[p] + tx'[v].rows[p] /\ tx'[v].value[p] <= quantity[p]
  <2>1. /\ tx[v].rows[p] \in Nat /\ tx[v].value[p] \in Nat /\ tx[v].read \in Nat
        /\ reserved[p] \in Nat /\ quantity[p] \in Nat
    BY <1>0 DEF Handler
  <2>2. /\ pc[v] = "write" /\ Line(v).product = p =>
              tx[v].read = reserved[p] /\ tx[v].read + Line(v).quantity <= quantity[p]
        /\ tx[v].rows[p] # 0 =>
              tx[v].value[p] = reserved[p] + tx[v].rows[p] /\ tx[v].value[p] <= quantity[p]
    BY DEF AloneInv
  <2>3. pc[v] \in {"read", "write"} => Line(v).quantity \in Nat /\ Line(v).product \in Products
    BY LineType DEF DeliveriesInv, OrdersInv, TypeInv, ItemInRange, AtItem, InHandler
  <2>4. pc'[v] = "write" /\ Line(v)'.product = p =>
            tx'[v].read = reserved'[p] /\ tx'[v].read + Line(v)'.quantity <= quantity[p]
    <3> SUFFICES ASSUME pc'[v] = "write", Line(v)'.product = p
                 PROVE  tx'[v].read = reserved'[p] /\ tx'[v].read + Line(v)'.quantity <= quantity[p]
      OBVIOUS
    <3>1. reserved'[p] = reserved[p]
      BY <1>2
    <3>2. CASE pc[v] = "write" /\ Line(v)' = Line(v) /\ tx'[v].read = tx[v].read
      BY <2>2, <3>1, <3>2
    <3>3. CASE /\ pc[v] = "read" /\ Line(v)' = Line(v) /\ ~Refused(v)
               /\ tx'[v].read = reserved[p]
      BY <2>1, <2>3, <3>1, <3>3 DEF Refused
    <3> QED
      BY <3>2, <3>3, HandlerWrites
  <2>5. tx'[v].rows[p] # 0 =>
            tx'[v].value[p] = reserved'[p] + tx'[v].rows[p] /\ tx'[v].value[p] <= quantity[p]
    <3> SUFFICES ASSUME tx'[v].rows[p] # 0
                 PROVE  tx'[v].value[p] = reserved'[p] + tx'[v].rows[p]
                        /\ tx'[v].value[p] <= quantity[p]
      OBVIOUS
    <3>1. reserved'[p] = reserved[p]
      BY <1>2
    <3> QED
      BY <2>1, <2>2, <2>3, <3>1, HandlerWrites
  <2> QED
    BY <2>4, <2>5
<1> QED
  BY <1>1, <1>2, <1>3 DEF AloneInv, CounterMatchesLedger

LEMMA AloneAlways == ASSUME OneWorker PROVE Spec => []AloneInv
<1>1. DeliveriesInv /\ LinesInv /\ LinesInv' /\ AloneInv /\ [Next]_vars => AloneInv'
  BY AloneStep
<1> QED
  BY <1>1, AloneInit, LinesAlways, PTL DEF Spec

\* With one API process the unlocked read of the stock is harmless: the counter
\* is exactly what the reservation rows add up to.
THEOREM CounterExactAlone == ASSUME OneWorker PROVE Spec => []CounterMatchesLedger
<1>1. AloneInv => CounterMatchesLedger
  BY DEF AloneInv
<1> QED
  BY <1>1, AloneAlways, PTL

\* With one API process no more stock is promised than there is, whatever
\* retries, crashes and concurrent API requests do.
THEOREM NoOversellAlone == ASSUME OneWorker PROVE Spec => []NoOversell
<1>1. AloneInv => NoOversell
  BY DEF AloneInv, CounterMatchesLedger, NoOversell
<1> QED
  BY <1>1, AloneAlways, PTL

\* Every counter a handler read, wrote or committed passed the check of the stock.
StockInv ==
    /\ \A p \in Products : reserved[p] <= quantity[p]
    /\ \A w \in Workers : \A p \in Products :
        /\ pc[w] = "write" /\ Line(w).product = p =>
              tx[w].read + Line(w).quantity <= quantity[p]
        /\ tx[w].rows[p] # 0 => tx[w].value[p] <= quantity[p]

LEMMA StockStep ==
    ASSUME DeliveriesInv, LinesInv, StockInv, [Next]_vars
    PROVE  StockInv'
<1>0. /\ \A w \in Workers : tx[w] \in Handler
      /\ reserved \in [Products -> Nat] /\ quantity \in [Products -> Nat]
  BY DEF DeliveriesInv, OrdersInv, TypeInv, TypeOK
<1>1. UNCHANGED quantity
  BY FixedData
<1>2. ASSUME NEW p \in Products PROVE reserved'[p] <= quantity[p]
  <2>1. \A w \in Workers : tx[w].rows[p] # 0 => tx[w].value[p] <= quantity[p]
    BY DEF StockInv
  <2>2. reserved[p] <= quantity[p]
    BY DEF StockInv
  <2> QED
    BY <2>1, <2>2, LedgerGrows
<1>3. ASSUME NEW v \in Workers, NEW p \in Products
      PROVE  /\ pc'[v] = "write" /\ Line(v)'.product = p =>
                   tx'[v].read + Line(v)'.quantity <= quantity[p]
             /\ tx'[v].rows[p] # 0 => tx'[v].value[p] <= quantity[p]
  <2>1. reserved[p] \in Nat /\ quantity[p] \in Nat
    BY <1>0
  <2>2. /\ pc[v] = "write" /\ Line(v).product = p =>
              tx[v].read + Line(v).quantity <= quantity[p]
        /\ tx[v].rows[p] # 0 => tx[v].value[p] <= quantity[p]
    BY DEF StockInv
  <2>3. pc[v] = "read" => Line(v).quantity \in Nat
    BY LineType DEF DeliveriesInv, OrdersInv, TypeInv, ItemInRange, AtItem, InHandler
  <2>4. pc'[v] = "write" /\ Line(v)'.product = p => tx'[v].read + Line(v)'.quantity <= quantity[p]
    BY <2>1, <2>2, <2>3, HandlerWrites DEF Refused
  <2> QED
    BY <2>2, <2>4, HandlerWrites
<1> QED
  BY <1>1, <1>2, <1>3 DEF StockInv

\* get_available never goes negative.
AvailableNeverNegative == \A p \in Products : reserved[p] <= quantity[p]

\* The counter of every product stays within its stock, for any number of API
\* processes: a lost update leaves the counter too low, and the rows may then
\* promise more than there is, but what the service shows as available never
\* goes negative.
THEOREM CounterWithinStock == Spec => []AvailableNeverNegative
<1>1. Init => StockInv
  <2> SUFFICES ASSUME Init PROVE StockInv
    OBVIOUS
  <2>1. quantity \in [Products -> Nat]
    BY TypeInit DEF TypeInv, TypeOK
  <2> QED
    BY <2>1 DEF Init, StockInv, NoHandler
<1>2. DeliveriesInv /\ LinesInv /\ StockInv /\ [Next]_vars => StockInv'
  BY StockStep
<1>3. StockInv => AvailableNeverNegative
  BY DEF StockInv, AvailableNeverNegative
<1> QED
  BY <1>1, <1>2, <1>3, LinesAlways, PTL DEF Spec

-----------------------------------------------------------------------------
(* What decisions take *)

\* An order a handler decided, and the API has left alone since, holds what all
\* its lines take or, when it was cancelled, what the lines before a refused
\* one took.
DecisionsTake ==
    \A o \in Orders :
        /\ HandlerConfirmed(o) => ledger[o] = Decision!Taken(cart[o], Len(cart[o]))
        /\ HandlerCancelled(o) =>
              \E n \in 0..(Len(cart[o]) - 1) : ledger[o] = Decision!Taken(cart[o], n)

LEMMA DecisionsTakeStep ==
    ASSUME DeliveriesInv, LinesInv, DecisionsTake, [Next]_vars
    PROVE  DecisionsTake'
<1>0. /\ status \in [Orders -> OrderStatus \union {"absent"}]
      /\ announced \in [Orders -> Seq(OrderStatus)]
      /\ ledger \in [Orders -> [Products -> Nat]]
      /\ \A r \in requests : r.order \in Orders /\ r.to \in OrderStatus
  BY DEF DeliveriesInv, OrdersInv, TypeInv, TypeOK, Request
<1>1. UNCHANGED cart
  BY FixedData
<1> DEFINE Took(o) ==
               /\ HandlerConfirmed(o) => ledger[o] = Decision!Taken(cart[o], Len(cart[o]))
               /\ HandlerCancelled(o) =>
                     \E n \in 0..(Len(cart[o]) - 1) : ledger[o] = Decision!Taken(cart[o], n)
<1>2. ASSUME NEW q \in Orders,
             \A o \in Orders \ {q} : status'[o] = status[o] /\ announced'[o] = announced[o]
                                     /\ ledger'[o] = ledger[o],
             Took(q)'
      PROVE  DecisionsTake'
  BY <1>1, <1>2 DEF DecisionsTake, HandlerConfirmed, HandlerCancelled
<1>3. CASE UNCHANGED <<status, version, announced, reserved, ledger>>
  BY <1>1, <1>3 DEF DecisionsTake, HandlerConfirmed, HandlerCancelled
<1>4. ASSUME NEW o \in Orders, CreateOrder(o) PROVE DecisionsTake'
  <2>1. status' = [status EXCEPT ![o] = "pending"] /\ UNCHANGED <<announced, ledger>>
    BY <1>4 DEF CreateOrder
  <2>2. ~HandlerConfirmed(o)' /\ ~HandlerCancelled(o)'
    BY <1>0, <2>1 DEF HandlerConfirmed, HandlerCancelled
  <2> QED
    BY <1>0, <1>2, <2>1, <2>2
<1>5. ASSUME NEW r \in requests, CommitStatus(r) PROVE DecisionsTake'
  <2>1. /\ status' = [status EXCEPT ![r.order] = r.to] /\ UNCHANGED ledger
        /\ announced' = [announced EXCEPT ![r.order] = Append(@, r.to)]
    BY <1>5 DEF CommitStatus
  <2>2. announced'[r.order] = Append(announced[r.order], r.to) /\ announced'[r.order] # <<>>
    BY <1>0, <2>1
  <2>3. ~HandlerConfirmed(r.order)' /\ ~HandlerCancelled(r.order)'
    BY <2>2 DEF HandlerConfirmed, HandlerCancelled
  <2> QED
    BY <1>0, <1>2, <2>1, <2>3
<1>6. ASSUME NEW w \in Workers, NEW d \in {"confirmed", "cancelled"}, CommitsDecision(w, d)
      PROVE  DecisionsTake'
  <2> DEFINE n == tx[w].item - 1
  <2>0. PICK o \in Orders : o = tx[w].order
    BY <1>6, DecisionTakes
  <2>1. /\ cart[o] \in Seq(Item)
        /\ status' = [status EXCEPT ![o] = d]
        /\ ledger' = [ledger EXCEPT ![o] = tx[w].rows]
        /\ tx[w].rows = Decision!Taken(cart[o], n)
        /\ n \in 0..Len(cart[o])
        /\ d = "confirmed" <=> n = Len(cart[o])
    BY <1>6, <2>0, DecisionTakes
  <2>2. UNCHANGED announced
    BY <1>6 DEF CommitsDecision, Decide
  <2> HIDE DEF n
  <2>3. status'[o] = d /\ ledger'[o] = Decision!Taken(cart[o], n)
    BY <1>0, <2>1
  <2>4. HandlerConfirmed(o)' => ledger'[o] = Decision!Taken(cart[o], Len(cart[o]))
    BY <2>1, <2>3 DEF HandlerConfirmed
  <2>5. HandlerCancelled(o)' => n \in 0..(Len(cart[o]) - 1)
    BY <2>1, <2>3 DEF HandlerCancelled
  <2>6. Took(o)'
    BY <1>1, <2>3, <2>4, <2>5
  <2> QED
    BY <1>0, <1>2, <2>1, <2>2, <2>6
<1> QED
  BY <1>3, <1>4, <1>5, <1>6, OrderWriters

LEMMA DecisionsTakeAlways == Spec => [](TypeOK /\ DecisionsTake)
<1>1. Init => DecisionsTake
  BY DEF Init, DecisionsTake, HandlerConfirmed, HandlerCancelled
<1>2. DeliveriesInv /\ LinesInv /\ DecisionsTake /\ [Next]_vars => DecisionsTake'
  BY DecisionsTakeStep
<1>3. DeliveriesInv => TypeOK
  BY DEF DeliveriesInv, OrdersInv, TypeInv
<1> QED
  BY <1>1, <1>2, <1>3, LinesAlways, PTL DEF Spec

\* No product is on two lines of a cart.
DistinctLines ==
    \A c \in Carts : \A i, j \in DOMAIN c : c[i].product = c[j].product => i = j

\* What an order asked for of a product that is on one of its lines at most.
LEMMA AskedOnce ==
    ASSUME DistinctLines, TypeOK, NEW o \in Orders, NEW p \in Products
    PROVE  Asked(o, p) = Decision!Taken(cart[o], Len(cart[o]))[p]
<1> DEFINE S == DOMAIN cart[o]
           g == [i \in S |-> IF cart[o][i].product = p THEN cart[o][i].quantity ELSE 0]
           Iter(h) == h = [s \in SUBSET S |-> IF s = {} THEN 0
               ELSE (IF cart[o][First(s)].product = p THEN cart[o][First(s)].quantity ELSE 0)
                    + h[s \ {First(s)}]]
           Lines == {i \in 1..Len(cart[o]) : cart[o][i].product = p}
<1>0. cart[o] \in Carts /\ cart[o] \in Seq(Item) /\ S = 1..Len(cart[o]) /\ Len(cart[o]) \in Nat
  BY CartsAssumption DEF TypeOK
<1>1. IsFiniteSet(S) /\ \A i \in S : g[i] \in Int
  <2>1. \A i \in S : cart[o][i].quantity \in Nat
    <3>1. \A i \in S : cart[o][i] \in Item
      BY <1>0
    <3> HIDE DEF S
    <3> QED
      BY <3>1 DEF Item
  <2>2. \A i \in S : g[i] \in Int
    BY <2>1
  <2>3. IsFiniteSet(S)
    BY <1>0, FS_Interval
  <2> QED
    BY <2>2, <2>3
<1>2. Asked(o, p) = (CHOOSE h : Iter(h))[S]
  BY DEF Asked, MapThenSumSet, MapThenFoldSet, First
<1>3. Decision!Taken(cart[o], Len(cart[o]))[p]
      = IF Lines = {} THEN 0 ELSE cart[o][Decision!Min(Lines)].quantity
  BY DEF Decision!Taken
<1>4. \A i, j \in S : cart[o][i].product = p /\ cart[o][j].product = p => i = j
  BY <1>0 DEF DistinctLines
<1>5. SumOf(g, S) = IF Lines = {} THEN 0 ELSE cart[o][Decision!Min(Lines)].quantity
  <2>1. CASE Lines = {}
    <3>1. \A i \in S : g[i] = 0
      BY <1>0, <2>1
    <3> HIDE DEF g, S
    <3> QED
      BY <1>1, <2>1, <3>1, SumZero
  <2>2. CASE Lines # {}
    <3>1. PICK j \in S : cart[o][j].product = p
      BY <1>0, <2>2
    <3>2. g[j] = cart[o][j].quantity /\ \A i \in S \ {j} : g[i] = 0
      BY <1>4, <3>1
    <3>3. Lines = {j}
      BY <1>0, <1>4, <3>1
    <3>4. Decision!Min({j}) = j
      BY <1>0 DEF Decision!Min
    <3>5. IsFiniteSet(S \ {j})
      BY <1>1, FS_RemoveElement
    <3> HIDE DEF g, S
    <3>6. SumOf(g, S \ {j}) = 0
      BY <3>2, <3>5, SumZero
    <3>7. SumOf(g, S) = g[j] + SumOf(g, S \ {j}) /\ g[j] \in Int
      BY <1>1, SumRemove
    <3>8. SumOf(g, S) = cart[o][j].quantity
      BY <3>2, <3>6, <3>7
    <3>9. cart[o][Decision!Min(Lines)].quantity = cart[o][j].quantity
      BY <3>3, <3>4
    <3> HIDE DEF Lines
    <3> QED
      BY <2>2, <3>8, <3>9
  <2> QED
    BY <2>1, <2>2
<1>6. ASSUME NEW h PROVE Iter(h) <=> Sums(g, S, h)
  <2>1. \A s \in SUBSET S : s # {} =>
          g[First(s)] = IF cart[o][First(s)].product = p THEN cart[o][First(s)].quantity ELSE 0
    <3>1. \A s \in SUBSET S : s # {} => First(s) \in S
      BY FirstIn
    <3> QED
      BY <3>1
  <2> HIDE DEF g, S
  <2>2. [s \in SUBSET S |-> IF s = {} THEN 0
               ELSE (IF cart[o][First(s)].product = p THEN cart[o][First(s)].quantity ELSE 0)
                    + h[s \ {First(s)}]]
        = [s \in SUBSET S |-> IF s = {} THEN 0 ELSE g[First(s)] + h[s \ {First(s)}]]
    BY <2>1
  <2> QED
    BY <2>2 DEF Sums
<1> HIDE DEF g, Iter, S, Lines
<1>7. PICK k : Sums(g, S, k)
  BY <1>1, SumOfIs
<1>8. Iter(CHOOSE h : Iter(h))
  BY <1>6, <1>7
<1> QED
  BY <1>1, <1>2, <1>3, <1>5, <1>6, <1>8, SumsEnd

\* A repeated product is all that keeps a confirmed order from its full cart:
\* without one, each order a handler confirmed holds exactly what it asked for.
THEOREM DistinctLinesReserved == ASSUME DistinctLines PROVE Spec => []ConfirmedReservesItsCart
<1>1. TypeOK /\ DecisionsTake => ConfirmedReservesItsCart
  <2> SUFFICES ASSUME TypeOK, DecisionsTake, NEW o \in Orders, HandlerConfirmed(o),
                      NEW p \in Products
               PROVE  ledger[o][p] = Asked(o, p)
    BY DEF ConfirmedReservesItsCart
  <2>1. ledger[o] = Decision!Taken(cart[o], Len(cart[o]))
    BY DEF DecisionsTake
  <2> QED
    BY <2>1, AskedOnce
<1> QED
  BY <1>1, DecisionsTakeAlways, PTL

\* The lines before a refused one are all that a cancelled order keeps: where
\* orders have one line, an order a handler cancelled holds nothing.
THEOREM OneLineCancelledHoldsNothing ==
    ASSUME \A c \in Carts : Len(c) = 1 PROVE Spec => []CancelledHoldsNothing
<1>1. TypeOK /\ DecisionsTake => CancelledHoldsNothing
  <2> SUFFICES ASSUME TypeOK, DecisionsTake, NEW o \in Orders, HandlerCancelled(o),
                      NEW p \in Products
               PROVE  ledger[o][p] = 0
    BY DEF CancelledHoldsNothing, Reserves
  <2>1. cart[o] \in Seq(Item) /\ Len(cart[o]) = 1
    BY CartsAssumption DEF TypeOK
  <2>2. ledger[o] = Decision!Taken(cart[o], 0)
    <3>1. PICK n \in 0..(Len(cart[o]) - 1) : ledger[o] = Decision!Taken(cart[o], n)
      BY DEF DecisionsTake
    <3>2. n = 0
      BY <2>1, <3>1
    <3> QED
      BY <3>1, <3>2
  <2>3. 0 \in 0..Len(cart[o]) /\ \A i \in 1..0 : cart[o][i].product # p
    BY <2>1
  <2> QED
    BY <2>1, <2>2, <2>3, TakenFacts
<1> QED
  BY <1>1, DecisionsTakeAlways, PTL

-----------------------------------------------------------------------------
(* What an order holds for good, and why an order is refused *)

LEMMA HoldingsStep ==
    ASSUME DeliveriesInv, LinesInv, HoldingsAreDecisions, [Next]_vars
    PROVE  HoldingsAreDecisions'
<1>0. /\ status \in [Orders -> OrderStatus \union {"absent"}]
      /\ version \in [Orders -> Nat]
      /\ announced \in [Orders -> Seq(OrderStatus)]
      /\ ledger \in [Orders -> [Products -> Nat]]
      /\ \A r \in requests : r.order \in Orders /\ r.to \in OrderStatus
      /\ TypeInv /\ OrderInv /\ RequestInv /\ HandlerInv
  BY DEF DeliveriesInv, OrdersInv, TypeInv, TypeOK, Request
<1>1. UNCHANGED cart
  BY FixedData
<1> DEFINE Told(o) ==
        IF HandlerDecided(o)
        THEN \E n \in 0..Len(cart[o]) :
                /\ ledger[o] = Decision!Taken(cart[o], n)
                /\ n = Len(cart[o]) <=> status[o] # "cancelled" \/ announced[o] # <<>>
        ELSE ~Reserves(o)
<1>2. ASSUME NEW q \in Orders,
             \A o \in Orders \ {q} : /\ status'[o] = status[o] /\ announced'[o] = announced[o]
                                     /\ version'[o] = version[o] /\ ledger'[o] = ledger[o],
             Told(q)'
      PROVE  HoldingsAreDecisions'
  BY <1>1, <1>2 DEF HoldingsAreDecisions, HandlerDecided, Reserves
<1>3. CASE UNCHANGED <<status, version, announced, reserved, ledger>>
  BY <1>1, <1>3 DEF HoldingsAreDecisions, HandlerDecided, Reserves
<1>4. ASSUME NEW o \in Orders, CreateOrder(o) PROVE HoldingsAreDecisions'
  <2>1. /\ status[o] = "absent" /\ status' = [status EXCEPT ![o] = "pending"]
        /\ version' = [version EXCEPT ![o] = 1] /\ UNCHANGED <<announced, ledger>>
    BY <1>4 DEF CreateOrder
  <2>2. announced[o] = <<>> /\ ~Reserves(o)
    BY <1>0, <2>1 DEF OrderInv, Decided
  <2>3. version'[o] = 1 /\ Len(announced'[o]) = 0
    BY <1>0, <2>1, <2>2
  <2>4. ~HandlerDecided(o)' /\ ~Reserves(o)'
    BY <2>1, <2>2, <2>3 DEF HandlerDecided, Reserves
  <2> QED
    BY <1>0, <1>2, <2>1, <2>4
<1>5. ASSUME NEW r \in requests, CommitStatus(r) PROVE HoldingsAreDecisions'
  <2>0. PICK o \in Orders : o = r.order
    BY <1>0
  <2>1. /\ status' = [status EXCEPT ![o] = r.to] /\ UNCHANGED ledger
        /\ version' = [version EXCEPT ![o] = @ + 1]
        /\ announced' = [announced EXCEPT ![o] = Append(@, r.to)]
    BY <1>5, <2>0 DEF CommitStatus
  <2>2. announced'[o] = Append(announced[o], r.to) /\ version'[o] = version[o] + 1
    BY <1>0, <2>1
  <2>3. announced'[o] # <<>> /\ Len(announced'[o]) = Len(announced[o]) + 1
    <3>1. announced[o] \in Seq(OrderStatus) /\ r.to \in OrderStatus
      BY <1>0
    <3> QED
      BY <2>2, <3>1
  <2>4. HandlerDecided(o)' <=> HandlerDecided(o)
    <3>1. version[o] \in Nat /\ Len(announced[o]) \in Nat
      BY <1>0
    <3> QED
      BY <2>2, <2>3, <3>1 DEF HandlerDecided
  <2>5. status[o] # "cancelled"
    BY <1>0, <1>5, <2>0 DEF CommitStatus, Current, RequestInv, CanTransition, TRANSITIONS
  <2>6. Told(o)
    BY DEF HoldingsAreDecisions
  <2>7. Told(o)'
    BY <1>1, <2>1, <2>3, <2>4, <2>5, <2>6 DEF Reserves
  <2> QED
    BY <1>0, <1>2, <2>1, <2>7
<1>6. ASSUME NEW w \in Workers, NEW d \in {"confirmed", "cancelled"}, CommitsDecision(w, d)
      PROVE  HoldingsAreDecisions'
  <2> DEFINE n == tx[w].item - 1
  <2>0. PICK o \in Orders : o = tx[w].order
    BY <1>6, DecisionTakes
  <2>1. /\ status[o] = "pending"
        /\ status' = [status EXCEPT ![o] = d]
        /\ ledger' = [ledger EXCEPT ![o] = tx[w].rows]
        /\ tx[w].rows = Decision!Taken(cart[o], n)
        /\ n \in 0..Len(cart[o])
        /\ d = "confirmed" <=> n = Len(cart[o])
    BY <1>6, <2>0, DecisionTakes
  <2>2. UNCHANGED announced /\ version' = [version EXCEPT ![o] = 2]
    BY <1>0, <1>6, <2>0, DecisionEffect
  <2> HIDE DEF n
  <2>3. announced'[o] = <<>> /\ version'[o] = 2 /\ Len(<<>>) = 0
    BY <1>0, <2>1, <2>2 DEF OrderInv
  <2>4. HandlerDecided(o)'
    BY <2>3 DEF HandlerDecided
  <2>5. status'[o] = d /\ ledger'[o] = Decision!Taken(cart[o], n)
    BY <1>0, <2>1
  <2>6. Told(o)'
    BY <1>1, <2>1, <2>3, <2>4, <2>5
  <2> QED
    BY <1>0, <1>2, <2>1, <2>2, <2>6
<1> QED
  BY <1>3, <1>4, <1>5, <1>6, OrderWriters

\* What an order holds was taken by its handler, in the one step that decided
\* it, and stays: nothing if the API moved the order first, all its lines if the
\* handler confirmed it, also when the API cancels it afterwards.
THEOREM HoldingsAreForGood == Spec => []HoldingsAreDecisions
<1>1. Init => HoldingsAreDecisions
  BY DEF Init, HoldingsAreDecisions, HandlerDecided, Reserves
<1>2. DeliveriesInv /\ LinesInv /\ HoldingsAreDecisions /\ [Next]_vars => HoldingsAreDecisions'
  BY HoldingsStep
<1> QED
  BY <1>1, <1>2, LinesAlways, PTL DEF Spec

LEMMA SumGrows ==
    ASSUME DeliveriesInv, LinesInv, [Next]_vars, NEW p \in Products
    PROVE  LedgerSum(p) \in Nat /\ LedgerSum(p)' \in Nat /\ LedgerSum(p) <= LedgerSum(p)'
<1>1. \A w \in Workers : tx[w].rows[p] \in Nat
  BY DEF DeliveriesInv, OrdersInv, TypeInv, TypeOK, Handler
<1> QED
  BY <1>1, LedgerGrows

\* A handler that was refused read a counter that the rows cover, so the rows
\* and the line it is at come to more than there is.
RefusalInv == \A w \in Workers : pc[w] = "refused" =>
    \A p \in Products : Line(w).product = p =>
        tx[w].rows[p] = 0 /\ quantity[p] < LedgerSum(p) + Line(w).quantity

LEMMA RefusalStep ==
    ASSUME DeliveriesInv, LinesInv, CountersInv, RefusalInv, [Next]_vars
    PROVE  RefusalInv'
<1> SUFFICES ASSUME NEW v \in Workers, pc'[v] = "refused",
                    NEW p \in Products, Line(v)'.product = p
             PROVE  tx'[v].rows[p] = 0 /\ quantity'[p] < LedgerSum(p)' + Line(v)'.quantity
  BY DEF RefusalInv
<1>0. /\ pc \in [Workers -> {"idle", "row", "load", "key", "read", "write", "refused"}]
      /\ quantity \in [Products -> Nat] /\ reserved \in [Products -> Nat]
      /\ TypeInv /\ ItemInRange
  BY DEF DeliveriesInv, OrdersInv, TypeInv, TypeOK
<1>1. UNCHANGED <<cart, quantity>>
  BY FixedData
<1>2. LedgerSum(p) \in Nat /\ LedgerSum(p)' \in Nat /\ LedgerSum(p) <= LedgerSum(p)'
  BY SumGrows
<1>3. ASSUME pc[v] \in {"read", "refused"}, tx'[v] = tx[v],
             Line(v).product = p =>
                 tx[v].rows[p] = 0 /\ quantity[p] < LedgerSum(p) + Line(v).quantity
      PROVE  tx'[v].rows[p] = 0 /\ quantity'[p] < LedgerSum(p)' + Line(v)'.quantity
  <2>1. Line(v)' = Line(v)
    BY <1>1, <1>3 DEF Line, Items
  <2>2. Line(v).quantity \in Nat
    BY <1>0, <1>3, LineType DEF ItemInRange, AtItem, InHandler, TypeInv
  <2>3. quantity[p] \in Nat /\ quantity'[p] = quantity[p]
    BY <1>0, <1>1
  <2> QED
    BY <1>2, <1>3, <2>1, <2>2, <2>3
<1>4. CASE pc'[v] = pc[v] /\ tx'[v] = tx[v]
  BY <1>3, <1>4 DEF RefusalInv
<1>5. CASE ReadStock(v)
  <2>1. pc[v] = "read" /\ Refused(v) /\ tx'[v] = tx[v]
    BY <1>0, <1>5 DEF ReadStock
  <2>2. Line(v).quantity \in Nat
    BY <1>0, <2>1, LineType DEF ItemInRange, AtItem, InHandler, TypeInv
  <2>3. reserved[p] <= LedgerSum(p)
    BY DEF CountersInv, CounterWithinLedger
  <2>4. ASSUME Line(v).product = p PROVE quantity[p] < LedgerSum(p) + Line(v).quantity
    <3>1. quantity[p] < reserved[p] + Line(v).quantity
      BY <2>1, <2>4 DEF Refused
    <3> QED
      BY <1>0, <1>2, <2>2, <2>3, <3>1
  <2>5. Line(v).product = p => tx[v].rows[p] = 0
    BY <2>1 DEF LinesInv
  <2> QED
    BY <1>3, <2>1, <2>4, <2>5
<1>6. CASE \/ ~Loaded(v)'
           \/ LoadOrder(v) /\ status[tx[v].order] = "pending"
           \/ FindReservation(v)
           \/ WriteReservation(v) /\ ledger[tx[v].order][Line(v).product] = 0
  BY <1>0, <1>6 DEF Loaded, LoadOrder, FindReservation, WriteReservation
<1> QED
  BY <1>0, <1>4, <1>5, <1>6, HandlerMoves

LEMMA WantStep ==
    ASSUME DeliveriesInv, LinesInv, RefusalInv, CancelledForWantOfStock, [Next]_vars
    PROVE  CancelledForWantOfStock'
<1>0. /\ status \in [Orders -> OrderStatus \union {"absent"}]
      /\ announced \in [Orders -> Seq(OrderStatus)]
      /\ ledger \in [Orders -> [Products -> Nat]]
      /\ quantity \in [Products -> Nat]
      /\ cart \in [Orders -> Carts]
      /\ \A r \in requests : r.order \in Orders /\ r.to \in OrderStatus
      /\ TypeInv /\ OrderInv /\ HandlerInv /\ ItemInRange
  BY DEF DeliveriesInv, OrdersInv, TypeInv, TypeOK, Request
<1>1. UNCHANGED <<cart, quantity>>
  BY FixedData
<1> DEFINE Short(o, i) ==
        /\ ledger[o][cart[o][i].product] = 0
        /\ quantity[cart[o][i].product] < LedgerSum(cart[o][i].product) + cart[o][i].quantity
<1>2. \A o \in Orders : \A i \in DOMAIN cart[o] : cart[o][i] \in Item
  BY <1>0, CartsAssumption
<1>3. ASSUME NEW o \in Orders, NEW i \in DOMAIN cart[o], ledger'[o][cart[o][i].product] = 0,
             quantity[cart[o][i].product]
               < LedgerSum(cart[o][i].product) + cart[o][i].quantity
      PROVE  i \in DOMAIN cart'[o] /\ Short(o, i)'
  <2>0. PICK p \in Products : p = cart[o][i].product
    BY <1>2 DEF Item
  <2>1. cart[o][i].quantity \in Nat
    BY <1>2 DEF Item
  <2>2. LedgerSum(p) \in Nat /\ LedgerSum(p)' \in Nat /\ LedgerSum(p) <= LedgerSum(p)'
    BY SumGrows
  <2>3. quantity[p] < LedgerSum(p)' + cart[o][i].quantity
    BY <1>0, <1>3, <2>0, <2>1, <2>2
  <2>4. cart'[o][i] = cart[o][i] /\ quantity'[p] = quantity[p]
    BY <1>1
  <2> QED
    BY <1>1, <1>3, <2>0, <2>3, <2>4
<1>4. ASSUME NEW q \in Orders,
             \A o \in Orders \ {q} : status'[o] = status[o] /\ announced'[o] = announced[o]
                                     /\ ledger'[o] = ledger[o],
             HandlerCancelled(q)' => \E i \in DOMAIN cart'[q] : Short(q, i)'
      PROVE  CancelledForWantOfStock'
  <2>1. ASSUME NEW o \in Orders \ {q}, HandlerCancelled(o)'
        PROVE  \E i \in DOMAIN cart'[o] : Short(o, i)'
    <3>1. HandlerCancelled(o) /\ ledger'[o] = ledger[o]
      BY <1>4, <2>1 DEF HandlerCancelled
    <3>2. PICK i \in DOMAIN cart[o] : Short(o, i)
      BY <3>1 DEF CancelledForWantOfStock
    <3> QED
      BY <1>3, <3>1, <3>2
  <2> QED
    BY <1>4, <2>1 DEF CancelledForWantOfStock
<1>5. CASE UNCHANGED <<status, version, announced, reserved, ledger>>
  <2>1. ASSUME NEW o \in Orders, HandlerCancelled(o)'
        PROVE  \E i \in DOMAIN cart'[o] : Short(o, i)'
    <3>1. HandlerCancelled(o)
      BY <1>5, <2>1 DEF HandlerCancelled
    <3>2. PICK i \in DOMAIN cart[o] : Short(o, i)
      BY <3>1 DEF CancelledForWantOfStock
    <3> QED
      BY <1>3, <1>5, <3>2
  <2> QED
    BY <2>1 DEF CancelledForWantOfStock
<1>6. ASSUME NEW o \in Orders, CreateOrder(o) PROVE CancelledForWantOfStock'
  <2>1. status' = [status EXCEPT ![o] = "pending"] /\ UNCHANGED <<announced, ledger>>
    BY <1>6 DEF CreateOrder
  <2>2. ~HandlerCancelled(o)'
    BY <1>0, <2>1 DEF HandlerCancelled
  <2> QED
    BY <1>0, <1>4, <2>1, <2>2
<1>7. ASSUME NEW r \in requests, CommitStatus(r) PROVE CancelledForWantOfStock'
  <2>1. /\ status' = [status EXCEPT ![r.order] = r.to] /\ UNCHANGED ledger
        /\ announced' = [announced EXCEPT ![r.order] = Append(@, r.to)]
    BY <1>7 DEF CommitStatus
  <2>2. announced'[r.order] # <<>>
    <3>1. announced[r.order] \in Seq(OrderStatus) /\ r.to \in OrderStatus
      BY <1>0
    <3>2. announced'[r.order] = Append(announced[r.order], r.to)
      BY <1>0, <2>1
    <3> QED
      BY <3>1, <3>2
  <2>3. ~HandlerCancelled(r.order)'
    BY <2>2 DEF HandlerCancelled
  <2> QED
    BY <1>0, <1>4, <2>1, <2>3
<1>8. ASSUME NEW w \in Workers, NEW d \in {"confirmed", "cancelled"}, CommitsDecision(w, d)
      PROVE  CancelledForWantOfStock'
  <2>0. PICK o \in Orders : o = tx[w].order
    BY <1>8, DecisionTakes
  <2>1. /\ status' = [status EXCEPT ![o] = d]
        /\ ledger' = [ledger EXCEPT ![o] = tx[w].rows]
    BY <1>8, <2>0, DecisionTakes
  <2>2. UNCHANGED announced
    BY <1>8 DEF CommitsDecision, Decide
  <2>3. ASSUME d = "cancelled" PROVE \E i \in DOMAIN cart'[o] : Short(o, i)'
    <3>1. pc[w] = "refused"
      BY <1>8, <2>3 DEF CommitsDecision, CancelOrder
    <3>2. tx[w].item \in DOMAIN cart[o] /\ Line(w) = cart[o][tx[w].item]
      BY <1>0, <2>0, <3>1 DEF ItemInRange, AtItem, Items, Line
    <3>3. /\ tx[w].rows[Line(w).product] = 0
          /\ quantity[Line(w).product] < LedgerSum(Line(w).product) + Line(w).quantity
      BY <1>0, <3>1, LineType DEF RefusalInv, ItemInRange, AtItem, InHandler, TypeInv
    <3>4. ledger'[o][Line(w).product] = 0
      BY <1>0, <2>1, <3>3
    <3> QED
      BY <1>3, <3>2, <3>3, <3>4
  <2>4. HandlerCancelled(o)' => d = "cancelled"
    BY <1>0, <2>1 DEF HandlerCancelled
  <2> QED
    BY <1>0, <1>4, <2>1, <2>2, <2>3, <2>4
<1> QED
  BY <1>5, <1>6, <1>7, <1>8, OrderWriters

\* No order is refused that could have been served: for any number of workers
\* and whatever updates the counter has lost, the order a handler cancels has a
\* line for more than the reservation rows leave of its product.
THEOREM RefusedForWant == Spec => []CancelledForWantOfStock
<1> DEFINE I == DeliveriesInv /\ LinesInv
           J == CountersInv /\ RefusalInv /\ CancelledForWantOfStock
<1>1. Init => J
  BY CountersInit DEF Init, RefusalInv, CancelledForWantOfStock, HandlerCancelled
<1>2. I /\ J /\ [Next]_vars => J'
  BY CountersStep, RefusalStep, WantStep
<1> QED
  BY <1>1, <1>2, LinesAlways, PTL DEF Spec

=============================================================================
