--------------------------- MODULE OrderCreation ---------------------------
(* create_order requests running side by side while products are offered,    *)
(* withdrawn and priced.  A request looks for its idempotency key, checks    *)
(* its lines one statement after the other, and inserts the order with its   *)
(* lines and its OrderCreated event in one commit, which makes it an order   *)
(* of module Fulfilment.                                                     *)
EXTENDS Naturals, Sequences

CONSTANTS
    OrderRequests,  \* the order request r makes is r
    OrderKey,       \* the idempotency key of each; one without has its own
    OrderTenant,    \* the tenant of each
    OrderLines,     \* the items of each: sequences of [product, quantity]
    Offers          \* products

ASSUME OrderCreationAssumption ==
    /\ OrderRequests \subseteq Nat \ {0}
    /\ DOMAIN OrderKey = OrderRequests
    /\ OrderLines \in [OrderRequests -> Seq([product : Offers, quantity : Nat])]

VARIABLES
    offered,    \* products that are active and not deleted
    priced,     \* products with a row in product_pricing
    orderKey,   \* the unique index on orders.idempotency_key: the order, or 0
    ordering,   \* where each request is
    line,       \* the line it checks
    orderAnswer,\* the order it returned, 0 while none
    withdrawn   \* history: products not offered at any time since it looked

orderRequestVars == <<ordering, line, orderAnswer>>
orderCreationVars == <<offered, priced, orderKey, orderRequestVars, withdrawn>>

OrderKeys == {OrderKey[r] : r \in OrderRequests}

OrderCreationInit ==
    /\ offered = Offers
    /\ priced = {}
    /\ orderKey = [k \in OrderKeys |-> 0]
    /\ ordering = [r \in OrderRequests |-> "lookup"]
    /\ line = [r \in OrderRequests |-> 1]
    /\ orderAnswer = [r \in OrderRequests |-> 0]
    /\ withdrawn = [r \in OrderRequests |-> {}]

-----------------------------------------------------------------------------
(* The products, as the catalog and the handlers of ProductCreated leave them *)

Price(p) ==
    /\ p \notin priced
    /\ priced' = priced \union {p}
    /\ UNCHANGED <<offered, orderKey, orderRequestVars, withdrawn>>

Offer(p) ==
    /\ p \notin offered
    /\ offered' = offered \union {p}
    /\ withdrawn' = [r \in OrderRequests |-> withdrawn[r] \ {p}]
    /\ UNCHANGED <<priced, orderKey, orderRequestVars>>

Withdraw(p) ==
    /\ p \in offered
    /\ offered' = offered \ {p}
    /\ UNCHANGED <<priced, orderKey, orderRequestVars, withdrawn>>

-----------------------------------------------------------------------------
(* create_order *)

ReturnOrder(r, o) ==
    /\ ordering' = [ordering EXCEPT ![r] = "done"]
    /\ orderAnswer' = [orderAnswer EXCEPT ![r] = o]
    /\ UNCHANGED line

\* Mutant of FoundOrder: the lookup is over all tenants.
FoundOrderAnywhere(r) == orderKey[OrderKey[r]] # 0

\* The lookup is within the tenant of the request.
FoundOrder(r) ==
    /\ orderKey[OrderKey[r]] # 0
    /\ OrderTenant[orderKey[OrderKey[r]]] = OrderTenant[r]

\* An empty list of items is a ValueError.
FindOrder(r) ==
    /\ ordering[r] = "lookup"
    /\ IF FoundOrder(r) \/ OrderLines[r] = <<>>
       THEN ReturnOrder(r, IF FoundOrder(r) THEN orderKey[OrderKey[r]] ELSE 0)
       ELSE /\ ordering' = [ordering EXCEPT ![r] = "product"]
            /\ UNCHANGED <<line, orderAnswer>>
    /\ withdrawn' = [withdrawn EXCEPT ![r] = Offers \ offered]
    /\ UNCHANGED <<offered, priced, orderKey>>

ThisLine(r) == OrderLines[r][line[r]]

\* What the snapshots of the product and of its price find.
Offered(r) == ThisLine(r).product \in offered
Priced(r) == ThisLine(r).product \in priced

\* The quantity is checked and the product read: refused if it is below 1,
\* or if the product is gone or not active.
CheckProduct(r) ==
    /\ ordering[r] = "product"
    /\ IF ThisLine(r).quantity >= 1 /\ Offered(r)
       THEN /\ ordering' = [ordering EXCEPT ![r] = "price"]
            /\ UNCHANGED <<line, orderAnswer>>
       ELSE ReturnOrder(r, 0)
    /\ UNCHANGED <<offered, priced, orderKey, withdrawn>>

\* Mutant of NextStep: only the first line is checked.
NextStepFirst(r) == "insert"

NextStep(r) == IF line[r] = Len(OrderLines[r]) THEN "insert" ELSE "product"

\* The price is read (and the stock, for its SKU only).
CheckPrice(r) ==
    /\ ordering[r] = "price"
    /\ IF Priced(r)
       THEN /\ ordering' = [ordering EXCEPT ![r] = NextStep(r)]
            /\ line' = [line EXCEPT ![r] = IF NextStep(r) = "product" THEN @ + 1 ELSE @]
            /\ UNCHANGED orderAnswer
       ELSE ReturnOrder(r, 0)
    /\ UNCHANGED <<offered, priced, orderKey, withdrawn>>

\* Mutant of OrderKeyIsFree: the column is not unique.
OrderKeyIsFreeAlways(r) == TRUE

\* The column is unique over all tenants.
OrderKeyIsFree(r) == orderKey[OrderKey[r]] = 0

\* The INSERTs, the event and the commit; the answer may be lost.
InsertOrder(r) ==
    /\ ordering[r] = "insert"
    /\ IF OrderKeyIsFree(r)
       THEN /\ orderKey' = [orderKey EXCEPT ![OrderKey[r]] = r]
            /\ \E answered \in {r, 0} : ReturnOrder(r, answered)
       ELSE ReturnOrder(r, 0) /\ UNCHANGED orderKey
    /\ UNCHANGED <<offered, priced, withdrawn>>

AbandonOrder(r) ==
    /\ ordering[r] # "done"
    /\ ReturnOrder(r, 0)
    /\ UNCHANGED <<offered, priced, orderKey, withdrawn>>

PlaceOrder(r) ==
    \/ FindOrder(r) \/ CheckProduct(r) \/ CheckPrice(r)
    \/ InsertOrder(r) \/ AbandonOrder(r)

OrderCreationNext ==
    \/ \E p \in Offers : Price(p) \/ Offer(p) \/ Withdraw(p)
    \/ \E r \in OrderRequests : PlaceOrder(r)

OrderCreationSpec == OrderCreationInit /\ [][OrderCreationNext]_orderCreationVars

-----------------------------------------------------------------------------
(* Properties *)

\* Every variable has its type.
OrderCreationTypeOK ==
    /\ offered \in SUBSET Offers
    /\ priced \in SUBSET Offers
    /\ orderKey \in [OrderKeys -> OrderRequests \union {0}]
    /\ ordering \in [OrderRequests -> {"lookup", "product", "price", "insert", "done"}]
    /\ line \in [OrderRequests -> Nat \ {0}]
    /\ orderAnswer \in [OrderRequests -> OrderRequests \union {0}]
    /\ withdrawn \in [OrderRequests -> SUBSET Offers]

\* An order that was placed is one Fulfilment may start from (a non-empty cart,
\* quantities of at least 1), priced in full, and none of its products was
\* withdrawn all the while its request ran, although the lines are checked one
\* by one and products come and go in between.
Placed(r) == orderKey[OrderKey[r]] = r
PlacedOrdersAreSound ==
    \A r \in OrderRequests : Placed(r) =>
        /\ OrderLines[r] # <<>>
        /\ \A i \in DOMAIN OrderLines[r] :
               /\ OrderLines[r][i].quantity >= 1
               /\ OrderLines[r][i].product \in priced \ withdrawn[r]

\* No request is answered with an order of another tenant, although the keys
\* of all tenants share one index.
AnswersStayInTenant ==
    \A r \in OrderRequests :
        orderAnswer[r] # 0 => OrderTenant[orderAnswer[r]] = OrderTenant[r]

\* Requests with one key make one order, and every answer names it.
KeyedOrders == INSTANCE KeyedCreate WITH
    Requests <- OrderRequests, KeyOf <- OrderKey,
    holder <- orderKey, answer <- orderAnswer
OrdersImplementKeyedCreate == KeyedOrders!Spec

=============================================================================
