------------------------------ MODULE Payments ------------------------------
(* Payments of orders: requests of PaymentService running side by side, one  *)
(* SQL statement at a time.  create_payment looks for its idempotency key,   *)
(* then for an active payment of the order, then inserts; confirm, fail and  *)
(* refund check the transition on the row they read and write it under its   *)
(* version.  Each commits with the row of its event, or not at all.          *)
EXTENDS Naturals, Sequences, FiniteSets

CONSTANTS
    Creations,     \* create_payment requests; payment r is the one r makes
    Imported,      \* the status of each payment another program has recorded
    PaymentKey,    \* the (tenant, idempotency key) of each request and payment;
                   \* one that carries no key has a value of its own here
    PaymentOrder,  \* the order each request or payment is for
    MaxChanges     \* bound: status changes between their read and their commit

PaymentStatus == {"pending", "authorized", "paid", "failed", "refunded", "cancelled"}
PaymentIds == Creations \union DOMAIN Imported

ASSUME PaymentsAssumption ==
    /\ PaymentIds \subseteq Nat \ {0}
    /\ Creations \intersect DOMAIN Imported = {}
    /\ \A p \in DOMAIN Imported : Imported[p] \in PaymentStatus
    /\ DOMAIN PaymentKey = PaymentIds
    /\ \A p, q \in DOMAIN Imported : PaymentKey[p] = PaymentKey[q] => p = q
    /\ DOMAIN PaymentOrder = PaymentIds
    /\ MaxChanges \in Nat

VARIABLES
    payment,       \* payments.status, or "absent"
    payVersion,    \* payments.version_id
    payKey,        \* the unique index on the key: the payment that has it, or 0
    published,     \* the status a payment was recorded with, then those announced
    creating,      \* where each create_payment is
    payAnswer,     \* the payment it returned, 0 while none
    changes,       \* confirm, fail and refund requests that have read their payment
    raised         \* history: the events that raised a TypeError instead of a row

payDb == <<payment, payVersion, payKey, published>>
payRequests == <<creating, payAnswer>>
paymentsVars == <<payDb, payRequests, changes, raised>>

PaymentKeys == {PaymentKey[p] : p \in PaymentIds}

PaymentTransitions == [s \in PaymentStatus |->
    CASE s = "pending" -> {"authorized", "paid", "failed", "cancelled"}
      [] s = "authorized" -> {"paid", "failed", "cancelled"}
      [] s = "paid" -> {"refunded"}
      [] OTHER -> {}]

Change == [payment : PaymentIds, to : {"paid", "failed", "refunded"}, version : Nat]

\* The payments that are there were recorded by other programs: no code of this
\* one sets AUTHORIZED or CANCELLED, but the table and its transitions have them.
PaymentsInit ==
    /\ payment = [p \in PaymentIds |-> IF p \in Creations THEN "absent" ELSE Imported[p]]
    /\ payVersion = [p \in PaymentIds |-> IF p \in Creations THEN 0 ELSE 1]
    /\ payKey = [k \in PaymentKeys |->
           IF \E p \in DOMAIN Imported : PaymentKey[p] = k
           THEN CHOOSE p \in DOMAIN Imported : PaymentKey[p] = k ELSE 0]
    /\ published = [p \in PaymentIds |-> IF p \in Creations THEN <<>> ELSE <<Imported[p]>>]
    /\ creating = [r \in Creations |-> "lookup"]
    /\ payAnswer = [r \in Creations |-> 0]
    /\ changes = {}
    /\ raised = {}

-----------------------------------------------------------------------------
(* The events and OutboxStore.append.  A method constructs its event, which  *)
(* refuses arguments it has no field for, and append makes a payload of it   *)
(* that the flush encodes as JSON.                                           *)

EventOf == [pending |-> "PaymentCreated", paid |-> "PaymentSucceeded",
            failed |-> "PaymentFailed", refunded |-> "PaymentRefunded"]

\* What each event class declares, with what it inherits from DomainEvent.
Fields == LET base == {"event_id", "event_name", "occurred_at", "tenant_id"} IN
    [PaymentCreated |-> base \union {"payment_id", "order_id", "amount", "currency"},
     PaymentSucceeded |-> base \union {"payment_id", "order_id", "provider_reference"},
     PaymentFailed |-> base \union {"payment_id", "order_id", "reason"},
     PaymentRefunded |-> base \union {"payment_id", "order_id"}]

\* What each method passes.
Given == LET all == {"payment_id", "order_id", "tenant_id"} IN
    [PaymentCreated |-> all \union {"amount", "currency"},
     PaymentSucceeded |-> all \union {"provider_reference"},
     PaymentFailed |-> all \union {"reason"},
     PaymentRefunded |-> all \union {"reason"}]

FieldType(f) ==
    CASE f \in {"event_id", "tenant_id", "payment_id", "order_id"} -> "UUID"
      [] f = "occurred_at" -> "datetime"
      [] f = "amount" -> "Decimal"
      [] OTHER -> "str"

\* append turns a UUID and a datetime into text and passes on what else there is.
Serialized(type) == IF type \in {"UUID", "datetime"} THEN "str" ELSE type

\* json.dumps knows no Decimal, and the engine is given no other encoder.
Encodable(type) == type \in {"str", "int", "float", "bool", "NoneType"}

Appends(e) ==
    /\ Given[e] \subseteq Fields[e]
    /\ \A f \in Fields[e] : Encodable(Serialized(FieldType(f)))

-----------------------------------------------------------------------------
(* create_payment *)

\* The request ends with an answer, or with an error (0).
Return(r, p) ==
    /\ creating' = [creating EXCEPT ![r] = "done"]
    /\ payAnswer' = [payAnswer EXCEPT ![r] = p]

Proceed(r, to) == creating' = [creating EXCEPT ![r] = to] /\ UNCHANGED payAnswer

FindPayment(r) ==
    /\ creating[r] = "lookup"
    /\ IF payKey[PaymentKey[r]] # 0
       THEN Return(r, payKey[PaymentKey[r]])
       ELSE Proceed(r, "check")
    /\ UNCHANGED <<payDb, changes, raised>>

Active(p) == payment[p] \in {"pending", "authorized"}
ActiveOf(o) == {p \in PaymentIds : PaymentOrder[p] = o /\ Active(p)}

CheckActive(r) ==
    /\ creating[r] = "check"
    /\ IF ActiveOf(PaymentOrder[r]) # {} THEN Return(r, 0) ELSE Proceed(r, "insert")
    /\ UNCHANGED <<payDb, changes, raised>>

\* uq_payments_tenant_idempotency
KeyIsFree(r) == payKey[PaymentKey[r]] = 0

\* The INSERT, which the unique key may refuse, then the PaymentCreated event and
\* the commit, which rolls back if the event has no row; the answer may be lost.
InsertPayment(r) ==
    /\ creating[r] = "insert"
    /\ IF KeyIsFree(r) /\ Appends("PaymentCreated")
       THEN /\ payment' = [payment EXCEPT ![r] = "pending"]
            /\ payVersion' = [payVersion EXCEPT ![r] = 1]
            /\ payKey' = [payKey EXCEPT ![PaymentKey[r]] = r]
            /\ published' = [published EXCEPT ![r] = <<"pending">>]
            /\ \E answered \in {r, 0} : Return(r, answered)
       ELSE Return(r, 0) /\ UNCHANGED payDb
    /\ raised' = IF KeyIsFree(r) /\ ~Appends("PaymentCreated")
                 THEN raised \union {"PaymentCreated"} ELSE raised
    /\ UNCHANGED changes

\* The process or its connection fails: rollback.
AbandonPayment(r) ==
    /\ creating[r] # "done"
    /\ Return(r, 0)
    /\ UNCHANGED <<payDb, changes, raised>>

CreatePayment(r) ==
    FindPayment(r) \/ CheckActive(r) \/ InsertPayment(r) \/ AbandonPayment(r)

-----------------------------------------------------------------------------
(* confirm_payment, fail_payment, refund_payment *)

\* The payment is read and the transition checked on what was read; a
\* transition that is not allowed ends the request with nothing changed.
ReadPayment(p, to) ==
    /\ payment[p] # "absent"
    /\ to \in PaymentTransitions[payment[p]]
    /\ Cardinality(changes) < MaxChanges
    /\ changes' = changes \union {[payment |-> p, to |-> to, version |-> payVersion[p]]}
    /\ UNCHANGED <<payDb, payRequests, raised>>

ConfirmPayment(p) == ReadPayment(p, "paid")
FailPayment(p) == ReadPayment(p, "failed")
RefundPayment(p) == ReadPayment(p, "refunded")

\* Mutant of Unchanged: the UPDATE does not name the version.
UnchangedUnchecked(c) == TRUE

Unchanged(c) == payVersion[c.payment] = c.version

\* The event, then the versioned UPDATE and the commit; an event that cannot be
\* appended or a StaleDataError rolls back.
WritePayment(c) ==
    /\ changes' = changes \ {c}
    /\ IF Appends(EventOf[c.to]) /\ Unchanged(c)
       THEN /\ payment' = [payment EXCEPT ![c.payment] = c.to]
            /\ payVersion' = [payVersion EXCEPT ![c.payment] = @ + 1]
            /\ published' = [published EXCEPT ![c.payment] = Append(@, c.to)]
            /\ UNCHANGED payKey
       ELSE UNCHANGED payDb
    /\ raised' = IF Appends(EventOf[c.to]) THEN raised ELSE raised \union {EventOf[c.to]}
    /\ UNCHANGED payRequests

PaymentsNext ==
    \/ \E r \in Creations : CreatePayment(r)
    \/ \E p \in PaymentIds : ConfirmPayment(p) \/ FailPayment(p) \/ RefundPayment(p)
    \/ \E c \in changes : WritePayment(c)

PaymentsSpec == PaymentsInit /\ [][PaymentsNext]_paymentsVars

-----------------------------------------------------------------------------
(* Properties *)

\* Every variable has its type.
PaymentsTypeOK ==
    /\ payment \in [PaymentIds -> PaymentStatus \union {"absent"}]
    /\ payVersion \in [PaymentIds -> Nat]
    /\ payKey \in [PaymentKeys -> PaymentIds \union {0}]
    /\ published \in [PaymentIds -> Seq(PaymentStatus)]
    /\ creating \in [Creations -> {"lookup", "check", "insert", "done"}]
    /\ payAnswer \in [Creations -> PaymentIds \union {0}]
    /\ changes \in SUBSET Change
    /\ raised \in SUBSET {EventOf[s] : s \in DOMAIN EventOf}

\* What is announced of a payment follows the transition table from the status it
\* was recorded with to the present one, one event per version, although every
\* change was checked on a copy another request may have changed since.  In
\* particular no payment is announced paid twice, or both paid and failed.
PublishedTellsStatus ==
    \A p \in PaymentIds :
        /\ Len(published[p]) = payVersion[p]
        /\ payment[p] # "absent" =>
              /\ published[p][Len(published[p])] = payment[p]
              /\ \A i \in 2..Len(published[p]) :
                     published[p][i] \in PaymentTransitions[published[p][i - 1]]

\* A creation or a refund commits with its event row, as the docs say of both:
\* what the methods pass to the two events can be appended at least for one.  The
\* code violates it: PaymentCreated carries a Decimal and PaymentRefunded has no
\* field for the reason it is given.
CreationOrRefundCommits == ~({"PaymentCreated", "PaymentRefunded"} \subseteq raised)

=============================================================================
