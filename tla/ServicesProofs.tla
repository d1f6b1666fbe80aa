--------------------------- MODULE ServicesProofs ---------------------------
(* Theorems about Payments, OrderCreation and Accounts: for every number of  *)
(* requests, creations and flows, every set of keys, tenants, emails and     *)
(* lines, and every interleaving of their statements.  For each of the three *)
(* an inductive invariant and the properties it implies; for orders and      *)
(* accounts the refinement of KeyedCreate and the idempotency it brings.  At *)
(* the end, the run of all services, whose behaviours are those of the seven *)
(* modules.                                                                  *)
EXTENDS MCServices, CatalogProofs, InventoryLedgerProofs, StartUpProofs, TLAPS

-----------------------------------------------------------------------------
(* Payments.  The inductive invariant adds to the types what a request still *)
(* knows of the database when it acts: an unfinished creation has made       *)
(* nothing, and a checked change is allowed as long as the version it names  *)
(* is the present one.                                                       *)

\* A creation that has not ended has made no payment.
UnfinishedMadeNothing ==
    \A r \in Creations : creating[r] # "done" => payment[r] = "absent"

\* A payment that is there has a version.
MadeIsVersioned == \A p \in PaymentIds : payment[p] # "absent" => payVersion[p] >= 1

\* A change between its read and its write names a version the payment has had,
\* and is allowed from the present status if that version is the present one.
ChangesAreChecked ==
    \A c \in changes :
        /\ payment[c.payment] # "absent"
        /\ c.version <= payVersion[c.payment]
        /\ Unchanged(c) => c.to \in PaymentTransitions[payment[c.payment]]

PaymentsInv ==
    /\ PaymentsTypeOK
    /\ UnfinishedMadeNothing
    /\ MadeIsVersioned
    /\ ChangesAreChecked
    /\ PublishedTellsStatus

-----------------------------------------------------------------------------
(* The initial state *)

\* Every transition is between statuses.
LEMMA TransitionTable == \A s \in PaymentStatus : PaymentTransitions[s] \subseteq PaymentStatus
  BY DEF PaymentStatus, PaymentTransitions

\* The initial state satisfies the invariant.
LEMMA PaymentInitInv == PaymentsInit => PaymentsInv
  <1> SUFFICES ASSUME PaymentsInit PROVE PaymentsInv
    OBVIOUS
  <1> USE PaymentsAssumption DEF PaymentIds
  <1>1. PaymentsTypeOK
    <2>1. payment \in [PaymentIds -> PaymentStatus \union {"absent"}]
      BY DEF PaymentsInit
    <2>2. payVersion \in [PaymentIds -> Nat]
      BY DEF PaymentsInit
    <2>3. payKey \in [PaymentKeys -> PaymentIds \union {0}]
      BY DEF PaymentsInit, PaymentKeys
    <2>4. published \in [PaymentIds -> Seq(PaymentStatus)]
      <3>1. \A p \in DOMAIN Imported : <<Imported[p]>> \in Seq(PaymentStatus)
        OBVIOUS
      <3>2. <<>> \in Seq(PaymentStatus)
        OBVIOUS
      <3>3. published = [p \in PaymentIds |-> IF p \in Creations THEN <<>> ELSE <<Imported[p]>>]
        BY DEF PaymentsInit
      <3> QED
        BY <3>1, <3>2, <3>3
    <2>5. /\ creating \in [Creations -> {"lookup", "check", "insert", "done"}]
          /\ payAnswer \in [Creations -> PaymentIds \union {0}]
          /\ changes \in SUBSET Change
          /\ raised \in SUBSET {EventOf[s] : s \in DOMAIN EventOf}
      BY DEF PaymentsInit
    <2> QED
      BY <2>1, <2>2, <2>3, <2>4, <2>5 DEF PaymentsTypeOK
  <1>2. UnfinishedMadeNothing /\ MadeIsVersioned /\ ChangesAreChecked
    BY DEF PaymentsInit, UnfinishedMadeNothing, MadeIsVersioned, ChangesAreChecked
  <1>3. PublishedTellsStatus
    <2> SUFFICES ASSUME NEW p \in PaymentIds
                 PROVE  /\ Len(published[p]) = payVersion[p]
                        /\ payment[p] # "absent" =>
                              /\ published[p][Len(published[p])] = payment[p]
                              /\ \A i \in 2..Len(published[p]) :
                                     published[p][i] \in
                                         PaymentTransitions[published[p][i - 1]]
      BY DEF PublishedTellsStatus
    <2>1. CASE p \in Creations
      <3>1. published[p] = <<>> /\ payVersion[p] = 0 /\ payment[p] = "absent"
        BY <2>1 DEF PaymentsInit
      <3> QED
        BY <3>1
    <2>2. CASE p \notin Creations
      <3>1. published[p] = <<Imported[p]>> /\ payVersion[p] = 1 /\ payment[p] = Imported[p]
        BY <2>2 DEF PaymentsInit
      <3>2. Len(<<Imported[p]>>) = 1 /\ <<Imported[p]>>[1] = Imported[p] /\ 2..1 = {}
        OBVIOUS
      <3> QED
        BY <3>1, <3>2
    <2> QED
      BY <2>1, <2>2
  <1> QED
    BY <1>1, <1>2, <1>3 DEF PaymentsInv

-----------------------------------------------------------------------------
(* Types *)

\* Changing one value of a function keeps its type.
LEMMA ExceptType ==
    ASSUME NEW S, NEW T, NEW f \in [S -> T], NEW x \in S, NEW y \in T
    PROVE  [f EXCEPT ![x] = y] \in [S -> T]
  OBVIOUS

\* Every step keeps the types.
LEMMA PaymentStepTypes == PaymentsTypeOK /\ [PaymentsNext]_paymentsVars => PaymentsTypeOK'
  <1> SUFFICES ASSUME PaymentsTypeOK, [PaymentsNext]_paymentsVars
               PROVE  PaymentsTypeOK'
    OBVIOUS
  <1> USE PaymentsAssumption DEF PaymentsTypeOK, payDb, payRequests
  <1>0. Creations \subseteq PaymentIds
    BY DEF PaymentIds
  <1>1. ASSUME NEW r \in Creations, FindPayment(r)
        PROVE  PaymentsTypeOK'
    <2>1. payKey[PaymentKey[r]] \in PaymentIds \union {0}
      <3>1. PaymentKey[r] \in PaymentKeys
        BY <1>0 DEF PaymentKeys
      <3> QED
        BY <3>1
    <2>2. /\ creating' \in [Creations -> {"lookup", "check", "insert", "done"}]
          /\ payAnswer' \in [Creations -> PaymentIds \union {0}]
      BY <1>1, <2>1 DEF FindPayment, Return, Proceed
    <2>3. QED
      BY <1>1, <2>2 DEF FindPayment
  <1>2. ASSUME NEW r \in Creations, CheckActive(r)
        PROVE  PaymentsTypeOK'
    BY <1>2 DEF CheckActive, Return, Proceed
  <1>3. ASSUME NEW r \in Creations, InsertPayment(r)
        PROVE  PaymentsTypeOK'
    <2>1. r \in PaymentIds /\ PaymentKey[r] \in PaymentKeys /\ <<"pending">> \in Seq(PaymentStatus)
      BY <1>0 DEF PaymentKeys, PaymentStatus
    <2>2. published' \in [PaymentIds -> Seq(PaymentStatus)]
      <3>1. [published EXCEPT ![r] = <<"pending">>] \in [PaymentIds -> Seq(PaymentStatus)]
        BY <2>1, ExceptType, Zenon
      <3>2. QED
        BY <1>3, <3>1, Zenon DEF InsertPayment
    <2>3. /\ payment' \in [PaymentIds -> PaymentStatus \union {"absent"}]
          /\ payVersion' \in [PaymentIds -> Nat]
          /\ payKey' \in [PaymentKeys -> PaymentIds \union {0}]
      BY <1>3, <2>1 DEF InsertPayment, PaymentStatus
    <2>4. /\ creating' \in [Creations -> {"lookup", "check", "insert", "done"}]
          /\ payAnswer' \in [Creations -> PaymentIds \union {0}]
          /\ UNCHANGED changes
      BY <1>3, <2>1 DEF InsertPayment, Return
    <2>5. raised' \in SUBSET {EventOf[s] : s \in DOMAIN EventOf}
      <3>1. "PaymentCreated" \in {EventOf[s] : s \in DOMAIN EventOf}
        BY DEF EventOf
      <3> QED
        BY <1>3, <3>1 DEF InsertPayment
    <2>6. QED
      BY <2>2, <2>3, <2>4, <2>5
  <1>4. ASSUME NEW r \in Creations, AbandonPayment(r)
        PROVE  PaymentsTypeOK'
    BY <1>4 DEF AbandonPayment, Return
  <1>5. ASSUME NEW p \in PaymentIds, NEW to \in {"paid", "failed", "refunded"},
               ReadPayment(p, to)
        PROVE  PaymentsTypeOK'
    <2>1. [payment |-> p, to |-> to, version |-> payVersion[p]] \in Change
      BY DEF Change
    <2>2. QED
      BY <1>5, <2>1 DEF ReadPayment
  <1>6. ASSUME NEW c \in changes, WritePayment(c)
        PROVE  PaymentsTypeOK'
    <2>1. c.payment \in PaymentIds /\ c.to \in PaymentStatus
      BY DEF Change, PaymentStatus
    <2>2. Append(published[c.payment], c.to) \in Seq(PaymentStatus)
      <3>1. published \in [PaymentIds -> Seq(PaymentStatus)]
        OBVIOUS
      <3> HIDE DEF PaymentsTypeOK
      <3>2. published[c.payment] \in Seq(PaymentStatus)
        BY <2>1, <3>1
      <3> QED
        BY <2>1, <3>2
    <2>3. published' \in [PaymentIds -> Seq(PaymentStatus)]
      <3>1. [published EXCEPT ![c.payment] = Append(published[c.payment], c.to)]
                \in [PaymentIds -> Seq(PaymentStatus)]
        BY <2>1, <2>2, ExceptType, Zenon
      <3>2. QED
        BY <1>6, <3>1, Zenon DEF WritePayment
    <2>4. /\ payment' \in [PaymentIds -> PaymentStatus \union {"absent"}]
          /\ payVersion' \in [PaymentIds -> Nat]
          /\ UNCHANGED <<payKey, payRequests>>
          /\ changes' \in SUBSET Change
      <3>1. \/ UNCHANGED <<payment, payVersion>>
            \/ /\ payment' = [payment EXCEPT ![c.payment] = c.to]
               /\ payVersion' = [payVersion EXCEPT ![c.payment] = payVersion[c.payment] + 1]
        BY <1>6 DEF WritePayment
      <3>2. UNCHANGED <<payKey, payRequests>> /\ changes' \in SUBSET Change
        BY <1>6 DEF WritePayment
      <3> QED
        BY <2>1, <3>1, <3>2
    <2>5. raised' \in SUBSET {EventOf[s] : s \in DOMAIN EventOf}
      <3>1. c.to \in DOMAIN EventOf
        BY DEF Change, EventOf
      <3> QED
        BY <1>6, <3>1 DEF WritePayment
    <2>6. QED
      BY <2>3, <2>4, <2>5
  <1>7. CASE UNCHANGED paymentsVars
    BY <1>7 DEF paymentsVars
  <1>8. QED
    BY <1>1, <1>2, <1>3, <1>4, <1>5, <1>6, <1>7
    DEF PaymentsNext, CreatePayment, ConfirmPayment, FailPayment, RefundPayment

-----------------------------------------------------------------------------
(* The inductive step, one lemma for each kind of action *)

\* A step of a creation that makes no payment keeps the invariant.
LEMMA PaymentLookKeepsInv ==
    ASSUME PaymentsInv, PaymentsTypeOK', NEW r \in Creations,
           FindPayment(r) \/ CheckActive(r) \/ AbandonPayment(r)
    PROVE  PaymentsInv'
  <1> USE DEF PaymentsInv, payDb
  <1>1. /\ UNCHANGED <<payment, payVersion, published, changes>>
        /\ creating[r] # "done"
    BY DEF FindPayment, CheckActive, AbandonPayment
  <1>2. \A q \in Creations \ {r} : creating'[q] = creating[q]
    BY DEF FindPayment, CheckActive, AbandonPayment, Return, Proceed, PaymentsTypeOK
  <1>3. UnfinishedMadeNothing'
    BY <1>1, <1>2 DEF UnfinishedMadeNothing
  <1>4. ChangesAreChecked' /\ MadeIsVersioned'
    BY <1>1 DEF ChangesAreChecked, MadeIsVersioned, Unchanged
  <1>5. PublishedTellsStatus'
    BY <1>1 DEF PublishedTellsStatus
  <1>6. QED
    BY <1>3, <1>4, <1>5

\* The insertion of a payment, were its event appended, would start its history;
\* no change can have read it before.
LEMMA PaymentInsertKeepsInv ==
    ASSUME PaymentsInv, PaymentsTypeOK', NEW r \in Creations, InsertPayment(r)
    PROVE  PaymentsInv'
  <1> USE DEF PaymentsInv, payDb
  <1>1. /\ creating[r] = "insert" /\ payment[r] = "absent" /\ r \in PaymentIds
        /\ UNCHANGED changes
        /\ creating'[r] = "done"
        /\ \A q \in Creations \ {r} : creating'[q] = creating[q]
    BY DEF InsertPayment, Return, PaymentsTypeOK, UnfinishedMadeNothing, PaymentIds
  <1>2. CASE KeyIsFree(r) /\ Appends("PaymentCreated")
    <2>1. /\ payment'[r] = "pending" /\ payVersion'[r] = 1
          /\ published' = [published EXCEPT ![r] = <<"pending">>]
          /\ \A p \in PaymentIds \ {r} :
                payment'[p] = payment[p] /\ payVersion'[p] = payVersion[p]
      BY <1>1, <1>2 DEF InsertPayment, PaymentsTypeOK
    <2>2. /\ published'[r] = <<"pending">>
          /\ \A p \in PaymentIds \ {r} : published'[p] = published[p]
      BY <1>1, <2>1 DEF PaymentsTypeOK
    <2>3. UnfinishedMadeNothing' /\ MadeIsVersioned'
      BY <1>1, <2>1 DEF UnfinishedMadeNothing, MadeIsVersioned, PaymentIds
    <2>4. ChangesAreChecked'
      <3>1. \A c \in changes : c.payment \in PaymentIds \ {r}
        BY <1>1 DEF ChangesAreChecked, PaymentsTypeOK, Change
      <3>2. QED
        BY <1>1, <2>1, <3>1 DEF ChangesAreChecked, Unchanged
    <2>5. PublishedTellsStatus'
      <3> SUFFICES ASSUME NEW p \in PaymentIds
                   PROVE  /\ Len(published'[p]) = payVersion'[p]
                          /\ payment'[p] # "absent" =>
                                /\ published'[p][Len(published'[p])] = payment'[p]
                                /\ \A i \in 2..Len(published'[p]) :
                                       published'[p][i] \in
                                           PaymentTransitions[published'[p][i - 1]]
        BY DEF PublishedTellsStatus
      <3>1. CASE p = r
        <4>1. Len(<<"pending">>) = 1 /\ <<"pending">>[1] = "pending" /\ 2..1 = {}
          OBVIOUS
        <4>2. QED
          BY <2>1, <2>2, <3>1, <4>1
      <3>2. CASE p # r
        BY <2>1, <2>2, <3>2 DEF PublishedTellsStatus
      <3>3. QED
        BY <3>1, <3>2
    <2>6. QED
      BY <2>3, <2>4, <2>5
  <1>3. CASE ~(KeyIsFree(r) /\ Appends("PaymentCreated"))
    <2>1. UNCHANGED <<payment, payVersion, published>>
      BY <1>3 DEF InsertPayment
    <2>2. UnfinishedMadeNothing' /\ MadeIsVersioned' /\ ChangesAreChecked'
      BY <1>1, <2>1 DEF UnfinishedMadeNothing, MadeIsVersioned, ChangesAreChecked, Unchanged
    <2>3. PublishedTellsStatus'
      BY <2>1 DEF PublishedTellsStatus
    <2>4. QED
      BY <2>2, <2>3
  <1>4. QED
    BY <1>2, <1>3

\* A request that has checked its change records the version it has read.
LEMMA PaymentReadKeepsInv ==
    ASSUME PaymentsInv, PaymentsTypeOK', NEW p \in PaymentIds,
           NEW to \in {"paid", "failed", "refunded"}, ReadPayment(p, to)
    PROVE  PaymentsInv'
  <1> USE DEF PaymentsInv, payDb, payRequests
  <1>1. UNCHANGED <<payment, payVersion, published, creating>>
    BY DEF ReadPayment
  <1>2. UnfinishedMadeNothing' /\ MadeIsVersioned'
    BY <1>1 DEF UnfinishedMadeNothing, MadeIsVersioned
  <1>3. PublishedTellsStatus'
    BY <1>1 DEF PublishedTellsStatus
  <1>4. ChangesAreChecked'
    <2> DEFINE new == [payment |-> p, to |-> to, version |-> payVersion[p]]
    <2>1. /\ payment[p] # "absent" /\ to \in PaymentTransitions[payment[p]]
          /\ changes' = changes \union {new} /\ payVersion[p] \in Nat
      BY DEF ReadPayment, PaymentsTypeOK
    <2>2. new.payment = p /\ new.to = to /\ new.version = payVersion[p]
      OBVIOUS
    <2>3. new.version <= payVersion[new.payment]
      BY <2>1, <2>2
    <2> HIDE DEF new
    <2>4. QED
      BY <1>1, <2>1, <2>2, <2>3 DEF ChangesAreChecked, Unchanged
  <1>5. QED
    BY <1>2, <1>3, <1>4

\* The write: its version is the one that was read, so the status is, and the
\* transition that was checked is the one that is made.
LEMMA PaymentWriteKeepsInv ==
    ASSUME PaymentsInv, PaymentsTypeOK', NEW c \in changes, WritePayment(c)
    PROVE  PaymentsInv'
  <1> USE DEF PaymentsInv, payDb, payRequests
  <1> DEFINE x == c.payment
  <1>1. /\ x \in PaymentIds /\ c.to \in PaymentStatus /\ payment[x] \in PaymentStatus
        /\ UNCHANGED creating
        /\ changes' \subseteq changes
    BY DEF WritePayment, ChangesAreChecked, PaymentsTypeOK, Change, PaymentStatus
  <1>2. CASE Appends(EventOf[c.to]) /\ Unchanged(c)
    <2>1. c.to \in PaymentTransitions[payment[x]]
      BY <1>2 DEF ChangesAreChecked
    <2>2. /\ payment'[x] = c.to /\ payVersion'[x] = payVersion[x] + 1
          /\ published' = [published EXCEPT ![x] = Append(published[x], c.to)]
          /\ \A p \in PaymentIds \ {x} :
                payment'[p] = payment[p] /\ payVersion'[p] = payVersion[p]
      BY <1>1, <1>2 DEF WritePayment, PaymentsTypeOK
    <2>3. /\ published'[x] = Append(published[x], c.to)
          /\ \A p \in PaymentIds \ {x} : published'[p] = published[p]
      BY <1>1, <2>2 DEF PaymentsTypeOK
    <2>4. c.to # "absent" /\ payment[x] # "absent"
      BY <1>1 DEF PaymentStatus
    <2>6. UnfinishedMadeNothing' /\ MadeIsVersioned'
      <3>1. payVersion[x] \in Nat
        BY <1>1 DEF PaymentsTypeOK
      <3>2. MadeIsVersioned'
        BY <2>2, <3>1 DEF MadeIsVersioned
      <3>3. UnfinishedMadeNothing'
        BY <1>1, <2>2, <2>4 DEF UnfinishedMadeNothing, PaymentIds
      <3>4. QED
        BY <3>2, <3>3
    <2>7. ChangesAreChecked'
      <3> SUFFICES ASSUME NEW d \in changes
                   PROVE  /\ payment'[d.payment] # "absent"
                          /\ d.version <= payVersion'[d.payment]
                          /\ payVersion'[d.payment] = d.version =>
                                 d.to \in PaymentTransitions[payment'[d.payment]]
        BY <1>1 DEF ChangesAreChecked, Unchanged
      <3>1. d.payment \in PaymentIds /\ d.version \in Nat
        BY DEF PaymentsTypeOK, Change
      <3>2. CASE d.payment # x
        BY <2>2, <3>1, <3>2 DEF ChangesAreChecked, Unchanged
      <3>3. CASE d.payment = x
        <4>1. d.version <= payVersion[x] /\ payVersion[x] \in Nat
          BY <1>1, <3>3 DEF ChangesAreChecked, PaymentsTypeOK
        <4>2. QED
          BY <2>2, <2>4, <3>1, <3>3, <4>1
      <3>4. QED
        BY <3>2, <3>3
    <2>9. PublishedTellsStatus'
      <3> SUFFICES ASSUME NEW p \in PaymentIds
                   PROVE  /\ Len(published'[p]) = payVersion'[p]
                          /\ payment'[p] # "absent" =>
                                /\ published'[p][Len(published'[p])] = payment'[p]
                                /\ \A i \in 2..Len(published'[p]) :
                                       published'[p][i] \in
                                           PaymentTransitions[published'[p][i - 1]]
        BY DEF PublishedTellsStatus
      <3>1. CASE p # x
        BY <2>2, <2>3, <3>1 DEF PublishedTellsStatus
      <3>2. CASE p = x
        <4> DEFINE s == published[x]
        <4>1. /\ s \in Seq(PaymentStatus) /\ Len(s) = payVersion[x]
              /\ s[Len(s)] = payment[x] /\ Len(s) >= 1
              /\ \A i \in 2..Len(s) : s[i] \in PaymentTransitions[s[i - 1]]
          BY <1>1, <2>4 DEF PublishedTellsStatus, PaymentsTypeOK, MadeIsVersioned
        <4> HIDE DEF s
        <4> DEFINE t == Append(s, c.to)
        <4>2. /\ Len(t) = Len(s) + 1 /\ t[Len(t)] = c.to
              /\ \A i \in 1..Len(s) : t[i] = s[i]
          BY <1>1, <4>1
        <4> HIDE DEF t
        <4>3. \A i \in 2..Len(t) : t[i] \in PaymentTransitions[t[i - 1]]
          <5> SUFFICES ASSUME NEW i \in 2..Len(t)
                       PROVE  t[i] \in PaymentTransitions[t[i - 1]]
            OBVIOUS
          <5>1. Len(s) \in Nat /\ i - 1 \in 1..Len(s) /\ t[i - 1] = s[i - 1]
            BY <4>1, <4>2
          <5>2. CASE i = Len(t)
            <6>1. i - 1 = Len(s) /\ t[i] = c.to
              BY <4>2, <5>1, <5>2
            <6>2. t[i - 1] = payment[x]
              BY <4>1, <5>1, <6>1
            <6>3. QED
              BY <2>1, <6>1, <6>2
          <5>3. CASE i # Len(t)
            <6>1. i \in 2..Len(s) /\ t[i] = s[i]
              BY <4>2, <5>1, <5>3
            <6>2. QED
              BY <4>1, <5>1, <6>1
          <5>4. QED
            BY <5>2, <5>3
        <4>4. published'[x] = t
          BY <2>3 DEF s, t
        <4>5. QED
          BY <1>1, <2>2, <3>2, <4>1, <4>2, <4>3, <4>4
      <3>3. QED
        BY <3>1, <3>2
    <2>10. QED
      BY <2>6, <2>7, <2>9
  <1>3. CASE ~(Appends(EventOf[c.to]) /\ Unchanged(c))
    <2>1. UNCHANGED <<payment, payVersion, published>>
      BY <1>3 DEF WritePayment
    <2>2. UnfinishedMadeNothing' /\ MadeIsVersioned' /\ ChangesAreChecked'
      BY <1>1, <2>1 DEF UnfinishedMadeNothing, MadeIsVersioned, ChangesAreChecked, Unchanged
    <2>3. PublishedTellsStatus'
      BY <2>1 DEF PublishedTellsStatus
    <2>4. QED
      BY <2>2, <2>3
  <1>4. QED
    BY <1>2, <1>3

-----------------------------------------------------------------------------
(* Theorems *)

\* Every step keeps the invariant.
LEMMA PaymentStepInv == PaymentsInv /\ [PaymentsNext]_paymentsVars => PaymentsInv'
  <1> SUFFICES ASSUME PaymentsInv, [PaymentsNext]_paymentsVars
               PROVE  PaymentsInv'
    OBVIOUS
  <1>1. PaymentsTypeOK'
    BY PaymentStepTypes DEF PaymentsInv
  <1>2. CASE UNCHANGED paymentsVars
    BY <1>2
    DEF paymentsVars, payDb, payRequests, PaymentsInv, PaymentsTypeOK,
        UnfinishedMadeNothing, MadeIsVersioned, ChangesAreChecked, Unchanged,
        PublishedTellsStatus
  <1>3. ASSUME NEW r \in Creations, CreatePayment(r)
        PROVE  PaymentsInv'
    BY <1>1, <1>3, PaymentLookKeepsInv, PaymentInsertKeepsInv DEF CreatePayment
  <1>4. ASSUME NEW p \in PaymentIds, NEW to \in {"paid", "failed", "refunded"},
               ReadPayment(p, to)
        PROVE  PaymentsInv'
    BY <1>1, <1>4, PaymentReadKeepsInv
  <1>5. ASSUME NEW c \in changes, WritePayment(c)
        PROVE  PaymentsInv'
    BY <1>1, <1>5, PaymentWriteKeepsInv
  <1>6. QED
    BY <1>2, <1>3, <1>4, <1>5 DEF PaymentsNext, ConfirmPayment, FailPayment, RefundPayment

\* The invariant holds in every reachable state.
LEMMA PaymentInvHolds == PaymentsSpec => []PaymentsInv
  BY PaymentInitInv, PaymentStepInv, PTL DEF PaymentsSpec

\* Every variable of Payments keeps its type.
THEOREM PaymentsTypeCorrect == PaymentsSpec => []PaymentsTypeOK
  BY PaymentInvHolds, PTL DEF PaymentsInv

\* What is announced of a payment follows the transition table from the status it
\* was recorded with, however many requests change it side by side.
THEOREM HistoryPublished == PaymentsSpec => []PublishedTellsStatus
  BY PaymentInvHolds, PTL DEF PaymentsInv

-----------------------------------------------------------------------------
(* What the two events that cannot be appended cost *)

\* Two of the four events can be appended.
LEMMA WhatAppends ==
    /\ ~Appends("PaymentCreated") /\ ~Appends("PaymentRefunded")
    /\ Appends("PaymentSucceeded") /\ Appends("PaymentFailed")
  <1>1. ~Appends("PaymentCreated")
    <2>1. "amount" \in Fields["PaymentCreated"]
      BY DEF Fields
    <2>2. ~Encodable(Serialized(FieldType("amount")))
      BY DEF Encodable, Serialized, FieldType
    <2> QED
      BY <2>1, <2>2 DEF Appends
  <1>2. ~Appends("PaymentRefunded")
    <2>1. "reason" \in Given["PaymentRefunded"] /\ "reason" \notin Fields["PaymentRefunded"]
      BY DEF Given, Fields
    <2> QED
      BY <2>1 DEF Appends
  <1>3. Appends("PaymentSucceeded")
    BY DEF Appends, Given, Fields, FieldType, Serialized, Encodable
  <1>4. Appends("PaymentFailed")
    BY DEF Appends, Given, Fields, FieldType, Serialized, Encodable
  <1> QED
    BY <1>1, <1>2, <1>3, <1>4

\* No request ever makes a payment, and none is refunded that was not recorded so.
NothingCreatedOrRefunded ==
    /\ \A r \in Creations : payment[r] = "absent"
    /\ \A p \in DOMAIN Imported : payment[p] = "refunded" => Imported[p] = "refunded"

\* The findings about PaymentCreated and PaymentRefunded hold of every call and not
\* of some: no creation and no refund commits, whatever the requests and their
\* interleaving.  Confirming and failing a payment are all that PaymentService does.
THEOREM CreatesAndRefundsNothing == PaymentsSpec => []NothingCreatedOrRefunded
  <1> USE DEF payDb, payRequests
  <1>1. PaymentsInit => NothingCreatedOrRefunded
    BY PaymentsAssumption DEF PaymentsInit, NothingCreatedOrRefunded, PaymentIds
  <1>2. ASSUME NothingCreatedOrRefunded, PaymentsInv, [PaymentsNext]_paymentsVars
        PROVE  NothingCreatedOrRefunded'
    <2>1. CASE UNCHANGED payment
      BY <1>2, <2>1 DEF NothingCreatedOrRefunded
    <2>2. ASSUME NEW r \in Creations, CreatePayment(r)
          PROVE  UNCHANGED payment
      BY <2>2, WhatAppends
      DEF CreatePayment, FindPayment, CheckActive, InsertPayment, AbandonPayment
    <2>3. ASSUME NEW c \in changes, WritePayment(c), payment' # payment
          PROVE  NothingCreatedOrRefunded'
      <3>1. Appends(EventOf[c.to]) /\ payment' = [payment EXCEPT ![c.payment] = c.to]
        BY <2>3 DEF WritePayment
      <3>2. c.to # "refunded"
        <4>1. EventOf["refunded"] = "PaymentRefunded"
          BY DEF EventOf
        <4> QED
          BY <3>1, <4>1, WhatAppends
      <3>3. c.payment \notin Creations /\ c.payment \in PaymentIds
        BY <1>2
        DEF PaymentsInv, PaymentsTypeOK, ChangesAreChecked, Change, NothingCreatedOrRefunded
      <3>4. \A p \in PaymentIds : payment'[p] = IF p = c.payment THEN c.to ELSE payment[p]
        BY <1>2, <3>1, <3>3 DEF PaymentsInv, PaymentsTypeOK
      <3> QED
        BY <1>2, <3>2, <3>3, <3>4 DEF NothingCreatedOrRefunded, PaymentIds
    <2>4. ASSUME NEW p \in PaymentIds, NEW to, ReadPayment(p, to)
          PROVE  UNCHANGED payment
      BY <2>4 DEF ReadPayment
    <2> QED
      BY <1>2, <2>1, <2>2, <2>3, <2>4
      DEF PaymentsNext, ConfirmPayment, FailPayment, RefundPayment, paymentsVars
  <1> QED
    BY <1>1, <1>2, PaymentInvHolds, PTL DEF PaymentsSpec

-----------------------------------------------------------------------------
(* OrderCreation.  The inductive invariant says what a request has found out *)
(* by the time it reaches each of its steps: lines that are checked stay     *)
(* checked, since prices are never withdrawn and products that are offered   *)
(* again or withdrawn after the check do not count against it.               *)

\* A request that has not ended has no order and no answer.
UnfinishedPlacedNothing ==
    \A r \in OrderRequests : ordering[r] # "done" => ~Placed(r) /\ orderAnswer[r] = 0

\* What is offered was offered at some time while any request ran.
OfferedCounts == \A r \in OrderRequests : withdrawn[r] \intersect offered = {}

\* Line i of a request's cart is one it may order.
Orderable(r, i) ==
    /\ OrderLines[r][i].quantity >= 1
    /\ OrderLines[r][i].product \in priced \ withdrawn[r]

\* The lines before the present one are checked, and the present one in part.
Checked(r) ==
    /\ ordering[r] \in {"product", "price"} =>
          /\ line[r] <= Len(OrderLines[r])
          /\ \A i \in 1..(line[r] - 1) : Orderable(r, i)
    /\ ordering[r] = "price" =>
          /\ ThisLine(r).quantity >= 1
          /\ ThisLine(r).product \notin withdrawn[r]
    /\ ordering[r] = "insert" \/ Placed(r) =>
          /\ OrderLines[r] # <<>>
          /\ \A i \in DOMAIN OrderLines[r] : Orderable(r, i)
    /\ ordering[r] = "lookup" => line[r] = 1
LinesAreChecked == \A r \in OrderRequests : Checked(r)

OrderCreationInv ==
    /\ OrderCreationTypeOK
    /\ UnfinishedPlacedNothing
    /\ OfferedCounts
    /\ LinesAreChecked
    /\ AnswersStayInTenant

USE OrderCreationAssumption DEF orderRequestVars

\* The initial state satisfies the invariant.
LEMMA PlacingInitInv == OrderCreationInit => OrderCreationInv
  <1> SUFFICES ASSUME OrderCreationInit PROVE OrderCreationInv
    OBVIOUS
  <1>1. OrderCreationTypeOK
    BY DEF OrderCreationInit, OrderCreationTypeOK
  <1>2. \A r \in OrderRequests : ~Placed(r)
    <2>1. \A r \in OrderRequests : OrderKey[r] \in OrderKeys /\ r # 0
      BY DEF OrderKeys
    <2>2. QED
      BY <2>1 DEF OrderCreationInit, Placed
  <1>3. UnfinishedPlacedNothing /\ OfferedCounts /\ LinesAreChecked
    BY <1>2 DEF OrderCreationInit, UnfinishedPlacedNothing, OfferedCounts, LinesAreChecked, Checked
  <1>4. AnswersStayInTenant
    BY DEF OrderCreationInit, AnswersStayInTenant
  <1>5. QED
    BY <1>1, <1>3, <1>4 DEF OrderCreationInv

-----------------------------------------------------------------------------
(* Types *)

\* Every line of every cart is a line.
LEMMA PlacingLineType ==
    ASSUME NEW r \in OrderRequests
    PROVE  /\ Len(OrderLines[r]) \in Nat
           /\ DOMAIN OrderLines[r] = 1..Len(OrderLines[r])
           /\ OrderLines[r] # <<>> => Len(OrderLines[r]) >= 1
           /\ \A i \in 1..Len(OrderLines[r]) :
                 OrderLines[r][i].product \in Offers /\ OrderLines[r][i].quantity \in Nat
  <1> DEFINE lines == OrderLines[r]
             Item == [product : Offers, quantity : Nat]
  <1>1. lines \in Seq(Item)
    OBVIOUS
  <1> HIDE DEF lines, Item
  <1>2. Len(lines) \in Nat /\ DOMAIN lines = 1..Len(lines) /\ (lines # <<>> => Len(lines) # 0)
    BY <1>1
  <1>3. \A i \in 1..Len(lines) : lines[i] \in Item
    BY <1>1
  <1>4. QED
    BY <1>2, <1>3 DEF lines, Item

\* Every step keeps the types.
LEMMA PlacingStepTypes ==
    OrderCreationTypeOK /\ [OrderCreationNext]_orderCreationVars => OrderCreationTypeOK'
  <1> SUFFICES ASSUME OrderCreationTypeOK, [OrderCreationNext]_orderCreationVars
               PROVE  OrderCreationTypeOK'
    OBVIOUS
  <1> USE DEF OrderCreationTypeOK
  <1>1. ASSUME NEW p \in Offers, Price(p) \/ Offer(p) \/ Withdraw(p)
        PROVE  OrderCreationTypeOK'
    BY <1>1 DEF Price, Offer, Withdraw
  <1>2. ASSUME NEW r \in OrderRequests, FindOrder(r)
        PROVE  OrderCreationTypeOK'
    <2>1. orderKey[OrderKey[r]] \in OrderRequests \union {0}
      <3>1. OrderKey[r] \in OrderKeys
        BY DEF OrderKeys
      <3> QED
        BY <3>1
    <2>2. /\ ordering' \in [OrderRequests -> {"lookup", "product", "price", "insert", "done"}]
          /\ orderAnswer' \in [OrderRequests -> OrderRequests \union {0}]
          /\ UNCHANGED line
      BY <1>2, <2>1 DEF FindOrder, ReturnOrder
    <2>3. QED
      BY <1>2, <2>2 DEF FindOrder
  <1>3. ASSUME NEW r \in OrderRequests, CheckProduct(r)
        PROVE  OrderCreationTypeOK'
    BY <1>3 DEF CheckProduct, ReturnOrder
  <1>4. ASSUME NEW r \in OrderRequests, CheckPrice(r)
        PROVE  OrderCreationTypeOK'
    <2>1. NextStep(r) \in {"product", "insert"} /\ line[r] + 1 \in Nat \ {0}
      BY DEF NextStep
    <2>2. CASE Priced(r)
      BY <1>4, <2>1, <2>2 DEF CheckPrice
    <2>3. CASE ~Priced(r)
      BY <1>4, <2>3 DEF CheckPrice, ReturnOrder
    <2>4. QED
      BY <2>2, <2>3
  <1>5. ASSUME NEW r \in OrderRequests, InsertOrder(r)
        PROVE  OrderCreationTypeOK'
    <2>1. OrderKey[r] \in OrderKeys
      BY DEF OrderKeys
    <2>2. orderKey' \in [OrderKeys -> OrderRequests \union {0}]
      BY <1>5, <2>1 DEF InsertOrder
    <2>3. \E answered \in {r, 0} : ReturnOrder(r, answered)
      BY <1>5 DEF InsertOrder
    <2>4. /\ ordering' \in [OrderRequests -> {"lookup", "product", "price", "insert", "done"}]
          /\ orderAnswer' \in [OrderRequests -> OrderRequests \union {0}]
          /\ UNCHANGED line
      BY <2>3 DEF ReturnOrder
    <2>5. QED
      BY <1>5, <2>2, <2>4 DEF InsertOrder
  <1>6. ASSUME NEW r \in OrderRequests, AbandonOrder(r)
        PROVE  OrderCreationTypeOK'
    BY <1>6 DEF AbandonOrder, ReturnOrder
  <1>7. CASE UNCHANGED orderCreationVars
    BY <1>7 DEF orderCreationVars
  <1>8. QED
    BY <1>1, <1>2, <1>3, <1>4, <1>5, <1>6, <1>7 DEF OrderCreationNext, PlaceOrder

-----------------------------------------------------------------------------
(* The inductive step, one lemma for each kind of action *)

\* Products that are priced, offered or withdrawn leave checked lines checked.
LEMMA PlacingProductsKeepInv ==
    ASSUME OrderCreationInv, NEW p \in Offers, Price(p) \/ Offer(p) \/ Withdraw(p),
           OrderCreationTypeOK'
    PROVE  OrderCreationInv'
  <1> USE DEF OrderCreationInv
  <1>1. /\ UNCHANGED <<orderKey, ordering, line, orderAnswer>>
        /\ priced \subseteq priced'
        /\ \A r \in OrderRequests : withdrawn'[r] \subseteq withdrawn[r]
    BY DEF Price, Offer, Withdraw, OrderCreationTypeOK
  <1>2. UnfinishedPlacedNothing' /\ AnswersStayInTenant'
    BY <1>1 DEF UnfinishedPlacedNothing, AnswersStayInTenant, Placed
  <1>3. OfferedCounts'
    BY DEF Price, Offer, Withdraw, OfferedCounts, OrderCreationTypeOK
  <1>4. \A r \in OrderRequests : \A i : Orderable(r, i) => Orderable(r, i)'
    BY <1>1 DEF Orderable
  <1>5. LinesAreChecked'
    BY <1>1, <1>4 DEF LinesAreChecked, Checked, Placed, ThisLine
  <1>6. QED
    BY <1>2, <1>3, <1>5

\* A request that ends without an order, or answered with one of its tenant,
\* keeps the invariant.
LEMMA PlacingReturnKeepsInv ==
    ASSUME OrderCreationInv, OrderCreationTypeOK', NEW r \in OrderRequests,
           NEW o \in OrderRequests \union {0}, ReturnOrder(r, o),
           o # 0 => OrderTenant[o] = OrderTenant[r],
           UNCHANGED <<offered, priced, orderKey>>,
           \/ UNCHANGED withdrawn
           \/ ~Placed(r) /\ withdrawn' = [withdrawn EXCEPT ![r] = Offers \ offered]
    PROVE  OrderCreationInv'
  <1> USE DEF OrderCreationInv
  <1>1. /\ ordering'[r] = "done" /\ orderAnswer'[r] = o /\ UNCHANGED line
        /\ \A q \in OrderRequests \ {r} :
              /\ ordering'[q] = ordering[q] /\ orderAnswer'[q] = orderAnswer[q]
              /\ withdrawn'[q] = withdrawn[q]
    <2>1. /\ ordering'[r] = "done" /\ UNCHANGED line
          /\ \A q \in OrderRequests \ {r} : ordering'[q] = ordering[q]
      BY DEF ReturnOrder, OrderCreationTypeOK
    <2>2. /\ orderAnswer'[r] = o
          /\ \A q \in OrderRequests \ {r} : orderAnswer'[q] = orderAnswer[q]
      BY DEF ReturnOrder, OrderCreationTypeOK
    <2>3. \A q \in OrderRequests \ {r} : withdrawn'[q] = withdrawn[q]
      BY DEF OrderCreationTypeOK
    <2>4. QED
      BY <2>1, <2>2, <2>3
  <1>2. UnfinishedPlacedNothing' /\ AnswersStayInTenant'
    BY <1>1 DEF UnfinishedPlacedNothing, AnswersStayInTenant, Placed
  <1>3. OfferedCounts'
    BY <1>1 DEF OfferedCounts, OrderCreationTypeOK
  <1>4. \A q \in OrderRequests : \A i : q # r \/ Placed(r) => Orderable(q, i)' = Orderable(q, i)
    BY <1>1 DEF Orderable
  <1>5. LinesAreChecked'
    <2>1. ASSUME NEW q \in OrderRequests \ {r}
          PROVE  /\ ordering'[q] = ordering[q] /\ line'[q] = line[q]
                 /\ Placed(q)' = Placed(q) /\ ThisLine(q)' = ThisLine(q)
                 /\ withdrawn'[q] = withdrawn[q]
                 /\ \A i : Orderable(q, i)' = Orderable(q, i)
      BY <1>1, <1>4 DEF Placed, ThisLine
    <2>2. Placed(r)' = Placed(r)
      BY DEF Placed
    <2>3. QED
      BY <1>1, <1>4, <2>1, <2>2 DEF LinesAreChecked, Checked
  <1>6. QED
    BY <1>2, <1>3, <1>5

\* The lookup: with no order of the tenant, the first line is checked next.
LEMMA PlacingFindKeepsInv ==
    ASSUME OrderCreationInv, OrderCreationTypeOK', NEW r \in OrderRequests, FindOrder(r)
    PROVE  OrderCreationInv'
  <1> USE DEF OrderCreationInv
  <1> DEFINE o == IF FoundOrder(r) THEN orderKey[OrderKey[r]] ELSE 0
  <1>1. /\ UNCHANGED <<offered, priced, orderKey>>
        /\ withdrawn' = [withdrawn EXCEPT ![r] = Offers \ offered]
        /\ ordering[r] = "lookup" /\ ~Placed(r) /\ orderAnswer[r] = 0 /\ line[r] = 1
    BY DEF FindOrder, UnfinishedPlacedNothing, LinesAreChecked, Checked
  <1>2. CASE ReturnOrder(r, o)
    <2>1. o \in OrderRequests \union {0} /\ (o # 0 => OrderTenant[o] = OrderTenant[r])
      <3>1. OrderKey[r] \in OrderKeys
        BY DEF OrderKeys
      <3>2. QED
        BY <3>1 DEF FoundOrder, OrderCreationTypeOK
    <2>2. QED
      BY <1>1, <1>2, <2>1, PlacingReturnKeepsInv
  <1>3. CASE ~ReturnOrder(r, o)
    <2>1. /\ OrderLines[r] # <<>> /\ ordering'[r] = "product"
          /\ UNCHANGED <<line, orderAnswer>>
          /\ \A q \in OrderRequests \ {r} :
                ordering'[q] = ordering[q] /\ withdrawn'[q] = withdrawn[q]
      BY <1>1, <1>3 DEF FindOrder, OrderCreationTypeOK
    <2>2. UnfinishedPlacedNothing' /\ AnswersStayInTenant'
      BY <1>1, <2>1 DEF UnfinishedPlacedNothing, AnswersStayInTenant, Placed
    <2>3. OfferedCounts'
      BY <1>1 DEF OfferedCounts, OrderCreationTypeOK
    <2>4. \A q \in OrderRequests \ {r} :
             /\ Placed(q)' = Placed(q) /\ ThisLine(q)' = ThisLine(q)
             /\ \A i : Orderable(q, i)' = Orderable(q, i)
      BY <1>1, <2>1 DEF Placed, ThisLine, Orderable
    <2>5. ~Placed(r)' /\ line'[r] <= Len(OrderLines[r]) /\ 1..(line'[r] - 1) = {}
      BY <1>1, <2>1, PlacingLineType DEF Placed
    <2>6. LinesAreChecked'
      <3>1. Checked(r)'
        BY <1>1, <2>1, <2>5 DEF Checked
      <3>2. \A q \in OrderRequests \ {r} : Checked(q)'
        BY <1>1, <2>1, <2>4 DEF LinesAreChecked, Checked
      <3>3. QED
        BY <3>1, <3>2 DEF LinesAreChecked
    <2>7. QED
      BY <2>2, <2>3, <2>6
  <1>4. QED
    BY <1>2, <1>3

\* A line whose product is offered and priced is checked, and with the last one
\* all are.
LEMMA PlacingCheckKeepsInv ==
    ASSUME OrderCreationInv, OrderCreationTypeOK', NEW r \in OrderRequests,
           CheckProduct(r) \/ CheckPrice(r)
    PROVE  OrderCreationInv'
  <1> USE DEF OrderCreationInv
  <1>1. /\ UNCHANGED <<offered, priced, orderKey, withdrawn>>
        /\ ordering[r] # "done" /\ ~Placed(r) /\ orderAnswer[r] = 0
    BY DEF CheckProduct, CheckPrice, UnfinishedPlacedNothing
  <1>2. \A q \in OrderRequests :
           /\ Placed(q)' = Placed(q)
           /\ \A i : Orderable(q, i)' = Orderable(q, i)
    BY <1>1 DEF Placed, Orderable
  <1>3. CASE ReturnOrder(r, 0)
    BY <1>1, <1>3, PlacingReturnKeepsInv
  <1>4. ASSUME ~ReturnOrder(r, 0)
        PROVE  OrderCreationInv'
    <2>1. /\ UNCHANGED orderAnswer
          /\ \A q \in OrderRequests \ {r} :
                ordering'[q] = ordering[q] /\ line'[q] = line[q]
      BY <1>4 DEF CheckProduct, CheckPrice, OrderCreationTypeOK
    <2>2. UnfinishedPlacedNothing' /\ AnswersStayInTenant' /\ OfferedCounts'
      BY <1>1, <1>2, <2>1 DEF UnfinishedPlacedNothing, AnswersStayInTenant, OfferedCounts
    <2>3. \A q \in OrderRequests \ {r} : ThisLine(q)' = ThisLine(q)
      BY <2>1 DEF ThisLine
    <2>4. ASSUME Checked(r)'
          PROVE  LinesAreChecked'
      <3>1. ASSUME NEW q \in OrderRequests \ {r} PROVE Checked(q)'
        <4>1. Checked(q)
          BY DEF LinesAreChecked
        <4>2. /\ ordering'[q] = ordering[q] /\ line'[q] = line[q]
              /\ withdrawn'[q] = withdrawn[q]
              /\ ThisLine(q)' = ThisLine(q) /\ Placed(q)' = Placed(q)
              /\ \A i : Orderable(q, i)' = Orderable(q, i)
          BY <1>1, <1>2, <2>1, <2>3
        <4>3. QED
          BY <4>1, <4>2 DEF Checked
      <3>2. QED
        BY <2>4, <3>1 DEF LinesAreChecked
    <2>5. /\ line[r] \in Nat \ {0} /\ line[r] <= Len(OrderLines[r])
          /\ \A i \in 1..(line[r] - 1) : Orderable(r, i)
      BY DEF CheckProduct, CheckPrice, LinesAreChecked, Checked, OrderCreationTypeOK
    <2>6. CASE CheckProduct(r)
      <3>1. /\ ordering'[r] = "price" /\ line' = line
            /\ ThisLine(r).quantity >= 1 /\ ThisLine(r).product \in offered
        BY <1>4, <2>6 DEF CheckProduct, Offered, OrderCreationTypeOK
      <3>2. ThisLine(r)' = ThisLine(r) /\ ThisLine(r).product \notin withdrawn[r]
        BY <3>1 DEF ThisLine, OfferedCounts
      <3>3. LinesAreChecked'
        BY <1>1, <1>2, <2>5, <2>4, <3>1, <3>2 DEF Checked
      <3>4. QED
        BY <2>2, <3>3
    <2>7. CASE CheckPrice(r)
      <3>1. /\ ordering'[r] = NextStep(r)
            /\ line'[r] = IF NextStep(r) = "product" THEN line[r] + 1 ELSE line[r]
            /\ Orderable(r, line[r])
        BY <1>4, <2>7
        DEF CheckPrice, Priced, ThisLine, Orderable, LinesAreChecked, Checked, OrderCreationTypeOK
      <3>2. \A i \in 1..line[r] : Orderable(r, i)
        <4>1. \A i \in 1..line[r] : i = line[r] \/ i \in 1..(line[r] - 1)
          BY <2>5
        <4>2. QED
          BY <2>5, <3>1, <4>1
      <3>3. CASE line[r] = Len(OrderLines[r])
        <4>1. ordering'[r] = "insert" /\ line'[r] = line[r]
          BY <3>1, <3>3 DEF NextStep
        <4>2. OrderLines[r] # <<>> /\ \A i \in DOMAIN OrderLines[r] : Orderable(r, i)
          BY <2>5, <3>2, <3>3, PlacingLineType
        <4>3. LinesAreChecked'
          BY <1>1, <1>2, <2>4, <4>1, <4>2 DEF Checked
        <4>4. QED
          BY <2>2, <4>3
      <3>4. CASE line[r] # Len(OrderLines[r])
        <4>1. ordering'[r] = "product" /\ line'[r] = line[r] + 1
          BY <3>1, <3>4 DEF NextStep
        <4>2. line'[r] <= Len(OrderLines[r]) /\ \A i \in 1..(line'[r] - 1) : Orderable(r, i)
          BY <2>5, <3>2, <3>4, <4>1, PlacingLineType
        <4>3. LinesAreChecked'
          BY <1>1, <1>2, <2>4, <4>1, <4>2 DEF Checked
        <4>4. QED
          BY <2>2, <4>3
      <3>5. QED
        BY <3>3, <3>4
    <2>8. QED
      BY <2>6, <2>7
  <1>5. QED
    BY <1>3, <1>4

\* The insertion: the key was free, so the order is the only one that has it.
LEMMA PlacingInsertKeepsInv ==
    ASSUME OrderCreationInv, OrderCreationTypeOK', NEW r \in OrderRequests, InsertOrder(r)
    PROVE  OrderCreationInv'
  <1> USE DEF OrderCreationInv
  <1>1. /\ UNCHANGED <<offered, priced, withdrawn, line>>
        /\ ordering[r] = "insert"
    BY DEF InsertOrder, ReturnOrder
  <1>2. CASE ~OrderKeyIsFree(r)
    BY <1>2, PlacingReturnKeepsInv DEF InsertOrder
  <1>3. CASE OrderKeyIsFree(r)
    <2>1. OrderKey[r] \in OrderKeys
      BY DEF OrderKeys
    <2>2. /\ orderKey' = [orderKey EXCEPT ![OrderKey[r]] = r]
          /\ orderKey[OrderKey[r]] = 0
          /\ \E answered \in {r, 0} : ReturnOrder(r, answered)
      BY <1>3 DEF InsertOrder, OrderKeyIsFree
    <2>3. PICK answered \in {r, 0} : ReturnOrder(r, answered)
      BY <2>2
    <2>4. /\ ordering'[r] = "done" /\ orderAnswer'[r] = answered
          /\ \A q \in OrderRequests \ {r} :
                ordering'[q] = ordering[q] /\ orderAnswer'[q] = orderAnswer[q]
      BY <2>3 DEF ReturnOrder, OrderCreationTypeOK
    <2>5. ASSUME NEW q \in OrderRequests \ {r} PROVE Placed(q)' <=> Placed(q)
      <3>1. q # 0 /\ OrderKey[q] \in OrderKeys
        BY DEF OrderKeys
      <3>2. \A k \in OrderKeys : orderKey'[k] = IF k = OrderKey[r] THEN r ELSE orderKey[k]
        BY <2>2 DEF OrderCreationTypeOK
      <3>3. QED
        BY <2>2, <3>1, <3>2 DEF Placed
    <2>6. UnfinishedPlacedNothing' /\ AnswersStayInTenant' /\ OfferedCounts'
      BY <1>1, <2>4, <2>5
      DEF UnfinishedPlacedNothing, AnswersStayInTenant, OfferedCounts
    <2>7. \A q, i : Orderable(q, i)' = Orderable(q, i)
      BY <1>1 DEF Orderable
    <2>8. \A q : ThisLine(q)' = ThisLine(q)
      BY <1>1 DEF ThisLine
    <2>9. ASSUME NEW q \in OrderRequests PROVE Checked(q)'
      <3>1. Checked(q) /\ Checked(r)
        BY DEF LinesAreChecked
      <3>2. CASE q = r
        BY <1>1, <2>4, <2>7, <3>1, <3>2 DEF Checked
      <3>3. CASE q # r
        <4>1. /\ ordering'[q] = ordering[q] /\ line'[q] = line[q]
              /\ withdrawn'[q] = withdrawn[q]
              /\ ThisLine(q)' = ThisLine(q) /\ (Placed(q)' <=> Placed(q))
              /\ \A i : Orderable(q, i)' = Orderable(q, i)
          BY <1>1, <2>4, <2>5, <2>7, <2>8, <3>3
        <4>2. QED
          BY <3>1, <4>1 DEF Checked
      <3>4. QED
        BY <3>2, <3>3
    <2>10. QED
      BY <2>6, <2>9 DEF LinesAreChecked
  <1>4. QED
    BY <1>2, <1>3

\* Every step keeps the invariant.
LEMMA PlacingStepInv == OrderCreationInv /\ [OrderCreationNext]_orderCreationVars => OrderCreationInv'
  <1> SUFFICES ASSUME OrderCreationInv, [OrderCreationNext]_orderCreationVars
               PROVE  OrderCreationInv'
    OBVIOUS
  <1>1. OrderCreationTypeOK'
    BY PlacingStepTypes DEF OrderCreationInv
  <1>2. ASSUME NEW p \in Offers, Price(p) \/ Offer(p) \/ Withdraw(p)
        PROVE  OrderCreationInv'
    BY <1>1, <1>2, PlacingProductsKeepInv
  <1>3. ASSUME NEW r \in OrderRequests, PlaceOrder(r)
        PROVE  OrderCreationInv'
    <2>1. CASE AbandonOrder(r)
      BY <1>1, <2>1, PlacingReturnKeepsInv DEF AbandonOrder
    <2>2. QED
      BY <1>1, <1>3, <2>1, PlacingFindKeepsInv, PlacingCheckKeepsInv, PlacingInsertKeepsInv DEF PlaceOrder
  <1>4. CASE UNCHANGED orderCreationVars
    BY <1>4
    DEF orderCreationVars, OrderCreationInv, OrderCreationTypeOK, UnfinishedPlacedNothing,
        OfferedCounts, LinesAreChecked, Checked, Orderable, Placed, ThisLine,
        AnswersStayInTenant
  <1>5. QED
    BY <1>2, <1>3, <1>4 DEF OrderCreationNext

\* The invariant holds in every reachable state.
LEMMA PlacingInvHolds == OrderCreationSpec => []OrderCreationInv
  BY PlacingInitInv, PlacingStepInv, PTL DEF OrderCreationSpec

-----------------------------------------------------------------------------
(* Theorems *)

\* Every variable of the order creations keeps its type.
THEOREM OrderCreationTypeCorrect == OrderCreationSpec => []OrderCreationTypeOK
  <1>1. OrderCreationInv => OrderCreationTypeOK
    BY DEF OrderCreationInv
  <1>2. QED
    BY <1>1, PlacingInvHolds, PTL

\* Every placed order has a cart whose lines were all orderable, and none of its
\* products was withdrawn all the while its request ran.
THEOREM PlacedOrdersSound == OrderCreationSpec => []PlacedOrdersAreSound
  <1>1. OrderCreationInv => PlacedOrdersAreSound
    BY DEF OrderCreationInv, PlacedOrdersAreSound, LinesAreChecked, Checked, Orderable
  <1>2. QED
    BY <1>1, PlacingInvHolds, PTL

\* No create_order request is answered with an order of another tenant.
THEOREM AnswersInTenant == OrderCreationSpec => []AnswersStayInTenant
  <1>1. OrderCreationInv => AnswersStayInTenant
    BY DEF OrderCreationInv
  <1>2. QED
    BY <1>1, PlacingInvHolds, PTL

\* create_order implements a creation in one step guarded by its key: requests
\* with one key make one order, and no answer names another.
THEOREM OrdersRefine == OrderCreationSpec => OrdersImplementKeyedCreate
  <1>1. OrderCreationInit => KeyedOrders!Init
    BY DEF OrderCreationInit, KeyedOrders!Init, KeyedOrders!Keys, OrderKeys
  <1>2. OrderCreationInv /\ [OrderCreationNext]_orderCreationVars
        => [KeyedOrders!Next]_<<orderKey, orderAnswer>>
    <2> SUFFICES ASSUME OrderCreationInv, [OrderCreationNext]_orderCreationVars
                 PROVE  [KeyedOrders!Next]_<<orderKey, orderAnswer>>
      OBVIOUS
    <2> USE DEF OrderCreationInv
    <2>1. ASSUME NEW r \in OrderRequests, ordering[r] # "done", ReturnOrder(r, 0)
          PROVE  UNCHANGED orderAnswer
      BY <2>1 DEF ReturnOrder, OrderCreationTypeOK, UnfinishedPlacedNothing
    <2>2. ASSUME NEW r \in OrderRequests, FindOrder(r)
          PROVE  KeyedOrders!Next \/ UNCHANGED <<orderKey, orderAnswer>>
      <3>1. CASE FoundOrder(r)
        <4>1. KeyedOrders!Repeat(r)
          BY <2>2, <3>1
          DEF FindOrder, FoundOrder, ReturnOrder, UnfinishedPlacedNothing, KeyedOrders!Repeat
        <4>2. QED
          BY <4>1 DEF KeyedOrders!Next
      <3>2. CASE ~FoundOrder(r)
        BY <2>1, <2>2, <3>2 DEF FindOrder
      <3>3. QED
        BY <3>1, <3>2
    <2>3. ASSUME NEW r \in OrderRequests, CheckProduct(r) \/ CheckPrice(r)
          PROVE  UNCHANGED <<orderKey, orderAnswer>>
      BY <2>1, <2>3 DEF CheckProduct, CheckPrice
    <2>4. ASSUME NEW r \in OrderRequests, InsertOrder(r)
          PROVE  KeyedOrders!Next \/ UNCHANGED <<orderKey, orderAnswer>>
      <3>1. ordering[r] # "done"
        BY <2>4 DEF InsertOrder
      <3>2. CASE OrderKeyIsFree(r)
        <4>1. orderAnswer' \in {orderAnswer, [orderAnswer EXCEPT ![r] = r]}
          BY <2>1, <2>4, <3>1, <3>2 DEF InsertOrder, ReturnOrder
        <4>2. KeyedOrders!Create(r)
          BY <2>4, <3>2, <4>1 DEF InsertOrder, OrderKeyIsFree, KeyedOrders!Create
        <4>3. QED
          BY <4>2 DEF KeyedOrders!Next
      <3>3. CASE ~OrderKeyIsFree(r)
        BY <2>1, <2>4, <3>1, <3>3 DEF InsertOrder
      <3>4. QED
        BY <3>2, <3>3
    <2>5. ASSUME NEW r \in OrderRequests, AbandonOrder(r)
          PROVE  UNCHANGED <<orderKey, orderAnswer>>
      BY <2>1, <2>5 DEF AbandonOrder
    <2>6. ASSUME NEW p \in Offers, Price(p) \/ Offer(p) \/ Withdraw(p)
          PROVE  UNCHANGED <<orderKey, orderAnswer>>
      BY <2>6 DEF Price, Offer, Withdraw
    <2>7. CASE UNCHANGED orderCreationVars
      BY <2>7 DEF orderCreationVars
    <2>8. QED
      BY <2>2, <2>3, <2>4, <2>5, <2>6, <2>7 DEF OrderCreationNext, PlaceOrder
  <1>3. QED
    BY <1>1, <1>2, PlacingInvHolds, PTL
    DEF OrderCreationSpec, OrdersImplementKeyedCreate, KeyedOrders!Spec

\* create_order is idempotent: requests with one key place one order, which every
\* one of them that is answered with an order is answered with.
THEOREM OrdersIdempotent ==
    OrderCreationSpec => []KeyedOrders!OneRowPerKey /\ KeyedOrders!NothingTakenBack
  BY OrdersRefine, KeyedOrders!KeyedIsIdempotent, PTL DEF OrdersImplementKeyedCreate

-----------------------------------------------------------------------------
(* Accounts.  The inductive invariant follows a tenant from the transaction  *)
(* that inserts it: a request that looks for its user has its tenant         *)
(* committed or in its own open transaction, so a user is never committed    *)
(* without one.                                                              *)

\* A request that has not ended has not been answered.
UnendedIsUnanswered ==
    \A r \in AccountRequests : making[r] # "done" => accountAnswer[r] = 0

\* Every user has a tenant.
UsersHaveTenants == \A e \in Emails : user[e] # 0 => tenant[TenantOf[user[e]]] # 0

\* A request that is past its tenant finds it, or has inserted it itself.
LookingInTenant ==
    \A r \in AccountRequests : making[r] \in {"look", "insert"} =>
        tenant[TenantOf[r]] # 0 \/ opened[TenantOf[r]] = r

AccountsInv ==
    /\ AccountsTypeOK
    /\ UnendedIsUnanswered
    /\ UsersHaveTenants
    /\ LookingInTenant
    /\ BootstrapIsAtomic
    /\ AnswersAreAccounts

USE AccountsAssumption

\* Slugs and emails of requests are keys of the two indexes.
LEMMA KeysOfRequests ==
    ASSUME NEW r \in AccountRequests
    PROVE  TenantOf[r] \in Tenants /\ EmailOf[r] \in Emails /\ r # 0
  BY DEF Tenants, Emails

\* The initial state satisfies the invariant.
LEMMA AccountInitInv == AccountsInit => AccountsInv
  <1> SUFFICES ASSUME AccountsInit PROVE AccountsInv
    OBVIOUS
  <1>1. AccountsTypeOK
    BY DEF AccountsInit, AccountsTypeOK
  <1>2. /\ UnendedIsUnanswered /\ UsersHaveTenants /\ LookingInTenant
        /\ BootstrapIsAtomic /\ AnswersAreAccounts
    BY DEF AccountsInit, UnendedIsUnanswered, UsersHaveTenants, LookingInTenant,
           BootstrapIsAtomic, AnswersAreAccounts
  <1>3. QED
    BY <1>1, <1>2 DEF AccountsInv

-----------------------------------------------------------------------------
(* The inductive step, one lemma for each kind of action *)

\* A request that ends in error, or answered with a user of its tenant, keeps
\* the invariant: only its own open transaction is rolled back.
LEMMA AccountFinishKeepsInv ==
    ASSUME AccountsInv, NEW r \in AccountRequests, NEW u \in AccountRequests \union {0},
           Finish(r, u), UNCHANGED <<tenant, user>>,
           u # 0 => TenantOf[u] = TenantOf[r] /\ tenant[TenantOf[r]] # 0
    PROVE  AccountsInv'
  <1> USE DEF AccountsInv
  <1>1. AccountsTypeOK'
    BY DEF Finish, AccountsTypeOK
  <1>2. /\ making'[r] = "done" /\ accountAnswer'[r] = u
        /\ \A q \in AccountRequests \ {r} :
              making'[q] = making[q] /\ accountAnswer'[q] = accountAnswer[q]
        /\ \A q \in AccountRequests \ {r}, t \in Tenants : opened[t] = q => opened'[t] = q
    BY DEF Finish, AccountsTypeOK
  <1>3. UnendedIsUnanswered' /\ AnswersAreAccounts'
    BY <1>2 DEF UnendedIsUnanswered, AnswersAreAccounts
  <1>4. LookingInTenant'
    BY <1>2, KeysOfRequests DEF LookingInTenant
  <1>5. UsersHaveTenants' /\ BootstrapIsAtomic'
    BY DEF UsersHaveTenants, BootstrapIsAtomic
  <1>6. QED
    BY <1>1, <1>3, <1>4, <1>5

\* A request that goes on keeps the invariant, if it is past its tenant only
\* with one.
LEMMA AccountStepKeepsInv ==
    ASSUME AccountsInv, NEW r \in AccountRequests,
           NEW to \in {"new_tenant", "look", "insert"}, Step(r, to),
           making[r] # "done", UNCHANGED <<tenant, user, opened>>,
           to \in {"look", "insert"} => tenant[TenantOf[r]] # 0 \/ opened[TenantOf[r]] = r
    PROVE  AccountsInv'
  <1> USE DEF AccountsInv
  <1>1. AccountsTypeOK'
    BY DEF Step, AccountsTypeOK
  <1>2. /\ making'[r] = to /\ UNCHANGED accountAnswer
        /\ \A q \in AccountRequests \ {r} : making'[q] = making[q]
    BY DEF Step, AccountsTypeOK
  <1>3. UnendedIsUnanswered' /\ AnswersAreAccounts' /\ LookingInTenant'
    BY <1>2 DEF UnendedIsUnanswered, AnswersAreAccounts, LookingInTenant
  <1>4. UsersHaveTenants' /\ BootstrapIsAtomic'
    BY DEF UsersHaveTenants, BootstrapIsAtomic
  <1>5. QED
    BY <1>1, <1>3, <1>4

\* A tenant that is committed by itself is a seed script's.
LEMMA AccountInsertTenantKeepsInv ==
    ASSUME AccountsInv, NEW r \in AccountRequests, InsertTenant(r)
    PROVE  AccountsInv'
  <1> USE DEF AccountsInv
  <1> DEFINE t == TenantOf[r]
  <1>1. t \in Tenants /\ r # 0 /\ opened[t] = 0 /\ making[r] = "new_tenant" /\ UNCHANGED user
    BY KeysOfRequests DEF InsertTenant
  <1>2. CASE tenant[t] # 0
    BY <1>1, <1>2, AccountFinishKeepsInv DEF InsertTenant
  <1>3. CASE tenant[t] = 0
    <2>1. /\ making' = [making EXCEPT ![r] = "look"] /\ UNCHANGED accountAnswer
          /\ \/ /\ Flow[r] = "seed"
                /\ tenant' = [tenant EXCEPT ![t] = r] /\ UNCHANGED opened
             \/ opened' = [opened EXCEPT ![t] = r] /\ UNCHANGED tenant
      BY <1>3 DEF InsertTenant, Step, CommitsTenant
    <2>2. AccountsTypeOK'
      BY <1>1, <2>1 DEF AccountsTypeOK
    <2>3. /\ \A s \in Tenants : tenant[s] # 0 => tenant'[s] = tenant[s]
          /\ \A s \in Tenants : opened[s] # 0 => opened'[s] = opened[s]
          /\ tenant'[t] # 0 \/ opened'[t] = r
          /\ \A s \in Tenants : tenant'[s] # tenant[s] => Flow[tenant'[s]] = "seed"
          /\ \A q \in AccountRequests \ {r} : making'[q] = making[q]
      BY <1>1, <1>3, <2>1 DEF AccountsTypeOK
    <2>4. UnendedIsUnanswered' /\ AnswersAreAccounts'
      BY <1>1, <2>1, <2>3, KeysOfRequests DEF UnendedIsUnanswered, AnswersAreAccounts
    <2>5. LookingInTenant'
      BY <2>3, KeysOfRequests DEF LookingInTenant
    <2>6. UsersHaveTenants'
      <3>1. \A e \in Emails : user[e] # 0 => TenantOf[user[e]] \in Tenants
        BY KeysOfRequests DEF AccountsTypeOK
      <3>2. QED
        BY <1>1, <2>3, <3>1 DEF UsersHaveTenants
    <2>7. BootstrapIsAtomic'
      BY <1>1, <2>3 DEF BootstrapIsAtomic
    <2>8. QED
      BY <2>2, <2>4, <2>5, <2>6, <2>7
  <1>4. QED
    BY <1>2, <1>3

\* A user is committed with the tenant its transaction has inserted.
LEMMA AccountInsertUserKeepsInv ==
    ASSUME AccountsInv, NEW r \in AccountRequests, InsertUser(r)
    PROVE  AccountsInv'
  <1> USE DEF AccountsInv
  <1>1. TenantOf[r] \in Tenants /\ EmailOf[r] \in Emails /\ r # 0 /\ making[r] = "insert"
    BY KeysOfRequests DEF InsertUser
  <1>2. CASE ~EmailIsFree(r)
    BY <1>2, AccountFinishKeepsInv DEF InsertUser
  <1>3. CASE EmailIsFree(r)
    <2>1. /\ user' = [user EXCEPT ![EmailOf[r]] = r]
          /\ tenant' = [t \in Tenants |-> IF opened[t] = r THEN r ELSE tenant[t]]
          /\ user[EmailOf[r]] = 0
      BY <1>3 DEF InsertUser, EmailIsFree
    <2>2. PICK answered \in {r, 0} : Finish(r, answered)
      BY <1>3 DEF InsertUser
    <2>3. AccountsTypeOK'
      BY <1>1, <2>1, <2>2 DEF Finish, AccountsTypeOK
    <2>4. /\ making'[r] = "done" /\ accountAnswer'[r] \in {r, 0}
          /\ \A q \in AccountRequests \ {r} :
                making'[q] = making[q] /\ accountAnswer'[q] = accountAnswer[q]
          /\ \A q \in AccountRequests \ {r}, t \in Tenants : opened[t] = q => opened'[t] = q
      BY <2>2 DEF Finish, AccountsTypeOK
    <2>5. /\ \A t \in Tenants : tenant[t] # 0 => tenant'[t] # 0
          /\ \A t \in Tenants : tenant'[t] = tenant[t] \/ tenant'[t] = r
          /\ \A e \in Emails : user'[e] = IF e = EmailOf[r] THEN r ELSE user[e]
      BY <1>1, <2>1 DEF AccountsTypeOK
    <2>6. tenant'[TenantOf[r]] # 0
      BY <1>1, <2>1, <2>5 DEF LookingInTenant
    <2>7. UnendedIsUnanswered' /\ AnswersAreAccounts'
      BY <2>4, <2>5, <2>6, KeysOfRequests DEF UnendedIsUnanswered, AnswersAreAccounts
    <2>8. LookingInTenant'
      BY <2>4, <2>5, KeysOfRequests DEF LookingInTenant
    <2>9. UsersHaveTenants'
      <3>1. \A e \in Emails : user[e] # 0 => TenantOf[user[e]] \in Tenants
        BY KeysOfRequests DEF AccountsTypeOK
      <3>2. QED
        BY <2>5, <2>6, <3>1 DEF UsersHaveTenants
    <2>10. BootstrapIsAtomic'
      <3>1. ASSUME NEW t \in Tenants, tenant'[t] # 0, Flow[tenant'[t]] = "bootstrap"
            PROVE  user'[EmailOf[tenant'[t]]] = tenant'[t]
        <4>1. CASE tenant'[t] = r
          BY <1>1, <2>5, <4>1
        <4>2. CASE tenant'[t] # r
          <5>1. tenant'[t] = tenant[t] /\ tenant[t] \in AccountRequests
            BY <2>5, <3>1, <4>2 DEF AccountsTypeOK
          <5>2. user[EmailOf[tenant[t]]] = tenant[t] /\ EmailOf[tenant[t]] \in Emails
            BY <3>1, <5>1, KeysOfRequests DEF BootstrapIsAtomic
          <5>3. QED
            BY <2>1, <2>5, <3>1, <5>1, <5>2
        <4>3. QED
          BY <4>1, <4>2
      <3>2. QED
        BY <3>1 DEF BootstrapIsAtomic
    <2>11. QED
      BY <2>3, <2>7, <2>8, <2>9, <2>10
  <1>4. QED
    BY <1>2, <1>3

\* Every step keeps the invariant.
LEMMA AccountStepInv == AccountsInv /\ [AccountsNext]_accountsVars => AccountsInv'
  <1> SUFFICES ASSUME AccountsInv, [AccountsNext]_accountsVars PROVE AccountsInv'
    OBVIOUS
  <1>1. ASSUME NEW r \in AccountRequests, FindTenant(r) PROVE AccountsInv'
    <2>1. CASE tenant[TenantOf[r]] # 0
      BY <1>1, <2>1, AccountStepKeepsInv DEF FindTenant
    <2>2. CASE tenant[TenantOf[r]] = 0
      BY <1>1, <2>2, AccountStepKeepsInv, AccountFinishKeepsInv DEF FindTenant
    <2>3. QED
      BY <2>1, <2>2
  <1>2. ASSUME NEW r \in AccountRequests, FindUser(r) PROVE AccountsInv'
    <2>1. CASE Finds(r)
      <3>1. PICK u : /\ u = IF Flow[r] = "register" THEN 0 ELSE user[EmailOf[r]]
                     /\ Finish(r, u)
        BY <1>2, <2>1 DEF FindUser
      <3>2. /\ u \in AccountRequests \union {0}
            /\ u # 0 => TenantOf[u] = TenantOf[r] /\ tenant[TenantOf[r]] # 0
        BY <2>1, <3>1, KeysOfRequests DEF Finds, AccountsInv, AccountsTypeOK, UsersHaveTenants
      <3>3. UNCHANGED <<tenant, user>>
        BY <1>2 DEF FindUser
      <3>4. QED
        BY <3>1, <3>2, <3>3, AccountFinishKeepsInv
    <2>2. CASE ~Finds(r)
      BY <1>2, <2>2, AccountStepKeepsInv DEF FindUser, AccountsInv, LookingInTenant
    <2>3. QED
      BY <2>1, <2>2
  <1>3. ASSUME NEW r \in AccountRequests, AbandonAccount(r) PROVE AccountsInv'
    BY <1>3, AccountFinishKeepsInv DEF AbandonAccount
  <1>4. CASE UNCHANGED accountsVars
    BY <1>4
    DEF accountsVars, AccountsInv, AccountsTypeOK, UnendedIsUnanswered, UsersHaveTenants,
        LookingInTenant, BootstrapIsAtomic, AnswersAreAccounts
  <1>5. QED
    BY <1>1, <1>2, <1>3, <1>4, AccountInsertTenantKeepsInv, AccountInsertUserKeepsInv
    DEF AccountsNext, Register, Bootstrap, Seed

\* The invariant holds in every reachable state.
LEMMA AccountInvHolds == AccountsSpec => []AccountsInv
  BY AccountInitInv, AccountStepInv, PTL DEF AccountsSpec

-----------------------------------------------------------------------------
(* Theorems *)

\* Every variable of the accounts keeps its type.
THEOREM AccountsTypeCorrect == AccountsSpec => []AccountsTypeOK
  <1>1. AccountsInv => AccountsTypeOK
    BY DEF AccountsInv
  <1>2. QED
    BY <1>1, AccountInvHolds, PTL

\* A tenant that bootstrap made has its admin from its first moment on.
THEOREM BootstrapAtomic == AccountsSpec => []BootstrapIsAtomic
  <1>1. AccountsInv => BootstrapIsAtomic
    BY DEF AccountsInv
  <1>2. QED
    BY <1>1, AccountInvHolds, PTL

\* Every answer names a user of the tenant that was asked for, which is there.
THEOREM AnswersNameAccounts == AccountsSpec => []AnswersAreAccounts
  <1>1. AccountsInv => AnswersAreAccounts
    BY DEF AccountsInv
  <1>2. QED
    BY <1>1, AccountInvHolds, PTL

\* Registration, bootstrap and the seed script implement a creation in one step
\* guarded by the email: one user for each, and no answer names another.
THEOREM AccountsRefine == AccountsSpec => AccountsImplementKeyedCreate
  <1>1. AccountsInit => KeyedAccounts!Init
    BY DEF AccountsInit, KeyedAccounts!Init, KeyedAccounts!Keys, Emails
  <1>2. AccountsInv /\ [AccountsNext]_accountsVars
        => [KeyedAccounts!Next]_<<user, accountAnswer>>
    <2> SUFFICES ASSUME AccountsInv, [AccountsNext]_accountsVars
                 PROVE  [KeyedAccounts!Next]_<<user, accountAnswer>>
      OBVIOUS
    <2> USE DEF AccountsInv
    <2>1. ASSUME NEW r \in AccountRequests, making[r] # "done", Finish(r, 0)
          PROVE  UNCHANGED accountAnswer
      BY <2>1 DEF Finish, AccountsTypeOK, UnendedIsUnanswered
    <2>2. ASSUME NEW r \in AccountRequests, FindTenant(r)
          PROVE  UNCHANGED <<user, accountAnswer>>
      BY <2>1, <2>2 DEF FindTenant, Step
    <2>3. ASSUME NEW r \in AccountRequests, InsertTenant(r)
          PROVE  UNCHANGED <<user, accountAnswer>>
      BY <2>1, <2>3 DEF InsertTenant, Step
    <2>4. ASSUME NEW r \in AccountRequests, FindUser(r)
          PROVE  KeyedAccounts!Next \/ UNCHANGED <<user, accountAnswer>>
      <3>1. making[r] # "done" /\ UNCHANGED user
        BY <2>4 DEF FindUser
      <3>2. CASE Finds(r) /\ Flow[r] # "register"
        <4>1. KeyedAccounts!Repeat(r)
          BY <2>4, <3>1, <3>2
          DEF FindUser, Finish, Finds, UnendedIsUnanswered, KeyedAccounts!Repeat
        <4>2. QED
          BY <4>1 DEF KeyedAccounts!Next
      <3>3. CASE ~(Finds(r) /\ Flow[r] # "register")
        BY <2>1, <2>4, <3>1, <3>3 DEF FindUser, Step
      <3>4. QED
        BY <3>2, <3>3
    <2>5. ASSUME NEW r \in AccountRequests, InsertUser(r)
          PROVE  KeyedAccounts!Next \/ UNCHANGED <<user, accountAnswer>>
      <3>1. making[r] # "done"
        BY <2>5 DEF InsertUser
      <3>2. CASE EmailIsFree(r)
        <4>1. accountAnswer' \in {accountAnswer, [accountAnswer EXCEPT ![r] = r]}
          BY <2>1, <2>5, <3>1, <3>2 DEF InsertUser, Finish
        <4>2. KeyedAccounts!Create(r)
          BY <2>5, <3>2, <4>1 DEF InsertUser, EmailIsFree, KeyedAccounts!Create
        <4>3. QED
          BY <4>2 DEF KeyedAccounts!Next
      <3>3. CASE ~EmailIsFree(r)
        BY <2>1, <2>5, <3>1, <3>3 DEF InsertUser
      <3>4. QED
        BY <3>2, <3>3
    <2>6. ASSUME NEW r \in AccountRequests, AbandonAccount(r)
          PROVE  UNCHANGED <<user, accountAnswer>>
      BY <2>1, <2>6 DEF AbandonAccount
    <2>7. CASE UNCHANGED accountsVars
      BY <2>7 DEF accountsVars
    <2>8. QED
      BY <2>2, <2>3, <2>4, <2>5, <2>6, <2>7 DEF AccountsNext, Register, Bootstrap, Seed
  <1>3. QED
    BY <1>1, <1>2, AccountInvHolds, PTL
    DEF AccountsSpec, AccountsImplementKeyedCreate, KeyedAccounts!Spec

\* An email has one user, whichever of register, bootstrap and the seed script
\* meet on it, and keeps that user.
THEOREM AccountsIdempotent ==
    AccountsSpec => []KeyedAccounts!OneRowPerKey /\ KeyedAccounts!NothingTakenBack
  BY AccountsRefine, KeyedAccounts!KeyedIsIdempotent, PTL DEF AccountsImplementKeyedCreate

-----------------------------------------------------------------------------
(* The run of all services *)

\* In the run of all services every component behaves as it is specified.
THEOREM RunFollowsSpecifications ==
    MCSpec => /\ PaymentsSpec /\ OrderCreationSpec /\ AccountsSpec /\ CatalogSpec
              /\ PagesSpec /\ LedgerSpec /\ StartUpSpec
  <1>1. MCInit => /\ PaymentsInit /\ OrderCreationInit /\ AccountsInit /\ CatalogInit
                  /\ PagesInit /\ LedgerInit /\ StartUpInit
    BY DEF MCInit, Inits
  <1>2. [MCNext]_mcVars =>
            /\ [PaymentsNext]_paymentsVars /\ [OrderCreationNext]_orderCreationVars
            /\ [AccountsNext]_accountsVars /\ [CatalogNext]_catalogVars
            /\ [PagesNext]_pagesVars /\ [LedgerNext]_ledgerVars
            /\ [StartUpNext]_startUpVars
    BY DEF MCNext, mcVars
  <1>3. QED
    BY <1>1, <1>2, PTL
    DEF MCSpec, PaymentsSpec, OrderCreationSpec, AccountsSpec, CatalogSpec, PagesSpec,
        LedgerSpec, StartUpSpec

\* Every variable has its type in it.
THEOREM ServicesTypeCorrect == MCSpec => []ServicesTypeOK
  BY RunFollowsSpecifications, PaymentsTypeCorrect, OrderCreationTypeCorrect,
     AccountsTypeCorrect, CatalogTypeCorrect, PagesTypeCorrect, LedgerTypeCorrect,
     StartUpTypeCorrect, PTL DEF ServicesTypeOK

=============================================================================
