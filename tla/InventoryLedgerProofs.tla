----------------------- MODULE InventoryLedgerProofs -----------------------
(* Theorems about InventoryLedger, for every set of orders and quantities and *)
(* every sequence of calls.  The inductive invariant adds to the properties   *)
(* that reserved_quantity is what the open reservations add up to, as long as *)
(* none was sold or released that was not open: only then does a release      *)
(* never meet the max(0, ...) that would hide a loss.                         *)
EXTENDS InventoryLedger, FiniteSums

USE InventoryLedgerAssumption

Holders == {b \in Buyers : Holds(b)}

\* The ledger is finite, nothing happens to a product before it has a row, and if
\* nothing went astray a settled reservation was made.
BookInv ==
    /\ LedgerTypeOK
    /\ IsFiniteSet(ledger)
    /\ ~stocked => ledger = {} /\ onHand = 0 /\ held = 0 /\ opening = 0 /\ ~astray
    /\ ~astray => \A b \in Buyers :
           Recorded(SaleKey(b)) \/ Recorded(ReleaseKey(b)) => Recorded(ReserveKey(b))

\* What is reserved is what the open reservations add up to, unless a sale or a
\* release was made for none.
HoldersInv == ~astray => IsFiniteSet(Holders) /\ held = SumOf(Wanted, Holders)

LedgerInv == BookInv /\ HoldersInv /\ LedgerExplainsStock /\ StockCoversOrders

-----------------------------------------------------------------------------
(* Totals *)

Of(types) == {e \in ledger : e.type \in types}
Changes == [e \in ledger |-> e.change]

LEMMA TotalIs == BookInv => \A types : Total(types) = SumOf(Changes, Of(types))
<1> SUFFICES ASSUME BookInv, NEW types PROVE Total(types) = SumOf(Changes, Of(types))
  OBVIOUS
<1> DEFINE S == Of(types)
           f == Changes
           Iter(h) == h = [s \in SUBSET S |->
               IF s = {} THEN 0 ELSE First(s).change + h[s \ {First(s)}]]
<1>1. Total(types) = (CHOOSE h : Iter(h))[S]
  BY DEF Total, MapThenSumSet, MapThenFoldSet, First, Of
<1>2. IsFiniteSet(S) /\ \A e \in S : f[e] \in Int /\ f[e] = e.change
  <2>1. S \in SUBSET ledger
    BY DEF Of
  <2> QED
    BY <2>1, FS_Subset DEF BookInv, LedgerTypeOK, Changes
<1> HIDE DEF S, f
<1>3. ASSUME NEW h PROVE Iter(h) <=> Sums(f, S, h)
  <2>1. \A s \in SUBSET S : s # {} => f[First(s)] = First(s).change
    BY <1>2, FirstIn
  <2>2. [s \in SUBSET S |-> IF s = {} THEN 0 ELSE First(s).change + h[s \ {First(s)}]]
        = [s \in SUBSET S |-> IF s = {} THEN 0 ELSE f[First(s)] + h[s \ {First(s)}]]
    BY <2>1
  <2> QED
    BY <2>2 DEF Sums
<1> HIDE DEF Iter
<1>4. PICK k : Sums(f, S, k)
  BY <1>2, SumOfIs
<1>5. Iter(CHOOSE h : Iter(h))
  BY <1>3, <1>4
<1> QED
  BY <1>1, <1>2, <1>3, <1>5, SumsEnd DEF f, S

LEMMA TotalIsAfter == (BookInv => \A types : Total(types) = SumOf(Changes, Of(types)))'
BY TotalIs, PTL

LEMMA TotalType == ASSUME BookInv, NEW types PROVE Total(types) \in Int
<1>1. IsFiniteSet(Of(types)) /\ \A e \in Of(types) : Changes[e] \in Int
  <2>1. Of(types) \in SUBSET ledger
    BY DEF Of
  <2> QED
    BY <2>1, FS_Subset DEF BookInv, LedgerTypeOK, Changes, Of
<1> QED
  BY <1>1, TotalIs, SumType

\* A new entry adds its change to the totals of its type, to no other.
LEMMA TotalRecord ==
    ASSUME BookInv, BookInv', NEW e, e \notin ledger, ledger' = ledger \union {e}, NEW types
    PROVE  Total(types)' = Total(types) + IF e.type \in types THEN e.change ELSE 0
<1> DEFINE S == Of(types)
<1>1. IsFiniteSet(S) /\ S \in SUBSET ledger
  BY FS_Subset DEF BookInv, Of
<1>2. \A x \in S : Changes[x] \in Int /\ Changes'[x] = Changes[x]
  BY <1>1 DEF BookInv, LedgerTypeOK, Changes
<1>3. e.change \in Int /\ Changes'[e] = e.change
  BY DEF BookInv, LedgerTypeOK, Changes
<1>4. SumOf(Changes', S) = SumOf(Changes, S) /\ SumOf(Changes, S) \in Int
  BY <1>1, <1>2, SumAgree, SumType
<1>5. Total(types) = SumOf(Changes, S) /\ Total(types)' = SumOf(Changes', S')
  BY TotalIs, TotalIsAfter
<1>6. CASE e.type \in types
  <2>1. S' = S \union {e} /\ e \notin S /\ (S \union {e}) \ {e} = S
    BY <1>6 DEF Of
  <2>2. IsFiniteSet(S \union {e}) /\ \A x \in S \union {e} : Changes'[x] \in Int
    BY <1>1, <1>2, <1>3, FS_AddElement
  <2>3. SumOf(Changes', S \union {e}) = Changes'[e] + SumOf(Changes', S)
    <3> HIDE DEF S
    <3>1. e \in S \union {e}
      OBVIOUS
    <3> QED
      BY <2>1, <2>2, <3>1, SumRemove
  <2> QED
    BY <1>3, <1>4, <1>5, <1>6, <2>1, <2>3
<1>7. CASE e.type \notin types
  <2>1. S' = S
    BY <1>7 DEF Of
  <2> QED
    BY <1>4, <1>5, <1>7, <2>1
<1> QED
  BY <1>6, <1>7

-----------------------------------------------------------------------------
(* Steps *)

\* What a step records under a key of its own.
LEMMA RecordIs ==
    ASSUME NEW e, Record(e)
    PROVE  /\ e \notin ledger /\ ledger' = ledger \union {e}
           /\ ~Recorded(e.key)
           /\ \A key : Recorded(key)' <=> Recorded(key) \/ key = e.key
BY DEF Record, Recorded

\* Keys of different kinds, or of different orders, are different.
LEMMA KeysDiffer ==
    ASSUME NEW b, NEW c
    PROVE  /\ ReserveKey(b) = ReserveKey(c) => b = c
           /\ SaleKey(b) = SaleKey(c) => b = c
           /\ ReleaseKey(b) = ReleaseKey(c) => b = c
           /\ ReserveKey(b) # SaleKey(c) /\ ReserveKey(b) # ReleaseKey(c) /\ SaleKey(b) # ReleaseKey(c)
           /\ \A k \in {ReserveKey(b), SaleKey(b), ReleaseKey(b)} :
                 k # InitKey /\ \A x, y : k # AdjustKey(x, y)
<1>1. /\ ReserveKey(b)[1] = "reserve" /\ ReserveKey(b)[2] = b
      /\ SaleKey(b)[1] = "sale" /\ SaleKey(b)[2] = b
      /\ ReleaseKey(b)[1] = "release" /\ ReleaseKey(b)[2] = b
  BY DEF ReserveKey, SaleKey, ReleaseKey
<1>2. /\ ReserveKey(c)[1] = "reserve" /\ ReserveKey(c)[2] = c
      /\ SaleKey(c)[1] = "sale" /\ SaleKey(c)[2] = c
      /\ ReleaseKey(c)[1] = "release" /\ ReleaseKey(c)[2] = c
  BY DEF ReserveKey, SaleKey, ReleaseKey
<1>3. InitKey[1] = "init" /\ \A x, y : AdjustKey(x, y)[1] = "adj"
  BY DEF InitKey, AdjustKey
<1> QED
  BY <1>1, <1>2, <1>3

\* An entry of the stock itself changes no reservation.
LEMMA StockEntry ==
    ASSUME LedgerInv, UNCHANGED <<held, astray>>,
           \/ UNCHANGED ledger
           \/ \E e : /\ Record(e) /\ e.change \in Int \ {0}
                     /\ e.key = InitKey \/ \E x, y : e.key = AdjustKey(x, y)
    PROVE  /\ HoldersInv'
           /\ \A b \in Buyers : /\ Recorded(ReserveKey(b))' <=> Recorded(ReserveKey(b))
                                /\ Recorded(SaleKey(b))' <=> Recorded(SaleKey(b))
                                /\ Recorded(ReleaseKey(b))' <=> Recorded(ReleaseKey(b))
           /\ IsFiniteSet(ledger')
           /\ \A e \in ledger' : e.change \in Int \ {0}
<1>1. \A b \in Buyers : /\ Recorded(ReserveKey(b))' <=> Recorded(ReserveKey(b))
                        /\ Recorded(SaleKey(b))' <=> Recorded(SaleKey(b))
                        /\ Recorded(ReleaseKey(b))' <=> Recorded(ReleaseKey(b))
  <2>1. CASE UNCHANGED ledger
    BY <2>1 DEF Recorded
  <2>2. ASSUME NEW e, Record(e), e.key = InitKey \/ \E x, y : e.key = AdjustKey(x, y)
        PROVE  \A b \in Buyers : /\ Recorded(ReserveKey(b))' <=> Recorded(ReserveKey(b))
                                 /\ Recorded(SaleKey(b))' <=> Recorded(SaleKey(b))
                                 /\ Recorded(ReleaseKey(b))' <=> Recorded(ReleaseKey(b))
    BY <2>2, RecordIs, KeysDiffer
  <2> QED
    BY <2>1, <2>2
<1>2. Holders' = Holders
  BY <1>1 DEF Holders, Holds
<1>3. HoldersInv'
  BY <1>2 DEF LedgerInv, HoldersInv
<1>4. IsFiniteSet(ledger') /\ \A e \in ledger' : e.change \in Int \ {0}
  BY RecordIs, FS_AddElement DEF LedgerInv, BookInv, LedgerTypeOK
<1> QED
  BY <1>1, <1>3, <1>4

\* What the three totals are after a step.
OnHandTotal == Total({"purchase", "adjustment", "sale"})
SaleTotal == Total({"sale"})
OpenTotal == Total({"reservation", "release"})

LEMMA TotalsStep ==
    ASSUME BookInv, BookInv', NEW e, Record(e)
    PROVE  /\ OnHandTotal \in Int /\ SaleTotal \in Int /\ OpenTotal \in Int
           /\ OnHandTotal' = OnHandTotal + IF e.type \in {"purchase", "adjustment", "sale"}
                                           THEN e.change ELSE 0
           /\ SaleTotal' = SaleTotal + IF e.type = "sale" THEN e.change ELSE 0
           /\ OpenTotal' = OpenTotal + IF e.type \in {"reservation", "release"}
                                       THEN e.change ELSE 0
BY RecordIs, TotalType, TotalRecord DEF OnHandTotal, SaleTotal, OpenTotal

LEMMA TotalsStay ==
    ASSUME BookInv, BookInv', UNCHANGED ledger
    PROVE  OnHandTotal' = OnHandTotal /\ SaleTotal' = SaleTotal /\ OpenTotal' = OpenTotal
<1>1. ASSUME NEW types PROVE Total(types)' = Total(types)
  <2>1. Of(types)' = Of(types) /\ Changes' = Changes
    BY DEF Of, Changes
  <2> QED
    BY <2>1, TotalIs, TotalIsAfter
<1> QED
  BY <1>1 DEF OnHandTotal, SaleTotal, OpenTotal

LEMMA InitializeStep ==
    ASSUME LedgerInv, NEW n \in Stocks, Initialize(n)
    PROVE  LedgerInv'
<1>0. /\ ~stocked /\ stocked' = TRUE /\ onHand' = n /\ UNCHANGED <<held, astray>>
      /\ undercut' = (n < held)
      /\ n \in Int /\ ledger = {} /\ onHand = 0 /\ held = 0 /\ opening = 0
      /\ astray \in BOOLEAN
  BY DEF Initialize, LedgerInv, BookInv, LedgerTypeOK
<1> DEFINE e == Entry(InitKey, "purchase", n)
<1>1. e.key = InitKey /\ e.type = "purchase" /\ e.change = n
  BY DEF Entry
<1>2. IF n > 0 THEN Record(e) /\ opening' = 0 ELSE opening' = n /\ UNCHANGED ledger
  BY <1>0 DEF Initialize
<1> HIDE DEF e
<1>3. /\ HoldersInv'
      /\ \A b \in Buyers : /\ Recorded(ReserveKey(b))' <=> Recorded(ReserveKey(b))
                           /\ Recorded(SaleKey(b))' <=> Recorded(SaleKey(b))
                           /\ Recorded(ReleaseKey(b))' <=> Recorded(ReleaseKey(b))
      /\ IsFiniteSet(ledger')
      /\ \A x \in ledger' : x.change \in Int \ {0}
  BY <1>0, <1>1, <1>2, StockEntry
<1>4. LedgerTypeOK'
  <2>1. stocked' \in BOOLEAN /\ astray' \in BOOLEAN
    BY <1>0, Zenon
  <2>2. undercut' \in BOOLEAN
    BY <1>0, SMT
  <2>3. onHand' \in Int /\ held' \in Int /\ opening' \in Int
    BY <1>0, <1>2
  <2> QED
    BY <1>3, <2>1, <2>2, <2>3 DEF LedgerTypeOK
<1>5. BookInv'
  BY <1>0, <1>3, <1>4 DEF LedgerInv, BookInv
<1>6. LedgerExplainsStock'
  <2>1. /\ onHand = opening + OnHandTotal /\ held >= SaleTotal - OpenTotal
        /\ astray \/ held = SaleTotal - OpenTotal
    BY DEF LedgerInv, LedgerExplainsStock, Reserved, OnHandTotal, SaleTotal, OpenTotal
  <2>2. /\ onHand' = opening' + OnHandTotal' /\ held' >= SaleTotal' - OpenTotal'
        /\ astray' \/ held' = SaleTotal' - OpenTotal'
    <3>1. CASE n > 0
      <4>1. /\ OnHandTotal' = OnHandTotal + n /\ SaleTotal' = SaleTotal /\ OpenTotal' = OpenTotal
            /\ OnHandTotal \in Int /\ SaleTotal \in Int /\ OpenTotal \in Int
        BY <1>1, <1>2, <1>5, <3>1, TotalsStep DEF LedgerInv
      <4>2. astray' = astray
        BY <1>0
      <4> QED
        BY <1>0, <1>2, <2>1, <3>1, <4>1, <4>2
    <3>2. CASE ~(n > 0)
      <4>1. /\ OnHandTotal' = OnHandTotal /\ SaleTotal' = SaleTotal /\ OpenTotal' = OpenTotal
            /\ OnHandTotal \in Int /\ SaleTotal \in Int /\ OpenTotal \in Int
        BY <1>2, <1>5, <3>2, TotalsStay, TotalType DEF LedgerInv, OnHandTotal, SaleTotal, OpenTotal
      <4>2. astray' = astray
        BY <1>0
      <4> QED
        BY <1>0, <1>2, <2>1, <3>2, <4>1, <4>2
    <3> QED
      BY <3>1, <3>2
  <2> QED
    BY <2>2 DEF LedgerExplainsStock, Reserved, OnHandTotal, SaleTotal, OpenTotal
<1>7. StockCoversOrders'
  <2>1. CASE n < held
    <3>1. undercut'
      BY <1>0, <2>1, Zenon
    <3> QED
      BY <1>0, <3>1 DEF StockCoversOrders
  <2>2. CASE ~(n < held)
    BY <1>0, <2>2 DEF StockCoversOrders
  <2> QED
    BY <2>1, <2>2
<1> QED
  BY <1>3, <1>5, <1>6, <1>7 DEF LedgerInv

LEMMA AdjustStep ==
    ASSUME LedgerInv, NEW n \in Stocks, Adjust(n)
    PROVE  LedgerInv'
<1>0. /\ stocked /\ onHand' = n /\ UNCHANGED <<stocked, held, opening, astray>>
      /\ undercut' = (undercut \/ n < held)
      /\ n \in Int /\ onHand \in Int /\ held \in Int /\ opening \in Int
      /\ undercut \in BOOLEAN /\ astray \in BOOLEAN
  BY DEF Adjust, LedgerInv, BookInv, LedgerTypeOK
<1> DEFINE e == Entry(AdjustKey(onHand, n), "adjustment", n - onHand)
<1>1. e.key = AdjustKey(onHand, n) /\ e.type = "adjustment" /\ e.change = n - onHand
  BY DEF Entry
<1>2. IF n # onHand THEN Record(e) ELSE UNCHANGED ledger
  BY DEF Adjust
<1> HIDE DEF e
<1>3. /\ HoldersInv'
      /\ \A b \in Buyers : /\ Recorded(ReserveKey(b))' <=> Recorded(ReserveKey(b))
                           /\ Recorded(SaleKey(b))' <=> Recorded(SaleKey(b))
                           /\ Recorded(ReleaseKey(b))' <=> Recorded(ReleaseKey(b))
      /\ IsFiniteSet(ledger')
      /\ \A x \in ledger' : x.change \in Int \ {0}
  BY <1>0, <1>1, <1>2, StockEntry
<1>4. LedgerTypeOK'
  <2>1. undercut' \in BOOLEAN
    BY <1>0, Zenon
  <2> QED
    BY <1>0, <1>3, <2>1 DEF LedgerInv, BookInv, LedgerTypeOK
<1>5. BookInv'
  BY <1>0, <1>3, <1>4 DEF LedgerInv, BookInv
<1>6. LedgerExplainsStock'
  <2>1. /\ onHand = opening + OnHandTotal /\ held >= SaleTotal - OpenTotal
        /\ astray \/ held = SaleTotal - OpenTotal
    BY DEF LedgerInv, LedgerExplainsStock, Reserved, OnHandTotal, SaleTotal, OpenTotal
  <2>2. /\ OnHandTotal' = OnHandTotal + (n - onHand) /\ OnHandTotal \in Int
        /\ SaleTotal' = SaleTotal /\ OpenTotal' = OpenTotal
        /\ SaleTotal \in Int /\ OpenTotal \in Int
    <3>1. CASE n # onHand
      BY <1>1, <1>2, <1>5, <3>1, TotalsStep DEF LedgerInv
    <3>2. CASE n = onHand
      <4>1. OnHandTotal \in Int /\ SaleTotal \in Int /\ OpenTotal \in Int
        BY TotalType DEF LedgerInv, OnHandTotal, SaleTotal, OpenTotal
      <4> QED
        BY <1>0, <1>2, <1>5, <3>2, <4>1, TotalsStay DEF LedgerInv
    <3> QED
      BY <3>1, <3>2
  <2>3. onHand' = opening' + OnHandTotal' /\ held' >= SaleTotal' - OpenTotal'
    BY <1>0, <2>1, <2>2
  <2>4. astray' \/ held' = SaleTotal' - OpenTotal'
    BY <1>0, <2>1, <2>2
  <2> QED
    BY <2>3, <2>4 DEF LedgerExplainsStock, Reserved, OnHandTotal, SaleTotal, OpenTotal
<1>7. StockCoversOrders'
  <2>1. /\ astray \/ 0 <= held
        /\ undercut \/ held <= onHand \/ (astray /\ held <= 0)
    BY DEF LedgerInv, StockCoversOrders
  <2>2. astray' = astray /\ held' = held
    BY <1>0
  <2>3. CASE undercut \/ n < held
    <3>1. undercut'
      BY <1>0, <2>3, Zenon
    <3> QED
      BY <2>1, <2>2, <3>1 DEF StockCoversOrders
  <2>4. CASE ~(undercut \/ n < held)
    <3>1. held' <= onHand'
      BY <1>0, <2>4
    <3> QED
      BY <2>1, <2>2, <3>1 DEF StockCoversOrders
  <2> QED
    BY <2>3, <2>4
<1> QED
  BY <1>3, <1>5, <1>6, <1>7 DEF LedgerInv

\* An entry of one order opens or settles its reservation and no other.
LEMMA OrderEntry ==
    ASSUME LedgerInv, NEW b \in Buyers, NEW e, Record(e), e.change \in Int \ {0}, UNCHANGED stocked,
           stocked,
           \/ e.key = ReserveKey(b) /\ UNCHANGED astray
           \/ e.key \in {SaleKey(b), ReleaseKey(b)} /\ astray' = (astray \/ ~Holds(b))
    PROVE  /\ IsFiniteSet(ledger') /\ \A x \in ledger' : x.change \in Int \ {0}
           /\ astray => astray'
           /\ ~astray' =>
                 /\ \A c \in Buyers : Recorded(SaleKey(c))' \/ Recorded(ReleaseKey(c))'
                                       => Recorded(ReserveKey(c))'
                 /\ IF e.key = ReserveKey(b) THEN b \notin Holders /\ Holders' = Holders \union {b}
                    ELSE b \in Holders /\ Holders' = Holders \ {b}
<1>1. \A key : Recorded(key)' <=> Recorded(key) \/ key = e.key
  BY RecordIs
<1>2. ~astray => \A c \in Buyers : Recorded(SaleKey(c)) \/ Recorded(ReleaseKey(c))
                                    => Recorded(ReserveKey(c))
  BY DEF LedgerInv, BookInv
<1>3. \A c \in Buyers \ {b} : /\ Recorded(ReserveKey(c))' <=> Recorded(ReserveKey(c))
                              /\ Recorded(SaleKey(c))' <=> Recorded(SaleKey(c))
                              /\ Recorded(ReleaseKey(c))' <=> Recorded(ReleaseKey(c))
  BY <1>1, KeysDiffer
<1>4. IsFiniteSet(ledger') /\ \A x \in ledger' : x.change \in Int \ {0}
  BY RecordIs, FS_AddElement DEF LedgerInv, BookInv, LedgerTypeOK
<1>5. astray => astray'
  BY Zenon
<1>6. CASE e.key = ReserveKey(b) /\ ~astray'
  <2>1. ~Recorded(ReserveKey(b)) /\ ~astray
    BY <1>5, <1>6, RecordIs
  <2>2. Recorded(ReserveKey(b))' /\ ~Recorded(SaleKey(b))' /\ ~Recorded(ReleaseKey(b))'
    BY <1>1, <1>2, <1>6, <2>1, KeysDiffer
  <2>3. b \notin Holders /\ Holders' = Holders \union {b}
    BY <1>3, <2>1, <2>2 DEF Holders, Holds
  <2> QED
    BY <1>2, <1>3, <1>4, <1>5, <1>6, <2>1, <2>2, <2>3
<1>7. CASE e.key # ReserveKey(b) /\ ~astray'
  <2>1. e.key \in {SaleKey(b), ReleaseKey(b)} /\ Holds(b) /\ ~astray
    <3>1. e.key \in {SaleKey(b), ReleaseKey(b)} /\ astray' = (astray \/ ~Holds(b))
      BY <1>7
    <3>2. Holds(b) /\ ~astray
      BY <1>7, <3>1, Zenon
    <3> QED
      BY <3>1, <3>2
  <2>2. Recorded(ReserveKey(b))' /\ (Recorded(SaleKey(b))' \/ Recorded(ReleaseKey(b))')
    BY <1>1, <2>1 DEF Holds
  <2>3. b \in Holders /\ Holders' = Holders \ {b}
    BY <1>3, <2>1, <2>2 DEF Holders, Holds
  <2> QED
    BY <1>2, <1>3, <1>4, <1>5, <1>7, <2>1, <2>2, <2>3
<1> QED
  BY <1>4, <1>5, <1>6, <1>7

LEMMA ReserveStep ==
    ASSUME LedgerInv, NEW b \in Buyers, ReserveFor(b)
    PROVE  LedgerInv'
<1> DEFINE e == Entry(ReserveKey(b), "reservation", -Wanted[b])
<1>0. /\ stocked /\ onHand - held >= Wanted[b] /\ held' = held + Wanted[b]
      /\ UNCHANGED <<stocked, onHand, opening, undercut, astray>>
      /\ Record(e)
      /\ Wanted[b] \in Nat \ {0} /\ onHand \in Int /\ held \in Int
  BY DEF ReserveFor, Available, LedgerInv, BookInv, LedgerTypeOK
<1>1. e.key = ReserveKey(b) /\ e.type = "reservation" /\ e.change = -Wanted[b]
  BY DEF Entry
<1> HIDE DEF e
<1>2. /\ IsFiniteSet(ledger') /\ \A x \in ledger' : x.change \in Int \ {0}
      /\ ~astray => /\ \A c \in Buyers : Recorded(SaleKey(c))' \/ Recorded(ReleaseKey(c))'
                                          => Recorded(ReserveKey(c))'
                    /\ b \notin Holders /\ Holders' = Holders \union {b}
  BY <1>0, <1>1, OrderEntry
<1>3. BookInv'
  BY <1>0, <1>2 DEF LedgerInv, BookInv, LedgerTypeOK
<1>4. HoldersInv'
  <2> SUFFICES ASSUME ~astray PROVE HoldersInv'
    BY <1>0 DEF HoldersInv
  <2>1. IsFiniteSet(Holders) /\ held = SumOf(Wanted, Holders) /\ Holders \subseteq Buyers
    BY DEF LedgerInv, HoldersInv, Holders
  <2>2. IsFiniteSet(Holders \union {b}) /\ \A x \in Holders \union {b} : Wanted[x] \in Int
    BY <2>1, FS_AddElement
  <2>3. (Holders \union {b}) \ {b} = Holders /\ b \in Holders \union {b}
    BY <1>2
  <2>4. SumOf(Wanted, Holders \union {b}) = Wanted[b] + SumOf(Wanted, Holders)
    BY <2>2, <2>3, SumRemove
  <2>5. Holders' = Holders \union {b} /\ held' = SumOf(Wanted, Holders \union {b})
    <3>1. SumOf(Wanted, Holders) = held
      BY <2>1
    <3> QED
      BY <1>0, <1>2, <2>4, <3>1
  <2> QED
    BY <2>2, <2>5 DEF HoldersInv
<1>5. LedgerExplainsStock'
  <2>1. /\ onHand = opening + OnHandTotal /\ held >= SaleTotal - OpenTotal
        /\ astray \/ held = SaleTotal - OpenTotal
    BY DEF LedgerInv, LedgerExplainsStock, Reserved, OnHandTotal, SaleTotal, OpenTotal
  <2>2. /\ OnHandTotal' = OnHandTotal /\ SaleTotal' = SaleTotal
        /\ OpenTotal' = OpenTotal - Wanted[b] /\ SaleTotal \in Int /\ OpenTotal \in Int
        /\ OnHandTotal \in Int
    BY <1>0, <1>1, <1>3, TotalsStep DEF LedgerInv
  <2>3. onHand' = opening' + OnHandTotal' /\ held' >= SaleTotal' - OpenTotal'
    BY <1>0, <2>1, <2>2
  <2>4. astray' \/ held' = SaleTotal' - OpenTotal'
    BY <1>0, <2>1, <2>2
  <2> QED
    BY <2>3, <2>4 DEF LedgerExplainsStock, Reserved, OnHandTotal, SaleTotal, OpenTotal
<1>6. StockCoversOrders'
  <2>1. held' <= onHand'
    BY <1>0
  <2>2. astray' \/ 0 <= held'
    <3>1. astray \/ 0 <= held
      BY DEF LedgerInv, StockCoversOrders
    <3> QED
      BY <1>0, <3>1
  <2> QED
    BY <2>1, <2>2 DEF StockCoversOrders
<1> QED
  BY <1>3, <1>4, <1>5, <1>6 DEF LedgerInv

\* An open reservation is part of what is reserved, and settling it takes
\* exactly that part.
LEMMA HeldCovers ==
    ASSUME LedgerInv, ~astray, NEW b \in Holders
    PROVE  /\ held >= Wanted[b]
           /\ IsFiniteSet(Holders \ {b}) /\ held - Wanted[b] = SumOf(Wanted, Holders \ {b})
<1>1. IsFiniteSet(Holders) /\ held = SumOf(Wanted, Holders) /\ Holders \subseteq Buyers
  BY DEF LedgerInv, HoldersInv, Holders
<1>2. \A x \in Holders : Wanted[x] \in Int /\ Wanted[x] \in Nat
  BY <1>1
<1>3. SumOf(Wanted, Holders) = Wanted[b] + SumOf(Wanted, Holders \ {b})
  BY <1>1, <1>2, SumRemove
<1>4. IsFiniteSet(Holders \ {b})
  BY <1>1, FS_RemoveElement
<1>5. SumOf(Wanted, Holders \ {b}) \in Nat
  BY <1>2, <1>4, SumNat
<1> QED
  BY <1>1, <1>2, <1>3, <1>4, <1>5

LEMMA SettleStep ==
    ASSUME LedgerInv, NEW b \in Buyers, CommitSale(b) \/ Release(b)
    PROVE  LedgerInv'
<1>0. /\ stocked /\ UNCHANGED <<stocked, opening, undercut>>
      /\ astray' = (astray \/ ~Holds(b))
      /\ Wanted[b] \in Nat \ {0} /\ onHand \in Int /\ held \in Int /\ opening \in Int
      /\ astray \in BOOLEAN
      /\ BookInv
  BY DEF CommitSale, Release, LedgerInv, BookInv, LedgerTypeOK
<1>1. ~astray' => ~astray /\ Holds(b) /\ b \in Holders
  <2>1. ~astray' => ~astray /\ Holds(b)
    BY <1>0, Zenon
  <2> QED
    BY <2>1 DEF Holders
<1>2. ~astray' => held >= Wanted[b]
  BY <1>1, HeldCovers
<1>3. PICK e : /\ Record(e)
               /\ \/ /\ e.key = SaleKey(b) /\ e.type = "sale" /\ e.change = -Wanted[b]
                     /\ onHand' = onHand - Wanted[b]
                     /\ held' = held - Wanted[b]
                  \/ /\ e.key = ReleaseKey(b) /\ e.type = "release" /\ e.change = Wanted[b]
                     /\ onHand' = onHand
                     /\ held' = IF held > Wanted[b] THEN held - Wanted[b] ELSE 0
  <2>1. CASE CommitSale(b)
    <3> DEFINE e == Entry(SaleKey(b), "sale", -Wanted[b])
    <3>1. e.key = SaleKey(b) /\ e.type = "sale" /\ e.change = -Wanted[b]
      BY DEF Entry
    <3>2. Record(e) /\ onHand' = onHand - Wanted[b] /\ held' = held - Wanted[b]
      BY <2>1 DEF CommitSale
    <3> HIDE DEF e
    <3> QED
      BY <3>1, <3>2
  <2>2. CASE Release(b)
    <3> DEFINE e == Entry(ReleaseKey(b), "release", Wanted[b])
    <3>1. e.key = ReleaseKey(b) /\ e.type = "release" /\ e.change = Wanted[b]
      BY DEF Entry
    <3>2. Record(e) /\ onHand' = onHand
          /\ held' = IF held > Wanted[b] THEN held - Wanted[b] ELSE 0
      BY <2>2 DEF Release
    <3> HIDE DEF e
    <3> QED
      BY <3>1, <3>2
  <2> QED
    BY <2>1, <2>2
<1>4. e.key # ReserveKey(b) /\ e.change \in Int \ {0} /\ e.key \in {SaleKey(b), ReleaseKey(b)}
  BY <1>0, <1>3, KeysDiffer
<1>5. /\ IsFiniteSet(ledger') /\ \A x \in ledger' : x.change \in Int \ {0}
      /\ ~astray' => /\ \A c \in Buyers : Recorded(SaleKey(c))' \/ Recorded(ReleaseKey(c))'
                                           => Recorded(ReserveKey(c))'
                     /\ Holders' = Holders \ {b}
  BY <1>0, <1>3, <1>4, OrderEntry
<1>6. BookInv'
  <2>1. astray' \in BOOLEAN
    BY <1>0, Zenon
  <2>2. onHand' \in Int /\ held' \in Int
    BY <1>0, <1>3
  <2> QED
    BY <1>0, <1>5, <2>1, <2>2 DEF BookInv, LedgerTypeOK
<1>7. HoldersInv'
  <2> SUFFICES ASSUME ~astray' PROVE HoldersInv'
    BY DEF HoldersInv
  <2>1. held' = held - Wanted[b]
    BY <1>0, <1>2, <1>3
  <2> QED
    BY <1>1, <1>5, <2>1, HeldCovers DEF HoldersInv
<1>8. LedgerExplainsStock'
  <2>1. /\ onHand = opening + OnHandTotal /\ held >= SaleTotal - OpenTotal
        /\ astray \/ held = SaleTotal - OpenTotal
    BY DEF LedgerInv, LedgerExplainsStock, Reserved, OnHandTotal, SaleTotal, OpenTotal
  <2>2. /\ OnHandTotal' = OnHandTotal + (onHand' - onHand)
        /\ SaleTotal' - OpenTotal' = SaleTotal - OpenTotal - Wanted[b]
        /\ SaleTotal \in Int /\ OpenTotal \in Int /\ OnHandTotal \in Int
    BY <1>0, <1>3, <1>6, TotalsStep
  <2>3. onHand' = opening' + OnHandTotal'
    BY <1>0, <1>3, <2>1, <2>2
  <2>4. held' >= held - Wanted[b] /\ (~astray' => held' = held - Wanted[b])
    BY <1>0, <1>2, <1>3
  <2>5. held' >= SaleTotal' - OpenTotal'
    BY <1>0, <1>3, <2>1, <2>2, <2>4
  <2>6. ~astray' => held' = SaleTotal' - OpenTotal'
    BY <1>0, <1>1, <1>3, <2>1, <2>2, <2>4
  <2> QED
    BY <2>3, <2>5, <2>6 DEF LedgerExplainsStock, Reserved, OnHandTotal, SaleTotal, OpenTotal
<1>9. StockCoversOrders'
  <2>1. /\ astray \/ 0 <= held
        /\ undercut \/ held <= onHand \/ (astray /\ held <= 0)
    BY DEF LedgerInv, StockCoversOrders
  <2>2. undercut' = undercut /\ (astray => astray')
    BY <1>0, Zenon
  <2>3. astray' \/ 0 <= held'
    BY <1>0, <1>2, <1>3
  <2>4. held <= onHand => held' <= onHand' \/ (astray' /\ held' <= 0)
    BY <1>0, <1>2, <1>3
  <2>5. held <= 0 => held' <= 0
    BY <1>0, <1>3
  <2> QED
    BY <2>1, <2>2, <2>3, <2>4, <2>5 DEF StockCoversOrders
<1> QED
  BY <1>6, <1>7, <1>8, <1>9 DEF LedgerInv

LEMMA LedgerInvInit == LedgerInit => LedgerInv
<1> SUFFICES ASSUME LedgerInit PROVE LedgerInv
  OBVIOUS
<1>1. BookInv
  <2>1. ledger = {} /\ IsFiniteSet(ledger) /\ \A key : ~Recorded(key)
    BY FS_EmptySet DEF LedgerInit, Recorded
  <2>2. LedgerTypeOK
    <3>1. stocked \in BOOLEAN /\ undercut \in BOOLEAN /\ astray \in BOOLEAN
      BY Zenon DEF LedgerInit
    <3>2. onHand \in Int /\ held \in Int /\ opening \in Int
      BY DEF LedgerInit
    <3> QED
      BY <2>1, <3>1, <3>2 DEF LedgerTypeOK
  <2>3. onHand = 0 /\ held = 0 /\ opening = 0 /\ ~astray
    BY DEF LedgerInit
  <2> QED
    BY <2>1, <2>2, <2>3 DEF BookInv
<1>2. Holders = {}
  BY DEF LedgerInit, Holders, Holds, Recorded
<1>3. HoldersInv
  BY <1>2, FS_EmptySet, SumEmpty DEF LedgerInit, HoldersInv
<1>4. \A types : Total(types) = 0
  <2>1. \A types : Of(types) = {}
    BY DEF LedgerInit, Of
  <2> QED
    BY <1>1, <2>1, TotalIs, SumEmpty
<1> QED
  BY <1>1, <1>3, <1>4 DEF LedgerInit, LedgerInv, LedgerExplainsStock, Reserved, StockCoversOrders

LEMMA LedgerInvStep == LedgerInv /\ [LedgerNext]_ledgerVars => LedgerInv'
<1> SUFFICES ASSUME LedgerInv, [LedgerNext]_ledgerVars PROVE LedgerInv'
  OBVIOUS
<1>1. CASE UNCHANGED ledgerVars
  <2>1. BookInv'
    BY <1>1 DEF ledgerVars, LedgerInv, BookInv, LedgerTypeOK, Recorded
  <2>2. Holders' = Holders
    BY <1>1 DEF ledgerVars, Holders, Holds, Recorded
  <2>3. HoldersInv' /\ StockCoversOrders'
    BY <1>1, <2>2 DEF ledgerVars, LedgerInv, HoldersInv, StockCoversOrders
  <2>4. LedgerExplainsStock'
    <3>1. OnHandTotal' = OnHandTotal /\ SaleTotal' = SaleTotal /\ OpenTotal' = OpenTotal
      BY <1>1, <2>1, TotalsStay DEF ledgerVars, LedgerInv
    <3> QED
      BY <1>1, <3>1 DEF ledgerVars, LedgerInv, LedgerExplainsStock, Reserved, OnHandTotal,
                        SaleTotal, OpenTotal
  <2> QED
    BY <2>1, <2>3, <2>4 DEF LedgerInv
<1> QED
  BY <1>1, InitializeStep, AdjustStep, ReserveStep, SettleStep DEF LedgerNext

LEMMA LedgerInvAlways == LedgerSpec => []LedgerInv
BY LedgerInvInit, LedgerInvStep, PTL DEF LedgerSpec

-----------------------------------------------------------------------------
(* Theorems *)

\* Every variable has its type, under any calls in any order.
THEOREM LedgerTypeCorrect == LedgerSpec => []LedgerTypeOK
<1>1. LedgerInv => LedgerTypeOK
  BY DEF LedgerInv, BookInv
<1> QED
  BY <1>1, LedgerInvAlways, PTL

\* The audit trail is complete and counts nothing twice: whatever calls are made,
\* the entries of inventory_transactions and an unrecorded initial quantity add up
\* to the quantity, and to reserved_quantity as long as no sale or release was made
\* for a reservation that is not open.  Until then the max(0, ...) of release
\* swallows nothing, and afterwards it only leaves more reserved.
THEOREM LedgerExplains == LedgerSpec => []LedgerExplainsStock
<1>1. LedgerInv => LedgerExplainsStock
  BY DEF LedgerInv
<1> QED
  BY <1>1, LedgerInvAlways, PTL

\* Whatever calls are made, in any order, reserved_quantity passes the stock only
\* if the stock was set below it or nothing is reserved, and turns negative only
\* after a sale for a reservation that is not open.
THEOREM StockCovers == LedgerSpec => []StockCoversOrders
<1>1. LedgerInv => StockCoversOrders
  BY DEF LedgerInv
<1> QED
  BY <1>1, LedgerInvAlways, PTL

\* reserved_quantity is the sum of what the open reservations asked for, also after
\* the stock was cut below it, until a sale or a release is made for a reservation
\* that is not open.
THEOREM HeldIsOpenReservations == LedgerSpec => []HoldersInv
<1>1. LedgerInv => HoldersInv
  BY DEF LedgerInv
<1> QED
  BY <1>1, LedgerInvAlways, PTL

=============================================================================
