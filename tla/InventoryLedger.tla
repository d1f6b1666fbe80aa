-------------------------- MODULE InventoryLedger --------------------------
(* The stock of one product and its ledger of inventory transactions, under  *)
(* calls of InventoryService that run one after the other, each a unit of    *)
(* work.  Every call may be made in any order and repeated: a sale or a      *)
(* release looks for its own key and for the row, not for a reservation.     *)
(* Module Fulfilment has the interleavings of reserve.                       *)
EXTENDS Integers, FiniteSetsExt

CONSTANTS
    Buyers,       \* the orders
    Wanted,       \* the quantity each one reserves, sells or releases
    Stocks        \* quantities set by initialize and adjust_quantity, which
                  \* refuse none, not even a negative one

ASSUME InventoryLedgerAssumption ==
    /\ Wanted \in [Buyers -> Nat \ {0}]
    /\ Stocks \subseteq Int

VARIABLES
    stocked,      \* the product has its inventory row
    onHand,       \* quantity
    held,         \* reserved_quantity
    ledger,       \* the inventory transactions
    opening,      \* history: the initial quantity, if it was not recorded
    undercut,     \* history: the stock was set below what was reserved
    astray        \* history: a sale or release was made for no open reservation

ledgerVars == <<stocked, onHand, held, ledger, opening, undercut, astray>>

Entry(key, type, change) == [key |-> key, type |-> type, change |-> change]

InitKey == <<"init">>
AdjustKey(from, to) == <<"adj", from, to>>
ReserveKey(b) == <<"reserve", b>>
SaleKey(b) == <<"sale", b>>
ReleaseKey(b) == <<"release", b>>

Recorded(key) == \E e \in ledger : e.key = key

\* The unique column: an entry whose key is there fails the unit of work.
Record(e) ==
    /\ ~Recorded(e.key)
    /\ ledger' = ledger \union {e}

LedgerInit ==
    /\ stocked = FALSE
    /\ onHand = 0
    /\ held = 0
    /\ ledger = {}
    /\ opening = 0
    /\ undercut = FALSE
    /\ astray = FALSE

-----------------------------------------------------------------------------

\* A quantity that is not positive leaves no entry.
Initialize(quantity) ==
    /\ ~stocked
    /\ stocked' = TRUE
    /\ onHand' = quantity
    /\ IF quantity > 0
       THEN Record(Entry(InitKey, "purchase", quantity)) /\ UNCHANGED opening
       ELSE opening' = quantity /\ UNCHANGED ledger
    /\ undercut' = (quantity < held)
    /\ UNCHANGED <<held, astray>>

\* Mutant of Adjust: an adjustment that is recorded is taken for a repetition.
AdjustKeyed(quantity) ==
    /\ stocked
    /\ onHand' = quantity
    /\ ledger' = IF quantity = onHand \/ Recorded(AdjustKey(onHand, quantity)) THEN ledger
                 ELSE ledger \union {Entry(AdjustKey(onHand, quantity), "adjustment",
                                           quantity - onHand)}
    /\ undercut' = (undercut \/ quantity < held)
    /\ UNCHANGED <<stocked, held, opening, astray>>

\* A change from one quantity to another that was made before fails on its key.
Adjust(quantity) ==
    /\ stocked
    /\ onHand' = quantity
    /\ IF quantity # onHand
       THEN Record(Entry(AdjustKey(onHand, quantity), "adjustment",
                         quantity - onHand))
       ELSE UNCHANGED ledger
    /\ undercut' = (undercut \/ quantity < held)
    /\ UNCHANGED <<stocked, held, opening, astray>>

\* Mutant of Available: what is reserved is not subtracted.
AvailableOnHand == onHand

\* get_available
Available == IF stocked THEN onHand - held ELSE 0

\* A repeated call finds its key and changes nothing, as does a refused one.
ReserveFor(b) ==
    /\ stocked
    /\ Available >= Wanted[b]
    /\ Record(Entry(ReserveKey(b), "reservation", -Wanted[b]))
    /\ held' = held + Wanted[b]
    /\ UNCHANGED <<stocked, onHand, opening, undercut, astray>>

\* For the history only: the order has a reservation that is neither sold nor
\* released.  No method asks.
Holds(b) ==
    /\ Recorded(ReserveKey(b))
    /\ ~Recorded(SaleKey(b))
    /\ ~Recorded(ReleaseKey(b))

CommitSale(b) ==
    /\ stocked
    /\ onHand' = onHand - Wanted[b]
    /\ held' = held - Wanted[b]
    /\ Record(Entry(SaleKey(b), "sale", -Wanted[b]))
    /\ astray' = (astray \/ ~Holds(b))
    /\ UNCHANGED <<stocked, opening, undercut>>

\* max(0, ...)
Release(b) ==
    /\ stocked
    /\ held' = IF held > Wanted[b] THEN held - Wanted[b] ELSE 0
    /\ Record(Entry(ReleaseKey(b), "release", Wanted[b]))
    /\ astray' = (astray \/ ~Holds(b))
    /\ UNCHANGED <<stocked, onHand, opening, undercut>>

LedgerNext ==
    \/ \E quantity \in Stocks : Initialize(quantity) \/ Adjust(quantity)
    \/ \E b \in Buyers : ReserveFor(b) \/ CommitSale(b) \/ Release(b)

LedgerSpec == LedgerInit /\ [][LedgerNext]_ledgerVars

-----------------------------------------------------------------------------
(* Properties *)

\* Every variable has its type.
LedgerTypeOK ==
    /\ stocked \in BOOLEAN
    /\ onHand \in Int
    /\ held \in Int
    /\ \A e \in ledger : e.change \in Int \ {0}
    /\ opening \in Int
    /\ undercut \in BOOLEAN
    /\ astray \in BOOLEAN

Total(types) == MapThenSumSet(LAMBDA e : e.change, {e \in ledger : e.type \in types})

Reserved == Total({"sale"}) - Total({"reservation", "release"})

\* The ledger explains the counters, although an adjustment may repeat an earlier
\* one: purchases, adjustments and sales add up to the quantity, but for an
\* initial one that was not recorded; reservations less releases and sales to what
\* is reserved.  Only a sale or a release for no open reservation may leave more
\* reserved than that, where release swallows a part in its max(0, ...).
LedgerExplainsStock ==
    /\ onHand = opening + Total({"purchase", "adjustment", "sale"})
    /\ held >= Reserved
    /\ astray \/ held = Reserved

\* What is reserved is there, unless the stock was set below it, and is never
\* negative.  A sale or a release for no open reservation may make both counters
\* negative, but even then reserved_quantity passes the stock only if nothing is
\* reserved.
StockCoversOrders ==
    /\ astray \/ 0 <= held
    /\ undercut \/ held <= onHand \/ (astray /\ held <= 0)

=============================================================================
