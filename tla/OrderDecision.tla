--------------------------- MODULE OrderDecision ---------------------------
(* What order fulfilment promises, without workers, locks or deliveries: an *)
(* order is created, decided once in one step that takes its stock, and     *)
(* otherwise moved by the API along the transition table.  A refusal at a   *)
(* line keeps what the lines before it took: that is what the handler does. *)
EXTENDS OrderStates, Naturals, Sequences, FiniteSetsExt

CONSTANTS Orders, Products, Carts

VARIABLES status, cart, ledger

\* What the first n lines of c take: one reservation per product, of the
\* quantity of its first line.
Taken(c, n) ==
    [p \in Products |-> LET lines == {i \in 1..n : c[i].product = p}
                        IN IF lines = {} THEN 0 ELSE c[Min(lines)].quantity]

Init ==
    /\ status = [o \in Orders |-> "absent"]
    /\ cart \in [Orders -> Carts]
    /\ ledger = [o \in Orders |-> [p \in Products |-> 0]]

Create(o) ==
    /\ status[o] = "absent"
    /\ status' = [status EXCEPT ![o] = "pending"]
    /\ UNCHANGED <<cart, ledger>>

Move(o, to) ==
    /\ status[o] # "absent"
    /\ CanTransition(status[o], to)
    /\ status' = [status EXCEPT ![o] = to]
    /\ UNCHANGED <<cart, ledger>>

Decide(o, decision, n) ==
    /\ status[o] = "pending"
    /\ decision = "confirmed" <=> n = Len(cart[o])
    /\ status' = [status EXCEPT ![o] = decision]
    /\ ledger' = [ledger EXCEPT ![o] = Taken(cart[o], n)]
    /\ UNCHANGED cart

Next ==
    \E o \in Orders :
        \/ Create(o)
        \/ \E to \in OrderStatus : Move(o, to)
        \/ \E decision \in {"confirmed", "cancelled"}, n \in 0..Len(cart[o]) :
               Decide(o, decision, n)

Spec == Init /\ [][Next]_<<status, cart, ledger>>

=============================================================================
