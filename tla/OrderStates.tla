---------------------------- MODULE OrderStates ----------------------------
(* The life cycle of an order: the status enumeration and the transition    *)
(* table every status change goes through (app/domains/orders).             *)

OrderStatus == {"pending", "confirmed", "processing", "shipped", "delivered",
                "cancelled", "refunded", "failed"}

TRANSITIONS ==
    [pending    |-> {"confirmed", "cancelled", "failed"},
     confirmed  |-> {"processing", "cancelled"},
     processing |-> {"shipped", "cancelled"},
     shipped    |-> {"delivered"},
     delivered  |-> {"refunded"},
     cancelled  |-> {},
     failed     |-> {},
     refunded   |-> {}]

CanTransition(from, to) == to \in TRANSITIONS[from]

=============================================================================
