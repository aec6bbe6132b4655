------------------------- MODULE ReservationLedger -------------------------
(***************************************************************************)
(* What inventory-service promises, without calls, transactions or locks:  *)
(* an order that holds nothing may come to hold a whole basket asked for   *)
(* it in a single step, if all of it is free, and holds it from then on.   *)
(***************************************************************************)
EXTENDS Naturals

CONSTANTS
    Orders, SKUs, Stocked, InitialOnHand, MaxOnHand,
    Asked           \* for each order, the baskets that callers ask for

VARIABLES onHand, reserved, reservations

ledger == <<onHand, reserved, reservations>>

Init ==
    /\ onHand = InitialOnHand
    /\ reserved = [sku \in Stocked |-> 0]
    /\ reservations = [o \in Orders |-> [sku \in SKUs |-> 0]]

\* A basket that can be held: it asks for something, all of it stocked.
Basket(o) == {b \in Asked[o] :
                 /\ \E sku \in SKUs : b[sku] # 0
                 /\ \A sku \in SKUs \ Stocked : b[sku] = 0}

\* The basket is whatever the order holds afterwards.
Hold(o) ==
    LET b == reservations'[o]
    IN  /\ b \in Basket(o)
        /\ reservations[o] = [sku \in SKUs |-> 0]
        /\ \A sku \in Stocked : reserved[sku] + b[sku] <= onHand[sku]
        /\ reservations' = [reservations EXCEPT ![o] = b]
        /\ reserved' = [sku \in Stocked |-> reserved[sku] + b[sku]]
        /\ UNCHANGED onHand

Restock(sku, count) ==
    /\ count >= reserved[sku]
    /\ onHand' = [onHand EXCEPT ![sku] = count]
    /\ UNCHANGED <<reserved, reservations>>

Next ==
    \/ \E o \in Orders : Hold(o)
    \/ \E sku \in Stocked, count \in 0..MaxOnHand : Restock(sku, count)

Spec == Init /\ [][Next]_ledger
=============================================================================
