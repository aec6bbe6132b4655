----------------------------- MODULE OrderBook -----------------------------
(***************************************************************************)
(* What order-service promises about orders, without requests, retries or  *)
(* lost replies: a key has one order, an order is accepted only while the  *)
(* warehouse holds its stock and together with its event, and a verdict is *)
(* never revised.                                                          *)
(***************************************************************************)
CONSTANTS
    Orders, Keys,
    NoKey           \* the key of an order that does not exist

VARIABLES
    status,         \* orders.status, "absent" where there is no row
    key,            \* orders.idempotency_key
    held,           \* orders that hold stock in inventory
    events          \* orders with an event in the outbox

book == <<status, key, held, events>>

Init ==
    /\ status = [o \in Orders |-> "absent"]
    /\ key = [o \in Orders |-> NoKey]
    /\ held = {}
    /\ events = {}

\* Bug of the mutant: the unique index on the key is missing.
PlaceAgain(o, k) ==
    /\ status[o] = "absent"
    /\ status' = [status EXCEPT ![o] = "pending"]
    /\ key' = [key EXCEPT ![o] = k]
    /\ UNCHANGED <<held, events>>

Place(o, k) ==
    /\ status[o] = "absent"
    /\ \A p \in Orders : key[p] # k
    /\ status' = [status EXCEPT ![o] = "pending"]
    /\ key' = [key EXCEPT ![o] = k]
    /\ UNCHANGED <<held, events>>

Hold(o) ==
    /\ status[o] # "absent"
    /\ held' = held \cup {o}
    /\ UNCHANGED <<status, key, events>>

Accept(o) ==
    /\ status[o] = "pending" /\ o \in held
    /\ status' = [status EXCEPT ![o] = "accepted"]
    /\ events' = events \cup {o}
    /\ UNCHANGED <<key, held>>

Reject(o) ==
    /\ status[o] = "pending"
    /\ status' = [status EXCEPT ![o] = "rejected"]
    /\ UNCHANGED <<key, held, events>>

Next ==
    \E o \in Orders :
        \/ \E k \in Keys : Place(o, k)
        \/ Hold(o) \/ Accept(o) \/ Reject(o)

Spec == Init /\ [][Next]_book
=============================================================================
