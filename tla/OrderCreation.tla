--------------------------- MODULE OrderCreation ---------------------------
(***************************************************************************)
(* order-service: concurrent POST /orders requests, replays of one another *)
(* when they carry the same idempotency key, against the orders table and  *)
(* inventory-service.                                                      *)
(*                                                                         *)
(* A request makes at most one order, so the order is named after it: row  *)
(* o of orders was created by request o, with the key and the basket that  *)
(* o carried. Of inventory there is as much as a caller can tell: one unit *)
(* to a basket, an order that holds its unit or not, and what is free for  *)
(* others to take. A call to it may be answered, may be lost on the way    *)
(* there or back, and may take effect after its caller has stopped waiting *)
(* for it.                                                                 *)
(***************************************************************************)
EXTENDS Naturals

CONSTANTS
    Requests,
    Keys,
    NoKey,
    NoOrder,
    InitialFree,
    MaxFree,                        \* bound: the most that is ever free
    inventoryReservationAttempts

VARIABLES
    status,     \* orders.status, "absent" where there is no row
    events,     \* orders with a row in outbox_events
    held,       \* orders that hold stock in inventory
    free,       \* units inventory could still promise
    late,       \* orders with a call inventory has still to serve
    pc,         \* where a request is
    key,        \* its idempotency key
    basket,     \* what its items come to, see Baskets
    order,      \* the order it works on
    attempt,    \* calls to inventory that came to nothing
    result,     \* its answer
    calm        \* no more failures of databases, calls, clocks or processes

inventory == <<held, free, late>>
vars == <<status, events, held, free, late, pc, key, basket, order, attempt, result, calm>>

\* "good" is priced by the catalog, passes the rules of the domain and is one
\* that inventory can canonicalize and stocks. "refused" passes here, and
\* inventory answers InvalidArgument or NotFound.
Baskets == {"good", "refused", "unpriced", "invalid"}

ASSUME OrderCreationAssumption ==
    /\ NoOrder \notin Requests
    /\ NoKey \notin Keys
    /\ MaxFree \in Nat /\ InitialFree \in 0..MaxFree
    /\ inventoryReservationAttempts \in Nat \ {0}

Init ==
    /\ status = [o \in Requests |-> "absent"]
    /\ events = {}
    /\ held = {}
    /\ free = InitialFree
    /\ late = {}
    /\ pc = [r \in Requests |-> "idle"]
    /\ key = [r \in Requests |-> NoKey]
    /\ basket = [r \in Requests |-> "good"]
    /\ order = [r \in Requests |-> NoOrder]
    /\ attempt = [r \in Requests |-> 0]
    /\ result = [r \in Requests |-> "none"]
    /\ calm = FALSE

-----------------------------------------------------------------------------
Goto(r, where) == pc' = [pc EXCEPT ![r] = where] /\ UNCHANGED result

Answer(r, answer) == /\ pc' = [pc EXCEPT ![r] = "done"]
                     /\ result' = [result EXCEPT ![r] = answer]

\* The handler: a request without a key or with a body that does not bind is
\* turned away.
Post(r, k, b) ==
    /\ pc[r] = "idle"
    /\ \/ /\ Goto(r, "find")
          /\ key' = [key EXCEPT ![r] = k]
          /\ basket' = [basket EXCEPT ![r] = b]
       \/ Answer(r, "InvalidRequest") /\ UNCHANGED <<key, basket>>
    /\ UNCHANGED <<status, events, inventory, order, attempt, calm>>

\* Bug of the mutant: a replay that finds the order unfinished is told that the
\* first request is still at work on it.
processPersistedBusy(r, o) ==
    /\ order' = [order EXCEPT ![r] = o]
    /\ \/ status[o] = "accepted" /\ Answer(r, "OK")
       \/ status[o] = "rejected" /\ Answer(r, "InsufficientStock")
       \/ status[o] = "pending" /\ Answer(r, "Internal")

\* A stored verdict is repeated, an order without one is taken up.
processPersisted(r, o) ==
    /\ order' = [order EXCEPT ![r] = o]
    /\ \/ status[o] = "accepted" /\ Answer(r, "OK")
       \/ status[o] = "rejected" /\ Answer(r, "InsufficientStock")
       \/ status[o] = "pending" /\ Goto(r, "reserve")

Stored(k) == {o \in Requests : status[o] # "absent" /\ key[o] = k}

\* What building a new order from the basket comes to.
buildOrder(r) ==
    \/ basket[r] = "unpriced" /\ Answer(r, "ProductNotFound")
    \/ basket[r] = "invalid" /\ Answer(r, "InvalidOrder")
    \/ basket[r] \in {"good", "refused"} /\ Goto(r, "create")

FindByIdempotencyKey(r) ==
    /\ pc[r] = "find"
    /\ \/ \E o \in Stored(key[r]) : processPersisted(r, o)
       \/ Stored(key[r]) = {} /\ buildOrder(r) /\ UNCHANGED order
    /\ UNCHANGED <<status, events, inventory, key, basket, attempt, calm>>

\* Bug of the mutant: the table has no unique index on the key.
CreateWithoutIndex(r) ==
    /\ pc[r] = "create"
    /\ status' = [status EXCEPT ![r] = "pending"]
    /\ Goto(r, "reserve")
    /\ order' = [order EXCEPT ![r] = r]
    /\ UNCHANGED <<events, inventory, key, basket, attempt, calm>>

\* The unique index lets one of several requests with the same key insert its
\* order; the reply to its COMMIT may be lost. The others load the winner's.
Create(r) ==
    /\ pc[r] = "create"
    /\ \/ /\ Stored(key[r]) = {}
          /\ status' = [status EXCEPT ![r] = "pending"]
          /\ \/ Goto(r, "reserve") /\ order' = [order EXCEPT ![r] = r]
             \/ ~calm /\ Answer(r, "Internal") /\ UNCHANGED order
       \/ Stored(key[r]) # {} /\ Goto(r, "load") /\ UNCHANGED <<status, order>>
    /\ UNCHANGED <<events, inventory, key, basket, attempt, calm>>

LoadConcurrentOrder(r) ==
    /\ pc[r] = "load"
    /\ \E o \in Stored(key[r]) : processPersisted(r, o)
    /\ UNCHANGED <<status, events, inventory, key, basket, attempt, calm>>

-----------------------------------------------------------------------------
(* Inventory.                                                               *)

Hold(o) ==
    \/ o \in held /\ UNCHANGED <<held, free>>
    \/ o \notin held /\ free > 0 /\ held' = held \cup {o} /\ free' = free - 1

Refusable(o) == o \notin held /\ free = 0

\* A call whose caller has given up waiting for it is served at last.
LateReservation(o) ==
    /\ o \in late \ held
    /\ Hold(o)
    /\ late' = late \ {o}
    /\ UNCHANGED <<status, events, pc, key, basket, order, attempt, result, calm>>

\* Deliveries, stocktakings and the orders of other customers.
StockChanges ==
    /\ free' \in 0..MaxFree \ {free}
    /\ UNCHANGED <<status, events, held, late, pc, key, basket, order, attempt, result, calm>>

\* An answer that is no verdict: unavailable, out of time, cancelled or internal.
\* The call did not arrive, or took effect and its reply, or that of the COMMIT
\* it made, was lost, or it is still on its way.
NoVerdict(o) ==
    \/ UNCHANGED inventory
    \/ basket[o] = "good" /\ Hold(o) /\ UNCHANGED late
    \/ basket[o] = "good" /\ late' = late \cup {o} /\ UNCHANGED <<held, free>>

\* Bug of the mutant: a round of attempts that came to nothing is begun again.
retryForever(r) ==
    /\ attempt' = [attempt EXCEPT ![r] = (@ + 1) % inventoryReservationAttempts]
    /\ Goto(r, "reserve")

retry(r) ==
    /\ attempt' = [attempt EXCEPT ![r] = @ + 1]
    /\ IF attempt[r] + 1 < inventoryReservationAttempts
       THEN Goto(r, "reserve")
       ELSE Answer(r, "InventoryUnavailable")

\* Bug of the mutant: a call that timed out counts as a reservation.
reserveInventoryGuessing(r) ==
    LET o == order[r]
    IN  \/ /\ basket[o] = "good" /\ Hold(o) /\ Goto(r, "accept")
           /\ UNCHANGED <<late, attempt>>
        \/ /\ basket[o] = "good" /\ ~calm /\ NoVerdict(o) /\ Goto(r, "accept")
           /\ UNCHANGED attempt

\* Bug of the mutant: running out of time counts as a refusal.
reserveInventoryHasty(r) ==
    LET o == order[r]
    IN  \/ /\ basket[o] = "good" /\ Hold(o) /\ Goto(r, "accept")
           /\ UNCHANGED <<late, attempt>>
        \/ /\ basket[o] = "good" /\ Refusable(o) /\ Goto(r, "reject")
           /\ UNCHANGED <<inventory, attempt>>
        \/ ~calm /\ NoVerdict(o) /\ Goto(r, "reject") /\ UNCHANGED attempt

reserveInventory(r) ==
    LET o == order[r]
    IN  \/ /\ basket[o] = "good" /\ Hold(o) /\ Goto(r, "accept")
           /\ UNCHANGED <<late, attempt>>
        \/ /\ basket[o] = "good" /\ Refusable(o) /\ Goto(r, "reject")
           /\ UNCHANGED <<inventory, attempt>>
        \/ /\ basket[o] = "refused" /\ Answer(r, "Internal")
           /\ UNCHANGED <<inventory, attempt>>
        \/ ~calm /\ NoVerdict(o) /\ Answer(r, "Internal") /\ UNCHANGED attempt
        \/ ~calm /\ NoVerdict(o) /\ retry(r)

Reserve(r) ==
    /\ pc[r] = "reserve"
    /\ reserveInventory(r)
    /\ UNCHANGED <<status, events, key, basket, order, calm>>

-----------------------------------------------------------------------------
(* Recording the verdict.                                                   *)

\* The conditional UPDATE, and with an acceptance the event, in one transaction.
updateOrderState(r, verdict) ==
    /\ status[order[r]] = "pending"
    /\ status' = [status EXCEPT ![order[r]] = verdict]
    /\ events' = IF verdict = "accepted" THEN events \cup {order[r]} ELSE events

\* The clock may have gone back behind the order's last change; the reply to the
\* write may be lost; and another request may have been faster.
Settle(r, verdict, answer) ==
    /\ \/ /\ updateOrderState(r, verdict)
          /\ Answer(r, answer) \/ (~calm /\ Answer(r, "Internal"))
       \/ /\ status[order[r]] # "pending"
          /\ Goto(r, "reload") /\ UNCHANGED <<status, events>>
       \/ ~calm /\ Answer(r, "InvalidOrder") /\ UNCHANGED <<status, events>>
    /\ UNCHANGED <<inventory, key, basket, order, attempt, calm>>

Accept(r) == pc[r] = "accept" /\ Settle(r, "accepted", "OK")

Reject(r) == pc[r] = "reject" /\ Settle(r, "rejected", "InsufficientStock")

\* Bug of the mutant: the loser answers with the verdict it came to itself.
resultAfterConflictOwn(r) ==
    /\ pc[r] = "reload"
    /\ Answer(r, IF order[r] \in held THEN "OK" ELSE "InsufficientStock")
    /\ UNCHANGED <<status, events, inventory, key, basket, order, attempt, calm>>

resultAfterConflict(r) ==
    /\ pc[r] = "reload"
    /\ \/ status[order[r]] = "accepted" /\ Answer(r, "OK")
       \/ status[order[r]] = "rejected" /\ Answer(r, "InsufficientStock")
       \/ status[order[r]] = "pending" /\ Answer(r, "Internal")
    /\ UNCHANGED <<status, events, inventory, key, basket, order, attempt, calm>>

-----------------------------------------------------------------------------
\* The client hangs up, a query fails or the process dies.
Abort(r) ==
    /\ ~calm
    /\ pc[r] \notin {"idle", "done"}
    /\ Answer(r, "Internal")
    /\ UNCHANGED <<status, events, inventory, key, basket, order, attempt, calm>>

CalmDown ==
    /\ ~calm
    /\ calm' = TRUE
    /\ UNCHANGED <<status, events, inventory, pc, key, basket, order, attempt, result>>

Step(r) ==
    \/ FindByIdempotencyKey(r)
    \/ Create(r)
    \/ LoadConcurrentOrder(r)
    \/ Reserve(r)
    \/ Accept(r)
    \/ Reject(r)
    \/ resultAfterConflict(r)

Next ==
    \/ \E r \in Requests, k \in Keys, b \in Baskets : Post(r, k, b)
    \/ \E r \in Requests : Step(r) \/ Abort(r)
    \/ \E o \in Requests : LateReservation(o)
    \/ StockChanges
    \/ CalmDown

Spec == Init /\ [][Next]_vars

\* A goroutine that can go on does. Nobody is obliged to call, to deliver or to
\* let a late call through, and nothing says that the trouble ends.
FairSpec == Spec /\ \A r \in Requests : WF_vars(Step(r))

-----------------------------------------------------------------------------
\* The rows and the requests keep their types, and inventory and the outbox know
\* only orders that have a row.
TypeOK ==
    /\ status \in [Requests -> {"absent", "pending", "accepted", "rejected"}]
    /\ events \in SUBSET {o \in Requests : status[o] # "absent"}
    /\ held \in SUBSET {o \in Requests : status[o] # "absent"}
    /\ free \in 0..MaxFree
    /\ late \in SUBSET {o \in Requests : status[o] # "absent"}
    /\ pc \in [Requests -> {"idle", "find", "create", "load", "reserve", "accept",
                            "reject", "reload", "done"}]
    /\ key \in [Requests -> Keys \cup {NoKey}]
    /\ basket \in [Requests -> Baskets]
    /\ order \in [Requests -> Requests \cup {NoOrder}]
    /\ attempt \in [Requests -> 0..inventoryReservationAttempts]
    /\ result \in [Requests -> {"none", "OK", "InsufficientStock", "InvalidRequest",
                        "ProductNotFound", "InvalidOrder", "InventoryUnavailable", "Internal"}]
    /\ calm \in BOOLEAN

\* An order is accepted exactly when its event is recorded, and only when the
\* warehouse holds its stock, across two databases, whatever replies were lost
\* and whichever of several requests recorded the verdict.
AcceptedIsBacked ==
    /\ \A o \in Requests : status[o] = "accepted" <=> o \in events
    /\ \A o \in Requests : status[o] = "accepted" => o \in held

\* Requests with one key get one verdict about one order: no two of them are
\* answered with different orders, nor one with the order and one with a
\* refusal, and what they are told is what the table says.
KeyHasOneFate ==
    \A r \in Requests : result[r] \in {"OK", "InsufficientStock"} =>
        /\ order[r] \in Requests
        /\ status[order[r]] = IF result[r] = "OK" THEN "accepted" ELSE "rejected"
        /\ \A q \in Requests :
              /\ result[q] \in {"OK", "InsufficientStock"} /\ key[q] = key[r]
              => result[q] = result[r] /\ order[q] = order[r]

\* A verdict is final: no request overwrites another's, late or early.
VerdictFinal ==
    [][\A o \in Requests : status[o] \in {"accepted", "rejected"} =>
            status'[o] = status[o]]_vars

\* Stock that stays held for a rejected order, which nothing ever releases, has
\* a cause outside the request that rejected it: an earlier call of that request
\* came to nothing it knew of, or another request was at work on the order too.
StrandedNeedsARace ==
    \A o \in held : status[o] = "rejected" =>
        \/ \E r \in Requests : order[r] = o /\ attempt[r] > 0
        \/ \E r, q \in Requests : r # q /\ order[r] = o /\ order[q] = o

\* Once the trouble is over, a repeated request finishes whatever the earlier
\* ones left behind and is told the verdict, unless nothing was ever stored for
\* the key and its own basket is no good, or inventory refuses the stored one.
ReplayDecides ==
    \A r \in Requests :
        calm /\ pc[r] = "find" ~>
            /\ pc[r] = "done"
            /\ \/ result[r] \in {"OK", "InsufficientStock"}
               \/ order[r] = NoOrder /\ basket[r] \in {"unpriced", "invalid"}
               \/ order[r] # NoOrder /\ basket[order[r]] = "refused"

\* Every request is answered, whatever becomes of its order and although inventory
\* may never answer: the attempts are counted, and each way on comes to an end.
EveryRequestAnswered == \A r \in Requests : pc[r] # "idle" ~> pc[r] = "done"

\* Requests, retries and lost replies come to no more than the order book: every
\* step places an order, holds its stock, gives it its verdict or changes nothing
\* that lasts.
Book == INSTANCE OrderBook
    WITH Orders <- Requests,
         key <- [o \in Requests |-> IF status[o] = "absent" THEN NoKey ELSE key[o]]

BookSpec == Book!Spec

=============================================================================
