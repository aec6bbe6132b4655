----------------------------- MODULE Inventory -----------------------------
(***************************************************************************)
(* inventory-service: concurrent ReserveStock calls against one Postgres   *)
(* database. A call looks its order id up, and when nothing is held for it *)
(* runs the claim transaction, one line after the other in the order of    *)
(* the product names: insert the reservation row, then take the stock.     *)
(*                                                                         *)
(* The database is READ COMMITTED. The tables hold what is committed; what *)
(* a transaction has written so far is inserted[c] (rows of reservations)  *)
(* and taken[c] (rows of stock_items, locked until it ends). An insert     *)
(* meeting another transaction's uncommitted row with the same key waits   *)
(* for it, and so does an update of a locked row.                          *)
(***************************************************************************)
EXTENDS Canonical

CONSTANTS
    Calls,          \* the ReserveStock calls of a behaviour, each made once
    NoCall,
    Requests,       \* what a call may carry: an order id and lines, both raw
    Stocked,        \* products with a row in stock_items
    InitialOnHand,
    MaxOnHand       \* bound: the most the warehouse ever counts of a product

VARIABLES
    onHand,         \* stock_items.on_hand
    reserved,       \* stock_items.reserved
    reservations,   \* the reservations table: quantity, 0 where no row is
    rowLock,        \* the transaction that has updated a stock_items row
    pc,             \* where a call is
    order,          \* its canonical order id
    basket,         \* its canonical lines
    pass,           \* turns of the read-then-claim loop begun
    inserted,       \* rows its transaction has inserted into reservations
    taken,          \* rows its transaction has updated in stock_items
    result,         \* the error in hand, in the end the answer
    report          \* the products a refusal names

tables == <<onHand, reserved, reservations, rowLock>>
request == <<order, basket>>
vars == <<onHand, reserved, reservations, rowLock, pc, order, basket, pass,
          inserted, taken, result, report>>

CanonicalForm(r) == Canonicalize(r.order, r.lines)

ASSUME InventoryAssumption ==
    /\ NoCall \notin Calls
    /\ Stocked \subseteq SKUs
    /\ \E last \in SKUs : \A sku \in SKUs : sku <= last
    /\ MaxOnHand \in Nat
    /\ InitialOnHand \in [Stocked -> 0..MaxOnHand]

ASSUME RequestAssumption ==
    Requests \subseteq [order : DOMAIN ParseOrder, lines : RawLines]

\* How the order service calls: an order id always comes with the same lines.
OneBasketPerOrder ==
    \A r, q \in Requests :
        /\ CanonicalForm(r).ok /\ CanonicalForm(q).ok
        /\ CanonicalForm(r).order = CanonicalForm(q).order
        => CanonicalForm(r).lines = CanonicalForm(q).lines

claimAttempts == 2

Lines(c)  == {sku \in SKUs : basket[c][sku] # 0}
Held(o)   == {sku \in SKUs : reservations[o][sku] # 0}
InFlight  == {"find", "insert", "take", "commit", "rollback", "describe"}

Init ==
    /\ onHand = InitialOnHand
    /\ reserved = [sku \in Stocked |-> 0]
    /\ reservations = [o \in Orders |-> NoLines]
    /\ rowLock = [sku \in Stocked |-> NoCall]
    /\ pc = [c \in Calls |-> "idle"]
    /\ order = [c \in Calls |-> NotAUUID]
    /\ basket = [c \in Calls |-> NoLines]
    /\ pass = [c \in Calls |-> 0]
    /\ inserted = [c \in Calls |-> {}]
    /\ taken = [c \in Calls |-> {}]
    /\ result = [c \in Calls |-> "none"]
    /\ report = [c \in Calls |-> {}]

-----------------------------------------------------------------------------
(* The call arrives and is canonicalized; an invalid request is answered    *)
(* without touching the database.                                           *)

ReserveStock(c, r) ==
    /\ pc[c] = "idle"
    /\ \/ /\ CanonicalForm(r).ok
          /\ pc' = [pc EXCEPT ![c] = "find"]
          /\ order' = [order EXCEPT ![c] = CanonicalForm(r).order]
          /\ basket' = [basket EXCEPT ![c] = CanonicalForm(r).lines]
          /\ pass' = [pass EXCEPT ![c] = 1]
          /\ UNCHANGED result
       \/ /\ ~CanonicalForm(r).ok
          /\ pc' = [pc EXCEPT ![c] = "done"]
          /\ result' = [result EXCEPT ![c] = "InvalidRequest"]
          /\ UNCHANGED <<order, basket, pass>>
    /\ UNCHANGED <<tables, inserted, taken, report>>

\* Bug of the mutant: the order in which the rows came back is compared too,
\* and the database returns them by descending name.
confirmSameSlices(held, requested) ==
    IF held = requested /\ \A s, t \in SKUs : held[s] # 0 /\ held[t] # 0 => s = t
    THEN "OK" ELSE "IdempotencyConflict"

\* Bug of the mutant: whatever is held for the order id counts as a repeat.
confirmAnyProducts(held, requested) == "OK"

confirmSameProducts(held, requested) ==
    IF held = requested THEN "OK" ELSE "IdempotencyConflict"

Find(c) ==
    /\ pc[c] = "find"
    /\ \/ /\ Held(order[c]) # {}
          /\ pc' = [pc EXCEPT ![c] = "done"]
          /\ result' = [result EXCEPT ![c] =
                            confirmSameProducts(reservations[order[c]], basket[c])]
       \/ /\ Held(order[c]) = {}
          /\ pc' = [pc EXCEPT ![c] = "insert"]
          /\ UNCHANGED result
    /\ UNCHANGED <<tables, request, pass, inserted, taken, report>>

-----------------------------------------------------------------------------
(* The claim transaction.                                                   *)

\* Bug of the mutant: Canonicalize leaves the lines as the map yields them.
IsAnyLine(c, sku) == sku \in Lines(c) \ inserted[c]

\* Canonical lines are sorted by product, and claimed in that order.
IsNextLine(c, sku) ==
    /\ sku \in Lines(c) \ inserted[c]
    /\ \A other \in Lines(c) \ inserted[c] : sku <= other

\* Another transaction has inserted the row with this key and not ended yet.
KeyPending(c, sku) ==
    \E d \in Calls \ {c} : order[d] = order[c] /\ sku \in inserted[d]

\* Bug of the mutant: the insert reports a conflict as soon as it meets the
\* key, also when the transaction that holds it has not committed.
claimReservationNoWait(c, sku) ==
    /\ pc[c] = "insert"
    /\ IsNextLine(c, sku)
    /\ \/ /\ reservations[order[c]][sku] # 0 \/ KeyPending(c, sku)
          /\ pc' = [pc EXCEPT ![c] = "rollback"]
          /\ result' = [result EXCEPT ![c] = "AlreadyClaimed"]
          /\ UNCHANGED inserted
       \/ /\ reservations[order[c]][sku] = 0 /\ ~KeyPending(c, sku)
          /\ sku \in Stocked
          /\ pc' = [pc EXCEPT ![c] = "take"]
          /\ inserted' = [inserted EXCEPT ![c] = @ \cup {sku}]
          /\ UNCHANGED result
    /\ UNCHANGED <<tables, request, pass, taken, report>>

\* Bug of the mutant: reservations has no foreign key to stock_items.
claimReservationNoForeignKey(c, sku) ==
    /\ pc[c] = "insert"
    /\ IsNextLine(c, sku)
    /\ ~KeyPending(c, sku)
    /\ reservations[order[c]][sku] = 0
    /\ pc' = [pc EXCEPT ![c] = "take"]
    /\ inserted' = [inserted EXCEPT ![c] = @ \cup {sku}]
    /\ UNCHANGED <<tables, request, pass, taken, result, report>>

\* INSERT ... ON CONFLICT DO NOTHING. It waits while the key is pending; it
\* affects no row only when the row it meets is committed.
claimReservation(c, sku) ==
    /\ pc[c] = "insert"
    /\ IsNextLine(c, sku)
    /\ ~KeyPending(c, sku)
    /\ \/ /\ reservations[order[c]][sku] # 0
          /\ pc' = [pc EXCEPT ![c] = "rollback"]
          /\ result' = [result EXCEPT ![c] = "AlreadyClaimed"]
          /\ UNCHANGED inserted
       \/ /\ reservations[order[c]][sku] = 0
          /\ sku \notin Stocked
          /\ pc' = [pc EXCEPT ![c] = "rollback"]
          /\ result' = [result EXCEPT ![c] = "UnknownProductSKU"]
          /\ UNCHANGED inserted
       \/ /\ reservations[order[c]][sku] = 0
          /\ sku \in Stocked
          /\ pc' = [pc EXCEPT ![c] = "take"]
          /\ inserted' = [inserted EXCEPT ![c] = @ \cup {sku}]
          /\ UNCHANGED result
    /\ UNCHANGED <<tables, request, pass, taken, report>>

Available(sku) == onHand[sku] - reserved[sku]

\* Bug of the mutant: the availability check read the row before the lock was
\* granted, and is not repeated on the version the winner committed.
takeStockUnchecked(c, sku) ==
    /\ pc[c] = "take"
    /\ sku \in inserted[c] \ taken[c]
    /\ rowLock[sku] = NoCall
    /\ rowLock' = [rowLock EXCEPT ![sku] = c]
    /\ taken' = [taken EXCEPT ![c] = @ \cup {sku}]
    /\ pc' = [pc EXCEPT ![c] =
                  IF inserted[c] = Lines(c) THEN "commit" ELSE "insert"]
    /\ UNCHANGED <<onHand, reserved, reservations, request, pass, inserted,
                   result, report>>

\* The conditional UPDATE: it waits for the row's lock, then evaluates its
\* condition on the committed row.
takeStock(c, sku) ==
    /\ pc[c] = "take"
    /\ sku \in inserted[c] \ taken[c]
    /\ rowLock[sku] = NoCall
    /\ \/ /\ Available(sku) >= basket[c][sku]
          /\ rowLock' = [rowLock EXCEPT ![sku] = c]
          /\ taken' = [taken EXCEPT ![c] = @ \cup {sku}]
          /\ pc' = [pc EXCEPT ![c] =
                        IF inserted[c] = Lines(c) THEN "commit" ELSE "insert"]
          /\ UNCHANGED result
       \/ /\ Available(sku) < basket[c][sku]
          /\ pc' = [pc EXCEPT ![c] = "rollback"]
          /\ result' = [result EXCEPT ![c] = "InsufficientStock"]
          /\ UNCHANGED <<rowLock, taken>>
    /\ UNCHANGED <<onHand, reserved, reservations, request, pass, inserted, report>>

Unlocked(c) == [sku \in Stocked |-> IF rowLock[sku] = c THEN NoCall ELSE rowLock[sku]]

\* Everything the transaction wrote becomes visible at once. The reply to
\* COMMIT may be lost, and then the caller is told of a failure.
Commit(c) ==
    /\ pc[c] = "commit"
    /\ reservations' = [reservations EXCEPT ![order[c]] =
            [sku \in SKUs |-> IF sku \in inserted[c] THEN basket[c][sku] ELSE @[sku]]]
    /\ reserved' = [sku \in Stocked |->
            IF sku \in taken[c] THEN reserved[sku] + basket[c][sku] ELSE reserved[sku]]
    /\ rowLock' = Unlocked(c)
    /\ inserted' = [inserted EXCEPT ![c] = {}]
    /\ taken' = [taken EXCEPT ![c] = {}]
    /\ pc' = [pc EXCEPT ![c] = "done"]
    /\ \E reply \in {"OK", "Failed"} : result' = [result EXCEPT ![c] = reply]
    /\ UNCHANGED <<onHand, request, pass, report>>

\* Bug of the mutant: there is no deferred Rollback, so a claim refused halfway
\* commits the lines it got through.
RolledBackHalfway(c) ==
    /\ rowLock' = Unlocked(c)
    /\ inserted' = [inserted EXCEPT ![c] = {}]
    /\ taken' = [taken EXCEPT ![c] = {}]
    /\ reservations' = [reservations EXCEPT ![order[c]] =
            [sku \in SKUs |-> IF sku \in taken[c] THEN basket[c][sku] ELSE @[sku]]]
    /\ reserved' = [sku \in Stocked |->
            IF sku \in taken[c] THEN reserved[sku] + basket[c][sku] ELSE reserved[sku]]
    /\ UNCHANGED onHand

\* Bug of the mutant: takeStock runs on the pool, outside the transaction.
RolledBackKeepingStock(c) ==
    /\ rowLock' = Unlocked(c)
    /\ inserted' = [inserted EXCEPT ![c] = {}]
    /\ taken' = [taken EXCEPT ![c] = {}]
    /\ reserved' = [sku \in Stocked |->
            IF sku \in taken[c] THEN reserved[sku] + basket[c][sku] ELSE reserved[sku]]
    /\ UNCHANGED <<onHand, reservations>>

\* Bug of the mutant: an early return leaves the transaction open.
RolledBackNever(c) ==
    /\ inserted' = [inserted EXCEPT ![c] = {}]
    /\ taken' = [taken EXCEPT ![c] = {}]
    /\ UNCHANGED tables

\* What ending a transaction without committing it does.
RolledBack(c) ==
    /\ rowLock' = Unlocked(c)
    /\ inserted' = [inserted EXCEPT ![c] = {}]
    /\ taken' = [taken EXCEPT ![c] = {}]
    /\ UNCHANGED <<onHand, reserved, reservations>>

\* The deferred Rollback, and what Execute and Claim do with the error: go
\* round the loop again, give up, or look for the reason of the refusal.
Rollback(c) ==
    /\ pc[c] = "rollback"
    /\ RolledBack(c)
    /\ \/ /\ result[c] = "AlreadyClaimed"
          /\ LET again == pass[c] < claimAttempts
             IN  /\ pc' = [pc EXCEPT ![c] = IF again THEN "find" ELSE "done"]
                 /\ pass' = [pass EXCEPT ![c] = IF again THEN @ + 1 ELSE @]
                 /\ result' = [result EXCEPT ![c] = IF again THEN "none" ELSE "GaveUp"]
       \/ /\ result[c] # "AlreadyClaimed"
          /\ pc' = [pc EXCEPT ![c] = "describe"]
          /\ UNCHANGED <<pass, result>>
    /\ UNCHANGED <<request, report>>

\* A refused claim is explained from what is free now, outside the transaction
\* that was refused. When the query fails, or nothing is short any more, the
\* refusal goes out bare.
Unknown(c) == Lines(c) \ Stocked
Short(c)   == {sku \in Lines(c) \cap Stocked : Available(sku) < basket[c][sku]}

describeFailure(c) ==
    /\ pc[c] = "describe"
    /\ pc' = [pc EXCEPT ![c] = "done"]
    /\ \/ UNCHANGED <<result, report>>
       \/ /\ Unknown(c) # {}
          /\ result' = [result EXCEPT ![c] = "UnknownProductSKU"]
          /\ report' = [report EXCEPT ![c] = Unknown(c)]
       \/ /\ Unknown(c) = {} /\ Short(c) # {}
          /\ result' = [result EXCEPT ![c] = "InsufficientStock"]
          /\ report' = [report EXCEPT ![c] = Short(c)]
    /\ UNCHANGED <<tables, request, pass, inserted, taken>>

-----------------------------------------------------------------------------
(* What can happen to a call, and to the warehouse, from outside.           *)

\* The deadline passes, the caller hangs up, the connection breaks or the
\* process dies. Postgres rolls an open transaction back.
Abort(c) ==
    /\ pc[c] \in InFlight
    /\ RolledBack(c)
    /\ pc' = [pc EXCEPT ![c] = "done"]
    /\ result' = [result EXCEPT ![c] = "Failed"]
    /\ UNCHANGED <<request, pass, report>>

\* The warehouse corrects a count. It is an UPDATE like any other: it waits for
\* the row, and the CHECK on the table refuses a count below what is promised.
Restock(sku, count) ==
    /\ rowLock[sku] = NoCall
    /\ count >= reserved[sku]
    /\ onHand' = [onHand EXCEPT ![sku] = count]
    /\ UNCHANGED <<reserved, reservations, rowLock, pc, request, pass, inserted,
                   taken, result, report>>

Step(c) ==
    \/ Find(c)
    \/ \E sku \in SKUs : claimReservation(c, sku)
    \/ \E sku \in Stocked : takeStock(c, sku)
    \/ Commit(c)
    \/ Rollback(c)
    \/ describeFailure(c)

Next ==
    \/ \E c \in Calls, r \in Requests : ReserveStock(c, r)
    \/ \E c \in Calls : Step(c) \/ Abort(c)
    \/ \E sku \in Stocked, count \in 0..MaxOnHand : Restock(sku, count)

Spec == Init /\ [][Next]_vars

\* Postgres runs a statement whose locks are free, and a goroutine that has its
\* answer goes on: every call that can take a step of its own does. Nobody is
\* obliged to call, to hang up or to restock.
FairSpec == Spec /\ \A c \in Calls : WF_vars(Step(c))

-----------------------------------------------------------------------------
Results == {"none", "OK", "InvalidRequest", "IdempotencyConflict", "AlreadyClaimed",
            "UnknownProductSKU", "InsufficientStock", "GaveUp", "Failed"}

\* The tables and the calls keep their types, and a lock belongs to a call.
TypeOK ==
    /\ onHand \in [Stocked -> 0..MaxOnHand]
    /\ reserved \in [Stocked -> Nat]
    /\ reservations \in [Orders -> [SKUs -> Nat]]
    /\ rowLock \in [Stocked -> Calls \cup {NoCall}]
    /\ pc \in [Calls -> InFlight \cup {"idle", "done"}]
    /\ order \in [Calls -> Orders \cup {NotAUUID}]
    /\ basket \in [Calls -> [SKUs -> Nat]]
    /\ pass \in [Calls -> 0..claimAttempts]
    /\ inserted \in [Calls -> SUBSET Stocked]
    /\ taken \in [Calls -> SUBSET Stocked]
    /\ result \in [Calls -> Results]
    /\ report \in [Calls -> SUBSET SKUs]

\* Whatever the interleaving of claims, aborts and stock corrections, no more
\* is promised of a product than there is, and a claim past its conditional
\* UPDATE can still be honoured: the check of takeStock stays true until the
\* transaction that relied on it ends.
NeverOverbooked ==
    \A sku \in Stocked :
        /\ reserved[sku] <= onHand[sku]
        /\ rowLock[sku] # NoCall =>
              reserved[sku] + basket[rowLock[sku]][sku] <= onHand[sku]

\* stock_items.reserved and the rows of reservations are two records of the
\* same promise, written by different statements of claimLine, and never differ.
ReservedMatchesReservations ==
    \A sku \in Stocked :
        reserved[sku] = SumFunction([o \in Orders |-> reservations[o][sku]])

\* A refused or failed call leaves nothing behind and a successful one leaves
\* its whole basket: every row held is part of the complete basket of a call
\* that was told so, or that lost the reply to its COMMIT.
AllOrNothing ==
    \A o \in Orders : \A sku \in Held(o) :
        \E c \in Calls :
            /\ order[c] = o /\ sku \in Lines(c)
            /\ result[c] \in {"OK", "Failed"}
            /\ \A line \in Lines(c) : reservations[o][line] = basket[c][line]

\* A call answered OK has its order holding the quantity it asked for of every
\* product it named, whether this call reserved them or found them reserved.
AcceptedMeansHeld ==
    \A c \in Calls : result[c] = "OK" =>
        /\ Lines(c) # {}
        /\ \A sku \in Lines(c) : reservations[order[c]][sku] = basket[c][sku]

\* claimAttempts is exact: losing the race for an order id is only ever
\* reported after the winner committed, so the second pass finds it and the
\* "gave up" error at the end of Execute is never returned.
NeverGivesUp == \A c \in Calls : result[c] # "GaveUp"

\* Rows of reservations are never changed or deleted once committed.
HeldIsFinal ==
    [][\A o \in Orders : \A sku \in Held(o) :
            reservations'[o][sku] = reservations[o][sku]]_vars

\* c waits for a lock that the transaction of d holds: the key of the row it
\* inserts, or the stock row it updates.
WaitsForKey(c, d, sku) ==
    /\ pc[c] = "insert" /\ IsNextLine(c, sku)
    /\ c # d /\ order[d] = order[c] /\ sku \in inserted[d]

WaitsForStock(c, d, sku) ==
    /\ pc[c] = "take" /\ sku \in inserted[c] \ taken[c]
    /\ rowLock[sku] = d

WaitsFor(c, d) == \E sku \in SKUs : WaitsForKey(c, d, sku) \/ WaitsForStock(c, d, sku)

\* No set of claims waits only for itself, whatever baskets they carry and
\* whichever order ids they share: sorting the lines is enough although a claim
\* locks keys of reservations and rows of stock_items alternately.
NoDeadlock ==
    \A group \in (SUBSET Calls) \ {{}} :
        \E c \in group : \A d \in group : ~WaitsFor(c, d)

\* A call that repeats one already answered OK, with the same order id and the
\* same lines, is not refused as a conflict.
RepeatAccepted ==
    [][\A c, d \in Calls :
          /\ result[d] = "OK" /\ pc[c] # "idle"
          /\ order[c] = order[d] /\ basket[c] = basket[d]
          => (result'[c] = "IdempotencyConflict" => result[c] = "IdempotencyConflict")]_vars

\* Every call that is not aborted is answered, however long others hold locks.
EveryCallAnswered == \A c \in Calls : pc[c] = "find" ~> pc[c] = "done"

\* The baskets that callers ask for, by order id.
Asked ==
    [o \in Orders |->
        {CanonicalForm(r).lines :
            r \in {q \in Requests : CanonicalForm(q).ok /\ CanonicalForm(q).order = o}}]

\* The protocol of transactions and locks implements the ledger in which an
\* order takes a whole basket that was asked for in one step, and only once.
Ledger == INSTANCE ReservationLedger

LedgerSpec == Ledger!Spec

=============================================================================
