------------------------ MODULE OrderCreationProofs ------------------------
(***************************************************************************)
(* Theorems about OrderCreation for any number of requests, keys, units of *)
(* stock and attempts. A request that works on an order works on the one   *)
(* row its key has, and what it knows of that row cannot stop being true:  *)
(* rows are not deleted, verdicts are final and stock stays held.          *)
(***************************************************************************)
EXTENDS OrderCreation, TLAPS

\* What a request knows, by the point it is at.
RequestOf(r) ==
    /\ pc[r] \in {"idle", "find", "create", "load"} =>
          status[r] = "absent" /\ order[r] = NoOrder
    /\ pc[r] \in {"reserve", "accept", "reject", "reload"} =>
          /\ order[r] \in Requests
          /\ status[order[r]] # "absent" /\ key[order[r]] = key[r]
    /\ pc[r] = "accept" => order[r] \in held
    /\ pc[r] \in {"idle", "find", "create", "load", "reserve"} =>
          attempt[r] < inventoryReservationAttempts
    /\ pc[r] # "done" => result[r] = "none"
    /\ result[r] \in {"OK", "InsufficientStock"} =>
          /\ order[r] \in Requests /\ key[order[r]] = key[r]
          /\ status[order[r]] = IF result[r] = "OK" THEN "accepted" ELSE "rejected"

\* The unique index on the key.
OneRowPerKey ==
    \A o, p \in Requests :
        status[o] # "absent" /\ status[p] # "absent" /\ key[o] = key[p] => o = p

RInv == \A r \in Requests : RequestOf(r)
IInv == TypeOK /\ RInv /\ OneRowPerKey /\ AcceptedIsBacked

\* The rows only grow: r may insert its own, a pending one may get its verdict.
Grows(r) ==
    /\ \A o \in Requests : status[o] # "absent" => status'[o] # "absent"
    /\ \A o \in Requests : status[o] \in {"accepted", "rejected"} => status'[o] = status[o]
    /\ \A o \in Requests : status[o] = "absent" /\ o # r => status'[o] = "absent"
    /\ held \subseteq held'
    /\ key' = key

\* Nobody but r moves.
OnlyMoves(r) ==
    \A q \in Requests \ {r} :
        /\ pc'[q] = pc[q] /\ order'[q] = order[q]
        /\ attempt'[q] = attempt[q] /\ result'[q] = result[q]

\* What a request knows survives the steps of the others.
LEMMA OthersKeep ==
  ASSUME IInv, NEW r \in Requests, Grows(r), OnlyMoves(r)
  PROVE  \A q \in Requests \ {r} : RequestOf(q)'
<1> SUFFICES ASSUME NEW q \in Requests \ {r} PROVE RequestOf(q)'
  OBVIOUS
<1>1. RequestOf(q) /\ key[q] = key'[q]
  BY DEF IInv, RInv, Grows
<1>2. pc'[q] = pc[q] /\ order'[q] = order[q] /\ attempt'[q] = attempt[q] /\ result'[q] = result[q]
  BY DEF OnlyMoves
<1> QED
  BY <1>1, <1>2 DEF RequestOf, Grows

\* The two ways a request moves on.
LEMMA MoveOn ==
  ASSUME TypeOK, NEW r \in Requests, NEW where, NEW answer
  PROVE  /\ Goto(r, where) =>
              /\ pc' = [pc EXCEPT ![r] = where] /\ pc'[r] = where /\ result' = result
              /\ \A q \in Requests \ {r} : pc'[q] = pc[q] /\ result'[q] = result[q]
         /\ Answer(r, answer) =>
              /\ pc'[r] = "done" /\ result'[r] = answer
              /\ pc' = [pc EXCEPT ![r] = "done"]
              /\ result' = [result EXCEPT ![r] = answer]
              /\ \A q \in Requests \ {r} : pc'[q] = pc[q] /\ result'[q] = result[q]
  BY DEF TypeOK, Goto, Answer

\* A request that arrives has no row and no order yet.
LEMMA PostInv ==
  ASSUME IInv, NEW r \in Requests, NEW k \in Keys, NEW b \in Baskets, Post(r, k, b)
  PROVE  IInv'
<1> USE DEF Post, Goto, Answer, inventory
<1>1. TypeOK'
  BY DEF IInv, TypeOK
<1>2. status[r] = "absent" /\ status' = status
  BY DEF IInv, RInv, RequestOf
<1>3. \A o \in Requests : status[o] # "absent" => key'[o] = key[o]
  BY <1>2 DEF IInv, TypeOK
<1>4. OneRowPerKey' /\ AcceptedIsBacked'
  BY <1>2, <1>3 DEF IInv, OneRowPerKey, AcceptedIsBacked
<1>5. ASSUME NEW q \in Requests, q # r PROVE RequestOf(q)'
  <2>1. RequestOf(q) /\ key'[q] = key[q] /\ pc'[q] = pc[q] /\ result'[q] = result[q]
    BY <1>5 DEF IInv, RInv, TypeOK
  <2>2. UNCHANGED <<order, attempt, held>>
    OBVIOUS
  <2> QED
    BY <1>2, <1>3, <2>1, <2>2 DEF RequestOf
<1>6. RequestOf(r)'
  <2>1. UNCHANGED <<order, attempt, held>> /\ pc[r] = "idle" /\ RequestOf(r)
    BY DEF IInv, RInv
  <2>2. \/ pc'[r] = "find" /\ result'[r] = result[r]
        \/ pc'[r] = "done" /\ result'[r] = "InvalidRequest"
    BY DEF IInv, TypeOK
  <2> QED
    BY <1>2, <2>1, <2>2 DEF RequestOf
<1> QED
  BY <1>1, <1>4, <1>5, <1>6 DEF IInv, RInv

\* Taking up a stored order, or repeating its verdict.
LEMMA ProcessInv ==
  ASSUME IInv, NEW r \in Requests, NEW o \in Stored(key[r]), processPersisted(r, o),
         pc[r] \in {"find", "load"},
         UNCHANGED <<status, events, inventory, key, basket, attempt, calm>>
  PROVE  IInv'
<1>1. o \in Requests /\ status[o] # "absent" /\ key[o] = key[r]
  BY DEF Stored
<1>2. TypeOK'
  BY <1>1 DEF processPersisted, Goto, Answer, IInv, TypeOK, inventory
<1>3. OneRowPerKey' /\ AcceptedIsBacked'
  BY DEF IInv, OneRowPerKey, AcceptedIsBacked, inventory
<1>4. order'[r] = o /\ \A q \in Requests \ {r} : order'[q] = order[q]
  BY DEF processPersisted, IInv, TypeOK
<1>5. OnlyMoves(r) /\ Grows(r)
  BY <1>4 DEF OnlyMoves, Grows, processPersisted, Goto, Answer, IInv, TypeOK, inventory
<1>6. \/ pc'[r] = "done" /\ result'[r] = "OK" /\ status[o] = "accepted"
      \/ pc'[r] = "done" /\ result'[r] = "InsufficientStock" /\ status[o] = "rejected"
      \/ pc'[r] = "reserve" /\ result'[r] = result[r]
  BY DEF processPersisted, Goto, Answer, IInv, TypeOK
<1>7. RequestOf(r)'
  BY <1>1, <1>4, <1>6 DEF RequestOf, IInv, RInv, inventory
<1> QED
  BY <1>2, <1>3, <1>5, <1>7, OthersKeep DEF IInv, RInv

\* Looking the key up.
LEMMA FindInv ==
  ASSUME IInv, NEW r \in Requests, FindByIdempotencyKey(r)
  PROVE  IInv'
<1>1. CASE \E o \in Stored(key[r]) : processPersisted(r, o)
  BY <1>1, ProcessInv DEF FindByIdempotencyKey
<1>2. CASE buildOrder(r) /\ UNCHANGED order
  <2> USE DEF FindByIdempotencyKey, buildOrder, Goto, Answer, inventory
  <2>1. TypeOK'
    BY <1>2 DEF IInv, TypeOK
  <2>2. OneRowPerKey' /\ AcceptedIsBacked'
    BY DEF IInv, OneRowPerKey, AcceptedIsBacked
  <2>3. OnlyMoves(r) /\ Grows(r)
    BY <1>2 DEF OnlyMoves, Grows, IInv, TypeOK
  <2>4. \/ pc'[r] = "done" /\ result'[r] \in {"ProductNotFound", "InvalidOrder"}
        \/ pc'[r] = "create" /\ result'[r] = result[r]
    BY <1>2 DEF IInv, TypeOK
  <2>5. RequestOf(r)'
    BY <1>2, <2>4 DEF RequestOf, IInv, RInv
  <2> QED
    BY <2>1, <2>2, <2>3, <2>5, OthersKeep DEF IInv, RInv
<1> QED
  BY <1>1, <1>2 DEF FindByIdempotencyKey

\* One request inserts the row of a key.
LEMMA CreateInv ==
  ASSUME IInv, NEW r \in Requests, Create(r)
  PROVE  IInv'
<1> USE DEF Create, Goto, Answer, inventory
<1>1. status[r] = "absent" /\ order[r] = NoOrder
  BY DEF IInv, RInv, RequestOf
<1>2. TypeOK'
  BY <1>1 DEF IInv, TypeOK
<1>3. OnlyMoves(r) /\ Grows(r)
  BY <1>1 DEF OnlyMoves, Grows, IInv, TypeOK
<1>4. AcceptedIsBacked'
  BY <1>1 DEF IInv, AcceptedIsBacked, TypeOK
<1>5. OneRowPerKey'
  BY <1>1 DEF IInv, OneRowPerKey, TypeOK, Stored
<1>6. \/ /\ pc'[r] = "reserve" /\ result'[r] = result[r]
         /\ order'[r] = r /\ status'[r] = "pending"
      \/ pc'[r] = "done" /\ result'[r] = "Internal"
      \/ pc'[r] = "load" /\ result'[r] = result[r] /\ UNCHANGED <<status, order>>
  BY DEF IInv, TypeOK
<1>7. RequestOf(r)'
  BY <1>1, <1>6 DEF RequestOf, IInv, RInv
<1> QED
  BY <1>2, <1>3, <1>4, <1>5, <1>7, OthersKeep DEF IInv, RInv

\* What Hold does to the stock: nothing is taken back, and o holds its unit.
LEMMA HoldOK ==
  ASSUME TypeOK, NEW o \in Requests, Hold(o)
  PROVE  /\ held' = held \cup {o}
         /\ free' \in 0..MaxFree
  BY OrderCreationAssumption DEF Hold, TypeOK

\* A call to inventory, answered or not.
LEMMA ReserveInv ==
  ASSUME IInv, NEW r \in Requests, Reserve(r)
  PROVE  IInv'
<1> USE OrderCreationAssumption
<1>1. PICK o \in Requests : o = order[r]
  BY DEF Reserve, IInv, RInv, RequestOf
<1>2. status[o] # "absent" /\ key[o] = key[r] /\ attempt[r] < inventoryReservationAttempts
  BY <1>1 DEF Reserve, IInv, RInv, RequestOf
<1>3. UNCHANGED <<status, events, key, basket, order, calm>>
  BY DEF Reserve
<1>4. /\ held' = held \/ held' = held \cup {o}
      /\ late' = late \/ late' = late \cup {o}
      /\ free' \in 0..MaxFree
  <2>1. free \in 0..MaxFree
    BY DEF IInv, TypeOK
  <2>2. Hold(o) => held' = held \cup {o} /\ free' \in 0..MaxFree
    BY HoldOK DEF IInv
  <2> QED
    BY <1>1, <2>1, <2>2 DEF Reserve, reserveInventory, NoVerdict, inventory
<1>5. /\ attempt' = attempt \/ attempt' = [attempt EXCEPT ![r] = @ + 1]
      /\ attempt'[r] \in 0..inventoryReservationAttempts
      /\ \A q \in Requests \ {r} : attempt'[q] = attempt[q]
  BY <1>2 DEF Reserve, reserveInventory, retry, IInv, TypeOK
<1>6. \/ pc' = [pc EXCEPT ![r] = "accept"] /\ result' = result /\ o \in held'
      \/ pc' = [pc EXCEPT ![r] = "reject"] /\ result' = result
      \/ /\ pc' = [pc EXCEPT ![r] = "reserve"] /\ result' = result
         /\ attempt'[r] < inventoryReservationAttempts
      \/ /\ pc' = [pc EXCEPT ![r] = "done"]
         /\ \E answer \in {"Internal", "InventoryUnavailable"} :
                result' = [result EXCEPT ![r] = answer]
  <2>1. Hold(o) => o \in held'
    BY HoldOK DEF IInv
  <2>2. retry(r) => \/ /\ pc' = [pc EXCEPT ![r] = "reserve"] /\ result' = result
                       /\ attempt'[r] < inventoryReservationAttempts
                    \/ /\ pc' = [pc EXCEPT ![r] = "done"]
                       /\ result' = [result EXCEPT ![r] = "InventoryUnavailable"]
    BY DEF retry, Goto, Answer, IInv, TypeOK
  <2> QED
    BY <1>1, <2>1, <2>2 DEF Reserve, reserveInventory, Goto, Answer
<1>7. TypeOK'
  BY <1>2, <1>3, <1>4, <1>5, <1>6 DEF IInv, TypeOK
<1>8. OnlyMoves(r) /\ Grows(r)
  BY <1>3, <1>4, <1>5, <1>6 DEF OnlyMoves, Grows, IInv, TypeOK
<1>9. OneRowPerKey' /\ AcceptedIsBacked'
  BY <1>3, <1>4 DEF IInv, OneRowPerKey, AcceptedIsBacked
<1>10. RequestOf(r)'
  <2>1. pc[r] = "reserve" /\ RequestOf(r)
    BY DEF Reserve, IInv, RInv
  <2>2. \/ pc'[r] = "accept" /\ result'[r] = result[r] /\ o \in held'
        \/ pc'[r] = "reject" /\ result'[r] = result[r]
        \/ pc'[r] = "reserve" /\ result'[r] = result[r] /\ attempt'[r] < inventoryReservationAttempts
        \/ pc'[r] = "done" /\ result'[r] \in {"Internal", "InventoryUnavailable"}
    BY <1>6 DEF IInv, TypeOK
  <2> QED
    BY <1>1, <1>2, <1>3, <2>1, <2>2 DEF RequestOf
<1> QED
  BY <1>7, <1>8, <1>9, <1>10, OthersKeep DEF IInv, RInv

\* Recording a verdict; an acceptance only of an order that holds its stock.
LEMMA SettleInv ==
  ASSUME IInv, NEW r \in Requests,
         \/ Accept(r)
         \/ Reject(r)
  PROVE  IInv'
<1>0. PICK o \in Requests : o = order[r]
  BY DEF Accept, Reject, IInv, RInv, RequestOf
<1>1. status[o] # "absent" /\ key[o] = key[r] /\ (pc[r] = "accept" => o \in held)
  BY <1>0 DEF Accept, Reject, IInv, RInv, RequestOf
<1>2. PICK verdict \in {"accepted", "rejected"}, answer \in {"OK", "InsufficientStock"} :
         /\ Settle(r, verdict, answer)
         /\ verdict = "accepted" => o \in held
         /\ verdict = IF answer = "OK" THEN "accepted" ELSE "rejected"
  BY <1>1 DEF Accept, Reject
<1>3. UNCHANGED <<held, free, late, key, basket, order, attempt, calm>>
  BY <1>2 DEF Settle, inventory
<1>4. \/ /\ status[o] = "pending" /\ status' = [status EXCEPT ![o] = verdict]
         /\ events' = IF verdict = "accepted" THEN events \cup {o} ELSE events
         /\ pc' = [pc EXCEPT ![r] = "done"]
         /\ \/ result' = [result EXCEPT ![r] = answer]
            \/ result' = [result EXCEPT ![r] = "Internal"]
      \/ /\ UNCHANGED <<status, events>>
         /\ \/ pc' = [pc EXCEPT ![r] = "reload"] /\ result' = result
            \/ /\ pc' = [pc EXCEPT ![r] = "done"]
               /\ result' = [result EXCEPT ![r] = "InvalidOrder"]
  BY <1>0, <1>2 DEF Settle, updateOrderState, Goto, Answer
<1>5. TypeOK'
  BY <1>3, <1>4 DEF IInv, TypeOK
<1>6. OnlyMoves(r) /\ Grows(r)
  BY <1>3, <1>4 DEF OnlyMoves, Grows, IInv, TypeOK
<1>7. AcceptedIsBacked'
  BY <1>2, <1>3, <1>4 DEF IInv, AcceptedIsBacked, TypeOK
<1>8. OneRowPerKey'
  <2>1. \A p \in Requests : status'[p] # "absent" => status[p] # "absent"
    BY <1>1, <1>4 DEF IInv, TypeOK
  <2> QED
    BY <1>3, <2>1 DEF IInv, OneRowPerKey
<1>9. RequestOf(r)'
  <2>1. \/ pc'[r] = "done" /\ result'[r] = answer /\ status'[o] = verdict
        \/ pc'[r] = "done" /\ result'[r] \in {"Internal", "InvalidOrder"}
        \/ pc'[r] = "reload" /\ result'[r] = result[r] /\ UNCHANGED status
    BY <1>4 DEF IInv, TypeOK
  <2>2. RequestOf(r) /\ pc[r] \in {"accept", "reject"}
    BY DEF Accept, Reject, IInv, RInv
  <2> QED
    BY <1>0, <1>1, <1>2, <1>3, <2>1, <2>2 DEF RequestOf
<1> QED
  BY <1>5, <1>6, <1>7, <1>8, <1>9, OthersKeep DEF IInv, RInv

\* Answering from the table after a lost race, or not answering at all.
LEMMA AnswerInv ==
  ASSUME IInv, NEW r \in Requests, resultAfterConflict(r) \/ Abort(r)
  PROVE  IInv'
<1>1. UNCHANGED <<status, events, held, free, late, key, basket, order, attempt, calm>>
  BY DEF resultAfterConflict, Abort, inventory
<1>2. PICK answer \in {"OK", "InsufficientStock", "Internal"} :
         /\ pc' = [pc EXCEPT ![r] = "done"] /\ result' = [result EXCEPT ![r] = answer]
         /\ answer \in {"OK", "InsufficientStock"} =>
               /\ pc[r] = "reload"
               /\ status[order[r]] = IF answer = "OK" THEN "accepted" ELSE "rejected"
  BY DEF resultAfterConflict, Abort, Answer
<1>3. TypeOK'
  BY <1>1, <1>2 DEF IInv, TypeOK
<1>4. OnlyMoves(r) /\ Grows(r)
  BY <1>1, <1>2 DEF OnlyMoves, Grows, IInv, TypeOK
<1>5. OneRowPerKey' /\ AcceptedIsBacked'
  BY <1>1 DEF IInv, OneRowPerKey, AcceptedIsBacked
<1>6. RequestOf(r)'
  <2>1. pc'[r] = "done" /\ result'[r] = answer
    BY <1>2 DEF IInv, TypeOK
  <2> QED
    BY <1>1, <1>2, <2>1 DEF RequestOf, IInv, RInv
<1> QED
  BY <1>3, <1>4, <1>5, <1>6, OthersKeep DEF IInv, RInv

\* Every step of the specification preserves the invariant.
LEMMA NextInv == IInv /\ [Next]_vars => IInv'
<1> USE OrderCreationAssumption
<1> SUFFICES ASSUME IInv, [Next]_vars PROVE IInv'
  OBVIOUS
<1>1. ASSUME NEW o \in Requests, LateReservation(o) PROVE IInv'
  <2>1. held' = held \cup {o} /\ free' \in 0..MaxFree
    BY <1>1, HoldOK DEF LateReservation, IInv
  <2>2. /\ late' \subseteq late /\ o \in late
        /\ UNCHANGED <<status, events, pc, key, basket, order, attempt, result, calm>>
    BY <1>1 DEF LateReservation
  <2> QED
    BY <2>1, <2>2 DEF IInv, TypeOK, RInv, RequestOf, OneRowPerKey, AcceptedIsBacked
<1>2. CASE StockChanges
  BY <1>2 DEF StockChanges, IInv, TypeOK, RInv, RequestOf, OneRowPerKey, AcceptedIsBacked
<1>3. CASE CalmDown
  BY <1>3 DEF CalmDown, inventory, IInv, TypeOK, RInv, RequestOf, OneRowPerKey,
              AcceptedIsBacked
<1>4. CASE UNCHANGED vars
  BY <1>4 DEF vars, IInv, TypeOK, RInv, RequestOf, OneRowPerKey, AcceptedIsBacked
<1>5. ASSUME NEW r \in Requests, LoadConcurrentOrder(r) PROVE IInv'
  BY <1>5, ProcessInv DEF LoadConcurrentOrder
<1> QED
  BY <1>1, <1>2, <1>3, <1>4, <1>5, PostInv, FindInv, CreateInv, ReserveInv, SettleInv,
     AnswerInv DEF Next, Step

\* The invariant holds in every state.
THEOREM Invariant == Spec => []IInv
<1> USE OrderCreationAssumption
<1>1. Init => IInv
  <2> SUFFICES ASSUME Init PROVE IInv
    OBVIOUS
  <2>1. TypeOK
    <3>1. attempt \in [Requests -> 0..inventoryReservationAttempts]
      BY DEF Init
    <3>2. basket \in [Requests -> Baskets] /\ free \in 0..MaxFree
      BY DEF Init, Baskets
    <3>3. calm \in BOOLEAN
      BY DEF Init
    <3>4. /\ order \in [Requests -> Requests \cup {NoOrder}]
          /\ key \in [Requests -> Keys \cup {NoKey}]
      BY DEF Init
    <3> QED
      BY <3>1, <3>2, <3>3, <3>4 DEF Init, TypeOK
  <2>2. RInv
    <3> SUFFICES ASSUME NEW r \in Requests PROVE RequestOf(r)
      BY DEF RInv
    <3>1. /\ pc[r] = "idle" /\ status[r] = "absent" /\ order[r] = NoOrder
          /\ attempt[r] = 0 /\ result[r] = "none"
      BY DEF Init
    <3>2. 0 < inventoryReservationAttempts
      OBVIOUS
    <3> QED
      BY <3>1, <3>2 DEF RequestOf
  <2>3. OneRowPerKey /\ AcceptedIsBacked
    BY DEF Init, OneRowPerKey, AcceptedIsBacked
  <2> QED
    BY <2>1, <2>2, <2>3 DEF IInv
<1> QED
  BY <1>1, NextInv, PTL DEF Spec

\* The orders table and the requests keep their types.
THEOREM TypeCorrect == Spec => []TypeOK
<1>1. IInv => TypeOK
  BY DEF IInv
<1> QED
  BY <1>1, Invariant, PTL

\* An accepted order has its stock and its event, and an event its acceptance.
THEOREM AcceptanceBacked == Spec => []AcceptedIsBacked
<1>1. IInv => AcceptedIsBacked
  BY DEF IInv
<1> QED
  BY <1>1, Invariant, PTL

\* All requests with one key are told the same of the same order.
THEOREM OneFatePerKey == Spec => []KeyHasOneFate
<1>1. IInv => KeyHasOneFate
  <2> SUFFICES ASSUME IInv, NEW r \in Requests, NEW q \in Requests,
                      result[r] \in {"OK", "InsufficientStock"}
               PROVE  /\ order[r] \in Requests
                      /\ status[order[r]] = IF result[r] = "OK" THEN "accepted" ELSE "rejected"
                      /\ result[q] \in {"OK", "InsufficientStock"} /\ key[q] = key[r]
                         => result[q] = result[r] /\ order[q] = order[r]
    BY DEF KeyHasOneFate
  <2> QED
    BY DEF IInv, RInv, RequestOf, OneRowPerKey
<1> QED
  BY <1>1, Invariant, PTL

\* No request changes a verdict, whatever it believes the order's status is.
THEOREM VerdictsFinal == Spec => VerdictFinal
<1> DEFINE Kept == \A o \in Requests : status[o] \in {"accepted", "rejected"} =>
                        status'[o] = status[o]
<1>1. IInv /\ [Next]_vars => [Kept]_vars
  <2> SUFFICES ASSUME IInv, [Next]_vars PROVE Kept \/ UNCHANGED vars
    OBVIOUS
  <2>1. ASSUME NEW r \in Requests, Create(r) PROVE Kept
    BY <2>1 DEF Create, IInv, TypeOK, RInv, RequestOf
  <2>2. ASSUME NEW r \in Requests, Accept(r) \/ Reject(r) PROVE Kept
    BY <2>2 DEF Accept, Reject, Settle, updateOrderState, IInv, TypeOK
  <2>3. ASSUME status' = status PROVE Kept
    BY <2>3
  <2> QED
    BY <2>1, <2>2, <2>3 DEF Next, Step, Post, FindByIdempotencyKey, LoadConcurrentOrder,
       Reserve, resultAfterConflict, Abort, LateReservation, StockChanges, CalmDown
<1> QED
  BY <1>1, Invariant, PTL DEF Spec, VerdictFinal

-----------------------------------------------------------------------------
(* The order book.                                                          *)

\* A request that is at work has a key.
KeyKnown == \A r \in Requests : pc[r] \notin {"idle", "done"} => key[r] \in Keys

\* A request keeps its key while it is at work.
LEMMA KeysKnown == Spec => []KeyKnown
<1>1. Init => KeyKnown
  BY DEF Init, KeyKnown
<1>2. IInv /\ KeyKnown /\ [Next]_vars => KeyKnown'
  <2> SUFFICES ASSUME IInv, KeyKnown, [Next]_vars PROVE KeyKnown'
    OBVIOUS
  <2> USE DEF KeyKnown, IInv, TypeOK, Goto, Answer
  <2>1. ASSUME NEW r \in Requests, NEW k \in Keys, NEW b \in Baskets, Post(r, k, b)
        PROVE  KeyKnown'
    BY <2>1 DEF Post
  <2>2. ASSUME NEW r \in Requests,
               /\ key' = key /\ pc[r] \notin {"idle", "done"}
               /\ \E where : pc' = [pc EXCEPT ![r] = where]
        PROVE  KeyKnown'
    BY <2>2
  <2>3. ASSUME NEW r \in Requests, Step(r) \/ Abort(r) PROVE KeyKnown'
    <3>1. /\ key' = key /\ pc[r] \notin {"idle", "done"}
          /\ \E where : pc' = [pc EXCEPT ![r] = where]
      <4>1. CASE FindByIdempotencyKey(r) \/ LoadConcurrentOrder(r)
        BY <4>1 DEF FindByIdempotencyKey, LoadConcurrentOrder, processPersisted, buildOrder
      <4>2. CASE Create(r)
        BY <4>2 DEF Create
      <4>3. CASE Reserve(r)
        BY <4>3 DEF Reserve, reserveInventory, retry
      <4>4. CASE Accept(r) \/ Reject(r)
        BY <4>4 DEF Accept, Reject, Settle
      <4>5. CASE resultAfterConflict(r) \/ Abort(r)
        BY <4>5 DEF resultAfterConflict, Abort
      <4> QED
        BY <2>3, <4>1, <4>2, <4>3, <4>4, <4>5 DEF Step
    <3> QED
      BY <2>2, <3>1
  <2>4. ASSUME key' = key /\ pc' = pc PROVE KeyKnown'
    BY <2>4
  <2> QED
    BY <2>1, <2>3, <2>4 DEF Next, LateReservation, StockChanges, CalmDown, vars
<1> QED
  BY <1>1, <1>2, Invariant, PTL DEF Spec

\* Every step of a request is a step of the order book or changes nothing in it.
LEMMA BookStep == IInv /\ KeyKnown /\ [Next]_vars => [Book!Next]_(Book!book)
<1> SUFFICES ASSUME IInv, KeyKnown, [Next]_vars
             PROVE  Book!Next \/ UNCHANGED Book!book
  OBVIOUS
<1> USE OrderCreationAssumption DEF IInv, TypeOK
<1> DEFINE stored(o) == IF status[o] = "absent" THEN NoKey ELSE key[o]
<1>1. ASSUME UNCHANGED <<status, events, held>>,
             \A o \in Requests : status[o] # "absent" => key'[o] = key[o]
      PROVE  UNCHANGED Book!book
  BY <1>1 DEF Book!book
<1>2. ASSUME NEW r \in Requests, NEW k \in Keys, NEW b \in Baskets, Post(r, k, b)
      PROVE  UNCHANGED Book!book
  <2>1. status[r] = "absent" /\ UNCHANGED <<status, events, held>>
    BY <1>2 DEF Post, RInv, RequestOf, inventory
  <2>2. \A o \in Requests : o # r => key'[o] = key[o]
    BY <1>2 DEF Post
  <2> QED
    BY <1>1, <2>1, <2>2
<1>3. ASSUME NEW r \in Requests, Create(r)
      PROVE  Book!Next \/ UNCHANGED Book!book
  <2>1. CASE Stored(key[r]) # {}
    BY <1>1, <1>3, <2>1 DEF Create, inventory
  <2>2. CASE Stored(key[r]) = {}
    <3>1. PICK k \in Keys : status[r] = "absent" /\ key[r] = k
      BY <1>3 DEF Create, RInv, RequestOf, KeyKnown
    <3>2. /\ status' = [status EXCEPT ![r] = "pending"]
          /\ UNCHANGED <<events, held, key>>
      BY <1>3, <2>2 DEF Create, inventory
    <3>3. \A p \in Requests : stored(p) # k
      BY <2>2, <3>1 DEF Stored
    <3>4. [o \in Requests |-> IF status'[o] = "absent" THEN NoKey ELSE key'[o]]
            = [[o \in Requests |-> stored(o)] EXCEPT ![r] = k]
      BY <3>1, <3>2
    <3>5. Book!Place(r, k)
      BY <3>1, <3>2, <3>3, <3>4 DEF Book!Place
    <3> QED
      BY <3>5 DEF Book!Next
  <2> QED
    BY <2>1, <2>2
<1>4. ASSUME NEW o \in Requests, status[o] # "absent",
             Hold(o) \/ UNCHANGED held, UNCHANGED <<status, events, key>>
      PROVE  Book!Next \/ UNCHANGED Book!book
  <2>1. CASE UNCHANGED held
    BY <1>1, <1>4, <2>1
  <2>2. CASE Hold(o)
    BY <1>4, <2>2 DEF Hold, Book!Hold, Book!Next
  <2> QED
    BY <1>4, <2>1, <2>2
<1>5. ASSUME NEW r \in Requests, Reserve(r)
      PROVE  Book!Next \/ UNCHANGED Book!book
  <2>1. order[r] \in Requests /\ status[order[r]] # "absent"
    BY <1>5 DEF Reserve, RInv, RequestOf
  <2>2. Hold(order[r]) \/ UNCHANGED held
    BY <1>5 DEF Reserve, reserveInventory, NoVerdict, inventory
  <2>3. UNCHANGED <<status, events, key>>
    BY <1>5 DEF Reserve
  <2> QED
    BY <1>4, <2>1, <2>2, <2>3
<1>6. ASSUME NEW o \in Requests, LateReservation(o)
      PROVE  Book!Next \/ UNCHANGED Book!book
  <2>1. status[o] # "absent" /\ Hold(o) /\ UNCHANGED <<status, events, key>>
    BY <1>6 DEF LateReservation
  <2> QED
    BY <1>4, <2>1
<1>7. ASSUME NEW r \in Requests, Accept(r) \/ Reject(r)
      PROVE  Book!Next \/ UNCHANGED Book!book
  <2>1. order[r] \in Requests /\ UNCHANGED <<held, key>>
    BY <1>7 DEF Accept, Reject, Settle, inventory, RInv, RequestOf
  <2>2. CASE UNCHANGED <<status, events>>
    BY <1>1, <2>1, <2>2
  <2>3. CASE Accept(r) /\ updateOrderState(r, "accepted")
    <3>1. order[r] \in held
      BY <2>3 DEF Accept, RInv, RequestOf
    <3>2. status[order[r]] = "pending"
          /\ status' = [status EXCEPT ![order[r]] = "accepted"]
          /\ events' = events \cup {order[r]}
      BY <2>3 DEF updateOrderState
    <3>3. [o \in Requests |-> IF status'[o] = "absent" THEN NoKey ELSE key'[o]]
            = [o \in Requests |-> stored(o)]
      BY <2>1, <3>2
    <3>4. Book!Accept(order[r])
      BY <2>1, <3>1, <3>2, <3>3 DEF Book!Accept
    <3> QED
      BY <2>1, <3>4 DEF Book!Next
  <2>4. CASE Reject(r) /\ updateOrderState(r, "rejected")
    <3>1. status[order[r]] = "pending"
          /\ status' = [status EXCEPT ![order[r]] = "rejected"] /\ events' = events
      BY <2>4 DEF updateOrderState
    <3>2. [o \in Requests |-> IF status'[o] = "absent" THEN NoKey ELSE key'[o]]
            = [o \in Requests |-> stored(o)]
      BY <2>1, <3>1
    <3>3. Book!Reject(order[r])
      BY <2>1, <3>1, <3>2 DEF Book!Reject
    <3> QED
      BY <2>1, <3>3 DEF Book!Next
  <2> QED
    BY <1>7, <2>2, <2>3, <2>4 DEF Accept, Reject, Settle
<1>8. ASSUME UNCHANGED <<status, events, held, key>> PROVE UNCHANGED Book!book
  BY <1>1, <1>8
<1> QED
  BY <1>2, <1>3, <1>5, <1>6, <1>7, <1>8
  DEF Next, Step, FindByIdempotencyKey, LoadConcurrentOrder, resultAfterConflict, Abort,
      StockChanges, CalmDown, inventory, vars

\* Requests, retries, races and lost replies implement the order book.
THEOREM ImplementsBook == Spec => BookSpec
<1>1. Init => Book!Init
  BY DEF Init, Book!Init
<1> QED
  BY <1>1, BookStep, Invariant, KeysKnown, PTL DEF Spec, BookSpec, Book!Spec

-----------------------------------------------------------------------------
(* Stock that is held for a rejected order.                                 *)

\* A request was unsure about the order before, or two were at work on it.
Disturbed(o) ==
    \/ \E r \in Requests : order[r] = o /\ attempt[r] > 0
    \/ \E r, q \in Requests : r # q /\ order[r] = o /\ order[q] = o

Finished(o) == \E q \in Requests : order[q] = o /\ pc[q] = "done"

\* A call on its way, and a refusal that has been overtaken by a reservation, are
\* traces of a request that is not the one that will find the order refused.
Traces ==
    /\ \A o \in late : Disturbed(o) \/ Finished(o)
    /\ \A r \in Requests :
          pc[r] = "reject" /\ order[r] \in held \cup late => Disturbed(order[r])
    /\ \A o \in Requests : status[o] = "rejected" => Finished(o)
    /\ \A o \in held \cup late : status[o] = "rejected" => Disturbed(o)

\* What a request has left behind stays.
LEMMA TracesStay ==
  ASSUME IInv, [Next]_vars, NEW o \in Requests
  PROVE  (Disturbed(o) => Disturbed(o)') /\ (Finished(o) => Finished(o)')
<1> DEFINE Keeps(q) == /\ order[q] \in Requests => order'[q] = order[q]
                       /\ attempt'[q] >= attempt[q]
                       /\ pc[q] = "done" => pc'[q] = "done"
<1>1. ASSUME NEW q \in Requests PROVE Keeps(q)
  <2> USE OrderCreationAssumption DEF IInv, TypeOK, Goto, Answer
  <2>1. RequestOf(q)
    BY DEF RInv
  <2>2. ASSUME NEW r \in Requests, NEW k \in Keys, NEW b \in Baskets, Post(r, k, b)
        PROVE  Keeps(q)
    BY <2>2 DEF Post
  <2>3. ASSUME NEW r \in Requests, FindByIdempotencyKey(r) \/ LoadConcurrentOrder(r)
        PROVE  Keeps(q)
    BY <2>1, <2>3 DEF FindByIdempotencyKey, LoadConcurrentOrder, processPersisted, buildOrder,
                      RequestOf
  <2>4. ASSUME NEW r \in Requests, Create(r) PROVE Keeps(q)
    BY <2>1, <2>4 DEF Create, RequestOf
  <2>5. ASSUME NEW r \in Requests, Reserve(r) PROVE Keeps(q)
    BY <2>5 DEF Reserve, reserveInventory, retry
  <2>6. ASSUME NEW r \in Requests, Accept(r) \/ Reject(r) PROVE Keeps(q)
    BY <2>6 DEF Accept, Reject, Settle
  <2>7. ASSUME NEW r \in Requests, resultAfterConflict(r) \/ Abort(r) PROVE Keeps(q)
    BY <2>7 DEF resultAfterConflict, Abort
  <2>8. ASSUME UNCHANGED <<pc, order, attempt>> PROVE Keeps(q)
    BY <2>8
  <2> QED
    BY <2>2, <2>3, <2>4, <2>5, <2>6, <2>7, <2>8
    DEF Next, Step, LateReservation, StockChanges, CalmDown, vars
<1>2. \A q \in Requests : attempt[q] \in Nat /\ attempt'[q] \in Nat
  <2>1. \A q \in Requests : attempt[q] \in Nat
    BY OrderCreationAssumption DEF IInv, TypeOK
  <2>2. IInv'
    BY NextInv
  <2> QED
    BY <2>1, <2>2, OrderCreationAssumption DEF IInv, TypeOK
<1> QED
  BY <1>1, <1>2 DEF Disturbed, Finished

\* A step that leaves the stock and the verdicts alone and sends nobody to
\* "reject" leaves the traces alone.
LEMMA QuietTraces ==
  ASSUME IInv, Traces, [Next]_vars, UNCHANGED <<held, late>>,
         \A o \in Requests : status'[o] = "rejected" => status[o] = "rejected",
         \A r \in Requests : pc'[r] = "reject" => pc[r] = "reject" /\ order'[r] = order[r]
  PROVE  Traces'
<1>1. \A o \in held \cup late : o \in Requests
  BY DEF IInv, TypeOK
<1> QED
  BY <1>1, TracesStay DEF Traces

\* A call to inventory leaves its traces, whatever becomes of its answer.
LEMMA ReserveTraces ==
  ASSUME IInv, Traces, NEW r \in Requests, Reserve(r)
  PROVE  Traces'
<1>0. PICK o \in Requests : o = order[r]
  BY DEF Reserve, IInv, RInv, RequestOf
<1>1. o = order[r] /\ order' = order /\ status' = status /\ pc[r] = "reserve"
      /\ pc \in [Requests -> {"idle", "find", "create", "load", "reserve", "accept",
                              "reject", "reload", "done"}]
  BY <1>0 DEF Reserve, IInv, TypeOK, RInv, RequestOf
<1>2. \A p \in Requests : (Disturbed(p) => Disturbed(p)') /\ (Finished(p) => Finished(p)')
  <2>1. Next
    BY DEF Next, Step
  <2> QED
    BY <2>1, TracesStay
<1>3. held' \cup late' \subseteq held \cup late \cup {o} /\ held \cup late \subseteq Requests
  BY <1>1 DEF Reserve, reserveInventory, NoVerdict, Hold, inventory, IInv, TypeOK
<1>4. \A q \in Requests : q # r => pc'[q] = pc[q]
  BY DEF Reserve, reserveInventory, retry, Goto, Answer, IInv, TypeOK
<1>5. ASSUME NEW q \in Requests, q # r, order[q] = o PROVE Disturbed(o)'
  BY <1>1, <1>5 DEF Disturbed
<1>6. o \in late' => Disturbed(o)' \/ Finished(o)'
  <2>1. CASE o \in late
    BY <1>1, <1>2, <2>1 DEF Traces
  <2>2. CASE o \notin late /\ o \in late'
    <3>1. (NoVerdict(o) /\ Answer(r, "Internal")) \/ (NoVerdict(o) /\ retry(r))
      BY <1>1, <2>2 DEF Reserve, reserveInventory, inventory
    <3>2. CASE Answer(r, "Internal")
      BY <1>1, <3>2 DEF Answer, Finished
    <3>3. CASE retry(r)
      <4>1. attempt[r] \in Nat /\ attempt'[r] = attempt[r] + 1
        BY <3>3, OrderCreationAssumption DEF retry, IInv, TypeOK
      <4> QED
        BY <1>1, <4>1 DEF Disturbed
    <3> QED
      BY <3>1, <3>2, <3>3
  <2> QED
    BY <2>1, <2>2
<1>7. pc'[r] = "reject" => UNCHANGED <<held, late>> /\ o \notin held
  BY <1>1 DEF Reserve, reserveInventory, Refusable, retry, Goto, Answer, inventory
<1>8. ASSUME NEW q \in Requests, NEW p \in held' \cup late', pc'[q] = "reject", order[q] = p
      PROVE  Disturbed(p)'
  <2>1. CASE q = r
    <3>1. o \in late
      BY <1>1, <1>7, <1>8, <2>1
    <3>2. Disturbed(o) \/ Finished(o)
      BY <3>1 DEF Traces
    <3>3. Finished(o) => Disturbed(o)'
      BY <1>1, <1>5 DEF Finished
    <3> QED
      BY <1>1, <1>2, <1>8, <2>1, <3>2, <3>3
  <2>2. CASE q # r /\ order[q] = o
    BY <1>1, <1>5, <1>8, <2>2
  <2>3. CASE q # r /\ order[q] # o
    BY <1>1, <1>2, <1>3, <1>4, <1>8, <2>3 DEF Traces
  <2> QED
    BY <2>1, <2>2, <2>3
<1>9. ASSUME NEW p \in held' \cup late', status'[p] = "rejected" PROVE Disturbed(p)'
  <2>1. CASE p \in held \cup late
    BY <1>1, <1>2, <1>3, <1>9, <2>1 DEF Traces
  <2>2. CASE p = o
    <3>1. Finished(o)
      BY <1>1, <1>9, <2>2 DEF Traces
    <3>2. PICK q \in Requests : order[q] = o /\ pc[q] = "done"
      BY <3>1 DEF Finished
    <3> QED
      BY <1>1, <1>5, <2>2, <3>2
  <2> QED
    BY <1>3, <2>1, <2>2
<1>10. \A p \in late' : Disturbed(p)' \/ Finished(p)'
  <2>1. ASSUME NEW p \in late', p # o PROVE p \in late
    BY <1>1, <2>1 DEF Reserve, reserveInventory, NoVerdict, Hold, inventory
  <2> QED
    BY <1>2, <1>3, <1>6, <2>1 DEF Traces
<1>11. \A p \in Requests : status'[p] = "rejected" => Finished(p)'
  BY <1>1, <1>2 DEF Traces
<1>12. ASSUME NEW q \in Requests, pc'[q] = "reject", order'[q] \in held' \cup late'
       PROVE  Disturbed(order[q])'
  <2>1. PICK p \in held' \cup late' : order'[q] = p /\ order[q] = p
    BY <1>1, <1>12
  <2>2. Disturbed(p)'
    BY <1>8, <1>12, <2>1
  <2> QED
    BY <2>1, <2>2 DEF Disturbed
<1> QED
  BY <1>9, <1>10, <1>11, <1>12 DEF Traces

\* A verdict is recorded; what inventory holds does not change.
LEMMA SettleTraces ==
  ASSUME IInv, Traces, NEW r \in Requests, Accept(r) \/ Reject(r)
  PROVE  Traces'
<1> DEFINE o == order[r]
<1>1. o \in Requests /\ order' = order /\ UNCHANGED <<held, late>>
  BY DEF Accept, Reject, Settle, inventory, IInv, RInv, RequestOf
<1>2. Next
  BY DEF Next, Step
<1>3. \A q \in Requests : pc'[q] = "reject" => pc[q] = "reject"
  BY DEF Accept, Reject, Settle, Goto, Answer, IInv, TypeOK
<1>4. CASE \A p \in Requests : status'[p] = "rejected" => status[p] = "rejected"
  BY <1>1, <1>2, <1>3, <1>4, QuietTraces
<1>5. CASE Reject(r) /\ updateOrderState(r, "rejected")
  <2>1. status' = [status EXCEPT ![o] = "rejected"] /\ pc[r] = "reject" /\ pc'[r] = "done"
    BY <1>5 DEF Reject, Settle, updateOrderState, Answer, Goto, IInv, TypeOK
  <2>2. \A p \in Requests : (Disturbed(p) => Disturbed(p)') /\ (Finished(p) => Finished(p)')
    BY <1>2, TracesStay
  <2>3. held \cup late \subseteq Requests
    BY DEF IInv, TypeOK
  <2>4. Finished(o)'
    BY <1>1, <2>1 DEF Finished
  <2>5. \A p \in Requests : status'[p] = "rejected" => Finished(p)'
    BY <1>1, <2>1, <2>2, <2>4 DEF Traces, IInv, TypeOK
  <2>6. \A p \in held' \cup late' : status'[p] = "rejected" => Disturbed(p)'
    BY <1>1, <2>1, <2>2, <2>3 DEF Traces, IInv, TypeOK
  <2> QED
    BY <1>1, <1>3, <2>2, <2>3, <2>5, <2>6 DEF Traces
<1>6. \/ \A p \in Requests : status'[p] = "rejected" => status[p] = "rejected"
      \/ Reject(r) /\ updateOrderState(r, "rejected")
  BY <1>1 DEF Accept, Reject, Settle, updateOrderState, IInv, TypeOK
<1> QED
  BY <1>4, <1>5, <1>6

\* Stock that is stranded by a rejection was reserved by a call that its request
\* knew nothing of, or by another request: never by a request that then rejects.
THEOREM StrandedHasACause == Spec => []StrandedNeedsARace
<1>1. Init => Traces
  BY DEF Init, Traces
<1>2. IInv /\ Traces /\ [Next]_vars => Traces'
  <2> SUFFICES ASSUME IInv, Traces, [Next]_vars PROVE Traces'
    OBVIOUS
  <2> USE DEF IInv, TypeOK, Goto, Answer
  <2>1. ASSUME NEW r \in Requests, NEW k \in Keys, NEW b \in Baskets, Post(r, k, b)
        PROVE  Traces'
    BY <2>1, QuietTraces DEF Post, inventory
  <2>2. ASSUME NEW r \in Requests, FindByIdempotencyKey(r) \/ LoadConcurrentOrder(r)
        PROVE  Traces'
    BY <2>2, QuietTraces DEF FindByIdempotencyKey, LoadConcurrentOrder, processPersisted,
       buildOrder, inventory
  <2>3. ASSUME NEW r \in Requests, Create(r) PROVE Traces'
    BY <2>3, QuietTraces DEF Create, inventory
  <2>4. ASSUME NEW r \in Requests, resultAfterConflict(r) \/ Abort(r) PROVE Traces'
    BY <2>4, QuietTraces DEF resultAfterConflict, Abort, inventory
  <2>5. ASSUME NEW o \in Requests, LateReservation(o) PROVE Traces'
    <3>1. /\ UNCHANGED <<status, pc, order, attempt>> /\ late' \subseteq late
          /\ held' \cup late' = held \cup late
      BY <2>5 DEF LateReservation, Hold
    <3> QED
      BY <3>1 DEF Traces, Disturbed, Finished
  <2>6. ASSUME UNCHANGED <<status, held, late, pc, order, attempt>> PROVE Traces'
    BY <2>6 DEF Traces, Disturbed, Finished
  <2> QED
    BY <2>1, <2>2, <2>3, <2>4, <2>5, <2>6, ReserveTraces, SettleTraces
    DEF Next, Step, StockChanges, CalmDown, inventory, vars
<1>3. IInv /\ Traces => StrandedNeedsARace
  BY DEF Traces, StrandedNeedsARace, Disturbed, IInv, TypeOK
<1> QED
  BY <1>1, <1>2, <1>3, Invariant, PTL DEF Spec

=============================================================================
