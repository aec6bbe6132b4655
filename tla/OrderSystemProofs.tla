-------------------------- MODULE OrderSystemProofs --------------------------
(***************************************************************************)
(* Theorems about the three services together, for any number of orders,   *)
(* keys and messages. An order leaves a trail: it is accepted together     *)
(* with its event, the event is routed before a message exists, a message  *)
(* exists before an email, and none of them is dropped before the next is  *)
(* there. The invariant says how far each trail has come.                  *)
(***************************************************************************)
EXTENDS OrderSystem, TLAPS

\* The acceptance and the event are one transaction, and the stock is held.
AcceptedWithEvent ==
    \A o \in Orders :
        /\ status[o] = "accepted" <=> progress[o] # "absent"
        /\ status[o] = "accepted" => o \in held

\* The unique index on the idempotency key.
OneOrderPerKey ==
    \A o, p \in Orders :
        status[o] # "absent" /\ status[p] # "absent" /\ key[o] = key[p] => o = p

\* A routed event has a message, and every message is about a routed event.
RoutedHasMessage ==
    /\ \A o \in routed : progress[o] # "absent"
    /\ \A m \in Messages : place[m] # "absent" => OrderOf[m] \in routed
    /\ \A o \in routed : \E m \in Messages : OrderOf[m] = o /\ place[m] # "absent"

\* A row is let go after the event is routed, a message after it was dealt with,
\* and an email goes out only for a routed event.
LetGoInOrder ==
    /\ \A o \in Orders : progress[o] \in {"published", "deleted"} => o \in routed
    /\ \A m \in Messages : place[m] = "gone" => m \in parked \/ OrderOf[m] \in sent
    /\ \A o \in Orders : emails[o] > 0 => o \in routed

IInv == TypeOK /\ AcceptedWithEvent /\ OneOrderPerKey /\ RoutedHasMessage /\ LetGoInOrder

\* About an order are the messages that name it.
LEMMA AboutIs ==
  ASSUME NEW o, NEW m
  PROVE  m \in Mail!About(o) <=> m \in Messages /\ OrderOf[m] = o
BY OrderSystemAssumption DEF Mail!About

\* No order, no event, no message.
LEMMA InitInv == Init => IInv
<1> SUFFICES ASSUME Init PROVE IInv
  OBVIOUS
<1> USE OrderSystemAssumption DEF Init, Relays!Init, Book!Init, Mail!Init
<1>1. TypeOK
  BY DEF TypeOK
<1>2. AcceptedWithEvent /\ OneOrderPerKey
  BY DEF AcceptedWithEvent, OneOrderPerKey
<1>3. RoutedHasMessage /\ LetGoInOrder
  BY DEF RoutedHasMessage, LetGoInOrder
<1> QED
  BY <1>1, <1>2, <1>3 DEF IInv

\* Requests, reservations and rejections touch the order book only.
LEMMA BuyInv ==
  ASSUME IInv, NEW o \in Orders, Buy(o)
  PROVE  IInv'
<1> USE DEF IInv, TypeOK, book, outbox, notification
<1>1. RoutedHasMessage' /\ LetGoInOrder'
  BY DEF Buy, RoutedHasMessage, LetGoInOrder
<1>2. ASSUME NEW k \in Keys, Book!Place(o, k)
      PROVE  TypeOK' /\ AcceptedWithEvent' /\ OneOrderPerKey'
  <2>1. TypeOK'
    BY <1>2 DEF Buy, Book!Place
  <2>2. AcceptedWithEvent'
    BY <1>2 DEF Buy, Book!Place, AcceptedWithEvent
  <2>3. OneOrderPerKey'
    BY <1>2 DEF Book!Place, OneOrderPerKey
  <2> QED
    BY <2>1, <2>2, <2>3
<1>3. ASSUME Book!Hold(o) \/ Book!Reject(o)
      PROVE  TypeOK' /\ AcceptedWithEvent' /\ OneOrderPerKey'
  <2>1. TypeOK'
    BY <1>3 DEF Buy, Book!Hold, Book!Reject
  <2>2. AcceptedWithEvent'
    BY <1>3 DEF Buy, Book!Hold, Book!Reject, AcceptedWithEvent
  <2>3. OneOrderPerKey'
    BY <1>3 DEF Book!Hold, Book!Reject, OneOrderPerKey
  <2> QED
    BY <2>1, <2>2, <2>3
<1> QED
  BY <1>1, <1>2, <1>3 DEF Buy

\* The joint step of order book and outbox.
LEMMA AcceptInv ==
  ASSUME IInv, NEW o \in Orders, Accept(o)
  PROVE  IInv'
<1> USE DEF IInv, TypeOK, book, outbox, notification, Accept, Book!Accept, Relays!Record
<1>1. TypeOK'
  OBVIOUS
<1>2. AcceptedWithEvent'
  BY DEF AcceptedWithEvent
<1>3. OneOrderPerKey'
  BY DEF OneOrderPerKey
<1>4. RoutedHasMessage'
  BY DEF RoutedHasMessage
<1>5. LetGoInOrder'
  BY DEF LetGoInOrder
<1> QED
  BY <1>1, <1>2, <1>3, <1>4, <1>5

\* The joint step of outbox and broker.
LEMMA ForwardInv ==
  ASSUME IInv, NEW o \in Orders, Forward(o)
  PROVE  IInv'
<1> USE DEF IInv, TypeOK, book, outbox, notification, Forward
<1>1. PICK m \in Mail!About(o) : Mail!Publish(m)
  OBVIOUS
<1>2. m \in Messages /\ OrderOf[m] = o
  BY <1>1, AboutIs
<1>3. /\ routed' = routed \cup {o} /\ progress' = progress /\ progress[o] # "absent"
      /\ place[m] = "absent" /\ place' = [place EXCEPT ![m] = "queued"]
      /\ UNCHANGED <<status, key, held, parked, sent, emails, hung, calm>>
  BY <1>1 DEF Relays!Route, Mail!Publish
<1>4. TypeOK'
  BY <1>2, <1>3
<1>5. AcceptedWithEvent' /\ OneOrderPerKey'
  BY <1>3 DEF AcceptedWithEvent, OneOrderPerKey
<1>6. RoutedHasMessage'
  <2>1. \A p \in routed' : progress'[p] # "absent"
    BY <1>3 DEF RoutedHasMessage
  <2>2. \A n \in Messages : place'[n] # "absent" => OrderOf[n] \in routed'
    BY <1>2, <1>3 DEF RoutedHasMessage
  <2>3. ASSUME NEW p \in routed' PROVE \E n \in Messages : OrderOf[n] = p /\ place'[n] # "absent"
    <3>1. CASE p = o
      BY <1>2, <1>3, <3>1
    <3>2. CASE p # o
      BY <1>2, <1>3, <3>2 DEF RoutedHasMessage
    <3> QED BY <3>1, <3>2
  <2> QED
    BY <2>1, <2>2, <2>3 DEF RoutedHasMessage
<1>7. LetGoInOrder'
  BY <1>2, <1>3 DEF LetGoInOrder
<1> QED
  BY <1>4, <1>5, <1>6, <1>7

\* The outbox settles its rows: none returns to "absent", and none is marked
\* published or deleted that no queue has.
LEMMA OutboxInv ==
  ASSUME IInv, (\E o \in Orders : SettleOutbox(o)) \/ CleanUp
  PROVE  IInv'
<1> USE DEF IInv, TypeOK, book, outbox, notification
<1>1. UNCHANGED <<status, key, held, routed, place, parked, sent, emails, hung, calm>>
  BY DEF SettleOutbox, CleanUp, Relays!Published, Relays!SetAside, Relays!Redrive,
         Relays!Delete
<1>2. /\ progress' \in [Orders -> {"absent", "waiting", "aside", "published", "deleted"}]
      /\ \A o \in Orders : progress'[o] = "absent" <=> progress[o] = "absent"
      /\ \A o \in Orders : progress'[o] \in {"published", "deleted"} =>
            progress[o] \in {"published", "deleted"} \/ o \in routed
  <2>1. CASE CleanUp
    BY <2>1 DEF CleanUp, Relays!Delete
  <2>2. ASSUME NEW o \in Orders, SettleOutbox(o) PROVE <1>2
    BY <2>2 DEF SettleOutbox, Relays!Published, Relays!SetAside, Relays!Redrive
  <2> QED
    BY <2>1, <2>2
<1>3. TypeOK'
  BY <1>1, <1>2
<1>4. AcceptedWithEvent' /\ OneOrderPerKey'
  BY <1>1, <1>2 DEF AcceptedWithEvent, OneOrderPerKey
<1>5. RoutedHasMessage'
  BY <1>1, <1>2 DEF RoutedHasMessage
<1>6. LetGoInOrder'
  BY <1>1, <1>2 DEF LetGoInOrder
<1> QED
  BY <1>3, <1>4, <1>5, <1>6

\* notification-service mails only about orders it has a message of, and lets go
\* of a message only when it was dealt with.
LEMMA NotifyInv ==
  ASSUME IInv, NEW m \in Messages, Notify(m)
  PROVE  IInv'
<1> USE OrderSystemAssumption DEF IInv, TypeOK, book, outbox, notification
<1> DEFINE o == OrderOf[m]
<1>1. o \in Orders
  OBVIOUS
<1> HIDE DEF o
<1>2. UNCHANGED <<status, key, held, progress, routed, hung, calm>>
  BY DEF Notify
<1>3. AcceptedWithEvent' /\ OneOrderPerKey'
  BY <1>2 DEF AcceptedWithEvent, OneOrderPerKey
<1>4. ASSUME Mail!Send(o) PROVE TypeOK' /\ RoutedHasMessage' /\ LetGoInOrder'
  <2>1. TypeOK'
    BY <1>1, <1>2, <1>4 DEF Mail!Send
  <2>2. RoutedHasMessage'
    BY <1>2, <1>4 DEF Mail!Send, RoutedHasMessage
  <2>3. o \in routed
    BY <1>4, AboutIs DEF Mail!Send, RoutedHasMessage
  <2>4. LetGoInOrder'
    BY <1>1, <1>2, <1>4, <2>3 DEF Mail!Send, LetGoInOrder
  <2> QED
    BY <2>1, <2>2, <2>4
<1>5. ASSUME Mail!Record(o) \/ Mail!Park(m) PROVE TypeOK' /\ RoutedHasMessage' /\ LetGoInOrder'
  <2>1. TypeOK'
    BY <1>1, <1>2, <1>5 DEF Mail!Record, Mail!Park
  <2>2. RoutedHasMessage'
    BY <1>2, <1>5 DEF Mail!Record, Mail!Park, RoutedHasMessage
  <2>3. LetGoInOrder'
    BY <1>2, <1>5 DEF Mail!Record, Mail!Park, LetGoInOrder
  <2> QED
    BY <2>1, <2>2, <2>3
<1>6. ASSUME Mail!Done(m) PROVE TypeOK' /\ RoutedHasMessage' /\ LetGoInOrder'
  <2>1. m \in parked \/ OrderOf[m] \in sent
    BY <1>6, AboutIs DEF Mail!Done
  <2>2. place[m] = "queued" /\ place' = [place EXCEPT ![m] = "gone"]
        /\ UNCHANGED <<parked, sent, emails>>
    BY <1>6 DEF Mail!Done
  <2>3. TypeOK'
    BY <1>2, <2>2
  <2>4. RoutedHasMessage'
    <3>1. \A n \in Messages : place'[n] # "absent" <=> place[n] # "absent"
      BY <2>2
    <3> QED
      BY <1>2, <3>1 DEF RoutedHasMessage
  <2>5. LetGoInOrder'
    BY <1>2, <2>1, <2>2 DEF LetGoInOrder
  <2> QED
    BY <2>3, <2>4, <2>5
<1>7. Mail!Send(o) \/ Mail!Record(o) \/ Mail!Park(m) \/ Mail!Done(m)
  BY DEF Notify, o
<1> QED
  BY <1>3, <1>4, <1>5, <1>6, <1>7

\* What the consumers and their surroundings go through leaves no trail.
LEMMA TroubleInv ==
  ASSUME IInv, Hang \/ Restart \/ CalmDown
  PROVE  IInv'
<1>1. UNCHANGED <<book, outbox, notification>> /\ hung' \in BOOLEAN /\ calm' \in BOOLEAN
  BY DEF Hang, Restart, CalmDown, IInv, TypeOK
<1> QED
  BY <1>1 DEF book, outbox, notification, IInv, TypeOK, AcceptedWithEvent, OneOrderPerKey,
              RoutedHasMessage, LetGoInOrder

\* How far the trail of each order has come, in every reachable state.
THEOREM Invariant == Spec => []IInv
<1>1. IInv /\ [Next]_vars => IInv'
  <2> SUFFICES ASSUME IInv, [Next]_vars PROVE IInv'
    OBVIOUS
  <2>1. CASE UNCHANGED vars
    BY <2>1 DEF vars, book, outbox, notification, IInv, TypeOK, AcceptedWithEvent, OneOrderPerKey, RoutedHasMessage,
                LetGoInOrder
  <2>2. CASE Next
    BY <2>2, BuyInv, AcceptInv, ForwardInv, OutboxInv, NotifyInv, TroubleInv DEF Next
  <2> QED
    BY <2>1, <2>2
<1> QED
  BY InitInv, <1>1, PTL DEF Spec

\* The parts of the three services keep their types.
THEOREM TypeCorrect == Spec => []TypeOK
<1>1. IInv => TypeOK
  BY DEF IInv
<1> QED
  BY Invariant, <1>1, PTL

\* Every email is about an order that was accepted and whose stock is held, and
\* no idempotency key has emails about two orders.
THEOREM MailedIsSold == Spec => []MailedMeansSold
<1>1. IInv => MailedMeansSold
  <2> SUFFICES ASSUME IInv PROVE MailedMeansSold
    OBVIOUS
  <2>1. ASSUME NEW o \in Orders, emails[o] > 0
        PROVE  status[o] = "accepted" /\ o \in held
    BY <2>1 DEF IInv, LetGoInOrder, RoutedHasMessage, AcceptedWithEvent
  <2>2. ASSUME NEW o \in Orders, NEW p \in Orders, emails[o] > 0, emails[p] > 0,
               key[o] = key[p]
        PROVE  o = p
    BY <2>1, <2>2 DEF IInv, OneOrderPerKey
  <2> QED
    BY <2>1, <2>2 DEF MailedMeansSold
<1> QED
  BY Invariant, <1>1, PTL

\* An accepted order whose row is settled has a message at the broker, a parked
\* copy or its email on record.
THEOREM NoOrderForgotten == Spec => []NoneForgotten
<1>1. IInv => NoneForgotten
  <2> SUFFICES ASSUME IInv, NEW o \in Orders, status[o] = "accepted",
                      progress[o] \notin {"waiting", "aside"}, o \notin sent
               PROVE  \E m \in Mail!About(o) : place[m] = "queued" \/ m \in parked
    BY DEF NoneForgotten
  <2>1. progress[o] \in {"published", "deleted"}
    BY DEF IInv, TypeOK, AcceptedWithEvent
  <2>2. o \in routed
    BY <2>1 DEF IInv, LetGoInOrder
  <2>3. PICK m \in Messages : OrderOf[m] = o /\ place[m] # "absent"
    BY <2>2 DEF IInv, RoutedHasMessage
  <2>4. place[m] = "queued" \/ m \in parked
    BY <2>3 DEF IInv, TypeOK, LetGoInOrder
  <2> QED
    BY <2>3, <2>4, AboutIs
<1> QED
  BY Invariant, <1>1, PTL
=============================================================================
