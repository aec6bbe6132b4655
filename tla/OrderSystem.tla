---------------------------- MODULE OrderSystem ----------------------------
(***************************************************************************)
(* The three services together, from a customer's request to the email, in *)
(* terms of what each promises: OrderCreation implements OrderBook, Outbox *)
(* implements Relay and Notification implements Mailer. Two joint steps    *)
(* tie them: the transaction that accepts an order records its event, and  *)
(* an event that the broker routes is a message for notification-service.  *)
(***************************************************************************)
EXTENDS Naturals

CONSTANTS
    Orders, Keys, NoKey,
    Messages,           \* one for every time that an event reaches the queue
    OrderOf,
    MaxSendAttempts

VARIABLES
    status, key, held,              \* order-service and inventory-service
    progress, routed,               \* the outbox
    place, parked, sent, emails,    \* the broker and notification-service
    hung,                           \* every consumer is stuck in drainReturns
    calm                            \* broker, databases and processes are well

book == <<status, key, held>>
outbox == <<progress, routed>>
notification == <<place, parked, sent, emails>>
vars == <<book, outbox, notification, hung, calm>>

ASSUME OrderSystemAssumption ==
    /\ NoKey \notin Keys
    /\ OrderOf \in [Messages -> Orders]
    /\ MaxSendAttempts \in Nat \ {0}

Relays == INSTANCE Relay WITH Events <- Orders
Book == INSTANCE OrderBook WITH events <- {o \in Orders : progress[o] # "absent"}
Mail == INSTANCE Mailer

Init == Relays!Init /\ Book!Init /\ Mail!Init /\ hung = FALSE /\ calm = FALSE

Buy(o) ==
    /\ UNCHANGED <<outbox, notification, hung, calm>>
    /\ \/ \E k \in Keys : Book!Place(o, k)
       \/ Book!Hold(o)
       \/ Book!Reject(o)

Accept(o) ==
    /\ Relays!Record(o)
    /\ Book!Accept(o)
    /\ UNCHANGED <<notification, hung, calm>>

\* A worker that is slow or loses an answer publishes an event once more.
Forward(o) ==
    /\ Relays!Route(o)
    /\ \E m \in Mail!About(o) : Mail!Publish(m)
    /\ UNCHANGED <<book, hung, calm>>

SettleOutbox(o) ==
    /\ Relays!Published(o) \/ Relays!SetAside(o) \/ Relays!Redrive(o)
    /\ UNCHANGED <<book, notification, hung, calm>>

CleanUp ==
    /\ \E batch \in SUBSET Orders : Relays!Delete(batch)
    /\ UNCHANGED <<book, notification, hung, calm>>

Notify(m) ==
    /\ ~hung
    /\ Mail!Send(OrderOf[m]) \/ Mail!Record(OrderOf[m]) \/ Mail!Park(m) \/ Mail!Done(m)
    /\ UNCHANGED <<book, outbox, hung, calm>>

\* The last consumer that was at work has a delivery to park, on a channel that has
\* died. Only a new process helps.
Hang ==
    /\ ~hung
    /\ \E m \in Messages : place[m] # "absent"
    /\ hung' = TRUE
    /\ UNCHANGED <<book, outbox, notification, calm>>

Restart ==
    /\ hung /\ ~calm
    /\ hung' = FALSE
    /\ UNCHANGED <<book, outbox, notification, calm>>

\* From now on nothing fails and nobody restarts a process.
CalmDown ==
    /\ ~calm
    /\ calm' = TRUE
    /\ UNCHANGED <<book, outbox, notification, hung>>

Next ==
    \/ \E o \in Orders : Buy(o) \/ Accept(o) \/ Forward(o) \/ SettleOutbox(o)
    \/ CleanUp
    \/ \E m \in Messages : Notify(m)
    \/ Hang \/ Restart \/ CalmDown

Spec == Init /\ [][Next]_vars

\* Once calm, a waiting event is forwarded or set aside: that is what
\* EventuallySettled says of the outbox, the event of an accepted order being one
\* that can be published (EventDecodes). And a queued message is dealt with unless
\* the consumers hang: that is what EventuallyHandled says of them. Before, events
\* and messages may wait for ever. Nobody is obliged to buy, and an order need not
\* be accepted.
FairSpec ==
    /\ Spec
    /\ \A o \in Orders :
          WF_vars(calm /\ progress[o] = "waiting" /\ o \notin routed /\ Forward(o))
    /\ \A m \in Messages :
          WF_vars(calm /\ place[m] = "queued" /\ Notify(m))

-----------------------------------------------------------------------------
\* The parts of the three services keep their types.
TypeOK ==
    /\ status \in [Orders -> {"absent", "pending", "accepted", "rejected"}]
    /\ key \in [Orders -> Keys \cup {NoKey}]
    /\ held \in SUBSET Orders
    /\ progress \in [Orders -> {"absent", "waiting", "aside", "published", "deleted"}]
    /\ routed \in SUBSET Orders
    /\ place \in [Messages -> {"absent", "queued", "gone"}]
    /\ parked \in SUBSET Messages
    /\ sent \in SUBSET Orders
    /\ emails \in [Orders -> Nat]
    /\ hung \in BOOLEAN /\ calm \in BOOLEAN

\* Nobody is mailed about an order that was not accepted, or whose stock the
\* warehouse does not hold, and one idempotency key never has two such emails
\* for two orders, whatever was retried on the way.
MailedMeansSold ==
    /\ \A o \in Orders : emails[o] > 0 => status[o] = "accepted" /\ o \in held
    /\ \A o, p \in Orders :
          emails[o] > 0 /\ emails[p] > 0 /\ key[o] = key[p] => o = p

\* An accepted order is always somewhere: its event is in the outbox, or a
\* message is at the broker or parked for a person, or the email is on record.
NoneForgotten ==
    \A o \in Orders : status[o] = "accepted" =>
        \/ progress[o] \in {"waiting", "aside"}
        \/ \E m \in Mail!About(o) : place[m] = "queued" \/ m \in parked
        \/ o \in sent

\* Once the trouble is over, an order that is accepted is, in the end, mailed about
\* or put before a person, in the outbox or in the parked queue, unless every
\* consumer has come to hang in drainReturns.
EveryBuyerHears ==
    \A o \in Orders : calm /\ status[o] = "accepted" ~>
        \/ o \in sent
        \/ progress[o] = "aside"
        \/ \E m \in Mail!About(o) : m \in parked
        \/ hung
=============================================================================
