---------------------------- MODULE Notification ----------------------------
(***************************************************************************)
(* notification-service: consumers, one per running copy of the service,   *)
(* that take order-accepted messages off RabbitMQ and send the customer    *)
(* one email per order.                                                    *)
(*                                                                         *)
(* A consumer handles one delivery at a time: it claims the effect in the  *)
(* table sent_notifications under a lease, counts the attempt, calls the   *)
(* email provider, records the outcome, and acknowledges the delivery or   *)
(* rejects it into the retry queue. What can never be handled, and what    *)
(* has used up its attempts, is copied to the parked queue first. Two      *)
(* messages about one order are two members of Messages. As in Outbox, a   *)
(* lease may run out at any moment.                                        *)
(***************************************************************************)
EXTENDS Naturals, FiniteSets

CONSTANTS
    Workers,
    Messages,
    NoMessage,
    Orders,
    OrderOf,            \* the order a well-formed message is about
    Malformed,          \* messages with a wrong envelope or a body that is no event
    Tokens,             \* claim tokens; random, so only equality counts
    NoToken,
    MaxSendAttempts

VARIABLES
    loc,                \* where the broker keeps a message
    parked,             \* messages with a copy in the parked queue
    state,              \* state column, "none" where there is no row
    attempts,           \* attempts column
    token,              \* claim_token column
    expired,            \* rows whose lease_expires_at has passed
    channel,            \* the consumer's AMQP channel
    forwarded,          \* delivery of a dead channel that a forwarder still offers
    wpc,                \* where a consumer is
    delivery,           \* the message it handles
    claim,              \* the Claim it holds, and whether its lease has run out
    emails,             \* emails the provider has accepted for an order
    unrecorded,         \* those of them whose success was never written down
    calm                \* no more crashes, failed writes or broker trouble

queues == <<loc, parked>>
row == <<state, attempts, token, expired>>
sends == <<emails, unrecorded>>
vars == <<loc, parked, state, attempts, token, expired, channel, forwarded, wpc,
          delivery, claim, emails, unrecorded, calm>>

ASSUME NotificationAssumption ==
    /\ NoMessage \notin Messages
    /\ NoToken \notin Tokens
    /\ Malformed \subseteq Messages
    /\ OrderOf \in [Messages \ Malformed -> Orders]
    /\ MaxSendAttempts \in Nat \ {0}

NoClaim == [token |-> NoToken, attempts |-> 0, overrun |-> FALSE]

Init ==
    /\ loc = [m \in Messages |-> "absent"]
    /\ parked = {}
    /\ state = [o \in Orders |-> "none"]
    /\ attempts = [o \in Orders |-> 0]
    /\ token = [o \in Orders |-> NoToken]
    /\ expired = {}
    /\ channel = [w \in Workers |-> "closed"]
    /\ forwarded = [w \in Workers |-> NoMessage]
    /\ wpc = [w \in Workers |-> "idle"]
    /\ delivery = [w \in Workers |-> NoMessage]
    /\ claim = [w \in Workers |-> NoClaim]
    /\ emails = [o \in Orders |-> 0]
    /\ unrecorded = [o \in Orders |-> 0]
    /\ calm = FALSE

-----------------------------------------------------------------------------
(* The session with the broker.                                             *)

Goto(w, where) == wpc' = [wpc EXCEPT ![w] = where]

Subject(w) == OrderOf[delivery[w]]

\* The broker counts the delivery of w as unacknowledged.
Live(w) == channel[w] = "open" /\ wpc[w] # "idle"

\* Run rebuilds the session once the last one has ended. What a forwarder of the
\* old session still offered is dropped.
consume(w) ==
    /\ wpc[w] = "idle" /\ channel[w] = "closed"
    /\ channel' = [channel EXCEPT ![w] = "open"]
    /\ forwarded' = [forwarded EXCEPT ![w] = NoMessage]
    /\ UNCHANGED <<queues, row, wpc, delivery, claim, sends, calm>>

\* The envelope is that of the event, the body decodes, and what it says passes
\* the checks on ids, amounts and lines.
Decodable(m) == m \notin Malformed

\* The select of the consume loop may pick a delivery of a channel that is
\* already closed; the broker has put the message back by then.
handle(w, m) ==
    /\ wpc[w] = "idle"
    /\ \/ /\ channel[w] = "open" /\ loc[m] = "working"
          /\ loc' = [loc EXCEPT ![m] = "unacked"]
          /\ UNCHANGED forwarded
       \/ /\ channel[w] = "closed" /\ forwarded[w] = m
          /\ forwarded' = [forwarded EXCEPT ![w] = NoMessage]
          /\ UNCHANGED loc
    /\ delivery' = [delivery EXCEPT ![w] = m]
    /\ Goto(w, IF Decodable(m) THEN "claim" ELSE "park")
    /\ UNCHANGED <<parked, row, channel, claim, sends, calm>>

-----------------------------------------------------------------------------
(* Execute: the claim.                                                      *)

FreshToken(t) == /\ \A o \in Orders : token[o] # t
                 /\ \A w \in Workers : claim[w].token # t

\* Bug of the mutant: whoever comes last has the claim.
TakeableSending(o) == state[o] # "sent"

\* Bug of the mutant: a claim is only taken over when it was released.
TakeableReleased(o) == state[o] \in {"none", "failed"}

\* There is no row, or the WHERE of the conflict branch lets it be taken over.
Takeable(o) ==
    \/ state[o] \in {"none", "failed"}
    \/ state[o] = "sending" /\ o \in expired

\* Bug of the mutant: the budget lets one call too many through.
ExhaustedLate(made) == made > MaxSendAttempts

Exhausted(made) == made >= MaxSendAttempts

\* One statement claims the effect. Its reply may be lost; when it claims nothing
\* the state is read back by another one.
Claim(w, t) ==
    LET o == Subject(w)
    IN  /\ wpc[w] = "claim"
        /\ FreshToken(t)
        /\ \/ /\ Takeable(o)
              /\ state' = [state EXCEPT ![o] = "sending"]
              /\ token' = [token EXCEPT ![o] = t]
              /\ expired' = expired \ {o}
              /\ \/ /\ claim' = [claim EXCEPT ![w] =
                            [token |-> t, attempts |-> attempts[o], overrun |-> FALSE]]
                    /\ Goto(w, IF Exhausted(attempts[o]) THEN "park" ELSE "begin")
                 \/ ~calm /\ Goto(w, "reject") /\ UNCHANGED claim
           \/ /\ ~Takeable(o)
              /\ Goto(w, "lookup")
              /\ UNCHANGED <<state, token, expired, claim>>
        /\ UNCHANGED <<queues, attempts, channel, forwarded, delivery, sends, calm>>

\* Bug of the mutant: an effect that somebody is busy with counts as done.
currentStateBusyIsDone(w) ==
    /\ wpc[w] = "lookup"
    /\ Goto(w, "ack")
    /\ UNCHANGED <<queues, row, channel, forwarded, delivery, claim, sends, calm>>

currentState(w) ==
    /\ wpc[w] = "lookup"
    /\ Goto(w, IF state[Subject(w)] = "sent" THEN "ack" ELSE "reject")
    /\ UNCHANGED <<queues, row, channel, forwarded, delivery, claim, sends, calm>>

-----------------------------------------------------------------------------
(* Execute: the attempt.                                                    *)

\* The row is still the claim's.
Fenced(w) ==
    /\ state[Subject(w)] = "sending"
    /\ token[Subject(w)] = claim[w].token

\* The attempt is counted before the provider is called.
BeginAttempt(w) ==
    /\ wpc[w] = "begin"
    /\ \/ /\ Fenced(w)
          /\ attempts' = [attempts EXCEPT ![Subject(w)] = @ + 1]
          /\ Goto(w, "send") \/ (~calm /\ Goto(w, "reject"))
       \/ ~Fenced(w) /\ Goto(w, "reject") /\ UNCHANGED attempts
    /\ UNCHANGED <<queues, state, token, expired, channel, forwarded, delivery, claim,
                   sends, calm>>

\* The provider may fail as often as it likes, and may have accepted the email
\* although the call failed.
Send(w) ==
    /\ wpc[w] = "send"
    /\ \/ /\ Goto(w, "sent")
          /\ emails' = [emails EXCEPT ![Subject(w)] = @ + 1]
          /\ UNCHANGED unrecorded
       \/ Goto(w, "failed") /\ UNCHANGED sends
       \/ /\ Goto(w, "failed")
          /\ emails' = [emails EXCEPT ![Subject(w)] = @ + 1]
          /\ unrecorded' = [unrecorded EXCEPT ![Subject(w)] = @ + 1]
    /\ UNCHANGED <<queues, row, channel, forwarded, delivery, claim, calm>>

MarkSent(w) ==
    /\ wpc[w] = "sent"
    /\ \/ /\ Fenced(w)
          /\ state' = [state EXCEPT ![Subject(w)] = "sent"]
          /\ Goto(w, "ack") \/ (~calm /\ Goto(w, "reject"))
          /\ UNCHANGED unrecorded
       \/ /\ ~Fenced(w)
          /\ Goto(w, "reject")
          /\ unrecorded' = [unrecorded EXCEPT ![Subject(w)] = @ + 1]
          /\ UNCHANGED state
    /\ UNCHANGED <<queues, attempts, token, expired, channel, forwarded, delivery, claim,
                   emails, calm>>

\* Bug of the mutant: the release is not fenced.
MarkFailedUnfenced(w) ==
    /\ wpc[w] = "failed"
    /\ state' = [state EXCEPT ![Subject(w)] = "failed"]
    /\ Goto(w, "reject")
    /\ UNCHANGED <<queues, attempts, token, expired, channel, forwarded, delivery, claim,
                   sends, calm>>

MarkFailed(w) ==
    /\ wpc[w] = "failed"
    /\ \/ Fenced(w) /\ state' = [state EXCEPT ![Subject(w)] = "failed"]
       \/ ~Fenced(w) /\ UNCHANGED state
    /\ Goto(w, "reject")
    /\ UNCHANGED <<queues, attempts, token, expired, channel, forwarded, delivery, claim,
                   sends, calm>>

\* A statement fails, or the process has been told to stop and its context is
\* cancelled: whatever was to be written is not, and the delivery goes back.
StorageFailure(w) ==
    /\ ~calm
    /\ wpc[w] \in {"claim", "lookup", "begin", "sent", "failed"}
    /\ Goto(w, "reject")
    /\ unrecorded' = IF wpc[w] = "sent"
                     THEN [unrecorded EXCEPT ![Subject(w)] = @ + 1] ELSE unrecorded
    /\ UNCHANGED <<queues, row, channel, forwarded, delivery, claim, emails, calm>>

-----------------------------------------------------------------------------
(* The answer to the broker.                                                *)

\* A settlement on a dead channel fails, is logged, and changes nothing.
Settled(w, where) ==
    /\ loc' = IF Live(w) THEN [loc EXCEPT ![delivery[w]] = where] ELSE loc
    /\ Goto(w, "idle")
    /\ delivery' = [delivery EXCEPT ![w] = NoMessage]
    /\ claim' = [claim EXCEPT ![w] = NoClaim]
    /\ UNCHANGED <<parked, row, channel, forwarded, sends, calm>>

acknowledge(w) == wpc[w] = "ack" /\ Settled(w, "gone")

\* Bug of the mutant: the handler returns without answering the broker.
rejectForgotten(w) ==
    /\ wpc[w] = "reject"
    /\ Goto(w, "idle")
    /\ delivery' = [delivery EXCEPT ![w] = NoMessage]
    /\ claim' = [claim EXCEPT ![w] = NoClaim]
    /\ UNCHANGED <<queues, row, channel, forwarded, sends, calm>>

reject(w) == wpc[w] = "reject" /\ Settled(w, "retry")

\* The original is acknowledged once the copy is confirmed and was not returned;
\* otherwise it goes back, also when the copy did arrive. drainReturns reads the
\* channel of returns until it is empty, and a closed one never is.
park(w) ==
    /\ wpc[w] = "park"
    /\ \/ channel[w] = "closed" /\ Goto(w, "draining") /\ UNCHANGED parked
       \/ /\ channel[w] = "open"
          /\ parked' = parked \cup {delivery[w]}
          /\ Goto(w, "ack") \/ (~calm /\ Goto(w, "reject"))
       \/ channel[w] = "open" /\ ~calm /\ Goto(w, "reject") /\ UNCHANGED parked
    /\ UNCHANGED <<loc, row, channel, forwarded, delivery, claim, sends, calm>>

-----------------------------------------------------------------------------
(* From outside.                                                            *)

\* order-service publishes a message, or publishes it once more.
Publish(m) ==
    /\ loc[m] = "absent"
    /\ loc' = [loc EXCEPT ![m] = "working"]
    /\ UNCHANGED <<parked, row, channel, forwarded, wpc, delivery, claim, sends, calm>>

\* The TTL of the retry queue sends the message back to the working queue.
RetryExpires(m) ==
    /\ loc[m] = "retry"
    /\ loc' = [loc EXCEPT ![m] = "working"]
    /\ UNCHANGED <<parked, row, channel, forwarded, wpc, delivery, claim, sends, calm>>

\* A lease runs out, possibly under a worker that is still busy.
LeaseExpires(o) ==
    /\ state[o] = "sending" /\ o \notin expired
    /\ expired' = expired \cup {o}
    /\ claim' = [w \in Workers |-> IF claim[w].token = token[o]
                                   THEN [claim[w] EXCEPT !.overrun = TRUE] ELSE claim[w]]
    /\ UNCHANGED <<queues, state, attempts, token, channel, forwarded, wpc, delivery,
                   sends, calm>>

\* The broker puts the unacknowledged delivery of a consumer back.
Requeued(w) == IF Live(w) THEN [loc EXCEPT ![delivery[w]] = "working"] ELSE loc

\* A forwarder may be holding one more delivery of the channel that dies.
ChannelCloses(w) ==
    /\ ~calm
    /\ channel[w] = "open"
    /\ channel' = [channel EXCEPT ![w] = "closed"]
    /\ loc' = Requeued(w)
    /\ \E m \in {n \in Messages : loc[n] = "working"} \cup {NoMessage} :
          forwarded' = [forwarded EXCEPT ![w] = m]
    /\ UNCHANGED <<parked, row, wpc, delivery, claim, sends, calm>>

\* The process dies or is stopped, and another one takes its place.
Crash(w) ==
    /\ ~calm
    /\ loc' = Requeued(w)
    /\ channel' = [channel EXCEPT ![w] = "closed"]
    /\ forwarded' = [forwarded EXCEPT ![w] = NoMessage]
    /\ Goto(w, "idle")
    /\ delivery' = [delivery EXCEPT ![w] = NoMessage]
    /\ claim' = [claim EXCEPT ![w] = NoClaim]
    /\ unrecorded' = IF wpc[w] = "sent"
                     THEN [unrecorded EXCEPT ![Subject(w)] = @ + 1] ELSE unrecorded
    /\ UNCHANGED <<parked, row, emails, calm>>

\* The broker, the database and the processes work from now on; the email
\* provider need not.
CalmDown ==
    /\ ~calm
    /\ calm' = TRUE
    /\ UNCHANGED <<queues, row, channel, forwarded, wpc, delivery, claim, sends>>

Work(w) ==
    \/ consume(w)
    \/ \E m \in Messages : handle(w, m)
    \/ \E t \in Tokens : Claim(w, t)
    \/ currentState(w)
    \/ BeginAttempt(w)
    \/ Send(w)
    \/ MarkSent(w)
    \/ MarkFailed(w)
    \/ acknowledge(w)
    \/ reject(w)
    \/ park(w)

Next ==
    \/ \E w \in Workers : Work(w) \/ StorageFailure(w) \/ ChannelCloses(w) \/ Crash(w)
    \/ \E m \in Messages : Publish(m) \/ RetryExpires(m)
    \/ \E o \in Orders : LeaseExpires(o)
    \/ CalmDown

Spec == Init /\ [][Next]_vars

\* A consumer that can go on does, and time passes on the queues and the leases.
\* Nobody is obliged to publish, the provider need never accept an email, and
\* nothing says that the trouble ends.
FairSpec ==
    /\ Spec
    /\ \A w \in Workers : WF_vars(Work(w))
    /\ \A m \in Messages : WF_vars(RetryExpires(m))
    /\ \A o \in Orders : WF_vars(LeaseExpires(o))

-----------------------------------------------------------------------------
\* The broker waits for an answer about exactly the messages that connected
\* consumers handle, and each of them has one such consumer.
OneHolder ==
    /\ \A m \in Messages :
          loc[m] = "unacked" <=> \E w \in Workers : Live(w) /\ delivery[w] = m
    /\ \A v, w \in Workers : Live(v) /\ Live(w) /\ delivery[v] = delivery[w] => v = w

\* The broker, the table and the consumers keep their types, and agree about who
\* is handling which message.
TypeOK ==
    /\ loc \in [Messages -> {"absent", "working", "unacked", "retry", "gone"}]
    /\ parked \in SUBSET Messages
    /\ state \in [Orders -> {"none", "sending", "sent", "failed"}]
    /\ attempts \in [Orders -> Nat]
    /\ token \in [Orders -> Tokens \cup {NoToken}]
    /\ expired \in SUBSET {o \in Orders : state[o] # "none"}
    /\ channel \in [Workers -> {"open", "closed"}]
    /\ forwarded \in [Workers -> Messages \cup {NoMessage}]
    /\ wpc \in [Workers -> {"idle", "claim", "lookup", "begin", "send", "sent", "failed",
                            "park", "draining", "ack", "reject"}]
    /\ delivery \in [Workers -> Messages \cup {NoMessage}]
    /\ claim \in [Workers -> [token : Tokens \cup {NoToken}, attempts : Nat,
                              overrun : BOOLEAN]]
    /\ emails \in [Orders -> Nat]
    /\ unrecorded \in [Orders -> Nat]
    /\ calm \in BOOLEAN
    /\ OneHolder

\* The provider is called at most MaxSendAttempts times for an order, counted
\* across workers, takeovers and crashes, although the budget is compared with a
\* copy read at the claim; and a well-formed message is only parked when the
\* budget is spent.
SendBudget ==
    /\ \A o \in Orders : attempts[o] <= MaxSendAttempts
    /\ \A m \in parked \ Malformed : attempts[OrderOf[m]] = MaxSendAttempts

\* No message is lost: one that has left the broker for good has been parked, or
\* its order's email is on record as sent, and nothing is on record that the
\* provider did not accept.
NothingLost ==
    /\ \A m \in Messages : loc[m] = "gone" =>
          m \in parked \/ (m \notin Malformed /\ state[OrderOf[m]] = "sent")
    /\ \A o \in Orders : state[o] = "sent" => emails[o] > 0

\* Workers that are past sending, do not have the claim any more, and have
\* overrun their lease.
Overran(o) == {w \in Workers : /\ wpc[w] = "sent" /\ Subject(w) = o
                               /\ claim[w].overrun /\ ~Fenced(w)}

\* A second email has a cause: beyond one, every email of an order is one whose
\* success could not be written down, or belongs to a worker that overran its
\* lease. Several messages, several workers and takeovers alone never send two;
\* and no email goes out that was not counted as an attempt.
DuplicatesNeedTheWindow ==
    \A o \in Orders :
        /\ emails[o] <= 1 + unrecorded[o] + Cardinality(Overran(o))
        /\ emails[o] <= attempts[o]

\* An effect on record as sent stays so: no late release by a worker that lost
\* the claim reopens it, and no claim takes it over.
SentIsFinal == [][\A o \in Orders : state[o] = "sent" => state'[o] = "sent"]_vars

\* Once the trouble is over no message circulates for ever, even when the
\* provider never accepts an email: it is acknowledged or parked in the end,
\* unless every consumer hangs in drainReturns.
EventuallyHandled ==
    \A m \in Messages :
        calm /\ loc[m] # "absent" ~>
            loc[m] = "gone" \/ \A w \in Workers : wpc[w] = "draining"

\* Run reconnects on its own: once the trouble is over, a consumer whose channel
\* was closed has an open one again.
ReconnectsOnItsOwn ==
    \A w \in Workers : calm /\ channel[w] = "closed" ~> channel[w] = "open"

\* Consumers, claims, dead channels and redeliveries come to no more than a
\* mailer with a budget: no step lets go of a message whose email is neither on
\* record nor a matter for a person, or sends one email too many.
Place(m) == IF loc[m] \in {"absent", "gone"} THEN loc[m] ELSE "queued"

Mailing == INSTANCE Mailer
    WITH place <- [m \in Messages |-> Place(m)],
         sent <- {o \in Orders : state[o] = "sent"}

MailerSpec == Mailing!Spec
=============================================================================
