----------------------------- MODULE Publisher -----------------------------
(***************************************************************************)
(* The RabbitMQ publisher of order-service: one connection, one channel in *)
(* confirm mode, one publication at a time under a mutex. The verdict on a *)
(* publication is put together from two things that arrive on their own: a *)
(* confirmation, and a return when no queue was bound. The broker and the  *)
(* client library are external: frames arrive in the order the broker sent *)
(* them, and a channel may die at any moment.                              *)
(***************************************************************************)
EXTENDS Naturals, Sequences

CONSTANT MaxPublications    \* bound: calls of Publish in one behaviour

VARIABLES
    mutex,          \* whether a call of Publish holds it
    channel,        \* publisher.channel and, with it, connection
    listener,       \* the channel has its NotifyReturn
    returns,        \* the buffer of publisher.returns
    recent,         \* lastDialAt is less than ReconnectDelay ago
    ppc,            \* where the call of Publish is
    count,          \* publications so far; the last one is the current one
    confirm,        \* what its deferred confirmation has come to
    verdict,        \* what Publish answered for each publication
    transit,        \* publications on their way to the broker
    late,           \* those whose channel died before their answer came
    wire,           \* frames on their way from the broker
    routed          \* publications that reached a queue

ASSUME PublisherAssumption == MaxPublications \in Nat

client == <<mutex, ppc, count, verdict>>
session == <<channel, listener, returns, confirm>>
broker == <<transit, late, wire, routed>>
publisherVars == <<client, session, broker, recent>>

Publications == 1..MaxPublications
Frames == {"return", "ack", "nack"} \X Publications

PublisherInit ==
    /\ mutex = "free" /\ ppc = "idle" /\ count = 0
    /\ channel = "nil" /\ listener = FALSE /\ returns = <<>> /\ confirm = "none"
    /\ recent = FALSE
    /\ verdict = [n \in Publications |-> "none"]
    /\ transit = {} /\ late = {} /\ wire = <<>> /\ routed = {}

-----------------------------------------------------------------------------
Answer(v) ==
    /\ verdict' = [verdict EXCEPT ![count] = v]
    /\ ppc' = "idle" /\ mutex' = "free"
    /\ UNCHANGED count

Goto(label) == ppc' = label /\ UNCHANGED <<mutex, count, verdict>>

\* What is on its way to the broker may still arrive; its answer will not.
Cut == late' = late \cup transit /\ transit' = {} /\ wire' = <<>> /\ UNCHANGED routed

discard ==
    /\ channel' = "nil" /\ listener' = FALSE /\ returns' = <<>> /\ confirm' = "none"
    /\ Cut

Publish ==
    /\ ppc = "idle" /\ mutex = "free" /\ count < MaxPublications
    /\ mutex' = "held" /\ count' = count + 1 /\ ppc' = "ready"
    /\ UNCHANGED <<verdict, session, broker, recent>>

ready ==
    /\ ppc = "ready"
    /\ Goto(IF channel = "open" THEN "drain" ELSE "connect")
    /\ UNCHANGED <<session, broker, recent>>

\* Bug of the mutant: only the channel is rebuilt, without its listener.
SessionWithoutListener ==
    /\ channel' = "open" /\ listener' = FALSE
    /\ returns' = <<>> /\ confirm' = "none" /\ Cut

Session ==
    /\ channel' = "open" /\ listener' = TRUE
    /\ returns' = <<>> /\ confirm' = "none" /\ Cut

\* What is left of the old session is closed first. A dial, a channel, an exchange
\* declaration or confirm mode that fails leaves nothing open.
connect ==
    /\ ppc = "connect"
    /\ \/ recent /\ discard /\ Answer("unavailable")
       \/ ~recent /\ discard /\ Answer("unavailable")
       \/ ~recent /\ Session /\ Goto("drain")
    /\ recent' = TRUE

\* Bug of the mutant: a closed channel of returns is read for ever.
drainUnguarded ==
    /\ ppc = "drain" /\ channel = "open"
    /\ returns' = <<>>
    /\ Goto("send")
    /\ UNCHANGED <<channel, listener, confirm, broker, recent>>

drain ==
    /\ ppc = "drain"
    /\ returns' = <<>>
    /\ Goto("send")
    /\ UNCHANGED <<channel, listener, confirm, broker, recent>>

\* A write that fails may have put the message on the wire all the same.
send ==
    /\ ppc = "send"
    /\ \/ /\ channel = "open"
          /\ transit' = transit \cup {count}
          /\ confirm' = "none"
          /\ Goto("wait")
          /\ UNCHANGED late
       \/ /\ channel = "open"
          /\ late' = late \cup {count}
          /\ Goto("unknown")
          /\ UNCHANGED <<transit, confirm>>
       \/ Goto("unknown") /\ UNCHANGED <<transit, late, confirm>>
    /\ UNCHANGED <<channel, listener, returns, wire, routed, recent>>

\* The confirmation may come together with the end of PublishTimeout.
WaitContext ==
    /\ ppc = "wait"
    /\ Goto("unknown") \/ (confirm # "none" /\ Goto("select"))
    /\ UNCHANGED <<session, broker, recent>>

OutcomeUnknown ==
    /\ ppc = "unknown"
    /\ discard
    /\ Answer("unknown")
    /\ UNCHANGED recent

\* A return that has arrived decides, whatever the confirmation says.
SelectReturn ==
    /\ ppc = "select"
    /\ \/ returns # <<>> /\ Answer("unroutable") /\ returns' = Tail(returns)
       \/ /\ returns = <<>>
          /\ Answer(IF confirm = "ack" THEN "routed" ELSE "rejected")
          /\ UNCHANGED returns
    /\ UNCHANGED <<channel, listener, confirm, broker, recent>>

\* Close takes the mutex, so it waits for a publication that is under way.
Close ==
    /\ mutex = "free"
    /\ discard
    /\ UNCHANGED <<client, recent>>

DelayPasses ==
    /\ recent
    /\ recent' = FALSE
    /\ UNCHANGED <<client, session, broker>>

-----------------------------------------------------------------------------
(* The broker and the client library.                                       *)

\* The broker answers in the order of arrival. A message for which no queue is
\* bound is returned and then acknowledged, because it is mandatory.
BrokerAnswers(n) ==
    /\ channel = "open" /\ n \in transit /\ \A k \in transit : n <= k
    /\ transit' = transit \ {n}
    /\ \/ routed' = routed \cup {n} /\ wire' = Append(wire, <<"ack", n>>)
       \/ /\ wire' = wire \o <<(<<"return", n>>), (<<"ack", n>>)>>
          /\ UNCHANGED routed
       \/ wire' = Append(wire, <<"nack", n>>) /\ UNCHANGED routed
    /\ UNCHANGED <<late, client, session, recent>>

BrokerLate(n) ==
    /\ n \in late
    /\ late' = late \ {n}
    /\ routed' = routed \cup {n}
    /\ UNCHANGED <<transit, wire, client, session, recent>>

\* The library hands over a return, waiting for room in the buffer, or completes
\* the confirmation of the publication that somebody still waits for.
Receive ==
    /\ wire # <<>>
    /\ LET kind == Head(wire)[1]
           n == Head(wire)[2]
       IN  \/ /\ kind = "return" /\ (listener => returns = <<>>)
              /\ returns' = IF listener THEN <<n>> ELSE returns
              /\ UNCHANGED confirm
           \/ /\ kind # "return"
              /\ confirm' = IF n = count /\ ppc = "wait" THEN kind ELSE confirm
              /\ UNCHANGED returns
    /\ wire' = Tail(wire)
    /\ UNCHANGED <<channel, listener, transit, late, routed, client, recent>>

\* The library completes a confirmation that is still open with "not
\* acknowledged"; a return that has arrived can still be read.
ChannelDies ==
    /\ channel = "open"
    /\ channel' = "closed"
    /\ confirm' = IF ppc = "wait" /\ confirm = "none" THEN "nack" ELSE confirm
    /\ Cut
    /\ UNCHANGED <<listener, returns, client, recent>>

Broker ==
    \/ \E n \in Publications : BrokerAnswers(n) \/ BrokerLate(n)
    \/ Receive
    \/ ChannelDies

\* The calls of Publish that are bounded by PublishTimeout or do not wait.
Bounded == ready \/ drain \/ send \/ WaitContext \/ SelectReturn

\* The calls of the client library that no deadline bounds.
Unbounded == connect \/ OutcomeUnknown

-----------------------------------------------------------------------------
\* What Publish answers is true of this very publication: nil means that it
\* reached a queue, and "unroutable" or "unavailable" that it did not and will
\* not, whatever an earlier publication left behind on the channel.
VerdictsAreTrue ==
    \A n \in Publications :
        /\ verdict[n] = "routed" => n \in routed
        /\ verdict[n] \in {"unroutable", "unavailable"} =>
              n \notin routed \cup transit \cup late
=============================================================================
