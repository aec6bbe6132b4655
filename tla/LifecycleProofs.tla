-------------------------- MODULE LifecycleProofs --------------------------
(***************************************************************************)
(* Theorems about the publisher and the three processes, for any number of *)
(* publications.                                                           *)
(*                                                                         *)
(* That a verdict is true of its own publication rests on the channel      *)
(* being clean when a message is sent: whatever an earlier publication     *)
(* left behind was read by then, or its channel is gone. The invariant     *)
(* therefore describes what the broker still has to say: nothing, or the   *)
(* answer to the current publication.                                      *)
(***************************************************************************)
EXTENDS Lifecycle, TLAPS

-----------------------------------------------------------------------------
(* The publisher.                                                           *)

PublisherType ==
    /\ mutex \in {"free", "held"}
    /\ ppc \in {"idle", "ready", "connect", "drain", "send", "wait", "select", "unknown"}
    /\ mutex = "held" <=> ppc # "idle"
    /\ count \in 0..MaxPublications
    /\ channel \in {"nil", "open", "closed"}
    /\ confirm \in {"none", "ack", "nack"}
    /\ verdict \in [Publications -> {"none", "routed", "unroutable", "rejected",
                                     "unavailable", "unknown"}]
    /\ transit \in SUBSET Publications
    /\ late \in SUBSET Publications
    /\ routed \in SUBSET Publications

\* What a publication may have brought about before it is sent: nothing.
Unsent(n) == n \notin transit \cup late \cup routed

\* Only publications that were begun are known, and one that is under way has no
\* verdict.
Begun ==
    /\ \A n \in Publications : n > count => Unsent(n) /\ verdict[n] = "none"
    /\ ppc # "idle" => count \in Publications /\ verdict[count] = "none"
    /\ ppc \in {"ready", "connect", "drain", "send"} => Unsent(count)

\* The message is on its way, the answer is, or neither; and a return that has
\* been read off the wire is about this publication.
Clean ==
    /\ transit # {} =>
          /\ transit = {count} /\ ppc \in {"wait", "unknown"}
          /\ count \notin late \cup routed
          /\ wire = <<>> /\ returns = <<>> /\ confirm = "none"
    /\ wire # <<>> =>
          /\ ppc \in {"wait", "unknown"} /\ confirm = "none" /\ listener = TRUE
          /\ channel = "open"
          /\ \/ wire = << <<"ack", count>> >> /\ (count \in routed \/ returns = <<count>>)
             \/ wire = << <<"return", count>>, <<"ack", count>> >> /\ Unsent(count)
                /\ returns = <<>>
             \/ wire = << <<"nack", count>> >>
    /\ returns # <<>> =>
          /\ returns = <<count>> /\ Unsent(count)
          /\ ppc \in {"wait", "select", "unknown"}
    /\ ppc \in {"wait", "select"} /\ confirm = "ack" =>
          count \in routed \/ returns = <<count>>
    /\ ppc = "select" => confirm # "none"
    /\ channel = "open" => listener = TRUE

PInv == PublisherType /\ Begun /\ Clean /\ VerdictsAreTrue

\* A publisher that has not published anything.
LEMMA PublisherInitInv == PublisherInit => PInv
  BY PublisherAssumption
  DEF PublisherInit, PInv, PublisherType, Begun, Clean, VerdictsAreTrue, Unsent, Publications

\* A call begins: its number is new.
LEMMA PublishInv == PInv /\ Publish => PInv'
<1> SUFFICES ASSUME PInv, Publish PROVE PInv'
  OBVIOUS
<1> USE PublisherAssumption DEF Publish, session, broker, PInv, PublisherType
<1>1. PublisherType'
  OBVIOUS
<1>2. Begun'
  BY DEF Begun, Unsent, Publications
<1>3. Clean'
  BY DEF Clean
<1>4. VerdictsAreTrue'
  BY DEF VerdictsAreTrue
<1> QED
  BY <1>1, <1>2, <1>3, <1>4

\* The session is found open or is to be built; an open one is read empty.
LEMMA PrepareInv == PInv /\ (ready \/ drain) => PInv'
<1> SUFFICES ASSUME PInv, ready \/ drain PROVE PInv'
  OBVIOUS
<1> USE DEF ready, drain, Goto, session, broker, PInv, PublisherType
<1>1. PublisherType'
  OBVIOUS
<1>2. Begun'
  BY DEF Begun, Unsent
<1>3. Clean'
  BY DEF Clean, Unsent
<1>4. VerdictsAreTrue'
  BY DEF VerdictsAreTrue
<1> QED
  BY <1>1, <1>2, <1>3, <1>4

\* A verdict on the current publication ends it and says nothing of later ones.
LEMMA OthersBegun ==
  ASSUME PublisherType, Begun, count \in Publications,
         UNCHANGED <<transit, late, routed, count>>,
         \/ ppc' = "idle" /\ \E v : verdict' = [verdict EXCEPT ![count] = v]
         \/ ppc' = "drain" /\ ppc = "connect" /\ verdict' = verdict
  PROVE  Begun'
<1>1. \A n \in Publications : n > count => Unsent(n)' /\ verdict'[n] = "none"
  <2> SUFFICES ASSUME NEW n \in Publications, n > count
               PROVE  Unsent(n)' /\ verdict'[n] = "none"
    OBVIOUS
  <2>1. n # count /\ Unsent(n) /\ verdict[n] = "none"
    BY PublisherAssumption DEF Begun, Publications, PublisherType
  <2> QED
    BY <2>1 DEF Unsent, PublisherType
<1> QED
  BY <1>1 DEF Begun, Unsent, PublisherType

\* A session is discarded or replaced; nothing of the old one reaches the new one.
LEMMA ConnectInv == PInv /\ connect => PInv'
<1> SUFFICES ASSUME PInv, connect PROVE PInv'
  OBVIOUS
<1> USE DEF connect, discard, Session, Cut, Answer, Goto, PInv, PublisherType
<1>1. transit = {} /\ Unsent(count) /\ count \in Publications
  BY DEF Clean, Begun
<1>2. UNCHANGED <<transit, late, routed, count>> /\ wire' = <<>> /\ returns' = <<>>
  BY <1>1
<1>3. \/ ppc' = "idle" /\ verdict' = [verdict EXCEPT ![count] = "unavailable"]
      \/ ppc' = "drain" /\ verdict' = verdict
  OBVIOUS
<1>4. PublisherType'
  BY <1>1, <1>2, <1>3
<1>5. Begun'
  BY <1>1, <1>2, <1>3, OthersBegun
<1>6. Clean'
  BY <1>1, <1>2, <1>3 DEF Clean
<1>7. VerdictsAreTrue'
  BY <1>1, <1>2, <1>3 DEF VerdictsAreTrue, Unsent
<1> QED
  BY <1>4, <1>5, <1>6, <1>7

\* A publication is sent on a channel that has nothing left of earlier ones.
LEMMA SendInv == PInv /\ send => PInv'
<1> SUFFICES ASSUME PInv, send PROVE PInv'
  OBVIOUS
<1> USE DEF send, Goto, PInv, PublisherType
<1>1. /\ transit = {} /\ wire = <<>> /\ returns = <<>>
      /\ Unsent(count) /\ count \in Publications /\ verdict[count] = "none"
  BY DEF Clean, Begun
<1>2. UNCHANGED <<routed, count, wire, returns, verdict, channel, listener>>
  OBVIOUS
<1>3. \/ transit' = {count} /\ late' = late /\ confirm' = "none" /\ ppc' = "wait"
      \/ transit' = {} /\ late' \in {late, late \cup {count}} /\ ppc' = "unknown"
  BY <1>1
<1>4. PublisherType'
  BY <1>1, <1>2, <1>3
<1>5. Begun'
  BY <1>1, <1>2, <1>3 DEF Begun, Unsent, Publications
<1>6. Clean'
  BY <1>1, <1>2, <1>3 DEF Clean, Unsent
<1>7. VerdictsAreTrue'
  BY <1>1, <1>2, <1>3 DEF VerdictsAreTrue
<1> QED
  BY <1>4, <1>5, <1>6, <1>7

\* What is waited for has come, or the time is up.
LEMMA WaitInv == PInv /\ WaitContext => PInv'
<1> SUFFICES ASSUME PInv, WaitContext PROVE PInv'
  OBVIOUS
<1> USE DEF WaitContext, Goto, session, broker, PInv, PublisherType
<1>1. PublisherType' /\ VerdictsAreTrue'
  BY DEF VerdictsAreTrue
<1>2. Begun'
  BY DEF Begun, Unsent
<1>3. Clean'
  BY DEF Clean, Unsent
<1> QED
  BY <1>1, <1>2, <1>3

\* An unknown outcome takes the channel with it.
LEMMA UnknownInv == PInv /\ OutcomeUnknown => PInv'
<1> SUFFICES ASSUME PInv, OutcomeUnknown PROVE PInv'
  OBVIOUS
<1> USE DEF OutcomeUnknown, discard, Cut, Answer, PInv, PublisherType
<1>1. count \in Publications /\ verdict[count] = "none"
  BY DEF Begun
<1>2. PublisherType'
  BY <1>1
<1>3. Begun'
  BY <1>1 DEF Begun, Unsent, Publications
<1>4. Clean'
  BY DEF Clean
<1>5. VerdictsAreTrue'
  BY <1>1 DEF VerdictsAreTrue
<1> QED
  BY <1>2, <1>3, <1>4, <1>5

\* The return and the confirmation are put together.
LEMMA SelectInv == PInv /\ SelectReturn => PInv'
<1> SUFFICES ASSUME PInv, SelectReturn PROVE PInv'
  OBVIOUS
<1> USE DEF SelectReturn, Answer, broker, PInv, PublisherType
<1>1. count \in Publications /\ transit = {} /\ wire = <<>>
  BY DEF Begun, Clean
<1>2. UNCHANGED <<transit, late, wire, routed, count, channel, listener>> /\ ppc' = "idle"
  OBVIOUS
<1>3. returns' = <<>>
  BY DEF Clean
<1>4. \/ returns # <<>> /\ verdict' = [verdict EXCEPT ![count] = "unroutable"]
      \/ returns = <<>> /\ confirm = "ack" /\ verdict' = [verdict EXCEPT ![count] = "routed"]
      \/ verdict' = [verdict EXCEPT ![count] = "rejected"]
  OBVIOUS
<1>5. PublisherType'
  BY <1>1, <1>2, <1>4
<1>6. Begun'
  BY <1>1, <1>2, <1>4, OthersBegun
<1>7. Clean'
  BY <1>1, <1>2, <1>3 DEF Clean
<1>8. VerdictsAreTrue'
  BY <1>1, <1>2, <1>4 DEF VerdictsAreTrue, Clean, Unsent
<1> QED
  BY <1>5, <1>6, <1>7, <1>8

\* Close leaves nothing open.
LEMMA CloseInv == PInv /\ Close => PInv' /\ channel' = "nil"
<1> SUFFICES ASSUME PInv, Close PROVE PInv' /\ channel' = "nil"
  OBVIOUS
<1> USE DEF Close, discard, Cut, client, PInv, PublisherType
<1>1. transit = {}
  BY DEF Clean
<1>2. PublisherType' /\ Begun'
  BY DEF Begun, Unsent
<1>3. Clean'
  BY <1>1 DEF Clean
<1>4. VerdictsAreTrue'
  BY <1>1 DEF VerdictsAreTrue
<1> QED
  BY <1>2, <1>3, <1>4

\* The broker answers the only publication it can have.
LEMMA AnswersInv == ASSUME NEW n \in Publications, PInv, BrokerAnswers(n) PROVE PInv'
<1> USE DEF BrokerAnswers, client, session, PInv, PublisherType
<1>1. /\ n = count /\ transit = {count} /\ transit' = {} /\ wire = <<>> /\ returns = <<>>
      /\ confirm = "none" /\ ppc \in {"wait", "unknown"}
  BY DEF Clean
<1>2. UNCHANGED <<late, count, channel, listener, returns, confirm, ppc, verdict, mutex>>
  OBVIOUS
<1>3. verdict[count] = "none"
  BY <1>1 DEF Begun
<1>4. routed' \in {routed, routed \cup {count}}
  BY <1>1
<1>5. PublisherType'
  BY <1>1, <1>2, <1>4
<1>6. Begun'
  BY <1>1, <1>2, <1>4 DEF Begun, Unsent, Publications
<1>7. VerdictsAreTrue'
  BY <1>1, <1>2, <1>3, <1>4 DEF VerdictsAreTrue
<1>8. /\ wire' # <<>>
      /\ \/ wire' = << <<"ack", count>> >> /\ count \in routed'
         \/ wire' = << <<"return", count>>, <<"ack", count>> >> /\ routed' = routed
         \/ wire' = << <<"nack", count>> >>
  BY <1>1
<1>9. Clean'
  BY <1>1, <1>2, <1>4, <1>8 DEF Clean, Unsent
<1> QED
  BY <1>5, <1>6, <1>7, <1>9

\* A message of a dead channel reaches a queue after all.
LEMMA LateInv == ASSUME NEW n \in Publications, PInv, BrokerLate(n) PROVE PInv'
<1> USE DEF BrokerLate, client, session, PInv, PublisherType
<1>1. /\ UNCHANGED <<transit, wire, count, channel, listener, returns, confirm, ppc,
                     verdict, mutex>>
      /\ n \in late /\ late' = late \ {n} /\ routed' = routed \cup {n}
  OBVIOUS
<1>2. \A k \in Publications : Unsent(k)' <=> Unsent(k)
  BY <1>1 DEF Unsent
<1>3. PublisherType'
  BY <1>1
<1>4. Begun'
  BY <1>1, <1>2 DEF Begun
<1>5. VerdictsAreTrue'
  BY <1>1 DEF VerdictsAreTrue
<1>6. Clean'
  <2>1. transit # {} => n # count
    BY <1>1 DEF Clean
  <2>2. ppc # "idle" => count \in Publications
    BY DEF Begun
  <2> QED
    BY <1>1, <1>2, <2>1, <2>2 DEF Clean
<1> QED
  BY <1>3, <1>4, <1>5, <1>6

\* A frame is taken off the wire: the return goes where the caller will look, and
\* before the confirmation.
LEMMA ReceiveInv == PInv /\ Receive => PInv'
<1> SUFFICES ASSUME PInv, Receive PROVE PInv'
  OBVIOUS
<1> USE DEF PInv, PublisherType
<1>1. /\ UNCHANGED <<channel, listener, transit, late, routed, mutex, ppc, count, verdict>>
      /\ wire # <<>> /\ wire' = Tail(wire)
  BY DEF Receive, client
<1>2. /\ ppc \in {"wait", "unknown"} /\ confirm = "none" /\ listener = TRUE
      /\ channel = "open" /\ transit = {}
  BY <1>1 DEF Clean
<1>3. \/ wire' = <<>> /\ returns' = returns /\ confirm' \in {"none", "nack"}
      \/ /\ wire' = <<>> /\ returns' = returns /\ confirm' \in {"none", "ack"}
         /\ count \in routed \/ returns = <<count>>
      \/ /\ wire' = << <<"ack", count>> >> /\ returns' = <<count>> /\ confirm' = "none"
         /\ Unsent(count)
  <2>1. CASE wire = << <<"ack", count>> >>
    <3>1. Head(wire)[1] = "ack" /\ Head(wire)[2] = count /\ Tail(wire) = <<>>
      BY <2>1
    <3>2. count \in routed \/ returns = <<count>>
      BY <2>1 DEF Clean
    <3> QED
      BY <1>2, <3>1, <3>2 DEF Receive
  <2>2. CASE wire = << <<"return", count>>, <<"ack", count>> >>
    <3>1. Head(wire)[1] = "return" /\ Head(wire)[2] = count /\ Tail(wire) = << <<"ack", count>> >>
      BY <2>2
    <3>2. Unsent(count)
      BY <2>2 DEF Clean
    <3> QED
      BY <1>2, <3>1, <3>2 DEF Receive
  <2>3. CASE wire = << <<"nack", count>> >>
    <3>1. Head(wire)[1] = "nack" /\ Head(wire)[2] = count /\ Tail(wire) = <<>>
      BY <2>3
    <3> QED
      BY <1>2, <3>1 DEF Receive
  <2> QED
    BY <1>1, <2>1, <2>2, <2>3 DEF Clean
<1>4. \A k : Unsent(k)' <=> Unsent(k)
  BY <1>1 DEF Unsent
<1>5. PublisherType'
  BY <1>1, <1>3
<1>6. Begun'
  BY <1>1, <1>4 DEF Begun
<1>7. VerdictsAreTrue'
  BY <1>1 DEF VerdictsAreTrue
<1>8. Clean'
  BY <1>1, <1>2, <1>3, <1>4 DEF Clean
<1> QED
  BY <1>5, <1>6, <1>7, <1>8

\* What had not arrived when the channel died may still arrive, unconfirmed.
LEMMA DiesInv == PInv /\ ChannelDies => PInv'
<1> SUFFICES ASSUME PInv, ChannelDies PROVE PInv'
  OBVIOUS
<1> USE DEF PInv, PublisherType
<1>1. /\ UNCHANGED <<listener, returns, mutex, ppc, count, verdict, routed>>
      /\ late' = late \cup transit /\ transit' = {} /\ wire' = <<>> /\ channel' = "closed"
      /\ confirm' \in {confirm, "nack"} /\ (confirm' = "none" => confirm = "none")
  BY DEF ChannelDies, Cut, client
<1>2. \A k : Unsent(k)' <=> Unsent(k)
  BY <1>1 DEF Unsent
<1>3. PublisherType'
  BY <1>1
<1>4. Begun'
  BY <1>1, <1>2 DEF Begun
<1>5. VerdictsAreTrue'
  BY <1>1 DEF VerdictsAreTrue
<1>6. Clean'
  BY <1>1, <1>2 DEF Clean
<1> QED
  BY <1>3, <1>4, <1>5, <1>6

\* Everything the publisher and the broker do preserves the invariant.
LEMMA PublisherNextInv ==
  ASSUME PInv, \/ Publish \/ Bounded \/ Unbounded \/ Close \/ DelayPasses \/ Broker
               \/ UNCHANGED publisherVars
  PROVE  PInv'
<1>1. CASE DelayPasses \/ UNCHANGED publisherVars
  <2>1. UNCHANGED <<mutex, channel, listener, returns, ppc, count, confirm, verdict,
                    transit, late, wire, routed>>
    BY <1>1 DEF DelayPasses, publisherVars, client, session, broker
  <2> QED
    BY <2>1 DEF PInv, PublisherType, Begun, Clean, VerdictsAreTrue, Unsent
<1> QED
  BY <1>1, PublishInv, PrepareInv, ConnectInv, SendInv, WaitInv, UnknownInv, SelectInv,
     CloseInv, AnswersInv, LateInv, ReceiveInv, DiesInv DEF Bounded, Unbounded, Broker

\* Every step of the process is one of these for the publisher.
LEMMA ProcessStep ==
  ASSUME [Next]_vars
  PROVE  \/ Publish \/ Bounded \/ Unbounded \/ Close \/ DelayPasses \/ Broker
         \/ UNCHANGED publisherVars
  BY DEF Next, vars, RunStep, Acquire, Wire, Select, Shutdown, StopWorker, WaitForWorker,
         CloseAll, Signal, ServerFails, ConsumerReturns, TaskStarts, TaskSends, TaskEnds,
         WorkerPolls, WorkerPublishes, WorkerSettles, PublisherStep

\* What Publish knows of its channel, and its verdicts, in every state of the
\* process that owns the publisher.
THEOREM PublisherInvariant == Spec => []PInv
<1>1. Init => PInv
  BY PublisherInitInv DEF Init
<1>2. PInv /\ [Next]_vars => PInv'
  BY PublisherNextInv, ProcessStep
<1> QED
  BY <1>1, <1>2, PTL DEF Spec

\* Publish answers for the message it was called with: nil only when a queue has
\* it, "unroutable" and "unavailable" only when no queue has it or ever will,
\* however many publications, dead channels and late frames came before.
THEOREM VerdictsTrue == Spec => []VerdictsAreTrue
<1>1. PInv => VerdictsAreTrue
  BY DEF PInv
<1> QED
  BY <1>1, PublisherInvariant, PTL

-----------------------------------------------------------------------------
(* The processes.                                                           *)

Up == {"serving", "shutdown", "stopWorker", "waitWorker", "close"}

\* Nobody has begun to use what a process that is starting acquires.
Fresh == wpc = "off" /\ task = "none" /\ server = "off" /\ channel = "nil"

\* What Run knows of the server and of what is in hand once it is on its way out.
Leaving ==
    /\ server # "up" \/ (service = "notification" /\ signalled)
    /\ service = "notification" /\ server = "closed" => task = "none"

Excused == task # "none" => "task" \in gaveUp \/ server = "failed"

\* Resources are held from New to the end, the event worker and the publisher
\* are those of order-service, and by the time of Close nobody is left.
Stages ==
    /\ main = "new" => Fresh
    /\ main \in Up \cup {"killed"} => open = Resources(service)
    /\ ~trapped => main \notin {"new", "serving"}
    /\ server = "up" => main # "new"
    /\ service = "notification" => server # "failed"
    /\ service = "notification" /\ server = "closed" => signalled /\ task = "none"
    /\ service # "order" => wpc = "off" /\ channel = "nil" /\ main \notin {"stopWorker", "waitWorker"}
    /\ main \in {"shutdown", "stopWorker", "waitWorker", "close"} => Leaving
    /\ main \in {"stopWorker", "waitWorker", "close"} => Excused
    /\ main = "close" => wpc \in {"off", "stopped"}
    /\ wpc = "off" /\ service = "order" => channel = "nil"

IInv == PInv /\ TypeOK /\ Stages /\ ReleasedInOrder

\* New acquires one thing after the other, and gives back what it has when it fails.
LEMMA StartInv ==
  ASSUME IInv, (\E r \in {"db", "inventoryConn"} : Acquire(r)) \/ Wire
  PROVE  (TypeOK /\ Stages /\ ReleasedInOrder)'
<1> USE DEF IInv, Acquire, Wire, publisherVars, client, session, broker, Resources
<1>1. TypeOK'
  <2>1. open' \subseteq Resources(service) /\ service' = service
    BY DEF TypeOK
  <2>2. /\ main' \in {"new", "serving", "exited"} /\ server' \in {server, "up"}
        /\ wpc' \in {wpc, "off", "poll"} /\ UNCHANGED <<task, gaveUp, mutex, ppc>>
    OBVIOUS
  <2>3. ppc = "idle"
    BY DEF TypeOK, Stages, Fresh
  <2> HIDE DEF Acquire, Wire, Resources
  <2> QED
    BY <2>1, <2>2, <2>3 DEF TypeOK
<1>2. Stages'
  BY DEF Stages, Fresh, Up, Leaving, Excused, TypeOK
<1>3. ReleasedInOrder'
  BY DEF ReleasedInOrder, Stages, Fresh, Up
<1> QED
  BY <1>1, <1>2, <1>3

\* Run leaves the select, waits for what is in hand, and for the worker.
LEMMA LeaveInv ==
  ASSUME IInv, Select \/ Shutdown \/ StopWorker \/ WaitForWorker
  PROVE  (TypeOK /\ Stages /\ ReleasedInOrder)'
<1> USE DEF IInv, Select, Shutdown, StopWorker, WaitForWorker, publisherVars, client,
            session, broker
<1>1. TypeOK'
  BY DEF TypeOK
<1>2. open = Resources(service) /\ "db" \in open /\ UNCHANGED <<open, service>>
  BY DEF Stages, Up, Resources
<1>3. Stages'
  BY <1>2 DEF Stages, Fresh, Up, Leaving, Excused, TypeOK
<1>4. ReleasedInOrder'
  BY <1>2 DEF ReleasedInOrder, Stages, Up
<1> QED
  BY <1>1, <1>3, <1>4

\* Close comes last.
LEMMA CloseAllInv ==
  ASSUME IInv, CloseAll
  PROVE  (TypeOK /\ Stages /\ ReleasedInOrder)'
<1> USE DEF IInv, CloseAll
<1>1. channel' = "nil" /\ UNCHANGED <<mutex, ppc>>
  BY CloseInv DEF Stages, Close, client, session, publisherVars
<1>2. TypeOK'
  BY <1>1 DEF TypeOK
<1>3. Stages'
  BY <1>1 DEF Stages, Fresh, Up, Leaving, Excused
<1>4. ReleasedInOrder'
  BY <1>1 DEF ReleasedInOrder, Stages, Excused
<1> QED
  BY <1>2, <1>3, <1>4

\* Signals, the server and what it has in hand.
LEMMA OutsideInv ==
  ASSUME IInv, Signal \/ ServerFails \/ ConsumerReturns \/ TaskStarts \/ TaskSends \/ TaskEnds
  PROVE  (TypeOK /\ Stages /\ ReleasedInOrder)'
<1> USE DEF IInv, Signal, ServerFails, ConsumerReturns, TaskStarts, TaskSends, TaskEnds,
            publisherVars, client, session, broker, Running
<1>1. TypeOK'
  BY DEF TypeOK
<1>2. Stages'
  BY DEF Stages, Fresh, Up, Leaving, Excused, TypeOK
<1>3. ReleasedInOrder'
  BY DEF ReleasedInOrder, Stages, Fresh, Up, Leaving, TypeOK, Resources
<1> QED
  BY <1>1, <1>2, <1>3

\* The event worker.
LEMMA WorkerInv ==
  ASSUME IInv, WorkerPolls \/ WorkerPublishes \/ WorkerSettles
  PROVE  (TypeOK /\ Stages /\ ReleasedInOrder)'
<1> USE DEF IInv, WorkerPolls, WorkerPublishes, WorkerSettles, Publish, publisherVars,
            client, session, broker, Running
<1>1. TypeOK'
  BY DEF TypeOK
<1>2. Stages'
  BY DEF Stages, Fresh, Up, Leaving, Excused, TypeOK
<1>3. ReleasedInOrder'
  BY DEF ReleasedInOrder, Stages, Fresh, Up, TypeOK, Resources
<1> QED
  BY <1>1, <1>2, <1>3

\* The publisher builds a session only for a worker that is in the middle of an
\* event.
LEMMA PublisherStepInv ==
  ASSUME IInv, PublisherStep
  PROVE  (TypeOK /\ Stages /\ ReleasedInOrder)'
<1> USE DEF IInv, PublisherStep, process
<1>1. PInv'
  BY PublisherNextInv
<1>2. ppc' # "idle" => ppc # "idle"
  BY DEF Bounded, Unbounded, Broker, ready, drain, send, WaitContext, SelectReturn, connect,
         OutcomeUnknown, Goto, Answer, DelayPasses, BrokerAnswers, BrokerLate, Receive,
         ChannelDies, client
<1>3. channel = "nil" /\ wpc # "settle" => channel' = "nil"
  BY DEF Bounded, Unbounded, Broker, ready, drain, send, WaitContext, SelectReturn, connect,
         OutcomeUnknown, discard, DelayPasses, BrokerAnswers, BrokerLate, Receive,
         ChannelDies, session, TypeOK
<1>4. TypeOK'
  BY <1>1, <1>2 DEF TypeOK, PInv, PublisherType
<1>5. Stages'
  BY <1>3 DEF Stages, Fresh, Up, Leaving, Excused
<1>6. ReleasedInOrder'
  BY <1>3 DEF ReleasedInOrder, Running
<1> QED
  BY <1>4, <1>5, <1>6

\* The stages of Run agree with what is acquired, running and released, in every
\* state of the three services.
THEOREM Invariant == Spec => []IInv
<1>1. Init => IInv
  BY PublisherInitInv
  DEF Init, IInv, TypeOK, Stages, Fresh, Up, Leaving, Excused, ReleasedInOrder, PublisherInit
<1>2. IInv /\ [Next]_vars => IInv'
  <2> SUFFICES ASSUME IInv, [Next]_vars PROVE IInv'
    OBVIOUS
  <2>1. PInv'
    BY PublisherNextInv, ProcessStep DEF IInv
  <2>2. CASE UNCHANGED vars
    BY <2>1, <2>2 DEF vars, process, publisherVars, client, session, IInv, TypeOK, Stages,
                      Fresh, Leaving, Excused, ReleasedInOrder
  <2> QED
    BY <2>1, <2>2, StartInv, LeaveInv, CloseAllInv, OutsideInv, WorkerInv, PublisherStepInv
    DEF Next, RunStep, IInv
<1> QED
  BY <1>1, <1>2, PTL DEF Spec

\* The process and the publisher keep their types, and the publisher is at work
\* only for the event worker.
THEOREM TypeCorrect == Spec => []TypeOK
<1>1. IInv => TypeOK
  BY DEF IInv
<1> QED
  BY <1>1, Invariant, PTL

\* On every way out of Run of every service, what was opened is closed after its
\* users, unless Run gave up on one of them or the process was killed.
THEOREM ReleasesInOrder == Spec => []ReleasedInOrder
<1>1. IInv => ReleasedInOrder
  BY DEF IInv
<1> QED
  BY <1>1, Invariant, PTL

=============================================================================
