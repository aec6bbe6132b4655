----------------------------- MODULE Lifecycle -----------------------------
(***************************************************************************)
(* Run of the three services: resources are acquired, the server or the    *)
(* consumer runs until it fails or the process is signalled, what is in    *)
(* hand gets a while to finish, and the resources are closed before their  *)
(* users are gone only where the code gives up waiting. order-service also *)
(* has the event worker, whose only publications are those of Publisher.   *)
(***************************************************************************)
EXTENDS Publisher

VARIABLES
    service,        \* which of the three programs this is
    main,           \* where Run is
    open,           \* the pools and client connections that New opened
    signalled,      \* signalCtx is cancelled
    trapped,        \* signals are still trapped
    server,         \* the HTTP or gRPC server, or the loop of the consumer
    task,           \* a request or a delivery in hand
    wpc,            \* the event worker
    stopping,       \* workerCtx is cancelled
    gaveUp,         \* what Run did not wait for any longer
    unrecorded      \* an email was sent and its row not updated

process == <<service, main, open, signalled, trapped, server, task, wpc,
             stopping, gaveUp, unrecorded>>
vars == <<publisherVars, process>>

Resources(s) == IF s = "order" THEN {"db", "inventoryConn"} ELSE {"db"}

Init ==
    /\ PublisherInit
    /\ service \in {"order", "inventory", "notification"}
    /\ main = "new" /\ open = {} /\ signalled = FALSE /\ trapped = TRUE
    /\ server = "off" /\ task = "none" /\ wpc = "off" /\ stopping = FALSE
    /\ gaveUp = {} /\ unrecorded = FALSE

Running == main \notin {"exited", "killed"}

-----------------------------------------------------------------------------
(* New and Run.                                                             *)

\* Bug of the mutant: what was acquired before the failing step stays open.
AcquireLeaking(r) ==
    /\ main = "new" /\ r \in Resources(service) \ open
    /\ r = "db" \/ "db" \in open
    /\ \/ open' = open \cup {r} /\ UNCHANGED main
       \/ main' = "exited" /\ UNCHANGED open
    /\ UNCHANGED <<publisherVars, service, signalled, trapped, server, task, wpc,
                   stopping, gaveUp, unrecorded>>

\* The pool first; a step that fails closes what the earlier ones opened.
Acquire(r) ==
    /\ main = "new" /\ r \in Resources(service) \ open
    /\ r = "db" \/ "db" \in open
    /\ \/ open' = open \cup {r} /\ UNCHANGED main
       \/ open' = {} /\ main' = "exited"
    /\ UNCHANGED <<publisherVars, service, signalled, trapped, server, task, wpc,
                   stopping, gaveUp, unrecorded>>

\* The wiring may fail; otherwise the worker and the server are started.
Wire ==
    /\ main = "new" /\ open = Resources(service)
    /\ \/ open' = {} /\ main' = "exited" /\ UNCHANGED <<server, wpc>>
       \/ /\ main' = "serving" /\ server' = "up"
          /\ wpc' = IF service = "order" THEN "poll" ELSE "off"
          /\ UNCHANGED open
    /\ UNCHANGED <<publisherVars, service, signalled, trapped, task, stopping,
                   gaveUp, unrecorded>>

\* The select of Run. A server that failed ends Run at once, a signal begins the
\* shutdown, and a consumer may have returned because of the signal already.
Select ==
    /\ main = "serving"
    /\ \/ /\ signalled /\ main' = "shutdown" /\ trapped' = FALSE
          /\ server' = IF server = "up" /\ service # "notification"
                       THEN "closed" ELSE server
       \/ /\ server = "failed" \/ (server = "closed" /\ service = "notification")
          /\ main' = IF service = "order" THEN "stopWorker" ELSE "close"
          /\ UNCHANGED <<trapped, server>>
    /\ UNCHANGED <<publisherVars, service, open, signalled, task, wpc, stopping,
                   gaveUp, unrecorded>>

\* Shutdown of a server, or the drain of the consumer: until nothing is in hand
\* or the timeout has passed.
Shutdown ==
    /\ main = "shutdown"
    /\ \/ task = "none" /\ UNCHANGED gaveUp
       \/ gaveUp' = gaveUp \cup {"task"}
    /\ main' = IF service = "order" THEN "stopWorker" ELSE "close"
    /\ UNCHANGED <<publisherVars, service, open, signalled, trapped, server, task, wpc,
                   stopping, unrecorded>>

\* The deferred function of order-service: on every way out the worker is told to
\* stop, and waited for up to shutdownTimeout.
StopWorker ==
    /\ main = "stopWorker"
    /\ stopping' = TRUE
    /\ main' = "waitWorker"
    /\ UNCHANGED <<publisherVars, service, open, signalled, trapped, server, task, wpc,
                   gaveUp, unrecorded>>

\* Bug of the mutant: the resources are closed whether the worker stopped or not.
WaitForWorkerAndClose ==
    /\ main = "waitWorker"
    /\ main' = "close"
    /\ UNCHANGED gaveUp
    /\ UNCHANGED <<publisherVars, service, open, signalled, trapped, server, task, wpc,
                   stopping, unrecorded>>

WaitForWorker ==
    /\ main = "waitWorker"
    /\ \/ wpc = "stopped" /\ main' = "close" /\ UNCHANGED gaveUp
       \/ main' = "exited" /\ gaveUp' = gaveUp \cup {"worker"}
    /\ UNCHANGED <<publisherVars, service, open, signalled, trapped, server, task, wpc,
                   stopping, unrecorded>>

CloseAll ==
    /\ main = "close"
    /\ \/ service = "order" /\ Close
       \/ service # "order" /\ UNCHANGED publisherVars
    /\ open' = {} /\ main' = "exited"
    /\ UNCHANGED <<service, signalled, trapped, server, task, wpc, stopping, gaveUp,
                   unrecorded>>

\* The first signal cancels signalCtx, also while New is at work; one that comes
\* when signals are no longer trapped kills the process.
Signal ==
    /\ Running
    /\ \/ trapped /\ signalled' = TRUE /\ stopping' = TRUE /\ UNCHANGED main
       \/ ~trapped /\ main' = "killed" /\ UNCHANGED <<signalled, stopping>>
    /\ UNCHANGED <<publisherVars, service, open, trapped, server, task, wpc, gaveUp,
                   unrecorded>>

-----------------------------------------------------------------------------
(* What runs besides Run, until the process exits.                          *)

\* The consumer only ends by the signal; a server may fail to listen or accept.
ServerFails ==
    /\ Running /\ service # "notification" /\ server = "up"
    /\ server' = "failed"
    /\ UNCHANGED <<publisherVars, service, main, open, signalled, trapped, task, wpc,
                   stopping, gaveUp, unrecorded>>

ConsumerReturns ==
    /\ Running /\ service = "notification" /\ server = "up"
    /\ signalled /\ task = "none"
    /\ server' = "closed"
    /\ UNCHANGED <<publisherVars, service, main, open, signalled, trapped, task, wpc,
                   stopping, gaveUp, unrecorded>>

\* The consumer gives a delivery back untouched once the signal has come.
TaskStarts ==
    /\ Running /\ server = "up" /\ task = "none"
    /\ service = "notification" => ~signalled
    /\ task' = "busy"
    /\ UNCHANGED <<publisherVars, service, main, open, signalled, trapped, server, wpc,
                   stopping, gaveUp, unrecorded>>

\* The email sender does not look at the context of the delivery.
TaskSends ==
    /\ Running /\ service = "notification" /\ task = "busy"
    /\ task' = "mailed"
    /\ UNCHANGED <<publisherVars, service, main, open, signalled, trapped, server, wpc,
                   stopping, gaveUp, unrecorded>>

\* The context of the delivery is derived from signalCtx, so a statement issued
\* after the signal fails, the one that records the email included.
TaskEnds ==
    /\ Running /\ task # "none"
    /\ task' = "none"
    /\ unrecorded' = (unrecorded \/ (task = "mailed" /\ signalled))
    /\ UNCHANGED <<publisherVars, service, main, open, signalled, trapped, server, wpc,
                   stopping, gaveUp>>

\* The worker claims an event, or finds none or fails to and polls again; the loop
\* ends when its context is cancelled.
WorkerPolls ==
    /\ Running /\ wpc = "poll"
    /\ wpc' = IF stopping THEN "stopped" ELSE "publish"
    /\ UNCHANGED <<publisherVars, service, main, open, signalled, trapped, server, task,
                   stopping, gaveUp, unrecorded>>

\* From the claim on, the work is detached from the shutdown.
WorkerPublishes ==
    /\ Running /\ wpc = "publish"
    /\ Publish
    /\ wpc' = "settle"
    /\ UNCHANGED <<service, main, open, signalled, trapped, server, task, stopping,
                   gaveUp, unrecorded>>

WorkerSettles ==
    /\ Running /\ wpc = "settle" /\ ppc = "idle"
    /\ wpc' = "poll"
    /\ UNCHANGED <<publisherVars, service, main, open, signalled, trapped, server, task,
                   stopping, gaveUp, unrecorded>>

PublisherStep == Running /\ (Bounded \/ Unbounded \/ DelayPasses \/ Broker)
                 /\ UNCHANGED process

RunStep == \/ \E r \in {"db", "inventoryConn"} : Acquire(r)
           \/ Wire \/ Select \/ Shutdown \/ StopWorker \/ WaitForWorker \/ CloseAll

Next ==
    \/ RunStep \/ Signal
    \/ ServerFails \/ ConsumerReturns \/ TaskStarts \/ TaskSends \/ TaskEnds
    \/ WorkerPolls \/ WorkerPublishes \/ WorkerSettles
    \/ PublisherStep

Spec == Init /\ [][Next]_vars

\* Run has come to its last call, which closes the channel and the connection to
\* the broker if there are any. Neither has a deadline.
ClosesConnection ==
    main = "close" /\ service = "order" /\ mutex = "free" /\ channel # "nil"

\* Run goes on and its timers fire, and what has a deadline ends. A request may
\* take for ever, and so may a call of the client library that has none: of the
\* publisher, and of Run itself when it closes the connection.
FairSpec ==
    /\ Spec
    /\ WF_vars(RunStep /\ ~ClosesConnection)
    /\ WF_vars(Running /\ Bounded /\ UNCHANGED process)

-----------------------------------------------------------------------------
\* The variables of the process keep their types, and the publisher is at work
\* only for the event worker, which holds its mutex for as long.
TypeOK ==
    /\ service \in {"order", "inventory", "notification"}
    /\ main \in {"new", "serving", "shutdown", "stopWorker", "waitWorker", "close",
                 "exited", "killed"}
    /\ open \subseteq Resources(service)
    /\ server \in {"off", "up", "failed", "closed"}
    /\ task \in {"none", "busy", "mailed"}
    /\ wpc \in {"off", "poll", "publish", "settle", "stopped"}
    /\ gaveUp \subseteq {"task", "worker"}
    /\ mutex = "held" <=> ppc # "idle"
    /\ ppc # "idle" => wpc = "settle"

\* The pool, the connections and the publisher are closed on every way out of
\* Run, after their users: never under the event worker, and under a request only
\* when Run gave up on it or the server had failed. They are left open only when
\* the worker did not stop in time, or by a second signal.
ReleasedInOrder ==
    /\ main = "exited" => \/ open = {} /\ channel = "nil"
                          \/ "worker" \in gaveUp
    /\ "db" \notin open => /\ wpc \in {"off", "stopped"}
                           /\ task # "none" => "task" \in gaveUp \/ server = "failed"

\* Past the connection, Publish always comes to an answer or to closing a
\* channel it cannot trust: neither a dead channel nor a silent broker keeps it.
PublishReturns ==
    ppc \in {"drain", "send", "wait", "select"} ~>
        ppc \in {"idle", "unknown"} \/ ~Running

\* After a signal or a server that failed the process ends, however long a
\* request takes and whatever the worker is stuck in, or it has come to closing
\* the connection to the broker, its last step and the only one without a deadline:
\* by then the worker has stopped, and nothing else is waited for.
StopsInTheEnd ==
    signalled \/ server = "failed" ~> ~Running \/ (ClosesConnection /\ wpc = "stopped")

\* Draining lets a delivery that was mid-send finish and record its result: when
\* the drain came to its end, no email was left unrecorded.
DrainedMeansRecorded == main = "exited" /\ gaveUp = {} => ~unrecorded
=============================================================================
