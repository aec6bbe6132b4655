------------------------------- MODULE Outbox -------------------------------
(***************************************************************************)
(* The outbox of order-service: the outbox_events table and the workers,   *)
(* one per running copy of the service, that publish its events.           *)
(*                                                                         *)
(* A claim is one statement that leases the oldest due row and gives it a  *)
(* new random token; the worker then publishes without a transaction and   *)
(* records the outcome with a write that only applies while the row still  *)
(* carries its token. A worker has one claim at a time, so a token stands  *)
(* for the worker that was given it last. Time is abstracted to its order: *)
(* a row whose next_attempt_at lies ahead, as a lease or as a backoff, may *)
(* become due at any moment, also while the worker that leased it is busy. *)
(***************************************************************************)
EXTENDS Naturals, FiniteSets

CONSTANTS
    Workers,
    Events,
    Nobody,
    Unreadable,         \* events whose stored payload cannot be decoded
    Unmarshalable,      \* events that cannot be put on the wire
    MaxPublishAttempts,
    outboxCleanupBatchSize

VARIABLES
    status,             \* status column; "absent" before, "deleted" after
    attempts,           \* attempts column
    token,              \* claim_token column: the worker it was given to
    due,                \* pending rows with next_attempt_at <= now()
    ahead,              \* for each due row, the rows that were due before it
    aged,               \* published rows older than the retention period
    routed,             \* events the broker has put on a queue
    wpc,                \* where a worker is
    entry,              \* the OutboxEntry it holds
    outcome,            \* what publishing the entry came to
    cleanup,            \* whether its next idle poll deletes old rows
    calm                \* no more crashes, failed writes or broker trouble

row == <<status, attempts, token, due, ahead, aged>>
worker == <<wpc, entry, outcome, cleanup>>
vars == <<status, attempts, token, due, ahead, aged, routed,
          wpc, entry, outcome, cleanup, calm>>

ASSUME OutboxAssumption ==
    /\ Nobody \notin Workers
    /\ Unreadable \subseteq Events /\ Unmarshalable \subseteq Events
    /\ MaxPublishAttempts \in Nat \ {0}
    /\ outboxCleanupBatchSize \in Nat \ {0}
    /\ Events # {}

Unpublishable == Unreadable \cup Unmarshalable

NoEntry == [event |-> CHOOSE e \in Events : TRUE, attempts |-> 0]
Entries == [event : Events, attempts : Nat]

Init ==
    /\ status = [e \in Events |-> "absent"]
    /\ attempts = [e \in Events |-> 0]
    /\ token = [e \in Events |-> Nobody]
    /\ due = {}
    /\ ahead = [e \in Events |-> {}]
    /\ aged = {}
    /\ routed = {}
    /\ wpc = [w \in Workers |-> "idle"]
    /\ entry = [w \in Workers |-> NoEntry]
    /\ outcome = [w \in Workers |-> "none"]
    /\ cleanup = [w \in Workers |-> "due"]
    /\ calm = FALSE

-----------------------------------------------------------------------------
(* The order in which rows are due.                                         *)

BecomesDue(e) ==
    /\ due' = due \cup {e}
    /\ ahead' = IF e \in due THEN ahead ELSE [ahead EXCEPT ![e] = due]

NotDue(e) ==
    /\ due' = due \ {e}
    /\ ahead' = [d \in Events |-> IF d = e THEN {} ELSE ahead[d] \ {e}]

\* The transaction that accepts an order inserts the event with it.
RecordEvent(e) ==
    /\ status[e] = "absent"
    /\ status' = [status EXCEPT ![e] = "pending"]
    /\ BecomesDue(e)
    /\ UNCHANGED <<attempts, token, aged, routed, worker, calm>>

\* A lease or a backoff runs out.
Elapse(e) ==
    /\ status[e] = "pending" /\ e \notin due
    /\ BecomesDue(e)
    /\ UNCHANGED <<status, attempts, token, aged, routed, worker, calm>>

\* The retention period of a published row runs out.
Age(e) ==
    /\ status[e] = "published" /\ e \notin aged
    /\ aged' = aged \cup {e}
    /\ UNCHANGED <<status, attempts, token, due, ahead, routed, worker, calm>>

-----------------------------------------------------------------------------
(* The worker.                                                              *)

\* The write of another worker may hold the row's lock at this moment. Such a row
\* is skipped, not waited for.
MayBeLocked(w, e) == \E v \in Workers \ {w} : wpc[v] = "settle" /\ entry[v].event = e

\* Bug of the mutant: the claim takes the row that became due last.
ClaimableNewest(w, e) == e \in due /\ \A d \in due : e \notin ahead[d]

Claimable(w, e) == e \in due /\ \A d \in ahead[e] : MayBeLocked(w, d)

NothingToClaim(w) == \A e \in due : MayBeLocked(w, e)

Claimed(e) == [event |-> e, attempts |-> attempts[e]]

\* The lease is taken in the table first; the reply with the entry may be lost,
\* and an entry that cannot be decoded is set aside without being published.
ClaimNext(w, e) ==
    /\ wpc[w] = "idle"
    /\ Claimable(w, e)
    /\ NotDue(e)
    /\ \/ /\ ~calm
          /\ token' = [token EXCEPT ![e] = Nobody]
          /\ UNCHANGED <<wpc, entry, outcome>>
       \/ /\ token' = [token EXCEPT ![e] = w]
          /\ entry' = [entry EXCEPT ![w] = Claimed(e)]
          /\ \/ /\ e \in Unreadable
                /\ wpc' = [wpc EXCEPT ![w] = "settle"]
                /\ outcome' = [outcome EXCEPT ![w] = "unpublishable"]
             \/ /\ e \notin Unreadable
                /\ wpc' = [wpc EXCEPT ![w] = "publish"]
                /\ UNCHANGED outcome
    /\ UNCHANGED <<status, attempts, aged, routed, cleanup, calm>>

\* Bug of the mutant: an acknowledgement counts as success although the broker
\* returned the message because no queue was bound.
PublicationIgnoringReturns(e) ==
    IF e \in Unmarshalable
    THEN {<<"unpublishable", FALSE>>}
    ELSE {<<"routed", TRUE>>, <<"routed", FALSE>>}

\* What a publication can come to. Not routed and rejected are one failure to
\* the worker. An unknown outcome may or may not have reached a queue, and so may
\* a rejected one: the client library also answers a confirmation with "not
\* acknowledged" when the channel closes under it.
Publication(e) ==
    IF e \in Unmarshalable
    THEN {<<"unpublishable", FALSE>>}
    ELSE IF calm
         THEN {<<"routed", TRUE>>}
         ELSE {<<"routed", TRUE>>, <<"unavailable", FALSE>>, <<"failed", TRUE>>,
               <<"failed", FALSE>>, <<"unknown", TRUE>>, <<"unknown", FALSE>>}

PublishOrderAccepted(w) ==
    /\ wpc[w] = "publish"
    /\ \E result \in Publication(entry[w].event) :
          /\ outcome' = [outcome EXCEPT ![w] = result[1]]
          /\ routed' = IF result[2] THEN routed \cup {entry[w].event} ELSE routed
    /\ wpc' = [wpc EXCEPT ![w] = "settle"]
    /\ UNCHANGED <<row, entry, cleanup, calm>>

-----------------------------------------------------------------------------
(* Recording the outcome.                                                   *)

\* Bug of the mutant: the WHERE clause leaves the token out.
FencedByStatus(w) == status[entry[w].event] = "pending"

\* Bug of the mutant: the WHERE clause leaves the status out.
FencedByToken(w) == token[entry[w].event] = w

\* The condition of every write but one: the row is the claim's, and pending.
Fenced(w) ==
    /\ status[entry[w].event] = "pending"
    /\ token[entry[w].event] = w

\* Bug of the mutant: the published row is left as due as it was.
MarkPublishedStillDue(w) ==
    /\ status' = [status EXCEPT ![entry[w].event] = "published"]
    /\ UNCHANGED <<attempts, token, due, ahead, aged>>

\* Not fenced: the event was routed, whoever holds the row now.
MarkPublished(w) ==
    LET e == entry[w].event
    IN  \/ /\ status[e] \in {"pending", "needs_attention"}
           /\ status' = [status EXCEPT ![e] = "published"]
           /\ NotDue(e)
           /\ UNCHANGED <<attempts, token, aged>>
        \/ /\ status[e] \notin {"pending", "needs_attention"}
           /\ UNCHANGED row

Release(w) ==
    /\ NotDue(entry[w].event)
    /\ UNCHANGED <<status, attempts, token, aged>>

ScheduleRetry(w) ==
    /\ attempts' = [attempts EXCEPT ![entry[w].event] = @ + 1]
    /\ NotDue(entry[w].event)
    /\ UNCHANGED <<status, token, aged>>

MarkNeedsAttention(w, countAttempt) ==
    /\ status' = [status EXCEPT ![entry[w].event] = "needs_attention"]
    /\ attempts' = [attempts EXCEPT ![entry[w].event] = @ + countAttempt]
    /\ NotDue(entry[w].event)
    /\ UNCHANGED <<token, aged>>

\* The write each outcome calls for.
Write(w) ==
    \/ outcome[w] = "routed" /\ MarkPublished(w)
    \/ outcome[w] = "unavailable" /\ Fenced(w) /\ Release(w)
    \/ outcome[w] = "unpublishable" /\ Fenced(w) /\ MarkNeedsAttention(w, 0)
    \/ /\ outcome[w] \in {"failed", "unknown"} /\ Fenced(w)
       /\ \/ /\ entry[w].attempts + 1 >= MaxPublishAttempts
             /\ MarkNeedsAttention(w, 1)
          \/ /\ entry[w].attempts + 1 < MaxPublishAttempts
             /\ ScheduleRetry(w)
    \/ /\ outcome[w] # "routed" /\ ~Fenced(w)
       /\ UNCHANGED row

\* The write may fail; the worker logs that and goes on either way.
settle(w) ==
    /\ wpc[w] = "settle"
    /\ Write(w) \/ (~calm /\ UNCHANGED row)
    /\ wpc' = [wpc EXCEPT ![w] = "idle"]
    /\ entry' = [entry EXCEPT ![w] = NoEntry]
    /\ outcome' = [outcome EXCEPT ![w] = "none"]
    /\ UNCHANGED <<routed, cleanup, calm>>

\* One statement deletes at most outboxCleanupBatchSize old published rows.
DeletePublished(batch) ==
    /\ \/ Cardinality(batch) = outboxCleanupBatchSize
       \/ batch = aged /\ Cardinality(aged) < outboxCleanupBatchSize
    /\ status' = [e \in Events |-> IF e \in batch THEN "deleted" ELSE status[e]]
    /\ aged' = aged \ batch
    /\ UNCHANGED <<attempts, token, due, ahead>>

\* A worker that finds nothing to publish deletes one batch, when its interval
\* has passed or its last batch was full. The statement may fail, or succeed and
\* the reply be lost; the worker then waits for the next interval.
deleteOldPublishedEvents(w) ==
    /\ wpc[w] = "idle"
    /\ NothingToClaim(w)
    /\ cleanup[w] # "waiting"
    /\ \/ \E batch \in SUBSET aged :
             /\ DeletePublished(batch)
             /\ cleanup' = [cleanup EXCEPT ![w] =
                    IF Cardinality(batch) = outboxCleanupBatchSize
                    THEN "unfinished" ELSE "waiting"]
       \/ /\ ~calm
          /\ (\E batch \in SUBSET aged : DeletePublished(batch)) \/ UNCHANGED row
          /\ cleanup' = [cleanup EXCEPT ![w] = "waiting"]
    /\ UNCHANGED <<routed, wpc, entry, outcome, calm>>

CleanupInterval(w) ==
    /\ cleanup[w] = "waiting"
    /\ cleanup' = [cleanup EXCEPT ![w] = "due"]
    /\ UNCHANGED <<row, routed, wpc, entry, outcome, calm>>

-----------------------------------------------------------------------------
(* From outside.                                                            *)

\* The process dies, or is told to stop, and another one takes its place.
Crash(w) ==
    /\ ~calm
    /\ wpc' = [wpc EXCEPT ![w] = "idle"]
    /\ entry' = [entry EXCEPT ![w] = NoEntry]
    /\ outcome' = [outcome EXCEPT ![w] = "none"]
    /\ cleanup' = [cleanup EXCEPT ![w] = "due"]
    /\ UNCHANGED <<row, routed, calm>>

\* A person puts an event back, with a fresh budget: make order-outbox-redrive.
Redrive(e) ==
    /\ status[e] = "needs_attention"
    /\ status' = [status EXCEPT ![e] = "pending"]
    /\ attempts' = [attempts EXCEPT ![e] = 0]
    /\ BecomesDue(e)
    /\ UNCHANGED <<token, aged, routed, worker, calm>>

\* The broker, the database and the processes work from now on.
CalmDown ==
    /\ ~calm
    /\ calm' = TRUE
    /\ UNCHANGED <<row, routed, worker>>

Work(w) ==
    \/ \E e \in Events : ClaimNext(w, e)
    \/ PublishOrderAccepted(w)
    \/ settle(w)
    \/ deleteOldPublishedEvents(w)

Next ==
    \/ \E w \in Workers : Work(w) \/ CleanupInterval(w) \/ Crash(w)
    \/ \E e \in Events : RecordEvent(e) \/ Elapse(e) \/ Age(e) \/ Redrive(e)
    \/ CalmDown

Spec == Init /\ [][Next]_vars

\* Run is a loop that never stops by itself, and a moment that lies ahead comes.
\* Nobody is obliged to accept orders or to redrive events, and nothing says
\* that the trouble ends.
FairSpec ==
    /\ Spec
    /\ \A w \in Workers : WF_vars(Work(w))
    /\ \A e \in Events : WF_vars(Elapse(e))

-----------------------------------------------------------------------------
Statuses == {"absent", "pending", "published", "needs_attention", "deleted"}

\* The columns keep their types, and only rows with the right status are due
\* for a claim or old enough to be deleted.
TypeOK ==
    /\ status \in [Events -> Statuses]
    /\ attempts \in [Events -> Nat]
    /\ token \in [Events -> Workers \cup {Nobody}]
    /\ due \in SUBSET {e \in Events : status[e] = "pending"}
    /\ ahead \in [Events -> SUBSET due]
    /\ aged \in SUBSET {e \in Events : status[e] = "published"}
    /\ routed \in SUBSET Events
    /\ wpc \in [Workers -> {"idle", "publish", "settle"}]
    /\ entry \in [Workers -> Entries]
    /\ outcome \in [Workers -> {"none", "routed", "unavailable", "failed",
                                "unknown", "unpublishable"}]
    /\ cleanup \in [Workers -> {"waiting", "due", "unfinished"}]
    /\ calm \in BOOLEAN

\* An event is never lost: a row only stops being retried or waiting for a
\* person, and is only deleted, after the broker has routed the event, however
\* many workers crashed, froze past their lease or lost the reply on the way.
PublishedMeansRouted ==
    \A e \in Events : status[e] \in {"published", "deleted"} => e \in routed

\* The retry budget is exact although it is decided on a copy of attempts that
\* was read at the claim: an event that could be published waits for a person
\* exactly when MaxPublishAttempts failures were counted, never before and
\* never with more, and outages and lost claims count for nothing.
RetryBudget ==
    \A e \in Events :
        /\ status[e] = "pending" => attempts[e] < MaxPublishAttempts
        /\ status[e] = "needs_attention" =>
              \/ attempts[e] = MaxPublishAttempts
              \/ e \in Unpublishable /\ attempts[e] < MaxPublishAttempts
        /\ attempts[e] <= MaxPublishAttempts

\* Once an event is recorded as published, no late write of a worker that still
\* holds an older or even the current claim makes it pending again, asks a
\* person to look at it, or brings a deleted row back.
RoutedStaysPublished ==
    [][\A e \in Events :
        /\ status[e] = "published" => status'[e] \in {"published", "deleted"}
        /\ status[e] = "deleted" => status'[e] = "deleted"]_vars

\* Once the trouble is over, an event that can be published does not stay
\* pending: leases of dead workers run out, and events that can never be
\* published do not keep it from its turn, however often they are redriven.
EventuallySettled ==
    \A e \in Events \ Unpublishable :
        calm /\ status[e] = "pending" ~> status[e] # "pending"

\* Workers, leases and failed writes come to no more than a relay: an event is
\* marked published, and its row deleted, only after a queue has it, and whatever
\* happens to a worker leaves the event waiting or with a person.
Progress(e) ==
    CASE status[e] = "pending" -> "waiting"
      [] status[e] = "needs_attention" -> "aside"
      [] OTHER -> status[e]

Relayed == INSTANCE Relay WITH progress <- [e \in Events |-> Progress(e)]

RelaySpec == Relayed!Spec

=============================================================================
