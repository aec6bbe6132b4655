---------------------------- MODULE OutboxProofs ----------------------------
(***************************************************************************)
(* Theorems about Outbox for any number of workers and events. The         *)
(* inductive invariant says what a worker knows of the row it claimed as   *)
(* long as the row still carries its token.                                *)
(***************************************************************************)
EXTENDS Outbox, TLAPS

\* A worker's claim is current while the row carries the worker's token.
Current(w) == wpc[w] # "idle" /\ token[entry[w].event] = w

\* A worker's copy of attempts is right as long as its claim is current and the
\* row pending, and nobody else has set the row aside.
WorkerOf(w) ==
    /\ Current(w) => /\ status[entry[w].event] \notin {"absent", "needs_attention"}
                     /\ status[entry[w].event] = "pending" =>
                            attempts[entry[w].event] = entry[w].attempts
    /\ wpc[w] # "settle" => outcome[w] = "none"
    /\ outcome[w] = "routed" => entry[w].event \in routed
    /\ outcome[w] = "unpublishable" => entry[w].event \in Unpublishable

EventOf(e) ==
    /\ status[e] = "absent" => attempts[e] = 0
    /\ status[e] = "pending" => attempts[e] < MaxPublishAttempts
    /\ status[e] = "needs_attention" =>
          \/ attempts[e] = MaxPublishAttempts
          \/ e \in Unpublishable /\ attempts[e] < MaxPublishAttempts
    /\ attempts[e] <= MaxPublishAttempts
    /\ status[e] \in {"published", "deleted"} => e \in routed

WInv == \A w \in Workers : WorkerOf(w)
EInv == \A e \in Events : EventOf(e)
IInv == TypeOK /\ WInv /\ EInv

-----------------------------------------------------------------------------
(* What the statements do to a row.                                         *)

\* The part of TypeOK about the table, which the workers' writes can disturb.
RowOK ==
    /\ status \in [Events -> Statuses]
    /\ attempts \in [Events -> Nat]
    /\ token \in [Events -> Workers \cup {Nobody}]
    /\ due \in SUBSET {e \in Events : status[e] = "pending"}
    /\ ahead \in [Events -> SUBSET due]
    /\ aged \in SUBSET {e \in Events : status[e] = "published"}

\* The rest of it.
WorkOK ==
    /\ routed \in SUBSET Events
    /\ wpc \in [Workers -> {"idle", "publish", "settle"}]
    /\ entry \in [Workers -> Entries]
    /\ outcome \in [Workers -> {"none", "routed", "unavailable", "failed",
                                "unknown", "unpublishable"}]
    /\ cleanup \in [Workers -> {"waiting", "due", "unfinished"}]
    /\ calm \in BOOLEAN

\* TypeOK is the two parts together.
LEMMA TypeParts == TypeOK <=> RowOK /\ WorkOK
  BY DEF TypeOK, RowOK, WorkOK

\* A row that stops being due leaves no trace in the order of the others.
LEMMA NotDueOK ==
  ASSUME RowOK, NEW e \in Events, NotDue(e)
  PROVE  /\ due' = due \ {e}
         /\ ahead' \in [Events -> SUBSET due']
  BY DEF RowOK, NotDue

\* A row that becomes due comes after those that are.
LEMMA BecomesDueOK ==
  ASSUME RowOK, NEW e \in Events, BecomesDue(e)
  PROVE  /\ due' = due \cup {e}
         /\ ahead' \in [Events -> SUBSET due']
  BY DEF RowOK, BecomesDue

\* The entry of an idle worker is an entry.
LEMMA NoEntryOK == NoEntry \in Entries
<1>1. (CHOOSE e \in Events : TRUE) \in Events
  BY OutboxAssumption
<1> QED
  BY <1>1 DEF NoEntry, Entries

\* A publication that counts as routed did reach a queue, and only an event that
\* cannot be put on the wire is unpublishable.
LEMMA PublicationOutcomes ==
  ASSUME NEW e, NEW result \in Publication(e)
  PROVE  /\ result[1] \in {"routed", "unavailable", "failed", "unknown", "unpublishable"}
         /\ result[1] = "routed" => result[2] = TRUE
         /\ result[1] = "unpublishable" => e \in Unmarshalable
<1>1. CASE e \in Unmarshalable
  <2>1. result = <<"unpublishable", FALSE>>
    BY <1>1 DEF Publication
  <2> QED
    BY <1>1, <2>1
<1>2. CASE e \notin Unmarshalable
  <2>1. \/ result = <<"routed", TRUE>> \/ result = <<"unavailable", FALSE>>
        \/ result = <<"failed", TRUE>> \/ result = <<"failed", FALSE>>
        \/ result = <<"unknown", TRUE>> \/ result = <<"unknown", FALSE>>
    BY <1>2, Zenon DEF Publication
  <2>2. CASE result = <<"routed", TRUE>>
    BY <2>2
  <2>3. CASE result = <<"unavailable", FALSE>>
    BY <2>3
  <2>4. CASE result = <<"failed", FALSE>>
    BY <2>4
  <2>5. CASE result = <<"failed", TRUE>>
    BY <2>5
  <2>6. CASE result = <<"unknown", TRUE>>
    BY <2>6
  <2>7. CASE result = <<"unknown", FALSE>>
    BY <2>7
  <2> QED
    BY <2>1, <2>2, <2>3, <2>4, <2>5, <2>6, <2>7, Zenon
<1> QED
  BY <1>1, <1>2

\* What a worker's write does: at most the row of its entry changes, and only
\* as its outcome and the fence allow.
RowWrite(w) ==
    LET e == entry[w].event
    IN  \/ UNCHANGED row
        \/ /\ outcome[w] = "routed"
           /\ status[e] \in {"pending", "needs_attention"}
           /\ status' = [status EXCEPT ![e] = "published"]
           /\ NotDue(e) /\ UNCHANGED <<attempts, token, aged>>
        \/ /\ Fenced(w)
           /\ NotDue(e) /\ UNCHANGED <<status, attempts, token, aged>>
        \/ /\ Fenced(w) /\ outcome[w] = "unpublishable"
           /\ status' = [status EXCEPT ![e] = "needs_attention"]
           /\ NotDue(e) /\ UNCHANGED <<attempts, token, aged>>
        \/ /\ Fenced(w) /\ entry[w].attempts + 1 >= MaxPublishAttempts
           /\ status' = [status EXCEPT ![e] = "needs_attention"]
           /\ attempts' = [attempts EXCEPT ![e] = @ + 1]
           /\ NotDue(e) /\ UNCHANGED <<token, aged>>
        \/ /\ Fenced(w) /\ entry[w].attempts + 1 < MaxPublishAttempts
           /\ attempts' = [attempts EXCEPT ![e] = @ + 1]
           /\ NotDue(e) /\ UNCHANGED <<status, token, aged>>

\* settle makes one of these writes, or none.
LEMMA SettleWrites ==
  ASSUME TypeOK, NEW w \in Workers, settle(w)
  PROVE  RowWrite(w)
<1> DEFINE e == entry[w].event
<1>1. e \in Events /\ attempts \in [Events -> Nat]
  BY DEF TypeOK, Entries
<1>2. [attempts EXCEPT ![e] = @ + 0] = attempts
  BY <1>1
<1>3. CASE Write(w)
  BY <1>2, <1>3 DEF Write, RowWrite, MarkPublished, Release, ScheduleRetry,
                    MarkNeedsAttention, row
<1>4. CASE ~calm /\ UNCHANGED row
  BY <1>4 DEF RowWrite
<1> QED
  BY <1>3, <1>4 DEF settle

-----------------------------------------------------------------------------
(* Type correctness.                                                        *)

\* The table keeps its types when a worker records an outcome.
LEMMA RowWriteType ==
  ASSUME TypeOK, NEW w \in Workers, RowWrite(w)
  PROVE  RowOK'
<1> DEFINE e == entry[w].event
<1>1. e \in Events /\ RowOK
  BY TypeParts DEF TypeOK, Entries
<1>2. CASE UNCHANGED row
  BY <1>1, <1>2 DEF RowOK, row
<1>3. CASE ~UNCHANGED row
  <2>1. NotDue(e)
    BY <1>3 DEF RowWrite
  <2>2. due' = due \ {e} /\ ahead' \in [Events -> SUBSET due']
    BY <1>1, <2>1, NotDueOK
  <2>3. UNCHANGED <<token, aged>> /\ status[e] # "published"
    BY <1>3 DEF RowWrite, Fenced
  <2>4. \/ status' = status
        \/ status' = [status EXCEPT ![e] = "published"]
        \/ status' = [status EXCEPT ![e] = "needs_attention"]
    BY <1>3 DEF RowWrite
  <2>5. attempts' = attempts \/ attempts' = [attempts EXCEPT ![e] = @ + 1]
    BY <1>3 DEF RowWrite
  <2> QED
    BY <1>1, <2>2, <2>3, <2>4, <2>5 DEF RowOK, Statuses
<1> QED
  BY <1>2, <1>3

\* The table keeps its types when old rows are deleted.
LEMMA DeleteType ==
  ASSUME RowOK, NEW batch \in SUBSET aged, DeletePublished(batch)
  PROVE  RowOK'
  BY DEF RowOK, DeletePublished, Statuses

\* Every step keeps the types.
LEMMA TypeNext == TypeOK /\ [Next]_vars => TypeOK'
<1> SUFFICES ASSUME TypeOK, [Next]_vars PROVE TypeOK'
  OBVIOUS
<1> USE DEF Statuses
<1>0. RowOK /\ WorkOK
  BY TypeParts
<1>1. ASSUME NEW w \in Workers, NEW e \in Events, ClaimNext(w, e)
      PROVE  TypeOK'
  <2>1. due' = due \ {e} /\ ahead' \in [Events -> SUBSET due']
    BY <1>0, <1>1, NotDueOK DEF ClaimNext
  <2>2. RowOK'
    BY <1>0, <1>1, <2>1 DEF ClaimNext, RowOK
  <2>3. Claimed(e) \in Entries
    BY <1>0 DEF Claimed, Entries, RowOK
  <2>4. WorkOK'
    BY <1>0, <1>1, <2>3 DEF ClaimNext, WorkOK
  <2> QED
    BY <2>2, <2>4, TypeParts DEF TypeOK, RowOK, WorkOK
<1>2. ASSUME NEW w \in Workers, PublishOrderAccepted(w)
      PROVE  TypeOK'
  <2>1. RowOK'
    BY <1>0, <1>2 DEF PublishOrderAccepted, RowOK, row
  <2>2. entry[w].event \in Events
    BY <1>0 DEF WorkOK, Entries
  <2>3. PICK result \in Publication(entry[w].event) :
          /\ outcome' = [outcome EXCEPT ![w] = result[1]]
          /\ routed' = IF result[2] THEN routed \cup {entry[w].event} ELSE routed
    BY <1>2 DEF PublishOrderAccepted
  <2>4. result[1] \in {"routed", "unavailable", "failed", "unknown", "unpublishable"}
    BY <2>3, PublicationOutcomes
  <2>5. WorkOK'
    BY <1>0, <1>2, <2>2, <2>3, <2>4 DEF PublishOrderAccepted, WorkOK
  <2> QED
    BY <2>1, <2>5 DEF TypeOK, RowOK, WorkOK
<1>3. ASSUME NEW w \in Workers, settle(w)
      PROVE  TypeOK'
  <2>1. RowOK'
    BY <1>3, SettleWrites, RowWriteType
  <2>2. WorkOK'
    BY <1>0, <1>3, NoEntryOK DEF settle, WorkOK
  <2> QED
    BY <2>1, <2>2 DEF TypeOK, RowOK, WorkOK
<1>4. ASSUME NEW w \in Workers, deleteOldPublishedEvents(w)
      PROVE  TypeOK'
  <2>1. \/ UNCHANGED row
        \/ \E batch \in SUBSET aged : DeletePublished(batch)
    BY <1>4 DEF deleteOldPublishedEvents
  <2>2. RowOK'
    BY <1>0, <2>1, DeleteType DEF RowOK, row
  <2>3. WorkOK'
    BY <1>0, <1>4 DEF deleteOldPublishedEvents, WorkOK
  <2> QED
    BY <2>2, <2>3 DEF TypeOK, RowOK, WorkOK
<1>5. ASSUME NEW w \in Workers, CleanupInterval(w) \/ Crash(w)
      PROVE  TypeOK'
  <2>1. RowOK'
    BY <1>0, <1>5 DEF CleanupInterval, Crash, RowOK, row
  <2>2. WorkOK'
    BY <1>0, <1>5, NoEntryOK DEF CleanupInterval, Crash, WorkOK
  <2> QED
    BY <2>1, <2>2 DEF TypeOK, RowOK, WorkOK
<1>6. ASSUME NEW e \in Events, RecordEvent(e) \/ Elapse(e) \/ Redrive(e)
      PROVE  TypeOK'
  <2>1. due' = due \cup {e} /\ ahead' \in [Events -> SUBSET due']
    BY <1>0, <1>6, BecomesDueOK DEF RecordEvent, Elapse, Redrive
  <2>2. RowOK'
    BY <1>0, <1>6, <2>1 DEF RecordEvent, Elapse, Redrive, RowOK
  <2>3. WorkOK'
    BY <1>0, <1>6 DEF RecordEvent, Elapse, Redrive, WorkOK, worker
  <2> QED
    BY <2>2, <2>3 DEF TypeOK, RowOK, WorkOK
<1>7. ASSUME NEW e \in Events, Age(e)
      PROVE  TypeOK'
  BY <1>7 DEF Age, TypeOK, worker
<1>8. CASE CalmDown
  BY <1>8 DEF CalmDown, TypeOK, row, worker
<1>9. CASE UNCHANGED vars
  BY <1>9 DEF vars, TypeOK
<1> QED
  BY <1>1, <1>2, <1>3, <1>4, <1>5, <1>6, <1>7, <1>8, <1>9 DEF Next, Work

\* The first state has the types.
LEMMA InitType == Init => TypeOK
<1> SUFFICES ASSUME Init PROVE TypeOK
  OBVIOUS
<1>1. RowOK
  BY DEF Init, RowOK, Statuses
<1>2. WorkOK
  BY NoEntryOK DEF Init, WorkOK
<1> QED
  BY <1>1, <1>2, TypeParts

\* The outbox table and the workers keep their types in every behaviour.
THEOREM TypeCorrect == Spec => []TypeOK
  BY InitType, TypeNext, PTL DEF Spec

-----------------------------------------------------------------------------
(* The inductive invariant. One lemma per action.                           *)

\* A new claim ends the one before, and has the row's own count of attempts.
LEMMA ClaimInv ==
  ASSUME IInv, NEW w \in Workers, NEW e \in Events, ClaimNext(w, e)
  PROVE  (WInv /\ EInv)'
<1> USE OutboxAssumption
<1>1. e \in due /\ status[e] = "pending"
  BY DEF ClaimNext, Claimable, IInv, TypeOK
<1>2. EInv'
  BY DEF ClaimNext, EInv, EventOf, IInv
<1>3. CASE ~calm /\ UNCHANGED <<wpc, entry, outcome>>
  BY <1>1, <1>2, <1>3 DEF ClaimNext, WInv, WorkerOf, Current, IInv, TypeOK, Entries
<1>4. CASE entry' = [entry EXCEPT ![w] = Claimed(e)]
  <2>1. entry'[w] = Claimed(e) /\ \A v \in Workers \ {w} : entry'[v] = entry[v]
    BY <1>4 DEF IInv, TypeOK
  <2>3. ASSUME NEW v \in Workers \ {w} PROVE WorkerOf(v)'
    BY <2>1, <2>3 DEF ClaimNext, WInv, WorkerOf, Current, IInv, TypeOK, Entries
  <2>4. WorkerOf(w)'
    BY <1>1, <2>1, <1>4 DEF ClaimNext, Claimed, WInv, WorkerOf, Current, IInv, TypeOK,
                            Unpublishable
  <2> QED
    BY <1>2, <2>3, <2>4 DEF WInv
<1> QED
  BY <1>2, <1>3, <1>4 DEF ClaimNext

\* Publishing decides the outcome and nothing else a claim relies on.
LEMMA PublishInv ==
  ASSUME IInv, NEW w \in Workers, PublishOrderAccepted(w)
  PROVE  (WInv /\ EInv)'
<1>1. PICK result \in Publication(entry[w].event) :
          /\ outcome' = [outcome EXCEPT ![w] = result[1]]
          /\ routed' = IF result[2] THEN routed \cup {entry[w].event} ELSE routed
  BY DEF PublishOrderAccepted
<1>2. routed \subseteq routed'
  BY <1>1
<1>3. outcome'[w] = "routed" => entry[w].event \in routed'
  BY <1>1, PublicationOutcomes DEF IInv, TypeOK
<1>4. outcome'[w] = "unpublishable" => entry[w].event \in Unpublishable
  BY <1>1, PublicationOutcomes DEF IInv, TypeOK, Unpublishable
<1>5. \A v \in Workers \ {w} : outcome'[v] = outcome[v] /\ wpc'[v] = wpc[v]
  BY <1>1 DEF PublishOrderAccepted, IInv, TypeOK
<1>6. wpc[w] = "publish" /\ wpc'[w] = "settle"
  BY DEF PublishOrderAccepted, IInv, TypeOK
<1>7. UNCHANGED <<status, attempts, token, entry>>
  BY DEF PublishOrderAccepted, row
<1>8. WInv'
  BY <1>2, <1>3, <1>4, <1>5, <1>6, <1>7 DEF WInv, WorkerOf, Current, IInv
<1>9. EInv'
  BY <1>2, <1>7 DEF EInv, EventOf, IInv
<1> QED
  BY <1>8, <1>9

\* A worker that becomes idle leaves the others alone.
LEMMA IdleInv ==
  ASSUME IInv, NEW w \in Workers,
         wpc' = [wpc EXCEPT ![w] = "idle"],
         entry' = [entry EXCEPT ![w] = NoEntry],
         outcome' = [outcome EXCEPT ![w] = "none"]
  PROVE  /\ wpc'[w] = "idle" /\ outcome'[w] = "none"
         /\ \A v \in Workers \ {w} :
                wpc'[v] = wpc[v] /\ entry'[v] = entry[v] /\ outcome'[v] = outcome[v]
  BY DEF IInv, TypeOK

\* A write either leaves the row alone, or marks it published, or is made by the
\* only worker whose claim of the row is current.
LEMMA SettleInv ==
  ASSUME IInv, NEW w \in Workers, settle(w)
  PROVE  (WInv /\ EInv)'
<1> USE OutboxAssumption
<1>0. PICK e \in Events : e = entry[w].event
  BY DEF IInv, TypeOK, Entries
<1>1. /\ wpc'[w] = "idle" /\ outcome'[w] = "none"
      /\ \A v \in Workers \ {w} :
             wpc'[v] = wpc[v] /\ entry'[v] = entry[v] /\ outcome'[v] = outcome[v]
  BY IdleInv DEF settle
<1>2. WorkerOf(w)'
  BY <1>0, <1>1 DEF WorkerOf, Current
<1>3. RowWrite(w)
  BY SettleWrites DEF IInv
<1>4. e \in Events /\ wpc[w] # "idle" /\ routed' = routed /\ token' = token
  BY <1>0, <1>3 DEF IInv, TypeOK, Entries, WInv, WorkerOf, settle, RowWrite, row
<1>5. /\ \A d \in Events \ {e} : status'[d] = status[d] /\ attempts'[d] = attempts[d]
      /\ attempts[e] \in Nat /\ status[e] \in Statuses
  BY <1>0, <1>3, <1>4 DEF RowWrite, row, IInv, TypeOK
<1>6. CASE status'[e] = "published" /\ outcome[w] = "routed" /\ attempts' = attempts
  <2>1. EInv'
    BY <1>0, <1>4, <1>5, <1>6 DEF EInv, EventOf, IInv, WInv, WorkerOf
  <2>2. ASSUME NEW v \in Workers \ {w} PROVE WorkerOf(v)'
    <3>1. entry[v].event \in Events /\ WorkerOf(v)
      BY DEF IInv, TypeOK, Entries, WInv
    <3> QED
      BY <1>0, <1>1, <1>4, <1>5, <1>6, <3>1 DEF WorkerOf, Current
  <2> QED
    BY <1>0, <1>1, <1>2, <2>1, <2>2 DEF WInv
<1>7. CASE UNCHANGED <<status, attempts>>
  <2>1. ASSUME NEW v \in Workers \ {w} PROVE WorkerOf(v)'
    BY <1>0, <1>1, <1>4, <1>7 DEF WorkerOf, Current, IInv, WInv
  <2> QED
    BY <1>0, <1>1, <1>2, <1>4, <1>7, <2>1 DEF WInv, EInv, EventOf, IInv
<1>8. CASE /\ Fenced(w)
           /\ \/ status'[e] = "needs_attention" /\ outcome[w] = "unpublishable" /\ attempts' = attempts
              \/ /\ status'[e] = "needs_attention" /\ attempts'[e] = attempts[e] + 1
                 /\ entry[w].attempts + 1 >= MaxPublishAttempts
              \/ /\ status'[e] = status[e] /\ attempts'[e] = attempts[e] + 1
                 /\ entry[w].attempts + 1 < MaxPublishAttempts
  <2>1. Current(w) /\ entry[w].attempts = attempts[e] /\ status[e] = "pending"
    BY <1>0, <1>4, <1>8 DEF Fenced, Current, IInv, WInv, WorkerOf
  <2>2. attempts[e] < MaxPublishAttempts /\ (outcome[w] = "unpublishable" => e \in Unpublishable)
    BY <1>0, <1>4, <2>1 DEF IInv, WInv, WorkerOf, EInv, EventOf
  <2>3. EventOf(e)'
    BY <1>0, <1>5, <1>8, <2>1, <2>2 DEF EventOf
  <2>4. EInv'
    BY <1>0, <1>4, <1>5, <2>3 DEF EInv, EventOf, IInv
  <2>5. ASSUME NEW v \in Workers \ {w} PROVE WorkerOf(v)'
    <3>1. entry[v].event \in Events /\ WorkerOf(v)
      BY DEF IInv, TypeOK, Entries, WInv
    <3>2. entry[v].event = e => ~Current(v)
      BY <1>0, <2>1, <2>5 DEF Current, IInv
    <3> QED
      BY <1>0, <1>1, <1>4, <1>5, <3>1, <3>2 DEF WorkerOf, Current
  <2> QED
    BY <1>0, <1>1, <1>2, <2>4, <2>5 DEF WInv
<1> QED
  BY <1>0, <1>3, <1>4, <1>6, <1>7, <1>8 DEF RowWrite, row, IInv, TypeOK

\* Deleting a row takes nothing from a claim, for the row was published.
LEMMA DeleteInv ==
  ASSUME IInv, NEW w \in Workers, deleteOldPublishedEvents(w)
  PROVE  (WInv /\ EInv)'
<1>1. /\ UNCHANGED <<attempts, token, routed, wpc, entry, outcome>>
      /\ \A e \in Events : \/ status'[e] = status[e]
                           \/ status[e] = "published" /\ status'[e] = "deleted"
  BY DEF deleteOldPublishedEvents, DeletePublished, row, IInv, TypeOK
<1>2. EInv'
  BY <1>1 DEF EInv, EventOf, IInv
<1>3. WInv'
  BY <1>1 DEF WInv, WorkerOf, Current, IInv, TypeOK, Entries
<1> QED
  BY <1>2, <1>3

\* A crash forgets the claim; the row keeps the token until it is claimed again.
LEMMA CrashInv ==
  ASSUME IInv, NEW w \in Workers, Crash(w)
  PROVE  (WInv /\ EInv)'
<1>1. /\ wpc'[w] = "idle" /\ outcome'[w] = "none"
      /\ \A v \in Workers \ {w} :
             wpc'[v] = wpc[v] /\ entry'[v] = entry[v] /\ outcome'[v] = outcome[v]
  BY IdleInv DEF Crash
<1>2. UNCHANGED <<status, attempts, token, routed>>
  BY DEF Crash, row
<1>3. WInv'
  BY <1>1, <1>2 DEF WInv, WorkerOf, Current, IInv
<1> QED
  BY <1>1, <1>2, <1>3 DEF EInv, EventOf, IInv

\* A row is recorded or redriven only while no claim of it is current.
LEMMA EventInv ==
  ASSUME IInv, NEW e \in Events, RecordEvent(e) \/ Redrive(e)
  PROVE  (WInv /\ EInv)'
<1>1. /\ status[e] \in {"absent", "needs_attention"}
      /\ status'[e] = "pending" /\ attempts'[e] = 0
      /\ \A d \in Events \ {e} : status'[d] = status[d] /\ attempts'[d] = attempts[d]
      /\ UNCHANGED <<token, routed, wpc, entry, outcome>>
  BY DEF RecordEvent, Redrive, worker, IInv, TypeOK, EInv, EventOf
<1>2. EInv'
  BY <1>1, OutboxAssumption DEF EInv, EventOf, IInv
<1>3. WInv'
  BY <1>1 DEF WInv, WorkerOf, Current, IInv, TypeOK, Entries
<1> QED
  BY <1>2, <1>3

\* The invariant holds in every state.
THEOREM Invariant == Spec => []IInv
<1>1. Init => IInv
  <2> SUFFICES ASSUME Init PROVE IInv
    OBVIOUS
  <2>1. TypeOK
    BY InitType
  <2>2. WInv
    BY NoEntryOK DEF Init, WInv, WorkerOf, Current
  <2>3. EInv
    BY OutboxAssumption DEF Init, EInv, EventOf
  <2> QED
    BY <2>1, <2>2, <2>3 DEF IInv
<1>2. IInv /\ [Next]_vars => IInv'
  <2> SUFFICES ASSUME IInv, [Next]_vars PROVE IInv'
    OBVIOUS
  <2>1. TypeOK'
    BY TypeNext DEF IInv
  <2>2. ASSUME \/ CalmDown
               \/ \E w \in Workers : CleanupInterval(w)
               \/ \E e \in Events : Elapse(e) \/ Age(e)
               \/ UNCHANGED vars
        PROVE  (WInv /\ EInv)'
    <3>1. UNCHANGED <<status, attempts, token, routed, wpc, entry, outcome>>
      BY <2>2 DEF CalmDown, CleanupInterval, Elapse, Age, row, worker, vars
    <3> QED
      BY <3>1 DEF IInv, WInv, WorkerOf, Current, EInv, EventOf
  <2> QED
    BY <2>1, <2>2, ClaimInv, PublishInv, SettleInv, DeleteInv, CrashInv, EventInv
       DEF Next, Work, IInv
<1> QED
  BY <1>1, <1>2, PTL DEF Spec

-----------------------------------------------------------------------------
(* What follows.                                                            *)

\* An event is only recorded as published, and only deleted, after the broker
\* has routed it.
THEOREM NothingLost == Spec => []PublishedMeansRouted
<1>1. IInv => PublishedMeansRouted
  BY DEF IInv, EInv, EventOf, PublishedMeansRouted
<1> QED
  BY <1>1, Invariant, PTL

\* The retry budget is exact for any number of workers and any budget.
THEOREM BudgetExact == Spec => []RetryBudget
<1>1. IInv => RetryBudget
  BY DEF IInv, EInv, EventOf, RetryBudget
<1> QED
  BY <1>1, Invariant, PTL

\* Nothing a worker or a person does takes an event back from published.
THEOREM PublishedIsFinal == Spec => RoutedStaysPublished
<1> DEFINE Kept == \A e \in Events :
        /\ status[e] = "published" => status'[e] \in {"published", "deleted"}
        /\ status[e] = "deleted" => status'[e] = "deleted"
<1>1. TypeOK /\ [Next]_vars => [Kept]_vars
  <2> SUFFICES ASSUME TypeOK, [Next]_vars PROVE Kept \/ UNCHANGED vars
    OBVIOUS
  <2>1. ASSUME NEW w \in Workers, settle(w) PROVE Kept
    BY <2>1, SettleWrites DEF RowWrite, Fenced, row, TypeOK, Entries
  <2>2. ASSUME NEW w \in Workers, deleteOldPublishedEvents(w) PROVE Kept
    BY <2>2 DEF deleteOldPublishedEvents, DeletePublished, row, TypeOK
  <2>3. ASSUME NEW e \in Events, RecordEvent(e) \/ Redrive(e) PROVE Kept
    BY <2>3 DEF RecordEvent, Redrive, TypeOK
  <2>4. ASSUME status' = status PROVE Kept
    BY <2>4
  <2> QED
    BY <2>1, <2>2, <2>3, <2>4
       DEF Next, Work, ClaimNext, PublishOrderAccepted, CleanupInterval, Crash,
           Elapse, Age, CalmDown, row
<1> QED
  BY <1>1, TypeCorrect, PTL DEF Spec, RoutedStaysPublished

-----------------------------------------------------------------------------
(* The outbox implements the relay.                                         *)

\* A worker is busy only with an event that has been recorded.
Known == \A w \in Workers : wpc[w] # "idle" => status[entry[w].event] # "absent"

\* A row, once recorded, is never unrecorded.
LEMMA RecordedStays ==
  ASSUME TypeOK, [Next]_vars, NEW e \in Events, status[e] # "absent"
  PROVE  status'[e] # "absent"
<1>1. ASSUME NEW w \in Workers, settle(w) PROVE status'[e] # "absent"
  BY <1>1, SettleWrites DEF RowWrite, row, TypeOK
<1>2. ASSUME NEW w \in Workers, deleteOldPublishedEvents(w) PROVE status'[e] # "absent"
  BY <1>2 DEF deleteOldPublishedEvents, DeletePublished, row
<1>3. ASSUME NEW d \in Events, RecordEvent(d) \/ Redrive(d) PROVE status'[e] # "absent"
  BY <1>3 DEF RecordEvent, Redrive, TypeOK
<1>4. ASSUME UNCHANGED status PROVE status'[e] # "absent"
  BY <1>4
<1> QED
  BY <1>1, <1>2, <1>3, <1>4
  DEF Next, Work, ClaimNext, PublishOrderAccepted, CleanupInterval, Crash, Elapse, Age,
      CalmDown, row, vars

\* Workers stay with recorded events.
LEMMA KnownNext == TypeOK /\ Known /\ [Next]_vars => Known'
<1> SUFFICES ASSUME TypeOK, Known, [Next]_vars, NEW w \in Workers, wpc'[w] # "idle"
             PROVE  status'[entry'[w].event] # "absent"
  BY DEF Known
<1>1. \A v \in Workers : entry[v].event \in Events
  BY DEF TypeOK, Entries
<1>2. ASSUME wpc[w] # "idle", entry'[w] = entry[w] PROVE status'[entry'[w].event] # "absent"
  BY <1>1, <1>2, RecordedStays DEF Known
<1>3. ASSUME NEW v \in Workers, NEW e \in Events, ClaimNext(v, e)
      PROVE  status'[entry'[w].event] # "absent"
  <2>1. CASE v = w /\ entry' = [entry EXCEPT ![w] = Claimed(e)]
    <3>1. entry'[w].event = e /\ status[e] = "pending" /\ status' = status
      BY <1>3, <2>1 DEF ClaimNext, Claimable, Claimed, TypeOK
    <3> QED
      BY <3>1
  <2>2. CASE ~(v = w /\ entry' = [entry EXCEPT ![w] = Claimed(e)])
    <3>1. wpc[w] # "idle" /\ entry'[w] = entry[w]
      BY <1>3, <2>2 DEF ClaimNext, TypeOK
    <3> QED
      BY <1>2, <3>1
  <2> QED
    BY <2>1, <2>2
<1>4. ASSUME NEW v \in Workers, settle(v) \/ Crash(v)
      PROVE  status'[entry'[w].event] # "absent"
  <2>1. wpc[w] # "idle" /\ entry'[w] = entry[w]
    BY <1>4 DEF settle, Crash, TypeOK
  <2> QED
    BY <1>2, <2>1
<1>5. ASSUME NEW v \in Workers, PublishOrderAccepted(v)
      PROVE  status'[entry'[w].event] # "absent"
  <2>1. wpc[w] # "idle" /\ entry'[w] = entry[w]
    BY <1>5 DEF PublishOrderAccepted, TypeOK
  <2> QED
    BY <1>2, <2>1
<1>6. ASSUME UNCHANGED <<wpc, entry>> PROVE status'[entry'[w].event] # "absent"
  BY <1>2, <1>6
<1> QED
  BY <1>3, <1>4, <1>5, <1>6
  DEF Next, Work, deleteOldPublishedEvents, CleanupInterval, RecordEvent, Redrive, Elapse,
      Age, CalmDown, worker, vars

\* A write to the status of one row is a change of one event's progress.
LEMMA ProgressOf ==
  ASSUME TypeOK, NEW e \in Events, NEW s \in Statuses, status' = [status EXCEPT ![e] = s]
  PROVE  [d \in Events |-> Progress(d)]'
            = [[d \in Events |-> Progress(d)] EXCEPT ![e] =
                  CASE s = "pending" -> "waiting"
                    [] s = "needs_attention" -> "aside"
                    [] OTHER -> s]
  BY DEF Progress, TypeOK

\* Every step is a step of the relay or changes nothing in it.
LEMMA RelayStep == IInv /\ Known /\ [Next]_vars => [Relayed!Next]_(Relayed!relay)
<1> SUFFICES ASSUME IInv, Known, [Next]_vars
             PROVE  Relayed!Next \/ UNCHANGED Relayed!relay
  OBVIOUS
<1>0. TypeOK
  BY DEF IInv
<1>1. ASSUME UNCHANGED <<status, routed>> PROVE UNCHANGED Relayed!relay
  BY <1>1 DEF Relayed!relay, Progress
<1>2. ASSUME NEW w \in Workers, PublishOrderAccepted(w)
      PROVE  Relayed!Next \/ UNCHANGED Relayed!relay
  <2> DEFINE e == entry[w].event
  <2>1. e \in Events /\ status[e] # "absent" /\ UNCHANGED status
    BY <1>0, <1>2 DEF PublishOrderAccepted, Known, TypeOK, Entries, row
  <2>2. routed' = routed \/ routed' = routed \cup {e}
    BY <1>2 DEF PublishOrderAccepted
  <2>3. Progress(e) # "absent"
    BY <2>1 DEF Progress
  <2>4. CASE routed' = routed \cup {e}
    BY <2>1, <2>3, <2>4 DEF Relayed!Route, Relayed!Next, Progress
  <2> QED
    BY <1>1, <2>1, <2>2, <2>4
<1>3. ASSUME NEW w \in Workers, settle(w)
      PROVE  Relayed!Next \/ UNCHANGED Relayed!relay
  <2> DEFINE e == entry[w].event
  <2>1. e \in Events /\ UNCHANGED routed
    BY <1>0, <1>3 DEF settle, TypeOK, Entries
  <2>2. CASE UNCHANGED status
    BY <1>1, <2>1, <2>2
  <2>3. CASE /\ status[e] \in {"pending", "needs_attention"} /\ outcome[w] = "routed"
             /\ status' = [status EXCEPT ![e] = "published"]
    <3>1. e \in routed /\ Progress(e) \in {"waiting", "aside"}
      BY <2>3 DEF IInv, WInv, WorkerOf, Progress
    <3>2. Relayed!Published(e)
      BY <1>0, <2>1, <2>3, <3>1, ProgressOf DEF Relayed!Published, Statuses
    <3> QED
      BY <2>1, <3>2 DEF Relayed!Next
  <2>4. CASE status[e] = "pending" /\ status' = [status EXCEPT ![e] = "needs_attention"]
    <3>1. Progress(e) = "waiting"
      BY <2>4 DEF Progress
    <3>2. Relayed!SetAside(e)
      BY <1>0, <2>1, <2>4, <3>1, ProgressOf DEF Relayed!SetAside, Statuses
    <3> QED
      BY <2>1, <3>2 DEF Relayed!Next
  <2> QED
    BY <1>3, <2>2, <2>3, <2>4
    DEF settle, Write, MarkPublished, Release, ScheduleRetry, MarkNeedsAttention, Fenced, row
<1>4. ASSUME NEW w \in Workers, deleteOldPublishedEvents(w)
      PROVE  Relayed!Next \/ UNCHANGED Relayed!relay
  <2>1. CASE \E batch \in SUBSET aged : DeletePublished(batch)
    <3>1. PICK batch \in SUBSET aged : DeletePublished(batch)
      BY <2>1
    <3>2. batch \in SUBSET Events /\ \A e \in batch : status[e] = "published"
      BY <1>0 DEF TypeOK
    <3>3. status' = [e \in Events |-> IF e \in batch THEN "deleted" ELSE status[e]]
          /\ UNCHANGED routed
      BY <1>4, <3>1 DEF DeletePublished, deleteOldPublishedEvents
    <3>4. Relayed!Delete(batch)
      BY <3>2, <3>3 DEF Relayed!Delete, Progress
    <3> QED
      BY <3>2, <3>4 DEF Relayed!Next
  <2>2. CASE UNCHANGED row
    BY <1>1, <1>4, <2>2 DEF row, deleteOldPublishedEvents
  <2> QED
    BY <1>4, <2>1, <2>2 DEF deleteOldPublishedEvents
<1>5. ASSUME NEW e \in Events, RecordEvent(e) PROVE Relayed!Next
  <2>1. Relayed!Record(e)
    BY <1>0, <1>5, ProgressOf DEF RecordEvent, Relayed!Record, Progress, Statuses
  <2> QED
    BY <2>1 DEF Relayed!Next
<1>6. ASSUME NEW e \in Events, Redrive(e) PROVE Relayed!Next
  <2>1. Relayed!Redrive(e)
    BY <1>0, <1>6, ProgressOf DEF Redrive, Relayed!Redrive, Progress, Statuses
  <2> QED
    BY <2>1 DEF Relayed!Next
<1> QED
  BY <1>1, <1>2, <1>3, <1>4, <1>5, <1>6
  DEF Next, Work, ClaimNext, CleanupInterval, Crash, Elapse, Age, CalmDown, row, vars

\* The table, its workers, their leases and their failed writes come to no more
\* than a relay: an event is recorded, reaches a queue, and only then counts as
\* published and is deleted; until then it waits or is with a person.
THEOREM ImplementsRelay == Spec => RelaySpec
<1>1. Init => Relayed!Init
  BY DEF Init, Relayed!Init, Progress
<1>2. Init => Known
  BY DEF Init, Known
<1>3. Spec => []Known
  BY <1>2, KnownNext, TypeCorrect, PTL DEF Spec
<1> QED
  BY <1>1, <1>3, RelayStep, Invariant, PTL DEF Spec, RelaySpec, Relayed!Spec

=============================================================================
