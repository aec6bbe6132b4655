------------------------------- MODULE Relay -------------------------------
(***************************************************************************)
(* What the outbox promises, without workers, leases or failed writes: an  *)
(* event that is recorded is put on a queue at least once before its row   *)
(* is marked published and deleted, or waits for a person. A worker that   *)
(* was slow may put it there once more at any time.                        *)
(***************************************************************************)
CONSTANT Events

VARIABLES
    progress,       \* absent, waiting, aside (for a person), published, deleted
    routed          \* events that have reached a queue

relay == <<progress, routed>>

Init ==
    /\ progress = [e \in Events |-> "absent"]
    /\ routed = {}

Record(e) ==
    /\ progress[e] = "absent"
    /\ progress' = [progress EXCEPT ![e] = "waiting"]
    /\ UNCHANGED routed

Route(e) ==
    /\ progress[e] # "absent"
    /\ routed' = routed \cup {e}
    /\ UNCHANGED progress

\* Bug of the mutant: an event counts as published before a queue has it.
PublishedUnrouted(e) ==
    /\ progress[e] \in {"waiting", "aside"}
    /\ progress' = [progress EXCEPT ![e] = "published"]
    /\ UNCHANGED routed

Published(e) ==
    /\ progress[e] \in {"waiting", "aside"}
    /\ e \in routed
    /\ progress' = [progress EXCEPT ![e] = "published"]
    /\ UNCHANGED routed

SetAside(e) ==
    /\ progress[e] = "waiting"
    /\ progress' = [progress EXCEPT ![e] = "aside"]
    /\ UNCHANGED routed

Redrive(e) ==
    /\ progress[e] = "aside"
    /\ progress' = [progress EXCEPT ![e] = "waiting"]
    /\ UNCHANGED routed

Delete(batch) ==
    /\ \A e \in batch : progress[e] = "published"
    /\ progress' = [e \in Events |-> IF e \in batch THEN "deleted" ELSE progress[e]]
    /\ UNCHANGED routed

Next ==
    \/ \E e \in Events : \/ Record(e) \/ Route(e) \/ Published(e)
                         \/ SetAside(e) \/ Redrive(e)
    \/ \E batch \in SUBSET Events : Delete(batch)

Spec == Init /\ [][Next]_relay
=============================================================================
