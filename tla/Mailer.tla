------------------------------- MODULE Mailer -------------------------------
(***************************************************************************)
(* What notification-service promises, without consumers, claims, channels *)
(* or redeliveries: it sends at most MaxSendAttempts emails for an order,  *)
(* only after it was told of the order, and lets go of a message only when *)
(* the email is on record or a copy of the message is parked.              *)
(***************************************************************************)
EXTENDS Naturals

CONSTANTS
    Messages, Orders,
    OrderOf,        \* the order that a message is about, if one can tell
    MaxSendAttempts

VARIABLES
    place,          \* absent, queued (anywhere at the broker), gone
    parked,         \* messages with a copy in the parked queue
    sent,           \* orders whose email is on record as sent
    emails          \* emails the provider has accepted for an order

mail == <<place, parked, sent, emails>>

Init ==
    /\ place = [m \in Messages |-> "absent"]
    /\ parked = {}
    /\ sent = {}
    /\ emails = [o \in Orders |-> 0]

About(o) == {m \in DOMAIN OrderOf : OrderOf[m] = o}

Publish(m) ==
    /\ place[m] = "absent"
    /\ place' = [place EXCEPT ![m] = "queued"]
    /\ UNCHANGED <<parked, sent, emails>>

Send(o) ==
    /\ \E m \in About(o) : place[m] # "absent"
    /\ emails[o] < MaxSendAttempts
    /\ emails' = [emails EXCEPT ![o] = @ + 1]
    /\ UNCHANGED <<place, parked, sent>>

Record(o) ==
    /\ emails[o] > 0 /\ o \notin sent
    /\ sent' = sent \cup {o}
    /\ UNCHANGED <<place, parked, emails>>

Park(m) ==
    /\ place[m] = "queued"
    /\ parked' = parked \cup {m}
    /\ UNCHANGED <<place, sent, emails>>

\* Bug of the mutant: a message is let go whatever came of it.
DoneAnyway(m) ==
    /\ place[m] = "queued"
    /\ place' = [place EXCEPT ![m] = "gone"]
    /\ UNCHANGED <<parked, sent, emails>>

Done(m) ==
    /\ place[m] = "queued"
    /\ m \in parked \/ \E o \in sent : m \in About(o)
    /\ place' = [place EXCEPT ![m] = "gone"]
    /\ UNCHANGED <<parked, sent, emails>>

Next ==
    \/ \E m \in Messages : Publish(m) \/ Park(m) \/ Done(m)
    \/ \E o \in Orders : Send(o) \/ Record(o)

Spec == Init /\ [][Next]_mail
=============================================================================
