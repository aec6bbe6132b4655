------------------------- MODULE NotificationProofs -------------------------
(***************************************************************************)
(* Proofs about Notification: who holds which message, the send budget,    *)
(* that no message is lost, that a recorded success is final, what a       *)
(* second email for an order must come from, and that the service          *)
(* implements Mailer.                                                      *)
(*                                                                         *)
(* The budget rests on the fence. A worker compares a copy of attempts,    *)
(* read at its claim, with the limit; what makes the copy good when the    *)
(* attempt is counted is that nobody else can have counted one under the   *)
(* same token. That a message may go rests on two facts nobody takes back: *)
(* a parked copy, and a row in state 'sent'.                               *)
(*                                                                         *)
(* Second emails and Mailer need a count. An email that the provider has   *)
(* accepted is on record as sent, or was written off, or is in the hands   *)
(* of a consumer that has not recorded it yet; and an attempt is counted   *)
(* before its email exists, so consumers that are about to send are part   *)
(* of the budget. They also need a fact about leases: a consumer whose     *)
(* lease has not run out still has the claim, so only one email at a time  *)
(* can be neither a duplicate nor late.                                    *)
(***************************************************************************)
EXTENDS Notification, FiniteSetTheorems, TLAPS

\* What a consumer knows while it handles a delivery.
HandlerOf(w) ==
    /\ wpc[w] # "idle" => delivery[w] \in Messages
    /\ wpc[w] \in {"claim", "lookup", "begin", "send", "sent", "failed"} =>
          delivery[w] \notin Malformed
    /\ wpc[w] = "begin" =>
          /\ claim[w].token \in Tokens
          /\ claim[w].attempts < MaxSendAttempts
          /\ Fenced(w) => attempts[Subject(w)] = claim[w].attempts
    /\ wpc[w] = "sent" => emails[Subject(w)] > 0
    /\ wpc[w] = "park" /\ delivery[w] \notin Malformed =>
          attempts[Subject(w)] = MaxSendAttempts
    /\ wpc[w] = "ack" =>
          \/ delivery[w] \in parked
          \/ delivery[w] \notin Malformed /\ state[Subject(w)] = "sent"

Handlers == \A w \in Workers : HandlerOf(w)

DistinctTokens ==
    \A v, w \in Workers :
        v # w /\ claim[v].token \in Tokens => claim[v].token # claim[w].token

IInv == TypeOK /\ Handlers /\ DistinctTokens /\ SendBudget /\ NothingLost

\* The order a handled message is about.
LEMMA SubjectIsOrder ==
  ASSUME NEW w \in Workers, delivery[w] \in Messages, delivery[w] \notin Malformed
  PROVE  Subject(w) \in Orders
  BY NotificationAssumption DEF Subject

\* OneHolder survives a step that leaves the broker, the channels and the
\* deliveries alone, and takes no handler to or from idle.
LEMMA HolderStays ==
  ASSUME OneHolder, UNCHANGED <<loc, channel, delivery>>,
         \A w \in Workers : wpc'[w] = "idle" <=> wpc[w] = "idle"
  PROVE  OneHolder'
  BY DEF OneHolder, Live

-----------------------------------------------------------------------------
(* Type correctness, one lemma per action that touches the hand-over.       *)

\* A delivery from an open channel is unacknowledged until it is answered.
LEMMA HandleHolder ==
  ASSUME TypeOK, NEW w \in Workers, NEW m \in Messages, handle(w, m)
  PROVE  OneHolder'
<1> loc \in [Messages -> {"absent", "working", "unacked", "retry", "gone"}]
  BY DEF TypeOK
<1>1. (Live(w)' <=> channel[w] = "open") /\ delivery'[w] = m /\ ~Live(w)
  BY DEF handle, Goto, TypeOK, Live
<1>2. \A v \in Workers \ {w} : (Live(v)' <=> Live(v)) /\ delivery'[v] = delivery[v]
  BY DEF handle, Goto, TypeOK, Live
<1>3. CASE channel[w] = "open" /\ loc[m] = "working" /\ loc' = [loc EXCEPT ![m] = "unacked"]
  <2>1. \A v \in Workers : Live(v) => delivery[v] # m
    BY <1>3 DEF OneHolder, TypeOK
  <2>2. ASSUME NEW n \in Messages
        PROVE  loc'[n] = "unacked" <=> \E v \in Workers : Live(v)' /\ delivery'[v] = n
    <3>1. CASE n = m
      BY <1>1, <1>3, <3>1
    <3>2. CASE n # m
      <4>1. loc'[n] = loc[n]
        BY <1>3, <3>2
      <4>2. loc[n] = "unacked" <=> \E v \in Workers : Live(v) /\ delivery[v] = n
        BY DEF OneHolder, TypeOK
      <4> QED
        BY <1>1, <1>2, <3>2, <4>1, <4>2
    <3> QED
      BY <3>1, <3>2
  <2>3. ASSUME NEW u \in Workers, NEW v \in Workers, Live(u)', Live(v)',
               delivery'[u] = delivery'[v]
        PROVE  u = v
    BY <1>1, <1>2, <2>1, <2>3 DEF OneHolder, TypeOK
  <2> QED
    BY <2>2, <2>3 DEF OneHolder
<1>4. CASE channel[w] = "closed" /\ UNCHANGED loc
  <2>1. \A v \in Workers : (Live(v)' <=> Live(v)) /\ (Live(v) => delivery'[v] = delivery[v])
    BY <1>1, <1>2, <1>4
  <2>2. ASSUME NEW n \in Messages
        PROVE  loc'[n] = "unacked" <=> \E v \in Workers : Live(v)' /\ delivery'[v] = n
    <3>1. loc[n] = "unacked" <=> \E v \in Workers : Live(v) /\ delivery[v] = n
      BY DEF OneHolder, TypeOK
    <3> QED
      BY <1>4, <2>1, <3>1
  <2>3. ASSUME NEW u \in Workers, NEW v \in Workers, Live(u)', Live(v)',
               delivery'[u] = delivery'[v]
        PROVE  u = v
    BY <2>1, <2>3 DEF OneHolder, TypeOK
  <2> QED
    BY <2>2, <2>3 DEF OneHolder
<1> QED
  BY <1>3, <1>4 DEF handle

\* What happens to the broker's side when consumer w lets its delivery go.
Lets(w, where) ==
    /\ loc' = IF Live(w) THEN [loc EXCEPT ![delivery[w]] = where] ELSE loc
    /\ ~Live(w)'
    /\ \A v \in Workers \ {w} : (Live(v)' <=> Live(v)) /\ delivery'[v] = delivery[v]

\* A consumer that lets its delivery go leaves a message that was unacknowledged
\* somewhere else.
LEMMA ReleaseHolder ==
  ASSUME TypeOK, Handlers, NEW w \in Workers, NEW where \in {"working", "retry", "gone"},
         Lets(w, where)
  PROVE  /\ loc' \in [Messages -> {"absent", "working", "unacked", "retry", "gone"}]
         /\ OneHolder'
<1> loc \in [Messages -> {"absent", "working", "unacked", "retry", "gone"}]
  BY DEF TypeOK
<1>1. Live(w) => delivery[w] \in Messages
  BY DEF Live, Handlers, HandlerOf
<1>2. ~Live(w)' /\ \A v \in Workers \ {w} : (Live(v)' <=> Live(v)) /\ delivery'[v] = delivery[v]
  BY DEF Lets
<1>3. loc' \in [Messages -> {"absent", "working", "unacked", "retry", "gone"}]
  BY <1>1 DEF Lets
<1>4. ASSUME NEW n \in Messages
      PROVE  loc'[n] = "unacked" <=> \E v \in Workers : Live(v)' /\ delivery'[v] = n
  <2>1. loc[n] = "unacked" <=> \E v \in Workers : Live(v) /\ delivery[v] = n
    BY DEF OneHolder, TypeOK
  <2>2. CASE Live(w) /\ n = delivery[w]
    <3>1. loc'[n] = where
      BY <1>1, <2>2 DEF Lets
    <3>2. \A v \in Workers \ {w} : Live(v) => delivery[v] # n
      BY <2>2 DEF OneHolder, TypeOK
    <3> QED
      BY <1>2, <3>1, <3>2
  <2>3. CASE ~(Live(w) /\ n = delivery[w])
    <3>1. loc'[n] = loc[n]
      BY <1>1, <2>3 DEF Lets
    <3> QED
      BY <1>2, <2>1, <2>3, <3>1
  <2> QED
    BY <2>2, <2>3
<1>5. ASSUME NEW u \in Workers, NEW v \in Workers, Live(u)', Live(v)',
             delivery'[u] = delivery'[v]
      PROVE  u = v
  BY <1>2, <1>5 DEF OneHolder, TypeOK
<1> QED
  BY <1>3, <1>4, <1>5 DEF OneHolder

-----------------------------------------------------------------------------
(* Types.                                                                   *)

\* TypeOK without the agreement about who handles what.
BaseOK ==
    /\ loc \in [Messages -> {"absent", "working", "unacked", "retry", "gone"}]
    /\ parked \in SUBSET Messages
    /\ state \in [Orders -> {"none", "sending", "sent", "failed"}]
    /\ attempts \in [Orders -> Nat]
    /\ token \in [Orders -> Tokens \cup {NoToken}]
    /\ expired \in SUBSET {o \in Orders : state[o] # "none"}
    /\ channel \in [Workers -> {"open", "closed"}]
    /\ forwarded \in [Workers -> Messages \cup {NoMessage}]
    /\ wpc \in [Workers -> {"idle", "claim", "lookup", "begin", "send", "sent", "failed",
                            "park", "draining", "ack", "reject"}]
    /\ delivery \in [Workers -> Messages \cup {NoMessage}]
    /\ claim \in [Workers -> [token : Tokens \cup {NoToken}, attempts : Nat,
                              overrun : BOOLEAN]]
    /\ emails \in [Orders -> Nat]
    /\ unrecorded \in [Orders -> Nat]
    /\ calm \in BOOLEAN

\* TypeOK is the two parts together.
LEMMA TypeParts == TypeOK <=> BaseOK /\ OneHolder
  BY DEF TypeOK, BaseOK

\* A worker that is past the claim handles a message about an order.
LEMMA BusySubject ==
  ASSUME Handlers, NEW w \in Workers,
         wpc[w] \in {"claim", "lookup", "begin", "send", "sent", "failed"}
  PROVE  delivery[w] \in Messages /\ Subject(w) \in Orders
<1>1. delivery[w] \in Messages /\ delivery[w] \notin Malformed
  BY DEF Handlers, HandlerOf
<1> QED
  BY <1>1, SubjectIsOrder

\* A worker goes somewhere.
LEMMA GotoOK ==
  ASSUME BaseOK, NEW w \in Workers,
         NEW where \in {"idle", "claim", "lookup", "begin", "send", "sent", "failed",
                        "park", "draining", "ack", "reject"},
         Goto(w, where)
  PROVE  wpc' \in [Workers -> {"idle", "claim", "lookup", "begin", "send", "sent", "failed",
                              "park", "draining", "ack", "reject"}]
  BY DEF Goto, BaseOK

\* Letting go, in the two forms it has in the actions.
LEMMA SettledLets ==
  ASSUME BaseOK, NEW w \in Workers, NEW where, Settled(w, where)
  PROVE  Lets(w, where)
  BY DEF Settled, Lets, Live, Goto, BaseOK

\* A channel that closes and a process that dies let go of their deliveries.
LEMMA ClosingLets ==
  ASSUME BaseOK, NEW w \in Workers, ChannelCloses(w) \/ Crash(w)
  PROVE  Lets(w, "working")
<1>1. loc' = Requeued(w) /\ channel' = [channel EXCEPT ![w] = "closed"]
  BY DEF ChannelCloses, Crash
<1>2. \A v \in Workers \ {w} : wpc'[v] = wpc[v] /\ delivery'[v] = delivery[v]
  BY DEF ChannelCloses, Crash, Goto, BaseOK
<1> QED
  BY <1>1, <1>2 DEF Lets, Requeued, Live, BaseOK

\* The types that a step of a worker can disturb.
LEMMA WorkTypes ==
  ASSUME BaseOK, OneHolder, Handlers, NEW w \in Workers,
         Work(w) \/ StorageFailure(w) \/ ChannelCloses(w) \/ Crash(w)
  PROVE  BaseOK' /\ OneHolder'
<1> USE NotificationAssumption
<1>t. TypeOK
  BY TypeParts
<1>n. NoClaim \in [token : Tokens \cup {NoToken}, attempts : Nat, overrun : BOOLEAN]
  BY DEF NoClaim
<1>1. CASE consume(w)
  <2>1. BaseOK'
    BY <1>1 DEF consume, BaseOK, queues, row, sends
  <2>2. \A v \in Workers : Live(v)' <=> Live(v)
    BY <1>1 DEF consume, Live, BaseOK
  <2>3. UNCHANGED <<loc, delivery>>
    BY <1>1 DEF consume, queues
  <2> QED
    BY <2>1, <2>2, <2>3 DEF OneHolder
<1>2. ASSUME NEW m \in Messages, handle(w, m) PROVE BaseOK' /\ OneHolder'
  <2>1. BaseOK'
    BY <1>2 DEF handle, Goto, BaseOK, row, sends
  <2> QED
    BY <1>2, <1>t, <2>1, HandleHolder
<1>3. ASSUME NEW t \in Tokens, Claim(w, t) PROVE BaseOK' /\ OneHolder'
  <2>1. Subject(w) \in Orders
    BY <1>3, BusySubject DEF Claim
  <2>a. state' \in [Orders -> {"none", "sending", "sent", "failed"}]
    BY <1>3, <2>1 DEF Claim, BaseOK
  <2>b. token' \in [Orders -> Tokens \cup {NoToken}]
    BY <1>3, <2>1 DEF Claim, BaseOK
  <2>c. expired' \in SUBSET {o \in Orders : state'[o] # "none"}
    <3>1. CASE expired' = expired \ {Subject(w)} /\ state' = [state EXCEPT ![Subject(w)] = "sending"]
      BY <2>1, <3>1 DEF BaseOK
    <3>2. CASE UNCHANGED <<expired, state>>
      BY <3>2 DEF BaseOK
    <3> QED
      BY <1>3, <3>1, <3>2 DEF Claim
  <2>d. claim' \in [Workers -> [token : Tokens \cup {NoToken}, attempts : Nat,
                                overrun : BOOLEAN]]
    <3>1. [token |-> t, attempts |-> attempts[Subject(w)], overrun |-> FALSE]
             \in [token : Tokens \cup {NoToken}, attempts : Nat, overrun : BOOLEAN]
      BY <2>1 DEF BaseOK
    <3> QED
      BY <1>3, <3>1, ZenonT(30) DEF Claim, BaseOK
  <2>e. wpc' \in [Workers -> {"idle", "claim", "lookup", "begin", "send", "sent", "failed",
                            "park", "draining", "ack", "reject"}]
    <3>1. \/ Goto(w, "park") \/ Goto(w, "begin") \/ Goto(w, "reject") \/ Goto(w, "lookup")
      BY <1>3, Zenon DEF Claim
    <3> QED
      BY <3>1, GotoOK
  <2>2. BaseOK'
    BY <1>3, <2>a, <2>b, <2>c, <2>d, <2>e DEF Claim, BaseOK, queues, sends
  <2>3. \A v \in Workers : wpc'[v] = "idle" <=> wpc[v] = "idle"
    BY <1>3 DEF Claim, Goto, BaseOK
  <2>4. UNCHANGED <<loc, channel, delivery>>
    BY <1>3 DEF Claim, queues
  <2> QED
    BY <2>2, <2>3, <2>4, HolderStays
<1>4. CASE currentState(w)
  <2>1. BaseOK'
    BY <1>4 DEF currentState, Goto, BaseOK, queues, row, sends
  <2>2. \A v \in Workers : wpc'[v] = "idle" <=> wpc[v] = "idle"
    BY <1>4 DEF currentState, Goto, BaseOK
  <2> QED
    BY <1>4, <2>1, <2>2, HolderStays DEF currentState, queues
<1>5. CASE BeginAttempt(w)
  <2>1. Subject(w) \in Orders
    BY <1>5, BusySubject DEF BeginAttempt
  <2>2. BaseOK'
    <3>1. attempts' \in [Orders -> Nat]
      BY <1>5, <2>1 DEF BeginAttempt, BaseOK
    <3>2. wpc' \in [Workers -> {"idle", "claim", "lookup", "begin", "send", "sent", "failed",
                              "park", "draining", "ack", "reject"}]
      <4>1. Goto(w, "send") \/ Goto(w, "reject")
        BY <1>5 DEF BeginAttempt
      <4> QED
        BY <4>1, GotoOK
    <3> QED
      BY <1>5, <3>1, <3>2 DEF BeginAttempt, BaseOK, queues, sends
  <2>3. \A v \in Workers : wpc'[v] = "idle" <=> wpc[v] = "idle"
    BY <1>5 DEF BeginAttempt, Goto, BaseOK
  <2> QED
    BY <1>5, <2>2, <2>3, HolderStays DEF BeginAttempt, queues
<1>6. CASE Send(w)
  <2>1. Subject(w) \in Orders
    BY <1>6, BusySubject DEF Send
  <2>2. BaseOK'
    <3>1. emails' \in [Orders -> Nat] /\ unrecorded' \in [Orders -> Nat]
      <4>1. \/ UNCHANGED emails \/ emails' = [emails EXCEPT ![Subject(w)] = @ + 1]
        BY <1>6 DEF Send, sends
      <4>2. \/ UNCHANGED unrecorded
            \/ unrecorded' = [unrecorded EXCEPT ![Subject(w)] = @ + 1]
        BY <1>6 DEF Send, sends
      <4>3. emails' \in [Orders -> Nat]
        BY <2>1, <4>1 DEF BaseOK
      <4>4. unrecorded' \in [Orders -> Nat]
        BY <2>1, <4>2 DEF BaseOK
      <4> QED
        BY <4>3, <4>4
    <3>2. wpc' \in [Workers -> {"idle", "claim", "lookup", "begin", "send", "sent", "failed",
                              "park", "draining", "ack", "reject"}]
      BY <1>6, SMTT(30) DEF Send, Goto, BaseOK
    <3> QED
      BY <1>6, <3>1, <3>2 DEF Send, BaseOK, queues, row
  <2>3. \A v \in Workers : wpc'[v] = "idle" <=> wpc[v] = "idle"
    BY <1>6 DEF Send, Goto, BaseOK
  <2> QED
    BY <1>6, <2>2, <2>3, HolderStays DEF Send, queues
<1>7. CASE MarkSent(w)
  <2>1. Subject(w) \in Orders
    BY <1>7, BusySubject DEF MarkSent
  <2>2. BaseOK'
    <3>1. unrecorded' \in [Orders -> Nat]
      BY <1>7, <2>1 DEF MarkSent, BaseOK
    <3>2. wpc' \in [Workers -> {"idle", "claim", "lookup", "begin", "send", "sent", "failed",
                              "park", "draining", "ack", "reject"}]
      <4>1. Goto(w, "ack") \/ Goto(w, "reject")
        BY <1>7 DEF MarkSent
      <4> QED
        BY <4>1, GotoOK
    <3>3. /\ state' \in [Orders -> {"none", "sending", "sent", "failed"}]
          /\ \A o \in Orders : state[o] # "none" => state'[o] # "none"
      BY <1>7, <2>1 DEF MarkSent, BaseOK
    <3> QED
      BY <1>7, <3>1, <3>2, <3>3 DEF MarkSent, BaseOK, queues
  <2>3. \A v \in Workers : wpc'[v] = "idle" <=> wpc[v] = "idle"
    BY <1>7 DEF MarkSent, Goto, BaseOK
  <2> QED
    BY <1>7, <2>2, <2>3, HolderStays DEF MarkSent, queues
<1>8. CASE MarkFailed(w)
  <2>1. Subject(w) \in Orders
    BY <1>8, BusySubject DEF MarkFailed
  <2>2. BaseOK'
    BY <1>8, <2>1 DEF MarkFailed, Goto, BaseOK, queues, sends
  <2>3. \A v \in Workers : wpc'[v] = "idle" <=> wpc[v] = "idle"
    BY <1>8 DEF MarkFailed, Goto, BaseOK
  <2> QED
    BY <1>8, <2>2, <2>3, HolderStays DEF MarkFailed, queues
<1>9. ASSUME NEW where \in {"gone", "retry"}, Settled(w, where) PROVE BaseOK' /\ OneHolder'
  <2>1. Lets(w, where)
    BY <1>9, SettledLets
  <2>2. loc' \in [Messages -> {"absent", "working", "unacked", "retry", "gone"}] /\ OneHolder'
    BY <1>t, <2>1, ReleaseHolder
  <2> QED
    BY <1>9, <1>n, <2>2 DEF Settled, Goto, BaseOK, row, sends
<1>10. CASE acknowledge(w) \/ reject(w)
  BY <1>9, <1>10 DEF acknowledge, reject
<1>11. CASE park(w)
  <2>1. delivery[w] \in Messages
    BY <1>11 DEF park, Handlers, HandlerOf
  <2>2. BaseOK'
    BY <1>11, <2>1 DEF park, Goto, BaseOK, row, sends
  <2>3. \A v \in Workers : wpc'[v] = "idle" <=> wpc[v] = "idle"
    BY <1>11 DEF park, Goto, BaseOK
  <2> QED
    BY <1>11, <2>2, <2>3, HolderStays DEF park
<1>12. CASE StorageFailure(w)
  <2>1. Subject(w) \in Orders
    BY <1>12, BusySubject DEF StorageFailure
  <2>2. BaseOK'
    BY <1>12, <2>1 DEF StorageFailure, Goto, BaseOK, queues, row
  <2>3. \A v \in Workers : wpc'[v] = "idle" <=> wpc[v] = "idle"
    BY <1>12 DEF StorageFailure, Goto, BaseOK
  <2> QED
    BY <1>12, <2>2, <2>3, HolderStays DEF StorageFailure, queues
<1>13. CASE ChannelCloses(w)
  <2>1. loc' \in [Messages -> {"absent", "working", "unacked", "retry", "gone"}] /\ OneHolder'
    BY <1>13, <1>t, ClosingLets, ReleaseHolder
  <2> QED
    BY <1>13, <2>1 DEF ChannelCloses, BaseOK, row, sends
<1>14. CASE Crash(w)
  <2>1. loc' \in [Messages -> {"absent", "working", "unacked", "retry", "gone"}] /\ OneHolder'
    BY <1>14, <1>t, ClosingLets, ReleaseHolder
  <2>2. wpc[w] = "sent" => Subject(w) \in Orders
    BY BusySubject
  <2> QED
    BY <1>14, <1>n, <2>1, <2>2 DEF Crash, Goto, BaseOK, row
<1> QED
  BY <1>1, <1>2, <1>3, <1>4, <1>5, <1>6, <1>7, <1>8, <1>10, <1>11, <1>12, <1>13, <1>14
     DEF Work

\* The types that a step of the surroundings can disturb.
LEMMA OutsideTypes ==
  ASSUME BaseOK, OneHolder,
         \/ \E m \in Messages : Publish(m) \/ RetryExpires(m)
         \/ \E o \in Orders : LeaseExpires(o)
         \/ CalmDown
  PROVE  BaseOK' /\ OneHolder'
<1>1. ASSUME NEW m \in Messages, Publish(m) \/ RetryExpires(m) PROVE BaseOK' /\ OneHolder'
  <2>1. BaseOK'
    BY <1>1 DEF Publish, RetryExpires, BaseOK, row, sends
  <2>2. \A n \in Messages : loc'[n] = "unacked" <=> loc[n] = "unacked"
    BY <1>1 DEF Publish, RetryExpires, BaseOK
  <2>3. UNCHANGED <<wpc, channel, delivery>>
    BY <1>1 DEF Publish, RetryExpires
  <2> QED
    BY <2>1, <2>2, <2>3 DEF OneHolder, Live
<1>2. ASSUME NEW o \in Orders, LeaseExpires(o) PROVE BaseOK' /\ OneHolder'
  <2>1. claim' \in [Workers -> [token : Tokens \cup {NoToken}, attempts : Nat,
                                overrun : BOOLEAN]]
    BY <1>2, ZenonT(30) DEF LeaseExpires, BaseOK
  <2>2. BaseOK'
    BY <1>2, <2>1 DEF LeaseExpires, BaseOK, queues, sends
  <2> QED
    BY <1>2, <2>2 DEF LeaseExpires, OneHolder, Live, queues
<1>3. CASE CalmDown
  BY <1>3 DEF CalmDown, BaseOK, OneHolder, Live, queues, row, sends
<1> QED
  BY <1>1, <1>2, <1>3

-----------------------------------------------------------------------------
(* What no step takes back, and what a bystander keeps.                     *)

Progress ==
    /\ parked \subseteq parked'
    /\ \A o \in Orders : /\ state[o] = "sent" => state'[o] = "sent"
                         /\ emails[o] > 0 => emails'[o] > 0
                         /\ attempts[o] = MaxSendAttempts => attempts'[o] = MaxSendAttempts

\* A worker that keeps its place, its delivery and its claim keeps what it knows,
\* if the step takes nothing back and counts no attempt under its claim.
LEMMA Bystander ==
  ASSUME Handlers, NEW v \in Workers, Progress,
         wpc'[v] = wpc[v], delivery'[v] = delivery[v],
         claim'[v].token = claim[v].token, claim'[v].attempts = claim[v].attempts,
         wpc[v] = "begin" /\ Fenced(v)' =>
             Fenced(v) /\ attempts'[Subject(v)] = attempts[Subject(v)]
  PROVE  HandlerOf(v)'
<1>1. HandlerOf(v) /\ Subject(v)' = Subject(v)
  BY DEF Handlers, Subject
<1>2. delivery[v] \in Messages /\ delivery[v] \notin Malformed => Subject(v) \in Orders
  BY SubjectIsOrder
<1> QED
  BY <1>1, <1>2 DEF HandlerOf, Progress

\* SendBudget survives a step that neither counts nor parks.
LEMMA BudgetStays ==
  ASSUME SendBudget, UNCHANGED <<parked, attempts>>
  PROVE  SendBudget'
  BY DEF SendBudget

\* NothingLost survives a step after which no other message is gone and no other
\* order is on record as sent.
LEMMA LostStays ==
  ASSUME NothingLost, Progress,
         \A m \in Messages : loc'[m] = "gone" => loc[m] = "gone",
         \A o \in Orders : state'[o] = "sent" => state[o] = "sent"
  PROVE  NothingLost'
<1>1. \A m \in Messages : m \notin Malformed => OrderOf[m] \in Orders
  BY NotificationAssumption
<1> QED
  BY <1>1 DEF NothingLost, Progress

\* No two consumers come to hold one token when nobody takes a new one.
LEMMA TokensStay ==
  ASSUME DistinctTokens, \A v \in Workers : claim'[v].token \in {claim[v].token, NoToken}
  PROVE  DistinctTokens'
  BY NotificationAssumption DEF DistinctTokens

-----------------------------------------------------------------------------
(* The rest of the invariant, one lemma per action or group of actions.     *)

Rest == Handlers /\ DistinctTokens /\ SendBudget /\ NothingLost

\* A step that writes neither the row nor the parked queue, lets no message go,
\* and after which each worker other than w is where it was.
LEMMA QuietStep ==
  ASSUME BaseOK, Rest, NEW w \in Workers, HandlerOf(w)',
         UNCHANGED <<parked, state, attempts, token>>,
         \A o \in Orders : emails'[o] >= emails[o] /\ emails'[o] \in Nat,
         \A m \in Messages : loc'[m] = "gone" => loc[m] = "gone",
         \A v \in Workers \ {w} :
             /\ wpc'[v] = wpc[v] /\ delivery'[v] = delivery[v]
             /\ claim'[v].token = claim[v].token /\ claim'[v].attempts = claim[v].attempts,
         claim'[w].token \in {claim[w].token, NoToken}
  PROVE  Rest'
<1>1. Progress
  BY NotificationAssumption DEF Progress, BaseOK
<1>2. ASSUME NEW v \in Workers PROVE HandlerOf(v)'
  <2>1. CASE v = w
    BY <2>1
  <2>2. CASE v # w
    <3>1. Fenced(v)' => Fenced(v)
      BY <2>2 DEF Fenced, Subject
    <3> QED
      BY <1>1, <2>2, <3>1, Bystander DEF Rest
  <2> QED
    BY <2>1, <2>2
<1>3. DistinctTokens'
  BY TokensStay DEF Rest
<1>4. SendBudget' /\ NothingLost'
  BY <1>1, BudgetStays, LostStays DEF Rest
<1> QED
  BY <1>2, <1>3, <1>4 DEF Rest, Handlers

\* Taking a delivery, looking the state up, and giving up for now.
LEMMA EasySteps ==
  ASSUME BaseOK, Rest, NEW w \in Workers,
         \/ consume(w)
         \/ \E m \in Messages : handle(w, m)
         \/ currentState(w)
         \/ StorageFailure(w)
         \/ reject(w)
         \/ ChannelCloses(w)
         \/ Crash(w)
  PROVE  Rest'
<1> USE NotificationAssumption
<1>h. HandlerOf(w)
  BY DEF Rest, Handlers
<1>e. \A o \in Orders : emails[o] >= emails[o] /\ emails[o] \in Nat
  BY DEF BaseOK
<1>1. CASE consume(w)
  <2>1. HandlerOf(w)'
    BY <1>1, <1>h DEF consume, HandlerOf, Subject, Fenced, queues, row, sends
  <2> QED
    BY <1>1, <1>e, <2>1, QuietStep DEF consume, queues, row, sends
<1>2. ASSUME NEW m \in Messages, handle(w, m) PROVE Rest'
  <2>1. wpc'[w] = (IF m \in Malformed THEN "park" ELSE "claim") /\ delivery'[w] = m
    BY <1>2 DEF handle, Decodable, Goto, BaseOK
  <2>2. HandlerOf(w)'
    BY <2>1 DEF HandlerOf
  <2>3. \A n \in Messages : loc'[n] = "gone" => loc[n] = "gone"
    BY <1>2 DEF handle, BaseOK
  <2>4. \A v \in Workers \ {w} : wpc'[v] = wpc[v] /\ delivery'[v] = delivery[v]
    BY <1>2 DEF handle, Goto, BaseOK
  <2> QED
    BY <1>2, <1>e, <2>2, <2>3, <2>4, QuietStep DEF handle, row, sends
<1>3. CASE currentState(w)
  <2>1. delivery[w] \in Messages /\ delivery[w] \notin Malformed
    BY <1>3, <1>h DEF currentState, HandlerOf
  <2>2. wpc'[w] = (IF state[Subject(w)] = "sent" THEN "ack" ELSE "reject")
    BY <1>3 DEF currentState, Goto, BaseOK
  <2>3. HandlerOf(w)'
    BY <1>3, <2>1, <2>2 DEF currentState, HandlerOf, Subject, row
  <2>4. \A v \in Workers \ {w} : wpc'[v] = wpc[v]
    BY <1>3 DEF currentState, Goto, BaseOK
  <2> QED
    BY <1>3, <1>e, <2>3, <2>4, QuietStep DEF currentState, queues, row, sends
<1>4. CASE StorageFailure(w)
  <2>1. wpc'[w] = "reject" /\ delivery'[w] \in Messages
    BY <1>4, <1>h DEF StorageFailure, Goto, BaseOK, HandlerOf
  <2>2. HandlerOf(w)'
    BY <2>1 DEF HandlerOf
  <2>3. \A v \in Workers \ {w} : wpc'[v] = wpc[v]
    BY <1>4 DEF StorageFailure, Goto, BaseOK
  <2> QED
    BY <1>4, <1>e, <2>2, <2>3, QuietStep DEF StorageFailure, queues, row
<1>5. CASE reject(w)
  <2>1. delivery[w] \in Messages
    BY <1>5, <1>h DEF reject, HandlerOf
  <2>2. wpc'[w] = "idle"
    BY <1>5 DEF reject, Settled, Goto, BaseOK
  <2>3. HandlerOf(w)'
    BY <2>2 DEF HandlerOf
  <2>4. \A n \in Messages : loc'[n] = "gone" => loc[n] = "gone"
    BY <1>5, <2>1 DEF reject, Settled, BaseOK
  <2>5. claim'[w].token = NoToken
    BY <1>5 DEF reject, Settled, BaseOK, NoClaim
  <2>6. \A v \in Workers \ {w} :
           wpc'[v] = wpc[v] /\ delivery'[v] = delivery[v] /\ claim'[v] = claim[v]
    BY <1>5 DEF reject, Settled, Goto, BaseOK
  <2> QED
    BY <1>5, <1>e, <2>3, <2>4, <2>5, <2>6, QuietStep DEF reject, Settled, row, sends
<1>6. CASE ChannelCloses(w)
  <2>1. HandlerOf(w)'
    BY <1>6, <1>h DEF ChannelCloses, HandlerOf, Subject, Fenced, row, sends
  <2>2. \A n \in Messages : loc'[n] = "gone" => loc[n] = "gone"
    BY <1>6, <1>h DEF ChannelCloses, Requeued, Live, HandlerOf, BaseOK
  <2> QED
    BY <1>6, <1>e, <2>1, <2>2, QuietStep DEF ChannelCloses, row, sends
<1>7. CASE Crash(w)
  <2>1. wpc'[w] = "idle"
    BY <1>7 DEF Crash, Goto, BaseOK
  <2>2. HandlerOf(w)'
    BY <2>1 DEF HandlerOf
  <2>3. \A n \in Messages : loc'[n] = "gone" => loc[n] = "gone"
    BY <1>7, <1>h DEF Crash, Requeued, Live, HandlerOf, BaseOK
  <2>4. claim'[w].token = NoToken
    BY <1>7 DEF Crash, BaseOK, NoClaim
  <2>5. \A v \in Workers \ {w} :
           wpc'[v] = wpc[v] /\ delivery'[v] = delivery[v] /\ claim'[v] = claim[v]
    BY <1>7 DEF Crash, Goto, BaseOK
  <2> QED
    BY <1>7, <1>e, <2>2, <2>3, <2>4, <2>5, QuietStep DEF Crash, row
<1> QED
  BY <1>1, <1>2, <1>3, <1>4, <1>5, <1>6, <1>7

\* The call of the provider.
LEMMA SendStep ==
  ASSUME BaseOK, Rest, NEW w \in Workers, Send(w)
  PROVE  Rest'
<1>h. HandlerOf(w)
  BY DEF Rest, Handlers
<1>1. delivery[w] \in Messages /\ delivery[w] \notin Malformed
  BY <1>h DEF Send, HandlerOf
<1>2. Subject(w) \in Orders /\ Subject(w)' = Subject(w)
  BY <1>1, SubjectIsOrder DEF Send, Subject
<1>3. \A o \in Orders : emails'[o] >= emails[o] /\ emails'[o] \in Nat
  <2>1. UNCHANGED emails \/ emails' = [emails EXCEPT ![Subject(w)] = @ + 1]
    BY DEF Send, sends
  <2> QED
    BY <1>2, <2>1 DEF BaseOK
<1>4. wpc'[w] = "failed" \/ (wpc'[w] = "sent" /\ emails'[Subject(w)] = emails[Subject(w)] + 1)
  BY <1>2 DEF Send, Goto, BaseOK
<1>5. HandlerOf(w)'
  <2>1. wpc'[w] = "sent" => emails'[Subject(w)] > 0
    BY <1>2, <1>4 DEF BaseOK
  <2> QED
    BY <1>1, <1>2, <1>4, <2>1 DEF Send, HandlerOf
<1>6. \A v \in Workers \ {w} : wpc'[v] = wpc[v]
  BY DEF Send, Goto, BaseOK
<1> QED
  BY <1>3, <1>5, <1>6, QuietStep DEF Send, queues, row

\* A takeover gives the row a token nobody holds, so the loser's copy of attempts
\* is out of use from then on.
LEMMA ClaimStep ==
  ASSUME BaseOK, Rest, NEW w \in Workers, NEW t \in Tokens, Claim(w, t)
  PROVE  Rest'
<1> USE NotificationAssumption
<1> DEFINE o == Subject(w)
<1>h. HandlerOf(w)
  BY DEF Rest, Handlers
<1>1. delivery[w] \in Messages /\ delivery[w] \notin Malformed
  BY <1>h DEF Claim, HandlerOf
<1>2. o \in Orders /\ Subject(w)' = o
  BY <1>1, SubjectIsOrder DEF Claim, Subject
<1>3. attempts[o] \in Nat /\ attempts[o] <= MaxSendAttempts
  BY <1>2 DEF BaseOK, Rest, SendBudget
<1>4. Progress
  BY <1>2 DEF Progress, Claim, Takeable, BaseOK, queues, sends
<1>5. ASSUME NEW v \in Workers, v # w PROVE HandlerOf(v)'
  <2>1. wpc'[v] = wpc[v] /\ delivery'[v] = delivery[v] /\ claim'[v] = claim[v]
    BY <1>5 DEF Claim, Goto, BaseOK
  <2>2. wpc[v] = "begin" => Subject(v) \in Orders /\ Subject(v)' = Subject(v)
    BY <2>1, BusySubject DEF Rest, Subject
  <2>3. wpc[v] = "begin" /\ Fenced(v)' => Fenced(v)
    <3>1. claim[v].token # t
      BY DEF Claim, FreshToken
    <3>2. CASE UNCHANGED <<state, token>>
      BY <2>1, <2>2, <3>2 DEF Fenced
    <3>3. CASE token' = [token EXCEPT ![o] = t] /\ state' = [state EXCEPT ![o] = "sending"]
      BY <2>1, <2>2, <3>1, <3>3, <1>2 DEF Fenced, BaseOK
    <3> QED
      BY <3>2, <3>3 DEF Claim
  <2> QED
    BY <1>4, <2>1, <2>3, Bystander DEF Rest, Claim
<1>6. HandlerOf(w)'
  <2>1. CASE claim' = [claim EXCEPT ![w] = [token |-> t, attempts |-> attempts[o],
                                            overrun |-> FALSE]]
             /\ Goto(w, IF Exhausted(attempts[o]) THEN "park" ELSE "begin")
    <3>1. claim'[w].token = t /\ claim'[w].attempts = attempts[o]
      BY <2>1 DEF BaseOK
    <3>2. wpc'[w] = IF attempts[o] >= MaxSendAttempts THEN "park" ELSE "begin"
      BY <2>1 DEF Goto, BaseOK, Exhausted
    <3>3. attempts'[o] = attempts[o] /\ delivery'[w] = delivery[w]
      BY DEF Claim
    <3> QED
      BY <1>1, <1>2, <1>3, <3>1, <3>2, <3>3 DEF HandlerOf
  <2>2. CASE Goto(w, "reject") \/ Goto(w, "lookup")
    <3>1. wpc'[w] \in {"reject", "lookup"} /\ delivery'[w] = delivery[w]
      BY <2>2 DEF Goto, BaseOK, Claim
    <3> QED
      BY <1>1, <3>1 DEF HandlerOf
  <2> QED
    BY <2>1, <2>2 DEF Claim
<1>7. DistinctTokens'
  <2>1. \A v \in Workers : claim[v].token # t
    BY DEF Claim, FreshToken
  <2>2. claim'[w].token \in {claim[w].token, t}
    BY DEF Claim, BaseOK
  <2>3. \A v \in Workers \ {w} : claim'[v] = claim[v]
    BY DEF Claim, BaseOK
  <2> QED
    BY <2>1, <2>2, <2>3 DEF DistinctTokens, Rest
<1>8. SendBudget' /\ NothingLost'
  <2>1. \A p \in Orders : state'[p] = "sent" => state[p] = "sent"
    BY <1>2 DEF Claim, BaseOK
  <2> QED
    BY <1>4, <2>1, BudgetStays, LostStays DEF Rest, Claim, queues
<1> QED
  BY <1>5, <1>6, <1>7, <1>8 DEF Rest, Handlers

\* The copy read at the claim is good when the attempt is counted.
LEMMA BeginStep ==
  ASSUME BaseOK, Rest, NEW w \in Workers, BeginAttempt(w)
  PROVE  Rest'
<1> USE NotificationAssumption
<1> DEFINE o == Subject(w)
<1>h. HandlerOf(w)
  BY DEF Rest, Handlers
<1>1. delivery[w] \in Messages /\ delivery[w] \notin Malformed
  BY <1>h DEF BeginAttempt, HandlerOf
<1>2. o \in Orders /\ Subject(w)' = o
  BY <1>1, SubjectIsOrder DEF BeginAttempt, Subject
<1>3. claim[w].token \in Tokens /\ claim[w].attempts < MaxSendAttempts
  BY <1>h DEF BeginAttempt, HandlerOf
<1>4. \/ UNCHANGED attempts
      \/ /\ Fenced(w) /\ attempts[o] < MaxSendAttempts
         /\ attempts' = [attempts EXCEPT ![o] = @ + 1]
  BY <1>h DEF BeginAttempt, HandlerOf
<1>5. /\ \A p \in Orders : attempts'[p] <= MaxSendAttempts
      /\ \A p \in Orders : attempts[p] = MaxSendAttempts => attempts'[p] = MaxSendAttempts
  <2>1. \A p \in Orders : attempts[p] \in Nat /\ attempts[p] <= MaxSendAttempts
    BY DEF Rest, SendBudget, BaseOK
  <2> QED
    BY <1>2, <1>4, <2>1 DEF BaseOK
<1>6. Progress
  BY <1>5 DEF Progress, BeginAttempt, queues, sends
<1>7. ASSUME NEW v \in Workers, v # w PROVE HandlerOf(v)'
  <2>1. wpc'[v] = wpc[v] /\ delivery'[v] = delivery[v] /\ claim'[v] = claim[v]
    BY <1>7 DEF BeginAttempt, Goto, BaseOK
  <2>2. wpc[v] = "begin" => Subject(v) \in Orders
    BY BusySubject DEF Rest
  <2>3. Fenced(v)' => Fenced(v)
    BY <2>1 DEF Fenced, Subject, BeginAttempt
  <2>4. Fenced(w) /\ Fenced(v) => Subject(v) # o
    BY <1>3, <1>7 DEF Fenced, Rest, DistinctTokens
  <2>5. wpc[v] = "begin" /\ Fenced(v) => attempts'[Subject(v)] = attempts[Subject(v)]
    BY <1>2, <1>4, <2>2, <2>4 DEF BaseOK
  <2> QED
    BY <1>6, <2>1, <2>3, <2>5, Bystander DEF Rest
<1>8. HandlerOf(w)'
  <2>1. wpc'[w] \in {"send", "reject"} /\ delivery'[w] = delivery[w]
    BY DEF BeginAttempt, Goto, BaseOK
  <2> QED
    BY <1>1, <2>1 DEF HandlerOf
<1>9. DistinctTokens'
  BY TokensStay DEF Rest, BeginAttempt
<1>10. SendBudget'
  <2>1. \A m \in parked \ Malformed : OrderOf[m] \in Orders
    BY DEF BaseOK
  <2> QED
    BY <1>5, <2>1 DEF SendBudget, Rest, BeginAttempt, queues
<1>11. NothingLost'
  BY <1>6, LostStays DEF Rest, BeginAttempt, queues
<1> QED
  BY <1>7, <1>8, <1>9, <1>10, <1>11 DEF Rest, Handlers

\* The outcome is recorded only under the claim.
LEMMA MarkStep ==
  ASSUME BaseOK, Rest, NEW w \in Workers, MarkSent(w) \/ MarkFailed(w)
  PROVE  Rest'
<1> USE NotificationAssumption
<1> DEFINE o == Subject(w)
<1>h. HandlerOf(w)
  BY DEF Rest, Handlers
<1>1. delivery[w] \in Messages /\ delivery[w] \notin Malformed
  BY <1>h DEF MarkSent, MarkFailed, HandlerOf
<1>2. o \in Orders /\ Subject(w)' = o
  BY <1>1, SubjectIsOrder DEF MarkSent, MarkFailed, Subject
<1>3. /\ UNCHANGED <<loc, parked, attempts, token, delivery, claim, emails>>
      /\ \A v \in Workers \ {w} : wpc'[v] = wpc[v]
  BY DEF MarkSent, MarkFailed, Goto, BaseOK, queues, sends
<1>4. \/ UNCHANGED state
      \/ /\ Fenced(w) /\ emails[o] > 0
         /\ state' = [state EXCEPT ![o] = "sent"]
      \/ Fenced(w) /\ state' = [state EXCEPT ![o] = "failed"]
  BY <1>h DEF MarkSent, MarkFailed, HandlerOf
<1>5. Progress
  BY <1>2, <1>3, <1>4 DEF Progress, Fenced, BaseOK
<1>6. ASSUME NEW v \in Workers, v # w PROVE HandlerOf(v)'
  <2>1. Subject(v)' = Subject(v) /\ (wpc[v] = "begin" => Subject(v) \in Orders)
    BY <1>3, BusySubject DEF Rest, Subject
  <2>2. wpc[v] = "begin" /\ Fenced(v)' => Fenced(v)
    BY <1>2, <1>3, <1>4, <2>1 DEF Fenced, BaseOK
  <2> QED
    BY <1>3, <1>5, <1>6, <2>2, Bystander DEF Rest
<1>7. HandlerOf(w)'
  <2>1. wpc'[w] = "reject" \/ (wpc'[w] = "ack" /\ state'[o] = "sent")
    BY <1>2 DEF MarkSent, MarkFailed, Goto, BaseOK
  <2> QED
    BY <1>1, <1>2, <1>3, <2>1 DEF HandlerOf
<1>8. DistinctTokens' /\ SendBudget'
  BY <1>3, TokensStay, BudgetStays DEF Rest
<1>9. NothingLost'
  <2>1. \A p \in Orders : state'[p] = "sent" => emails'[p] > 0
    BY <1>2, <1>3, <1>4 DEF Rest, NothingLost, BaseOK
  <2>2. \A m \in Messages : m \notin Malformed => OrderOf[m] \in Orders
    OBVIOUS
  <2> QED
    BY <1>3, <1>5, <2>1, <2>2 DEF Rest, NothingLost, Progress
<1> QED
  BY <1>6, <1>7, <1>8, <1>9 DEF Rest, Handlers

\* A message goes when its handler knows why it may.
LEMMA AcknowledgeStep ==
  ASSUME BaseOK, Rest, NEW w \in Workers, acknowledge(w)
  PROVE  Rest'
<1> USE NotificationAssumption
<1>h. HandlerOf(w)
  BY DEF Rest, Handlers
<1>1. /\ delivery[w] \in Messages
      /\ \/ delivery[w] \in parked
         \/ delivery[w] \notin Malformed /\ state[Subject(w)] = "sent"
  BY <1>h DEF acknowledge, HandlerOf
<1>2. UNCHANGED <<parked, state, attempts, token, emails>>
  BY DEF acknowledge, Settled, row, sends
<1>3. Progress
  BY <1>2 DEF Progress
<1>4. \A v \in Workers \ {w} :
         wpc'[v] = wpc[v] /\ delivery'[v] = delivery[v] /\ claim'[v] = claim[v]
  BY DEF acknowledge, Settled, Goto, BaseOK
<1>5. ASSUME NEW v \in Workers, v # w PROVE HandlerOf(v)'
  <2>1. Fenced(v)' => Fenced(v)
    BY <1>2, <1>4, <1>5 DEF Fenced, Subject
  <2> QED
    BY <1>2, <1>3, <1>4, <1>5, <2>1, Bystander DEF Rest
<1>6. wpc'[w] = "idle" /\ claim'[w].token = NoToken
  BY DEF acknowledge, Settled, Goto, BaseOK, NoClaim
<1>7. HandlerOf(w)'
  BY <1>6 DEF HandlerOf
<1>8. DistinctTokens' /\ SendBudget'
  BY <1>2, <1>4, <1>6, TokensStay, BudgetStays DEF Rest
<1>9. NothingLost'
  <2>1. \A m \in Messages : loc'[m] = "gone" => loc[m] = "gone" \/ m = delivery[w]
    BY <1>1 DEF acknowledge, Settled, BaseOK
  <2> QED
    BY <1>1, <1>2, <2>1 DEF Rest, NothingLost, Subject
<1> QED
  BY <1>5, <1>7, <1>8, <1>9 DEF Rest, Handlers

\* A copy in the parked queue is of a message that nobody can handle or whose
\* budget is spent.
LEMMA ParkStep ==
  ASSUME BaseOK, Rest, NEW w \in Workers, park(w)
  PROVE  Rest'
<1> USE NotificationAssumption
<1>h. HandlerOf(w)
  BY DEF Rest, Handlers
<1>1. /\ delivery[w] \in Messages
      /\ delivery[w] \notin Malformed => attempts[Subject(w)] = MaxSendAttempts
  BY <1>h DEF park, HandlerOf
<1>2. /\ UNCHANGED <<loc, state, attempts, token, delivery, claim, emails>>
      /\ parked' \in {parked, parked \cup {delivery[w]}}
      /\ \A v \in Workers \ {w} : wpc'[v] = wpc[v]
  BY DEF park, Goto, BaseOK, row, sends
<1>3. Progress
  BY <1>2 DEF Progress
<1>4. ASSUME NEW v \in Workers, v # w PROVE HandlerOf(v)'
  <2>1. Fenced(v)' => Fenced(v)
    BY <1>2 DEF Fenced, Subject
  <2> QED
    BY <1>2, <1>3, <1>4, <2>1, Bystander DEF Rest
<1>5. HandlerOf(w)'
  <2>1. wpc'[w] \in {"draining", "reject"} \/ (wpc'[w] = "ack" /\ delivery[w] \in parked')
    BY DEF park, Goto, BaseOK
  <2> QED
    BY <1>1, <1>2, <2>1 DEF HandlerOf
<1>6. DistinctTokens' /\ NothingLost'
  BY <1>2, <1>3, TokensStay, LostStays DEF Rest
<1>7. SendBudget'
  BY <1>1, <1>2 DEF Rest, SendBudget, Subject
<1> QED
  BY <1>4, <1>5, <1>6, <1>7 DEF Rest, Handlers

\* The surroundings write nothing the invariant speaks of but the lease.
LEMMA OutsideStep ==
  ASSUME BaseOK, Rest,
         \/ \E m \in Messages : Publish(m) \/ RetryExpires(m)
         \/ \E o \in Orders : LeaseExpires(o)
         \/ CalmDown
  PROVE  Rest'
<1> USE NotificationAssumption
<1>1. UNCHANGED <<parked, state, attempts, token, wpc, delivery, emails>>
  BY DEF Publish, RetryExpires, LeaseExpires, CalmDown, row, sends, queues
<1>2. \A v \in Workers :
         claim'[v].token = claim[v].token /\ claim'[v].attempts = claim[v].attempts
  BY DEF Publish, RetryExpires, LeaseExpires, CalmDown, BaseOK
<1>3. \A m \in Messages : loc'[m] = "gone" => loc[m] = "gone"
  BY DEF Publish, RetryExpires, LeaseExpires, CalmDown, BaseOK, queues
<1>4. Progress
  BY <1>1 DEF Progress
<1>5. ASSUME NEW v \in Workers PROVE HandlerOf(v)'
  <2>1. Fenced(v)' => Fenced(v)
    BY <1>1, <1>2 DEF Fenced, Subject
  <2> QED
    BY <1>1, <1>2, <1>4, <2>1, Bystander DEF Rest
<1> QED
  BY <1>1, <1>2, <1>3, <1>4, <1>5, TokensStay, BudgetStays, LostStays DEF Rest, Handlers

-----------------------------------------------------------------------------
(* The theorems.                                                            *)

\* Nothing is out when the service starts.
LEMMA InitInv ==
  ASSUME Init
  PROVE  IInv
<1> USE NotificationAssumption
<1>1. BaseOK
  BY DEF Init, BaseOK, NoClaim
<1>2. OneHolder
  BY DEF Init, OneHolder, Live
<1>3. Rest
  BY DEF Init, Rest, Handlers, HandlerOf, DistinctTokens, NoClaim, SendBudget, NothingLost
<1> QED
  BY <1>1, <1>2, <1>3, TypeParts DEF IInv, Rest

\* Every step keeps the invariant.
LEMMA NextInv ==
  ASSUME IInv, [Next]_vars
  PROVE  IInv'
<1> BaseOK /\ OneHolder /\ Rest
  BY TypeParts DEF IInv, Rest
<1> SUFFICES BaseOK' /\ OneHolder' /\ Rest'
  BY TypeParts, PTL DEF IInv, Rest
<1>1. ASSUME NEW w \in Workers, Work(w) \/ StorageFailure(w) \/ ChannelCloses(w) \/ Crash(w)
      PROVE  BaseOK' /\ OneHolder' /\ Rest'
  <2>1. BaseOK' /\ OneHolder'
    BY <1>1, WorkTypes DEF Rest
  <2>2. Rest'
    BY <1>1, EasySteps, SendStep, ClaimStep, BeginStep, MarkStep, AcknowledgeStep, ParkStep
       DEF Work
  <2> QED
    BY <2>1, <2>2
<1>2. CASE \/ \E m \in Messages : Publish(m) \/ RetryExpires(m)
           \/ \E o \in Orders : LeaseExpires(o)
           \/ CalmDown
  BY <1>2, OutsideTypes, OutsideStep
<1>3. CASE UNCHANGED vars
  <2>1. BaseOK' /\ OneHolder'
    BY <1>3 DEF vars, BaseOK, OneHolder, Live
  <2>2. Rest'
    BY <1>3 DEF vars, Rest, Handlers, HandlerOf, Subject, Fenced, DistinctTokens, SendBudget,
                NothingLost
  <2> QED
    BY <2>1, <2>2
<1> QED
  BY <1>1, <1>2, <1>3 DEF Next

\* The inductive invariant: types, who holds what, what each handler knows, and
\* that no two claims share a token.
THEOREM Invariant == Spec => []IInv
  BY InitInv, NextInv, PTL DEF Spec

\* The broker and the consumers always agree about who handles which message.
THEOREM TypeCorrect == Spec => []TypeOK
<1>1. IInv => TypeOK
  BY DEF IInv
<1> QED
  BY <1>1, Invariant, PTL

\* The provider is called at most MaxSendAttempts times for an order, and a
\* message is parked only when that is used up or it cannot be handled at all,
\* whatever the number of consumers, messages and takeovers.
THEOREM BudgetKept == Spec => []SendBudget
<1>1. IInv => SendBudget
  BY DEF IInv
<1> QED
  BY <1>1, Invariant, PTL

\* A message that has left the broker was parked or its email is on record, and
\* what is on record the provider accepted.
THEOREM NothingIsLost == Spec => []NothingLost
<1>1. IInv => NothingLost
  BY DEF IInv
<1> QED
  BY <1>1, Invariant, PTL

\* No step reopens an effect that is on record as sent.
THEOREM SentStays == Spec => SentIsFinal
<1>1. ASSUME IInv, [Next]_vars
      PROVE  [\A o \in Orders : state[o] = "sent" => state'[o] = "sent"]_vars
  <2> BaseOK
    BY <1>1, TypeParts DEF IInv
  <2> SUFFICES ASSUME NEW o \in Orders, state[o] = "sent", Next PROVE state'[o] = "sent"
    BY <1>1 DEF vars
  <2>1. ASSUME NEW w \in Workers, Work(w) PROVE state'[o] = "sent"
    <3>1. CASE MarkSent(w) \/ MarkFailed(w)
      BY <3>1 DEF MarkSent, MarkFailed, Fenced, BaseOK
    <3>2. ASSUME NEW t \in Tokens, Claim(w, t) PROVE state'[o] = "sent"
      BY <3>2 DEF Claim, Takeable, BaseOK
    <3>3. CASE consume(w) \/ (\E m \in Messages : handle(w, m)) \/ currentState(w)
               \/ BeginAttempt(w) \/ Send(w) \/ park(w)
      BY <3>3 DEF consume, handle, currentState, BeginAttempt, Send, park, row
    <3>4. CASE acknowledge(w) \/ reject(w)
      BY <3>4 DEF acknowledge, reject, Settled, row
    <3> QED
      BY <2>1, <3>1, <3>2, <3>3, <3>4 DEF Work
  <2>2. ASSUME NEW w \in Workers, StorageFailure(w) \/ ChannelCloses(w) \/ Crash(w)
        PROVE  state'[o] = "sent"
    BY <2>2 DEF StorageFailure, ChannelCloses, Crash, row
  <2>3. CASE \/ \E m \in Messages : Publish(m) \/ RetryExpires(m)
             \/ \E p \in Orders : LeaseExpires(p)
             \/ CalmDown
    BY <2>3 DEF Publish, RetryExpires, LeaseExpires, CalmDown, row
  <2> QED
    BY <2>1, <2>2, <2>3 DEF Next
<1> QED
  BY <1>1, Invariant, PTL DEF Spec, SentIsFinal

-----------------------------------------------------------------------------
(* Emails and leases.                                                       *)

Sending(o) == {w \in Workers : wpc[w] = "send" /\ Subject(w) = o}
Mailed(o) == {w \in Workers : wpc[w] = "sent" /\ Subject(w) = o}

OnRecord(o) == IF state[o] = "sent" THEN 1 ELSE 0

\* Every email has been counted as an attempt, and is accounted for.
CountsOf(o) ==
    /\ IsFiniteSet(Sending(o)) /\ IsFiniteSet(Mailed(o))
    /\ emails[o] + Cardinality(Sending(o)) <= attempts[o]
    /\ emails[o] = unrecorded[o] + Cardinality(Mailed(o))
                   + OnRecord(o)

Counts == \A o \in Orders : CountsOf(o)

\* A consumer has the claim until its lease runs out.
LeaseOf(w) ==
    wpc[w] \in {"begin", "send", "sent", "failed"} =>
        /\ claim[w].token \in Tokens
        /\ claim[w].overrun = FALSE => Fenced(w)
        /\ Fenced(w) /\ Subject(w) \in expired => claim[w].overrun = TRUE

Leases == \A w \in Workers : LeaseOf(w)

\* What a consumer or a forwarder has in its hands was published.
Published ==
    \A w \in Workers :
        /\ wpc[w] # "idle" => loc[delivery[w]] # "absent"
        /\ forwarded[w] \in Messages => loc[forwarded[w]] # "absent"

MInv == IInv /\ Counts /\ Leases /\ Published

-----------------------------------------------------------------------------
(* Counting.                                                                *)

In(x, S) == IF x \in S THEN 1 ELSE 0

\* Two sets that differ in one element at most.
LEMMA CardinalityMoves ==
  ASSUME NEW S, NEW T, NEW x, IsFiniteSet(S), S \ {x} = T \ {x}
  PROVE  /\ IsFiniteSet(T)
         /\ Cardinality(S) \in Nat /\ Cardinality(T) \in Nat
         /\ Cardinality(T) + In(x, S) = Cardinality(S) + In(x, T)
<1> DEFINE R == S \ {x}
<1>1. /\ IsFiniteSet(R)
      /\ Cardinality(R) = IF x \in S THEN Cardinality(S) - 1 ELSE Cardinality(S)
  BY FS_RemoveElement
<1>2. Cardinality(S) \in Nat /\ Cardinality(R) \in Nat
  BY <1>1, FS_CardinalityType
<1>3. CASE x \in T
  <2>1. T = R \cup {x} /\ x \notin R
    BY <1>3
  <2>2. IsFiniteSet(T) /\ Cardinality(T) = Cardinality(R) + 1
    BY <1>1, <2>1, FS_AddElement
  <2> QED
    BY <1>1, <1>2, <1>3, <2>2 DEF In
<1>4. CASE x \notin T
  <2>1. T = R
    BY <1>4
  <2> QED
    BY <1>1, <1>2, <1>4, <2>1 DEF In
<1> QED
  BY <1>3, <1>4

\* The other consumers stay where they are.
Others(w) ==
    \A v \in Workers \ {w} :
        wpc'[v] = wpc[v] /\ delivery'[v] = delivery[v] /\ claim'[v] = claim[v]

\* The counts after a step of one consumer follow from what it did itself.
LEMMA CountStep ==
  ASSUME BaseOK, BaseOK', NEW o \in Orders, CountsOf(o), NEW w \in Workers, Others(w),
         emails'[o] + In(w, Sending(o)') + attempts[o]
            <= emails[o] + In(w, Sending(o)) + attempts'[o],
         emails'[o] + In(w, Mailed(o)) + unrecorded[o] + OnRecord(o)
            = emails[o] + In(w, Mailed(o)') + unrecorded'[o] + OnRecord(o)'
  PROVE  CountsOf(o)'
<1>1. Sending(o) \ {w} = Sending(o)' \ {w}
  BY DEF Sending, Others, Subject
<1>2. Mailed(o) \ {w} = Mailed(o)' \ {w}
  BY DEF Mailed, Others, Subject
<1>3. /\ IsFiniteSet(Sending(o)')
      /\ Cardinality(Sending(o)) \in Nat /\ Cardinality(Sending(o)') \in Nat
      /\ Cardinality(Sending(o)') + In(w, Sending(o))
            = Cardinality(Sending(o)) + In(w, Sending(o)')
  BY <1>1, CardinalityMoves DEF CountsOf
<1>4. /\ IsFiniteSet(Mailed(o)')
      /\ Cardinality(Mailed(o)) \in Nat /\ Cardinality(Mailed(o)') \in Nat
      /\ Cardinality(Mailed(o)') + In(w, Mailed(o))
            = Cardinality(Mailed(o)) + In(w, Mailed(o)')
  BY <1>2, CardinalityMoves DEF CountsOf
<1>5. /\ emails[o] \in Nat /\ unrecorded[o] \in Nat /\ attempts[o] \in Nat
      /\ emails'[o] \in Nat /\ unrecorded'[o] \in Nat /\ attempts'[o] \in Nat
  BY DEF BaseOK
<1>6. /\ In(w, Sending(o)) \in Nat /\ In(w, Sending(o)') \in Nat
      /\ In(w, Mailed(o)) \in Nat /\ In(w, Mailed(o)') \in Nat
      /\ OnRecord(o) \in Nat /\ OnRecord(o)' \in Nat
  BY DEF In, OnRecord
<1>7. /\ emails[o] + Cardinality(Sending(o)) <= attempts[o]
      /\ emails[o] = unrecorded[o] + Cardinality(Mailed(o)) + OnRecord(o)
  BY DEF CountsOf
<1>8. emails'[o] + Cardinality(Sending(o)') <= attempts'[o]
  BY <1>3, <1>5, <1>6, <1>7
<1>9. emails'[o] = unrecorded'[o] + Cardinality(Mailed(o)') + OnRecord(o)'
  BY <1>4, <1>5, <1>6, <1>7
<1> QED
  BY <1>3, <1>4, <1>8, <1>9 DEF CountsOf

\* A consumer that is not about to send and has nothing to record: what it had
\* sent and not recorded has been written off.
LEMMA LeavingCounts ==
  ASSUME BaseOK, BaseOK', Handlers, Counts, NEW w \in Workers, Others(w),
         wpc'[w] \notin {"send", "sent"},
         UNCHANGED emails,
         \A o \in Orders : attempts'[o] >= attempts[o],
         \A o \in Orders : state'[o] = "sent" <=> state[o] = "sent",
         unrecorded' = IF wpc[w] = "sent"
                       THEN [unrecorded EXCEPT ![Subject(w)] = @ + 1] ELSE unrecorded
  PROVE  Counts'
<1> SUFFICES ASSUME NEW o \in Orders PROVE CountsOf(o)'
  BY DEF Counts
<1>1. CountsOf(o)
  BY DEF Counts
<1>2. w \notin Sending(o)' /\ w \notin Mailed(o)'
  BY DEF Sending, Mailed
<1>3. w \in Mailed(o) <=> wpc[w] = "sent" /\ Subject(w) = o
  BY DEF Mailed
<1>4. unrecorded'[o] = unrecorded[o] + In(w, Mailed(o))
  <2>1. wpc[w] = "sent" => Subject(w) \in Orders
    BY BusySubject
  <2>2. unrecorded[o] \in Nat
    BY DEF BaseOK
  <2> QED
    BY <1>3, <2>1, <2>2 DEF BaseOK, In
<1>5. /\ emails[o] \in Nat /\ emails'[o] = emails[o]
      /\ attempts[o] \in Nat /\ attempts'[o] \in Nat /\ attempts'[o] >= attempts[o]
      /\ unrecorded[o] \in Nat
  BY DEF BaseOK
<1>6. In(w, Sending(o)') = 0 /\ In(w, Mailed(o)') = 0
  BY <1>2 DEF In
<1>7. In(w, Sending(o)) \in Nat /\ In(w, Mailed(o)) \in Nat
  BY DEF In
<1>8. emails'[o] + In(w, Sending(o)') + attempts[o]
         <= emails[o] + In(w, Sending(o)) + attempts'[o]
  BY <1>5, <1>6, <1>7
<1>9. emails'[o] + In(w, Mailed(o)) + unrecorded[o] + OnRecord(o)
          = emails[o] + In(w, Mailed(o)') + unrecorded'[o] + OnRecord(o)'
  BY <1>4, <1>5, <1>6, <1>7 DEF OnRecord
<1> QED
  BY <1>1, <1>8, <1>9, CountStep

\* A step that moves no consumer and writes nothing that is counted.
LEMMA StillCounts ==
  ASSUME Counts, UNCHANGED <<state, attempts, wpc, delivery, emails, unrecorded>>
  PROVE  Counts'
<1> SUFFICES ASSUME NEW o \in Orders PROVE CountsOf(o)'
  BY DEF Counts
<1>1. Sending(o)' = Sending(o) /\ Mailed(o)' = Mailed(o) /\ OnRecord(o)' = OnRecord(o)
  BY DEF Sending, Mailed, Subject, OnRecord
<1>2. CountsOf(o)
  BY DEF Counts
<1> QED
  BY <1>1, <1>2 DEF CountsOf

\* The attempt is counted, and then the consumer is about to send.
LEMMA BeginCounts ==
  ASSUME BaseOK, BaseOK', Handlers, Counts, NEW w \in Workers, BeginAttempt(w)
  PROVE  Counts'
<1>o. Others(w) /\ UNCHANGED <<state, delivery, emails, unrecorded>> /\ wpc[w] = "begin"
  BY DEF BeginAttempt, Others, Goto, BaseOK, sends
<1>s. Subject(w) \in Orders
  BY BusySubject DEF BeginAttempt
<1>1. CASE wpc'[w] = "reject"
  <2>1. \A o \in Orders : attempts'[o] >= attempts[o]
    BY <1>s DEF BeginAttempt, BaseOK
  <2> QED
    BY <1>1, <1>o, <2>1, LeavingCounts
<1>2. CASE wpc'[w] = "send" /\ attempts' = [attempts EXCEPT ![Subject(w)] = @ + 1]
  <2> SUFFICES ASSUME NEW o \in Orders PROVE CountsOf(o)'
    BY DEF Counts
  <2>1. In(w, Sending(o)) = 0 /\ In(w, Mailed(o)) = 0 /\ In(w, Mailed(o)') = 0
    BY <1>o, <1>2 DEF In, Sending, Mailed
  <2>2. In(w, Sending(o)') = IF Subject(w) = o THEN 1 ELSE 0
    BY <1>o, <1>2 DEF In, Sending, Subject
  <2>3. attempts'[o] = attempts[o] + In(w, Sending(o)')
    BY <1>2, <1>s, <2>2 DEF BaseOK
  <2>4. OnRecord(o)' = OnRecord(o) /\ OnRecord(o) \in Nat
    BY <1>o DEF OnRecord
  <2>5. In(w, Sending(o)') \in Nat
    BY DEF In
  <2>6. attempts[o] \in Nat /\ emails[o] \in Nat /\ unrecorded[o] \in Nat
    BY DEF BaseOK
  <2>7. emails'[o] + In(w, Sending(o)') + attempts[o]
           <= emails[o] + In(w, Sending(o)) + attempts'[o]
    BY <1>o, <2>1, <2>3, <2>5, <2>6
  <2>8. emails'[o] + In(w, Mailed(o)) + unrecorded[o] + OnRecord(o)
           = emails[o] + In(w, Mailed(o)') + unrecorded'[o] + OnRecord(o)'
    BY <1>o, <2>1, <2>4, <2>6
  <2> QED
    BY <1>o, <2>7, <2>8, CountStep DEF Counts
<1> QED
  BY <1>1, <1>2 DEF BeginAttempt, Goto, BaseOK

\* The provider accepts an email or not, and the consumer learns of it or not.
LEMMA SendCounts ==
  ASSUME BaseOK, BaseOK', Handlers, Counts, NEW w \in Workers, Send(w)
  PROVE  Counts'
<1>o. Others(w) /\ UNCHANGED <<state, attempts, delivery>> /\ wpc[w] = "send"
  BY DEF Send, Others, Goto, BaseOK, row
<1>s. Subject(w) \in Orders
  BY BusySubject DEF Send
<1>n. \A o \in Orders : attempts'[o] >= attempts[o]
  BY <1>o DEF BaseOK
<1>1. CASE wpc'[w] = "failed" /\ UNCHANGED <<emails, unrecorded>>
  BY <1>1, <1>o, <1>n, LeavingCounts
<1>2. CASE /\ wpc'[w] \in {"sent", "failed"}
           /\ emails' = [emails EXCEPT ![Subject(w)] = @ + 1]
           /\ unrecorded' = IF wpc'[w] = "sent" THEN unrecorded
                            ELSE [unrecorded EXCEPT ![Subject(w)] = @ + 1]
  <2> SUFFICES ASSUME NEW o \in Orders PROVE CountsOf(o)'
    BY DEF Counts
  <2> DEFINE mine == IF Subject(w) = o THEN 1 ELSE 0
  <2>1. In(w, Sending(o)) = mine /\ In(w, Mailed(o)) = 0 /\ In(w, Sending(o)') = 0
    BY <1>o, <1>2 DEF In, Sending, Mailed
  <2>2. emails'[o] = emails[o] + mine
    BY <1>2, <1>s DEF BaseOK
  <2>3. In(w, Mailed(o)') + unrecorded'[o] = unrecorded[o] + mine
    <3>1. In(w, Mailed(o)') = IF wpc'[w] = "sent" THEN mine ELSE 0
      BY <1>o DEF In, Mailed, Subject
    <3>2. unrecorded'[o] = IF wpc'[w] = "sent" THEN unrecorded[o] ELSE unrecorded[o] + mine
      BY <1>2, <1>s DEF BaseOK
    <3>3. unrecorded[o] \in Nat
      BY DEF BaseOK
    <3> QED
      BY <3>1, <3>2, <3>3
  <2>4. OnRecord(o)' = OnRecord(o) /\ OnRecord(o) \in Nat
    BY <1>o DEF OnRecord
  <2>5. In(w, Mailed(o)') \in Nat
    BY DEF In
  <2>6. /\ attempts[o] \in Nat /\ emails[o] \in Nat /\ unrecorded[o] \in Nat
        /\ unrecorded'[o] \in Nat
    BY DEF BaseOK
  <2>7. emails'[o] + In(w, Sending(o)') + attempts[o]
           <= emails[o] + In(w, Sending(o)) + attempts'[o]
    BY <1>o, <2>1, <2>2, <2>6
  <2>8. emails'[o] + In(w, Mailed(o)) + unrecorded[o] + OnRecord(o)
           = emails[o] + In(w, Mailed(o)') + unrecorded'[o] + OnRecord(o)'
    BY <2>1, <2>2, <2>3, <2>4, <2>5, <2>6
  <2> QED
    BY <1>o, <2>7, <2>8, CountStep DEF Counts
<1> QED
  BY <1>1, <1>2 DEF Send, Goto, BaseOK, sends

\* The outcome goes on record, or is written off when the claim is lost.
LEMMA MarkSentCounts ==
  ASSUME BaseOK, BaseOK', Handlers, Counts, NEW w \in Workers, MarkSent(w)
  PROVE  Counts'
<1>o. /\ Others(w) /\ UNCHANGED <<attempts, delivery, emails>> /\ wpc[w] = "sent"
      /\ wpc'[w] \in {"ack", "reject"}
  BY DEF MarkSent, Others, Goto, BaseOK
<1>s. Subject(w) \in Orders
  BY BusySubject DEF MarkSent
<1>n. \A o \in Orders : attempts'[o] >= attempts[o]
  BY <1>o DEF BaseOK
<1>1. CASE UNCHANGED state /\ unrecorded' = [unrecorded EXCEPT ![Subject(w)] = @ + 1]
  BY <1>1, <1>o, <1>n, LeavingCounts
<1>2. CASE /\ Fenced(w) /\ state' = [state EXCEPT ![Subject(w)] = "sent"]
           /\ UNCHANGED unrecorded
  <2> SUFFICES ASSUME NEW o \in Orders PROVE CountsOf(o)'
    BY DEF Counts
  <2> DEFINE mine == IF Subject(w) = o THEN 1 ELSE 0
  <2>1. /\ In(w, Sending(o)) = 0 /\ In(w, Sending(o)') = 0
        /\ In(w, Mailed(o)) = mine /\ In(w, Mailed(o)') = 0
    BY <1>o DEF In, Sending, Mailed
  <2>2. OnRecord(o)' = OnRecord(o) + mine /\ OnRecord(o) \in Nat
    BY <1>2, <1>s DEF OnRecord, Fenced, BaseOK
  <2>3. attempts[o] \in Nat /\ emails[o] \in Nat /\ unrecorded[o] \in Nat
    BY DEF BaseOK
  <2>4. emails'[o] + In(w, Sending(o)') + attempts[o]
           <= emails[o] + In(w, Sending(o)) + attempts'[o]
    BY <1>o, <2>1, <2>3
  <2>5. emails'[o] + In(w, Mailed(o)) + unrecorded[o] + OnRecord(o)
           = emails[o] + In(w, Mailed(o)') + unrecorded'[o] + OnRecord(o)'
    BY <1>2, <1>o, <2>1, <2>2, <2>3
  <2> QED
    BY <1>o, <2>4, <2>5, CountStep DEF Counts
<1> QED
  BY <1>1, <1>2 DEF MarkSent

\* Every email stays accounted for.
LEMMA NextCounts ==
  ASSUME IInv, IInv', Counts, [Next]_vars
  PROVE  Counts'
<1> BaseOK /\ BaseOK' /\ Handlers
  BY TypeParts, PTL DEF IInv
<1>1. ASSUME NEW w \in Workers, Work(w) \/ StorageFailure(w) \/ ChannelCloses(w) \/ Crash(w)
      PROVE  Counts'
  <2>n. UNCHANGED attempts => \A o \in Orders : attempts'[o] >= attempts[o]
    BY DEF BaseOK
  <2>1. CASE consume(w) \/ (\E m \in Messages : handle(w, m)) \/ currentState(w) \/ park(w)
    <3>1. Others(w) /\ wpc[w] # "sent" /\ wpc'[w] \notin {"send", "sent"}
      BY <2>1 DEF consume, handle, currentState, park, Others, Goto, BaseOK
    <3>2. UNCHANGED <<emails, attempts, state, unrecorded>>
      BY <2>1 DEF consume, handle, currentState, park, row, sends
    <3> QED
      BY <3>1, <3>2, <2>n, LeavingCounts
  <2>2. ASSUME NEW t \in Tokens, Claim(w, t) PROVE Counts'
    <3>1. Others(w) /\ wpc[w] # "sent" /\ wpc'[w] \notin {"send", "sent"}
      BY <2>2 DEF Claim, Others, Goto, BaseOK
    <3>2. UNCHANGED <<emails, attempts, unrecorded>>
      BY <2>2 DEF Claim, sends
    <3>3. \A o \in Orders : state'[o] = "sent" <=> state[o] = "sent"
      BY <2>2 DEF Claim, Takeable, BaseOK
    <3> QED
      BY <3>1, <3>2, <3>3, <2>n, LeavingCounts
  <2>3. CASE MarkFailed(w)
    <3>1. Others(w) /\ wpc[w] # "sent" /\ wpc'[w] \notin {"send", "sent"}
      BY <2>3 DEF MarkFailed, Others, Goto, BaseOK
    <3>2. UNCHANGED <<emails, attempts, unrecorded>>
      BY <2>3 DEF MarkFailed, sends
    <3>3. \A o \in Orders : state'[o] = "sent" <=> state[o] = "sent"
      BY <2>3 DEF MarkFailed, Fenced, BaseOK
    <3> QED
      BY <3>1, <3>2, <3>3, <2>n, LeavingCounts
  <2>4. CASE acknowledge(w) \/ reject(w) \/ StorageFailure(w) \/ Crash(w)
    <3>1. Others(w) /\ wpc'[w] \notin {"send", "sent"}
      BY <2>4 DEF acknowledge, reject, Settled, StorageFailure, Crash, Others, Goto, BaseOK
    <3>2. UNCHANGED <<emails, attempts, state>>
      BY <2>4 DEF acknowledge, reject, Settled, StorageFailure, Crash, row, sends
    <3>3. unrecorded' = IF wpc[w] = "sent"
                        THEN [unrecorded EXCEPT ![Subject(w)] = @ + 1] ELSE unrecorded
      BY <2>4 DEF acknowledge, reject, Settled, StorageFailure, Crash, sends
    <3> QED
      BY <3>1, <3>2, <3>3, <2>n, LeavingCounts
  <2>5. CASE ChannelCloses(w)
    BY <2>5, StillCounts DEF ChannelCloses, row, sends
  <2> QED
    BY <1>1, <2>1, <2>2, <2>3, <2>4, <2>5, BeginCounts, SendCounts, MarkSentCounts DEF Work
<1>2. CASE \/ \E m \in Messages : Publish(m) \/ RetryExpires(m)
           \/ \E o \in Orders : LeaseExpires(o)
           \/ CalmDown
           \/ UNCHANGED vars
  <2>1. UNCHANGED <<state, attempts, wpc, delivery, emails, unrecorded>>
    BY <1>2 DEF Publish, RetryExpires, LeaseExpires, CalmDown, vars, row, sends
  <2> QED
    BY <2>1, StillCounts
<1> QED
  BY <1>1, <1>2 DEF Next

-----------------------------------------------------------------------------
(* Leases.                                                                  *)

\* A consumer that does not move keeps its lease, when the row it claimed keeps
\* its claim and no other row's lease runs out.
LEMMA LeaseStays ==
  ASSUME NEW v \in Workers, LeaseOf(v),
         wpc'[v] \in {"begin", "send", "sent", "failed"} =>
            wpc[v] \in {"begin", "send", "sent", "failed"},
         delivery'[v] = delivery[v], claim'[v] = claim[v],
         UNCHANGED <<state, token, expired>>
  PROVE  LeaseOf(v)'
  BY DEF LeaseOf, Fenced, Subject

\* A claim is taken over only when its lease has run out.
LEMMA ClaimLeases ==
  ASSUME BaseOK, Handlers, Leases, NEW w \in Workers, NEW t \in Tokens, Claim(w, t)
  PROVE  Leases'
<1> DEFINE o == Subject(w)
<1> SUFFICES ASSUME NEW v \in Workers PROVE LeaseOf(v)'
  BY DEF Leases
<1>1. LeaseOf(v)
  BY DEF Leases
<1>2. o \in Orders /\ wpc[w] = "claim"
  BY BusySubject DEF Claim
<1>3. /\ UNCHANGED delivery
      /\ \A u \in Workers \ {w} : wpc'[u] = wpc[u] /\ claim'[u] = claim[u]
  BY DEF Claim, Goto, BaseOK
<1>4. Subject(v)' = Subject(v) /\ Subject(w)' = o
  BY <1>3 DEF Subject
<1>5. CASE UNCHANGED <<state, token, expired>> /\ Goto(w, "lookup") /\ UNCHANGED claim
  <2>1. wpc'[w] = "lookup"
    BY <1>5 DEF Goto, BaseOK
  <2>2. v = w \/ wpc'[v] = wpc[v]
    BY <1>3
  <2> QED
    BY <1>1, <1>3, <1>5, <2>1, <2>2, LeaseStays
<1>6. CASE /\ Takeable(o)
           /\ state' = [state EXCEPT ![o] = "sending"]
           /\ token' = [token EXCEPT ![o] = t]
           /\ expired' = expired \ {o}
  <2>1. CASE v # w
    <3>1. claim[v].token # t /\ wpc'[v] = wpc[v] /\ claim'[v] = claim[v]
      BY <1>3, <2>1 DEF Claim, FreshToken
    <3>2. SUFFICES ASSUME wpc[v] \in {"begin", "send", "sent", "failed"}
                   PROVE  LeaseOf(v)'
      BY <3>1 DEF LeaseOf
    <3>3. Subject(v) \in Orders
      BY <3>2, BusySubject
    <3>4. CASE Subject(v) = o
      <4>1. ~Fenced(v)'
        BY <1>2, <1>4, <1>6, <3>1, <3>4 DEF Fenced, BaseOK
      <4>2. claim[v].overrun # FALSE
        BY <1>1, <1>6, <3>2, <3>4 DEF LeaseOf, Fenced, Takeable
      <4> QED
        BY <1>1, <3>1, <3>2, <4>1, <4>2 DEF LeaseOf
    <3>5. CASE Subject(v) # o
      <4>1. state'[Subject(v)] = state[Subject(v)] /\ token'[Subject(v)] = token[Subject(v)]
        BY <1>2, <1>6, <3>3, <3>5 DEF BaseOK
      <4>2. Fenced(v)' <=> Fenced(v)
        BY <1>4, <3>1, <4>1 DEF Fenced
      <4> QED
        BY <1>1, <1>4, <1>6, <3>1, <3>2, <4>2 DEF LeaseOf
    <3> QED
      BY <3>4, <3>5
  <2>2. CASE v = w
    <3>1. CASE Goto(w, "reject")
      BY <2>2, <3>1 DEF Goto, BaseOK, LeaseOf
    <3>2. CASE claim' = [claim EXCEPT ![w] =
                            [token |-> t, attempts |-> attempts[o], overrun |-> FALSE]]
      <4>1. claim'[w].token = t /\ claim'[w].overrun = FALSE
        BY <3>2 DEF BaseOK
      <4>2. Fenced(w)' /\ o \notin expired'
        BY <1>2, <1>4, <1>6, <4>1 DEF Fenced, BaseOK
      <4> QED
        BY <1>4, <2>2, <4>1, <4>2 DEF LeaseOf
    <3> QED
      BY <1>6, <3>1, <3>2 DEF Claim
  <2> QED
    BY <2>1, <2>2
<1> QED
  BY <1>5, <1>6 DEF Claim

\* Only the consumer that has the claim ends it.
LEMMA MarkLeases ==
  ASSUME BaseOK, Handlers, DistinctTokens, Leases, NEW w \in Workers,
         MarkSent(w) \/ MarkFailed(w)
  PROVE  Leases'
<1> SUFFICES ASSUME NEW v \in Workers PROVE LeaseOf(v)'
  BY DEF Leases
<1>1. LeaseOf(v) /\ LeaseOf(w)
  BY DEF Leases
<1>2. /\ UNCHANGED <<delivery, claim, token, expired>>
      /\ wpc[w] \in {"sent", "failed"} /\ wpc'[w] \in {"ack", "reject"}
      /\ \A u \in Workers \ {w} : wpc'[u] = wpc[u]
  BY DEF MarkSent, MarkFailed, Goto, BaseOK
<1>3. CASE v = w
  BY <1>2, <1>3 DEF LeaseOf
<1>4. CASE v # w /\ wpc[v] \in {"begin", "send", "sent", "failed"}
  <2>1. Subject(v) \in Orders /\ Subject(w) \in Orders
    BY <1>2, <1>4, BusySubject
  <2>2. \/ UNCHANGED state
        \/ Fenced(w) /\ \A o \in Orders \ {Subject(w)} : state'[o] = state[o]
    BY DEF MarkSent, MarkFailed, BaseOK
  <2>3. claim[v].token \in Tokens
    BY <1>1, <1>4 DEF LeaseOf
  <2>4. Fenced(v) /\ Fenced(w) => Subject(v) # Subject(w)
    BY <1>4, <2>3 DEF Fenced, DistinctTokens
  <2>5. Fenced(v) => Fenced(v)'
    BY <1>2, <2>1, <2>2, <2>4 DEF Fenced, Subject
  <2>6. Fenced(v)' => Fenced(v)
    <3>1. CASE UNCHANGED state
      BY <1>2, <3>1 DEF Fenced, Subject
    <3>2. CASE Subject(v) # Subject(w)
      BY <1>2, <2>1, <2>2, <3>2 DEF Fenced, Subject
    <3>3. CASE Subject(v) = Subject(w) /\ Fenced(w)
      BY <1>2, <3>3 DEF Fenced, Subject
    <3> QED
      BY <2>2, <3>1, <3>2, <3>3
  <2> QED
    BY <1>1, <1>2, <1>4, <2>5, <2>6 DEF LeaseOf, Subject
<1>5. CASE v # w /\ wpc[v] \notin {"begin", "send", "sent", "failed"}
  BY <1>2, <1>5 DEF LeaseOf
<1> QED
  BY <1>3, <1>4, <1>5

\* When a lease runs out, its holder has overrun.
LEMMA ExpiryLeases ==
  ASSUME BaseOK, Handlers, Leases, NEW o \in Orders, LeaseExpires(o)
  PROVE  Leases'
<1> SUFFICES ASSUME NEW v \in Workers, wpc'[v] \in {"begin", "send", "sent", "failed"}
             PROVE  LeaseOf(v)'
  BY DEF Leases, LeaseOf
<1>1. LeaseOf(v)
  BY DEF Leases
<1>2. UNCHANGED <<state, token, wpc, delivery>> /\ expired' = expired \cup {o}
  BY DEF LeaseExpires
<1>3. /\ claim'[v].token = claim[v].token
      /\ claim'[v].overrun = IF claim[v].token = token[o] THEN TRUE ELSE claim[v].overrun
  BY DEF LeaseExpires, BaseOK
<1>4. (Fenced(v)' <=> Fenced(v)) /\ Subject(v)' = Subject(v)
  BY <1>2, <1>3 DEF Fenced, Subject
<1> QED
  BY <1>1, <1>2, <1>3, <1>4 DEF LeaseOf, Fenced

\* Whoever has not overrun its lease has the claim.
LEMMA NextLeases ==
  ASSUME IInv, Leases, [Next]_vars
  PROVE  Leases'
<1> BaseOK /\ Handlers /\ DistinctTokens
  BY TypeParts DEF IInv
<1>1. ASSUME NEW w \in Workers, Work(w) \/ StorageFailure(w) \/ ChannelCloses(w) \/ Crash(w)
      PROVE  Leases'
  <2>1. CASE consume(w) \/ (\E m \in Messages : handle(w, m)) \/ currentState(w) \/ park(w)
             \/ BeginAttempt(w) \/ Send(w) \/ StorageFailure(w) \/ ChannelCloses(w)
    <3>1. UNCHANGED <<state, token, expired, claim>>
      BY <2>1 DEF consume, handle, currentState, park, BeginAttempt, Send, StorageFailure,
                  ChannelCloses, row
    <3>2. \A v \in Workers :
             wpc'[v] \in {"begin", "send", "sent", "failed"} =>
                wpc[v] \in {"begin", "send", "sent", "failed"} /\ delivery'[v] = delivery[v]
      BY <2>1 DEF consume, handle, currentState, park, BeginAttempt, Send, StorageFailure,
                  ChannelCloses, Goto, BaseOK
    <3> QED
      BY <3>1, <3>2 DEF Leases, LeaseOf, Fenced, Subject
  <2>2. CASE acknowledge(w) \/ reject(w) \/ Crash(w)
    <3>1. UNCHANGED <<state, token, expired>>
      BY <2>2 DEF acknowledge, reject, Settled, Crash, row
    <3>2. wpc'[w] = "idle" /\ \A v \in Workers \ {w} :
             wpc'[v] = wpc[v] /\ delivery'[v] = delivery[v] /\ claim'[v] = claim[v]
      BY <2>2 DEF acknowledge, reject, Settled, Crash, Goto, BaseOK
    <3> QED
      BY <3>1, <3>2 DEF Leases, LeaseOf, Fenced, Subject
  <2> QED
    BY <1>1, <2>1, <2>2, ClaimLeases, MarkLeases DEF Work
<1>2. CASE \/ \E m \in Messages : Publish(m) \/ RetryExpires(m)
           \/ CalmDown
           \/ UNCHANGED vars
  <2>1. UNCHANGED <<state, token, expired, wpc, delivery, claim>>
    BY <1>2 DEF Publish, RetryExpires, CalmDown, vars, row
  <2> QED
    BY <2>1 DEF Leases, LeaseOf, Fenced, Subject
<1> QED
  BY <1>1, <1>2, ExpiryLeases DEF Next

-----------------------------------------------------------------------------
(* What is handled was published.                                           *)

\* Nothing that was published is ever absent again.
LEMMA NextPublished ==
  ASSUME IInv, Published, [Next]_vars
  PROVE  Published'
<1> BaseOK /\ Handlers
  BY TypeParts DEF IInv
<1> SUFFICES ASSUME NEW v \in Workers
             PROVE  /\ wpc'[v] # "idle" => loc'[delivery'[v]] # "absent"
                    /\ forwarded'[v] \in Messages => loc'[forwarded'[v]] # "absent"
  BY DEF Published
<1>p. /\ wpc[v] # "idle" => delivery[v] \in Messages /\ loc[delivery[v]] # "absent"
      /\ forwarded[v] \in Messages => loc[forwarded[v]] # "absent"
  BY DEF Published, Handlers, HandlerOf
<1>1. ASSUME NEW w \in Workers, Work(w) \/ StorageFailure(w) \/ ChannelCloses(w) \/ Crash(w)
      PROVE  /\ wpc'[v] # "idle" => loc'[delivery'[v]] # "absent"
             /\ forwarded'[v] \in Messages => loc'[forwarded'[v]] # "absent"
  <2>d. wpc[w] # "idle" => delivery[w] \in Messages
    BY DEF Handlers, HandlerOf
  <2>1. CASE (\E t \in Tokens : Claim(w, t)) \/ currentState(w) \/ park(w)
             \/ BeginAttempt(w) \/ Send(w) \/ MarkSent(w) \/ MarkFailed(w) \/ StorageFailure(w)
    <3>1. UNCHANGED <<loc, delivery, forwarded>> /\ (wpc'[v] # "idle" => wpc[v] # "idle")
      BY <2>1 DEF Claim, currentState, park, BeginAttempt, Send, MarkSent, MarkFailed,
                  StorageFailure, queues, Goto, BaseOK
    <3> QED
      BY <1>p, <3>1
  <2>2. CASE consume(w)
    BY <1>p, <2>2, NotificationAssumption DEF consume, queues, BaseOK
  <2>3. ASSUME NEW m \in Messages, handle(w, m)
        PROVE  /\ wpc'[v] # "idle" => loc'[delivery'[v]] # "absent"
               /\ forwarded'[v] \in Messages => loc'[forwarded'[v]] # "absent"
    <3>1. \A n \in Messages : loc[n] # "absent" => loc'[n] # "absent"
      BY <2>3 DEF handle, BaseOK
    <3>2. loc'[m] # "absent"
      BY <2>3 DEF handle, BaseOK, Published
    <3>3. forwarded'[v] \in Messages => forwarded'[v] = forwarded[v]
      BY <2>3, NotificationAssumption DEF handle, BaseOK
    <3>4. wpc'[v] # "idle" => delivery'[v] = m \/ (wpc[v] # "idle" /\ delivery'[v] = delivery[v])
      BY <2>3 DEF handle, Goto, BaseOK
    <3> QED
      BY <1>p, <3>1, <3>2, <3>3, <3>4
  <2>4. CASE acknowledge(w) \/ reject(w) \/ ChannelCloses(w) \/ Crash(w)
    <3>1. \A n \in Messages : loc[n] # "absent" => loc'[n] # "absent"
      BY <2>4, <2>d DEF acknowledge, reject, Settled, ChannelCloses, Crash, Requeued, Live, BaseOK
    <3>2. wpc'[v] # "idle" => wpc[v] # "idle" /\ delivery'[v] = delivery[v]
      BY <2>4 DEF acknowledge, reject, Settled, ChannelCloses, Crash, Goto, BaseOK
    <3>3. forwarded'[v] \in Messages =>
             forwarded'[v] = forwarded[v] \/ loc[forwarded'[v]] = "working"
      BY <2>4, NotificationAssumption
         DEF acknowledge, reject, Settled, ChannelCloses, Crash, BaseOK
    <3> QED
      BY <1>p, <3>1, <3>2, <3>3
  <2> QED
    BY <1>1, <2>1, <2>2, <2>3, <2>4 DEF Work
<1>2. CASE \/ \E m \in Messages : Publish(m) \/ RetryExpires(m)
           \/ \E o \in Orders : LeaseExpires(o)
           \/ CalmDown
           \/ UNCHANGED vars
  <2>1. UNCHANGED <<wpc, delivery, forwarded>>
    BY <1>2 DEF Publish, RetryExpires, LeaseExpires, CalmDown, vars
  <2>2. \A n \in Messages : loc[n] # "absent" => loc'[n] # "absent"
    BY <1>2 DEF Publish, RetryExpires, LeaseExpires, CalmDown, vars, queues, BaseOK
  <2> QED
    BY <1>p, <2>1, <2>2
<1> QED
  BY <1>1, <1>2 DEF Next

\* Every email is accounted for, every claim is held under its lease, and all
\* that is handled was published.
THEOREM MailerInvariant == Spec => []MInv
<1>1. ASSUME Init PROVE Counts /\ Leases /\ Published
  <2>1. ASSUME NEW o \in Orders PROVE CountsOf(o)
    <3>1. Sending(o) = {} /\ Mailed(o) = {}
      BY <1>1 DEF Init, Sending, Mailed
    <3> QED
      BY <1>1, <3>1, FS_EmptySet DEF Init, CountsOf, OnRecord
  <2>2. Leases /\ Published
    BY <1>1, NotificationAssumption DEF Init, Leases, LeaseOf, Published
  <2> QED
    BY <2>1, <2>2 DEF Counts
<1>2. ASSUME MInv, [Next]_vars, IInv' PROVE MInv'
  BY <1>2, NextCounts, NextLeases, NextPublished DEF MInv
<1>3. Init /\ IInv => MInv
  BY <1>1 DEF MInv
<1> QED
  BY <1>2, <1>3, Invariant, PTL DEF Spec

-----------------------------------------------------------------------------
(* Second emails.                                                           *)

\* At most one of the consumers that have an email to record has the claim, and
\* while it has, no email is on record.
LEMMA OneInTime ==
  ASSUME MInv, NEW o \in Orders
  PROVE  /\ IsFiniteSet(Overran(o)) /\ Cardinality(Overran(o)) \in Nat
         /\ Cardinality(Mailed(o)) + OnRecord(o) <= 1 + Cardinality(Overran(o))
<1>1. Overran(o) \in SUBSET Mailed(o)
  BY DEF Overran, Mailed
<1>2. IsFiniteSet(Mailed(o))
  BY DEF MInv, Counts, CountsOf
<1>3. IsFiniteSet(Overran(o)) /\ Cardinality(Overran(o)) \in Nat
  BY <1>1, <1>2, FS_Subset, FS_CardinalityType
<1>4. ASSUME NEW w \in Mailed(o) \ Overran(o)
      PROVE  w \in Workers /\ Subject(w) = o /\ Fenced(w) /\ claim[w].token \in Tokens
  <2>1. w \in Workers /\ wpc[w] = "sent" /\ Subject(w) = o
    BY DEF Mailed
  <2>2. claim[w].overrun \in BOOLEAN /\ LeaseOf(w)
    BY <2>1, TypeParts DEF MInv, IInv, BaseOK, Leases
  <2>3. CASE claim[w].overrun = FALSE
    BY <2>1, <2>2, <2>3 DEF LeaseOf
  <2>4. CASE claim[w].overrun = TRUE
    BY <2>1, <2>2, <2>4 DEF LeaseOf, Overran
  <2> QED
    BY <2>2, <2>3, <2>4
<1>5. CASE Mailed(o) = Overran(o)
  BY <1>3, <1>5 DEF OnRecord
<1>6. CASE Mailed(o) # Overran(o)
  <2>1. PICK w \in Mailed(o) \ Overran(o) : TRUE
    BY <1>1, <1>6
  <2>2. ASSUME NEW v \in Mailed(o) \ Overran(o) PROVE v = w
    BY <1>4, <2>1 DEF MInv, IInv, DistinctTokens, Fenced
  <2>3. Mailed(o) = Overran(o) \cup {w} /\ w \notin Overran(o)
    BY <1>1, <2>1, <2>2
  <2>4. Cardinality(Mailed(o)) = Cardinality(Overran(o)) + 1
    BY <1>3, <2>3, FS_AddElement
  <2>5. OnRecord(o) = 0
    BY <1>4, <2>1 DEF OnRecord, Fenced
  <2> QED
    BY <1>3, <2>4, <2>5
<1> QED
  BY <1>3, <1>5, <1>6

\* A second email for an order always has a cause, whatever the number of
\* consumers and messages: a success that could not be written down, or a
\* consumer that overran its lease between the send and MarkSent. And none goes
\* out that was not counted before.
THEOREM DuplicatesHaveACause == Spec => []DuplicatesNeedTheWindow
<1>1. ASSUME MInv PROVE DuplicatesNeedTheWindow
  <2> SUFFICES ASSUME NEW o \in Orders
               PROVE  /\ emails[o] <= 1 + unrecorded[o] + Cardinality(Overran(o))
                      /\ emails[o] <= attempts[o]
    BY DEF DuplicatesNeedTheWindow
  <2>1. CountsOf(o)
    BY <1>1 DEF MInv, Counts
  <2>2. emails[o] \in Nat /\ unrecorded[o] \in Nat /\ attempts[o] \in Nat
    BY <1>1, TypeParts DEF MInv, IInv, BaseOK
  <2>3. Cardinality(Sending(o)) \in Nat /\ Cardinality(Mailed(o)) \in Nat
    BY <2>1, FS_CardinalityType DEF CountsOf
  <2>4. OnRecord(o) \in Nat
    BY DEF OnRecord
  <2> QED
    BY <1>1, <2>1, <2>2, <2>3, <2>4, OneInTime DEF CountsOf
<1> QED
  BY <1>1, MailerInvariant, PTL

-----------------------------------------------------------------------------
(* notification-service implements Mailer.                                  *)

\* Both begin with no message anywhere.
LEMMA MailerInit ==
  ASSUME Init
  PROVE  Mailing!Init
  BY DEF Init, Mailing!Init, Place

\* What the mailer sees of a step that changes no place, no copy, no record and
\* no email.
LEMMA Unseen ==
  ASSUME \A m \in Messages : Place(m)' = Place(m),
         UNCHANGED <<parked, emails>>,
         \A o \in Orders : state'[o] = "sent" <=> state[o] = "sent"
  PROVE  UNCHANGED Mailing!mail
<1>1. [m \in Messages |-> Place(m)]' = [m \in Messages |-> Place(m)]
  OBVIOUS
<1>2. {o \in Orders : state[o] = "sent"}' = {o \in Orders : state[o] = "sent"}
  OBVIOUS
<1> QED
  BY <1>1, <1>2 DEF Mailing!mail

\* The places follow from where the broker keeps the messages.
LEMMA PlacesStay ==
  ASSUME UNCHANGED loc
  PROVE  \A m \in Messages : Place(m)' = Place(m)
  BY DEF Place

\* A message arrives at the broker.
LEMMA PublishMaps ==
  ASSUME BaseOK, NEW m \in Messages, Publish(m)
  PROVE  Mailing!Publish(m)
<1>1. UNCHANGED <<parked, state, emails>>
  BY DEF Publish, row, sends
<1>2. Place(m) = "absent"
  BY DEF Publish, Place
<1>3. \A n \in Messages : Place(n)' = IF n = m THEN "queued" ELSE Place(n)
  BY DEF Publish, Place, BaseOK
<1>4. [n \in Messages |-> Place(n)]' = [[n \in Messages |-> Place(n)] EXCEPT ![m] = "queued"]
  BY <1>3
<1> QED
  BY <1>1, <1>2, <1>4 DEF Mailing!Publish

\* A call of the provider is within the budget and about a published message.
LEMMA SendMaps ==
  ASSUME MInv, NEW w \in Workers, Send(w)
  PROVE  (Mailing!Send(Subject(w)) /\ Subject(w) \in Orders) \/ UNCHANGED Mailing!mail
<1> DEFINE o == Subject(w)
<1> BaseOK /\ Handlers
  BY TypeParts DEF MInv, IInv
<1>1. UNCHANGED <<loc, parked, state>>
  BY DEF Send, queues, row
<1>p. \A m \in Messages : Place(m)' = Place(m)
  BY <1>1, PlacesStay
<1>2. CASE UNCHANGED emails
  BY <1>1, <1>2, <1>p, Unseen
<1>3. CASE emails' = [emails EXCEPT ![o] = @ + 1]
  <2>1. o \in Orders /\ delivery[w] \in Messages /\ delivery[w] \notin Malformed
    BY BusySubject DEF Send, Handlers, HandlerOf
  <2>2. delivery[w] \in Mailing!About(o)
    BY <2>1, NotificationAssumption DEF Mailing!About, Subject
  <2>3. Place(delivery[w]) # "absent"
    BY DEF MInv, Published, Send, Place
  <2>4. emails[o] < MaxSendAttempts
    <3>1. w \in Sending(o)
      BY DEF Sending, Send
    <3>2. IsFiniteSet(Sending(o)) /\ emails[o] + Cardinality(Sending(o)) <= attempts[o]
      BY <2>1 DEF MInv, Counts, CountsOf
    <3>3. Cardinality(Sending(o)) \in Nat /\ Cardinality(Sending(o)) # 0
      BY <3>1, <3>2, FS_EmptySet, FS_CardinalityType
    <3>4. emails[o] \in Nat /\ attempts[o] \in Nat /\ attempts[o] <= MaxSendAttempts
      BY <2>1 DEF MInv, IInv, SendBudget, BaseOK
    <3> QED
      BY <3>2, <3>3, <3>4, NotificationAssumption
  <2>5. [m \in Messages |-> Place(m)]' = [m \in Messages |-> Place(m)]
    BY <1>p
  <2>6. {p \in Orders : state[p] = "sent"}' = {p \in Orders : state[p] = "sent"}
    BY <1>1
  <2>7. \E m \in Mailing!About(o) : [n \in Messages |-> Place(n)][m] # "absent"
    BY <2>1, <2>2, <2>3
  <2> QED
    BY <1>1, <1>3, <2>1, <2>4, <2>5, <2>6, <2>7 DEF Mailing!Send
<1> QED
  BY <1>2, <1>3 DEF Send, sends

\* A success is recorded once, and after an email.
LEMMA RecordMaps ==
  ASSUME MInv, NEW w \in Workers, MarkSent(w)
  PROVE  Mailing!Next \/ UNCHANGED Mailing!mail
<1> DEFINE o == Subject(w)
<1> BaseOK /\ Handlers
  BY TypeParts DEF MInv, IInv
<1>1. UNCHANGED <<loc, parked, emails>>
  BY DEF MarkSent, queues
<1>p. \A m \in Messages : Place(m)' = Place(m)
  BY <1>1, PlacesStay
<1>2. CASE UNCHANGED state
  BY <1>1, <1>2, <1>p, Unseen
<1>3. CASE Fenced(w) /\ state' = [state EXCEPT ![o] = "sent"]
  <2>1. o \in Orders /\ emails[o] > 0
    BY BusySubject DEF MarkSent, Handlers, HandlerOf
  <2>2. [m \in Messages |-> Place(m)]' = [m \in Messages |-> Place(m)]
    BY <1>p
  <2>3. o \notin {p \in Orders : state[p] = "sent"}
    BY <1>3 DEF Fenced
  <2>4. {p \in Orders : state[p] = "sent"}' = {p \in Orders : state[p] = "sent"} \cup {o}
    BY <1>3, <2>1 DEF BaseOK
  <2> QED
    BY <1>1, <2>1, <2>2, <2>3, <2>4 DEF Mailing!Next, Mailing!Record
<1> QED
  BY <1>2, <1>3 DEF MarkSent

\* A message is parked while the broker still has it.
LEMMA ParkMaps ==
  ASSUME MInv, NEW w \in Workers, park(w)
  PROVE  (Mailing!Park(delivery[w]) /\ delivery[w] \in Messages) \/ UNCHANGED Mailing!mail
<1> BaseOK /\ OneHolder /\ Handlers
  BY TypeParts DEF MInv, IInv
<1>1. UNCHANGED <<loc, state, emails>>
  BY DEF park, row, sends
<1>p. \A m \in Messages : Place(m)' = Place(m)
  BY <1>1, PlacesStay
<1>2. CASE UNCHANGED parked
  BY <1>1, <1>2, <1>p, Unseen
<1>3. CASE channel[w] = "open" /\ parked' = parked \cup {delivery[w]}
  <2>1. delivery[w] \in Messages /\ Live(w)
    BY <1>3 DEF park, Handlers, HandlerOf, Live
  <2>2. loc[delivery[w]] = "unacked"
    BY <2>1 DEF OneHolder
  <2>3. Place(delivery[w]) = "queued"
    BY <2>2 DEF Place
  <2>4. [m \in Messages |-> Place(m)]' = [m \in Messages |-> Place(m)]
    BY <1>p
  <2>5. {p \in Orders : state[p] = "sent"}' = {p \in Orders : state[p] = "sent"}
    BY <1>1
  <2> QED
    BY <1>1, <1>3, <2>1, <2>3, <2>4, <2>5 DEF Mailing!Park
<1> QED
  BY <1>2, <1>3 DEF park

\* A message is let go when it is parked or its email is on record.
LEMMA DoneMaps ==
  ASSUME MInv, NEW w \in Workers, acknowledge(w)
  PROVE  (Mailing!Done(delivery[w]) /\ delivery[w] \in Messages) \/ UNCHANGED Mailing!mail
<1> DEFINE m == delivery[w]
<1> BaseOK /\ OneHolder /\ Handlers
  BY TypeParts DEF MInv, IInv
<1>1. UNCHANGED <<parked, state, emails>>
  BY DEF acknowledge, Settled, row, sends
<1>2. CASE ~Live(w)
  <2>1. UNCHANGED loc
    BY <1>2 DEF acknowledge, Settled
  <2> QED
    BY <1>1, <2>1, PlacesStay, Unseen
<1>3. CASE Live(w)
  <2>1. /\ m \in Messages
        /\ m \in parked \/ (m \notin Malformed /\ state[Subject(w)] = "sent")
    BY DEF acknowledge, Handlers, HandlerOf
  <2>2. loc[m] = "unacked" /\ loc' = [loc EXCEPT ![m] = "gone"]
    BY <1>3, <2>1 DEF OneHolder, acknowledge, Settled
  <2>3. Place(m) = "queued"
    BY <2>2 DEF Place
  <2>4. \A n \in Messages : Place(n)' = IF n = m THEN "gone" ELSE Place(n)
    BY <2>1, <2>2 DEF Place, BaseOK
  <2>5. [n \in Messages |-> Place(n)]' = [[n \in Messages |-> Place(n)] EXCEPT ![m] = "gone"]
    BY <2>4
  <2>6. {p \in Orders : state[p] = "sent"}' = {p \in Orders : state[p] = "sent"}
    BY <1>1
  <2>7. m \in parked \/ \E p \in {q \in Orders : state[q] = "sent"} : m \in Mailing!About(p)
    BY <2>1, SubjectIsOrder, NotificationAssumption DEF Mailing!About, Subject
  <2> QED
    BY <1>1, <2>1, <2>3, <2>5, <2>6, <2>7 DEF Mailing!Done
<1> QED
  BY <1>2, <1>3

\* Every other step changes nothing the mailer knows of: a message moves between
\* queues and consumers, a claim changes hands, an attempt is counted.
LEMMA OtherMaps ==
  ASSUME MInv, NEW w \in Workers,
         \/ consume(w) \/ (\E m \in Messages : handle(w, m))
         \/ (\E t \in Tokens : Claim(w, t)) \/ currentState(w) \/ BeginAttempt(w)
         \/ MarkFailed(w) \/ reject(w) \/ StorageFailure(w) \/ ChannelCloses(w) \/ Crash(w)
  PROVE  UNCHANGED Mailing!mail
<1> BaseOK /\ OneHolder /\ Handlers /\ Published
  BY TypeParts DEF MInv, IInv
<1>1. UNCHANGED <<parked, emails>>
  BY DEF consume, handle, Claim, currentState, BeginAttempt, MarkFailed, reject, Settled,
         StorageFailure, ChannelCloses, Crash, queues, sends
<1>2. \A o \in Orders : state'[o] = "sent" <=> state[o] = "sent"
  <2>1. CASE (\E t \in Tokens : Claim(w, t)) \/ MarkFailed(w)
    BY <2>1 DEF Claim, Takeable, MarkFailed, Fenced, BaseOK
  <2>2. CASE ~((\E t \in Tokens : Claim(w, t)) \/ MarkFailed(w))
    BY <2>2 DEF consume, handle, currentState, BeginAttempt, reject, Settled,
                StorageFailure, ChannelCloses, Crash, row
  <2> QED
    BY <2>1, <2>2
<1>3. \A m \in Messages : Place(m)' = Place(m)
  <2>1. CASE UNCHANGED loc
    BY <2>1, PlacesStay
  <2>2. ASSUME NEW m \in Messages, handle(w, m) PROVE \A n \in Messages : Place(n)' = Place(n)
    BY <2>2 DEF handle, Place, BaseOK
  <2>3. CASE reject(w) \/ ChannelCloses(w) \/ Crash(w)
    <3>1. Live(w) => delivery[w] \in Messages
      BY DEF Live, Handlers, HandlerOf
    <3>2. Live(w) => loc[delivery[w]] = "unacked"
      BY <3>1 DEF OneHolder
    <3>3. \/ UNCHANGED loc
          \/ Live(w) /\ \E where \in {"retry", "working"} :
                            loc' = [loc EXCEPT ![delivery[w]] = where]
      BY <2>3 DEF reject, Settled, ChannelCloses, Crash, Requeued
    <3> QED
      BY <2>1, <3>1, <3>2, <3>3 DEF Place, BaseOK
  <2> QED
    BY <2>1, <2>2, <2>3 DEF consume, Claim, currentState, BeginAttempt, MarkFailed,
                            StorageFailure, queues
<1> QED
  BY <1>1, <1>2, <1>3, Unseen

\* Time passing is not seen by Mailer.
LEMMA OutsideMaps ==
  ASSUME MInv,
         \/ \E m \in Messages : RetryExpires(m)
         \/ \E o \in Orders : LeaseExpires(o)
         \/ CalmDown
         \/ UNCHANGED vars
  PROVE  UNCHANGED Mailing!mail
<1> BaseOK
  BY TypeParts DEF MInv, IInv
<1>1. UNCHANGED <<parked, emails, state>>
  BY DEF RetryExpires, LeaseExpires, CalmDown, vars, queues, row, sends
<1>2. \A m \in Messages : Place(m)' = Place(m)
  BY DEF RetryExpires, LeaseExpires, CalmDown, vars, queues, Place, BaseOK
<1> QED
  BY <1>1, <1>2, Unseen

\* notification-service implements Mailer for any number of consumers, messages
\* and orders: whatever crashes, redeliveries, takeovers and dead channels do,
\* all that is seen of it is that messages are published, emails go out within
\* the budget, successes are recorded, copies are parked, and messages are let
\* go that may be.
THEOREM ImplementsMailer == Spec => MailerSpec
<1>1. Init => Mailing!Init
  BY MailerInit
<1>2. ASSUME MInv, [Next]_vars PROVE [Mailing!Next]_(Mailing!mail)
  <2> BaseOK
    BY <1>2, TypeParts DEF MInv, IInv
  <2>1. ASSUME NEW w \in Workers,
               Work(w) \/ StorageFailure(w) \/ ChannelCloses(w) \/ Crash(w)
        PROVE  [Mailing!Next]_(Mailing!mail)
    <3>1. CASE Send(w)
      BY <1>2, <3>1, SendMaps DEF Mailing!Next
    <3>2. CASE MarkSent(w)
      BY <1>2, <3>2, RecordMaps
    <3>3. CASE park(w)
      BY <1>2, <3>3, ParkMaps DEF Mailing!Next
    <3>4. CASE acknowledge(w)
      BY <1>2, <3>4, DoneMaps DEF Mailing!Next
    <3> QED
      BY <1>2, <2>1, <3>1, <3>2, <3>3, <3>4, OtherMaps DEF Work
  <2>2. ASSUME NEW m \in Messages, Publish(m) PROVE [Mailing!Next]_(Mailing!mail)
    BY <2>2, PublishMaps DEF Mailing!Next
  <2> QED
    BY <1>2, <2>1, <2>2, OutsideMaps DEF Next
<1> QED
  BY <1>1, <1>2, MailerInvariant, PTL DEF Spec, MailerSpec, Mailing!Spec
=============================================================================
