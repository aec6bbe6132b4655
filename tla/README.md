# Verification of the Go order system

TLA+ models of the three services of this repository, TLC runs that check them on
small instances, and TLAPS proofs of their central properties for instances of any
size. `PROJECT.json` has the machine-readable side: which definition stands for which
lines, which run checks which property, which hazard of the code it is about.

## 1. The system

    client --POST /orders--> order-service --ReserveStock (gRPC)--> inventory-service
                                  |
                                  | outbox_events --> worker --OrderAccepted (AMQP)--> RabbitMQ
                                                                                         |
                                                              notification-service <-----+

Each service has its own Postgres database. Nothing is shared but the calls and the
messages, both of which may be lost, repeated or late.

| Component | State | Operations | What is hard |
| --- | --- | --- | --- |
| inventory: `Canonicalize` | none | validate a request, reduce its lines to one quantity per product | limits on a running total, reports with a cap |
| inventory: `ReserveStock`, `ReservationStore` | `stock_items`, `reservations`, open transactions and their locks | look up, insert and take line by line, commit, roll back, explain a refusal | concurrent claims, lock order, races on an order id, lost COMMIT replies |
| order: `CreateOrder`, `OrderRepository` | `orders` | look the key up, insert, reserve, accept or reject, reload after a conflict | races on the idempotency key and on the verdict, unknown outcomes of remote calls, resumption |
| order: HTTP API, domain rules, gRPC client; inventory: gRPC server; notification: decoding | none | bind, price, total, convert, validate, translate errors | three widths for one quantity, overflow, two sets of rules for one basket |
| order: outbox, `PublishOrderEvents` | `outbox_events` | claim under a lease, publish, mark, release, retry, set aside, clean up, redrive | leases that run out under a busy worker, crashes between publishing and marking |
| order: `rabbitmq.Publisher` | one connection and channel, a buffer of returns | publish and wait for the confirmation | a return and a confirmation arrive on their own; dead channels, timeouts |
| notification: `HandleOrderAccepted`, `SentNotificationStore` | `sent_notifications` | claim under a lease, count the attempt, send, record | the send and its record are not atomic |
| notification: `Consumer`, topology | working, retry and parked queue | take, acknowledge, reject, park, reconnect | dead channels, redelivery while the first handler is at work |
| `bootstrap` of each service | pools, connections, servers, the event worker | acquire, serve, stop, drain, release | failures half way, signals, timeouts of the drain, use after close |
| configuration, logging, correlation ids, generated code | none of interest | | not modelled |

How they interact. `CreateOrder` stores a pending order, calls inventory with the order
id as idempotency key, and records the verdict; an acceptance and its event are one
transaction. The outbox worker delivers the event at least once. The consumer sends at
most a bounded number of emails per order and keeps what it cannot handle in a parked
queue. A client replaying its request is the only thing that finishes a pending order.

What makes each of them correct:

* **inventory** never promises more than there is; a claim is all or nothing; a call
  that was told OK has its stock; repeating it is harmless; claims do not deadlock.
* **order creation** gives all requests with one key one verdict about one order;
  accepted means stock held and event recorded; a verdict is final; stock is stranded
  under a rejected order only by a race or a lost reply; a replay finishes what a
  failure left behind.
* **the data of an order** survives every conversion: what is reserved, charged,
  answered and announced is what was asked for.
* **outbox** loses no event, counts the retry budget exactly, never reopens a published
  event, and gets every publishable event out once the trouble is over.
* **publisher** says "routed" only of a message that is in a queue, and "not routed"
  or "unavailable" only of one that is in none and never will be; it always returns.
* **notification** loses no message, calls the provider at most three times per order,
  sends a second email only through the two windows the code admits to, and lets no
  message circulate for ever.
* **each process** ends when it is told to, or stands at closing its broker connection
  (the one call without a deadline), and closes what it opened, after its users.
* **together** they mail exactly the buyers of accepted orders, or bring the order
  before a person, once the trouble is over and unless every consumer hangs.

## 2. Modules

| Module | What it is |
| --- | --- |
| `Canonical` | `Canonicalize` as an operator, and what it is meant to compute (`WellFormed`, `Total`) |
| `Checkout` | one order as data, from the HTTP body to the email; extends `Canonical` |
| `Inventory` | concurrent `ReserveStock` calls against one READ COMMITTED database; extends `Canonical` |
| `ReservationLedger` | what inventory promises: an order takes a whole basket asked for it in one step, once |
| `OrderCreation` | concurrent `POST /orders` requests; inventory is reduced to what a caller can tell of it |
| `OrderBook` | what order-service promises: one order per key, settled once, accepted with its event |
| `Outbox` | the outbox table and its workers |
| `Relay` | what the outbox promises: routed before published, published before deleted |
| `Notification` | consumers, the broker's queues and the `sent_notifications` table |
| `Mailer` | what notification promises: a bounded number of emails, and no message let go unhandled |
| `OrderSystem` | the composition of `OrderBook`, `Relay` and `Mailer` |
| `Publisher` | `rabbitmq.Publisher` with the broker's side of its channel |
| `Lifecycle` | `Run` of the three services; extends `Publisher`, which the event worker uses |
| `CanonicalProofs` | what a sum over a set is, and what `Canonicalize` computes |
| `InventoryProofs`, `CheckoutProofs` | theorems about these modules; both extend `CanonicalProofs` |
| `OrderCreationProofs`, `OutboxProofs`, `NotificationProofs`, `LifecycleProofs`, `OrderSystemProofs` | theorems about these modules; `LifecycleProofs` has those of `Publisher` |
| `MC...` | instances for TLC |

Definitions keep the names of the functions they stand for (`claimReservation`,
`processPersisted`, `settle`, `park`); tables keep their column names. Definitions
whose comment starts with "Bug of the mutant" are deliberately wrong variants of the
definition that follows them. They are used by no specification; putting one in place
of the right one must make TLC report the property it is paired with in
`PROJECT.json`.

The modules hang together by refinement:

    Inventory -----implements----> ReservationLedger
    OrderCreation -implements----> OrderBook --+
    Outbox --------implements----> Relay ------+--- composed in OrderSystem
    Notification --implements----> Mailer -----+

`OrderSystem` ties the three by two joint steps. `Accept` is the order book's acceptance
and the relay's `Record`, one transaction in `order_repository.go`. `Forward` is the
relay's `Route` and the mailer's `Publish`: an event that the broker routes is a message
in the working queue. Everything else is a step of one part with the others unchanged.
Two flags stand for what the abstract parts do not have: `calm`, and `hung`, the state in
which every consumer is stuck in `drainReturns` (see findings) and nothing is notified
until a process is restarted.
That the detailed modules, put together the same way, implement `OrderSystem` is an
argument of this text and not a run: each refinement maps to the variables that the
joint steps share (`events`, `routed`, the arrival of a message) one to one.

### Canonical and Checkout

Products are positive numbers in the byte order of their names, so the sorted slice the
code returns is a function from products to quantities read in ascending order. Trimming
and uuid parsing are constant functions (`TrimSKU`, `ParseOrder`) that map several
spellings to one value. `walk` is the loop over the lines; `Refused` is its `switch`,
with the running total compared by subtraction as in the code.

`Checkout` takes a basket through the binding rules (`Binds`), pricing (`orderItems`),
the checked arithmetic of `Money` and `calculateTotal`, the `INTEGER` column
(`FitsColumns`), the conversion of a quantity to `int32` and inventory's
`Canonicalize` (`ReserveStock`), the status code (`statusFor`), the response
(`respondUseCaseError`, with its shortfalls), the stored event (`eventFromPayload`), the
protobuf event (`protoOrderAccepted`) and what notification-service reads
(`commandFrom`). Stock belongs to other orders and deliveries as well, so what is free
may be anything (`Levels`) whenever it is looked at: when the claim is made (`free`), and
again when its refusal is explained (`seen`), a query made after the refused transaction
is over and allowed to fail. A call that brings no answer (`NoAnswer`) may have taken the
stock, or may be under way and take it later (`LateReservation`), also after a repeat was
refused and the order rejected. `Record` is the write of the verdict, which may fail, have its reply
lost, or be refused by the clock rule; `Replay` reads the order back through the
constructors of the domain. Widths are the constants `Int32Max` and `Int64Max`.

### Inventory

A call is a thread with a program counter: `find`, `insert`, `take`, `commit`,
`rollback`, `describe`. The tables hold committed data; `inserted[c]` and `taken[c]` are
what an open transaction has written. `claimReservation` is `INSERT ... ON CONFLICT DO
NOTHING`: it waits while another transaction has the key pending, and reports a conflict
only against a committed row. `takeStock` is the conditional `UPDATE`, which waits for
the row lock and then evaluates its condition on the committed row. `Commit` makes
everything visible at once and its reply may be lost. `Abort` ends a call anywhere
(deadline, hang-up, process end). `Restock` is the warehouse's own `UPDATE`, subject to
the table's `CHECK`.

### OrderCreation

An order is named after the request that stored it. A basket is one of four kinds, by
what pricing, the domain and inventory make of it. `Create` races on the unique index.
`NoVerdict` is a call without an answer: not arrived, arrived with the reply lost, or
arriving later (`late`). `StockChanges` is everybody else: what is free rises and falls.
`Settle` is the status transition with its clock rule and the
conditional `UPDATE`; with an acceptance the event is in the same transaction.
`OrderBook` sees `status`, `held`, `events` and the keys of the orders that are stored.

### Outbox

A claim is one statement. Its random token is represented by the worker that drew it:
the code only ever asks whether the row still carries the token of the claim at hand, a
worker has one claim at a time, and the token of a claim whose reply it lost matches
nobody's (`Nobody`); a row it claims again gets a token it has not had before either way.
Time is reduced to order: a row that is not due may become due at any moment, also under
a worker that is still busy, and `ahead` remembers which rows were due before which,
because the claim takes the oldest that is not locked. All writes but `MarkPublished`
are fenced by token and status. `Publication` is the set of outcomes of
`Publisher.Publish`, each with whether the message reached a queue; `Publisher` has no
others. `Redrive` is the Makefile target that puts events back.

### Publisher

One call of `Publish` at a time holds the mutex and goes through connecting, draining old
returns, sending, and waiting. The broker sends a return before the confirmation of the
same message; the client library delivers frames in order and resolves a pending
confirmation as "not acknowledged" when the channel closes. `transit` is what is on its
way to the broker, `late` what may still arrive there although its answer never will.
`Bounded` are the steps with a deadline of their own; `Unbounded` are calls of the client
library that have none (`connect`, and closing a session it no longer trusts).

### Notification

`loc` is where the broker has a message; two messages about one order stand for a
republished event. `forwarded` is a delivery of a dead channel that a forwarder
goroutine still offers to the loop, which the code may pick up after the broker has put
the message back. `Claim` is the upsert with takeover, `BeginAttempt` counts before the
send, `MarkSent` and `MarkFailed` are fenced. `Send` is the provider the use case is
written for: it may accept, fail, or accept and report a failure (the repository's
sender only logs). `park` confirms the copy before it acknowledges the original, and
begins with `drainReturns`, which does not return on a closed channel. `unrecorded` and
`overrun` are history: they say which emails fell into the windows described in
`handle_order_accepted.go`.

### Lifecycle

`service` says which of the three programs it is; the first state leaves it open.
`Acquire` and `Wire` are the constructors, which may fail at each step; `Select` is the
`select` of `Run`; then come the shutdown of the server with its timeout, the stop of
the event worker with its own (order-service), and `Close`. `task` is a request or a
delivery in hand; `gaveUp` is what `Run` stopped waiting for. A second signal kills the
process, because `Run` has stopped trapping signals by then. `ClosesConnection` is the
point at which order-service closes its channel and connection to the broker.

## 3. Runs

| Run | Instance | Shows |
| --- | --- | --- |
| `inventory_mixed` | 3 calls, 5 requests over 2 order ids and 3 products, one not stocked, stock 2 and 1 | safety of the claim protocol, no deadlock |
| `inventory_steady` | 3 calls, one basket per order id, as order-service calls | `LedgerSpec`, repeats accepted, every call answered |
| `order_creation` | 2 requests, 2 keys, 1 unit of stock that comes and goes, 3 attempts | one backed, final verdict per key; the causes of stranded stock; a replay decides; every request is answered; `BookSpec` |
| `outbox` | 2 workers, 2 events, one that cannot be decoded, budget 2, cleanup in batches of 1 | no event lost, exact budget, `RelaySpec`, every publishable event settles |
| `notification` | 2 consumers, 2 messages about one order, 3 tokens, budget 3 | budget, nothing lost, causes of duplicates, `MailerSpec` |
| `notification_live` | 1 consumer, 2 messages about one order and one malformed, budget 2 | no message circulates for ever |
| `order_system` | 2 orders, 2 keys, 3 messages, two of them about one order | only sold orders are mailed, no accepted one is forgotten, every buyer hears once calm unless all consumers hang |
| `processes` | each of the three services, 2 publications | verdicts of the publisher are true, resources released in order, `Publish` returns, the process ends or is at its last call |
| `checkout` | every basket of up to 3 lines over 6 spellings and 5 quantities | `Canonicalize` matches its reference, conversions keep the order, answers and explanations are truthful |
| `checkout_basket` | the same | violated: see findings |
| `notification_reconnect` | 1 consumer, one good and one malformed message | violated: see findings |
| `notification_drain` | the three services, 1 publication | violated: see findings |

Bounds and why they are enough. The real limits (10000 units, 200 lines, 20 reported
violations, 10 publish attempts) are constants, set to the smallest values at which both
sides of each comparison and one step past it occur. In `Checkout` the limits are 3 units
and 2 lines, `Int32Max` is 7 and `Int64Max` 20, and quantities are 0, 1, 3, 4 and 17: none, one,
a product at its limit, one past it, and one that passes every check of order-service but
the column's and comes back as 1 from a conversion to `int32`; with prices of 2 and 1 and
three lines, totals reach and pass `Int64Max`; 0, 1 or 3 units of each product are free,
so that a line is met, short of some, and short of all. Three calls are what a lost race with a
bystander needs; two products are what a lock cycle needs, and the third is the unknown
one. Two requests are what every race in `CreateOrder` is between: on one key, on two
keys for one unit, and a replay of what the first left behind. Two workers are what a
takeover needs. In `Notification` a claim takes a token that no row and no consumer has,
so there is one more than can be in use when somebody claims. Two publications are what a
late frame of one needs to meet the other. `MaxOnHand` and `MaxFree` bound what the
warehouse adds, `MaxPublications` the calls of `Publish`. Attempts, emails and
publications of the outbox are bounded by the code's own budgets. Symmetry is used for
calls, consumers, tokens and messages in runs that check safety only, never in those that
check liveness.

Deadlock checking is off where the system may stop: all calls are answered, all requests
are done, all orders mailed, the process exited, or (notification) every consumer may
hang in `drainReturns`. It is on for the outbox, whose workers never come to an end.

### Findings

* **`checkout_basket`**: `reserver.go` calls a refusal of the request by inventory a
  defect, because the basket was validated before; but order-service bounds neither
  quantity nor number of lines from above, so a large basket passes here and is refused
  there, and the order stays pending on every replay.
* **`notification_reconnect`**: `drainReturns` does not check whether the channel it
  reads is closed. When the AMQP channel dies after a message was taken and before it is
  parked, the consumer loops for ever instead of reconnecting. The twin of the function
  in order-service (`rabbitmq/publisher.go`, `drain`) has the check and says why.
* **`notification_drain`**: the comments on `Wait` and in `bootstrap.go` say that a
  delivery that was mid-send may finish and record its result. Its context derives from
  the one the signal cancels, so `MarkSent` fails at once; the drain ends, and the email
  is not on record.

Met while modelling, and without a run of their own:

* Two calls with one order id and disjoint baskets both commit, and repeating either is
  then refused (`reserve_stock.go:35`; `ARCHITECTURE.md:179` lists it as unresolved).
  `RepeatAccepted` is therefore checked and proved under one basket per order id.
* The comment on the errors of `publisher.go` (line 28) says that the first three all
  mean that the message was certainly not routed. `ErrRejected` does not: the client
  library also resolves a confirmation as not acknowledged when the channel closes, and
  the broker may have routed the message by then. `VerdictsAreTrue` leaves it out, and
  `Publication` has `failed` with the message routed. The outbox only counts it as a
  failed attempt, so the effect is a second copy.
* `Close` of order-service is documented to run after `Shutdown` (`app.go:169`); when the
  server fails on its own it runs without one. `ReleasedInOrder` says so.
* `Run` of order-service waits for its worker up to `shutdownTimeout`, and then closes the
  channel and the connection to the broker, for which the client library has no deadline
  (`bootstrap.go:73`, `publisher.go:166`). A broker that does not answer keeps the process
  there; `StopsInTheEnd` says that this is the only such place.
* A wall clock that goes back between storing an order and settling it makes the status
  transition fail; the request is answered as a validation failure while the order stays
  pending. `AnswerIsTruthful` and `ReplayDecides` take it into account: a replay with a
  clock that has caught up decides.

### Fairness

* `Inventory`: weak fairness of each call's own steps. Postgres runs a statement whose
  locks are free, and a goroutine with its answer goes on. Nothing is assumed about
  arrivals, aborts or restocking.
* `OrderCreation`: weak fairness of each request's steps.
* `Outbox`: weak fairness of each worker's loop, and of a lease or a backoff running out.
* `Notification`: weak fairness of each consumer's loop, of the retry queue's TTL, and of
  leases running out.
* `OrderSystem`: once calm, a waiting event that no queue has is forwarded or set aside,
  and a queued message is dealt with unless the consumers hang. These are what
  `EventuallySettled` and `EventuallyHandled` establish of the detailed modules, under
  the same two conditions. Nothing is assumed before, and nobody restarts a process after.
* `Lifecycle`: weak fairness of `Run` with its timers, and of the steps of `Publish` that
  have a deadline. None for requests, deliveries or signals, nor for calls of the client
  library without a deadline, be it the publisher that makes them or `Run` when it closes
  the connection: a process that is to stop does, although any of these hangs, or stands
  at that last call.

"Once the trouble is over" is the flag `calm`, set by an action that need never happen:
the properties promise nothing before it, and after it there are no crashes, failed
writes, lost replies or broker failures. The email provider may go on failing for ever.

## 4. Proofs

The theorems are of the form `Spec => []Inv`, `Spec => [][A]_vars` or refinement, or say
what an operator computes, for any sets of calls, requests, workers, messages, events,
products, orders and tokens, under the assumptions named in the component modules; TLC
evaluates these on every run. Most of them only type the constants. Those that say more:

* `CanonicalAssumption`: at least one violation can be reported (the code's limit is 20;
  with none `Canonicalize` would accept everything).
* `RequestAssumption`: requests are typed as they arrive, an id and a list of names and
  integers. What they are reduced to is proved.
* `CheckoutAssumption`: a price is one that the domain takes (not negative, `EUR` or
  `USD`), an address that parses is not empty, the id order-service sends is a uuid.
* `InventoryAssumption`: there is a last product in the byte order.
* `OrderCreationAssumption`, `OutboxAssumption`, `NotificationAssumption`,
  `PublisherAssumption`, `OrderSystemAssumption`: budgets and bounds are numbers, model
  values are not members of the sets they stand beside.

One theorem assumes a finite set on top: `CounterMatchesRows` the orders, since it is
about their sum.

**CanonicalProofs.** Induction over data takes the form of a smallest counterexample:
`LeastNat` and `LeastSet` say that a set of naturals, or of subsets of a finite set, that
is not empty has a smallest member, and the proofs take one of a set of counterexamples.
`SumFunctionOnSet` picks its elements in an unknown order, so `SumIs` and `AnyOrder`
first show that its recursion has a solution and that the order does not matter;
`SumAdds`, `SumSame`, `SumChanges` and `SumRenamed` are what the other proofs cite. For
the loop of `Canonicalize`, `WalkExists` shows that its recursion has a solution, and
`LoopInv` what it has after n lines: the report is empty exactly when the header and the
first n lines break no rule, and then the quantities are their totals. The second half is
needed only while the report is empty, which is why the lines that the loop leaves out do
not matter. `CanonicalizeExact` is the conclusion, `OrderOfLinesIrrelevant` its use.

**InventoryProofs.** `IInv` says, by program counter, which lines a transaction has
inserted and taken (`ProgressOf`, `LastLineOf`, `SortedOf`), that locks and pending keys
have one owner (`LocksOwned`, `KeysUnique`), and what a lost race tells about the winner
(`WinnerOf`). The last one is what `NeverGivesUp` needs: an insert reports a conflict
only against a committed row, and rows are never deleted, so the second lookup finds
them. `NeverOverbooked` is made inductive by its second conjunct, that the check of a
locked row stays true. `DeadlockFree` gives every waiting claim a place, twice its
product for a key and one more for a stock row, shows that a claim waits only for one
that waits at a higher place (`WaitsForward`), and takes the greatest place in a group.
`ImplementsLedger` and `RepeatsAccepted` assume `OneBasketPerOrder`; `Commit` maps to
`Hold`, `Restock` to `Restock`, everything else stutters. That reservations have not
changed between two commits of one order is where the assumption is needed.
`CounterMatchesRows` is inductive with `IInv`: a commit raises the counter by the lines it
has taken and writes the rows it has inserted, `ProgressOf` says that these are the same
lines, and `KeysUnique` that the rows were not there (`CommitKeepsSum`).

**OutboxProofs.** `IInv` says that as long as a pending row carries a worker's token the
worker's copy of `attempts` is right (`WorkerOf`). That is why a budget decided on a copy
is exact. `RowWrite` lists what a worker's write can do to a row, once for all proofs.
`ImplementsRelay` needs one thing more, that a worker is busy only with an event that has
been recorded (`Known`): a publication maps to `Route`, the writes to `Published` and
`SetAside`, claims, leases, crashes and lost writes to stuttering.

**OrderCreationProofs.** What a request knows of its order cannot stop being true: rows
are not deleted, verdicts are final, stock stays held (`Grows`). `OneRowPerKey`, the
unique index, turns this into one fate per key. `ImplementsBook` maps the insert to
`Place`, whatever makes inventory hold the stock, at once or late, to `Hold`, and the
conditional `UPDATE` to `Accept` or `Reject`. `StrandedHasACause` rests on `Traces`: a
call on its way was left there by a request that is done or has tried again, so a request
that is refused while stock is or will be held for its order is not alone, or was unsure
before.

**CheckoutProofs.** First what the conversions do: `CalculateTotalExact` (the sum is exact
where the loop of `calculateTotal` does not give up), `Int32Keeps` (a quantity that fits
the column survives `int32`), `RequestLinesSame` and `ReserveStockIs` (inventory is asked
for the totals of the basket) and `EventReadable` (the event of a stored order passes
`commandFrom`). Their preconditions are `Storable` and `StoredOrder`: the binding rules,
the catalogue and the column have let the basket through. `CInv` says that they hold from
the moment there is an order, that no call of it, answered, lost or late, holds anything
but what it asks for, that an accepted order has it, and that a rejected one has it only if
a call went unanswered (`Verdicts`). `ShortfallsShort` is what an explained refusal says
about any stock that the query may see. That an order read back passes
its own rules (`Reconstitutes`) is what keeps a replay from answering `validation_failed`
about an accepted order.

**NotificationProofs.** `HandlerOf` says what a consumer knows by where it is, e.g. that
its copy of `attempts` is right while its claim is fenced, that a well-formed message on
its way to the parked queue is out of budget, and that one on its way to an
acknowledgement is parked or on record. `Progress` is what no step takes back. The
agreement of broker and consumers about who holds a message (`OneHolder`, part of
`TypeOK`) needs its uniqueness half to be inductive. `MInv` adds two counts. `Counts`
relates attempts and emails of an order to the consumers about to send for it; `Leases`
says that a consumer past its counted attempt has the claim, or has outlived its lease.
`DuplicatesHaveACause` follows, and `ImplementsMailer`: a send maps to `Send`, its
record, parking and acknowledgements to the steps of the mailer, takeovers, retries,
reconnections and lost writes to stuttering.

**LifecycleProofs.** `PInv` says that a message is sent only on a channel that has nothing
left of earlier ones, and that afterwards the wire holds nothing or the answer to this
publication (`Clean`): a late frame of an abandoned publication belongs to a channel that
nobody reads any more. `VerdictsTrue` rests on it. `IInv` gives for each stage of `Run`
what is acquired, what runs and what has been given up; `ReleasesInOrder` reads it off
for all three services.

**OrderSystemProofs.** An order leaves a trail through the services, and `IInv` says how
far it has come: accepted exactly with its event (`AcceptedWithEvent`), a message for
every routed event and the other way round (`RoutedHasMessage`), and nothing let go
before the next has it (`LetGoInOrder`). `MailedIsSold` and `NoOrderForgotten` follow.

Four action properties are proved and no longer model-checked, since the refinements and
invariants of the runs cover them: `HeldIsFinal`, `VerdictFinal`, `RoutedStaysPublished`
and `SentIsFinal`. Neither is `OrderCreation`'s `TypeOK`, of which the theorem
`TypeCorrect` says all that a run could.

**Model-checked only.** Liveness (`EveryCallAnswered`, `EventuallySettled`,
`ReplayDecides`, `EveryRequestAnswered`, `EventuallyHandled`, `EveryBuyerHears`,
`PublishReturns`, `StopsInTheEnd`), because the prover has no support for fairness and
`ENABLED`. Every other property that a run finds true is a theorem.

## 5. What is not modelled

* Wording, response bodies, routes, log lines, correlation ids, metrics, configuration.
* Generated protobuf code, except for the width of its fields.
* Real time: leases, backoffs and TTLs may elapse at any moment, so the properties do
  not depend on their lengths. That a lease is longer than a send usually takes is not
  assumed.
* Release of stock held for a rejected order: the code has none (`README.md`,
  "Deliberate limits"). The states occur in `OrderCreation` and in `Checkout`.
* The collation by which `Find` sorts, against the byte order of `Canonicalize`.
* The goroutine a forwarder leaves behind when its session ends with a delivery in hand:
  its delivery is modelled (`forwarded`), the number of goroutines is not.
* The email sender of the repository, which only logs; a real provider is modelled.

## 6. Plan

Done, in this order: `Canonical` and `Inventory` with the ledger; `Outbox`;
`OrderCreation`; `Notification`; the proofs of each; `Checkout`; `Publisher` and
`Lifecycle`; the abstract specifications and the composition; the proofs of all
refinements, of `Canonicalize` and of the conversions in `Checkout`.

Next:

1. The composition as a theorem: the joint steps of `OrderSystem` stated over the detailed
   modules, in place of the argument in section 2.
2. The step from safety towards liveness that needs no fairness: bounds that decrease, such
   as the passes of a call and the budget of an event, as action properties.
3. That order-service calls inventory with one basket per order id (`OneBasketPerOrder`),
   derived from `Checkout`, where the request is computed from the stored order.
