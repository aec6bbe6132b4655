----------------------------- MODULE Checkout ------------------------------
(***************************************************************************)
(* One order as data: what the conversions between the HTTP body and the   *)
(* email make of the products, quantities and amounts a customer asks for. *)
(* A quantity is an int in the HTTP body and in the domain, an INTEGER in  *)
(* the order_items table and an int32 in both protobuf messages; an amount *)
(* is an int64. The numbers at which these overflow are parameters.        *)
(* Concurrent requests are the subject of OrderCreation.                   *)
(***************************************************************************)
EXTENDS Canonical

CONSTANTS
    Quantities,         \* what callers ask for
    MaxBasketLines,     \* bound: lines of a basket
    Prices,             \* the catalogue: product to amount and currency
    Stocked,            \* the products that the warehouse knows
    Levels,             \* how much of a product may be free, at any moment
    Emails,
    BindsEmail,         \* addresses that the binding rule "email" lets through
    ParsesEmail,        \* addresses that mail.ParseAddress returns unchanged
    OrderID,            \* the id of the order, as order-service sends it
    Int32Max,
    Int64Max

VARIABLES
    basket,             \* the items of the HTTP request
    pc,                 \* where the request is
    created,            \* this request inserted the order
    order,              \* the order and its items, as the tables have them
    reserved,           \* what inventory holds for the order
    late,               \* whether a call went unanswered, and is still under way
    refusal,            \* the gRPC status of the last reservation
    response,           \* the last HTTP response
    command             \* what notification-service reads in the event

vars == <<basket, pc, created, order, reserved, late, refusal, response, command>>

\* A price is one that NewOrderItem takes: an amount that is not negative, in a
\* supported currency. No address is empty once it is parsed.
ASSUME CheckoutAssumption ==
    /\ Quantities \subseteq Int
    /\ DOMAIN Prices \subseteq SKUs /\ Stocked \subseteq SKUs
    /\ Prices \in [DOMAIN Prices -> [amount : Nat, currency : {"EUR", "USD"}]]
    /\ Levels \subseteq Nat
    /\ OrderID \in DOMAIN ParseOrder /\ ParseOrder[OrderID] # NotAUUID
    /\ BindsEmail \subseteq Emails /\ ParsesEmail \subseteq Emails \ {""}
    /\ Int32Max \in Nat /\ Int64Max \in Nat
    /\ maxLineQuantity <= Int32Max /\ Int32Max < Int64Max

NoOrder == [status |-> "absent"]
NoResponse == [code |-> "none", shortfalls |-> {}]
Undecodable == [decoded |-> FALSE]
NoCommand == [decoded |-> TRUE, total |-> -1]
Invalid == -1

Init ==
    /\ basket = <<>> /\ pc = "shopping" /\ created = FALSE
    /\ order = NoOrder /\ reserved = NoLines /\ late = "none" /\ refusal = "OK"
    /\ response = NoResponse /\ command = NoCommand

\* Go's conversion to int32 keeps the low bits.
int32(n) == ((n + Int32Max + 1) % (2 * (Int32Max + 1))) - (Int32Max + 1)

-----------------------------------------------------------------------------
(* From the HTTP body to the tables.                                        *)

Binds(items, email) ==
    /\ email \in BindsEmail
    /\ items # <<>>
    /\ \A n \in DOMAIN items : items[n].sku # "" /\ items[n].quantity > 0

Priced(items) == \A n \in DOMAIN items : TrimSKU[items[n].sku] \in DOMAIN Prices

orderItems(items) ==
    [n \in DOMAIN items |-> [sku      |-> TrimSKU[items[n].sku],
                             quantity |-> items[n].quantity,
                             price    |-> Prices[TrimSKU[items[n].sku]]]]

\* Bug of the mutant: only the single line is checked for overflow, and the sum
\* wraps around.
calculateTotalUnchecked(items) ==
    LET LineAmount(n) == items[n].price.amount * items[n].quantity
        sum[n \in 0..Len(items)] ==
            IF n = 0 THEN 0
            ELSE IF \/ sum[n - 1] = Invalid
                    \/ items[n].price.currency # items[1].price.currency
                    \/ items[n].price.amount > Int64Max \div items[n].quantity
                 THEN Invalid
                 ELSE (sum[n - 1] + LineAmount(n)) % (Int64Max + 1)
    IN  sum[Len(items)]

\* Overflow is found before it happens, by division and by subtraction.
calculateTotal(items) ==
    LET LineAmount(n) == items[n].price.amount * items[n].quantity
        sum[n \in 0..Len(items)] ==
            IF n = 0 THEN 0
            ELSE IF \/ sum[n - 1] = Invalid
                    \/ items[n].price.currency # items[1].price.currency
                    \/ items[n].price.amount > Int64Max \div items[n].quantity
                    \/ sum[n - 1] > Int64Max - LineAmount(n)
                 THEN Invalid
                 ELSE sum[n - 1] + LineAmount(n)
    IN  sum[Len(items)]

\* Bug of the mutant: the domain trusts the binding rule.
isEmailValidAlready(email) == TRUE

isEmailValid(email) == email \in ParsesEmail

\* Bug of the mutant: the column is wide enough for every quantity.
FitsColumnsBigint(items) == TRUE

\* PostgreSQL refuses a value that is out of the range of its INTEGER column.
FitsColumns(items) == \A n \in DOMAIN items : items[n].quantity <= Int32Max

Respond(code, shortfalls) ==
    /\ response' = [code |-> code, shortfalls |-> shortfalls]
    /\ pc' = "answered"

\* The request up to the insertion of the pending order, which may fail, and whose
\* reply may be lost.
Submit(email) ==
    /\ pc = "shopping"
    /\ LET items == orderItems(basket)
           total == calculateTotal(items)
       IN  \/ /\ ~Binds(basket, email)
              /\ Respond("invalid_request", {}) /\ UNCHANGED <<order, created>>
           \/ /\ Binds(basket, email) /\ ~Priced(basket)
              /\ Respond("product_not_found", {}) /\ UNCHANGED <<order, created>>
           \/ /\ Binds(basket, email) /\ Priced(basket)
              /\ \/ /\ total = Invalid \/ ~isEmailValid(email)
                    /\ Respond("validation_failed", {}) /\ UNCHANGED <<order, created>>
                 \/ /\ total # Invalid /\ isEmailValid(email)
                    /\ Respond("internal_error", {}) /\ UNCHANGED <<order, created>>
                 \/ /\ total # Invalid /\ isEmailValid(email) /\ FitsColumns(items)
                    /\ order' = [status |-> "pending", items |-> items, total |-> total,
                                 currency |-> items[1].price.currency, email |-> email]
                    /\ \/ created' = TRUE /\ pc' = "reserve" /\ UNCHANGED response
                       \/ Respond("internal_error", {}) /\ UNCHANGED created
    /\ UNCHANGED <<basket, reserved, late, refusal, command>>

-----------------------------------------------------------------------------
(* The reservation: across gRPC and back.                                   *)

\* The order keeps trimmed names; any name that trims to the same will do here.
RequestLines == [n \in DOMAIN order.items |->
    [sku |-> CHOOSE name \in DOMAIN TrimSKU : TrimSKU[name] = order.items[n].sku,
     quantity |-> int32(order.items[n].quantity)]]

ReserveStock == Canonicalize(OrderID, RequestLines)

\* The canonical lines that the claim goes through.
Asked(lines) == {sku \in SKUs : lines[sku] > 0}

\* The lines at which the claim cannot be made while free is what is free.
Failing(lines, free) ==
    {sku \in Asked(lines) : sku \notin Stocked \/ lines[sku] > free[sku]}

\* Bug of the mutant: every line is listed, also what is not short any more.
ShortfallsUnfiltered(lines, seen) ==
    {[sku |-> sku, requested |-> lines[sku], available |-> seen[sku]] :
        sku \in Asked(lines) \cap Stocked}

\* What describeFailure lists when it sees that seen is free.
Shortfalls(lines, seen) ==
    {[sku |-> sku, requested |-> lines[sku], available |-> seen[sku]] :
        sku \in {p \in Asked(lines) \cap Stocked : seen[p] < lines[p]}}

\* The code of the answer, when free is what is free to the claim. The products
\* that are not stocked come first if the refusal could be looked into
\* (explained); if not, it is the line at which the claim stopped that counts.
statusFor(request, free, explained) ==
    LET failing == Failing(request.lines, free)
        first   == CHOOSE sku \in failing : \A other \in failing : sku <= other
        unknown == IF explained THEN ~(Asked(request.lines) \subseteq Stocked)
                   ELSE first \notin Stocked
    IN  IF ~request.ok THEN "InvalidArgument"
        ELSE IF reserved # NoLines
             THEN IF reserved = request.lines THEN "OK" ELSE "AlreadyExists"
        ELSE IF failing = {} THEN "OK"
        ELSE IF unknown THEN "NotFound"
        ELSE "FailedPrecondition"

\* Bug of the mutant: a product that inventory does not know is reported as one
\* that the catalogue does not know.
respondUseCaseErrorNotFound(code) ==
    CASE code = "FailedPrecondition" -> "insufficient_stock"
      [] code = "NotFound" -> "product_not_found"
      [] code \in {"Unavailable", "DeadlineExceeded"} -> "inventory_unavailable"
      [] OTHER -> "internal_error"

\* statusError and respondUseCaseError: of the codes, one is a verdict on the
\* order, two mean try again, and the rest is a defect.
respondUseCaseError(code) ==
    CASE code = "FailedPrecondition" -> "insufficient_stock"
      [] code \in {"Unavailable", "DeadlineExceeded"} -> "inventory_unavailable"
      [] OTHER -> "internal_error"

\* The verdict is recorded and told, unless the clock has gone back behind the
\* order, the write fails, or its reply is lost.
Record(verdict, code, shortfalls) ==
    \/ order' = [order EXCEPT !.status = verdict] /\ Respond(code, shortfalls)
    \/ Respond("validation_failed", {}) /\ UNCHANGED order
    \/ Respond("internal_error", {}) /\ UNCHANGED order
    \/ order' = [order EXCEPT !.status = verdict] /\ Respond("internal_error", {})

\* An attempt at the reservation that brings an answer. What is free is up to
\* other orders and deliveries, and the refusal is explained by a query that is
\* made once the refused transaction is over: it may fail, or see other numbers.
Reserve(free, seen, explained) ==
    LET code    == statusFor(ReserveStock, free, explained)
        details == IF explained THEN Shortfalls(ReserveStock.lines, seen) ELSE {}
    IN  /\ pc = "reserve"
        /\ refusal' = code
        /\ \/ /\ code = "OK"
              /\ reserved' = ReserveStock.lines
              /\ Record("accepted", IF created THEN "created" ELSE "ok", {})
           \/ /\ code = "FailedPrecondition"
              /\ Record("rejected", respondUseCaseError(code), details)
              /\ UNCHANGED reserved
           \/ /\ code \notin {"OK", "FailedPrecondition"}
              /\ Respond(respondUseCaseError(code), {})
              /\ UNCHANGED <<order, reserved>>
        /\ UNCHANGED <<basket, created, late, command>>

\* What a call may do to the stock that the caller does not hear of.
MayReserve(free) ==
    \/ UNCHANGED reserved
    \/ /\ statusFor(ReserveStock, free, TRUE) = "OK"
       /\ reserved' = ReserveStock.lines

\* An attempt that brings no answer. It may have taken the stock, or may still do
\* so. Unless it was the last one, or the code says not to, it is repeated.
NoAnswer(code, free) ==
    /\ pc = "reserve"
    /\ MayReserve(free)
    /\ late' \in IF late = "underway" THEN {"underway"} ELSE {"underway", "over"}
    /\ \/ code # "Internal" /\ UNCHANGED <<pc, refusal, response>>
       \/ refusal' = code /\ Respond(respondUseCaseError(code), {})
    /\ UNCHANGED <<basket, created, order, command>>

\* A call that its caller gave up gets through to the warehouse.
LateReservation(free) ==
    /\ late = "underway"
    /\ MayReserve(free)
    /\ late' \in {"underway", "over"}
    /\ UNCHANGED <<basket, pc, created, order, refusal, response, command>>

\* The order is read back, with its rules checked again.
Reconstitutes ==
    calculateTotal(order.items) = order.total /\ isEmailValid(order.email)

\* The same key once more.
Replay ==
    /\ pc = "answered" /\ order # NoOrder
    /\ created' = FALSE
    /\ \/ ~Reconstitutes /\ Respond("validation_failed", {})
       \/ /\ Reconstitutes
          /\ \/ order.status = "accepted" /\ Respond("ok", {})
             \/ order.status = "rejected" /\ Respond("insufficient_stock", {})
             \/ order.status = "pending" /\ pc' = "reserve" /\ UNCHANGED response
    /\ UNCHANGED <<basket, order, reserved, late, refusal, command>>

-----------------------------------------------------------------------------
(* From the tables to the email.                                            *)

OrderAccepted == [total |-> order.total, currency |-> order.currency,
                  email |-> order.email, lines |-> order.items]

\* A stored payload that is valid JSON need not be an event.
eventFromPayload(payload) ==
    IF payload.lines = <<>> \/ payload.email = "" THEN NoOrder ELSE payload

protoOrderAccepted(event) ==
    [event EXCEPT !.lines = [n \in DOMAIN event.lines |->
        [event.lines[n] EXCEPT !.quantity = int32(@)]]]

validateLine(line) ==
    /\ line.sku # Blank /\ line.quantity > 0
    /\ line.price.currency \in {"EUR", "USD"} /\ line.price.amount >= 0

commandFrom(message) ==
    IF /\ message.email \in ParsesEmail
       /\ message.currency \in {"EUR", "USD"} /\ message.total >= 0
       /\ message.lines # <<>>
       /\ \A n \in DOMAIN message.lines : validateLine(message.lines[n])
    THEN [decoded |-> TRUE, total |-> message.total]
    ELSE Undecodable

\* The worker reads the event from the outbox and notification-service from the
\* queue; an event that one of them cannot read is set aside or parked.
Announce ==
    /\ pc = "answered" /\ order.status = "accepted" /\ command = NoCommand
    /\ LET event == eventFromPayload(OrderAccepted)
       IN  command' = IF event = NoOrder THEN Undecodable
                      ELSE commandFrom(protoOrderAccepted(event))
    /\ UNCHANGED <<basket, pc, created, order, reserved, late, refusal, response>>

AddLine(name, quantity) ==
    /\ pc = "shopping" /\ Len(basket) < MaxBasketLines
    /\ basket' = Append(basket, [sku |-> name, quantity |-> quantity])
    /\ UNCHANGED <<pc, created, order, reserved, late, refusal, response, command>>

Next ==
    \/ \E name \in DOMAIN TrimSKU, quantity \in Quantities : AddLine(name, quantity)
    \/ \E email \in Emails : Submit(email)
    \/ \E free, seen \in [Stocked -> Levels], explained \in BOOLEAN :
          Reserve(free, seen, explained)
    \/ \E code \in {"Unavailable", "DeadlineExceeded", "Internal"},
          free \in [Stocked -> Levels] : NoAnswer(code, free)
    \/ \E free \in [Stocked -> Levels] : LateReservation(free)
    \/ Replay
    \/ Announce

Spec == Init /\ [][Next]_vars

-----------------------------------------------------------------------------
\* Sent to inventory as they are, the lines of a basket are accepted exactly when
\* they are well-formed, and reduced to the total asked for of each product: a
\* definition that does not mention the order of the lines, so requests that
\* differ only in order, padding or splitting get the same verdict and the same
\* canonical lines, although the loop skips over the lines it refuses.
MatchesReference == \A id \in DOMAIN ParseOrder : CanonicalizeIsExact(id, basket)

\* What inventory holds for an order is nothing or exactly what its customer asked
\* for, and an accepted order has it, whichever of its calls took the stock: the
\* int32 of the reservation never wraps, because a quantity that would wrap does
\* not fit the table that the order is stored in first.
ReservedIsOrdered ==
    LET wanted == [sku \in SKUs |-> Total(basket, sku)]
    IN  /\ reserved \in {NoLines, wanted}
        /\ order.status = "accepted" => reserved = wanted

\* The total of a stored order is the exact sum of its lines, whatever the sizes
\* of the factors, and it is the total that the email states.
TotalIsExact ==
    order # NoOrder =>
        LET amounts == [n \in DOMAIN order.items |->
                            order.items[n].price.amount * order.items[n].quantity]
        IN  /\ order.total = SumFunction(amounts)
            /\ command \notin {NoCommand, Undecodable} => command.total = order.total

\* What the customer is told is what the tables say: a success has an accepted
\* order, "insufficient stock" a rejected one, for which stock is held only if one
\* of its calls went unanswered, a request that is turned away leaves no order
\* behind, and a broken rule or a warehouse that does not answer leaves none or
\* one without a verdict, which a repeat takes up.
AnswerIsTruthful ==
    pc = "answered" =>
        /\ response.code \in {"created", "ok"} => order.status = "accepted"
        /\ response.code = "insufficient_stock" =>
              order.status = "rejected" /\ (reserved # NoLines => late # "none")
        /\ response.code \in {"invalid_request", "product_not_found"} => order = NoOrder
        /\ response.code \in {"validation_failed", "inventory_unavailable"} =>
              order.status \in {"absent", "pending"}

\* The numbers behind a refusal are true to the request and to themselves, although
\* they are read when the refused claim is over and the stock has changed: only a
\* rejected order has them, each states the total that the customer asked for of a
\* product, over all lines, and says that less than that was free.
RefusalIsExplained ==
    pc = "answered" =>
        \A s \in response.shortfalls :
            /\ order.status = "rejected"
            /\ s.requested = Total(basket, s.sku)
            /\ s.available < s.requested

\* The event of an accepted order is one that notification-service can read:
\* the rules of the two services agree, and no order ends as a parked message.
EventDecodes == command # Undecodable

\* A basket that order-service let through is never refused by inventory as a
\* request: statusError calls such a refusal a defect rather than a customer
\* error.
ValidatedIsNeverRefused == refusal # "InvalidArgument"
=============================================================================
