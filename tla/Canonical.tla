----------------------------- MODULE Canonical -----------------------------
(***************************************************************************)
(* Canonicalize, the function every ReserveStock call goes through before  *)
(* the warehouse is touched: it validates a request and reduces its lines  *)
(* to one quantity per product.                                            *)
(*                                                                         *)
(* Products are natural numbers, so that the byte order of their names is  *)
(* the order <= of the numbers; the sorted slice the code returns is then  *)
(* the function from products to quantities read in that order, 0 meaning  *)
(* that the product has no line.                                           *)
(***************************************************************************)
EXTENDS Naturals, Integers, Sequences, Functions

CONSTANTS
    Orders,                 \* order ids, as the uuid column stores them
    SKUs,                   \* product names after trimming
    TrimSKU,                \* strings.TrimSpace on the names callers send
    ParseOrder,             \* TrimSpace and uuid.Parse on the ids callers send
    NotAUUID,               \* what ParseOrder makes of anything else
    maxLineQuantity,
    maxLines,
    maxReportedViolations

Blank == 0

ASSUME CanonicalAssumption ==
    /\ SKUs \subseteq Nat \ {Blank}
    /\ \A name \in DOMAIN TrimSKU : TrimSKU[name] \in SKUs \cup {Blank}
    /\ NotAUUID \notin Orders
    /\ \A id \in DOMAIN ParseOrder : ParseOrder[id] \in Orders \cup {NotAUUID}
    /\ maxLineQuantity \in Nat /\ maxLines \in Nat
    /\ maxReportedViolations \in Nat \ {0}

NoLines == [sku \in SKUs |-> 0]

-----------------------------------------------------------------------------
(* violationReport: at most maxReportedViolations are kept, the rest counted *)

EmptyReport == [violations |-> <<>>, omitted |-> 0]

add(report, field) ==
    IF Len(report.violations) >= maxReportedViolations
    THEN [report EXCEPT !.omitted = @ + 1]
    ELSE [report EXCEPT !.violations = Append(@, field)]

-----------------------------------------------------------------------------
(* One turn of the loop over the lines. A line that breaks a rule is       *)
(* reported and left out; the running total is compared by subtraction, so *)
(* that it is never computed past the limit.                               *)

\* Bug of the mutant: only the single line is bounded, not the running total.
RefusedWithoutTotal(quantities, line) ==
    LET sku == TrimSKU[line.sku]
    IN  \/ sku = Blank
        \/ line.quantity <= 0
        \/ line.quantity > maxLineQuantity

Refused(quantities, line) ==
    LET sku == TrimSKU[line.sku]
    IN  \/ sku = Blank
        \/ line.quantity <= 0
        \/ line.quantity > maxLineQuantity
        \/ quantities[sku] > maxLineQuantity - line.quantity

TakeLine(walked, index, line) ==
    IF Refused(walked.quantities, line)
    THEN [walked EXCEPT !.report = add(@, index)]
    ELSE [walked EXCEPT !.quantities[TrimSKU[line.sku]] = @ + line.quantity]

\* The fields that are wrong before the first line is looked at; 0 names the
\* request itself where a positive number names a line.
HeaderReport(orderID, lines) ==
    LET badOrder == IF ParseOrder[orderID] = NotAUUID
                    THEN add(EmptyReport, 0) ELSE EmptyReport
    IN  IF Len(lines) = 0 \/ Len(lines) > maxLines THEN add(badOrder, 0) ELSE badOrder

Canonicalize(orderID, lines) ==
    LET header == HeaderReport(orderID, lines)
        walk[n \in 0..Len(lines)] ==
            IF n = 0
            THEN [report |-> header, quantities |-> NoLines]
            ELSE TakeLine(walk[n - 1], n, lines[n])
        end == IF Len(lines) > maxLines
               THEN [report |-> header, quantities |-> NoLines]
               ELSE walk[Len(lines)]
        ok == end.report.violations = <<>>
    IN  [ok     |-> ok,
         order  |-> IF ok THEN ParseOrder[orderID] ELSE NotAUUID,
         lines  |-> IF ok THEN end.quantities ELSE NoLines,
         report |-> end.report]

-----------------------------------------------------------------------------
(* What Canonicalize is meant to compute, without a loop: the lines of one *)
(* product, their total, and the requests that break no rule.              *)

RawLines == Seq([sku : DOMAIN TrimSKU, quantity : Int])

LinesOf(lines, sku) == {n \in DOMAIN lines : TrimSKU[lines[n].sku] = sku}

Total(lines, sku) ==
    SumFunctionOnSet([n \in DOMAIN lines |-> lines[n].quantity], LinesOf(lines, sku))

WellFormed(orderID, lines) ==
    /\ ParseOrder[orderID] # NotAUUID
    /\ Len(lines) \in 1..maxLines
    /\ LinesOf(lines, Blank) = {}
    /\ \A n \in DOMAIN lines : lines[n].quantity \in 1..maxLineQuantity
    /\ \A sku \in SKUs : Total(lines, sku) <= maxLineQuantity

\* Requests are accepted exactly when they are well-formed, and reduced to the
\* total asked for of each product.
CanonicalizeIsExact(orderID, lines) ==
    LET result == Canonicalize(orderID, lines)
    IN  /\ result.ok = WellFormed(orderID, lines)
        /\ result.ok => /\ result.order = ParseOrder[orderID]
                        /\ result.lines = [sku \in SKUs |-> Total(lines, sku)]

=============================================================================
