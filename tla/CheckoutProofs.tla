--------------------------- MODULE CheckoutProofs ---------------------------
(***************************************************************************)
(* Theorems about Checkout for baskets of any length, any catalogue and    *)
(* any limits. The conversions are proved first: the sum that overflow     *)
(* checks guard, the reservation request that goes through int32, and the  *)
(* event on its way to notification-service. The invariant then says which *)
(* of their preconditions hold where the request stands.                   *)
(***************************************************************************)
EXTENDS Checkout, CanonicalProofs

-----------------------------------------------------------------------------
(* calculateTotal.                                                          *)

Items == Seq([sku : SKUs, quantity : Nat \ {0},
              price : [amount : Nat, currency : {"EUR", "USD"}]])

Amounts(items) == [n \in DOMAIN items |-> items[n].price.amount * items[n].quantity]

\* The loop gives up before it adds line n to before.
Overflows(items, n, before) ==
    \/ before = Invalid
    \/ items[n].price.currency # items[1].price.currency
    \/ items[n].price.amount > Int64Max \div items[n].quantity
    \/ before > Int64Max - items[n].price.amount * items[n].quantity

AddItem(items, n, before) ==
    IF Overflows(items, n, before) THEN Invalid
    ELSE before + items[n].price.amount * items[n].quantity

\* sum holds what the loop has after each of the first m items.
Adds(items, m, sum) ==
    sum = [n \in 0..m |-> IF n = 0 THEN 0 ELSE AddItem(items, n, sum[n - 1])]

\* The recursion of the loop has a solution.
LEMMA AddsExists ==
  ASSUME NEW items, NEW m \in Nat
  PROVE  \E sum : Adds(items, m, sum)
<1> DEFINE Bad == {n \in Nat : ~ \E sum : Adds(items, n, sum)}
<1> SUFFICES ASSUME Bad # {} PROVE FALSE
  BY Zenon
<1>1. PICK n \in Bad : \A k \in Bad : n <= k
  <2>1. Bad \in SUBSET Nat
    OBVIOUS
  <2> HIDE DEF Bad
  <2> QED
    BY <2>1, LeastNat
<1>2. CASE n = 0
  <2>1. Adds(items, 0, [k \in 0..0 |-> 0])
    BY DEF Adds
  <2> QED
    BY <1>1, <1>2, <2>1
<1>3. CASE n # 0
  <2>1. n - 1 \in Nat /\ n - 1 \notin Bad
    BY <1>1, <1>3
  <2>2. PICK sum : Adds(items, n - 1, sum)
    BY <2>1
  <2> DEFINE longer == [k \in 0..n |-> IF k < n THEN sum[k] ELSE AddItem(items, n, sum[n - 1])]
  <2>3. Adds(items, n, longer)
    <3>1. \A k \in 0..n - 1 : longer[k] = sum[k]
      OBVIOUS
    <3>2. \A k \in 0..n - 1 : sum[k] = IF k = 0 THEN 0 ELSE AddItem(items, k, sum[k - 1])
      BY <2>2 DEF Adds
    <3>3. \A k \in 0..n - 1 : k # 0 => longer[k - 1] = sum[k - 1]
      OBVIOUS
    <3>4. longer[n] = AddItem(items, n, sum[n - 1]) /\ longer[n - 1] = sum[n - 1]
      BY <1>3
    <3>5. ASSUME NEW k \in 0..n
          PROVE  longer[k] = IF k = 0 THEN 0 ELSE AddItem(items, k, longer[k - 1])
      <4>1. CASE k = n
        BY <1>3, <3>4, <4>1
      <4>2. CASE k # n
        <5>1. k \in 0..n - 1
          BY <4>2
        <5> HIDE DEF longer
        <5> QED
          BY <5>1, <3>1, <3>2, <3>3
      <4> QED
        BY <4>1, <4>2
    <3> QED
      BY <3>5, Zenon DEF Adds
  <2> QED
    BY <1>1, <2>3
<1> QED
  BY <1>2, <1>3

\* calculateTotal returns what the loop ends with.
LEMMA CalculateTotalIs ==
  ASSUME NEW items \in Items
  PROVE  \E sum : Adds(items, Len(items), sum) /\ calculateTotal(items) = sum[Len(items)]
<1> DEFINE sum == CHOOSE it : Adds(items, Len(items), it)
<1>1. Len(items) \in Nat
  BY DEF Items
<1>2. Adds(items, Len(items), sum)
  <2>1. \E it : Adds(items, Len(items), it)
    BY <1>1, AddsExists
  <2> QED
    BY <2>1
<1>3. calculateTotal(items) = sum[Len(items)]
  BY DEF calculateTotal, Adds, AddItem, Overflows
<1> QED
  BY <1>2, <1>3

\* The amount of a line is a natural number.
LEMMA AmountNat ==
  ASSUME NEW items \in Items, NEW n \in DOMAIN items
  PROVE  Amounts(items)[n] = items[n].price.amount * items[n].quantity /\ Amounts(items)[n] \in Nat
<1> DEFINE Item == [sku : SKUs, quantity : Nat \ {0},
                    price : [amount : Nat, currency : {"EUR", "USD"}]]
<1>1. items[n] \in Item
  <2>1. items \in Seq(Item)
    BY DEF Items
  <2> HIDE DEF Item
  <2> QED
    BY <2>1
<1>2. items[n].price.amount \in Nat /\ items[n].quantity \in Nat
  BY <1>1
<1>3. \A a, b \in Nat : a * b \in Nat
  OBVIOUS
<1> QED
  BY <1>2, <1>3 DEF Amounts

\* Where no overflow is found, the sum is exact.
LEMMA CalculateTotalExact ==
  ASSUME NEW items \in Items, calculateTotal(items) # Invalid
  PROVE  /\ calculateTotal(items) = SumFunction(Amounts(items))
         /\ calculateTotal(items) \in Nat
<1>1. PICK sum : Adds(items, Len(items), sum) /\ calculateTotal(items) = sum[Len(items)]
  BY CalculateTotalIs
<1>2. Len(items) \in Nat /\ DOMAIN items = 1..Len(items)
  BY DEF Items
<1> DEFINE f == Amounts(items)
           Exact(n) == sum[n] # Invalid => sum[n] = SumFunctionOnSet(f, 1..n) /\ sum[n] \in Nat
           Bad == {n \in 0..Len(items) : ~Exact(n)}
<1>3. Bad = {}
  <2> SUFFICES ASSUME Bad # {} PROVE FALSE
    OBVIOUS
  <2>1. PICK n \in Bad : \A k \in Bad : n <= k
    <3>1. Bad \in SUBSET Nat
      OBVIOUS
    <3> HIDE DEF Bad
    <3> QED
      BY <3>1, LeastNat
  <2>2. sum[n] = IF n = 0 THEN 0 ELSE AddItem(items, n, sum[n - 1])
    BY <1>1 DEF Adds
  <2>3. CASE n = 0
    <3>1. 1..n = {}
      BY <2>3
    <3>2. SumFunctionOnSet(f, 1..n) = 0
      BY <3>1, SumEmpty
    <3> QED
      BY <2>1, <2>2, <2>3, <3>2
  <2>4. CASE n # 0
    <3>1. n - 1 \in 0..Len(items) /\ Exact(n - 1) /\ n \in 1..Len(items)
      BY <1>2, <2>1, <2>4
    <3>2. sum[n] # Invalid
      BY <2>1
    <3> DEFINE amount == items[n].price.amount * items[n].quantity
    <3>3. ~Overflows(items, n, sum[n - 1]) /\ sum[n] = sum[n - 1] + amount
      BY <2>2, <2>4, <3>2 DEF AddItem
    <3>4. sum[n - 1] # Invalid
      BY <3>3 DEF Overflows
    <3>5. f[n] = amount /\ amount \in Nat /\ \A k \in 1..n : f[k] \in Nat
      BY <1>2, <3>1, AmountNat
    <3>6. 1..n = (1..(n - 1)) \cup {n} /\ n \notin 1..(n - 1) /\ n - 1 \in Nat
      BY <3>1
    <3>7. IsFiniteSet(1..(n - 1))
      BY <3>6, FS_Interval
    <3> HIDE DEF f, amount
    <3>8. SumFunctionOnSet(f, 1..n) = f[n] + SumFunctionOnSet(f, 1..(n - 1))
      <4> DEFINE S == 1..(n - 1)
      <4>1. IsFiniteSet(S) /\ n \notin S /\ 1..n = S \cup {n} /\ \A k \in S \cup {n} : f[k] \in Nat
        BY <3>5, <3>6, <3>7
      <4> HIDE DEF S
      <4>2. SumFunctionOnSet(f, S \cup {n}) = f[n] + SumFunctionOnSet(f, S)
        BY <4>1, SumAdds
      <4> QED
        BY <4>1, <4>2 DEF S
    <3>9. sum[n - 1] = SumFunctionOnSet(f, 1..(n - 1)) /\ sum[n - 1] \in Nat
      BY <3>1, <3>4
    <3>10. Exact(n)
      BY <3>3, <3>5, <3>8, <3>9
    <3> QED
      BY <2>1, <3>10
  <2> QED
    BY <2>3, <2>4
<1>4. Exact(Len(items))
  BY <1>2, <1>3
<1>5. DOMAIN f = 1..Len(items)
  BY <1>2 DEF Amounts
<1> QED
  BY <1>1, <1>4, <1>5 DEF SumFunction

-----------------------------------------------------------------------------
(* int32.                                                                   *)

\* A number below the modulus is its own remainder.
LEMMA ModSmall ==
  ASSUME NEW a \in Nat, NEW b \in Nat \ {0}, a < b
  PROVE  a % b = a
  OBVIOUS

\* A quantity that fits the INTEGER column crosses gRPC and AMQP unchanged.
LEMMA Int32Keeps ==
  ASSUME NEW q \in 0..Int32Max
  PROVE  int32(q) = q
<1>1. Int32Max \in Nat
  BY CheckoutAssumption
<1> DEFINE a == q + Int32Max + 1
           b == 2 * (Int32Max + 1)
<1>2. a \in Nat /\ b \in Nat \ {0} /\ a < b
  BY <1>1
<1>3. a - (Int32Max + 1) = q
  BY <1>1
<1>4. int32(q) = (a % b) - (Int32Max + 1)
  BY DEF int32
<1> HIDE DEF a, b
<1>5. a % b = a
  BY <1>2, ModSmall
<1> QED
  BY <1>3, <1>4, <1>5

-----------------------------------------------------------------------------
(* A basket that order-service stores, and the order it becomes.            *)

Storable(lines) ==
    /\ lines # <<>>
    /\ Priced(lines)
    /\ \A n \in DOMAIN lines : lines[n].quantity \in 1..Int32Max

\* The lines of a basket are lines.
LEMMA LineType ==
  ASSUME NEW lines \in RawLines, NEW n \in DOMAIN lines
  PROVE  /\ lines[n] \in [sku : DOMAIN TrimSKU, quantity : Int]
         /\ lines[n].sku \in DOMAIN TrimSKU /\ lines[n].quantity \in Int
<1> DEFINE Line == [sku : DOMAIN TrimSKU, quantity : Int]
<1>1. lines[n] \in Line
  <2>1. lines \in Seq(Line)
    BY DEF RawLines
  <2> HIDE DEF Line
  <2> QED
    BY <2>1
<1> QED
  BY <1>1

\* A function on the indices of a sequence is a sequence.
LEMMA MappedSeq ==
  ASSUME NEW S, NEW T, NEW s \in Seq(S), NEW f, f \in [DOMAIN s -> T]
  PROVE  f \in Seq(T) /\ Len(f) = Len(s) /\ (f = <<>> <=> s = <<>>)
<1>1. Len(s) \in Nat /\ DOMAIN s = 1..Len(s)
  OBVIOUS
<1>2. f \in [1..Len(s) -> T]
  BY <1>1
<1>3. f \in Seq(T)
  BY <1>1, <1>2
<1>4. Len(f) = Len(s)
  BY <1>1, <1>2, <1>3
<1> QED
  BY <1>3, <1>4

\* A priced basket with positive quantities becomes items of an order.
LEMMA OrderItemsType ==
  ASSUME NEW lines \in RawLines, Priced(lines), \A n \in DOMAIN lines : lines[n].quantity > 0
  PROVE  /\ orderItems(lines) \in Items
         /\ DOMAIN orderItems(lines) = DOMAIN lines
         /\ orderItems(lines) = <<>> <=> lines = <<>>
<1> DEFINE Item == [sku : SKUs, quantity : Nat \ {0},
                    price : [amount : Nat, currency : {"EUR", "USD"}]]
<1>1. ASSUME NEW n \in DOMAIN lines PROVE orderItems(lines)[n] \in Item
  <2>1. TrimSKU[lines[n].sku] \in DOMAIN Prices
    BY DEF Priced
  <2>2. Prices[TrimSKU[lines[n].sku]] \in [amount : Nat, currency : {"EUR", "USD"}]
    BY <2>1, CheckoutAssumption
  <2>3. TrimSKU[lines[n].sku] \in SKUs
    BY <2>1, CheckoutAssumption
  <2>4. lines[n].quantity \in Nat \ {0}
    BY LineType
  <2> QED
    BY <2>2, <2>3, <2>4 DEF orderItems
<1>2. orderItems(lines) \in [DOMAIN lines -> Item]
  BY <1>1 DEF orderItems
<1> HIDE DEF Item
<1>3. orderItems(lines) \in Seq(Item) /\ (orderItems(lines) = <<>> <=> lines = <<>>)
  BY <1>2, MappedSeq DEF RawLines
<1> QED
  BY <1>2, <1>3 DEF Items, Item

-----------------------------------------------------------------------------
(* The reservation request.                                                 *)

Wanted == [sku \in SKUs |-> Total(basket, sku)]

\* The request has the customer's lines, under names that trim to the same.
LEMMA RequestLinesSame ==
  ASSUME basket \in RawLines, Storable(basket), order.items = orderItems(basket)
  PROVE  /\ RequestLines \in RawLines
         /\ \A sku : Total(RequestLines, sku) = Total(basket, sku)
<1> DEFINE Line == [sku : DOMAIN TrimSKU, quantity : Int]
           lines == RequestLines
<1>1. DOMAIN order.items = DOMAIN basket
  BY DEF orderItems
<1>2. ASSUME NEW n \in DOMAIN basket
      PROVE  /\ lines[n] \in Line
             /\ TrimSKU[lines[n].sku] = TrimSKU[basket[n].sku]
             /\ lines[n].quantity = basket[n].quantity
  <2> DEFINE name == CHOOSE name \in DOMAIN TrimSKU : TrimSKU[name] = order.items[n].sku
  <2>1. order.items[n].sku = TrimSKU[basket[n].sku] /\ order.items[n].quantity = basket[n].quantity
    BY DEF orderItems
  <2>2. basket[n].sku \in DOMAIN TrimSKU
    BY LineType
  <2>3. name \in DOMAIN TrimSKU /\ TrimSKU[name] = TrimSKU[basket[n].sku]
    BY <2>1, <2>2
  <2>4. lines[n] = [sku |-> name, quantity |-> int32(order.items[n].quantity)]
    BY <1>1 DEF RequestLines
  <2>5. basket[n].quantity \in 0..Int32Max /\ basket[n].quantity \in Int
    <3>1. basket[n].quantity \in 1..Int32Max
      BY DEF Storable
    <3>2. Int32Max \in Nat
      BY CheckoutAssumption
    <3> QED
      BY <3>1, <3>2
  <2>6. int32(order.items[n].quantity) = basket[n].quantity
    BY <2>1, <2>5, Int32Keeps
  <2> HIDE DEF name, lines
  <2> QED
    BY <2>3, <2>4, <2>5, <2>6
<1>3. DOMAIN lines = DOMAIN basket
  BY <1>1 DEF RequestLines
<1>4. lines \in [DOMAIN basket -> Line]
  BY <1>1, <1>2 DEF RequestLines
<1>5. lines \in RawLines
  <2> HIDE DEF Line, lines
  <2>1. lines \in Seq(Line)
    BY <1>4, MappedSeq DEF RawLines
  <2> QED
    BY <2>1 DEF RawLines, Line
<1> HIDE DEF lines
<1>6. ASSUME NEW sku PROVE Total(lines, sku) = Total(basket, sku)
  <2> DEFINE f == [n \in DOMAIN lines |-> lines[n].quantity]
             g == [n \in DOMAIN basket |-> basket[n].quantity]
             S == LinesOf(basket, sku)
  <2>1. LinesOf(lines, sku) = S
    BY <1>2, <1>3 DEF LinesOf
  <2>2. \A n \in S : f[n] = g[n]
    BY <1>2, <1>3 DEF LinesOf
  <2>3. IsFiniteSet(S)
    <3>1. DOMAIN basket = 1..Len(basket) /\ Len(basket) \in Nat /\ S \subseteq DOMAIN basket
      BY DEF RawLines, LinesOf
    <3>2. IsFiniteSet(DOMAIN basket)
      BY <3>1, FS_Interval
    <3> HIDE DEF S
    <3> QED
      BY <3>1, <3>2, FS_Subset
  <2> HIDE DEF f, g, S
  <2>4. SumFunctionOnSet(f, S) = SumFunctionOnSet(g, S)
    BY <2>2, <2>3, SumSame
  <2> QED
    BY <2>1, <2>4 DEF Total, f, g, S
<1> QED
  BY <1>5, <1>6 DEF lines

\* What inventory makes of it.
LEMMA ReserveStockIs ==
  ASSUME basket \in RawLines, Storable(basket), order.items = orderItems(basket)
  PROVE  ReserveStock.ok => ReserveStock.lines = Wanted
<1>1. /\ RequestLines \in RawLines
      /\ \A sku : Total(RequestLines, sku) = Total(basket, sku)
  BY RequestLinesSame
<1>2. CanonicalizeIsExact(OrderID, RequestLines)
  BY <1>1, CanonicalizeExact, CheckoutAssumption
<1> QED
  BY <1>1, <1>2 DEF CanonicalizeIsExact, ReserveStock, Wanted

-----------------------------------------------------------------------------
(* The event.                                                               *)

StoredOrder ==
    /\ Storable(basket)
    /\ order.items = orderItems(basket)
    /\ order.total = calculateTotal(orderItems(basket)) /\ order.total # Invalid
    /\ order.currency \in {"EUR", "USD"}
    /\ order.email \in ParsesEmail

\* notification-service reads the event of a stored order, and finds its total.
LEMMA EventReadable ==
  ASSUME basket \in RawLines, StoredOrder
  PROVE  /\ eventFromPayload(OrderAccepted) = OrderAccepted
         /\ OrderAccepted # NoOrder
         /\ commandFrom(protoOrderAccepted(OrderAccepted)) = [decoded |-> TRUE, total |-> order.total]
<1> DEFINE items == orderItems(basket)
<1>1. \A n \in DOMAIN basket : basket[n].quantity \in 1..Int32Max /\ basket[n].quantity > 0
  <2>1. \A n \in DOMAIN basket : basket[n].quantity \in 1..Int32Max
    BY DEF StoredOrder, Storable
  <2>2. Int32Max \in Nat
    BY CheckoutAssumption
  <2> QED
    BY <2>1, <2>2
<1>2. items \in Items /\ items # <<>> /\ DOMAIN items = DOMAIN basket
  BY <1>1, OrderItemsType DEF StoredOrder, Storable
<1>3. order.total \in Nat
  BY <1>2, CalculateTotalExact DEF StoredOrder
<1>4. order.email # ""
  BY CheckoutAssumption DEF StoredOrder
<1>5. eventFromPayload(OrderAccepted) = OrderAccepted
  BY <1>2, <1>4 DEF eventFromPayload, OrderAccepted, StoredOrder
<1>6. OrderAccepted # NoOrder
  <2>1. DOMAIN OrderAccepted = {"total", "currency", "email", "lines"}
    BY DEF OrderAccepted
  <2>2. DOMAIN NoOrder = {"status"}
    BY DEF NoOrder
  <2>3. "email" \notin {"status"}
    OBVIOUS
  <2> QED
    BY <2>1, <2>2, <2>3
<1> DEFINE sent == [n \in DOMAIN items |-> [items[n] EXCEPT !.quantity = int32(items[n].quantity)]]
           message == protoOrderAccepted(OrderAccepted)
<1>7. /\ message.email = order.email /\ message.currency = order.currency
      /\ message.total = order.total /\ message.lines = sent
  BY DEF protoOrderAccepted, OrderAccepted, StoredOrder
<1>8. ASSUME NEW n \in DOMAIN sent PROVE validateLine(sent[n])
  <2> DEFINE Item == [sku : SKUs, quantity : Nat \ {0},
                      price : [amount : Nat, currency : {"EUR", "USD"}]]
  <2>1. n \in DOMAIN basket /\ n \in DOMAIN items
    BY <1>2
  <2>2. items[n] \in Item
    <3>1. items \in Seq(Item)
      BY <1>2 DEF Items
    <3> HIDE DEF Item, items
    <3> QED
      BY <2>1, <3>1
  <2>3. items[n].quantity \in 0..Int32Max
    <3>1. items[n].quantity = basket[n].quantity
      BY <2>1 DEF orderItems
    <3>2. Int32Max \in Nat
      BY CheckoutAssumption
    <3> HIDE DEF items
    <3> QED
      BY <1>1, <2>1, <3>1, <3>2
  <2>4. int32(items[n].quantity) = items[n].quantity
    BY <2>3, Int32Keeps
  <2>5. sent[n] = [items[n] EXCEPT !.quantity = items[n].quantity]
    BY <2>1, <2>4
  <2> HIDE DEF sent, items
  <2>6. /\ sent[n].sku \in SKUs /\ sent[n].quantity \in Nat \ {0}
        /\ sent[n].price.currency \in {"EUR", "USD"} /\ sent[n].price.amount \in Nat
    BY <2>2, <2>5
  <2> QED
    <3>1. sent[n].sku # Blank
      BY <2>6, CanonicalAssumption
    <3>2. sent[n].quantity > 0 /\ sent[n].price.amount >= 0
      BY <2>6
    <3> QED
      BY <2>6, <3>1, <3>2 DEF validateLine
<1>9. sent # <<>>
  <2>1. DOMAIN sent # {}
    <3>1. Len(items) # 0 /\ Len(items) \in Nat /\ DOMAIN items = 1..Len(items)
      <4> HIDE DEF items
      <4> QED
        BY <1>2 DEF Items
    <3>2. DOMAIN sent = DOMAIN items
      OBVIOUS
    <3> HIDE DEF sent, items
    <3> QED
      BY <3>1, <3>2
  <2> HIDE DEF sent, items
  <2> QED
    BY <2>1
<1> HIDE DEF sent, message
<1>10. commandFrom(message) = [decoded |-> TRUE, total |-> order.total]
  BY <1>3, <1>7, <1>8, <1>9 DEF commandFrom, StoredOrder
<1> QED
  BY <1>5, <1>6, <1>10 DEF message

-----------------------------------------------------------------------------
(* The invariant.                                                           *)

OrderRows ==
    [status : {"pending", "accepted", "rejected"}, items : Items, total : Int,
     currency : {"EUR", "USD"}, email : Emails]

\* The types, and what the request's place says about the order.
Places ==
    /\ basket \in RawLines
    /\ pc \in {"shopping", "reserve", "answered"}
    /\ order = NoOrder \/ order \in OrderRows
    /\ late \in {"none", "underway", "over"}
    /\ pc = "shopping" => order = NoOrder
    /\ pc = "reserve" => order # NoOrder /\ order.status = "pending"

\* Stock is held only for an order, and only what it asks for. A rejected order
\* may have it only if a call for it went unanswered.
Verdicts ==
    /\ reserved # NoLines => order # NoOrder /\ reserved = Wanted
    /\ late # "none" => order # NoOrder
    /\ order.status = "accepted" => reserved = Wanted
    /\ order.status = "rejected" => reserved = NoLines \/ late # "none"

\* The event has been read only if there is an order, and said its total.
Announced ==
    /\ command # NoCommand => order.status = "accepted"
    /\ command # NoCommand => command = [decoded |-> TRUE, total |-> order.total]

CInv ==
    /\ Places
    /\ order # NoOrder => StoredOrder
    /\ Verdicts
    /\ Announced
    /\ AnswerIsTruthful
    /\ RefusalIsExplained

-----------------------------------------------------------------------------
(* The invariant is inductive: one lemma per action.                        *)

\* The customer has not put anything into the basket.
LEMMA Initially ==
  ASSUME Init
  PROVE  CInv
<1> USE DEF Init
<1>1. Places
  BY DEF Places, RawLines
<1>2. order = NoOrder /\ order.status = "absent"
  BY DEF NoOrder
<1>3. Verdicts /\ Announced
  BY <1>2 DEF Verdicts, Announced
<1>4. AnswerIsTruthful /\ RefusalIsExplained
  BY DEF AnswerIsTruthful, RefusalIsExplained
<1> QED
  BY <1>1, <1>2, <1>3, <1>4 DEF CInv

\* Without an order nothing is held and nothing announced.
LEMMA NothingYet ==
  ASSUME CInv, order = NoOrder
  PROVE  order.status = "absent" /\ reserved = NoLines /\ late = "none" /\ command = NoCommand
<1>1. order.status = "absent"
  BY DEF NoOrder
<1> QED
  BY <1>1 DEF CInv, Verdicts, Announced

\* The customer fills the basket; there is no order yet.
LEMMA AddLineStep ==
  ASSUME CInv, NEW name \in DOMAIN TrimSKU, NEW quantity \in Quantities, AddLine(name, quantity)
  PROVE  CInv'
<1> USE DEF AddLine
<1>1. order = NoOrder
  BY DEF CInv, Places
<1>2. order.status = "absent" /\ reserved = NoLines /\ late = "none" /\ command = NoCommand
  BY <1>1, NothingYet
<1>3. basket' \in RawLines
  <2> DEFINE Line == [sku : DOMAIN TrimSKU, quantity : Int]
  <2>1. [sku |-> name, quantity |-> quantity] \in Line
    BY CheckoutAssumption
  <2>2. basket \in Seq(Line)
    BY DEF CInv, Places, RawLines
  <2> HIDE DEF Line
  <2>3. basket' \in Seq(Line)
    BY <2>1, <2>2
  <2> QED
    BY <2>3 DEF RawLines, Line
<1>4. Places'
  BY <1>1, <1>3 DEF CInv, Places
<1>5. Verdicts' /\ Announced'
  BY <1>2 DEF Verdicts, Announced
<1>6. AnswerIsTruthful' /\ RefusalIsExplained'
  BY DEF CInv, Places, AnswerIsTruthful, RefusalIsExplained
<1> QED
  BY <1>1, <1>4, <1>5, <1>6 DEF CInv

\* The request is turned away, and nothing is stored.
LEMMA TurnedAway ==
  ASSUME CInv, order = NoOrder, NEW code \in {"invalid_request", "product_not_found",
                                              "validation_failed", "internal_error"},
         Respond(code, {}), UNCHANGED <<order, basket, reserved, late, command>>
  PROVE  CInv'
<1> USE DEF Respond
<1>1. order.status = "absent" /\ reserved = NoLines /\ late = "none" /\ command = NoCommand
  BY NothingYet
<1>2. Places'
  BY DEF CInv, Places
<1>3. Verdicts' /\ Announced'
  BY <1>1 DEF Verdicts, Announced
<1>4. AnswerIsTruthful' /\ RefusalIsExplained'
  BY <1>1 DEF AnswerIsTruthful, RefusalIsExplained
<1> QED
  BY <1>2, <1>3, <1>4 DEF CInv

\* The request is turned away, or its order is stored with all rules checked.
LEMMA SubmitStep ==
  ASSUME CInv, NEW email \in Emails, Submit(email)
  PROVE  CInv'
<1> DEFINE items == orderItems(basket)
           total == calculateTotal(items)
           New == [status |-> "pending", items |-> items, total |-> total,
                   currency |-> items[1].price.currency, email |-> email]
           Stores == /\ Binds(basket, email) /\ Priced(basket)
                     /\ total # Invalid /\ isEmailValid(email) /\ FitsColumns(items)
                     /\ order' = New
                     /\ \/ pc' = "reserve"
                        \/ Respond("internal_error", {})
<1>1. order = NoOrder /\ basket \in RawLines
  BY DEF CInv, Places, Submit
<1>2. UNCHANGED <<basket, reserved, late, command>>
  BY DEF Submit
<1>3. \/ \E code \in {"invalid_request", "product_not_found", "validation_failed", "internal_error"} :
            Respond(code, {}) /\ UNCHANGED order
      \/ Stores
  BY DEF Submit
<1>4. ASSUME NEW code \in {"invalid_request", "product_not_found", "validation_failed", "internal_error"},
             Respond(code, {}), UNCHANGED order
      PROVE  CInv'
  BY <1>1, <1>2, <1>4, TurnedAway
<1>5. CASE Stores
  <2>1. reserved = NoLines /\ late = "none" /\ command = NoCommand
    BY <1>1, NothingYet
  <2>2. \A n \in DOMAIN basket : basket[n].quantity > 0
    BY <1>5 DEF Binds
  <2>3. items \in Items /\ items # <<>> /\ DOMAIN items = DOMAIN basket
    BY <1>1, <1>5, <2>2, OrderItemsType DEF Binds
  <2>4. \A n \in DOMAIN basket : basket[n].quantity \in 1..Int32Max
    <3> SUFFICES ASSUME NEW n \in DOMAIN basket PROVE basket[n].quantity \in 1..Int32Max
      OBVIOUS
    <3>1. items[n].quantity = basket[n].quantity
      BY DEF orderItems
    <3>2. items[n].quantity <= Int32Max
      BY <1>5, <2>3 DEF FitsColumns
    <3>3. basket[n].quantity \in Int /\ Int32Max \in Nat
      BY <1>1, LineType, CheckoutAssumption
    <3> HIDE DEF items
    <3> QED
      BY <2>2, <3>1, <3>2, <3>3
  <2>5. Storable(basket)
    BY <1>5, <2>4 DEF Storable, Binds
  <2>6. items[1].price.currency \in {"EUR", "USD"}
    <3> DEFINE Item == [sku : SKUs, quantity : Nat \ {0},
                        price : [amount : Nat, currency : {"EUR", "USD"}]]
    <3>1. items \in Seq(Item)
      BY <2>3 DEF Items
    <3>2. items[1] \in Item
      <4> HIDE DEF Item, items
      <4> QED
        BY <2>3, <3>1
    <3> HIDE DEF items
    <3> QED
      BY <3>2
  <2>7. total \in Nat
    BY <1>5, <2>3, CalculateTotalExact
  <2>8. email \in ParsesEmail
    BY <1>5 DEF isEmailValid
  <2>9. New \in OrderRows
    <3> HIDE DEF items, total
    <3> QED
      BY <2>3, <2>6, <2>7 DEF OrderRows
  <2>10. New # NoOrder
    <3>1. New.status # NoOrder.status
      BY DEF NoOrder
    <3> QED
      BY <3>1
  <2>11. Places'
    BY <1>1, <1>2, <1>5, <2>1, <2>9, <2>10 DEF Places, Respond
  <2>12. StoredOrder'
    <3>1. /\ order'.items = items /\ order'.total = total /\ order'.email = email
          /\ order'.currency = items[1].price.currency
      BY <1>5
    <3>2. Storable(basket)' /\ orderItems(basket)' = items
      BY <1>2, <2>5
    <3> QED
      BY <1>5, <2>6, <2>8, <3>1, <3>2 DEF StoredOrder
  <2>13. order'.status = "pending"
    BY <1>5
  <2>14. Verdicts' /\ Announced'
    BY <1>2, <2>1, <2>13 DEF Verdicts, Announced
  <2>15. AnswerIsTruthful' /\ RefusalIsExplained'
    BY <1>5 DEF AnswerIsTruthful, RefusalIsExplained, Respond
  <2> QED
    BY <2>11, <2>12, <2>14, <2>15 DEF CInv
<1> QED
  BY <1>3, <1>4, <1>5

\* A verdict changes the status and nothing that the request is computed from.
LEMMA StatusOnly ==
  ASSUME CInv, order # NoOrder, NEW verdict \in {"pending", "accepted", "rejected"},
         order' = [order EXCEPT !.status = verdict], UNCHANGED basket
  PROVE  /\ order' \in OrderRows /\ order'.status = verdict /\ order' # NoOrder
         /\ StoredOrder' /\ ReserveStock' = ReserveStock /\ order'.total = order.total
<1>1. order \in OrderRows
  BY DEF CInv, Places
<1>2. /\ order' \in OrderRows /\ order'.status = verdict /\ order'.items = order.items
      /\ order'.total = order.total /\ order'.currency = order.currency
      /\ order'.email = order.email
  BY <1>1 DEF OrderRows
<1>3. order' # NoOrder
  <2>1. order'.status # NoOrder.status
    BY <1>2 DEF NoOrder
  <2> QED
    BY <2>1
<1>4. StoredOrder'
  BY <1>2 DEF CInv, StoredOrder
<1>5. RequestLines' = RequestLines
  BY <1>2 DEF RequestLines
<1> QED
  BY <1>2, <1>3, <1>4, <1>5 DEF ReserveStock

\* Whatever Record does, the order has the status it had or the verdict.
LEMMA RecordStep ==
  ASSUME CInv, pc = "reserve", NEW verdict \in {"accepted", "rejected"}, NEW code, NEW shortfalls,
         Record(verdict, code, shortfalls), UNCHANGED basket
  PROVE  /\ order' \in OrderRows /\ order' # NoOrder /\ pc' = "answered"
         /\ StoredOrder' /\ ReserveStock' = ReserveStock /\ order'.total = order.total
         /\ \/ order'.status = verdict /\ response' = [code |-> code, shortfalls |-> shortfalls]
            \/ order'.status = verdict /\ response' = [code |-> "internal_error", shortfalls |-> {}]
            \/ /\ order'.status = "pending" /\ response'.shortfalls = {}
               /\ response'.code \in {"validation_failed", "internal_error"}
<1>1. order # NoOrder /\ order.status = "pending" /\ order \in OrderRows /\ StoredOrder
  BY DEF CInv, Places
<1>2. CASE order' = [order EXCEPT !.status = verdict]
  <2>1. /\ order' \in OrderRows /\ order'.status = verdict /\ order' # NoOrder
        /\ StoredOrder' /\ ReserveStock' = ReserveStock /\ order'.total = order.total
    BY <1>1, <1>2, StatusOnly
  <2>2. /\ pc' = "answered"
        /\ \/ response' = [code |-> code, shortfalls |-> shortfalls]
           \/ response' = [code |-> "internal_error", shortfalls |-> {}]
           \/ order' = order /\ response' = [code |-> "validation_failed", shortfalls |-> {}]
    BY DEF Record, Respond
  <2> QED
    BY <1>1, <2>1, <2>2
<1>3. CASE order' # [order EXCEPT !.status = verdict]
  <2>1. /\ order' = order /\ pc' = "answered" /\ response'.shortfalls = {}
        /\ response'.code \in {"validation_failed", "internal_error"}
    BY <1>3 DEF Record, Respond
  <2>2. StoredOrder' /\ ReserveStock' = ReserveStock
    BY <1>1, <2>1 DEF StoredOrder, ReserveStock, RequestLines
  <2> QED
    BY <1>1, <2>1, <2>2
<1> QED
  BY <1>2, <1>3

\* A status that is no verdict is never reported as one.
LEMMA ErrorCodes ==
  ASSUME NEW code \in {"InvalidArgument", "NotFound", "AlreadyExists",
                       "Unavailable", "DeadlineExceeded", "Internal"}
  PROVE  respondUseCaseError(code) \in {"inventory_unavailable", "internal_error"}
  BY DEF respondUseCaseError

\* An attempt that is answered with OK, or that goes unanswered and takes the
\* stock, takes what the order asks for.
LEMMA TakesWanted ==
  ASSUME CInv, order # NoOrder, NEW free, NEW explained,
         statusFor(ReserveStock, free, explained) = "OK"
  PROVE  ReserveStock.lines = Wanted
<1>1. ReserveStock.ok
  BY DEF statusFor
<1>2. StoredOrder /\ basket \in RawLines
  BY DEF CInv, Places
<1> QED
  BY <1>1, <1>2, ReserveStockIs DEF StoredOrder

\* While a request asks inventory, its order is stored and has no verdict.
LEMMA Asking ==
  ASSUME CInv, pc = "reserve"
  PROVE  /\ order # NoOrder /\ order.status = "pending" /\ order \in OrderRows /\ StoredOrder
         /\ basket \in RawLines /\ command = NoCommand
<1>1. order # NoOrder /\ order.status = "pending" /\ order \in OrderRows /\ basket \in RawLines
  BY DEF CInv, Places
<1> QED
  BY <1>1 DEF CInv, Announced

\* What the explanation of a refusal lists is short of what was asked for.
LEMMA ShortfallsShort ==
  ASSUME CInv, pc = "reserve", ReserveStock.ok, NEW seen, NEW s \in Shortfalls(ReserveStock.lines, seen)
  PROVE  s.requested = Total(basket, s.sku) /\ s.available < s.requested
<1>1. ReserveStock.lines = Wanted
  BY Asking, ReserveStockIs DEF StoredOrder
<1>2. PICK sku \in Asked(Wanted) \cap Stocked :
         /\ seen[sku] < Wanted[sku]
         /\ s = [sku |-> sku, requested |-> Wanted[sku], available |-> seen[sku]]
  BY <1>1 DEF Shortfalls
<1>3. Wanted[sku] = Total(basket, sku)
  BY <1>2 DEF Wanted, Asked
<1>4. s.requested = Wanted[sku] /\ s.available = seen[sku] /\ s.sku = sku
  BY <1>2
<1> QED
  BY <1>2, <1>3, <1>4

\* The answer of inventory, recorded or not, told or not.
LEMMA ReserveStep ==
  ASSUME CInv, NEW free, NEW seen, NEW explained, Reserve(free, seen, explained)
  PROVE  CInv'
<1> DEFINE code    == statusFor(ReserveStock, free, explained)
           details == IF explained THEN Shortfalls(ReserveStock.lines, seen) ELSE {}
           told    == IF created THEN "created" ELSE "ok"
<1>1. /\ order # NoOrder /\ order.status = "pending" /\ order \in OrderRows /\ StoredOrder
      /\ basket \in RawLines /\ command = NoCommand /\ pc = "reserve"
  BY Asking DEF Reserve
<1>2. UNCHANGED <<basket, created, late, command>> /\ Wanted' = Wanted
  BY DEF Reserve, Wanted
<1>3. late \in {"none", "underway", "over"}
  BY DEF CInv, Places
<1>4. code \in {"OK", "FailedPrecondition", "InvalidArgument", "NotFound", "AlreadyExists"}
  BY DEF statusFor
<1>5. \/ code = "OK" /\ reserved' = ReserveStock.lines /\ Record("accepted", told, {})
      \/ /\ code = "FailedPrecondition" /\ UNCHANGED reserved
         /\ Record("rejected", respondUseCaseError(code), details)
      \/ /\ code \notin {"OK", "FailedPrecondition"} /\ UNCHANGED <<order, reserved>>
         /\ Respond(respondUseCaseError(code), {})
  BY DEF Reserve
<1>6. code = "OK" => ReserveStock.lines = Wanted
  BY <1>1, TakesWanted
<1>7. code = "FailedPrecondition" => ReserveStock.ok /\ reserved = NoLines
  BY DEF statusFor
<1>8. ASSUME ReserveStock.ok, NEW s \in details
      PROVE  s.requested = Total(basket, s.sku) /\ s.available < s.requested
  BY <1>1, <1>8, ShortfallsShort
<1>9. Announced'
  BY <1>1, <1>2 DEF Announced
<1> HIDE DEF code, details
<1>10. CASE code = "OK"
  <2>1. /\ order' \in OrderRows /\ order' # NoOrder /\ pc' = "answered" /\ StoredOrder'
        /\ \/ order'.status = "accepted" /\ response' = [code |-> told, shortfalls |-> {}]
           \/ order'.status = "accepted" /\ response' = [code |-> "internal_error", shortfalls |-> {}]
           \/ /\ order'.status = "pending" /\ response'.shortfalls = {}
              /\ response'.code \in {"validation_failed", "internal_error"}
    BY <1>1, <1>2, <1>5, <1>10, RecordStep
  <2>2. reserved' = Wanted
    BY <1>5, <1>6, <1>10
  <2>3. Places' /\ Verdicts'
    BY <1>1, <1>2, <1>3, <2>1, <2>2 DEF Places, Verdicts
  <2>4. AnswerIsTruthful' /\ RefusalIsExplained'
    BY <2>1 DEF AnswerIsTruthful, RefusalIsExplained
  <2> QED
    BY <1>9, <2>1, <2>3, <2>4 DEF CInv
<1>11. CASE code = "FailedPrecondition"
  <2>1. Record("rejected", "insufficient_stock", details)
    BY <1>5, <1>11 DEF respondUseCaseError
  <2>2. /\ order' \in OrderRows /\ order' # NoOrder /\ pc' = "answered" /\ StoredOrder'
        /\ \/ order'.status = "rejected" /\ response' = [code |-> "insufficient_stock", shortfalls |-> details]
           \/ order'.status = "rejected" /\ response' = [code |-> "internal_error", shortfalls |-> {}]
           \/ /\ order'.status = "pending" /\ response'.shortfalls = {}
              /\ response'.code \in {"validation_failed", "internal_error"}
    BY <1>1, <1>2, <2>1, RecordStep
  <2>3. reserved' = NoLines
    BY <1>5, <1>7, <1>11
  <2>4. Places' /\ Verdicts'
    BY <1>1, <1>2, <1>3, <2>2, <2>3 DEF Places, Verdicts, NoLines
  <2>5. AnswerIsTruthful'
    BY <2>2, <2>3 DEF AnswerIsTruthful, NoLines
  <2>6. RefusalIsExplained'
    BY <1>2, <1>7, <1>8, <1>11, <2>2 DEF RefusalIsExplained
  <2> QED
    BY <1>9, <2>2, <2>4, <2>5, <2>6 DEF CInv
<1>12. CASE code \notin {"OK", "FailedPrecondition"}
  <2>1. respondUseCaseError(code) \in {"inventory_unavailable", "internal_error"}
    BY <1>4, <1>12, ErrorCodes
  <2>2. Respond(respondUseCaseError(code), {}) /\ UNCHANGED <<order, reserved>>
    BY <1>5, <1>12
  <2>3. Places'
    BY <1>1, <1>2, <1>3, <2>2 DEF Places, Respond
  <2>4. Verdicts' /\ StoredOrder'
    BY <1>1, <1>2, <2>2 DEF CInv, Verdicts, StoredOrder, NoLines
  <2>5. AnswerIsTruthful' /\ RefusalIsExplained'
    BY <1>1, <2>1, <2>2 DEF AnswerIsTruthful, RefusalIsExplained, Respond
  <2> QED
    BY <1>9, <2>3, <2>4, <2>5 DEF CInv
<1> QED
  BY <1>10, <1>11, <1>12

\* A call that is not heard of holds nothing but what the order asks for.
LEMMA MayReserveStep ==
  ASSUME CInv, order # NoOrder, NEW free, MayReserve(free)
  PROVE  reserved' = reserved \/ reserved' = Wanted
<1>1. statusFor(ReserveStock, free, TRUE) = "OK" => ReserveStock.lines = Wanted
  BY TakesWanted
<1> QED
  BY <1>1 DEF MayReserve

\* The attempt is repeated, or the customer is told to try again.
LEMMA NoAnswerStep ==
  ASSUME CInv, NEW code \in {"Unavailable", "DeadlineExceeded", "Internal"}, NEW free,
         NoAnswer(code, free)
  PROVE  CInv'
<1>1. /\ order # NoOrder /\ order.status = "pending" /\ order \in OrderRows /\ StoredOrder
      /\ basket \in RawLines /\ command = NoCommand /\ pc = "reserve"
  BY Asking DEF NoAnswer
<1>2. UNCHANGED <<basket, created, order, command>> /\ Wanted' = Wanted
  BY DEF NoAnswer, Wanted
<1>3. late' \in {"underway", "over"}
  BY DEF NoAnswer
<1>4. reserved' = reserved \/ reserved' = Wanted
  BY <1>1, MayReserveStep DEF NoAnswer
<1>5. respondUseCaseError(code) \in {"inventory_unavailable", "internal_error"}
  BY ErrorCodes
<1>6. \/ pc' = "reserve"
      \/ Respond(respondUseCaseError(code), {})
  BY <1>1 DEF NoAnswer
<1>7. Places'
  BY <1>1, <1>2, <1>3, <1>6 DEF Places, Respond
<1>8. Verdicts' /\ Announced' /\ StoredOrder'
  BY <1>1, <1>2, <1>4 DEF CInv, Verdicts, Announced, StoredOrder, NoLines
<1>9. AnswerIsTruthful' /\ RefusalIsExplained'
  BY <1>1, <1>2, <1>5, <1>6 DEF AnswerIsTruthful, RefusalIsExplained, Respond
<1> QED
  BY <1>7, <1>8, <1>9 DEF CInv

\* A late call takes the stock of an order that may have been rejected since.
LEMMA LateReservationStep ==
  ASSUME CInv, NEW free, LateReservation(free)
  PROVE  CInv'
<1>1. UNCHANGED <<basket, pc, created, order, refusal, response, command>> /\ Wanted' = Wanted
  BY DEF LateReservation, Wanted
<1>2. order # NoOrder
  BY DEF CInv, Verdicts, LateReservation
<1>3. late' \in {"underway", "over"}
  BY DEF LateReservation
<1>4. reserved' = reserved \/ reserved' = Wanted
  BY <1>2, MayReserveStep DEF LateReservation
<1>5. Places' /\ Announced' /\ StoredOrder'
  BY <1>1, <1>2, <1>3 DEF CInv, Places, Announced, StoredOrder
<1>6. Verdicts'
  BY <1>1, <1>2, <1>3, <1>4 DEF CInv, Verdicts, NoLines
<1>7. AnswerIsTruthful' /\ RefusalIsExplained'
  BY <1>1, <1>3 DEF CInv, AnswerIsTruthful, RefusalIsExplained
<1> QED
  BY <1>5, <1>6, <1>7 DEF CInv

\* A stored order passes the rules again, so a repeat is told its status.
LEMMA ReplayStep ==
  ASSUME CInv, Replay
  PROVE  CInv'
<1>1. /\ order # NoOrder /\ order \in OrderRows /\ StoredOrder /\ pc = "answered"
      /\ basket \in RawLines
  BY DEF CInv, Places, Replay
<1>2. UNCHANGED <<basket, order, reserved, late, refusal, command>>
  BY DEF Replay
<1>3. Reconstitutes
  BY <1>1 DEF Reconstitutes, StoredOrder, isEmailValid
<1>4. \/ order.status = "accepted" /\ Respond("ok", {})
      \/ order.status = "rejected" /\ Respond("insufficient_stock", {})
      \/ order.status = "pending" /\ pc' = "reserve" /\ UNCHANGED response
  BY <1>3 DEF Replay
<1>5. Places'
  BY <1>1, <1>2, <1>4 DEF CInv, Places, Respond
<1>6. Verdicts' /\ Announced' /\ StoredOrder'
  BY <1>1, <1>2 DEF CInv, Verdicts, Announced, StoredOrder, Wanted, NoLines
<1>7. order.status = "rejected" => reserved = NoLines \/ late # "none"
  BY DEF CInv, Verdicts
<1>8. AnswerIsTruthful' /\ RefusalIsExplained'
  BY <1>2, <1>4, <1>7 DEF AnswerIsTruthful, RefusalIsExplained, Respond, NoLines
<1> QED
  BY <1>5, <1>6, <1>8 DEF CInv

\* The event is read, and says the total of the order.
LEMMA AnnounceStep ==
  ASSUME CInv, Announce
  PROVE  CInv'
<1>1. /\ order.status = "accepted" /\ command = NoCommand
      /\ UNCHANGED <<basket, pc, created, order, reserved, late, refusal, response>>
  BY DEF Announce
<1>2. order # NoOrder
  BY <1>1 DEF NoOrder
<1>3. StoredOrder /\ basket \in RawLines
  BY <1>2 DEF CInv, Places
<1>4. command' = [decoded |-> TRUE, total |-> order.total]
  BY <1>3, EventReadable DEF Announce
<1>5. Places' /\ Verdicts' /\ StoredOrder'
  BY <1>1, <1>2 DEF CInv, Places, Verdicts, StoredOrder, Wanted, NoLines
<1>6. Announced'
  BY <1>1, <1>4 DEF Announced
<1>7. AnswerIsTruthful' /\ RefusalIsExplained'
  BY <1>1 DEF CInv, AnswerIsTruthful, RefusalIsExplained
<1> QED
  BY <1>5, <1>6, <1>7 DEF CInv

\* The invariant holds in every state of every behaviour.
LEMMA Inductive == Spec => []CInv
<1>1. Init => CInv
  BY Initially
<1>2. CInv /\ [Next]_vars => CInv'
  <2> SUFFICES ASSUME CInv, [Next]_vars PROVE CInv'
    OBVIOUS
  <2>1. CASE Next
    BY <2>1, AddLineStep, SubmitStep, ReserveStep, NoAnswerStep, LateReservationStep,
       ReplayStep, AnnounceStep DEF Next
  <2>2. CASE UNCHANGED vars
    BY <2>2 DEF vars, CInv, Places, Verdicts, StoredOrder, Wanted, Announced,
                AnswerIsTruthful, RefusalIsExplained
  <2> QED
    BY <2>1, <2>2
<1> QED
  BY <1>1, <1>2, PTL DEF Spec

-----------------------------------------------------------------------------
(* The theorems.                                                            *)

\* Whatever a customer puts together, sent to inventory as it is it is accepted
\* exactly when it is well-formed, and reduced to the totals asked for.
THEOREM BasketsReduced == Spec => []MatchesReference
<1>1. CInv => MatchesReference
  BY CanonicalizeExact DEF CInv, Places, MatchesReference
<1> QED
  BY <1>1, Inductive, PTL

\* Nothing is held for an order but what its customer asked for, through two
\* services, a table, an int32 and calls that come through late, and an accepted
\* order has it.
THEOREM ReservesWhatWasOrdered == Spec => []ReservedIsOrdered
<1>1. CInv => ReservedIsOrdered
  BY DEF CInv, Verdicts, ReservedIsOrdered, Wanted
<1> QED
  BY <1>1, Inductive, PTL

\* The overflow checks of calculateTotal are enough: the total of a stored order
\* is the exact sum of its lines, and the email states it.
THEOREM TotalsAreExact == Spec => []TotalIsExact
<1>1. ASSUME CInv PROVE TotalIsExact
  <2> SUFFICES ASSUME order # NoOrder
               PROVE  /\ order.total = SumFunction(Amounts(order.items))
                      /\ command \notin {NoCommand, Undecodable} => command.total = order.total
    BY DEF TotalIsExact, Amounts
  <2>1. order \in OrderRows /\ StoredOrder
    BY <1>1 DEF CInv, Places
  <2>2. order.items \in Items
    BY <2>1 DEF OrderRows
  <2>3. order.total = SumFunction(Amounts(order.items))
    BY <2>1, <2>2, CalculateTotalExact DEF StoredOrder
  <2>4. command # NoCommand => command.total = order.total
    BY <1>1 DEF CInv, Announced
  <2> QED
    BY <2>3, <2>4
<1> QED
  BY <1>1, Inductive, PTL

\* What the customer is told is what the tables say, over any number of repeats
\* of the request, failed writes, lost replies and late calls.
THEOREM AnswersAreTruthful == Spec => []AnswerIsTruthful
<1>1. CInv => AnswerIsTruthful
  BY DEF CInv
<1> QED
  BY <1>1, Inductive, PTL

\* The numbers behind a refusal are about the request and say that it cannot be
\* met, whatever happens to the stock between the refusal and the query.
THEOREM RefusalsAreExplained == Spec => []RefusalIsExplained
<1>1. CInv => RefusalIsExplained
  BY DEF CInv
<1> QED
  BY <1>1, Inductive, PTL

\* notification-service can read the event of every accepted order.
THEOREM EventsDecode == Spec => []EventDecodes
<1>1. ASSUME CInv PROVE EventDecodes
  <2>1. command = NoCommand \/ command = [decoded |-> TRUE, total |-> order.total]
    BY <1>1 DEF CInv, Announced
  <2>2. "total" \in DOMAIN command
    BY <2>1 DEF NoCommand
  <2>3. DOMAIN Undecodable = {"decoded"}
    BY DEF Undecodable
  <2>4. "total" \notin {"decoded"}
    OBVIOUS
  <2> QED
    BY <2>2, <2>3, <2>4 DEF EventDecodes
<1> QED
  BY <1>1, Inductive, PTL
=============================================================================
