-------------------------- MODULE InventoryProofs --------------------------
(***************************************************************************)
(* Theorems about Inventory for any set of calls, orders, products and     *)
(* requests. All of them come from one inductive invariant, IInv, whose    *)
(* conjuncts say what a call has written at each point of its transaction, *)
(* who owns a lock, and what a lost race tells about the winner.           *)
(***************************************************************************)
EXTENDS Inventory, CanonicalProofs

\* How far the transaction of a call has come, by the point the call is at: the
\* rows written are lines of its basket, each line is inserted before it is
\* taken, and lines are claimed from the first product to the last.
ProgressOf(c) ==
    /\ \A sku \in taken[c] : sku \in inserted[c]
    /\ \A sku \in inserted[c] : basket[c][sku] # 0
    /\ pc[c] \in {"idle", "find", "describe", "done"} => \A sku \in SKUs : sku \notin inserted[c]
    /\ pc[c] = "insert" => \A sku \in inserted[c] : sku \in taken[c]
    /\ pc[c] = "commit" => \A sku \in SKUs : basket[c][sku] # 0 => sku \in taken[c]
    /\ pc[c] = "commit" => \E sku \in SKUs : basket[c][sku] # 0
    /\ pc[c] \in InFlight => order[c] \in Orders

LastLineOf(c) ==
    pc[c] = "take" =>
        \E sku \in inserted[c] :
            /\ sku \notin taken[c]
            /\ \A other \in inserted[c] : other # sku => other \in taken[c] /\ other < sku

SortedOf(c) ==
    \A sku \in inserted[c] : \A later \in SKUs :
        basket[c][later] # 0 /\ later \notin inserted[c] => sku < later

\* A call that lost the race for its order id can see the winner, and is on its
\* first pass; on its second it only looks the winner up.
WinnerOf(c) ==
    /\ pc[c] \in InFlight => pass[c] \in 1..claimAttempts
    /\ pc[c] \in InFlight /\ pass[c] = claimAttempts =>
          pc[c] = "find" /\ \E sku \in SKUs : reservations[order[c]][sku] # 0
    /\ result[c] = "AlreadyClaimed" =>
          pc[c] = "rollback" /\ \E sku \in SKUs : reservations[order[c]][sku] # 0
    /\ result[c] # "GaveUp"

\* A call has an answer only when it is done, and OK means the basket is held.
AnswerOf(c) ==
    /\ result[c] \in {"OK", "Failed"} => pc[c] = "done"
    /\ pc[c] \in {"idle", "find", "insert", "take", "commit"} => result[c] = "none"
    /\ result[c] = "OK" =>
          /\ order[c] \in Orders
          /\ \E sku \in SKUs : basket[c][sku] # 0
          /\ \A sku \in SKUs : basket[c][sku] # 0 =>
                reservations[order[c]][sku] = basket[c][sku]

CallInv(c) == ProgressOf(c) /\ LastLineOf(c) /\ SortedOf(c) /\ WinnerOf(c) /\ AnswerOf(c)

\* A locked stock row is one its transaction has updated.
LocksOwned ==
    \A sku \in Stocked : \A c \in Calls : rowLock[sku] = c <=> sku \in taken[c]

\* No two open transactions have inserted the same key, and none has inserted
\* a key that is in the table.
KeysUnique ==
    \A c \in Calls : \A sku \in inserted[c] :
        /\ reservations[order[c]][sku] = 0
        /\ \A d \in Calls : order[d] = order[c] /\ sku \in inserted[d] => d = c

IInv ==
    /\ TypeOK
    /\ \A c \in Calls : CallInv(c)
    /\ LocksOwned
    /\ KeysUnique
    /\ NeverOverbooked
    /\ AllOrNothing

-----------------------------------------------------------------------------
(* What a step does not touch keeps its part of the invariant.              *)

SameCall(c) ==
    /\ pc'[c] = pc[c]
    /\ order'[c] = order[c]
    /\ basket'[c] = basket[c]
    /\ pass'[c] = pass[c]
    /\ inserted'[c] = inserted[c]
    /\ taken'[c] = taken[c]
    /\ result'[c] = result[c]

RowsStay ==
    \A o \in Orders : \A sku \in SKUs :
        reservations[o][sku] # 0 => reservations'[o][sku] = reservations[o][sku]

\* A step of another call, or of the warehouse, keeps what is known of a call:
\* the rows of the reservations table that it relies on stay.
LEMMA CallFrame ==
    ASSUME NEW c \in Calls, TypeOK, CallInv(c), SameCall(c), RowsStay
    PROVE  CallInv(c)'
<1> USE DEF SameCall, InFlight
<1>1. ProgressOf(c)'
  BY DEF CallInv, ProgressOf
<1>2. LastLineOf(c)'
  BY DEF CallInv, LastLineOf
<1>3. SortedOf(c)'
  BY DEF CallInv, SortedOf
<1>4. WinnerOf(c)'
  <2>1. ASSUME pc[c] \in InFlight \/ result[c] = "AlreadyClaimed"
        PROVE  order[c] \in Orders
    BY <2>1 DEF CallInv, ProgressOf, WinnerOf, InFlight
  <2> QED
    BY <2>1 DEF CallInv, WinnerOf, RowsStay, TypeOK
<1>5. AnswerOf(c)'
  BY DEF CallInv, AnswerOf, RowsStay
<1> QED
  BY <1>1, <1>2, <1>3, <1>4, <1>5 DEF CallInv

\* AllOrNothing, row by row: c is the call that reserved this row.
CompleteBasket(c, o, sku) ==
    /\ order[c] = o /\ basket[c][sku] # 0
    /\ result[c] \in {"OK", "Failed"}
    /\ \A line \in SKUs : basket[c][line] # 0 => reservations[o][line] = basket[c][line]

\* The set-based statement of AllOrNothing and the one by rows are the same.
LEMMA AllOrNothingByBasket ==
    /\ AllOrNothing <=> \A o \in Orders : \A sku \in SKUs : reservations[o][sku] # 0 =>
                            \E c \in Calls : CompleteBasket(c, o, sku)
    /\ AllOrNothing' <=> \A o \in Orders : \A sku \in SKUs : reservations'[o][sku] # 0 =>
                            \E c \in Calls : CompleteBasket(c, o, sku)'
  BY DEF AllOrNothing, CompleteBasket, Held, Lines

\* The complete baskets in the table stay complete while their rows and the
\* calls that reserved them stay.
LEMMA BasketsFrame ==
    ASSUME TypeOK, AllOrNothing, UNCHANGED reservations,
           \A c \in Calls : result[c] \in {"OK", "Failed"} => SameCall(c)
    PROVE  AllOrNothing'
<1> SUFFICES ASSUME NEW o \in Orders, NEW sku \in SKUs, reservations'[o][sku] # 0
             PROVE  \E c \in Calls : CompleteBasket(c, o, sku)'
  BY AllOrNothingByBasket
<1>1. PICK c \in Calls : CompleteBasket(c, o, sku)
  BY AllOrNothingByBasket
<1>2. SameCall(c)
  BY <1>1 DEF CompleteBasket
<1>3. CompleteBasket(c, o, sku)'
  BY <1>1, <1>2 DEF CompleteBasket, SameCall
<1> QED
  BY <1>3

-----------------------------------------------------------------------------
(* The invariant is inductive: one lemma per action.                        *)

\* What an accepted request is reduced to.
LEMMA RequestReduced ==
    ASSUME NEW r \in Requests
    PROVE  /\ CanonicalForm(r).ok \in BOOLEAN
           /\ CanonicalForm(r).ok => /\ CanonicalForm(r).order \in Orders
                                     /\ CanonicalForm(r).lines \in [SKUs -> Nat]
<1>1. r.order \in DOMAIN ParseOrder /\ r.lines \in RawLines
  BY RequestAssumption
<1> QED
  BY <1>1, CanonicalType DEF CanonicalForm

\* A call arrives with its canonical basket, or is refused as invalid.
LEMMA ReserveStockStep ==
    ASSUME IInv, NEW c \in Calls, NEW r \in Requests, ReserveStock(c, r)
    PROVE  IInv'
<1> USE DEF IInv, ReserveStock, tables
<1>1. TypeOK'
  <2>1. CASE CanonicalForm(r).ok
    <3>1. /\ CanonicalForm(r).order \in Orders
          /\ CanonicalForm(r).lines \in [SKUs -> Nat]
      BY <2>1, RequestReduced
    <3>2. order' \in [Calls -> Orders \cup {NotAUUID}]
      BY <2>1, <3>1 DEF TypeOK
    <3>3. basket' \in [Calls -> [SKUs -> Nat]]
      BY <2>1, <3>1 DEF TypeOK
    <3>4. pc' \in [Calls -> InFlight \cup {"idle", "done"}]
      <4>1. pc' = [pc EXCEPT ![c] = "find"]
        BY <2>1
      <4> HIDE DEF IInv, ReserveStock
      <4>2. pc \in [Calls -> InFlight \cup {"idle", "done"}] /\ "find" \in InFlight
        BY DEF IInv, TypeOK, InFlight
      <4> QED BY <4>1, <4>2
    <3>5. pass' \in [Calls -> 0..claimAttempts]
      <4>1. pass' = [pass EXCEPT ![c] = 1] /\ 1 \in 0..claimAttempts
        BY <2>1 DEF claimAttempts
      <4> QED BY <4>1 DEF TypeOK
    <3> QED
      BY <2>1, <3>2, <3>3, <3>4, <3>5 DEF TypeOK
  <2>2. CASE ~CanonicalForm(r).ok
    BY <2>2 DEF TypeOK, InFlight, Results
  <2> QED BY <2>1, <2>2
<1>2. /\ \A d \in Calls \ {c} : SameCall(d)
      /\ RowsStay
  BY DEF TypeOK, SameCall, RowsStay
<1>3. inserted[c] = {} /\ taken[c] = {}
  BY InventoryAssumption DEF CallInv, ProgressOf, TypeOK
<1>4. CallInv(c)'
  <2>1. ProgressOf(c)'
    BY <1>3, RequestReduced DEF CallInv, ProgressOf, TypeOK, InFlight
  <2>2. LastLineOf(c)'
    BY DEF CallInv, LastLineOf, TypeOK
  <2>3. SortedOf(c)'
    BY <1>3 DEF SortedOf, TypeOK
  <2>4. WinnerOf(c)'
    BY DEF CallInv, WinnerOf, AnswerOf, TypeOK, InFlight, claimAttempts
  <2>5. AnswerOf(c)'
    BY DEF CallInv, AnswerOf, TypeOK
  <2> QED BY <2>1, <2>2, <2>3, <2>4, <2>5 DEF CallInv
<1>5. \A d \in Calls : CallInv(d)'
  BY <1>2, <1>4, CallFrame
<1>6. LocksOwned'
  BY DEF LocksOwned
<1>7. KeysUnique'
  BY <1>2, <1>3 DEF KeysUnique, SameCall
<1>8. NeverOverbooked'
  BY <1>2, <1>3 DEF NeverOverbooked, LocksOwned, SameCall, TypeOK
<1>9. AllOrNothing'
  BY <1>2, BasketsFrame DEF CallInv, AnswerOf
<1> QED
  BY <1>1, <1>5, <1>6, <1>7, <1>8, <1>9

\* The lookup: a reservation found is confirmed or refused, never changed.
LEMMA FindStep ==
    ASSUME IInv, NEW c \in Calls, Find(c)
    PROVE  IInv'
<1> USE DEF IInv, Find, tables, request
<1>1. TypeOK'
  BY DEF TypeOK, InFlight, Results, confirmSameProducts
<1>2. /\ \A d \in Calls \ {c} : SameCall(d)
      /\ RowsStay
  BY DEF TypeOK, SameCall, RowsStay
<1>3. inserted[c] = {} /\ taken[c] = {} /\ order[c] \in Orders
  BY InventoryAssumption DEF CallInv, ProgressOf, TypeOK, InFlight
<1>4. CallInv(c)'
  <2>1. ProgressOf(c)'
    BY <1>3 DEF CallInv, ProgressOf, TypeOK, InFlight
  <2>2. LastLineOf(c)'
    BY DEF LastLineOf, TypeOK
  <2>3. SortedOf(c)'
    BY <1>3 DEF SortedOf, TypeOK
  <2>4. WinnerOf(c)'
    BY DEF CallInv, WinnerOf, AnswerOf, TypeOK, InFlight, claimAttempts, Held,
           confirmSameProducts
  <2>5. AnswerOf(c)'
    BY <1>3 DEF CallInv, AnswerOf, TypeOK, Held, confirmSameProducts
  <2> QED BY <2>1, <2>2, <2>3, <2>4, <2>5 DEF CallInv
<1>5. \A d \in Calls : CallInv(d)'
  BY <1>2, <1>4, CallFrame
<1>6. LocksOwned'
  BY DEF LocksOwned
<1>7. KeysUnique'
  BY DEF KeysUnique
<1>8. NeverOverbooked'
  BY DEF NeverOverbooked
<1>9. AllOrNothing'
  BY <1>2, BasketsFrame DEF CallInv, AnswerOf
<1> QED
  BY <1>1, <1>5, <1>6, <1>7, <1>8, <1>9

\* The insert: a key becomes pending, or a lost race or an unknown product ends
\* the transaction.
LEMMA ClaimReservationStep ==
    ASSUME IInv, NEW c \in Calls, NEW sku \in SKUs, claimReservation(c, sku)
    PROVE  IInv'
<1> USE DEF IInv, claimReservation, tables, request
<1>1. TypeOK'
  <2>1. sku \in Stocked => inserted[c] \cup {sku} \in SUBSET Stocked
    BY DEF TypeOK
  <2>2. inserted' \in [Calls -> SUBSET Stocked]
    BY <2>1 DEF TypeOK
  <2> QED
    BY <2>2 DEF TypeOK, InFlight, Results
<1>2. /\ \A d \in Calls \ {c} : SameCall(d)
      /\ RowsStay
  BY DEF TypeOK, SameCall, RowsStay
<1>3. /\ order[c] \in Orders
      /\ basket[c][sku] # 0 /\ sku \notin inserted[c]
      /\ \A other \in SKUs : basket[c][other] # 0 /\ other \notin inserted[c] => sku <= other
  BY DEF CallInv, ProgressOf, InFlight, IsNextLine, Lines
<1>4. CallInv(c)'
  <2>1. ProgressOf(c)'
    BY <1>3 DEF CallInv, ProgressOf, TypeOK, InFlight
  <2>2. LastLineOf(c)'
    <3> SUFFICES ASSUME pc'[c] = "take"
                 PROVE  \E last \in inserted'[c] :
                           /\ last \notin taken'[c]
                           /\ \A other \in inserted'[c] :
                                 other # last => other \in taken'[c] /\ other < last
      BY DEF LastLineOf
    <3>1. inserted'[c] = inserted[c] \cup {sku} /\ taken'[c] = taken[c]
      BY DEF TypeOK
    <3>2. \A other \in inserted[c] : other \in taken[c] /\ other < sku
      BY <1>3 DEF CallInv, ProgressOf, SortedOf
    <3>3. sku \notin taken[c]
      BY <1>3 DEF CallInv, ProgressOf
    <3> QED
      BY <3>1, <3>2, <3>3
  <2>3. SortedOf(c)'
    <3> SUFFICES ASSUME NEW x \in inserted'[c], NEW later \in SKUs,
                        basket[c][later] # 0, later \notin inserted'[c]
                 PROVE  x < later
      BY DEF SortedOf
    <3>1. x \in Nat /\ later \in Nat /\ sku \in Nat
      BY <1>1, InventoryAssumption, CanonicalAssumption DEF TypeOK
    <3>2. later \notin inserted[c] /\ (x \in inserted[c] \/ x = sku)
      BY DEF TypeOK
    <3>3. x = sku => later # sku
      BY DEF TypeOK
    <3> QED
      BY <1>3, <3>1, <3>2, <3>3 DEF CallInv, SortedOf
  <2>4. WinnerOf(c)'
    BY <1>3 DEF CallInv, WinnerOf, AnswerOf, TypeOK, InFlight, claimAttempts
  <2>5. AnswerOf(c)'
    BY DEF CallInv, AnswerOf, TypeOK
  <2> QED BY <2>1, <2>2, <2>3, <2>4, <2>5 DEF CallInv
<1>5. \A d \in Calls : CallInv(d)'
  BY <1>2, <1>4, CallFrame
<1>6. LocksOwned'
  BY DEF LocksOwned
<1>7. KeysUnique'
  BY <1>2, <1>3, SMTT(30) DEF KeysUnique, KeyPending, SameCall, TypeOK
<1>8. NeverOverbooked'
  BY DEF NeverOverbooked
<1>9. AllOrNothing'
  BY <1>2, BasketsFrame DEF CallInv, AnswerOf
<1> QED
  BY <1>1, <1>5, <1>6, <1>7, <1>8, <1>9

\* The conditional update: the stock row becomes the transaction's, or a
\* shortage ends the transaction.
LEMMA TakeStockStep ==
    ASSUME IInv, NEW c \in Calls, NEW sku \in Stocked, takeStock(c, sku)
    PROVE  IInv'
<1> USE DEF IInv, takeStock, request
<1>1. TypeOK'
  <2>1. taken[c] \cup {sku} \in SUBSET Stocked
    BY DEF TypeOK
  <2>2. taken' \in [Calls -> SUBSET Stocked]
    <3>1. taken' = taken \/ taken' = [taken EXCEPT ![c] = @ \cup {sku}]
      OBVIOUS
    <3> HIDE DEF IInv, takeStock
    <3>2. taken \in [Calls -> SUBSET Stocked]
      BY DEF IInv, TypeOK
    <3>3. CASE taken' = taken
      BY <3>2, <3>3
    <3>4. CASE taken' = [taken EXCEPT ![c] = @ \cup {sku}]
      BY <2>1, <3>2, <3>4
    <3> QED
      BY <3>1, <3>3, <3>4
  <2>3. pc' \in [Calls -> InFlight \cup {"idle", "done"}]
    BY DEF TypeOK, InFlight
  <2>4. rowLock' \in [Stocked -> Calls \cup {NoCall}]
    BY DEF TypeOK
  <2>5. result' \in [Calls -> Results]
    BY DEF TypeOK, Results
  <2> QED
    BY <2>2, <2>3, <2>4, <2>5 DEF TypeOK
<1>2. /\ \A d \in Calls \ {c} : SameCall(d)
      /\ RowsStay
  BY DEF TypeOK, SameCall, RowsStay
<1>3. /\ order[c] \in Orders
      /\ basket[c][sku] # 0
      /\ \A other \in inserted[c] : other # sku => other \in taken[c]
  BY DEF CallInv, ProgressOf, LastLineOf, InFlight
<1>4. CallInv(c)'
  <2>1. ProgressOf(c)'
    BY <1>3, InventoryAssumption DEF CallInv, ProgressOf, TypeOK, InFlight, Lines
  <2>2. LastLineOf(c)'
    BY DEF LastLineOf, TypeOK
  <2>3. SortedOf(c)'
    BY DEF CallInv, SortedOf, TypeOK
  <2>4. WinnerOf(c)'
    BY <1>3 DEF CallInv, WinnerOf, AnswerOf, TypeOK, InFlight, claimAttempts
  <2>5. AnswerOf(c)'
    BY DEF CallInv, AnswerOf, TypeOK
  <2> QED BY <2>1, <2>2, <2>3, <2>4, <2>5 DEF CallInv
<1>5. \A d \in Calls : CallInv(d)'
  BY <1>2, <1>4, CallFrame
<1>6. LocksOwned'
  <2> SUFFICES ASSUME NEW row \in Stocked, NEW d \in Calls
               PROVE  rowLock'[row] = d <=> row \in taken'[d]
    BY DEF LocksOwned
  <2>1. rowLock[row] = d <=> row \in taken[d]
    BY DEF LocksOwned
  <2>2. CASE Available(sku) >= basket[c][sku]
    <3>1. /\ rowLock' = [rowLock EXCEPT ![sku] = c]
          /\ taken' = [taken EXCEPT ![c] = @ \cup {sku}]
      BY <2>2, InventoryAssumption DEF TypeOK, Available
    <3>2. row = sku => rowLock[row] # d
      BY InventoryAssumption
    <3> QED BY <2>1, <3>1, <3>2 DEF TypeOK
  <2>3. CASE ~(Available(sku) >= basket[c][sku])
    BY <2>1, <2>3
  <2> QED BY <2>2, <2>3
<1>7. KeysUnique'
  BY DEF KeysUnique
<1>8. NeverOverbooked'
  <2>1. CASE Available(sku) >= basket[c][sku]
    <3>1. reserved[sku] + basket[c][sku] <= onHand[sku]
      BY <2>1, InventoryAssumption DEF Available, TypeOK
    <3> QED
      BY <2>1, <3>1 DEF NeverOverbooked, TypeOK, Available
  <2>2. CASE ~(Available(sku) >= basket[c][sku])
    BY <2>2 DEF NeverOverbooked
  <2> QED BY <2>1, <2>2
<1>9. AllOrNothing'
  BY <1>2, BasketsFrame DEF CallInv, AnswerOf
<1> QED
  BY <1>1, <1>5, <1>6, <1>7, <1>8, <1>9

\* What ending a transaction does to its locks and pending keys.
LEMMA ReleaseLocks ==
    ASSUME TypeOK, LocksOwned, NEW c \in Calls, rowLock' = Unlocked(c),
           taken' = [taken EXCEPT ![c] = {}]
    PROVE  /\ LocksOwned'
           /\ rowLock' \in [Stocked -> Calls \cup {NoCall}]
           /\ taken' \in [Calls -> SUBSET Stocked]
           /\ \A sku \in Stocked : rowLock'[sku] \in {NoCall, rowLock[sku]}
           /\ \A sku \in taken[c] : rowLock'[sku] = NoCall
  BY InventoryAssumption DEF LocksOwned, Unlocked, TypeOK

\* The commit: the whole basket becomes visible, and the call is answered.
LEMMA CommitStep ==
    ASSUME IInv, NEW c \in Calls, Commit(c)
    PROVE  IInv'
<1> USE DEF IInv, Commit, request
<1>1. TypeOK'
  <2>1. reserved' \in [Stocked -> Nat]
    BY InventoryAssumption DEF TypeOK
  <2>2. reservations' \in [Orders -> [SKUs -> Nat]]
    <3> DEFINE after(old) == [sku \in SKUs |-> IF sku \in inserted[c] THEN basket[c][sku]
                                                                   ELSE old[sku]]
    <3>1. reservations' = [reservations EXCEPT ![order[c]] = after(@)]
      OBVIOUS
    <3> HIDE DEF IInv, Commit
    <3>2. reservations \in [Orders -> [SKUs -> Nat]] /\ basket[c] \in [SKUs -> Nat]
      BY DEF IInv, TypeOK
    <3>3. \A old \in [SKUs -> Nat] : after(old) \in [SKUs -> Nat]
      BY <3>2
    <3> HIDE DEF after
    <3> QED
      BY <3>1, <3>2, <3>3
  <2>3. inserted' \in [Calls -> SUBSET Stocked]
    BY DEF TypeOK
  <2>4. pc' \in [Calls -> InFlight \cup {"idle", "done"}]
    BY DEF TypeOK
  <2>5. result' \in [Calls -> Results]
    BY DEF TypeOK, Results
  <2>6. taken' \in [Calls -> SUBSET Stocked]
    BY DEF TypeOK
  <2>7. rowLock' \in [Stocked -> Calls \cup {NoCall}]
    BY DEF Unlocked, TypeOK
  <2> QED
    BY <2>1, <2>2, <2>3, <2>4, <2>5, <2>6, <2>7 DEF TypeOK
<1>2. /\ order[c] \in Orders
      /\ \A sku \in SKUs : sku \in inserted[c] <=> basket[c][sku] # 0
      /\ \A sku \in SKUs : sku \in taken[c] <=> basket[c][sku] # 0
      /\ \E sku \in SKUs : basket[c][sku] # 0
  BY InventoryAssumption DEF CallInv, ProgressOf, InFlight, TypeOK
<1>3. \A o \in Orders : \A sku \in SKUs :
         reservations'[o][sku] = IF o = order[c] /\ basket[c][sku] # 0
                                 THEN basket[c][sku] ELSE reservations[o][sku]
  BY <1>2 DEF TypeOK
<1>4. \A sku \in SKUs : basket[c][sku] # 0 => reservations[order[c]][sku] = 0
  BY <1>2 DEF KeysUnique
<1>5. /\ \A d \in Calls \ {c} : SameCall(d)
      /\ RowsStay
  BY <1>2, <1>3, <1>4 DEF TypeOK, SameCall, RowsStay
<1>6. CallInv(c)'
  <2>1. ProgressOf(c)'
    BY DEF ProgressOf, TypeOK, InFlight
  <2>2. LastLineOf(c)'
    BY DEF LastLineOf, TypeOK
  <2>3. SortedOf(c)'
    BY DEF SortedOf, TypeOK
  <2>4. WinnerOf(c)'
    BY DEF WinnerOf, TypeOK, InFlight
  <2>5. AnswerOf(c)'
    BY <1>2, <1>3 DEF AnswerOf, TypeOK
  <2> QED BY <2>1, <2>2, <2>3, <2>4, <2>5 DEF CallInv
<1>7. \A d \in Calls : CallInv(d)'
  BY <1>5, <1>6, CallFrame
<1>8. LocksOwned'
  BY ReleaseLocks
<1>9. KeysUnique'
  BY <1>1, <1>2, <1>3, <1>5, InventoryAssumption DEF KeysUnique, SameCall, TypeOK
<1>10. NeverOverbooked'
  <2> SUFFICES ASSUME NEW sku \in Stocked
               PROVE  /\ reserved'[sku] <= onHand[sku]
                      /\ rowLock'[sku] # NoCall =>
                           reserved'[sku] + basket[rowLock'[sku]][sku] <= onHand[sku]
    BY DEF NeverOverbooked
  <2>1. CASE sku \in taken[c]
    <3>1. rowLock[sku] = c /\ c # NoCall
      BY <2>1, InventoryAssumption DEF LocksOwned
    <3>2. reserved[sku] + basket[c][sku] <= onHand[sku]
      BY <3>1 DEF NeverOverbooked
    <3>3. rowLock'[sku] = NoCall
      BY <2>1, ReleaseLocks
    <3> QED
      BY <2>1, <3>2, <3>3 DEF TypeOK
  <2>2. CASE sku \notin taken[c]
    BY <2>2, ReleaseLocks DEF NeverOverbooked, TypeOK
  <2> QED BY <2>1, <2>2
<1>11. AllOrNothing'
  <2> SUFFICES ASSUME NEW o \in Orders, NEW sku \in SKUs, reservations'[o][sku] # 0
               PROVE  \E d \in Calls : CompleteBasket(d, o, sku)'
    BY AllOrNothingByBasket
  <2>1. CASE o = order[c] /\ basket[c][sku] # 0
    BY <1>3, <2>1 DEF CompleteBasket, TypeOK
  <2>2. CASE ~(o = order[c] /\ basket[c][sku] # 0)
    <3>1. PICK d \in Calls : CompleteBasket(d, o, sku)
      BY <1>3, <2>2, AllOrNothingByBasket
    <3>2. d # c
      BY <3>1 DEF CompleteBasket, CallInv, AnswerOf
    <3>3. CompleteBasket(d, o, sku)'
      BY <1>5, <3>1, <3>2 DEF CompleteBasket, SameCall, RowsStay
    <3> QED BY <3>3
  <2> QED BY <2>1, <2>2
<1> QED
  BY <1>1, <1>7, <1>8, <1>9, <1>10, <1>11

\* A transaction that ends without committing leaves the tables alone, gives its
\* locks back and has no pending keys; whatever the call does next, this part of
\* the invariant holds.
LEMMA RolledBackFrame ==
    ASSUME IInv, NEW c \in Calls, RolledBack(c), UNCHANGED request,
           \A d \in Calls \ {c} : SameCall(d), result[c] \notin {"OK", "Failed"}
    PROVE  /\ LocksOwned' /\ KeysUnique' /\ NeverOverbooked' /\ AllOrNothing'
           /\ RowsStay
           /\ rowLock' \in [Stocked -> Calls \cup {NoCall}]
           /\ taken' \in [Calls -> SUBSET Stocked]
           /\ inserted' \in [Calls -> SUBSET Stocked]
<1> USE DEF IInv, RolledBack, request
<1>1. inserted' \in [Calls -> SUBSET Stocked]
  BY DEF TypeOK
<1>2. KeysUnique'
  BY DEF KeysUnique, TypeOK
<1>3. NeverOverbooked'
  BY ReleaseLocks DEF NeverOverbooked, TypeOK
<1>4. AllOrNothing'
  BY BasketsFrame
<1>5. RowsStay
  BY DEF RowsStay
<1> QED
  BY <1>1, <1>2, <1>3, <1>4, <1>5, ReleaseLocks

\* The rollback: another pass of the loop with the winner in sight, or the
\* search for the reason of a refusal.
LEMMA RollbackStep ==
    ASSUME IInv, NEW c \in Calls, Rollback(c)
    PROVE  IInv'
<1> USE DEF IInv, Rollback
<1>1. \A d \in Calls \ {c} : SameCall(d)
  BY DEF RolledBack, request, TypeOK, SameCall
<1>2. /\ LocksOwned' /\ KeysUnique' /\ NeverOverbooked' /\ AllOrNothing'
      /\ RowsStay
      /\ rowLock' \in [Stocked -> Calls \cup {NoCall}]
      /\ taken' \in [Calls -> SUBSET Stocked]
      /\ inserted' \in [Calls -> SUBSET Stocked]
  <2>1. result[c] \notin {"OK", "Failed"} /\ UNCHANGED request
    BY DEF CallInv, AnswerOf
  <2> QED BY <1>1, <2>1, RolledBackFrame
<1>3. pass[c] = 1
  BY DEF CallInv, WinnerOf, InFlight, claimAttempts
<1>4. TypeOK'
  <2>1. pass' \in [Calls -> 0..claimAttempts]
    <3>1. pass' = pass \/ pass' = [pass EXCEPT ![c] = 2]
      BY <1>3 DEF TypeOK, claimAttempts
    <3>2. 2 \in 0..claimAttempts
      BY DEF claimAttempts
    <3> QED BY <3>1, <3>2 DEF TypeOK
  <2>2. pc' \in [Calls -> InFlight \cup {"idle", "done"}]
    BY DEF TypeOK, InFlight
  <2>3. result' \in [Calls -> Results]
    BY DEF TypeOK, Results
  <2> QED
    BY <1>2, <2>1, <2>2, <2>3 DEF TypeOK, RolledBack, request
<1>5. CallInv(c)'
  <2>1. ProgressOf(c)'
    BY DEF CallInv, ProgressOf, RolledBack, request, TypeOK, InFlight
  <2>2. LastLineOf(c)'
    BY DEF LastLineOf, TypeOK
  <2>3. SortedOf(c)'
    BY DEF SortedOf, RolledBack, request, TypeOK
  <2>4. WinnerOf(c)'
    BY <1>3 DEF CallInv, WinnerOf, RolledBack, request, TypeOK, InFlight, claimAttempts
  <2>5. AnswerOf(c)'
    BY <1>3 DEF CallInv, AnswerOf, RolledBack, request, TypeOK, claimAttempts
  <2> QED BY <2>1, <2>2, <2>3, <2>4, <2>5 DEF CallInv
<1>6. \A d \in Calls : CallInv(d)'
  BY <1>1, <1>2, <1>5, CallFrame
<1> QED
  BY <1>2, <1>4, <1>6

\* A call that is broken off anywhere.
LEMMA AbortStep ==
    ASSUME IInv, NEW c \in Calls, Abort(c)
    PROVE  IInv'
<1> USE DEF IInv, Abort
<1>1. \A d \in Calls \ {c} : SameCall(d)
  BY DEF RolledBack, request, TypeOK, SameCall
<1>2. /\ LocksOwned' /\ KeysUnique' /\ NeverOverbooked' /\ AllOrNothing'
      /\ RowsStay
      /\ rowLock' \in [Stocked -> Calls \cup {NoCall}]
      /\ taken' \in [Calls -> SUBSET Stocked]
      /\ inserted' \in [Calls -> SUBSET Stocked]
  <2>1. result[c] \notin {"OK", "Failed"} /\ UNCHANGED request
    BY DEF CallInv, AnswerOf, InFlight
  <2> QED BY <1>1, <2>1, RolledBackFrame
<1>3. TypeOK'
  BY <1>2 DEF TypeOK, RolledBack, request, InFlight, Results
<1>4. CallInv(c)'
  <2>1. ProgressOf(c)'
    BY DEF CallInv, ProgressOf, RolledBack, request, TypeOK, InFlight
  <2>2. LastLineOf(c)'
    BY DEF LastLineOf, TypeOK
  <2>3. SortedOf(c)'
    BY DEF SortedOf, RolledBack, request, TypeOK
  <2>4. WinnerOf(c)'
    BY DEF WinnerOf, TypeOK, InFlight
  <2>5. AnswerOf(c)'
    BY DEF AnswerOf, TypeOK
  <2> QED BY <2>1, <2>2, <2>3, <2>4, <2>5 DEF CallInv
<1>5. \A d \in Calls : CallInv(d)'
  BY <1>1, <1>2, <1>4, CallFrame
<1> QED
  BY <1>2, <1>3, <1>5

\* The explanation of a refusal only words the answer.
LEMMA DescribeFailureStep ==
    ASSUME IInv, NEW c \in Calls, describeFailure(c)
    PROVE  IInv'
<1> USE DEF IInv, describeFailure, tables, request
<1>1. TypeOK'
  <2>1. Unknown(c) \in SUBSET SKUs /\ Short(c) \in SUBSET SKUs
    BY DEF Unknown, Short, Lines
  <2>2. report' \in [Calls -> SUBSET SKUs]
    BY <2>1 DEF TypeOK
  <2> QED
    BY <2>2 DEF TypeOK, InFlight, Results
<1>2. /\ \A d \in Calls \ {c} : SameCall(d)
      /\ RowsStay
  BY DEF TypeOK, SameCall, RowsStay
<1>3. CallInv(c)'
  <2>1. ProgressOf(c)'
    BY DEF CallInv, ProgressOf, TypeOK, InFlight
  <2>2. LastLineOf(c)'
    BY DEF LastLineOf, TypeOK
  <2>3. SortedOf(c)'
    BY DEF CallInv, SortedOf, TypeOK
  <2>4. WinnerOf(c)'
    BY DEF CallInv, WinnerOf, TypeOK, InFlight
  <2>5. AnswerOf(c)'
    BY DEF CallInv, AnswerOf, TypeOK
  <2> QED BY <2>1, <2>2, <2>3, <2>4, <2>5 DEF CallInv
<1>4. \A d \in Calls : CallInv(d)'
  BY <1>2, <1>3, CallFrame
<1>5. LocksOwned' /\ KeysUnique' /\ NeverOverbooked'
  BY DEF LocksOwned, KeysUnique, NeverOverbooked
<1>6. AllOrNothing'
  BY <1>2, BasketsFrame DEF CallInv, AnswerOf
<1> QED
  BY <1>1, <1>4, <1>5, <1>6

\* A corrected count: it waits for the row, so no transaction relies on it.
LEMMA RestockStep ==
    ASSUME IInv, NEW sku \in Stocked, NEW count \in 0..MaxOnHand, Restock(sku, count)
    PROVE  IInv'
<1> USE DEF IInv, Restock, request
<1>1. TypeOK'
  BY DEF TypeOK
<1>2. /\ \A d \in Calls : SameCall(d)
      /\ RowsStay
  BY DEF SameCall, RowsStay
<1>3. \A d \in Calls : CallInv(d)'
  BY <1>2, CallFrame
<1>4. LocksOwned' /\ KeysUnique'
  BY DEF LocksOwned, KeysUnique
<1>5. NeverOverbooked'
  BY InventoryAssumption DEF NeverOverbooked, TypeOK
<1>6. AllOrNothing'
  BY <1>2, BasketsFrame
<1> QED
  BY <1>1, <1>3, <1>4, <1>5, <1>6

\* The invariant holds initially and is kept by every step.
LEMMA Inductive == Spec => []IInv
<1>1. Init => IInv
  <2> SUFFICES ASSUME Init PROVE IInv
    OBVIOUS
  <2> USE InventoryAssumption, CanonicalAssumption DEF Init, NoLines
  <2>1. TypeOK
    BY DEF TypeOK, InFlight, Results, claimAttempts
  <2>2. ASSUME NEW c \in Calls PROVE CallInv(c)
    BY DEF CallInv, ProgressOf, LastLineOf, SortedOf, WinnerOf, AnswerOf, InFlight
  <2>3. LocksOwned /\ KeysUnique
    BY DEF LocksOwned, KeysUnique
  <2>4. NeverOverbooked
    BY DEF NeverOverbooked
  <2>5. AllOrNothing
    BY DEF AllOrNothing, Held
  <2> QED BY <2>1, <2>2, <2>3, <2>4, <2>5 DEF IInv
<1>2. IInv /\ [Next]_vars => IInv'
  <2> SUFFICES ASSUME IInv, [Next]_vars PROVE IInv'
    OBVIOUS
  <2>1. ASSUME NEW c \in Calls, NEW r \in Requests, ReserveStock(c, r) PROVE IInv'
    BY <2>1, ReserveStockStep
  <2>2. ASSUME NEW c \in Calls, Step(c) PROVE IInv'
    BY <2>2, FindStep, ClaimReservationStep, TakeStockStep, CommitStep,
       RollbackStep, DescribeFailureStep DEF Step
  <2>3. ASSUME NEW c \in Calls, Abort(c) PROVE IInv'
    BY <2>3, AbortStep
  <2>4. ASSUME NEW sku \in Stocked, NEW count \in 0..MaxOnHand, Restock(sku, count)
        PROVE  IInv'
    BY <2>4, RestockStep
  <2>5. CASE UNCHANGED vars
    <3>1. TypeOK'
      BY <2>5 DEF IInv, TypeOK, vars
    <3>2. \A d \in Calls : SameCall(d) /\ RowsStay
      BY <2>5 DEF SameCall, RowsStay, vars
    <3>3. \A d \in Calls : CallInv(d)'
      BY <3>2, CallFrame DEF IInv
    <3>4. LocksOwned' /\ KeysUnique' /\ NeverOverbooked'
      BY <2>5 DEF IInv, LocksOwned, KeysUnique, NeverOverbooked, vars
    <3>5. AllOrNothing'
      BY <2>5, <3>2, BasketsFrame DEF IInv, vars
    <3> QED BY <3>1, <3>3, <3>4, <3>5 DEF IInv
  <2> QED
    BY <2>1, <2>2, <2>3, <2>4, <2>5 DEF Next
<1> QED
  BY <1>1, <1>2, PTL DEF Spec

-----------------------------------------------------------------------------
(* The theorems.                                                            *)

\* The tables and the calls keep their types.
THEOREM TypeCorrect == Spec => []TypeOK
<1>1. IInv => TypeOK
  BY DEF IInv
<1> QED BY <1>1, Inductive, PTL

\* No interleaving of any number of claims, aborts and stock corrections
\* promises more of a product than there is, and a claim past its conditional
\* UPDATE can always be honoured.
THEOREM NoOverbooking == Spec => []NeverOverbooked
<1>1. IInv => NeverOverbooked
  BY DEF IInv
<1> QED BY <1>1, Inductive, PTL

\* Refused and failed calls leave nothing behind, successful ones everything.
THEOREM ClaimsAreAtomic == Spec => []AllOrNothing
<1>1. IInv => AllOrNothing
  BY DEF IInv
<1> QED BY <1>1, Inductive, PTL

\* A call answered OK has its order holding what it asked for.
THEOREM AcceptedStaysHeld == Spec => []AcceptedMeansHeld
<1>1. IInv => AcceptedMeansHeld
  BY DEF IInv, CallInv, AnswerOf, AcceptedMeansHeld, Lines
<1> QED BY <1>1, Inductive, PTL

\* The bound claimAttempts = 2 on the read-then-claim loop is exact: the error
\* after it is unreachable.
THEOREM TwoPassesSuffice == Spec => []NeverGivesUp
<1>1. IInv => NeverGivesUp
  BY DEF IInv, CallInv, WinnerOf, NeverGivesUp
<1> QED BY <1>1, Inductive, PTL

\* Rows of the reservations table are never changed once committed.
THEOREM ReservationsFinal == Spec => HeldIsFinal
<1>1. IInv /\ [Next]_vars =>
        [\A o \in Orders : \A sku \in Held(o) :
            reservations'[o][sku] = reservations[o][sku]]_vars
  <2> SUFFICES ASSUME IInv, Next, NEW o \in Orders, NEW sku \in Held(o)
               PROVE  reservations'[o][sku] = reservations[o][sku]
    OBVIOUS
  <2>1. ASSUME NEW c \in Calls, Commit(c)
        PROVE  reservations'[o][sku] = reservations[o][sku]
    <3>1. /\ order[c] \in Orders
          /\ \A line \in inserted[c] : reservations[order[c]][line] = 0
      BY <2>1 DEF IInv, CallInv, ProgressOf, InFlight, Commit, KeysUnique
    <3> QED
      BY <2>1, <3>1 DEF IInv, TypeOK, Commit, Held
  <2>2. ~(\E c \in Calls : Commit(c)) => UNCHANGED reservations
    BY DEF Next, Step, ReserveStock, Find, claimReservation, takeStock, Rollback,
           RolledBack, Abort, describeFailure, Restock, tables
  <2> QED
    BY <2>1, <2>2
<1> QED BY <1>1, Inductive, PTL DEF Spec, HeldIsFinal

-----------------------------------------------------------------------------
(* The counter and the rows. Orders are finitely many, or the sum means    *)
(* nothing.                                                                *)

RowsOf(sku) == [o \in Orders |-> reservations[o][sku]]

\* A commit adds to the counter of a product what it adds to the rows: the row it
\* writes was not there, and the counter is raised for the lines it has taken,
\* which are all of its lines.
LEMMA CommitKeepsSum ==
    ASSUME IsFiniteSet(Orders), IInv, ReservedMatchesReservations, NEW c \in Calls, Commit(c),
           NEW sku \in Stocked
    PROVE  reserved'[sku] = SumFunction(RowsOf(sku)')
<1> DEFINE f == RowsOf(sku)
           g == RowsOf(sku)'
           q == basket[c][sku]
<1> USE InventoryAssumption
<1>1. /\ order[c] \in Orders /\ q \in Nat /\ sku \in SKUs
      /\ sku \in inserted[c] <=> q # 0
      /\ sku \in taken[c] <=> q # 0
  BY DEF IInv, TypeOK, Commit, CallInv, ProgressOf, InFlight
<1>2. q # 0 => f[order[c]] = 0
  BY <1>1 DEF IInv, KeysUnique, RowsOf
<1>3. /\ \A o \in Orders : f[o] \in Nat /\ g[o] = IF o = order[c] /\ q # 0 THEN q ELSE f[o]
      /\ reserved[sku] \in Nat
  BY <1>1 DEF IInv, TypeOK, Commit, RowsOf
<1>4. reserved'[sku] = reserved[sku] + q
  BY <1>1, <1>3 DEF Commit
<1>5. DOMAIN f = Orders /\ DOMAIN g = Orders /\ reserved[sku] = SumFunctionOnSet(f, Orders)
  BY DEF RowsOf, ReservedMatchesReservations, SumFunction
<1> HIDE DEF f, g, q
<1>6. \A o \in Orders : f[o] \in Nat /\ g[o] \in Nat
  BY <1>1, <1>3
<1>7. \A o \in Orders \ {order[c]} : f[o] = g[o]
  BY <1>3
<1>8. SumFunctionOnSet(g, Orders) + f[order[c]] = SumFunctionOnSet(f, Orders) + g[order[c]]
  BY <1>1, <1>6, <1>7, SumChanges
<1>9. SumFunctionOnSet(g, Orders) \in Nat
  BY <1>6, SumSplits
<1>10. SumFunctionOnSet(g, Orders) = reserved'[sku]
  BY <1>1, <1>2, <1>3, <1>4, <1>5, <1>8, <1>9
<1> QED
  BY <1>5, <1>10 DEF SumFunction, g

\* stock_items.reserved and the rows of reservations never differ, for any number
\* of calls and products: of the two statements of claimLine, committed together
\* or not at all, each accounts for exactly what the other does.
THEOREM CounterMatchesRows ==
    ASSUME IsFiniteSet(Orders)
    PROVE  Spec => []ReservedMatchesReservations
<1>1. Init => ReservedMatchesReservations
  <2> SUFFICES ASSUME Init, NEW sku \in Stocked PROVE reserved[sku] = SumFunction(RowsOf(sku))
    BY DEF ReservedMatchesReservations, RowsOf
  <2>1. \A o \in Orders : RowsOf(sku)[o] = 0
    BY InventoryAssumption DEF Init, NoLines, RowsOf
  <2>2. DOMAIN RowsOf(sku) = Orders
    BY DEF RowsOf
  <2>3. SumFunctionOnSet(RowsOf(sku), Orders) = 0
    BY <2>1, SumZero
  <2> QED
    BY <2>2, <2>3 DEF SumFunction, Init
<1>2. IInv /\ ReservedMatchesReservations /\ [Next]_vars => ReservedMatchesReservations'
  <2> SUFFICES ASSUME IInv, ReservedMatchesReservations, [Next]_vars
               PROVE  ReservedMatchesReservations'
    OBVIOUS
  <2>1. ASSUME NEW c \in Calls, Commit(c) PROVE ReservedMatchesReservations'
    BY <2>1, CommitKeepsSum DEF ReservedMatchesReservations, RowsOf
  <2>2. CASE UNCHANGED <<reserved, reservations>>
    BY <2>2 DEF ReservedMatchesReservations
  <2>3. ~(\E c \in Calls : Commit(c)) => UNCHANGED <<reserved, reservations>>
    BY DEF Next, Step, ReserveStock, Find, claimReservation, takeStock, Rollback,
           RolledBack, Abort, describeFailure, Restock, tables, vars
  <2> QED
    BY <2>1, <2>2, <2>3
<1> QED
  BY <1>1, <1>2, Inductive, PTL DEF Spec

-----------------------------------------------------------------------------
(* No deadlock. The locks a claim asks for have places in one order: the   *)
(* key of a line, its stock row, the key of the next line. A claim waits   *)
(* for one that has passed the place it waits at, so along a chain of      *)
(* waiting claims the places grow, and there is a last product.            *)

WaitsAt(c, place) ==
    \E sku \in SKUs :
        \/ pc[c] = "insert" /\ IsNextLine(c, sku) /\ place = 2 * sku
        \/ pc[c] = "take" /\ sku \in inserted[c] \ taken[c] /\ place = 2 * sku + 1

\* A bounded set of naturals that is not empty has a greatest element.
LEMMA GreatestNat ==
    ASSUME NEW T, T \subseteq Nat, T # {}, NEW bound \in Nat, \A x \in T : x <= bound
    PROVE  \E x \in T : \A y \in T : y <= x
<1> DEFINE Mirror == {bound - x : x \in T}
<1>1. Mirror \subseteq Nat /\ Mirror # {}
  <2>1. ASSUME NEW x \in T PROVE bound - x \in Nat
    OBVIOUS
  <2>2. PICK x \in T : TRUE
    OBVIOUS
  <2>3. bound - x \in Mirror
    OBVIOUS
  <2> QED BY <2>1, <2>3
<1>2. PICK m \in Mirror : \A y \in Mirror : m <= y
  <2> HIDE DEF Mirror
  <2> QED BY <1>1, LeastNat
<1>3. PICK x \in T : m = bound - x
  OBVIOUS
<1>4. ASSUME NEW y \in T PROVE y <= x
  <2>1. bound - x <= bound - y
    BY <1>2, <1>3
  <2>2. x \in Int /\ y \in Int /\ bound \in Int
    OBVIOUS
  <2> HIDE DEF Mirror
  <2> QED BY <2>1, <2>2, SMT
<1> QED BY <1>4

\* A waiting claim waits for one that, if it waits too, waits further on.
LEMMA WaitsForward ==
    ASSUME IInv, NEW c \in Calls, NEW d \in Calls, WaitsFor(c, d)
    PROVE  /\ \E p \in Nat : WaitsAt(c, p)
           /\ \A p, q : WaitsAt(c, p) /\ WaitsAt(d, q) => p < q
<1> USE InventoryAssumption, CanonicalAssumption DEF IInv
<1>1. SKUs \subseteq Nat /\ Stocked \subseteq SKUs
  OBVIOUS
<1>2. PICK sku \in SKUs : WaitsForKey(c, d, sku) \/ WaitsForStock(c, d, sku)
  BY DEF WaitsFor
<1>3. \A s \in inserted[d] : \A t : IsNextLine(d, t) => s < t
  BY <1>1 DEF CallInv, SortedOf, IsNextLine, Lines
<1>4. pc[d] = "take" => \A s \in inserted[d] : \A t \in inserted[d] \ taken[d] :
                           s <= t /\ (s \in taken[d] => s < t)
  BY <1>1 DEF CallInv, LastLineOf, TypeOK
<1>5. CASE WaitsForKey(c, d, sku)
  <2>1. /\ pc[c] = "insert" /\ IsNextLine(c, sku) /\ sku \in inserted[d]
        /\ sku \in Nat
    BY <1>1, <1>5 DEF WaitsForKey
  <2>2. \A t : IsNextLine(c, t) => t = sku
    BY <1>1, <2>1 DEF IsNextLine, Lines
  <2>3. \A p : WaitsAt(c, p) => p = 2 * sku
    BY <2>1, <2>2 DEF WaitsAt
  <2>4. \A q : WaitsAt(d, q) => 2 * sku < q
    BY <1>1, <1>3, <1>4, <2>1 DEF WaitsAt
  <2>5. WaitsAt(c, 2 * sku) /\ 2 * sku \in Nat
    BY <2>1 DEF WaitsAt
  <2> QED BY <2>3, <2>4, <2>5
<1>6. CASE WaitsForStock(c, d, sku)
  <2>1. /\ pc[c] = "take" /\ sku \in inserted[c] \ taken[c] /\ sku \in taken[d]
        /\ sku \in Nat /\ sku \in inserted[d]
    BY <1>1, <1>6 DEF WaitsForStock, LocksOwned, TypeOK, CallInv, ProgressOf
  <2>2. \A t \in inserted[c] \ taken[c] : t = sku
    BY <2>1 DEF CallInv, LastLineOf
  <2>3. \A p : WaitsAt(c, p) => p = 2 * sku + 1
    BY <2>1, <2>2 DEF WaitsAt
  <2>4. \A q : WaitsAt(d, q) => 2 * sku + 1 < q
    BY <1>1, <1>3, <1>4, <2>1 DEF WaitsAt
  <2>5. WaitsAt(c, 2 * sku + 1) /\ 2 * sku + 1 \in Nat
    BY <2>1 DEF WaitsAt
  <2> QED BY <2>3, <2>4, <2>5
<1> QED BY <1>2, <1>5, <1>6

\* Sorting the lines is enough: no set of claims waits only for itself.
THEOREM DeadlockFree == Spec => []NoDeadlock
<1>1. IInv => NoDeadlock
  <2> SUFFICES ASSUME IInv, NEW group \in (SUBSET Calls) \ {{}}
               PROVE  \E c \in group : \A d \in group : ~WaitsFor(c, d)
    BY DEF NoDeadlock
  <2> SUFFICES ASSUME \A c \in group : \E d \in group : WaitsFor(c, d)
               PROVE  FALSE
    OBVIOUS
  <2> group \subseteq Calls /\ group # {}
    OBVIOUS
  <2> DEFINE Places == {p \in Nat : \E c \in group : WaitsAt(c, p)}
  <2>1. PICK last \in SKUs : \A sku \in SKUs : sku <= last
    BY InventoryAssumption
  <2>2. 2 * last + 1 \in Nat /\ \A p \in Places : p <= 2 * last + 1
    BY <2>1, CanonicalAssumption DEF WaitsAt, IsNextLine
  <2>3. Places # {}
    BY WaitsForward
  <2>4. PICK top \in Places : \A p \in Places : p <= top
    <3>1. Places \subseteq Nat
      OBVIOUS
    <3> HIDE DEF Places
    <3> QED BY <2>2, <2>3, <3>1, GreatestNat
  <2>5. PICK c \in group, d \in group : WaitsAt(c, top) /\ WaitsFor(c, d)
    OBVIOUS
  <2>6. PICK e \in group : WaitsFor(d, e)
    OBVIOUS
  <2>7. PICK q \in Nat : WaitsAt(d, q)
    BY <2>6, WaitsForward
  <2>8. top < q
    BY <2>5, <2>7, WaitsForward
  <2> QED
    BY <2>4, <2>7, <2>8
<1> QED BY <1>1, Inductive, PTL

-----------------------------------------------------------------------------
(* Refinement. When an order id always comes with the same lines, the rows *)
(* of an order are one basket, so the commit of a claim finds none there.  *)

\* A call with an order id carries the canonical form of some request.
FromRequest ==
    \A c \in Calls : order[c] \in Orders =>
        \E r \in Requests : /\ CanonicalForm(r).ok
                            /\ order[c] = CanonicalForm(r).order
                            /\ basket[c] = CanonicalForm(r).lines

\* Every call carries the canonical form of a request.
LEMMA CarriesRequest == Spec => []FromRequest
<1>1. Init => FromRequest
  BY CanonicalAssumption DEF Init, FromRequest
<1>2. IInv /\ FromRequest /\ [Next]_vars => FromRequest'
  <2> SUFFICES ASSUME IInv, FromRequest, [Next]_vars PROVE FromRequest'
    OBVIOUS
  <2>1. ASSUME NEW c \in Calls, NEW r \in Requests, ReserveStock(c, r) PROVE FromRequest'
    <3>1. CASE CanonicalForm(r).ok
      <4> SUFFICES ASSUME NEW d \in Calls, order'[d] \in Orders
                   PROVE  \E q \in Requests : /\ CanonicalForm(q).ok
                                              /\ order'[d] = CanonicalForm(q).order
                                              /\ basket'[d] = CanonicalForm(q).lines
        BY DEF FromRequest
      <4>1. /\ order' = [order EXCEPT ![c] = CanonicalForm(r).order]
            /\ basket' = [basket EXCEPT ![c] = CanonicalForm(r).lines]
        BY <2>1, <3>1 DEF ReserveStock
      <4>2. CASE d = c
        BY <3>1, <4>1, <4>2 DEF IInv, TypeOK
      <4>3. CASE d # c
        BY <4>1, <4>3 DEF IInv, TypeOK, FromRequest
      <4> QED BY <4>2, <4>3
    <3>2. CASE ~CanonicalForm(r).ok
      BY <2>1, <3>2 DEF ReserveStock, FromRequest
    <3> QED BY <3>1, <3>2
  <2>2. CASE UNCHANGED request
    BY <2>2 DEF FromRequest, request
  <2>3. UNCHANGED vars => UNCHANGED request
    BY DEF vars, request
  <2>4. ~(\E c \in Calls, r \in Requests : ReserveStock(c, r)) /\ Next => UNCHANGED request
    BY DEF Next, Step, Find, claimReservation, takeStock, Commit, Rollback, Abort,
           describeFailure, Restock, request
  <2> QED
    BY <2>1, <2>2, <2>3, <2>4
<1> QED
  BY <1>1, <1>2, Inductive, PTL DEF Spec

\* With one basket per order id, calls with the same order id carry the same.
LEMMA SameBasket ==
    ASSUME FromRequest, OneBasketPerOrder, NEW c \in Calls, NEW d \in Calls,
           order[c] \in Orders, order[d] = order[c]
    PROVE  basket[d] = basket[c]
<1>1. PICK r \in Requests : /\ CanonicalForm(r).ok
                            /\ order[c] = CanonicalForm(r).order
                            /\ basket[c] = CanonicalForm(r).lines
  BY DEF FromRequest
<1>2. PICK q \in Requests : /\ CanonicalForm(q).ok
                            /\ order[d] = CanonicalForm(q).order
                            /\ basket[d] = CanonicalForm(q).lines
  BY DEF FromRequest
<1> QED
  BY <1>1, <1>2 DEF OneBasketPerOrder

\* The commit of a claim is a Hold of the ledger.
LEMMA CommitHolds ==
    ASSUME IInv, FromRequest, OneBasketPerOrder, NEW c \in Calls, Commit(c)
    PROVE  Ledger!Hold(order[c])
<1> DEFINE b == basket[c]
<1> USE InventoryAssumption DEF IInv, TypeOK
<1>1. /\ order[c] \in Orders /\ b \in [SKUs -> Nat]
      /\ \A sku \in SKUs : sku \in inserted[c] <=> b[sku] # 0
      /\ \A sku \in SKUs : sku \in taken[c] <=> b[sku] # 0
      /\ \E sku \in SKUs : b[sku] # 0
  BY DEF Commit, CallInv, ProgressOf, InFlight
<1>2. ASSUME NEW sku \in SKUs PROVE reservations[order[c]][sku] = 0
  <2> SUFFICES ASSUME reservations[order[c]][sku] # 0 PROVE FALSE
    OBVIOUS
  <2>1. PICK d \in Calls : CompleteBasket(d, order[c], sku)
    BY <1>1, AllOrNothingByBasket
  <2>2. basket[d] = b
    BY <1>1, <2>1, SameBasket DEF CompleteBasket
  <2>3. sku \in inserted[c]
    BY <1>1, <2>1, <2>2 DEF CompleteBasket
  <2> QED
    BY <2>3 DEF KeysUnique
<1>3. reservations[order[c]] = [sku \in SKUs |-> 0]
  BY <1>1, <1>2
<1>4. reservations'[order[c]] = b
  <2>1. reservations'[order[c]] =
            [sku \in SKUs |-> IF sku \in inserted[c] THEN b[sku] ELSE reservations[order[c]][sku]]
    BY <1>1 DEF Commit
  <2> QED
    BY <1>1, <1>2, <2>1
<1>5. b \in Ledger!Basket(order[c])
  <2>1. b \in Asked[order[c]]
    BY <1>1 DEF Commit, FromRequest, Asked
  <2>2. \A sku \in SKUs \ Stocked : b[sku] = 0
    BY <1>1
  <2> QED
    BY <1>1, <2>1, <2>2 DEF Ledger!Basket
<1>6. ASSUME NEW sku \in Stocked PROVE reserved[sku] + b[sku] <= onHand[sku]
  <2>1. CASE sku \in taken[c]
    BY <2>1 DEF LocksOwned, NeverOverbooked
  <2>2. CASE sku \notin taken[c]
    <3>1. b[sku] = 0 /\ reserved[sku] <= onHand[sku]
      BY <1>1, <2>2 DEF NeverOverbooked
    <3> QED BY <3>1
  <2> QED BY <2>1, <2>2
<1>7. reservations' = [reservations EXCEPT ![order[c]] = b]
  BY <1>1, <1>4 DEF Commit
<1>8. reserved' = [sku \in Stocked |-> reserved[sku] + b[sku]]
  <2>1. \A sku \in Stocked : sku \notin taken[c] => reserved[sku] = reserved[sku] + b[sku]
    BY <1>1
  <2> QED
    BY <2>1 DEF Commit
<1>9. UNCHANGED onHand
  BY DEF Commit
<1> QED
  BY <1>1, <1>3, <1>4, <1>5, <1>6, <1>7, <1>8, <1>9 DEF Ledger!Hold

\* Used as the order service uses it, with one basket per order id, the service
\* implements the ledger in which an order takes a whole basket asked for it in
\* one step and at most once.
THEOREM ImplementsLedger == OneBasketPerOrder => (Spec => LedgerSpec)
<1> SUFFICES ASSUME OneBasketPerOrder PROVE Spec => LedgerSpec
  OBVIOUS
<1>1. Init => Ledger!Init
  BY DEF Init, NoLines, Ledger!Init
<1>2. IInv /\ FromRequest /\ [Next]_vars => [Ledger!Next]_(Ledger!ledger)
  <2> SUFFICES ASSUME IInv, FromRequest, [Next]_vars, ~UNCHANGED Ledger!ledger
               PROVE  Ledger!Next
    OBVIOUS
  <2> USE DEF Ledger!ledger
  <2>1. ASSUME NEW c \in Calls, Commit(c) PROVE Ledger!Next
    <3>1. order[c] \in Orders
      BY <2>1 DEF IInv, CallInv, ProgressOf, InFlight, Commit
    <3> QED
      BY <2>1, <3>1, CommitHolds DEF Ledger!Next
  <2>2. ASSUME NEW sku \in Stocked, NEW count \in 0..MaxOnHand, Restock(sku, count)
        PROVE  Ledger!Next
    BY <2>2 DEF Restock, Ledger!Restock, Ledger!Next
  <2>3. \/ \E c \in Calls : Commit(c)
        \/ \E sku \in Stocked, count \in 0..MaxOnHand : Restock(sku, count)
    BY DEF vars, Next, Step, ReserveStock, Find, claimReservation, takeStock, Rollback,
           RolledBack, Abort, describeFailure, tables
  <2> QED
    BY <2>1, <2>2, <2>3
<1> QED
  BY <1>1, <1>2, Inductive, CarriesRequest, PTL DEF Spec, LedgerSpec, Ledger!Spec

\* Under the same assumption a repeat of a call that was answered OK is never
\* refused as a conflict.
THEOREM RepeatsAccepted == OneBasketPerOrder => (Spec => RepeatAccepted)
<1> SUFFICES ASSUME OneBasketPerOrder PROVE Spec => RepeatAccepted
  OBVIOUS
<1>1. IInv /\ FromRequest /\ [Next]_vars =>
        [\A c, d \in Calls :
            /\ result[d] = "OK" /\ pc[c] # "idle"
            /\ order[c] = order[d] /\ basket[c] = basket[d]
            => (result'[c] = "IdempotencyConflict" => result[c] = "IdempotencyConflict")]_vars
  <2> SUFFICES ASSUME IInv, FromRequest, Next, NEW c \in Calls,
                      pc[c] # "idle", result'[c] = "IdempotencyConflict",
                      result[c] # "IdempotencyConflict"
               PROVE  FALSE
    OBVIOUS
  <2> USE DEF IInv, TypeOK
  <2>1. Find(c) /\ reservations[order[c]] # basket[c] /\ Held(order[c]) # {}
    <3>1. ASSUME NEW d \in Calls, NEW r \in Requests, ReserveStock(d, r) PROVE FALSE
      BY <3>1 DEF ReserveStock
    <3>2. ASSUME NEW d \in Calls, NEW sku \in SKUs, claimReservation(d, sku) PROVE FALSE
      BY <3>2 DEF claimReservation
    <3>3. ASSUME NEW d \in Calls, NEW sku \in Stocked, takeStock(d, sku) PROVE FALSE
      BY <3>3 DEF takeStock
    <3>4. ASSUME NEW d \in Calls, Commit(d) \/ Abort(d) PROVE FALSE
      BY <3>4 DEF Commit, Abort
    <3>5. ASSUME NEW d \in Calls, Rollback(d) \/ describeFailure(d) PROVE FALSE
      BY <3>5 DEF Rollback, describeFailure
    <3>6. ASSUME NEW d \in Calls, Find(d), d # c PROVE FALSE
      BY <3>6 DEF Find
    <3>7. Find(c)
      BY <3>1, <3>2, <3>3, <3>4, <3>5, <3>6 DEF Next, Step, Restock
    <3> QED
      BY <3>7 DEF Find, confirmSameProducts
  <2>2. order[c] \in Orders
    BY <2>1 DEF Find, CallInv, ProgressOf, InFlight
  <2>3. PICK sku \in SKUs : reservations[order[c]][sku] # 0
    BY <2>1 DEF Held
  <2>4. PICK d \in Calls : CompleteBasket(d, order[c], sku)
    BY <2>2, <2>3, AllOrNothingByBasket
  <2>5. basket[d] = basket[c]
    BY <2>2, <2>4, SameBasket DEF CompleteBasket
  <2>6. ASSUME NEW line \in SKUs
        PROVE  reservations[order[c]][line] = basket[c][line]
    <3>1. CASE basket[c][line] # 0
      BY <2>4, <2>5, <3>1 DEF CompleteBasket
    <3>2. CASE basket[c][line] = 0 /\ reservations[order[c]][line] # 0
      <4>1. PICK e \in Calls : CompleteBasket(e, order[c], line)
        BY <2>2, <3>2, AllOrNothingByBasket
      <4>2. basket[e] = basket[c]
        BY <2>2, <4>1, SameBasket DEF CompleteBasket
      <4> QED BY <3>2, <4>1, <4>2 DEF CompleteBasket
    <3> QED BY <3>1, <3>2
  <2>7. reservations[order[c]] = basket[c]
    BY <2>2, <2>6
  <2> QED
    BY <2>1, <2>7
<1> QED
  BY <1>1, Inductive, CarriesRequest, PTL DEF Spec, RepeatAccepted

=============================================================================
