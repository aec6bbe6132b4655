---------------------------- MODULE MCInventory ----------------------------
(***************************************************************************)
(* Small instances of Inventory. Products 1 and 2 are stocked, 3 is not.   *)
(***************************************************************************)
EXTENDS Inventory, TLC

MCSKUs == {1, 2, 3}
MCStocked == {1, 2}
MCTrimSKU == [name \in {"A", "B", "C"} |->
                CASE name = "A" -> 1 [] name = "B" -> 2 [] name = "C" -> 3]
MCParseOrder == [id \in {"o1", "o2"} |-> id]
MCInitialOnHand == [sku \in Stocked |-> IF sku = 1 THEN 2 ELSE 1]

L(name, quantity) == [sku |-> name, quantity |-> quantity]
R(id, lines) == [order |-> id, lines |-> lines]

\* Baskets that overlap and that do not, under shared and separate order ids;
\* one asks for a product nobody stocks, one splits a line, one is empty.
MixedRequests == {
    R("o1", <<L("B", 1), L("A", 1)>>),
    R("o1", <<L("A", 2)>>),
    R("o2", <<L("A", 1), L("A", 1), L("B", 1)>>),
    R("o2", <<L("C", 1), L("A", 1)>>),
    R("o2", <<>>) }

\* The order service: one basket per order id.
SteadyRequests == {
    R("o1", <<L("B", 1), L("A", 1)>>),
    R("o2", <<L("A", 2), L("B", 1)>>) }

CallSymmetry == Permutations(Calls)
=============================================================================
