----------------------------- MODULE MCCheckout -----------------------------
EXTENDS Checkout, TLC

\* 1 and 2 are sold for euros, 3 for dollars and not stocked, 4 not sold at all.
MCSKUs == {1, 2, 3, 4}

\* "A" and " A " are one product, and "  " is blank.
MCTrimSKU == "A" :> 1 @@ " A " :> 1 @@ "B" :> 2 @@ "C" :> 3 @@ "X" :> 4 @@ "  " :> Blank
MCParseOrder == "uuid" :> "o1" @@ "nonsense" :> NotAUUID
MCPrices == 1 :> [amount |-> 2, currency |-> "EUR"]
         @@ 2 :> [amount |-> 1, currency |-> "EUR"]
         @@ 3 :> [amount |-> 0, currency |-> "USD"]
=============================================================================
