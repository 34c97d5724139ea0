--------------------------- MODULE MCStockService ---------------------------
(* A small instance of the stock service: a scarce item and an untracked   *)
(* one.                                                                    *)
EXTENDS StockService, TLC

CONSTANTS d1, d2, t1, a1, cola, ghost, none

Opening == (cola :> 2) @@ (ghost :> NoKey)
Seeds == <<[id |-> cola, initialStock |-> 1]>>

Buys == {[itemId |-> cola, quantity |-> q] : q \in {1, 2}}
ReturnsFirst == t1 :> d1

=============================================================================
