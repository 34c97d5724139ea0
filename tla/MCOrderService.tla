--------------------------- MODULE MCOrderService ---------------------------
(* Small instances of the order service: two items, one of them tracked by *)
(* Redis with few units, and carts that contend for them.                  *)
EXTENDS OrderService, TLC

CONSTANTS r1, r2, c1, c2, u1, u2, u3, cola, corn, ghost, ann, bob

Cart(items) == [items |-> items, addressed |-> TRUE, simulation |-> FALSE]
L(i, q) == [item |-> i, quantity |-> q]

Opening2 == (cola :> 2) @@ (corn :> 1)
Opening3 == Opening2 @@ (ghost :> NoKey)

(* All one patron's; or one patron's order and another's attempt on it.    *)
OnePatron == [h \in Checkouts \cup Cancels |-> ann]
TwoPatrons == [h \in Checkouts \cup Cancels |-> IF h \in {r2, c2} THEN bob ELSE ann]

(* Two lines, the second scarce.                                           *)
RaceCarts == {Cart(<<L(cola, 1), L(corn, 1)>>)}

(* Two lines, the second scarce; one item on two lines.                    *)
Carts ==
  {Cart(<<L(cola, 2), L(corn, 1)>>), Cart(<<L(cola, 1), L(cola, 1)>>)}

(* An item Redis does not track after one it does; a simulated checkout.   *)
Simulated == [Cart(<<L(cola, 1)>>) EXCEPT !.simulation = TRUE]
OddCarts == {Cart(<<L(corn, 1), L(ghost, 1)>>), Simulated}

(* Bodies that fail validation.                                            *)
InvalidBodies ==
  {Cart(<<>>), Cart(<<L(cola, 0)>>), [Cart(<<L(corn, 1)>>) EXCEPT !.addressed = FALSE]}

FaultCarts == Carts \cup OddCarts \cup InvalidBodies
OneCart == {Cart(<<L(cola, 1)>>)}

(* One patron's checkouts, and the cancellations, only differ in name.     *)
Interchangeable == Permutations(Checkouts) \cup Permutations(Cancels)

=============================================================================
