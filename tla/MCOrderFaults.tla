---------------------------- MODULE MCOrderFaults ----------------------------
(* Three instances of the order service in one run: two checkouts and a     *)
(* cancellation whose calls may fail and whose process may die; the same    *)
(* and an update while a store or the queues may stay silent; and three     *)
(* administrators and a patron at one order, nothing failing.               *)
EXTENDS MCOrderService

NoCart == Cart(<<>>)
BothCarts == FaultCarts \cup OneCart

(* Of two invalid bodies each would be refused without a trace.             *)
FaultsInit ==
  /\ "crash" \in failing
  /\ body[r1] \in FaultCarts
  /\ body[r2] \in FaultCarts \ InvalidBodies
  /\ \A u \in Updates : target[u] = r1 /\ wanted[u] = "none"

Silences == {{"stock silent", "database silent"}, {"queues silent"}}

SilenceInit ==
  /\ failing \in Silences
  /\ \A r \in Checkouts : body[r] \in Carts
  /\ \A u \in Updates : target[u] = r1
  /\ wanted[u1] = IF "queues silent" \in failing THEN "none" ELSE "preparing"
  /\ wanted[u2] = "none" /\ wanted[u3] = "none"

(* The updates only differ in name: their statuses are given out in order.  *)
Rank ==
  "placed" :> 1 @@ "preparing" :> 2 @@ "ready" :> 3 @@ "seat-delivered" :> 4

(* The other checkout is refused at once.                                   *)
FulfilmentInit ==
  /\ failing = {}
  /\ body[r1] \in OneCart /\ body[r2] = NoCart
  /\ target[c1] = r1
  /\ \A u \in Updates : target[u] = r1 /\ wanted[u] # "none"
  /\ Rank[wanted[u1]] <= Rank[wanted[u2]] /\ Rank[wanted[u2]] <= Rank[wanted[u3]]

AnyInit == Init /\ (FaultsInit \/ SilenceInit \/ FulfilmentInit)
AnySpec == AnyInit /\ [][Next]_vars /\ Fairness

=============================================================================
