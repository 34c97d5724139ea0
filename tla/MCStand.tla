------------------------------- MODULE MCStand -------------------------------
(* The stand: the stock service's handlers, its write-behind worker, the    *)
(* start of the stack that seeds both stores, and the admin page's table of *)
(* orders.  They share no variable, so a behaviour plays one of the four.   *)
EXTENDS StockService, WriteBehind, StackStart, AdminOrders, TLC

CONSTANTS d1, d2, t1, a1, f1, f2, cola, corn, ghost, trial, none, o1, o2

VARIABLE part

Ask(i, q) == [itemId |-> i, quantity |-> q]

(* A scarce item and one Redis does not track; requests that take the last  *)
(* unit, more than there is, or make no sense.                              *)
Opening == (cola :> 2) @@ (ghost :> NoKey)
Seeds == <<[id |-> cola, initialStock |-> 1], [id |-> ghost, initialStock |-> 1]>>
AllRequests == {Ask(cola, 1), Ask(cola, 2), Ask(ghost, 1), Ask(none, 1)}
ReturnsFirst == t1 :> d1

(* Two catalogue items, one of them missing until it is written, and a key  *)
(* the catalogue does not know, in the middle or last, in an order where    *)
(* SCAN reports a key twice; levels deleted and wider than the column.      *)
OpeningTrial == (cola :> 2) @@ (corn :> NoKey) @@ (trial :> 1)
Rows == (cola :> 2) @@ (corn :> 1)
TrialLater == {<<cola, trial, corn>>, <<cola, corn, cola, trial>>}
WideLevels == {1, 3, NoKey}

TwoProducts == <<cola, corn>>

PartInit ==
  /\ part \in {"service", "sync", "start", "orders"}
  /\ Init /\ SyncInit /\ StackInit /\ AdminInit
  /\ part # "service" => request = [d \in Decrements |-> Ask(cola, 1)]
  /\ part # "sync" => scanOrder = <<cola, trial, corn>>

PartNext ==
  \/ Next /\ part = "service" /\ UNCHANGED <<part, syncVars, stackVars, adminVars>>
  \/ SyncNext /\ part = "sync" /\ UNCHANGED <<part, vars, stackVars, adminVars>>
  \/ StackNext /\ part = "start" /\ UNCHANGED <<part, vars, syncVars, adminVars>>
  \/ AdminNext /\ part = "orders" /\ UNCHANGED <<part, vars, syncVars, stackVars>>

(* The fairness of each part, where it is played.                           *)
PartSpec ==
  /\ PartInit /\ [][PartNext]_<<part, vars, syncVars, stackVars, adminVars>>
  /\ WF_syncVars(part = "sync" /\ Tick)
  /\ \A f \in Flushes : WF_syncVars(part = "sync" /\ FlushStep(f))
  /\ \A n \in Tasks : WF_adminVars(part = "orders" /\ (Serve(n) \/ Hear(n)))
  /\ WF_adminVars(part = "orders" /\ LoggedIn)

=============================================================================
