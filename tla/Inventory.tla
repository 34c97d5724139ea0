----------------------------- MODULE Inventory ------------------------------
(***************************************************************************)
(* What checkout promises about stock, whatever the order of its awaits.   *)
(* A claim is one line of one checkout: it takes its units off the shelf   *)
(* once, either at reservation or never, may be sold with the other lines  *)
(* of its order, and gives its units back at most once.  A closed claim is *)
(* finished: its units were returned, or a fault lost them.  Units may be  *)
(* lost; nothing but a return and the administrator puts units back.       *)
(***************************************************************************)
EXTENDS RedisStock

CONSTANTS Items,        \* catalog item ids
          Claims,       \* identities of checkout lines
          AdminLevels   \* levels an administrator may write

VARIABLES stock,        \* item -> available units, or NoKey
          claim         \* claim -> NoClaim or a claim record

vars == <<stock, claim>>

NoClaim == [state |-> "none"]
ClaimRecord ==
  [state : {"held", "sold", "closed"}, item : Items, quantity : Nat \ {0}]

TypeOK ==
  /\ stock \in [Items -> Levels]
  /\ claim \in [Claims -> ClaimRecord \cup {NoClaim}]

Init ==
  /\ stock \in [Items -> Levels]
  /\ claim = [x \in Claims |-> NoClaim]

InState(x, states) == claim[x].state \in states

MoveTo(X, state) ==
  claim' = [x \in Claims |-> IF x \in X THEN [claim[x] EXCEPT !.state = state]
                                        ELSE claim[x]]

(* Units leave the shelf only if they are there. *)
Reserve(x) ==
  /\ claim[x] = NoClaim
  /\ \E i \in Items : \E q \in 1..stock[i] :
       /\ stock' = [stock EXCEPT ![i] = @ - q]
       /\ claim' = [claim EXCEPT ![x] = [state |-> "held", item |-> i, quantity |-> q]]

(* An order sells all of its lines at once. *)
Sell(X) ==
  /\ \A x \in X : InState(x, {"held"})
  /\ MoveTo(X, "sold")
  /\ UNCHANGED stock

Return(x) ==
  /\ InState(x, {"held", "sold"})
  /\ stock' = [stock EXCEPT ![claim[x].item] = AfterRelease(@, claim[x].quantity)]
  /\ MoveTo({x}, "closed")

(* A fault: claims end without giving back, and one item may lose units.   *)
Lose(X) ==
  /\ \A x \in X : InState(x, {"held", "sold"})
  /\ MoveTo(X, "closed")
  /\ \/ UNCHANGED stock
     \/ \E i \in Items : \E level \in 0..stock[i] : stock' = [stock EXCEPT ![i] = level]

Supply(i, level) ==
  /\ stock' = [stock EXCEPT ![i] = level]
  /\ UNCHANGED claim

Next ==
  \/ \E x \in Claims : Reserve(x) \/ Return(x)
  \/ \E X \in SUBSET Claims : Sell(X) \/ Lose(X)
  \/ \E i \in Items, level \in AdminLevels : Supply(i, level)

Spec == Init /\ [][Next]_vars

=============================================================================
