--------------------------- MODULE MCWriteBehind ---------------------------
(* A small instance of the write-behind worker: two catalogue items and a  *)
(* key the catalogue does not know, the first that SCAN visits.            *)
EXTENDS WriteBehind, TLC

CONSTANTS cola, corn, trial, f1, f2

OpeningTrial == (cola :> 2) @@ (corn :> NoKey) @@ (trial :> 1)
Rows == (cola :> 2) @@ (corn :> 1)
TrialFirst == {<<trial, cola, corn>>}
SomeLevels == {0, 1, NoKey}

=============================================================================
