----------------------------- MODULE RedisStock -----------------------------
(***************************************************************************)
(* The two Lua scripts of the stock service, as functions on the value of  *)
(* one key stock:available:{itemId}.  Redis runs a script on its single    *)
(* thread, so wherever a specification applies one of these to its stock,  *)
(* it does so in one step.                                                 *)
(***************************************************************************)
EXTENDS Integers

(* GET on a key that does not exist; a level is never negative otherwise.  *)
NoKey == -1
Levels == Nat \cup {NoKey}

SUCCESS == 1
INSUFFICIENT == 0
NOT_FOUND == -1

(* The script without its comparison of the level with the quantity.       *)
UncheckedCode(level, quantity) == IF level = NoKey THEN NOT_FOUND ELSE SUCCESS

(* The code decrement-stock.lua returns: is the key there, is there enough. *)
DecrementCode(level, quantity) ==
  IF level = NoKey THEN NOT_FOUND
  ELSE IF level < quantity THEN INSUFFICIENT
  ELSE SUCCESS

AfterDecrement(level, quantity) ==
  IF DecrementCode(level, quantity) = SUCCESS THEN level - quantity ELSE level

(* release-stock.lua refuses to resurrect a key that is not there. *)
AfterRelease(level, quantity) ==
  IF level = NoKey THEN NoKey ELSE level + quantity

=============================================================================
