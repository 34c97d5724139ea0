------------------------------ MODULE PatronCart ------------------------------
(* The patron page's menu, cart and checkout (MenuGrid, MenuItemCard,       *)
(* CartContext, CartSidebar) over the menu service, with what it sees of    *)
(* stock and orders: levels, orders taken whole or refused, and STOCK_ZERO  *)
(* messages.  One tab, in which an administrator may use the stock page.    *)
EXTENDS Naturals, FiniteSets, Functions

CONSTANTS
  Items,
  MaxLevel,      \* of an item's stock
  MaxPuts,       \* units the patron puts in the cart altogether
  MaxCheckouts,  \* clicks on Checkout
  MaxVisits,     \* visits to the admin page
  MaxCartLosses        \* calls or messages lost

ASSUME CartAssumption ==
  /\ {MaxLevel, MaxPuts, MaxCheckouts, MaxVisits, MaxCartLosses} \subseteq Nat
  /\ IsFiniteSet(Items)

VARIABLES
  level,    \* the stock level of each item, in Redis
  selling,  \* STOCK_ZERO messages on their way; the page only collects them
  unseen,   \* items whose message was lost
  silent,   \* items at zero with no message to come and no mark: see Unmarked
  marks,    \* zeroStockIds: of the tab, not of the page
  page,     \* which page the tab shows
  grid,     \* MenuGrid: its request to GET /menu, then what it shows
  cart,     \* the quantity of each item, 0 for no line
  put,      \* units the patron has ever put in the cart
  touched,  \* the cart was changed while this page was checking out
  order,    \* each POST /orders
  saving,   \* StockManager's PUT of each item's level
  visits, lostCalls

cartVars == <<level, selling, unseen, marks, silent, page, grid, cart, put, touched, order,
              saving, visits, lostCalls>>
shop == <<level, selling, unseen>>
soldOut == <<marks, silent>>
calls == <<order, saving>>
basket == <<cart, put, touched>>
budget == <<visits, lostCalls>>

Empty == [i \in Items |-> 0]
Checkouts == 1..MaxCheckouts
NoOrder == [step |-> "unused", lines |-> Empty, here |-> FALSE]
Loading == [step |-> "asked", available |-> Empty]

CartInit ==
  /\ level \in [Items -> 1..MaxLevel] /\ selling = {} /\ unseen = {}
  /\ marks = {} /\ silent = {} /\ page = "patron" /\ grid = Loading
  /\ cart = Empty /\ put = Empty /\ touched = FALSE
  /\ order = [k \in Checkouts |-> NoOrder] /\ saving = [i \in Items |-> "none"]
  /\ visits = 0 /\ lostCalls = 0

-----------------------------------------------------------------------------
(* The services.                                                            *)

(* A level that a sale brings to zero is announced.                         *)
Sell(lines) ==
  /\ level' = [i \in Items |-> level[i] - lines[i]]
  /\ selling' = selling \cup {i \in Items : lines[i] > 0 /\ level'[i] = 0}
  /\ UNCHANGED unseen

OthersBuy(i) ==
  /\ level[i] > 0
  /\ Sell([Empty EXCEPT ![i] = 1])
  /\ UNCHANGED <<soldOut, page, grid, basket, calls, budget>>

InStock(lines) == \A i \in Items : lines[i] <= level[i]

(* POST /orders: all of it, or 409.                                         *)
TakeOrder(k) ==
  /\ order[k].step = "asked"
  /\ IF InStock(order[k].lines)
     THEN order' = [order EXCEPT ![k].step = "placed"] /\ Sell(order[k].lines)
     ELSE order' = [order EXCEPT ![k].step = "refused"] /\ UNCHANGED shop
  /\ UNCHANGED <<soldOut, page, grid, basket, saving, budget>>

(* getMenu: the catalogue from memory, the levels from the stock service,   *)
(* read at one moment; 503 when it cannot be reached.                       *)
GetMenu ==
  /\ grid.step = "asked"
  /\ grid' = [step |-> "answered", available |-> level]
  /\ UNCHANGED <<shop, soldOut, page, basket, calls, budget>>

-----------------------------------------------------------------------------
(* The page.                                                                *)

ShowMenu ==
  /\ grid.step = "answered"
  /\ grid' = [grid EXCEPT !.step = "shown"]
  /\ UNCHANGED <<shop, soldOut, page, basket, calls, budget>>

(* applyMessage.                                                            *)
HearSellout(i) ==
  /\ i \in selling
  /\ selling' = selling \ {i} /\ marks' = marks \cup {i} /\ silent' = silent \ {i}
  /\ UNCHANGED <<level, unseen, page, grid, basket, calls, budget>>

(* The marks not looked at.                                                 *)
NoneAvailable(i) == grid.available[i] = 0

SoldOut(i) == grid.available[i] = 0 \/ i \in marks

CanAdd(i) == grid.step = "shown" /\ ~SoldOut(i) /\ cart[i] < grid.available[i]

InAll(units) == SumFunctionOnSet(units, Items)

UnderWay(k) == order[k].step \in {"asked", "placed", "refused"}

(* The button never disabled.                                               *)
NeverDisabled == FALSE

CheckingOut == \E k \in Checkouts : UnderWay(k) /\ order[k].here

(* addItem, and the + of a line, which no level limits.                     *)
PutOne(i) ==
  /\ page = "patron" /\ (CanAdd(i) \/ cart[i] > 0)
  /\ InAll(put) < MaxPuts
  /\ cart' = [cart EXCEPT ![i] = @ + 1] /\ put' = [put EXCEPT ![i] = @ + 1]
  /\ touched' = (touched \/ CheckingOut)
  /\ UNCHANGED <<shop, soldOut, page, grid, calls, budget>>

(* The - of a line, which removes it at zero, or its Remove.                *)
TakeOut(i) ==
  /\ cart[i] > 0
  /\ \E quantity \in {0, cart[i] - 1} : cart' = [cart EXCEPT ![i] = quantity]
  /\ touched' = (touched \/ CheckingOut)
  /\ UNCHANGED <<shop, soldOut, page, grid, put, calls, budget>>

(* handleCheckout sends the cart as it is.                                  *)
Checkout(k) ==
  /\ cart # Empty /\ ~CheckingOut
  /\ order[k] = NoOrder /\ \A n \in 1..(k - 1) : order[n] # NoOrder
  /\ order' = [order EXCEPT ![k] = [step |-> "asked", lines |-> cart, here |-> TRUE]]
  /\ touched' = FALSE
  /\ UNCHANGED <<shop, soldOut, page, grid, cart, put, saving, budget>>

(* The cart cleared whoever shows it by then.                               *)
ClearAnyCart(k) ==
  /\ order[k].step = "placed"
  /\ cart' = Empty
  /\ order' = [order EXCEPT ![k].step = "heard"]
  /\ UNCHANGED <<shop, soldOut, page, grid, put, touched, saving, budget>>

(* The answer empties the cart of the page that asked, if it is still there.*)
HearOrderPlaced(k) ==
  /\ order[k].step = "placed"
  /\ cart' = IF order[k].here THEN Empty ELSE cart
  /\ order' = [order EXCEPT ![k].step = "heard"]
  /\ UNCHANGED <<shop, soldOut, page, grid, put, touched, saving, budget>>

HearRefused(k) ==
  /\ order[k].step = "refused"
  /\ order' = [order EXCEPT ![k].step = "failed"]
  /\ UNCHANGED <<shop, soldOut, page, grid, basket, saving, budget>>

(* The tab goes to the admin page: the cart and the grid go with the page,  *)
(* its calls go on.                                                         *)
GoToAdmin ==
  /\ page = "patron" /\ visits < MaxVisits
  /\ page' = "admin" /\ visits' = visits + 1
  /\ cart' = Empty /\ touched' = FALSE /\ grid' = Loading
  /\ order' = [k \in Checkouts |-> [order[k] EXCEPT !.here = FALSE]]
  /\ UNCHANGED <<shop, soldOut, put, saving, lostCalls>>

(* handleSave: any natural number may have been typed.  A level set to zero *)
(* is not announced.  An item has one PUT under way here; saving another    *)
(* item enables its button before.                                          *)
ClickSave(i) ==
  /\ page = "admin" /\ saving[i] = "none"
  /\ saving' = [saving EXCEPT ![i] = "asked"]
  /\ UNCHANGED <<shop, soldOut, page, grid, basket, order, budget>>

SetLevel(i) ==
  /\ saving[i] = "asked"
  /\ \E n \in 0..MaxLevel :
       /\ level' = [level EXCEPT ![i] = n]
       /\ silent' = IF n = 0 THEN silent \cup {i} ELSE silent
  /\ saving' = [saving EXCEPT ![i] = "done"]
  /\ UNCHANGED <<selling, unseen, marks, page, grid, basket, order, budget>>

(* clearZeroStock forgets every item; the answer calls it wherever the tab  *)
(* is by then.                                                              *)
HearSaved(i) ==
  /\ saving[i] = "done"
  /\ saving' = [saving EXCEPT ![i] = "none"]
  /\ marks' = {} /\ silent' = IF page = "patron" THEN silent \cup marks ELSE silent
  /\ UNCHANGED <<shop, page, grid, basket, order, budget>>

Return ==
  /\ page = "admin"
  /\ page' = "patron" /\ grid' = Loading
  /\ UNCHANGED <<shop, soldOut, basket, calls, budget>>

-----------------------------------------------------------------------------
(* An order fails before it is taken, or its answer is lost after; the menu *)
(* cannot be read; a message breaks with its connection.                    *)

LoseOne == lostCalls < MaxCartLosses /\ lostCalls' = lostCalls + 1

LoseOrder(k) ==
  /\ UnderWay(k) /\ LoseOne
  /\ order' = [order EXCEPT ![k].step = IF @ = "placed" THEN "unheard" ELSE "failed"]
  /\ UNCHANGED <<shop, soldOut, page, grid, basket, saving, visits>>

(* The marks stay, whether or not the level was set.                        *)
LoseSave(i) ==
  /\ saving[i] # "none" /\ LoseOne
  /\ saving' = [saving EXCEPT ![i] = "none"]
  /\ UNCHANGED <<shop, soldOut, page, grid, basket, order, visits>>

LoseMenu ==
  /\ page = "patron" /\ grid.step \in {"asked", "answered"} /\ LoseOne
  /\ grid' = [Loading EXCEPT !.step = "failed"]
  /\ UNCHANGED <<shop, soldOut, page, basket, calls, visits>>

LoseSellout(i) ==
  /\ i \in selling /\ LoseOne
  /\ selling' = selling \ {i} /\ unseen' = unseen \cup {i}
  /\ UNCHANGED <<level, soldOut, page, grid, basket, calls, visits>>

SettleOrder(k) == TakeOrder(k) \/ HearOrderPlaced(k) \/ HearRefused(k)
ReadMenu == page = "patron" /\ (GetMenu \/ ShowMenu)
Shop(i) == PutOne(i) \/ TakeOut(i)
Manage(i) == OthersBuy(i) \/ ClickSave(i)
Save(i) == SetLevel(i) \/ HearSaved(i)

CartNext ==
  \/ \E k \in Checkouts : Checkout(k) \/ SettleOrder(k) \/ LoseOrder(k)
  \/ \E i \in Items : Shop(i) \/ Manage(i) \/ Save(i) \/ HearSellout(i) \/ LoseSellout(i)
                     \/ LoseSave(i)
  \/ ReadMenu \/ LoseMenu
  \/ GoToAdmin \/ Return

(* Calls are answered and messages arrive; nobody shops or manages.         *)
CartSpec == CartInit /\ [][CartNext]_cartVars
FairCartSpec ==
  /\ CartSpec
  /\ WF_cartVars(ReadMenu)
  /\ \A k \in Checkouts : WF_cartVars(SettleOrder(k))
  /\ \A i \in Items : WF_cartVars(HearSellout(i)) /\ WF_cartVars(Save(i))

-----------------------------------------------------------------------------

(* Every variable keeps its type.                                           *)
CartTypeOK ==
  /\ level \in [Items -> 0..MaxLevel]
  /\ selling \subseteq Items /\ unseen \subseteq Items /\ marks \subseteq Items
  /\ silent \subseteq Items /\ saving \in [Items -> {"none", "asked", "done"}]
  /\ page \in {"patron", "admin"}
  /\ grid \in [step : {"asked", "answered", "shown", "failed"}, available : [Items -> 0..MaxLevel]]
  /\ cart \in [Items -> 0..MaxPuts] /\ put \in [Items -> 0..MaxPuts] /\ touched \in BOOLEAN
  /\ order \in [Checkouts -> [step : {"unused", "asked", "placed", "refused", "heard", "failed", "unheard"},
                              lines : [Items -> 0..MaxPuts], here : BOOLEAN]]
  /\ visits \in 0..MaxVisits /\ lostCalls \in 0..MaxCartLosses

Acknowledged == {k \in Checkouts : order[k].step \in {"placed", "heard"}}

(* No unit the patron put in the cart is ordered twice, however checkouts,  *)
(* clicks while one is under way and changes of page interleave.  Only an   *)
(* order whose answer was lost may be followed by the same order again.     *)
OrderedOnce ==
  \A i \in Items :
    SumFunctionOnSet([k \in Checkouts |-> order[k].lines[i]], Acknowledged) <= put[i]

(* What an answer removes from the cart is what was ordered, unless the     *)
(* patron changed the cart while the order was being placed: an answer that *)
(* comes late, to a page that is gone, empties no cart filled since.        *)
ClearsItsOrder ==
  [][\A k \in Checkouts :
       order[k].step = "placed" /\ order'[k].step = "heard" /\ cart' # cart
         => touched \/ cart = order[k].lines]_cartVars

(* An item whose last unit was sold, its message not lost, ends up where    *)
(* nobody can add it, also when the menu's answer is older than the sale, or*)
(* an administrator in this tab cleared the marks of every item.  What the  *)
(* code leaves out are levels saved as zero, and marks cleared by an answer *)
(* that came when the tab had left the admin page.                          *)
Unmarked(i) == level[i] = 0 /\ i \notin unseen /\ page = "patron" /\ CanAdd(i)
SelloutReaches == \A i \in Items : <>[](Unmarked(i) => i \in silent)

=============================================================================
