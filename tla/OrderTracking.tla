---------------------------- MODULE OrderTracking ----------------------------
(* The patron's list of orders: answers of GET /orders, asked for when the  *)
(* page is ready, after a checkout and after a cancellation, meet the       *)
(* statuses the feed brings.  Of the order service there is what the page   *)
(* sees of it: rows, and one administrator whose updates are announced.     *)
EXTENDS Naturals, Sequences, FiniteSets

CONSTANTS
  Orders,      \* orders this page may place
  MaxLoads,    \* loads of the list
  MaxReloads,  \* times the page is loaded again
  MaxLosses    \* calls that fail, or breaks of the feed

ASSUME TrackingAssumption == {MaxLoads, MaxReloads, MaxLosses} \subseteq Nat

VARIABLES
  row,         \* orders.status in Postgres
  announcing,  \* updates committed and not announced yet
  feed,        \* messages on their way to the page, in order (see Tunnel)
  missed,      \* orders with a message that broke with a connection
  placing,     \* checkouts committed whose answer the page has not heard
  load,        \* loads: asked for, read by the service, settled
  listed,      \* trackableOrders, "none" for what it does not hold
  told,        \* orderStatuses
  cancel,      \* DELETE calls, by the order
  cancelling,  \* cancellingId
  dismissed,   \* dismissed orders, in the state and in sessionStorage
  reloads, losses

trackingVars == <<row, announcing, feed, missed, placing, load, listed, told, cancel,
                  cancelling, dismissed, reloads, losses>>
backend == <<row, announcing>>
messages == <<feed, missed, told>>
clicks == <<placing, cancel, cancelling>>
limits == <<reloads, losses>>

Placed == "placed"
NextStatus == [s \in {"placed", "preparing", "ready"} |->
                 CASE s = "placed" -> "preparing" [] s = "preparing" -> "ready"
                   [] s = "ready" -> "seat-delivered"]
Trackable == {"placed", "preparing", "ready"}
Cancellable == {"placed"}
RowStates == Trackable \cup {"none", "seat-delivered", "cancelled"}

(* A load that is not in flight has no answer; whose is the cancellation    *)
(* that awaits it, if any.                                                  *)
Unused == [step |-> "unused", rows |-> <<>>, for |-> {}]
InFlight(n) == load[n].step \in {"asked", "read"}

TrackingInit ==
  /\ row \in [Orders -> {"none", Placed}] /\ announcing = {}
  /\ feed = <<>> /\ missed = {} /\ told = [o \in Orders |-> "none"]
  /\ placing = {}
  /\ load = [n \in 1..MaxLoads |->
               IF n = 1 THEN [Unused EXCEPT !.step = "asked"] ELSE Unused]
  /\ listed = [o \in Orders |-> "none"]
  /\ cancel = [o \in Orders |-> "none"] /\ cancelling = {}
  /\ dismissed = {}
  /\ reloads = 0 /\ losses = 0

-----------------------------------------------------------------------------
(* The service.                                                             *)

PlaceAnOrder(o) ==
  /\ row[o] = "none"
  /\ row' = [row EXCEPT ![o] = Placed]
  /\ placing' = placing \cup {o}
  /\ UNCHANGED <<announcing, messages, load, listed, cancel, cancelling, dismissed, limits>>

(* The administrator's button is disabled until the last update of the      *)
(* order is answered, which it is after it has been announced.              *)
AdvanceRow(o) ==
  /\ row[o] \in DOMAIN NextStatus
  /\ \A m \in announcing : m[1] # o
  /\ row' = [row EXCEPT ![o] = NextStatus[@]]
  /\ announcing' = announcing \cup {<<o, row'[o]>>}
  /\ UNCHANGED <<messages, load, listed, clicks, dismissed, limits>>

AnnounceRow(m) ==
  /\ announcing' = announcing \ {m}
  /\ feed' = Append(feed, m)
  /\ UNCHANGED <<row, missed, told, load, listed, clicks, dismissed, limits>>

(* Another tab of the patron cancels: nobody announces it.                  *)
CancelElsewhere(o) ==
  /\ row[o] \in Cancellable
  /\ row' = [row EXCEPT ![o] = "cancelled"]
  /\ UNCHANGED <<announcing, messages, load, listed, clicks, dismissed, limits>>

(* listOrders reads every order of the patron.                              *)
ReadOrders(n) ==
  /\ load[n].step = "asked"
  /\ load' = [load EXCEPT ![n].step = "read", ![n].rows = row]
  /\ UNCHANGED <<backend, messages, listed, clicks, dismissed, limits>>

CancelRow(o) ==
  /\ cancel[o] = "asked"
  /\ cancel' = [cancel EXCEPT ![o] = IF row[o] \in Cancellable THEN "done" ELSE "refused"]
  /\ row' = [row EXCEPT ![o] = IF @ \in Cancellable THEN "cancelled" ELSE @]
  /\ UNCHANGED <<announcing, messages, placing, load, listed, cancelling, dismissed, limits>>

-----------------------------------------------------------------------------
(* The page.                                                                *)

(* loadTrackableOrders, for a cancellation or for nobody.                   *)
AskOrders(for) ==
  \E n \in 1..MaxLoads :
    /\ load[n] = Unused /\ \A k \in 1..(n - 1) : load[k] # Unused
    /\ load' = [load EXCEPT ![n] = [Unused EXCEPT !.step = "asked", !.for = for]]

OnlyTrackable(list) == [o \in Orders |-> IF list[o] \in Trackable THEN list[o] ELSE "none"]

(* The answer replaces the list, whichever load it belongs to; a            *)
(* cancellation that awaited it is over.                                    *)
Settle(n) ==
  /\ load' = [load EXCEPT ![n] = [Unused EXCEPT !.step = "settled"]]
  /\ cancelling' = IF load[n].for = {} THEN cancelling ELSE {}
  /\ cancel' = [o \in Orders |-> IF o \in load[n].for THEN "none" ELSE cancel[o]]

ShowOrders(n) ==
  /\ load[n].step = "read"
  /\ listed' = OnlyTrackable(load[n].rows)
  /\ Settle(n)
  /\ UNCHANGED <<backend, messages, placing, dismissed, limits>>

(* onOrderPlaced.                                                           *)
HearPlaced(o) ==
  /\ o \in placing
  /\ placing' = placing \ {o}
  /\ AskOrders({})
  /\ UNCHANGED <<backend, messages, listed, cancel, cancelling, dismissed, limits>>

(* applyMessage, and the effect that merges every status told so far into   *)
(* the list.                                                                *)
Merge(list, statuses) ==
  OnlyTrackable([o \in Orders |->
    IF list[o] # "none" /\ statuses[o] # "none" THEN statuses[o] ELSE list[o]])

HearStatus ==
  /\ feed # <<>>
  /\ LET m == Head(feed) IN told' = [told EXCEPT ![m[1]] = m[2]]
  /\ feed' = Tail(feed)
  /\ listed' = Merge(listed, told')
  /\ UNCHANGED <<backend, missed, load, clicks, dismissed, limits>>

(* The list believed before the feed.                                       *)
ListedFirst(o) == IF listed[o] # "none" THEN listed[o] ELSE told[o]

Display(o) == IF told[o] # "none" THEN told[o] ELSE listed[o]

Shown == {o \in Orders : listed[o] # "none"} \ dismissed

(* handleCancel: the button of one order at a time is disabled.  An order   *)
(* has one call under way here; the page may start another meanwhile.       *)
ClickCancel(o) ==
  /\ o \in Shown /\ Display(o) \in Cancellable /\ cancelling # {o} /\ cancel[o] = "none"
  /\ cancelling' = {o}
  /\ cancel' = [cancel EXCEPT ![o] = "asked"]
  /\ UNCHANGED <<backend, messages, placing, load, listed, dismissed, limits>>

HearCancelled(o) ==
  /\ cancel[o] = "done"
  /\ AskOrders({o})
  /\ cancel' = [cancel EXCEPT ![o] = "loading"]
  /\ UNCHANGED <<backend, messages, placing, listed, cancelling, dismissed, limits>>

HearRefusal(o) ==
  /\ cancel[o] = "refused"
  /\ cancel' = [cancel EXCEPT ![o] = "none"]
  /\ cancelling' = {}
  /\ UNCHANGED <<backend, messages, placing, load, listed, dismissed, limits>>

ClickDismiss(o) ==
  /\ o \in Shown
  /\ dismissed' = dismissed \cup {o}
  /\ UNCHANGED <<backend, messages, load, listed, clicks, limits>>

(* The view is mounted anew: what it had asked for is heard by nobody.  A   *)
(* call that has not reached the service yet may still do so, as a          *)
(* cancellation elsewhere.                                                  *)
Remount ==
  /\ reloads < MaxReloads
  /\ reloads' = reloads + 1
  /\ \E n \in 1..MaxLoads :
       /\ load[n] = Unused /\ \A k \in 1..(n - 1) : load[k] # Unused
       /\ load' = [k \in 1..MaxLoads |->
                     IF k = n THEN [Unused EXCEPT !.step = "asked"]
                     ELSE IF k < n THEN [Unused EXCEPT !.step = "settled"] ELSE Unused]
  /\ listed' = [o \in Orders |-> "none"]
  /\ placing' = {} /\ cancel' = [o \in Orders |-> "none"] /\ cancelling' = {}
  /\ UNCHANGED <<backend, missed, dismissed, losses>>

(* The patron comes back from the admin page: the feed has gone on.         *)
ReturnToPage == Remount /\ UNCHANGED <<told, feed>>

(* The page is loaded again: only sessionStorage survives.                  *)
ReloadPage == Remount /\ told' = [o \in Orders |-> "none"] /\ feed' = <<>>

-----------------------------------------------------------------------------
(* What may go wrong: a load or a cancellation fails, after its effect or   *)
(* before; the connection breaks with what it carries.                      *)

LoseLoad(n) ==
  /\ InFlight(n) /\ losses < MaxLosses
  /\ losses' = losses + 1
  /\ Settle(n)
  /\ UNCHANGED <<backend, messages, placing, listed, dismissed, reloads>>

LoseCancel(o) ==
  /\ cancel[o] \in {"asked", "done"} /\ losses < MaxLosses
  /\ losses' = losses + 1
  /\ cancel' = [cancel EXCEPT ![o] = "refused"]
  /\ UNCHANGED <<backend, messages, placing, load, listed, cancelling, dismissed, reloads>>

BreakFeed ==
  /\ feed # <<>> /\ losses < MaxLosses
  /\ losses' = losses + 1
  /\ missed' = missed \cup {feed[k][1] : k \in DOMAIN feed}
  /\ feed' = <<>>
  /\ UNCHANGED <<backend, told, load, listed, clicks, dismissed, reloads>>

LoadStep(n) == ReadOrders(n) \/ ShowOrders(n)
CallStep(o) == CancelRow(o) \/ HearPlaced(o) \/ HearCancelled(o) \/ HearRefusal(o)
Announce(o) == \E m \in announcing : m[1] = o /\ AnnounceRow(m)
Click(o) == ClickCancel(o) \/ ClickDismiss(o)
Outside(o) == PlaceAnOrder(o) \/ AdvanceRow(o) \/ CancelElsewhere(o)

TrackingNext ==
  \/ \E n \in 1..MaxLoads : LoadStep(n) \/ LoseLoad(n)
  \/ \E o \in Orders : CallStep(o) \/ Announce(o) \/ Click(o) \/ Outside(o) \/ LoseCancel(o)
  \/ HearStatus
  \/ ReturnToPage
  \/ ReloadPage
  \/ BreakFeed

(* What is under way settles; nobody orders, cooks or clicks.               *)
TrackingSpec == TrackingInit /\ [][TrackingNext]_trackingVars
FairTrackingSpec ==
  /\ TrackingSpec
  /\ \A n \in 1..MaxLoads : WF_trackingVars(LoadStep(n))
  /\ \A o \in Orders : WF_trackingVars(CallStep(o)) /\ WF_trackingVars(Announce(o))
  /\ WF_trackingVars(HearStatus)

-----------------------------------------------------------------------------

(* Every variable keeps its type; a row is announced after it is committed. *)
TrackingTypeOK ==
  /\ row \in [Orders -> RowStates] /\ listed \in [Orders -> Trackable \cup {"none"}]
  /\ told \in [Orders -> RowStates] /\ announcing \subseteq (Orders \X RowStates)
  /\ feed \in Seq(Orders \X RowStates) /\ missed \subseteq Orders
  /\ placing \subseteq Orders /\ dismissed \subseteq Orders
  /\ \A n \in 1..MaxLoads : /\ load[n].step \in {"unused", "asked", "read", "settled"}
                            /\ load[n].for \subseteq Orders
  /\ cancel \in [Orders -> {"none", "asked", "done", "refused", "loading"}]
  /\ cancelling \subseteq Orders /\ Cardinality(cancelling) <= 1
  /\ reloads \in 0..MaxReloads /\ losses \in 0..MaxLosses

Rank(s) ==
  CASE s = "placed" -> 1 [] s = "preparing" -> 2 [] s = "ready" -> 3
    [] s = "seat-delivered" -> 4 [] OTHER -> 0

(* Once the feed has told the page of an order, its progress never goes     *)
(* back before the patron's eyes, however late and in whatever order the    *)
(* answers of loads and cancellations arrive.                               *)
NeverBack ==
  [][\A o \in Orders :
       told[o] # "none" /\ o \in Shown /\ o \in Shown' /\ reloads' = reloads
         => Rank(Display(o)') >= Rank(Display(o))]_trackingVars

(* Unless a message was lost, or the order was cancelled, which no message  *)
(* says, what the page shows of an order ends up being true: no stale       *)
(* answer outlives the feed, whichever loads overlap or fail.               *)
TruthShown ==
  \A o \in Orders :
    <>[](o \in Shown \ missed /\ row[o] # "cancelled" => Display(o) = row[o])

=============================================================================
