---------------------------- MODULE OrderService ----------------------------
(***************************************************************************)
(* The order service: placeOrder, cancelOrder and updateOrderStatus of     *)
(* order-controller.ts, run concurrently by one Bun process against the    *)
(* stock service (gRPC over Redis), the payment gateway, Postgres and the  *)
(* BullMQ queues.  A handler runs without interruption between two awaits, *)
(* so each action is one awaited call with the code up to the next await.  *)
(*                                                                         *)
(* An order is named by the checkout that creates it.  Its owner and lines *)
(* are written once, in createOrder, and equal that checkout's.            *)
(***************************************************************************)
EXTENDS RedisStock, Sequences, FiniteSets, Functions

CONSTANTS Items,         \* item ids a body may name
          OpeningStock,  \* item -> level when the behaviour starts
          Checkouts,     \* placeOrder calls, and the orders they may create
          Cancels,       \* cancelOrder calls
          Updates,       \* updateOrderStatus calls
          PatronOf,      \* Checkouts and Cancels -> request.user.sub
          Bodies,        \* bodies a placeOrder call may carry
          MaxLines,      \* the most lines such a body has
          Wanted,        \* statuses an updateOrderStatus call may ask for
          AdminLevels,   \* levels PUT /admin/stock/:itemId may write
          FaultPlans     \* per behaviour: the awaits that may fail, and "crash"

Releasers == Checkouts \cup Cancels
Handlers == Releasers \cup Updates

Line == [item : Items, quantity : Int]
Body == [items : Seq(Line), addressed : BOOLEAN, simulation : BOOLEAN]
Statuses == {"payment_pending", "payment_failed", "placed", "preparing", "ready",
             "seat-delivered", "cancelled"}

FaultNames == {"decrement", "lost answer", "release", "gateway", "create",
               "publish", "announce", "cancel", "update", "crash",
               "stock silent", "database silent", "queues silent"}

ASSUME StockAssumption ==
  /\ OpeningStock \in [Items -> Levels]
  /\ AdminLevels \subseteq Nat

ASSUME HandlerAssumption ==
  /\ IsFiniteSet(Checkouts)
  /\ Checkouts \cap Cancels = {}
  /\ Releasers \cap Updates = {}

ASSUME InputAssumption ==
  /\ Bodies \subseteq Body
  /\ MaxLines \in Nat
  /\ \A b \in Bodies : Len(b.items) <= MaxLines
  /\ Wanted \subseteq Statuses \cup {"none"}
  /\ FaultPlans \subseteq SUBSET FaultNames

VARIABLES
  stock,          \* Redis: item -> available units or NoKey
  supplied,       \* history: units ever put on sale, item by item
  status,         \* Postgres orders.status, "none" where there is no row
  charged,        \* history at the gateway: checkouts whose charge succeeded
  body,           \* the checkout's request body
  target,         \* the order a cancel or an update names
  wanted,         \* the status an update asks for, "none" if it is never sent
  failing,        \* the plan of this behaviour: what may fail in it
  pc,             \* where a handler stands
  reply,          \* HTTP status decided on, sent when pc becomes "done"
  reserved,       \* how many leading lines of the body are in `reserved`
  releasing,      \* lines whose release has not settled in releaseAll
  read,           \* currentStatus, read by updateOrderStatus before its await
  adding,         \* queues whose OrderPlaced add has not settled
  published,      \* OrderPlaced jobs accepted: <<queue, order>>
  notifications   \* OrderStatusUpdated jobs accepted, oldest first

inputs == <<body, target, wanted, failing>>
shelf == <<stock, supplied>>
orders == <<status, charged>>
jobs == <<adding, published, notifications>>
locals == <<reserved, releasing, read>>
vars == <<stock, supplied, status, charged, body, target, wanted, failing, pc, reply,
          reserved, releasing, read, adding, published, notifications>>

-----------------------------------------------------------------------------
(* Statuses, replies and lines.                                            *)

CANCELLABLE_STATUSES == {"payment_pending", "placed"}

ADMIN_STATUS_TRANSITIONS ==
  [placed |-> "preparing", preparing |-> "ready", ready |-> "seat-delivered"]

OrderPlacedQueues == {"cart-cleanup", "analytics"}

Active(h) == pc[h] \notin {"idle", "done", "crashed"}

OrderOf(h) == IF h \in Checkouts THEN h ELSE target[h]
Lines(r) == body[r].items

ValidBody(b) ==
  /\ b.items # <<>>
  /\ \A k \in DOMAIN b.items : b.items[k].quantity > 0
  /\ b.addressed

Answer(h, code) ==
  /\ reply' = [reply EXCEPT ![h] = code]
  /\ pc' = [pc EXCEPT ![h] = "done"]

(* An empty Promise.all that never resolved, for a mutated specification.  *)
AwaitRelease(h, lines, code) ==
  /\ reply' = [reply EXCEPT ![h] = code]
  /\ releasing' = [releasing EXCEPT ![h] = lines]
  /\ pc' = [pc EXCEPT ![h] = "releasing"]

(* releaseAll: every line is released concurrently, the reply follows the last. *)
StartRelease(h, lines, code) ==
  /\ reply' = [reply EXCEPT ![h] = code]
  /\ releasing' = [releasing EXCEPT ![h] = lines]
  /\ pc' = [pc EXCEPT ![h] = IF lines = {} THEN "done" ELSE "releasing"]

(* A release that is sent again although it was answered.                  *)
SettleAndRetry(h, k) ==
  /\ releasing' \in {releasing, [releasing EXCEPT ![h] = @ \ {k}]}
  /\ pc' = [pc EXCEPT ![h] = IF releasing'[h] = {} THEN "done" ELSE @]

Settle(h, k) ==
  /\ releasing' = [releasing EXCEPT ![h] = @ \ {k}]
  /\ pc' = [pc EXCEPT ![h] = IF releasing[h] = {k} THEN "done" ELSE @]

-----------------------------------------------------------------------------
(* placeOrder.                                                             *)

Init ==
  /\ stock = OpeningStock
  /\ supplied = [i \in Items |-> IF OpeningStock[i] = NoKey THEN 0 ELSE OpeningStock[i]]
  /\ status = [r \in Checkouts |-> "none"]
  /\ charged = {}
  /\ body \in [Checkouts -> Bodies]
  /\ target \in [Cancels \cup Updates -> Checkouts]
  /\ wanted \in [Updates -> Wanted]
  /\ failing \in FaultPlans
  /\ pc = [h \in Handlers |-> "idle"]
  /\ reply = [h \in Handlers |-> 0]
  /\ reserved = [r \in Checkouts |-> 0]
  /\ releasing = [h \in Releasers |-> {}]
  /\ read = [a \in Updates |-> "none"]
  /\ adding = [r \in Checkouts |-> {}]
  /\ published = {}
  /\ notifications = <<>>

PlaceOrder(r) ==
  /\ pc[r] = "idle"
  /\ \/ /\ ValidBody(body[r])
        /\ pc' = [pc EXCEPT ![r] = "reserving"]
        /\ UNCHANGED reply
     \/ /\ ~ValidBody(body[r])
        /\ Answer(r, 400)
  /\ UNCHANGED <<shelf, orders, inputs, locals, jobs>>

(* The short line counted among the reserved ones.                         *)
RollbackOneMore(r) == 1..(reserved[r] + 1) \cap DOMAIN Lines(r)

(* The lines in `reserved` when placeOrder rolls back.                     *)
Rollback(r) == 1..reserved[r]

(* One turn of the reservation loop, the decrement answered.               *)
Reserve(r) ==
  LET line == Lines(r)[reserved[r] + 1]
      code == DecrementCode(stock[line.item], line.quantity)
  IN  /\ pc[r] = "reserving"
      /\ stock' = [stock EXCEPT ![line.item] = AfterDecrement(@, line.quantity)]
      /\ \/ /\ code = SUCCESS
            /\ reserved' = [reserved EXCEPT ![r] = @ + 1]
            /\ pc' = [pc EXCEPT ![r] = IF reserved[r] + 1 = Len(Lines(r))
                                       THEN "charging" ELSE "reserving"]
            /\ UNCHANGED <<reply, releasing>>
         \/ /\ code # SUCCESS
            /\ StartRelease(r, Rollback(r), 409)
            /\ UNCHANGED reserved
      /\ UNCHANGED <<supplied, orders, inputs, read, jobs>>

(* The decrement's promise rejects, its script run or not: nothing catches it. *)
DecrementRejects(r) ==
  LET line == Lines(r)[reserved[r] + 1]
  IN  /\ "decrement" \in failing
      /\ pc[r] = "reserving"
      /\ \/ UNCHANGED stock
         \/ /\ "lost answer" \in failing
            /\ stock' = [stock EXCEPT ![line.item] = AfterDecrement(@, line.quantity)]
      /\ Answer(r, 500)
      /\ UNCHANGED <<supplied, orders, inputs, locals, jobs>>

Approve(r) ==
  /\ pc[r] = "charging"
  /\ charged' = charged \cup {r}
  /\ pc' = [pc EXCEPT ![r] = "committing"]
  /\ UNCHANGED <<shelf, status, inputs, reply, locals, jobs>>

(* The early return after a decline forgotten.                             *)
DeclineAndGoOn(r) ==
  /\ pc[r] = "charging"
  /\ ~body[r].simulation
  /\ pc' = [pc EXCEPT ![r] = "committing"]
  /\ UNCHANGED <<shelf, orders, inputs, reply, locals, jobs>>

(* The random gateway declines some charges; the simulation's never does.  *)
Decline(r) ==
  /\ pc[r] = "charging"
  /\ ~body[r].simulation
  /\ StartRelease(r, Rollback(r), 402)
  /\ UNCHANGED <<shelf, orders, inputs, reserved, read, jobs>>

GatewayThrows(r) ==
  /\ "gateway" \in failing
  /\ pc[r] = "charging"
  /\ StartRelease(r, Rollback(r), 500)
  /\ UNCHANGED <<shelf, orders, inputs, reserved, read, jobs>>

CreateOrder(r) ==
  /\ pc[r] = "committing"
  /\ status' = [status EXCEPT ![r] = "placed"]
  /\ adding' = [adding EXCEPT ![r] = OrderPlacedQueues]
  /\ pc' = [pc EXCEPT ![r] = "publishing"]
  /\ UNCHANGED <<shelf, charged, inputs, reply, locals, published, notifications>>

(* The transaction aborts, or commits with its answer lost: nothing catches it. *)
CreateOrderThrows(r) ==
  /\ "create" \in failing
  /\ pc[r] = "committing"
  /\ \/ UNCHANGED status
     \/ status' = [status EXCEPT ![r] = "placed"]
  /\ Answer(r, 500)
  /\ UNCHANGED <<shelf, charged, inputs, locals, jobs>>

(* Promise.race: the first add answers the patron.                         *)
FirstAdd(r, q) == TRUE

LastAdd(r, q) == adding[r] = {q}

(* Promise.all over the two adds resolves with the last of them.           *)
AddJob(r, q) ==
  /\ q \in adding[r]
  /\ adding' = [adding EXCEPT ![r] = @ \ {q}]
  /\ published' = published \cup {<<q, r>>}
  /\ \/ /\ LastAdd(r, q) /\ pc[r] = "publishing"
        /\ Answer(r, 201)
     \/ /\ ~(LastAdd(r, q) /\ pc[r] = "publishing")
        /\ UNCHANGED <<pc, reply>>
  /\ UNCHANGED <<shelf, orders, inputs, locals, notifications>>

(* ... and rejects with the first that fails; the other stays in flight.   *)
AddRejects(r, q) ==
  /\ "publish" \in failing
  /\ q \in adding[r]
  /\ adding' = [adding EXCEPT ![r] = @ \ {q}]
  /\ published' \in {published, published \cup {<<q, r>>}}
  /\ \/ /\ pc[r] = "publishing"
        /\ Answer(r, 201)
     \/ /\ pc[r] # "publishing"
        /\ UNCHANGED <<pc, reply>>
  /\ UNCHANGED <<shelf, orders, inputs, locals, notifications>>

-----------------------------------------------------------------------------
(* releaseAll, for the rollback of a checkout and for a won cancellation.  *)

(* -1 from the script is an answer like any other: the line has settled.   *)
ReleaseLine(h, k) ==
  LET line == Lines(OrderOf(h))[k]
  IN  /\ pc[h] = "releasing" /\ k \in releasing[h]
      /\ stock' = [stock EXCEPT ![line.item] = AfterRelease(@, line.quantity)]
      /\ Settle(h, k)
      /\ UNCHANGED <<supplied, orders, inputs, reply, reserved, read, jobs>>

(* A rejected release is logged and forgotten, its script run or not.      *)
ReleaseRejects(h, k) ==
  LET line == Lines(OrderOf(h))[k]
  IN  /\ "release" \in failing
      /\ pc[h] = "releasing" /\ k \in releasing[h]
      /\ \/ UNCHANGED stock
         \/ stock' = [stock EXCEPT ![line.item] = AfterRelease(@, line.quantity)]
      /\ Settle(h, k)
      /\ UNCHANGED <<supplied, orders, inputs, reply, reserved, read, jobs>>

-----------------------------------------------------------------------------
(* cancelOrder.                                                            *)

(* getOrderWithItems, the ownership check and the first status check.      *)
ReadForCancel(c) ==
  LET r == target[c]
  IN  /\ pc[c] = "idle"
      /\ \/ /\ status[r] = "none" \/ PatronOf[r] # PatronOf[c]
            /\ Answer(c, 404)
         \/ /\ status[r] # "none" /\ PatronOf[r] = PatronOf[c]
            /\ status[r] \notin CANCELLABLE_STATUSES
            /\ Answer(c, 400)
         \/ /\ PatronOf[r] = PatronOf[c]
            /\ status[r] \in CANCELLABLE_STATUSES
            /\ pc' = [pc EXCEPT ![c] = "eligible"]
            /\ UNCHANGED reply
      /\ UNCHANGED <<shelf, orders, inputs, locals, jobs>>

(* The WHERE clause of cancelOrderIfEligible reduced to the id.            *)
AnyRow(c) == status[target[c]] # "none"

EligibleRow(c) ==
  /\ PatronOf[target[c]] = PatronOf[c]
  /\ status[target[c]] \in CANCELLABLE_STATUSES

(* The conditional UPDATE: only the call that changes the row releases.    *)
CancelIfEligible(c) ==
  LET r == target[c]
  IN  /\ pc[c] = "eligible"
      /\ \/ /\ EligibleRow(c)
            /\ status' = [status EXCEPT ![r] = "cancelled"]
            /\ StartRelease(c, DOMAIN Lines(r), 200)
         \/ /\ ~EligibleRow(c)
            /\ Answer(c, 400)
            /\ UNCHANGED <<status, releasing>>
      /\ UNCHANGED <<shelf, charged, inputs, reserved, read, jobs>>

(* The UPDATE's promise rejects, its effect there or not.                  *)
CancelThrows(c) ==
  LET r == target[c]
  IN  /\ "cancel" \in failing
      /\ pc[c] = "eligible"
      /\ \/ UNCHANGED status
         \/ /\ EligibleRow(c)
            /\ status' = [status EXCEPT ![r] = "cancelled"]
      /\ Answer(c, 500)
      /\ UNCHANGED <<shelf, charged, inputs, locals, jobs>>

-----------------------------------------------------------------------------
(* updateOrderStatus.                                                      *)

MayAdvance(from, to) ==
  /\ from \in DOMAIN ADMIN_STATUS_TRANSITIONS
  /\ ADMIN_STATUS_TRANSITIONS[from] = to

ReadForUpdate(a) ==
  LET current == status[target[a]]
  IN  /\ pc[a] = "idle" /\ wanted[a] # "none"
      /\ \/ /\ current = "none"
            /\ Answer(a, 404)
            /\ UNCHANGED read
         \/ /\ current # "none" /\ ~MayAdvance(current, wanted[a])
            /\ Answer(a, 400)
            /\ UNCHANGED read
         \/ /\ MayAdvance(current, wanted[a])
            /\ read' = [read EXCEPT ![a] = current]
            /\ pc' = [pc EXCEPT ![a] = "updating"]
            /\ UNCHANGED reply
      /\ UNCHANGED <<shelf, orders, inputs, reserved, releasing, jobs>>

(* The WHERE clause of OrderService.updateOrderStatus reduced to the id.   *)
ExistingRow(a) == status[target[a]] # "none"

ExpectedRow(a) == status[target[a]] = read[a]

(* The conditional UPDATE on the status read before the await.             *)
UpdateStatus(a) ==
  LET r == target[a]
  IN  /\ pc[a] = "updating"
      /\ \/ /\ ExpectedRow(a)
            /\ status' = [status EXCEPT ![r] = wanted[a]]
            /\ pc' = [pc EXCEPT ![a] = "updated"]
            /\ UNCHANGED reply
         \/ /\ ~ExpectedRow(a)
            /\ Answer(a, 409)
            /\ UNCHANGED status
      /\ UNCHANGED <<shelf, charged, inputs, locals, jobs>>

UpdateThrows(a) ==
  LET r == target[a]
  IN  /\ "update" \in failing
      /\ pc[a] = "updating"
      /\ \/ UNCHANGED status
         \/ /\ ExpectedRow(a)
            /\ status' = [status EXCEPT ![r] = wanted[a]]
      /\ Answer(a, 500)
      /\ UNCHANGED <<shelf, charged, inputs, locals, jobs>>

(* The event built from the order read at first.                           *)
AnnounceStale(a) ==
  /\ pc[a] = "updated"
  /\ notifications' = Append(notifications, [order |-> target[a], status |-> read[a]])
  /\ Answer(a, 200)
  /\ UNCHANGED <<shelf, orders, inputs, locals, adding, published>>

(* The row came back: the add is issued, not awaited, and the reply sent.  *)
Announce(a) ==
  /\ pc[a] = "updated"
  /\ \/ notifications' = Append(notifications, [order |-> target[a], status |-> wanted[a]])
     \/ /\ failing \cap {"announce", "queues silent"} # {}
        /\ UNCHANGED notifications
  /\ Answer(a, 200)
  /\ UNCHANGED <<shelf, orders, inputs, locals, adding, published>>

-----------------------------------------------------------------------------
(* The environment: the process dies with every handler it was running; an *)
(* administrator writes an absolute level.                                 *)

Crash ==
  /\ "crash" \in failing
  /\ \E h \in Handlers : Active(h)
  /\ pc' = [h \in Handlers |-> IF Active(h) THEN "crashed" ELSE pc[h]]
  /\ releasing' = [h \in Releasers |-> {}]
  /\ adding' = [r \in Checkouts |-> {}]
  /\ UNCHANGED <<shelf, orders, inputs, reply, reserved, read, published, notifications>>

SetStock(i, level) ==
  /\ stock' = [stock EXCEPT ![i] = level]
  /\ supplied' = [supplied EXCEPT ![i] =
                    @ + level - (IF stock[i] = NoKey THEN 0 ELSE stock[i])]
  /\ UNCHANGED <<orders, inputs, pc, reply, locals, jobs>>

-----------------------------------------------------------------------------

Arrive ==
  \/ \E r \in Checkouts : PlaceOrder(r)
  \/ \E c \in Cancels : ReadForCancel(c)
  \/ \E a \in Updates : ReadForUpdate(a)

CheckoutStep(r) ==
  \/ Reserve(r)
  \/ Approve(r)
  \/ Decline(r)
  \/ CreateOrder(r)
  \/ \E q \in OrderPlacedQueues : AddJob(r, q)

ReleaseStep(h) == \E k \in releasing[h] : ReleaseLine(h, k)

CheckoutFault(r) ==
  \/ DecrementRejects(r)
  \/ GatewayThrows(r)
  \/ CreateOrderThrows(r)
  \/ \E q \in OrderPlacedQueues : AddRejects(r, q)

ReleaseFault(h) == \E k \in releasing[h] : ReleaseRejects(h, k)

Next ==
  \/ Arrive
  \/ \E r \in Checkouts : CheckoutStep(r) \/ CheckoutFault(r)
  \/ \E h \in Releasers : ReleaseStep(h) \/ ReleaseFault(h)
  \/ \E c \in Cancels : CancelIfEligible(c) \/ CancelThrows(c)
  \/ \E a \in Updates : UpdateStatus(a) \/ UpdateThrows(a) \/ Announce(a)
  \/ Crash
  \/ \E i \in Items, level \in AdminLevels : SetStock(i, level)

(* The handler awaits a call that nothing bounds, of a side that may have  *)
(* fallen silent: gRPC without a deadline, a query without a timeout, a    *)
(* queue command that is retried for as long as Redis is away.             *)
Silent(h) ==
  \/ "stock silent" \in failing /\ pc[h] \in {"reserving", "releasing"}
  \/ "database silent" \in failing /\ pc[h] \in {"committing", "eligible", "updating"}
  \/ "queues silent" \in failing /\ h \in Checkouts /\ adding[h] # {}

(* The event loop keeps running and a call of a side that is not silent    *)
(* settles; a silent one may answer late or never.  No patron has to act.  *)
Fairness ==
  /\ \A r \in Checkouts : WF_vars(~Silent(r) /\ CheckoutStep(r))
  /\ \A h \in Releasers : WF_vars(~Silent(h) /\ ReleaseStep(h))
  /\ \A c \in Cancels : WF_vars(~Silent(c) /\ CancelIfEligible(c))
  /\ \A a \in Updates : WF_vars(~Silent(a) /\ (UpdateStatus(a) \/ Announce(a)))

Spec == Init /\ [][Next]_vars
FairSpec == Spec /\ Fairness

-----------------------------------------------------------------------------
(* Properties.                                                             *)

Places == {"idle", "reserving", "charging", "committing", "publishing", "releasing",
           "eligible", "updating", "updated", "done", "crashed"}
Codes == {0, 200, 201, 400, 402, 404, 409, 500}

(* Every variable keeps its type; no key's level ever goes below zero.     *)
TypeOK ==
  /\ stock \in [Items -> Levels]
  /\ supplied \in [Items -> Int]
  /\ status \in [Checkouts -> Statuses \cup {"none"}]
  /\ charged \subseteq Checkouts
  /\ body \in [Checkouts -> Bodies]
  /\ target \in [Cancels \cup Updates -> Checkouts]
  /\ wanted \in [Updates -> Wanted]
  /\ failing \subseteq FaultNames
  /\ pc \in [Handlers -> Places]
  /\ reply \in [Handlers -> Codes]
  /\ reserved \in [Checkouts -> Nat]
  /\ releasing \in [Releasers -> SUBSET Nat]
  /\ read \in [Updates -> Statuses \cup {"none"}]
  /\ adding \in [Checkouts -> SUBSET OrderPlacedQueues]
  /\ published \subseteq (OrderPlacedQueues \X Checkouts)
  /\ notifications \in Seq([order : Checkouts, status : Statuses])

(* The lines of checkout r whose units are neither on the shelf nor lost:  *)
(* held by the handler, sold to the order, or waiting in a releaseAll.     *)
OpenLines(r) ==
  IF status[r] = "cancelled"
  THEN UNION {releasing[c] : c \in {x \in Cancels : target[x] = r}}
  ELSE IF status[r] # "none" \/ pc[r] \in {"reserving", "charging", "committing"}
  THEN 1..reserved[r]
  ELSE releasing[r]

UnitsOf(i, r, lines) ==
  SumFunctionOnSet([k \in DOMAIN Lines(r) |->
                      IF Lines(r)[k].item = i THEN Lines(r)[k].quantity ELSE 0], lines)

OnShelf(i) == IF stock[i] = NoKey THEN 0 ELSE stock[i]
Outstanding(i) == SumFunctionOnSet([r \in Checkouts |-> UnitsOf(i, r, OpenLines(r))], Checkouts)

(* While no call is lost and no handler dies, every unit ever supplied is  *)
(* on the shelf, held by one checkout, sold to one order or on its way     *)
(* back: reservation, rollback and cancellation neither leak nor mint.     *)
StockAccounted == \A i \in Items : OnShelf(i) + Outstanding(i) = supplied[i]

(* An order row exists only for a checkout that reserved every line and    *)
(* whose charge succeeded: "commit only after payment has cleared".        *)
PaidAndReserved ==
  \A r \in Checkouts : status[r] # "none" =>
    r \in charged /\ reserved[r] = Len(Lines(r))

(* Two cancellations of one order never both get the row back, so its      *)
(* stock is released by at most one of them.                               *)
SingleWinner ==
  \A c, d \in Cancels :
    reply[c] = 200 /\ reply[d] = 200 /\ target[c] = target[d] => c = d

(* An order whose stock a cancellation releases stays cancelled: it is     *)
(* never prepared, readied or delivered, before, during or after.          *)
ReleasedIsCancelled ==
  \A c \in Cancels : reply[c] = 200 => status[target[c]] = "cancelled"

(* A cancellation that answers 200 is the only one, and final: it races    *)
(* other cancellations and the administrators' updates of the order.       *)
CancelledForGood == SingleWinner /\ ReleasedIsCancelled

(* Rows move only along placed -> preparing -> ready -> seat-delivered and *)
(* placed -> cancelled, whatever handlers read before their updates.       *)
StatusEdges ==
  {<<"none", "placed">>, <<"placed", "preparing">>, <<"preparing", "ready">>,
   <<"ready", "seat-delivered">>, <<"placed", "cancelled">>}
StatusMoves ==
  [][\A r \in Checkouts :
       status'[r] # status[r] => <<status[r], status'[r]>> \in StatusEdges]_status

(* A patron who was charged and answered has an order, and its OrderPlaced *)
(* reached both queues: no rejected checkout keeps the money.              *)
ChargedIsOrdered ==
  \A r \in charged : pc[r] = "done" =>
    reply[r] = 201 /\ status[r] # "none" /\ OrderPlacedQueues \X {r} \subseteq published

(* A transition that the database holds is announced to the patrons in the *)
(* end, and once: two administrators who ask for the same step at the same *)
(* time are told apart, and no handler forgets what it has changed.        *)
AnnouncedOnce ==
  \A r \in Checkouts : \A s \in {"preparing", "ready", "seat-delivered"} :
    status[r] = s ~>
      [](Cardinality({n \in DOMAIN notifications :
                        notifications[n] = [order |-> r, status |-> s]}) = 1)

(* Every call that was accepted is answered, its rollback complete, unless *)
(* the process dies or the call it awaits stays silent for ever: failures, *)
(* an empty releaseAll and the other handlers never hold an answer back.   *)
AllAnswered ==
  \A h \in Handlers :
    Active(h) ~> (pc[h] \in {"done", "crashed"} \/ []Silent(h))

(* "Redis down: checkout returns 5xx/409", when Redis is lost to the queue *)
(* connections: every checkout that was accepted is answered.              *)
CheckoutsReturn == \A r \in Checkouts : Active(r) ~> pc[r] \in {"done", "crashed"}

(* "Partial reservation rollback on any line failure", and "stock released *)
(* on error path" when the commit fails: once every handler has answered,  *)
(* the units that are not on the shelf are those of standing orders.       *)
Standing(i) ==
  SumFunctionOnSet([r \in Checkouts |-> IF status[r] \in {"none", "cancelled"} THEN 0
                                        ELSE UnitsOf(i, r, DOMAIN Lines(r))], Checkouts)
FailureReturnsStock ==
  (\A h \in Handlers : ~Active(h)) =>
    \A i \in Items : OnShelf(i) + Standing(i) = supplied[i]

(* The abstract inventory: a claim per line of a checkout.                 *)
ClaimOf(x) ==
  LET r == x[1]
      k == x[2]
  IN  IF k > reserved[r] THEN [state |-> "none"]
      ELSE [state    |-> IF k \notin OpenLines(r) THEN "closed"
                         ELSE IF status[r] = "none" THEN "held" ELSE "sold",
            item     |-> Lines(r)[k].item,
            quantity |-> Lines(r)[k].quantity]

Promise == INSTANCE Inventory WITH
  Claims <- Checkouts \X (1..MaxLines),
  claim  <- [x \in Checkouts \X (1..MaxLines) |-> ClaimOf(x)]

(* Whatever fails, the handlers keep the inventory's promise: units leave  *)
(* the shelf once per line, are sold whole orders at a time, and come back *)
(* at most once.                                                           *)
KeepsPromise == Promise!Spec

=============================================================================
