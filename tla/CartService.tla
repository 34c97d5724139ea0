------------------------------ MODULE CartService ------------------------------
(* The cart service, for one patron: the cart is one Redis value, which an  *)
(* addition or a removal reads, changes and writes back in two calls, and   *)
(* which the clean-up consumer deletes for every order.                     *)
EXTENDS Naturals, FiniteSets

CONSTANTS
  CartItems,
  MaxQuantity,
  Requests,    \* requests of the patron
  CleanUps,    \* orders of the patron: their jobs in CartCleanupQueue
  MaxMishaps   \* calls that fail, and jobs given out again after they were done

ASSUME CartServiceAssumption == {MaxQuantity, MaxMishaps} \subseteq Nat

VARIABLES
  cart,     \* cart:{userId}: the quantity of each line, 0 for no line
  request,  \* each request: its body, what it has read, how far it has come
  clearing, \* the clean-up job of each order
  since,    \* an addition or removal was under way after the order was placed
  serial,   \* the cart if each request had happened all at once
  raced,    \* some request wrote back a cart that had changed since it read
  mishaps

cartServiceVars == <<cart, request, clearing, since, serial, raced, mishaps>>
jobs == <<clearing, since>>

NoLines == [i \in CartItems |-> 0]
Bodies ==
  [kind : {"get", "clear"}, item : {"none"}, quantity : {0}]
    \cup [kind : {"remove"}, item : CartItems \cup {"none"}, quantity : {0}]
    \cup [kind : {"add"}, item : CartItems \cup {"none"}, quantity : 0..MaxQuantity]
NotSent ==
  [body |-> [kind |-> "none", item |-> "none", quantity |-> 0],
   step |-> "unsent", read |-> NoLines, stale |-> FALSE]

CartServiceInit ==
  /\ cart = NoLines /\ serial = NoLines /\ raced = FALSE
  /\ request = [q \in Requests |-> NotSent]
  /\ clearing = [o \in CleanUps |-> "none"] /\ since = {}
  /\ mishaps = 0

Underway(q) == request[q].step \in {"received", "read"} /\ request[q].body.kind \in {"add", "remove"}
Ordered == {o \in CleanUps : clearing[o] # "none"}

-----------------------------------------------------------------------------
(* The HTTP handlers.                                                       *)

IsValid(body) ==
  CASE body.kind = "add" -> body.item # "none" /\ body.quantity > 0
    [] body.kind = "remove" -> body.item # "none"
    [] OTHER -> TRUE

Receive(q, body) ==
  /\ request[q].step = "unsent"
  /\ request' = [request EXCEPT ![q].body = body,
                                ![q].step = IF IsValid(body) THEN "received" ELSE "400"]
  /\ since' = IF Underway(q)' THEN since \cup Ordered ELSE since
  /\ UNCHANGED <<cart, clearing, serial, raced, mishaps>>

(* An existing line is set, not added to; a removal drops its line.         *)
Edited(body, lines) ==
  [lines EXCEPT ![body.item] = IF body.kind = "add" THEN body.quantity ELSE 0]

ReadCart(q) ==
  /\ request[q].step = "received" /\ request[q].body.kind # "clear"
  /\ LET body == request[q].body IN
     request' = [request EXCEPT ![q].read = cart,
                   ![q].step = IF body.kind = "get" THEN "200"
                               ELSE IF body.kind = "remove" /\ cart[body.item] = 0 THEN "404"
                               ELSE "read"]
  /\ UNCHANGED <<cart, jobs, serial, raced, mishaps>>

Mishap == mishaps < MaxMishaps /\ mishaps' = mishaps + 1

(* Every SET and DEL makes what others have read stale.                     *)
Overtaken(requests) ==
  [q \in Requests |-> IF requests[q].step = "read" THEN [requests[q] EXCEPT !.stale = TRUE]
                      ELSE requests[q]]

(* The lines read left out of what is written.                              *)
ItsLineOnly(q) == Edited(request[q].body, NoLines)

NextCart(q) == Edited(request[q].body, request[q].read)

(* The reply to a call that was made: 500 where its own answer is lost.     *)
ReplyOf(q, code) ==
  \/ /\ request' = Overtaken([request EXCEPT ![q].step = code])
     /\ UNCHANGED mishaps
  \/ /\ request' = Overtaken([request EXCEPT ![q].step = "500"])
     /\ Mishap

(* SET, or DEL when no line is left.                                        *)
WriteCart(q) ==
  /\ request[q].step = "read"
  /\ cart' = NextCart(q)
  /\ serial' = Edited(request[q].body, serial)
  /\ raced' = (raced \/ request[q].stale)
  /\ ReplyOf(q, "200")
  /\ UNCHANGED jobs

Delete ==
  /\ cart' = NoLines /\ serial' = NoLines
  /\ UNCHANGED raced

ClearCart(q) ==
  /\ request[q].step = "received" /\ request[q].body.kind = "clear"
  /\ Delete
  /\ ReplyOf(q, "204")
  /\ UNCHANGED jobs

-----------------------------------------------------------------------------
(* The order service has published OrderPlaced.                             *)
PlaceOrder(o) ==
  /\ clearing[o] = "none"
  /\ clearing' = [clearing EXCEPT ![o] = "waiting"]
  /\ since' = IF \E q \in Requests : Underway(q) THEN since \cup {o} ELSE since
  /\ UNCHANGED <<cart, request, serial, raced, mishaps>>

(* The job taken and nothing deleted.                                       *)
TakeJobOnly(o) ==
  /\ clearing[o] = "waiting"
  /\ clearing' = [clearing EXCEPT ![o] = "done"]
  /\ UNCHANGED <<cart, request, since, serial, raced, mishaps>>

CleanUp(o) ==
  /\ clearing[o] = "waiting"
  /\ clearing' = [clearing EXCEPT ![o] = "done"]
  /\ Delete
  /\ request' = Overtaken(request)
  /\ UNCHANGED <<since, mishaps>>

(* The value outlives its three hours.                                      *)
ExpireCart ==
  /\ cart # NoLines
  /\ Delete
  /\ request' = Overtaken(request)
  /\ UNCHANGED <<jobs, mishaps>>

(* Redis refuses a call, or the process dies before it is sent.             *)
FailRequest(q) ==
  /\ request[q].step \in {"received", "read"} /\ Mishap
  /\ request' = [request EXCEPT ![q].step = "500"]
  /\ UNCHANGED <<cart, jobs, serial, raced>>

(* Jobs have one attempt: a DEL that is refused, or made and not answered,  *)
(* is not repeated.                                                         *)
FailCleanUp(o) ==
  /\ clearing[o] = "waiting" /\ Mishap
  /\ clearing' = [clearing EXCEPT ![o] = "failed"]
  /\ \/ UNCHANGED <<cart, request, serial, raced>>
     \/ Delete /\ request' = Overtaken(request)
  /\ UNCHANGED since

(* The worker dies before BullMQ has recorded that the job is done.         *)
StallCleanUp(o) ==
  /\ clearing[o] = "done" /\ Mishap
  /\ clearing' = [clearing EXCEPT ![o] = "waiting"]
  /\ UNCHANGED <<cart, request, since, serial, raced>>

HandleCart(q) == ReadCart(q) \/ WriteCart(q) \/ ClearCart(q)

CartServiceNext ==
  \/ \E q \in Requests : HandleCart(q) \/ FailRequest(q) \/ \E body \in Bodies : Receive(q, body)
  \/ \E o \in CleanUps : PlaceOrder(o) \/ CleanUp(o) \/ FailCleanUp(o) \/ StallCleanUp(o)
  \/ ExpireCart

CartServiceSpec == CartServiceInit /\ [][CartServiceNext]_cartServiceVars
FairCartServiceSpec ==
  /\ CartServiceSpec
  /\ \A q \in Requests : WF_cartServiceVars(HandleCart(q))
  /\ \A o \in CleanUps : WF_cartServiceVars(CleanUp(o))

-----------------------------------------------------------------------------

(* Every variable keeps its type.                                           *)
CartServiceTypeOK ==
  /\ {cart, serial} \subseteq [CartItems -> 0..MaxQuantity]
  /\ request \in [Requests ->
       [body : Bodies \cup {NotSent.body},
        step : {"unsent", "received", "read", "200", "204", "400", "404", "500"},
        read : [CartItems -> 0..MaxQuantity], stale : BOOLEAN]]
  /\ clearing \in [CleanUps -> {"none", "waiting", "done", "failed"}]
  /\ since \subseteq CleanUps /\ raced \in BOOLEAN /\ mishaps \in 0..MaxMishaps

(* As long as no request writes back a cart that has changed since it read, *)
(* the cart is what the requests would have made of it one at a time: two   *)
(* calls per edit lose a line through that race and through nothing else,   *)
(* wherever requests fail and however often clean-ups run.                  *)
OnlyRacesLose == ~raced => cart = serial

(* A patron who orders, and has no edit of the cart under way then or later,*)
(* is left with an empty cart, unless the one attempt at the clean-up       *)
(* failed: only an edit that overlaps a clean-up brings ordered lines back. *)
ClearedForGood ==
  <>[](\A o \in CleanUps :
         clearing[o] \notin {"none", "failed"} /\ o \notin since => cart = NoLines)

=============================================================================
