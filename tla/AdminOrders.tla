------------------------------ MODULE AdminOrders ------------------------------
(* The admin page's table of orders: the list, the details of the expanded  *)
(* row and the buttons that move an order on, each an asynchronous handler  *)
(* that goes on, with what it captured, when its answers come.  Rows are    *)
(* also moved by a second administrator and cancelled by their patrons.     *)
EXTENDS Naturals, FiniteSets

CONSTANTS
  Orders,
  MaxTasks,    \* handlers started while the table is mounted
  MaxSignIns,  \* times the admin signs in
  MaxFailed    \* calls that fail

ASSUME AdminAssumption == {MaxTasks, MaxSignIns, MaxFailed} \subseteq Nat

VARIABLES
  row,        \* orders.status in Postgres
  page,       \* AdminLoginForm, a sign-in under way, or the tables
  shown,      \* orders: the status each row of the table shows
  loading,    \* the list is being loaded: nothing of the table can be clicked
  updating,   \* updatingId
  expanded,   \* expandedId
  detailing,  \* detailLoading
  details,    \* detailItems, by the order they belong to
  handler,    \* the asynchronous handlers, in the order they were started
  crossed,    \* a row was expanded or hidden while details were under way
  signIns, failed

adminVars == <<row, page, shown, loading, updating, expanded, detailing, details, handler,
               crossed, signIns, failed>>
table == <<shown, loading, updating, expanded, detailing, details>>
rest == <<crossed, signIns, failed>>

Nobody == "none"

Transitions == [s \in {"placed", "preparing", "ready"} |->
                  CASE s = "placed" -> "preparing" [] s = "preparing" -> "ready"
                    [] s = "ready" -> "seat-delivered"]

Statuses == {"placed", "preparing", "ready", "seat-delivered", "cancelled"}
Tasks == 1..MaxTasks

(* What a handler captured, the request it awaits and the answer to it.     *)
Idle == [kind |-> "unused", order |-> Nobody, to |-> Nobody, open |-> FALSE,
         awaits |-> Nobody, answer |-> Nobody, rows |-> <<>>]
Started(kind, o, awaits) ==
  [Idle EXCEPT !.kind = kind, !.order = o, !.awaits = awaits]
Awaits(n, request) == handler[n].awaits = request
HeardBy(n, request, answers) == Awaits(n, request) /\ handler[n].answer \in answers

AdminInit ==
  /\ row = [o \in Orders |-> "placed"]
  /\ page = "form"
  /\ shown = <<>> /\ loading = FALSE /\ updating = Nobody
  /\ expanded = Nobody /\ detailing = FALSE /\ details = Nobody
  /\ handler = [n \in Tasks |-> Idle]
  /\ crossed = FALSE /\ signIns = 0 /\ failed = 0

-----------------------------------------------------------------------------
(* The service.                                                             *)

AnswerWith(n, answer) == handler' = [handler EXCEPT ![n].answer = answer]
Unanswered(n, request) == HeardBy(n, request, {Nobody})

ListOrders(n) ==
  /\ Unanswered(n, "list")
  /\ handler' = [handler EXCEPT ![n].answer = "ok", ![n].rows = row]
  /\ UNCHANGED <<row, page, table, rest>>

MayMove(o, to) == row[o] \in DOMAIN Transitions /\ Transitions[row[o]] = to

(* The row moves only from the status the transition starts from.           *)
UpdateStatus(n) ==
  /\ Unanswered(n, "patch")
  /\ LET o == handler[n].order IN
     IF MayMove(o, handler[n].to)
     THEN row' = [row EXCEPT ![o] = handler[n].to] /\ AnswerWith(n, "ok")
     ELSE AnswerWith(n, "refused") /\ UNCHANGED row
  /\ UNCHANGED <<page, table, rest>>

GetOrder(n) ==
  /\ Unanswered(n, "detail")
  /\ AnswerWith(n, "ok")
  /\ UNCHANGED <<row, page, table, rest>>

MovedElsewhere(o) ==
  /\ \/ row[o] \in DOMAIN Transitions /\ row' = [row EXCEPT ![o] = Transitions[@]]
     \/ row[o] = "placed" /\ row' = [row EXCEPT ![o] = "cancelled"]
  /\ UNCHANGED <<page, table, handler, rest>>

-----------------------------------------------------------------------------
(* Signing in and out.                                                      *)

SubmitLogin ==
  /\ page = "form" /\ signIns < MaxSignIns
  /\ page' = "signing" /\ signIns' = signIns + 1
  /\ UNCHANGED <<row, table, handler, crossed, failed>>

(* loginAdmin keeps the token: the tables are mounted, and the list is      *)
(* loaded.                                                                  *)
LoggedIn ==
  /\ page = "signing"
  /\ page' = "tables" /\ loading' = TRUE
  /\ handler' = [handler EXCEPT ![1] = Started("load", Nobody, "list")]
  /\ UNCHANGED <<row, shown, updating, expanded, detailing, details, rest>>

(* logoutAdmin: the tables go with their state, and what their handlers     *)
(* wait for is heard by nobody.                                             *)
Logout ==
  /\ page = "tables" /\ ~loading
  /\ page' = "form"
  /\ shown' = <<>> /\ updating' = Nobody
  /\ expanded' = Nobody /\ detailing' = FALSE /\ details' = Nobody
  /\ handler' = [n \in Tasks |-> Idle] /\ crossed' = FALSE
  /\ UNCHANGED <<row, loading, signIns, failed>>

-----------------------------------------------------------------------------
(* The handlers up to their first await.                                    *)

StartTask(task) ==
  \E n \in Tasks : /\ handler[n] = Idle /\ \A k \in 1..(n - 1) : handler[k] # Idle
                   /\ handler' = [handler EXCEPT ![n] = task]

Clickable == page = "tables" /\ ~loading

Refresh ==
  /\ Clickable
  /\ StartTask(Started("load", Nobody, "list"))
  /\ loading' = TRUE
  /\ UNCHANGED <<row, page, shown, updating, expanded, detailing, details, rest>>

(* Details of some row are asked for, or will be when a handler goes on.    *)
UnderWay == \E n \in Tasks : Awaits(n, "detail") \/ (handler[n].awaits # Nobody /\ handler[n].open)

(* handleToggleDetail.                                                      *)
Hide(o) ==
  /\ Clickable /\ expanded = o
  /\ expanded' = Nobody /\ details' = Nobody
  /\ crossed' = (crossed \/ UnderWay)
  /\ UNCHANGED <<row, page, shown, loading, updating, detailing, handler, signIns, failed>>

Expand(o) ==
  /\ Clickable /\ o \in DOMAIN shown /\ expanded # o
  /\ StartTask(Started("toggle", o, "detail"))
  /\ expanded' = o /\ detailing' = TRUE
  /\ crossed' = (crossed \/ UnderWay)
  /\ UNCHANGED <<row, page, shown, loading, updating, details, signIns, failed>>

(* The details asked for again whichever row is expanded.                   *)
AlwaysReopens(o) == TRUE

Reopens(o) == expanded = o

(* handleAdvance captures the status the row shows and the expanded row.    *)
Advance(o) ==
  /\ Clickable /\ o \in DOMAIN shown /\ shown[o] \in DOMAIN Transitions /\ updating # o
  /\ StartTask([Started("advance", o, "patch") EXCEPT !.to = Transitions[shown[o]],
                                                  !.open = Reopens(o)])
  /\ updating' = o
  /\ UNCHANGED <<row, page, shown, loading, expanded, detailing, details, rest>>

-----------------------------------------------------------------------------
(* The handlers when an answer has come.                                    *)

Ended(n) == handler' = [handler EXCEPT ![n] = [Idle EXCEPT !.kind = "over"]]
GoOn(n, request) ==
  handler' = [handler EXCEPT ![n].awaits = request, ![n].answer = Nobody, ![n].rows = <<>>]

(* loadOrders reports a failure itself: handleAdvance goes on all the same, *)
(* and asks for the details of its order again if they were open.           *)
HearList(n) ==
  /\ HeardBy(n, "list", {"ok", "failed"})
  /\ loading' = FALSE
  /\ shown' = IF handler[n].answer = "ok" THEN handler[n].rows ELSE shown
  /\ IF handler[n].open THEN GoOn(n, "detail") /\ UNCHANGED updating
     ELSE Ended(n) /\ updating' = IF handler[n].kind = "advance" THEN Nobody ELSE updating
  /\ UNCHANGED <<row, page, expanded, detailing, details, rest>>

HearUpdated(n) ==
  /\ HeardBy(n, "patch", {"ok"})
  /\ GoOn(n, "list") /\ loading' = TRUE
  /\ UNCHANGED <<row, page, shown, updating, expanded, detailing, details, rest>>

(* The button not enabled again.                                            *)
KeepUpdating(n) ==
  /\ HeardBy(n, "patch", {"refused", "failed"})
  /\ Ended(n)
  /\ UNCHANGED <<row, page, shown, loading, updating, expanded, detailing, details, rest>>

HearNotUpdated(n) ==
  /\ HeardBy(n, "patch", {"refused", "failed"})
  /\ Ended(n) /\ updating' = Nobody
  /\ UNCHANGED <<row, page, shown, loading, expanded, detailing, details, rest>>

(* The details that came last are shown, under whatever row is expanded.    *)
HearDetails(n) ==
  /\ HeardBy(n, "detail", {"ok", "failed"})
  /\ IF handler[n].answer = "ok"
     THEN details' = handler[n].order /\ UNCHANGED expanded
     ELSE IF handler[n].kind = "toggle" THEN expanded' = Nobody /\ details' = Nobody
     ELSE UNCHANGED <<expanded, details>>
  /\ IF handler[n].kind = "toggle" THEN detailing' = FALSE /\ UNCHANGED updating
     ELSE updating' = Nobody /\ UNCHANGED detailing
  /\ Ended(n)
  /\ UNCHANGED <<row, page, shown, loading, rest>>

-----------------------------------------------------------------------------
(* A call fails, before its effect or after; so does a sign-in.             *)

FailOne == failed < MaxFailed /\ failed' = failed + 1

CallFails(n) ==
  /\ handler[n].awaits # Nobody /\ handler[n].answer # "failed" /\ FailOne
  /\ AnswerWith(n, "failed")
  /\ UNCHANGED <<row, page, table, crossed, signIns>>

LoginFails ==
  /\ page = "signing" /\ FailOne
  /\ page' = "form"
  /\ UNCHANGED <<row, table, handler, crossed, signIns>>

Serve(n) == ListOrders(n) \/ UpdateStatus(n) \/ GetOrder(n)
Hear(n) == HearList(n) \/ HearUpdated(n) \/ HearNotUpdated(n) \/ HearDetails(n)
ClickOn(o) == Hide(o) \/ Expand(o) \/ Advance(o)

AdminNext ==
  \/ \E n \in Tasks : Serve(n) \/ Hear(n) \/ CallFails(n)
  \/ \E o \in Orders : ClickOn(o) \/ MovedElsewhere(o)
  \/ Refresh \/ SubmitLogin \/ LoggedIn \/ LoginFails \/ Logout

(* Calls are answered and handlers go on; nobody clicks.                    *)
AdminSpec == AdminInit /\ [][AdminNext]_adminVars
FairAdminSpec ==
  /\ AdminSpec
  /\ \A n \in Tasks : WF_adminVars(Serve(n) \/ Hear(n))
  /\ WF_adminVars(LoggedIn)

-----------------------------------------------------------------------------

(* Every variable keeps its type.                                           *)
AdminTypeOK ==
  /\ row \in [Orders -> Statuses]
  /\ page \in {"form", "signing", "tables"}
  /\ shown \in {<<>>} \cup [Orders -> Statuses]
  /\ {loading, detailing, crossed} \subseteq BOOLEAN
  /\ {updating, expanded, details} \subseteq Orders \cup {Nobody}
  /\ \A n \in Tasks : /\ handler[n].kind \in {"unused", "load", "toggle", "advance", "over"}
                      /\ handler[n].awaits \in {Nobody, "list", "patch", "detail"}
                      /\ handler[n].answer \in {Nobody, "ok", "refused", "failed"}
  /\ signIns \in 0..MaxSignIns /\ failed \in 0..MaxFailed

(* The expanded row shows its own order's items, whatever lists are loaded  *)
(* and orders moved meanwhile, unless a row was expanded or hidden while    *)
(* details were still under way: then the late answer is shown under it.    *)
OwnDetails == ~crossed /\ expanded # Nobody /\ ~detailing => details = expanded

(* The table comes back: however the calls of its handlers fail and overlap,*)
(* no button and no spinner stays as it is while a call is under way.       *)
ComesBack == []<>(~loading /\ updating = Nobody /\ ~detailing)

=============================================================================
