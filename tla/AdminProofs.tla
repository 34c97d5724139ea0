----------------------------- MODULE AdminProofs ------------------------------
(***************************************************************************)
(* Theorems about the admin's pages, for any number of handlers and runs:  *)
(* the details shown under a row are those of its order, and the panel     *)
(* shows the run it follows.                                               *)
(***************************************************************************)
EXTENDS AdminOrders, SimulationPanel, TLAPS

(* The table of orders.                                                     *)

TaskType ==
  [kind : {"unused", "load", "toggle", "advance", "over"}, order : Orders \cup {Nobody},
   to : Statuses \cup {Nobody}, open : BOOLEAN, awaits : {Nobody, "list", "patch", "detail"},
   answer : {Nobody, "ok", "refused", "failed"}, rows : {<<>>} \cup [Orders -> Statuses]]

(* Details of the handler's order are asked for, or will be.                *)
WillShow(n) == Awaits(n, "detail") \/ (handler[n].awaits # Nobody /\ handler[n].open)
Toggling(n) == handler[n].kind = "toggle" /\ Awaits(n, "detail")

(* As long as no row was expanded or hidden while details were under way,   *)
(* details are under way for the expanded row alone, if any is; a row that  *)
(* is being expanded has one handler, and any other has its details.        *)
Uncrossed ==
  /\ \A n \in Tasks : WillShow(n) => expanded \in {handler[n].order, Nobody}
  /\ \A n \in Tasks : Toggling(n) =>
       /\ detailing /\ expanded = handler[n].order
       /\ \A k \in Tasks : Toggling(k) => k = n
  /\ expanded # Nobody /\ ~detailing => details = expanded

HandlersFine ==
  /\ handler \in [Tasks -> TaskType]
  /\ \A n \in Tasks : handler[n].kind = "toggle" => handler[n].awaits = "detail"
  /\ ~crossed => Uncrossed

TableInv == AdminTypeOK /\ HandlersFine

(* Idle handlers, and those that are over, are of the type.                 *)
LEMMA IdleType == Idle \in TaskType /\ [Idle EXCEPT !.kind = "over"] \in TaskType
  BY DEF Idle, TaskType

(* A handler that was started is of the type, and as it was started.        *)
LEMMA StartedType ==
  ASSUME NEW kind \in {"load", "toggle", "advance"}, NEW o \in Orders \cup {Nobody},
         NEW awaits \in {"list", "patch", "detail"}
  PROVE  /\ Started(kind, o, awaits) \in TaskType
         /\ Started(kind, o, awaits).kind = kind /\ Started(kind, o, awaits).order = o
         /\ Started(kind, o, awaits).awaits = awaits /\ Started(kind, o, awaits).open = FALSE
  BY DEF Started, Idle, TaskType

(* The buttons of the table lead to statuses.                               *)
LEMMA TransitionType ==
  ASSUME NEW s \in DOMAIN Transitions
  PROVE  Transitions[s] \in Statuses
<1>1. s \in {"placed", "preparing", "ready"}
  BY DEF Transitions
<1>2. CASE s = "placed"
  BY <1>2 DEF Transitions, Statuses
<1>3. CASE s = "preparing"
  BY <1>3 DEF Transitions, Statuses
<1>4. CASE s = "ready"
  BY <1>4 DEF Transitions, Statuses
<1>. QED BY <1>1, <1>2, <1>3, <1>4

(* The page opens with nothing under way.                                   *)
LEMMA TableInit == AdminInit => TableInv
<1> SUFFICES ASSUME AdminInit PROVE TableInv
  OBVIOUS
<1>1. handler \in [Tasks -> TaskType]
  BY IdleType DEF AdminInit
<1>2. AdminTypeOK
  <2>1. \A n \in Tasks : /\ handler[n].kind \in {"unused", "load", "toggle", "advance", "over"}
                         /\ handler[n].awaits \in {Nobody, "list", "patch", "detail"}
                         /\ handler[n].answer \in {Nobody, "ok", "refused", "failed"}
    BY <1>1 DEF TaskType
  <2>2. 0 \in 0..MaxSignIns /\ 0 \in 0..MaxFailed
    BY AdminAssumption
  <2>. QED BY <2>1, <2>2 DEF AdminInit, AdminTypeOK, Statuses
<1>3. Uncrossed
  <2>1. \A n \in Tasks : ~WillShow(n) /\ ~Toggling(n)
    BY DEF AdminInit, WillShow, Toggling, Awaits, Idle, Nobody
  <2>. QED BY <2>1 DEF Uncrossed, AdminInit
<1>4. \A n \in Tasks : handler[n].kind # "toggle"
  BY DEF AdminInit, Idle
<1>. QED BY <1>1, <1>2, <1>3, <1>4 DEF TableInv, HandlersFine

(* What a step does to the handlers: it changes one of them, at most.       *)
LEMMA OneHandler ==
  ASSUME handler \in [Tasks -> TaskType], NEW n \in Tasks, NEW h \in TaskType,
         handler' = [handler EXCEPT ![n] = h]
  PROVE  /\ handler' \in [Tasks -> TaskType] /\ handler'[n] = h
         /\ \A k \in Tasks : k # n => /\ handler'[k] = handler[k]
                                      /\ WillShow(k)' = WillShow(k) /\ Toggling(k)' = Toggling(k)
<1>1. handler' \in [Tasks -> TaskType] /\ handler'[n] = h /\ \A k \in Tasks : k # n => handler'[k] = handler[k]
  OBVIOUS
<1>2. ASSUME NEW k \in Tasks, k # n PROVE WillShow(k)' = WillShow(k) /\ Toggling(k)' = Toggling(k)
  BY <1>1, <1>2 DEF WillShow, Toggling, Awaits
<1>. QED BY <1>1, <1>2

(* Where the row expanded, its spinner and its details stay, a handler that *)
(* asks for nothing new, or for the expanded row's, crosses nothing.        *)
LEMMA HandlerKeeps ==
  ASSUME handler \in [Tasks -> TaskType], Uncrossed, NEW n \in Tasks, NEW h \in TaskType,
         handler' = [handler EXCEPT ![n] = h], UNCHANGED <<expanded, detailing, details>>,
         h.awaits = "detail" \/ (h.awaits # Nobody /\ h.open) =>
           expanded = h.order \/ (WillShow(n) /\ h.order = handler[n].order),
         h.kind = "toggle" /\ h.awaits = "detail" => Toggling(n) /\ h.order = handler[n].order
  PROVE  Uncrossed'
<1>1. /\ handler'[n] = h
      /\ \A k \in Tasks : k # n => /\ handler'[k] = handler[k]
                                   /\ WillShow(k)' = WillShow(k) /\ Toggling(k)' = Toggling(k)
  BY OneHandler
<1>2. /\ WillShow(n)' => h.awaits = "detail" \/ (h.awaits # Nobody /\ h.open)
      /\ Toggling(n)' => h.kind = "toggle" /\ h.awaits = "detail"
  BY <1>1 DEF WillShow, Toggling, Awaits
<1>3. ASSUME NEW k \in Tasks, WillShow(k)' PROVE expanded \in {handler'[k].order, Nobody}
  BY <1>1, <1>2, <1>3 DEF Uncrossed
<1>4. \A k \in Tasks : Toggling(k)' => Toggling(k) /\ handler'[k].order = handler[k].order
  BY <1>1, <1>2
<1>. QED BY <1>3, <1>4 DEF Uncrossed

(* What each operation makes of the handler it changes.                     *)
LEMMA HandlerShapes ==
  ASSUME handler \in [Tasks -> TaskType], NEW n \in Tasks
  PROVE  /\ \A a \in {"ok", "refused", "failed"} : AnswerWith(n, a) =>
              \E h \in TaskType :
                /\ handler' = [handler EXCEPT ![n] = h]
                /\ h.kind = handler[n].kind /\ h.order = handler[n].order
                /\ h.open = handler[n].open /\ h.awaits = handler[n].awaits
         /\ \A r \in {"list", "detail"} : GoOn(n, r) =>
              \E h \in TaskType :
                /\ handler' = [handler EXCEPT ![n] = h]
                /\ h.kind = handler[n].kind /\ h.order = handler[n].order
                /\ h.open = handler[n].open /\ h.awaits = r
         /\ Ended(n) => \E h \in TaskType :
                          handler' = [handler EXCEPT ![n] = h] /\ h.awaits = Nobody /\ h.kind = "over"
<1>0. handler[n] \in TaskType
  OBVIOUS
<1>1. ASSUME NEW a \in {"ok", "refused", "failed"}, AnswerWith(n, a)
      PROVE  \E h \in TaskType :
                /\ handler' = [handler EXCEPT ![n] = h]
                /\ h.kind = handler[n].kind /\ h.order = handler[n].order
                /\ h.open = handler[n].open /\ h.awaits = handler[n].awaits
  <2> DEFINE h == [handler[n] EXCEPT !.answer = a]
  <2>1. /\ h \in TaskType /\ h.kind = handler[n].kind /\ h.order = handler[n].order
        /\ h.open = handler[n].open /\ h.awaits = handler[n].awaits
    BY <1>0 DEF TaskType
  <2>2. handler' = [handler EXCEPT ![n] = h]
    BY <1>1 DEF AnswerWith
  <2> HIDE DEF h
  <2>. QED BY <2>1, <2>2
<1>2. ASSUME NEW r \in {"list", "detail"}, GoOn(n, r)
      PROVE  \E h \in TaskType :
                /\ handler' = [handler EXCEPT ![n] = h]
                /\ h.kind = handler[n].kind /\ h.order = handler[n].order
                /\ h.open = handler[n].open /\ h.awaits = r
  <2> DEFINE h == [handler[n] EXCEPT !.awaits = r, !.answer = Nobody, !.rows = <<>>]
  <2>1. /\ h \in TaskType /\ h.kind = handler[n].kind /\ h.order = handler[n].order
        /\ h.open = handler[n].open /\ h.awaits = r
    BY <1>0 DEF TaskType
  <2>2. handler' = [handler EXCEPT ![n] = h]
    BY <1>2 DEF GoOn
  <2> HIDE DEF h
  <2>. QED BY <2>1, <2>2
<1>3. ASSUME Ended(n)
      PROVE  \E h \in TaskType :
                handler' = [handler EXCEPT ![n] = h] /\ h.awaits = Nobody /\ h.kind = "over"
  <2>1. [Idle EXCEPT !.kind = "over"].awaits = Nobody /\ [Idle EXCEPT !.kind = "over"].kind = "over"
    BY DEF Idle
  <2>. QED BY <1>3, <2>1, IdleType DEF Ended
<1>. QED BY <1>1, <1>2, <1>3

(* A handler that is answered, goes on or ends without touching what is     *)
(* shown under the expanded row.                                            *)
LEMMA HandlerMoves ==
  ASSUME TableInv, NEW n \in Tasks, UNCHANGED <<expanded, detailing, details, crossed>>,
         \/ \E a \in {"ok", "refused", "failed"} : AnswerWith(n, a)
         \/ handler[n].awaits = "patch" /\ GoOn(n, "list")
         \/ WillShow(n) /\ handler[n].kind # "toggle" /\ GoOn(n, "detail")
         \/ Ended(n)
  PROVE  HandlersFine'
<1>0. /\ handler \in [Tasks -> TaskType] /\ (~crossed => Uncrossed)
      /\ \A k \in Tasks : handler[k].kind = "toggle" => handler[k].awaits = "detail"
  BY DEF TableInv, HandlersFine
<1>1. ASSUME NEW h \in TaskType, handler' = [handler EXCEPT ![n] = h],
             h.awaits = "detail" \/ (h.awaits # Nobody /\ h.open) =>
               WillShow(n) /\ h.order = handler[n].order,
             h.kind = "toggle" => h.awaits = "detail" /\ Toggling(n) /\ h.order = handler[n].order
      PROVE  HandlersFine'
  <2>1. /\ handler' \in [Tasks -> TaskType]
        /\ \A k \in Tasks : handler'[k].kind = "toggle" => handler'[k].awaits = "detail"
    BY <1>0, <1>1
  <2>2. ~crossed => Uncrossed'
    BY <1>0, <1>1, HandlerKeeps
  <2>. QED BY <2>1, <2>2 DEF HandlersFine
<1>2. CASE \E a \in {"ok", "refused", "failed"} : AnswerWith(n, a)
  <2>1. PICK h \in TaskType :
          /\ handler' = [handler EXCEPT ![n] = h]
          /\ h.kind = handler[n].kind /\ h.order = handler[n].order
          /\ h.open = handler[n].open /\ h.awaits = handler[n].awaits
    BY <1>0, <1>2, HandlerShapes
  <2>. QED BY <1>0, <1>1, <2>1 DEF WillShow, Toggling, Awaits
<1>3. CASE handler[n].awaits = "patch" /\ GoOn(n, "list")
  <2>1. PICK h \in TaskType :
          /\ handler' = [handler EXCEPT ![n] = h]
          /\ h.kind = handler[n].kind /\ h.order = handler[n].order
          /\ h.open = handler[n].open /\ h.awaits = "list"
    BY <1>0, <1>3, HandlerShapes
  <2>. QED BY <1>0, <1>1, <1>3, <2>1 DEF WillShow, Toggling, Awaits, Nobody
<1>4. CASE WillShow(n) /\ handler[n].kind # "toggle" /\ GoOn(n, "detail")
  <2>1. PICK h \in TaskType :
          /\ handler' = [handler EXCEPT ![n] = h]
          /\ h.kind = handler[n].kind /\ h.order = handler[n].order
          /\ h.open = handler[n].open /\ h.awaits = "detail"
    BY <1>0, <1>4, HandlerShapes
  <2>. QED BY <1>1, <1>4, <2>1
<1>5. CASE Ended(n)
  <2>1. PICK h \in TaskType :
          handler' = [handler EXCEPT ![n] = h] /\ h.awaits = Nobody /\ h.kind = "over"
    BY <1>0, <1>5, HandlerShapes
  <2>. QED BY <1>1, <2>1 DEF Nobody
<1>. QED BY <1>2, <1>3, <1>4, <1>5

(* A click that starts a handler for no details, or for the expanded row's. *)
LEMMA StartKeeps ==
  ASSUME TableInv, NEW h \in TaskType, StartTask(h), UNCHANGED <<expanded, detailing, details, crossed>>,
         h.kind # "toggle", h.awaits # "detail", h.open => expanded = h.order
  PROVE  HandlersFine'
<1>0. /\ handler \in [Tasks -> TaskType] /\ (~crossed => Uncrossed)
      /\ \A k \in Tasks : handler[k].kind = "toggle" => handler[k].awaits = "detail"
  BY DEF TableInv, HandlersFine
<1>1. PICK n \in Tasks : handler' = [handler EXCEPT ![n] = h]
  BY DEF StartTask
<1>2. /\ handler' \in [Tasks -> TaskType]
      /\ \A k \in Tasks : handler'[k].kind = "toggle" => handler'[k].awaits = "detail"
  BY <1>0, <1>1
<1>3. ~crossed => Uncrossed'
  BY <1>0, <1>1, HandlerKeeps
<1>. QED BY <1>2, <1>3 DEF HandlersFine

(* What nothing of the table changes.                                       *)
LEMMA HandlersUntouched ==
  ASSUME TableInv, UNCHANGED <<handler, expanded, detailing, details, crossed>>
  PROVE  HandlersFine'
  BY DEF TableInv, HandlersFine, Uncrossed, WillShow, Toggling, Awaits

(* A row is expanded: its handler is the only one for details.              *)
LEMMA ExpandKeeps ==
  ASSUME TableInv, NEW o \in Orders, Expand(o)
  PROVE  HandlersFine'
<1>0. /\ handler \in [Tasks -> TaskType]
      /\ \A k \in Tasks : handler[k].kind = "toggle" => handler[k].awaits = "detail"
  BY DEF TableInv, HandlersFine
<1> DEFINE h == Started("toggle", o, "detail")
<1>1. h \in TaskType /\ h.kind = "toggle" /\ h.order = o /\ h.awaits = "detail"
  BY DEF Started, Idle, TaskType
<1>2. PICK n \in Tasks : handler' = [handler EXCEPT ![n] = h]
  BY DEF Expand, StartTask
<1> HIDE DEF h
<1>3. /\ handler' \in [Tasks -> TaskType] /\ handler'[n] = h
      /\ \A k \in Tasks : k # n => /\ handler'[k] = handler[k]
                                   /\ WillShow(k)' = WillShow(k) /\ Toggling(k)' = Toggling(k)
  BY <1>0, <1>1, <1>2, OneHandler
<1>4. expanded' = o /\ detailing' = TRUE /\ crossed' = (crossed \/ UnderWay)
  BY DEF Expand
<1>5. ASSUME ~crossed' PROVE Uncrossed'
  <2>1. \A k \in Tasks : ~WillShow(k) /\ ~Toggling(k)
    BY <1>4, <1>5 DEF UnderWay, WillShow, Toggling
  <2>2. \A k \in Tasks : WillShow(k)' \/ Toggling(k)' => k = n
    BY <1>3, <2>1
  <2>. QED BY <1>1, <1>3, <1>4, <2>2 DEF Uncrossed
<1>6. \A k \in Tasks : handler'[k].kind = "toggle" => handler'[k].awaits = "detail"
  BY <1>0, <1>1, <1>3
<1>. QED BY <1>3, <1>5, <1>6 DEF HandlersFine

(* ... and hidden: none is left.                                            *)
LEMMA HideKeeps ==
  ASSUME TableInv, NEW o \in Orders, Hide(o)
  PROVE  HandlersFine'
<1>1. /\ handler' = handler /\ expanded' = Nobody /\ crossed' = (crossed \/ UnderWay)
      /\ handler \in [Tasks -> TaskType]
      /\ \A k \in Tasks : handler[k].kind = "toggle" => handler[k].awaits = "detail"
  BY DEF Hide, TableInv, HandlersFine
<1>2. ASSUME ~crossed' PROVE Uncrossed'
  <2>1. \A k \in Tasks : ~WillShow(k) /\ ~Toggling(k)
    BY <1>1, <1>2 DEF UnderWay, WillShow, Toggling
  <2>2. \A k \in Tasks : ~WillShow(k)' /\ ~Toggling(k)'
    BY <1>1, <2>1 DEF WillShow, Toggling, Awaits
  <2>. QED BY <1>1, <2>2 DEF Uncrossed
<1>. QED BY <1>1, <1>2 DEF HandlersFine

(* The answer that brings details, or fails to.                             *)
LEMMA HearDetailsKeeps ==
  ASSUME TableInv, NEW n \in Tasks, HearDetails(n)
  PROVE  HandlersFine'
<1>0. /\ handler \in [Tasks -> TaskType]
      /\ \A k \in Tasks : handler[k].kind = "toggle" => handler[k].awaits = "detail"
  BY DEF TableInv, HandlersFine
<1>1. PICK h \in TaskType :
        handler' = [handler EXCEPT ![n] = h] /\ h.awaits = Nobody /\ h.kind = "over"
  BY <1>0, HandlerShapes DEF HearDetails
<1>2. /\ handler' \in [Tasks -> TaskType] /\ handler'[n] = h
      /\ \A k \in Tasks : k # n => /\ handler'[k] = handler[k]
                                   /\ WillShow(k)' = WillShow(k) /\ Toggling(k)' = Toggling(k)
  BY <1>0, <1>1, OneHandler
<1>3. ~WillShow(n)' /\ ~Toggling(n)'
  BY <1>1, <1>2 DEF WillShow, Toggling, Awaits, Nobody
<1>4. WillShow(n) /\ crossed' = crossed /\ (handler[n].kind = "toggle" <=> Toggling(n))
  BY DEF HearDetails, HeardBy, WillShow, Toggling, rest
<1>5. ASSUME ~crossed PROVE Uncrossed'
  <2>0. Uncrossed
    BY <1>5 DEF TableInv, HandlersFine
  <2>1. CASE Toggling(n)
    <3>1. \A k \in Tasks : ~Toggling(k)'
      BY <1>2, <1>3, <2>0, <2>1 DEF Uncrossed
    <3>2. expanded = handler[n].order
      BY <2>0, <2>1 DEF Uncrossed
    <3>3. CASE handler[n].answer = "ok"
      <4>1. details' = expanded /\ expanded' = expanded
        BY <3>2, <3>3 DEF HearDetails
      <4>. QED BY <1>2, <1>3, <2>0, <3>1, <4>1 DEF Uncrossed
    <3>4. CASE handler[n].answer # "ok"
      <4>1. expanded' = Nobody
        BY <2>1, <3>4 DEF HearDetails, Toggling
      <4>. QED BY <3>1, <4>1 DEF Uncrossed
    <3>. QED BY <3>3, <3>4
  <2>2. CASE ~Toggling(n)
    <3>1. expanded' = expanded /\ detailing' = detailing
      BY <1>4, <2>2 DEF HearDetails
    <3>2. details' \in {details, handler[n].order}
      BY <1>4, <2>2 DEF HearDetails
    <3>3. expanded \in {handler[n].order, Nobody}
      BY <1>4, <2>0 DEF Uncrossed
    <3>4. \A k \in Tasks : WillShow(k)' => WillShow(k) /\ handler'[k] = handler[k]
      BY <1>2, <1>3
    <3>5. \A k \in Tasks : Toggling(k)' => Toggling(k) /\ handler'[k] = handler[k]
      BY <1>2, <1>3
    <3>. QED BY <2>0, <3>1, <3>2, <3>3, <3>4, <3>5 DEF Uncrossed
  <2>. QED BY <2>1, <2>2
<1>6. \A k \in Tasks : handler'[k].kind = "toggle" => handler'[k].awaits = "detail"
  BY <1>0, <1>1, <1>2
<1>. QED BY <1>2, <1>4, <1>5, <1>6 DEF HandlersFine

(* Every step keeps the handlers' part of the invariant ...                 *)
LEMMA HandlersStep == TableInv /\ [AdminNext]_adminVars => HandlersFine'
<1> SUFFICES ASSUME TableInv, [AdminNext]_adminVars PROVE HandlersFine'
  OBVIOUS
<1>0. /\ handler \in [Tasks -> TaskType] /\ (~crossed => Uncrossed) /\ AdminTypeOK
      /\ \A k \in Tasks : handler[k].kind = "toggle" => handler[k].awaits = "detail"
  BY DEF TableInv, HandlersFine
<1>1. ASSUME NEW n \in Tasks, ListOrders(n) PROVE HandlersFine'
  <2> DEFINE h == [handler[n] EXCEPT !.answer = "ok", !.rows = row]
  <2>1. handler[n] \in TaskType /\ row \in [Orders -> Statuses]
    BY <1>0 DEF AdminTypeOK
  <2>2. /\ h \in TaskType /\ h.kind = handler[n].kind /\ h.order = handler[n].order
        /\ h.open = handler[n].open /\ h.awaits = handler[n].awaits
    BY <2>1 DEF TaskType
  <2>3. handler' = [handler EXCEPT ![n] = h] /\ UNCHANGED <<expanded, detailing, details, crossed>>
    BY <1>0, <1>1 DEF ListOrders, table, rest
  <2> HIDE DEF h
  <2>4. /\ handler' \in [Tasks -> TaskType]
        /\ \A k \in Tasks : handler'[k].kind = "toggle" => handler'[k].awaits = "detail"
    BY <1>0, <2>2, <2>3
  <2>5. ~crossed => Uncrossed'
    <3>1. /\ h.awaits = "detail" \/ (h.awaits # Nobody /\ h.open) => WillShow(n)
          /\ h.kind = "toggle" /\ h.awaits = "detail" => Toggling(n)
      BY <2>2 DEF WillShow, Toggling, Awaits
    <3>. QED BY <1>0, <2>2, <2>3, <3>1, HandlerKeeps
  <2>. QED BY <2>3, <2>4, <2>5 DEF HandlersFine
<1>2. ASSUME NEW n \in Tasks, UpdateStatus(n) \/ GetOrder(n) \/ CallFails(n) PROVE HandlersFine'
  <2>1. UNCHANGED <<expanded, detailing, details, crossed>>
    BY <1>2 DEF UpdateStatus, GetOrder, CallFails, table, rest
  <2>2. \E a \in {"ok", "refused", "failed"} : AnswerWith(n, a)
    BY <1>2 DEF UpdateStatus, GetOrder, CallFails
  <2>. QED BY <2>1, <2>2, HandlerMoves
<1>3. ASSUME NEW n \in Tasks, HearList(n) PROVE HandlersFine'
  <2>1. UNCHANGED <<expanded, detailing, details, crossed>>
    BY <1>3 DEF HearList, rest
  <2>2. CASE handler[n].open
    <3>1. handler[n].awaits # Nobody /\ WillShow(n)
      BY <1>3, <2>2 DEF HearList, HeardBy, Awaits, Nobody, WillShow
    <3>2. GoOn(n, "detail")
      BY <1>3, <2>2 DEF HearList
    <3>3. handler[n].kind # "toggle"
      BY <1>0, <1>3 DEF HearList, HeardBy, Awaits
    <3>. QED BY <2>1, <3>1, <3>2, <3>3, HandlerMoves
  <2>3. CASE ~handler[n].open
    <3>1. Ended(n)
      BY <1>3, <2>3 DEF HearList
    <3>. QED BY <2>1, <3>1, HandlerMoves
  <2>. QED BY <2>2, <2>3
<1>4. ASSUME NEW n \in Tasks, HearUpdated(n) PROVE HandlersFine'
  <2>1. UNCHANGED <<expanded, detailing, details, crossed>> /\ handler[n].awaits = "patch" /\ GoOn(n, "list")
    BY <1>4 DEF HearUpdated, HeardBy, Awaits, rest
  <2>. QED BY <2>1, HandlerMoves
<1>5. ASSUME NEW n \in Tasks, HearNotUpdated(n) PROVE HandlersFine'
  <2>1. UNCHANGED <<expanded, detailing, details, crossed>> /\ Ended(n)
    BY <1>5 DEF HearNotUpdated, rest
  <2>. QED BY <2>1, HandlerMoves
<1>6. ASSUME NEW n \in Tasks, HearDetails(n) PROVE HandlersFine'
  BY <1>6, HearDetailsKeeps
<1>7. ASSUME NEW o \in Orders, Hide(o) PROVE HandlersFine'
  BY <1>7, HideKeeps
<1>8. ASSUME NEW o \in Orders, Expand(o) PROVE HandlersFine'
  BY <1>8, ExpandKeeps
<1>9. ASSUME NEW o \in Orders, Advance(o) PROVE HandlersFine'
  <2> DEFINE h == [Started("advance", o, "patch") EXCEPT !.to = Transitions[shown[o]],
                                                        !.open = Reopens(o)]
  <2>1. Transitions[shown[o]] \in Statuses
    BY <1>9, TransitionType DEF Advance
  <2>2. Reopens(o) \in BOOLEAN
    BY DEF Reopens
  <2>3. /\ h \in TaskType /\ h.kind = "advance" /\ h.order = o /\ h.awaits = "patch"
        /\ h.open = Reopens(o)
    BY <2>1, <2>2 DEF Started, Idle, TaskType
  <2>4. StartTask(h) /\ UNCHANGED <<expanded, detailing, details, crossed>>
    BY <1>9 DEF Advance, rest
  <2> HIDE DEF h
  <2>. QED BY <2>3, <2>4, StartKeeps DEF Reopens
<1>10. ASSUME Refresh PROVE HandlersFine'
  <2> DEFINE h == Started("load", Nobody, "list")
  <2>1. h \in TaskType /\ h.kind = "load" /\ h.awaits = "list" /\ h.open = FALSE
    BY DEF Started, Idle, TaskType
  <2>2. StartTask(h) /\ UNCHANGED <<expanded, detailing, details, crossed>>
    BY <1>10 DEF Refresh, rest
  <2> HIDE DEF h
  <2>. QED BY <2>1, <2>2, StartKeeps
<1>11. ASSUME LoggedIn PROVE HandlersFine'
  <2> DEFINE h == Started("load", Nobody, "list")
  <2>1. h \in TaskType /\ h.kind = "load" /\ h.awaits = "list" /\ h.open = FALSE
    BY DEF Started, Idle, TaskType
  <2>2. handler' = [handler EXCEPT ![1] = h] /\ UNCHANGED <<expanded, detailing, details, crossed>>
    BY <1>11 DEF LoggedIn, rest
  <2> HIDE DEF h
  <2>3. CASE 1 \in Tasks
    <3>1. /\ handler' \in [Tasks -> TaskType]
          /\ \A k \in Tasks : handler'[k].kind = "toggle" => handler'[k].awaits = "detail"
      BY <1>0, <2>1, <2>2
    <3>2. ~crossed => Uncrossed'
      BY <1>0, <2>1, <2>2, <2>3, HandlerKeeps
    <3>. QED BY <2>2, <3>1, <3>2 DEF HandlersFine
  <2>4. CASE 1 \notin Tasks
    <3>1. handler' = handler
      BY <1>0, <2>2, <2>4
    <3>. QED BY <2>2, <3>1, HandlersUntouched
  <2>. QED BY <2>3, <2>4
<1>12. ASSUME Logout PROVE HandlersFine'
  <2>1. handler' = [n \in Tasks |-> Idle] /\ expanded' = Nobody
    BY <1>12 DEF Logout
  <2>2. \A n \in Tasks : ~WillShow(n)' /\ ~Toggling(n)' /\ handler'[n].kind # "toggle"
    BY <2>1 DEF WillShow, Toggling, Awaits, Idle, Nobody
  <2>3. handler' \in [Tasks -> TaskType]
    BY <2>1, IdleType
  <2>. QED BY <2>1, <2>2, <2>3 DEF HandlersFine, Uncrossed
<1>13. ASSUME (\E o \in Orders : MovedElsewhere(o)) \/ SubmitLogin \/ LoginFails \/ UNCHANGED adminVars
       PROVE  HandlersFine'
  <2>1. UNCHANGED <<handler, expanded, detailing, details, crossed>>
    BY <1>13 DEF MovedElsewhere, SubmitLogin, LoginFails, adminVars, table, rest
  <2>. QED BY <2>1, HandlersUntouched
<1>. QED BY <1>1, <1>2, <1>3, <1>4, <1>5, <1>6, <1>7, <1>8, <1>9, <1>10, <1>11, <1>12, <1>13
         DEF AdminNext, Serve, Hear, ClickOn

(* ... and the rest keeps its type.                                         *)
RestTypeOK ==
  /\ row \in [Orders -> Statuses] /\ page \in {"form", "signing", "tables"}
  /\ shown \in {<<>>} \cup [Orders -> Statuses]
  /\ {loading, detailing, crossed} \subseteq BOOLEAN
  /\ {updating, expanded, details} \subseteq Orders \cup {Nobody}
  /\ signIns \in 0..MaxSignIns /\ failed \in 0..MaxFailed

(* A step keeps the types of what is not a handler.                         *)
LEMMA RestStep == TableInv /\ [AdminNext]_adminVars => RestTypeOK'
<1> SUFFICES ASSUME TableInv, [AdminNext]_adminVars PROVE RestTypeOK'
  OBVIOUS
<1>0. RestTypeOK /\ handler \in [Tasks -> TaskType]
  BY DEF TableInv, HandlersFine, AdminTypeOK, RestTypeOK
<1>n. MaxSignIns \in Nat /\ MaxFailed \in Nat
  BY AdminAssumption
<1>f. FailOne => failed' \in 0..MaxFailed
  BY <1>0, <1>n DEF FailOne, RestTypeOK
<1>1. ASSUME NEW n \in Tasks, ListOrders(n) \/ GetOrder(n) PROVE RestTypeOK'
  BY <1>0, <1>1 DEF ListOrders, GetOrder, table, rest, RestTypeOK
<1>2. ASSUME NEW n \in Tasks, UpdateStatus(n) PROVE RestTypeOK'
  <2>1. row' \in [Orders -> Statuses]
    <3>1. CASE MayMove(handler[n].order, handler[n].to)
      <4>1. handler[n].to \in Statuses
        BY <3>1, TransitionType DEF MayMove
      <4>. QED BY <1>0, <1>2, <3>1, <4>1 DEF UpdateStatus, RestTypeOK
    <3>2. CASE ~MayMove(handler[n].order, handler[n].to)
      BY <1>0, <1>2, <3>2 DEF UpdateStatus, RestTypeOK
    <3>. QED BY <3>1, <3>2
  <2>. QED BY <1>0, <1>2, <2>1 DEF UpdateStatus, table, rest, RestTypeOK
<1>3. ASSUME NEW o \in Orders, MovedElsewhere(o) PROVE RestTypeOK'
  <2>1. row' \in [Orders -> Statuses]
    <3>1. "cancelled" \in Statuses /\ (row[o] \in DOMAIN Transitions => Transitions[row[o]] \in Statuses)
      BY TransitionType DEF Statuses
    <3>. QED BY <1>0, <1>3, <3>1 DEF MovedElsewhere, RestTypeOK
  <2>. QED BY <1>0, <1>3, <2>1 DEF MovedElsewhere, table, rest, RestTypeOK
<1>4. ASSUME NEW n \in Tasks, HearList(n) PROVE RestTypeOK'
  <2>1. shown' \in {<<>>} \cup [Orders -> Statuses]
    BY <1>0, <1>4 DEF HearList, RestTypeOK, TaskType
  <2>2. updating' \in {updating, Nobody}
    BY <1>4 DEF HearList
  <2>3. loading' = FALSE /\ UNCHANGED <<row, page, expanded, detailing, details, crossed, signIns, failed>>
    BY <1>4 DEF HearList, rest
  <2>. QED BY <1>0, <2>1, <2>2, <2>3 DEF RestTypeOK
<1>5. ASSUME NEW n \in Tasks, HearUpdated(n) \/ HearNotUpdated(n) PROVE RestTypeOK'
  BY <1>0, <1>5 DEF HearUpdated, HearNotUpdated, rest, RestTypeOK
<1>6. ASSUME NEW n \in Tasks, HearDetails(n) PROVE RestTypeOK'
  <2>1. handler[n].order \in Orders \cup {Nobody}
    BY <1>0 DEF TaskType
  <2>2. /\ details' \in {details, Nobody, handler[n].order} /\ expanded' \in {expanded, Nobody}
        /\ updating' \in {updating, Nobody} /\ detailing' \in {detailing, FALSE}
    BY <1>6 DEF HearDetails
  <2>3. UNCHANGED <<row, page, shown, loading, crossed, signIns, failed>>
    BY <1>6 DEF HearDetails, rest
  <2>. QED BY <1>0, <2>1, <2>2, <2>3 DEF RestTypeOK
<1>7. ASSUME NEW n \in Tasks, CallFails(n) PROVE RestTypeOK'
  BY <1>0, <1>7, <1>f DEF CallFails, table, RestTypeOK
<1>8. ASSUME NEW o \in Orders, Hide(o) \/ Expand(o) PROVE RestTypeOK'
  <2>1. crossed' \in BOOLEAN
    BY <1>8 DEF Hide, Expand
  <2>. QED BY <1>0, <1>8, <2>1 DEF Hide, Expand, RestTypeOK
<1>9. ASSUME NEW o \in Orders, Advance(o) PROVE RestTypeOK'
  BY <1>0, <1>9 DEF Advance, rest, RestTypeOK
<1>10. ASSUME Refresh \/ LoggedIn PROVE RestTypeOK'
  BY <1>0, <1>10 DEF Refresh, LoggedIn, rest, RestTypeOK
<1>11. ASSUME SubmitLogin PROVE RestTypeOK'
  <2>1. signIns' \in 0..MaxSignIns
    BY <1>0, <1>11, <1>n DEF SubmitLogin, RestTypeOK
  <2>. QED BY <1>0, <1>11, <2>1 DEF SubmitLogin, table, RestTypeOK
<1>12. ASSUME LoginFails PROVE RestTypeOK'
  BY <1>0, <1>12, <1>f DEF LoginFails, table, RestTypeOK
<1>13. ASSUME Logout PROVE RestTypeOK'
  BY <1>0, <1>13 DEF Logout, RestTypeOK
<1>14. ASSUME UNCHANGED adminVars PROVE RestTypeOK'
  BY <1>0, <1>14 DEF adminVars, RestTypeOK
<1>. QED BY <1>1, <1>2, <1>3, <1>4, <1>5, <1>6, <1>7, <1>8, <1>9, <1>10, <1>11, <1>12, <1>13, <1>14
         DEF AdminNext, Serve, Hear, ClickOn

(* Every step of the page and of the service keeps the invariant.           *)
LEMMA TableStep == TableInv /\ [AdminNext]_adminVars => TableInv'
<1> SUFFICES ASSUME TableInv, [AdminNext]_adminVars PROVE TableInv'
  OBVIOUS
<1>1. HandlersFine' /\ RestTypeOK'
  BY HandlersStep, RestStep
<1>2. \A n \in Tasks : /\ handler'[n].kind \in {"unused", "load", "toggle", "advance", "over"}
                       /\ handler'[n].awaits \in {Nobody, "list", "patch", "detail"}
                       /\ handler'[n].answer \in {Nobody, "ok", "refused", "failed"}
  BY <1>1 DEF HandlersFine, TaskType
<1>3. AdminTypeOK'
  BY <1>1, <1>2 DEF RestTypeOK, AdminTypeOK
<1>. QED BY <1>1, <1>3 DEF TableInv

(* The invariant of the table of orders always holds.                       *)
LEMMA TableAlways == AdminSpec => []TableInv
  BY TableInit, TableStep, PTL DEF AdminSpec

(* Every variable of the table of orders keeps its type.                    *)
THEOREM AdminTypeCorrect == AdminSpec => []AdminTypeOK
<1>1. TableInv => AdminTypeOK
  BY DEF TableInv
<1>. QED BY <1>1, TableAlways, PTL

(* The expanded row shows its own details, for any number of orders, handlers*)
(* and failing calls.                                                       *)
THEOREM DetailsAreTheRows == AdminSpec => []OwnDetails
<1>1. TableInv => OwnDetails
  BY DEF TableInv, HandlersFine, Uncrossed, OwnDetails
<1>. QED BY <1>1, TableAlways, PTL

-----------------------------------------------------------------------------
(* The simulation panel.                                                    *)

SimStatuses == Twin!RunStatus \cup {"gone"}
SimType == [status : SimStatuses, aborted : BOOLEAN, report : BOOLEAN]
Description == [id : 0..MaxRuns, status : SimStatuses, report : BOOLEAN]
JobType ==
  [kind : {"free", "start", "poll", "cancel"}, id : 0..MaxRuns,
   awaits : {"none", "post", "first", "poll", "delete", "latest"},
   answer : {"none", "ok", "failed"}, run : Description]

(* A handler knows its run when it asks for it, and is told of that one.    *)
Reads == {"first", "poll", "latest"}
JobFine(n) ==
  /\ job[n].awaits \in Reads \cup {"delete"} => job[n].id \in Runs
  /\ job[n].awaits = "post" /\ job[n].answer = "ok" => job[n].id \in Runs
  /\ job[n].awaits \in Reads /\ job[n].answer = "ok" => job[n].run.id = job[n].id
  /\ job[n].awaits \in Reads /\ job[n].answer = "ok" => job[n].run.status \in Twin!RunStatus
  /\ job[n].answer # "none" => job[n].awaits # "none"

(* As long as Run was not clicked over a handler: the start of a run is     *)
(* alone, with nothing shown; and any other handler is about the latest run.*)
Starting(n) == job[n].awaits = "post"
OneRun ==
  /\ run.id \in {0, latest} /\ report \in {0, latest}
  /\ \A n \in Jobs : Starting(n) =>
       /\ running /\ run = Nothing /\ report = 0
       /\ \A k \in Jobs : k # n => job[k] = Free
  /\ \A n \in Jobs : job[n].awaits \in Reads \cup {"delete"} => job[n].id = latest

PanelType ==
  /\ sim \in [Runs -> SimType]
  /\ run = Nothing \/ run.id \in Runs
  /\ run \in Description /\ run.status \in Twin!RunStatus
  /\ running \in BOOLEAN /\ report \in 0..MaxRuns
  /\ job \in [Jobs -> JobType]
  /\ latest \in 0..MaxRuns /\ overlapped \in BOOLEAN /\ errors \in 0..MaxErrors

PanelInv == PanelType /\ (\A n \in Jobs : JobFine(n)) /\ (~overlapped => OneRun)

(* Bounds are numbers, 0 is no run, and what is empty is of its type.       *)
LEMMA PanelConstants ==
  /\ MaxRuns \in Nat /\ MaxJobs \in Nat /\ MaxErrors \in Nat /\ 0 \in 0..MaxRuns
  /\ Runs \subseteq 0..MaxRuns /\ 0 \notin Runs
  /\ Nothing \in Description /\ Nothing.id = 0 /\ Nothing.status = "absent"
  /\ Free \in JobType /\ Free.awaits = "none" /\ Free.answer = "none"
<1>1. MaxRuns \in Nat /\ MaxJobs \in Nat /\ MaxErrors \in Nat
  BY PanelAssumption
<1>2. 0 \in 0..MaxRuns /\ Runs \subseteq 0..MaxRuns /\ 0 \notin Runs
  BY <1>1 DEF Runs
<1>3. Nothing \in Description /\ Nothing.id = 0 /\ Nothing.status = "absent"
  BY <1>2 DEF Nothing, Description, SimStatuses, Twin!RunStatus
<1>4. Free \in JobType /\ Free.awaits = "none" /\ Free.answer = "none"
  BY <1>2, <1>3 DEF Free, JobType
<1>. QED BY <1>1, <1>2, <1>3, <1>4

(* The panel opens without a run and without handlers.                      *)
LEMMA PanelInitially == PanelInit => PanelInv
<1> SUFFICES ASSUME PanelInit PROVE PanelInv
  OBVIOUS
<1>1. Twin!Absent \in SimType
  BY DEF Twin!Absent, SimType, SimStatuses, Twin!RunStatus
<1>2. PanelType
  <2>1. sim \in [Runs -> SimType]
    BY <1>1 DEF PanelInit, Twin!RunsInit
  <2>2. errors \in 0..MaxErrors
    BY PanelConstants DEF PanelInit
  <2>3. job \in [Jobs -> JobType]
    BY PanelConstants DEF PanelInit
  <2>4. run \in Description /\ run.status \in Twin!RunStatus
    BY PanelConstants DEF PanelInit, Twin!RunStatus
  <2>. QED BY <2>1, <2>2, <2>3, <2>4, PanelConstants DEF PanelInit, PanelType
<1>3. \A n \in Jobs : job[n].awaits = "none"
  BY PanelConstants DEF PanelInit
<1>4. OneRun
  BY <1>3, PanelConstants DEF PanelInit, OneRun, Starting, Reads
<1>5. \A n \in Jobs : JobFine(n)
  BY <1>3, PanelConstants DEF JobFine, Reads, PanelInit
<1>. QED BY <1>2, <1>4, <1>5 DEF PanelInv

(* A handler that changes to h, and what is shown with it.                  *)
LEMMA OneJob ==
  ASSUME PanelInv, NEW n \in Jobs, NEW h \in JobType, job' = [job EXCEPT ![n] = h],
         h.awaits \in Reads \cup {"delete"} => h.id \in Runs,
         h.awaits = "post" /\ h.answer = "ok" => h.id \in Runs,
         h.awaits \in Reads /\ h.answer = "ok" => h.run.id = h.id /\ h.run.status \in Twin!RunStatus,
         h.answer # "none" => h.awaits # "none"
  PROVE  /\ job' \in [Jobs -> JobType] /\ job'[n] = h
         /\ \A k \in Jobs : k # n => job'[k] = job[k]
         /\ \A k \in Jobs : JobFine(k)'
<1>1. job \in [Jobs -> JobType]
  BY DEF PanelInv, PanelType
<1>2. job' \in [Jobs -> JobType] /\ job'[n] = h /\ \A k \in Jobs : k # n => job'[k] = job[k]
  BY <1>1
<1>3. ASSUME NEW k \in Jobs PROVE JobFine(k)'
  <2>1. CASE k = n
    BY <1>2, <2>1 DEF JobFine
  <2>2. CASE k # n
    BY <1>2, <2>2 DEF PanelInv, JobFine
  <2>. QED BY <2>1, <2>2
<1>. QED BY <1>2, <1>3

(* A handler under way and a start of a run are not under way together.     *)
LEMMA NotWithAStart ==
  ASSUME OneRun, NEW n \in Jobs, job[n].awaits # "none", ~Starting(n)
  PROVE  \A k \in Jobs : ~Starting(k)
  BY PanelConstants DEF OneRun, Starting

(* An answer arrives: nothing is shown yet.                                 *)
LEMMA AnswerKeepsOneRun ==
  ASSUME PanelInv, OneRun, NEW n \in Jobs, NEW h \in JobType, job' = [job EXCEPT ![n] = h],
         job[n].awaits # "none", h.awaits = job[n].awaits,
         h.awaits \in Reads \cup {"delete"} => h.id = job[n].id,
         UNCHANGED <<run, running, report, latest>>
  PROVE  OneRun'
<1>0. job \in [Jobs -> JobType]
  BY DEF PanelInv, PanelType
<1>1. job'[n] = h /\ \A k \in Jobs : k # n => job'[k] = job[k]
  BY <1>0
<1>2. \A k \in Jobs : Starting(k)' <=> Starting(k)
  BY <1>1 DEF Starting
<1>3. ASSUME NEW k \in Jobs, Starting(k)'
      PROVE  running /\ run = Nothing /\ report = 0 /\ \A m \in Jobs : m # k => job'[m] = Free
  <2>1. Starting(k)
    BY <1>2, <1>3
  <2>2. running /\ run = Nothing /\ report = 0 /\ \A m \in Jobs : m # k => job[m] = Free
    BY <2>1 DEF OneRun
  <2>3. k = n
    BY <2>2, PanelConstants
  <2>. QED BY <1>1, <2>2, <2>3
<1>4. \A k \in Jobs : job'[k].awaits \in Reads \cup {"delete"} => job'[k].id = latest
  BY <1>1 DEF OneRun
<1>. QED BY <1>3, <1>4 DEF OneRun

(* A handler ends, and shows no run but the latest.                         *)
LEMMA OverKeepsOneRun ==
  ASSUME PanelInv, OneRun, NEW n \in Jobs, Over(n), job[n].awaits # "none", latest' = latest,
         run'.id \in {0, latest}, report' \in {0, latest}
  PROVE  OneRun'
<1>0. job \in [Jobs -> JobType]
  BY DEF PanelInv, PanelType
<1>1. job'[n] = Free /\ \A k \in Jobs : k # n => job'[k] = job[k]
  BY <1>0 DEF Over
<1>2. \A k \in Jobs : ~Starting(k)'
  <2>1. CASE Starting(n)
    BY <1>1, <2>1, PanelConstants DEF OneRun, Starting
  <2>2. CASE ~Starting(n)
    BY <1>1, <2>2, NotWithAStart, PanelConstants DEF Starting
  <2>. QED BY <2>1, <2>2
<1>3. \A k \in Jobs : job'[k].awaits \in Reads \cup {"delete"} => job'[k].id = latest
  BY <1>1, PanelConstants DEF OneRun, Reads
<1>. QED BY <1>2, <1>3 DEF OneRun

(* A handler of the latest run, started or going on, while nothing starts.  *)
LEMMA AskKeepsOneRun ==
  ASSUME PanelInv, OneRun, NEW n \in Jobs, NEW h \in JobType, job' = [job EXCEPT ![n] = h],
         h.awaits \in Reads \cup {"delete"}, h.id = latest, \A k \in Jobs : ~Starting(k),
         UNCHANGED <<run, running, report, latest>>
  PROVE  OneRun'
<1>0. job \in [Jobs -> JobType]
  BY DEF PanelInv, PanelType
<1>1. job'[n] = h /\ \A k \in Jobs : k # n => job'[k] = job[k]
  BY <1>0
<1>2. \A k \in Jobs : ~Starting(k)'
  BY <1>1 DEF Starting, Reads
<1>3. \A k \in Jobs : job'[k].awaits \in Reads \cup {"delete"} => job'[k].id = latest
  BY <1>1 DEF OneRun
<1>. QED BY <1>2, <1>3 DEF OneRun

(* Nothing of the panel changes.                                            *)
LEMMA PanelUntouched ==
  ASSUME PanelInv, UNCHANGED <<run, running, report, job, latest, overlapped>>,
         sim' \in [Runs -> SimType], errors' \in 0..MaxErrors
  PROVE  PanelInv'
<1>1. PanelType'
  BY DEF PanelInv, PanelType
<1>2. \A n \in Jobs : JobFine(n)'
  BY DEF PanelInv, JobFine
<1>3. ~overlapped' => OneRun'
  BY DEF PanelInv, OneRun, Starting
<1>. QED BY <1>1, <1>2, <1>3 DEF PanelInv

(* The twin's runs keep their type.                                         *)
LEMMA SimKept ==
  ASSUME sim \in [Runs -> SimType], NEW r \in Runs,
         \/ \E status \in {"pending", "running"} : Twin!StartOne(r, status)
         \/ Twin!Abort(r) \/ Twin!End(r) \/ Twin!Fail(r)
  PROVE  sim' \in [Runs -> SimType]
<1>1. sim[r] \in SimType
  OBVIOUS
<1>2. PICK s \in SimType : sim' = [sim EXCEPT ![r] = s]
  <2>1. CASE \E status \in {"pending", "running"} : Twin!StartOne(r, status)
    <3>1. PICK status \in {"pending", "running"} : Twin!StartOne(r, status)
      BY <2>1
    <3>2. [sim[r] EXCEPT !.status = status] \in SimType
      BY <1>1 DEF SimType, SimStatuses, Twin!RunStatus
    <3>. QED BY <3>1, <3>2 DEF Twin!StartOne
  <2>2. CASE Twin!Abort(r)
    <3>1. [sim[r] EXCEPT !.aborted = TRUE] \in SimType
      BY <1>1 DEF SimType
    <3>. QED BY <2>2, <3>1 DEF Twin!Abort
  <2>3. CASE Twin!End(r)
    <3>1. [sim[r] EXCEPT !.status = IF sim[r].aborted THEN "cancelled" ELSE "completed",
                         !.report = TRUE] \in SimType
      BY <1>1 DEF SimType, SimStatuses, Twin!RunStatus
    <3>2. sim' = [sim EXCEPT ![r] = [sim[r] EXCEPT
                    !.status = IF sim[r].aborted THEN "cancelled" ELSE "completed", !.report = TRUE]]
      BY <2>3 DEF Twin!End
    <3>. QED BY <3>1, <3>2
  <2>4. CASE Twin!Fail(r)
    <3>1. [sim[r] EXCEPT !.status = "failed"] \in SimType
      BY <1>1 DEF SimType, SimStatuses, Twin!RunStatus
    <3>. QED BY <2>4, <3>1 DEF Twin!Fail
  <2>. QED BY <2>1, <2>2, <2>3, <2>4
<1>. QED BY <1>2

(* What a served request makes of its handler.                              *)
LEMMA ServeKeeps ==
  ASSUME PanelInv, NEW n \in Jobs, ServeJob(n)
  PROVE  PanelInv'
<1>0. /\ job \in [Jobs -> JobType] /\ job[n] \in JobType /\ sim \in [Runs -> SimType]
      /\ JobFine(n) /\ (~overlapped => OneRun) /\ PanelType
  BY DEF PanelInv, PanelType
<1>1. UNCHANGED <<run, running, report, latest, overlapped, errors>>
  BY DEF ServeJob, PostRun, GetRun, DeleteRun, view, marks
<1>2. ASSUME NEW h \in JobType, job' = [job EXCEPT ![n] = h], job[n].awaits # "none",
             h.awaits = job[n].awaits, sim' \in [Runs -> SimType],
             h.awaits \in Reads \cup {"delete"} => h.id = job[n].id,
             h.awaits = "post" /\ h.answer = "ok" => h.id \in Runs,
             h.awaits \in Reads /\ h.answer = "ok" => h.run.id = h.id /\ h.run.status \in Twin!RunStatus
      PROVE  PanelInv'
  <2>1. job' \in [Jobs -> JobType] /\ \A k \in Jobs : JobFine(k)'
    <3>1. h.awaits \in Reads \cup {"delete"} => h.id \in Runs
      BY <1>0, <1>2 DEF JobFine
    <3>. QED BY <1>2, <3>1, OneJob
  <2>2. PanelType'
    BY <1>0, <1>1, <1>2, <2>1 DEF PanelType
  <2>3. ~overlapped' => OneRun'
    BY <1>0, <1>1, <1>2, AnswerKeepsOneRun
  <2>. QED BY <2>1, <2>2, <2>3 DEF PanelInv
<1>3. CASE PostRun(n)
  <2>1. PICK r \in Runs :
          /\ \E status \in {"pending", "running"} : Twin!StartOne(r, status)
          /\ job' = [job EXCEPT ![n].answer = "ok", ![n].id = r]
    BY <1>3 DEF PostRun
  <2> DEFINE h == [job[n] EXCEPT !.answer = "ok", !.id = r]
  <2>2. h \in JobType /\ h.awaits = job[n].awaits /\ h.id = r
    BY <1>0, PanelConstants DEF JobType
  <2>3. job[n].awaits = "post"
    BY <1>3 DEF PostRun, Asked
  <2>4. sim' \in [Runs -> SimType]
    BY <1>0, <2>1, SimKept
  <2>5. job' = [job EXCEPT ![n] = h]
    BY <2>1
  <2> HIDE DEF h
  <2>. QED BY <1>2, <2>2, <2>3, <2>4, <2>5 DEF Reads
<1>4. CASE GetRun(n)
  <2>1. job[n].awaits \in Reads /\ job[n].id \in Runs /\ sim' = sim
    BY <1>0, <1>4 DEF GetRun, Asked, Reads, JobFine
  <2>2. CASE sim[job[n].id].status = "gone"
    <3> DEFINE h == [job[n] EXCEPT !.answer = "failed"]
    <3>1. h \in JobType /\ h.awaits = job[n].awaits /\ h.id = job[n].id /\ h.answer = "failed"
      BY <1>0 DEF JobType
    <3>2. job' = [job EXCEPT ![n] = h]
      BY <1>4, <2>2 DEF GetRun
    <3> HIDE DEF h
    <3>. QED BY <1>0, <1>2, <2>1, <3>1, <3>2 DEF Reads
  <2>3. CASE sim[job[n].id].status # "gone"
    <3> DEFINE d == Describe(job[n].id)
               h == [job[n] EXCEPT !.answer = "ok", !.id = job[n].id, !.run = d]
    <3>1. d \in Description /\ d.id = job[n].id /\ d.status \in Twin!RunStatus
      <4>1. sim[job[n].id] \in SimType
        BY <1>0, <2>1
      <4>. QED BY <2>1, <2>3, <4>1, PanelConstants DEF Describe, Description, SimType, SimStatuses
    <3>2. job' = [job EXCEPT ![n] = h]
      BY <1>4, <2>3 DEF GetRun, Tell
    <3> HIDE DEF d
    <3>3. h \in JobType /\ h.awaits = job[n].awaits /\ h.id = job[n].id /\ h.answer = "ok" /\ h.run = d
      BY <1>0, <3>1 DEF JobType
    <3> HIDE DEF h
    <3>. QED BY <1>0, <1>2, <2>1, <3>1, <3>2, <3>3 DEF Reads
  <2>. QED BY <2>2, <2>3
<1>5. CASE DeleteRun(n)
  <2>1. job[n].awaits = "delete" /\ job[n].id \in Runs
    BY <1>0, <1>5 DEF DeleteRun, Asked, JobFine
  <2>2. PICK a \in {"ok", "failed"} : job' = [job EXCEPT ![n].answer = a]
    BY <1>5 DEF DeleteRun
  <2> DEFINE h == [job[n] EXCEPT !.answer = a]
  <2>3. h \in JobType /\ h.awaits = job[n].awaits /\ h.id = job[n].id
    BY <1>0 DEF JobType
  <2>4. job' = [job EXCEPT ![n] = h]
    BY <2>2
  <2> HIDE DEF h
  <2>5. sim' \in [Runs -> SimType]
    BY <1>0, <1>5, <2>1, SimKept DEF DeleteRun
  <2>. QED BY <1>2, <2>1, <2>3, <2>4, <2>5 DEF Reads
<1>. QED BY <1>3, <1>4, <1>5 DEF ServeJob

(* A handler that ends: what it shows is well typed, and of the latest run. *)
LEMMA EndKeeps ==
  ASSUME PanelInv, NEW n \in Jobs, Over(n), job[n].awaits # "none",
         UNCHANGED <<sim, latest, overlapped, errors>>,
         \/ UNCHANGED <<run, report>>
         \/ /\ job[n].awaits \in Reads /\ job[n].answer = "ok" /\ run' = job[n].run
            /\ report' \in {report, job[n].run.id},
         running' \in BOOLEAN
  PROVE  PanelInv'
<1>0. /\ job \in [Jobs -> JobType] /\ job[n] \in JobType /\ PanelType
      /\ JobFine(n) /\ (~overlapped => OneRun)
  BY DEF PanelInv, PanelType
<1>1. job' = [job EXCEPT ![n] = Free]
  BY DEF Over
<1>2. job' \in [Jobs -> JobType] /\ \A k \in Jobs : JobFine(k)'
  BY <1>1, OneJob, PanelConstants DEF Reads
<1>3. ASSUME run' # run \/ report' # report
      PROVE  /\ run' \in Description /\ run'.id \in Runs /\ run'.status \in Twin!RunStatus
             /\ report' \in {report, run'.id} /\ (~overlapped => run'.id = latest)
  <2>1. job[n].awaits \in Reads /\ job[n].answer = "ok" /\ run' = job[n].run
    BY <1>3
  <2>2. /\ run' \in Description /\ run'.id = job[n].id /\ job[n].id \in Runs
        /\ run'.status \in Twin!RunStatus /\ report' \in {report, run'.id}
    BY <1>0, <1>3, <2>1 DEF JobFine, JobType
  <2>3. ~overlapped => job[n].id = latest
    BY <1>0, <2>1 DEF OneRun
  <2>. QED BY <2>2, <2>3
<1>4. PanelType'
  <2>1. run' = Nothing \/ run'.id \in Runs
    BY <1>0, <1>3 DEF PanelType
  <2>2. run' \in Description /\ run'.status \in Twin!RunStatus
    BY <1>0, <1>3 DEF PanelType
  <2>3. report' \in 0..MaxRuns
    <3>1. CASE report' = report
      BY <1>0, <3>1 DEF PanelType
    <3>2. CASE report' # report
      BY <1>3, <3>2, PanelConstants
    <3>. QED BY <3>1, <3>2
  <2>. QED BY <1>0, <1>2, <2>1, <2>2, <2>3 DEF PanelType
<1>5. ASSUME ~overlapped' PROVE OneRun'
  <2>1. OneRun
    BY <1>0, <1>5
  <2>2. run'.id \in {0, latest}
    BY <1>3, <1>5, <2>1 DEF OneRun
  <2>3. report' \in {0, latest}
    <3>1. CASE report' = report
      BY <2>1, <3>1 DEF OneRun
    <3>2. CASE report' # report
      BY <1>3, <1>5, <3>2
    <3>. QED BY <3>1, <3>2
  <2>. QED BY <2>1, <2>2, <2>3, OverKeepsOneRun
<1>. QED BY <1>2, <1>4, <1>5 DEF PanelInv

(* A handler that goes on with its run asks for it again.                   *)
LEMMA GoOnKeeps ==
  ASSUME PanelInv, NEW n \in Jobs, HearStarted(n) \/ HearCancelled(n)
  PROVE  PanelInv'
<1>0. /\ job \in [Jobs -> JobType] /\ job[n] \in JobType /\ PanelType
      /\ JobFine(n) /\ (~overlapped => OneRun)
  BY DEF PanelInv, PanelType
<1>1. PICK request \in {"first", "latest"} :
        /\ Then(n, request)
        /\ request = "first" => Got(n, "post") /\ latest' = job[n].id
        /\ request = "latest" => Got(n, "delete") /\ latest' = latest
  BY DEF HearStarted, HearCancelled, marks
<1>2. UNCHANGED <<sim, run, running, report, overlapped, errors>>
  BY DEF HearStarted, HearCancelled, view, marks
<1> DEFINE h == [job[n] EXCEPT !.awaits = request, !.answer = "none"]
<1>3. h \in JobType /\ h.awaits = request /\ h.answer = "none" /\ h.id = job[n].id
  BY <1>0 DEF JobType
<1>4. job' = [job EXCEPT ![n] = h]
  BY <1>1 DEF Then
<1>5. job[n].id \in Runs
  BY <1>0, <1>1 DEF Got, JobFine
<1> HIDE DEF h
<1>6. job' \in [Jobs -> JobType] /\ \A k \in Jobs : JobFine(k)'
  BY <1>3, <1>4, <1>5, OneJob
<1>7. job'[n] = h /\ \A k \in Jobs : k # n => job'[k] = job[k]
  BY <1>0, <1>4
<1>8. PanelType'
  <2>1. latest' \in 0..MaxRuns
    BY <1>0, <1>1, <1>5, PanelConstants DEF PanelType
  <2>. QED BY <1>0, <1>2, <1>6, <2>1 DEF PanelType
<1>9. ASSUME ~overlapped' PROVE OneRun'
  <2>0. OneRun
    BY <1>0, <1>2, <1>9
  <2>1. CASE request = "first"
    <3>1. Starting(n) /\ latest' = job[n].id
      BY <1>1, <2>1 DEF Got, Starting
    <3>2. run = Nothing /\ report = 0 /\ \A k \in Jobs : k # n => job'[k] = Free
      BY <1>7, <2>0, <3>1 DEF OneRun
    <3>3. \A k \in Jobs : ~Starting(k)'
      BY <1>3, <1>7, <2>1, <3>2, PanelConstants DEF Starting
    <3>4. \A k \in Jobs : job'[k].awaits \in Reads \cup {"delete"} => job'[k].id = latest'
      BY <1>3, <1>7, <3>1, <3>2, PanelConstants DEF Reads
    <3>. QED BY <1>2, <3>2, <3>3, <3>4, PanelConstants DEF OneRun
  <2>2. CASE request = "latest"
    <3>1. job[n].awaits = "delete" /\ latest' = latest
      BY <1>1, <2>2 DEF Got
    <3>2. job[n].id = latest
      BY <2>0, <3>1 DEF OneRun
    <3>3. \A k \in Jobs : ~Starting(k)
      BY <2>0, <3>1, NotWithAStart DEF Starting
    <3>. QED BY <1>2, <1>3, <1>4, <2>0, <2>2, <3>1, <3>2, <3>3, AskKeepsOneRun DEF Reads
  <2>. QED BY <2>1, <2>2
<1>. QED BY <1>6, <1>8, <1>9 DEF PanelInv

(* A handler that hears of its request keeps the invariant of the panel.    *)
LEMMA HearKeepsPanel ==
  ASSUME PanelInv, NEW n \in Jobs, HearJob(n)
  PROVE  PanelInv'
<1>0. job[n] \in JobType /\ running \in BOOLEAN /\ JobFine(n)
  BY DEF PanelInv, PanelType
<1>1. CASE HearStarted(n) \/ HearCancelled(n)
  BY <1>1, GoOnKeeps
<1>2. CASE HearFirst(n) \/ HearLatest(n)
  <2>1. /\ Over(n) /\ job[n].awaits \in Reads /\ job[n].answer = "ok" /\ run' = job[n].run
        /\ running' \in BOOLEAN /\ report' = report /\ UNCHANGED <<sim, latest, overlapped, errors>>
    BY <1>0, <1>2 DEF HearFirst, HearLatest, Got, Reads, marks
  <2>2. job[n].awaits # "none"
    BY <2>1 DEF Reads
  <2>. QED BY <2>1, <2>2, EndKeeps
<1>3. CASE HearPoll(n)
  <2>1. /\ Over(n) /\ job[n].awaits \in Reads /\ job[n].answer = "ok" /\ run' = job[n].run
        /\ running' \in BOOLEAN /\ report' \in {report, job[n].run.id}
        /\ UNCHANGED <<sim, latest, overlapped, errors>>
    BY <1>0, <1>3 DEF HearPoll, Got, Reads, marks
  <2>2. job[n].awaits # "none"
    BY <2>1 DEF Reads
  <2>. QED BY <2>1, <2>2, EndKeeps
<1>4. CASE HearFailure(n)
  <2>1. /\ Over(n) /\ run' = run /\ report' = report /\ running' \in BOOLEAN
        /\ UNCHANGED <<sim, latest, overlapped, errors>>
    BY <1>0, <1>4 DEF HearFailure, marks
  <2>2. job[n].awaits # "none"
    BY <1>0, <1>4 DEF HearFailure, JobFine
  <2>. QED BY <2>1, <2>2, EndKeeps
<1>. QED BY <1>1, <1>2, <1>3, <1>4 DEF HearJob

(* A failed call, or an answer lost.                                        *)
LEMMA FailKeeps ==
  ASSUME PanelInv, NEW n \in Jobs, JobFails(n)
  PROVE  PanelInv'
<1>0. /\ job \in [Jobs -> JobType] /\ job[n] \in JobType /\ PanelType
      /\ JobFine(n) /\ (~overlapped => OneRun) /\ MaxErrors \in Nat
  BY PanelConstants DEF PanelInv, PanelType
<1>1. /\ job[n].awaits # "none" /\ job' = [job EXCEPT ![n].answer = "failed"]
      /\ UNCHANGED <<sim, run, running, report, latest, overlapped>>
      /\ errors < MaxErrors /\ errors' = errors + 1
  BY DEF JobFails, Error, view
<1> DEFINE h == [job[n] EXCEPT !.answer = "failed"]
<1>2. h \in JobType /\ h.awaits = job[n].awaits /\ h.answer = "failed" /\ h.id = job[n].id
  BY <1>0 DEF JobType
<1>3. job' = [job EXCEPT ![n] = h]
  BY <1>1
<1> HIDE DEF h
<1>4. h.awaits \in Reads \cup {"delete"} => h.id \in Runs
  BY <1>0, <1>2 DEF JobFine
<1>5. job' \in [Jobs -> JobType] /\ \A k \in Jobs : JobFine(k)'
  BY <1>1, <1>2, <1>3, <1>4, OneJob
<1>6. errors' \in 0..MaxErrors
  BY <1>0, <1>1 DEF PanelType
<1>7. PanelType'
  BY <1>0, <1>1, <1>5, <1>6 DEF PanelType
<1>8. ~overlapped' => OneRun'
  BY <1>0, <1>1, <1>2, <1>3, AnswerKeepsOneRun
<1>. QED BY <1>5, <1>7, <1>8 DEF PanelInv

(* What a click, or the timer, starts.                                      *)
LEMMA LaunchShape ==
  ASSUME job \in [Jobs -> JobType], NEW kind \in {"start", "poll", "cancel"}, NEW id \in 0..MaxRuns,
         NEW request \in {"post", "poll", "delete"}, Launch(kind, id, request)
  PROVE  \E n \in Jobs : \E h \in JobType :
           /\ job[n] = Free /\ job' = [job EXCEPT ![n] = h]
           /\ h.kind = kind /\ h.id = id /\ h.awaits = request /\ h.answer = "none"
<1>1. PICK n \in Jobs :
        job[n] = Free /\ job' = [job EXCEPT ![n] = [Free EXCEPT !.kind = kind, !.id = id, !.awaits = request]]
  BY DEF Launch
<1> DEFINE h == [Free EXCEPT !.kind = kind, !.id = id, !.awaits = request]
<1>2. h \in JobType /\ h.kind = kind /\ h.id = id /\ h.awaits = request /\ h.answer = "none"
  BY PanelConstants DEF JobType, Free
<1>3. job' = [job EXCEPT ![n] = h]
  BY <1>1
<1> HIDE DEF h
<1>. QED BY <1>1, <1>2, <1>3

(* A click on Run keeps the invariant of the panel.                         *)
LEMMA ClickRunKeeps == PanelInv /\ ClickRun => PanelInv'
<1> SUFFICES ASSUME PanelInv, ClickRun PROVE PanelInv'
  OBVIOUS
<1>0. job \in [Jobs -> JobType] /\ PanelType
  BY DEF PanelInv, PanelType
<1>1. PICK n \in Jobs : \E h \in JobType :
        /\ job[n] = Free /\ job' = [job EXCEPT ![n] = h]
        /\ h.kind = "start" /\ h.id = 0 /\ h.awaits = "post" /\ h.answer = "none"
  BY <1>0, LaunchShape, PanelConstants DEF ClickRun
<1>2. PICK h \in JobType :
        /\ job[n] = Free /\ job' = [job EXCEPT ![n] = h]
        /\ h.kind = "start" /\ h.id = 0 /\ h.awaits = "post" /\ h.answer = "none"
  BY <1>1
<1>3. job' \in [Jobs -> JobType] /\ \A k \in Jobs : JobFine(k)'
  BY <1>2, OneJob DEF Reads
<1>4. job'[n] = h /\ \A k \in Jobs : k # n => job'[k] = job[k]
  BY <1>0, <1>2
<1>5. /\ run' = Nothing /\ report' = 0 /\ running' = TRUE /\ UNCHANGED <<sim, latest, errors>>
      /\ overlapped' = (overlapped \/ \E k \in Jobs : job[k] # Free)
  BY DEF ClickRun
<1>6. PanelType'
  BY <1>0, <1>3, <1>5, PanelConstants DEF PanelType, Twin!RunStatus
<1>7. ASSUME ~overlapped' PROVE OneRun'
  <2>1. \A k \in Jobs : job[k] = Free
    BY <1>5, <1>7
  <2>2. \A k \in Jobs : k # n => job'[k] = Free
    BY <1>4, <2>1
  <2>. QED BY <1>2, <1>4, <1>5, <2>2, PanelConstants DEF OneRun, Starting, Reads
<1>. QED BY <1>3, <1>6, <1>7 DEF PanelInv

(* So do the timer and a click on Cancel: both ask about the run shown.     *)
LEMMA AskKeeps == PanelInv /\ (TimerFires \/ ClickCancel) => PanelInv'
<1> SUFFICES ASSUME PanelInv, TimerFires \/ ClickCancel PROVE PanelInv'
  OBVIOUS
<1>0. job \in [Jobs -> JobType] /\ PanelType /\ run \in Description
  BY DEF PanelInv, PanelType
<1>1. run.id \in Runs
  BY <1>0, PanelConstants DEF TimerFires, ClickCancel, PanelType
<1>2. PICK kind \in {"poll", "cancel"}, request \in {"poll", "delete"} : Launch(kind, run.id, request)
  BY DEF TimerFires, ClickCancel
<1>3. UNCHANGED <<sim, run, running, report, latest, overlapped, errors>>
  BY DEF TimerFires, ClickCancel, view, marks
<1>4. PICK n \in Jobs, h \in JobType :
        /\ job[n] = Free /\ job' = [job EXCEPT ![n] = h]
        /\ h.kind = kind /\ h.id = run.id /\ h.awaits = request /\ h.answer = "none"
  <2>1. run.id \in 0..MaxRuns /\ kind \in {"start", "poll", "cancel"}
        /\ request \in {"post", "poll", "delete"}
    BY <1>1, PanelConstants
  <2>2. PICK id \in 0..MaxRuns : id = run.id
    BY <2>1
  <2>. QED BY <1>0, <1>2, <2>1, <2>2, LaunchShape
<1>5. job' \in [Jobs -> JobType] /\ \A k \in Jobs : JobFine(k)'
  BY <1>1, <1>4, OneJob
<1>6. PanelType'
  BY <1>0, <1>3, <1>5 DEF PanelType
<1>7. ASSUME ~overlapped' PROVE OneRun'
  <2>1. OneRun
    BY <1>3, <1>7 DEF PanelInv
  <2>2. run.id = latest /\ run # Nothing
    BY <1>1, <2>1, PanelConstants DEF OneRun
  <2>3. \A k \in Jobs : ~Starting(k)
    BY <2>1, <2>2 DEF OneRun
  <2>. QED BY <1>3, <1>4, <2>1, <2>2, <2>3, AskKeepsOneRun DEF Reads
<1>. QED BY <1>5, <1>6, <1>7 DEF PanelInv

(* The invariant is inductive.                                              *)
LEMMA PanelStep == PanelInv /\ [PanelNext]_panelVars => PanelInv'
<1> SUFFICES ASSUME PanelInv, [PanelNext]_panelVars PROVE PanelInv'
  OBVIOUS
<1>0. PanelType /\ MaxErrors \in Nat
  BY PanelConstants DEF PanelInv
<1>1. ASSUME NEW n \in Jobs, ServeJob(n) PROVE PanelInv'
  BY <1>1, ServeKeeps
<1>2. ASSUME NEW n \in Jobs, HearJob(n) PROVE PanelInv'
  BY <1>2, HearKeepsPanel
<1>3. ASSUME NEW n \in Jobs, JobFails(n) PROVE PanelInv'
  BY <1>3, FailKeeps
<1>4. ASSUME NEW r \in Runs, Finish(r) PROVE PanelInv'
  <2>1. sim' \in [Runs -> SimType]
    BY <1>0, <1>4, SimKept DEF Finish, PanelType
  <2>. QED BY <1>0, <1>4, <2>1, PanelUntouched DEF Finish, view, marks, PanelType
<1>5. ASSUME TwinRestarts PROVE PanelInv'
  <2>1. [Twin!Absent EXCEPT !.status = "gone"] \in SimType
    BY DEF Twin!Absent, SimType, SimStatuses
  <2>2. sim' \in [Runs -> SimType]
    BY <1>0, <1>5, <2>1 DEF TwinRestarts, PanelType
  <2>3. errors' \in 0..MaxErrors
    BY <1>0, <1>5 DEF TwinRestarts, Error, PanelType
  <2>. QED BY <1>5, <2>2, <2>3, PanelUntouched DEF TwinRestarts, view
<1>6. ASSUME UNCHANGED panelVars PROVE PanelInv'
  BY <1>0, <1>6, PanelUntouched DEF panelVars, PanelType
<1>. QED BY <1>1, <1>2, <1>3, <1>4, <1>5, <1>6, ClickRunKeeps, AskKeeps DEF PanelNext

(* The invariant of the panel always holds.                                 *)
LEMMA PanelAlways == PanelSpec => []PanelInv
  BY PanelInitially, PanelStep, PTL DEF PanelSpec

(* Every variable of the simulation panel keeps its type.                   *)
THEOREM PanelTypeCorrect == PanelSpec => []PanelTypeOK
<1>1. PanelInv => PanelTypeOK
  <2> SUFFICES ASSUME PanelInv PROVE PanelTypeOK
    OBVIOUS
  <2>1. \A r \in Runs : sim[r].status \in Twin!RunStatus \cup {"gone"}
    BY DEF PanelInv, PanelType, SimType, SimStatuses
  <2>2. \A n \in Jobs : /\ job[n].kind \in {"free", "start", "poll", "cancel"}
                        /\ job[n].answer \in {"none", "ok", "failed"}
    BY DEF PanelInv, PanelType, JobType
  <2>3. run.id \in 0..MaxRuns /\ run.status \in Twin!RunStatus
    BY DEF PanelInv, PanelType, Description
  <2>. QED BY <2>1, <2>2, <2>3 DEF PanelInv, PanelType, PanelTypeOK
<1>. QED BY <1>1, PanelAlways, PTL

(* The panel shows the run it started last, for any number of runs, of       *)
(* handlers under way at once and of failing calls.                         *)
THEOREM PanelFollows == PanelSpec => []FollowsItsRun
<1>1. PanelInv => FollowsItsRun
  BY DEF PanelInv, OneRun, FollowsItsRun
<1>. QED BY <1>1, PanelAlways, PTL

=============================================================================
