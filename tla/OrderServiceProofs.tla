------------------------- MODULE OrderServiceProofs -------------------------
(***************************************************************************)
(* Theorems about the order service, for every set of handlers, every body *)
(* and every combination of faults.  One inductive invariant carries them: *)
(* IInv adds to the types what each handler's program counter says about   *)
(* the row, the charge and the lines of the order it works on.             *)
(***************************************************************************)
EXTENDS OrderService, Sums, TLAPS

(* A checkout's row exists once everything is reserved and charged; what   *)
(* is reserved is a prefix of a body that passed validation.               *)
CheckoutInv(r) ==
  /\ pc[r] \in {"idle", "reserving", "charging", "committing", "publishing",
                "releasing", "done", "crashed"}
  /\ reserved[r] <= Len(Lines(r))
  /\ pc[r] = "reserving" => reserved[r] < Len(Lines(r))
  /\ pc[r] = "idle" => reserved[r] = 0
  /\ pc[r] \in {"reserving", "charging", "committing"} \/ reserved[r] > 0 =>
       ValidBody(body[r])
  /\ pc[r] \in {"charging", "committing"} => reserved[r] = Len(Lines(r))
  /\ pc[r] = "committing" => r \in charged
  /\ pc[r] \in {"idle", "reserving", "charging", "committing"} => status[r] = "none"
  /\ pc[r] = "publishing" => status[r] # "none"
  /\ pc[r] = "releasing" => status[r] = "none"
  /\ releasing[r] \subseteq 1..reserved[r]
  /\ releasing[r] # {} => pc[r] = "releasing"
  /\ status[r] # "none" =>
       /\ r \in charged
       /\ reserved[r] = Len(Lines(r))
       /\ ValidBody(body[r])
  /\ status[r] \notin {"payment_pending", "payment_failed"}

(* A cancellation that answers 200 owns a cancelled row.                   *)
CancelInv(c) ==
  /\ pc[c] \in {"idle", "eligible", "releasing", "done", "crashed"}
  /\ pc[c] \in {"idle", "eligible"} => reply[c] = 0
  /\ releasing[c] \subseteq DOMAIN Lines(target[c])
  /\ releasing[c] # {} => reply[c] = 200
  /\ reply[c] = 200 => status[target[c]] = "cancelled"

(* What an update read allows what it asks for.                            *)
UpdateInv(a) ==
  /\ pc[a] \in {"idle", "updating", "updated", "done", "crashed"}
  /\ pc[a] = "updating" => MayAdvance(read[a], wanted[a])
  /\ pc[a] \in {"updating", "updated"} => wanted[a] # "none"

IInv ==
  /\ TypeOK
  /\ \A r \in Checkouts : CheckoutInv(r)
  /\ \A c \in Cancels : CancelInv(c)
  /\ \A a \in Updates : UpdateInv(a)
  /\ SingleWinner

-----------------------------------------------------------------------------

(* The line a valid body has at a position: an item and a positive count.  *)
LEMMA LineType ==
  ASSUME TypeOK, NEW r \in Checkouts, NEW k \in DOMAIN Lines(r)
  PROVE  /\ Lines(r)[k] \in Line
         /\ Lines(r)[k].item \in Items
         /\ Lines(r)[k].quantity \in Int
         /\ ValidBody(body[r]) => Lines(r)[k].quantity > 0
<1>1. body[r] \in Body
  BY InputAssumption DEF TypeOK
<1>2. Lines(r) \in Seq(Line)
  BY <1>1 DEF Body, Lines
<1>3. Lines(r)[k] \in Line
  BY <1>2
<1>4. QED
  BY <1>3 DEF Line, ValidBody, Lines

(* The lines of a body are a finite sequence.                              *)
LEMMA LenType ==
  ASSUME TypeOK, NEW r \in Checkouts
  PROVE  Len(Lines(r)) \in Nat /\ DOMAIN Lines(r) = 1..Len(Lines(r))
<1>1. Lines(r) \in Seq(Line)
  BY InputAssumption DEF TypeOK, Body, Lines
<1>2. QED
  BY <1>1

(* The scripts keep a level a level.                                       *)
LEMMA ScriptsType ==
  ASSUME NEW level \in Levels, NEW quantity \in Int, quantity > 0
  PROVE  /\ AfterDecrement(level, quantity) \in Levels
         /\ AfterRelease(level, quantity) \in Levels
BY DEF Levels, NoKey, AfterDecrement, AfterRelease, DecrementCode, SUCCESS,
       NOT_FOUND, INSUFFICIENT

-----------------------------------------------------------------------------
(* Every step but a crash and an administrator's write belongs to one      *)
(* handler: it leaves the program counters and locals of the others alone, *)
(* creates no row but its own, and changes no cancelled row.               *)
OnlyHandler(h) ==
  /\ body' = body /\ target' = target /\ wanted' = wanted
  /\ \A g \in Handlers : g # h => pc'[g] = pc[g] /\ reply'[g] = reply[g]
  /\ \A g \in Releasers : g # h => releasing'[g] = releasing[g]
  /\ \A r \in Checkouts : r # h => reserved'[r] = reserved[r]
  /\ \A a \in Updates : a # h => read'[a] = read[a]
  /\ charged \subseteq charged'

RowsKept(h) ==
  \A r \in Checkouts :
    /\ r # h => (status[r] = "none" <=> status'[r] = "none")
    /\ status[r] = "cancelled" => status'[r] = "cancelled"
    /\ status'[r] \notin {"payment_pending", "payment_failed"}

(* The handler that steps keeps its own invariant.                         *)
OwnInv(h) ==
  /\ h \in Checkouts => CheckoutInv(h)
  /\ h \in Cancels => CancelInv(h)
  /\ h \in Updates => UpdateInv(h)

(* It wins a cancellation only if nobody has won that order yet.           *)
WinsAlone(h) ==
  h \in Cancels /\ reply'[h] = 200 =>
    \A c \in Cancels : c # h /\ target[c] = target[h] => reply[c] # 200

(* If its own invariant survives the step, so does everybody else's.       *)
LEMMA HandlerStep ==
  ASSUME IInv, TypeOK', NEW h \in Handlers,
         OnlyHandler(h), RowsKept(h), OwnInv(h)', WinsAlone(h)
  PROVE  IInv'
<1> USE DEF OnlyHandler, Handlers, Releasers
<1>1. ASSUME NEW r \in Checkouts, r # h PROVE CheckoutInv(r)'
  BY <1>1 DEF IInv, CheckoutInv, RowsKept, Lines
<1>2. ASSUME NEW c \in Cancels, c # h PROVE CancelInv(c)'
  <2>1. target[c] \in Checkouts
    BY DEF IInv, TypeOK
  <2>2. QED
    BY <1>2, <2>1 DEF IInv, CancelInv, RowsKept, Lines
<1>3. ASSUME NEW a \in Updates, a # h PROVE UpdateInv(a)'
  BY <1>3 DEF IInv, UpdateInv, MayAdvance
<1>4. SingleWinner'
  BY DEF IInv, SingleWinner, WinsAlone
<1>5. QED
  BY <1>1, <1>2, <1>3, <1>4 DEF IInv, OwnInv

(* No handler has started: the invariant holds.                            *)
LEMMA InitIInv == Init => IInv
<1> SUFFICES ASSUME Init PROVE IInv
  OBVIOUS
<1>1. TypeOK
  <2>1. \A r \in Checkouts : Len(Lines(r)) \in Nat
    BY InputAssumption DEF Init, Body, Lines
  <2>2. supplied \in [Items -> Int]
    BY StockAssumption DEF Init, Levels, NoKey
  <2>3. QED
    BY <2>1, <2>2, StockAssumption, InputAssumption DEF Init, TypeOK, Handlers, Releasers, Statuses, Places, Codes
<1>2. \A r \in Checkouts : CheckoutInv(r)
  BY <1>1, LenType DEF Init, CheckoutInv, Handlers, Releasers
<1>3. \A c \in Cancels : CancelInv(c)
  BY DEF Init, CancelInv, Handlers, Releasers
<1>4. \A a \in Updates : UpdateInv(a)
  BY DEF Init, UpdateInv, Handlers
<1>5. SingleWinner
  BY DEF Init, SingleWinner, Handlers, Releasers
<1>6. QED
  BY <1>1, <1>2, <1>3, <1>4, <1>5 DEF IInv

(* The steps a handler's program counter and reply take.                   *)
LEMMA AnswerType ==
  ASSUME TypeOK, NEW h \in Handlers, NEW code \in Codes, Answer(h, code)
  PROVE  pc' \in [Handlers -> Places] /\ reply' \in [Handlers -> Codes]
<1>1. "done" \in Places
  BY DEF Places
<1>2. QED
  BY <1>1 DEF Answer, TypeOK

(* Moving on to a place keeps the program counters' type.                  *)
LEMMA MoveType ==
  ASSUME TypeOK, NEW h \in Handlers, NEW place \in Places, pc' = [pc EXCEPT ![h] = place]
  PROVE  pc' \in [Handlers -> Places]
BY DEF TypeOK

(* Turning lines over to releaseAll keeps the types.                       *)
LEMMA StartReleaseType ==
  ASSUME TypeOK, NEW h \in Releasers, NEW lines \in SUBSET Nat, NEW code \in Codes,
         StartRelease(h, lines, code)
  PROVE  /\ pc' \in [Handlers -> Places] /\ reply' \in [Handlers -> Codes]
         /\ releasing' \in [Releasers -> SUBSET Nat]
<1>1. {"done", "releasing"} \subseteq Places
  BY DEF Places
<1>2. QED
  BY <1>1 DEF StartRelease, TypeOK, Handlers

(* The administrator's transitions are edges of the status graph.          *)
LEMMA AdvanceEdge ==
  ASSUME NEW from, NEW to, MayAdvance(from, to)
  PROVE  /\ from \in {"placed", "preparing", "ready"}
         /\ to \in {"preparing", "ready", "seat-delivered"}
         /\ <<from, to>> \in StatusEdges
BY DEF MayAdvance, ADMIN_STATUS_TRANSITIONS, StatusEdges

(* What every step may use of IInv without opening it.                     *)
LEMMA Facts ==
  ASSUME IInv
  PROVE  /\ TypeOK
         /\ pc \in [Handlers -> Places] /\ reply \in [Handlers -> Codes]
         /\ Checkouts \subseteq Releasers /\ Cancels \subseteq Releasers
         /\ Releasers \subseteq Handlers /\ Updates \subseteq Handlers
         /\ Codes = {0, 200, 201, 400, 402, 404, 409, 500}
         /\ {"reserving", "charging", "committing", "publishing", "eligible", "updating",
             "updated"} \subseteq Places
         /\ \A r \in Checkouts : Rollback(r) \in SUBSET Nat /\ DOMAIN Lines(r) \in SUBSET Nat
         /\ \A c \in Cancels \cup Updates : target[c] \in Checkouts
BY LenType DEF IInv, TypeOK, Handlers, Releasers, Places, Codes, Rollback

(* A script run on the item of a valid body's line leaves every level one. *)
LEMMA ShelfType ==
  ASSUME TypeOK, NEW r \in Checkouts, NEW k \in DOMAIN Lines(r), ValidBody(body[r])
  PROVE  /\ [stock EXCEPT ![Lines(r)[k].item] = AfterDecrement(@, Lines(r)[k].quantity)]
              \in [Items -> Levels]
         /\ [stock EXCEPT ![Lines(r)[k].item] = AfterRelease(@, Lines(r)[k].quantity)]
              \in [Items -> Levels]
<1>1. stock \in [Items -> Levels]
  BY DEF TypeOK
<1>2. Lines(r)[k].item \in Items /\ Lines(r)[k].quantity \in Int /\ Lines(r)[k].quantity > 0
  BY LineType
<1>3. stock[Lines(r)[k].item] \in Levels
  BY <1>1, <1>2
<1>4. QED
  BY <1>1, <1>2, <1>3, ScriptsType

-----------------------------------------------------------------------------
(* Each action preserves the invariant.                                    *)

(* A checkout is validated and starts to reserve.                          *)
LEMMA PlaceOrderStep == ASSUME IInv, NEW r \in Checkouts, PlaceOrder(r) PROVE IInv'
<1> USE HandlerAssumption DEF PlaceOrder, inputs, shelf, orders, jobs, locals
<1>1. pc' \in [Handlers -> Places] /\ reply' \in [Handlers -> Codes]
  BY Facts, AnswerType, MoveType
<1>2. TypeOK'
  BY <1>1 DEF IInv, TypeOK
<1>3. OnlyHandler(r)
  BY DEF OnlyHandler, IInv, TypeOK, Handlers, Releasers, Answer
<1>4. RowsKept(r)
  BY DEF RowsKept, IInv, TypeOK, CheckoutInv
<1>5. OwnInv(r)'
  BY LenType DEF OwnInv, CheckoutInv, IInv, TypeOK, Handlers, Releasers, Lines, ValidBody, Answer
<1>6. WinsAlone(r)
  BY DEF WinsAlone, IInv, TypeOK, CancelInv, Handlers, Releasers, Answer
<1>7. QED
  BY <1>2, <1>3, <1>4, <1>5, <1>6, HandlerStep DEF Handlers, Releasers

(* An approved charge is on record before the commit.                      *)
LEMMA ApproveStep == ASSUME IInv, NEW r \in Checkouts, Approve(r) PROVE IInv'
<1> USE HandlerAssumption DEF Approve, inputs, shelf, orders, jobs, locals
<1>1. pc' \in [Handlers -> Places] /\ reply' \in [Handlers -> Codes]
  BY Facts, MoveType
<1>2. TypeOK'
  BY <1>1 DEF IInv, TypeOK
<1>3. OnlyHandler(r)
  BY DEF OnlyHandler, IInv, TypeOK, Handlers, Releasers
<1>4. RowsKept(r)
  BY DEF RowsKept, IInv, TypeOK, CheckoutInv
<1>5. OwnInv(r)'
  BY LenType DEF OwnInv, CheckoutInv, IInv, TypeOK, Handlers, Releasers, Lines
<1>6. WinsAlone(r)
  BY DEF WinsAlone, IInv, TypeOK, CancelInv, Handlers, Releasers
<1>7. QED
  BY <1>2, <1>3, <1>4, <1>5, <1>6, HandlerStep DEF Handlers, Releasers

(* A declined charge rolls back the reserved prefix.                       *)
LEMMA DeclineStep == ASSUME IInv, NEW r \in Checkouts, Decline(r) PROVE IInv'
<1> USE HandlerAssumption DEF Decline, inputs, shelf, orders, jobs, locals
<1>1. pc' \in [Handlers -> Places] /\ reply' \in [Handlers -> Codes] /\ releasing' \in [Releasers -> SUBSET Nat]
  <2>1. /\ TypeOK /\ r \in Releasers /\ Rollback(r) \in SUBSET Nat /\ 402 \in Codes
        /\ StartRelease(r, Rollback(r), 402)
    BY Facts DEF Decline
  <2>2. QED
    BY <2>1, StartReleaseType
<1>2. TypeOK'
  BY <1>1 DEF IInv, TypeOK
<1>3. OnlyHandler(r)
  BY DEF OnlyHandler, IInv, TypeOK, Handlers, Releasers, StartRelease, Rollback
<1>4. RowsKept(r)
  BY DEF RowsKept, IInv, TypeOK, CheckoutInv
<1>5. OwnInv(r)'
  BY LenType DEF OwnInv, CheckoutInv, IInv, TypeOK, Handlers, Releasers, Lines, StartRelease, Rollback
<1>6. WinsAlone(r)
  BY DEF WinsAlone, IInv, TypeOK, CancelInv, Handlers, Releasers, StartRelease, Rollback
<1>7. QED
  BY <1>2, <1>3, <1>4, <1>5, <1>6, HandlerStep DEF Handlers, Releasers

(* A gateway that throws rolls back the same prefix.                       *)
LEMMA GatewayThrowsStep == ASSUME IInv, NEW r \in Checkouts, GatewayThrows(r) PROVE IInv'
<1> USE HandlerAssumption DEF GatewayThrows, inputs, shelf, orders, jobs, locals
<1>1. pc' \in [Handlers -> Places] /\ reply' \in [Handlers -> Codes] /\ releasing' \in [Releasers -> SUBSET Nat]
  <2>1. /\ TypeOK /\ r \in Releasers /\ Rollback(r) \in SUBSET Nat /\ 500 \in Codes
        /\ StartRelease(r, Rollback(r), 500)
    BY Facts DEF GatewayThrows
  <2>2. QED
    BY ZenonT(40), <2>1, StartReleaseType
<1>2. TypeOK'
  BY <1>1 DEF IInv, TypeOK
<1>3. OnlyHandler(r)
  BY DEF OnlyHandler, IInv, TypeOK, Handlers, Releasers, StartRelease, Rollback
<1>4. RowsKept(r)
  BY DEF RowsKept, IInv, TypeOK, CheckoutInv
<1>5. OwnInv(r)'
  BY LenType DEF OwnInv, CheckoutInv, IInv, TypeOK, Handlers, Releasers, Lines, StartRelease, Rollback
<1>6. WinsAlone(r)
  BY DEF WinsAlone, IInv, TypeOK, CancelInv, Handlers, Releasers, StartRelease, Rollback
<1>7. QED
  BY <1>2, <1>3, <1>4, <1>5, <1>6, HandlerStep DEF Handlers, Releasers

(* The row appears for a reserved and charged checkout.                    *)
LEMMA CreateOrderStep == ASSUME IInv, NEW r \in Checkouts, CreateOrder(r) PROVE IInv'
<1> USE HandlerAssumption DEF CreateOrder, inputs, shelf, orders, jobs, locals
<1>1. pc' \in [Handlers -> Places] /\ reply' \in [Handlers -> Codes]
  BY Facts, MoveType
<1>2. TypeOK'
  BY <1>1 DEF IInv, TypeOK, Statuses
<1>3. OnlyHandler(r)
  BY DEF OnlyHandler, IInv, TypeOK, Handlers, Releasers
<1>4. RowsKept(r)
  BY DEF RowsKept, IInv, TypeOK, CheckoutInv
<1>5. OwnInv(r)'
  BY LenType DEF OwnInv, CheckoutInv, IInv, TypeOK, Handlers, Releasers, Lines
<1>6. WinsAlone(r)
  BY DEF WinsAlone, IInv, TypeOK, CancelInv, Handlers, Releasers
<1>7. QED
  BY <1>2, <1>3, <1>4, <1>5, <1>6, HandlerStep DEF Handlers, Releasers

(* A failed commit leaves a row that is paid for, or none.                 *)
LEMMA CreateOrderThrowsStep == ASSUME IInv, NEW r \in Checkouts, CreateOrderThrows(r) PROVE IInv'
<1> USE HandlerAssumption DEF CreateOrderThrows, inputs, shelf, orders, jobs, locals
<1>1. pc' \in [Handlers -> Places] /\ reply' \in [Handlers -> Codes]
  BY Facts, AnswerType
<1>2. TypeOK'
  BY <1>1 DEF IInv, TypeOK, Statuses
<1>3. OnlyHandler(r)
  BY DEF OnlyHandler, IInv, TypeOK, Handlers, Releasers, Answer
<1>4. RowsKept(r)
  BY DEF RowsKept, IInv, TypeOK, CheckoutInv
<1>5. OwnInv(r)'
  BY LenType DEF OwnInv, CheckoutInv, IInv, TypeOK, Handlers, Releasers, Lines, Answer
<1>6. WinsAlone(r)
  BY DEF WinsAlone, IInv, TypeOK, CancelInv, Handlers, Releasers, Answer
<1>7. QED
  BY <1>2, <1>3, <1>4, <1>5, <1>6, HandlerStep DEF Handlers, Releasers

(* A settled add answers the patron or changes no handler.                 *)
LEMMA AddJobStep == ASSUME IInv, NEW r \in Checkouts, NEW q \in OrderPlacedQueues, AddJob(r, q) PROVE IInv'
<1> USE HandlerAssumption DEF AddJob, inputs, shelf, orders, jobs, locals
<1>1. pc' \in [Handlers -> Places] /\ reply' \in [Handlers -> Codes]
  BY Facts, AnswerType
<1>2. TypeOK'
  BY <1>1 DEF IInv, TypeOK
<1>3. OnlyHandler(r)
  BY DEF OnlyHandler, IInv, TypeOK, Handlers, Releasers, Answer, LastAdd
<1>4. RowsKept(r)
  BY DEF RowsKept, IInv, TypeOK, CheckoutInv
<1>5. OwnInv(r)'
  BY LenType DEF OwnInv, CheckoutInv, IInv, TypeOK, Handlers, Releasers, Lines, Answer, LastAdd
<1>6. WinsAlone(r)
  BY DEF WinsAlone, IInv, TypeOK, CancelInv, Handlers, Releasers, Answer, LastAdd
<1>7. QED
  BY <1>2, <1>3, <1>4, <1>5, <1>6, HandlerStep DEF Handlers, Releasers

(* A rejected add answers the patron just the same.                        *)
LEMMA AddRejectsStep ==
  ASSUME IInv, NEW r \in Checkouts, NEW q \in OrderPlacedQueues, AddRejects(r, q)
  PROVE  IInv'
<1> USE HandlerAssumption DEF AddRejects, inputs, shelf, orders, jobs, locals
<1>1. pc' \in [Handlers -> Places] /\ reply' \in [Handlers -> Codes]
  BY Facts, AnswerType
<1>2. TypeOK'
  BY <1>1 DEF IInv, TypeOK
<1>3. OnlyHandler(r)
  BY DEF OnlyHandler, IInv, TypeOK, Handlers, Releasers, Answer
<1>4. RowsKept(r)
  BY DEF RowsKept, IInv, TypeOK, CheckoutInv
<1>5. OwnInv(r)'
  BY LenType DEF OwnInv, CheckoutInv, IInv, TypeOK, Handlers, Releasers, Lines, Answer
<1>6. WinsAlone(r)
  BY DEF WinsAlone, IInv, TypeOK, CancelInv, Handlers, Releasers, Answer
<1>7. QED
  BY <1>2, <1>3, <1>4, <1>5, <1>6, HandlerStep DEF Handlers, Releasers

(* A cancellation's first read decides a rejection or goes on.             *)
LEMMA ReadForCancelStep == ASSUME IInv, NEW c \in Cancels, ReadForCancel(c) PROVE IInv'
<1> USE HandlerAssumption DEF ReadForCancel, inputs, shelf, orders, jobs, locals
<1>1. pc' \in [Handlers -> Places] /\ reply' \in [Handlers -> Codes]
  BY Facts, AnswerType, MoveType
<1>2. TypeOK'
  BY <1>1 DEF IInv, TypeOK
<1>3. OnlyHandler(c)
  BY DEF OnlyHandler, IInv, TypeOK, Handlers, Releasers, Answer
<1>4. RowsKept(c)
  BY DEF RowsKept, IInv, TypeOK, CheckoutInv
<1>5. OwnInv(c)'
  BY LenType DEF OwnInv, CancelInv, IInv, TypeOK, Handlers, Releasers, Lines, Answer
<1>6. WinsAlone(c)
  BY DEF WinsAlone, IInv, TypeOK, CancelInv, Handlers, Releasers, Answer
<1>7. QED
  BY <1>2, <1>3, <1>4, <1>5, <1>6, HandlerStep DEF Handlers, Releasers

(* Only a row still cancellable is won, by one cancellation.               *)
LEMMA CancelStep == ASSUME IInv, NEW c \in Cancels, CancelIfEligible(c) PROVE IInv'
<1> USE HandlerAssumption DEF CancelIfEligible, inputs, shelf, orders, jobs, locals
<1>1. pc' \in [Handlers -> Places] /\ reply' \in [Handlers -> Codes] /\ releasing' \in [Releasers -> SUBSET Nat]
  <2>1. CASE StartRelease(c, DOMAIN Lines(target[c]), 200)
    <3>1. /\ TypeOK /\ c \in Releasers /\ DOMAIN Lines(target[c]) \in SUBSET Nat
          /\ 200 \in Codes
      BY Facts
    <3>2. QED
      BY <2>1, <3>1, StartReleaseType
  <2>2. CASE Answer(c, 400) /\ UNCHANGED releasing
    BY <2>2, Facts, AnswerType DEF TypeOK
  <2>3. QED
    BY <2>1, <2>2 DEF CancelIfEligible
<1>2. TypeOK'
  BY <1>1 DEF IInv, TypeOK, Statuses
<1>3. OnlyHandler(c)
  BY DEF OnlyHandler, IInv, TypeOK, Handlers, Releasers, Answer, StartRelease, EligibleRow, CANCELLABLE_STATUSES
<1>4. RowsKept(c)
  BY DEF RowsKept, IInv, TypeOK, CheckoutInv, EligibleRow, CANCELLABLE_STATUSES
<1>5. OwnInv(c)'
  BY LenType DEF OwnInv, CancelInv, IInv, TypeOK, Handlers, Releasers, Lines, Answer, StartRelease, EligibleRow, CANCELLABLE_STATUSES
<1>6. WinsAlone(c)
  BY DEF WinsAlone, IInv, TypeOK, CancelInv, Handlers, Releasers, Answer, StartRelease, EligibleRow, CANCELLABLE_STATUSES
<1>7. QED
  BY <1>2, <1>3, <1>4, <1>5, <1>6, HandlerStep DEF Handlers, Releasers

(* A lost UPDATE may cancel the row, and wins nothing.                     *)
LEMMA CancelThrowsStep == ASSUME IInv, NEW c \in Cancels, CancelThrows(c) PROVE IInv'
<1> USE HandlerAssumption DEF CancelThrows, inputs, shelf, orders, jobs, locals
<1>1. pc' \in [Handlers -> Places] /\ reply' \in [Handlers -> Codes]
  BY Facts, AnswerType
<1>2. TypeOK'
  <2>1. status' \in [Checkouts -> Statuses \cup {"none"}]
    BY DEF IInv, TypeOK, Statuses
  <2>2. QED
    BY <1>1, <2>1 DEF IInv, TypeOK
<1>3. OnlyHandler(c)
  <2>1. \A h \in Handlers : h # c => pc'[h] = pc[h] /\ reply'[h] = reply[h]
    BY DEF IInv, TypeOK, Answer
  <2>3. QED
    BY <2>1 DEF OnlyHandler, IInv, TypeOK, Handlers, Releasers
<1>4. RowsKept(c)
  BY DEF RowsKept, IInv, TypeOK, CheckoutInv, EligibleRow, CANCELLABLE_STATUSES
<1>5. OwnInv(c)'
  <2>1. pc'[c] = "done" /\ reply'[c] = 500
    BY DEF IInv, TypeOK, Handlers, Releasers, Answer
  <2>2. releasing'[c] = {}
    BY DEF IInv, CancelInv
  <2>3. c \notin Checkouts /\ c \notin Updates
    BY DEF Releasers
  <2>4. QED
    BY <2>1, <2>2, <2>3 DEF OwnInv, CancelInv
<1>6. WinsAlone(c)
  BY DEF WinsAlone, IInv, TypeOK, CancelInv, Handlers, Releasers, Answer, EligibleRow, CANCELLABLE_STATUSES
<1>7. QED
  BY <1>2, <1>3, <1>4, <1>5, <1>6, HandlerStep DEF Handlers, Releasers

(* What an update read allows what it asks for.                            *)
LEMMA ReadForUpdateStep == ASSUME IInv, NEW a \in Updates, ReadForUpdate(a) PROVE IInv'
<1> USE HandlerAssumption DEF ReadForUpdate, inputs, shelf, orders, jobs, locals
<1>1. pc' \in [Handlers -> Places] /\ reply' \in [Handlers -> Codes]
  BY Facts, AnswerType, MoveType
<1>2. TypeOK'
  BY <1>1 DEF IInv, TypeOK
<1>3. OnlyHandler(a)
  BY DEF OnlyHandler, IInv, TypeOK, Handlers, Releasers, Answer
<1>4. RowsKept(a)
  BY DEF RowsKept, IInv, TypeOK, CheckoutInv
<1>5. OwnInv(a)'
  BY LenType DEF OwnInv, UpdateInv, IInv, TypeOK, Handlers, Releasers, Lines, Answer
<1>6. WinsAlone(a)
  BY DEF WinsAlone, IInv, TypeOK, CancelInv, Handlers, Releasers, Answer
<1>7. QED
  BY <1>2, <1>3, <1>4, <1>5, <1>6, HandlerStep DEF Handlers, Releasers

(* A conditional UPDATE never leaves a cancelled row.                      *)
LEMMA UpdateStatusStep == ASSUME IInv, NEW a \in Updates, UpdateStatus(a) PROVE IInv'
<1> USE HandlerAssumption DEF UpdateStatus, inputs, shelf, orders, jobs, locals
<1>1. pc' \in [Handlers -> Places] /\ reply' \in [Handlers -> Codes]
  BY Facts, AnswerType, MoveType
<1>2. TypeOK'
  BY <1>1, InputAssumption DEF IInv, TypeOK
<1>3. OnlyHandler(a)
  BY DEF OnlyHandler, IInv, TypeOK, Handlers, Releasers, Answer, ExpectedRow
<1>4. RowsKept(a)
  BY ZenonT(40), AdvanceEdge DEF RowsKept, IInv, TypeOK, CheckoutInv, ExpectedRow, UpdateInv
<1>5. OwnInv(a)'
  BY LenType DEF OwnInv, UpdateInv, IInv, TypeOK, Handlers, Releasers, Lines, Answer, ExpectedRow
<1>6. WinsAlone(a)
  BY DEF WinsAlone, IInv, TypeOK, CancelInv, Handlers, Releasers, Answer, ExpectedRow
<1>7. QED
  BY <1>2, <1>3, <1>4, <1>5, <1>6, HandlerStep DEF Handlers, Releasers

(* Nor does one whose answer is lost.                                      *)
LEMMA UpdateThrowsStep == ASSUME IInv, NEW a \in Updates, UpdateThrows(a) PROVE IInv'
<1> USE HandlerAssumption DEF UpdateThrows, inputs, shelf, orders, jobs, locals
<1>1. pc' \in [Handlers -> Places] /\ reply' \in [Handlers -> Codes]
  BY Facts, AnswerType, MoveType
<1>2. TypeOK'
  BY <1>1, InputAssumption DEF IInv, TypeOK
<1>3. OnlyHandler(a)
  BY DEF OnlyHandler, IInv, TypeOK, Handlers, Releasers, Answer, ExpectedRow
<1>4. RowsKept(a)
  BY ZenonT(40), AdvanceEdge DEF RowsKept, IInv, TypeOK, CheckoutInv, ExpectedRow, UpdateInv
<1>5. OwnInv(a)'
  BY LenType DEF OwnInv, UpdateInv, IInv, TypeOK, Handlers, Releasers, Lines, Answer, ExpectedRow
<1>6. WinsAlone(a)
  BY DEF WinsAlone, IInv, TypeOK, CancelInv, Handlers, Releasers, Answer, ExpectedRow
<1>7. QED
  BY <1>2, <1>3, <1>4, <1>5, <1>6, HandlerStep DEF Handlers, Releasers

(* An announcement changes no row.                                         *)
LEMMA AnnounceStep == ASSUME IInv, NEW a \in Updates, Announce(a) PROVE IInv'
<1> USE HandlerAssumption DEF Announce, inputs, shelf, orders, jobs, locals
<1>1. pc' \in [Handlers -> Places] /\ reply' \in [Handlers -> Codes]
  BY Facts, AnswerType
<1>2. TypeOK'
  <2>1. notifications' \in Seq([order : Checkouts, status : Statuses])
    <3> DEFINE Event == [order : Checkouts, status : Statuses]
               event == [order |-> target[a], status |-> wanted[a]]
    <3>1. event \in Event /\ notifications \in Seq(Event)
      BY InputAssumption DEF IInv, TypeOK, UpdateInv
    <3>2. notifications' \in {notifications, Append(notifications, event)}
      OBVIOUS
    <3> HIDE DEF Event, event
    <3>3. Append(notifications, event) \in Seq(Event)
      BY ONLY <3>1
    <3>4. notifications' \in Seq(Event)
      BY <3>1, <3>2, <3>3
    <3>5. QED
      BY <3>4 DEF Event
  <2>2. QED
    BY <1>1, <2>1 DEF IInv, TypeOK
<1>3. OnlyHandler(a)
  BY DEF OnlyHandler, IInv, TypeOK, Handlers, Releasers, Answer
<1>4. RowsKept(a)
  BY DEF RowsKept, IInv, TypeOK, CheckoutInv
<1>5. OwnInv(a)'
  BY LenType DEF OwnInv, UpdateInv, IInv, TypeOK, Handlers, Releasers, Lines, Answer
<1>6. WinsAlone(a)
  BY DEF WinsAlone, IInv, TypeOK, CancelInv, Handlers, Releasers, Answer
<1>7. QED
  BY <1>2, <1>3, <1>4, <1>5, <1>6, HandlerStep DEF Handlers, Releasers

(* The loop extends the reserved prefix, or rolls it back.                 *)
LEMMA ReserveStep == ASSUME IInv, NEW r \in Checkouts, Reserve(r) PROVE IInv'
<1> DEFINE k == reserved[r] + 1
           line == Lines(r)[k]
<1> USE HandlerAssumption DEF inputs, shelf, orders, jobs, locals
<1>1. TypeOK /\ CheckoutInv(r) /\ k \in DOMAIN Lines(r) /\ ValidBody(body[r])
  <2>1. TypeOK /\ CheckoutInv(r) /\ pc[r] = "reserving" /\ reserved[r] \in Nat
    BY DEF IInv, TypeOK, Reserve
  <2>2. QED
    BY <2>1, LenType DEF CheckoutInv
<1>2. stock' \in [Items -> Levels]
  BY <1>1, ShelfType DEF Reserve
<1>3. /\ pc' \in [Handlers -> Places] /\ reply' \in [Handlers -> Codes]
      /\ releasing' \in [Releasers -> SUBSET Nat] /\ reserved' \in [Checkouts -> Nat]
  <2>1. CASE StartRelease(r, Rollback(r), 409) /\ UNCHANGED reserved
    <3>1. TypeOK /\ r \in Releasers /\ Rollback(r) \in SUBSET Nat /\ 409 \in Codes
      BY Facts
    <3>2. /\ pc' \in [Handlers -> Places] /\ reply' \in [Handlers -> Codes]
          /\ releasing' \in [Releasers -> SUBSET Nat]
      BY <2>1, <3>1, StartReleaseType
    <3>3. reserved' \in [Checkouts -> Nat]
      BY <2>1, <3>1 DEF TypeOK
    <3>4. QED
      BY <3>2, <3>3
  <2>2. CASE /\ reserved' = [reserved EXCEPT ![r] = @ + 1]
             /\ pc' = [pc EXCEPT ![r] = IF reserved[r] + 1 = Len(Lines(r))
                                        THEN "charging" ELSE "reserving"]
             /\ UNCHANGED <<reply, releasing>>
    BY <2>2, Facts, MoveType DEF TypeOK
  <2>3. QED
    BY <2>1, <2>2 DEF Reserve
<1>4. TypeOK'
  BY <1>1, <1>2, <1>3 DEF TypeOK, Reserve
<1>5. OnlyHandler(r)
  BY Facts DEF OnlyHandler, TypeOK, Releasers, Reserve, StartRelease
<1>6. RowsKept(r)
  BY DEF RowsKept, IInv, CheckoutInv, Reserve
<1>7. OwnInv(r)'
  <2>1. /\ r \in Handlers /\ r \in Releasers /\ reserved[r] \in Nat
        /\ Len(Lines(r)) \in Nat /\ DOMAIN Lines(r) = 1..Len(Lines(r))
        /\ pc[r] = "reserving" /\ status[r] = "none" /\ releasing[r] = {}
    BY <1>1, LenType, Facts DEF CheckoutInv, TypeOK, Reserve
  <2>2. CASE StartRelease(r, Rollback(r), 409) /\ UNCHANGED reserved
    <3>1. /\ releasing'[r] = 1..reserved[r] /\ reserved'[r] = reserved[r]
          /\ pc'[r] = IF 1..reserved[r] = {} THEN "done" ELSE "releasing"
          /\ UNCHANGED <<status, charged, body>>
      BY <2>1, <2>2, <1>1, Facts DEF TypeOK, Reserve, StartRelease, Rollback
    <3>2. CheckoutInv(r)'
      BY <1>1, <2>1, <3>1 DEF CheckoutInv, Lines
    <3>3. QED
      BY <3>2 DEF OwnInv, Releasers
  <2>3. CASE /\ reserved' = [reserved EXCEPT ![r] = @ + 1]
             /\ pc' = [pc EXCEPT ![r] = IF reserved[r] + 1 = Len(Lines(r))
                                        THEN "charging" ELSE "reserving"]
             /\ UNCHANGED <<reply, releasing>>
    <3>1. /\ reserved'[r] = reserved[r] + 1 /\ releasing'[r] = {}
          /\ pc'[r] \in {"charging", "reserving"}
          /\ pc'[r] = "charging" <=> reserved[r] + 1 = Len(Lines(r))
          /\ UNCHANGED <<status, charged, body>>
      BY <2>1, <2>3, <1>1, Facts DEF TypeOK, Reserve
    <3>2. CheckoutInv(r)'
      BY <1>1, <2>1, <3>1 DEF CheckoutInv, Lines
    <3>3. QED
      BY <3>2 DEF OwnInv, Releasers
  <2>4. QED
    BY <2>2, <2>3 DEF Reserve
<1>8. WinsAlone(r)
  BY DEF WinsAlone
<1>9. QED
  BY <1>4, <1>5, <1>6, <1>7, <1>8, HandlerStep, Facts

(* A rejected decrement ends the checkout where it stands.                 *)
LEMMA DecrementRejectsStep == ASSUME IInv, NEW r \in Checkouts, DecrementRejects(r) PROVE IInv'
<1> DEFINE k == reserved[r] + 1
<1> USE HandlerAssumption DEF inputs, shelf, orders, jobs, locals
<1>1. TypeOK /\ CheckoutInv(r) /\ k \in DOMAIN Lines(r) /\ ValidBody(body[r])
  <2>1. TypeOK /\ CheckoutInv(r) /\ pc[r] = "reserving" /\ reserved[r] \in Nat
    BY DEF IInv, TypeOK, DecrementRejects
  <2>2. QED
    BY <2>1, LenType DEF CheckoutInv
<1>2. stock' \in [Items -> Levels]
  <2>1. stock \in [Items -> Levels]
    BY <1>1 DEF TypeOK
  <2>2. [stock EXCEPT ![Lines(r)[k].item] = AfterDecrement(@, Lines(r)[k].quantity)]
          \in [Items -> Levels]
    BY <1>1, ShelfType
  <2>3. \/ stock' = stock
        \/ stock' = [stock EXCEPT ![Lines(r)[k].item] =
                       AfterDecrement(@, Lines(r)[k].quantity)]
    BY DEF DecrementRejects
  <2>4. QED
    BY <2>1, <2>2, <2>3
<1>3. Answer(r, 500)
  BY DEF DecrementRejects
<1>4. pc' \in [Handlers -> Places] /\ reply' \in [Handlers -> Codes]
  BY <1>3, Facts, AnswerType
<1>5. TypeOK'
  BY <1>1, <1>2, <1>4 DEF TypeOK, DecrementRejects
<1>6. OnlyHandler(r)
  <2>1. UNCHANGED <<body, target, wanted, charged, reserved, releasing, read>>
    BY DEF DecrementRejects
  <2>2. QED
    BY <1>3, <2>1, Facts DEF OnlyHandler, Answer
<1>7. RowsKept(r)
  BY DEF RowsKept, IInv, CheckoutInv, DecrementRejects
<1>8. OwnInv(r)'
  BY ZenonT(40), <1>1, <1>3, LenType DEF OwnInv, CheckoutInv, TypeOK, Handlers, Releasers, Lines,
     DecrementRejects, Answer
<1>9. WinsAlone(r)
  BY DEF WinsAlone
<1>10. QED
  BY <1>5, <1>6, <1>7, <1>8, <1>9, HandlerStep, Facts

(* A line of releaseAll settles, its script run or not.                    *)
LineSettles(h, k) ==
  LET line == Lines(OrderOf(h))[k]
  IN  /\ pc[h] = "releasing" /\ k \in releasing[h]
      /\ \/ UNCHANGED stock
         \/ stock' = [stock EXCEPT ![line.item] = AfterRelease(@, line.quantity)]
      /\ Settle(h, k)
      /\ UNCHANGED <<supplied, orders, inputs, reply, reserved, read, jobs>>

(* A settled line shrinks what its releaser has left.                      *)
LEMMA LineSettlesStep ==
  ASSUME IInv, NEW h \in Releasers, NEW k \in releasing[h], LineSettles(h, k)
  PROVE  IInv'
<1> DEFINE o == OrderOf(h)
<1> USE HandlerAssumption DEF inputs, orders, jobs
<1>1. TypeOK /\ o \in Checkouts /\ k \in DOMAIN Lines(o) /\ ValidBody(body[o])
  <2>1. CASE h \in Checkouts
    <3>1. TypeOK /\ CheckoutInv(h) /\ o = h /\ reserved[h] \in Nat
      BY <2>1 DEF IInv, TypeOK, OrderOf
    <3>2. k \in 1..reserved[h] /\ reserved[h] > 0
      BY <2>1, <3>1 DEF CheckoutInv
    <3>3. QED
      BY <2>1, <3>1, <3>2, LenType DEF CheckoutInv
  <2>2. CASE h \in Cancels
    <3>1. TypeOK /\ CancelInv(h) /\ o = target[h] /\ o \in Checkouts
      BY <2>2, Facts DEF IInv, OrderOf
    <3>2. k \in DOMAIN Lines(o) /\ status[o] = "cancelled"
      BY <3>1 DEF CancelInv
    <3>3. QED
      BY <3>1, <3>2 DEF IInv, CheckoutInv
  <2>3. QED
    BY <2>1, <2>2 DEF Releasers
<1>2. stock' \in [Items -> Levels]
  <2>1. stock \in [Items -> Levels]
    BY <1>1 DEF TypeOK
  <2>2. [stock EXCEPT ![Lines(o)[k].item] = AfterRelease(@, Lines(o)[k].quantity)]
          \in [Items -> Levels]
    BY <1>1, ShelfType
  <2>3. QED
    BY <2>1, <2>2 DEF LineSettles
<1>3. pc' \in [Handlers -> Places] /\ releasing' \in [Releasers -> SUBSET Nat]
  <2>1. "done" \in Places
    BY DEF Places
  <2>2. QED
    BY <1>1, <2>1 DEF TypeOK, LineSettles, Settle
<1>4. TypeOK'
  BY <1>1, <1>2, <1>3 DEF TypeOK, LineSettles
<1>5. OnlyHandler(h)
  BY <1>1 DEF OnlyHandler, TypeOK, Handlers, LineSettles, Settle
<1>6. RowsKept(h)
  BY DEF RowsKept, IInv, CheckoutInv, LineSettles
<1>7. OwnInv(h)'
  <2>1. ASSUME h \in Checkouts PROVE CheckoutInv(h)'
    BY SMTT(30), <2>1, Facts DEF IInv, TypeOK, CheckoutInv, LineSettles, Settle, Lines
  <2>2. ASSUME h \in Cancels PROVE CancelInv(h)'
    BY <2>2, Facts DEF IInv, TypeOK, CancelInv, LineSettles, Settle, Lines
  <2>3. QED
    BY <2>1, <2>2 DEF OwnInv, Releasers
<1>8. WinsAlone(h)
  BY DEF WinsAlone, IInv, SingleWinner, LineSettles
<1>9. QED
  BY <1>4, <1>5, <1>6, <1>7, <1>8, HandlerStep, Facts

(* Both ways a release settles preserve IInv.                              *)
LEMMA ReleaseLineStep ==
  ASSUME IInv, NEW h \in Releasers, NEW k \in releasing[h],
         ReleaseLine(h, k) \/ ReleaseRejects(h, k)
  PROVE  IInv'
<1>1. LineSettles(h, k)
  BY DEF LineSettles, ReleaseLine, ReleaseRejects
<1>2. QED
  BY <1>1, LineSettlesStep

(* A crash ends every handler and the releases in flight.                  *)
LEMMA CrashStep == ASSUME IInv, Crash PROVE IInv'
<1> USE DEF inputs, shelf, orders
<1>1. TypeOK'
  <2>1. "crashed" \in Places
    BY DEF Places
  <2>2. QED
    BY <2>1 DEF IInv, TypeOK, Crash
<1>2. ASSUME NEW r \in Checkouts PROVE CheckoutInv(r)'
  <2>1. r \in Handlers /\ r \in Releasers /\ CheckoutInv(r)
    BY DEF IInv, Handlers, Releasers
  <2>2. /\ pc'[r] \in {pc[r], "crashed"} /\ releasing'[r] = {}
        /\ UNCHANGED <<status, charged, body, reserved>>
    BY <2>1 DEF Crash
  <2>3. QED
    BY <2>1, <2>2 DEF CheckoutInv, Lines
<1>3. ASSUME NEW c \in Cancels PROVE CancelInv(c)'
  <2>1. c \in Handlers /\ c \in Releasers /\ CancelInv(c)
    BY DEF IInv, Handlers, Releasers
  <2>2. /\ pc'[c] \in {pc[c], "crashed"} /\ releasing'[c] = {}
        /\ UNCHANGED <<status, body, target, reply>>
    BY <2>1 DEF Crash
  <2>3. QED
    BY <2>1, <2>2 DEF CancelInv
<1>4. ASSUME NEW a \in Updates PROVE UpdateInv(a)'
  <2>1. a \in Handlers /\ UpdateInv(a)
    BY DEF IInv, Handlers
  <2>2. pc'[a] \in {pc[a], "crashed"} /\ UNCHANGED <<read, wanted>>
    BY <2>1 DEF Crash
  <2>3. QED
    BY <2>1, <2>2 DEF UpdateInv, MayAdvance
<1>5. SingleWinner'
  BY DEF IInv, SingleWinner, Crash
<1>6. QED
  BY <1>1, <1>2, <1>3, <1>4, <1>5 DEF IInv

(* An administrator's write touches levels alone.                          *)
LEMMA SetStockStep ==
  ASSUME IInv, NEW i \in Items, NEW level \in AdminLevels, SetStock(i, level) PROVE IInv'
<1> USE DEF inputs, orders, jobs, locals
<1>1. TypeOK'
  BY SMTT(30), StockAssumption DEF IInv, TypeOK, SetStock, Levels, NoKey
<1>2. UNCHANGED <<status, charged, body, target, wanted, pc, reply, reserved, releasing, read>>
  BY DEF SetStock
<1>3. QED
  BY <1>1, <1>2 DEF IInv, CheckoutInv, CancelInv, UpdateInv, SingleWinner, Lines, MayAdvance

-----------------------------------------------------------------------------

(* A stuttering step preserves IInv.                                       *)
LEMMA StutterStep == ASSUME IInv, UNCHANGED vars PROVE IInv'
<1>1. UNCHANGED <<stock, supplied, status, charged, body, target, wanted, failing, pc, reply,
                  reserved, releasing, read, adding, published, notifications>>
  BY DEF vars
<1>2. QED
  BY <1>1 DEF IInv, TypeOK, CheckoutInv, CancelInv, UpdateInv, SingleWinner, Lines, MayAdvance

(* Every step preserves the inductive invariant.                           *)
LEMMA NextIInv == IInv /\ [Next]_vars => IInv'
<1> SUFFICES ASSUME IInv, [Next]_vars PROVE IInv'
  OBVIOUS
<1>1. CASE Arrive
  BY <1>1, PlaceOrderStep, ReadForCancelStep, ReadForUpdateStep DEF Arrive
<1>2. CASE \E r \in Checkouts : CheckoutStep(r)
  BY <1>2, ReserveStep, ApproveStep, DeclineStep, CreateOrderStep, AddJobStep DEF CheckoutStep
<1>3. CASE \E r \in Checkouts : CheckoutFault(r)
  BY <1>3, DecrementRejectsStep, GatewayThrowsStep, CreateOrderThrowsStep, AddRejectsStep
     DEF CheckoutFault
<1>4. CASE \E h \in Releasers : ReleaseStep(h) \/ ReleaseFault(h)
  BY <1>4, ReleaseLineStep DEF ReleaseStep, ReleaseFault
<1>5. CASE \E c \in Cancels : CancelIfEligible(c) \/ CancelThrows(c)
  BY <1>5, CancelStep, CancelThrowsStep
<1>6. CASE \E a \in Updates : UpdateStatus(a) \/ UpdateThrows(a) \/ Announce(a)
  BY <1>6, UpdateStatusStep, UpdateThrowsStep, AnnounceStep
<1>7. CASE Crash
  BY <1>7, CrashStep
<1>8. CASE \E i \in Items, level \in AdminLevels : SetStock(i, level)
  BY <1>8, SetStockStep
<1>9. CASE UNCHANGED vars
  BY <1>9, StutterStep
<1>10. QED
  BY <1>1, <1>2, <1>3, <1>4, <1>5, <1>6, <1>7, <1>8, <1>9 DEF Next

(* In every reachable state, a handler's place tells what is reserved,     *)
(* charged and committed for the order it works on.                        *)
THEOREM Invariance == Spec => []IInv
<1>1. QED
  BY InitIInv, NextIInv, PTL DEF Spec

(* Levels never go below zero and every variable keeps its type, under any *)
(* interleaving of any handlers and any faults.                            *)
THEOREM TypeCorrect == Spec => []TypeOK
<1>1. IInv => TypeOK
  BY DEF IInv
<1>2. QED
  BY <1>1, Invariance, PTL

(* An order row always stands for a charged checkout with all its lines    *)
(* reserved.                                                               *)
THEOREM OrdersArePaid == Spec => []PaidAndReserved
<1>1. IInv => PaidAndReserved
  BY DEF IInv, CheckoutInv, PaidAndReserved
<1>2. QED
  BY <1>1, Invariance, PTL

(* Of the cancellations of one order at most one wins, and the order it    *)
(* won stays cancelled while and after its stock is released.              *)
THEOREM CancelledOnce == Spec => []CancelledForGood
<1>1. IInv => CancelledForGood
  BY DEF IInv, CancelInv, ReleasedIsCancelled, CancelledForGood
<1>2. QED
  BY <1>1, Invariance, PTL

(* Which steps change a row, and how.                                      *)
LEMMA RowChange ==
  ASSUME IInv, [Next]_vars, NEW r \in Checkouts, status'[r] # status[r]
  PROVE  <<status[r], status'[r]>> \in StatusEdges
<1>1. status \in [Checkouts -> Statuses \cup {"none"}] /\ CheckoutInv(r)
  BY DEF IInv, TypeOK
<1>2. CASE CreateOrder(r) \/ CreateOrderThrows(r)
  <2>1. status[r] = "none" /\ status'[r] = "placed"
    BY <1>1, <1>2 DEF CreateOrder, CreateOrderThrows, CheckoutInv
  <2>2. QED
    BY <2>1 DEF StatusEdges
<1>3. ASSUME NEW c \in Cancels, CancelIfEligible(c) \/ CancelThrows(c)
      PROVE  <<status[r], status'[r]>> \in StatusEdges
  <2>1. status[r] \in CANCELLABLE_STATUSES /\ status'[r] = "cancelled"
    BY <1>1, <1>3, Facts DEF CancelIfEligible, CancelThrows, EligibleRow
  <2>2. QED
    BY <1>1, <2>1 DEF CheckoutInv, CANCELLABLE_STATUSES, StatusEdges
<1>4. ASSUME NEW a \in Updates, UpdateStatus(a) \/ UpdateThrows(a)
      PROVE  <<status[r], status'[r]>> \in StatusEdges
  <2>1. status[r] = read[a] /\ status'[r] = wanted[a] /\ pc[a] = "updating"
    BY <1>1, <1>4, Facts DEF UpdateStatus, UpdateThrows, ExpectedRow
  <2>2. QED
    BY <2>1, AdvanceEdge DEF IInv, UpdateInv
<1>5. ASSUME NEW s \in Checkouts, s # r, CreateOrder(s) \/ CreateOrderThrows(s)
      PROVE  FALSE
  BY <1>1, <1>5 DEF CreateOrder, CreateOrderThrows
<1>6. \/ status' = status
      \/ \E s \in Checkouts : CreateOrder(s) \/ CreateOrderThrows(s)
      \/ \E c \in Cancels : CancelIfEligible(c) \/ CancelThrows(c)
      \/ \E a \in Updates : UpdateStatus(a) \/ UpdateThrows(a)
  <2> USE DEF orders, vars
  <2>1. CASE Arrive
    BY <2>1 DEF Arrive, PlaceOrder, ReadForCancel, ReadForUpdate
  <2>2. ASSUME NEW s \in Checkouts, CheckoutStep(s) \/ CheckoutFault(s)
        PROVE  status' = status \/ CreateOrder(s) \/ CreateOrderThrows(s)
    BY <2>2 DEF CheckoutStep, CheckoutFault, Reserve, Approve, Decline, AddJob,
       DecrementRejects, GatewayThrows, AddRejects
  <2>3. ASSUME NEW h \in Releasers, ReleaseStep(h) \/ ReleaseFault(h)
        PROVE  status' = status
    BY <2>3 DEF ReleaseStep, ReleaseFault, ReleaseLine, ReleaseRejects
  <2>4. QED
    BY <2>1, <2>2, <2>3 DEF Next, Announce, Crash, SetStock
<1>7. QED
  BY <1>2, <1>3, <1>4, <1>5, <1>6

(* A row moves only along the edges, whatever handlers read before their   *)
(* conditional updates.                                                    *)
THEOREM RowsFollowEdges == Spec => StatusMoves
<1>1. IInv /\ [Next]_vars =>
        [\A r \in Checkouts :
           status'[r] # status[r] => <<status[r], status'[r]>> \in StatusEdges]_status
  BY RowChange
<1>2. QED
  BY <1>1, Invariance, PTL DEF Spec, StatusMoves

-----------------------------------------------------------------------------
(* The order service implements Inventory.  A claim <<r, k>> is line k of   *)
(* checkout r; its abstract state is read off the reserved prefix, the row  *)
(* and the releases still in flight (ClaimOf).  Every step of a handler is  *)
(* one step of the inventory, or none.                                      *)

C == Checkouts \X (1..MaxLines)

(* Open lines are among the reserved ones.                                 *)
LEMMA OpenReserved ==
  ASSUME IInv, NEW r \in Checkouts
  PROVE  /\ OpenLines(r) \subseteq 1..reserved[r]
         /\ reserved[r] \in 0..MaxLines
         /\ DOMAIN Lines(r) = 1..Len(Lines(r)) /\ Len(Lines(r)) \in Nat
<1>1. CheckoutInv(r) /\ reserved[r] \in Nat /\ \A c \in Cancels : CancelInv(c)
  BY DEF IInv, TypeOK
<1>2. Len(Lines(r)) \in Nat /\ DOMAIN Lines(r) = 1..Len(Lines(r)) /\ Len(Lines(r)) <= MaxLines
  BY LenType, InputAssumption DEF IInv, TypeOK, Lines
<1>3. CASE status[r] = "cancelled"
  <2>1. reserved[r] = Len(Lines(r))
    BY <1>1, <1>3 DEF CheckoutInv
  <2>2. \A c \in Cancels : target[c] = r => releasing[c] \subseteq 1..reserved[r]
    BY <1>1, <1>2, <2>1 DEF CancelInv
  <2>3. OpenLines(r) = UNION {releasing[c] : c \in {x \in Cancels : target[x] = r}}
    BY <1>3 DEF OpenLines
  <2>4. QED
    BY <1>1, <1>2, <2>1, <2>2, <2>3, InputAssumption
<1>4. CASE status[r] # "cancelled"
  BY <1>1, <1>2, <1>4, InputAssumption DEF OpenLines, CheckoutInv
<1>5. QED
  BY <1>2, <1>3, <1>4

-----------------------------------------------------------------------------
(* The five ways a step of the handlers is a step of the inventory.        *)

Refined == [Promise!Next]_(Promise!vars)

Shrinks ==
  \/ stock' = stock
  \/ \E i \in Items : \E level \in 0..stock[i] : stock' = [stock EXCEPT ![i] = level]

(* Some open lines end without coming back, perhaps none.                  *)
LinesEnd(r) ==
  /\ reserved'[r] = reserved[r] /\ body'[r] = body[r]
  /\ OpenLines(r)' \subseteq OpenLines(r)
  /\ OpenLines(r)' # {} => (status[r] = "none" <=> status'[r] = "none")

(* Such a step is Lose of the lines that end, or of none.                  *)
LEMMA EndStep ==
  ASSUME IInv, Shrinks, \A r \in Checkouts : LinesEnd(r)
  PROVE  Refined
<1> DEFINE X == {x \in C : x[2] \in OpenLines(x[1]) /\ x[2] \notin OpenLines(x[1])'}
<1>1. ASSUME NEW x \in X
      PROVE  /\ ClaimOf(x).state \in {"held", "sold"}
             /\ ClaimOf(x)' = [ClaimOf(x) EXCEPT !.state = "closed"]
  <2>1. /\ x[1] \in Checkouts /\ x[2] \in OpenLines(x[1]) /\ x[2] \notin OpenLines(x[1])'
        /\ x[2] \in 1..reserved[x[1]] /\ reserved[x[1]] \in 0..MaxLines /\ LinesEnd(x[1])
    BY OpenReserved DEF C
  <2>2. QED
    BY <2>1 DEF ClaimOf, LinesEnd, Lines
<1>2. ASSUME NEW x \in C \ X
      PROVE  ClaimOf(x)' = ClaimOf(x)
  <2>1. /\ x[1] \in Checkouts /\ LinesEnd(x[1])
        /\ x[2] \in OpenLines(x[1])' <=> x[2] \in OpenLines(x[1])
    BY DEF C, LinesEnd
  <2>2. QED
    BY <2>1 DEF ClaimOf, LinesEnd, Lines
<1>3. X \in SUBSET C
  OBVIOUS
<1>4. Promise!Lose(X)
  <2>1. \A x \in X : ClaimOf(x)' = [ClaimOf(x) EXCEPT !.state = "closed"]
    BY <1>1
  <2>2. Promise!MoveTo(X, "closed")
    BY <1>2, <1>3, <2>1 DEF Promise!MoveTo, C
  <2>3. \A x \in X : Promise!InState(x, {"held", "sold"})
    BY <1>1 DEF Promise!InState, C
  <2>4. QED
    BY <2>2, <2>3 DEF Promise!Lose, Shrinks
<1>5. QED
  BY <1>3, <1>4 DEF Refined, Promise!Next, C

(* A row appears: the order's lines are sold together.                     *)
LEMMA SellStep ==
  ASSUME IInv, stock' = stock, NEW o \in Checkouts,
         \A r \in Checkouts : r # o => LinesEnd(r) /\ OpenLines(r)' = OpenLines(r),
         reserved'[o] = reserved[o], body'[o] = body[o],
         OpenLines(o) = 1..reserved[o], OpenLines(o)' = 1..reserved[o],
         status[o] = "none", status'[o] # "none"
  PROVE  Refined
<1> DEFINE X == {x \in C : x[1] = o /\ x[2] <= reserved[o]}
<1>1. reserved[o] \in 0..MaxLines
  BY OpenReserved
<1>2. ASSUME NEW x \in X
      PROVE  /\ ClaimOf(x).state = "held"
             /\ ClaimOf(x)' = [ClaimOf(x) EXCEPT !.state = "sold"]
  <2>1. x[1] = o /\ x[2] \in 1..reserved[o]
    BY <1>1 DEF C
  <2>2. QED
    BY <1>1, <2>1 DEF ClaimOf, Lines
<1>3. ASSUME NEW x \in C \ X
      PROVE  ClaimOf(x)' = ClaimOf(x)
  <2>1. CASE x[1] = o
    BY <1>1, <2>1 DEF ClaimOf, C
  <2>2. CASE x[1] # o
    <3>1. /\ x[1] \in Checkouts /\ LinesEnd(x[1])
          /\ x[2] \in OpenLines(x[1])' <=> x[2] \in OpenLines(x[1])
      BY <2>2 DEF C
    <3>2. QED
      BY <3>1 DEF ClaimOf, LinesEnd, Lines
  <2>3. QED
    BY <2>1, <2>2
<1>4. X \in SUBSET C
  OBVIOUS
<1>5. Promise!Sell(X)
  <2>1. \A x \in X : ClaimOf(x)' = [ClaimOf(x) EXCEPT !.state = "sold"]
    BY <1>2
  <2>2. Promise!MoveTo(X, "sold")
    BY <1>3, <1>4, <2>1 DEF Promise!MoveTo, C
  <2>3. \A x \in X : Promise!InState(x, {"held"})
    BY <1>2 DEF Promise!InState, C
  <2>4. QED
    BY <2>2, <2>3 DEF Promise!Sell
<1>6. QED
  BY <1>4, <1>5 DEF Refined, Promise!Next, C

(* One open line comes back.                                               *)
LEMMA ReturnStep ==
  ASSUME IInv, NEW o \in Checkouts, NEW k \in OpenLines(o),
         stock' = [stock EXCEPT ![Lines(o)[k].item] = AfterRelease(@, Lines(o)[k].quantity)],
         \A r \in Checkouts : r # o => LinesEnd(r) /\ OpenLines(r)' = OpenLines(r),
         LinesEnd(o), OpenLines(o)' = OpenLines(o) \ {k}
  PROVE  Refined
<1> DEFINE x == <<o, k>>
<1>0. k \in 1..reserved[o] /\ reserved[o] \in 0..MaxLines
  BY OpenReserved
<1>1. x \in C /\ k \in 1..reserved[o] /\ reserved[o] \in 0..MaxLines
  <2>1. k \in 1..MaxLines
    BY <1>0, InputAssumption
  <2>2. QED
    BY <1>0, <2>1 DEF C
<1>2. /\ ClaimOf(x).state \in {"held", "sold"}
      /\ ClaimOf(x).item = Lines(o)[k].item /\ ClaimOf(x).quantity = Lines(o)[k].quantity
      /\ ClaimOf(x)' = [ClaimOf(x) EXCEPT !.state = "closed"]
  BY <1>1 DEF ClaimOf, LinesEnd, Lines
<1>3. ASSUME NEW y \in C \ {x}
      PROVE  ClaimOf(y)' = ClaimOf(y)
  <2>1. /\ y[1] \in Checkouts /\ LinesEnd(y[1]) /\ y # <<o, k>> /\ y = <<y[1], y[2]>>
    BY DEF C
  <2>2. y[2] \in OpenLines(y[1])' <=> y[2] \in OpenLines(y[1])
    BY <2>1
  <2>3. QED
    BY <2>1, <2>2 DEF ClaimOf, LinesEnd, Lines
<1>4. Promise!Return(x)
  <2>1. Promise!MoveTo({x}, "closed")
    BY <1>1, <1>2, <1>3 DEF Promise!MoveTo, C
  <2>2. Promise!InState(x, {"held", "sold"})
    BY <1>1, <1>2 DEF Promise!InState, C
  <2>3. QED
    BY <1>1, <1>2, <2>1, <2>2 DEF Promise!Return, Promise!AfterRelease, Promise!NoKey, AfterRelease, NoKey, C
<1>5. QED
  BY <1>1, <1>4 DEF Refined, Promise!Next, C

(* A line is reserved: its units leave the shelf for the next claim.       *)
LEMMA ClaimStep ==
  ASSUME IInv, NEW o \in Checkouts, pc[o] = "reserving",
         NEW k \in DOMAIN Lines(o), k = reserved[o] + 1,
         DecrementCode(stock[Lines(o)[k].item], Lines(o)[k].quantity) = SUCCESS,
         stock' = [stock EXCEPT ![Lines(o)[k].item] = AfterDecrement(@, Lines(o)[k].quantity)],
         \A r \in Checkouts : r # o => LinesEnd(r) /\ OpenLines(r)' = OpenLines(r),
         reserved'[o] = k, body'[o] = body[o], status'[o] = status[o],
         OpenLines(o)' = 1..k
  PROVE  Refined
<1> DEFINE x == <<o, k>>
<1>1. CheckoutInv(o) /\ TypeOK /\ reserved[o] \in Nat
  BY DEF IInv, TypeOK
<1>2. /\ OpenLines(o) = 1..reserved[o] /\ status[o] = "none"
      /\ k \in 1..MaxLines /\ x \in C
  <2>1. Len(Lines(o)) <= MaxLines /\ DOMAIN Lines(o) = 1..Len(Lines(o)) /\ Len(Lines(o)) \in Nat
    BY <1>1, LenType, InputAssumption DEF TypeOK, Lines
  <2>2. k \in 1..MaxLines
    BY <2>1, InputAssumption
  <2>3. QED
    BY <1>1, <2>2 DEF CheckoutInv, OpenLines, C
<1>3. PICK item \in Items, quantity \in Int :
        /\ item = Lines(o)[k].item /\ quantity = Lines(o)[k].quantity
        /\ quantity > 0 /\ stock[item] \in Levels
  BY <1>1, LineType DEF CheckoutInv, TypeOK
<1>3a. quantity \in 1..stock[item] /\ stock' = [stock EXCEPT ![item] = @ - quantity]
  <2>1. stock[item] # NoKey /\ ~(stock[item] < quantity) /\ stock[item] \in Nat
    BY <1>3 DEF DecrementCode, SUCCESS, NOT_FOUND, INSUFFICIENT, Levels
  <2>2. AfterDecrement(stock[item], quantity) = stock[item] - quantity
    BY <1>3 DEF AfterDecrement
  <2>3. QED
    BY <1>3, <2>1, <2>2
<1>4. /\ ClaimOf(x) = [state |-> "none"]
      /\ ClaimOf(x)' = [state |-> "held", item |-> Lines(o)[k].item,
                        quantity |-> Lines(o)[k].quantity]
  <2>1. k > reserved[o] /\ ~(k > reserved'[o]) /\ k \in OpenLines(o)' /\ status'[o] = "none"
    BY <1>1, <1>2
  <2>2. Lines(o)' = Lines(o)
    BY DEF Lines
  <2>3. QED
    BY <2>1, <2>2 DEF ClaimOf
<1>5. ASSUME NEW y \in C \ {x}
      PROVE  ClaimOf(y)' = ClaimOf(y)
  <2>1. CASE y[1] = o
    <3>1. y = <<o, y[2]>> /\ y[2] # k /\ y[2] \in Nat /\ y[2] \in 1..MaxLines
      BY <2>1, InputAssumption DEF C
    <3>2. y[2] > reserved[o] <=> y[2] > reserved'[o]
      BY <1>1, <3>1
    <3>3. y[2] <= reserved[o] => y[2] \in OpenLines(o) /\ y[2] \in OpenLines(o)'
      BY <1>1, <1>2, <3>1
    <3>4. QED
      BY SMTT(30), <2>1, <1>1, <3>1, <3>2, <3>3 DEF ClaimOf, Lines
  <2>2. CASE y[1] # o
    <3>1. /\ y[1] \in Checkouts /\ LinesEnd(y[1])
          /\ y[2] \in OpenLines(y[1])' <=> y[2] \in OpenLines(y[1])
      BY <2>2 DEF C
    <3>2. QED
      BY <3>1 DEF ClaimOf, LinesEnd, Lines
  <2>3. QED
    BY <2>1, <2>2
<1>6. Promise!Reserve(x)
  <2>1. [y \in C |-> ClaimOf(y)]' =
          [[y \in C |-> ClaimOf(y)] EXCEPT
             ![x] = [state |-> "held", item |-> Lines(o)[k].item, quantity |-> Lines(o)[k].quantity]]
    BY <1>2, <1>4, <1>5
  <2>2. QED
    BY <1>2, <1>3, <1>3a, <1>4, <2>1 DEF Promise!Reserve, Promise!NoClaim, C
<1>7. \E y \in C : Promise!Reserve(y)
  BY <1>2, <1>6
<1>8. QED
  BY <1>7 DEF Refined, Promise!Next, C

(* Nothing a checkout's lines depend on changes.                           *)
Untouched(r) ==
  /\ status'[r] = status[r] /\ pc'[r] = pc[r]
  /\ reserved'[r] = reserved[r] /\ releasing'[r] = releasing[r]
  /\ body'[r] = body[r]

(* Such a checkout's lines stay as they are.                               *)
LEMMA UntouchedLines ==
  ASSUME IInv, NEW r \in Checkouts, Untouched(r), target' = target,
         \A c \in Cancels : target[c] = r => releasing'[c] = releasing[c]
  PROVE  LinesEnd(r) /\ OpenLines(r)' = OpenLines(r)
BY ZenonT(40) DEF Untouched, OpenLines, LinesEnd

(* A write of the administrator supplies units.                            *)
LEMMA SupplyStep ==
  ASSUME IInv, NEW i \in Items, NEW level \in AdminLevels, SetStock(i, level)
  PROVE  Refined
<1> USE DEF SetStock, orders, inputs, locals, jobs
<1>1. \A r \in Checkouts : LinesEnd(r) /\ OpenLines(r)' = OpenLines(r)
  BY UntouchedLines DEF Untouched
<1>2. \A x \in C : ClaimOf(x)' = ClaimOf(x)
  BY <1>1 DEF ClaimOf, LinesEnd, Lines, C
<1>3. Promise!Supply(i, level)
  BY <1>2 DEF Promise!Supply, C
<1>4. QED
  BY <1>3 DEF Refined, Promise!Next

-----------------------------------------------------------------------------
(* The actions, by the lemma that maps them.                               *)

(* A step of checkout r that only ends lines, or keeps them.               *)
LEMMA CheckoutEnds ==
  ASSUME IInv, NEW r \in Checkouts, Shrinks, LinesEnd(r),
         UNCHANGED <<target, body>>,
         \A o \in Checkouts : o # r =>
           status'[o] = status[o] /\ pc'[o] = pc[o] /\ reserved'[o] = reserved[o],
         \A h \in Releasers : h # r => releasing'[h] = releasing[h]
  PROVE  Refined
<1>1. ASSUME NEW o \in Checkouts, o # r PROVE LinesEnd(o)
  BY <1>1, UntouchedLines, HandlerAssumption DEF Untouched, Releasers
<1>2. QED
  BY <1>1, EndStep

(* What the checkout's own step needs to know.                             *)
LEMMA Own ==
  ASSUME IInv, NEW r \in Checkouts
  PROVE  /\ CheckoutInv(r) /\ TypeOK /\ reserved[r] \in Nat
         /\ r \in Handlers /\ r \in Releasers /\ r \notin Cancels
         /\ reserved \in [Checkouts -> Nat]
         /\ pc \in [Handlers -> Places] /\ releasing \in [Releasers -> SUBSET Nat]
         /\ status \in [Checkouts -> Statuses \cup {"none"}]
BY HandlerAssumption DEF IInv, TypeOK, Handlers, Releasers

(* Validation moves no units.                                              *)
LEMMA PlaceOrderRefines == ASSUME IInv, NEW r \in Checkouts, PlaceOrder(r) PROVE Refined
<1> USE DEF PlaceOrder, shelf, orders, inputs, locals, jobs
<1>1. LinesEnd(r)
  BY Own DEF LinesEnd, OpenLines, CheckoutInv, Answer
<1>2. QED
  BY <1>1, Own, CheckoutEnds DEF Shrinks, Answer, Handlers, Releasers

(* Nor does an approved charge.                                            *)
LEMMA ApproveRefines == ASSUME IInv, NEW r \in Checkouts, Approve(r) PROVE Refined
<1> USE DEF Approve, shelf, inputs, locals, jobs
<1>1. LinesEnd(r)
  BY Own DEF LinesEnd, OpenLines, CheckoutInv
<1>2. QED
  BY <1>1, Own, CheckoutEnds DEF Shrinks, Handlers, Releasers

(* A rollback turns the held lines over to releaseAll.                     *)
LEMMA RollbackRefines ==
  ASSUME IInv, NEW r \in Checkouts, NEW code \in Codes, stock' = stock,
         pc[r] \in {"reserving", "charging"}, StartRelease(r, Rollback(r), code),
         UNCHANGED <<orders, inputs, reserved>>
  PROVE  Refined
<1> USE DEF orders, inputs, StartRelease
<1>1. LinesEnd(r)
  BY Own DEF LinesEnd, OpenLines, CheckoutInv, Rollback
<1>2. QED
  BY <1>1, Own, CheckoutEnds DEF Shrinks, Handlers, Releasers

(* A rejected decrement loses the prefix, and perhaps the line's units.    *)
LEMMA DecrementRejectsRefines ==
  ASSUME IInv, NEW r \in Checkouts, DecrementRejects(r) PROVE Refined
<1>1. LinesEnd(r)
  BY Own DEF DecrementRejects, LinesEnd, OpenLines, CheckoutInv, Answer, inputs, orders, locals
<1>2. Shrinks
  <2>1. pc[r] = "reserving" /\ CheckoutInv(r) /\ TypeOK /\ reserved[r] \in Nat
    BY Own DEF DecrementRejects
  <2>2. reserved[r] + 1 \in DOMAIN Lines(r) /\ ValidBody(body[r])
    BY <2>1, LenType DEF CheckoutInv
  <2>3. PICK k \in DOMAIN Lines(r) : k = reserved[r] + 1
    BY <2>2
  <2>4. PICK i \in Items, quantity \in Int :
          /\ i = Lines(r)[k].item /\ quantity = Lines(r)[k].quantity /\ quantity > 0
    BY <2>1, <2>2, LineType
  <2>5. stock[i] \in Levels /\ stock \in [Items -> Levels]
    BY <2>1 DEF TypeOK
  <2>6. stock' = stock \/ stock' = [stock EXCEPT ![i] = AfterDecrement(@, quantity)]
    BY <2>3, <2>4 DEF DecrementRejects
  <2>7. CASE DecrementCode(stock[i], quantity) = SUCCESS
    <3>1. AfterDecrement(stock[i], quantity) \in 0..stock[i]
      <4>1. stock[i] # NoKey /\ ~(stock[i] < quantity) /\ stock[i] \in Nat
        BY <2>5, <2>7 DEF DecrementCode, SUCCESS, NOT_FOUND, INSUFFICIENT, Levels
      <4>2. QED
        BY <2>4, <2>7, <4>1 DEF AfterDecrement
    <3>2. QED
      BY <2>6, <3>1 DEF Shrinks
  <2>8. CASE DecrementCode(stock[i], quantity) # SUCCESS
    BY <2>5, <2>6, <2>8 DEF Shrinks, AfterDecrement
  <2>9. QED
    BY <2>7, <2>8
<1>3. QED
  BY <1>1, <1>2, Own, CheckoutEnds
  DEF DecrementRejects, Answer, Handlers, Releasers, inputs, orders, locals

(* The reservation loop: the next claim, or a rollback.                    *)
LEMMA ReserveRefines == ASSUME IInv, NEW r \in Checkouts, Reserve(r) PROVE Refined
<1> DEFINE k == reserved[r] + 1
           i == Lines(r)[k].item
           quantity == Lines(r)[k].quantity
           code == DecrementCode(stock[i], quantity)
<1>1. /\ pc[r] = "reserving" /\ CheckoutInv(r) /\ TypeOK /\ reserved[r] \in Nat
      /\ UNCHANGED <<orders, inputs>>
      /\ stock' = [stock EXCEPT ![i] = AfterDecrement(@, quantity)]
  BY Own DEF Reserve
<1>2. k \in DOMAIN Lines(r)
  BY <1>1, LenType DEF CheckoutInv
<1>3. CASE code = SUCCESS
  <2>1. /\ reserved' = [reserved EXCEPT ![r] = k]
        /\ pc' = [pc EXCEPT ![r] = IF k = Len(Lines(r)) THEN "charging" ELSE "reserving"]
        /\ releasing' = releasing
    BY <1>3 DEF Reserve
  <2>2. ASSUME NEW o \in Checkouts, o # r PROVE LinesEnd(o) /\ OpenLines(o)' = OpenLines(o)
    BY <1>1, <2>1, <2>2, UntouchedLines DEF Untouched, orders, inputs
  <2>3. /\ reserved'[r] = k /\ body'[r] = body[r] /\ status'[r] = status[r]
        /\ OpenLines(r)' = 1..k
    <3>1. /\ reserved'[r] = k /\ body' = body /\ status' = status /\ status[r] = "none"
          /\ pc'[r] \in {"charging", "reserving"}
      BY <1>1, <2>1, Own DEF CheckoutInv, orders, inputs
    <3>2. QED
      BY <3>1 DEF OpenLines
  <2>4. PICK n \in DOMAIN Lines(r) : n = k
    BY <1>2
  <2>5. /\ DecrementCode(stock[Lines(r)[n].item], Lines(r)[n].quantity) = SUCCESS
        /\ stock' = [stock EXCEPT ![Lines(r)[n].item] = AfterDecrement(@, Lines(r)[n].quantity)]
    BY <1>1, <1>3, <2>4
  <2>6. n = reserved[r] + 1 /\ reserved'[r] = n /\ OpenLines(r)' = 1..n
    BY <2>3, <2>4
  <2> HIDE DEF k, i, quantity, code
  <2>7. QED
    BY <1>1, <2>2, <2>3, <2>5, <2>6, ClaimStep
<1>4. CASE code # SUCCESS
  <2>1. StartRelease(r, Rollback(r), 409) /\ reserved' = reserved /\ 409 \in Codes
    BY <1>4 DEF Reserve, Codes
  <2>2. stock' = stock
    BY <1>1, <1>4 DEF AfterDecrement, TypeOK
  <2>3. QED
    BY <1>1, <2>1, <2>2, RollbackRefines
<1>5. QED
  BY <1>3, <1>4

(* A charge that fails, declined or thrown, is a rollback.                 *)
LEMMA GatewayRefines ==
  ASSUME IInv, NEW r \in Checkouts, Decline(r) \/ GatewayThrows(r)
  PROVE  Refined
BY RollbackRefines DEF Decline, GatewayThrows, shelf, Codes

(* The transaction: the order sells its lines, or they are lost.           *)
LEMMA CreateRefines ==
  ASSUME IInv, NEW r \in Checkouts, CreateOrder(r) \/ CreateOrderThrows(r)
  PROVE  Refined
<1>1. /\ pc[r] = "committing" /\ CheckoutInv(r) /\ r \notin Cancels /\ TypeOK
      /\ UNCHANGED <<shelf, charged, inputs, locals>>
      /\ \A o \in Checkouts : o # r => pc'[o] = pc[o] /\ status'[o] = status[o]
  <2>1. CheckoutInv(r) /\ r \notin Cancels /\ TypeOK
    BY Own
  <2>2. CASE CreateOrder(r)
    BY <2>1, <2>2, Own DEF CreateOrder
  <2>3. CASE CreateOrderThrows(r)
    BY <2>1, <2>3, Own DEF CreateOrderThrows, Answer
  <2>4. QED
    BY <2>2, <2>3
<1>2. ASSUME NEW o \in Checkouts, o # r PROVE LinesEnd(o) /\ OpenLines(o)' = OpenLines(o)
  BY <1>1, <1>2, UntouchedLines DEF Untouched, inputs, locals
<1>3. OpenLines(r) = 1..reserved[r] /\ status[r] = "none"
  BY <1>1 DEF CheckoutInv, OpenLines
<1>4. CASE status'[r] = "placed"
  <2>1. OpenLines(r)' = 1..reserved[r]
    BY <1>1, <1>4 DEF OpenLines, locals
  <2>2. QED
    BY <1>1, <1>2, <1>3, <1>4, <2>1, SellStep DEF shelf, inputs, locals
<1>5. CASE status' = status /\ pc'[r] = "done"
  <2>1. LinesEnd(r)
    BY <1>1, <1>3, <1>5 DEF OpenLines, LinesEnd, CheckoutInv, inputs, locals
  <2>2. QED
    BY <1>1, <1>2, <2>1, EndStep DEF Shrinks, shelf
<1>6. QED
  BY <1>1, <1>4, <1>5, Own DEF CreateOrder, CreateOrderThrows, Answer, TypeOK

(* Publishing moves no units.                                              *)
LEMMA AddRefines ==
  ASSUME IInv, NEW r \in Checkouts, NEW q \in OrderPlacedQueues,
         AddJob(r, q) \/ AddRejects(r, q)
  PROVE  Refined
<1>1. /\ CheckoutInv(r) /\ TypeOK
      /\ UNCHANGED <<shelf, orders, inputs, locals>>
      /\ \A o \in Checkouts : o # r => pc'[o] = pc[o]
      /\ pc'[r] = pc[r] \/ (pc[r] = "publishing" /\ pc'[r] = "done")
  BY ZenonT(40), Own DEF AddJob, AddRejects, Answer, TypeOK, Handlers, Releasers
<1>2. LinesEnd(r)
  BY <1>1 DEF OpenLines, LinesEnd, CheckoutInv, orders, inputs, locals
<1>3. QED
  BY <1>1, <1>2, CheckoutEnds DEF Shrinks, shelf, orders, inputs, locals

(* At most one cancellation of an order has lines to release: the winner.  *)
LEMMA OneReleaser ==
  ASSUME IInv, NEW c \in Cancels, NEW k \in releasing[c]
  PROVE  /\ target[c] \in Checkouts /\ status[target[c]] = "cancelled"
         /\ OpenLines(target[c]) = releasing[c]
         /\ \A d \in Cancels : d # c /\ target[d] = target[c] => releasing[d] = {}
<1>1. target[c] \in Checkouts /\ \A d \in Cancels : CancelInv(d) /\ SingleWinner
  BY DEF IInv, TypeOK
<1>2. reply[c] = 200 /\ status[target[c]] = "cancelled"
  BY <1>1 DEF CancelInv
<1>3. \A d \in Cancels : d # c /\ target[d] = target[c] => releasing[d] = {}
  BY <1>1, <1>2 DEF CancelInv, SingleWinner
<1>4. QED
  BY <1>1, <1>2, <1>3 DEF OpenLines

(* A line settles, back on the shelf or not.                               *)
LEMMA SettleRefines ==
  ASSUME IInv, NEW h \in Releasers, NEW k \in releasing[h],
         ReleaseLine(h, k) \/ ReleaseRejects(h, k)
  PROVE  Refined
<1>0. PICK o \in Checkouts : o = OrderOf(h)
  BY HandlerAssumption DEF OrderOf, Releasers, IInv, TypeOK
<1>1. /\ pc[h] = "releasing" /\ TypeOK /\ h \in Handlers
      /\ \/ stock' = stock
         \/ stock' = [stock EXCEPT ![Lines(o)[k].item] = AfterRelease(@, Lines(o)[k].quantity)]
      /\ Settle(h, k) /\ UNCHANGED <<orders, inputs, reserved>>
      /\ \A r \in Checkouts : CheckoutInv(r)
  BY <1>0 DEF ReleaseLine, ReleaseRejects, locals, IInv, Handlers
<1>2. /\ \A g \in Handlers : g # h => pc'[g] = pc[g]
      /\ \A g \in Releasers : g # h => releasing'[g] = releasing[g]
      /\ releasing'[h] = releasing[h] \ {k}
      /\ pc'[h] \in {"releasing", "done"}
  BY <1>1 DEF Settle, TypeOK
<1>3. /\ k \in OpenLines(o) /\ OpenLines(o)' = OpenLines(o) \ {k}
      /\ LinesEnd(o)
  <2>1. CASE h \in Checkouts
    <3>1. o = h /\ status[h] = "none" /\ status' = status
      BY <1>0, <1>1, <2>1 DEF OrderOf, CheckoutInv, orders
    <3>2. OpenLines(h) = releasing[h] /\ OpenLines(h)' = releasing'[h]
      BY <1>1, <1>2, <3>1 DEF OpenLines
    <3>3. QED
      BY <1>1, <1>2, <2>1, <3>1, <3>2 DEF LinesEnd, inputs
  <2>2. CASE h \in Cancels
    <3>1. o = target[h] /\ target' = target /\ status' = status
      BY <1>0, <1>1, <2>2, HandlerAssumption DEF OrderOf, orders, inputs
    <3>2. /\ status[o] = "cancelled" /\ OpenLines(o) = releasing[h]
          /\ \A d \in Cancels : d # h /\ target[d] = o => releasing[d] = {}
      BY <2>2, <3>1, OneReleaser
    <3>3. OpenLines(o)' = UNION {releasing'[c] : c \in {x \in Cancels : target[x] = o}}
      BY <3>1, <3>2 DEF OpenLines
    <3>4. OpenLines(o)' = releasing[h] \ {k}
      BY <1>2, <2>2, <3>1, <3>2, <3>3 DEF Releasers
    <3>5. QED
      BY <1>1, <3>1, <3>2, <3>4 DEF LinesEnd, inputs
  <2>3. QED
    BY <2>1, <2>2 DEF Releasers
<1>4. ASSUME NEW r \in Checkouts, r # o
      PROVE  LinesEnd(r) /\ OpenLines(r)' = OpenLines(r)
  <2>1. r # h /\ (h \in Cancels => target[h] = o)
    BY <1>0, <1>4, HandlerAssumption DEF OrderOf
  <2>2. QED
    BY <1>1, <1>2, <1>4, <2>1, UntouchedLines
    DEF Untouched, orders, inputs, Handlers, Releasers
<1>5. CASE stock' = stock
  BY <1>3, <1>4, <1>5, EndStep DEF Shrinks
<1>6. CASE stock' = [stock EXCEPT ![Lines(o)[k].item] = AfterRelease(@, Lines(o)[k].quantity)]
  BY <1>3, <1>4, <1>6, ReturnStep
<1>7. QED
  BY <1>1, <1>5, <1>6

(* Steps of cancellations and updates that leave every line where it is.   *)
LEMMA QuietRefines ==
  ASSUME IInv, NEW h \in Cancels \cup Updates,
         ReadForCancel(h) \/ ReadForUpdate(h) \/ Announce(h)
  PROVE  Refined
<1>1. /\ UNCHANGED <<shelf, orders, inputs, reserved, releasing>>
      /\ \A g \in Handlers : g # h => pc'[g] = pc[g]
  BY DEF ReadForCancel, ReadForUpdate, Announce, Answer, locals, IInv, TypeOK
<1>2. ASSUME NEW r \in Checkouts PROVE LinesEnd(r)
  BY <1>1, UntouchedLines, HandlerAssumption
  DEF Untouched, orders, inputs, Handlers, Releasers
<1>3. QED
  BY <1>1, <1>2, EndStep DEF Shrinks, shelf

(* A won cancellation turns the sold lines over to releaseAll; a lost      *)
(* answer loses them.                                                      *)
LEMMA CancelRefines ==
  ASSUME IInv, NEW c \in Cancels, CancelIfEligible(c) \/ CancelThrows(c)
  PROVE  Refined
<1>1. PICK o \in Checkouts : o = target[c]
  BY DEF IInv, TypeOK
<1>2. /\ c \in Handlers /\ c \in Releasers /\ c \notin Checkouts /\ TypeOK
      /\ \A d \in Cancels : CancelInv(d)
      /\ CheckoutInv(o) /\ SingleWinner
  BY HandlerAssumption DEF IInv, Handlers, Releasers
<1>3. /\ UNCHANGED <<shelf, charged, inputs, reserved>>
      /\ \A g \in Handlers : g # c => pc'[g] = pc[g]
      /\ \A g \in Releasers : g # c => releasing'[g] = releasing[g]
      /\ \A r \in Checkouts : r # o => status'[r] = status[r]
  BY <1>1, <1>2 DEF CancelIfEligible, CancelThrows, Answer, StartRelease, locals, TypeOK
<1>4. \/ status' = status /\ releasing' = releasing
      \/ /\ status[o] \in CANCELLABLE_STATUSES /\ status'[o] = "cancelled"
         /\ releasing'[c] = DOMAIN Lines(o) \/ releasing' = releasing
  BY <1>1, <1>2
  DEF CancelIfEligible, CancelThrows, EligibleRow, StartRelease, locals, TypeOK
<1>5. ASSUME NEW r \in Checkouts, r # o PROVE LinesEnd(r)
  BY <1>1, <1>2, <1>3, <1>5, UntouchedLines, HandlerAssumption
  DEF Untouched, inputs, Handlers, Releasers
<1>6. LinesEnd(o)
  <2>1. CASE status' = status /\ releasing' = releasing
    BY <1>2, <1>3, <2>1, UntouchedLines, HandlerAssumption
    DEF Untouched, inputs, Handlers, Releasers
  <2>2. CASE /\ status[o] \in CANCELLABLE_STATUSES /\ status'[o] = "cancelled"
             /\ releasing'[c] = DOMAIN Lines(o) \/ releasing' = releasing
    <3>1. /\ status[o] \notin {"none", "cancelled"} /\ DOMAIN Lines(o) = 1..reserved[o]
      BY <1>2, <2>2, LenType DEF CANCELLABLE_STATUSES, CheckoutInv
    <3>2. \A d \in Cancels : target[d] = o => releasing'[d] \subseteq 1..reserved[o]
      <4>1. ASSUME NEW d \in Cancels, target[d] = o
            PROVE  releasing[d] \subseteq 1..reserved[o]
        BY <1>2, <3>1, <4>1 DEF CancelInv
      <4>2. QED
        BY <1>1, <1>3, <2>2, <3>1, <4>1 DEF Releasers
    <3>3. /\ OpenLines(o) = 1..reserved[o]
          /\ OpenLines(o)' = UNION {releasing'[d] : d \in {x \in Cancels : target[x] = o}}
      BY <1>3, <2>2, <3>1 DEF OpenLines, inputs
    <3>4. QED
      BY <1>3, <2>2, <3>1, <3>2, <3>3 DEF LinesEnd, inputs
  <2>3. QED
    BY <1>4, <2>1, <2>2
<1>7. QED
  BY <1>3, <1>5, <1>6, EndStep DEF Shrinks, shelf

(* An advanced order keeps its lines.                                      *)
LEMMA UpdateRefines ==
  ASSUME IInv, NEW a \in Updates, UpdateStatus(a) \/ UpdateThrows(a)
  PROVE  Refined
<1>1. PICK o \in Checkouts : o = target[a]
  BY DEF IInv, TypeOK
<1>2. a \in Handlers /\ a \notin Releasers /\ TypeOK /\ UpdateInv(a) /\ CheckoutInv(o)
  BY HandlerAssumption DEF IInv, Handlers
<1>3. /\ UNCHANGED <<shelf, charged, inputs, locals>> /\ pc[a] = "updating"
      /\ \A g \in Handlers : g # a => pc'[g] = pc[g]
      /\ \A r \in Checkouts : r # o => status'[r] = status[r]
      /\ status' = status \/ (status[o] = read[a] /\ status'[o] = wanted[a])
  BY <1>1, <1>2 DEF UpdateStatus, UpdateThrows, ExpectedRow, Answer, locals, TypeOK
<1>4. ASSUME NEW r \in Checkouts, status'[r] = status[r] PROVE LinesEnd(r)
  BY <1>2, <1>3, <1>4, UntouchedLines DEF Untouched, inputs, locals, Handlers, Releasers
<1>5. CASE status[o] = read[a] /\ status'[o] = wanted[a]
  <2>1. status[o] \notin {"none", "cancelled"} /\ status'[o] \notin {"none", "cancelled"}
    BY <1>2, <1>3, <1>5, AdvanceEdge DEF UpdateInv
  <2>2. OpenLines(o) = 1..reserved[o] /\ OpenLines(o)' = 1..reserved[o]
    BY <1>3, <2>1 DEF OpenLines, locals
  <2>3. LinesEnd(o)
    BY <1>3, <2>1, <2>2 DEF LinesEnd, inputs, locals
  <2>4. QED
    BY <1>3, <1>4, <2>3, EndStep DEF Shrinks, shelf
<1>6. QED
  BY <1>3, <1>4, <1>5, EndStep DEF Shrinks, shelf

(* A crash loses what handlers held and what they were giving back.        *)
LEMMA CrashRefines == ASSUME IInv, Crash PROVE Refined
<1>1. ASSUME NEW r \in Checkouts PROVE LinesEnd(r)
  <2>1. /\ status' = status /\ reserved' = reserved /\ body' = body /\ target' = target
        /\ releasing' = [h \in Releasers |-> {}] /\ r \in Handlers
        /\ pc'[r] = IF Active(r) THEN "crashed" ELSE pc[r]
    BY DEF Crash, orders, inputs, Handlers, Releasers
  <2>2. CASE status[r] = "cancelled"
    BY <2>1, <2>2 DEF LinesEnd, OpenLines, Releasers
  <2>3. CASE status[r] = "none"
    <3>1. pc'[r] \notin {"reserving", "charging", "committing"}
      BY <2>1 DEF Active
    <3>2. OpenLines(r)' = {}
      BY <2>1, <2>3, <3>1 DEF OpenLines, Releasers
    <3>3. QED
      BY <2>1, <3>2 DEF LinesEnd
  <2>4. CASE status[r] \notin {"none", "cancelled"}
    BY <2>1, <2>4 DEF LinesEnd, OpenLines
  <2>5. QED
    BY <2>2, <2>3, <2>4
<1>2. QED
  BY <1>1, EndStep DEF Shrinks, Crash, shelf

(* A stutter of the service is a stutter of the inventory.                 *)
LEMMA StutterRefines == ASSUME UNCHANGED vars PROVE Refined
<1>1. \A x \in C : ClaimOf(x)' = ClaimOf(x)
  BY DEF vars, ClaimOf, OpenLines, Lines
<1>2. QED
  BY <1>1 DEF vars, Refined, Promise!vars, C

-----------------------------------------------------------------------------

(* Whatever the handlers, the bodies and the faults, the order service     *)
(* keeps the inventory's promise: units leave the shelf once per line, are *)
(* sold whole orders at a time, and come back at most once.                *)
THEOREM Implements == Spec => KeepsPromise
<1>1. Init => Promise!Init
  <2>1. ASSUME Init PROVE Promise!Init
    <3>1. \A x \in C : ClaimOf(x) = Promise!NoClaim
      BY <2>1, InputAssumption DEF Init, ClaimOf, C, Promise!NoClaim
    <3>2. QED
      BY <2>1, <3>1, StockAssumption
      DEF Init, Promise!Init, C, Levels, NoKey, Promise!Levels, Promise!NoKey
  <2>2. QED
    BY <2>1
<1>2. IInv /\ [Next]_vars => [Promise!Next]_(Promise!vars)
  <2> SUFFICES ASSUME IInv, [Next]_vars PROVE Refined
    BY DEF Refined
  <2>1. CASE Arrive
    BY <2>1, PlaceOrderRefines, QuietRefines DEF Arrive
  <2>2. CASE \E r \in Checkouts : CheckoutStep(r) \/ CheckoutFault(r)
    BY <2>2, ReserveRefines, ApproveRefines, GatewayRefines, CreateRefines, AddRefines,
       DecrementRejectsRefines
    DEF CheckoutStep, CheckoutFault
  <2>3. CASE \E h \in Releasers : ReleaseStep(h) \/ ReleaseFault(h)
    BY <2>3, SettleRefines DEF ReleaseStep, ReleaseFault
  <2>4. CASE \E c \in Cancels : CancelIfEligible(c) \/ CancelThrows(c)
    BY <2>4, CancelRefines
  <2>5. CASE \E a \in Updates : UpdateStatus(a) \/ UpdateThrows(a) \/ Announce(a)
    BY <2>5, UpdateRefines, QuietRefines
  <2>6. CASE Crash
    BY <2>6, CrashRefines
  <2>7. CASE \E i \in Items, level \in AdminLevels : SetStock(i, level)
    BY <2>7, SupplyStep
  <2>8. CASE UNCHANGED vars
    BY <2>8, StutterRefines
  <2>9. QED
    BY <2>1, <2>2, <2>3, <2>4, <2>5, <2>6, <2>7, <2>8 DEF Next
<1>3. QED
  BY <1>1, <1>2, Invariance, PTL DEF Spec, KeepsPromise, Promise!Spec

(***************************************************************************)
(* The order service neither leaks nor mints units while no call about     *)
(* stock is lost: what was ever supplied is on the shelf or in the open    *)
(* lines of a checkout.  Whatever the handlers do, a step moves no unit,   *)
(* claims one line or returns one.  Nor does it keep a patron's money: a   *)
(* charge ends in an order that both queues have heard of, or in a crash.  *)
(***************************************************************************)

(* The faults that lose units: the code does not undo what it cannot see.  *)
Lossy == {"decrement", "lost answer", "release", "create", "cancel", "crash"}
Lossless == failing \cap Lossy = {}

(* A reserved line's item has a key, and no step deletes a key: the script *)
(* that returns the line finds it.                                         *)
Tracked ==
  \A r \in Checkouts : \A k \in 1..reserved[r] : stock[Lines(r)[k].item] # NoKey

Accounted == IInv /\ Lossless /\ Tracked /\ StockAccounted

-----------------------------------------------------------------------------
(* What the open lines of one checkout hold of one item.                   *)

Quantities(i, r) ==
  [k \in DOMAIN Lines(r) |-> IF Lines(r)[k].item = i THEN Lines(r)[k].quantity ELSE 0]

Open(i, r) == UnitsOf(i, r, OpenLines(r))

(* The open lines are finitely many, and their quantities integers.        *)
LEMMA OpenType ==
  ASSUME IInv, NEW r \in Checkouts, NEW i \in Items
  PROVE  /\ IsFiniteSet(OpenLines(r)) /\ OpenLines(r) \subseteq DOMAIN Lines(r)
         /\ \A k \in DOMAIN Lines(r) : Quantities(i, r)[k] \in Int
         /\ Open(i, r) \in Int
<1>1. TypeOK /\ CheckoutInv(r) /\ reserved[r] \in Nat
  BY Own
<1>2. OpenLines(r) \subseteq 1..reserved[r] /\ OpenLines(r) \subseteq DOMAIN Lines(r)
  BY <1>1, OpenReserved DEF CheckoutInv
<1>3. IsFiniteSet(OpenLines(r))
  <2>1. IsFiniteSet(1..reserved[r])
    BY <1>1, FS_Interval
  <2>2. QED
    BY <1>2, <2>1, FS_Subset
<1>4. \A k \in DOMAIN Lines(r) : Quantities(i, r)[k] \in Int
  BY <1>1, LineType DEF Quantities
<1>5. SumFunctionOnSet(Quantities(i, r), OpenLines(r)) \in Int
  BY <1>2, <1>3, <1>4, SumType
<1>6. QED
  BY <1>2, <1>3, <1>4, <1>5 DEF Open, UnitsOf, Quantities

OpenTyped == \A r \in Checkouts : \A i \in Items : Open(i, r) \in Int

(* What checkouts hold is an integer, before a step ...                     *)
LEMMA OpenTypedInv == IInv => OpenTyped
BY OpenType DEF OpenTyped

(* ... and after it.                                                       *)
LEMMA OpenTypedNext == IInv' => OpenTyped'
BY OpenTypedInv, PTL

(* So is what all of them hold together.                                   *)
LEMMA OutstandingType == ASSUME IInv, NEW i \in Items PROVE Outstanding(i) \in Int
<1> DEFINE f == [r \in Checkouts |-> Open(i, r)]
<1>1. \A r \in Checkouts : f[r] \in Int
  BY OpenTypedInv DEF OpenTyped
<1>2. SumFunctionOnSet(f, Checkouts) \in Int
  <2> HIDE DEF f
  <2>1. QED
    BY <1>1, SumType, HandlerAssumption
<1>3. QED
  BY <1>2 DEF Outstanding, Open

(* The lines a checkout has open stay open, and no others are opened.      *)
SameLines(r) == body'[r] = body[r] /\ OpenLines(r)' = OpenLines(r)

(* They then hold what they held.                                          *)
LEMMA SameUnits ==
  ASSUME NEW r \in Checkouts, NEW i \in Items, SameLines(r)
  PROVE  Open(i, r)' = Open(i, r)
<1>1. Lines(r)' = Lines(r)
  BY DEF SameLines, Lines
<1>2. QED
  BY <1>1 DEF SameLines, Open, UnitsOf

(* A step that keeps every line and every level keeps the account.         *)
LEMMA NothingMoves ==
  ASSUME IInv, StockAccounted, UNCHANGED <<stock, supplied>>,
         \A r \in Checkouts : SameLines(r)
  PROVE  StockAccounted'
<1>1. ASSUME NEW i \in Items
      PROVE  OnShelf(i)' + Outstanding(i)' = supplied'[i]
  <2>1. \A r \in Checkouts : Open(i, r)' = Open(i, r)
    BY SameUnits
  <2>2. [r \in Checkouts |-> Open(i, r)]' = [r \in Checkouts |-> Open(i, r)]
    BY <2>1
  <2>3. Outstanding(i)' = Outstanding(i)
    BY <2>2 DEF Outstanding, Open
  <2>4. OnShelf(i)' = OnShelf(i)
    BY DEF OnShelf
  <2>5. QED
    BY <2>3, <2>4 DEF StockAccounted
<1>2. QED
  BY <1>1 DEF StockAccounted

(* When the lines of one checkout change, so does what is outstanding.     *)
LEMMA OneMoves ==
  ASSUME IInv, IInv', NEW i \in Items, NEW o \in Checkouts,
         \A r \in Checkouts \ {o} : SameLines(r)
  PROVE  Outstanding(i)' = Outstanding(i) + Open(i, o)' - Open(i, o)
<1> DEFINE f == [r \in Checkouts |-> Open(i, r)]
           g == [r \in Checkouts |-> Open(i, r)']
<1>1. \A r \in Checkouts : f[r] \in Int
  BY OpenType
<1>2. \A r \in Checkouts : g[r] \in Int
  BY OpenTypedNext DEF OpenTyped
<1>3. \A r \in Checkouts \ {o} : f[r] = g[r]
  BY SameUnits
<1>4. SumFunctionOnSet(g, Checkouts) = SumFunctionOnSet(f, Checkouts) + g[o] - f[o]
  <2> HIDE DEF f, g
  <2>1. QED
    BY <1>1, <1>2, <1>3, SumUpdate, HandlerAssumption
<1>5. Outstanding(i) = SumFunctionOnSet(f, Checkouts)
  BY DEF Outstanding, Open
<1>6. Outstanding(i)' = SumFunctionOnSet(g, Checkouts)
  BY DEF Outstanding, Open
<1>7. QED
  BY <1>4, <1>5, <1>6

(* The units a line adds to what a checkout has open.                      *)
LEMMA OpensLine ==
  ASSUME IInv, NEW i \in Items, NEW o \in Checkouts, NEW lines, IsFiniteSet(lines),
         lines \subseteq DOMAIN Lines(o), NEW k \in DOMAIN Lines(o), k \notin lines
  PROVE  UnitsOf(i, o, lines \cup {k}) =
           UnitsOf(i, o, lines) + (IF Lines(o)[k].item = i THEN Lines(o)[k].quantity ELSE 0)
<1> DEFINE f == Quantities(i, o)
<1>1. \A j \in DOMAIN Lines(o) : f[j] \in Int
  BY OpenType
<1>2. f[k] = IF Lines(o)[k].item = i THEN Lines(o)[k].quantity ELSE 0
  BY DEF Quantities
<1>3. SumFunctionOnSet(f, lines \cup {k}) = SumFunctionOnSet(f, lines) + f[k]
  <2> HIDE DEF f
  <2>1. QED
    BY <1>1, SumAdd
<1>4. QED
  BY <1>2, <1>3 DEF UnitsOf, Quantities

(* The line k of o is opened: what it asks for leaves the shelf.           *)
Opens(o, k) ==
  /\ k \notin OpenLines(o) /\ OpenLines(o)' = OpenLines(o) \cup {k}
  /\ stock' = [stock EXCEPT ![Lines(o)[k].item] = @ - Lines(o)[k].quantity]

(* It is closed: what it held is on the shelf again.                       *)
Closes(o, k) ==
  /\ k \in OpenLines(o) /\ OpenLines(o)' = OpenLines(o) \ {k}
  /\ stock' = [stock EXCEPT ![Lines(o)[k].item] = @ + Lines(o)[k].quantity]

(* Either way what the shelf loses the checkout gains.                     *)
LEMMA LineMoves ==
  ASSUME IInv, IInv', StockAccounted, supplied' = supplied, NEW o \in Checkouts,
         NEW k \in DOMAIN Lines(o), Opens(o, k) \/ Closes(o, k), body' = body,
         stock[Lines(o)[k].item] # NoKey, stock'[Lines(o)[k].item] # NoKey,
         \A r \in Checkouts \ {o} : SameLines(r)
  PROVE  StockAccounted'
<1>1. ASSUME NEW i \in Items
      PROVE  OnShelf(i)' + Outstanding(i)' = supplied'[i]
  <2> DEFINE q == IF Lines(o)[k].item = i THEN Lines(o)[k].quantity ELSE 0
  <2>1. /\ stock \in [Items -> Levels] /\ stock' \in [Items -> Levels]
        /\ Lines(o)[k].item \in Items /\ Lines(o)[k].quantity \in Int
    BY LineType DEF IInv, TypeOK
  <2>2. OnShelf(i) \in Int /\ q \in Int
    BY <2>1 DEF OnShelf, Levels, NoKey
  <2>3. /\ Opens(o, k) => OnShelf(i)' = OnShelf(i) - q
        /\ Closes(o, k) => OnShelf(i)' = OnShelf(i) + q
    <3>1. CASE Lines(o)[k].item = i
      BY <2>1, <3>1 DEF OnShelf, Opens, Closes
    <3>2. CASE Lines(o)[k].item # i
      BY <2>1, <2>2, <3>2 DEF OnShelf, Opens, Closes
    <3>3. QED
      BY <3>1, <3>2
  <2>4. Lines(o)' = Lines(o) /\ Open(i, o)' = UnitsOf(i, o, OpenLines(o)')
    BY DEF Lines, Open, UnitsOf
  <2>5. /\ Opens(o, k) => Open(i, o)' = Open(i, o) + q
        /\ Closes(o, k) => Open(i, o) = Open(i, o)' + q
    <3>1. IsFiniteSet(OpenLines(o)) /\ OpenLines(o) \subseteq DOMAIN Lines(o)
      BY OpenType
    <3>2. ASSUME Opens(o, k) PROVE Open(i, o)' = Open(i, o) + q
      <4>1. UnitsOf(i, o, OpenLines(o) \cup {k}) = UnitsOf(i, o, OpenLines(o)) + q
        BY <3>1, <3>2, OpensLine DEF Opens
      <4>2. QED
        BY <2>4, <3>2, <4>1 DEF Opens, Open
    <3>3. ASSUME Closes(o, k) PROVE Open(i, o) = Open(i, o)' + q
      <4>1. IsFiniteSet(OpenLines(o) \ {k})
        BY <3>1, FS_RemoveElement
      <4>2. UnitsOf(i, o, (OpenLines(o) \ {k}) \cup {k}) = UnitsOf(i, o, OpenLines(o) \ {k}) + q
        BY <3>1, <4>1, OpensLine
      <4>3. (OpenLines(o) \ {k}) \cup {k} = OpenLines(o)
        BY <3>3 DEF Closes
      <4>4. QED
        BY <2>4, <3>3, <4>2, <4>3 DEF Closes, Open
    <3>4. QED
      BY <3>2, <3>3
  <2>6. Outstanding(i)' = Outstanding(i) + Open(i, o)' - Open(i, o)
    BY OneMoves
  <2>7. Open(i, o) \in Int /\ Open(i, o)' \in Int /\ Outstanding(i) \in Int
    <3>1. OpenTyped /\ OpenTyped'
      BY OpenTypedInv, OpenTypedNext
    <3>2. Outstanding(i) \in Int
      BY <3>1, OutstandingType
    <3>3. QED
      BY <3>1, <3>2 DEF OpenTyped
  <2>8. OnShelf(i) + Outstanding(i) = supplied[i]
    BY DEF StockAccounted
  <2>9. OnShelf(i)' + Outstanding(i)' = OnShelf(i) + Outstanding(i)
    <3> HIDE DEF q
    <3>1. QED
      BY <2>2, <2>3, <2>5, <2>6, <2>7
  <2>10. QED
    BY <2>8, <2>9
<1>2. QED
  BY <1>1 DEF StockAccounted

-----------------------------------------------------------------------------
(* The actions keep the account, by what they do to the lines.             *)

(* A step of checkout r that keeps its lines open, and every level.        *)
LEMMA CheckoutKeeps ==
  ASSUME IInv, StockAccounted, NEW r \in Checkouts, SameLines(r),
         UNCHANGED <<stock, supplied, target, body>>,
         \A o \in Checkouts : o # r =>
           status'[o] = status[o] /\ pc'[o] = pc[o] /\ reserved'[o] = reserved[o],
         \A h \in Releasers : h # r => releasing'[h] = releasing[h]
  PROVE  StockAccounted'
<1>1. ASSUME NEW o \in Checkouts, o # r PROVE SameLines(o)
  BY <1>1, UntouchedLines, HandlerAssumption DEF Untouched, Releasers, SameLines
<1>2. QED
  BY <1>1, NothingMoves

(* Validation: no line is reserved before it and none after it.            *)
LEMMA PlaceOrderAccounts ==
  ASSUME IInv, StockAccounted, NEW r \in Checkouts, PlaceOrder(r) PROVE StockAccounted'
<1> USE DEF PlaceOrder, shelf, orders, inputs, locals, jobs
<1>1. SameLines(r)
  <2>1. /\ status[r] = "none" /\ releasing[r] \subseteq 1..reserved[r] /\ reserved[r] = 0
        /\ pc'[r] \in {"reserving", "done"}
    BY Own DEF CheckoutInv, Answer
  <2>2. releasing[r] = {} /\ 1..reserved[r] = {}
    BY <2>1
  <2>3. OpenLines(r) = {} /\ OpenLines(r)' = {}
    BY <2>1, <2>2 DEF OpenLines
  <2>4. QED
    BY <2>3 DEF SameLines
<1>2. QED
  BY <1>1, Own, CheckoutKeeps DEF Answer, Handlers, Releasers

(* An approved charge keeps the lines held.                                *)
LEMMA ApproveAccounts ==
  ASSUME IInv, StockAccounted, NEW r \in Checkouts, Approve(r) PROVE StockAccounted'
<1> USE DEF Approve, shelf, inputs, locals, jobs
<1>1. SameLines(r)
  BY Own DEF SameLines, OpenLines, CheckoutInv
<1>2. QED
  BY <1>1, Own, CheckoutKeeps DEF Handlers, Releasers

(* A rollback has every line it held in its releaseAll.                    *)
LEMMA RollbackAccounts ==
  ASSUME IInv, StockAccounted, NEW r \in Checkouts, NEW code \in Codes,
         UNCHANGED <<stock, supplied>>, pc[r] \in {"reserving", "charging"},
         StartRelease(r, Rollback(r), code), UNCHANGED <<orders, inputs, reserved>>
  PROVE  StockAccounted'
<1> USE DEF orders, inputs, StartRelease
<1>1. SameLines(r)
  BY Own DEF SameLines, OpenLines, CheckoutInv, Rollback
<1>2. QED
  BY <1>1, Own, CheckoutKeeps DEF Handlers, Releasers

(* A charge that fails is such a rollback.                                 *)
LEMMA GatewayAccounts ==
  ASSUME IInv, StockAccounted, NEW r \in Checkouts, Decline(r) \/ GatewayThrows(r)
  PROVE  StockAccounted'
BY RollbackAccounts DEF Decline, GatewayThrows, shelf, Codes

(* The row that appears sells what the checkout held.                      *)
LEMMA CreateAccounts ==
  ASSUME IInv, StockAccounted, NEW r \in Checkouts, CreateOrder(r) PROVE StockAccounted'
<1> USE DEF CreateOrder, shelf, inputs, locals
<1>1. SameLines(r)
  BY Own DEF SameLines, OpenLines, CheckoutInv
<1>2. QED
  BY <1>1, Own, CheckoutKeeps DEF Handlers, Releasers

(* Publishing keeps the lines sold.                                        *)
LEMMA AddAccounts ==
  ASSUME IInv, StockAccounted, NEW r \in Checkouts, NEW q \in OrderPlacedQueues,
         AddJob(r, q) \/ AddRejects(r, q)
  PROVE  StockAccounted'
<1>1. /\ CheckoutInv(r) /\ TypeOK
      /\ UNCHANGED <<shelf, orders, inputs, locals>>
      /\ \A o \in Checkouts : o # r => pc'[o] = pc[o]
      /\ pc'[r] = pc[r] \/ (pc[r] = "publishing" /\ pc'[r] = "done")
  BY ZenonT(40), Own DEF AddJob, AddRejects, Answer, TypeOK, Handlers, Releasers
<1>2. SameLines(r)
  BY <1>1 DEF OpenLines, SameLines, CheckoutInv, orders, inputs, locals
<1>3. QED
  BY <1>1, <1>2, CheckoutKeeps DEF shelf, orders, inputs, locals

(* A decrement that succeeds opens the next line; one that fails rolls back. *)
LEMMA ReserveAccounts ==
  ASSUME IInv, IInv', StockAccounted, NEW r \in Checkouts, Reserve(r)
  PROVE  StockAccounted'
<1> DEFINE k == reserved[r] + 1
           line == Lines(r)[k]
<1>1. /\ TypeOK /\ CheckoutInv(r) /\ reserved[r] \in Nat /\ pc[r] = "reserving"
      /\ k \in DOMAIN Lines(r) /\ ValidBody(body[r]) /\ status[r] = "none"
      /\ UNCHANGED <<supplied, orders, inputs>>
  BY Own, LenType DEF Reserve, CheckoutInv
<1>2. /\ line.item \in Items /\ line.quantity \in Int /\ line.quantity > 0
      /\ stock \in [Items -> Levels]
  BY <1>1, LineType DEF TypeOK
<1>3. stock' = [stock EXCEPT ![line.item] = AfterDecrement(@, line.quantity)]
  BY DEF Reserve
<1>4. CASE DecrementCode(stock[line.item], line.quantity) # SUCCESS
  <2>1. stock' = stock
    BY <1>2, <1>3, <1>4 DEF AfterDecrement
  <2>2. StartRelease(r, Rollback(r), 409) /\ reserved' = reserved /\ 409 \in Codes
    BY <1>4 DEF Reserve, Codes
  <2>3. QED
    BY <1>1, <2>1, <2>2, RollbackAccounts
<1>5. CASE DecrementCode(stock[line.item], line.quantity) = SUCCESS
  <2>1. stock[line.item] \in Nat /\ line.quantity <= stock[line.item]
    BY <1>2, <1>5 DEF DecrementCode, SUCCESS, NOT_FOUND, INSUFFICIENT, Levels, NoKey
  <2>2. stock' = [stock EXCEPT ![line.item] = @ - line.quantity]
    BY <1>2, <1>3, <1>5 DEF AfterDecrement
  <2>3. stock[line.item] # NoKey /\ stock'[line.item] # NoKey
    BY <1>2, <2>1, <2>2 DEF NoKey
  <2>4. /\ reserved' = [reserved EXCEPT ![r] = k] /\ releasing' = releasing
        /\ pc'[r] \in {"charging", "reserving"}
        /\ \A o \in Checkouts : o # r => pc'[o] = pc[o]
    BY <1>1, <1>5, Own DEF Reserve, Handlers, Releasers
  <2>5. OpenLines(r) = 1..reserved[r] /\ OpenLines(r)' = 1..k
    BY <1>1, <2>4, Own DEF OpenLines, orders
  <2>6. k \notin OpenLines(r) /\ OpenLines(r)' = OpenLines(r) \cup {k}
    BY <1>1, <2>5
  <2>7. ASSUME NEW o \in Checkouts, o # r PROVE SameLines(o)
    BY <1>1, <2>4, <2>7, UntouchedLines, Own DEF Untouched, SameLines, orders, inputs
  <2>8. Opens(r, k)
    BY <2>2, <2>6 DEF Opens
  <2>9. body' = body
    BY <1>1 DEF inputs
  <2>10. QED
    <3> HIDE DEF k, line
    <3>1. k \in DOMAIN Lines(r) /\ supplied' = supplied
      BY <1>1
    <3>2. stock[Lines(r)[k].item] # NoKey /\ stock'[Lines(r)[k].item] # NoKey
      BY <2>3 DEF line
    <3>3. QED
      BY <2>7, <2>8, <2>9, <3>1, <3>2, LineMoves
<1>6. QED
  BY <1>4, <1>5

(* A line that settles with its answer is back on the shelf.               *)
LEMMA ReleaseAccounts ==
  ASSUME IInv, IInv', StockAccounted, Tracked, NEW h \in Releasers, NEW k \in releasing[h],
         ReleaseLine(h, k)
  PROVE  StockAccounted'
<1>0. PICK o \in Checkouts : o = OrderOf(h)
  BY HandlerAssumption DEF OrderOf, Releasers, IInv, TypeOK
<1>1. /\ pc[h] = "releasing" /\ TypeOK /\ h \in Handlers
      /\ stock' = [stock EXCEPT ![Lines(o)[k].item] = AfterRelease(@, Lines(o)[k].quantity)]
      /\ Settle(h, k) /\ UNCHANGED <<supplied, orders, inputs, reserved>>
      /\ \A r \in Checkouts : CheckoutInv(r)
  BY <1>0 DEF ReleaseLine, locals, IInv, Handlers
<1>2. /\ \A g \in Handlers : g # h => pc'[g] = pc[g]
      /\ \A g \in Releasers : g # h => releasing'[g] = releasing[g]
      /\ releasing'[h] = releasing[h] \ {k}
      /\ pc'[h] \in {"releasing", "done"}
  BY <1>1 DEF Settle, TypeOK
<1>3. k \in OpenLines(o) /\ OpenLines(o)' = OpenLines(o) \ {k}
  <2>1. CASE h \in Checkouts
    <3>1. o = h /\ status[h] = "none" /\ status' = status
      BY <1>0, <1>1, <2>1 DEF OrderOf, CheckoutInv, orders
    <3>2. OpenLines(h) = releasing[h] /\ OpenLines(h)' = releasing'[h]
      BY <1>1, <1>2, <3>1 DEF OpenLines
    <3>3. QED
      BY <1>2, <3>1, <3>2
  <2>2. CASE h \in Cancels
    <3>1. o = target[h] /\ target' = target /\ status' = status
      BY <1>0, <1>1, <2>2, HandlerAssumption DEF OrderOf, orders, inputs
    <3>2. /\ status[o] = "cancelled" /\ OpenLines(o) = releasing[h]
          /\ \A d \in Cancels : d # h /\ target[d] = o => releasing[d] = {}
      BY <2>2, <3>1, OneReleaser
    <3>3. OpenLines(o)' = UNION {releasing'[c] : c \in {x \in Cancels : target[x] = o}}
      BY <3>1, <3>2 DEF OpenLines
    <3>4. OpenLines(o)' = releasing[h] \ {k}
      BY <1>2, <2>2, <3>1, <3>2, <3>3 DEF Releasers
    <3>5. QED
      BY <3>2, <3>4
  <2>3. QED
    BY <2>1, <2>2 DEF Releasers
<1>4. ASSUME NEW r \in Checkouts, r # o PROVE SameLines(r)
  <2>1. r # h /\ (h \in Cancels => target[h] = o)
    BY <1>0, <1>4, HandlerAssumption DEF OrderOf
  <2>2. QED
    BY <1>1, <1>2, <1>4, <2>1, UntouchedLines
    DEF Untouched, SameLines, orders, inputs, Handlers, Releasers
<1>5. k \in DOMAIN Lines(o) /\ stock[Lines(o)[k].item] # NoKey
  <2>1. /\ k \in 1..reserved[o] /\ reserved[o] \in Nat /\ reserved[o] <= Len(Lines(o))
        /\ DOMAIN Lines(o) = 1..Len(Lines(o)) /\ Len(Lines(o)) \in Nat
    BY <1>1, <1>3, OpenReserved, Own DEF CheckoutInv
  <2>2. k \in DOMAIN Lines(o)
    BY <2>1
  <2>3. QED
    BY <2>1, <2>2 DEF Tracked
<1>6. /\ Lines(o)[k].item \in Items /\ Lines(o)[k].quantity \in Int
      /\ stock \in [Items -> Levels] /\ Lines(o)[k].quantity > 0
  <2>1. ValidBody(body[o])
    <3>1. k \in 1..reserved[o] /\ reserved[o] \in Nat
      BY <1>3, OpenReserved, Own
    <3>2. QED
      BY <1>1, <3>1 DEF CheckoutInv
  <2>2. QED
    BY <1>1, <1>5, <2>1, LineType DEF TypeOK
<1>7. /\ stock' = [stock EXCEPT ![Lines(o)[k].item] = @ + Lines(o)[k].quantity]
      /\ stock'[Lines(o)[k].item] # NoKey
  BY <1>1, <1>5, <1>6 DEF AfterRelease, Levels, NoKey
<1>8. Closes(o, k)
  BY <1>3, <1>7 DEF Closes
<1>9. body' = body /\ supplied' = supplied
  BY <1>1 DEF inputs
<1>10. QED
  BY <1>4, <1>5, <1>7, <1>8, <1>9, LineMoves

(* Steps of cancellations and updates that leave every line where it is.   *)
LEMMA QuietAccounts ==
  ASSUME IInv, StockAccounted, NEW h \in Cancels \cup Updates,
         ReadForCancel(h) \/ ReadForUpdate(h) \/ Announce(h)
  PROVE  StockAccounted'
<1>1. /\ UNCHANGED <<shelf, orders, inputs, reserved, releasing>>
      /\ \A g \in Handlers : g # h => pc'[g] = pc[g]
  BY DEF ReadForCancel, ReadForUpdate, Announce, Answer, locals, IInv, TypeOK
<1>2. ASSUME NEW r \in Checkouts PROVE SameLines(r)
  BY <1>1, UntouchedLines, HandlerAssumption
  DEF Untouched, SameLines, orders, inputs, Handlers, Releasers
<1>3. QED
  BY <1>1, <1>2, NothingMoves DEF shelf

(* The cancellation that gets the row back has every line in its releaseAll. *)
LEMMA CancelAccounts ==
  ASSUME IInv, StockAccounted, NEW c \in Cancels, CancelIfEligible(c)
  PROVE  StockAccounted'
<1>1. PICK o \in Checkouts : o = target[c]
  BY DEF IInv, TypeOK
<1>2. /\ c \in Handlers /\ c \in Releasers /\ c \notin Checkouts /\ TypeOK
      /\ \A d \in Cancels : CancelInv(d)
      /\ CheckoutInv(o)
  BY HandlerAssumption DEF IInv, Handlers, Releasers
<1>3. /\ UNCHANGED <<shelf, charged, inputs, reserved>>
      /\ \A g \in Handlers : g # c => pc'[g] = pc[g]
      /\ \A g \in Releasers : g # c => releasing'[g] = releasing[g]
      /\ \A r \in Checkouts : r # o => status'[r] = status[r]
  BY <1>1, <1>2 DEF CancelIfEligible, Answer, StartRelease, TypeOK
<1>4. \/ status' = status /\ releasing' = releasing
      \/ /\ status[o] \in CANCELLABLE_STATUSES /\ status'[o] = "cancelled"
         /\ releasing'[c] = DOMAIN Lines(o)
  BY <1>1, <1>2 DEF CancelIfEligible, EligibleRow, StartRelease, TypeOK
<1>5. ASSUME NEW r \in Checkouts, r # o PROVE SameLines(r)
  BY <1>1, <1>2, <1>3, <1>5, UntouchedLines, HandlerAssumption
  DEF Untouched, SameLines, inputs, Handlers, Releasers
<1>6. SameLines(o)
  <2>1. CASE status' = status /\ releasing' = releasing
    BY <1>2, <1>3, <2>1, UntouchedLines, HandlerAssumption
    DEF Untouched, SameLines, inputs, Handlers, Releasers
  <2>2. CASE /\ status[o] \in CANCELLABLE_STATUSES /\ status'[o] = "cancelled"
             /\ releasing'[c] = DOMAIN Lines(o)
    <3>1. /\ status[o] \notin {"none", "cancelled"} /\ DOMAIN Lines(o) = 1..reserved[o]
      BY <1>2, <2>2, LenType DEF CANCELLABLE_STATUSES, CheckoutInv
    <3>2. \A d \in Cancels : d # c /\ target[d] = o => releasing'[d] = {}
      <4>1. \A d \in Cancels : target[d] = o => releasing[d] = {}
        BY <1>2, <3>1 DEF CancelInv
      <4>2. QED
        BY <1>3, <4>1 DEF Releasers
    <3>3. /\ OpenLines(o) = 1..reserved[o]
          /\ OpenLines(o)' = UNION {releasing'[d] : d \in {x \in Cancels : target[x] = o}}
      BY <1>3, <2>2, <3>1 DEF OpenLines, inputs
    <3>4. OpenLines(o)' = DOMAIN Lines(o)
      BY SMTT(30), <1>1, <2>2, <3>2, <3>3
    <3>5. QED
      BY <1>3, <3>1, <3>3, <3>4 DEF SameLines, inputs
  <2>3. QED
    BY <1>4, <2>1, <2>2
<1>7. QED
  BY <1>3, <1>5, <1>6, NothingMoves DEF shelf

(* An advanced order keeps its lines.                                      *)
LEMMA UpdateAccounts ==
  ASSUME IInv, StockAccounted, NEW a \in Updates, UpdateStatus(a) \/ UpdateThrows(a)
  PROVE  StockAccounted'
<1>1. PICK o \in Checkouts : o = target[a]
  BY DEF IInv, TypeOK
<1>2. a \in Handlers /\ a \notin Releasers /\ TypeOK /\ UpdateInv(a) /\ CheckoutInv(o)
  BY HandlerAssumption DEF IInv, Handlers
<1>3. /\ UNCHANGED <<shelf, charged, inputs, locals>> /\ pc[a] = "updating"
      /\ \A g \in Handlers : g # a => pc'[g] = pc[g]
      /\ \A r \in Checkouts : r # o => status'[r] = status[r]
      /\ status' = status \/ (status[o] = read[a] /\ status'[o] = wanted[a])
  BY <1>1, <1>2 DEF UpdateStatus, UpdateThrows, ExpectedRow, Answer, locals, TypeOK
<1>4. ASSUME NEW r \in Checkouts, status'[r] = status[r] PROVE SameLines(r)
  BY <1>2, <1>3, <1>4, UntouchedLines
  DEF Untouched, SameLines, inputs, locals, Handlers, Releasers
<1>5. ASSUME status[o] = read[a], status'[o] = wanted[a] PROVE SameLines(o)
  <2>1. status[o] \notin {"none", "cancelled"} /\ status'[o] \notin {"none", "cancelled"}
    BY <1>2, <1>3, <1>5, AdvanceEdge DEF UpdateInv
  <2>2. OpenLines(o) = 1..reserved[o] /\ OpenLines(o)' = 1..reserved[o]
    BY <1>3, <2>1 DEF OpenLines, locals
  <2>3. QED
    BY <1>3, <2>2 DEF SameLines, inputs
<1>6. \A r \in Checkouts : SameLines(r)
  BY <1>3, <1>4, <1>5
<1>7. QED
  BY <1>3, <1>6, NothingMoves DEF shelf

(* A write of the administrator supplies what it adds to the shelf.        *)
LEMMA SetStockAccounts ==
  ASSUME IInv, StockAccounted, NEW i \in Items, NEW level \in AdminLevels,
         SetStock(i, level)
  PROVE  StockAccounted'
<1> USE DEF SetStock, orders, inputs, locals, jobs
<1>1. \A r \in Checkouts : SameLines(r)
  BY UntouchedLines DEF Untouched, SameLines
<1>2. ASSUME NEW j \in Items
      PROVE  OnShelf(j)' + Outstanding(j)' = supplied'[j]
  <2>1. \A r \in Checkouts : Open(j, r)' = Open(j, r)
    BY <1>1, SameUnits
  <2>2. [r \in Checkouts |-> Open(j, r)]' = [r \in Checkouts |-> Open(j, r)]
    BY <2>1
  <2>3. Outstanding(j)' = Outstanding(j) /\ Outstanding(j) \in Int
    BY <2>2, OutstandingType DEF Outstanding, Open
  <2>4. /\ stock[j] \in Levels /\ supplied[j] \in Int /\ level \in Nat
        /\ stock \in [Items -> Levels] /\ supplied \in [Items -> Int]
    BY StockAssumption DEF IInv, TypeOK
  <2>5. OnShelf(j) \in Int /\ OnShelf(j) + Outstanding(j) = supplied[j]
    BY <2>4 DEF OnShelf, StockAccounted, Levels, NoKey
  <2>6. CASE j = i
    <3>1. supplied'[j] = supplied[j] + level - OnShelf(j) /\ OnShelf(j)' = level
      BY <2>4, <2>6 DEF OnShelf, NoKey
    <3>2. QED
      BY <2>3, <2>4, <2>5, <3>1
  <2>7. CASE j # i
    <3>1. supplied'[j] = supplied[j] /\ OnShelf(j)' = OnShelf(j)
      BY <2>4, <2>7 DEF OnShelf
    <3>2. QED
      BY <2>3, <2>5, <3>1
  <2>8. QED
    BY <2>6, <2>7
<1>3. QED
  BY <1>2 DEF StockAccounted

-----------------------------------------------------------------------------
(* Keys are never deleted.                                                 *)

KeysStay == \A i \in Items : stock[i] # NoKey => stock'[i] # NoKey

(* The line a handler is about to reserve or has to release is a valid     *)
(* body's, so the scripts keep its item's key.                             *)
LEMMA ScriptKeeps ==
  ASSUME TypeOK, NEW r \in Checkouts, NEW k \in DOMAIN Lines(r), ValidBody(body[r]),
         \/ stock' = [stock EXCEPT ![Lines(r)[k].item] = AfterDecrement(@, Lines(r)[k].quantity)]
         \/ stock' = [stock EXCEPT ![Lines(r)[k].item] = AfterRelease(@, Lines(r)[k].quantity)]
  PROVE  KeysStay
<1>1. /\ stock \in [Items -> Levels] /\ Lines(r)[k].item \in Items
      /\ Lines(r)[k].quantity \in Int /\ Lines(r)[k].quantity > 0
  BY LineType DEF TypeOK
<1>2. ASSUME NEW level \in Nat
      PROVE  /\ AfterDecrement(level, Lines(r)[k].quantity) \in Nat
             /\ AfterRelease(level, Lines(r)[k].quantity) \in Nat
  BY <1>1 DEF AfterDecrement, AfterRelease, DecrementCode, SUCCESS, INSUFFICIENT, NOT_FOUND, NoKey
<1>3. ASSUME NEW i \in Items, stock[i] # NoKey PROVE stock'[i] # NoKey
  <2>1. stock[i] \in Nat
    BY <1>1, <1>3 DEF Levels
  <2>2. stock'[i] \in Nat
    BY <1>1, <1>2, <2>1
  <2>3. QED
    BY <2>2 DEF NoKey
<1>4. QED
  BY <1>3 DEF KeysStay

(* No step deletes a key.                                                  *)
LEMMA NextKeeps == ASSUME IInv, [Next]_vars PROVE KeysStay
<1>1. ASSUME stock' = stock PROVE KeysStay
  BY <1>1 DEF KeysStay
<1>2. ASSUME NEW r \in Checkouts, Reserve(r) \/ DecrementRejects(r) PROVE KeysStay
  <2>1. TypeOK /\ CheckoutInv(r) /\ reserved[r] \in Nat /\ pc[r] = "reserving"
    BY <1>2, Own DEF Reserve, DecrementRejects
  <2>2. reserved[r] + 1 \in DOMAIN Lines(r) /\ ValidBody(body[r])
    BY <2>1, LenType DEF CheckoutInv
  <2>3. PICK k \in DOMAIN Lines(r) : k = reserved[r] + 1
    BY <2>2
  <2>4. \/ stock' = stock
        \/ stock' = [stock EXCEPT ![Lines(r)[k].item] = AfterDecrement(@, Lines(r)[k].quantity)]
    BY <1>2, <2>3 DEF Reserve, DecrementRejects
  <2>5. QED
    BY <1>1, <2>1, <2>2, <2>4, ScriptKeeps
<1>3. ASSUME NEW h \in Releasers, NEW k \in releasing[h], ReleaseLine(h, k) \/ ReleaseRejects(h, k)
      PROVE  KeysStay
  <2>1. PICK o \in Checkouts : o = OrderOf(h)
    BY HandlerAssumption DEF OrderOf, Releasers, IInv, TypeOK
  <2>2. TypeOK /\ k \in DOMAIN Lines(o) /\ ValidBody(body[o])
    <3>1. CASE h \in Checkouts
      <4>1. o = h /\ CheckoutInv(h) /\ TypeOK /\ reserved[h] \in Nat
        BY <2>1, <3>1, Own DEF OrderOf
      <4>2. k \in 1..reserved[h] /\ reserved[h] > 0
        BY <4>1 DEF CheckoutInv
      <4>3. QED
        BY <4>1, <4>2, LenType DEF CheckoutInv
    <3>2. CASE h \in Cancels
      <4>1. o = target[h] /\ CancelInv(h) /\ TypeOK /\ CheckoutInv(o)
        BY <2>1, <3>2, HandlerAssumption DEF OrderOf, IInv
      <4>2. k \in DOMAIN Lines(o) /\ status[o] = "cancelled"
        BY <4>1 DEF CancelInv
      <4>3. QED
        BY <4>1, <4>2 DEF CheckoutInv
    <3>3. QED
      BY <3>1, <3>2 DEF Releasers
  <2>3. \/ stock' = stock
        \/ stock' = [stock EXCEPT ![Lines(o)[k].item] = AfterRelease(@, Lines(o)[k].quantity)]
    BY <1>3, <2>1 DEF ReleaseLine, ReleaseRejects
  <2>4. QED
    BY <1>1, <2>2, <2>3, ScriptKeeps
<1>4. ASSUME NEW i \in Items, NEW level \in AdminLevels, SetStock(i, level) PROVE KeysStay
  BY <1>4, StockAssumption DEF SetStock, KeysStay, IInv, TypeOK, NoKey
<1>5. \/ stock' = stock
      \/ \E r \in Checkouts : Reserve(r) \/ DecrementRejects(r)
      \/ \E h \in Releasers : \E k \in releasing[h] : ReleaseLine(h, k) \/ ReleaseRejects(h, k)
      \/ \E i \in Items, level \in AdminLevels : SetStock(i, level)
  <2> USE DEF shelf, vars
  <2>1. CASE Arrive
    BY <2>1 DEF Arrive, PlaceOrder, ReadForCancel, ReadForUpdate
  <2>2. ASSUME NEW r \in Checkouts, CheckoutStep(r) \/ CheckoutFault(r)
        PROVE  stock' = stock \/ Reserve(r) \/ DecrementRejects(r)
    BY <2>2 DEF CheckoutStep, CheckoutFault, Approve, Decline, CreateOrder, AddJob,
       GatewayThrows, CreateOrderThrows, AddRejects
  <2>3. ASSUME NEW c \in Cancels, CancelIfEligible(c) \/ CancelThrows(c) PROVE stock' = stock
    BY <2>3 DEF CancelIfEligible, CancelThrows
  <2>4. ASSUME NEW a \in Updates, UpdateStatus(a) \/ UpdateThrows(a) \/ Announce(a)
        PROVE  stock' = stock
    BY <2>4 DEF UpdateStatus, UpdateThrows, Announce
  <2>5. QED
    BY <2>1, <2>2, <2>3, <2>4 DEF Next, ReleaseStep, ReleaseFault, Crash
<1>6. QED
  BY <1>1, <1>2, <1>3, <1>4, <1>5

(* What is reserved grows only where the decrement succeeded.              *)
LEMMA ReservedGrows ==
  ASSUME IInv, [Next]_vars, NEW r \in Checkouts
  PROVE  /\ body'[r] = body[r]
         /\ \/ reserved'[r] = reserved[r]
            \/ /\ reserved'[r] = reserved[r] + 1
               /\ stock[Lines(r)[reserved[r] + 1].item] # NoKey
<1> USE DEF inputs, locals, vars
<1>1. ASSUME NEW s \in Checkouts, Reserve(s)
      PROVE  /\ body' = body
             /\ \/ reserved'[r] = reserved[r]
                \/ /\ reserved'[r] = reserved[r] + 1
                   /\ stock[Lines(r)[reserved[r] + 1].item] # NoKey
  BY <1>1, Own DEF Reserve, DecrementCode, SUCCESS, NOT_FOUND
<1>2. CASE Arrive
  BY <1>2 DEF Arrive, PlaceOrder, ReadForCancel, ReadForUpdate
<1>3. ASSUME NEW s \in Checkouts, CheckoutStep(s) \/ CheckoutFault(s)
      PROVE  Reserve(s) \/ UNCHANGED <<body, reserved>>
  BY <1>3 DEF CheckoutStep, CheckoutFault, Approve, Decline, CreateOrder, AddJob,
     DecrementRejects, GatewayThrows, CreateOrderThrows, AddRejects
<1>4. ASSUME NEW h \in Releasers, ReleaseStep(h) \/ ReleaseFault(h)
      PROVE  UNCHANGED <<body, reserved>>
  BY <1>4 DEF ReleaseStep, ReleaseFault, ReleaseLine, ReleaseRejects
<1>5. ASSUME NEW c \in Cancels, CancelIfEligible(c) \/ CancelThrows(c)
      PROVE  UNCHANGED <<body, reserved>>
  BY <1>5 DEF CancelIfEligible, CancelThrows
<1>6. ASSUME NEW a \in Updates, UpdateStatus(a) \/ UpdateThrows(a) \/ Announce(a)
      PROVE  UNCHANGED <<body, reserved>>
  BY <1>6 DEF UpdateStatus, UpdateThrows, Announce
<1>7. QED
  BY <1>1, <1>2, <1>3, <1>4, <1>5, <1>6 DEF Next, Crash, SetStock

(* So a reserved line's item stays tracked.                                *)
LEMMA TrackedStep == ASSUME IInv, Tracked, [Next]_vars PROVE Tracked'
<1>1. ASSUME NEW r \in Checkouts, NEW k \in 1..reserved'[r]
      PROVE  stock'[Lines(r)'[k].item] # NoKey
  <2>1. Lines(r)' = Lines(r)
    BY ReservedGrows DEF Lines
  <2>2. stock[Lines(r)[k].item] # NoKey
    <3>1. k \in 1..reserved[r] \/ k = reserved[r] + 1
      BY ReservedGrows, Own
    <3>2. CASE k \in 1..reserved[r]
      BY <3>2 DEF Tracked
    <3>3. CASE k = reserved[r] + 1 /\ k \notin 1..reserved[r]
      BY <3>3, ReservedGrows
    <3>4. QED
      BY <3>1, <3>2, <3>3
  <2>3. Lines(r)[k].item \in Items
    <3>1. IInv' /\ k \in 1..reserved'[r]
      BY NextIInv
    <3>2. k \in DOMAIN Lines(r)
      <4>1. TypeOK /\ reserved'[r] \in Nat /\ reserved'[r] <= Len(Lines(r))
        BY <2>1, <3>1, Own DEF IInv, TypeOK, CheckoutInv
      <4>2. QED
        BY <4>1, LenType
    <3>3. QED
      BY <3>2, LineType, Own
  <2>4. QED
    BY <2>1, <2>2, <2>3, NextKeeps DEF KeysStay
<1>2. QED
  BY <1>1 DEF Tracked

-----------------------------------------------------------------------------

(* What may fail in a behaviour is settled at its start.                   *)
LEMMA PlanKept == ASSUME [Next]_vars PROVE failing' = failing
<1> USE DEF inputs, vars
<1>1. CASE Arrive
  BY <1>1 DEF Arrive, PlaceOrder, ReadForCancel, ReadForUpdate
<1>2. ASSUME NEW r \in Checkouts, CheckoutStep(r) \/ CheckoutFault(r) PROVE failing' = failing
  BY <1>2 DEF CheckoutStep, CheckoutFault, Reserve, Approve, Decline, CreateOrder, AddJob,
     DecrementRejects, GatewayThrows, CreateOrderThrows, AddRejects
<1>3. ASSUME NEW h \in Releasers, ReleaseStep(h) \/ ReleaseFault(h) PROVE failing' = failing
  BY <1>3 DEF ReleaseStep, ReleaseFault, ReleaseLine, ReleaseRejects
<1>4. ASSUME NEW c \in Cancels, CancelIfEligible(c) \/ CancelThrows(c) PROVE failing' = failing
  BY <1>4 DEF CancelIfEligible, CancelThrows
<1>5. ASSUME NEW a \in Updates, UpdateStatus(a) \/ UpdateThrows(a) \/ Announce(a)
      PROVE  failing' = failing
  BY <1>5 DEF UpdateStatus, UpdateThrows, Announce
<1>6. QED
  BY <1>1, <1>2, <1>3, <1>4, <1>5 DEF Next, Crash, SetStock

(* Nothing is reserved at the start, and all of it is on the shelf.        *)
LEMMA InitAccounts == Init => Tracked /\ StockAccounted
<1> SUFFICES ASSUME Init PROVE Tracked /\ StockAccounted
  OBVIOUS
<1>1. IInv
  BY InitIInv
<1>2. Tracked
  BY DEF Init, Tracked
<1>3. ASSUME NEW i \in Items PROVE OnShelf(i) + Outstanding(i) = supplied[i]
  <2>1. ASSUME NEW r \in Checkouts PROVE Open(i, r) = 0
    <3>1. OpenLines(r) = {}
      BY <1>1, OpenReserved DEF Init
    <3>2. QED
      BY <3>1, SumEmpty DEF Open, UnitsOf
  <2> DEFINE f == [r \in Checkouts |-> Open(i, r)]
  <2>2. \A r \in Checkouts : f[r] = 0
    BY <2>1
  <2>3. SumFunctionOnSet(f, Checkouts) = 0
    <3> HIDE DEF f
    <3>1. QED
      BY <2>2, SumZero, HandlerAssumption
  <2>4. Outstanding(i) = 0
    BY <2>3 DEF Outstanding, Open
  <2>5. OnShelf(i) = supplied[i] /\ supplied[i] \in Int
    BY <1>1 DEF Init, OnShelf, IInv, TypeOK
  <2>6. QED
    BY <2>4, <2>5
<1>4. QED
  BY <1>2, <1>3 DEF StockAccounted

(* Each step keeps the account while no call about stock is lost.          *)
LEMMA NextAccounts ==
  ASSUME IInv, IInv', Lossless, Tracked, StockAccounted, [Next]_vars
  PROVE  StockAccounted'
<1> USE DEF Lossless, Lossy
<1>1. CASE Arrive
  BY <1>1, PlaceOrderAccounts, QuietAccounts DEF Arrive
<1>2. ASSUME NEW r \in Checkouts, CheckoutStep(r) PROVE StockAccounted'
  BY <1>2, ReserveAccounts, ApproveAccounts, GatewayAccounts, CreateAccounts, AddAccounts
  DEF CheckoutStep
<1>3. ASSUME NEW r \in Checkouts, CheckoutFault(r) PROVE StockAccounted'
  BY <1>3, GatewayAccounts, AddAccounts DEF CheckoutFault, DecrementRejects, CreateOrderThrows
<1>4. ASSUME NEW h \in Releasers, ReleaseStep(h) \/ ReleaseFault(h) PROVE StockAccounted'
  BY <1>4, ReleaseAccounts DEF ReleaseStep, ReleaseFault, ReleaseRejects
<1>5. ASSUME NEW c \in Cancels, CancelIfEligible(c) \/ CancelThrows(c) PROVE StockAccounted'
  BY <1>5, CancelAccounts DEF CancelThrows
<1>6. ASSUME NEW a \in Updates, UpdateStatus(a) \/ UpdateThrows(a) \/ Announce(a)
      PROVE  StockAccounted'
  BY <1>6, UpdateAccounts, QuietAccounts
<1>7. CASE \E i \in Items, level \in AdminLevels : SetStock(i, level)
  BY <1>7, SetStockAccounts
<1>8. CASE UNCHANGED vars
  <2>1. UNCHANGED <<stock, supplied>> /\ \A r \in Checkouts : SameLines(r)
    BY <1>8 DEF vars, SameLines, OpenLines
  <2>2. QED
    BY <2>1, NothingMoves
<1>9. ~Crash
  BY DEF Crash
<1>10. QED
  BY <1>1, <1>2, <1>3, <1>4, <1>5, <1>6, <1>7, <1>8, <1>9 DEF Next

(* For any checkouts, cancellations, updates and writes of administrators, *)
(* and with a gateway, a queue or a status update that may fail at any     *)
(* time: every unit ever supplied is on the shelf, held by one checkout,   *)
(* sold to one order or on its way back.                                   *)
THEOREM NeitherLeaksNorMints == Spec /\ Lossless => []StockAccounted
<1>1. Init /\ Lossless => Accounted
  BY InitIInv, InitAccounts DEF Accounted
<1>2. Accounted /\ [Next]_vars => Accounted'
  <2> SUFFICES ASSUME Accounted, [Next]_vars PROVE Accounted'
    OBVIOUS
  <2>1. IInv' /\ Tracked'
    BY NextIInv, TrackedStep DEF Accounted
  <2>2. StockAccounted'
    BY <2>1, NextAccounts DEF Accounted
  <2>3. Lossless'
    BY PlanKept DEF Accounted, Lossless
  <2>4. QED
    BY <2>1, <2>2, <2>3 DEF Accounted
<1>3. Accounted => StockAccounted
  BY DEF Accounted
<1>4. QED
  BY <1>1, <1>2, <1>3, PTL DEF Spec

-----------------------------------------------------------------------------
(* The charges.                                                            *)

(* The faults after a charge that the code answers without an order.       *)
Unhandled == {"create", "publish"}
ChargesHandled == failing \cap Unhandled = {}

(* Between its charge and its answer a checkout is in createOrder or has   *)
(* its row and at least one add in flight.                                 *)
ChargeInv(r) ==
  /\ r \in charged => pc[r] \in {"committing", "publishing", "done", "crashed"}
  /\ r \in charged /\ pc[r] = "done" =>
       reply[r] = 201 /\ status[r] # "none" /\ OrderPlacedQueues \X {r} \subseteq published
  /\ pc[r] = "publishing" =>
       adding[r] # {} /\ \A q \in OrderPlacedQueues \ adding[r] : <<q, r>> \in published
  /\ adding[r] # {} => pc[r] = "publishing"

Charged == IInv /\ ChargesHandled /\ \A r \in Checkouts : ChargeInv(r)

(* Rows are never deleted.                                                 *)
LEMMA RowsStay ==
  ASSUME IInv, [Next]_vars, NEW r \in Checkouts, status[r] # "none"
  PROVE  status'[r] # "none"
BY RowChange DEF StatusEdges

(* What a step of another handler leaves to checkout r.                    *)
LEMMA ChargeFrame ==
  ASSUME IInv, [Next]_vars, NEW r \in Checkouts, ChargeInv(r),
         r \in charged' <=> r \in charged, pc'[r] = pc[r], reply'[r] = reply[r],
         adding'[r] = adding[r], published \subseteq published'
  PROVE  ChargeInv(r)'
BY RowsStay DEF ChargeInv

(* The checkout's own steps.                                               *)
LEMMA CheckoutCharges ==
  ASSUME IInv, [Next]_vars, ChargesHandled, NEW r \in Checkouts, ChargeInv(r),
         PlaceOrder(r) \/ CheckoutStep(r) \/ CheckoutFault(r)
  PROVE  ChargeInv(r)'
<1>0. /\ CheckoutInv(r) /\ TypeOK /\ r \in Handlers /\ r \in Releasers
      /\ pc \in [Handlers -> Places] /\ reply \in [Handlers -> Codes]
      /\ adding \in [Checkouts -> SUBSET OrderPlacedQueues]
  BY Own DEF TypeOK
<1> USE <1>0
<1>1. CASE PlaceOrder(r) \/ Reserve(r) \/ Decline(r) \/ DecrementRejects(r) \/ GatewayThrows(r)
  <2>1. /\ pc[r] \in {"idle", "reserving", "charging"} /\ r \notin charged
        /\ charged' = charged /\ adding'[r] = {} /\ pc'[r] # "publishing"
    <3>1. pc[r] \in {"idle", "reserving", "charging"} /\ UNCHANGED <<charged, adding>>
      BY <1>1 DEF PlaceOrder, Reserve, Decline, DecrementRejects, GatewayThrows, orders, jobs
    <3>2. ASSUME NEW code, Answer(r, code) PROVE pc'[r] # "publishing"
      BY <3>2 DEF Answer
    <3>3. ASSUME NEW code, StartRelease(r, Rollback(r), code) PROVE pc'[r] # "publishing"
      BY <3>3 DEF StartRelease
    <3>4. ASSUME PlaceOrder(r) \/ DecrementRejects(r) PROVE pc'[r] # "publishing"
      BY ZenonT(60), <3>2, <3>4 DEF PlaceOrder, DecrementRejects
    <3>5. ASSUME Decline(r) \/ GatewayThrows(r) PROVE pc'[r] # "publishing"
      BY <3>3, <3>5 DEF Decline, GatewayThrows
    <3>6. ASSUME Reserve(r) PROVE pc'[r] # "publishing"
      BY <3>3, <3>6 DEF Reserve
    <3>7. QED
      BY <1>1, <3>1, <3>4, <3>5, <3>6 DEF ChargeInv
  <2>2. QED
    BY <2>1 DEF ChargeInv
<1>2. CASE Approve(r)
  BY <1>2 DEF Approve, ChargeInv, jobs
<1>3. CASE CreateOrder(r)
  BY <1>3 DEF CreateOrder, ChargeInv, CheckoutInv, OrderPlacedQueues
<1>4. ASSUME NEW q \in OrderPlacedQueues, AddJob(r, q) PROVE ChargeInv(r)'
  <2>1. pc[r] = "publishing" /\ q \in adding[r] /\ status[r] # "none" /\ r \in charged
    BY <1>4 DEF AddJob, ChargeInv, CheckoutInv
  <2>2. /\ adding'[r] = adding[r] \ {q} /\ published' = published \cup {<<q, r>>}
        /\ charged' = charged /\ status' = status
    BY <1>4 DEF AddJob, orders
  <2>3. \A p \in OrderPlacedQueues \ adding'[r] : <<p, r>> \in published'
    BY <2>1, <2>2 DEF ChargeInv
  <2>4. CASE adding[r] = {q}
    <3>1. pc'[r] = "done" /\ reply'[r] = 201 /\ adding'[r] = {}
      BY <1>4, <2>1, <2>2, <2>4 DEF AddJob, LastAdd, Answer
    <3>2. OrderPlacedQueues \X {r} \subseteq published'
      BY <2>3, <3>1
    <3>3. QED
      BY <2>1, <2>2, <3>1, <3>2 DEF ChargeInv
  <2>5. CASE adding[r] # {q}
    <3>1. pc'[r] = "publishing" /\ adding'[r] # {}
      BY <1>4, <2>1, <2>2, <2>5 DEF AddJob, LastAdd
    <3>2. QED
      BY <2>1, <2>2, <2>3, <3>1 DEF ChargeInv
  <2>6. QED
    BY <2>4, <2>5
<1>5. ~CreateOrderThrows(r) /\ \A q \in OrderPlacedQueues : ~AddRejects(r, q)
  BY DEF CreateOrderThrows, AddRejects, ChargesHandled, Unhandled
<1>6. QED
  BY <1>1, <1>2, <1>3, <1>4, <1>5 DEF CheckoutStep, CheckoutFault

(* Everybody else's steps.                                                 *)
LEMMA OthersCharge ==
  ASSUME IInv, [Next]_vars, NEW r \in Checkouts, ChargeInv(r),
         ~(PlaceOrder(r) \/ CheckoutStep(r) \/ CheckoutFault(r))
  PROVE  ChargeInv(r)'
<1> DEFINE Frame == /\ r \in charged' <=> r \in charged
                    /\ pc'[r] = pc[r] /\ reply'[r] = reply[r] /\ adding'[r] = adding[r]
                    /\ published \subseteq published'
<1>0. /\ r \in Handlers /\ r \notin Cancels /\ r \notin Updates /\ CheckoutInv(r)
      /\ pc \in [Handlers -> Places] /\ reply \in [Handlers -> Codes] /\ r \in Releasers
      /\ adding \in [Checkouts -> SUBSET OrderPlacedQueues]
  BY Own, HandlerAssumption DEF IInv, TypeOK
<1> USE <1>0
<1>1. ASSUME NEW o \in Checkouts, o # r, PlaceOrder(o) \/ CheckoutStep(o) \/ CheckoutFault(o)
      PROVE  Frame
  <2>1. CASE PlaceOrder(o) \/ Reserve(o) \/ Decline(o) \/ DecrementRejects(o) \/ GatewayThrows(o)
    <3>1. UNCHANGED <<charged, adding, published>>
      BY ZenonT(60), <2>1 DEF PlaceOrder, Reserve, Decline, DecrementRejects, GatewayThrows, orders, jobs
    <3>2. ASSUME NEW code, NEW lines, Answer(o, code) \/ StartRelease(o, lines, code)
          PROVE  pc'[r] = pc[r] /\ reply'[r] = reply[r]
      BY <1>1, <3>2 DEF Answer, StartRelease
    <3>3. CASE PlaceOrder(o) \/ DecrementRejects(o)
      BY ZenonT(60), <1>1, <3>1, <3>2, <3>3 DEF PlaceOrder, DecrementRejects
    <3>4. CASE Decline(o) \/ GatewayThrows(o)
      BY <3>1, <3>2, <3>4 DEF Decline, GatewayThrows
    <3>5. CASE Reserve(o)
      BY <1>1, <3>1, <3>2, <3>5 DEF Reserve
    <3>6. QED
      BY <2>1, <3>3, <3>4, <3>5
  <2>2. CASE Approve(o) \/ CreateOrder(o) \/ CreateOrderThrows(o)
    BY <1>1, <2>2 DEF Approve, CreateOrder, CreateOrderThrows, Answer, jobs
  <2>3. ASSUME NEW q \in OrderPlacedQueues, AddJob(o, q) \/ AddRejects(o, q) PROVE Frame
    BY <1>1, <2>3 DEF AddJob, AddRejects, Answer, orders
  <2>4. QED
    BY <1>1, <2>1, <2>2, <2>3 DEF CheckoutStep, CheckoutFault
<1>2. ASSUME NEW c \in Cancels, ReadForCancel(c) \/ CancelIfEligible(c) \/ CancelThrows(c)
      PROVE  Frame
  BY <1>2 DEF ReadForCancel, CancelIfEligible, CancelThrows, StartRelease, Answer, orders, jobs
<1>3. ASSUME NEW a \in Updates,
             ReadForUpdate(a) \/ UpdateStatus(a) \/ UpdateThrows(a) \/ Announce(a)
      PROVE  Frame
  <2>1. CASE ReadForUpdate(a) \/ UpdateThrows(a)
    BY <2>1 DEF ReadForUpdate, UpdateThrows, Answer, orders, jobs
  <2>2. CASE UpdateStatus(a)
    BY <2>2 DEF UpdateStatus, Answer, orders, jobs
  <2>3. CASE Announce(a)
    BY <2>3 DEF Announce, Answer, orders, jobs
  <2>. QED BY <1>3, <2>1, <2>2, <2>3
<1>4. ASSUME NEW h \in Releasers, NEW k \in releasing[h], ReleaseLine(h, k) \/ ReleaseRejects(h, k)
      PROVE  ChargeInv(r)'
  <2>1. UNCHANGED <<charged, status, reply, adding, published>>
    BY <1>4 DEF ReleaseLine, ReleaseRejects, orders, jobs
  <2>2. CASE h # r
    <3>1. pc'[r] = pc[r]
      BY <1>4, <2>2 DEF ReleaseLine, ReleaseRejects, Settle
    <3>2. QED
      BY <2>1, <3>1, ChargeFrame
  <2>3. CASE h = r
    <3>1. pc[r] = "releasing" /\ pc'[r] \in {"releasing", "done"}
      BY <1>4, <2>3 DEF ReleaseLine, ReleaseRejects, Settle
    <3>2. QED
      BY <2>1, <3>1 DEF ChargeInv
  <2>4. QED
    BY <2>2, <2>3
<1>5. CASE Crash
  <2>1. /\ UNCHANGED <<charged, status, reply, published>> /\ adding'[r] = {}
        /\ pc'[r] = IF Active(r) THEN "crashed" ELSE pc[r]
    BY <1>5 DEF Crash, orders
  <2>2. QED
    BY <2>1 DEF Active, ChargeInv
<1>6. CASE \E i \in Items, level \in AdminLevels : SetStock(i, level)
  <2>1. Frame
    BY <1>6 DEF SetStock, orders, jobs
  <2>2. QED
    BY <2>1, ChargeFrame
<1>7. CASE UNCHANGED vars
  <2>1. Frame
    BY <1>7 DEF vars
  <2>2. QED
    BY <2>1, ChargeFrame
<1>8. Frame => ChargeInv(r)'
  BY ChargeFrame
<1>9. QED
  <2> HIDE DEF Frame
  <2>1. QED
    BY <1>1, <1>2, <1>3, <1>4, <1>5, <1>6, <1>7, <1>8 DEF Next, Arrive, ReleaseStep, ReleaseFault

(* For any handlers, interleavings and crashes, and with any fault before  *)
(* the charge, around a cancellation, a release or a status update: a      *)
(* patron who was charged and answered has an order, and its OrderPlaced   *)
(* reached both queues.  The two faults excluded are those no handler      *)
(* undoes: a commit, and an enqueue, that fail after the charge.           *)
THEOREM NoMoneyKept == Spec /\ ChargesHandled => []ChargedIsOrdered
<1>1. Init /\ ChargesHandled => Charged
  <2> SUFFICES ASSUME Init, ChargesHandled, NEW r \in Checkouts PROVE ChargeInv(r)
    BY InitIInv DEF Charged
  <2>1. QED
    BY DEF Init, ChargeInv, Handlers, Releasers
<1>2. Charged /\ [Next]_vars => Charged'
  <2> SUFFICES ASSUME Charged, [Next]_vars PROVE Charged'
    OBVIOUS
  <2>1. IInv'
    BY NextIInv DEF Charged
  <2>2. ChargesHandled'
    BY PlanKept DEF Charged, ChargesHandled
  <2>3. ASSUME NEW r \in Checkouts PROVE ChargeInv(r)'
    BY CheckoutCharges, OthersCharge DEF Charged
  <2>4. QED
    BY <2>1, <2>2, <2>3 DEF Charged
<1>3. Charged => ChargedIsOrdered
  BY DEF Charged, ChargeInv, ChargedIsOrdered, IInv, TypeOK
<1>4. QED
  BY <1>1, <1>2, <1>3, PTL DEF Spec

=============================================================================
