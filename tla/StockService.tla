---------------------------- MODULE StockService ----------------------------
(***************************************************************************)
(* The stock service's handlers: Decrement and Release over gRPC, the      *)
(* refill and the administrator's PUT over HTTP.  A handler sends a        *)
(* command on the hot-path Redis connection, Redis runs it some time later *)
(* and the answer comes back later still; ioredis may give up waiting      *)
(* first, or send again what a broken connection left unanswered.          *)
(***************************************************************************)
EXTENDS RedisStock, Sequences, FiniteSets, Functions

CONSTANTS Items,         \* item ids a request may name
          NoItem,        \* the empty itemId of a request without one
          OpeningStock,  \* item -> level when the behaviour starts
          SEED_PRODUCTS, \* sequence of [id, initialStock]
          Decrements,    \* Decrement calls
          Releases,      \* Release calls
          ReleaseOf,     \* Release call -> the Decrement call it takes back
          Requests,      \* requests a Decrement call may carry
          Refills,       \* POST /stock/refill calls
          AdminLevels,   \* levels PUT /admin/stock/:itemId may write
          MaxWrites,     \* bound on those PUTs
          MaxReconnects, \* bound on broken connections
          Faults         \* what may go wrong

Calls == Decrements \cup Releases
Request == [itemId : Items \cup {NoItem}, quantity : Int]
FaultNames == {"timeout", "publish", "crash"}

ASSUME StockAssumption ==
  /\ OpeningStock \in [Items -> Levels]
  /\ AdminLevels \subseteq Nat
  /\ SEED_PRODUCTS \in Seq([id : Items, initialStock : Nat])

(* A checkout takes a decrement back once: see Inventory.                  *)
ASSUME CallAssumption ==
  /\ IsFiniteSet(Decrements) /\ IsFiniteSet(Releases)
  /\ Decrements \cap Releases = {}
  /\ Calls \cap Refills = {}
  /\ ReleaseOf \in [Releases -> Decrements]
  /\ \A r, t \in Releases : ReleaseOf[r] = ReleaseOf[t] => r = t
  /\ Requests \subseteq Request
  /\ NoItem \notin Items
  /\ {MaxWrites, MaxReconnects} \subseteq Nat
  /\ Faults \subseteq FaultNames

VARIABLES
  stock,       \* Redis: item -> available units or NoKey
  supplied,    \* history: units ever put on sale, item by item
  request,     \* what a Decrement call asks for
  pc,          \* where a handler stands
  answer,      \* the gRPC answer: a code of the script, or a status
  command,     \* a call's EVALSHA: "none", "queued" for Redis, or "ran"
  result,      \* what the script returned when it last ran for the call
  refilled,    \* how many SETs of a refill's pipeline have run
  ran,         \* history: how often Redis has run a call's script
  zeroStock,   \* ItemZeroStock jobs the queue accepted, item by item
  refused,     \* ItemZeroStock jobs it did not: logged and forgotten
  soldOut,     \* history: how often a script took the last unit of an item
  adminWrites, \* PUTs so far
  reconnects   \* connections broken so far

handlers == <<request, pc, answer>>
wire == <<command, result, ran>>
sellouts == <<zeroStock, refused, soldOut>>
bounds == <<adminWrites, reconnects>>
vars == <<stock, supplied, request, pc, answer, command, result, ran, refilled,
          zeroStock, refused, soldOut, adminWrites, reconnects>>

(* releaseAll releases the line it reserved.                               *)
Asked(c) == IF c \in Decrements THEN request[c] ELSE request[ReleaseOf[c]]

ValidRequest(r) == r.itemId # NoItem /\ r.quantity > 0

OnShelf(i) == IF stock[i] = NoKey THEN 0 ELSE stock[i]

-----------------------------------------------------------------------------

Init ==
  /\ stock = OpeningStock
  /\ supplied = [i \in Items |-> OnShelf(i)]
  /\ request \in [Decrements -> Requests]
  /\ pc = [c \in Calls \cup Refills |-> "idle"]
  /\ answer = [c \in Calls |-> "none"]
  /\ command = [c \in Calls |-> "none"]
  /\ result = [c \in Calls |-> [code |-> NOT_FOUND, remaining |-> 0]]
  /\ refilled = [a \in Refills |-> 0]
  /\ ran = [c \in Calls |-> 0]
  /\ zeroStock = [i \in Items |-> 0]
  /\ refused = [i \in Items |-> 0]
  /\ soldOut = [i \in Items |-> 0]
  /\ adminWrites = 0
  /\ reconnects = 0

Answer(c, reply) ==
  /\ answer' = [answer EXCEPT ![c] = reply]
  /\ pc' = [pc EXCEPT ![c] = "done"]

(* A call arrives: refused, or its command is sent.  A patron's units are  *)
(* only given back once the decrement that took them has been answered.    *)
Receive(c) ==
  /\ pc[c] = "idle"
  /\ c \in Releases => answer[ReleaseOf[c]] = "SUCCESS"
  /\ \/ /\ ~ValidRequest(Asked(c))
        /\ Answer(c, "INVALID_ARGUMENT")
        /\ UNCHANGED command
     \/ /\ ValidRequest(Asked(c))
        /\ pc' = [pc EXCEPT ![c] = "waiting"]
        /\ command' = [command EXCEPT ![c] = "queued"]
        /\ UNCHANGED answer
  /\ UNCHANGED <<stock, supplied, request, result, ran, refilled, sellouts, bounds>>

(* Redis runs the script, whether or not anybody still waits for it.       *)
RunDecrement(c) ==
  LET i == request[c].itemId
      level == AfterDecrement(stock[i], request[c].quantity)
      code == DecrementCode(stock[i], request[c].quantity)
  IN  /\ command[c] = "queued"
      /\ stock' = [stock EXCEPT ![i] = level]
      /\ command' = [command EXCEPT ![c] = "ran"]
      /\ result' = [result EXCEPT ![c] =
                      [code |-> code, remaining |-> IF level = NoKey THEN 0 ELSE level]]
      /\ ran' = [ran EXCEPT ![c] = @ + 1]
      /\ soldOut' = [soldOut EXCEPT ![i] = IF code = SUCCESS /\ level = 0 THEN @ + 1 ELSE @]
      /\ UNCHANGED <<supplied, handlers, refilled, zeroStock, refused, bounds>>

RunRelease(c) ==
  LET i == Asked(c).itemId
      level == AfterRelease(stock[i], Asked(c).quantity)
  IN  /\ command[c] = "queued"
      /\ stock' = [stock EXCEPT ![i] = level]
      /\ command' = [command EXCEPT ![c] = "ran"]
      /\ result' = [result EXCEPT ![c] = [code |-> SUCCESS, remaining |-> level]]
      /\ ran' = [ran EXCEPT ![c] = @ + 1]
      /\ UNCHANGED <<supplied, handlers, refilled, sellouts, bounds>>

(* ItemZeroStock for any answer that leaves nothing.                       *)
NoneLeft(outcome) == outcome.remaining = 0

CrossedZero(outcome) == outcome.code = SUCCESS /\ outcome.remaining = 0

CodeName(code) ==
  CASE code = SUCCESS -> "SUCCESS"
    [] code = INSUFFICIENT -> "INSUFFICIENT"
    [] code = NOT_FOUND -> "NOT_FOUND"

(* The script's answer arrives: ItemZeroStock is added, not awaited.       *)
ReplyDecrement(c) ==
  LET i == request[c].itemId
  IN  /\ pc[c] = "waiting" /\ command[c] = "ran"
      /\ \/ /\ CrossedZero(result[c])
            /\ zeroStock' = [zeroStock EXCEPT ![i] = @ + 1]
            /\ UNCHANGED refused
         \/ /\ CrossedZero(result[c])
            /\ "publish" \in Faults
            /\ refused' = [refused EXCEPT ![i] = @ + 1]
            /\ UNCHANGED zeroStock
         \/ /\ ~CrossedZero(result[c])
            /\ UNCHANGED <<zeroStock, refused>>
      /\ Answer(c, CodeName(result[c].code))
      /\ UNCHANGED <<stock, supplied, request, wire, refilled, soldOut, bounds>>

ReplyRelease(c) ==
  /\ pc[c] = "waiting" /\ command[c] = "ran"
  /\ Answer(c, "OK")
  /\ UNCHANGED <<stock, supplied, request, wire, refilled, sellouts, bounds>>

(* commandTimeout: the promise rejects, the command stays where it is.     *)
TimeOut(c) ==
  /\ "timeout" \in Faults
  /\ pc[c] = "waiting"
  /\ Answer(c, "INTERNAL")
  /\ UNCHANGED <<stock, supplied, request, wire, refilled, sellouts, bounds>>

(* The caller was told that it failed; its command may be on its way.      *)
GivenUp(c) == pc[c] = "done" /\ answer[c] = "INTERNAL"

(* The connection breaks: ioredis reconnects and sends every command it    *)
(* has no answer to once more, those Redis has already run included, and   *)
(* those of callers who gave up too, unless an answer has come since.      *)
Reconnect ==
  /\ reconnects < MaxReconnects
  /\ \E late \in SUBSET {c \in Calls : GivenUp(c)} :
       command' = [c \in Calls |-> IF pc[c] = "waiting" \/ c \in late THEN "queued" ELSE command[c]]
  /\ command' # command
  /\ reconnects' = reconnects + 1
  /\ UNCHANGED <<stock, supplied, handlers, result, ran, refilled, sellouts, adminWrites>>

(* An absolute level: what was on the shelf is replaced.                   *)
SetLevel(i, level) ==
  /\ stock' = [stock EXCEPT ![i] = level]
  /\ supplied' = [supplied EXCEPT ![i] = @ + level - OnShelf(i)]

(* refillAll: the pipeline's next SET; the reply follows the last.         *)
Refill(a) ==
  LET n == refilled[a] + 1
  IN  /\ pc[a] \in {"idle", "waiting"}
      /\ n <= Len(SEED_PRODUCTS)
      /\ SetLevel(SEED_PRODUCTS[n].id, SEED_PRODUCTS[n].initialStock)
      /\ refilled' = [refilled EXCEPT ![a] = n]
      /\ pc' = [pc EXCEPT ![a] = IF n = Len(SEED_PRODUCTS) THEN "done" ELSE "waiting"]
      /\ UNCHANGED <<request, answer, wire, sellouts, bounds>>

(* PUT /admin/stock/:itemId                                                *)
SetStock(i, level) ==
  /\ adminWrites < MaxWrites
  /\ SetLevel(i, level)
  /\ adminWrites' = adminWrites + 1
  /\ UNCHANGED <<handlers, wire, refilled, sellouts, reconnects>>

(* The process dies with its handlers and its connection: what it has sent *)
(* may still run, but is not sent again.                                   *)
Crash ==
  /\ "crash" \in Faults
  /\ \E c \in DOMAIN pc : pc[c] = "waiting"
  /\ pc' = [c \in DOMAIN pc |-> IF pc[c] = "waiting" \/ (c \in Calls /\ GivenUp(c))
                                THEN "crashed" ELSE pc[c]]
  /\ UNCHANGED <<stock, supplied, request, answer, wire, refilled, sellouts, bounds>>

-----------------------------------------------------------------------------

DecrementStep(c) == RunDecrement(c) \/ ReplyDecrement(c)
ReleaseStep(c) == RunRelease(c) \/ ReplyRelease(c)

Next ==
  \/ \E c \in Calls : Receive(c) \/ TimeOut(c)
  \/ \E c \in Decrements : DecrementStep(c)
  \/ \E c \in Releases : ReleaseStep(c)
  \/ \E a \in Refills : Refill(a)
  \/ \E i \in Items, level \in AdminLevels : SetStock(i, level)
  \/ Reconnect
  \/ Crash

Spec == Init /\ [][Next]_vars

-----------------------------------------------------------------------------
(* Properties.                                                             *)

Answers == {"none", "SUCCESS", "INSUFFICIENT", "NOT_FOUND", "OK", "INTERNAL", "INVALID_ARGUMENT"}

(* Every variable keeps its type: in particular no level falls below zero, *)
(* however many commands run late or twice.                                *)
TypeOK ==
  /\ stock \in [Items -> Levels]
  /\ supplied \in [Items -> Int]
  /\ request \in [Decrements -> Requests]
  /\ pc \in [Calls \cup Refills -> {"idle", "waiting", "done", "crashed"}]
  /\ answer \in [Calls -> Answers]
  /\ command \in [Calls -> {"none", "queued", "ran"}]
  /\ result \in [Calls -> [code : {SUCCESS, INSUFFICIENT, NOT_FOUND}, remaining : Levels]]
  /\ refilled \in [Refills -> 0..Len(SEED_PRODUCTS)]
  /\ ran \in [Calls -> 0..(1 + MaxReconnects)]
  /\ zeroStock \in [Items -> Nat]
  /\ refused \in [Items -> Nat]
  /\ soldOut \in [Items -> Nat]
  /\ adminWrites \in 0..MaxWrites
  /\ reconnects \in 0..MaxReconnects

(* Units a patron was told are reserved and nobody has asked back.         *)
Held(c) ==
  /\ answer[c] = "SUCCESS"
  /\ \A r \in Releases : ReleaseOf[r] = c => pc[r] = "idle"
UnitsHeld(i) ==
  SumFunctionOnSet([c \in Decrements |-> IF Held(c) /\ request[c].itemId = i
                                         THEN request[c].quantity ELSE 0], Decrements)

(* "no oversell possible": the units on the shelf and those patrons were   *)
(* told are theirs never exceed what was put on sale.                      *)
NoOversell == \A i \in Items : OnShelf(i) + UnitsHeld(i) <= supplied[i]

(* However late, however often and for whomever commands run, the units    *)
(* too many are those of releases that Redis ran again, and no others: a   *)
(* decrement run again, or for a caller who gave up, only loses units.     *)
UnitsMinted(i) ==
  SumFunctionOnSet([r \in Releases |-> IF ran[r] > 1 /\ Asked(r).itemId = i
                                       THEN (ran[r] - 1) * Asked(r).quantity ELSE 0], Releases)
ExcessIsResent ==
  \A i \in Items : OnShelf(i) + UnitsHeld(i) <= supplied[i] + UnitsMinted(i)

(* "When Lua decrements the last unit to 0, stock-service publishes        *)
(* ItemZeroStock": once no call waits, and if none was given up, every     *)
(* sell-out was announced once; and never is one announced that was none,  *)
(* in particular not by a decrement that found the shelf empty.            *)
Heard ==
  /\ reconnects = 0
  /\ \A c \in Decrements : pc[c] \in {"idle", "done"} /\ answer[c] # "INTERNAL"
SelloutAnnounced ==
  \A i \in Items :
    /\ zeroStock[i] + refused[i] <= soldOut[i]
    /\ Heard => zeroStock[i] + refused[i] = soldOut[i]

=============================================================================
