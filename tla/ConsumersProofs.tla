--------------------------- MODULE ConsumersProofs ----------------------------
(***************************************************************************)
(* Theorems about the services that hear of orders: the batcher of the     *)
(* analytics keeps every event once and in order as long as the process    *)
(* lives and no insert succeeds unheard, what the dashboard shows adds up, *)
(* and only requests that overtake each other lose lines of a cart.        *)
(***************************************************************************)
EXTENDS Analytics, Dashboard, CartService, Sums, SequenceTheorems, TLAPS

(* The analytics.                                                           *)

(* The guard is up while a batch is in flight, and only one ever is.       *)
OneBatch ==
  /\ \A f \in Flushes : batch[f] # <<>> => inFlight = TRUE
  /\ \A f, g \in Flushes : batch[f] # <<>> /\ batch[g] # <<>> => f = g

(* The inductive invariant.                                                *)
IInv == TypeOK /\ OneBatch

(* What flush() does to the batches, when it starts one and when not.      *)
LEMMA FlushCases ==
  ASSUME IInv, NEW events \in Seq(Events), Flush(events)
  PROVE  \/ /\ inFlight = FALSE /\ events # <<>>
            /\ inFlight' = TRUE
            /\ buffer' = <<>>
            /\ \E f \in Flushes : batch' = [batch EXCEPT ![f] = events]
         \/ /\ buffer' = events
            /\ UNCHANGED <<inFlight, batch>>
<1>1. ASSUME MayFlush(events) /\ \E x \in Flushes : batch[x] = <<>>
      PROVE  (CHOOSE x \in Flushes : batch[x] = <<>>) \in Flushes
  BY <1>1
<1>2. inFlight = TRUE \/ inFlight = FALSE
  BY DEF IInv, TypeOK
<1>3. CASE MayFlush(events) /\ \E x \in Flushes : batch[x] = <<>>
  <2>1. inFlight = FALSE
    BY <1>2, <1>3 DEF MayFlush
  <2>. QED BY <1>1, <1>3, <2>1 DEF Flush, MayFlush
<1>4. CASE ~(MayFlush(events) /\ \E x \in Flushes : batch[x] = <<>>)
  BY <1>4 DEF Flush
<1>. QED BY <1>3, <1>4

(* A flush keeps the batcher's variables well typed.                       *)
LEMMA FlushTypes ==
  ASSUME IInv, NEW events \in Seq(Events), Flush(events)
  PROVE  /\ buffer' \in Seq(Events)
         /\ inFlight' \in BOOLEAN
         /\ batch' \in [Flushes -> Seq(Events)]
         /\ OneBatch'
<1>1. CASE /\ inFlight = FALSE /\ events # <<>>
           /\ inFlight' = TRUE
           /\ buffer' = <<>>
           /\ \E f \in Flushes : batch' = [batch EXCEPT ![f] = events]
  <2>1. PICK f \in Flushes : batch' = [batch EXCEPT ![f] = events]
    BY <1>1
  <2>2. \A g \in Flushes : batch[g] = <<>>
    BY <1>1 DEF IInv, OneBatch
  <2>3. batch \in [Flushes -> Seq(Events)]
    BY DEF IInv, TypeOK
  <2>4. \A g \in Flushes : batch'[g] = IF g = f THEN events ELSE <<>>
    BY <2>1, <2>2, <2>3
  <2>5. batch' \in [Flushes -> Seq(Events)]
    BY <2>1, <2>3
  <2>6. OneBatch'
    BY <1>1, <2>4 DEF OneBatch
  <2>. QED BY <1>1, <2>5, <2>6, EmptySeq
<1>2. CASE buffer' = events /\ UNCHANGED <<inFlight, batch>>
  BY <1>2 DEF IInv, TypeOK, OneBatch
<1>. QED BY <1>1, <1>2, FlushCases

(* Settling a batch empties it and lowers the guard.                       *)
LEMMA SettleTypes ==
  ASSUME IInv, NEW f \in Flushes, batch[f] # <<>>,
         batch' = [batch EXCEPT ![f] = <<>>], inFlight' = FALSE
  PROVE  /\ batch' \in [Flushes -> Seq(Events)]
         /\ OneBatch'
<1>1. batch \in [Flushes -> Seq(Events)] /\ <<>> \in Seq(Events)
  BY EmptySeq DEF IInv, TypeOK
<1>2. \A g \in Flushes : batch'[g] = <<>>
  BY <1>1 DEF IInv, OneBatch
<1>. QED BY <1>1, <1>2 DEF OneBatch

(* The bounds are numbers, whatever the instance.                          *)
LEMMA Bounds == MaxFailures \in Nat /\ MaxUnheard \in Nat /\ MaxRestarts \in Nat
BY BoundAssumption

(* The batcher starts with nothing to write.                               *)
LEMMA InitInvariant == Init => IInv
<1>. SUFFICES ASSUME Init PROVE IInv
  OBVIOUS
<1>1. batch = [f \in Flushes |-> <<>>] /\ <<>> \in Seq(Events)
  BY EmptySeq DEF Init
<1>2. OneBatch /\ batch \in [Flushes -> Seq(Events)]
  BY <1>1 DEF OneBatch
<1>3. failures \in 0..MaxFailures /\ unheard \in 0..MaxUnheard /\ restarts \in 0..MaxRestarts
  BY Bounds DEF Init
<1>. QED BY <1>1, <1>2, <1>3 DEF Init, IInv, TypeOK

(* One step per action; the bookkeeping of the batches is in the lemmas.   *)
LEMMA StepInvariant == IInv /\ [Next]_vars => IInv'
<1>. SUFFICES ASSUME IInv, [Next]_vars PROVE IInv'
  OBVIOUS
<1>. USE DEF bus, worker, batcher, bounds
<1>1. ASSUME NEW e \in Events, Publish(e) PROVE IInv'
  BY <1>1 DEF IInv, TypeOK, OneBatch, Publish
<1>2. CASE Take
  <2>1. Head(queue) \in Events /\ Tail(queue) \in Seq(Events)
    BY <1>2, HeadTailProperties DEF IInv, TypeOK, Take
  <2>. QED BY <1>2, <2>1 DEF IInv, TypeOK, OneBatch, Take
<1>3. CASE Enqueue
  <2>1. Append(buffer, active) \in Seq(Events) /\ enqueued' \in Seq(Events)
    BY <1>3 DEF IInv, TypeOK, Enqueue
  <2>2. /\ buffer' \in Seq(Events) /\ inFlight' \in BOOLEAN
        /\ batch' \in [Flushes -> Seq(Events)] /\ OneBatch'
    <3>1. CASE Flush(Append(buffer, active))
      BY <2>1, <3>1, FlushTypes
    <3>2. CASE buffer' = Append(buffer, active) /\ UNCHANGED <<inFlight, batch>>
      BY <2>1, <3>2 DEF IInv, TypeOK, OneBatch
    <3>. QED BY <1>3, <3>1, <3>2 DEF Enqueue
  <2>. QED BY <1>3, <2>1, <2>2 DEF IInv, TypeOK, Enqueue
<1>4. CASE Complete
  BY <1>4 DEF IInv, TypeOK, OneBatch, Complete
<1>5. CASE Tick
  <2>1. /\ buffer' \in Seq(Events) /\ inFlight' \in BOOLEAN
        /\ batch' \in [Flushes -> Seq(Events)] /\ OneBatch'
    BY <1>5, FlushTypes DEF Tick, IInv, TypeOK
  <2>. QED BY <1>5, <2>1 DEF IInv, TypeOK, Tick
<1>6. ASSUME NEW f \in Flushes, Insert(f) PROVE IInv'
  <2>1. batch' \in [Flushes -> Seq(Events)] /\ OneBatch'
    BY <1>6, SettleTypes DEF Insert
  <2>2. rows' \in Seq(Events)
    BY <1>6 DEF IInv, TypeOK, Insert
  <2>. QED BY <1>6, <2>1, <2>2 DEF IInv, TypeOK, Insert, Stopped
<1>7. ASSUME NEW f \in Flushes, InsertFails(f) PROVE IInv'
  <2>1. batch' \in [Flushes -> Seq(Events)] /\ OneBatch'
    BY <1>7, SettleTypes DEF InsertFails
  <2>2. /\ batch[f] \in Seq(Events) /\ buffer \in Seq(Events) /\ rows \in Seq(Events)
        /\ failures \in 0..MaxFailures /\ unheard \in 0..MaxUnheard
    BY DEF IInv, TypeOK
  <2>3. buffer' \in Seq(Events) /\ rows \o batch[f] \in Seq(Events)
    BY <1>7, <2>2, ConcatProperties DEF InsertFails, PutBack
  <2>4. rows' \in Seq(Events)
    BY <1>7, <2>2, <2>3 DEF InsertFails
  <2>5. failures' \in 0..MaxFailures /\ unheard' \in 0..MaxUnheard
    <3>1. \/ failures < MaxFailures /\ failures' = failures + 1 /\ unheard' = unheard
          \/ unheard < MaxUnheard /\ unheard' = unheard + 1 /\ failures' = failures
      BY <1>7 DEF InsertFails
    <3>. QED BY <2>2, <3>1, Bounds
  <2>. QED BY <1>7, <2>1, <2>3, <2>4, <2>5 DEF IInv, TypeOK, InsertFails, Stopped
<1>8. CASE Stop
  <2>1. /\ buffer' \in Seq(Events) /\ inFlight' \in BOOLEAN
        /\ batch' \in [Flushes -> Seq(Events)] /\ OneBatch'
    BY <1>8, FlushTypes DEF Stop, IInv, TypeOK
  <2>. QED BY <1>8, <2>1 DEF IInv, TypeOK, Stop
<1>9. CASE Close
  BY <1>9 DEF IInv, TypeOK, OneBatch, Close
<1>10. CASE Restart
  <2>1. queue' \in Seq(Events)
    BY <1>10 DEF IInv, TypeOK, Restart, Requeue
  <2>2. batch' = [f \in Flushes |-> <<>>] /\ <<>> \in Seq(Events)
    BY <1>10, EmptySeq DEF Restart
  <2>3. OneBatch' /\ batch' \in [Flushes -> Seq(Events)]
    BY <2>2 DEF OneBatch
  <2>4. restarts' \in 0..MaxRestarts
    BY <1>10, Bounds DEF Restart, IInv, TypeOK
  <2>. QED BY <1>10, <2>1, <2>2, <2>3, <2>4 DEF IInv, TypeOK, Restart
<1>11. CASE UNCHANGED vars
  BY <1>11 DEF IInv, TypeOK, OneBatch, vars
<1>. QED
  BY <1>1, <1>2, <1>3, <1>4, <1>5, <1>6, <1>7, <1>8, <1>9, <1>10, <1>11 DEF Next

(* Every variable keeps its type, for any number of events, any limits and *)
(* any faults.                                                             *)
THEOREM TypeCorrect == Spec => []TypeOK
<1>1. IInv => TypeOK
  BY DEF IInv
<1>. QED BY <1>1, InitInvariant, StepInvariant, PTL DEF Spec

(* The guard keeps flushes from overlapping, in every reachable state.     *)
LEMMA FlushSafe == Spec => []IInv
BY InitInvariant, StepInvariant, PTL DEF Spec

-----------------------------------------------------------------------------
(* Conservation.                                                           *)

(* Where the cuts between table, batch and buffer are does not matter.     *)
LEMMA EventsRegroup == \A s, t, u \in Seq(Events) : (s \o t) \o u = s \o (t \o u)
<1>. TAKE s, t, u \in Seq(Events)
<1>. QED BY ConcatAssociative

(* One event is a sequence of events.                                      *)
LEMMA Singleton == ASSUME NEW S, NEW e \in S PROVE <<e>> \in Seq(S)
<1>1. Append(<<>>, e) = <<e>>
  OBVIOUS
<1>. QED BY <1>1, EmptySeq, AppendProperties

(* flush() moves the buffer into the batch and leaves the order alone.     *)
LEMMA FlushConserves ==
  ASSUME IInv, NEW f \in Flushes, \A g \in Flushes \ {f} : batch[g] = <<>>,
         NEW events \in Seq(Events), Flush(events),
         NEW before \in Seq(Events), before = rows \o batch[f] \o events,
         UNCHANGED rows
  PROVE  \E h \in Flushes :
           /\ \A g \in Flushes \ {h} : batch'[g] = <<>>
           /\ before = rows' \o batch'[h] \o buffer'
<1>1. CASE /\ inFlight = FALSE /\ events # <<>>
           /\ inFlight' = TRUE
           /\ buffer' = <<>>
           /\ \E h \in Flushes : batch' = [batch EXCEPT ![h] = events]
  <2>1. PICK h \in Flushes : batch' = [batch EXCEPT ![h] = events]
    BY <1>1
  <2>2. batch[f] = <<>>
    BY <1>1 DEF IInv, OneBatch
  <2>3. \A g \in Flushes \ {h} : batch'[g] = <<>>
    BY <2>1, <2>2 DEF IInv, TypeOK
  <2>4. batch'[h] = events
    BY <2>1 DEF IInv, TypeOK
  <2>5. rows \o <<>> \o events = rows \o events \o <<>>
    BY DEF IInv, TypeOK
  <2>. QED BY <1>1, <2>2, <2>3, <2>4, <2>5
<1>2. CASE buffer' = events /\ UNCHANGED <<inFlight, batch>>
  BY <1>2
<1>. QED BY <1>1, <1>2, FlushCases

(* At the start nothing was enqueued and nothing is anywhere.              *)
LEMMA InOrderInit == Init => InOrder
<1>. SUFFICES ASSUME Init PROVE InOrder
  OBVIOUS
<1>1. PICK f \in Flushes : TRUE
  BY BoundAssumption
<1>2. <<>> \o <<>> \o <<>> = <<>>
  BY EmptySeq, ConcatEmptySeq
<1>. QED BY <1>1, <1>2 DEF Init, InOrder

(* While nothing crashed or was heard wrongly, each step keeps the order.  *)
LEMMA InOrderStep ==
  ASSUME IInv, InOrder, [Next]_vars, restarts' = 0, unheard' = 0
  PROVE  InOrder'
<1>. USE DEF bus, worker, batcher, bounds
<1>1. PICK f \in Flushes :
        /\ \A g \in Flushes \ {f} : batch[g] = <<>>
        /\ enqueued = rows \o batch[f] \o buffer
  BY DEF InOrder
<1>2. CASE UNCHANGED <<enqueued, rows, batch, buffer>>
  BY <1>2, <1>1 DEF InOrder
<1>3. ASSUME NEW events \in Seq(Events), Flush(events), UNCHANGED rows,
             enqueued' = rows \o batch[f] \o events, enqueued' \in Seq(Events)
      PROVE  InOrder'
  <2>1. \E h \in Flushes :
          /\ \A g \in Flushes \ {h} : batch'[g] = <<>>
          /\ enqueued' = rows' \o batch'[h] \o buffer'
    BY <1>1, <1>3, FlushConserves, ZenonT(40)
  <2>. QED BY <2>1 DEF InOrder
<1>4. CASE Enqueue
  <2>1. /\ Append(buffer, active) \in Seq(Events)
        /\ enqueued' \in Seq(Events)
        /\ enqueued' = rows \o batch[f] \o Append(buffer, active)
    <3>. DEFINE b == batch[f]
    <3>1. /\ active \in Events /\ buffer \in Seq(Events) /\ rows \in Seq(Events)
          /\ b \in Seq(Events) /\ enqueued \in Seq(Events)
      BY <1>4 DEF IInv, TypeOK, Enqueue
    <3>2. enqueued' = Append(rows \o b \o buffer, active)
      BY <1>1, <1>4 DEF Enqueue
    <3>3. Append(buffer, active) \in Seq(Events) /\ enqueued' \in Seq(Events)
      BY <1>4, <3>1, AppendProperties DEF Enqueue
    <3>. HIDE DEF b
    <3>. DEFINE x == rows \o b
                last == <<active>>
    <3>4. x \in Seq(Events) /\ last \in Seq(Events)
      BY <3>1, ConcatProperties, Singleton
    <3>5. x \o buffer \in Seq(Events)
      BY <3>1, <3>4, ConcatProperties
    <3>6. Append(x \o buffer, active) = (x \o buffer) \o last
      BY <3>1, <3>5, AppendIsConcat, Zenon
    <3>7. Append(buffer, active) = buffer \o last
      BY <3>1, AppendIsConcat, Zenon
    <3>. HIDE DEF x, last
    <3>8. (x \o buffer) \o last = x \o (buffer \o last)
      <4>1. buffer \in Seq(Events)
        BY <3>1
      <4>. QED BY <3>4, <4>1, EventsRegroup, Zenon
    <3>9. enqueued' = x \o Append(buffer, active)
      BY <3>2, <3>6, <3>7, <3>8, Zenon DEF x
    <3>. QED BY <3>3, <3>9 DEF b, x
  <2>2. CASE Flush(Append(buffer, active))
    BY <1>3, <1>4, <2>1, <2>2 DEF Enqueue
  <2>3. CASE buffer' = Append(buffer, active) /\ UNCHANGED <<inFlight, batch>>
    BY <1>1, <1>4, <2>1, <2>3 DEF InOrder, Enqueue
  <2>. QED BY <1>4, <2>2, <2>3 DEF Enqueue
<1>5. CASE Tick \/ Stop
  BY <1>1, <1>3, <1>5 DEF Tick, Stop, IInv, TypeOK
<1>6. ASSUME NEW h \in Flushes, Insert(h) PROVE InOrder'
  <2>1. h = f
    BY <1>1, <1>6 DEF Insert
  <2>2. rows \o batch[f] \o buffer = (rows \o batch[f]) \o <<>> \o buffer
    <3>1. rows \o batch[f] \in Seq(Events)
      BY ConcatProperties DEF IInv, TypeOK
    <3>. QED BY <3>1, ConcatEmptySeq
  <2>3. batch'[f] = <<>> /\ \A g \in Flushes \ {f} : batch'[g] = <<>>
    BY <1>1, <1>6, <2>1 DEF Insert, IInv, TypeOK
  <2>. QED BY <1>1, <1>6, <2>1, <2>2, <2>3 DEF Insert, InOrder
<1>7. ASSUME NEW h \in Flushes, InsertFails(h) PROVE InOrder'
  <2>0. ~(unheard' = unheard + 1)
    BY DEF IInv, TypeOK
  <2>1. h = f /\ UNCHANGED rows /\ buffer' = batch[f] \o buffer
    BY <1>1, <1>7, <2>0 DEF InsertFails, PutBack
  <2>2. rows \o batch[f] \o buffer = rows \o <<>> \o (batch[f] \o buffer)
    <3>. DEFINE b == batch[f]
    <3>1. rows \in Seq(Events) /\ b \in Seq(Events) /\ buffer \in Seq(Events)
      BY DEF IInv, TypeOK
    <3>. HIDE DEF b
    <3>2. rows \o b \o buffer = rows \o (b \o buffer)
      BY <3>1, EventsRegroup, Zenon
    <3>3. rows \o <<>> = rows
      BY <3>1, ConcatEmptySeq, Zenon
    <3>. QED BY <3>2, <3>3, Zenon DEF b
  <2>3. batch'[f] = <<>> /\ \A g \in Flushes \ {f} : batch'[g] = <<>>
    BY <1>1, <1>7, <2>1 DEF InsertFails, IInv, TypeOK
  <2>. QED BY <1>1, <1>7, <2>1, <2>2, <2>3 DEF InsertFails, InOrder
<1>8. ASSUME Restart PROVE FALSE
  BY <1>8 DEF Restart, IInv, TypeOK
<1>9. ASSUME NEW e \in Events, Publish(e) PROVE InOrder'
  BY <1>2, <1>9 DEF Publish
<1>10. CASE Take \/ Complete \/ Close \/ UNCHANGED vars
  BY <1>2, <1>10 DEF Take, Complete, Close, vars
<1>. QED BY <1>4, <1>5, <1>6, <1>7, <1>8, <1>9, <1>10 DEF Next

(* A crash or an unheard insert is remembered, so the exception persists.  *)
LEMMA ConservedStep == IInv /\ Conserved /\ [Next]_vars => Conserved'
<1>. SUFFICES ASSUME IInv, Conserved, [Next]_vars, restarts' = 0, unheard' = 0
              PROVE  InOrder'
  BY DEF Conserved
<1>1. restarts \in Nat /\ unheard \in Nat
  BY Bounds DEF IInv, TypeOK
<1>2. restarts' \in {restarts, restarts + 1} /\ unheard' \in {unheard, unheard + 1}
  BY DEF Next, Publish, Take, Enqueue, Complete, Tick, Insert, InsertFails, Stop, Close,
         Restart, vars, bounds
<1>3. InOrder
  BY <1>1, <1>2 DEF Conserved
<1>. QED BY <1>3, InOrderStep

(* As long as the process lives and no insert succeeds unheard, the events *)
(* buffered so far are the table, then the batch in flight, then the       *)
(* buffer: none lost, none twice, none overtaken, for any traffic.         *)
THEOREM KeptInOrder == Spec => []Conserved
<1>1. Init => Conserved
  BY InOrderInit DEF Conserved
<1>. QED BY <1>1, ConservedStep, FlushSafe, PTL DEF Spec

-----------------------------------------------------------------------------
(* The dashboard.                                                           *)

(* The log is a finite sequence of rows, none without a screen or showtime. *)
LEMMA LogRows ==
  /\ Len(Log) \in Nat /\ DOMAIN Log = 1..Len(Log)
  /\ \A k \in 1..Len(Log) :
       /\ Log[k]["screen"] # Null /\ Log[k]["showtime"] # Null
       /\ IsFiniteSet(DOMAIN Log[k].lines)
       /\ \A l \in DOMAIN Log[k].lines :
            Log[k].lines[l].quantity \in Nat /\ Log[k].lines[l].price \in Nat
<1>1. Len(Log) \in Nat /\ DOMAIN Log = 1..Len(Log)
  BY DashboardAssumption, LenProperties
<1>2. ASSUME NEW k \in 1..Len(Log)
      PROVE  /\ Log[k]["screen"] # Null /\ Log[k]["showtime"] # Null
             /\ IsFiniteSet(DOMAIN Log[k].lines)
             /\ \A l \in DOMAIN Log[k].lines :
                  Log[k].lines[l].quantity \in Nat /\ Log[k].lines[l].price \in Nat
  <2>1. Log[k] \in Range(Log)
    BY <1>1 DEF Range
  <2>2. PICK row \in Range(Log) : row = Log[k]
    BY <2>1
  <2>3. /\ row.screen # Null /\ row.showtime # Null
        /\ row.lines \in Seq(Range(row.lines))
        /\ \A line \in Range(row.lines) : line.quantity \in Nat /\ line.price \in Nat
    BY DashboardAssumption
  <2>4. Len(row.lines) \in Nat /\ DOMAIN row.lines = 1..Len(row.lines)
    BY <2>3, LenProperties
  <2>5. IsFiniteSet(DOMAIN row.lines)
    BY <2>4, FS_Interval
  <2>6. \A l \in DOMAIN row.lines : row.lines[l] \in Range(row.lines)
    BY DEF Range
  <2>. QED BY <2>2, <2>3, <2>5, <2>6
<1>. QED BY <1>1, <1>2

(* Its lines are finitely many, each of some quantity and some money.       *)
LEMMA LogLines ==
  /\ IsFiniteSet(AllLines)
  /\ \A x \in AllLines : /\ x[1] \in 1..Len(Log) /\ Money[x] \in Nat /\ Quantity[x] \in Nat
<1>1. \A k \in 1..Len(Log) : IsFiniteSet(LinesOf(k))
  BY LogRows, FS_Product, FS_Singleton DEF LinesOf
<1> DEFINE D == 1..Len(Log)
           all == [k \in D |-> LinesOf(k)]
           T == {LinesOf(k) : k \in D}
<1>2. all \in Surjection(D, T)
  BY DEF Surjection
<1>3. IsFiniteSet(D)
  BY LogRows, FS_Interval
<1>4. IsFiniteSet(T)
  <2> HIDE DEF D, all, T
  <2>. QED BY <1>2, <1>3, FS_Surjection
<1>5. IsFiniteSet(AllLines)
  BY <1>1, <1>4, FS_UNION, LogRows DEF AllLines
<1>6. ASSUME NEW x \in AllLines
      PROVE  x[1] \in 1..Len(Log) /\ Money[x] \in Nat /\ Quantity[x] \in Nat
  <2>1. PICK k \in 1..Len(Log) : x \in {k} \X DOMAIN Log[k].lines
    BY LogRows DEF AllLines, LinesOf
  <2>2. x[1] = k /\ x[2] \in DOMAIN Log[k].lines
    BY <2>1
  <2>3. Line(x).quantity \in Nat /\ Line(x).price \in Nat
    BY <2>2, LogRows DEF Line
  <2>4. \A a, b \in Nat : a * b \in Nat
    OBVIOUS
  <2>5. Money[x] = Line(x).quantity * Line(x).price /\ Quantity[x] = Line(x).quantity
    BY DEF Money, Quantity
  <2>. QED BY <2>2, <2>3, <2>4, <2>5
<1>. QED BY <1>5, <1>6

(* More rows have no fewer lines, nor bring in less.                        *)
LEMMA MoreRows ==
  ASSUME NEW S, NEW R \in SUBSET S
  PROVE  /\ IsFiniteSet(Lines(S)) /\ Lines(R) \subseteq Lines(S)
         /\ Revenue(S) \in Nat /\ Revenue(R) \in Nat /\ Revenue(R) <= Revenue(S)
         /\ Units(S) \in Nat /\ Units(R) \in Nat /\ Units(R) <= Units(S)
<1>1. \A U : Lines(U) \in SUBSET AllLines
  BY DEF Lines
<1>2. \A U : IsFiniteSet(Lines(U))
  BY <1>1, LogLines, FS_Subset
<1>3. Lines(R) \in SUBSET Lines(S)
  BY DEF Lines
<1>4. \A U : \A x \in Lines(U) : Money[x] \in Nat /\ Quantity[x] \in Nat
  BY <1>1, LogLines
<1>5. \A U : Revenue(U) \in Nat /\ Units(U) \in Nat
  BY <1>2, <1>4, SumNat DEF Revenue, Units
<1>6. Revenue(R) <= Revenue(S)
  BY <1>2, <1>3, <1>4, SumSubset DEF Revenue
<1>7. Units(R) <= Units(S)
  BY <1>2, <1>3, <1>4, SumSubset DEF Units
<1>. QED BY <1>2, <1>3, <1>5, <1>6, <1>7

(* The groups of a column add up to the rows that have one.                 *)
LEMMA GroupsAddUp ==
  ASSUME NEW n \in 0..Len(Log), NEW column
  PROVE  LET kept == {k \in 1..n : Log[k][column] # Null}
         IN  /\ InAll(GroupBy(1..n, column), "orders") = Cardinality(kept)
             /\ InAll(GroupBy(1..n, column), "revenue") = Revenue(kept)
<1> DEFINE S == 1..n
           kept == {k \in S : Log[k][column] # Null}
           of == [k \in S |-> Log[k][column]]
           all == {Log[k][column] : k \in S}
           G == all \ {Null}
           Group(g) == {k \in S : Log[k][column] = g}
           one == [k \in S |-> 1]
           orders == [g \in G |-> Cardinality(Group(g))]
           revenue == [g \in G |-> Revenue(Group(g))]
<1>0. n \in Int /\ 1 \in Int
  BY LogRows
<1>1. IsFiniteSet(S)
  BY <1>0, FS_Interval
<1>2. IsFiniteSet(G)
  <2>1. of \in Surjection(S, all)
    BY DEF Surjection
  <2> HIDE DEF S, of, all
  <2>2. IsFiniteSet(all)
    BY <1>1, <2>1, FS_Surjection
  <2>. QED BY <2>2, FS_Subset
<1>3. /\ InAll(GroupBy(S, column), "orders") = SumFunctionOnSet(orders, G)
      /\ InAll(GroupBy(S, column), "revenue") = SumFunctionOnSet(revenue, G)
  BY DEF InAll, GroupBy, Summary, SumFunction
<1>4. SumFunctionOnSet(orders, G) = Cardinality(kept)
  <2>1. \A U \in SUBSET S : SumFunctionOnSet(one, U) = Cardinality(U)
    <3> SUFFICES ASSUME NEW U \in SUBSET S PROVE SumFunctionOnSet(one, U) = Cardinality(U)
      OBVIOUS
    <3>1. IsFiniteSet(U) /\ \A x \in U : one[x] = 1
      BY <1>1, FS_Subset
    <3> HIDE DEF one
    <3>. QED BY <3>1, SumOfOnes
  <2>2. \A g \in G : orders[g] = SumFunctionOnSet(one, OfKey(S, of, g))
    <3> SUFFICES ASSUME NEW g \in G PROVE orders[g] = SumFunctionOnSet(one, OfKey(S, of, g))
      OBVIOUS
    <3>1. OfKey(S, of, g) = Group(g) /\ Group(g) \in SUBSET S
      BY DEF OfKey
    <3>. QED BY <2>1, <3>1
  <2>3. OfKeys(S, of, G) = kept /\ kept \in SUBSET S
    BY DEF OfKeys
  <2>4. \A k \in S : one[k] \in Int
    OBVIOUS
  <2>5. SumFunctionOnSet(orders, G) = SumFunctionOnSet(one, OfKeys(S, of, G))
    <3>1. IsFiniteSet(S) /\ \A k \in S : one[k] \in Int
      BY <1>1, <2>4
    <3> HIDE DEF S, of, G, one, orders
    <3>. QED BY <1>2, <2>2, <3>1, SumOfGroups, SMTT(30)
  <2>. QED BY <2>1, <2>3, <2>5
<1>5. SumFunctionOnSet(revenue, G) = Revenue(kept)
  <2> DEFINE ofLine == [x \in AllLines |-> Log[x[1]][column]]
             L == Lines(S)
  <2>1. IsFiniteSet(L) /\ \A x \in L : Money[x] \in Int
    <3>1. IsFiniteSet(L) /\ \A x \in L : Money[x] \in Nat
      BY MoreRows, LogLines DEF Lines
    <3>. QED BY <3>1
  <2>2. \A g \in G : Lines(Group(g)) = OfKey(L, ofLine, g)
    BY DEF Lines, OfKey
  <2>3. \A g \in G : revenue[g] = SumFunctionOnSet(Money, OfKey(L, ofLine, g))
    BY <2>2 DEF Revenue
  <2>4. Lines(kept) = OfKeys(L, ofLine, G)
    BY DEF Lines, OfKeys
  <2>5. SumFunctionOnSet(revenue, G) = SumFunctionOnSet(Money, OfKeys(L, ofLine, G))
    <3> HIDE DEF S, G, revenue, L, ofLine
    <3>. QED BY <1>2, <2>1, <2>3, SumOfGroups
  <2>. QED BY <2>4, <2>5 DEF Revenue
<1>. QED BY <1>3, <1>4, <1>5

(* The items sold most are not sold more than all are.                      *)
LEMMA TopAddsUp ==
  ASSUME NEW S, NEW top \in TopItems(S)
  PROVE  SumFunction(top) <= Units(S) /\ SumFunction(top) \in Int
<1> DEFINE sold == [item \in Items(S) |-> SumFunctionOnSet(Quantity, ItemLines(S, item))]
           L == Lines(S)
           of == [x \in AllLines |-> Line(x).item]
<1>1. PICK T \in SUBSET Items(S) : top = [item \in T |-> sold[item]]
  BY DEF TopItems, Greatest
<1>2. IsFiniteSet(L) /\ (\A x \in L : Quantity[x] \in Nat) /\ L \in SUBSET AllLines
  BY MoreRows, LogLines DEF Lines
<1>3. IsFiniteSet(T)
  <2> DEFINE itemOf == [x \in L |-> Line(x).item]
  <2>1. itemOf \in Surjection(L, Items(S))
    BY DEF Surjection, Items
  <2> HIDE DEF itemOf, L
  <2>2. IsFiniteSet(Items(S))
    BY <1>2, <2>1, FS_Surjection
  <2>. QED BY <2>2, FS_Subset
<1>4. \A i \in T : top[i] = SumFunctionOnSet(Quantity, OfKey(L, of, i))
  <2> SUFFICES ASSUME NEW i \in T PROVE top[i] = SumFunctionOnSet(Quantity, OfKey(L, of, i))
    OBVIOUS
  <2>1. ItemLines(S, i) = OfKey(L, of, i)
    BY <1>2 DEF ItemLines, OfKey
  <2>. QED BY <1>1, <2>1
<1>5. SumFunctionOnSet(top, T) = SumFunctionOnSet(Quantity, OfKeys(L, of, T))
  <2> HIDE DEF L, of
  <2>. QED BY <1>2, <1>3, <1>4, SumOfGroups
<1>6. SumFunctionOnSet(Quantity, OfKeys(L, of, T)) <= SumFunctionOnSet(Quantity, L)
  <2>1. OfKeys(L, of, T) \in SUBSET L
    BY DEF OfKeys
  <2> HIDE DEF L, of
  <2>. QED BY <1>2, <2>1, SumSubset
<1>7. SumFunction(top) = SumFunctionOnSet(top, T)
  BY <1>1 DEF SumFunction
<1>8. SumFunctionOnSet(Quantity, OfKeys(L, of, T)) \in Int
  <2>1. OfKeys(L, of, T) \in SUBSET L
    BY DEF OfKeys
  <2>2. IsFiniteSet(OfKeys(L, of, T)) /\ \A x \in OfKeys(L, of, T) : Quantity[x] \in Int
    <3> HIDE DEF L, of
    <3>1. IsFiniteSet(OfKeys(L, of, T)) /\ \A x \in OfKeys(L, of, T) : Quantity[x] \in Nat
      BY <1>2, <2>1, FS_Subset
    <3>. QED BY <3>1
  <2>. QED BY <2>2, SumType
<1>. QED BY <1>5, <1>6, <1>7, <1>8 DEF Units

(* Each query has figures of its own.                                       *)
LEMMA ResultsOf ==
  ASSUME NEW S
  PROVE  /\ Results("summary", S) = {Summary(S)}
         /\ Results("byScreen", S) = {GroupBy(S, "screen")}
         /\ Results("byShowtime", S) = {GroupBy(S, "showtime")}
         /\ Results("byAgeGroup", S) = {GroupBy(S, "ageGroup")}
         /\ Results("topItems", S) = TopItems(S)
         /\ Results("recentOrders", S) = RecentOrders(S)
  BY DEF Results

(* A query's result is of the table as it was at some moment between.       *)
TrueBetween(q, result, low, high) == \E n \in low..high : result \in Results(q, 1..n)

AnswersTrue == \A q \in DOMAIN answers : TrueBetween(q, answers[q], asked, inserted)
ShownTrue ==
  dashboard # NoDashboard =>
    /\ dashboard.from <= dashboard.to /\ DOMAIN dashboard.figures = Queries
    /\ \A q \in Queries : TrueBetween(q, dashboard.figures[q], dashboard.from, dashboard.to)

(* The inductive invariant of the dashboard.                                *)
DashboardInv ==
  /\ DashboardTypeOK
  /\ asked <= inserted /\ (fetching => loadsDone < MaxLoads)
  /\ AnswersTrue /\ ShownTrue

(* The page opens with a load under way, and nothing shown.                 *)
LEMMA DashboardStart == DashboardInit => DashboardInv
<1> SUFFICES ASSUME DashboardInit PROVE DashboardInv
  OBVIOUS
<1>1. MaxLoads \in Nat /\ MaxLoads > 0 /\ Len(Log) \in Nat
  BY DashboardAssumption, LogRows
<1>2. /\ dashboard.figures = <<>> /\ dashboard.from = 0 /\ dashboard.to = 0
      /\ dashboard = NoDashboard
  BY DEF DashboardInit, NoDashboard
<1>3. DOMAIN dashboard.figures = {} /\ DOMAIN answers = {}
  BY <1>2 DEF DashboardInit
<1>. QED BY <1>1, <1>2, <1>3 DEF DashboardInit, DashboardInv, DashboardTypeOK, AnswersTrue, ShownTrue

(* What was true of the table between two moments was so between any moment *)
(* before and any after.                                                    *)
LEMMA TrueStill ==
  ASSUME NEW q, NEW result, NEW low \in Nat, NEW high \in Nat, NEW later \in Nat, high <= later,
         TrueBetween(q, result, low, high)
  PROVE  TrueBetween(q, result, low, later)
<1>1. PICK n \in low..high : result \in Results(q, 1..n)
  BY DEF TrueBetween
<1>2. n \in low..later
  OBVIOUS
<1>. QED BY <1>1, <1>2 DEF TrueBetween

(* Every step of the page and of the service keeps the invariant.           *)
LEMMA DashboardStep == DashboardInv /\ [DashboardNext]_dashboardVars => DashboardInv'
<1> SUFFICES ASSUME DashboardInv, [DashboardNext]_dashboardVars PROVE DashboardInv'
  OBVIOUS
<1>0. /\ MaxLoads \in Nat /\ MaxLoads > 0 /\ Len(Log) \in Nat
      /\ inserted \in 0..Len(Log) /\ asked \in 0..Len(Log) /\ asked <= inserted
      /\ fetching \in BOOLEAN /\ loadsDone \in 0..MaxLoads /\ DOMAIN answers \subseteq Queries
      /\ dashboard.from \in 0..Len(Log) /\ dashboard.to \in 0..Len(Log)
      /\ DOMAIN dashboard.figures \in {{}, Queries}
  BY DashboardAssumption, LogRows DEF DashboardInv, DashboardTypeOK
<1>s. ASSUME UNCHANGED dashboard PROVE ShownTrue'
  BY <1>s DEF DashboardInv, ShownTrue
<1>1. CASE InsertBatch
  <2>1. inserted' \in 0..Len(Log) /\ inserted <= inserted'
    BY <1>0, <1>1 DEF InsertBatch
  <2>2. UNCHANGED <<answers, fetching, asked, dashboard, loadsDone>>
    BY <1>1 DEF InsertBatch
  <2>3. AnswersTrue'
    <3> SUFFICES ASSUME NEW q \in DOMAIN answers
                 PROVE  TrueBetween(q, answers[q], asked, inserted')
      BY <2>2 DEF AnswersTrue
    <3>1. TrueBetween(q, answers[q], asked, inserted)
      BY DEF DashboardInv, AnswersTrue
    <3>. QED BY <1>0, <2>1, <3>1, TrueStill
  <2>4. DashboardTypeOK'
    BY <1>0, <2>1, <2>2 DEF DashboardTypeOK
  <2>5. asked' <= inserted' /\ (fetching' => loadsDone' < MaxLoads)
    BY <1>0, <2>1, <2>2 DEF DashboardInv
  <2>. QED BY <1>s, <2>2, <2>3, <2>4, <2>5 DEF DashboardInv
<1>2. ASSUME NEW q \in Queries, Ask(q) PROVE DashboardInv'
  <2>1. UNCHANGED <<inserted, fetching, asked, dashboard, loadsDone>>
    BY <1>2 DEF Ask
  <2>2. PICK result \in Results(q, 1..inserted) :
          answers' = [p \in DOMAIN answers \cup {q} |-> IF p = q THEN result ELSE answers[p]]
    BY <1>2 DEF Ask
  <2>3. TrueBetween(q, result, asked, inserted)
    BY <1>0, <2>2 DEF TrueBetween
  <2>4. \A p \in DOMAIN answers : TrueBetween(p, answers[p], asked, inserted)
    BY DEF DashboardInv, AnswersTrue
  <2>5. \A p \in DOMAIN answers \cup {q} : TrueBetween(p, answers'[p], asked, inserted)
    BY <2>2, <2>3, <2>4
  <2>6. DOMAIN answers' = DOMAIN answers \cup {q}
    BY <2>2
  <2>7. AnswersTrue'
    BY <2>1, <2>5, <2>6 DEF AnswersTrue
  <2>8. DashboardTypeOK'
    BY <1>0, <2>1, <2>6 DEF DashboardTypeOK
  <2>. QED BY <1>s, <2>1, <2>7, <2>8 DEF DashboardInv
<1>3. ASSUME NEW shown, Loaded(shown), fetching,
             shown.from \in 0..Len(Log), shown.to \in 0..Len(Log),
             DOMAIN shown.figures \in {{}, Queries},
             shown # NoDashboard =>
               /\ shown.from <= shown.to /\ DOMAIN shown.figures = Queries
               /\ \A q \in Queries : TrueBetween(q, shown.figures[q], shown.from, shown.to)
      PROVE  DashboardInv'
  <2>1. /\ dashboard' = shown /\ fetching' = FALSE /\ loadsDone' = loadsDone + 1
        /\ DOMAIN answers' = {} /\ asked' = 0 /\ inserted' = inserted
    BY <1>3 DEF Loaded
  <2>2. loadsDone < MaxLoads
    BY <1>3 DEF DashboardInv
  <2>t. loadsDone' \in 0..MaxLoads
    BY <1>0, <2>1, <2>2
  <2>d. /\ shown.from \in 0..Len(Log) /\ shown.to \in 0..Len(Log)
        /\ DOMAIN shown.figures \in {{}, Queries}
    BY <1>3
  <2>i. inserted' \in 0..Len(Log) /\ asked' \in 0..Len(Log)
    BY <1>0, <2>1
  <2>f. /\ dashboard'.from \in 0..Len(Log) /\ dashboard'.to \in 0..Len(Log)
        /\ DOMAIN dashboard'.figures \in {{}, Queries}
    BY <2>1, <2>d
  <2>b. fetching' \in BOOLEAN /\ DOMAIN answers' \subseteq Queries
    BY <2>1
  <2>3. DashboardTypeOK'
    BY <2>b, <2>f, <2>i, <2>t DEF DashboardTypeOK
  <2>4. AnswersTrue'
    BY <2>1 DEF AnswersTrue
  <2>5. ShownTrue'
    BY <1>3, <2>1 DEF ShownTrue
  <2>6. asked' <= inserted' /\ (fetching' => loadsDone' < MaxLoads)
    BY <1>0, <2>1
  <2>. QED BY <2>3, <2>4, <2>5, <2>6 DEF DashboardInv
<1>4. CASE ShowDashboard
  <2> DEFINE shown == [figures |-> answers, from |-> asked, to |-> inserted]
  <2>1. fetching /\ DOMAIN answers = Queries /\ Loaded(shown)
    BY <1>4 DEF ShowDashboard
  <2>2. shown.figures = answers /\ shown.from = asked /\ shown.to = inserted
    OBVIOUS
  <2>3. \A q \in Queries : TrueBetween(q, answers[q], asked, inserted)
    BY <2>1 DEF DashboardInv, AnswersTrue
  <2> HIDE DEF shown
  <2>. QED BY <1>0, <1>3, <2>1, <2>2, <2>3
<1>5. CASE ShowError
  <2>1. fetching /\ Loaded(NoDashboard)
    BY <1>5 DEF ShowError
  <2>2. NoDashboard.from = 0 /\ NoDashboard.to = 0 /\ DOMAIN NoDashboard.figures = {}
    BY DEF NoDashboard
  <2>3. /\ NoDashboard.from \in 0..Len(Log) /\ NoDashboard.to \in 0..Len(Log)
        /\ DOMAIN NoDashboard.figures \in {{}, Queries}
    BY <1>0, <2>2
  <2>. QED BY <1>3, <2>1, <2>3
<1>6. CASE RefreshDashboard
  <2>1. /\ DOMAIN answers' = {} /\ fetching' = TRUE /\ asked' = inserted
        /\ loadsDone < MaxLoads /\ UNCHANGED <<inserted, dashboard, loadsDone>>
    BY <1>6 DEF RefreshDashboard, Beginning
  <2>2. DashboardTypeOK'
    BY <1>0, <2>1 DEF DashboardTypeOK
  <2>3. AnswersTrue'
    BY <2>1 DEF AnswersTrue
  <2>4. asked' <= inserted'
    BY <1>0, <2>1
  <2>. QED BY <1>s, <2>1, <2>2, <2>3, <2>4 DEF DashboardInv
<1>7. CASE UNCHANGED dashboardVars
  BY <1>s, <1>7 DEF dashboardVars, DashboardInv, DashboardTypeOK, AnswersTrue
<1>. QED BY <1>1, <1>2, <1>4, <1>5, <1>6, <1>7 DEF DashboardNext

(* The invariant of the dashboard always holds.                             *)
LEMMA DashboardAlways == DashboardSpec => []DashboardInv
  BY DashboardStart, DashboardStep, PTL DEF DashboardSpec

(* Every variable of the dashboard keeps its type.                          *)
THEOREM DashboardTypeCorrect == DashboardSpec => []DashboardTypeOK
<1>1. DashboardInv => DashboardTypeOK
  BY DEF DashboardInv
<1>. QED BY <1>1, DashboardAlways, PTL

(* The rows there were at one moment are among those of a later one.        *)
LEMMA TableGrows ==
  ASSUME NEW low \in Nat, NEW high \in Nat, NEW n \in low..high
  PROVE  /\ Between(n, Cardinality(1..low), Cardinality(1..high)) /\ Cardinality(1..n) = n
         /\ Between(Revenue(1..n), Revenue(1..low), Revenue(1..high))
         /\ Units(1..n) <= Units(1..high) /\ 1..n \subseteq 1..high
<1>1. 1..n \in SUBSET (1..high) /\ 1..low \in SUBSET (1..n)
  OBVIOUS
<1>2. Cardinality(1..n) = n /\ Cardinality(1..low) = low /\ Cardinality(1..high) = high
  <2>1. \A k \in Nat : Cardinality(1..k) = k
    BY FS_Interval
  <2>. QED BY <2>1
<1>3. Revenue(1..n) <= Revenue(1..high) /\ Revenue(1..low) <= Revenue(1..n) /\ Units(1..n) <= Units(1..high)
  BY <1>1, MoreRows
<1>. QED BY <1>1, <1>2, <1>3 DEF Between

(* Although its tables are read at different moments, what a dashboard      *)
(* shows adds up: every total lies between what the table held when it was  *)
(* asked for and when it was shown.                                         *)
THEOREM DashboardAddsUp == DashboardSpec => []AddsUp
<1>1. DashboardInv => AddsUp
  <2> SUFFICES ASSUME DashboardInv, dashboard # NoDashboard PROVE AddsUp
    BY DEF AddsUp
  <2> DEFINE f == dashboard.figures
             low == dashboard.from
             high == dashboard.to
  <2>0. /\ low \in Nat /\ high \in Nat /\ high <= Len(Log) /\ Len(Log) \in Nat
        /\ \A q \in Queries : TrueBetween(q, f[q], low, high)
    BY LogRows DEF DashboardInv, DashboardTypeOK, ShownTrue
  <2> HIDE DEF f, low, high
  <2>g. ASSUME NEW n \in low..high, NEW column
        PROVE  /\ n \in 0..Len(Log)
               /\ InAll(GroupBy(1..n, column), "orders") <= Cardinality(1..high)
               /\ column \in {"screen", "showtime"} =>
                    /\ InAll(GroupBy(1..n, column), "orders") = n
                    /\ InAll(GroupBy(1..n, column), "revenue") = Revenue(1..n)
    <3> DEFINE kept == {k \in 1..n : Log[k][column] # Null}
    <3>1. n \in 0..Len(Log)
      BY <2>0
    <3>2. /\ InAll(GroupBy(1..n, column), "orders") = Cardinality(kept)
          /\ InAll(GroupBy(1..n, column), "revenue") = Revenue(kept)
      BY <3>1, GroupsAddUp
    <3>3. Cardinality(kept) <= n /\ n <= Cardinality(1..high)
      <4>1. kept \in SUBSET (1..n) /\ IsFiniteSet(1..n) /\ Cardinality(1..n) = n
        BY <3>1, FS_Interval
      <4>2. Cardinality(1..high) = high
        BY <2>0, FS_Interval
      <4>3. Cardinality(kept) <= n
        BY <4>1, FS_Subset
      <4>. QED BY <2>0, <4>2, <4>3
    <3>4. Cardinality(kept) \in Nat /\ Cardinality(1..high) \in Nat
      <4>1. kept \in SUBSET (1..n) /\ IsFiniteSet(1..n) /\ IsFiniteSet(1..high)
        BY <2>0, <3>1, FS_Interval
      <4>. QED BY <4>1, FS_Subset, FS_CardinalityType
    <3>5. InAll(GroupBy(1..n, column), "orders") <= Cardinality(1..high)
      BY <3>1, <3>2, <3>3, <3>4
    <3>6. column \in {"screen", "showtime"} => kept = 1..n
      <4>1. \A k \in 1..n : k \in 1..Len(Log)
        BY <3>1, <2>0
      <4>. QED BY <4>1, LogRows
    <3>7. Cardinality(1..n) = n
      BY <3>1, FS_Interval
    <3>. QED BY <3>1, <3>2, <3>5, <3>6, <3>7
  <2>1. /\ Between(f["summary"].orders, Cardinality(1..low), Cardinality(1..high))
        /\ Between(f["summary"].revenue, Revenue(1..low), Revenue(1..high))
    <3>1. PICK n \in low..high : f["summary"] = Summary(1..n)
      BY <2>0, ResultsOf DEF TrueBetween, Queries
    <3>2. f["summary"].orders = Cardinality(1..n) /\ f["summary"].revenue = Revenue(1..n)
      BY <3>1 DEF Summary
    <3>. QED BY <2>0, <3>2, TableGrows
  <2>2. /\ Between(InAll(f["byScreen"], "orders"), Cardinality(1..low), Cardinality(1..high))
        /\ Between(InAll(f["byScreen"], "revenue"), Revenue(1..low), Revenue(1..high))
    <3>1. PICK n \in low..high : f["byScreen"] = GroupBy(1..n, "screen")
      BY <2>0, ResultsOf DEF TrueBetween, Queries
    <3>2. InAll(f["byScreen"], "orders") = n /\ InAll(f["byScreen"], "revenue") = Revenue(1..n)
      BY <2>g, <3>1
    <3>. QED BY <2>0, <3>2, TableGrows
  <2>3. Between(InAll(f["byShowtime"], "orders"), Cardinality(1..low), Cardinality(1..high))
    <3>1. PICK n \in low..high : f["byShowtime"] = GroupBy(1..n, "showtime")
      BY <2>0, ResultsOf DEF TrueBetween, Queries
    <3>2. InAll(f["byShowtime"], "orders") = n
      BY <2>g, <3>1
    <3>. QED BY <2>0, <3>2, TableGrows
  <2>4. InAll(f["byAgeGroup"], "orders") <= Cardinality(1..high)
    <3>1. PICK n \in low..high : f["byAgeGroup"] = GroupBy(1..n, "ageGroup")
      BY <2>0, ResultsOf DEF TrueBetween, Queries
    <3>. QED BY <2>g, <3>1
  <2>5. SumFunction(f["topItems"]) <= Units(1..high)
    <3>1. PICK n \in low..high : f["topItems"] \in TopItems(1..n)
      BY <2>0, ResultsOf DEF TrueBetween, Queries
    <3>2. SumFunction(f["topItems"]) <= Units(1..n) /\ Units(1..n) <= Units(1..high)
      BY <2>0, <3>1, TopAddsUp, TableGrows
    <3>3. Units(1..n) \in Nat /\ Units(1..high) \in Nat
      BY MoreRows
    <3>4. SumFunction(f["topItems"]) \in Int
      BY <3>1, TopAddsUp
    <3>. QED BY <3>2, <3>3, <3>4
  <2>6. f["recentOrders"] \subseteq 1..high
    <3>1. PICK n \in low..high : f["recentOrders"] \in RecentOrders(1..n)
      BY <2>0, ResultsOf DEF TrueBetween, Queries
    <3>2. f["recentOrders"] \subseteq 1..n
      BY <3>1 DEF RecentOrders, Greatest
    <3>. QED BY <2>0, <3>2, TableGrows
  <2>. QED BY <2>1, <2>2, <2>3, <2>4, <2>5, <2>6 DEF AddsUp, f, low, high
<1>. QED BY <1>1, DashboardAlways, PTL

-----------------------------------------------------------------------------
(* The carts.                                                               *)

(* What a request has read is the cart, unless it was overtaken, and the    *)
(* only requests between their two calls are edits of a line.               *)
FreshReads ==
  \A q \in Requests : request[q].step = "read" =>
    /\ request[q].body.kind \in {"add", "remove"}
    /\ request[q].stale \/ request[q].read = cart

(* The inductive invariant of the cart.                                     *)
CartInv == CartServiceTypeOK /\ FreshReads /\ OnlyRacesLose

(* The cart starts without lines, and is what an empty history makes.       *)
LEMMA CartInit == CartServiceInit => CartInv
<1> SUFFICES ASSUME CartServiceInit PROVE CartInv
  OBVIOUS
<1> USE CartServiceAssumption DEF CartServiceInit
<1>1. NoLines \in [CartItems -> 0..MaxQuantity]
  BY DEF NoLines
<1>t. NotSent \in
        [body : Bodies \cup {NotSent.body},
         step : {"unsent", "received", "read", "200", "204", "400", "404", "500"},
         read : [CartItems -> 0..MaxQuantity], stale : BOOLEAN]
  BY <1>1 DEF NotSent
<1>m. 0 \in 0..MaxMishaps /\ {} \subseteq CleanUps
  OBVIOUS
<1>r. request \in [Requests ->
        [body : Bodies \cup {NotSent.body},
         step : {"unsent", "received", "read", "200", "204", "400", "404", "500"},
         read : [CartItems -> 0..MaxQuantity], stale : BOOLEAN]]
  BY <1>t
<1>2. CartServiceTypeOK
  BY <1>1, <1>m, <1>r DEF CartServiceTypeOK
<1>3. FreshReads /\ OnlyRacesLose
  BY DEF FreshReads, OnlyRacesLose, NotSent
<1>. QED BY <1>2, <1>3 DEF CartInv

(* An edit puts the body's quantity on its line, or none.                   *)
LEMMA EditedType ==
  ASSUME NEW lines \in [CartItems -> 0..MaxQuantity], NEW body \in Bodies \cup {NotSent.body}
  PROVE  Edited(body, lines) \in [CartItems -> 0..MaxQuantity]
<1>1. body.kind = "add" => body.quantity \in 0..MaxQuantity
  BY DEF Bodies, NotSent
<1>2. 0 \in 0..MaxQuantity
  BY CartServiceAssumption
<1>. QED BY <1>1, <1>2 DEF Edited

(* What overtakes requests leaves their bodies, places and reads alone.     *)
LEMMA OvertakenFacts ==
  ASSUME NEW requests \in [Requests ->
           [body : Bodies \cup {NotSent.body},
            step : {"unsent", "received", "read", "200", "204", "400", "404", "500"},
            read : [CartItems -> 0..MaxQuantity], stale : BOOLEAN]]
  PROVE  /\ Overtaken(requests) \in [Requests ->
              [body : Bodies \cup {NotSent.body},
               step : {"unsent", "received", "read", "200", "204", "400", "404", "500"},
               read : [CartItems -> 0..MaxQuantity], stale : BOOLEAN]]
         /\ \A q \in Requests :
              /\ Overtaken(requests)[q].step = requests[q].step
              /\ Overtaken(requests)[q].body = requests[q].body
              /\ requests[q].step = "read" => Overtaken(requests)[q].stale
BY DEF Overtaken

(* Receiving a request reads nothing.                                       *)
LEMMA ReceiveCart ==
  ASSUME CartInv, NEW q \in Requests, NEW body \in Bodies, Receive(q, body) PROVE CartInv'
<1> USE DEF Receive
<1>1. CartServiceTypeOK'
  BY DEF CartInv, CartServiceTypeOK, Ordered
<1>2. FreshReads'
  BY DEF CartInv, FreshReads, CartServiceTypeOK
<1>3. OnlyRacesLose'
  BY DEF CartInv, OnlyRacesLose
<1>. QED BY <1>1, <1>2, <1>3 DEF CartInv

(* A read is fresh.                                                         *)
LEMMA ReadCartStep ==
  ASSUME CartInv, NEW q \in Requests, ReadCart(q) PROVE CartInv'
<1> USE DEF ReadCart, jobs
<1>0. request[q].body \in Bodies \cup {NotSent.body} /\ cart \in [CartItems -> 0..MaxQuantity]
  BY DEF CartInv, CartServiceTypeOK
<1>1. CartServiceTypeOK'
  BY <1>0 DEF CartInv, CartServiceTypeOK
<1>2. FreshReads'
  <2>1. SUFFICES ASSUME NEW p \in Requests, request'[p].step = "read"
                 PROVE  /\ request'[p].body.kind \in {"add", "remove"}
                        /\ request'[p].stale \/ request'[p].read = cart
    BY DEF FreshReads
  <2>2. CASE p # q
    BY <2>1, <2>2 DEF CartInv, FreshReads, CartServiceTypeOK
  <2>3. CASE p = q
    BY <2>1, <2>3, <1>0 DEF CartInv, CartServiceTypeOK, Bodies, NotSent
  <2>. QED BY <2>2, <2>3
<1>3. OnlyRacesLose'
  BY DEF CartInv, OnlyRacesLose
<1>. QED BY <1>1, <1>2, <1>3 DEF CartInv

(* A reply settles the request, whose answer was heard or not.              *)
LEMMA ReplyFacts ==
  ASSUME CartServiceTypeOK, NEW q, NEW code \in {"200", "204"}, ReplyOf(q, code)
  PROVE  /\ \E c \in {"200", "204", "500"} :
               request' = Overtaken([request EXCEPT ![q].step = c])
         /\ mishaps' \in 0..MaxMishaps
<1>1. mishaps' \in 0..MaxMishaps
  BY CartServiceAssumption DEF ReplyOf, Mishap, CartServiceTypeOK
<1>2. \E c \in {"200", "204", "500"} : request' = Overtaken([request EXCEPT ![q].step = c])
  BY DEF ReplyOf
<1>. QED BY <1>1, <1>2

(* A write of what is still there is the edit done all at once; of what is  *)
(* not, it is the race.                                                     *)
LEMMA WriteCartStep ==
  ASSUME CartInv, NEW q \in Requests, WriteCart(q) PROVE CartInv'
<1>c. PICK c \in {"200", "204", "500"} : request' = Overtaken([request EXCEPT ![q].step = c])
  BY ReplyFacts DEF WriteCart, CartInv
<1>m. mishaps' \in 0..MaxMishaps
  BY ReplyFacts DEF WriteCart, CartInv
<1> DEFINE requests == [request EXCEPT ![q].step = c]
<1> USE DEF WriteCart, jobs
<1>0. /\ request[q].body \in Bodies \cup {NotSent.body}
      /\ request[q].read \in [CartItems -> 0..MaxQuantity] /\ serial \in [CartItems -> 0..MaxQuantity]
      /\ request[q].stale \in BOOLEAN
  BY DEF CartInv, CartServiceTypeOK
<1>1. requests \in [Requests ->
         [body : Bodies \cup {NotSent.body},
          step : {"unsent", "received", "read", "200", "204", "400", "404", "500"},
          read : [CartItems -> 0..MaxQuantity], stale : BOOLEAN]]
  BY DEF CartInv, CartServiceTypeOK
<1>2. /\ cart' \in [CartItems -> 0..MaxQuantity]
      /\ serial' \in [CartItems -> 0..MaxQuantity]
  BY <1>0, EditedType DEF NextCart
<1>3. request' = Overtaken(requests)
  BY <1>c
<1> HIDE DEF requests
<1>r. raced' \in BOOLEAN
  BY <1>0 DEF CartInv, CartServiceTypeOK
<1>t. request' \in [Requests ->
        [body : Bodies \cup {NotSent.body},
         step : {"unsent", "received", "read", "200", "204", "400", "404", "500"},
         read : [CartItems -> 0..MaxQuantity], stale : BOOLEAN]]
  <2>1. Overtaken(requests) \in [Requests ->
        [body : Bodies \cup {NotSent.body},
         step : {"unsent", "received", "read", "200", "204", "400", "404", "500"},
         read : [CartItems -> 0..MaxQuantity], stale : BOOLEAN]]
    BY <1>1, OvertakenFacts
  <2>. QED BY <1>3, <2>1
<1>4. CartServiceTypeOK'
  <2>1. /\ clearing' \in [CleanUps -> {"none", "waiting", "done", "failed"}]
        /\ since' \subseteq CleanUps /\ mishaps' \in 0..MaxMishaps
    BY <1>m DEF CartInv, CartServiceTypeOK
  <2>. QED BY <1>2, <1>r, <1>t, <2>1 DEF CartServiceTypeOK
<1>5. FreshReads'
  <2>1. \A p \in Requests : request'[p].step = "read" => request'[p].stale /\ p # q
                                                      /\ request'[p].body = request[p].body
                                                      /\ request[p].step = "read"
    <3>1. \A p \in Requests : requests[p].step = "read" =>
            p # q /\ requests[p].body = request[p].body /\ request[p].step = "read"
      BY DEF requests, CartInv, CartServiceTypeOK
    <3>. QED BY <1>1, <1>3, <3>1, OvertakenFacts
  <2>. QED BY <2>1 DEF CartInv, FreshReads
<1>6. OnlyRacesLose'
  <2>1. SUFFICES ASSUME ~raced' PROVE cart' = serial'
    BY DEF OnlyRacesLose
  <2>2. ~raced /\ ~request[q].stale /\ request[q].step = "read"
    BY <2>1
  <2>3. request[q].read = cart /\ cart = serial
    BY <2>2 DEF CartInv, OnlyRacesLose, FreshReads
  <2>. QED BY <2>3 DEF NextCart
<1>. QED BY <1>4, <1>5, <1>6 DEF CartInv

(* A deletion empties both carts and overtakes every read.                  *)
LEMMA DeleteStep ==
  ASSUME CartInv, Delete,
         NEW requests \in [Requests ->
           [body : Bodies \cup {NotSent.body},
            step : {"unsent", "received", "read", "200", "204", "400", "404", "500"},
            read : [CartItems -> 0..MaxQuantity], stale : BOOLEAN]],
         \A q \in Requests : requests[q].step = "read" =>
           request[q].step = "read" /\ requests[q].body = request[q].body,
         request' = Overtaken(requests),
         clearing' \in [CleanUps -> {"none", "waiting", "done", "failed"}],
         since' = since, mishaps' \in 0..MaxMishaps
  PROVE  CartInv'
<1> USE DEF Delete
<1>1. NoLines \in [CartItems -> 0..MaxQuantity]
  BY CartServiceAssumption DEF NoLines
<1>2. CartServiceTypeOK'
  BY <1>1, OvertakenFacts DEF CartInv, CartServiceTypeOK
<1>3. FreshReads'
  BY OvertakenFacts DEF CartInv, FreshReads
<1>4. OnlyRacesLose'
  BY DEF OnlyRacesLose
<1>. QED BY <1>2, <1>3, <1>4 DEF CartInv

(* Everything else leaves the cart, and what was read of it, alone.         *)
LEMMA OtherStep ==
  ASSUME CartInv, UNCHANGED <<cart, serial, raced>>,
         request' = request
           \/ \E q \in Requests : request' = [request EXCEPT ![q].step = "500"],
         clearing' \in [CleanUps -> {"none", "waiting", "done", "failed"}],
         since' \subseteq CleanUps, mishaps' \in 0..MaxMishaps
  PROVE  CartInv'
<1>r. request' \in [Requests ->
        [body : Bodies \cup {NotSent.body},
         step : {"unsent", "received", "read", "200", "204", "400", "404", "500"},
         read : [CartItems -> 0..MaxQuantity], stale : BOOLEAN]]
  <2>1. CASE request' = request
    BY <2>1 DEF CartInv, CartServiceTypeOK
  <2>2. ASSUME NEW q \in Requests, request' = [request EXCEPT ![q].step = "500"]
        PROVE  request' \in [Requests ->
          [body : Bodies \cup {NotSent.body},
           step : {"unsent", "received", "read", "200", "204", "400", "404", "500"},
           read : [CartItems -> 0..MaxQuantity], stale : BOOLEAN]]
    <3>1. request \in [Requests ->
            [body : Bodies \cup {NotSent.body},
             step : {"unsent", "received", "read", "200", "204", "400", "404", "500"},
             read : [CartItems -> 0..MaxQuantity], stale : BOOLEAN]]
      BY DEF CartInv, CartServiceTypeOK
    <3>2. [request[q] EXCEPT !.step = "500"] \in
            [body : Bodies \cup {NotSent.body},
             step : {"unsent", "received", "read", "200", "204", "400", "404", "500"},
             read : [CartItems -> 0..MaxQuantity], stale : BOOLEAN]
      BY <3>1
    <3>3. request' = [request EXCEPT ![q] = [request[q] EXCEPT !.step = "500"]]
      BY <2>2
    <3>4. QED
      BY <3>1, <3>2, <3>3
  <2>3. QED
    BY <2>1, <2>2
<1>1. CartServiceTypeOK'
  BY <1>r DEF CartInv, CartServiceTypeOK
<1>2. FreshReads'
  BY DEF CartInv, FreshReads, CartServiceTypeOK
<1>3. OnlyRacesLose'
  BY DEF CartInv, OnlyRacesLose
<1>. QED BY <1>1, <1>2, <1>3 DEF CartInv

(* Each step keeps the invariant.                                           *)
LEMMA CartStep == CartInv /\ [CartServiceNext]_cartServiceVars => CartInv'
<1> SUFFICES ASSUME CartInv, [CartServiceNext]_cartServiceVars PROVE CartInv'
  OBVIOUS
<1>0. /\ request \in [Requests ->
           [body : Bodies \cup {NotSent.body},
            step : {"unsent", "received", "read", "200", "204", "400", "404", "500"},
            read : [CartItems -> 0..MaxQuantity], stale : BOOLEAN]]
      /\ clearing \in [CleanUps -> {"none", "waiting", "done", "failed"}]
      /\ since \subseteq CleanUps /\ mishaps \in 0..MaxMishaps
  BY DEF CartInv, CartServiceTypeOK
<1>m. Mishap => mishaps' \in 0..MaxMishaps
  BY <1>0, CartServiceAssumption DEF Mishap
<1>1. ASSUME NEW q \in Requests, HandleCart(q) PROVE CartInv'
  <2>1. CASE ReadCart(q) \/ WriteCart(q)
    BY <2>1, ReadCartStep, WriteCartStep
  <2>2. CASE ClearCart(q)
    <3>c. PICK c \in {"200", "204", "500"} :
            request' = Overtaken([request EXCEPT ![q].step = c])
      BY <2>2, ReplyFacts DEF ClearCart, CartInv
    <3>m. mishaps' \in 0..MaxMishaps
      BY <2>2, ReplyFacts DEF ClearCart, CartInv
    <3> DEFINE requests == [request EXCEPT ![q].step = c]
    <3>1. requests \in [Requests ->
           [body : Bodies \cup {NotSent.body},
            step : {"unsent", "received", "read", "200", "204", "400", "404", "500"},
            read : [CartItems -> 0..MaxQuantity], stale : BOOLEAN]]
      BY <1>0
    <3>2. \A p \in Requests : requests[p].step = "read" =>
            request[p].step = "read" /\ requests[p].body = request[p].body
      BY <1>0
    <3>3. request' = Overtaken(requests) /\ Delete
      BY <2>2, <3>c DEF ClearCart
    <3>4. UNCHANGED jobs
      BY <2>2 DEF ClearCart
    <3> HIDE DEF requests
    <3>. QED BY <3>1, <3>2, <3>3, <3>4, <3>m, <1>0, DeleteStep DEF jobs
  <2>. QED BY <1>1, <2>1, <2>2 DEF HandleCart
<1>2. ASSUME NEW q \in Requests, FailRequest(q) PROVE CartInv'
  <2>1. request' = [request EXCEPT ![q].step = "500"]
    BY <1>2 DEF FailRequest
  <2>. QED BY <1>0, <1>m, <1>2, <2>1, OtherStep DEF FailRequest, jobs
<1>3. ASSUME NEW q \in Requests, NEW body \in Bodies, Receive(q, body) PROVE CartInv'
  BY <1>3, ReceiveCart
<1>4. ASSUME NEW o \in CleanUps, PlaceOrder(o) \/ StallCleanUp(o) PROVE CartInv'
  <2>1. /\ request' = request /\ UNCHANGED <<cart, serial, raced>>
        /\ clearing' \in [CleanUps -> {"none", "waiting", "done", "failed"}]
        /\ since' \subseteq CleanUps /\ mishaps' \in 0..MaxMishaps
    BY <1>0, <1>m, <1>4 DEF PlaceOrder, StallCleanUp
  <2>. QED BY <2>1, OtherStep
<1>8. ASSUME NEW o \in CleanUps, FailCleanUp(o) PROVE CartInv'
  <2>1. /\ clearing' \in [CleanUps -> {"none", "waiting", "done", "failed"}]
        /\ since' = since /\ mishaps' \in 0..MaxMishaps
    BY <1>0, <1>m, <1>8 DEF FailCleanUp
  <2>2. CASE request' = request /\ UNCHANGED <<cart, serial, raced>>
    BY <1>0, <2>1, <2>2, OtherStep
  <2>3. CASE Delete /\ request' = Overtaken(request)
    BY <1>0, <2>1, <2>3, DeleteStep
  <2>. QED BY <1>8, <2>2, <2>3 DEF FailCleanUp
<1>5. ASSUME NEW o \in CleanUps, CleanUp(o) PROVE CartInv'
  <2>1. /\ request' = Overtaken(request) /\ Delete /\ since' = since /\ mishaps' = mishaps
        /\ clearing' \in [CleanUps -> {"none", "waiting", "done", "failed"}]
    BY <1>0, <1>5 DEF CleanUp
  <2>. QED BY <1>0, <2>1, DeleteStep
<1>6. CASE ExpireCart
  <2>1. /\ request' = Overtaken(request) /\ Delete /\ since' = since /\ mishaps' = mishaps
        /\ clearing' = clearing
    BY <1>6 DEF ExpireCart, jobs
  <2>. QED BY <1>0, <2>1, DeleteStep
<1>7. CASE UNCHANGED cartServiceVars
  <2>1. request' = request /\ UNCHANGED <<cart, serial, raced, clearing, since, mishaps>>
    BY <1>7 DEF cartServiceVars
  <2>. QED BY <1>0, <2>1, OtherStep
<1>. QED BY <1>1, <1>2, <1>3, <1>4, <1>5, <1>6, <1>7, <1>8 DEF CartServiceNext

(* Every variable of the cart service keeps its type.                       *)
THEOREM CartTypeCorrect == CartServiceSpec => []CartServiceTypeOK
<1>1. CartInv => CartServiceTypeOK
  BY DEF CartInv
<1>. QED BY <1>1, CartInit, CartStep, PTL DEF CartServiceSpec

(* An edit of the cart is lost to a race of two of its patron's requests,   *)
(* or of one and a clean-up, and to nothing else.                           *)
THEOREM OnlyRacesLoseLines == CartServiceSpec => []OnlyRacesLose
<1>1. CartInv => OnlyRacesLose
  BY DEF CartInv
<1>. QED BY <1>1, CartInit, CartStep, PTL DEF CartServiceSpec

=============================================================================
