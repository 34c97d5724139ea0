---- MODULE TwinProofs ----
EXTENDS TwinRun, Sums, SequenceTheorems, TLAPS

(* A nonempty set of numbers has a least one.                              *)
LEMMA MinIn ==
  ASSUME NEW S \in SUBSET Nat, S # {}
  PROVE  Min(S) \in S /\ \A k \in S : Min(S) <= k
<1>1. PICK n \in S : TRUE
  OBVIOUS
<1> DEFINE R == 0..n
           T == {s \in SUBSET R : \E k \in S : s = 0..k}
<1>2. IsFiniteSet(R) /\ T \in SUBSET (SUBSET R)
  BY FS_Interval
<1>3. T # {}
  <2>1. 0..n \in T
    BY <1>1
  <2>. QED BY <2>1
<1>4. PICK s \in T : \A t \in T : ~(t \subseteq s /\ t # s)
  <2> HIDE DEF T, R
  <2>. QED BY <1>2, <1>3, MinimalSubset
<1>5. PICK k \in S : s = 0..k
  BY <1>4
<1>6. ASSUME NEW j \in S, j < k PROVE FALSE
  <2>1. 0..j \subseteq 0..k /\ 0..k \subseteq 0..n
    BY <1>5, <1>6
  <2>2. 0..j \in T
    BY <2>1
  <2>3. k \in 0..k /\ k \notin 0..j
    BY <1>6
  <2>. QED BY <1>4, <1>5, <2>1, <2>2, <2>3
<1>7. \A j \in S : k <= j
  BY <1>6
<1>. QED BY <1>5, <1>7 DEF Min

(* One more outcome counts where its code is counted.                      *)
LEMMA CountAppend ==
  ASSUME NEW S, NEW s \in Seq(S), NEW e \in S, NEW code
  PROVE  /\ Count(s, code) \in 0..Len(s) /\ Len(s) \in Nat
         /\ Count(Append(s, e), code) = Count(s, code) + (IF e.code = code THEN 1 ELSE 0)
<1> DEFINE Of(q) == {n \in DOMAIN q : q[n].code = code}
           l == Len(s)
           s2 == Append(s, e)
<1>1. l \in Nat /\ DOMAIN s = 1..l
  BY LenProperties
<1>2. /\ DOMAIN s2 = 1..(l + 1) /\ s2[l + 1] = e /\ \A n \in 1..l : s2[n] = s[n]
  <2>1. s2 \in Seq(S) /\ Len(s2) = l + 1 /\ s2[l + 1] = e /\ \A n \in 1..l : s2[n] = s[n]
    BY AppendProperties
  <2>2. DOMAIN s2 = 1..Len(s2)
    BY <2>1, LenProperties
  <2>. QED BY <2>1, <2>2
<1>3. IsFiniteSet(1..l) /\ Cardinality(1..l) = l
  BY <1>1, FS_Interval
<1>4. Of(s) \in SUBSET (1..l)
  BY <1>1
<1>5. IsFiniteSet(Of(s)) /\ Cardinality(Of(s)) \in Nat /\ Cardinality(Of(s)) <= l
  <2> HIDE DEF Of
  <2>. QED BY <1>3, <1>4, FS_Subset, FS_CardinalityType
<1>6. Of(s2) = IF e.code = code THEN Of(s) \cup {l + 1} ELSE Of(s)
  <2>1. 1..(l + 1) = (1..l) \cup {l + 1}
    BY <1>1
  <2>2. Of(s2) = {n \in 1..l : s[n].code = code} \cup {n \in {l + 1} : e.code = code}
    BY <1>2, <2>1
  <2>3. Of(s) = {n \in 1..l : s[n].code = code}
    BY <1>1
  <2>. QED BY <2>2, <2>3
<1>7. l + 1 \notin Of(s)
  BY <1>1, <1>4
<1>8. Cardinality(Of(s2)) = Cardinality(Of(s)) + (IF e.code = code THEN 1 ELSE 0)
  <2>1. CASE e.code = code
    <3>1. Of(s2) = Of(s) \cup {l + 1}
      BY <1>6, <2>1
    <3> HIDE DEF Of, l, s2
    <3>2. Cardinality(Of(s2)) = Cardinality(Of(s)) + 1
      BY <1>5, <1>7, <3>1, FS_AddElement
    <3>. QED BY <2>1, <3>2
  <2>2. CASE e.code # code
    <3>1. Of(s2) = Of(s)
      BY <1>6, <2>2
    <3> HIDE DEF Of
    <3>. QED BY <1>5, <2>2, <3>1
  <2>. QED BY <2>1, <2>2
<1>9. Count(s, code) = Cardinality(Of(s)) /\ Count(s2, code) = Cardinality(Of(s2))
  BY DEF Count
<1>10. Cardinality(Of(s)) \in 0..l
  <2> HIDE DEF Of
  <2>. QED BY <1>1, <1>5
<1> HIDE DEF Of
<1>. QED BY <1>1, <1>8, <1>9, <1>10

-----------------------------------------------------------------------------
(* A run, as its scenario c, its record x, its tasks t and its metrics m;  *)
(* z is what was under way when it was cancelled.                          *)

RunFields ==
  {"status", "step", "aborted", "scheduleIndex", "puts", "completed", "failed", "report"}
MetricFields ==
  {"polling", "polls", "outcomes", "levels", "depths", "delta", "changed", "lag", "series"}
RunStatuses == Ended \cup {"absent", "pending", "running"}
Steps == {"none", "refill", "puts", "signup", "schedule", "batch"}
TaskStates == {"waiting", "queued", "running", "done", "thrown"}
TaskType == [state : TaskStates, line : Nat \ {0}, releasing : SUBSET Nat]
Outcome(c) == [patron : DOMAIN c.baskets, code : {201, 409, 500}, latency : Nat]

RunningOf(t) == {p \in DOMAIN t : t[p].state = "running"}
QueueOf(t) == {p \in DOMAIN t : t[p].state = "queued"}

Shaped(c, x, m) ==
  /\ DOMAIN x = RunFields /\ DOMAIN m = MetricFields
  /\ x.status \in RunStatuses /\ x.step \in Steps /\ x.aborted \in BOOLEAN
  /\ x.scheduleIndex \in 0..Len(c.baskets) /\ x.completed \in Nat /\ x.failed \in Nat

(* A task that holds nothing, at its first line.                           *)
Free(k) == k.line = 1 /\ k.releasing = {}

TaskFine(basket, k) ==
  /\ k \in TaskType /\ k.line <= Len(basket) /\ k.releasing \subseteq 1..(k.line - 1)
  /\ ~Free(k) => k.state \in {"running", "thrown"}
TasksFine(c, t) ==
  t \in [DOMAIN c.baskets -> TaskType] /\ \A p \in DOMAIN c.baskets : TaskFine(c.baskets[p], t[p])

(* The counters are those of the outcomes.                                 *)
Counted(c, x, m) ==
  /\ m.outcomes \in Seq(Outcome(c))
  /\ x.completed = Count(m.outcomes, 201) /\ x.completed + x.failed = Len(m.outcomes)

(* Where a run is, and who may be at work there.                           *)
Staged(x, t) ==
  /\ x.status \in {"absent", "pending"} <=> x.step = "none"
  /\ x.step = "none" => ~x.aborted /\ \A p \in DOMAIN t : t[p].state = "waiting"
  /\ x.step \notin {"schedule", "batch"} => x.scheduleIndex = 0
  /\ x.step \notin {"signup", "batch"} => RunningOf(t) = {}
  /\ x.status \in {"completed", "cancelled"} => x.step = "schedule"
  /\ \A p \in DOMAIN t : t[p].state = "thrown" => x.status = "failed"

(* Only who was scheduled orders, and only orders are released.            *)
Called(c, x, t) ==
  /\ x.step = "batch" => \A p \in RunningOf(t) : p <= x.scheduleIndex
  /\ x.step = "batch" /\ ~x.aborted /\ c.workerConcurrency > 0 =>
       \A p \in QueueOf(t) : p <= x.scheduleIndex
  /\ \A p \in DOMAIN t : ~Free(t[p]) => x.step = "batch" /\ c.mode = "stub"
  /\ x.step # "none" => c.mode \in {"stub", "live"}
  /\ x.step \in {"puts", "signup"} => c.mode = "live"

(* No more tasks run than there are workers; one does if any is queued.    *)
Staffed(c, x, t) ==
  /\ Cardinality(RunningOf(t)) <= c.workerConcurrency
  /\ x.status = "running" /\ ~x.aborted /\ c.workerConcurrency > 0 /\ QueueOf(t) # {} =>
       RunningOf(t) # {}

(* Whoever was scheduled and is done has one outcome, and nobody else.     *)
OnceEach(x, t, m) ==
  /\ \A n \in DOMAIN m.outcomes :
       m.outcomes[n].patron <= x.scheduleIndex /\ t[m.outcomes[n].patron].state = "done"
  /\ \A n, k \in DOMAIN m.outcomes : m.outcomes[n].patron = m.outcomes[k].patron => n = k
  /\ \A p \in DOMAIN t : p <= x.scheduleIndex => t[p].state # "waiting"
  /\ \A p \in DOMAIN t : p <= x.scheduleIndex /\ t[p].state = "done" =>
       \E n \in DOMAIN m.outcomes : m.outcomes[n].patron = p

(* What holds once the report is made.                                     *)
Reported(c, x, t, m) ==
  /\ x.status = "completed" =>
       /\ ~x.aborted /\ x.scheduleIndex = Len(c.baskets)
       /\ c.workerConcurrency > 0 => QueueOf(t) = {}
  /\ x.status \in {"completed", "cancelled"} =>
       /\ x.report.succeeded = x.completed
       /\ x.report.attempted = x.completed + x.failed
       /\ x.report.patrons = Len(c.baskets)
       /\ x.report # <<>>
  /\ x.status \notin {"completed", "cancelled"} => x.report = <<>>

Stopped(x, t, m, z) ==
  z \in Nat /\ (x.aborted => Len(m.outcomes) + Cardinality(RunningOf(t)) <= z)

(* The inductive invariant of a run.                                       *)
Fine(c, x, t, m, z) ==
  /\ Shaped(c, x, m) /\ TasksFine(c, t) /\ Counted(c, x, m) /\ Staged(x, t) /\ Called(c, x, t)
  /\ Staffed(c, x, t) /\ OnceEach(x, t, m) /\ Reported(c, x, t, m) /\ Stopped(x, t, m, z)

(* A scenario has finitely many patrons, and each a basket.                *)
LEMMA Audience ==
  ASSUME NEW c, Scenario(c)
  PROVE  /\ Len(c.baskets) \in Nat /\ DOMAIN c.baskets = 1..Len(c.baskets)
         /\ IsFiniteSet(DOMAIN c.baskets) /\ c.workerConcurrency \in Nat
         /\ \A p \in DOMAIN c.baskets : Len(c.baskets[p]) \in Nat \ {0}
<1> DEFINE L == [item : Items, quantity : Nat]
           B == Seq(L) \ {<<>>}
<1>1. c.baskets \in Seq(B) /\ c.workerConcurrency \in Nat
  BY DEF Scenario
<1>2. Len(c.baskets) \in Nat /\ DOMAIN c.baskets = 1..Len(c.baskets)
  BY <1>1, LenProperties
<1>3. ASSUME NEW p \in DOMAIN c.baskets PROVE Len(c.baskets[p]) \in Nat \ {0}
  <2>1. c.baskets[p] \in Seq(L) /\ c.baskets[p] # <<>>
    <3>1. c.baskets[p] \in B
      <4> HIDE DEF B
      <4>. QED BY <1>1, <1>2, <1>3, ElementOfSeq
    <3>. QED BY <3>1
  <2> HIDE DEF L
  <2>. QED BY <2>1, EmptySeq, LenProperties
<1>. QED BY <1>1, <1>2, <1>3, FS_Interval

(* A task that was not begun, or is over, holds nothing.                   *)
LEMMA IdleFine ==
  ASSUME NEW state \in TaskStates, NEW basket, Len(basket) \in Nat \ {0}
  PROVE  /\ Idle(state) \in TaskType /\ Idle(state).state = state /\ TaskFine(basket, Idle(state))
         /\ Free(Idle(state)) /\ Idle(state).releasing = {} /\ Idle(state).line = 1
  BY DEF Idle, TaskType, TaskFine, Free

(* Of finitely many patrons, finitely many are at work.                    *)
LEMMA WorkersFinite ==
  ASSUME NEW c, Scenario(c), NEW t, DOMAIN t = DOMAIN c.baskets
  PROVE  /\ IsFiniteSet(RunningOf(t)) /\ Cardinality(RunningOf(t)) \in Nat
         /\ RunningOf(t) \subseteq Nat /\ QueueOf(t) \subseteq Nat
<1>1. RunningOf(t) \in SUBSET (DOMAIN c.baskets)
  BY DEF RunningOf
<1>2. IsFiniteSet(RunningOf(t)) /\ Cardinality(RunningOf(t)) \in Nat
  BY <1>1, Audience, FS_Subset, FS_CardinalityType
<1>3. DOMAIN c.baskets \subseteq Nat
  BY Audience
<1>. QED BY <1>2, <1>3 DEF RunningOf, QueueOf

(* While nobody is at work in a run that did not fail, nothing is released. *)
LEMMA NothingReleased ==
  ASSUME NEW c, NEW x, NEW t, NEW m, NEW z, Fine(c, x, t, m, z),
         RunningOf(t) = {}, x.status # "failed"
  PROVE  \A p \in DOMAIN t : Free(t[p])
<1> SUFFICES ASSUME NEW p \in DOMAIN t, ~Free(t[p]) PROVE FALSE
  OBVIOUS
<1>1. t[p].state \in {"running", "thrown"}
  BY DEF Fine, TasksFine, TaskFine
<1>2. t[p].state # "running"
  BY DEF RunningOf
<1>. QED BY <1>1, <1>2 DEF Fine, Staged

-----------------------------------------------------------------------------
(* What steps of one run do to it.                                         *)

(* The run goes on to a place where nobody is at work.                     *)
LEMMA GoOnFine ==
  ASSUME NEW c, Scenario(c), NEW x, NEW t, NEW m, NEW z, Fine(c, x, t, m, z), NEW x2, NEW m2,
         DOMAIN x2 = RunFields, DOMAIN m2 = MetricFields, m2.outcomes = m.outcomes,
         x.status = "running", x2.status = "running", x2.aborted = x.aborted,
         x2.scheduleIndex = x.scheduleIndex, x2.completed = x.completed, x2.failed = x.failed, x2.report = x.report,
         x2.step \in {"refill", "puts", "schedule"}, RunningOf(t) = {},
         x2.step # "schedule" => x.scheduleIndex = 0, x2.step = "puts" => c.mode = "live"
  PROVE  Fine(c, x2, t, m2, z)
<1>1. Shaped(c, x2, m2)
  BY DEF Fine, Shaped, RunStatuses, Steps
<1>2. TasksFine(c, t) /\ Counted(c, x2, m2)
  BY DEF Fine, Counted
<1>3. Staged(x2, t)
  BY DEF Fine, Staged
<1>c. Called(c, x2, t)
  BY NothingReleased DEF Fine, Staged, Called
<1>4. Staffed(c, x2, t) /\ OnceEach(x2, t, m2)
  BY DEF Fine, Staffed, OnceEach
<1>5. Reported(c, x2, t, m2) /\ Stopped(x2, t, m2, z)
  BY DEF Fine, Reported, Stopped
<1>. QED BY <1>c, <1>1, <1>2, <1>3, <1>4, <1>5 DEF Fine

(* The run starts, or stays pending.                                       *)
LEMMA StartFine ==
  ASSUME NEW c, Scenario(c), NEW x, NEW t, NEW m, NEW z, Fine(c, x, t, m, z), NEW x2, NEW m2,
         DOMAIN x2 = RunFields, DOMAIN m2 = MetricFields, m2.outcomes = m.outcomes,
         x.status = "absent", x2.aborted = x.aborted,
         x2.scheduleIndex = x.scheduleIndex, x2.completed = x.completed, x2.failed = x.failed, x2.report = x.report,
         \/ x2.status = "running" /\ x2.step = "refill" /\ c.mode # "none"
         \/ x2.status = "pending" /\ x2.step = x.step
  PROVE  Fine(c, x2, t, m2, z)
<1>0. x.step = "none" /\ ~x.aborted /\ (\A p \in DOMAIN t : t[p].state = "waiting") /\ x.scheduleIndex = 0
  BY DEF Fine, Staged
<1>1. Shaped(c, x2, m2)
  BY DEF Fine, Shaped, RunStatuses, Steps
<1>2. TasksFine(c, t) /\ Counted(c, x2, m2)
  BY DEF Fine, Counted
<1>w. QueueOf(t) = {} /\ RunningOf(t) = {}
  BY <1>0 DEF QueueOf, RunningOf
<1>3. Staged(x2, t)
  BY <1>0, <1>w DEF Fine, Staged
<1>c. Called(c, x2, t)
  BY <1>0, <1>w, NothingReleased DEF Called, Scenario
<1>4. Staffed(c, x2, t) /\ OnceEach(x2, t, m2)
  BY <1>0, <1>w DEF Fine, Staffed, OnceEach
<1>5. Reported(c, x2, t, m2) /\ Stopped(x2, t, m2, z)
  BY <1>0 DEF Fine, Reported, Stopped
<1>. QED BY <1>c, <1>1, <1>2, <1>3, <1>4, <1>5 DEF Fine

(* The run fails, and one of its tasks may have.                           *)
LEMMA FailFine ==
  ASSUME NEW c, Scenario(c), NEW x, NEW t, NEW m, NEW z, Fine(c, x, t, m, z), NEW x2, NEW m2,
         DOMAIN x2 = RunFields, DOMAIN m2 = MetricFields, m2.outcomes = m.outcomes,
         x.status \in {"running", "failed"}, x2.status = "failed", x2.aborted = x.aborted,
         x2.scheduleIndex = x.scheduleIndex, x2.completed = x.completed, x2.failed = x.failed, x2.report = x.report,
         x2.step = x.step, NEW t2, TasksFine(c, t2),
         t2 = t \/ \E p \in RunningOf(t) :
                     /\ t2[p].state = "thrown" /\ (Free(t[p]) => Free(t2[p]))
                     /\ \A q \in DOMAIN t \ {p} : t2[q] = t[q]
  PROVE  Fine(c, x2, t2, m2, z)
<1>d. DOMAIN t = DOMAIN c.baskets /\ DOMAIN t2 = DOMAIN c.baskets
  BY DEF Fine, TasksFine
<1>1. Shaped(c, x2, m2)
  BY DEF Fine, Shaped, RunStatuses, Ended
<1>2. Counted(c, x2, m2)
  BY DEF Fine, Counted
<1>3. RunningOf(t2) \in SUBSET RunningOf(t)
  BY <1>d DEF RunningOf
<1>4. /\ Cardinality(RunningOf(t2)) <= Cardinality(RunningOf(t))
      /\ Cardinality(RunningOf(t)) \in Nat /\ Cardinality(RunningOf(t2)) \in Nat
  <2>1. IsFiniteSet(RunningOf(t)) /\ Cardinality(RunningOf(t)) \in Nat /\ Cardinality(RunningOf(t2)) \in Nat
    BY <1>d, WorkersFinite
  <2>. QED BY <1>3, <2>1, FS_Subset
<1>5. Staged(x2, t2)
  <2>1. x2.step # "none"
    BY DEF Fine, Staged
  <2>2. x2.step \notin {"signup", "batch"} => RunningOf(t2) = {}
    BY <1>3 DEF Fine, Staged
  <2>. QED BY <2>1, <2>2 DEF Fine, Staged
<1>c. Called(c, x2, t2)
  <2>1. QueueOf(t2) \in SUBSET QueueOf(t)
    BY <1>d DEF QueueOf
  <2>2. \A p \in DOMAIN t2 : ~Free(t2[p]) => ~Free(t[p])
    BY <1>d
  <2>. QED BY <1>3, <1>d, <2>1, <2>2 DEF Fine, Called
<1>6. Staffed(c, x2, t2)
  <2>1. Cardinality(RunningOf(t)) <= c.workerConcurrency /\ c.workerConcurrency \in Nat
    BY Audience DEF Fine, Staffed
  <2>. QED BY <1>4, <2>1 DEF Staffed
<1>7. OnceEach(x2, t2, m2)
  <2>1. CASE t2 = t
    BY <2>1 DEF Fine, OnceEach
  <2>2. ASSUME NEW p \in RunningOf(t), t2[p].state = "thrown", \A q \in DOMAIN t \ {p} : t2[q] = t[q]
        PROVE  OnceEach(x2, t2, m2)
    <3>1. t[p].state = "running" /\ p \in DOMAIN t
      BY DEF RunningOf
    <3>2. \A q \in DOMAIN t : (t[q].state = "done" <=> t2[q].state = "done")
                             /\ (t[q].state # "waiting" => t2[q].state # "waiting")
      BY <2>2, <3>1
    <3>3. \A n \in DOMAIN m.outcomes : m.outcomes[n].patron \in DOMAIN t
      <4>1. m.outcomes \in Seq(Outcome(c))
        BY DEF Fine, Counted
      <4>2. \A n \in DOMAIN m.outcomes : m.outcomes[n] \in Outcome(c)
        BY <4>1, LenProperties, ElementOfSeq
      <4>. QED BY <1>d, <4>2 DEF Outcome
    <3>4. OnceEach(x, t, m)
      BY DEF Fine
    <3>5. \A n \in DOMAIN m2.outcomes :
             m2.outcomes[n].patron <= x2.scheduleIndex /\ t2[m2.outcomes[n].patron].state = "done"
      BY <3>2, <3>3, <3>4 DEF OnceEach
    <3>6. \A q \in DOMAIN t : q <= x.scheduleIndex => t2[q].state # "waiting"
      <4> SUFFICES ASSUME NEW q \in DOMAIN t, q <= x.scheduleIndex PROVE t2[q].state # "waiting"
        OBVIOUS
      <4>1. t[q].state # "waiting"
        BY <3>4 DEF OnceEach
      <4>. QED BY <2>2, <3>1, <4>1
    <3>. QED BY <1>d, <3>2, <3>4, <3>5, <3>6 DEF OnceEach
  <2>. QED BY <2>1, <2>2
<1>8. Reported(c, x2, t2, m2)
  BY DEF Fine, Reported
<1>9. Stopped(x2, t2, m2, z)
  <2>0. z \in Nat
    BY DEF Fine, Stopped
  <2> SUFFICES ASSUME x.aborted PROVE Len(m.outcomes) + Cardinality(RunningOf(t2)) <= z
    BY <2>0 DEF Stopped
  <2>1. Len(m.outcomes) + Cardinality(RunningOf(t)) <= z
    BY DEF Fine, Stopped
  <2>2. Len(m.outcomes) \in Nat
    <3>1. m.outcomes \in Seq(Outcome(c))
      BY DEF Fine, Counted
    <3>. QED BY <3>1, LenProperties
  <2>. QED BY <1>4, <2>0, <2>1, <2>2
<1>. QED BY <1>c, <1>1, <1>2, <1>5, <1>6, <1>7, <1>8, <1>9 DEF Fine

(* The run is cancelled: what is under way is what it may still record.    *)
LEMMA AbortFine ==
  ASSUME NEW c, Scenario(c), NEW x, NEW t, NEW m, NEW z, Fine(c, x, t, m, z), NEW x2,
         DOMAIN x2 = RunFields, x.status = "running", x2.status = "running", x2.aborted = TRUE,
         x2.scheduleIndex = x.scheduleIndex, x2.completed = x.completed, x2.failed = x.failed,
         x2.step = x.step, x2.report = x.report
  PROVE  Fine(c, x2, t, m, Len(m.outcomes) + Cardinality(RunningOf(t)))
<1>1. Shaped(c, x2, m)
  BY DEF Fine, Shaped, RunStatuses
<1>2. TasksFine(c, t) /\ Counted(c, x2, m) /\ Staged(x2, t) /\ Called(c, x2, t)
  BY DEF Fine, Counted, Staged, Called
<1>3. Staffed(c, x2, t) /\ OnceEach(x2, t, m) /\ Reported(c, x2, t, m)
  BY DEF Fine, Staffed, OnceEach, Reported
<1>4. Len(m.outcomes) \in Nat /\ Cardinality(RunningOf(t)) \in Nat
  <2>1. m.outcomes \in Seq(Outcome(c)) /\ DOMAIN t = DOMAIN c.baskets
    BY DEF Fine, Counted, TasksFine
  <2>. QED BY <2>1, LenProperties, WorkersFinite
<1>5. Stopped(x2, t, m, Len(m.outcomes) + Cardinality(RunningOf(t)))
  BY <1>4 DEF Stopped
<1>. QED BY <1>1, <1>2, <1>3, <1>5 DEF Fine

(* A poll or a snapshot.                                                   *)
LEMMA LookFine ==
  ASSUME NEW c, NEW x, NEW t, NEW m, NEW z, Fine(c, x, t, m, z), NEW m2,
         DOMAIN m2 = MetricFields, m2.outcomes = m.outcomes
  PROVE  Fine(c, x, t, m2, z)
BY DEF Fine, Shaped, Counted, OnceEach, Reported, Stopped

(* A task that goes on with its order.                                     *)
LEMMA TouchFine ==
  ASSUME NEW c, NEW x, NEW t, NEW m, NEW z, Fine(c, x, t, m, z), NEW t2, TasksFine(c, t2),
         \A p \in DOMAIN t : t2[p].state = t[p].state
                              /\ (~Free(t2[p]) => x.step = "batch" /\ c.mode = "stub")
  PROVE  Fine(c, x, t2, m, z)
<1>d. DOMAIN t = DOMAIN c.baskets /\ DOMAIN t2 = DOMAIN c.baskets
  BY DEF Fine, TasksFine
<1>1. RunningOf(t2) = RunningOf(t) /\ QueueOf(t2) = QueueOf(t)
  BY <1>d DEF RunningOf, QueueOf
<1>2. Staged(x, t2)
  BY <1>d, <1>1 DEF Fine, Staged
<1>c. Called(c, x, t2)
  BY <1>d, <1>1 DEF Fine, Called
<1>3. Staffed(c, x, t2) /\ Reported(c, x, t2, m) /\ Stopped(x, t2, m, z)
  BY <1>1 DEF Fine, Staffed, Reported, Stopped
<1>4. \A n \in DOMAIN m.outcomes : m.outcomes[n].patron \in DOMAIN t
  <2>1. m.outcomes \in Seq(Outcome(c))
    BY DEF Fine, Counted
  <2>2. \A n \in DOMAIN m.outcomes : m.outcomes[n] \in Outcome(c)
    BY <2>1, LenProperties, ElementOfSeq
  <2>. QED BY <1>d, <2>2 DEF Outcome
<1>5. OnceEach(x, t2, m)
  BY <1>d, <1>4 DEF Fine, OnceEach
<1>. QED BY <1>c, <1>2, <1>3, <1>5 DEF Fine

(* A worker whose task has ended takes the next of the queue.              *)
Took(x, t) ==
  IF QueueOf(t) = {} \/ x.aborted THEN t ELSE [t EXCEPT ![Min(QueueOf(t))] = Idle("running")]

(* It is the only one that starts, and the one that ended the only to end. *)
HandedOn(c, x, t, p, t2) ==
  /\ TasksFine(c, t2) /\ t2[p].state = "done" /\ Free(t2[p])
  /\ \A q \in DOMAIN t \ {p} : \/ t2[q] = t[q]
                               \/ /\ t[q].state = "queued" /\ t2[q].state = "running"
                                  /\ Free(t2[q]) /\ ~x.aborted
  /\ Cardinality(RunningOf(t2)) <= Cardinality(RunningOf(t))
  /\ x.aborted => Cardinality(RunningOf(t2)) + 1 = Cardinality(RunningOf(t))
  /\ ~x.aborted /\ QueueOf(t2) # {} => RunningOf(t2) # {}
  /\ QueueOf(t2) \subseteq QueueOf(t)

(* Taking the next task does that.                                         *)
LEMMA TookFine ==
  ASSUME NEW c, Scenario(c), NEW x, NEW t, TasksFine(c, t), NEW p \in RunningOf(t)
  PROVE  HandedOn(c, x, t, p, Took(x, [t EXCEPT ![p] = Idle("done")]))
<1> DEFINE t2 == Took(x, [t EXCEPT ![p] = Idle("done")])
<1> DEFINE u == [t EXCEPT ![p] = Idle("done")]
<1>d. DOMAIN t = DOMAIN c.baskets /\ p \in DOMAIN t /\ t[p].state = "running" /\ DOMAIN u = DOMAIN t
  BY DEF TasksFine, RunningOf
<1>b. \A q \in DOMAIN t : Len(c.baskets[q]) \in Nat \ {0}
  BY <1>d, Audience
<1>i. \A q \in DOMAIN t : \A s \in {"done", "running"} :
        Idle(s) \in TaskType /\ Idle(s).state = s /\ Free(Idle(s)) /\ TaskFine(c.baskets[q], Idle(s))
  BY <1>b, IdleFine DEF TaskStates
<1>1. TasksFine(c, u)
  BY <1>d, <1>i DEF TasksFine
<1>2. RunningOf(u) = RunningOf(t) \ {p} /\ QueueOf(u) = QueueOf(t)
  BY <1>d, <1>i DEF RunningOf, QueueOf
<1>3. IsFiniteSet(RunningOf(t)) /\ Cardinality(RunningOf(t)) \in Nat /\ QueueOf(u) \subseteq Nat
  BY <1>d, WorkersFinite
<1>4. /\ IsFiniteSet(RunningOf(u)) /\ Cardinality(RunningOf(u)) + 1 = Cardinality(RunningOf(t))
      /\ Cardinality(RunningOf(u)) \in Nat
  <2>1. PICK S, T : S = RunningOf(t) /\ T = RunningOf(u)
    OBVIOUS
  <2>2. IsFiniteSet(S) /\ T = S \ {p} /\ p \in S /\ Cardinality(S) \in Nat
    BY <1>2, <1>3, <2>1
  <2>3. IsFiniteSet(T) /\ Cardinality(T) = Cardinality(S) - 1
    BY ONLY <2>2, FS_RemoveElement
  <2>4. Cardinality(T) \in Nat
    BY ONLY <2>3, FS_CardinalityType
  <2>. QED BY ONLY <2>1, <2>2, <2>3, <2>4
<1>5. u[p].state = "done" /\ Free(u[p]) /\ \A q \in DOMAIN t \ {p} : u[q] = t[q]
  BY <1>d, <1>i
<1>6. ASSUME QueueOf(u) = {} \/ x.aborted PROVE HandedOn(c, x, t, p, t2)
  <2>1. t2 = u
    BY <1>6 DEF Took
  <2> HIDE DEF u, t2
  <2>2. TasksFine(c, t2) /\ t2[p].state = "done" /\ Free(t2[p]) /\ \A q \in DOMAIN t \ {p} : t2[q] = t[q]
    BY <1>1, <1>5, <2>1
  <2>3. /\ Cardinality(RunningOf(t2)) + 1 = Cardinality(RunningOf(t))
        /\ Cardinality(RunningOf(t2)) <= Cardinality(RunningOf(t))
    BY <1>3, <1>4, <2>1
  <2>4. ~x.aborted => QueueOf(t2) = {}
    BY <1>6, <2>1
  <2>5. QueueOf(t2) \subseteq QueueOf(t)
    BY <1>2, <2>1
  <2>. QED BY <2>2, <2>3, <2>4, <2>5 DEF HandedOn
<1>7. ASSUME QueueOf(u) # {}, ~x.aborted PROVE HandedOn(c, x, t, p, t2)
  <2>1. PICK k : k = Min(QueueOf(u))
    OBVIOUS
  <2>2. k \in QueueOf(u)
    BY <1>3, <1>7, <2>1, MinIn
  <2>3. t2 = [u EXCEPT ![k] = Idle("running")]
    BY <1>7, <2>1 DEF Took
  <2>4. k \in DOMAIN u /\ u[k].state = "queued" /\ k # p /\ t[k].state = "queued"
    BY <1>5, <1>d, <2>2 DEF QueueOf
  <2> HIDE DEF u, t2
  <2>5. TasksFine(c, t2)
    BY <1>1, <1>d, <1>i, <2>3, <2>4 DEF TasksFine
  <2>6. DOMAIN t2 = DOMAIN u /\ t2[k].state = "running" /\ Free(t2[k]) /\ \A q \in DOMAIN t \ {k} : t2[q] = u[q]
    BY <1>d, <1>i, <2>3, <2>4
  <2>7. RunningOf(t2) = RunningOf(u) \cup {k} /\ QueueOf(t2) \subseteq QueueOf(u)
    BY <1>d, <2>4, <2>6 DEF RunningOf, QueueOf
  <2>8. Cardinality(RunningOf(t2)) <= Cardinality(RunningOf(t))
    <3>1. Cardinality(RunningOf(t2)) \in {Cardinality(RunningOf(u)), Cardinality(RunningOf(u)) + 1}
      BY <1>4, <2>7, FS_AddElement
    <3>. QED BY <1>3, <1>4, <3>1
  <2>9. \A q \in DOMAIN t \ {p} : \/ t2[q] = t[q]
                                  \/ /\ t[q].state = "queued" /\ t2[q].state = "running"
                                     /\ Free(t2[q]) /\ ~x.aborted
    BY <1>5, <1>7, <2>4, <2>6
  <2>10. t2[p].state = "done" /\ Free(t2[p]) /\ RunningOf(t2) # {}
    BY <1>5, <1>d, <2>4, <2>6, <2>7
  <2>. QED BY <1>2, <1>7, <2>5, <2>7, <2>8, <2>9, <2>10 DEF HandedOn
<1> HIDE DEF u, t2
<1>8. HandedOn(c, x, t, p, t2)
  BY <1>6, <1>7
<1>. QED BY <1>8 DEF t2, u

(* A patron has signed up.                                                 *)
LEMMA SignedUpFine ==
  ASSUME NEW c, Scenario(c), NEW x, NEW t, NEW m, NEW z, Fine(c, x, t, m, z),
         x.step = "signup", NEW p \in RunningOf(t),
         NEW t2, t2 = Took(x, [t EXCEPT ![p] = Idle("done")])
  PROVE  Fine(c, x, t2, m, z)
<1>1. /\ TasksFine(c, t2) /\ t2[p].state = "done" /\ Free(t2[p])
      /\ \A q \in DOMAIN t \ {p} : \/ t2[q] = t[q]
                                   \/ /\ t[q].state = "queued" /\ t2[q].state = "running"
                                      /\ Free(t2[q]) /\ ~x.aborted
      /\ QueueOf(t2) \subseteq QueueOf(t)
      /\ Cardinality(RunningOf(t2)) <= Cardinality(RunningOf(t))
      /\ x.aborted => Cardinality(RunningOf(t2)) + 1 = Cardinality(RunningOf(t))
      /\ ~x.aborted /\ QueueOf(t2) # {} => RunningOf(t2) # {}
  <2>1. TasksFine(c, t)
    BY DEF Fine
  <2>2. HandedOn(c, x, t, p, t2)
    BY <2>1, TookFine
  <2>. QED BY <2>2 DEF HandedOn
<1>d. DOMAIN t = DOMAIN c.baskets /\ DOMAIN t2 = DOMAIN t /\ \A q \in DOMAIN t : q > 0
  BY <1>1, Audience DEF Fine, TasksFine
<1>n. /\ Cardinality(RunningOf(t2)) <= Cardinality(RunningOf(t))
      /\ x.aborted => Cardinality(RunningOf(t2)) + 1 = Cardinality(RunningOf(t))
  BY <1>1
<1>c. /\ Cardinality(RunningOf(t)) \in Nat /\ Cardinality(RunningOf(t2)) \in Nat
      /\ c.workerConcurrency \in Nat /\ m.outcomes \in Seq(Outcome(c)) /\ Len(m.outcomes) \in Nat
  <2>1. m.outcomes \in Seq(Outcome(c))
    BY DEF Fine, Counted
  <2>. QED BY <1>d, <2>1, WorkersFinite, Audience, LenProperties
<1>2. Staged(x, t2)
  <2>1. x.step # "none" /\ x.step = "signup"
    OBVIOUS
  <2>2. ASSUME NEW q \in DOMAIN t2, t2[q].state = "thrown" PROVE x.status = "failed"
    <3>1. t[q].state = "thrown"
      BY <1>1, <1>d, <2>2
    <3>. QED BY <1>d, <3>1 DEF Fine, Staged
  <2>. QED BY <2>1, <2>2 DEF Fine, Staged
<1>r. Called(c, x, t2)
  <2>1. \A q \in DOMAIN t : Free(t[q])
    BY DEF Fine, Called
  <2>2. \A q \in DOMAIN t2 : Free(t2[q])
    BY <1>1, <1>d, <2>1
  <2>. QED BY <2>2 DEF Fine, Called
<1>3. Staffed(c, x, t2)
  <2>1. Cardinality(RunningOf(t)) <= c.workerConcurrency
    BY DEF Fine, Staffed
  <2>2. Cardinality(RunningOf(t2)) <= c.workerConcurrency
    BY <1>n, <1>c, <2>1
  <2>. QED BY <1>1, <2>2 DEF Staffed
<1>4. x.scheduleIndex = 0
  BY DEF Fine, Staged
<1>5. DOMAIN m.outcomes = {}
  <2> SUFFICES ASSUME NEW n \in DOMAIN m.outcomes PROVE FALSE
    OBVIOUS
  <2>1. m.outcomes[n] \in Outcome(c)
    BY <1>c, LenProperties, ElementOfSeq
  <2>2. m.outcomes[n].patron \in DOMAIN t /\ m.outcomes[n].patron <= 0
    BY <1>4, <1>d, <2>1 DEF Fine, OnceEach, Outcome
  <2>. QED BY <1>d, <2>2, Audience
<1>6. OnceEach(x, t2, m)
  <2>1. \A q \in DOMAIN t2 : ~(q <= x.scheduleIndex)
    BY <1>4, <1>d, Audience
  <2>. QED BY <1>5, <2>1 DEF OnceEach
<1>7. Reported(c, x, t2, m)
  <2>1. x.status \notin {"completed", "cancelled"}
    BY DEF Fine, Staged
  <2>. QED BY <2>1 DEF Fine, Reported
<1>8. Stopped(x, t2, m, z)
  BY <1>n, <1>c DEF Fine, Stopped
<1>. QED BY <1>r, <1>1, <1>2, <1>3, <1>6, <1>7, <1>8 DEF Fine

(* What the answer to an order does to the run.                            *)
Answered(x, code, x2) ==
  /\ DOMAIN x2 = RunFields /\ x2.status = x.status /\ x2.aborted = x.aborted
  /\ x2.step = x.step /\ x2.scheduleIndex = x.scheduleIndex /\ x2.report = x.report
  /\ x2.completed = x.completed + (IF code = 201 THEN 1 ELSE 0)
  /\ x2.failed = x.failed + (IF code = 201 THEN 0 ELSE 1)

(* And to its collector.                                                   *)
Recorded(m, o, m2) == DOMAIN m2 = MetricFields /\ m2.outcomes = Append(m.outcomes, o)

(* An order was answered, and is recorded.                                 *)
LEMMA RecordFine ==
  ASSUME NEW c, Scenario(c), NEW x, NEW t, NEW m, NEW z, Fine(c, x, t, m, z),
         x.step = "batch", NEW p \in RunningOf(t),
         NEW t2, t2 = Took(x, [t EXCEPT ![p] = Idle("done")]),
         NEW o \in Outcome(c), o.patron = p,
         NEW m2, Recorded(m, o, m2), NEW x2, Answered(x, o.code, x2)
  PROVE  Fine(c, x2, t2, m2, z)
<1>a. /\ DOMAIN x2 = RunFields /\ x2.status = x.status /\ x2.aborted = x.aborted
      /\ x2.step = x.step /\ x2.scheduleIndex = x.scheduleIndex /\ x2.report = x.report
      /\ x2.completed = x.completed + (IF o.code = 201 THEN 1 ELSE 0)
      /\ x2.failed = x.failed + (IF o.code = 201 THEN 0 ELSE 1)
  BY DEF Answered
<1>m. DOMAIN m2 = MetricFields /\ m2.outcomes = Append(m.outcomes, o)
  BY DEF Recorded
<1>1. /\ TasksFine(c, t2) /\ t2[p].state = "done" /\ Free(t2[p])
      /\ \A q \in DOMAIN t \ {p} : \/ t2[q] = t[q]
                                   \/ /\ t[q].state = "queued" /\ t2[q].state = "running"
                                      /\ Free(t2[q]) /\ ~x.aborted
      /\ QueueOf(t2) \subseteq QueueOf(t)
      /\ Cardinality(RunningOf(t2)) <= Cardinality(RunningOf(t))
      /\ x.aborted => Cardinality(RunningOf(t2)) + 1 = Cardinality(RunningOf(t))
      /\ ~x.aborted /\ QueueOf(t2) # {} => RunningOf(t2) # {}
  <2>1. TasksFine(c, t)
    BY <1>m, <1>a DEF Fine
  <2>2. HandedOn(c, x, t, p, t2)
    BY <1>m, <1>a, <2>1, TookFine
  <2>. QED BY <1>m, <1>a, <2>2 DEF HandedOn
<1>d. /\ DOMAIN t = DOMAIN c.baskets /\ DOMAIN t2 = DOMAIN t /\ DOMAIN t \subseteq Nat
      /\ p \in DOMAIN t /\ t[p].state = "running"
  BY <1>m, <1>a, <1>1, Audience DEF Fine, TasksFine, RunningOf
<1>n. /\ Cardinality(RunningOf(t2)) <= Cardinality(RunningOf(t))
      /\ x.aborted => Cardinality(RunningOf(t2)) + 1 = Cardinality(RunningOf(t))
  BY <1>m, <1>a, <1>1
<1>c. /\ Cardinality(RunningOf(t)) \in Nat /\ Cardinality(RunningOf(t2)) \in Nat
      /\ c.workerConcurrency \in Nat /\ m.outcomes \in Seq(Outcome(c))
  <2>1. m.outcomes \in Seq(Outcome(c))
    BY <1>m, <1>a DEF Fine, Counted
  <2>. QED BY <1>m, <1>a, <1>d, <2>1, WorkersFinite, Audience
<1> DEFINE s == m.outcomes
           l == Len(s)
<1>o. /\ l \in Nat /\ DOMAIN s = 1..l
      /\ m2.outcomes \in Seq(Outcome(c)) /\ Len(m2.outcomes) = l + 1
      /\ DOMAIN m2.outcomes = (1..l) \cup {l + 1} /\ m2.outcomes[l + 1] = o
      /\ \A n \in 1..l : m2.outcomes[n] = s[n]
  <2>1. l \in Nat /\ DOMAIN s = 1..l
    BY <1>m, <1>a, <1>c, LenProperties
  <2>2. /\ m2.outcomes \in Seq(Outcome(c)) /\ Len(m2.outcomes) = l + 1
        /\ m2.outcomes[l + 1] = o /\ \A n \in 1..l : m2.outcomes[n] = s[n]
    BY <1>m, <1>a, <1>c, AppendProperties
  <2>3. DOMAIN m2.outcomes = 1..(l + 1)
    BY <1>m, <1>a, <2>2, LenProperties
  <2>4. 1..(l + 1) = (1..l) \cup {l + 1}
    BY <1>m, <1>a, <2>1
  <2>. QED BY <1>m, <1>a, <2>1, <2>2, <2>3, <2>4
<1>2. Staged(x2, t2)
  <2>1. x2.step = "batch" /\ x.status \notin {"completed", "cancelled"}
    BY <1>m, <1>a DEF Fine, Staged
  <2>2. ASSUME NEW q \in DOMAIN t2, t2[q].state = "thrown" PROVE x.status = "failed"
    <3>1. t[q].state = "thrown"
      BY <1>m, <1>a, <1>1, <1>d, <2>2
    <3>. QED BY <1>m, <1>a, <1>d, <3>1 DEF Fine, Staged
  <2>. QED BY <1>m, <1>a, <2>1, <2>2 DEF Fine, Staged
<1>p. p <= x.scheduleIndex
  BY <1>m, <1>a DEF Fine, Called
<1>r. Called(c, x2, t2)
  <2>0. Called(c, x, t) /\ Staffed(c, x, t)
    BY <1>m, <1>a DEF Fine
  <2>w. c.workerConcurrency > 0
    <3>1. IsFiniteSet(RunningOf(t)) /\ Cardinality(RunningOf(t)) \in Nat
      BY <1>m, <1>a, <1>d, WorkersFinite
    <3>2. Cardinality(RunningOf(t)) # 0
      BY <1>m, <1>a, <3>1, FS_EmptySet
    <3>. QED BY <1>m, <1>a, <1>c, <2>0, <3>1, <3>2 DEF Staffed
  <2>1. ASSUME NEW q \in RunningOf(t2) PROVE q <= x.scheduleIndex
    <3>1. q # p /\ q \in DOMAIN t /\ t2[q].state = "running"
      BY <1>m, <1>a, <1>1, <1>d DEF RunningOf
    <3>2. CASE t2[q] = t[q]
      BY <1>m, <1>a, <2>0, <3>1, <3>2 DEF Called, RunningOf
    <3>3. CASE t[q].state = "queued" /\ ~x.aborted
      BY <1>m, <1>a, <2>0, <2>w, <3>1, <3>3 DEF Called, QueueOf
    <3>. QED BY <1>m, <1>a, <1>1, <3>1, <3>2, <3>3
  <2>2. \A q \in DOMAIN t2 : ~Free(t2[q]) => x.step = "batch" /\ c.mode = "stub"
    BY <1>m, <1>a, <1>1, <1>d, <2>0 DEF Called
  <2>. QED BY <1>m, <1>a, <1>1, <2>0, <2>1, <2>2 DEF Called
<1>3. Staffed(c, x2, t2)
  <2>1. Cardinality(RunningOf(t)) <= c.workerConcurrency
    BY <1>m, <1>a DEF Fine, Staffed
  <2>2. Cardinality(RunningOf(t2)) <= c.workerConcurrency
    BY <1>m, <1>a, <1>n, <1>c, <2>1
  <2>. QED BY <1>m, <1>a, <1>1, <2>2 DEF Staffed
<1>4. Shaped(c, x2, m2)
  BY <1>m, <1>a DEF Fine, Shaped
<1>5. Counted(c, x2, m2)
  <2>1. Count(m2.outcomes, 201) = Count(s, 201) + (IF o.code = 201 THEN 1 ELSE 0)
    BY <1>m, <1>a, <1>c, CountAppend
  <2>2. x.completed = Count(s, 201) /\ x.completed + x.failed = l
    BY <1>m, <1>a DEF Fine, Counted
  <2>3. x2.completed = Count(m2.outcomes, 201)
    BY <1>m, <1>a, <2>1, <2>2
  <2>4. x.completed \in Nat /\ x.failed \in Nat
    BY <1>m, <1>a DEF Fine, Shaped
  <2>5. x2.completed + x2.failed = l + 1
    <3> HIDE DEF l, s
    <3>1. CASE o.code = 201
      BY <1>m, <1>a, <3>1, <2>2, <2>4, <1>o
    <3>2. CASE o.code # 201
      BY <1>m, <1>a, <3>2, <2>2, <2>4, <1>o
    <3>. QED BY <1>m, <1>a, <3>1, <3>2
  <2>. QED BY <1>m, <1>a, <1>o, <2>3, <2>5 DEF Counted
<1>6. OnceEach(x2, t2, m2)
  <2>0. OnceEach(x, t, m)
    BY <1>m, <1>a DEF Fine
  <2>a. \A n \in 1..l : s[n].patron \in DOMAIN t
    <3>1. \A n \in 1..l : s[n] \in Outcome(c)
      BY <1>m, <1>a, <1>c, <1>o, ElementOfSeq
    <3>. QED BY <1>m, <1>a, <1>d, <3>1 DEF Outcome
  <2>1. \A n \in 1..l : s[n].patron # p
    BY <1>m, <1>a, <1>d, <1>o, <2>0 DEF OnceEach
  <2>2. \A n \in 1..l : s[n].patron <= x.scheduleIndex /\ t2[s[n].patron].state = "done"
    <3> SUFFICES ASSUME NEW n \in 1..l
                 PROVE  s[n].patron <= x.scheduleIndex /\ t2[s[n].patron].state = "done"
      BY <1>m, <1>a
    <3>1. s[n].patron <= x.scheduleIndex /\ t[s[n].patron].state = "done"
      BY <1>m, <1>a, <1>o, <2>0 DEF OnceEach
    <3>2. t2[s[n].patron] = t[s[n].patron]
      BY <1>m, <1>a, <1>1, <2>1, <2>a, <3>1
    <3>. QED BY <1>m, <1>a, <3>1, <3>2
  <2>3. \A n \in DOMAIN m2.outcomes :
          m2.outcomes[n].patron <= x2.scheduleIndex /\ t2[m2.outcomes[n].patron].state = "done"
    <3> SUFFICES ASSUME NEW n \in DOMAIN m2.outcomes
                 PROVE  m2.outcomes[n].patron <= x2.scheduleIndex
                        /\ t2[m2.outcomes[n].patron].state = "done"
      BY <1>m, <1>a
    <3>1. CASE n \in 1..l
      <4>1. m2.outcomes[n] = s[n] /\ x2.scheduleIndex = x.scheduleIndex
        BY <1>m, <1>a, <1>o, <3>1
      <4>. QED BY <2>2, <3>1, <4>1
    <3>2. CASE n = l + 1
      BY <1>m, <1>a, <1>1, <1>o, <1>p, <3>2
    <3>. QED BY <1>m, <1>a, <1>o, <3>1, <3>2
  <2>4. \A n, k \in DOMAIN m2.outcomes : m2.outcomes[n].patron = m2.outcomes[k].patron => n = k
    <3>1. \A n, k \in 1..l : s[n].patron = s[k].patron => n = k
      BY <1>o, <2>0 DEF OnceEach
    <3> SUFFICES ASSUME NEW n \in DOMAIN m2.outcomes, NEW k \in DOMAIN m2.outcomes,
                        m2.outcomes[n].patron = m2.outcomes[k].patron
                 PROVE  n = k
      OBVIOUS
    <3>2. n \in 1..l \cup {l + 1} /\ k \in 1..l \cup {l + 1}
      BY <1>m, <1>a, <1>o
    <3>3. \A j \in 1..l : m2.outcomes[j] = s[j]
      BY <1>m, <1>a, <1>o
    <3>4. m2.outcomes[l + 1].patron = p
      BY <1>m, <1>a, <1>o, <1>p
    <3> HIDE DEF s, l
    <3>. QED BY <2>1, <3>1, <3>2, <3>3, <3>4
  <2>5. \A q \in DOMAIN t2 : q <= x2.scheduleIndex => t2[q].state # "waiting"
    <3> SUFFICES ASSUME NEW q \in DOMAIN t, q <= x.scheduleIndex PROVE t2[q].state # "waiting"
      BY <1>m, <1>a, <1>d
    <3>1. t[q].state # "waiting"
      BY <1>m, <1>a, <2>0 DEF OnceEach
    <3>. QED BY <1>m, <1>a, <1>1, <3>1
  <2>6. \A q \in DOMAIN t2 : q <= x2.scheduleIndex /\ t2[q].state = "done" =>
          \E n \in DOMAIN m2.outcomes : m2.outcomes[n].patron = q
    <3> SUFFICES ASSUME NEW q \in DOMAIN t, q <= x.scheduleIndex, t2[q].state = "done"
                 PROVE  \E n \in DOMAIN m2.outcomes : m2.outcomes[n].patron = q
      BY <1>m, <1>a, <1>d
    <3>1. CASE q = p
      BY <1>m, <1>a, <1>o, <3>1
    <3>2. CASE q # p
      <4>1. t[q].state = "done"
        BY <1>m, <1>a, <1>1, <3>2
      <4>2. PICK n \in 1..l : s[n].patron = q
        BY <1>m, <1>a, <1>o, <2>0, <4>1 DEF OnceEach
      <4>. QED BY <1>m, <1>a, <1>o, <4>2
    <3>. QED BY <1>m, <1>a, <3>1, <3>2
  <2>. QED BY <1>m, <1>a, <2>3, <2>4, <2>5, <2>6 DEF OnceEach
<1>7. Reported(c, x2, t2, m2)
  <2>1. x.status \notin {"completed", "cancelled"}
    BY <1>m, <1>a DEF Fine, Staged
  <2>. QED BY <1>m, <1>a, <2>1 DEF Fine, Reported
<1>8. Stopped(x2, t2, m2, z)
  <2>1. z \in Nat /\ (x.aborted => l + Cardinality(RunningOf(t)) <= z)
    BY <1>m, <1>a DEF Fine, Stopped
  <2>2. x.aborted => Len(m2.outcomes) + Cardinality(RunningOf(t2)) <= z
    <3> HIDE DEF l, s
    <3>1. x.aborted => Cardinality(RunningOf(t2)) + 1 = Cardinality(RunningOf(t))
      BY <1>1
    <3>. QED BY <1>m, <1>a, <3>1, <1>c, <1>o, <2>1
  <2>. QED BY <1>m, <1>a, <2>1, <2>2 DEF Stopped
<1>. QED BY <1>m, <1>a, <1>r, <1>1, <1>2, <1>3, <1>4, <1>5, <1>6, <1>7, <1>8 DEF Fine

(* Patrons a + 1 to b are given to the workers.                            *)
Begun(c, x, t, a, b) ==
  [p \in DOMAIN c.baskets |->
     IF p \notin (a + 1)..b \/ x.aborted THEN t[p]
     ELSE IF Cardinality({q \in (a + 1)..b : q < p}) < c.workerConcurrency
          THEN Idle("running") ELSE Idle("queued")]

(* The first of them start, as many as there are workers.                  *)
LEMMA BegunTasks ==
  ASSUME NEW c, Scenario(c), NEW x, NEW t, TasksFine(c, t), RunningOf(t) = {}, ~x.aborted,
         NEW a \in Nat, NEW b \in 0..Len(c.baskets), NEW t2, t2 = Begun(c, x, t, a, b)
  PROVE  /\ TasksFine(c, t2)
         /\ \A p \in DOMAIN t : p \notin (a + 1)..b => t2[p] = t[p]
         /\ \A p \in (a + 1)..b : /\ p \in DOMAIN t /\ t2[p].state \in {"running", "queued"}
                                /\ Free(t2[p])
         /\ Cardinality(RunningOf(t2)) <= c.workerConcurrency
         /\ c.workerConcurrency > 0 /\ a < b => RunningOf(t2) # {}
<1> DEFINE W == c.workerConcurrency
           B == (a + 1)..b
           last == IF b <= a + W THEN b ELSE a + W
<1>d. /\ Len(c.baskets) \in Nat /\ DOMAIN c.baskets = 1..Len(c.baskets) /\ W \in Nat
      /\ DOMAIN t = DOMAIN c.baskets /\ DOMAIN t2 = DOMAIN t
      /\ \A p \in DOMAIN t : Len(c.baskets[p]) \in Nat \ {0}
  BY Audience DEF TasksFine, Begun
<1>1. B \subseteq DOMAIN t
  BY <1>d
<1>2. \A p \in B : Cardinality({q \in B : q < p}) = p - 1 - a
  <2> SUFFICES ASSUME NEW p \in B PROVE Cardinality({q \in B : q < p}) = p - 1 - a
    OBVIOUS
  <2>1. {q \in B : q < p} = (a + 1)..(p - 1)
    BY <1>d
  <2>2. a + 1 \in Int /\ p - 1 \in Int /\ ~(a + 1 > p)
    BY <1>d
  <2>3. Cardinality((a + 1)..(p - 1)) = IF a + 1 > p - 1 THEN 0 ELSE p - 1 - (a + 1) + 1
    BY <2>2, FS_Interval
  <2>4. (IF a + 1 > p - 1 THEN 0 ELSE p - 1 - (a + 1) + 1) = p - 1 - a
    BY <2>2
  <2>. QED BY <2>1, <2>3, <2>4
<1>3. \A p \in B : t2[p] = IF p - 1 - a < W THEN Idle("running") ELSE Idle("queued")
  BY <1>1, <1>2, <1>d DEF Begun
<1>4. \A p \in DOMAIN t : p \notin B => t2[p] = t[p]
  BY <1>d DEF Begun
<1>i. \A p \in DOMAIN t : \A s \in {"queued", "running"} :
        Idle(s) \in TaskType /\ Idle(s).state = s /\ Free(Idle(s)) /\ TaskFine(c.baskets[p], Idle(s))
  BY <1>d, IdleFine DEF TaskStates
<1>5. \A p \in DOMAIN t : t2[p] \in TaskType /\ TaskFine(c.baskets[p], t2[p])
  <2> SUFFICES ASSUME NEW p \in DOMAIN t PROVE t2[p] \in TaskType /\ TaskFine(c.baskets[p], t2[p])
    OBVIOUS
  <2>1. CASE p \in B
    BY <1>3, <1>i, <2>1
  <2>2. CASE p \notin B
    BY <1>4, <1>d, <2>2 DEF TasksFine
  <2>. QED BY <2>1, <2>2
<1>6. TasksFine(c, t2)
  <2>1. t2 = [p \in DOMAIN c.baskets |-> t2[p]]
    BY <1>d DEF Begun
  <2>. QED BY <1>5, <1>d, <2>1 DEF TasksFine
<1>7. RunningOf(t2) = (a + 1)..last
  <2>1. ASSUME NEW p \in DOMAIN t PROVE p \in RunningOf(t2) <=> p \in B /\ p - 1 - a < W
    <3>1. CASE p \in B
      BY <1>3, <1>d, <1>i, <3>1 DEF RunningOf
    <3>2. CASE p \notin B
      BY <1>4, <1>d, <3>2 DEF RunningOf
    <3>. QED BY <3>1, <3>2
  <2>2. RunningOf(t2) = {p \in B : p - 1 - a < W}
    BY <1>1, <1>d, <2>1 DEF RunningOf
  <2>3. {p \in B : p - 1 - a < W} = (a + 1)..last
    BY <1>d
  <2>. QED BY <2>2, <2>3
<1>8. Cardinality(RunningOf(t2)) <= W
  <2>1. a + 1 \in Int /\ last \in Int /\ last <= a + W
    BY <1>d
  <2>2. Cardinality((a + 1)..last) = IF a + 1 > last THEN 0 ELSE last - (a + 1) + 1
    <3> HIDE DEF last
    <3>. QED BY <2>1, FS_Interval
  <2>3. (IF a + 1 > last THEN 0 ELSE last - (a + 1) + 1) <= W
    BY <1>d, <2>1
  <2>. QED BY <1>7, <2>2, <2>3
<1>9. W > 0 /\ a < b => RunningOf(t2) # {}
  <2>1. W > 0 /\ a < b => a + 1 \in (a + 1)..last
    BY <1>d
  <2>. QED BY <1>7, <2>1
<1>10. \A p \in B : /\ p \in DOMAIN t /\ t2[p].state \in {"running", "queued"}
                     /\ Free(t2[p])
  BY <1>1, <1>3, <1>i
<1>. QED BY <1>4, <1>6, <1>8, <1>9, <1>10

(* The sign-ups begin, or the orders of a batch.                           *)
LEMMA BegunFine ==
  ASSUME NEW c, Scenario(c), NEW x, NEW t, NEW m, NEW z, Fine(c, x, t, m, z),
         x.status = "running", RunningOf(t) = {},
         NEW b \in x.scheduleIndex..Len(c.baskets),
         NEW t2, t2 = Begun(c, x, t, x.scheduleIndex, b),
         NEW x2, DOMAIN x2 = RunFields, x2.status = x.status, x2.aborted = x.aborted,
         x2.completed = x.completed, x2.failed = x.failed, x2.report = x.report,
         \/ x2.step = "signup" /\ x2.scheduleIndex = x.scheduleIndex /\ x.scheduleIndex = 0
            /\ c.mode = "live"
         \/ x2.step = "batch" /\ x2.scheduleIndex = b /\ ~x.aborted
  PROVE  Fine(c, x2, t2, m, z)
<1> DEFINE a == x.scheduleIndex
<1>d. /\ Len(c.baskets) \in Nat /\ DOMAIN c.baskets = 1..Len(c.baskets)
      /\ DOMAIN t = DOMAIN c.baskets /\ a \in 0..Len(c.baskets) /\ x.step # "none"
      /\ TasksFine(c, t) /\ Staged(x, t) /\ DOMAIN t2 = DOMAIN t
  BY Audience DEF Fine, TasksFine, Shaped, Staged, Begun
<1>1. Shaped(c, x2, m)
  BY <1>d DEF Fine, Shaped, Steps
<1>2. Counted(c, x2, m)
  BY DEF Fine, Counted
<1>p. \A n \in DOMAIN m.outcomes : m.outcomes[n].patron \in DOMAIN t
  <2>1. m.outcomes \in Seq(Outcome(c))
    BY DEF Fine, Counted
  <2>2. \A n \in DOMAIN m.outcomes : m.outcomes[n] \in Outcome(c)
    BY <2>1, LenProperties, ElementOfSeq
  <2>. QED BY <1>d, <2>2 DEF Outcome
<1>3. Reported(c, x2, t2, m)
  BY DEF Fine, Reported
<1>r. \A p \in DOMAIN t : Free(t[p])
  BY NothingReleased
<1>s. (x.step # "none" => c.mode \in {"stub", "live"}) /\ (x2.step = "signup" => c.mode = "live")
  BY DEF Fine, Called
<1>4. CASE x.aborted
  <2>1. t2 = t
    <3>1. \A p \in DOMAIN t : t2[p] = t[p]
      BY <1>4, <1>d DEF Begun
    <3>2. t2 = [p \in DOMAIN t |-> t2[p]] /\ t = [p \in DOMAIN t |-> t[p]]
      BY <1>d DEF Begun, TasksFine
    <3>. QED BY <3>1, <3>2
  <2>2. x2.step = "signup" /\ x2.scheduleIndex = x.scheduleIndex /\ x.scheduleIndex = 0
    BY <1>4
  <2>3. Staged(x2, t2)
    BY <1>d, <2>1, <2>2 DEF Staged
  <2>4. Staffed(c, x2, t2) /\ Stopped(x2, t2, m, z) /\ Called(c, x2, t2)
    BY <1>4, <1>d, <1>r, <1>s, <2>1, <2>2 DEF Fine, Staffed, Stopped, Called
  <2>5. OnceEach(x2, t2, m)
    BY <2>1, <2>2 DEF Fine, OnceEach
  <2>6. TasksFine(c, t2)
    BY <1>d, <2>1
  <2>. QED BY <1>1, <1>2, <1>3, <2>3, <2>4, <2>5, <2>6 DEF Fine
<1>5. CASE ~x.aborted
  <2>1. /\ TasksFine(c, t2)
        /\ \A p \in DOMAIN t : p \notin (a + 1)..b => t2[p] = t[p]
        /\ \A p \in (a + 1)..b : /\ p \in DOMAIN t /\ t2[p].state \in {"running", "queued"}
                               /\ Free(t2[p])
        /\ Cardinality(RunningOf(t2)) <= c.workerConcurrency
        /\ c.workerConcurrency > 0 /\ a < b => RunningOf(t2) # {}
    <3>1. a \in Nat /\ b \in 0..Len(c.baskets)
      BY <1>d
    <3> HIDE DEF a
    <3>2. t2 = Begun(c, x, t, a, b)
      BY DEF a
    <3>3. TasksFine(c, t) /\ Scenario(c) /\ RunningOf(t) = {}
      BY <1>d
    <3>. QED BY <1>5, <3>1, <3>2, <3>3, BegunTasks
  <2>2. Staged(x2, t2)
    <3>1. x2.step \in {"signup", "batch"} /\ (x2.step = "signup" => x2.scheduleIndex = 0)
      OBVIOUS
    <3>2. ASSUME NEW p \in DOMAIN t2, t2[p].state = "thrown" PROVE FALSE
      <4>1. t[p].state = "thrown"
        BY <1>d, <2>1, <3>2
      <4>. QED BY <1>d, <4>1 DEF Staged
    <3>. QED BY <3>1, <3>2 DEF Staged
  <2>c. Called(c, x2, t2)
    <3>1. \A p \in DOMAIN t : Free(t2[p])
      BY <1>r, <2>1
    <3>2. c.workerConcurrency > 0 => QueueOf(t) = {}
      BY <1>5 DEF Fine, Staffed
    <3>3. ASSUME x2.step = "batch", NEW p \in RunningOf(t2) PROVE p <= x2.scheduleIndex
      <4>1. p \in DOMAIN t /\ t2[p] # t[p]
        BY <1>d DEF RunningOf
      <4>2. p \in (a + 1)..b
        BY <2>1, <4>1
      <4>. QED BY <1>d, <3>3, <4>2
    <3>4. ASSUME x2.step = "batch", c.workerConcurrency > 0, NEW p \in QueueOf(t2)
          PROVE  p <= x2.scheduleIndex
      <4>1. p \in DOMAIN t /\ t2[p] # t[p]
        BY <1>d, <3>2, <3>4 DEF QueueOf
      <4>2. p \in (a + 1)..b
        BY <2>1, <4>1
      <4>. QED BY <1>d, <3>4, <4>2
    <3>. QED BY <1>d, <1>s, <3>1, <3>3, <3>4 DEF Called
  <2>3. Staffed(c, x2, t2)
    <3>1. c.workerConcurrency > 0 => QueueOf(t) = {}
      BY <1>5 DEF Fine, Staffed
    <3>2. ASSUME c.workerConcurrency > 0, QueueOf(t2) # {} PROVE RunningOf(t2) # {}
      <4>1. PICK p \in DOMAIN t : t2[p].state = "queued"
        BY <1>d, <3>2 DEF QueueOf
      <4>2. p \in (a + 1)..b
        BY <2>1, <3>1, <3>2, <4>1 DEF QueueOf
      <4>3. a < b
        BY <1>d, <4>2
      <4>. QED BY <2>1, <3>2, <4>3
    <3>. QED BY <2>1, <3>2 DEF Staffed
  <2>4. OnceEach(x2, t2, m)
    <3>0. OnceEach(x, t, m) /\ a <= x2.scheduleIndex /\ x2.scheduleIndex \in {a, b}
      BY <1>d DEF Fine
    <3>1. \A n \in DOMAIN m.outcomes : t2[m.outcomes[n].patron] = t[m.outcomes[n].patron]
                                      /\ m.outcomes[n].patron <= x2.scheduleIndex
      <4> SUFFICES ASSUME NEW n \in DOMAIN m.outcomes
                   PROVE  t2[m.outcomes[n].patron] = t[m.outcomes[n].patron]
                          /\ m.outcomes[n].patron <= x2.scheduleIndex
        OBVIOUS
      <4>1. m.outcomes[n].patron <= a /\ m.outcomes[n].patron \in DOMAIN t
        BY <1>p, <3>0 DEF OnceEach
      <4>. QED BY <1>d, <2>1, <3>0, <4>1
    <3>2. \A p \in DOMAIN t : p <= x2.scheduleIndex /\ ~(p <= a) => p \in (a + 1)..b
      BY <1>d, <3>0
    <3>3. \A p \in DOMAIN t : p <= a => t2[p] = t[p]
      BY <1>d, <2>1
    <3>4. \A p \in DOMAIN t2 : p <= x2.scheduleIndex => t2[p].state # "waiting"
      <4> SUFFICES ASSUME NEW p \in DOMAIN t, p <= x2.scheduleIndex PROVE t2[p].state # "waiting"
        BY <1>d
      <4>1. CASE p <= a
        BY <3>0, <3>3, <4>1 DEF OnceEach
      <4>2. CASE ~(p <= a)
        BY <2>1, <3>2, <4>2
      <4>. QED BY <4>1, <4>2
    <3>5. \A p \in DOMAIN t2 : p <= x2.scheduleIndex /\ t2[p].state = "done" =>
            \E n \in DOMAIN m.outcomes : m.outcomes[n].patron = p
      <4> SUFFICES ASSUME NEW p \in DOMAIN t, p <= x2.scheduleIndex, t2[p].state = "done"
                   PROVE  \E n \in DOMAIN m.outcomes : m.outcomes[n].patron = p
        BY <1>d
      <4>1. CASE p <= a
        BY <3>0, <3>3, <4>1 DEF OnceEach
      <4>2. CASE ~(p <= a)
        BY <2>1, <3>2, <4>2
      <4>. QED BY <4>1, <4>2
    <3>. QED BY <3>0, <3>1, <3>4, <3>5 DEF OnceEach
  <2>5. Stopped(x2, t2, m, z)
    BY <1>5 DEF Fine, Stopped
  <2>. QED BY <1>1, <1>2, <1>3, <2>c, <2>1, <2>2, <2>3, <2>4, <2>5 DEF Fine
<1>. QED BY <1>4, <1>5

(* The run ends, with its report.                                          *)
LEMMA EndFine ==
  ASSUME NEW c, Scenario(c), NEW x, NEW t, NEW m, NEW z, Fine(c, x, t, m, z),
         x.status = "running", x.step = "schedule",
         x.aborted \/ x.scheduleIndex = Len(c.baskets),
         NEW m2, DOMAIN m2 = MetricFields, m2.outcomes = m.outcomes,
         NEW x2, DOMAIN x2 = RunFields, x2.aborted = x.aborted, x2.step = x.step,
         x2.status = (IF x.aborted THEN "cancelled" ELSE "completed"),
         x2.scheduleIndex = x.scheduleIndex, x2.completed = x.completed, x2.failed = x.failed,
         x2.report.succeeded = Count(m.outcomes, 201), x2.report.attempted = Len(m.outcomes),
         x2.report.patrons = Len(c.baskets), x2.report # <<>>
  PROVE  Fine(c, x2, t, m2, z)
<1>1. Shaped(c, x2, m2)
  BY DEF Fine, Shaped, RunStatuses, Ended
<1>2. Counted(c, x2, m2)
  BY DEF Fine, Counted
<1>3. Staged(x2, t)
  BY DEF Fine, Staged
<1>c. Called(c, x2, t)
  BY NothingReleased DEF Fine, Staged, Called
<1>4. Staffed(c, x2, t) /\ OnceEach(x2, t, m2) /\ Stopped(x2, t, m2, z)
  BY DEF Fine, Staffed, OnceEach, Stopped
<1>5. Reported(c, x2, t, m2)
  <2>1. ~x.aborted /\ c.workerConcurrency > 0 => QueueOf(t) = {}
    BY DEF Fine, Staffed, Staged
  <2>2. x.completed = Count(m.outcomes, 201) /\ x.completed + x.failed = Len(m.outcomes)
    BY DEF Fine, Counted
  <2>. QED BY <2>1, <2>2 DEF Reported
<1>. QED BY <1>c, <1>1, <1>2, <1>3, <1>4, <1>5 DEF Fine

(* The invariant of the runs.                                              *)
RunFine(r) == Fine(config[r], run[r], task[r], metrics[r], history[r].room)
RunsFine ==
  /\ config \in Experiments
  /\ DOMAIN run = Runs /\ DOMAIN task = Runs /\ DOMAIN metrics = Runs /\ DOMAIN history = Runs
  /\ \A r \in Runs : RunFine(r)

(* A step of one run, and how it leaves it.                                *)
OnlyOf(r) ==
  /\ config' = config
  /\ DOMAIN run' = Runs /\ DOMAIN task' = Runs /\ DOMAIN metrics' = Runs
  /\ \A q \in Runs \ {r} : run'[q] = run[q] /\ task'[q] = task[q] /\ metrics'[q] = metrics[q]
FineAfter(r, z) == Fine(config[r], run'[r], task'[r], metrics'[r], z)

(* Each run has a scenario, and its variables their fields.                *)
LEMMA OfRun ==
  ASSUME RunsFine, NEW r \in Runs
  PROVE  /\ Scenario(config[r]) /\ RunFine(r)
         /\ DOMAIN run[r] = RunFields /\ DOMAIN metrics[r] = MetricFields
         /\ Patrons(r) = DOMAIN config[r].baskets /\ DOMAIN task[r] = Patrons(r)
         /\ Running(r) = RunningOf(task[r])
         /\ Patrons(r) = 1..Len(config[r].baskets) /\ Len(config[r].baskets) \in Nat
<1>1. Scenario(config[r]) /\ RunFine(r)
  BY TwinAssumption DEF RunsFine
<1>2. DOMAIN run[r] = RunFields /\ DOMAIN metrics[r] = MetricFields
  BY <1>1 DEF RunFine, Fine, Shaped
<1>3. Patrons(r) = DOMAIN config[r].baskets /\ DOMAIN task[r] = Patrons(r)
  BY <1>1 DEF RunFine, Fine, TasksFine, Patrons, Baskets
<1>4. Running(r) = RunningOf(task[r])
  BY <1>3 DEF Running, RunningOf
<1>. QED BY <1>1, <1>2, <1>3, <1>4, Audience

(* Starting a run, and its steps up to the sign-ups.                       *)
LEMMA EarlySteps ==
  ASSUME RunsFine, NEW r \in Runs,
         StartRun(r) \/ RefillStub(r) \/ RefillLive(r) \/ PutOverride(r)
  PROVE  OnlyOf(r) /\ FineAfter(r, history[r].room) /\ run'[r].aborted = run[r].aborted
<1>0. /\ DOMAIN run = Runs /\ DOMAIN task = Runs /\ DOMAIN metrics = Runs
      /\ Scenario(config[r]) /\ RunFine(r)
      /\ DOMAIN run[r] = RunFields /\ DOMAIN metrics[r] = MetricFields
      /\ Staged(run[r], task[r])
  BY OfRun DEF RunsFine, RunFine, Fine
<1>1. CASE StartRun(r)
  <2>1. /\ OnlyOf(r) /\ DOMAIN run'[r] = RunFields /\ DOMAIN metrics'[r] = MetricFields
        /\ task'[r] = task[r] /\ metrics'[r].outcomes = metrics[r].outcomes
        /\ run[r].status = "absent" /\ run'[r].aborted = run[r].aborted
        /\ run'[r].scheduleIndex = run[r].scheduleIndex
        /\ run'[r].completed = run[r].completed /\ run'[r].failed = run[r].failed
        /\ run'[r].report = run[r].report
        /\ \/ run'[r].status = "running" /\ run'[r].step = "refill" /\ config[r].mode # "none"
           \/ run'[r].status = "pending" /\ run'[r].step = run[r].step
    BY <1>0, <1>1 DEF StartRun, OnlyOf, RunFields, MetricFields
  <2>. QED BY <1>0, <2>1, StartFine DEF RunFine, FineAfter
<1>2. CASE RefillStub(r)
  <2>a. At(r, "refill") /\ UNCHANGED <<config, task>>
    BY <1>2 DEF RefillStub
  <2>b. PICK i \in run[r].puts :
          /\ run' = [run EXCEPT ![r].puts = @ \ {i},
                                ![r].step = IF run[r].puts = {i} THEN "schedule" ELSE @]
          /\ metrics' = [metrics EXCEPT ![r].polling = (run[r].puts = {i})]
    BY <1>2 DEF RefillStub
  <2>c. PICK step \in {"refill", "schedule"}, puts \in SUBSET run[r].puts :
          run' = [run EXCEPT ![r].puts = puts, ![r].step = step]
    <3>1. run[r].step = "refill"
      BY <2>a DEF At
    <3>2. CASE run[r].puts = {i}
      <4>1. run' = [run EXCEPT ![r].puts = run[r].puts \ {i}, ![r].step = "schedule"]
        BY <2>b, <3>2
      <4>. QED BY <4>1
    <3>3. CASE run[r].puts # {i}
      <4>1. run' = [run EXCEPT ![r].puts = run[r].puts \ {i}, ![r].step = "refill"]
        BY <1>0, <2>b, <3>1, <3>3
      <4>. QED BY <4>1
    <3>. QED BY <3>2, <3>3
  <2>d. PICK polling : metrics' = [metrics EXCEPT ![r].polling = polling]
    BY <2>b
  <2>1. /\ OnlyOf(r) /\ DOMAIN run'[r] = RunFields /\ DOMAIN metrics'[r] = MetricFields
        /\ task'[r] = task[r] /\ metrics'[r].outcomes = metrics[r].outcomes
        /\ run[r].status = "running" /\ run[r].step = "refill"
        /\ run'[r].status = "running" /\ run'[r].aborted = run[r].aborted
        /\ run'[r].scheduleIndex = run[r].scheduleIndex
        /\ run'[r].completed = run[r].completed /\ run'[r].failed = run[r].failed
        /\ run'[r].report = run[r].report
        /\ run'[r].step \in {"refill", "schedule"}
    BY <1>0, <2>a, <2>c, <2>d DEF At, OnlyOf, RunFields, MetricFields
  <2>2. RunningOf(task[r]) = {} /\ run[r].scheduleIndex = 0
    BY <1>0, <2>1 DEF Staged
  <2>. QED BY <1>0, <2>1, <2>2, GoOnFine DEF RunFine, FineAfter
<1>3. CASE RefillLive(r) \/ PutOverride(r)
  <2>1. /\ OnlyOf(r) /\ DOMAIN run'[r] = RunFields
        /\ task'[r] = task[r] /\ metrics'[r] = metrics[r]
        /\ run[r].status = "running" /\ run[r].step \in {"refill", "puts"}
        /\ run'[r].status = "running" /\ run'[r].aborted = run[r].aborted
        /\ run'[r].scheduleIndex = run[r].scheduleIndex
        /\ run'[r].completed = run[r].completed /\ run'[r].failed = run[r].failed
        /\ run'[r].report = run[r].report
        /\ run'[r].step = "puts"
    BY <1>0, <1>3 DEF RefillLive, PutOverride, At, OnlyOf, RunFields
  <2>2. RunningOf(task[r]) = {} /\ run[r].scheduleIndex = 0
    BY <1>0, <2>1 DEF Staged
  <2>3. config[r].mode = "live"
    BY <1>0, <1>3 DEF RefillLive, PutOverride, At, Mode, RunFine, Fine, Called
  <2>. QED BY <1>0, <2>1, <2>2, <2>3, GoOnFine DEF RunFine, FineAfter
<1>. QED BY <1>1, <1>2, <1>3

(* The sign-ups, and the end of a batch.                                   *)
LEMMA MiddleSteps ==
  ASSUME RunsFine, NEW r \in Runs,
         SignupsDone(r) \/ BatchDone(r) \/ \E p \in Patrons(r) : SignUp(r, p)
  PROVE  OnlyOf(r) /\ FineAfter(r, history[r].room) /\ run'[r].aborted = run[r].aborted
<1>0. /\ DOMAIN run = Runs /\ DOMAIN task = Runs /\ DOMAIN metrics = Runs
      /\ Scenario(config[r]) /\ RunFine(r)
      /\ DOMAIN run[r] = RunFields /\ DOMAIN metrics[r] = MetricFields
      /\ Staged(run[r], task[r]) /\ DOMAIN task[r] = Patrons(r)
      /\ Running(r) = RunningOf(task[r])
  BY OfRun DEF RunsFine, RunFine, Fine
<1>1. CASE SignupsDone(r) \/ BatchDone(r)
  <2>1. /\ OnlyOf(r) /\ DOMAIN run'[r] = RunFields
        /\ task'[r] = task[r] /\ metrics'[r] = metrics[r]
        /\ run[r].status = "running" /\ RunningOf(task[r]) = {}
        /\ run'[r].status = "running" /\ run'[r].aborted = run[r].aborted
        /\ run'[r].scheduleIndex = run[r].scheduleIndex
        /\ run'[r].completed = run[r].completed /\ run'[r].failed = run[r].failed
        /\ run'[r].report = run[r].report
        /\ run'[r].step = "schedule"
    BY <1>0, <1>1 DEF SignupsDone, BatchDone, AllSettled, At, OnlyOf, RunFields
  <2>. QED BY <1>0, <2>1, GoOnFine DEF RunFine, FineAfter
<1>2. ASSUME NEW p \in Patrons(r), SignUp(r, p)
      PROVE  OnlyOf(r) /\ FineAfter(r, history[r].room) /\ run'[r].aborted = run[r].aborted
  <2>1. /\ run[r].step = "signup" /\ p \in RunningOf(task[r])
        /\ UNCHANGED <<config, run, metrics>>
        /\ task' = [task EXCEPT ![r] = TakeNext(r, [@ EXCEPT ![p] = Idle("done")])]
    BY <1>0, <1>2 DEF SignUp, EndTask
  <2>2. TakeNext(r, [task[r] EXCEPT ![p] = Idle("done")])
          = Took(run[r], [task[r] EXCEPT ![p] = Idle("done")])
    BY <1>0 DEF TakeNext, Took, QueueOf
  <2>3. task'[r] = Took(run[r], [task[r] EXCEPT ![p] = Idle("done")]) /\ OnlyOf(r)
    BY <1>0, <2>1, <2>2 DEF OnlyOf
  <2>. QED BY <1>0, <2>1, <2>3, SignedUpFine DEF RunFine, FineAfter
<1>. QED BY <1>1, <1>2

(* The sign-ups begin, or a batch.                                         *)
LEMMA BeginSteps ==
  ASSUME RunsFine, NEW r \in Runs, StartSignups(r) \/ RunBatch(r)
  PROVE  OnlyOf(r) /\ FineAfter(r, history[r].room) /\ run'[r].aborted = run[r].aborted
<1>0. /\ DOMAIN run = Runs /\ DOMAIN task = Runs /\ DOMAIN metrics = Runs
      /\ Scenario(config[r]) /\ RunFine(r) /\ DOMAIN run[r] = RunFields
      /\ Staged(run[r], task[r]) /\ DOMAIN task[r] = Patrons(r)
      /\ Patrons(r) = DOMAIN config[r].baskets /\ Baskets(r) = config[r].baskets
      /\ Patrons(r) = 1..Len(config[r].baskets) /\ Len(config[r].baskets) \in Nat
      /\ run[r].scheduleIndex \in 0..Len(config[r].baskets)
  BY OfRun DEF RunsFine, RunFine, Fine, Shaped, Baskets
<1>1. CASE StartSignups(r)
  <2>1. /\ run[r].status = "running" /\ run[r].step = "puts" /\ StartTasks(r, Patrons(r))
        /\ run' = [run EXCEPT ![r].step = "signup"] /\ UNCHANGED <<config, metrics>>
    BY <1>1 DEF StartSignups, At
  <2>2. RunningOf(task[r]) = {} /\ run[r].scheduleIndex = 0
    BY <1>0, <2>1 DEF Staged
  <2>3. task'[r] = Begun(config[r], run[r], task[r], 0, Len(config[r].baskets))
    BY <1>0, <2>1 DEF StartTasks, Begun
  <2>4. OnlyOf(r) /\ DOMAIN run'[r] = RunFields /\ metrics'[r] = metrics[r]
    BY <1>0, <2>1 DEF OnlyOf, StartTasks
  <2>5. /\ run'[r].status = run[r].status /\ run'[r].aborted = run[r].aborted
        /\ run'[r].completed = run[r].completed /\ run'[r].failed = run[r].failed
        /\ run'[r].report = run[r].report
        /\ run'[r].scheduleIndex = run[r].scheduleIndex /\ run'[r].step = "signup"
    BY <1>0, <2>1 DEF RunFields
  <2>6. PICK b \in run[r].scheduleIndex..Len(config[r].baskets) :
          task'[r] = Begun(config[r], run[r], task[r], run[r].scheduleIndex, b)
    BY <1>0, <2>2, <2>3
  <2>7. Fine(config[r], run[r], task[r], metrics[r], history[r].room)
    BY <1>0 DEF RunFine
  <2>8. Fine(config[r], run'[r], task'[r], metrics[r], history[r].room)
    <3>1. run[r].status = "running" /\ Scenario(config[r]) /\ RunningOf(task[r]) = {}
      BY <1>0, <2>1, <2>2
    <3>2. /\ run'[r].step = "signup" /\ run'[r].scheduleIndex = run[r].scheduleIndex
          /\ run[r].scheduleIndex = 0 /\ DOMAIN run'[r] = RunFields
      BY <2>2, <2>4, <2>5
    <3>3. /\ run'[r].status = run[r].status /\ run'[r].aborted = run[r].aborted
          /\ run'[r].completed = run[r].completed /\ run'[r].failed = run[r].failed
          /\ run'[r].report = run[r].report
      BY <2>5
    <3>4. config[r].mode = "live"
      BY <1>0, <2>1 DEF RunFine, Fine, Called
    <3>. QED BY <3>1, <3>2, <3>3, <3>4, <2>6, <2>7, BegunFine
  <2>. QED BY <2>4, <2>5, <2>8 DEF FineAfter
<1>2. CASE RunBatch(r)
  <2>0. At(r, "schedule") /\ ~Over(r) /\ UNCHANGED <<config, metrics>>
    BY <1>2 DEF RunBatch
  <2>1. PICK upto \in run[r].scheduleIndex + 1 .. Len(config[r].baskets) :
          /\ StartTasks(r, run[r].scheduleIndex + 1 .. upto)
          /\ run' = [run EXCEPT ![r].step = "batch", ![r].scheduleIndex = upto]
    BY <1>0, <1>2 DEF RunBatch
  <2>2. run[r].status = "running" /\ run[r].step = "schedule" /\ ~run[r].aborted
    BY <2>0 DEF At, Over
  <2>3. RunningOf(task[r]) = {}
    BY <1>0, <2>2 DEF Staged
  <2>4. task'[r] = Begun(config[r], run[r], task[r], run[r].scheduleIndex, upto)
    BY <1>0, <2>1 DEF StartTasks, Begun
  <2>5. OnlyOf(r) /\ DOMAIN run'[r] = RunFields /\ metrics'[r] = metrics[r]
    BY <1>0, <2>0, <2>1 DEF OnlyOf, StartTasks
  <2>6. /\ run'[r].status = run[r].status /\ run'[r].aborted = run[r].aborted
        /\ run'[r].completed = run[r].completed /\ run'[r].failed = run[r].failed
        /\ run'[r].report = run[r].report
        /\ run'[r].scheduleIndex = upto /\ run'[r].step = "batch"
    BY <1>0, <2>1 DEF RunFields
  <2>7. upto \in run[r].scheduleIndex..Len(config[r].baskets)
    BY <1>0, <2>1
  <2>. QED BY <1>0, <2>2, <2>3, <2>4, <2>5, <2>6, <2>7, BegunFine DEF RunFine, FineAfter
<1>. QED BY <1>1, <1>2

(* What recording an order does.                                           *)
LEMMA RecordIs ==
  ASSUME RunsFine, NEW r \in Runs, NEW p \in Running(r),
         NEW code \in {201, 409, 500}, Record(r, p, code), config' = config
  PROVE  /\ OnlyOf(r) /\ task'[r] = Took(run[r], [task[r] EXCEPT ![p] = Idle("done")])
         /\ \E o \in Outcome(config[r]) :
              /\ o.patron = p /\ o.code = code /\ Recorded(metrics[r], o, metrics'[r])
              /\ Answered(run[r], o.code, run'[r])
<1>0. /\ DOMAIN run = Runs /\ DOMAIN task = Runs /\ DOMAIN metrics = Runs
      /\ Scenario(config[r]) /\ RunFine(r)
      /\ DOMAIN run[r] = RunFields /\ DOMAIN metrics[r] = MetricFields
      /\ DOMAIN task[r] = Patrons(r) /\ Patrons(r) = DOMAIN config[r].baskets
      /\ p \in RunningOf(task[r]) /\ p \in Patrons(r)
  BY OfRun DEF RunsFine, Running
<1> DEFINE o == [patron |-> p, code |-> code, latency |-> config[r].latency[p]]
<1>1. o \in Outcome(config[r]) /\ o.patron = p /\ o.code = code
  <2>1. PICK c : c = config[r]
    OBVIOUS
  <2>2. Scenario(c) /\ p \in DOMAIN c.baskets /\ code \in {201, 409, 500}
    BY <1>0, <2>1
  <2>3. c.latency[p] \in Nat
    BY ONLY <2>2 DEF Scenario
  <2>4. [patron |-> p, code |-> code, latency |-> c.latency[p]] \in Outcome(c)
    BY ONLY <2>2, <2>3 DEF Outcome
  <2>. QED BY ONLY <2>1, <2>4
<1>2. task'[r] = Took(run[r], [task[r] EXCEPT ![p] = Idle("done")]) /\ DOMAIN task' = Runs
      /\ \A q \in Runs \ {r} : task'[q] = task[q]
  <2>1. task' = [task EXCEPT ![r] = TakeNext(r, [@ EXCEPT ![p] = Idle("done")])]
    BY DEF Record, EndTask
  <2>2. TakeNext(r, [task[r] EXCEPT ![p] = Idle("done")])
          = Took(run[r], [task[r] EXCEPT ![p] = Idle("done")])
    BY <1>0 DEF TakeNext, Took, QueueOf
  <2>. QED BY <1>0, <2>1, <2>2
<1>3. /\ DOMAIN metrics'[r] = MetricFields /\ metrics'[r].outcomes = Append(metrics[r].outcomes, o)
      /\ DOMAIN metrics' = Runs /\ \A q \in Runs \ {r} : metrics'[q] = metrics[q]
  <2>1. metrics' = [metrics EXCEPT ![r].outcomes = Append(@, o)]
    BY DEF Record
  <2> HIDE DEF o
  <2>. QED BY <1>0, <2>1 DEF MetricFields
<1>4. /\ DOMAIN run'[r] = RunFields /\ DOMAIN run' = Runs /\ \A q \in Runs \ {r} : run'[q] = run[q]
      /\ run'[r].status = run[r].status /\ run'[r].aborted = run[r].aborted
      /\ run'[r].step = run[r].step /\ run'[r].scheduleIndex = run[r].scheduleIndex
      /\ run'[r].report = run[r].report
      /\ run'[r].completed = run[r].completed + (IF code = 201 THEN 1 ELSE 0)
      /\ run'[r].failed = run[r].failed + (IF code = 201 THEN 0 ELSE 1)
  <2>0. run[r].completed \in Nat /\ run[r].failed \in Nat
    BY <1>0 DEF RunFine, Fine, Shaped
  <2>1. CASE code = 201
    <3>1. run' = [run EXCEPT ![r].completed = @ + 1]
      BY <2>1 DEF Record
    <3>. QED BY <1>0, <2>0, <2>1, <3>1 DEF RunFields
  <2>2. CASE code # 201
    <3>1. run' = [run EXCEPT ![r].failed = @ + 1]
      BY <2>2 DEF Record
    <3>. QED BY <1>0, <2>0, <2>2, <3>1 DEF RunFields
  <2>. QED BY <2>1, <2>2
<1>5. OnlyOf(r)
  BY <1>2, <1>3, <1>4 DEF OnlyOf
<1> HIDE DEF o
<1>6. Recorded(metrics[r], o, metrics'[r]) /\ Answered(run[r], o.code, run'[r])
  BY <1>1, <1>3, <1>4 DEF Recorded, Answered
<1>. QED BY <1>1, <1>2, <1>5, <1>6

(* An order is answered, and its worker takes the next.                    *)
LEMMA RecordStep ==
  ASSUME RunsFine, NEW r \in Runs, NEW p \in Running(r), run[r].step = "batch",
         NEW code \in {201, 409, 500}, Record(r, p, code), config' = config
  PROVE  OnlyOf(r) /\ FineAfter(r, history[r].room) /\ run'[r].aborted = run[r].aborted
<1>2. /\ OnlyOf(r) /\ task'[r] = Took(run[r], [task[r] EXCEPT ![p] = Idle("done")])
      /\ \E o \in Outcome(config[r]) :
           /\ o.patron = p /\ o.code = code /\ Recorded(metrics[r], o, metrics'[r])
           /\ Answered(run[r], o.code, run'[r])
  BY RecordIs
<1>1. PICK o \in Outcome(config[r]) :
        /\ o.patron = p /\ o.code = code /\ Recorded(metrics[r], o, metrics'[r])
        /\ Answered(run[r], o.code, run'[r])
  BY <1>2
<1>3. /\ Scenario(config[r]) /\ p \in RunningOf(task[r])
      /\ Fine(config[r], run[r], task[r], metrics[r], history[r].room)
  BY OfRun DEF RunFine
<1>4. Fine(config[r], run'[r], task'[r], metrics'[r], history[r].room)
  BY <1>1, <1>2, <1>3, RecordFine
<1>. QED BY <1>1, <1>2, <1>4 DEF FineAfter, Answered

(* An order that goes on, one line further or one release less.            *)
LEMMA TouchStep ==
  ASSUME RunsFine, NEW r \in Runs, NEW p \in Patrons(r),
         UNCHANGED <<config, run, metrics>>,
         NEW k, TaskFine(config[r].baskets[p], k), k.state = task[r][p].state,
         ~Free(k) => run[r].step = "batch" /\ config[r].mode = "stub",
         task' = [task EXCEPT ![r][p] = k]
  PROVE  OnlyOf(r) /\ FineAfter(r, history[r].room) /\ run'[r].aborted = run[r].aborted
<1>0. /\ DOMAIN run = Runs /\ DOMAIN task = Runs /\ DOMAIN metrics = Runs
      /\ Scenario(config[r]) /\ RunFine(r) /\ TasksFine(config[r], task[r])
      /\ DOMAIN task[r] = Patrons(r) /\ Patrons(r) = DOMAIN config[r].baskets
      /\ Called(config[r], run[r], task[r])
  BY OfRun DEF RunsFine, RunFine, Fine
<1>1. OnlyOf(r) /\ task'[r] = [task[r] EXCEPT ![p] = k]
  BY <1>0 DEF OnlyOf
<1>2. TasksFine(config[r], task'[r])
  BY <1>0, <1>1 DEF TasksFine, TaskFine
<1>3. \A q \in DOMAIN task[r] :
        /\ task'[r][q].state = task[r][q].state
        /\ ~Free(task'[r][q]) => run[r].step = "batch" /\ config[r].mode = "stub"
  BY <1>0, <1>1 DEF Called
<1>4. FineAfter(r, history[r].room)
  BY <1>0, <1>2, <1>3, TouchFine DEF RunFine, FineAfter
<1>. QED BY <1>1, <1>4

(* The tasks of a run.                                                     *)
LEMMA OfTask ==
  ASSUME RunsFine, NEW r \in Runs, NEW p \in Patrons(r)
  PROVE  /\ TaskFine(config[r].baskets[p], task[r][p])
         /\ DOMAIN task[r][p] = {"state", "line", "releasing"}
         /\ task[r][p].state \in TaskStates /\ task[r][p].line \in Nat \ {0}
         /\ task[r][p].releasing \subseteq Nat
         /\ Len(config[r].baskets[p]) \in Nat \ {0}
         /\ task[r][p].line \in 1..Len(config[r].baskets[p])
         /\ task[r][p].releasing # {} \/ task[r][p].line > 1 =>
              /\ run[r].step = "batch" /\ config[r].mode = "stub"
              /\ task[r][p].state \in {"running", "thrown"}
<1>0. /\ TasksFine(config[r], task[r]) /\ Called(config[r], run[r], task[r]) /\ Scenario(config[r])
      /\ DOMAIN task[r] = Patrons(r) /\ Patrons(r) = DOMAIN config[r].baskets
  BY OfRun DEF RunFine, Fine
<1>1. TaskFine(config[r].baskets[p], task[r][p]) /\ task[r][p] \in TaskType
  BY <1>0 DEF TasksFine
<1>2. Len(config[r].baskets[p]) \in Nat \ {0}
  BY <1>0, Audience
<1>. QED BY <1>0, <1>1, <1>2 DEF TaskFine, TaskType, Called, Free

(* A running task that goes on to line m.                                  *)
LEMMA NextLine ==
  ASSUME NEW t, DOMAIN t = {"state", "line", "releasing"},
         t.state = "running", t.releasing = {}, NEW m
  PROVE  [t EXCEPT !.line = m] = [state |-> "running", line |-> m, releasing |-> {}]
OBVIOUS

(* An order, line by line.                                                 *)
LEMMA DecrementSteps ==
  ASSUME RunsFine, NEW r \in Runs, NEW p \in Patrons(r), DecrementLine(r, p)
  PROVE  OnlyOf(r) /\ FineAfter(r, history[r].room) /\ run'[r].aborted = run[r].aborted
<1>0. /\ DOMAIN task = Runs /\ DOMAIN task[r] = Patrons(r) /\ RunFine(r)
  BY OfRun DEF RunsFine
<1>1. /\ config' = config /\ run[r].step = "batch" /\ p \in Running(r)
      /\ Mode(r) = "stub" /\ task[r][p].releasing = {}
  BY DEF DecrementLine, Decrementing, Ordering
<1> DEFINE n == task[r][p].line
           basket == config[r].baskets[p]
<1>2. /\ n \in Nat \ {0} /\ n <= Len(basket) /\ Len(basket) \in Nat
      /\ DOMAIN task[r][p] = {"state", "line", "releasing"}
      /\ task[r][p].state = "running"
      /\ TaskFine(basket, task[r][p])
  BY <1>1, OfTask DEF Running
<1>3. PICK ok \in BOOLEAN :
         IF ok /\ n < Len(basket)
         THEN task' = [task EXCEPT ![r][p].line = n + 1] /\ UNCHANGED <<run, metrics>>
         ELSE IF ~ok /\ n > 1
         THEN task' = [task EXCEPT ![r][p].releasing = 1 .. n - 1] /\ UNCHANGED <<run, metrics>>
         ELSE Record(r, p, IF ok THEN 201 ELSE 409)
  BY DEF DecrementLine, Baskets
<1>4. CASE ok /\ n < Len(basket)
  <2> DEFINE k == [task[r][p] EXCEPT !.line = n + 1]
  <2>1. task' = [task EXCEPT ![r][p] = k] /\ UNCHANGED <<run, metrics>>
    BY <1>3, <1>4
  <2>2. k = [state |-> "running", line |-> n + 1, releasing |-> {}]
    BY <1>1, <1>2, NextLine
  <2>3. TaskFine(basket, k) /\ k.state = task[r][p].state /\ k.releasing = {}
    BY <1>2, <1>4, <2>2 DEF TaskFine, TaskType, TaskStates, Free
  <2> HIDE DEF k
  <2>4. config[r].mode = "stub"
    BY <1>1 DEF Mode
  <2>. QED BY <1>1, <2>1, <2>3, <2>4, TouchStep
<1>5. CASE ~ok /\ n > 1
  <2> DEFINE k == [task[r][p] EXCEPT !.releasing = 1 .. n - 1]
  <2>1. task' = [task EXCEPT ![r][p] = k] /\ UNCHANGED <<run, metrics>>
    BY <1>3, <1>5
  <2>2. k = [state |-> "running", line |-> n, releasing |-> 1..(n - 1)]
    BY <1>1, <1>2
  <2>3. TaskFine(basket, k) /\ k.state = task[r][p].state
    BY <1>2, <1>5, <2>2 DEF TaskFine, TaskType, TaskStates, Free
  <2> HIDE DEF k
  <2>4. config[r].mode = "stub"
    BY <1>1 DEF Mode
  <2>. QED BY <1>1, <2>1, <2>3, <2>4, TouchStep
<1>6. CASE ~(ok /\ n < Len(basket)) /\ ~(~ok /\ n > 1)
  <2>1. PICK code \in {201, 409, 500} : Record(r, p, code)
    BY <1>3, <1>6
  <2>. QED BY <1>1, <2>1, RecordStep
<1>. QED BY <1>4, <1>5, <1>6

(* What a refused order took is put back.                                  *)
LEMMA ReleaseSteps ==
  ASSUME RunsFine, NEW r \in Runs, NEW p \in Patrons(r), ReleaseLine(r, p)
  PROVE  OnlyOf(r) /\ FineAfter(r, history[r].room) /\ run'[r].aborted = run[r].aborted
<1>1. PICK l \in task[r][p].releasing :
         /\ config' = config
         /\ IF task[r][p].state = "running" /\ task[r][p].releasing = {l}
            THEN Record(r, p, 409)
            ELSE task' = [task EXCEPT ![r][p].releasing = @ \ {l}] /\ UNCHANGED <<run, metrics>>
  BY DEF ReleaseLine
<1>2. /\ TaskFine(config[r].baskets[p], task[r][p])
      /\ DOMAIN task[r][p] = {"state", "line", "releasing"}
      /\ run[r].step = "batch" /\ config[r].mode = "stub"
  BY <1>1, OfTask
<1>3. CASE task[r][p].state = "running" /\ task[r][p].releasing = {l}
  <2>1. p \in Running(r) /\ Record(r, p, 409)
    BY <1>1, <1>3 DEF Running
  <2>. QED BY <1>1, <1>2, <2>1, RecordStep
<1>4. CASE ~(task[r][p].state = "running" /\ task[r][p].releasing = {l})
  <2> DEFINE k == [task[r][p] EXCEPT !.releasing = @ \ {l}]
  <2>0. DOMAIN task = Runs /\ DOMAIN task[r] = Patrons(r)
    BY OfRun DEF RunsFine
  <2>1. task' = [task EXCEPT ![r][p] = k] /\ UNCHANGED <<run, metrics>>
    BY <1>1, <1>4, <2>0
  <2>2. /\ k = [state |-> task[r][p].state, line |-> task[r][p].line,
                releasing |-> task[r][p].releasing \ {l}]
    BY <1>2
  <2>3. TaskFine(config[r].baskets[p], k) /\ k.state = task[r][p].state
    BY <1>2, <2>2 DEF TaskFine, TaskType, Free
  <2> HIDE DEF k
  <2>. QED BY <1>1, <1>2, <2>1, <2>3, TouchStep
<1>. QED BY <1>3, <1>4

(* An order to the platform.                                               *)
LEMMA LiveSteps ==
  ASSUME RunsFine, NEW r \in Runs, NEW p \in Patrons(r), LiveOrder(r, p)
  PROVE  OnlyOf(r) /\ FineAfter(r, history[r].room) /\ run'[r].aborted = run[r].aborted
<1>1. /\ config' = config /\ run[r].step = "batch" /\ p \in Running(r)
      /\ \E code \in {201, 409, 500} : Record(r, p, code)
  BY DEF LiveOrder, Ordering
<1>. QED BY <1>1, RecordStep

(* What a failure of a run does to its record and its collector.           *)
LEMMA FailedRun ==
  ASSUME RunsFine, NEW r \in Runs, Fail(r)
  PROVE  /\ DOMAIN run' = Runs /\ DOMAIN metrics' = Runs
         /\ \A q \in Runs \ {r} : run'[q] = run[q] /\ metrics'[q] = metrics[q]
         /\ DOMAIN run'[r] = RunFields /\ DOMAIN metrics'[r] = MetricFields
         /\ metrics'[r].outcomes = metrics[r].outcomes
         /\ run'[r].status = "failed" /\ run'[r].aborted = run[r].aborted
         /\ run'[r].scheduleIndex = run[r].scheduleIndex
         /\ run'[r].completed = run[r].completed /\ run'[r].failed = run[r].failed
         /\ run'[r].report = run[r].report /\ run'[r].step = run[r].step
<1>0. /\ DOMAIN run = Runs /\ DOMAIN metrics = Runs
      /\ DOMAIN run[r] = RunFields /\ DOMAIN metrics[r] = MetricFields
  BY OfRun DEF RunsFine
<1>. QED BY <1>0 DEF Fail, RunFields, MetricFields

(* A call of the run itself fails, or one of its tasks.                    *)
LEMMA FailSteps ==
  ASSUME RunsFine, NEW r \in Runs, CallFails(r) \/ \E p \in Patrons(r) : Reject(r, p)
  PROVE  OnlyOf(r) /\ FineAfter(r, history[r].room) /\ run'[r].aborted = run[r].aborted
<1>0. /\ DOMAIN run = Runs /\ DOMAIN task = Runs /\ DOMAIN metrics = Runs
      /\ Scenario(config[r]) /\ RunFine(r) /\ DOMAIN run[r] = RunFields
      /\ DOMAIN metrics[r] = MetricFields
      /\ DOMAIN task[r] = Patrons(r) /\ Patrons(r) = DOMAIN config[r].baskets
      /\ TasksFine(config[r], task[r]) /\ Staged(run[r], task[r])
      /\ Fine(config[r], run[r], task[r], metrics[r], history[r].room)
  BY OfRun DEF RunsFine, RunFine, Fine
<1>1. CASE CallFails(r)
  <2>1. run[r].status = "running" /\ Fail(r) /\ UNCHANGED <<config, task>>
    BY <1>1 DEF CallFails, At, Over
  <2>2. OnlyOf(r) /\ task'[r] = task[r]
    BY <1>0, <2>1, FailedRun DEF OnlyOf
  <2>3. Fine(config[r], run'[r], task'[r], metrics'[r], history[r].room)
    BY <1>0, <2>1, <2>2, FailedRun, FailFine
  <2>. QED BY <2>1, <2>2, <2>3, FailedRun DEF FineAfter
<1>2. ASSUME NEW p \in Patrons(r), Reject(r, p)
      PROVE  OnlyOf(r) /\ FineAfter(r, history[r].room) /\ run'[r].aborted = run[r].aborted
  <2>0. /\ p \in RunningOf(task[r]) /\ task[r][p].state = "running" /\ config' = config
        /\ IF run[r].status = "running" THEN Fail(r) ELSE UNCHANGED <<run, metrics>>
    BY <1>0, <1>2 DEF Reject, Running, RunningOf
  <2>1. PICK k : /\ task' = [task EXCEPT ![r][p] = k]
                 /\ \E R \in SUBSET task[r][p].releasing :
                      k = [task[r][p] EXCEPT !.state = "thrown", !.releasing = R]
    <3>2. CASE task' = [task EXCEPT ![r][p].state = "thrown"]
      <4> DEFINE k == [task[r][p] EXCEPT !.state = "thrown", !.releasing = task[r][p].releasing]
      <4>1. k = [task[r][p] EXCEPT !.state = "thrown"]
        BY <1>2, OfTask
      <4>2. task' = [task EXCEPT ![r][p] = k]
        BY <1>0, <3>2, <4>1
      <4> HIDE DEF k
      <4>3. task' = [task EXCEPT ![r][p] = k] /\ \E R \in SUBSET task[r][p].releasing :
              k = [task[r][p] EXCEPT !.state = "thrown", !.releasing = R]
        BY <4>2 DEF k
      <4>. QED BY <4>3
    <3>3. ASSUME NEW l \in task[r][p].releasing,
                 task' = [task EXCEPT ![r][p].state = "thrown", ![r][p].releasing = @ \ {l}]
          PROVE  \E k : /\ task' = [task EXCEPT ![r][p] = k]
                        /\ \E R \in SUBSET task[r][p].releasing :
                             k = [task[r][p] EXCEPT !.state = "thrown", !.releasing = R]
      <4> DEFINE k == [task[r][p] EXCEPT !.state = "thrown", !.releasing = task[r][p].releasing \ {l}]
      <4>1. task' = [task EXCEPT ![r][p] = k]
        BY <1>0, <3>3
      <4>2. \E R \in SUBSET task[r][p].releasing :
              k = [task[r][p] EXCEPT !.state = "thrown", !.releasing = R]
        OBVIOUS
      <4> HIDE DEF k
      <4>. QED BY <4>1, <4>2
    <3>. QED BY <1>2, <3>2, <3>3 DEF Reject
  <2>2. PICK R \in SUBSET task[r][p].releasing :
          k = [task[r][p] EXCEPT !.state = "thrown", !.releasing = R]
    BY <2>1
  <2>3. /\ k.state = "thrown" /\ k.releasing = R /\ TaskFine(config[r].baskets[p], k)
    <3>1. k = [state |-> "thrown", line |-> task[r][p].line, releasing |-> R]
      BY <1>2, <2>2, OfTask
    <3>2. TaskFine(config[r].baskets[p], task[r][p])
      BY <1>0 DEF TasksFine
    <3>. QED BY <3>1, <3>2 DEF TaskFine, TaskType, TaskStates, Free
  <2>4. /\ task'[r] = [task[r] EXCEPT ![p] = k] /\ DOMAIN task' = Runs
        /\ \A q \in Runs \ {r} : task'[q] = task[q]
    BY <1>0, <2>1
  <2>5. TasksFine(config[r], task'[r])
    BY <1>0, <2>3, <2>4 DEF TasksFine, TaskFine
  <2>6. /\ task'[r][p].state = "thrown" /\ (Free(task[r][p]) => Free(task'[r][p]))
        /\ \A q \in DOMAIN task[r] \ {p} : task'[r][q] = task[r][q]
    BY <1>0, <1>2, <2>2, <2>3, <2>4, OfTask DEF Free
  <2>7. run[r].status \in {"running", "failed"}
    BY <1>0, <2>0 DEF RunFine, Fine, Staged, Shaped, RunStatuses, Ended
  <2>8. /\ OnlyOf(r) /\ DOMAIN run'[r] = RunFields /\ DOMAIN metrics'[r] = MetricFields
        /\ metrics'[r].outcomes = metrics[r].outcomes
        /\ run'[r].status = "failed" /\ run'[r].aborted = run[r].aborted
        /\ run'[r].scheduleIndex = run[r].scheduleIndex
        /\ run'[r].completed = run[r].completed /\ run'[r].failed = run[r].failed
        /\ run'[r].report = run[r].report /\ run'[r].step = run[r].step
    <3>1. CASE run[r].status = "running"
      BY <2>0, <2>4, <3>1, FailedRun DEF OnlyOf
    <3>2. CASE run[r].status = "failed"
      BY <1>0, <2>0, <2>4, <3>2 DEF OnlyOf
    <3>. QED BY <2>7, <3>1, <3>2
  <2>9. Fine(config[r], run'[r], task'[r], metrics'[r], history[r].room)
    BY <1>0, <2>0, <2>5, <2>6, <2>7, <2>8, FailFine
  <2>. QED BY <2>8, <2>9 DEF FineAfter
<1>. QED BY <1>1, <1>2

(* What a poll or a snapshot does to the collector.                        *)
LEMMA LookIs ==
  ASSUME RunsFine, NEW r \in Runs, Poll(r) \/ Tick(r)
  PROVE  \E m : /\ metrics' = [metrics EXCEPT ![r] = m]
                /\ DOMAIN m = MetricFields /\ m.outcomes = metrics[r].outcomes
                /\ m.levels \in {metrics[r].levels, Readable(stock[Mode(r)])}
<1>0. DOMAIN metrics = Runs /\ DOMAIN metrics[r] = MetricFields
  BY OfRun DEF RunsFine
<1>1. CASE Tick(r)
  <2> DEFINE m == [metrics[r] EXCEPT !.series = Append(@, Snapshot(metrics[r]))]
  <2>1. metrics' = [metrics EXCEPT ![r] = m]
    BY <1>0, <1>1 DEF Tick
  <2>2. /\ DOMAIN m = MetricFields /\ m.outcomes = metrics[r].outcomes
        /\ m.levels = metrics[r].levels
    BY <1>0 DEF MetricFields
  <2> HIDE DEF m
  <2>. QED BY <2>1, <2>2
<1>2. CASE Poll(r)
  <2> DEFINE n == metrics[r].polls + 1
             reading == config[r].readings[n]
             levels == Readable(stock[Mode(r)])
             a == [metrics[r] EXCEPT !.polls = n, !.levels = levels]
             b == [metrics[r] EXCEPT !.polls = n, !.levels = levels, !.depths = reading.depths]
             d == Compared(b, n, reading.delta)
  <2>1. \E m \in {a, b, d} : metrics' = [metrics EXCEPT ![r] = m]
    BY <1>0, <1>2 DEF Poll
  <2>2. DOMAIN a = MetricFields /\ a.outcomes = metrics[r].outcomes /\ a.levels = levels
    <3> HIDE DEF n, levels
    <3>. QED BY <1>0 DEF MetricFields
  <2>3. DOMAIN b = MetricFields /\ b.outcomes = metrics[r].outcomes /\ b.levels = levels
    <3> HIDE DEF n, levels, reading
    <3>. QED BY <1>0 DEF MetricFields
  <2>4. DOMAIN d = MetricFields /\ d.outcomes = metrics[r].outcomes /\ d.levels = levels
    <3> HIDE DEF n, levels, reading, b
    <3>. QED BY <2>3 DEF Compared, MetricFields
  <2> HIDE DEF a, b, d
  <2>. QED BY <2>1, <2>2, <2>3, <2>4
<1>. QED BY <1>1, <1>2

(* A poll, or a snapshot.                                                  *)
LEMMA LookSteps ==
  ASSUME RunsFine, NEW r \in Runs, Poll(r) \/ Tick(r)
  PROVE  OnlyOf(r) /\ FineAfter(r, history[r].room) /\ run'[r].aborted = run[r].aborted
<1>0. /\ DOMAIN run = Runs /\ DOMAIN task = Runs /\ DOMAIN metrics = Runs
      /\ RunFine(r) /\ DOMAIN metrics[r] = MetricFields
  BY OfRun DEF RunsFine
<1>1. UNCHANGED <<config, run, task>>
  BY DEF Poll, Tick
<1>2. PICK m : /\ metrics' = [metrics EXCEPT ![r] = m]
               /\ DOMAIN m = MetricFields /\ m.outcomes = metrics[r].outcomes
  BY LookIs
<1>3. OnlyOf(r) /\ metrics'[r] = m /\ run'[r] = run[r] /\ task'[r] = task[r]
  BY <1>0, <1>1, <1>2 DEF OnlyOf
<1>4. FineAfter(r, history[r].room)
  BY <1>0, <1>2, <1>3, LookFine DEF RunFine, FineAfter
<1>. QED BY <1>3, <1>4

(* What a report says of the orders.                                       *)
LEMMA ReportSays ==
  ASSUME NEW patrons, NEW outcomes, NEW baskets, NEW initial, NEW final, NEW series,
         NEW report, report = Report(patrons, outcomes, baskets, initial, final, series)
  PROVE  /\ report.patrons = patrons /\ report.attempted = Len(outcomes)
         /\ report.succeeded = Count(outcomes, 201)
         /\ report.oversold = AuditOversell(initial, outcomes, baskets, final)
         /\ report.breaks = BreakFirst(series)
         /\ "patrons" \in DOMAIN report
BY DEF Report

(* The run ends.                                                           *)
LEMMA EndSteps ==
  ASSUME RunsFine, NEW r \in Runs, End(r)
  PROVE  OnlyOf(r) /\ FineAfter(r, history[r].room) /\ run'[r].aborted = run[r].aborted
<1>0. /\ DOMAIN run = Runs /\ DOMAIN task = Runs /\ DOMAIN metrics = Runs
      /\ Scenario(config[r]) /\ RunFine(r) /\ DOMAIN run[r] = RunFields
      /\ DOMAIN metrics[r] = MetricFields /\ Baskets(r) = config[r].baskets
      /\ Fine(config[r], run[r], task[r], metrics[r], history[r].room)
  BY OfRun DEF RunsFine, RunFine, Baskets
<1> DEFINE series == Append(metrics[r].series, Snapshot(metrics[r]))
           report == Report(Len(Baskets(r)), metrics[r].outcomes, Baskets(r),
                            InitialStock(r), FinalStock(r), series)
           status == IF run[r].aborted THEN "cancelled" ELSE "completed"
<1>1. /\ run[r].status = "running" /\ run[r].step = "schedule"
      /\ run[r].aborted \/ run[r].scheduleIndex = Len(config[r].baskets)
      /\ metrics' = [metrics EXCEPT ![r].series = series, ![r].polling = FALSE]
      /\ run' = [run EXCEPT ![r].status = status, ![r].report = report]
      /\ UNCHANGED <<config, task>>
  BY <1>0 DEF End, Over, At
<1>2. /\ report.succeeded = Count(metrics[r].outcomes, 201)
      /\ report.attempted = Len(metrics[r].outcomes)
      /\ report.patrons = Len(config[r].baskets) /\ report # <<>>
  <2>1. "patrons" \in DOMAIN report /\ DOMAIN <<>> = {}
    BY ReportSays
  <2>2. report # <<>>
    <3> HIDE DEF report
    <3>. QED BY <2>1
  <2>. QED BY <1>0, <2>2, ReportSays
<1> HIDE DEF series, report, status
<1>3. /\ OnlyOf(r) /\ task'[r] = task[r]
      /\ DOMAIN metrics'[r] = MetricFields /\ metrics'[r].outcomes = metrics[r].outcomes
      /\ DOMAIN run'[r] = RunFields /\ run'[r].status = status /\ run'[r].report = report
      /\ run'[r].aborted = run[r].aborted /\ run'[r].step = run[r].step
      /\ run'[r].scheduleIndex = run[r].scheduleIndex
      /\ run'[r].completed = run[r].completed /\ run'[r].failed = run[r].failed
  BY <1>0, <1>1 DEF OnlyOf, RunFields, MetricFields
<1>4. run'[r].status = IF run[r].aborted THEN "cancelled" ELSE "completed"
  BY <1>3 DEF status
<1>5. Fine(config[r], run'[r], task'[r], metrics'[r], history[r].room)
  <2>1. /\ run'[r].report.succeeded = Count(metrics[r].outcomes, 201)
        /\ run'[r].report.attempted = Len(metrics[r].outcomes)
        /\ run'[r].report.patrons = Len(config[r].baskets) /\ run'[r].report # <<>>
    BY <1>2, <1>3
  <2>2. /\ run[r].status = "running" /\ run[r].step = "schedule" /\ Scenario(config[r])
        /\ run[r].aborted \/ run[r].scheduleIndex = Len(config[r].baskets)
        /\ Fine(config[r], run[r], task[r], metrics[r], history[r].room)
    BY <1>0, <1>1
  <2>3. Fine(config[r], run'[r], task[r], metrics'[r], history[r].room)
    BY <1>3, <1>4, <2>1, <2>2, EndFine
  <2>. QED BY <1>3, <2>3
<1>. QED BY <1>3, <1>5 DEF FineAfter

(* The run is cancelled.                                                   *)
LEMMA CancelSteps ==
  ASSUME RunsFine, NEW r \in Runs, CancelRun(r)
  PROVE  /\ OnlyOf(r) /\ run'[r].aborted # run[r].aborted
         /\ FineAfter(r, Len(metrics[r].outcomes) + Cardinality(Running(r)))
<1>0. /\ DOMAIN run = Runs /\ DOMAIN task = Runs /\ DOMAIN metrics = Runs
      /\ Scenario(config[r]) /\ DOMAIN run[r] = RunFields
      /\ Running(r) = RunningOf(task[r])
      /\ Fine(config[r], run[r], task[r], metrics[r], history[r].room)
  BY OfRun DEF RunsFine, RunFine
<1>1. /\ run[r].status = "running" /\ ~run[r].aborted
      /\ run' = [run EXCEPT ![r].aborted = TRUE] /\ UNCHANGED <<config, task, metrics>>
  BY DEF CancelRun
<1>2. /\ OnlyOf(r) /\ DOMAIN run'[r] = RunFields /\ run'[r].status = "running"
      /\ run'[r].aborted = TRUE /\ run'[r].step = run[r].step
      /\ run'[r].scheduleIndex = run[r].scheduleIndex /\ run'[r].report = run[r].report
      /\ run'[r].completed = run[r].completed /\ run'[r].failed = run[r].failed
      /\ task'[r] = task[r] /\ metrics'[r] = metrics[r]
  BY <1>0, <1>1 DEF OnlyOf, RunFields
<1>3. Fine(config[r], run'[r], task[r], metrics[r],
           Len(metrics[r].outcomes) + Cardinality(RunningOf(task[r])))
  BY <1>0, <1>1, <1>2, AbortFine
<1>. QED BY <1>0, <1>1, <1>2, <1>3 DEF FineAfter

(* Before anything happens nobody was scheduled and nothing was recorded.  *)
LEMMA InitFine == Init => RunsFine
<1> SUFFICES ASSUME Init PROVE RunsFine
  OBVIOUS
<1>1. /\ config \in Experiments
      /\ DOMAIN run = Runs /\ DOMAIN task = Runs /\ DOMAIN metrics = Runs /\ DOMAIN history = Runs
  BY DEF Init
<1>2. ASSUME NEW r \in Runs PROVE RunFine(r)
  <2>1. Scenario(config[r]) /\ Patrons(r) = DOMAIN config[r].baskets
    BY <1>1, TwinAssumption DEF Patrons, Baskets
  <2>2. /\ run[r] = [status |-> "absent", step |-> "none", aborted |-> FALSE, scheduleIndex |-> 0,
                     puts |-> {}, completed |-> 0, failed |-> 0, report |-> <<>>]
        /\ metrics[r] = [polling |-> FALSE, polls |-> 0, outcomes |-> <<>>, levels |-> <<>>,
                         depths |-> <<>>, delta |-> 0, changed |-> 0, lag |-> 0, series |-> <<>>]
        /\ task[r] = [p \in DOMAIN config[r].baskets |-> Idle("waiting")]
        /\ history[r].room = 0
    BY <2>1 DEF Init
  <2> DEFINE c == config[r]
             x == run[r]
             t == task[r]
             m == metrics[r]
  <2>c. Len(c.baskets) \in Nat /\ \A p \in DOMAIN c.baskets : Len(c.baskets[p]) \in Nat \ {0}
    BY <2>1, Audience
  <2>f. /\ x.status = "absent" /\ x.step = "none" /\ ~x.aborted /\ x.aborted \in BOOLEAN
        /\ x.scheduleIndex = 0 /\ x.completed = 0 /\ x.failed = 0 /\ x.report = <<>>
        /\ DOMAIN x = RunFields /\ DOMAIN m = MetricFields /\ m.outcomes = <<>>
        /\ DOMAIN t = DOMAIN c.baskets
    BY <2>2 DEF RunFields, MetricFields
  <2>w. \A p \in DOMAIN t : /\ t[p] = Idle("waiting") /\ t[p].state = "waiting" /\ Free(t[p])
                            /\ t[p] \in TaskType /\ TaskFine(c.baskets[p], t[p])
    <3> SUFFICES ASSUME NEW p \in DOMAIN t
                 PROVE  /\ t[p] = Idle("waiting") /\ t[p].state = "waiting" /\ Free(t[p])
                        /\ t[p] \in TaskType /\ TaskFine(c.baskets[p], t[p])
      OBVIOUS
    <3>1. t[p] = Idle("waiting") /\ Len(c.baskets[p]) \in Nat \ {0}
      BY <2>2, <2>c, <2>f
    <3>. QED BY <3>1, IdleFine DEF TaskStates
  <2>3. RunningOf(t) = {} /\ QueueOf(t) = {}
    BY <2>w DEF RunningOf, QueueOf
  <2>4. t \in [DOMAIN c.baskets -> TaskType]
    BY <2>2, <2>f, <2>w
  <2> HIDE DEF c, x, t, m
  <2>5. Shaped(c, x, m)
    BY <2>c, <2>f DEF Shaped, RunStatuses, Steps
  <2>6. TasksFine(c, t)
    BY <2>4, <2>f, <2>w DEF TasksFine
  <2>7. Counted(c, x, m)
    <3>1. <<>> \in Seq(Outcome(c)) /\ Len(<<>>) = 0 /\ DOMAIN <<>> = {}
      BY EmptySeq, LenProperties
    <3>2. Count(<<>>, 201) = 0
      <4>1. {n \in DOMAIN <<>> : <<>>[n].code = 201} = {}
        BY <3>1
      <4>. QED BY <4>1, FS_EmptySet DEF Count
    <3>. QED BY <2>f, <3>1, <3>2 DEF Counted
  <2>8. Staged(x, t)
    BY <2>3, <2>f, <2>w DEF Staged
  <2>9. Called(c, x, t)
    BY <2>f, <2>w DEF Called
  <2>10. Staffed(c, x, t)
    <3>1. Cardinality(RunningOf(t)) = 0 /\ c.workerConcurrency \in Nat
      BY <2>1, <2>3, FS_EmptySet, Audience DEF c
    <3>. QED BY <2>f, <3>1 DEF Staffed
  <2>11. OnceEach(x, t, m)
    <3>1. DOMAIN m.outcomes = {}
      BY <2>f, EmptySeq
    <3>2. \A p \in DOMAIN t : ~(p <= 0)
      <4>1. DOMAIN t = 1..Len(c.baskets)
        BY <2>1, <2>f, Audience DEF c
      <4>. QED BY <2>c, <4>1
    <3>. QED BY <2>f, <3>1, <3>2 DEF OnceEach
  <2>12. Reported(c, x, t, m)
    BY <2>f DEF Reported
  <2>13. Stopped(x, t, m, history[r].room)
    BY <2>2, <2>f DEF Stopped
  <2>14. Fine(c, x, t, m, history[r].room)
    BY <2>5, <2>6, <2>7, <2>8, <2>9, <2>10, <2>11, <2>12, <2>13 DEF Fine
  <2>. QED BY <2>14 DEF RunFine, c, x, t, m
<1>. QED BY <1>1, <1>2 DEF RunsFine

(* What one run does.                                                      *)
RunStep(r) ==
  \/ StartRun(r) \/ CancelRun(r) \/ Poll(r) \/ Tick(r) \/ CallFails(r)
  \/ \E p \in Patrons(r) : Reject(r, p)
  \/ Progress(r)

(* Every step of a run leaves it fine, and only a cancellation makes room. *)
LEMMA RunSteps ==
  ASSUME RunsFine, NEW r \in Runs, RunStep(r)
  PROVE  /\ OnlyOf(r)
         /\ FineAfter(r, IF run'[r].aborted # run[r].aborted
                         THEN Len(metrics[r].outcomes) + Cardinality(Running(r))
                         ELSE history[r].room)
<1>1. CASE CancelRun(r)
  BY <1>1, CancelSteps
<1>2. CASE StartRun(r)
  BY <1>2, EarlySteps
<1>3. CASE Poll(r) \/ Tick(r)
  BY <1>3, LookSteps
<1>4. CASE CallFails(r) \/ \E p \in Patrons(r) : Reject(r, p)
  BY <1>4, FailSteps
<1>5. CASE RefillStub(r) \/ RefillLive(r) \/ PutOverride(r)
  BY <1>5, EarlySteps
<1>6. CASE StartSignups(r) \/ RunBatch(r)
  BY <1>6, BeginSteps
<1>7. CASE SignupsDone(r) \/ BatchDone(r) \/ \E p \in Patrons(r) : SignUp(r, p)
  BY <1>7, MiddleSteps
<1>8. CASE End(r)
  BY <1>8, EndSteps
<1>9. ASSUME NEW p \in Patrons(r), DecrementLine(r, p) \/ ReleaseLine(r, p) \/ LiveOrder(r, p)
      PROVE  /\ OnlyOf(r) /\ FineAfter(r, history[r].room)
             /\ run'[r].aborted = run[r].aborted
  BY <1>9, DecrementSteps, ReleaseSteps, LiveSteps
<1>. QED BY <1>1, <1>2, <1>3, <1>4, <1>5, <1>6, <1>7, <1>8, <1>9 DEF RunStep, Progress

(* What is recorded of a run as it is cancelled.                           *)
LEMMA RoomIs ==
  ASSUME Observe, NEW r \in Runs
  PROVE  /\ DOMAIN history' = Runs
         /\ history'[r].room = IF run'[r].aborted # run[r].aborted
                               THEN Len(metrics[r].outcomes) + Cardinality(Running(r))
                               ELSE history[r].room
BY DEF Observe

(* A step is one of the platform's, or one of a run.                       *)
LEMMA WhoSteps ==
  ASSUME Next
  PROVE  Observe /\ (\/ OthersTrade
                     \/ \E r \in Runs : RunStep(r))
BY DEF Next, Step, RunStep

(* Every step keeps the invariant.                                         *)
LEMMA StepFine == RunsFine /\ [Next]_vars => RunsFine'
<1> SUFFICES ASSUME RunsFine, [Next]_vars PROVE RunsFine'
  OBVIOUS
<1>1. CASE vars' = vars
  BY <1>1 DEF vars, twin, RunsFine, RunFine
<1>2. CASE Next
  <2>1. Observe /\ DOMAIN history' = Runs
    BY <1>2, WhoSteps DEF Observe
  <2>2. CASE OthersTrade
    <3>1. UNCHANGED <<config, run, task, metrics>>
      BY <2>2 DEF OthersTrade
    <3>2. ASSUME NEW r \in Runs PROVE history'[r].room = history[r].room
      BY <2>1, <3>1, RoomIs
    <3>. QED BY <2>1, <3>1, <3>2 DEF RunsFine, RunFine
  <2>3. ASSUME NEW r \in Runs, RunStep(r) PROVE RunsFine'
    <3>1. /\ OnlyOf(r)
          /\ FineAfter(r, IF run'[r].aborted # run[r].aborted
                          THEN Len(metrics[r].outcomes) + Cardinality(Running(r))
                          ELSE history[r].room)
      BY <2>3, RunSteps
    <3>2. FineAfter(r, history'[r].room)
      BY <2>1, <3>1, RoomIs
    <3>3. RunFine(r)'
      BY <3>1, <3>2 DEF RunFine, FineAfter, OnlyOf
    <3>4. ASSUME NEW q \in Runs \ {r} PROVE RunFine(q)'
      <4>1. /\ config'[q] = config[q] /\ run'[q] = run[q]
            /\ task'[q] = task[q] /\ metrics'[q] = metrics[q]
        BY <3>1 DEF OnlyOf
      <4>2. history'[q].room = history[q].room
        BY <2>1, <4>1, RoomIs
      <4>. QED BY <4>1, <4>2 DEF RunFine, RunsFine
    <3>5. /\ (config \in Experiments)' /\ DOMAIN run' = Runs /\ DOMAIN task' = Runs
          /\ DOMAIN metrics' = Runs
      BY <3>1 DEF OnlyOf, RunsFine
    <3>. QED BY <2>1, <3>3, <3>4, <3>5 DEF RunsFine
  <2>. QED BY <1>2, <2>2, <2>3, WhoSteps
<1>. QED BY <1>1, <1>2

(* The invariant holds throughout.                                         *)
LEMMA AlwaysFine == Spec => []RunsFine
<1>1. Init => RunsFine
  BY InitFine
<1>2. RunsFine /\ [Next]_vars => RunsFine'
  BY StepFine
<1>. QED BY <1>1, <1>2, PTL DEF Spec

(* A cancelled run records nothing but the orders that were under way.     *)
THEOREM NothingMoreIsOrdered == Spec => []CancelStopsDemand
<1>1. RunsFine => CancelStopsDemand
  <2> SUFFICES ASSUME RunsFine, NEW r \in Runs, run[r].aborted
               PROVE  Len(metrics[r].outcomes) + Cardinality(Running(r)) <= history[r].room
    BY DEF CancelStopsDemand
  <2>1. Fine(config[r], run[r], task[r], metrics[r], history[r].room)
    BY DEF RunsFine, RunFine
  <2>. QED BY <2>1, OfRun DEF Fine, Stopped
<1>. QED BY <1>1, AlwaysFine, PTL

(* A run's report is final and complete.                                   *)
THEOREM EveryPatronReported == Spec => []ReportIsFinal
<1>1. RunsFine => ReportIsFinal
  <2> SUFFICES ASSUME RunsFine, NEW r \in Runs, run[r].status \in {"completed", "cancelled"}
               PROVE  /\ ~Busy(r)
                      /\ run[r].report.succeeded = run[r].completed
                      /\ run[r].report.attempted = run[r].completed + run[r].failed
                      /\ run[r].status = "completed" /\ config[r].workerConcurrency > 0 =>
                           /\ Len(metrics[r].outcomes) = run[r].report.patrons
                           /\ {metrics[r].outcomes[n].patron : n \in DOMAIN metrics[r].outcomes}
                                = Patrons(r)
    BY DEF ReportIsFinal
  <2> DEFINE c == config[r]
             x == run[r]
             t == task[r]
             s == metrics[r].outcomes
  <2>1. /\ Fine(c, x, t, metrics[r], history[r].room) /\ Scenario(c)
        /\ DOMAIN t = Patrons(r) /\ Running(r) = RunningOf(t)
        /\ Patrons(r) = 1..Len(c.baskets) /\ Len(c.baskets) \in Nat
        /\ DOMAIN c.baskets = Patrons(r)
    BY OfRun DEF RunFine
  <2>2. x.step = "schedule" /\ RunningOf(t) = {} /\ \A p \in DOMAIN t : t[p].state # "thrown"
    BY <2>1 DEF Fine, Staged
  <2>3. \A p \in DOMAIN t : Free(t[p])
    BY <2>1, <2>2, NothingReleased
  <2>4. ~Busy(r)
    BY <2>1, <2>2, <2>3 DEF Busy, RunningOf, Free
  <2>5. /\ x.report.succeeded = x.completed /\ x.report.attempted = x.completed + x.failed
        /\ x.report.patrons = Len(c.baskets)
    BY <2>1 DEF Fine, Reported
  <2>6. ASSUME x.status = "completed", c.workerConcurrency > 0
        PROVE  /\ Len(s) = x.report.patrons
               /\ {s[n].patron : n \in DOMAIN s} = Patrons(r)
    <3>1. x.scheduleIndex = Len(c.baskets) /\ QueueOf(t) = {}
      BY <2>1, <2>6 DEF Fine, Reported
    <3>2. s \in Seq(Outcome(c)) /\ OnceEach(x, t, metrics[r]) /\ TasksFine(c, t)
      BY <2>1 DEF Fine, Counted
    <3>3. Len(s) \in Nat /\ DOMAIN s = 1..Len(s) /\ \A n \in DOMAIN s : s[n].patron \in Patrons(r)
      <4>1. Len(s) \in Nat /\ DOMAIN s = 1..Len(s)
        BY <3>2, LenProperties
      <4>2. \A n \in DOMAIN s : s[n] \in Outcome(c)
        BY <3>2, <4>1, ElementOfSeq
      <4>. QED BY <2>1, <4>1, <4>2 DEF Outcome
    <3>4. \A p \in Patrons(r) : \E n \in DOMAIN s : s[n].patron = p
      <4> SUFFICES ASSUME NEW p \in Patrons(r) PROVE \E n \in DOMAIN s : s[n].patron = p
        OBVIOUS
      <4>1. p <= x.scheduleIndex /\ p \in DOMAIN t /\ t[p].state \in TaskStates
        BY <2>1, <3>1, <3>2 DEF TasksFine, TaskType
      <4>2. t[p].state # "waiting"
        BY <3>2, <4>1 DEF OnceEach
      <4>3. t[p].state = "done"
        BY <2>2, <3>1, <4>1, <4>2 DEF TaskStates, RunningOf, QueueOf
      <4>. QED BY <3>2, <4>1, <4>3 DEF OnceEach
    <3>5. {s[n].patron : n \in DOMAIN s} = Patrons(r)
      BY <3>3, <3>4
    <3>6. Len(s) = Len(c.baskets)
      <4> DEFINE f == [n \in 1..Len(s) |-> s[n].patron]
      <4>1. \A n, k \in DOMAIN s : s[n].patron = s[k].patron => n = k
        BY <3>2 DEF OnceEach
      <4>2. f \in Bijection(1..Len(s), Patrons(r))
        <5>1. f \in [1..Len(s) -> Patrons(r)]
          BY <3>3
        <5>2. \A n, k \in 1..Len(s) : f[n] = f[k] => n = k
          BY <3>3, <4>1
        <5>3. \A p \in Patrons(r) : \E n \in 1..Len(s) : f[n] = p
          BY <3>3, <3>4
        <5> HIDE DEF f
        <5>. QED BY <5>1, <5>2, <5>3 DEF Bijection, Injection, Surjection, IsInjective
      <4>3. IsFiniteSet(1..Len(s)) /\ Cardinality(1..Len(s)) = Len(s)
        BY <3>3, FS_Interval
      <4>4. Cardinality(1..Len(c.baskets)) = Len(c.baskets)
        BY <2>1, FS_Interval
      <4> HIDE DEF f, s, c
      <4>5. Cardinality(1..Len(s)) = Cardinality(Patrons(r))
        BY <4>2, <4>3, FS_Bijection DEF ExistsBijection
      <4>. QED BY <2>1, <4>3, <4>4, <4>5
    <3>. QED BY <2>5, <3>5, <3>6
  <2>. QED BY <2>4, <2>5, <2>6
<1>. QED BY <1>1, AlwaysFine, PTL

(* What the page sees of a run changes in five ways.                       *)
LifeStep(r) ==
  \/ /\ run'[r].status = run[r].status /\ run'[r].aborted = run[r].aborted
     /\ run'[r].report = run[r].report
  \/ /\ run[r].status = "absent" /\ run'[r].status \in {"pending", "running"}
     /\ run'[r].aborted = run[r].aborted /\ run'[r].report = run[r].report
  \/ /\ run[r].status = "running" /\ run'[r].status = "running"
     /\ run'[r].aborted = TRUE /\ run'[r].report = run[r].report
  \/ /\ run[r].status = "running"
     /\ run'[r].status = IF run[r].aborted THEN "cancelled" ELSE "completed"
     /\ run'[r].aborted = run[r].aborted /\ run'[r].report # <<>>
  \/ /\ run[r].status = "running" /\ run'[r].status = "failed"
     /\ run'[r].aborted = run[r].aborted /\ run'[r].report = run[r].report

(* Every step of a run is one of them.                                     *)
LEMMA LifeSteps ==
  ASSUME RunsFine, NEW r \in Runs, RunStep(r)
  PROVE  LifeStep(r)
<1>0. DOMAIN run = Runs /\ DOMAIN run[r] = RunFields
  BY OfRun DEF RunsFine
<1>1. CASE StartRun(r)
  BY <1>0, <1>1 DEF StartRun, LifeStep, RunFields
<1>2. CASE CancelRun(r)
  BY <1>0, <1>2 DEF CancelRun, LifeStep, RunFields
<1>3. CASE run' = run
  BY <1>3 DEF LifeStep
<1>4. CASE RefillStub(r)
  <2>1. PICK i \in run[r].puts :
          run' = [run EXCEPT ![r].puts = @ \ {i},
                             ![r].step = IF run[r].puts = {i} THEN "schedule" ELSE @]
    BY <1>4 DEF RefillStub
  <2>. QED BY <1>0, <2>1 DEF LifeStep, RunFields
<1>5. CASE RefillLive(r) \/ PutOverride(r) \/ StartSignups(r) \/ SignupsDone(r) \/ BatchDone(r)
  BY <1>0, <1>5 DEF RefillLive, PutOverride, StartSignups, SignupsDone, BatchDone, LifeStep, RunFields
<1>6. CASE RunBatch(r)
  BY <1>0, <1>6 DEF RunBatch, LifeStep, RunFields
<1>7. CASE \E p \in Patrons(r), code \in {201, 409, 500} : Record(r, p, code)
  BY <1>0, <1>7 DEF Record, LifeStep, RunFields
<1>8. CASE Fail(r) /\ run[r].status = "running"
  BY <1>0, <1>8 DEF Fail, LifeStep, RunFields
<1>9. CASE End(r)
  <2> DEFINE report == Report(Len(Baskets(r)), metrics[r].outcomes, Baskets(r), InitialStock(r),
                              FinalStock(r), Append(metrics[r].series, Snapshot(metrics[r])))
             status == IF run[r].aborted THEN "cancelled" ELSE "completed"
  <2>1. run[r].status = "running" /\ run' = [run EXCEPT ![r].status = status, ![r].report = report]
    BY <1>9 DEF End, Over, At
  <2>2. "patrons" \in DOMAIN report /\ DOMAIN <<>> = {}
    BY ReportSays
  <2>3. report # <<>>
    <3> HIDE DEF report
    <3>. QED BY <2>2
  <2> HIDE DEF report, status
  <2>4. /\ run'[r].status = status /\ run'[r].report = report /\ run'[r].aborted = run[r].aborted
    BY <1>0, <2>1 DEF RunFields
  <2>. QED BY <2>1, <2>3, <2>4 DEF LifeStep, status
<1>10. ASSUME NEW p \in Patrons(r), DecrementLine(r, p) \/ ReleaseLine(r, p) \/ LiveOrder(r, p)
       PROVE  run' = run \/ \E code \in {201, 409, 500} : Record(r, p, code)
  <2>1. CASE LiveOrder(r, p)
    BY <2>1 DEF LiveOrder
  <2>2. CASE ReleaseLine(r, p)
    BY <2>2 DEF ReleaseLine
  <2>3. CASE DecrementLine(r, p)
    BY <2>3 DEF DecrementLine
  <2>. QED BY <1>10, <2>1, <2>2, <2>3
<1>11. CASE CallFails(r)
  <2>1. Fail(r) /\ run[r].status = "running"
    BY <1>11 DEF CallFails, At, Over
  <2>. QED BY <1>8, <2>1
<1>12. ASSUME NEW p \in Patrons(r), Reject(r, p) PROVE LifeStep(r)
  <2>1. CASE run[r].status = "running"
    BY <1>8, <1>12, <2>1 DEF Reject
  <2>2. CASE run[r].status # "running"
    <3>1. run' = run
      BY <1>12, <2>2 DEF Reject
    <3>. QED BY <1>3, <3>1
  <2>. QED BY <2>1, <2>2
<1>13. CASE Poll(r) \/ Tick(r) \/ \E p \in Patrons(r) : SignUp(r, p)
  <2>1. run' = run
    BY <1>13 DEF Poll, Tick, SignUp
  <2>. QED BY <1>3, <2>1
<1>. QED BY <1>1, <1>2, <1>3, <1>4, <1>5, <1>6, <1>7, <1>9, <1>10, <1>11, <1>12, <1>13
     DEF RunStep, Progress

(* A run that has not ended has no report.                                 *)
LEMMA NoReportYet ==
  ASSUME RunsFine, NEW r \in Runs, run[r].status \notin {"completed", "cancelled"}
  PROVE  run[r].report = <<>>
BY OfRun DEF RunFine, Fine, Reported

(* What a run is to the page.                                              *)
View == [r \in Runs |-> [status |-> run[r].status, aborted |-> run[r].aborted,
                         report |-> run[r].report # <<>>]]

(* A step of a run is a step of what the page sees, or changes nothing.    *)
LEMMA LifeMaps ==
  ASSUME RunsFine, NEW r \in Runs, LifeStep(r), \A q \in Runs \ {r} : run'[q] = run[q]
  PROVE  [Lifecycle!RunsNext]_View
<1> DEFINE v == View
           w == View'
           a == [status |-> run[r].status, aborted |-> run[r].aborted,
                 report |-> run[r].report # <<>>]
           b == [status |-> run'[r].status, aborted |-> run'[r].aborted,
                 report |-> run'[r].report # <<>>]
<1>1. /\ v = [q \in Runs |-> v[q]] /\ w = [q \in Runs |-> w[q]] /\ v[r] = a /\ w[r] = b
      /\ \A q \in Runs \ {r} : w[q] = v[q]
  BY DEF View
<1>2. w = [v EXCEPT ![r] = b]
  <2> HIDE DEF v, w, a, b
  <2>. QED BY <1>1
<1>f. /\ DOMAIN a = {"status", "aborted", "report"} /\ a = [k \in DOMAIN a |-> a[k]]
      /\ DOMAIN b = {"status", "aborted", "report"} /\ b = [k \in DOMAIN b |-> b[k]]
  OBVIOUS
<1>3. CASE /\ run'[r].status = run[r].status /\ run'[r].aborted = run[r].aborted
           /\ run'[r].report = run[r].report
  <2>1. b = a
    BY <1>3
  <2>2. w = v
    <3> HIDE DEF v, w, a, b
    <3>. QED BY <1>1, <1>2, <2>1
  <2>. QED BY <2>2
<1>4. CASE /\ run[r].status = "absent" /\ run'[r].status \in {"pending", "running"}
           /\ run'[r].aborted = run[r].aborted /\ run'[r].report = run[r].report
  <2>1. v[r].status = "absent" /\ w = [v EXCEPT ![r].status = run'[r].status]
    <3>1. b = [a EXCEPT !.status = run'[r].status] /\ a.status = "absent"
      BY <1>4
    <3> HIDE DEF v, w, a, b
    <3>. QED BY <1>1, <1>2, <3>1
  <2>2. Lifecycle!RunsNext
    <3>1. PICK s \in {"pending", "running"} : s = run'[r].status
      BY <1>4
    <3>2. v[r].status = "absent" /\ w = [v EXCEPT ![r].status = s]
      BY <2>1, <3>1
    <3>3. Lifecycle!StartOne(r, s)
      BY <3>2 DEF Lifecycle!StartOne, View
    <3>. QED BY <3>3 DEF Lifecycle!RunsNext
  <2>. QED BY <2>2
<1>5. CASE /\ run[r].status = "running" /\ run'[r].status = "running"
           /\ run'[r].aborted = TRUE /\ run'[r].report = run[r].report
  <2>1. v[r].status = "running" /\ w = [v EXCEPT ![r].aborted = TRUE]
    <3>0. (run'[r].report # <<>>) = (run[r].report # <<>>)
      BY <1>5
    <3>2. b.status = a.status /\ b.aborted = TRUE /\ b.report = a.report
      BY <1>5, <3>0
    <3>3. a.status = "running"
      BY <1>5
    <3>1. b = [a EXCEPT !.aborted = TRUE] /\ a.status = "running"
      <4> HIDE DEF a, b
      <4>. QED BY <1>f, <3>2, <3>3
    <3> HIDE DEF v, w, a, b
    <3>. QED BY <1>1, <1>2, <3>1
  <2>2. Lifecycle!Abort(r)
    BY <2>1 DEF Lifecycle!Abort, View
  <2>. QED BY <2>2 DEF Lifecycle!RunsNext
<1>6. CASE /\ run[r].status = "running"
           /\ run'[r].status = IF run[r].aborted THEN "cancelled" ELSE "completed"
           /\ run'[r].aborted = run[r].aborted /\ run'[r].report # <<>>
  <2>1. /\ v[r].status = "running"
        /\ w = [v EXCEPT ![r].status = IF v[r].aborted THEN "cancelled" ELSE "completed",
                         ![r].report = TRUE]
    <3>1. /\ b = [a EXCEPT !.status = IF a.aborted THEN "cancelled" ELSE "completed",
                           !.report = TRUE]
          /\ a.status = "running"
      <4>0. (run'[r].report # <<>>) = TRUE
        BY <1>6
      <4>1. /\ b.status = IF a.aborted THEN "cancelled" ELSE "completed"
            /\ b.aborted = a.aborted /\ b.report = TRUE /\ a.status = "running"
        BY <1>6, <4>0
      <4> HIDE DEF a, b
      <4>. QED BY <1>f, <4>1
    <3> HIDE DEF v, w, a, b
    <3>. QED BY <1>1, <1>2, <3>1
  <2>2. Lifecycle!End(r)
    BY <2>1 DEF Lifecycle!End, View
  <2>. QED BY <2>2 DEF Lifecycle!RunsNext
<1>7. CASE /\ run[r].status = "running" /\ run'[r].status = "failed"
           /\ run'[r].aborted = run[r].aborted /\ run'[r].report = run[r].report
  <2>1. v[r].status = "running" /\ w = [v EXCEPT ![r].status = "failed"]
    <3>1. b = [a EXCEPT !.status = "failed"] /\ a.status = "running"
      BY <1>7
    <3> HIDE DEF v, w, a, b
    <3>. QED BY <1>1, <1>2, <3>1
  <2>2. Lifecycle!Fail(r)
    BY <2>1 DEF Lifecycle!Fail, View
  <2>. QED BY <2>2 DEF Lifecycle!RunsNext
<1>. QED BY <1>3, <1>4, <1>5, <1>6, <1>7 DEF LifeStep

(* The runner keeps the life cycle its clients rely on.                    *)
THEOREM RunsLiveAsPromised == Spec => LifecycleKept
<1>1. Init => Lifecycle!RunsInit
  <2> SUFFICES ASSUME Init PROVE View = [r \in Runs |-> Lifecycle!Absent]
    BY DEF Lifecycle!RunsInit, View
  <2>1. \A r \in Runs : /\ run[r].status = "absent" /\ run[r].aborted = FALSE
                        /\ (run[r].report # <<>>) = FALSE
    BY DEF Init
  <2>. QED BY <2>1 DEF View, Lifecycle!Absent
<1>2. RunsFine /\ [Next]_vars => [Lifecycle!RunsNext]_View
  <2> SUFFICES ASSUME RunsFine, [Next]_vars PROVE [Lifecycle!RunsNext]_View
    OBVIOUS
  <2>1. CASE run' = run
    BY <2>1 DEF View
  <2>2. ASSUME NEW r \in Runs, RunStep(r) PROVE [Lifecycle!RunsNext]_View
    <3>1. LifeStep(r) /\ \A q \in Runs \ {r} : run'[q] = run[q]
      BY <2>2, LifeSteps, RunSteps DEF OnlyOf
    <3>. QED BY <3>1, LifeMaps
  <2>3. CASE OthersTrade
    BY <2>1, <2>3 DEF OthersTrade
  <2>4. CASE vars' = vars
    BY <2>1, <2>4 DEF vars, twin
  <2>. QED BY <2>2, <2>3, <2>4, WhoSteps
<1>. QED BY <1>1, <1>2, AlwaysFine, PTL DEF Spec, LifecycleKept, Lifecycle!RunsSpec, View

------------------------------------------------------------------------------
(* The audit: every unit a run set up is in the stock, with an order or sold.*)

(* What lines K of a basket come to of an item.                            *)
Amount(basket, K, i) ==
  SumFunctionOnSet([k \in DOMAIN basket |-> basket[k].quantity], {k \in K : basket[k].item = i})

(* What one line comes to of an item.                                      *)
Amt(line, i) == IF line.item = i THEN line.quantity ELSE 0

(* What a task has taken from the stock and not put back.                  *)
HeldLines(k) == IF k.releasing # {} THEN k.releasing ELSE 1..(k.line - 1)
Held(basket, k, i) == Amount(basket, HeldLines(k), i)

(* What all tasks of a run hold.                                           *)
Out(c, t, i) ==
  SumFunctionOnSet([p \in DOMAIN t |-> Held(c.baskets[p], t[p], i)], DOMAIN t)

(* A basket's lines.                                                       *)
Basket(b) ==
  /\ Len(b) \in Nat \ {0} /\ DOMAIN b = 1..Len(b)
  /\ \A k \in DOMAIN b : b[k].quantity \in Nat /\ b[k].item \in Items

(* A scenario's baskets are.                                               *)
LEMMA Baskets1 ==
  ASSUME NEW c, Scenario(c), NEW p \in DOMAIN c.baskets
  PROVE  Basket(c.baskets[p])
<1> DEFINE L == [item : Items, quantity : Nat]
           B == Seq(L) \ {<<>>}
           b == c.baskets[p]
<1>1. c.baskets \in Seq(B) /\ DOMAIN c.baskets = 1..Len(c.baskets)
  BY Audience DEF Scenario
<1>2. b \in Seq(L)
  <2>1. b \in B
    <3> HIDE DEF B
    <3>. QED BY <1>1, ElementOfSeq
  <2>. QED BY <2>1
<1>3. Len(b) \in Nat \ {0} /\ DOMAIN b = 1..Len(b)
  <2> HIDE DEF L
  <2>. QED BY <1>2, Audience, LenProperties
<1>4. ASSUME NEW k \in DOMAIN b PROVE b[k].quantity \in Nat /\ b[k].item \in Items
  <2>1. b[k] \in L
    <3> HIDE DEF L
    <3>. QED BY <1>2, <1>3, <1>4, ElementOfSeq
  <2>. QED BY <2>1
<1>. QED BY <1>3, <1>4 DEF Basket

(* An amount is a number; one line more adds to it.                        *)
LEMMA AmountAdds ==
  ASSUME NEW b, Basket(b), NEW K \in SUBSET (DOMAIN b), NEW i
  PROVE  /\ Amount(b, K, i) \in Nat
         /\ \A l \in DOMAIN b \ K : Amount(b, K \cup {l}, i) = Amount(b, K, i) + Amt(b[l], i)
<1> DEFINE f == [k \in DOMAIN b |-> b[k].quantity]
           S == {k \in K : b[k].item = i}
<1>1. IsFiniteSet(DOMAIN b) /\ \A k \in DOMAIN b : f[k] \in Nat
  BY FS_Interval DEF Basket
<1>2. S \in SUBSET (DOMAIN b) /\ Amount(b, K, i) = SumFunctionOnSet(f, S)
  BY DEF Amount
<1>3. IsFiniteSet(S)
  BY <1>1, <1>2, FS_Subset
<1>4. SumFunctionOnSet(f, S) \in Nat
  <2> HIDE DEF f, S
  <2>. QED BY <1>1, <1>2, <1>3, SumNat
<1>5. ASSUME NEW l \in DOMAIN b \ K
      PROVE  Amount(b, K \cup {l}, i) = Amount(b, K, i) + Amt(b[l], i)
  <2> DEFINE S2 == {k \in K \cup {l} : b[k].item = i}
  <2>1. Amount(b, K \cup {l}, i) = SumFunctionOnSet(f, S2)
    BY DEF Amount
  <2>2. CASE b[l].item = i
    <3>1. S2 = S \cup {l} /\ l \notin S /\ f[l] = b[l].quantity
      BY <1>5, <2>2
    <3> HIDE DEF f, S, S2
    <3>2. SumFunctionOnSet(f, S2) = SumFunctionOnSet(f, S) + f[l]
      BY <1>1, <1>2, <1>3, <1>5, <3>1, SumAdd
    <3>. QED BY <1>2, <2>1, <2>2, <3>1, <3>2 DEF Amt
  <2>3. CASE b[l].item # i
    <3>1. S2 = S
      BY <2>3
    <3> HIDE DEF f, S, S2
    <3>. QED BY <1>2, <1>4, <2>1, <2>3, <3>1 DEF Amt
  <2>. QED BY <2>2, <2>3
<1> HIDE DEF f, S
<1>. QED BY <1>2, <1>4, <1>5

(* No line comes to nothing, all lines to what the basket asks for.        *)
LEMMA AmountEnds ==
  ASSUME NEW b, Basket(b), NEW i
  PROVE  /\ Amount(b, {}, i) = 0 /\ Amount(b, DOMAIN b, i) = QuantityIn(b, i)
         /\ QuantityIn(b, i) \in Nat
<1>1. {k \in {} : b[k].item = i} = {}
  OBVIOUS
<1>2. Amount(b, {}, i) = 0
  BY <1>1, SumEmpty DEF Amount
<1>3. Amount(b, DOMAIN b, i) = QuantityIn(b, i)
  BY DEF Amount, QuantityIn
<1>. QED BY <1>2, <1>3, AmountAdds

(* What a task holds, as its order goes on.                                *)
LEMMA HeldIs ==
  ASSUME NEW b, Basket(b), NEW k, TaskFine(b, k), NEW i
  PROVE  /\ Held(b, k, i) \in Nat
         /\ Free(k) => Held(b, k, i) = 0
         /\ k.releasing = {} =>
              Amount(b, 1..k.line, i) = Held(b, k, i) + Amt(b[k.line], i)
         /\ \A l \in k.releasing :
              Held(b, k, i) = Amount(b, k.releasing \ {l}, i) + Amt(b[l], i)
<1>1. k.line \in 1..Len(b) /\ k.releasing \subseteq 1..(k.line - 1) /\ Len(b) \in Nat
  BY DEF TaskFine, TaskType, Basket
<1>2. HeldLines(k) \in SUBSET (DOMAIN b)
  BY <1>1 DEF HeldLines, Basket
<1>3. Held(b, k, i) \in Nat
  BY <1>2, AmountAdds DEF Held
<1>4. ASSUME Free(k) PROVE Held(b, k, i) = 0
  <2>1. HeldLines(k) = {}
    BY <1>4 DEF HeldLines, Free
  <2>. QED BY <2>1, AmountEnds DEF Held
<1>5. ASSUME k.releasing = {} PROVE Amount(b, 1..k.line, i) = Held(b, k, i) + Amt(b[k.line], i)
  <2>1. /\ HeldLines(k) = 1..(k.line - 1) /\ k.line \in DOMAIN b \ (1..(k.line - 1))
        /\ 1..k.line = (1..(k.line - 1)) \cup {k.line} /\ 1..(k.line - 1) \in SUBSET (DOMAIN b)
    BY <1>1, <1>5 DEF HeldLines, Basket
  <2>2. Amount(b, (1..(k.line - 1)) \cup {k.line}, i) = Amount(b, 1..(k.line - 1), i) + Amt(b[k.line], i)
    BY <2>1, AmountAdds
  <2>. QED BY <2>1, <2>2 DEF Held
<1>6. ASSUME NEW l \in k.releasing
      PROVE  Held(b, k, i) = Amount(b, k.releasing \ {l}, i) + Amt(b[l], i)
  <2>1. /\ HeldLines(k) = (k.releasing \ {l}) \cup {l} /\ l \in DOMAIN b \ (k.releasing \ {l})
        /\ k.releasing \ {l} \in SUBSET (DOMAIN b)
    BY <1>1, <1>6 DEF HeldLines, Basket
  <2>. QED BY <2>1, AmountAdds DEF Held
<1>. QED BY <1>3, <1>4, <1>5, <1>6

(* What all hold, when one task goes on.                                   *)
LEMMA OutTouched ==
  ASSUME NEW c, Scenario(c), NEW t, TasksFine(c, t), NEW t2, TasksFine(c, t2), NEW p \in DOMAIN t,
         NEW i, \A q \in DOMAIN t \ {p} : Held(c.baskets[q], t2[q], i) = Held(c.baskets[q], t[q], i)
  PROVE  /\ Out(c, t, i) \in Nat
         /\ Out(c, t2, i) = Out(c, t, i) + Held(c.baskets[p], t2[p], i) - Held(c.baskets[p], t[p], i)
<1> DEFINE f == [q \in DOMAIN t |-> Held(c.baskets[q], t[q], i)]
           g == [q \in DOMAIN t2 |-> Held(c.baskets[q], t2[q], i)]
<1>1. /\ DOMAIN t = DOMAIN c.baskets /\ DOMAIN t2 = DOMAIN t /\ IsFiniteSet(DOMAIN t)
  BY Audience DEF TasksFine
<1>2. \A q \in DOMAIN t : f[q] \in Nat /\ g[q] \in Nat
  <2> SUFFICES ASSUME NEW q \in DOMAIN t
               PROVE  Held(c.baskets[q], t[q], i) \in Nat /\ Held(c.baskets[q], t2[q], i) \in Nat
    BY <1>1
  <2>1. Basket(c.baskets[q]) /\ TaskFine(c.baskets[q], t[q]) /\ TaskFine(c.baskets[q], t2[q])
    BY <1>1, Baskets1 DEF TasksFine
  <2>. QED BY <2>1, HeldIs
<1>3. \A q \in DOMAIN t \ {p} : f[q] = g[q]
  BY <1>1
<1>4. Out(c, t, i) = SumFunctionOnSet(f, DOMAIN t) /\ Out(c, t2, i) = SumFunctionOnSet(g, DOMAIN t)
  BY <1>1 DEF Out
<1>5. f[p] = Held(c.baskets[p], t[p], i) /\ g[p] = Held(c.baskets[p], t2[p], i)
  BY <1>1
<1> HIDE DEF f, g
<1>6. SumFunctionOnSet(f, DOMAIN t) \in Nat
  BY <1>1, <1>2, SumNat
<1>7. SumFunctionOnSet(g, DOMAIN t) = SumFunctionOnSet(f, DOMAIN t) + g[p] - f[p]
  <2>1. \A q \in DOMAIN t : f[q] \in Int /\ g[q] \in Int
    BY <1>2
  <2>. QED BY <1>1, <1>3, <2>1, SumUpdate
<1>. QED BY <1>4, <1>5, <1>6, <1>7

(* When a task has ended, only what it held itself is gone.                *)
LEMMA OutHanded ==
  ASSUME NEW c, Scenario(c), NEW x, NEW t, TasksFine(c, t), NEW p \in DOMAIN t,
         NEW t2, HandedOn(c, x, t, p, t2), NEW i
  PROVE  /\ Out(c, t, i) \in Nat /\ Out(c, t2, i) = Out(c, t, i) - Held(c.baskets[p], t[p], i)
<1>1. /\ TasksFine(c, t2) /\ DOMAIN t = DOMAIN c.baskets
      /\ Free(t2[p])
      /\ \A q \in DOMAIN t \ {p} : \/ t2[q] = t[q]
                                   \/ t[q].state = "queued" /\ Free(t2[q])
  BY DEF HandedOn, TasksFine
<1>2. ASSUME NEW q \in DOMAIN t
      PROVE  Basket(c.baskets[q]) /\ TaskFine(c.baskets[q], t[q]) /\ TaskFine(c.baskets[q], t2[q])
  BY <1>1, Baskets1 DEF TasksFine
<1>3. ASSUME NEW q \in DOMAIN t \ {p}
      PROVE  Held(c.baskets[q], t2[q], i) = Held(c.baskets[q], t[q], i)
  <2>1. CASE t2[q] = t[q]
    BY <2>1
  <2>2. CASE t[q].state = "queued" /\ Free(t2[q])
    <3>1. Free(t[q])
      BY <1>2, <2>2 DEF TaskFine
    <3>. QED BY <1>2, <2>2, <3>1, HeldIs
  <2>. QED BY <1>1, <2>1, <2>2
<1>4. Held(c.baskets[p], t2[p], i) = 0 /\ Held(c.baskets[p], t[p], i) \in Nat
  BY <1>1, <1>2, HeldIs
<1>5. /\ Out(c, t, i) \in Nat
      /\ Out(c, t2, i) = Out(c, t, i) + Held(c.baskets[p], t2[p], i) - Held(c.baskets[p], t[p], i)
  BY <1>1, <1>3, OutTouched
<1>. QED BY <1>4, <1>5

(* A run whose tasks hold nothing.                                         *)
LEMMA OutNothing ==
  ASSUME NEW c, Scenario(c), NEW t, TasksFine(c, t), \A p \in DOMAIN t : Free(t[p]), NEW i
  PROVE  Out(c, t, i) = 0
<1> DEFINE f == [q \in DOMAIN t |-> Held(c.baskets[q], t[q], i)]
<1>1. DOMAIN t = DOMAIN c.baskets /\ IsFiniteSet(DOMAIN t)
  BY Audience DEF TasksFine
<1>2. ASSUME NEW q \in DOMAIN t PROVE f[q] = 0
  <2>1. Basket(c.baskets[q]) /\ TaskFine(c.baskets[q], t[q]) /\ Free(t[q])
    BY <1>1, Baskets1 DEF TasksFine
  <2>. QED BY <2>1, HeldIs
<1>3. Out(c, t, i) = SumFunctionOnSet(f, DOMAIN t)
  BY DEF Out
<1> HIDE DEF f
<1>. QED BY <1>1, <1>2, <1>3, SumZero

(* What an order that was answered has sold.                               *)
SoldBy(c, o, i) == IF o.code = 201 THEN QuantityIn(c.baskets[o.patron], i) ELSE 0

(* What was sold, and what the next order adds to it.                      *)
LEMMA SoldAppend ==
  ASSUME NEW c, Scenario(c), NEW s \in Seq(Outcome(c)), NEW o \in Outcome(c), NEW i
  PROVE  /\ SoldOf(s, c.baskets, i) \in Nat
         /\ SoldOf(Append(s, o), c.baskets, i) = SoldOf(s, c.baskets, i) + SoldBy(c, o, i)
<1> DEFINE l == Len(s)
           s2 == Append(s, o)
           f == [n \in DOMAIN s |-> QuantityIn(c.baskets[s[n].patron], i)]
           g == [n \in DOMAIN s2 |-> QuantityIn(c.baskets[s2[n].patron], i)]
           S == {n \in DOMAIN s : s[n].code = 201}
           S2 == {n \in DOMAIN s2 : s2[n].code = 201}
<1>1. l \in Nat /\ DOMAIN s = 1..l /\ IsFiniteSet(DOMAIN s)
  <2>1. l \in Nat /\ DOMAIN s = 1..l
    BY LenProperties
  <2>. QED BY <2>1, FS_Interval
<1>2. DOMAIN s2 = 1..(l + 1) /\ s2[l + 1] = o /\ \A n \in 1..l : s2[n] = s[n]
  <2>1. s2 \in Seq(Outcome(c)) /\ Len(s2) = l + 1 /\ s2[l + 1] = o /\ \A n \in 1..l : s2[n] = s[n]
    BY AppendProperties
  <2>2. DOMAIN s2 = 1..Len(s2)
    BY <2>1, LenProperties
  <2>. QED BY <2>1, <2>2
<1>3. 1..(l + 1) = (1..l) \cup {l + 1} /\ l + 1 \notin 1..l
  BY <1>1
<1>q. \A p \in DOMAIN c.baskets : QuantityIn(c.baskets[p], i) \in Nat
  BY Baskets1, AmountEnds
<1>4. \A n \in 1..l : f[n] \in Nat
  <2>1. \A n \in 1..l : s[n] \in Outcome(c)
    BY <1>1, ElementOfSeq
  <2>. QED BY <1>1, <1>q, <2>1 DEF Outcome
<1>5. S \in SUBSET (1..l) /\ IsFiniteSet(S)
  BY <1>1, FS_Subset
<1>6. \A n \in 1..l : g[n] = f[n]
  BY <1>1, <1>2, <1>3
<1>7. g[l + 1] = QuantityIn(c.baskets[o.patron], i) /\ g[l + 1] \in Nat
  BY <1>2, <1>3, <1>q DEF Outcome
<1>8. S2 = IF o.code = 201 THEN S \cup {l + 1} ELSE S
  <2>1. S2 = {n \in 1..l : s[n].code = 201} \cup {n \in {l + 1} : o.code = 201}
    BY <1>2, <1>3
  <2>2. S = {n \in 1..l : s[n].code = 201}
    BY <1>1
  <2>. QED BY <2>1, <2>2
<1>9. SoldOf(s, c.baskets, i) = SumFunctionOnSet(f, S) /\ SoldOf(s2, c.baskets, i) = SumFunctionOnSet(g, S2)
  BY DEF SoldOf
<1> HIDE DEF f, g, S, S2, s2
<1>10. SumFunctionOnSet(f, S) \in Nat
  BY <1>4, <1>5, SumNat
<1>11. SumFunctionOnSet(g, S) = SumFunctionOnSet(f, S)
  <2>1. \A n \in S : g[n] = f[n]
    BY <1>5, <1>6
  <2>. QED BY <1>5, <2>1, SumCongruent
<1>12. o.code = 201 => SumFunctionOnSet(g, S \cup {l + 1}) = SumFunctionOnSet(g, S) + g[l + 1]
  <2>1. l + 1 \notin S /\ g[l + 1] \in Int /\ \A n \in S : g[n] \in Int
    BY <1>3, <1>4, <1>5, <1>6, <1>7
  <2>2. PICK k : k = l + 1
    OBVIOUS
  <2> HIDE DEF l
  <2>3. SumFunctionOnSet(g, S \cup {k}) = SumFunctionOnSet(g, S) + g[k]
    BY <1>5, <2>1, <2>2, SumAdd
  <2>. QED BY <2>2, <2>3
<1>. QED BY <1>7, <1>8, <1>9, <1>10, <1>11, <1>12 DEF s2, SoldBy

(* Before any order nothing is sold.                                       *)
LEMMA NothingSold ==
  ASSUME NEW baskets, NEW i
  PROVE  SoldOf(<<>>, baskets, i) = 0
<1> DEFINE f == [n \in DOMAIN <<>> |-> QuantityIn(baskets[<<>>[n].patron], i)]
<1>1. DOMAIN <<>> = {}
  BY EmptySeq
<1>2. {n \in DOMAIN <<>> : <<>>[n].code = 201} = {}
  BY <1>1
<1>3. SoldOf(<<>>, baskets, i) = SumFunctionOnSet(f, {})
  BY <1>2 DEF SoldOf
<1> HIDE DEF f
<1>. QED BY <1>3, SumEmpty

(* The stock a run sets up.                                                *)
Start(c) == [i \in Items |-> IF i \in DOMAIN c.overrides THEN c.overrides[i] ELSE Seed[i]]

(* Every unit it set up is in the stock, with an order or sold.            *)
Balanced(c, t, m, level) ==
  \A i \in Items :
    level[i] \in Nat /\ level[i] + Out(c, t, i) + SoldOf(m.outcomes, c.baskets, i) = Start(c)[i]

(* The stock of a run nobody disturbs: while it is set up, and then.       *)
Afloat(c, x, t, m, level) ==
  /\ x.status # "failed"
  /\ x.step = "refill" /\ c.mode = "stub" =>
       \A i \in Items \ x.puts : level[i] = Start(c)[i]
  /\ x.step = "puts" =>
       \A i \in Items : level[i] = IF i \in x.puts THEN Seed[i] ELSE Start(c)[i]
  /\ x.step \in {"signup", "schedule", "batch"} => Balanced(c, t, m, level)

(* The stock is one, and what a run still has to PUT is an override of it. *)
StockTyped ==
  /\ failures \in Nat /\ stock = [stub |-> stock.stub, live |-> stock.live]
  /\ stock.stub \in [Items -> Levels] /\ stock.live \in [Items -> Levels]
  /\ \A r \in Runs : run[r].step = "puts" => run[r].puts \subseteq DOMAIN config[r].overrides

(* What a run sets up is a number of units.                                *)
LEMMA StartIs ==
  ASSUME NEW c, Scenario(c), NEW i \in Items
  PROVE  Start(c)[i] \in Nat /\ Seed[i] \in Nat
BY TwinAssumption DEF Start, Scenario

(* An order that is answered: what it held is sold, or back in the stock.  *)
LEMMA BalancedRecorded ==
  ASSUME NEW c, Scenario(c), NEW x, NEW t, TasksFine(c, t), NEW p \in DOMAIN t,
         NEW t2, HandedOn(c, x, t, p, t2), NEW m, m.outcomes \in Seq(Outcome(c)),
         NEW o \in Outcome(c), o.patron = p, NEW m2, m2.outcomes = Append(m.outcomes, o),
         NEW level, Balanced(c, t, m, level), NEW level2,
         \A i \in Items : /\ level2[i] \in Nat
                          /\ level2[i] = level[i] + Held(c.baskets[p], t[p], i)
                               - (IF o.code = 201 THEN QuantityIn(c.baskets[p], i) ELSE 0)
  PROVE  Balanced(c, t2, m2, level2)
<1> SUFFICES ASSUME NEW i \in Items
             PROVE  level2[i] \in Nat
                    /\ level2[i] + Out(c, t2, i) + SoldOf(m2.outcomes, c.baskets, i) = Start(c)[i]
  BY DEF Balanced
<1> DEFINE q == QuantityIn(c.baskets[p], i)
           h == Held(c.baskets[p], t[p], i)
           a == Out(c, t, i)
           a2 == Out(c, t2, i)
           b == SoldOf(m.outcomes, c.baskets, i)
           b2 == SoldOf(m2.outcomes, c.baskets, i)
<1>1. a \in Nat /\ a2 = a - h
  BY OutHanded
<1>2. b \in Nat /\ b2 = b + (IF o.code = 201 THEN q ELSE 0)
  <2>1. /\ SoldOf(m.outcomes, c.baskets, i) \in Nat
        /\ SoldOf(Append(m.outcomes, o), c.baskets, i)
             = SoldOf(m.outcomes, c.baskets, i) + SoldBy(c, o, i)
    <3>1. PICK s \in Seq(Outcome(c)) : s = m.outcomes
      OBVIOUS
    <3>. QED BY <3>1, SoldAppend
  <2>. QED BY <2>1 DEF SoldBy
<1>3. Basket(c.baskets[p]) /\ TaskFine(c.baskets[p], t[p])
  BY Baskets1 DEF TasksFine
<1>4. q \in Nat /\ h \in Nat
  BY <1>3, AmountEnds, HeldIs
<1>5. level[i] \in Nat /\ level[i] + a + b = Start(c)[i] /\ Start(c)[i] \in Nat
  BY StartIs DEF Balanced
<1>6. level2[i] \in Nat /\ level2[i] = level[i] + h - (IF o.code = 201 THEN q ELSE 0)
  OBVIOUS
<1> HIDE DEF q, h, a, a2, b, b2
<1>7. level2[i] + a2 + b2 = Start(c)[i]
  BY <1>1, <1>2, <1>4, <1>5, <1>6
<1>. QED BY <1>6, <1>7 DEF a2, b2

(* An order that goes on: what it took is gone from the stock.             *)
LEMMA BalancedTouched ==
  ASSUME NEW c, Scenario(c), NEW t, TasksFine(c, t), NEW p \in DOMAIN t,
         NEW t2, TasksFine(c, t2), \A q \in DOMAIN t \ {p} : t2[q] = t[q],
         NEW m, NEW level, Balanced(c, t, m, level), NEW level2, m.outcomes \in Seq(Outcome(c)),
         \A i \in Items : /\ level2[i] \in Nat
                          /\ level2[i] = level[i] + Held(c.baskets[p], t[p], i)
                                           - Held(c.baskets[p], t2[p], i)
  PROVE  Balanced(c, t2, m, level2)
<1> SUFFICES ASSUME NEW i \in Items
             PROVE  level2[i] \in Nat
                    /\ level2[i] + Out(c, t2, i) + SoldOf(m.outcomes, c.baskets, i) = Start(c)[i]
  BY DEF Balanced
<1> DEFINE h == Held(c.baskets[p], t[p], i)
           h2 == Held(c.baskets[p], t2[p], i)
           a == Out(c, t, i)
           a2 == Out(c, t2, i)
           b == SoldOf(m.outcomes, c.baskets, i)
<1>1. a \in Nat /\ a2 = a + h2 - h
  BY OutTouched
<1>2. b \in Int
  <2>1. level[i] \in Nat /\ level[i] + a + b = Start(c)[i]
    BY DEF Balanced
  <2>2. PICK o : o \in Outcome(c)
    <3>1. [patron |-> p, code |-> 201, latency |-> 0] \in Outcome(c)
      BY DEF Outcome, TasksFine
    <3>. QED BY <3>1
  <2>3. PICK s \in Seq(Outcome(c)) : s = m.outcomes
    OBVIOUS
  <2>4. SoldOf(s, c.baskets, i) \in Nat
    BY <2>2, SoldAppend
  <2>. QED BY <2>3, <2>4
<1>3. Basket(c.baskets[p]) /\ TaskFine(c.baskets[p], t[p]) /\ TaskFine(c.baskets[p], t2[p])
  BY Baskets1 DEF TasksFine
<1>4. h2 \in Nat /\ h \in Nat
  BY <1>3, HeldIs
<1>5. level[i] \in Nat /\ level[i] + a + b = Start(c)[i] /\ Start(c)[i] \in Nat
  BY StartIs DEF Balanced
<1>6. level2[i] \in Nat /\ level2[i] = level[i] + h - h2
  OBVIOUS
<1> HIDE DEF h, h2, a, a2, b
<1>7. level2[i] + a2 + b = Start(c)[i]
  BY <1>1, <1>2, <1>4, <1>5, <1>6
<1>. QED BY <1>6, <1>7 DEF a2, b

(* Before a run's orders nothing is out and nothing sold.                  *)
LEMMA NothingYet ==
  ASSUME NEW c, Scenario(c), NEW x, NEW t, NEW m, NEW z, Fine(c, x, t, m, z),
         x.step \notin {"schedule", "batch"}, NEW i
  PROVE  Out(c, t, i) = 0 /\ SoldOf(m.outcomes, c.baskets, i) = 0
<1>1. Out(c, t, i) = 0
  BY OutNothing DEF Fine, Called
<1>2. m.outcomes \in Seq(Outcome(c)) /\ x.scheduleIndex = 0 /\ OnceEach(x, t, m)
  BY DEF Fine, Counted, Staged
<1>3. Len(m.outcomes) \in Nat /\ DOMAIN m.outcomes = 1..Len(m.outcomes)
  BY <1>2, LenProperties
<1>4. DOMAIN m.outcomes = {}
  <2> SUFFICES ASSUME NEW n \in DOMAIN m.outcomes PROVE FALSE
    OBVIOUS
  <2>1. m.outcomes[n] \in Outcome(c)
    BY <1>2, <1>3, ElementOfSeq
  <2>2. m.outcomes[n].patron \in DOMAIN c.baskets /\ m.outcomes[n].patron <= 0
    BY <1>2, <2>1 DEF OnceEach, Outcome
  <2>. QED BY <2>2, Audience
<1>5. Len(m.outcomes) = 0
  <2>1. Len(m.outcomes) > 0 => 1 \in DOMAIN m.outcomes
    BY <1>3
  <2>2. Len(m.outcomes) \in Nat /\ ~(Len(m.outcomes) > 0)
    BY <1>3, <1>4, <2>1
  <2>. QED BY <2>2
<1>6. m.outcomes = <<>>
  BY <1>2, <1>5, EmptySeq
<1>. QED BY <1>1, <1>6, NothingSold

(* Setting up the stock balances it.                                       *)
LEMMA SetUp ==
  ASSUME NEW c, Scenario(c), NEW x, NEW t, NEW m, NEW z, Fine(c, x, t, m, z),
         x.step \notin {"schedule", "batch"}, NEW m2, m2.outcomes = m.outcomes,
         NEW level, \A i \in Items : level[i] = Start(c)[i]
  PROVE  Balanced(c, t, m2, level)
<1> SUFFICES ASSUME NEW i \in Items
             PROVE  level[i] \in Nat
                    /\ level[i] + Out(c, t, i) + SoldOf(m2.outcomes, c.baskets, i) = Start(c)[i]
  BY DEF Balanced
<1>1. Out(c, t, i) = 0 /\ SoldOf(m2.outcomes, c.baskets, i) = 0
  BY NothingYet
<1>2. level[i] = Start(c)[i] /\ Start(c)[i] \in Nat
  BY StartIs
<1>. QED BY <1>1, <1>2

(* Two task tables of which neither holds anything.                        *)
LEMMA BalancedIdle ==
  ASSUME NEW c, Scenario(c), NEW t, TasksFine(c, t), \A p \in DOMAIN t : Free(t[p]),
         NEW t2, TasksFine(c, t2), \A p \in DOMAIN t2 : Free(t2[p]),
         NEW m, NEW level, Balanced(c, t, m, level)
  PROVE  Balanced(c, t2, m, level)
<1>1. ASSUME NEW i \in Items PROVE Out(c, t, i) = 0 /\ Out(c, t2, i) = 0
  BY OutNothing
<1>. QED BY <1>1 DEF Balanced

(* What is known of a run and of its stock.                                *)
LEMMA OfStock ==
  ASSUME RunsFine, StockTyped, NEW r \in Runs
  PROVE  /\ Scenario(config[r]) /\ Mode(r) = config[r].mode /\ Baskets(r) = config[r].baskets
         /\ InitialStock(r) = Start(config[r])
         /\ TasksFine(config[r], task[r]) /\ DOMAIN task[r] = Patrons(r)
         /\ metrics[r].outcomes \in Seq(Outcome(config[r]))
         /\ DOMAIN stock = {"stub", "live"}
         /\ stock.stub \in [Items -> Levels] /\ stock.live \in [Items -> Levels]
<1>1. DOMAIN stock = {"stub", "live"}
  BY DEF StockTyped
<1>2. TasksFine(config[r], task[r]) /\ metrics[r].outcomes \in Seq(Outcome(config[r]))
  BY OfRun DEF RunFine, Fine, Counted
<1>. QED BY <1>1, <1>2, OfRun DEF StockTyped, Mode, Baskets, InitialStock, Start

(* An order's line, what it takes and what is put back.                    *)
LEMMA LineIs ==
  ASSUME RunsFine, StockTyped, NEW r \in Runs, NEW p \in Patrons(r),
         NEW k \in DOMAIN config[r].baskets[p]
  PROVE  /\ config[r].baskets[p][k].item \in Items /\ config[r].baskets[p][k].quantity \in Nat
         /\ Released(r, p, k).live = stock.live
         /\ Released(r, p, k).stub \in [Items -> Levels]
         /\ Released(r, p, k) = [stub |-> Released(r, p, k).stub, live |-> stock.live]
         /\ \A i \in Items : stock.stub[i] \in Nat =>
              Released(r, p, k).stub[i] = stock.stub[i] + Amt(config[r].baskets[p][k], i)
<1> DEFINE line == config[r].baskets[p][k]
<1>1. line.item \in Items /\ line.quantity \in Nat
  BY OfRun, Baskets1 DEF Basket
<1>2. Released(r, p, k) = [stock EXCEPT !.stub[line.item] = AfterRelease(@, line.quantity)]
  BY OfStock DEF Released
<1>3. /\ DOMAIN stock = {"stub", "live"} /\ stock.stub \in [Items -> Levels]
      /\ stock = [stub |-> stock.stub, live |-> stock.live]
  BY OfStock DEF StockTyped
<1>4. \A n \in Levels : /\ AfterRelease(n, line.quantity) \in Levels
                        /\ n \in Nat => AfterRelease(n, line.quantity) = n + line.quantity
  BY <1>1 DEF AfterRelease, Levels, NoKey
<1> HIDE DEF line
<1> DEFINE L == [stock.stub EXCEPT ![line.item] = AfterRelease(@, line.quantity)]
<1>5. L \in [Items -> Levels]
  BY <1>1, <1>3, <1>4
<1>6. ASSUME NEW i \in Items, stock.stub[i] \in Nat PROVE L[i] = stock.stub[i] + Amt(line, i)
  BY <1>1, <1>3, <1>4, <1>6 DEF Amt
<1>7. Released(r, p, k) = [stub |-> L, live |-> stock.live]
  BY <1>2, <1>3
<1> HIDE DEF L
<1>. QED BY <1>1, <1>5, <1>6, <1>7 DEF line

(* The stock has the units of the line the order is at.                    *)
Enough(r, p) == DecrementCode(stock.stub[Line(r, p).item], Line(r, p).quantity) = SUCCESS

(* The decrement script on the line the order is at.                       *)
LEMMA DecrementIs ==
  ASSUME RunsFine, StockTyped, NEW r \in Runs, NEW p \in Patrons(r)
  PROVE  /\ Line(r, p) = config[r].baskets[p][task[r][p].line]
         /\ Line(r, p).item \in Items /\ Line(r, p).quantity \in Nat
         /\ Decremented(r, p).stub \in [Items -> Levels]
         /\ Decremented(r, p) = [stub |-> Decremented(r, p).stub, live |-> stock.live]
         /\ \A i \in Items : Enough(r, p) /\ stock.stub[i] \in Nat =>
              /\ Decremented(r, p).stub[i] = stock.stub[i] - Amt(Line(r, p), i)
              /\ Decremented(r, p).stub[i] \in Nat
         /\ ~Enough(r, p) => Decremented(r, p).stub = stock.stub
<1> DEFINE line == Line(r, p)
<1>1. line = config[r].baskets[p][task[r][p].line]
  BY OfStock DEF Line
<1>2. line.item \in Items /\ line.quantity \in Nat
  <2>1. task[r][p].line \in 1..Len(config[r].baskets[p])
    BY OfTask
  <2>2. Basket(config[r].baskets[p])
    BY OfRun, Baskets1
  <2>. QED BY <1>1, <2>1, <2>2 DEF Basket
<1>3. Decremented(r, p) = [stock EXCEPT !.stub[line.item] = AfterDecrement(@, line.quantity)]
  BY DEF Decremented
<1>4. /\ DOMAIN stock = {"stub", "live"} /\ stock.stub \in [Items -> Levels]
      /\ stock = [stub |-> stock.stub, live |-> stock.live]
  BY OfStock DEF StockTyped
<1>5. \A n \in Levels : /\ AfterDecrement(n, line.quantity) \in Levels
                        /\ IF DecrementCode(n, line.quantity) = SUCCESS
                           THEN n - line.quantity \in Nat /\ AfterDecrement(n, line.quantity) = n - line.quantity
                           ELSE AfterDecrement(n, line.quantity) = n
  BY <1>2 DEF AfterDecrement, DecrementCode, Levels, NoKey, SUCCESS, INSUFFICIENT, NOT_FOUND
<1> HIDE DEF line
<1> DEFINE L == [stock.stub EXCEPT ![line.item] = AfterDecrement(@, line.quantity)]
           ok == DecrementCode(stock.stub[line.item], line.quantity) = SUCCESS
<1>6. L \in [Items -> Levels]
  BY <1>2, <1>4, <1>5
<1>7. ASSUME ok, NEW i \in Items, stock.stub[i] \in Nat
      PROVE  L[i] = stock.stub[i] - Amt(line, i) /\ L[i] \in Nat
  <2>1. CASE line.item = i
    BY <1>2, <1>4, <1>5, <1>7, <2>1 DEF Amt
  <2>2. CASE line.item # i
    BY <1>2, <1>4, <1>7, <2>2 DEF Amt
  <2>. QED BY <2>1, <2>2
<1>8. ASSUME ~ok PROVE L = stock.stub
  <2>1. stock.stub[line.item] \in Levels
    BY <1>2, <1>4
  <2>2. AfterDecrement(stock.stub[line.item], line.quantity) = stock.stub[line.item]
    BY <1>5, <1>8, <2>1
  <2>3. L = [stock.stub EXCEPT ![line.item] = stock.stub[line.item]]
    BY <2>2
  <2>. QED BY <1>4, <2>3
<1>9. Decremented(r, p) = [stub |-> L, live |-> stock.live]
  BY <1>3, <1>4
<1> HIDE DEF L
<1>10. Enough(r, p) = ok
  BY DEF Enough, line
<1> HIDE DEF ok
<1>11. Decremented(r, p).stub = L
  BY <1>9
<1>12. \A i \in Items : ok /\ stock.stub[i] \in Nat => L[i] = stock.stub[i] - Amt(line, i) /\ L[i] \in Nat
  BY <1>7
<1>. QED BY <1>1, <1>2, <1>6, <1>8, <1>9, <1>10, <1>11, <1>12 DEF line

(* An order that is answered keeps the balance.                            *)
LEMMA RecordBalanced ==
  ASSUME RunsFine, StockTyped, NEW r \in Runs, NEW p \in Running(r), run[r].step = "batch",
         NEW code \in {201, 409, 500}, Record(r, p, code), config' = config,
         NEW level, Balanced(config[r], task[r], metrics[r], level), NEW level2,
         \A i \in Items : /\ level2[i] \in Nat
                          /\ level2[i] = level[i] + Held(config[r].baskets[p], task[r][p], i)
                               - (IF code = 201 THEN QuantityIn(config[r].baskets[p], i) ELSE 0)
  PROVE  Balanced(config[r], task'[r], metrics'[r], level2) /\ run'[r].step = "batch"
<1>1. /\ task'[r] = Took(run[r], [task[r] EXCEPT ![p] = Idle("done")])
      /\ \E o \in Outcome(config[r]) :
           /\ o.patron = p /\ o.code = code /\ Recorded(metrics[r], o, metrics'[r])
           /\ Answered(run[r], o.code, run'[r])
  BY RecordIs
<1>2. PICK o \in Outcome(config[r]) :
        /\ o.patron = p /\ o.code = code /\ Recorded(metrics[r], o, metrics'[r])
        /\ Answered(run[r], o.code, run'[r])
  BY <1>1
<1>3. /\ Scenario(config[r]) /\ TasksFine(config[r], task[r])
      /\ metrics[r].outcomes \in Seq(Outcome(config[r]))
      /\ p \in RunningOf(task[r]) /\ p \in DOMAIN task[r]
  BY OfStock, OfRun DEF RunningOf
<1>4. HandedOn(config[r], run[r], task[r], p, task'[r])
  BY <1>1, <1>3, TookFine
<1>5. metrics'[r].outcomes = Append(metrics[r].outcomes, o)
  BY <1>2 DEF Recorded
<1>6. \A i \in Items : /\ level2[i] \in Nat
                       /\ level2[i] = level[i] + Held(config[r].baskets[p], task[r][p], i)
                            - (IF o.code = 201 THEN QuantityIn(config[r].baskets[p], i) ELSE 0)
  BY <1>2
<1>7. Balanced(config[r], task'[r], metrics'[r], level2)
  <2>1. o.patron = p
    BY <1>2
  <2>2. PICK c, x, t, t2, m, m2 :
          /\ c = config[r] /\ x = run[r] /\ t = task[r] /\ t2 = task'[r]
          /\ m = metrics[r] /\ m2 = metrics'[r]
    OBVIOUS
  <2>3. /\ Scenario(c) /\ TasksFine(c, t) /\ p \in DOMAIN t /\ HandedOn(c, x, t, p, t2)
        /\ m.outcomes \in Seq(Outcome(c)) /\ o \in Outcome(c)
        /\ m2.outcomes = Append(m.outcomes, o) /\ Balanced(c, t, m, level)
    BY <1>3, <1>4, <1>5, <2>2
  <2>4. \A i \in Items : /\ level2[i] \in Nat
                         /\ level2[i] = level[i] + Held(c.baskets[p], t[p], i)
                              - (IF o.code = 201 THEN QuantityIn(c.baskets[p], i) ELSE 0)
    BY <1>6, <2>2
  <2>5. Balanced(c, t2, m2, level2)
    BY ONLY <2>1, <2>3, <2>4, BalancedRecorded
  <2>. QED BY <2>2, <2>5
<1>. QED BY <1>2, <1>7 DEF Answered

(* How a step of a run leaves the stock it works on.                       *)
AfloatNow(r) == Afloat(config[r], run[r], task[r], metrics[r], stock[Mode(r)])
AfloatAfter(r) == Afloat(config[r], run'[r], task'[r], metrics'[r], stock'[Mode(r)])
BalancedAfter(r) == Balanced(config[r], task'[r], metrics'[r], stock'[Mode(r)])

(* An order goes on, with units it takes from the stock or puts back.      *)
GoesOn(r, p, k) ==
  UNCHANGED metrics /\ TaskFine(config[r].baskets[p], k) /\ task' = [task EXCEPT ![r][p] = k]
Moved(basket, j, k, level, level2) ==
  \A i \in Items :
    level2[i] \in Nat /\ level2[i] = level[i] + Held(basket, j, i) - Held(basket, k, i)

(* An order that goes on keeps the balance.                                *)
LEMMA TouchBalanced ==
  ASSUME RunsFine, StockTyped, NEW r \in Runs, NEW p \in Patrons(r), NEW k, GoesOn(r, p, k),
         NEW level, Balanced(config[r], task[r], metrics[r], level),
         NEW level2, Moved(config[r].baskets[p], task[r][p], k, level, level2)
  PROVE  Balanced(config[r], task'[r], metrics'[r], level2)
<1>0. /\ DOMAIN task = Runs /\ DOMAIN task[r] = Patrons(r) /\ Patrons(r) = DOMAIN config[r].baskets
      /\ Scenario(config[r]) /\ TasksFine(config[r], task[r])
      /\ metrics[r].outcomes \in Seq(Outcome(config[r]))
  BY OfRun, OfStock DEF RunsFine
<1>1. task'[r] = [task[r] EXCEPT ![p] = k] /\ TaskFine(config[r].baskets[p], k)
  BY <1>0 DEF GoesOn
<1>2. task'[r][p] = k /\ \A q \in DOMAIN task[r] \ {p} : task'[r][q] = task[r][q]
  BY <1>0, <1>1
<1>3. TasksFine(config[r], task'[r])
  BY <1>0, <1>1 DEF TasksFine, TaskFine
<1>4. \A i \in Items : /\ level2[i] \in Nat
                       /\ level2[i] = level[i] + Held(config[r].baskets[p], task[r][p], i)
                                        - Held(config[r].baskets[p], task'[r][p], i)
  BY <1>2 DEF Moved
<1>5. Balanced(config[r], task'[r], metrics'[r], level2)
  <2>1. PICK t2 : t2 = task'[r]
    OBVIOUS
  <2>2. PICK m : m = metrics[r] /\ m = metrics'[r]
    BY DEF GoesOn
  <2>3. Balanced(config[r], task[r], m, level) /\ m.outcomes \in Seq(Outcome(config[r]))
    BY <1>0, <2>2
  <2>4. /\ TasksFine(config[r], t2) /\ \A q \in DOMAIN task[r] \ {p} : t2[q] = task[r][q]
        /\ \A i \in Items : /\ level2[i] \in Nat
                           /\ level2[i] = level[i] + Held(config[r].baskets[p], task[r][p], i)
                                            - Held(config[r].baskets[p], t2[p], i)
    BY <1>2, <1>3, <1>4, <2>1
  <2>5. p \in DOMAIN task[r] /\ Scenario(config[r]) /\ TasksFine(config[r], task[r])
    BY <1>0
  <2>6. Balanced(config[r], t2, m, level2)
    BY <2>3, <2>4, <2>5, BalancedTouched
  <2>. QED BY <2>1, <2>2, <2>6
<1>. QED BY <1>5

(* A stub's order takes its lines from the stock.                          *)
LEMMA DecrementKeeps ==
  ASSUME RunsFine, StockTyped, NEW r \in Runs, NEW p \in Patrons(r), DecrementLine(r, p),
         Balanced(config[r], task[r], metrics[r], stock[Mode(r)])
  PROVE  BalancedAfter(r) /\ run'[r].step = "batch"
<1> DEFINE n == task[r][p].line
           b == config[r].baskets[p]
           line == b[n]
<1>0. /\ config' = config /\ run[r].step = "batch" /\ p \in Running(r)
      /\ Mode(r) = "stub" /\ task[r][p].releasing = {} /\ stock' = Decremented(r, p)
  BY DEF DecrementLine, Decrementing, Ordering
<1>1. /\ n \in Nat \ {0} /\ n <= Len(b) /\ Len(b) \in Nat
      /\ DOMAIN task[r][p] = {"state", "line", "releasing"}
      /\ task[r][p].state = "running" /\ TaskFine(b, task[r][p]) /\ Basket(b)
  BY <1>0, OfTask, OfRun, Baskets1 DEF Running
<1>2. IF Enough(r, p) /\ n < Len(b)
      THEN task' = [task EXCEPT ![r][p].line = n + 1] /\ UNCHANGED <<run, metrics>>
      ELSE IF ~Enough(r, p) /\ n > 1
      THEN task' = [task EXCEPT ![r][p].releasing = 1 .. n - 1] /\ UNCHANGED <<run, metrics>>
      ELSE Record(r, p, IF Enough(r, p) THEN 201 ELSE 409)
  BY DEF DecrementLine, Baskets, Enough
<1>3. /\ \A i \in Items : stock.stub[i] \in Nat
      /\ Balanced(config[r], task[r], metrics[r], stock.stub)
  BY <1>0 DEF Balanced
<1>4. /\ Line(r, p) = line
      /\ ~Enough(r, p) => stock'.stub = stock.stub
      /\ \A i \in Items : Enough(r, p) => /\ stock'.stub[i] = stock.stub[i] - Amt(line, i)
                                          /\ stock'.stub[i] \in Nat
  BY <1>0, <1>3, DecrementIs
<1>5. ASSUME NEW i \in Items
      PROVE  /\ Held(b, task[r][p], i) \in Nat /\ Amt(line, i) \in Nat
             /\ Amount(b, 1..n, i) = Held(b, task[r][p], i) + Amt(line, i)
             /\ Amount(b, DOMAIN b, i) = QuantityIn(b, i)
             /\ n = 1 => Held(b, task[r][p], i) = 0
  <2>1. line.quantity \in Nat
    BY <1>1 DEF Basket
  <2>2. Amt(line, i) \in Nat
    BY <2>1 DEF Amt
  <2>3. n = 1 => Free(task[r][p])
    BY <1>0 DEF Free
  <2>4. Amount(b, DOMAIN b, i) = QuantityIn(b, i)
    BY <1>1, AmountEnds
  <2>5. PICK k : k = task[r][p]
    OBVIOUS
  <2> HIDE DEF b
  <2>6. TaskFine(b, k) /\ Basket(b) /\ k.releasing = {}
    BY <1>0, <1>1, <2>5
  <2>7. Held(b, k, i) \in Nat
    BY <2>6, HeldIs
  <2>8. Free(k) => Held(b, k, i) = 0
    BY <2>6, HeldIs
  <2>9. Amount(b, 1..k.line, i) = Held(b, k, i) + Amt(b[k.line], i)
    BY <2>6, HeldIs
  <2>. QED BY <2>2, <2>3, <2>4, <2>5, <2>7, <2>8, <2>9
<1> HIDE DEF n, line
<1>6. CASE Enough(r, p) /\ n < Len(b)
  <2> DEFINE k == [task[r][p] EXCEPT !.line = n + 1]
  <2>1. task' = [task EXCEPT ![r][p] = k] /\ UNCHANGED <<run, metrics>>
    BY <1>2, <1>6
  <2>2. k = [state |-> "running", line |-> n + 1, releasing |-> {}]
    BY <1>0, <1>1, NextLine
  <2>3. TaskFine(b, k)
    BY <1>1, <1>6, <2>2 DEF TaskFine, TaskType, TaskStates, Free
  <2>4. HeldLines(k) = 1..n
    BY <1>1, <2>2 DEF HeldLines
  <2> HIDE DEF k
  <2>5. Moved(b, task[r][p], k, stock.stub, stock'.stub)
    BY <1>3, <1>4, <1>5, <1>6, <2>4 DEF Held, Moved
  <2>6. Balanced(config[r], task'[r], metrics'[r], stock'.stub)
    BY <1>3, <2>1, <2>3, <2>5, TouchBalanced DEF GoesOn
  <2>. QED BY <1>0, <2>1, <2>6 DEF BalancedAfter
<1>7. CASE ~Enough(r, p) /\ n > 1
  <2> DEFINE k == [task[r][p] EXCEPT !.releasing = 1 .. n - 1]
  <2>1. task' = [task EXCEPT ![r][p] = k] /\ UNCHANGED <<run, metrics>>
    BY <1>2, <1>7
  <2>2. k = [state |-> "running", line |-> n, releasing |-> 1..(n - 1)]
    BY <1>0, <1>1 DEF n
  <2>3. TaskFine(b, k)
    BY <1>1, <1>7, <2>2 DEF TaskFine, TaskType, TaskStates, Free
  <2>4. HeldLines(k) = HeldLines(task[r][p])
    BY <1>0, <1>1, <2>2 DEF HeldLines, n
  <2> HIDE DEF k
  <2>5. Moved(b, task[r][p], k, stock.stub, stock'.stub)
    BY <1>3, <1>4, <1>5, <1>7, <2>4 DEF Held, Moved
  <2>6. Balanced(config[r], task'[r], metrics'[r], stock'.stub)
    BY <1>3, <2>1, <2>3, <2>5, TouchBalanced DEF GoesOn
  <2>. QED BY <1>0, <2>1, <2>6 DEF BalancedAfter
<1>8. CASE Enough(r, p) /\ ~(n < Len(b))
  <2>1. Record(r, p, 201)
    BY <1>2, <1>8
  <2>2. 1..n = DOMAIN b
    BY <1>1, <1>8 DEF Basket
  <2>3. ASSUME NEW i \in Items
        PROVE  /\ stock'.stub[i] \in Nat
               /\ stock'.stub[i] = stock.stub[i] + Held(b, task[r][p], i) - QuantityIn(b, i)
    BY <1>3, <1>4, <1>5, <1>8, <2>2
  <2>4. Balanced(config[r], task'[r], metrics'[r], stock'.stub) /\ run'[r].step = "batch"
    BY <1>0, <1>3, <2>1, <2>3, RecordBalanced
  <2>. QED BY <1>0, <2>4 DEF BalancedAfter
<1>9. CASE ~Enough(r, p) /\ ~(n > 1)
  <2>1. Record(r, p, 409) /\ n = 1
    BY <1>1, <1>2, <1>9
  <2>2. \A i \in Items : /\ stock'.stub[i] \in Nat
                         /\ stock'.stub[i] = stock.stub[i] + Held(b, task[r][p], i) - 0
    BY <1>3, <1>4, <1>5, <1>9, <2>1
  <2>3. Balanced(config[r], task'[r], metrics'[r], stock'.stub) /\ run'[r].step = "batch"
    BY <1>0, <1>3, <2>1, <2>2, RecordBalanced
  <2>. QED BY <1>0, <2>3 DEF BalancedAfter
<1>. QED BY <1>0, <1>6, <1>7, <1>8, <1>9

(* What a stub's refused order took is put back.                           *)
LEMMA ReleaseKeeps ==
  ASSUME RunsFine, StockTyped, NEW r \in Runs, NEW p \in Patrons(r), ReleaseLine(r, p),
         run[r].status # "failed", Balanced(config[r], task[r], metrics[r], stock[Mode(r)])
  PROVE  BalancedAfter(r) /\ run'[r].step = "batch"
<1> DEFINE b == config[r].baskets[p]
<1>1. PICK l \in task[r][p].releasing :
         /\ stock' = Released(r, p, l) /\ config' = config
         /\ IF task[r][p].state = "running" /\ task[r][p].releasing = {l}
            THEN Record(r, p, 409)
            ELSE task' = [task EXCEPT ![r][p].releasing = @ \ {l}] /\ UNCHANGED <<run, metrics>>
  BY DEF ReleaseLine
<1>2. /\ TaskFine(b, task[r][p]) /\ Basket(b)
      /\ DOMAIN task[r][p] = {"state", "line", "releasing"}
      /\ run[r].step = "batch" /\ Mode(r) = "stub"
      /\ task[r][p].state \in {"running", "thrown"}
  BY <1>1, OfTask, OfRun, Baskets1 DEF Mode
<1>3. task[r][p].state = "running"
  BY <1>2, OfRun DEF RunFine, Fine, Staged
<1>4. l \in DOMAIN b
  BY <1>1, <1>2 DEF TaskFine, TaskType, Basket
<1>5. /\ \A i \in Items : stock.stub[i] \in Nat
      /\ Balanced(config[r], task[r], metrics[r], stock.stub)
  BY <1>2 DEF Balanced
<1>6. \A i \in Items : stock'.stub[i] = stock.stub[i] + Amt(b[l], i)
  BY <1>1, <1>4, <1>5, LineIs
<1>7. ASSUME NEW i \in Items
      PROVE  /\ Amt(b[l], i) \in Nat
             /\ Amount(b, task[r][p].releasing \ {l}, i) \in Nat
             /\ Held(b, task[r][p], i) = Amount(b, task[r][p].releasing \ {l}, i) + Amt(b[l], i)
  <2>1. b[l].quantity \in Nat
    BY <1>2, <1>4 DEF Basket
  <2>2. Amt(b[l], i) \in Nat
    BY <2>1 DEF Amt
  <2>3. task[r][p].releasing \ {l} \in SUBSET (DOMAIN b)
    BY <1>2 DEF TaskFine, TaskType, Basket
  <2>4. Amount(b, task[r][p].releasing \ {l}, i) \in Nat
    BY <1>2, <2>3, AmountAdds
  <2>5. PICK k : k = task[r][p]
    OBVIOUS
  <2> HIDE DEF b
  <2>6. TaskFine(b, k) /\ Basket(b) /\ l \in k.releasing
    BY <1>1, <1>2, <2>5
  <2>7. Held(b, k, i) = Amount(b, k.releasing \ {l}, i) + Amt(b[l], i)
    BY <2>6, HeldIs
  <2>. QED BY <2>2, <2>4, <2>5, <2>7
<1>8. CASE task[r][p].releasing = {l}
  <2>1. p \in Running(r) /\ Record(r, p, 409)
    BY <1>1, <1>3, <1>8 DEF Running
  <2>2. ASSUME NEW i \in Items
        PROVE  stock'.stub[i] \in Nat /\ stock'.stub[i] = stock.stub[i] + Held(b, task[r][p], i) - 0
    <3>1. task[r][p].releasing \ {l} = {}
      BY <1>8
    <3>2. Amount(b, {}, i) = 0
      BY <1>2, AmountEnds
    <3>3. Held(b, task[r][p], i) = Amt(b[l], i)
      <4> HIDE DEF b
      <4>1. Amount(b, task[r][p].releasing \ {l}, i) = Amount(b, {}, i)
        BY <3>1, Zenon
      <4>. QED BY <1>7, <3>2, <4>1
    <3> HIDE DEF b
    <3>. QED BY <1>5, <1>6, <1>7, <3>3
  <2>3. Balanced(config[r], task'[r], metrics'[r], stock'.stub) /\ run'[r].step = "batch"
    BY <1>1, <1>2, <1>5, <2>1, <2>2, RecordBalanced
  <2>. QED BY <1>2, <2>3 DEF BalancedAfter
<1>9. CASE task[r][p].releasing # {l}
  <2> DEFINE k == [task[r][p] EXCEPT !.releasing = @ \ {l}]
  <2>0. DOMAIN task = Runs /\ DOMAIN task[r] = Patrons(r)
    BY OfRun DEF RunsFine
  <2>1. task' = [task EXCEPT ![r][p] = k] /\ UNCHANGED <<run, metrics>>
    BY <1>1, <1>9, <2>0
  <2>2. k = [state |-> task[r][p].state, line |-> task[r][p].line,
             releasing |-> task[r][p].releasing \ {l}]
    <3>1. PICK t : t = task[r][p]
      OBVIOUS
    <3>2. t \in TaskType
      BY <1>2, <3>1 DEF TaskFine
    <3>3. [t EXCEPT !.releasing = @ \ {l}]
            = [state |-> t.state, line |-> t.line, releasing |-> t.releasing \ {l}]
      BY ONLY <3>2 DEF TaskType
    <3>. QED BY ONLY <3>1, <3>3
  <2>3. TaskFine(b, k)
    BY <1>2, <2>2 DEF TaskFine, TaskType, Free
  <2>4. HeldLines(k) = task[r][p].releasing \ {l}
    BY <1>1, <1>9, <2>2 DEF HeldLines
  <2> HIDE DEF k
  <2>5. ASSUME NEW i \in Items
        PROVE  /\ stock'.stub[i] \in Nat
               /\ stock'.stub[i] = stock.stub[i] + Held(b, task[r][p], i) - Held(b, k, i)
    <3>1. Held(b, k, i) = Amount(b, task[r][p].releasing \ {l}, i)
      BY <2>4 DEF Held
    <3> DEFINE a == Amount(b, task[r][p].releasing \ {l}, i)
    <3>2. stock.stub[i] \in Nat /\ stock'.stub[i] = stock.stub[i] + Amt(b[l], i)
      BY <1>5, <1>6
    <3>3. /\ Amt(b[l], i) \in Nat /\ a \in Nat
          /\ Held(b, task[r][p], i) = a + Amt(b[l], i) /\ Held(b, k, i) = a
      BY <1>7, <3>1
    <3> HIDE DEF b, a
    <3>. QED BY <3>2, <3>3
  <2>6. GoesOn(r, p, k) /\ Moved(b, task[r][p], k, stock.stub, stock'.stub)
    BY <2>1, <2>3, <2>5 DEF GoesOn, Moved
  <2>7. Balanced(config[r], task'[r], metrics'[r], stock'.stub)
    BY <1>5, <2>6, TouchBalanced
  <2>. QED BY <1>2, <2>1, <2>7 DEF BalancedAfter
<1>. QED BY <1>8, <1>9

(* A live run's order is accepted whole, or takes nothing.                 *)
LEMMA LiveKeeps ==
  ASSUME RunsFine, StockTyped, NEW r \in Runs, NEW p \in Patrons(r), LiveOrder(r, p),
         Balanced(config[r], task[r], metrics[r], stock[Mode(r)])
  PROVE  BalancedAfter(r) /\ run'[r].step = "batch"
<1> DEFINE b == config[r].baskets[p]
<1>1. /\ config' = config /\ run[r].step = "batch" /\ p \in Running(r) /\ Mode(r) = "live"
      /\ config[r].mode = "live"
  BY DEF LiveOrder, Ordering, Mode
<1>2. TaskFine(b, task[r][p]) /\ Basket(b) /\ Free(task[r][p])
  BY <1>1, OfTask, OfRun, Baskets1 DEF Free
<1>3. ASSUME NEW i \in Items PROVE QuantityIn(b, i) \in Nat /\ Held(b, task[r][p], i) = 0
  <2>1. QuantityIn(b, i) \in Nat
    BY <1>2, AmountEnds
  <2>2. PICK k : k = task[r][p]
    OBVIOUS
  <2> HIDE DEF b
  <2>3. Held(b, k, i) = 0
    BY <1>2, <2>2, HeldIs
  <2>. QED BY <2>1, <2>2, <2>3
<1>4. /\ \A i \in Items : stock.live[i] \in Nat
      /\ Balanced(config[r], task[r], metrics[r], stock.live)
  BY <1>1 DEF Balanced
<1>5. CASE /\ \A i \in Items : stock.live[i] >= QuantityIn(b, i)
           /\ stock' = Accepted(r, p) /\ Record(r, p, 201)
  <2>1. stock'.live = [i \in Items |-> stock.live[i] - QuantityIn(b, i)]
    BY <1>5, OfStock DEF Accepted
  <2>2. ASSUME NEW i \in Items
        PROVE  /\ stock'.live[i] \in Nat
               /\ stock'.live[i] = stock.live[i] + Held(b, task[r][p], i) - QuantityIn(b, i)
    <3>1. stock'.live[i] = stock.live[i] - QuantityIn(b, i) /\ stock.live[i] >= QuantityIn(b, i)
      BY <1>5, <2>1
    <3> HIDE DEF b
    <3>. QED BY <1>3, <1>4, <3>1
  <2>3. Balanced(config[r], task'[r], metrics'[r], stock'.live) /\ run'[r].step = "batch"
    BY <1>1, <1>4, <1>5, <2>2, RecordBalanced
  <2>. QED BY <1>1, <2>3 DEF BalancedAfter
<1>6. ASSUME NEW code \in {409, 500}, Record(r, p, code), UNCHANGED stock
      PROVE  BalancedAfter(r) /\ run'[r].step = "batch"
  <2>1. \A i \in Items : /\ stock'.live[i] \in Nat
                         /\ stock'.live[i] = stock.live[i] + Held(b, task[r][p], i) - 0
    BY <1>3, <1>4, <1>6
  <2>2. Balanced(config[r], task'[r], metrics'[r], stock'.live) /\ run'[r].step = "batch"
    BY <1>1, <1>4, <1>6, <2>1, RecordBalanced
  <2>. QED BY <1>1, <2>2 DEF BalancedAfter
<1>7. \/ /\ \A i \in Items : stock.live[i] >= QuantityIn(b, i)
         /\ stock' = Accepted(r, p) /\ Record(r, p, 201)
      \/ \E code \in {409, 500} : Record(r, p, code) /\ UNCHANGED stock
  BY DEF LiveOrder, Baskets
<1>. QED BY <1>5, <1>6, <1>7

(* From a balanced stock on, a run stays afloat while the stock balances.   *)
LEMMA StaysAfloat ==
  ASSUME NEW r \in Runs, BalancedAfter(r), run'[r].step \in {"signup", "schedule", "batch"},
         run'[r].status # "failed"
  PROVE  AfloatAfter(r)
BY DEF BalancedAfter, AfloatAfter, Afloat

(* A run sets up its stock.                                                *)
LEMMA SetUpKeeps ==
  ASSUME RunsFine, StockTyped, NEW r \in Runs, AfloatNow(r), failures' = failures,
         RefillStub(r) \/ RefillLive(r) \/ PutOverride(r)
  PROVE  AfloatAfter(r)
<1>0. /\ Scenario(config[r]) /\ Mode(r) = config[r].mode /\ InitialStock(r) = Start(config[r])
      /\ Fine(config[r], run[r], task[r], metrics[r], history[r].room)
      /\ DOMAIN run = Runs /\ DOMAIN run[r] = RunFields /\ DOMAIN metrics = Runs
      /\ DOMAIN metrics[r] = MetricFields
      /\ DOMAIN stock = {"stub", "live"} /\ DOMAIN stock.stub = Items /\ DOMAIN stock.live = Items
      /\ failures \in Nat
  BY OfRun, OfStock DEF RunsFine, RunFine, StockTyped
<1> DEFINE start == Start(config[r])
<1>1. CASE RefillStub(r)
  <2>1. /\ run[r].step = "refill" /\ run[r].status = "running" /\ Mode(r) = "stub"
        /\ task' = task
    BY <1>1 DEF RefillStub, At
  <2>2. PICK i \in run[r].puts :
          /\ stock' = [stock EXCEPT !.stub[i] = start[i]]
          /\ run' = [run EXCEPT ![r].puts = @ \ {i},
                                ![r].step = IF run[r].puts = {i} THEN "schedule" ELSE @]
          /\ metrics' = [metrics EXCEPT ![r].polling = (run[r].puts = {i})]
    <3>1. failures' # failures + 1
      BY <1>0
    <3>. QED BY <1>0, <1>1, <3>1 DEF RefillStub, Failure
  <2>3. /\ run'[r].puts = run[r].puts \ {i} /\ run'[r].status = "running"
        /\ run'[r].step = IF run[r].puts = {i} THEN "schedule" ELSE "refill"
    BY <1>0, <2>1, <2>2 DEF RunFields
  <2>4. metrics'[r].outcomes = metrics[r].outcomes
    BY <1>0, <2>2 DEF MetricFields
  <2>5. stock'.stub = [stock.stub EXCEPT ![i] = start[i]]
    BY <1>0, <2>2
  <2>6. \A j \in Items \ run[r].puts : stock.stub[j] = start[j]
    BY <1>0, <2>1 DEF AfloatNow, Afloat
  <2>7. \A j \in Items \ (run[r].puts \ {i}) : stock'.stub[j] = start[j]
    <3> HIDE DEF start
    <3>. QED BY <1>0, <2>5, <2>6
  <2>8. CASE run[r].puts = {i}
    <3>1. \A j \in Items : stock'.stub[j] = start[j]
      BY <2>7, <2>8
    <3>2. Balanced(config[r], task[r], metrics'[r], stock'.stub)
      BY <1>0, <2>1, <2>4, <3>1, SetUp
    <3>. QED BY <2>1, <2>3, <2>8, <3>2, StaysAfloat DEF BalancedAfter
  <2>9. CASE run[r].puts # {i}
    BY <2>1, <2>3, <2>7, <2>9 DEF AfloatAfter, Afloat
  <2>. QED BY <2>8, <2>9
<1>2. CASE RefillLive(r)
  <2>1. /\ run[r].step = "refill" /\ run[r].status = "running" /\ Mode(r) = "live"
        /\ stock' = [stock EXCEPT !.live = Seed]
        /\ run' = [run EXCEPT ![r].step = "puts", ![r].puts = DOMAIN config[r].overrides]
    BY <1>2 DEF RefillLive, At
  <2>2. stock'.live = Seed
    BY <1>0, <2>1
  <2>3. /\ run'[r].step = "puts" /\ run'[r].puts = DOMAIN config[r].overrides
        /\ run'[r].status = "running"
    BY <1>0, <2>1 DEF RunFields
  <2>4. \A j \in Items : Seed[j] = IF j \in DOMAIN config[r].overrides THEN Seed[j] ELSE start[j]
    BY DEF Start
  <2>5. \A j \in Items : stock'[Mode(r)][j] = IF j \in run'[r].puts THEN Seed[j] ELSE start[j]
    <3>1. stock'[Mode(r)] = Seed
      BY <2>1, <2>2
    <3> HIDE DEF start
    <3>. QED BY <2>3, <2>4, <3>1
  <2> HIDE DEF start
  <2>. QED BY <2>3, <2>5 DEF AfloatAfter, Afloat, start
<1>3. CASE PutOverride(r)
  <2>1. run[r].step = "puts" /\ run[r].status = "running"
    BY <1>3 DEF PutOverride, At
  <2>2. Mode(r) = "live"
    BY <1>0, <2>1 DEF Fine, Called
  <2>3. PICK i \in run[r].puts : /\ stock' = [stock EXCEPT !.live[i] = config[r].overrides[i]]
                                 /\ run' = [run EXCEPT ![r].puts = @ \ {i}]
    BY <1>3 DEF PutOverride
  <2>4. /\ run'[r].step = "puts" /\ run'[r].puts = run[r].puts \ {i} /\ run'[r].status = "running"
    BY <1>0, <2>1, <2>3 DEF RunFields
  <2>5. /\ run[r].puts \subseteq DOMAIN config[r].overrides
        /\ \A j \in Items : stock.live[j] = IF j \in run[r].puts THEN Seed[j] ELSE start[j]
    BY <2>1, <2>2 DEF AfloatNow, Afloat, StockTyped
  <2>6. stock'.live = [stock.live EXCEPT ![i] = config[r].overrides[i]]
    BY <1>0, <2>3
  <2>7. i \in Items => start[i] = config[r].overrides[i]
    BY <2>5 DEF Start
  <2>8. \A j \in Items : stock'.live[j] = IF j \in run[r].puts \ {i} THEN Seed[j] ELSE start[j]
    <3> HIDE DEF start
    <3>. QED BY <1>0, <2>5, <2>6, <2>7
  <2>. QED BY <2>2, <2>4, <2>5, <2>8 DEF AfloatAfter, Afloat
<1>. QED BY <1>1, <1>2, <1>3

(* Tasks begin with nothing.                                               *)
LEMMA BegunFree ==
  ASSUME NEW c, Scenario(c), NEW x, NEW t, TasksFine(c, t), \A p \in DOMAIN t : Free(t[p]),
         RunningOf(t) = {}, NEW a \in Nat, NEW b \in 0..Len(c.baskets),
         NEW t2, t2 = Begun(c, x, t, a, b)
  PROVE  TasksFine(c, t2) /\ \A p \in DOMAIN t2 : Free(t2[p])
<1>0. DOMAIN t = DOMAIN c.baskets
  BY DEF TasksFine
<1>1. CASE ~x.aborted
  <2>1. /\ TasksFine(c, t2) /\ \A p \in DOMAIN t : p \notin (a + 1)..b => t2[p] = t[p]
        /\ \A p \in (a + 1)..b : Free(t2[p])
    BY <1>1, BegunTasks
  <2>2. DOMAIN t2 = DOMAIN t
    BY <1>0, <2>1 DEF TasksFine
  <2>. QED BY <2>1, <2>2
<1>2. CASE x.aborted
  <2>1. t2 = t
    BY <1>0, <1>2 DEF Begun, TasksFine
  <2>. QED BY <2>1
<1>. QED BY <1>1, <1>2

(* The sign-ups, and the beginning of a batch, leave the stock alone.      *)
LEMMA BeginKeeps ==
  ASSUME RunsFine, StockTyped, NEW r \in Runs, AfloatNow(r),
         StartSignups(r) \/ RunBatch(r)
  PROVE  AfloatAfter(r)
<1>0. /\ Scenario(config[r]) /\ Mode(r) = config[r].mode
      /\ Fine(config[r], run[r], task[r], metrics[r], history[r].room)
      /\ DOMAIN run = Runs /\ DOMAIN run[r] = RunFields /\ DOMAIN task = Runs
      /\ TasksFine(config[r], task[r])
      /\ Patrons(r) = 1..Len(config[r].baskets) /\ Len(config[r].baskets) \in Nat
      /\ Patrons(r) = DOMAIN config[r].baskets /\ Baskets(r) = config[r].baskets
      /\ run[r].scheduleIndex \in 0..Len(config[r].baskets)
  BY OfRun, OfStock DEF RunsFine, RunFine, Fine, Shaped
<1>1. /\ run[r].status = "running" /\ run[r].step \in {"puts", "schedule"}
      /\ stock' = stock /\ metrics' = metrics
      /\ run[r].step = "puts" => run[r].puts = {}
  BY DEF StartSignups, RunBatch, At
<1>2. RunningOf(task[r]) = {} /\ \A p \in DOMAIN task[r] : Free(task[r][p])
  <2>1. RunningOf(task[r]) = {}
    BY <1>0, <1>1 DEF Fine, Staged
  <2>. QED BY <1>0, <1>1, <2>1, NothingReleased
<1>3. Balanced(config[r], task[r], metrics[r], stock[Mode(r)])
  <2>1. CASE run[r].step = "schedule"
    BY <2>1 DEF AfloatNow, Afloat
  <2>2. CASE run[r].step = "puts"
    <3>1. \A i \in Items : stock[Mode(r)][i] = Start(config[r])[i]
      BY <1>1, <2>2 DEF AfloatNow, Afloat
    <3>. QED BY <1>0, <2>2, <3>1, SetUp
  <2>. QED BY <1>1, <2>1, <2>2
<1>4. \E a \in Nat, b \in 0..Len(config[r].baskets) :
        task'[r] = Begun(config[r], run[r], task[r], a, b)
  <2>1. CASE StartSignups(r)
    <3> DEFINE n == Len(config[r].baskets)
               patrons == 0 + 1 .. n
    <3>1. Patrons(r) = patrons /\ n \in Nat
      BY <1>0 DEF Patrons, Baskets
    <3>2. StartTasks(r, patrons)
      BY <2>1, <3>1 DEF StartSignups
    <3>3. task' = [task EXCEPT ![r] = [p \in Patrons(r) |->
             IF p \notin patrons \/ run[r].aborted THEN task[r][p]
             ELSE IF Cardinality({q \in patrons : q < p}) < config[r].workerConcurrency
                  THEN Idle("running") ELSE Idle("queued")]]
      BY <3>2 DEF StartTasks
    <3>4. task'[r] = Begun(config[r], run[r], task[r], 0, n)
      BY <1>0, <3>3 DEF Begun
    <3>. QED BY <3>1, <3>4
  <2>2. CASE RunBatch(r)
    <3>1. PICK upto \in run[r].scheduleIndex + 1 .. Len(config[r].baskets) :
            StartTasks(r, run[r].scheduleIndex + 1 .. upto)
      BY <1>0, <2>2 DEF RunBatch
    <3>2. task'[r] = Begun(config[r], run[r], task[r], run[r].scheduleIndex, upto)
      BY <1>0, <3>1 DEF StartTasks, Begun
    <3>3. run[r].scheduleIndex \in Nat /\ upto \in 0..Len(config[r].baskets)
      BY <1>0
    <3>. QED BY <3>2, <3>3
  <2>. QED BY <2>1, <2>2
<1>5. TasksFine(config[r], task'[r]) /\ \A p \in DOMAIN task'[r] : Free(task'[r][p])
  BY <1>0, <1>2, <1>4, BegunFree
<1>6. BalancedAfter(r)
  <2>1. Balanced(config[r], task'[r], metrics[r], stock[Mode(r)])
    BY <1>0, <1>2, <1>3, <1>5, BalancedIdle
  <2>. QED BY <1>1, <2>1 DEF BalancedAfter
<1>7. run'[r].step \in {"signup", "batch"} /\ run'[r].status = "running"
  BY <1>0, <1>1 DEF StartSignups, RunBatch, RunFields
<1>. QED BY <1>6, <1>7, StaysAfloat

(* A sign-up orders nothing.                                               *)
LEMMA SignUpKeeps ==
  ASSUME RunsFine, StockTyped, NEW r \in Runs, AfloatNow(r), NEW p \in Patrons(r), SignUp(r, p)
  PROVE  AfloatAfter(r)
<1>0. /\ Scenario(config[r]) /\ DOMAIN task = Runs /\ DOMAIN task[r] = Patrons(r)
      /\ Fine(config[r], run[r], task[r], metrics[r], history[r].room)
      /\ TasksFine(config[r], task[r]) /\ Running(r) = RunningOf(task[r])
  BY OfRun, OfStock DEF RunsFine, RunFine
<1>1. /\ run[r].step = "signup" /\ p \in RunningOf(task[r])
      /\ UNCHANGED <<stock, run, metrics>>
      /\ task' = [task EXCEPT ![r] = TakeNext(r, [@ EXCEPT ![p] = Idle("done")])]
  BY <1>0 DEF SignUp, EndTask
<1>2. task'[r] = Took(run[r], [task[r] EXCEPT ![p] = Idle("done")])
  <2>1. TakeNext(r, [task[r] EXCEPT ![p] = Idle("done")])
          = Took(run[r], [task[r] EXCEPT ![p] = Idle("done")])
    BY <1>0 DEF TakeNext, Took, QueueOf
  <2>. QED BY <1>0, <1>1, <2>1
<1>3. HandedOn(config[r], run[r], task[r], p, task'[r])
  <2>1. /\ Scenario(config[r]) /\ TasksFine(config[r], task[r]) /\ p \in RunningOf(task[r])
    BY <1>0, <1>1
  <2>2. HandedOn(config[r], run[r], task[r], p, Took(run[r], [task[r] EXCEPT ![p] = Idle("done")]))
    BY <2>1, TookFine
  <2>. QED BY <1>2, <2>2
<1>4. \A q \in DOMAIN task[r] : Free(task[r][q])
  BY <1>0, <1>1 DEF Fine, Called
<1>5. TasksFine(config[r], task'[r]) /\ \A q \in DOMAIN task'[r] : Free(task'[r][q])
  <2>1. TasksFine(config[r], task'[r]) /\ DOMAIN task'[r] = DOMAIN task[r]
    BY <1>0, <1>3 DEF HandedOn, TasksFine
  <2>. QED BY <1>3, <1>4, <2>1 DEF HandedOn
<1>6. Balanced(config[r], task[r], metrics[r], stock[Mode(r)])
  BY <1>1 DEF AfloatNow, Afloat
<1>7. Balanced(config[r], task'[r], metrics[r], stock[Mode(r)])
  BY <1>0, <1>4, <1>5, <1>6, BalancedIdle
<1>8. BalancedAfter(r)
  BY <1>1, <1>7 DEF BalancedAfter
<1>9. run'[r].status # "failed" /\ run'[r].step = "signup"
  BY <1>1 DEF AfloatNow, Afloat
<1>. QED BY <1>8, <1>9, StaysAfloat

(* A step that orders nothing and sets nothing up.                         *)
LEMMA QuietKeeps ==
  ASSUME RunsFine, NEW r \in Runs, AfloatNow(r),
         UNCHANGED <<stock, task>>, metrics'[r].outcomes = metrics[r].outcomes,
         run'[r].status # "failed",
         \/ run'[r].step = run[r].step /\ run'[r].puts = run[r].puts
         \/ run[r].step \in {"signup", "batch"} /\ run'[r].step = "schedule"
  PROVE  AfloatAfter(r)
<1>1. Balanced(config[r], task[r], metrics[r], stock[Mode(r)]) => BalancedAfter(r)
  BY DEF Balanced, BalancedAfter
<1>2. CASE run'[r].step = run[r].step /\ run'[r].puts = run[r].puts
  <2>1. run[r].step \in {"signup", "schedule", "batch"} => BalancedAfter(r)
    BY <1>1 DEF AfloatNow, Afloat
  <2>2. /\ run'[r].step = "refill" /\ config[r].mode = "stub" =>
             \A i \in Items \ run'[r].puts : stock'[Mode(r)][i] = Start(config[r])[i]
        /\ run'[r].step = "puts" =>
             \A i \in Items : stock'[Mode(r)][i] = IF i \in run'[r].puts THEN Seed[i]
                                                 ELSE Start(config[r])[i]
    BY <1>2 DEF AfloatNow, Afloat
  <2>. QED BY <1>2, <2>1, <2>2 DEF AfloatAfter, Afloat, BalancedAfter
<1>3. CASE run[r].step \in {"signup", "batch"} /\ run'[r].step = "schedule"
  <2>1. BalancedAfter(r)
    BY <1>1, <1>3 DEF AfloatNow, Afloat
  <2>. QED BY <1>3, <2>1, StaysAfloat
<1>. QED BY <1>2, <1>3

(* A run that starts finds the stock as it is.                             *)
LEMMA StartKeeps ==
  ASSUME RunsFine, NEW r \in Runs, StartRun(r), run'[r].status = "running"
  PROVE  AfloatAfter(r)
<1>1. DOMAIN run = Runs /\ DOMAIN run[r] = RunFields /\ Mode(r) = config[r].mode
  BY OfRun DEF RunsFine, Mode
<1>2. /\ run'[r].step = "refill" /\ run'[r].puts = IF Mode(r) = "stub" THEN Items ELSE {}
  BY <1>1 DEF StartRun, RunFields
<1>. QED BY <1>1, <1>2 DEF AfloatAfter, Afloat

(* An order leaves the run's status.                                       *)
LEMMA OrderStays ==
  ASSUME RunsFine, NEW r \in Runs, NEW p \in Patrons(r),
         DecrementLine(r, p) \/ ReleaseLine(r, p) \/ LiveOrder(r, p)
  PROVE  run'[r].status = run[r].status
<1>0. DOMAIN run = Runs /\ DOMAIN run[r] = RunFields
  BY OfRun DEF RunsFine
<1>1. CASE run' = run
  BY <1>1
<1>2. CASE \E code \in {201, 409, 500} : Record(r, p, code)
  BY <1>0, <1>2 DEF Record, RunFields
<1>3. CASE LiveOrder(r, p)
  BY <1>2, <1>3 DEF LiveOrder
<1>4. CASE ReleaseLine(r, p)
  BY <1>1, <1>2, <1>4 DEF ReleaseLine
<1>5. CASE DecrementLine(r, p)
  BY <1>1, <1>2, <1>5 DEF DecrementLine
<1>. QED BY <1>3, <1>4, <1>5

(* A run keeps itself afloat, as long as no call fails.                    *)
LEMMA OwnSteps ==
  ASSUME RunsFine, StockTyped, NEW r \in Runs, AfloatNow(r), failures' = failures, RunStep(r),
         run[r].status # "absent"
  PROVE  AfloatAfter(r)
<1>0. /\ DOMAIN run = Runs /\ DOMAIN run[r] = RunFields
      /\ DOMAIN metrics = Runs /\ DOMAIN metrics[r] = MetricFields
      /\ failures' # failures + 1 /\ run[r].status # "failed"
  BY OfRun DEF RunsFine, StockTyped, AfloatNow, Afloat
<1>1. CASE StartRun(r)
  BY <1>1 DEF StartRun
<1>2. CASE CancelRun(r)
  BY <1>0, <1>2, QuietKeeps DEF CancelRun, RunFields
<1>3. CASE Poll(r) \/ Tick(r)
  <2>1. UNCHANGED <<stock, task, run>>
    BY <1>3 DEF Poll, Tick
  <2>2. metrics'[r].outcomes = metrics[r].outcomes
    BY <1>0, <1>3, LookIs
  <2>. QED BY <1>0, <2>1, <2>2, QuietKeeps
<1>4. CASE SignupsDone(r) \/ BatchDone(r)
  <2>1. /\ UNCHANGED <<stock, task, metrics>> /\ run[r].step \in {"signup", "batch"}
        /\ run[r].status = "running" /\ run' = [run EXCEPT ![r].step = "schedule"]
    BY <1>4 DEF SignupsDone, BatchDone, At
  <2>2. run'[r].step = "schedule" /\ run'[r].status = "running"
    BY <1>0, <2>1 DEF RunFields
  <2>. QED BY <2>1, <2>2, QuietKeeps
<1>5. CASE End(r)
  <2>1. UNCHANGED <<stock, task>>
    BY <1>5 DEF End
  <2>2. metrics'[r].outcomes = metrics[r].outcomes
    BY <1>0, <1>5 DEF End, MetricFields
  <2>3. \E status \in {"cancelled", "completed"} : \E report :
          run' = [run EXCEPT ![r].status = status, ![r].report = report]
    BY <1>5 DEF End
  <2>4. /\ run'[r].step = run[r].step /\ run'[r].puts = run[r].puts /\ run'[r].status # "failed"
    BY <1>0, <2>3 DEF RunFields
  <2>. QED BY <2>1, <2>2, <2>4, QuietKeeps
<1>6. ASSUME NEW p \in Patrons(r), DecrementLine(r, p) \/ ReleaseLine(r, p) \/ LiveOrder(r, p)
      PROVE  AfloatAfter(r)
  <2>1. run[r].step = "batch"
    BY <1>6, OfTask DEF DecrementLine, Decrementing, LiveOrder, Ordering, ReleaseLine
  <2>2. Balanced(config[r], task[r], metrics[r], stock[Mode(r)])
    BY <2>1 DEF AfloatNow, Afloat
  <2>3. BalancedAfter(r) /\ run'[r].step = "batch"
    BY <1>0, <1>6, <2>2, DecrementKeeps, ReleaseKeeps, LiveKeeps
  <2>4. run'[r].status # "failed"
    BY <1>0, <1>6, OrderStays
  <2>. QED BY <2>3, <2>4, StaysAfloat
<1>7. ASSUME CallFails(r) \/ \E p \in Patrons(r) : Reject(r, p) PROVE FALSE
  BY <1>0, <1>7 DEF CallFails, Reject, Failure
<1>. QED BY <1>1, <1>2, <1>3, <1>4, <1>5, <1>6, <1>7, SetUpKeeps, BeginKeeps, SignUpKeeps
     DEF RunStep, Progress

(* A busy run has a stock; one that is over is not busy.                   *)
LEMMA BusyIs ==
  ASSUME RunsFine, NEW r \in Runs
  PROVE  /\ run[r].step # "none" => Mode(r) \in {"stub", "live"}
         /\ Busy(r) => Mode(r) \in {"stub", "live"} /\ run[r].status \notin {"completed", "cancelled"}
<1>0. /\ Fine(config[r], run[r], task[r], metrics[r], history[r].room)
      /\ Patrons(r) = DOMAIN task[r] /\ Mode(r) = config[r].mode
  BY OfRun DEF RunFine, Mode
<1>1. run[r].step # "none" => Mode(r) \in {"stub", "live"}
  BY <1>0 DEF Fine, Called
<1>2. CASE run[r].status = "running"
  BY <1>0, <1>1, <1>2 DEF Fine, Staged
<1>3. ASSUME NEW p \in Patrons(r), task[r][p].state = "running" \/ task[r][p].releasing # {}
      PROVE  run[r].step # "none" /\ run[r].status \notin {"completed", "cancelled"}
  <2>1. CASE task[r][p].state = "running"
    <3>1. RunningOf(task[r]) # {}
      BY <1>0, <2>1 DEF RunningOf
    <3>. QED BY <1>0, <3>1 DEF Fine, Staged
  <2>2. CASE task[r][p].releasing # {}
    <3>1. run[r].step = "batch"
      BY <2>2, OfTask
    <3>. QED BY <1>0, <3>1 DEF Fine, Staged
  <2>. QED BY <1>3, <2>1, <2>2
<1>. QED BY <1>1, <1>2, <1>3 DEF Busy

(* What a step of a run leaves in the stock.                               *)
Works(r) ==
  \/ stock' = stock
  \/ /\ Busy(r) /\ Mode(r) = "stub"
     /\ stock' = [stub |-> stock'.stub, live |-> stock.live] /\ stock'.stub \in [Items -> Levels]
  \/ /\ Busy(r) /\ Mode(r) = "live"
     /\ stock' = [stub |-> stock.stub, live |-> stock'.live] /\ stock'.live \in [Items -> Levels]

(* The platform takes an order it has the units for.                       *)
LEMMA AcceptedWorks ==
  ASSUME RunsFine, StockTyped, NEW r \in Runs, NEW p \in Patrons(r), Mode(r) = "live", Busy(r),
         \A i \in Items : stock.live[i] >= QuantityIn(Baskets(r)[p], i), stock' = Accepted(r, p)
  PROVE  Works(r)
<1>1. \A i \in Items : QuantityIn(Baskets(r)[p], i) \in Nat
  BY OfRun, OfStock, Baskets1, AmountEnds
<1>2. \A i \in Items : stock.live[i] \in Levels
  BY DEF StockTyped
<1>3. \A i \in Items : stock.live[i] - QuantityIn(Baskets(r)[p], i) \in Levels
  BY <1>1, <1>2 DEF Levels, NoKey
<1>4. /\ stock' = [stub |-> stock.stub,
                   live |-> [i \in Items |-> stock.live[i] - QuantityIn(Baskets(r)[p], i)]]
  BY DEF Accepted, StockTyped
<1>. QED BY <1>3, <1>4 DEF Works

(* Only a busy run works on its stock, and on no other.                    *)
LEMMA StockSteps ==
  ASSUME RunsFine, StockTyped, NEW r \in Runs, RunStep(r)
  PROVE  Works(r)
<1>0. /\ stock = [stub |-> stock.stub, live |-> stock.live]
      /\ stock.stub \in [Items -> Levels] /\ stock.live \in [Items -> Levels]
      /\ Running(r) = {p \in Patrons(r) : task[r][p].state = "running"}
      /\ Scenario(config[r]) /\ InitialStock(r) = Start(config[r])
      /\ Patrons(r) = DOMAIN config[r].baskets /\ Nat \subseteq Levels
  BY OfRun, OfStock DEF StockTyped, Running, Levels
<1>1. \A i \in Items : Start(config[r])[i] \in Levels /\ Seed[i] \in Levels
  BY <1>0, StartIs
<1>2. CASE stock' = stock
  BY <1>2 DEF Works
<1>3. CASE RefillStub(r)
  <2>1. Busy(r) /\ Mode(r) = "stub"
    BY <1>3 DEF RefillStub, At, Busy
  <2>2. PICK i : stock' \in {stock, [stock EXCEPT !.stub[i] = Start(config[r])[i]]}
    BY <1>0, <1>3 DEF RefillStub
  <2> DEFINE L == [stock.stub EXCEPT ![i] = Start(config[r])[i]]
  <2>3. L \in [Items -> Levels]
    BY <1>0, <1>1
  <2>4. CASE stock' = [stock EXCEPT !.stub[i] = Start(config[r])[i]]
    <3>1. stock' = [stub |-> L, live |-> stock.live]
      BY <1>0, <2>4
    <3> HIDE DEF L
    <3>. QED BY <2>1, <2>3, <3>1 DEF Works
  <2>. QED BY <1>2, <2>2, <2>4
<1>4. CASE RefillLive(r)
  <2>1. Busy(r) /\ Mode(r) = "live" /\ stock' = [stock EXCEPT !.live = Seed]
    BY <1>4 DEF RefillLive, At, Busy
  <2>2. stock' = [stub |-> stock.stub, live |-> Seed] /\ Seed \in [Items -> Levels]
    BY <1>0, <2>1, TwinAssumption
  <2>. QED BY <2>1, <2>2 DEF Works
<1>5. CASE PutOverride(r)
  <2>1. Busy(r) /\ run[r].step = "puts"
    BY <1>5 DEF PutOverride, At, Busy
  <2>2. Mode(r) = "live"
    BY <2>1, OfRun DEF RunFine, Fine, Called, Mode
  <2>3. PICK i \in run[r].puts : stock' = [stock EXCEPT !.live[i] = config[r].overrides[i]]
    BY <1>5 DEF PutOverride
  <2>4. config[r].overrides[i] \in Levels
    BY <1>0, <2>1, <2>3 DEF StockTyped, Scenario
  <2> DEFINE L == [stock.live EXCEPT ![i] = config[r].overrides[i]]
  <2>5. L \in [Items -> Levels] /\ stock' = [stub |-> stock.stub, live |-> L]
    BY <1>0, <2>3, <2>4
  <2> HIDE DEF L
  <2>. QED BY <2>1, <2>2, <2>5 DEF Works
<1>6. ASSUME NEW p \in Patrons(r), Mode(r) = "stub", Busy(r), stock' = Decremented(r, p)
      PROVE  Works(r)
  <2>1. /\ Decremented(r, p).stub \in [Items -> Levels]
        /\ Decremented(r, p) = [stub |-> Decremented(r, p).stub, live |-> stock.live]
    BY DecrementIs
  <2>. QED BY <1>6, <2>1 DEF Works
<1>7. ASSUME NEW p \in Patrons(r), NEW k \in task[r][p].releasing, stock' = Released(r, p, k)
      PROVE  Works(r)
  <2>1. Busy(r) /\ config[r].mode = "stub"
    BY <1>7, OfTask DEF Busy
  <2>2. k \in DOMAIN config[r].baskets[p]
    <3>1. TaskFine(config[r].baskets[p], task[r][p]) /\ Basket(config[r].baskets[p])
      BY <1>0, OfTask, Baskets1
    <3>. QED BY <1>7, <3>1 DEF TaskFine, TaskType, Basket
  <2>3. /\ Released(r, p, k).stub \in [Items -> Levels]
        /\ Released(r, p, k) = [stub |-> Released(r, p, k).stub, live |-> stock.live]
    BY <2>2, LineIs
  <2>. QED BY <1>7, <2>1, <2>3 DEF Works, Mode
<1>8. ASSUME NEW p \in Patrons(r), Reject(r, p) PROVE Works(r)
  <2>1. Busy(r)
    BY <1>0, <1>8 DEF Reject, Busy
  <2>2. \/ stock' = stock
        \/ Mode(r) = "stub" /\ stock' = Decremented(r, p)
        \/ \E k \in task[r][p].releasing : stock' = Released(r, p, k)
        \/ /\ Mode(r) = "live" /\ stock' = Accepted(r, p)
           /\ \A i \in Items : stock.live[i] >= QuantityIn(Baskets(r)[p], i)
    BY <1>8 DEF Reject, Decrementing
  <2>. QED BY <1>2, <1>6, <1>7, <2>1, <2>2, AcceptedWorks
<1>9. ASSUME NEW p \in Patrons(r), DecrementLine(r, p) \/ ReleaseLine(r, p) \/ LiveOrder(r, p)
      PROVE  Works(r)
  <2>1. CASE DecrementLine(r, p)
    <3>1. Mode(r) = "stub" /\ Busy(r) /\ stock' = Decremented(r, p)
      BY <1>0, <2>1 DEF DecrementLine, Decrementing, Ordering, Busy
    <3>. QED BY <1>6, <3>1
  <2>2. CASE ReleaseLine(r, p)
    BY <1>7, <2>2 DEF ReleaseLine
  <2>3. CASE LiveOrder(r, p)
    <3>1. Mode(r) = "live" /\ Busy(r)
      BY <1>0, <2>3 DEF LiveOrder, Ordering, Busy
    <3>2. \/ stock' = stock
          \/ /\ stock' = Accepted(r, p)
             /\ \A i \in Items : stock.live[i] >= QuantityIn(Baskets(r)[p], i)
      BY <2>3 DEF LiveOrder
    <3>. QED BY <1>2, <3>1, <3>2, AcceptedWorks
  <2>. QED BY <1>9, <2>1, <2>2, <2>3
<1>10. ASSUME \/ StartRun(r) \/ CancelRun(r) \/ Poll(r) \/ Tick(r) \/ CallFails(r)
              \/ StartSignups(r) \/ SignupsDone(r) \/ RunBatch(r) \/ BatchDone(r) \/ End(r)
              \/ \E p \in Patrons(r) : SignUp(r, p)
       PROVE  stock' = stock
  BY <1>10 DEF StartRun, CancelRun, Poll, Tick, CallFails, StartSignups, SignupsDone, RunBatch,
     BatchDone, End, SignUp
<1>. QED BY <1>2, <1>3, <1>4, <1>5, <1>8, <1>9, <1>10 DEF RunStep, Progress

(* What a run has to PUT is an override, to the end.                       *)
LEMMA PutSteps ==
  ASSUME RunsFine, StockTyped, NEW r \in Runs, RunStep(r), run'[r].step = "puts"
  PROVE  run'[r].puts \subseteq DOMAIN config[r].overrides
<1>0. DOMAIN run = Runs /\ DOMAIN run[r] = RunFields
  BY OfRun DEF RunsFine
<1>1. CASE run'[r].step = run[r].step /\ run'[r].puts \subseteq run[r].puts
  BY <1>1 DEF StockTyped
<1>2. CASE RefillLive(r)
  BY <1>0, <1>2 DEF RefillLive, RunFields
<1>3. CASE PutOverride(r)
  BY <1>0, <1>1, <1>3 DEF PutOverride, RunFields
<1>4. CASE run' = run
  BY <1>1, <1>4
<1>5. CASE Fail(r)
  BY <1>0, <1>1, <1>5 DEF Fail, RunFields
<1>6. CASE \E code \in {201, 409, 500}, p \in Patrons(r) : Record(r, p, code)
  BY <1>0, <1>1, <1>6 DEF Record, RunFields
<1>7. CASE StartRun(r)
  <2>1. run[r].step = "none" /\ run'[r].step \in {"refill", run[r].step}
    <3>1. run[r].step = "none"
      BY <1>7, OfRun DEF StartRun, RunFine, Fine, Staged
    <3>. QED BY <1>0, <1>7, <3>1 DEF StartRun, RunFields
  <2>. QED BY <2>1
<1>8. CASE RefillStub(r)
  <2>1. PICK i \in run[r].puts :
          run' = [run EXCEPT ![r].puts = @ \ {i},
                             ![r].step = IF run[r].puts = {i} THEN "schedule" ELSE @]
    BY <1>8 DEF RefillStub
  <2>2. run'[r].step \in {"schedule", "refill"}
    BY <1>0, <1>8, <2>1 DEF RefillStub, At, RunFields
  <2>. QED BY <2>2
<1>9. CASE StartSignups(r) \/ SignupsDone(r) \/ RunBatch(r) \/ BatchDone(r)
  BY <1>0, <1>9 DEF StartSignups, SignupsDone, RunBatch, BatchDone, RunFields
<1>10. CASE End(r) \/ CancelRun(r)
  BY <1>0, <1>1, <1>10 DEF End, CancelRun, RunFields
<1>11. CASE \E p \in Patrons(r) : DecrementLine(r, p) \/ ReleaseLine(r, p) \/ LiveOrder(r, p)
  <2>1. run' = run \/ \E code \in {201, 409, 500}, p \in Patrons(r) : Record(r, p, code)
    BY <1>11 DEF DecrementLine, ReleaseLine, LiveOrder
  <2>. QED BY <1>4, <1>6, <2>1
<1>12. CASE CallFails(r) \/ \E p \in Patrons(r) : Reject(r, p)
  <2>1. run' = run \/ Fail(r)
    BY <1>12 DEF CallFails, Reject
  <2>. QED BY <1>4, <1>5, <2>1
<1>13. CASE Poll(r) \/ Tick(r) \/ \E p \in Patrons(r) : SignUp(r, p)
  BY <1>4, <1>13 DEF Poll, Tick, SignUp
<1>. QED BY <1>2, <1>3, <1>7, <1>8, <1>9, <1>10, <1>11, <1>12, <1>13 DEF RunStep, Progress

(* What the collector last read of the stock, and that only a run polls.   *)
LevelsFine(r) ==
  /\ metrics[r].polling => run[r].step # "none"
  /\ metrics[r].levels = <<>> \/ metrics[r].levels \in [Items -> Nat]

(* The collector reads numbers.                                            *)
LEMMA LevelSteps ==
  ASSUME RunsFine, StockTyped, NEW r \in Runs, LevelsFine(r), RunStep(r)
  PROVE  LevelsFine(r)'
<1>0. /\ DOMAIN run = Runs /\ DOMAIN run[r] = RunFields
      /\ DOMAIN metrics = Runs /\ DOMAIN metrics[r] = MetricFields
      /\ Fine(config[r], run[r], task[r], metrics[r], history[r].room)
  BY OfRun DEF RunsFine, RunFine
<1>1. CASE /\ metrics'[r].levels = metrics[r].levels
           /\ metrics'[r].polling => metrics[r].polling \/ run'[r].step # "none"
           /\ run'[r].step = "none" => run[r].step = "none"
  BY <1>1 DEF LevelsFine
<1>2. CASE Poll(r) \/ Tick(r)
  <2>1. metrics[r].polling /\ run' = run
    BY <1>2 DEF Poll, Tick
  <2>2. PICK m : metrics' = [metrics EXCEPT ![r] = m]
                 /\ m.levels \in {metrics[r].levels, Readable(stock[Mode(r)])}
    BY <1>2, LookIs
  <2>3. metrics'[r].levels \in {metrics[r].levels, Readable(stock[Mode(r)])}
    BY <1>0, <2>2
  <2>4. Mode(r) \in {"stub", "live"}
    BY <2>1, BusyIs DEF LevelsFine
  <2>5. Readable(stock[Mode(r)]) \in [Items -> Nat]
    BY <2>4 DEF Readable, StockTyped, Levels, NoKey
  <2>6. metrics'[r].levels = <<>> \/ metrics'[r].levels \in [Items -> Nat]
    BY <2>3, <2>5 DEF LevelsFine
  <2>7. run'[r].step # "none"
    BY <2>1 DEF LevelsFine
  <2>. QED BY <2>6, <2>7 DEF LevelsFine
<1>3. CASE StartRun(r)
  <2>1. run[r].step = "none"
    BY <1>0, <1>3 DEF StartRun, Fine, Staged
  <2>2. /\ metrics'[r].levels = metrics[r].levels
        /\ metrics'[r].polling => metrics[r].polling \/ run'[r].step # "none"
    BY <1>0, <1>3 DEF StartRun, RunFields, MetricFields
  <2>. QED BY <1>1, <2>1, <2>2
<1>4. CASE RefillStub(r)
  <2>1. PICK i \in run[r].puts :
          /\ run' = [run EXCEPT ![r].puts = @ \ {i},
                                ![r].step = IF run[r].puts = {i} THEN "schedule" ELSE @]
          /\ metrics' = [metrics EXCEPT ![r].polling = (run[r].puts = {i})]
    BY <1>4 DEF RefillStub
  <2>2. run'[r].step \in {"schedule", "refill"}
    BY <1>0, <1>4, <2>1 DEF RefillStub, At, RunFields
  <2>3. metrics'[r].levels = metrics[r].levels
    BY <1>0, <2>1 DEF MetricFields
  <2>. QED BY <1>1, <2>2, <2>3
<1>5. CASE Fail(r)
  <2>1. /\ metrics'[r].levels = metrics[r].levels /\ ~metrics'[r].polling
        /\ run'[r].step = run[r].step
    BY <1>0, <1>5 DEF Fail, RunFields, MetricFields
  <2>. QED BY <1>1, <2>1
<1>6. CASE \E code \in {201, 409, 500}, p \in Patrons(r) : Record(r, p, code)
  <2>1. /\ metrics'[r].levels = metrics[r].levels /\ metrics'[r].polling = metrics[r].polling
        /\ run'[r].step = run[r].step
    BY <1>0, <1>6 DEF Record, RunFields, MetricFields
  <2>. QED BY <1>1, <2>1
<1>7. CASE UNCHANGED <<run, metrics>>
  BY <1>1, <1>7
<1>8. CASE RefillLive(r) \/ PutOverride(r) \/ StartSignups(r) \/ SignupsDone(r) \/ RunBatch(r)
           \/ BatchDone(r) \/ CancelRun(r)
  <2>1. metrics' = metrics
    BY <1>8 DEF RefillLive, PutOverride, StartSignups, SignupsDone, RunBatch, BatchDone, CancelRun
  <2>2. run'[r].step = "none" => run[r].step = "none"
    BY <1>0, <1>8 DEF RefillLive, PutOverride, StartSignups, SignupsDone, RunBatch, BatchDone,
       CancelRun, RunFields
  <2>. QED BY <1>1, <2>1, <2>2
<1>9. CASE End(r)
  <2>1. /\ metrics'[r].levels = metrics[r].levels /\ ~metrics'[r].polling
    BY <1>0, <1>9 DEF End, MetricFields
  <2>2. PICK status, report : run' = [run EXCEPT ![r].status = status, ![r].report = report]
    BY <1>9 DEF End
  <2>3. run'[r].step = run[r].step
    BY <1>0, <2>2 DEF RunFields
  <2>. QED BY <1>1, <2>1, <2>3
<1>10. CASE \E p \in Patrons(r) : DecrementLine(r, p) \/ ReleaseLine(r, p) \/ LiveOrder(r, p)
  <2>1. \/ UNCHANGED <<run, metrics>>
        \/ \E code \in {201, 409, 500}, p \in Patrons(r) : Record(r, p, code)
    BY <1>10 DEF DecrementLine, ReleaseLine, LiveOrder
  <2>. QED BY <1>6, <1>7, <2>1
<1>11. CASE CallFails(r) \/ \E p \in Patrons(r) : Reject(r, p)
  <2>1. UNCHANGED <<run, metrics>> \/ Fail(r)
    BY <1>11 DEF CallFails, Reject
  <2>. QED BY <1>5, <1>7, <2>1
<1>12. CASE \E p \in Patrons(r) : SignUp(r, p)
  BY <1>7, <1>12 DEF SignUp
<1>. QED BY <1>2, <1>3, <1>4, <1>8, <1>9, <1>10, <1>11, <1>12 DEF RunStep, Progress

(* A run that is not busy is looked at, or starts.                         *)
LEMMA IdleSteps ==
  ASSUME RunsFine, NEW r \in Runs, RunStep(r), ~Busy(r)
  PROVE  StartRun(r) \/ Poll(r) \/ Tick(r)
<1>0. /\ run[r].status # "running"
      /\ \A p \in Patrons(r) : p \notin Running(r) /\ task[r][p].releasing = {}
  BY DEF Busy, Running
<1>1. ~CancelRun(r) /\ ~CallFails(r) /\ ~RefillStub(r) /\ ~RefillLive(r) /\ ~PutOverride(r)
  BY <1>0 DEF CancelRun, CallFails, Over, At, RefillStub, RefillLive, PutOverride
<1>2. ~StartSignups(r) /\ ~SignupsDone(r) /\ ~RunBatch(r) /\ ~BatchDone(r) /\ ~End(r)
  BY <1>0 DEF StartSignups, SignupsDone, RunBatch, BatchDone, End, Over, At
<1>3. ASSUME NEW p \in Patrons(r)
      PROVE  /\ ~Reject(r, p) /\ ~SignUp(r, p) /\ ~DecrementLine(r, p) /\ ~ReleaseLine(r, p)
             /\ ~LiveOrder(r, p)
  BY <1>0 DEF Reject, SignUp, DecrementLine, Decrementing, Ordering, ReleaseLine, LiveOrder
<1>. QED BY <1>1, <1>2, <1>3 DEF RunStep, Progress

(* Only its last step gives a run its report.                              *)
LEMMA OnlyEndEnds ==
  ASSUME RunsFine, NEW r \in Runs, RunStep(r), run[r].status \notin {"completed", "cancelled"},
         run'[r].status \in {"completed", "cancelled"}
  PROVE  End(r)
<1>0. DOMAIN run = Runs /\ DOMAIN run[r] = RunFields
  BY OfRun DEF RunsFine
<1>1. run' # run
  OBVIOUS
<1>2. ~StartRun(r) /\ ~CancelRun(r) /\ ~Poll(r) /\ ~Tick(r) /\ ~Fail(r)
  BY <1>0, <1>1 DEF StartRun, CancelRun, Poll, Tick, Fail, RunFields
<1>3. ~CallFails(r) /\ \A p \in Patrons(r) : ~Reject(r, p)
  BY <1>1, <1>2 DEF CallFails, Reject
<1>4. ~RefillStub(r)
  <2> SUFFICES ASSUME RefillStub(r) PROVE FALSE
    OBVIOUS
  <2>1. PICK i \in run[r].puts :
          run' = [run EXCEPT ![r].puts = @ \ {i},
                             ![r].step = IF run[r].puts = {i} THEN "schedule" ELSE @]
    BY DEF RefillStub
  <2>2. run'[r].status = run[r].status
    BY <1>0, <2>1 DEF RunFields
  <2>. QED BY <2>2
<1>5. ~RefillLive(r) /\ ~PutOverride(r) /\ ~StartSignups(r) /\ ~SignupsDone(r)
  BY <1>0 DEF RefillLive, PutOverride, StartSignups, SignupsDone, RunFields
<1>6. ~RunBatch(r) /\ ~BatchDone(r)
  BY <1>0 DEF RunBatch, BatchDone, RunFields
<1>7. ASSUME NEW p \in Patrons(r)
      PROVE  ~SignUp(r, p) /\ ~DecrementLine(r, p) /\ ~ReleaseLine(r, p) /\ ~LiveOrder(r, p)
  BY <1>1, OrderStays DEF SignUp
<1>. QED BY <1>2, <1>3, <1>4, <1>5, <1>6, <1>7 DEF RunStep, Progress

(* A run that ended, and one whose stock nothing else touched.             *)
IsOver(r) == run[r].status \in {"completed", "cancelled"}
Undisturbed(r) == history[r].alone /\ history[r].spared

(* What the audit promises of a run.                                       *)
Exact(r) ==
  /\ run[r].report.oversold = {}
  /\ Mode(r) = "stub" =>
       \A i \in Items : InitialStock(r)[i] - history[r].final[i]
                          = SoldOf(metrics[r].outcomes, Baskets(r), i)

(* The inductive invariant of the audit.                                   *)
Audited(r) ==
  /\ LevelsFine(r)
  /\ Busy(r) /\ history[r].alone => Rivals(r) = {}
  /\ Busy(r) /\ Undisturbed(r) => AfloatNow(r)
  /\ IsOver(r) /\ Undisturbed(r) => Exact(r)
AuditInv == RunsFine /\ StockTyped /\ \A r \in Runs : Audited(r)

(* What is recorded of a run, for the audit.                               *)
LEMMA ObserveIs ==
  ASSUME Observe, NEW r \in Runs
  PROVE  /\ history'[r].alone => history[r].alone /\ (Busy(r)' => Rivals(r)' = {})
         /\ history'[r].spared => history[r].spared /\ ~(failures' # failures /\ Busy(r))
         /\ history'[r].final = IF run'[r].report # run[r].report THEN stock[Mode(r)]
                                ELSE history[r].final
BY DEF Observe

(* A run that ends has its books balanced, and its report says so.         *)
LEMMA EndExact ==
  ASSUME RunsFine, StockTyped, NEW r \in Runs, LevelsFine(r), AfloatNow(r), Observe, End(r)
  PROVE  Exact(r)'
<1>0. /\ Scenario(config[r]) /\ Mode(r) = config[r].mode /\ Baskets(r) = config[r].baskets
      /\ InitialStock(r) = Start(config[r]) /\ TasksFine(config[r], task[r])
      /\ Fine(config[r], run[r], task[r], metrics[r], history[r].room)
      /\ DOMAIN run = Runs /\ DOMAIN run[r] = RunFields
      /\ DOMAIN metrics = Runs /\ DOMAIN metrics[r] = MetricFields
      /\ metrics[r].outcomes \in Seq(Outcome(config[r]))
  BY OfRun, OfStock DEF RunsFine, RunFine
<1> DEFINE series == Append(metrics[r].series, Snapshot(metrics[r]))
           report == Report(Len(Baskets(r)), metrics[r].outcomes, Baskets(r),
                            InitialStock(r), FinalStock(r), series)
           sold(i) == SoldOf(metrics[r].outcomes, Baskets(r), i)
<1>1. /\ run[r].status = "running" /\ run[r].step = "schedule"
      /\ metrics' = [metrics EXCEPT ![r].series = series, ![r].polling = FALSE]
      /\ run' = [run EXCEPT ![r].status = IF run[r].aborted THEN "cancelled" ELSE "completed",
                            ![r].report = report]
      /\ config' = config
  BY DEF End, Over, At
<1>2. /\ report.oversold = AuditOversell(InitialStock(r), metrics[r].outcomes, Baskets(r), FinalStock(r))
      /\ "patrons" \in DOMAIN report
  BY ReportSays
<1>3. Mode(r) \in {"stub", "live"}
  BY <1>1, BusyIs
<1>4. \A i \in Items : stock[Mode(r)][i] \in Nat /\ stock[Mode(r)][i] + sold(i) = Start(config[r])[i]
  <2>1. RunningOf(task[r]) = {}
    BY <1>0, <1>1 DEF Fine, Staged
  <2>2. \A p \in DOMAIN task[r] : Free(task[r][p])
    BY <1>0, <1>1, <2>1, NothingReleased
  <2>3. Balanced(config[r], task[r], metrics[r], stock[Mode(r)])
    BY <1>1 DEF AfloatNow, Afloat
  <2> SUFFICES ASSUME NEW i \in Items
               PROVE  stock[Mode(r)][i] \in Nat
                      /\ stock[Mode(r)][i] + sold(i) = Start(config[r])[i]
    OBVIOUS
  <2>4. Out(config[r], task[r], i) = 0
    BY <1>0, <2>2, OutNothing
  <2>. QED BY <1>0, <2>3, <2>4 DEF Balanced
<1>5. ASSUME NEW i \in Items
      PROVE  sold(i) \in Int /\ sold(i) <= Start(config[r])[i] /\ Start(config[r])[i] \in Nat
  <2>1. Start(config[r])[i] \in Nat
    BY <1>0, StartIs
  <2>2. sold(i) \in Nat
    <3>1. PICK s \in Seq(Outcome(config[r])) : s = metrics[r].outcomes
      BY <1>0
    <3>2. SoldOf(s, config[r].baskets, i) \in Nat \/ Outcome(config[r]) = {}
      <4>1. \A o \in Outcome(config[r]) : SoldOf(s, config[r].baskets, i) \in Nat
        BY <1>0, SoldAppend
      <4>. QED BY <4>1
    <3>3. Outcome(config[r]) = {} => s = <<>>
      <4> SUFFICES ASSUME Outcome(config[r]) = {} PROVE s = <<>>
        OBVIOUS
      <4>1. Len(s) \in Nat /\ DOMAIN s = 1..Len(s)
        BY LenProperties
      <4>2. \A n \in 1..Len(s) : FALSE
        BY <4>1, ElementOfSeq
      <4>3. Len(s) = 0
        BY <4>1, <4>2
      <4>. QED BY <4>3, EmptySeq
    <3>4. SoldOf(<<>>, config[r].baskets, i) = 0
      BY NothingSold
    <3>. QED BY <1>0, <3>1, <3>2, <3>3, <3>4
  <2>3. stock[Mode(r)][i] \in Nat /\ stock[Mode(r)][i] + sold(i) = Start(config[r])[i]
    BY <1>4
  <2> HIDE DEF sold
  <2>. QED BY <2>1, <2>2, <2>3
<1>6. ASSUME NEW i \in Items PROVE LevelOf(FinalStock(r), i) \in Nat
  <2>1. Readable(stock.stub) \in [Items -> Nat]
    BY DEF Readable, StockTyped, Levels, NoKey
  <2>2. FinalStock(r) = <<>> \/ FinalStock(r) \in [Items -> Nat]
    BY <2>1 DEF FinalStock, LevelsFine
  <2>3. FinalStock(r) = <<>> => LevelOf(FinalStock(r), i) = 0
    <3>1. DOMAIN <<>> = {}
      BY EmptySeq
    <3>. QED BY <3>1 DEF LevelOf
  <2>4. FinalStock(r) \in [Items -> Nat] => LevelOf(FinalStock(r), i) \in Nat
    BY DEF LevelOf
  <2>. QED BY <2>2, <2>3, <2>4
<1>7. report.oversold = {}
  <2>1. DOMAIN InitialStock(r) = Items
    BY DEF InitialStock
  <2>2. ASSUME NEW i \in Items
        PROVE  ~(sold(i) > InitialStock(r)[i])
               /\ ~(InitialStock(r)[i] - LevelOf(FinalStock(r), i) > InitialStock(r)[i])
    <3> HIDE DEF sold
    <3>. QED BY <1>0, <1>5, <1>6
  <2>3. AuditOversell(InitialStock(r), metrics[r].outcomes, Baskets(r), FinalStock(r)) = {}
    BY <2>1, <2>2 DEF AuditOversell
  <2>. QED BY <1>2, <2>3
<1>8. report # <<>>
  <2>1. DOMAIN <<>> = {}
    BY EmptySeq
  <2> HIDE DEF report
  <2>. QED BY <1>2, <2>1
<1> HIDE DEF series, report
<1>9. run'[r].report = report /\ metrics'[r].outcomes = metrics[r].outcomes
  BY <1>0, <1>1 DEF RunFields, MetricFields
<1>10. run[r].report = <<>>
  BY <1>1, NoReportYet
<1>11. history'[r].final = stock[Mode(r)]
  BY <1>8, <1>9, <1>10, ObserveIs
<1>12. /\ Mode(r)' = Mode(r) /\ InitialStock(r)' = InitialStock(r) /\ Baskets(r)' = Baskets(r)
  BY <1>1 DEF Mode, InitialStock, Baskets
<1>13. ASSUME NEW i \in Items
       PROVE  InitialStock(r)[i] - history'[r].final[i] = SoldOf(metrics'[r].outcomes, Baskets(r), i)
  <2>1. sold(i) \in Int /\ stock[Mode(r)][i] \in Nat /\ stock[Mode(r)][i] + sold(i) = InitialStock(r)[i]
    BY <1>0, <1>4, <1>5
  <2>2. SoldOf(metrics'[r].outcomes, Baskets(r), i) = sold(i)
    BY <1>9
  <2> HIDE DEF sold
  <2>. QED BY <1>11, <2>1, <2>2
<1>. QED BY <1>7, <1>9, <1>12, <1>13 DEF Exact

(* A run that did not step is as busy, and as exact, as it was.            *)
LEMMA StillThere ==
  ASSUME RunsFine, NEW r \in Runs, config' = config, run'[r] = run[r], task'[r] = task[r]
  PROVE  /\ Busy(r)' = Busy(r) /\ Mode(r)' = Mode(r) /\ InitialStock(r)' = InitialStock(r)
         /\ Baskets(r)' = Baskets(r) /\ IsOver(r)' = IsOver(r)
BY DEF Busy, Mode, InitialStock, Baskets, Patrons, IsOver

(* The verdict on a run stands.                                            *)
LEMMA VerdictStands ==
  ASSUME RunsFine, Observe, NEW r \in Runs, Exact(r), config' = config, run'[r] = run[r],
         task'[r] = task[r], metrics'[r].outcomes = metrics[r].outcomes
  PROVE  Exact(r)'
<1>1. history'[r].final = history[r].final
  BY ObserveIs
<1>2. Mode(r)' = Mode(r) /\ InitialStock(r)' = InitialStock(r) /\ Baskets(r)' = Baskets(r)
  BY StillThere
<1>. QED BY <1>1, <1>2 DEF Exact

(* A step of the run itself.                                               *)
LEMMA OwnAudit ==
  ASSUME RunsFine, StockTyped, Observe, NEW r \in Runs, Audited(r), RunStep(r)
  PROVE  Audited(r)'
<1>0. /\ config' = config /\ Mode(r)' = Mode(r) /\ config'[r] = config[r]
  BY RunSteps DEF OnlyOf, Mode
<1>1. LevelsFine(r)'
  BY LevelSteps DEF Audited
<1>2. Busy(r)' /\ history'[r].alone => Rivals(r)' = {}
  BY ObserveIs
<1>3. ASSUME Busy(r)', Undisturbed(r)' PROVE AfloatNow(r)'
  <2>1. Undisturbed(r) /\ ~(failures' # failures /\ Busy(r))
    BY <1>3, ObserveIs DEF Undisturbed
  <2>2. CASE Busy(r)
    <3>1. AfloatNow(r) /\ failures' = failures
      BY <2>1, <2>2 DEF Audited
    <3>2. run[r].status # "absent"
      <4>1. run[r].status = "absent" => \A p \in DOMAIN task[r] : task[r][p].state = "waiting"
                                                                  /\ task[r][p].releasing = {}
        BY OfRun, OfTask DEF RunFine, Fine, Staged
      <4>. QED BY <2>2, <4>1, OfRun DEF Busy
    <3>3. AfloatAfter(r)
      BY <3>1, <3>2, OwnSteps
    <3>. QED BY <1>0, <3>3 DEF AfloatAfter, AfloatNow
  <2>3. CASE ~Busy(r)
    <3>1. CASE StartRun(r)
      <4>1. run'[r].status = "running"
        <5>1. task' = task /\ \A p \in Patrons(r) : task[r][p].state # "running"
                                                    /\ task[r][p].releasing = {}
          BY <2>3, <3>1 DEF StartRun, Busy
        <5>. QED BY <1>0, <1>3, <5>1 DEF Busy, Patrons, Baskets
      <4>2. AfloatAfter(r)
        BY <3>1, <4>1, StartKeeps
      <4>. QED BY <1>0, <4>2 DEF AfloatAfter, AfloatNow
    <3>2. CASE Poll(r) \/ Tick(r)
      <4>1. UNCHANGED <<config, run, task>>
        BY <3>2 DEF Poll, Tick
      <4>2. Busy(r)' = Busy(r)
        BY <4>1, StillThere
      <4>. QED BY <1>3, <2>3, <4>2
    <3>. QED BY <2>3, <3>1, <3>2, IdleSteps
  <2>. QED BY <2>2, <2>3
<1>4. ASSUME IsOver(r)', Undisturbed(r)' PROVE Exact(r)'
  <2>1. Undisturbed(r)
    BY <1>4, ObserveIs DEF Undisturbed
  <2>2. CASE IsOver(r)
    <3>1. ~Busy(r) /\ Exact(r) /\ ~StartRun(r)
      BY <2>1, <2>2, BusyIs DEF IsOver, Audited, StartRun
    <3>2. Poll(r) \/ Tick(r)
      BY <3>1, IdleSteps
    <3>3. UNCHANGED <<config, run, task>>
      BY <3>2 DEF Poll, Tick
    <3>4. metrics'[r].outcomes = metrics[r].outcomes
      <4>1. DOMAIN metrics = Runs
        BY DEF RunsFine
      <4>. QED BY <3>2, <4>1, LookIs
    <3>. QED BY <3>1, <3>3, <3>4, VerdictStands
  <2>3. CASE ~IsOver(r)
    <3>1. End(r)
      BY <1>4, <2>3, OnlyEndEnds DEF IsOver
    <3>2. Busy(r) /\ LevelsFine(r)
      BY <3>1 DEF End, Over, At, Busy, Audited
    <3>3. AfloatNow(r)
      BY <2>1, <3>2 DEF Audited
    <3>. QED BY <3>1, <3>2, <3>3, EndExact
  <2>. QED BY <2>2, <2>3
<1>. QED BY <1>1, <1>2, <1>3, <1>4 DEF Audited

(* A step that leaves the run and, if it is busy, its stock.               *)
LEMMA OtherAudit ==
  ASSUME RunsFine, StockTyped, Observe, NEW r \in Runs, Audited(r), config' = config,
         run'[r] = run[r], task'[r] = task[r], metrics'[r] = metrics[r],
         Busy(r) /\ Rivals(r) = {} /\ failures' = failures => stock'[Mode(r)] = stock[Mode(r)]
  PROVE  Audited(r)'
<1>1. Busy(r)' = Busy(r) /\ Mode(r)' = Mode(r) /\ IsOver(r)' = IsOver(r)
  BY StillThere
<1>2. LevelsFine(r)'
  BY DEF Audited, LevelsFine
<1>3. Busy(r)' /\ history'[r].alone => Rivals(r)' = {}
  BY ObserveIs
<1>4. ASSUME Busy(r)', Undisturbed(r)' PROVE AfloatNow(r)'
  <2>1. Undisturbed(r) /\ Busy(r) /\ failures' = failures
    BY <1>1, <1>4, ObserveIs DEF Undisturbed
  <2>2. AfloatNow(r) /\ Rivals(r) = {}
    BY <2>1 DEF Audited, Undisturbed
  <2>3. stock'[Mode(r)] = stock[Mode(r)]
    BY <2>1, <2>2
  <2>. QED BY <1>1, <2>2, <2>3 DEF AfloatNow
<1>5. ASSUME IsOver(r)', Undisturbed(r)' PROVE Exact(r)'
  <2>1. Undisturbed(r) /\ IsOver(r)
    BY <1>1, <1>5, ObserveIs DEF Undisturbed
  <2>2. Exact(r)
    BY <2>1 DEF Audited
  <2>. QED BY <2>2, VerdictStands
<1>. QED BY <1>2, <1>3, <1>4, <1>5 DEF Audited

(* A step leaves the stock a stock.                                        *)
LEMMA TypedAfter ==
  ASSUME RunsFine, StockTyped, Next
  PROVE  StockTyped'
<1>1. failures' \in Nat
  <2>1. failures \in Nat
    BY DEF StockTyped
  <2>2. ASSUME failures' = failures \/ Failure PROVE failures' \in Nat
    BY <2>1, <2>2 DEF Failure
  <2>3. CASE OthersTrade
    BY <2>2, <2>3 DEF OthersTrade
  <2>4. ASSUME NEW q \in Runs, RunStep(q) PROVE failures' = failures \/ Failure
    <3>1. CASE StartRun(q) \/ CancelRun(q) \/ Poll(q) \/ Tick(q)
      BY <3>1 DEF StartRun, CancelRun, Poll, Tick
    <3>2. CASE CallFails(q) \/ \E p \in Patrons(q) : Reject(q, p)
      BY <3>2 DEF CallFails, Reject
    <3>3. CASE Progress(q)
      <4>1. CASE RefillStub(q) \/ RefillLive(q) \/ PutOverride(q) \/ StartSignups(q) \/ SignupsDone(q)
        BY <4>1 DEF RefillStub, RefillLive, PutOverride, StartSignups, SignupsDone
      <4>2. CASE RunBatch(q) \/ BatchDone(q) \/ End(q) \/ \E p \in Patrons(q) : SignUp(q, p)
        BY <4>2 DEF RunBatch, BatchDone, End, SignUp
      <4>3. CASE \E p \in Patrons(q) : DecrementLine(q, p) \/ ReleaseLine(q, p) \/ LiveOrder(q, p)
        BY <4>3 DEF DecrementLine, ReleaseLine, LiveOrder
      <4>. QED BY <3>3, <4>1, <4>2, <4>3 DEF Progress
    <3>. QED BY <2>4, <3>1, <3>2, <3>3 DEF RunStep
  <2>. QED BY <2>2, <2>3, <2>4, WhoSteps
<1>2. CASE OthersTrade
  <2>0. PICK i \in Items :
          \E level \in {0, Seed[i]} \ {stock.live[i]} :
            stock' = [stock EXCEPT !.live[i] = level]
    BY <1>2 DEF OthersTrade
  <2>1. PICK level \in {0, Seed[i]} : stock' = [stock EXCEPT !.live[i] = level]
    BY <2>0
  <2>2. level \in Levels
    BY <2>1, TwinAssumption DEF Levels
  <2> DEFINE L == [stock.live EXCEPT ![i] = level]
  <2>3. L \in [Items -> Levels] /\ stock' = [stub |-> stock.stub, live |-> L]
    BY <2>1, <2>2 DEF StockTyped
  <2>4. run' = run /\ config' = config
    BY <1>2 DEF OthersTrade
  <2> HIDE DEF L
  <2>. QED BY <1>1, <2>3, <2>4 DEF StockTyped
<1>3. ASSUME NEW q \in Runs, RunStep(q) PROVE StockTyped'
  <2>1. Works(q) /\ OnlyOf(q)
    BY <1>3, StockSteps, RunSteps
  <2>2. /\ stock' = [stub |-> stock'.stub, live |-> stock'.live]
        /\ stock'.stub \in [Items -> Levels] /\ stock'.live \in [Items -> Levels]
    BY <2>1 DEF Works, StockTyped
  <2>3. ASSUME NEW r \in Runs, run'[r].step = "puts"
        PROVE  run'[r].puts \subseteq DOMAIN config'[r].overrides
    <3>1. CASE r = q
      BY <1>3, <2>1, <2>3, <3>1, PutSteps DEF OnlyOf
    <3>2. CASE r # q
      BY <2>1, <2>3, <3>2 DEF OnlyOf, StockTyped
    <3>. QED BY <3>1, <3>2
  <2>. QED BY <1>1, <2>2, <2>3 DEF StockTyped
<1>. QED BY <1>2, <1>3, WhoSteps

(* Every step keeps the books.                                             *)
LEMMA StepAudited ==
  ASSUME AuditInv, Next
  PROVE  AuditInv'
<1>0. RunsFine /\ StockTyped /\ Observe /\ \A r \in Runs : Audited(r)
  BY WhoSteps DEF AuditInv
<1>1. RunsFine' /\ StockTyped'
  BY <1>0, StepFine, TypedAfter
<1>2. CASE OthersTrade
  <2>1. UNCHANGED <<config, run, task, metrics>> /\ failures' # failures
    BY <1>0, <1>2 DEF OthersTrade, Failure, StockTyped
  <2>2. \A r \in Runs : Audited(r)'
    BY <1>0, <2>1, OtherAudit
  <2>. QED BY <1>1, <2>2 DEF AuditInv
<1>3. ASSUME NEW q \in Runs, RunStep(q) PROVE AuditInv'
  <2>1. Works(q) /\ OnlyOf(q)
    BY <1>0, <1>3, StockSteps, RunSteps
  <2>2. ASSUME NEW r \in Runs \ {q} PROVE Audited(r)'
    <3>1. /\ config' = config /\ run'[r] = run[r] /\ task'[r] = task[r] /\ metrics'[r] = metrics[r]
      BY <2>1, <2>2 DEF OnlyOf
    <3>2. ASSUME Busy(r), Rivals(r) = {} PROVE stock'[Mode(r)] = stock[Mode(r)]
      <4>1. Mode(r) \in {"stub", "live"}
        BY <1>0, <3>2, BusyIs
      <4>2. ~(Busy(q) /\ Mode(q) = Mode(r))
        BY <2>2, <3>2 DEF Rivals
      <4>. QED BY <2>1, <4>1, <4>2 DEF Works
    <3>. QED BY <1>0, <3>1, <3>2, OtherAudit
  <2>3. Audited(q)'
    BY <1>0, <1>3, OwnAudit
  <2>. QED BY <1>1, <2>2, <2>3 DEF AuditInv
<1>. QED BY <1>2, <1>3, WhoSteps

(* Before anything has started, nothing is out of balance.                 *)
LEMMA InitAudited == Init => AuditInv
<1> SUFFICES ASSUME Init PROVE AuditInv
  OBVIOUS
<1>1. RunsFine
  BY InitFine
<1>2. \A r \in Runs : run[r].step = "none" /\ run[r].status = "absent"
  BY DEF Init
<1>3. StockTyped
  <2>1. failures = 0 /\ stock = [stub |-> LeftOver, live |-> Seed]
    BY DEF Init
  <2>. QED BY <1>2, <2>1, TwinAssumption DEF StockTyped, Levels
<1>4. ASSUME NEW r \in Runs PROVE Audited(r)
  <2>1. metrics[r].levels = <<>> /\ ~metrics[r].polling
    BY DEF Init
  <2>2. \A p \in DOMAIN task[r] : task[r][p].state # "running" /\ task[r][p].releasing = {}
    <3>1. \A p \in DOMAIN task[r] : task[r][p].state # "running"
      BY <1>1, <1>2, OfRun DEF RunFine, Fine, Staged, RunningOf
    <3>2. \A p \in DOMAIN task[r] : task[r][p].releasing = {}
      BY <1>1, <1>2, OfRun, OfTask
    <3>. QED BY <3>1, <3>2
  <2>3. ~Busy(r) /\ ~IsOver(r)
    BY <1>1, <1>2, <2>2, OfRun DEF Busy, IsOver
  <2>. QED BY <2>1, <2>3 DEF Audited, LevelsFine
<1>. QED BY <1>1, <1>3, <1>4 DEF AuditInv

(* The audit of a run that had its stock to itself and lost no call is exact: *)
(* it reports no oversell, and what a stub run has lost is what it sold.   *)
THEOREM AuditCanBeReliedOn == Spec => []AuditExact
<1>1. AuditInv /\ [Next]_vars => AuditInv'
  <2> SUFFICES ASSUME AuditInv, [Next]_vars PROVE AuditInv'
    OBVIOUS
  <2>1. CASE vars' = vars
    <3>1. RunsFine'
      BY StepFine DEF AuditInv
    <3>2. StockTyped'
      BY <2>1 DEF AuditInv, StockTyped, vars, twin
    <3>3. \A r \in Runs : Audited(r)'
      BY <2>1 DEF AuditInv, Audited, LevelsFine, Busy, Rivals, Undisturbed, AfloatNow, IsOver, Exact,
         vars, twin, Mode, Patrons, Baskets, InitialStock
    <3>. QED BY <3>1, <3>2, <3>3 DEF AuditInv
  <2>. QED BY <2>1, StepAudited
<1>2. AuditInv => AuditExact
  BY DEF AuditInv, Audited, AuditExact, IsOver, Undisturbed, Exact
<1>. QED BY <1>1, <1>2, InitAudited, PTL DEF Spec

------------------------------------------------------------------------------
(* The report: snapshots of the outcomes, exhaustion and lag.              *)

(* A nonempty set of numbers with a bound has a greatest one.              *)
LEMMA MaxIn ==
  ASSUME NEW b \in Nat, NEW S \in SUBSET (0..b), S # {}
  PROVE  Max(S) \in S /\ Max(S) \in Nat /\ \A k \in S : k <= Max(S)
<1> DEFINE R == {y \in 0..b : b - y \in S}
<1>1. R \in SUBSET Nat /\ R # {}
  <2>1. PICK k \in S : TRUE
    OBVIOUS
  <2>2. b - k \in 0..b /\ b - (b - k) = k
    BY <2>1
  <2>. QED BY <2>1, <2>2
<1>2. Min(R) \in R /\ \A y \in R : Min(R) <= y
  BY <1>1, MinIn
<1>3. PICK g : g = b - Min(R)
  OBVIOUS
<1>4. g \in S /\ \A k \in S : g >= k
  <2>1. g \in S
    BY <1>2, <1>3
  <2>2. ASSUME NEW k \in S PROVE g >= k
    <3>1. b - k \in R
      BY <2>2
    <3>. QED BY <1>2, <1>3, <2>2, <3>1
  <2>. QED BY <2>1, <2>2
<1>5. Max(S) \in S /\ \A k \in S : Max(S) >= k
  BY <1>4 DEF Max
<1>6. PICK x : x = Max(S)
  OBVIOUS
<1>7. x \in Nat /\ x \in S
  <2>1. S \subseteq Nat
    OBVIOUS
  <2>2. x \in S
    BY <1>5, <1>6, Zenon
  <2>. QED BY <2>1, <2>2
<1>8. ASSUME NEW k \in S PROVE k <= x
  <2>1. k \in Nat
    OBVIOUS
  <2>2. x >= k
    BY <1>5, <1>6, Zenon
  <2>. QED BY <1>7, <2>1, <2>2
<1>. QED BY <1>6, <1>7, <1>8, Zenon

(* The values before and at the n-th in a stable sort are those that the   *)
(* order of value and index says.                                          *)
UpTo(values, n) ==
  {m \in DOMAIN values : values[m] < values[n] \/ (values[m] = values[n] /\ m <= n)}

(* Different values have different places, between 1 and their number.     *)
LEMMA PlaceIs ==
  ASSUME NEW values \in Seq(Nat)
  PROVE  /\ Len(values) \in Nat /\ DOMAIN values = 1..Len(values)
         /\ \A n \in DOMAIN values : values[n] \in Nat
         /\ \A n \in DOMAIN values :
              /\ IsFiniteSet(UpTo(values, n)) /\ n \in UpTo(values, n)
              /\ Place(values, n) = Cardinality(UpTo(values, n))
              /\ Place(values, n) \in 1..Len(values)
         /\ \A n, m \in DOMAIN values : n # m => Place(values, n) # Place(values, m)
<1>1. /\ Len(values) \in Nat /\ DOMAIN values = 1..Len(values)
      /\ \A n \in DOMAIN values : values[n] \in Nat
  BY LenProperties, ElementOfSeq
<1>2. IsFiniteSet(DOMAIN values) /\ Cardinality(DOMAIN values) = Len(values)
  <2> DEFINE l == Len(values)
  <2>1. l \in Int /\ l >= 0
    BY <1>1
  <2> HIDE DEF l
  <2>2. /\ IsFiniteSet(1..l)
        /\ Cardinality(1..l) = IF 1 > l THEN 0 ELSE l - 1 + 1
    BY <2>1, FS_Interval
  <2>3. IsFiniteSet(1..l) /\ Cardinality(1..l) = l
    BY <2>1, <2>2
  <2>. QED BY <1>1, <2>3 DEF l
<1>3. ASSUME NEW n \in DOMAIN values
      PROVE  /\ IsFiniteSet(UpTo(values, n)) /\ n \in UpTo(values, n)
             /\ Place(values, n) = Cardinality(UpTo(values, n))
             /\ Place(values, n) \in 1..Len(values)
  <2>1. UpTo(values, n) \subseteq DOMAIN values /\ n \in UpTo(values, n)
    BY <1>1 DEF UpTo
  <2>2. IsFiniteSet(UpTo(values, n)) /\ Cardinality(UpTo(values, n)) <= Len(values)
    BY <1>2, <2>1, FS_Subset
  <2>3. Cardinality(UpTo(values, n)) \in Nat /\ Cardinality(UpTo(values, n)) # 0
    BY <2>1, <2>2, FS_CardinalityType, FS_EmptySet
  <2>4. Place(values, n) = Cardinality(UpTo(values, n))
    BY DEF Place, UpTo
  <2>. QED BY <1>1, <2>1, <2>2, <2>3, <2>4
<1>4. ASSUME NEW n \in DOMAIN values, NEW m \in DOMAIN values,
             values[n] < values[m] \/ (values[n] = values[m] /\ n < m)
      PROVE  Place(values, n) < Place(values, m)
  <2>1. UpTo(values, n) \subseteq UpTo(values, m) /\ m \notin UpTo(values, n)
    BY <1>1, <1>4 DEF UpTo
  <2>2. UpTo(values, n) # UpTo(values, m)
    BY <1>3, <2>1
  <2>3. Cardinality(UpTo(values, n)) < Cardinality(UpTo(values, m))
    BY <1>3, <2>1, <2>2, FS_Subset, FS_CardinalityType
  <2>. QED BY <1>3, <2>3
<1>5. ASSUME NEW n \in DOMAIN values, NEW m \in DOMAIN values, n # m
      PROVE  Place(values, n) # Place(values, m)
  <2>1. \/ values[n] < values[m] \/ (values[n] = values[m] /\ n < m)
        \/ values[m] < values[n] \/ (values[m] = values[n] /\ m < n)
    <3>1. n \in Int /\ m \in Int /\ values[n] \in Int /\ values[m] \in Int
      BY <1>1
    <3>. QED BY <1>5, <3>1
  <2>. QED BY <1>1, <1>3, <1>4, <2>1
<1>. QED BY <1>1, <1>3, <1>5

(* Every place is that of one of the values.                               *)
LEMMA SortedIs ==
  ASSUME NEW values \in Seq(Nat), NEW k \in DOMAIN values
  PROVE  \E n \in DOMAIN values : Place(values, n) = k /\ Sorted(values)[k] = values[n]
<1> DEFINE D == DOMAIN values
           f == [n \in D |-> Place(values, n)]
<1>1. D = 1..Len(values) /\ Len(values) \in Nat /\ f \in [D -> D]
  BY PlaceIs
<1>2. f \in Injection(D, D)
  <2>1. \A n, m \in D : f[n] = f[m] => n = m
    BY PlaceIs
  <2>2. DOMAIN f = D
    OBVIOUS
  <2> HIDE DEF D, f
  <2>. QED BY ONLY <1>1, <2>1, <2>2 DEF Injection, IsInjective
<1>3. f \in Surjection(D, D)
  <2>1. IsFiniteSet(D)
    BY <1>1, FS_Interval
  <2> HIDE DEF D, f
  <2>. QED BY <1>2, <2>1, FS_Injection
<1>4. \E n \in D : Place(values, n) = k
  BY <1>3 DEF Surjection
<1>. QED BY <1>4 DEF Sorted

(* How many of the values do not exceed w.                                 *)
AtMost(values, w) == Cardinality({n \in DOMAIN values : values[n] <= w})

(* The values there are.                                                   *)
ValuesOf(values) == {values[n] : n \in DOMAIN values}

(* At least k of the values do not exceed v; fewer do not exceed what is   *)
(* less.                                                                   *)
Splits(values, k, v) ==
  /\ v \in ValuesOf(values) /\ v \in Nat
  /\ \A w \in Nat : AtMost(values, w) \in Nat
  /\ AtMost(values, v) >= k
  /\ \A w \in Nat : w < v => AtMost(values, w) < k

(* The k-th of the sorted values does.                                     *)
LEMMA RankSplits ==
  ASSUME NEW values \in Seq(Nat), NEW k \in DOMAIN values
  PROVE  Splits(values, k, Sorted(values)[k])
<1>0. /\ Len(values) \in Nat /\ DOMAIN values = 1..Len(values)
      /\ \A n \in DOMAIN values : values[n] \in Nat
  BY PlaceIs
<1>1. PICK n \in DOMAIN values : Place(values, n) = k /\ Sorted(values)[k] = values[n]
  BY SortedIs
<1>2. IsFiniteSet(UpTo(values, n)) /\ n \in UpTo(values, n) /\ Cardinality(UpTo(values, n)) = k
  BY <1>1, PlaceIs
<1>3. ASSUME NEW w \in Nat
      PROVE  /\ AtMost(values, w) \in Nat
             /\ w = Sorted(values)[k] => AtMost(values, w) >= k
             /\ w < Sorted(values)[k] => AtMost(values, w) < k
  <2> DEFINE C == {m \in DOMAIN values : values[m] <= w}
  <2>1. IsFiniteSet(C) /\ Cardinality(C) \in Nat
    <3>1. IsFiniteSet(DOMAIN values)
      BY <1>0, FS_Interval
    <3>2. IsFiniteSet(C)
      BY <3>1, FS_Subset
    <3>. QED BY <3>2, FS_CardinalityType
  <2>2. w = values[n] => UpTo(values, n) \subseteq C
    BY <1>0 DEF UpTo
  <2>3. w < values[n] => C \subseteq UpTo(values, n) /\ n \notin C
    <3> SUFFICES ASSUME w < values[n]
                 PROVE  n \notin C /\ \A m \in C : m \in UpTo(values, n)
      OBVIOUS
    <3>1. n \notin C
      BY <1>0
    <3>2. ASSUME NEW m \in C PROVE m \in UpTo(values, n)
      <4>1. values[m] \in Nat /\ values[m] <= w /\ values[n] \in Nat /\ m \in DOMAIN values
        BY <1>0, <3>2
      <4>2. values[m] < values[n]
        BY <4>1
      <4>. QED BY <4>1, <4>2 DEF UpTo
    <3>. QED BY <3>1, <3>2
  <2> HIDE DEF C
  <2>4. w = values[n] => Cardinality(C) >= k
    BY <1>2, <2>1, <2>2, FS_Subset
  <2>5. w < values[n] => Cardinality(C) < k
    <3> HAVE w < values[n]
    <3>1. C # UpTo(values, n)
      BY <1>2, <2>3
    <3>. QED BY <1>2, <2>1, <2>3, <3>1, FS_Subset
  <2>. QED BY <1>1, <2>1, <2>4, <2>5 DEF C, AtMost
<1>4. Sorted(values)[k] \in ValuesOf(values) /\ Sorted(values)[k] \in Nat
  BY <1>0, <1>1 DEF ValuesOf
<1>. QED
  <2>1. PICK v : v = Sorted(values)[k]
    OBVIOUS
  <2>. QED BY <1>3, <1>4, <2>1 DEF Splits

(* At least p percent of n are c.                                          *)
Covers(n, p, c) == 100 * c >= p * n

(* The index is that of the rank, which no sequence is too short for.      *)
Index(n, p) == Min({n, Rank(n, p)})

(* k is the rank of p percent of n.                                        *)
IsRank(n, p, k) ==
  k \in 1..n /\ Index(n, p) = k /\ \A c \in Nat : Covers(n, p, c) <=> c >= k

(* The rank is the least number that p percent of n do not exceed.         *)
LEMMA RankIs ==
  ASSUME NEW n \in Nat \ {0}, NEW p \in {50, 95}
  PROVE  IsRank(n, p, Rank(n, p))
<1>1. PICK d : d = (p * n + 99) \div 100
  OBVIOUS
<1>2. /\ d \in Nat /\ 1 <= d /\ d <= n
      /\ \A c \in Nat : 100 * c >= p * n <=> c >= d
  <2>1. CASE p = 50
    <3>1. d = (50 * n + 99) \div 100
      BY <1>1, <2>1
    <3>2. d \in Int /\ 100 * d <= 50 * n + 99 /\ 50 * n + 99 < 100 * d + 100
      BY <3>1
    <3>3. d \in Nat /\ 1 <= d /\ d <= n
      BY <3>2
    <3>4. \A c \in Nat : 100 * c >= 50 * n <=> c >= d
      BY <3>2
    <3>. QED BY <2>1, <3>3, <3>4
  <2>2. CASE p = 95
    <3>1. d = (95 * n + 99) \div 100
      BY <1>1, <2>2
    <3>2. d \in Int /\ 100 * d <= 95 * n + 99 /\ 95 * n + 99 < 100 * d + 100
      BY <3>1
    <3>3. d \in Nat /\ 1 <= d /\ d <= n
      BY <3>2
    <3>4. \A c \in Nat : 100 * c >= 95 * n <=> c >= d
      BY <3>2
    <3>. QED BY <2>2, <3>3, <3>4
  <2>. QED BY <2>1, <2>2
<1>3. Rank(n, p) = d
  <2>1. {1, d} \in SUBSET (0..n) /\ {1, d} # {}
    BY <1>2
  <2>2. Max({1, d}) \in {1, d} /\ Max({1, d}) \in Nat /\ \A k \in {1, d} : k <= Max({1, d})
    BY ONLY <2>1, MaxIn
  <2>3. Max({1, d}) = d
    BY <1>2, <2>2
  <2>. QED BY <1>1, <2>3 DEF Rank
<1>4. Min({n, d}) = d
  <2>1. {n, d} \in SUBSET Nat /\ {n, d} # {}
    BY <1>2
  <2>2. Min({n, d}) \in {n, d} /\ \A k \in {n, d} : Min({n, d}) <= k
    BY ONLY <2>1, MinIn
  <2>. QED BY <1>2, <2>2
<1>. QED BY <1>2, <1>3, <1>4 DEF Covers, Index, IsRank

(* What the collector takes of the sorted values is their percentile.      *)
LEMMA PercentileIs ==
  ASSUME NEW values \in Seq(Nat), values # <<>>, NEW p \in {50, 95}
  PROVE  Percentile(values, p) = NearestRank(values, p)
<1> DEFINE Vals == ValuesOf(values)
           Holds(v) == Covers(Len(values), p, AtMost(values, v))
           Best == {v \in Vals : Holds(v)}
<1>1. /\ Len(values) \in Nat \ {0} /\ DOMAIN values = 1..Len(values)
      /\ \A n \in DOMAIN values : values[n] \in Nat
  BY PlaceIs, EmptySeq
<1>2. PICK l, k : l = Len(values) /\ k = Rank(l, p)
  OBVIOUS
<1>3. /\ k \in DOMAIN values /\ Index(l, p) = k /\ k \in Nat
      /\ \A c \in Nat : Covers(l, p, c) <=> c >= k
  <2>1. l \in Nat \ {0} /\ DOMAIN values = 1..l
    BY <1>1, <1>2
  <2>2. IsRank(l, p, Rank(l, p))
    BY <2>1, RankIs
  <2>3. IsRank(l, p, k)
    BY <1>2, <2>2
  <2>. QED BY <2>1, <2>3 DEF IsRank
<1>4. PICK v : v = Sorted(values)[k]
  OBVIOUS
<1>5. Percentile(values, p) = v
  BY <1>2, <1>3, <1>4 DEF Percentile, Index
<1>6. Splits(values, k, v)
  BY <1>3, <1>4, RankSplits
<1>7. Vals \in SUBSET Nat
  BY <1>1 DEF ValuesOf
<1>8. Holds(v) /\ \A w \in Nat : w < v => ~Holds(w)
  <2>1. ASSUME NEW w \in Nat
        PROVE  Holds(w) <=> AtMost(values, w) >= k
    BY <1>2, <1>3, <1>6 DEF Splits
  <2> HIDE DEF Holds
  <2>2. v \in Nat /\ Holds(v)
    BY <1>6, <2>1 DEF Splits
  <2>3. ASSUME NEW w \in Nat, w < v PROVE ~Holds(w)
    BY <1>3, <1>6, <2>1, <2>3 DEF Splits
  <2>. QED BY <2>2, <2>3
<1>9. v \in Best /\ \A w \in Best : v <= w
  <2>1. v \in Vals
    BY <1>6 DEF Splits
  <2> HIDE DEF Holds, Vals
  <2>2. \A w \in Best : w \in Nat /\ v \in Nat /\ ~(w < v)
    BY <1>7, <1>8, <2>1
  <2>. QED BY <1>8, <2>1, <2>2
<1>10. Min(Best) = v
  <2>1. Best \in SUBSET Nat /\ Best # {}
    BY <1>7, <1>9
  <2> HIDE DEF Best, Holds
  <2>2. Min(Best) \in Best /\ \A w \in Best : Min(Best) <= w
    BY <2>1, MinIn
  <2>3. Min(Best) \in Nat /\ v \in Nat
    BY <1>9, <2>1, <2>2
  <2>. QED BY <1>9, <2>2, <2>3
<1>11. NearestRank(values, p) = Min(Best)
  BY DEF NearestRank, AtMost, Covers, ValuesOf
<1>. QED BY <1>5, <1>10, <1>11

(* Two collectors that differ in some fields only.                         *)
SameBut(m, m2, fields) ==
  DOMAIN m2 = MetricFields /\ \A f \in MetricFields \ fields : m2[f] = m[f]

(* Nothing but perhaps polling begun or ended; an outcome more; a snapshot  *)
(* more.                                                                   *)
Kept(m, m2) == SameBut(m, m2, {"polling"})
Told(c, m, m2) ==
  /\ SameBut(m, m2, {"outcomes"})
  /\ \E o \in Outcome(c) : m2.outcomes = Append(m.outcomes, o)
Shown(m, m2) ==
  SameBut(m, m2, {"polling", "series"}) /\ m2.series = Append(m.series, Snapshot(m))

(* An order's answer is one outcome more.                                  *)
LEMMA Recorded1 ==
  ASSUME RunsFine, NEW r \in Runs, NEW p \in Running(r),
         NEW code \in {201, 409, 500}, Record(r, p, code), config' = config
  PROVE  \E q \in Outcome(config[r]) : metrics'[r].outcomes = Append(metrics[r].outcomes, q)
<1>1. /\ task'[r] = Took(run[r], [task[r] EXCEPT ![p] = Idle("done")])
      /\ \E o \in Outcome(config[r]) :
           /\ o.patron = p /\ o.code = code /\ Recorded(metrics[r], o, metrics'[r])
           /\ Answered(run[r], o.code, run'[r])
  BY RecordIs
<1>. QED BY <1>1 DEF Recorded

(* What a step of a run does to its collector: nothing but perhaps stop or *)
(* start it, an outcome more, a snapshot more, or a poll.                  *)
LEMMA MetricSteps ==
  ASSUME RunsFine, NEW r \in Runs, RunStep(r)
  PROVE  \/ Kept(metrics[r], metrics'[r]) \/ Told(config[r], metrics[r], metrics'[r])
         \/ Shown(metrics[r], metrics'[r]) \/ Poll(r)
<1>0. /\ DOMAIN metrics = Runs /\ DOMAIN metrics[r] = MetricFields
  BY OfRun DEF RunsFine
<1>1. CASE UNCHANGED metrics
  BY <1>0, <1>1 DEF Kept, SameBut
<1>2. CASE \E b : metrics' = [metrics EXCEPT ![r].polling = b]
  <2>1. PICK b : metrics' = [metrics EXCEPT ![r].polling = b]
    BY <1>2
  <2>2. metrics'[r] = [metrics[r] EXCEPT !.polling = b]
    BY <1>0, <2>1
  <2>. QED BY <1>0, <2>2 DEF Kept, SameBut, MetricFields
<1>3. ASSUME NEW p \in Running(r), NEW code \in {201, 409, 500}, Record(r, p, code), config' = config
      PROVE  Told(config[r], metrics[r], metrics'[r])
  <2> DEFINE o == [patron |-> p, code |-> code, latency |-> config[r].latency[p]]
  <2>1. metrics' = [metrics EXCEPT ![r].outcomes = Append(@, o)]
    BY <1>3 DEF Record
  <2> HIDE DEF o
  <2>2. metrics'[r] = [metrics[r] EXCEPT !.outcomes = Append(metrics[r].outcomes, o)]
    BY <1>0, <2>1
  <2>3. SameBut(metrics[r], metrics'[r], {"outcomes"})
    BY <1>0, <2>2 DEF SameBut, MetricFields
  <2>4. \E q \in Outcome(config[r]) : metrics'[r].outcomes = Append(metrics[r].outcomes, q)
    BY <1>3, Recorded1
  <2>. QED BY <2>3, <2>4 DEF Told
<1>4. CASE Tick(r)
  <2>1. metrics'[r] = [metrics[r] EXCEPT !.series = Append(metrics[r].series, Snapshot(metrics[r]))]
    BY <1>0, <1>4 DEF Tick
  <2>. QED BY <1>0, <2>1 DEF Shown, SameBut, MetricFields
<1>5. CASE End(r)
  <2>1. metrics'[r] = [metrics[r] EXCEPT !.series = Append(metrics[r].series, Snapshot(metrics[r])),
                                         !.polling = FALSE]
    BY <1>0, <1>5 DEF End
  <2>. QED BY <1>0, <2>1 DEF Shown, SameBut, MetricFields
<1>6. CASE StartRun(r)
  BY <1>1, <1>2, <1>6 DEF StartRun
<1>7. CASE RefillStub(r)
  BY <1>2, <1>7 DEF RefillStub
<1>8. CASE CallFails(r) \/ \E p \in Patrons(r) : Reject(r, p)
  BY <1>1, <1>2, <1>8 DEF CallFails, Reject, Fail
<1>9. CASE RefillLive(r) \/ PutOverride(r) \/ StartSignups(r) \/ SignupsDone(r) \/ RunBatch(r)
           \/ BatchDone(r) \/ CancelRun(r)
  BY <1>1, <1>9 DEF RefillLive, PutOverride, StartSignups, SignupsDone, RunBatch, BatchDone, CancelRun
<1>10. CASE \E p \in Patrons(r) : SignUp(r, p)
  BY <1>1, <1>10 DEF SignUp
<1>11. ASSUME NEW p \in Patrons(r), DecrementLine(r, p) \/ ReleaseLine(r, p) \/ LiveOrder(r, p)
       PROVE  UNCHANGED metrics \/ Told(config[r], metrics[r], metrics'[r])
  <2>1. config' = config
    BY <1>11 DEF DecrementLine, ReleaseLine, LiveOrder
  <2>2. CASE LiveOrder(r, p)
    <3>1. p \in Running(r)
      BY <2>2 DEF LiveOrder, Ordering
    <3>. QED BY <1>3, <2>1, <2>2, <3>1 DEF LiveOrder
  <2>3. CASE DecrementLine(r, p)
    <3>1. p \in Running(r)
      BY <2>3 DEF DecrementLine, Decrementing, Ordering
    <3>2. UNCHANGED metrics \/ \E code \in {201, 409, 500} : Record(r, p, code)
      BY <2>3 DEF DecrementLine
    <3>. QED BY <1>3, <2>1, <3>1, <3>2
  <2>4. CASE ReleaseLine(r, p)
    <3>1. UNCHANGED metrics \/ (p \in Running(r) /\ Record(r, p, 409))
      BY <2>4 DEF ReleaseLine, Running
    <3>. QED BY <1>3, <2>1, <3>1
  <2>. QED BY <1>11, <2>2, <2>3, <2>4
<1>. QED BY <1>1, <1>4, <1>5, <1>6, <1>7, <1>8, <1>9, <1>10, <1>11 DEF RunStep, Progress

(* A snapshot agrees with the outcomes it was taken of.                    *)
TakenAt(b, o) ==
  /\ b.completed = Count(o, 201) /\ b.failed = Len(o) - Count(o, 201)
  /\ b.p50 = Percentile(Latencies(o), 50) /\ b.p95 = Percentile(Latencies(o), 95)

(* The snapshots are those of the outcomes' beginnings.                    *)
SeriesTrue(m) ==
  /\ \E S : m.series \in Seq(S)
  /\ \A n \in DOMAIN m.series :
       \E l \in 0..Len(m.outcomes) : TakenAt(m.series[n], SubSeq(m.outcomes, 1, l))

(* A sequence that has become longer begins as it did.                     *)
LEMMA BeginsAlike ==
  ASSUME NEW S, NEW s \in Seq(S), NEW e \in S, NEW l \in 0..Len(s)
  PROVE  SubSeq(Append(s, e), 1, l) = SubSeq(s, 1, l) /\ l \in 0..Len(Append(s, e))
<1>1. Append(s, e) \in Seq(S) /\ Len(Append(s, e)) = Len(s) + 1 /\ Len(s) \in Nat
  BY AppendProperties, LenProperties
<1>2. \A i \in 1..Len(s) : Append(s, e)[i] = s[i]
  BY AppendProperties
<1>3. /\ SubSeq(Append(s, e), 1, l) \in Seq(S) /\ SubSeq(s, 1, l) \in Seq(S)
      /\ Len(SubSeq(Append(s, e), 1, l)) = l /\ Len(SubSeq(s, 1, l)) = l
      /\ \A i \in 1..l : SubSeq(Append(s, e), 1, l)[i] = Append(s, e)[i]
                         /\ SubSeq(s, 1, l)[i] = s[i]
  BY <1>1
<1>4. \A i \in 1..l : SubSeq(Append(s, e), 1, l)[i] = SubSeq(s, 1, l)[i]
  BY <1>1, <1>2, <1>3
<1>. QED BY <1>1, <1>3, <1>4, SeqEqual

(* A poll reads the levels and, in a live run, the queues and the database. *)
LEMMA PollIs ==
  ASSUME RunsFine, NEW r \in Runs, Poll(r)
  PROVE  LET n == metrics[r].polls + 1
             reading == config[r].readings[n]
             m == metrics[r]
             m2 == metrics'[r]
         IN  /\ m2.polling = m.polling /\ m2.outcomes = m.outcomes /\ m2.series = m.series
             /\ m.polling /\ m.polls < Len(config[r].readings)
             /\ m2.polls = n /\ m2.levels = Readable(stock[Mode(r)])
             /\ m2.depths \in {m.depths, reading.depths}
             /\ \/ /\ Mode(r) = "stub" /\ m2.depths = m.depths
                   /\ m2.delta = m.delta /\ m2.changed = m.changed /\ m2.lag = m.lag
                \/ /\ Mode(r) # "stub" /\ ~reading.database
                   /\ m2.delta = m.delta /\ m2.changed = m.changed /\ m2.lag = m.lag
                \/ /\ Mode(r) # "stub" /\ reading.database /\ m2.delta = reading.delta
                   /\ m2.changed = (IF reading.delta # m.delta THEN n ELSE m.changed)
                   /\ m2.lag = Max({m.lag,
                        IF reading.delta > 0 THEN (n - m2.changed) * METRICS_POLL_INTERVAL_MS ELSE 0})
<1>0. DOMAIN metrics = Runs /\ DOMAIN metrics[r] = MetricFields
  BY OfRun DEF RunsFine
<1>1. PICK m, n, reading, levels : /\ m = metrics[r] /\ n = m.polls + 1
                                   /\ reading = config[r].readings[n]
                                   /\ levels = Readable(stock[Mode(r)])
  OBVIOUS
<1> DEFINE a == [m EXCEPT !.polls = n, !.levels = levels]
           b == [m EXCEPT !.polls = n, !.levels = levels, !.depths = reading.depths]
<1>2. /\ m.polling /\ m.polls < Len(config[r].readings)
      /\ metrics'[r] = IF Mode(r) = "stub" THEN a
                       ELSE IF reading.database THEN Compared(b, n, reading.delta) ELSE b
  BY <1>0, <1>1 DEF Poll
<1>3. DOMAIN m = MetricFields
  BY <1>0, <1>1
<1>4. PICK m2 : m2 = metrics'[r]
  OBVIOUS
<1>5. CASE Mode(r) = "stub"
  <2>1. m2 = a
    BY <1>2, <1>4, <1>5
  <2>2. /\ m2.polling = m.polling /\ m2.outcomes = m.outcomes /\ m2.series = m.series
        /\ m2.polls = n /\ m2.levels = levels /\ m2.depths = m.depths
        /\ m2.delta = m.delta /\ m2.changed = m.changed /\ m2.lag = m.lag
    BY ONLY <1>3, <2>1 DEF MetricFields
  <2>. QED BY ONLY <1>1, <1>2, <1>4, <1>5, <2>2
<1>6. CASE Mode(r) # "stub" /\ ~reading.database
  <2>1. m2 = b
    BY <1>2, <1>4, <1>6
  <2>2. /\ m2.polling = m.polling /\ m2.outcomes = m.outcomes /\ m2.series = m.series
        /\ m2.polls = n /\ m2.levels = levels /\ m2.depths = reading.depths
        /\ m2.delta = m.delta /\ m2.changed = m.changed /\ m2.lag = m.lag
    BY ONLY <1>3, <2>1 DEF MetricFields
  <2>. QED BY ONLY <1>1, <1>2, <1>4, <1>6, <2>2
<1>7. CASE Mode(r) # "stub" /\ reading.database
  <2>1. PICK e : e = b
    OBVIOUS
  <2>2. m2 = Compared(e, n, reading.delta)
    BY <1>2, <1>4, <1>7, <2>1
  <2>3. /\ e.polling = m.polling /\ e.outcomes = m.outcomes /\ e.series = m.series
        /\ e.polls = n /\ e.levels = levels /\ e.depths = reading.depths /\ DOMAIN e = MetricFields
        /\ e.delta = m.delta /\ e.changed = m.changed /\ e.lag = m.lag
    BY ONLY <1>3, <2>1 DEF MetricFields
  <2>4. PICK d, t, l : /\ d = reading.delta /\ t = (IF d # m.delta THEN n ELSE m.changed)
                       /\ l = Max({m.lag, IF d > 0 THEN (n - t) * METRICS_POLL_INTERVAL_MS ELSE 0})
    OBVIOUS
  <2>5. m2 = [e EXCEPT !.delta = d, !.changed = t, !.lag = l]
    BY ONLY <2>2, <2>3, <2>4 DEF Compared
  <2>6. /\ m2.polling = m.polling /\ m2.outcomes = m.outcomes /\ m2.series = m.series
        /\ m2.polls = n /\ m2.levels = levels /\ m2.depths = reading.depths
        /\ m2.delta = d /\ m2.changed = t /\ m2.lag = l
    BY ONLY <2>3, <2>5 DEF MetricFields
  <2>. QED BY ONLY <1>1, <1>2, <1>4, <1>7, <2>4, <2>6
<1>. QED BY <1>5, <1>6, <1>7

(* A snapshot of a beginning of the outcomes remains one.                  *)
LEMMA SeriesSame ==
  ASSUME NEW m, NEW m2, SeriesTrue(m), m2.series = m.series, m2.outcomes = m.outcomes
  PROVE  SeriesTrue(m2)
BY DEF SeriesTrue

(* So it does when an outcome is recorded.                                 *)
LEMMA SeriesTold ==
  ASSUME NEW S, NEW m, m.outcomes \in Seq(S), NEW o \in S, SeriesTrue(m),
         NEW m2, m2.series = m.series, m2.outcomes = Append(m.outcomes, o)
  PROVE  SeriesTrue(m2)
<1>1. ASSUME NEW n \in DOMAIN m.series
      PROVE  \E l \in 0..Len(m2.outcomes) : TakenAt(m2.series[n], SubSeq(m2.outcomes, 1, l))
  <2>1. PICK l \in 0..Len(m.outcomes) : TakenAt(m.series[n], SubSeq(m.outcomes, 1, l))
    BY DEF SeriesTrue
  <2>2. /\ SubSeq(Append(m.outcomes, o), 1, l) = SubSeq(m.outcomes, 1, l)
        /\ l \in 0..Len(Append(m.outcomes, o))
    BY BeginsAlike
  <2>. QED BY <2>1, <2>2
<1>. QED BY <1>1 DEF SeriesTrue

(* The latest snapshot is that of all of them.                             *)
LEMMA SeriesShown ==
  ASSUME NEW T, NEW m, m.outcomes \in Seq(T), SeriesTrue(m),
         NEW m2, m2.series = Append(m.series, Snapshot(m)), m2.outcomes = m.outcomes
  PROVE  SeriesTrue(m2)
<1>1. PICK S : m.series \in Seq(S)
  BY DEF SeriesTrue
<1>2. PICK b : b = Snapshot(m)
  OBVIOUS
<1>3. PICK U : U = S \cup {b}
  OBVIOUS
<1>4. m.series \in Seq(U) /\ b \in U
  BY <1>1, <1>3
<1>5. /\ m2.series \in Seq(U) /\ Len(m2.series) = Len(m.series) + 1 /\ Len(m.series) \in Nat
      /\ \A n \in 1..Len(m.series) : m2.series[n] = m.series[n]
      /\ m2.series[Len(m.series) + 1] = b
  BY <1>2, <1>4, AppendProperties, LenProperties
<1>6. DOMAIN m.series = 1..Len(m.series) /\ DOMAIN m2.series = 1..Len(m2.series)
  BY <1>4, <1>5, LenProperties
<1>7. TakenAt(b, m.outcomes)
  BY <1>2 DEF TakenAt, Snapshot
<1>8. /\ SubSeq(m.outcomes, 1, Len(m.outcomes)) = m.outcomes
      /\ Len(m.outcomes) \in 0..Len(m2.outcomes)
  <2>1. Len(m.outcomes) \in Nat
    BY LenProperties
  <2>2. SubSeq(m.outcomes, 1, Len(m.outcomes)) = m.outcomes
    BY SubSeqFull
  <2>. QED BY <2>1, <2>2
<1>9. ASSUME NEW n \in DOMAIN m2.series
      PROVE  \E l \in 0..Len(m2.outcomes) : TakenAt(m2.series[n], SubSeq(m2.outcomes, 1, l))
  <2>1. CASE n = Len(m.series) + 1
    <3>1. TakenAt(m2.series[n], SubSeq(m2.outcomes, 1, Len(m.outcomes)))
      BY <1>5, <1>7, <1>8, <2>1
    <3>. QED BY <1>8, <3>1
  <2>2. CASE n \in 1..Len(m.series)
    <3>1. m2.series[n] = m.series[n] /\ n \in DOMAIN m.series
      BY <1>5, <1>6, <2>2
    <3>. QED BY <3>1 DEF SeriesTrue
  <2>3. n \in 1..Len(m.series) \/ n = Len(m.series) + 1
    BY <1>5, <1>6
  <2>. QED BY <2>1, <2>2, <2>3
<1>. QED BY <1>5, <1>9 DEF SeriesTrue

(* A run's steps keep its snapshots true.                                  *)
LEMMA SeriesSteps ==
  ASSUME RunsFine, NEW r \in Runs, RunStep(r), SeriesTrue(metrics[r])
  PROVE  SeriesTrue(metrics'[r])
<1>1. metrics[r].outcomes \in Seq(Outcome(config[r]))
  BY DEF RunsFine, RunFine, Fine, Counted
<1>2. CASE Kept(metrics[r], metrics'[r])
  <2>1. metrics'[r].series = metrics[r].series /\ metrics'[r].outcomes = metrics[r].outcomes
    BY <1>2 DEF Kept, SameBut, MetricFields
  <2>. QED BY <2>1, SeriesSame
<1>3. CASE Told(config[r], metrics[r], metrics'[r])
  <2>1. metrics'[r].series = metrics[r].series
    BY <1>3 DEF Told, SameBut, MetricFields
  <2>2. PICK o \in Outcome(config[r]) : metrics'[r].outcomes = Append(metrics[r].outcomes, o)
    BY <1>3 DEF Told
  <2>. QED BY <1>1, <2>1, <2>2, SeriesTold
<1>4. CASE Shown(metrics[r], metrics'[r])
  <2>1. /\ metrics'[r].series = Append(metrics[r].series, Snapshot(metrics[r]))
        /\ metrics'[r].outcomes = metrics[r].outcomes
    BY <1>4 DEF Shown, SameBut, MetricFields
  <2>. QED BY <1>1, <2>1, SeriesShown
<1>5. CASE Poll(r)
  <2>1. metrics'[r].series = metrics[r].series /\ metrics'[r].outcomes = metrics[r].outcomes
    BY <1>5, PollIs
  <2>. QED BY <2>1, SeriesSame
<1>. QED BY <1>2, <1>3, <1>4, <1>5, MetricSteps

(* True snapshots say what the property asks of them.                      *)
LEMMA TakenSays ==
  ASSUME NEW c, Scenario(c), NEW m, m.outcomes \in Seq(Outcome(c)), SeriesTrue(m),
         NEW n \in DOMAIN m.series
  PROVE  LET bucket == m.series[n]
             then == SubSeq(m.outcomes, 1, bucket.completed + bucket.failed)
         IN  then # <<>> =>
               /\ bucket.completed = Count(then, 201)
               /\ bucket.p50 = NearestRank(Latencies(then), 50)
               /\ bucket.p95 = NearestRank(Latencies(then), 95)
<1> DEFINE b == m.series[n]
<1>1. PICK l \in 0..Len(m.outcomes) : TakenAt(b, SubSeq(m.outcomes, 1, l))
  BY DEF SeriesTrue
<1>2. PICK then : then = SubSeq(m.outcomes, 1, l)
  OBVIOUS
<1>3. l \in Nat /\ then \in Seq(Outcome(c)) /\ Len(then) = l
  <2>1. Len(m.outcomes) \in Nat
    BY LenProperties
  <2>2. \A i \in 1..l : m.outcomes[i] \in Outcome(c)
    BY <2>1, ElementOfSeq
  <2>. QED BY <1>2, <2>1, <2>2, SubSeqProperties
<1>4. b.completed = Count(then, 201) /\ b.failed = l - Count(then, 201) /\ Count(then, 201) \in Nat
  <2>1. b.completed = Count(then, 201) /\ b.failed = l - Count(then, 201)
    BY <1>1, <1>2, <1>3 DEF TakenAt
  <2>2. IsFiniteSet(DOMAIN then)
    <3>1. DOMAIN then = 1..l
      BY <1>3, LenProperties
    <3>. QED BY <1>3, <3>1, FS_Interval
  <2> DEFINE C == {k \in DOMAIN then : then[k].code = 201}
  <2>3. IsFiniteSet(C) /\ Cardinality(C) \in Nat
    BY <2>2, FS_Subset, FS_CardinalityType
  <2>4. Count(then, 201) = Cardinality(C)
    BY DEF Count
  <2>. QED BY <2>1, <2>3, <2>4
<1>5. b.completed + b.failed = l
  BY <1>3, <1>4
<1>6. ASSUME then # <<>>
      PROVE  /\ b.p50 = NearestRank(Latencies(then), 50)
             /\ b.p95 = NearestRank(Latencies(then), 95)
  <2>1. DOMAIN then = 1..l /\ l # 0
    BY <1>3, <1>6, LenProperties, EmptySeq
  <2>2. Latencies(then) \in Seq(Nat) /\ Latencies(then) # <<>>
    <3>1. \A i \in 1..l : then[i].latency \in Nat
      <4>1. \A i \in 1..l : then[i] \in Outcome(c)
        BY <1>3, ElementOfSeq
      <4>. QED BY <4>1 DEF Outcome
    <3>2. Latencies(then) = [i \in 1..l |-> then[i].latency]
      BY <2>1 DEF Latencies
    <3>3. Latencies(then) \in Seq(Nat)
      BY <1>3, <3>1, <3>2, IsASeq
    <3>4. DOMAIN Latencies(then) = 1..l /\ DOMAIN <<>> = {}
      BY <3>2
    <3>. QED BY <1>3, <2>1, <3>3, <3>4
  <2>3. b.p50 = Percentile(Latencies(then), 50) /\ b.p95 = Percentile(Latencies(then), 95)
    BY <1>1, <1>2 DEF TakenAt
  <2>4. /\ Percentile(Latencies(then), 50) = NearestRank(Latencies(then), 50)
        /\ Percentile(Latencies(then), 95) = NearestRank(Latencies(then), 95)
    BY <2>2, PercentileIs
  <2>. QED BY <2>3, <2>4
<1>. QED BY <1>2, <1>4, <1>5, <1>6

(* What a bucket, or a poll, shows to be sold out.                         *)
Empties(levels) == {j \in DOMAIN levels : levels[j] = 0}

(* Snapshots show the three queues, and no item at 0 that was not.         *)
SeenIn(series, emptied) ==
  \A n \in DOMAIN series :
    DOMAIN series[n].depths \subseteq Queues /\ Empties(series[n].levels) \subseteq emptied
(* A run is polled while it runs, a stub run while it fires orders.        *)
PolledAt(c, x) == x.status = "running" /\ (c.mode = "stub" => x.step \in {"schedule", "batch"})
(* The items reported to have run out have.                                *)
BreaksReal(breaks, emptied) ==
  \A b \in breaks : b.event.metric = "stock_exhaustion" => b.event.item \in emptied
(* What a run's collector knows has happened to its stock.                 *)
Witnessed(c, x, m, emptied) ==
  /\ DOMAIN m.depths \subseteq Queues /\ Empties(m.levels) \subseteq emptied
  /\ m.polling => PolledAt(c, x)
  /\ SeenIn(m.series, emptied)
  /\ x.report # <<>> => BreaksReal(x.report.breaks, emptied)

(* What was seen to be sold out stays so.                                  *)
LEMMA EmptiedIs ==
  ASSUME Observe, NEW r \in Runs
  PROVE  /\ history[r].emptied \subseteq history'[r].emptied
         /\ run[r].status = "running" /\ (Mode(r) = "stub" => run'[r].step # "refill") =>
              {i \in Items : Readable(stock[Mode(r)])'[i] = 0} \subseteq history'[r].emptied
<1>1. run[r].status = "running" => Busy(r)
  BY DEF Busy
<1>2. ASSUME NEW i
      PROVE  i \in history'[r].emptied <=>
               \/ i \in history[r].emptied
               \/ /\ Busy(r) /\ (Mode(r) = "stub" => run'[r].step # "refill")
                  /\ i \in Items /\ Readable(stock[Mode(r)])'[i] = 0
  BY DEF Observe
<1>. QED BY <1>1, <1>2

(* Break events of exhaustion are those of the buckets.                    *)
LEMMA BreaksAre ==
  ASSUME NEW series, NEW emptied, SeenIn(series, emptied)
  PROVE  BreaksReal(BreakFirst(series), emptied)
<1> SUFFICES ASSUME NEW b \in BreakFirst(series), b.event.metric = "stock_exhaustion"
             PROVE  b.event.item \in emptied
  BY DEF BreaksReal
<1>0. PICK f \in UNION {Breaches(series[n]) : n \in DOMAIN series} :
        b = [event |-> f, bucket |-> Min({n \in DOMAIN series : f \in Breaches(series[n])})]
  BY DEF BreakFirst
<1>1. PICK n \in DOMAIN series : b.event \in Breaches(series[n])
  BY <1>0
<1>2. PICK s : s = series[n]
  OBVIOUS
<1>3. PICK e : e = b.event
  OBVIOUS
<1>4. DOMAIN s.depths \subseteq Queues /\ Empties(s.levels) \subseteq emptied
  BY <1>2 DEF SeenIn
<1>5. e \in Breaches(s) /\ e.metric = "stock_exhaustion"
  BY <1>1, <1>2, <1>3
<1>6. \/ e \in When(s.p95 > P95_LATENCY_THRESHOLD_MS, Metric("p95_latency"))
      \/ e \in {Metric(q) : q \in {d \in DOMAIN s.depths : s.depths[d] > QUEUE_DEPTH_THRESHOLD}}
      \/ e \in When(s.lag > STOCK_SYNC_LAG_THRESHOLD_MS, Metric("stock_sync_lag"))
      \/ e \in {[metric |-> "stock_exhaustion", item |-> i] :
                  i \in {j \in DOMAIN s.levels : s.levels[j] = 0}}
      \/ e \in When(10 * s.conflicts > 3 * (s.completed + s.failed)
                      /\ s.completed + s.failed > ConflictSample, Metric("conflict_rate"))
  BY <1>5 DEF Breaches
<1>7. \A breached, name : e \in When(breached, Metric(name)) => e.metric = name
  BY DEF When, Metric
<1>8. e \notin {Metric(q) : q \in {d \in DOMAIN s.depths : s.depths[d] > QUEUE_DEPTH_THRESHOLD}}
  <2>1. \A q \in DOMAIN s.depths : Metric(q).metric # "stock_exhaustion"
    BY <1>4 DEF Queues, Metric
  <2>. QED BY <1>5, <2>1
<1>9. e \in {[metric |-> "stock_exhaustion", item |-> i] :
               i \in {j \in DOMAIN s.levels : s.levels[j] = 0}}
  BY <1>5, <1>6, <1>7, <1>8
<1>10. PICK i \in {j \in DOMAIN s.levels : s.levels[j] = 0} :
         e = [metric |-> "stock_exhaustion", item |-> i]
  BY <1>9
<1>11. e.item = i /\ i \in Empties(s.levels)
  BY <1>10 DEF Empties
<1>. QED BY <1>3, <1>4, <1>11

(* A run is polled only while it runs, a stub run while it fires orders.   *)
LEMMA PollingSteps ==
  ASSUME RunsFine, NEW r \in Runs, RunStep(r),
         metrics[r].polling => PolledAt(config[r], run[r])
  PROVE  metrics'[r].polling => PolledAt(config[r], run'[r])
<1>0. /\ DOMAIN run = Runs /\ DOMAIN run[r] = RunFields
      /\ DOMAIN metrics = Runs /\ DOMAIN metrics[r] = MetricFields
      /\ Fine(config[r], run[r], task[r], metrics[r], history[r].room)
  BY OfRun DEF RunsFine, RunFine
<1>1. CASE /\ metrics'[r].polling = metrics[r].polling
           /\ run'[r].status = run[r].status
           /\ run'[r].step = run[r].step \/ run'[r].step \in {"schedule", "batch"}
  BY <1>1 DEF PolledAt
<1>2. CASE ~metrics'[r].polling
  BY <1>2
<1>3. CASE Poll(r) \/ Tick(r)
  BY <1>0, <1>3 DEF Poll, Tick, PolledAt
<1>4. CASE StartRun(r)
  <2>1. ~metrics[r].polling
    BY <1>4 DEF StartRun, PolledAt
  <2>2. \/ metrics' = metrics
        \/ /\ metrics' = [metrics EXCEPT ![r].polling = (Mode(r) = "live")]
           /\ run' = [run EXCEPT ![r].status = "running", ![r].step = "refill",
                                 ![r].puts = IF Mode(r) = "stub" THEN Items ELSE {}]
    BY <1>4 DEF StartRun
  <2>3. CASE metrics' = metrics
    BY <2>1, <2>3
  <2>4. CASE metrics' # metrics
    <3>1. metrics'[r].polling = (Mode(r) = "live")
      BY ONLY <1>0, <2>2, <2>4 DEF MetricFields
    <3>2. run'[r].status = "running"
      BY ONLY <1>0, <2>2, <2>4 DEF RunFields
    <3>. QED BY <3>1, <3>2 DEF PolledAt, Mode
  <2>. QED BY <2>3, <2>4
<1>5. CASE RefillStub(r)
  <2>1. PICK i \in run[r].puts :
          /\ run' = [run EXCEPT ![r].puts = @ \ {i},
                                ![r].step = IF run[r].puts = {i} THEN "schedule" ELSE @]
          /\ metrics' = [metrics EXCEPT ![r].polling = (run[r].puts = {i})]
    BY <1>5 DEF RefillStub
  <2>2. metrics'[r].polling = (run[r].puts = {i})
    BY <1>0, <2>1 DEF MetricFields
  <2>3. run'[r].status = "running" /\ (run[r].puts = {i} => run'[r].step = "schedule")
    BY <1>0, <1>5, <2>1 DEF RefillStub, At, RunFields
  <2>. QED BY <2>2, <2>3 DEF PolledAt
<1>6. CASE Fail(r)
  <2>1. ~metrics'[r].polling
    BY <1>0, <1>6 DEF Fail, MetricFields
  <2>. QED BY <2>1
<1>7. CASE \E code \in {201, 409, 500}, p \in Patrons(r) : Record(r, p, code)
  <2>1. /\ metrics'[r].polling = metrics[r].polling
        /\ run'[r].step = run[r].step /\ run'[r].status = run[r].status
    BY <1>0, <1>7 DEF Record, RunFields, MetricFields
  <2>. QED BY <1>1, <2>1
<1>8. CASE UNCHANGED <<run, metrics>>
  BY <1>1, <1>8
<1>9. CASE RefillLive(r) \/ PutOverride(r) \/ StartSignups(r)
  <2>1. metrics' = metrics /\ run[r].step \in {"refill", "puts"} /\ config[r].mode = "live"
    BY <1>0, <1>9 DEF RefillLive, PutOverride, StartSignups, At, Fine, Called, Mode
  <2>2. run'[r].status = run[r].status
    BY <1>0, <1>9 DEF RefillLive, PutOverride, StartSignups, RunFields
  <2>. QED BY <2>1, <2>2 DEF PolledAt
<1>10. CASE SignupsDone(r) \/ RunBatch(r) \/ BatchDone(r) \/ CancelRun(r)
  <2>1. metrics' = metrics
    BY <1>10 DEF SignupsDone, RunBatch, BatchDone, CancelRun
  <2>2. /\ run'[r].status = run[r].status
        /\ run'[r].step = run[r].step \/ run'[r].step \in {"schedule", "batch"}
    BY <1>0, <1>10 DEF SignupsDone, RunBatch, BatchDone, CancelRun, RunFields
  <2>. QED BY <1>1, <2>1, <2>2
<1>11. CASE End(r)
  <2>1. ~metrics'[r].polling
    BY <1>0, <1>11 DEF End, MetricFields
  <2>. QED BY <2>1
<1>12. CASE \E p \in Patrons(r) : DecrementLine(r, p) \/ ReleaseLine(r, p) \/ LiveOrder(r, p)
  <2>1. \/ UNCHANGED <<run, metrics>>
        \/ \E code \in {201, 409, 500}, p \in Patrons(r) : Record(r, p, code)
    BY <1>12 DEF DecrementLine, ReleaseLine, LiveOrder
  <2>. QED BY <1>7, <1>8, <2>1
<1>13. CASE CallFails(r) \/ \E p \in Patrons(r) : Reject(r, p)
  <2>1. UNCHANGED <<run, metrics>> \/ Fail(r)
    BY <1>13 DEF CallFails, Reject
  <2>. QED BY <1>6, <1>8, <2>1
<1>14. CASE \E p \in Patrons(r) : SignUp(r, p)
  BY <1>8, <1>14 DEF SignUp
<1>. QED BY <1>3, <1>4, <1>5, <1>9, <1>10, <1>11, <1>12, <1>13, <1>14 DEF RunStep, Progress

(* What an older collector saw, a later history holds.                     *)
LEMMA SeenMore ==
  ASSUME NEW emptied, NEW emptied2, emptied \subseteq emptied2,
         NEW c, NEW x, NEW m, Witnessed(c, x, m, emptied),
         NEW x2, NEW m2, DOMAIN m2.depths \subseteq Queues, m2.polling => PolledAt(c, x2),
         Empties(m2.levels) \subseteq emptied2, SeenIn(m2.series, emptied2),
         x2.report = x.report
  PROVE  Witnessed(c, x2, m2, emptied2)
BY DEF Witnessed, BreaksReal

(* Another snapshot that knows no more.                                    *)
LEMMA SeenAppend ==
  ASSUME NEW S, NEW series \in Seq(S), NEW emptied, NEW emptied2, SeenIn(series, emptied),
         emptied \subseteq emptied2, NEW b, DOMAIN b.depths \subseteq Queues, Empties(b.levels) \subseteq emptied2
  PROVE  SeenIn(Append(series, b), emptied2)
<1>1. PICK U : U = S \cup {b}
  OBVIOUS
<1>2. series \in Seq(U) /\ b \in U
  BY <1>1
<1>3. PICK s : s = Append(series, b)
  OBVIOUS
<1>4. /\ s \in Seq(U) /\ Len(s) = Len(series) + 1 /\ Len(series) \in Nat
      /\ \A n \in 1..Len(series) : s[n] = series[n]
      /\ s[Len(series) + 1] = b
  BY <1>2, <1>3, AppendProperties, LenProperties
<1>5. DOMAIN s = 1..Len(s) /\ DOMAIN series = 1..Len(series)
  BY <1>4, LenProperties
<1>6. ASSUME NEW n \in DOMAIN s
      PROVE  DOMAIN s[n].depths \subseteq Queues /\ Empties(s[n].levels) \subseteq emptied2
  <2>1. CASE n \in 1..Len(series)
    BY <1>4, <1>5, <2>1 DEF SeenIn
  <2>2. CASE n = Len(series) + 1
    BY <1>4, <2>2
  <2>. QED BY <1>4, <1>5, <2>1, <2>2
<1>. QED BY <1>3, <1>6 DEF SeenIn

(* Only its last step gives a run a report.                                *)
LEMMA ReportsEnd ==
  ASSUME RunsFine, NEW r \in Runs, RunStep(r)
  PROVE  run'[r].report = run[r].report \/ End(r)
<1>0. DOMAIN run = Runs /\ DOMAIN run[r] = RunFields
  BY OfRun DEF RunsFine
<1>1. CASE UNCHANGED run
  BY <1>1
<1>2. CASE StartRun(r) \/ CancelRun(r)
  BY <1>0, <1>2 DEF StartRun, CancelRun, RunFields
<1>3. CASE RefillStub(r)
  BY <1>0, <1>3 DEF RefillStub, RunFields
<1>4. CASE RefillLive(r) \/ PutOverride(r) \/ StartSignups(r) \/ SignupsDone(r) \/ RunBatch(r)
           \/ BatchDone(r)
  BY <1>0, <1>4 DEF RefillLive, PutOverride, StartSignups, SignupsDone, RunBatch, BatchDone, RunFields
<1>5. CASE Fail(r)
  BY <1>0, <1>5 DEF Fail, RunFields
<1>6. CASE \E code \in {201, 409, 500}, p \in Patrons(r) : Record(r, p, code)
  BY <1>0, <1>6 DEF Record, RunFields
<1>7. CASE \E p \in Patrons(r) : DecrementLine(r, p) \/ ReleaseLine(r, p) \/ LiveOrder(r, p)
  <2>1. \/ UNCHANGED run
        \/ \E code \in {201, 409, 500}, p \in Patrons(r) : Record(r, p, code)
    BY <1>7 DEF DecrementLine, ReleaseLine, LiveOrder
  <2>. QED BY <1>1, <1>6, <2>1
<1>8. CASE CallFails(r) \/ \E p \in Patrons(r) : Reject(r, p)
  <2>1. UNCHANGED run \/ Fail(r)
    BY <1>8 DEF CallFails, Reject
  <2>. QED BY <1>1, <1>5, <2>1
<1>9. CASE Poll(r) \/ Tick(r) \/ \E p \in Patrons(r) : SignUp(r, p)
  BY <1>1, <1>9 DEF Poll, Tick, SignUp
<1>. QED BY <1>2, <1>3, <1>4, <1>7, <1>8, <1>9 DEF RunStep, Progress

(* The longest time is one of them, and none is longer.                    *)
LEMMA StillIs ==
  ASSUME NEW readings, NEW n \in Nat
  PROVE  /\ Max(StillFor(readings, n)) \in StillFor(readings, n)
         /\ Max(StillFor(readings, n)) \in Nat
         /\ \A l \in StillFor(readings, n) : l \in Nat /\ l <= Max(StillFor(readings, n))
<1>1. PICK S : S = StillFor(readings, n)
  OBVIOUS
<1>2. S \in SUBSET (0..n) /\ S # {}
  <2>1. 0 \in S
    BY <1>1 DEF StillFor
  <2>. QED BY <1>1, <2>1 DEF StillFor
<1>3. Max(S) \in S /\ Max(S) \in Nat /\ \A l \in S : l <= Max(S)
  BY <1>2, MaxIn
<1>4. \A l \in S : l \in Nat
  BY <1>2
<1>. QED BY <1>1, <1>3, <1>4

(* What the collector knows of the polls up to the n-th: the last of them  *)
(* saw the difference delta, the changed-th was the first to see it, and   *)
(* the one before that saw another.                                        *)
Since(readings, n, delta, changed) ==
  /\ \A a \in Reached(readings, n) :
       \E k \in Reached(readings, n) : a <= k /\ readings[k].delta = delta
  /\ delta > 0 =>
       /\ changed \in Reached(readings, n)
       /\ \A k \in Reached(readings, n) :
            /\ changed <= k => readings[k].delta = delta
            /\ k < changed => \E j \in Reached(readings, n) :
                                k <= j /\ j < changed /\ readings[j].delta # delta

(* The lag is that of the polls so far; a stub run has none.               *)
LagTrue(c, m) ==
  /\ m.polls \in 0..Len(c.readings) /\ m.lag \in Nat /\ m.delta \in Nat /\ m.changed \in 0..m.polls
  /\ c.mode # "stub" =>
       /\ m.lag = METRICS_POLL_INTERVAL_MS * Max(StillFor(c.readings, m.polls))
       /\ Since(c.readings, m.polls, m.delta, m.changed)

(* An interval times more polls is no shorter.                             *)
LEMMA TimesGrows ==
  ASSUME NEW a \in Nat, NEW b \in Nat, NEW c \in Nat, b <= c
  PROVE  a * b <= a * c /\ a * b \in Nat /\ a * c \in Nat
<1>1. PICK d \in Nat : c = b + d
  <2>1. c - b \in Nat /\ c = b + (c - b)
    OBVIOUS
  <2>. QED BY <2>1
<1>2. a * c = a * b + a * d
  BY <1>1
<1>3. a * b \in Nat /\ a * c \in Nat /\ a * d \in Nat
  OBVIOUS
<1>. QED BY <1>2, <1>3

(* The greater of two numbers.                                             *)
Greater(a, b) == Max({a, b})

(* It is one of them, and neither exceeds it.                              *)
LEMMA GreaterIs ==
  ASSUME NEW a \in Nat, NEW b \in Nat
  PROVE  Greater(a, b) = IF a <= b THEN b ELSE a
<1>1. PICK P : P = {a, b}
  OBVIOUS
<1>2. P \in SUBSET (0..(a + b)) /\ P # {} /\ a + b \in Nat
  BY <1>1
<1>3. PICK g : g = Max(P)
  OBVIOUS
<1>4. g \in P /\ \A k \in P : k <= g
  BY <1>2, <1>3, MaxIn
<1>5. g \in {a, b} /\ a <= g /\ b <= g
  BY <1>1, <1>4
<1>6. Greater(a, b) = g
  BY <1>1, <1>3 DEF Greater
<1>7. g = IF a <= b THEN b ELSE a
  BY <1>5
<1>. QED BY <1>6, <1>7

(* A poll that misses the database changes no length.                      *)
LEMMA StillMissed ==
  ASSUME NEW readings, NEW n \in Nat, ~readings[n + 1].database
  PROVE  /\ Reached(readings, n + 1) = Reached(readings, n)
         /\ StillFor(readings, n + 1) = StillFor(readings, n)
<1>1. Reached(readings, n + 1) = Reached(readings, n)
  BY DEF Reached
<1>2. \A a, b : Still(readings, n + 1, a, b) <=> Still(readings, n, a, b)
  BY <1>1 DEF Still
<1>3. ASSUME NEW l \in 0..(n + 1), NEW a \in 1..(n + 1), Still(readings, n, a, a + l)
      PROVE  l \in 0..n /\ a \in 1..n
  <2>1. a \in 1..n /\ a + l \in 1..n
    BY <1>3 DEF Still, Reached
  <2>. QED BY <2>1
<1>4. ASSUME NEW l \in StillFor(readings, n + 1) PROVE l \in StillFor(readings, n)
  <2>1. l \in 0..(n + 1) /\ (l = 0 \/ \E a \in 1..(n + 1) : Still(readings, n, a, a + l))
    BY <1>2, <1>4 DEF StillFor
  <2>2. CASE l = 0
    BY <2>2 DEF StillFor
  <2>3. ASSUME NEW a \in 1..(n + 1), Still(readings, n, a, a + l) PROVE l \in StillFor(readings, n)
    <3>1. l \in 0..n /\ a \in 1..n
      BY <1>3, <2>1, <2>3
    <3>. QED BY <2>3, <3>1 DEF StillFor
  <2>. QED BY <2>1, <2>2, <2>3
<1>5. ASSUME NEW l \in StillFor(readings, n) PROVE l \in StillFor(readings, n + 1)
  BY <1>2 DEF StillFor
<1>. QED BY <1>1, <1>4, <1>5

(* A poll that reaches it and what it says of the difference.              *)
LEMMA SinceNow ==
  ASSUME NEW readings, NEW n \in Nat, readings[n + 1].database,
         NEW delta \in Nat, NEW changed \in 0..n, Since(readings, n, delta, changed),
         NEW d \in Nat, d = readings[n + 1].delta,
         NEW since, since = IF d # delta THEN n + 1 ELSE changed
  PROVE  Since(readings, n + 1, d, since)
<1>1. PICK R, Q : R = Reached(readings, n) /\ Q = Reached(readings, n + 1)
  OBVIOUS
<1>2. Q = R \cup {n + 1} /\ R \subseteq 1..n
  BY <1>1 DEF Reached
<1>3. /\ \A a \in R : \E k \in R : a <= k /\ readings[k].delta = delta
      /\ delta > 0 => /\ changed \in R
                      /\ \A k \in R :
                           /\ changed <= k => readings[k].delta = delta
                           /\ k < changed => \E j \in R : k <= j /\ j < changed
                                                          /\ readings[j].delta # delta
  BY <1>1 DEF Since
<1>4. \A a \in Q : \E k \in Q : a <= k /\ readings[k].delta = d
  <2>1. n + 1 \in Q /\ \A a \in Q : a <= n + 1
    BY <1>2
  <2>. QED BY <2>1
<1>5. ASSUME d > 0
      PROVE  /\ since \in Q
             /\ \A k \in Q :
                  /\ since <= k => readings[k].delta = d
                  /\ k < since => \E j \in Q : k <= j /\ j < since /\ readings[j].delta # d
  <2>1. CASE d # delta
    <3>1. since = n + 1
      BY <2>1
    <3>2. \A k \in Q : since <= k => k = n + 1
      BY <1>2, <3>1
    <3>3. ASSUME NEW k \in Q, k < since
          PROVE  \E j \in Q : k <= j /\ j < since /\ readings[j].delta # d
      <4>1. k \in R
        BY <1>2, <3>1, <3>3
      <4>2. PICK j \in R : k <= j /\ readings[j].delta = delta
        BY <1>3, <4>1
      <4>. QED BY <1>2, <2>1, <3>1, <4>2
    <3>. QED BY <1>2, <3>1, <3>2, <3>3
  <2>2. CASE d = delta
    <3>1. since = changed /\ delta > 0 /\ changed \in R
      BY <1>3, <1>5, <2>2
    <3>2. ASSUME NEW k \in Q PROVE since <= k => readings[k].delta = d
      BY <1>2, <1>3, <2>2, <3>1
    <3>3. ASSUME NEW k \in Q, k < since
          PROVE  \E j \in Q : k <= j /\ j < since /\ readings[j].delta # d
      <4>1. k \in R
        BY <1>2, <3>1, <3>3
      <4>2. PICK j \in R : k <= j /\ j < changed /\ readings[j].delta # delta
        BY <1>3, <3>1, <3>3, <4>1
      <4>. QED BY <1>2, <2>2, <3>1, <4>2
    <3>. QED BY <1>2, <3>1, <3>2, <3>3
  <2>. QED BY <2>1, <2>2
<1>. QED BY <1>1, <1>4, <1>5 DEF Since

(* The longest time is then that of before or the one that lasts.          *)
LEMMA StillNow ==
  ASSUME NEW readings, NEW n \in Nat, readings[n + 1].database,
         NEW d \in Nat, d = readings[n + 1].delta,
         NEW since \in 0..(n + 1), Since(readings, n + 1, d, since)
  PROVE  Max(StillFor(readings, n + 1))
           = Greater(Max(StillFor(readings, n)), IF d > 0 THEN n + 1 - since ELSE 0)
<1>1. PICK S, T, R, Q : /\ S = StillFor(readings, n) /\ T = StillFor(readings, n + 1)
                        /\ R = Reached(readings, n) /\ Q = Reached(readings, n + 1)
  OBVIOUS
<1>2. Q = R \cup {n + 1} /\ R \subseteq 1..n
  BY <1>1 DEF Reached
<1>3. PICK e : e = IF d > 0 THEN n + 1 - since ELSE 0
  OBVIOUS
<1>4. \A a \in 1..n, l \in 0..n : Still(readings, n, a, a + l) <=>
                                    a + l <= n /\ Still(readings, n + 1, a, a + l)
  BY <1>1, <1>2 DEF Still
<1>5. S \subseteq T
  <2>1. ASSUME NEW l \in S PROVE l \in T
    <3>1. l \in 0..n /\ (l = 0 \/ \E a \in 1..n : Still(readings, n, a, a + l))
      BY <1>1, <2>1 DEF StillFor
    <3>2. l = 0 \/ \E a \in 1..(n + 1) : Still(readings, n + 1, a, a + l)
      BY <1>4, <3>1
    <3>. QED BY <1>1, <3>1, <3>2 DEF StillFor
  <2>. QED BY <2>1
<1>6. d > 0 => /\ since \in Q
               /\ \A k \in Q :
                    /\ since <= k => readings[k].delta = d
                    /\ k < since => \E j \in Q : k <= j /\ j < since /\ readings[j].delta # d
  BY <1>1 DEF Since
<1>7. e \in T
  <2>1. CASE d > 0
    <3>1. since \in Q /\ since \in 1..(n + 1) /\ e = n + 1 - since /\ e \in 0..(n + 1)
      BY <1>2, <1>3, <1>6, <2>1
    <3>2. Still(readings, n + 1, since, n + 1)
      <4>1. {since, n + 1} \subseteq Q /\ readings[since].delta = d
        BY <1>2, <1>6, <2>1, <3>1
      <4>. QED BY <1>1, <1>6, <2>1, <4>1 DEF Still
    <3>3. since + e = n + 1
      BY <3>1
    <3>. QED BY <1>1, <3>1, <3>2, <3>3 DEF StillFor
  <2>2. CASE ~(d > 0)
    BY <1>1, <1>3, <2>2 DEF StillFor
  <2>. QED BY <2>1, <2>2
<1>8. ASSUME NEW l \in T PROVE l \in S \/ l <= e
  <2>1. l \in 0..(n + 1) /\ (l = 0 \/ \E a \in 1..(n + 1) : Still(readings, n + 1, a, a + l))
    BY <1>1, <1>8 DEF StillFor
  <2>2. CASE l = 0
    BY <1>1, <2>2 DEF StillFor
  <2>3. ASSUME NEW a \in 1..(n + 1), Still(readings, n + 1, a, a + l)
        PROVE  l \in S \/ l <= e
    <3>1. /\ a \in Q /\ a + l \in Q /\ readings[a].delta > 0
          /\ \A k \in Q : a <= k /\ k <= a + l => readings[k].delta = readings[a].delta
      BY <1>1, <2>3 DEF Still
    <3>2. CASE a + l <= n
      <4>1. a \in 1..n /\ l \in 0..n
        BY <2>1, <3>2
      <4>. QED BY <1>1, <1>4, <2>3, <3>2, <4>1 DEF StillFor
    <3>3. CASE a + l = n + 1
      <4>1. readings[a].delta = d /\ d > 0
        BY <2>1, <3>1, <3>3
      <4>2. ~(a < since)
        <5> SUFFICES ASSUME a < since PROVE FALSE
          OBVIOUS
        <5>1. PICK j \in Q : a <= j /\ j < since /\ readings[j].delta # d
          BY <1>6, <3>1, <4>1
        <5>2. j <= a + l
          <6>1. j \in 1..(n + 1)
            BY <1>2, <5>1
          <6>. QED BY <3>3, <6>1
        <5>. QED BY <3>1, <4>1, <5>1, <5>2
      <4>. QED BY <1>3, <2>1, <3>3, <4>1, <4>2
    <3>. QED BY <1>2, <2>1, <3>1, <3>2, <3>3
  <2>. QED BY <2>1, <2>2, <2>3
<1>9. PICK s, t : s = Max(S) /\ t = Max(T)
  OBVIOUS
<1>10. /\ s \in S /\ s \in Nat /\ \A l \in S : l \in Nat /\ l <= s
       /\ t \in T /\ t \in Nat /\ \A l \in T : l \in Nat /\ l <= t
  <2>1. n + 1 \in Nat
    OBVIOUS
  <2>. QED BY <1>1, <1>9, <2>1, StillIs
<1>11. e \in Nat
  BY <1>7, <1>10
<1>12. s <= t /\ e <= t /\ (t <= s \/ t <= e)
  BY <1>5, <1>7, <1>8, <1>10
<1>13. t = IF s <= e THEN e ELSE s
  BY <1>10, <1>11, <1>12
<1>14. t = Greater(s, e)
  BY <1>10, <1>11, <1>13, GreaterIs
<1>. QED BY <1>1, <1>3, <1>9, <1>14

(* Of two times the longer in milliseconds is the longer in polls.         *)
LEMMA LongerIs ==
  ASSUME NEW i \in Nat, NEW a \in Nat, NEW b \in Nat
  PROVE  Greater(i * a, b * i) = i * Greater(a, b)
<1>1. PICK p, q : p = i * a /\ q = i * b
  OBVIOUS
<1>2. p \in Nat /\ q \in Nat /\ (a <= b => p <= q) /\ (b <= a => q <= p)
  BY <1>1, TimesGrows
<1>3. b * i = q
  BY <1>1
<1>4. Greater(p, q) = IF p <= q THEN q ELSE p
  BY <1>2, GreaterIs
<1>5. Greater(a, b) = IF a <= b THEN b ELSE a
  BY GreaterIs
<1>6. CASE a <= b
  BY <1>1, <1>2, <1>3, <1>4, <1>5, <1>6
<1>7. CASE ~(a <= b)
  <2>1. q <= p /\ Greater(a, b) = a
    BY <1>2, <1>5, <1>7
  <2>2. Greater(p, q) = p
    BY <1>2, <1>4, <2>1
  <2>. QED BY <1>1, <1>3, <2>1, <2>2
<1>. QED BY <1>6, <1>7

(* A poll that does not compare leaves the lag as it is.                   *)
LEMMA LagUnread ==
  ASSUME NEW c, Scenario(c), NEW m, NEW m2, LagTrue(c, m), m.polls < Len(c.readings),
         m2.polls = m.polls + 1, m2.lag = m.lag, m2.delta = m.delta, m2.changed = m.changed,
         c.mode = "stub" \/ ~c.readings[m2.polls].database
  PROVE  LagTrue(c, m2)
<1>1. PICK k : k = m.polls
  OBVIOUS
<1>2. Len(c.readings) \in Nat
  BY LenProperties DEF Scenario
<1>3. k \in Nat /\ k < Len(c.readings) /\ m2.polls = k + 1
  BY <1>1, <1>2 DEF LagTrue
<1>4. m2.polls \in 0..Len(c.readings) /\ m2.changed \in 0..m2.polls
  BY <1>1, <1>2, <1>3 DEF LagTrue
<1>5. ASSUME c.mode # "stub"
      PROVE  /\ m2.lag = METRICS_POLL_INTERVAL_MS * Max(StillFor(c.readings, m2.polls))
             /\ Since(c.readings, m2.polls, m2.delta, m2.changed)
  <2>1. ~c.readings[k + 1].database
    BY <1>3, <1>5
  <2>2. /\ Reached(c.readings, k + 1) = Reached(c.readings, k)
        /\ StillFor(c.readings, k + 1) = StillFor(c.readings, k)
    BY <1>3, <2>1, StillMissed
  <2>3. /\ m.lag = METRICS_POLL_INTERVAL_MS * Max(StillFor(c.readings, k))
        /\ Since(c.readings, k, m.delta, m.changed)
    BY <1>1, <1>5 DEF LagTrue
  <2>4. Since(c.readings, k + 1, m.delta, m.changed)
    BY <2>2, <2>3 DEF Since
  <2>. QED BY <1>3, <2>2, <2>3, <2>4
<1>. QED BY <1>4, <1>5 DEF LagTrue

(* A poll that does counts from the last change of the delta.              *)
LEMMA LagCompared ==
  ASSUME NEW c, Scenario(c), NEW m, NEW m2, LagTrue(c, m), m.polls < Len(c.readings),
         NEW n, n = m.polls + 1, m2.polls = n, c.mode # "stub",
         c.readings[n].database, m2.delta = c.readings[n].delta,
         m2.changed = (IF c.readings[n].delta # m.delta THEN n ELSE m.changed),
         m2.lag = Max({m.lag, IF c.readings[n].delta > 0
                              THEN (n - m2.changed) * METRICS_POLL_INTERVAL_MS ELSE 0})
  PROVE  LagTrue(c, m2)
<1>0. Len(c.readings) \in Nat
  BY LenProperties DEF Scenario
<1>1. PICK k, d, since, w, i : /\ k = m.polls /\ d = c.readings[n].delta /\ since = m2.changed
                               /\ w = Max(StillFor(c.readings, k)) /\ i = METRICS_POLL_INTERVAL_MS
  OBVIOUS
<1>2. /\ k \in Nat /\ n = k + 1 /\ n \in Nat \ {0} /\ n \in 1..Len(c.readings)
      /\ m.lag = i * w /\ m.changed \in 0..k /\ m.delta \in Nat
      /\ Since(c.readings, k, m.delta, m.changed)
  BY <1>0, <1>1 DEF LagTrue
<1>3. d \in Nat
  <2>1. c.readings \in Seq([database : BOOLEAN, depths : [Queues -> Nat], delta : Nat])
    BY DEF Scenario
  <2>2. c.readings[n] \in [database : BOOLEAN, depths : [Queues -> Nat], delta : Nat]
    BY <1>2, <2>1, ElementOfSeq
  <2>. QED BY <1>1, <2>2
<1>4. since \in 0..n
  BY <1>1, <1>2
<1>5. Since(c.readings, k + 1, d, since)
  <2>1. c.readings[k + 1].database /\ d = c.readings[k + 1].delta
    BY <1>1, <1>2
  <2>2. since = IF d # m.delta THEN k + 1 ELSE m.changed
    BY <1>1, <1>2
  <2>3. PICK readings, delta, changed :
          readings = c.readings /\ delta = m.delta /\ changed = m.changed
    OBVIOUS
  <2>4. /\ k \in Nat /\ readings[k + 1].database /\ delta \in Nat /\ changed \in 0..k
        /\ Since(readings, k, delta, changed) /\ d \in Nat /\ d = readings[k + 1].delta
        /\ since = IF d # delta THEN k + 1 ELSE changed
    BY <1>2, <1>3, <2>1, <2>2, <2>3
  <2>5. Since(readings, k + 1, d, since)
    BY ONLY <2>4, SinceNow
  <2>. QED BY <2>3, <2>5
<1>6. PICK g : g = IF d > 0 THEN k + 1 - since ELSE 0
  OBVIOUS
<1>7. w \in Nat /\ g \in Nat /\ i \in Nat
  <2>1. w \in Nat
    BY <1>1, <1>2, StillIs
  <2>2. g \in Nat
    BY <1>2, <1>4, <1>6
  <2>3. i \in Nat
    BY <1>1, TwinAssumption
  <2>. QED BY <2>1, <2>2, <2>3
<1>8. Max(StillFor(c.readings, k + 1)) = Greater(w, g)
  <2>1. c.readings[k + 1].database /\ d = c.readings[k + 1].delta /\ since \in 0..(k + 1)
    BY <1>1, <1>2, <1>4
  <2>2. Max(StillFor(c.readings, k + 1))
          = Greater(Max(StillFor(c.readings, k)), IF d > 0 THEN k + 1 - since ELSE 0)
    BY <1>2, <1>3, <1>5, <2>1, StillNow
  <2>. QED BY <1>1, <1>6, <2>2
<1>9. m2.lag = Greater(i * w, g * i)
  <2>1. (IF c.readings[n].delta > 0 THEN (n - m2.changed) * METRICS_POLL_INTERVAL_MS ELSE 0) = g * i
    <3>1. CASE d > 0
      <4>1. g = n - since
        BY <1>2, <1>4, <1>6, <3>1
      <4>2. g = n - m2.changed /\ c.readings[n].delta > 0
        BY <1>1, <3>1, <4>1
      <4>. QED BY <1>1, <4>2
    <3>2. CASE ~(d > 0)
      <4>1. g = 0 /\ 0 * i = 0
        BY <1>6, <1>7, <3>2
      <4>. QED BY <1>1, <3>2, <4>1
    <3>. QED BY <3>1, <3>2
  <2>2. m2.lag = Max({m.lag, g * i})
    BY <2>1
  <2>. QED BY <1>2, <2>2 DEF Greater
<1>10. m2.lag = i * Greater(w, g)
  BY <1>7, <1>9, LongerIs
<1>11. m2.lag \in Nat
  <2>1. PICK x : x = Greater(w, g)
    OBVIOUS
  <2>2. x \in Nat
    BY <1>7, <2>1, GreaterIs
  <2>. QED BY <1>7, <1>10, <2>1, <2>2, TimesGrows
<1>12. /\ m2.lag = METRICS_POLL_INTERVAL_MS * Max(StillFor(c.readings, m2.polls))
       /\ Since(c.readings, m2.polls, m2.delta, m2.changed)
  BY <1>1, <1>2, <1>5, <1>8, <1>10
<1>. QED BY <1>1, <1>2, <1>3, <1>4, <1>11, <1>12 DEF LagTrue

(* A run's steps keep its lag that of the polls.                           *)
LEMMA LagSteps ==
  ASSUME RunsFine, NEW r \in Runs, RunStep(r), LagTrue(config[r], metrics[r])
  PROVE  LagTrue(config[r], metrics'[r])
<1>1. CASE \/ Kept(metrics[r], metrics'[r]) \/ Told(config[r], metrics[r], metrics'[r])
           \/ Shown(metrics[r], metrics'[r])
  <2>1. /\ metrics'[r].polls = metrics[r].polls /\ metrics'[r].lag = metrics[r].lag
        /\ metrics'[r].delta = metrics[r].delta /\ metrics'[r].changed = metrics[r].changed
    BY <1>1 DEF Kept, Told, Shown, SameBut, MetricFields
  <2>. QED BY <2>1 DEF LagTrue
<1>2. CASE Poll(r)
  <2>0. Scenario(config[r]) /\ Mode(r) = config[r].mode
    BY OfStock, OfRun DEF Mode
  <2>1. PICK c, m, m2 : c = config[r] /\ m = metrics[r] /\ m2 = metrics'[r]
    OBVIOUS
  <2>2. PICK n : n = m.polls + 1
    OBVIOUS
  <2>3. /\ m.polls < Len(c.readings) /\ m2.polls = n
        /\ \/ /\ c.mode = "stub" /\ m2.delta = m.delta /\ m2.changed = m.changed /\ m2.lag = m.lag
           \/ /\ c.mode # "stub" /\ ~c.readings[n].database
              /\ m2.delta = m.delta /\ m2.changed = m.changed /\ m2.lag = m.lag
           \/ /\ c.mode # "stub" /\ c.readings[n].database /\ m2.delta = c.readings[n].delta
              /\ m2.changed = (IF c.readings[n].delta # m.delta THEN n ELSE m.changed)
              /\ m2.lag = Max({m.lag, IF c.readings[n].delta > 0
                                      THEN (n - m2.changed) * METRICS_POLL_INTERVAL_MS ELSE 0})
    BY <1>2, <2>0, <2>1, <2>2, PollIs
  <2>4. Scenario(c) /\ LagTrue(c, m)
    BY <2>0, <2>1
  <2>5. ASSUME c.mode = "stub" \/ ~c.readings[n].database PROVE LagTrue(c, m2)
    BY ONLY <2>2, <2>3, <2>4, <2>5, LagUnread
  <2>6. ASSUME c.mode # "stub", c.readings[n].database PROVE LagTrue(c, m2)
    <3>1. /\ m2.delta = c.readings[n].delta
          /\ m2.changed = (IF c.readings[n].delta # m.delta THEN n ELSE m.changed)
          /\ m2.lag = Max({m.lag, IF c.readings[n].delta > 0
                                  THEN (n - m2.changed) * METRICS_POLL_INTERVAL_MS ELSE 0})
      BY ONLY <2>3, <2>6
    <3>. QED BY ONLY <2>2, <2>3, <2>4, <2>6, <3>1, LagCompared
  <2>. QED BY ONLY <2>1, <2>5, <2>6
<1>. QED BY <1>1, <1>2, MetricSteps

(* A run's steps keep what its collector knows of its stock true.          *)
LEMMA WitnessSteps ==
  ASSUME RunsFine, Observe, NEW r \in Runs, RunStep(r),
         Witnessed(config[r], run[r], metrics[r], history[r].emptied), SeriesTrue(metrics[r]), LagTrue(config[r], metrics[r])
  PROVE  Witnessed(config[r], run'[r], metrics'[r], history'[r].emptied)
<1> DEFINE z == history[r].emptied
           z2 == history'[r].emptied
<1>0. /\ DOMAIN run = Runs /\ DOMAIN run[r] = RunFields
      /\ DOMAIN metrics = Runs /\ DOMAIN metrics[r] = MetricFields
  BY OfRun DEF RunsFine
<1>1. z \subseteq z2
  BY EmptiedIs
<1>2. metrics'[r].polling => PolledAt(config[r], run'[r])
  BY PollingSteps DEF Witnessed
<1>3. /\ DOMAIN metrics'[r].depths \subseteq Queues
      /\ Empties(metrics'[r].levels) \subseteq z2
  <2>1. CASE \/ Kept(metrics[r], metrics'[r]) \/ Told(config[r], metrics[r], metrics'[r])
             \/ Shown(metrics[r], metrics'[r])
    <3>1. metrics'[r].depths = metrics[r].depths /\ metrics'[r].levels = metrics[r].levels
      BY <2>1 DEF Kept, Told, Shown, SameBut, MetricFields
    <3>. QED BY <1>1, <3>1 DEF Witnessed
  <2>2. CASE Poll(r)
    <3>1. /\ metrics'[r].depths \in {metrics[r].depths, config[r].readings[metrics[r].polls + 1].depths}
          /\ metrics'[r].levels = Readable(stock[Mode(r)]) /\ metrics[r].polling
          /\ metrics[r].polls < Len(config[r].readings)
      BY <2>2, PollIs
    <3>2. run' = run /\ stock' = stock /\ config' = config
      BY <2>2 DEF Poll
    <3>3. run[r].status = "running" /\ (Mode(r) = "stub" => run'[r].step # "refill")
      BY <3>1, <3>2 DEF Witnessed, PolledAt, Mode
    <3>4. {i \in Items : Readable(stock[Mode(r)])'[i] = 0} \subseteq z2
      BY <3>3, EmptiedIs
    <3>5. Readable(stock[Mode(r)])' = Readable(stock[Mode(r)])
      BY <3>2 DEF Mode, Readable
    <3>6. Empties(metrics'[r].levels) \subseteq z2
      <4>1. DOMAIN metrics'[r].levels = Items
        BY <3>1 DEF Readable
      <4>. QED BY <3>1, <3>4, <3>5, <4>1 DEF Empties
    <3>7. DOMAIN config[r].readings[metrics[r].polls + 1].depths \subseteq Queues
      <4>1. config[r].readings \in Seq([database : BOOLEAN, depths : [Queues -> Nat], delta : Nat])
        BY OfRun DEF Scenario
      <4>2. metrics[r].polls \in Nat
        BY DEF LagTrue
      <4>3. metrics[r].polls + 1 \in 1..Len(config[r].readings)
        BY <3>1, <4>1, <4>2, LenProperties
      <4>4. config[r].readings[metrics[r].polls + 1]
              \in [database : BOOLEAN, depths : [Queues -> Nat], delta : Nat]
        BY <4>1, <4>3, ElementOfSeq
      <4>. QED BY <4>4
    <3>. QED BY <3>1, <3>6, <3>7 DEF Witnessed
  <2>. QED BY <2>1, <2>2, MetricSteps
<1>4. SeenIn(metrics'[r].series, z2)
  <2>1. CASE metrics'[r].series = metrics[r].series
    BY <1>1, <2>1 DEF Witnessed, SeenIn
  <2>2. CASE Shown(metrics[r], metrics'[r])
    <3>1. metrics'[r].series = Append(metrics[r].series, Snapshot(metrics[r]))
      BY <2>2 DEF Shown
    <3>2. PICK S : metrics[r].series \in Seq(S)
      BY DEF SeriesTrue
    <3>3. PICK b : b = Snapshot(metrics[r])
      OBVIOUS
    <3>4. DOMAIN b.depths \subseteq Queues /\ Empties(b.levels) \subseteq z2
      BY <1>1, <3>3 DEF Snapshot, Witnessed
    <3> HIDE DEF z2
    <3>5. SeenIn(Append(metrics[r].series, b), z2)
      BY <1>1, <3>2, <3>4, SeenAppend DEF Witnessed
    <3>. QED BY <3>1, <3>3, <3>5
  <2>3. \/ metrics'[r].series = metrics[r].series \/ Shown(metrics[r], metrics'[r])
    <3>1. CASE Kept(metrics[r], metrics'[r])
      BY ONLY <3>1 DEF Kept, SameBut, MetricFields
    <3>2. CASE Told(config[r], metrics[r], metrics'[r])
      BY ONLY <3>2 DEF Told, SameBut, MetricFields
    <3>3. CASE Poll(r)
      BY <3>3, PollIs
    <3>. QED BY <3>1, <3>2, <3>3, MetricSteps
  <2>. QED BY <2>1, <2>2, <2>3
<1>5. CASE run'[r].report = run[r].report
  BY <1>1, <1>2, <1>3, <1>4, <1>5, SeenMore
<1>6. CASE End(r)
  <2>1. PICK series : series = metrics'[r].series
    OBVIOUS
  <2>2. run'[r].report.breaks = BreakFirst(series)
    <3>1. metrics'[r].series = Append(metrics[r].series, Snapshot(metrics[r]))
      BY <1>0, <1>6 DEF End, MetricFields
    <3>2. run'[r].report = Report(Len(Baskets(r)), metrics[r].outcomes, Baskets(r),
                                  InitialStock(r), FinalStock(r), series)
      BY <1>0, <1>6, <2>1, <3>1 DEF End, RunFields
    <3>. QED BY <3>2 DEF Report
  <2>3. BreaksReal(run'[r].report.breaks, z2)
    BY <1>4, <2>1, <2>2, BreaksAre
  <2>. QED BY <1>2, <1>3, <1>4, <2>3 DEF Witnessed
<1>7. run'[r].report = run[r].report \/ End(r)
  BY ReportsEnd
<1>. QED BY <1>5, <1>6, <1>7

(* What a run's collector and its report say is true.                      *)
TrueSoFar(r) ==
  /\ SeriesTrue(metrics[r]) /\ LagTrue(config[r], metrics[r])
  /\ Witnessed(config[r], run[r], metrics[r], history[r].emptied)

(* The inductive invariant of the report.                                  *)
TruthInv == RunsFine /\ \A r \in Runs : TrueSoFar(r)

(* A run that takes no step says what it said.                             *)
LEMMA OtherTruth ==
  ASSUME NEW r \in Runs, TrueSoFar(r), config' = config, run'[r] = run[r],
         metrics'[r] = metrics[r], history[r].emptied \subseteq history'[r].emptied
  PROVE  TrueSoFar(r)'
<1>1. Witnessed(config[r], run[r], metrics[r], history[r].emptied)
  BY DEF TrueSoFar
<1>2. /\ DOMAIN metrics[r].depths \subseteq Queues
      /\ metrics[r].polling => PolledAt(config[r], run[r])
      /\ Empties(metrics[r].levels) \subseteq history'[r].emptied
      /\ SeenIn(metrics[r].series, history'[r].emptied)
  BY <1>1 DEF Witnessed, SeenIn
<1>3. Witnessed(config[r], run'[r], metrics'[r], history'[r].emptied)
  BY <1>1, <1>2, SeenMore
<1>. QED BY <1>3 DEF TrueSoFar

(* Every step keeps the reports true.                                      *)
LEMMA StepTrue ==
  ASSUME TruthInv, Next
  PROVE  TruthInv'
<1>0. RunsFine /\ Observe /\ \A r \in Runs : TrueSoFar(r)
  BY WhoSteps DEF TruthInv
<1>1. RunsFine'
  BY <1>0, StepFine
<1>2. \A r \in Runs : history[r].emptied \subseteq history'[r].emptied
  BY <1>0, EmptiedIs
<1>3. CASE OthersTrade
  <2>1. UNCHANGED <<config, run, metrics>>
    BY <1>3 DEF OthersTrade
  <2>2. \A r \in Runs : TrueSoFar(r)'
    BY <1>0, <1>2, <2>1, OtherTruth
  <2>. QED BY <1>1, <2>2 DEF TruthInv
<1>4. ASSUME NEW q \in Runs, RunStep(q) PROVE TruthInv'
  <2>1. OnlyOf(q)
    BY <1>0, <1>4, RunSteps
  <2>2. ASSUME NEW r \in Runs \ {q} PROVE TrueSoFar(r)'
    <3>1. config' = config /\ run'[r] = run[r] /\ metrics'[r] = metrics[r]
      BY <2>1, <2>2 DEF OnlyOf
    <3>. QED BY <1>0, <1>2, <3>1, OtherTruth
  <2>3. TrueSoFar(q)'
    <3>1. config' = config
      BY <2>1 DEF OnlyOf
    <3>2. SeriesTrue(metrics[q]) /\ LagTrue(config[q], metrics[q])
      BY <1>0 DEF TrueSoFar
    <3>3. SeriesTrue(metrics'[q]) /\ LagTrue(config[q], metrics'[q])
      BY <1>0, <1>4, <3>2, SeriesSteps, LagSteps
    <3>4. Witnessed(config[q], run'[q], metrics'[q], history'[q].emptied)
      BY <1>0, <1>4, <3>2, WitnessSteps DEF TrueSoFar
    <3>. QED BY <3>1, <3>3, <3>4 DEF TrueSoFar
  <2>. QED BY <1>1, <2>2, <2>3 DEF TruthInv
<1>. QED BY <1>0, <1>3, <1>4, WhoSteps

(* At first nothing has been said.                                         *)
LEMMA InitTrue == Init => TruthInv
<1> SUFFICES ASSUME Init PROVE TruthInv
  OBVIOUS
<1>1. RunsFine
  BY InitFine
<1>2. ASSUME NEW r \in Runs PROVE TrueSoFar(r)
  <2>1. metrics[r] = [polling |-> FALSE, polls |-> 0, outcomes |-> <<>>, levels |-> <<>>,
                      depths |-> <<>>, delta |-> 0, changed |-> 0, lag |-> 0, series |-> <<>>]
    BY DEF Init
  <2>2. run[r].report = <<>>
    BY DEF Init
  <2>3. SeriesTrue(metrics[r])
    <3>1. metrics[r].series = <<>> /\ DOMAIN <<>> = {}
      BY <2>1
    <3>2. <<>> \in Seq({})
      BY EmptySeq
    <3>. QED BY <3>1, <3>2 DEF SeriesTrue
  <2>4. LagTrue(config[r], metrics[r])
    <3>1. Len(config[r].readings) \in Nat
      BY <1>1, OfRun, LenProperties DEF Scenario
    <3>2. PICK w : w = Max(StillFor(config[r].readings, 0))
      OBVIOUS
    <3>3. w \in StillFor(config[r].readings, 0)
      BY <3>2, StillIs
    <3>4. w = 0
      BY <3>3 DEF StillFor
    <3>5. METRICS_POLL_INTERVAL_MS * w = 0
      BY <3>4, TwinAssumption
    <3>6. Since(config[r].readings, 0, 0, 0)
      BY DEF Since, Reached
    <3>. QED BY <2>1, <3>1, <3>2, <3>5, <3>6 DEF LagTrue
  <2>5. Witnessed(config[r], run[r], metrics[r], history[r].emptied)
    BY <2>1, <2>2 DEF Witnessed, SeenIn, Empties
  <2>. QED BY <2>3, <2>4, <2>5 DEF TrueSoFar
<1>. QED BY <1>1, <1>2 DEF TruthInv

(* What a run reports has happened: its snapshots are those of its orders, *)
(* its exhaustions those of its stock, and the lag of a live run is the    *)
(* longest time its polls saw one difference of the two stores stand.      *)
THEOREM ReportsTellTheTruth == Spec => []ReportIsTrue
<1>1. TruthInv /\ [Next]_vars => TruthInv'
  <2> SUFFICES ASSUME TruthInv, [Next]_vars PROVE TruthInv'
    OBVIOUS
  <2>1. CASE vars' = vars
    <3>1. RunsFine'
      BY StepFine DEF TruthInv
    <3>2. \A r \in Runs : TrueSoFar(r)'
      BY <2>1, OtherTruth DEF TruthInv, vars, twin
    <3>. QED BY <3>1, <3>2 DEF TruthInv
  <2>. QED BY <2>1, StepTrue
<1>2. TruthInv => ReportIsTrue
  <2> SUFFICES ASSUME TruthInv PROVE ReportIsTrue
    OBVIOUS
  <2>1. SnapshotsAgree
    <3>1. ASSUME NEW r \in Runs
          PROVE  /\ Scenario(config[r]) /\ metrics[r].outcomes \in Seq(Outcome(config[r]))
                 /\ SeriesTrue(metrics[r])
      BY OfRun DEF TruthInv, TrueSoFar, RunFine, Fine, Counted
    <3>. QED BY <3>1, TakenSays DEF SnapshotsAgree
  <2>2. ExhaustionIsReal
    <3>1. ASSUME NEW r \in Runs, run[r].status \in {"completed", "cancelled"}
          PROVE  BreaksReal(run[r].report.breaks, history[r].emptied)
      <4>1. run[r].report # <<>>
        BY <3>1 DEF TruthInv, RunsFine, RunFine, Fine, Reported
      <4>. QED BY <3>1, <4>1 DEF TruthInv, TrueSoFar, Witnessed
    <3>. QED BY <3>1 DEF ExhaustionIsReal, BreaksReal
  <2>3. LagIsOfOneDelta
    BY DEF TruthInv, TrueSoFar, LagTrue, LagIsOfOneDelta, Mode
  <2>. QED BY <2>1, <2>2, <2>3 DEF ReportIsTrue
<1>. QED BY <1>1, <1>2, InitTrue, PTL DEF Spec

==============================================================================
