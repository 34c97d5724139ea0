----------------------------- MODULE StockProofs -----------------------------
(***************************************************************************)
(* Theorems about the stock service, for any bounds: its write-behind      *)
(* worker never takes a row back in time; its handlers announce every      *)
(* sell-out they are told of and mint no units but those of releases that  *)
(* Redis ran again; and the start of the stack opens with full stores and  *)
(* leaves no services behind, unless it gave up on its gateway.            *)
(***************************************************************************)
EXTENDS StockService, WriteBehind, StackStart, Sums

-----------------------------------------------------------------------------
(* Sequences of keys, filtered.                                            *)

(* A nonempty set of natural numbers has a least member.                   *)
LEMMA Least ==
  ASSUME NEW T \in SUBSET Nat, T # {} PROVE \E m \in T : \A n \in T : m <= n
<1>1. PICK max : max \in T
  OBVIOUS
<1> DEFINE U == {1..m : m \in {n \in T : n <= max}}
<1>2. IsFiniteSet(1..max) /\ 1..max \in U /\ U \in SUBSET (SUBSET (1..max))
  <2>1. max \in Int /\ max \in {n \in T : n <= max}
    BY <1>1
  <2>2. IsFiniteSet(1..max)
    BY <2>1, FS_Interval
  <2>3. \A m \in {n \in T : n <= max} : 1..m \subseteq 1..max
    BY <1>1
  <2>4. 1..max \in U
    BY <2>1
  <2>5. \A t \in U : t \subseteq 1..max
    BY <2>3
  <2> HIDE DEF U
  <2>6. QED
    BY <2>2, <2>4, <2>5
<1>3. PICK s \in U : \A t \in U : ~(t \subseteq s /\ t # s)
  <2> DEFINE S == 1..max
  <2>1. IsFiniteSet(S) /\ U \in SUBSET (SUBSET S) /\ U # {}
    BY <1>2
  <2> HIDE DEF U, S
  <2>2. QED
    BY <2>1, MinimalSubset
<1>4. PICK m \in T : m <= max /\ s = 1..m
  BY <1>3
<1>5. ASSUME NEW n \in T, n < m PROVE FALSE
  <2>1. 1..n \in U /\ 1..n \subseteq 1..m /\ m \in 1..m /\ m \notin 1..n
    BY <1>1, <1>4, <1>5
  <2>2. QED
    BY <1>3, <1>4, <2>1
<1>6. QED
  BY <1>4, <1>5

(* F holds what is there of the first keys of s, up to the m-th.           *)
IsFilter(F, s, m) ==
  F = [n \in 0..m |-> IF n = 0 THEN <<>>
                      ELSE IF Exists(s[n]) THEN Append(F[n - 1], s[n]) ELSE F[n - 1]]

(* There is such a function.                                               *)
LEMMA FilterExists == ASSUME NEW s PROVE \A m \in Nat : \E F : IsFilter(F, s, m)
<1> DEFINE T == {m \in Nat : ~\E F : IsFilter(F, s, m)}
<1>1. T \in SUBSET Nat
  OBVIOUS
<1>2. ASSUME T # {} PROVE FALSE
  <2>1. PICK m \in T : \A n \in T : m <= n
    <3> HIDE DEF T
    <3>1. QED
      BY <1>1, <1>2, Least
  <2>2. CASE m = 0
    <3> DEFINE F == [n \in 0..m |-> <<>>]
    <3>1. IsFilter(F, s, m)
      BY <2>2 DEF IsFilter
    <3>2. QED
      BY <3>1
  <2>3. CASE m # 0
    <3>1. m - 1 \in Nat /\ m - 1 \notin T /\ m \in Nat
      BY <2>1, <2>3
    <3>2. PICK F : IsFilter(F, s, m - 1)
      BY <3>1
    <3> DEFINE last == IF Exists(s[m]) THEN Append(F[m - 1], s[m]) ELSE F[m - 1]
               G == [n \in 0..m |-> IF n = m THEN last ELSE F[n]]
               filtered(n) == IF n = 0 THEN <<>>
                              ELSE IF Exists(s[n]) THEN Append(G[n - 1], s[n]) ELSE G[n - 1]
    <3>3. ASSUME NEW n \in 0..m PROVE G[n] = filtered(n)
      <4>1. CASE n = m
        <5>1. G[n - 1] = F[n - 1]
          BY <3>1, <4>1
        <5>2. QED
          BY <2>3, <4>1, <5>1
      <4>2. CASE n # m
        <5>1. n \in 0..(m - 1) /\ (n # 0 => n - 1 \in 0..(m - 1))
          BY <3>1, <4>2
        <5>2. F[n] = IF n = 0 THEN <<>>
                     ELSE IF Exists(s[n]) THEN Append(F[n - 1], s[n]) ELSE F[n - 1]
          BY <3>2, <5>1 DEF IsFilter
        <5>3. G[n] = F[n] /\ (n # 0 => G[n - 1] = F[n - 1])
          BY <3>1, <4>2, <5>1
        <5>4. QED
          BY <5>2, <5>3
      <4>3. QED
        BY <4>1, <4>2
    <3>4. G = [n \in 0..m |-> G[n]]
      OBVIOUS
    <3>5. [n \in 0..m |-> G[n]] = [n \in 0..m |-> filtered(n)]
      BY <3>3
    <3>6. IsFilter(G, s, m)
      BY <3>4, <3>5 DEF IsFilter
    <3>7. QED
      BY <3>6
  <2>4. QED
    BY <2>2, <2>3
<1>3. QED
  BY <1>2

(* What is there is a sequence of keys that exist.                         *)
LEMMA ExistingType ==
  ASSUME NEW s \in Seq(Keys) PROVE Existing(s) \in Seq({i \in Keys : Exists(i)})
<1> DEFINE F == CHOOSE F : IsFilter(F, s, Len(s))
           S == Seq({i \in Keys : Exists(i)})
           T == {n \in 0..Len(s) : F[n] \notin S}
<1>1. Len(s) \in Nat
  OBVIOUS
<1>2. IsFilter(F, s, Len(s))
  <2>1. PICK G : IsFilter(G, s, Len(s))
    BY <1>1, FilterExists
  <2>2. QED
    BY <2>1 DEF IsFilter
<1>3. Existing(s) = F[Len(s)]
  BY Zenon DEF Existing, IsFilter
<1> HIDE DEF F
<1>4. ASSUME T # {} PROVE FALSE
  <2>1. T \in SUBSET Nat
    BY <1>1
  <2>2. PICK m \in T : \A n \in T : m <= n
    <3> HIDE DEF T
    <3>1. QED
      BY <1>4, <2>1, Least
  <2>3. F[m] = IF m = 0 THEN <<>> ELSE IF Exists(s[m]) THEN Append(F[m - 1], s[m]) ELSE F[m - 1]
    BY <1>2, <2>2 DEF IsFilter
  <2>4. m # 0
    <3>1. <<>> \in S
      OBVIOUS
    <3>2. QED
      BY <2>2, <2>3, <3>1
  <2>5. m - 1 \in 0..Len(s) /\ s[m] \in Keys /\ m \in Nat
    BY <1>1, <2>2, <2>4
  <2>6. F[m - 1] \in S
    BY <2>2, <2>5
  <2>7. Exists(s[m]) => Append(F[m - 1], s[m]) \in S
    <3> DEFINE there == {i \in Keys : Exists(i)}
               q == F[m - 1]
    <3>1. Exists(s[m]) => s[m] \in there
      BY <2>5
    <3>2. q \in Seq(there)
      BY <2>6
    <3> HIDE DEF there, q
    <3>3. Exists(s[m]) => Append(q, s[m]) \in Seq(there)
      BY <3>1, <3>2
    <3>4. QED
      BY <3>3 DEF there, q
  <2>8. F[m] \in S
    BY <2>3, <2>4, <2>6, <2>7
  <2>9. QED
    BY <2>2, <2>8
<1>5. Len(s) \notin T
  BY <1>4
<1>6. F[Len(s)] \in S
  BY <1>1, <1>5
<1>7. QED
  BY <1>3, <1>6

-----------------------------------------------------------------------------
(* The write-behind worker.                                                *)

(* What a flush has read is not newer than the keys nor older than the     *)
(* rows, and where a key was read twice, the later value comes later.      *)
SnapshotOK(read) ==
  /\ \A n \in 1..Len(read) :
       /\ read[n].version <= writes[read[n].itemId]
       /\ read[n].itemId \in Catalog => synced[read[n].itemId] <= read[n].version
  /\ \A m, n \in 1..Len(read) :
       m <= n /\ read[m].itemId = read[n].itemId => read[m].version <= read[n].version

(* No two flushes overlap, and what the only one holds can be written.     *)
FlushInv ==
  /\ \A f, g \in Flushes : at[f] # "idle" /\ at[g] # "idle" => f = g
  /\ \A i \in Catalog : synced[i] <= writes[i]
  /\ \A f \in Flushes :
       /\ at[f] = "upsert" => updates[f] # <<>>
       /\ at[f] # "idle" => inFlight /\ SnapshotOK(updates[f])

SyncIInv == SyncTypeOK /\ FlushInv

(* The bounds of the worker are numbers, its tables' keys what they seem.  *)
LEMMA SyncBounds ==
  /\ STOCK_SCAN_COUNT \in Nat /\ IntegerMax \in Nat /\ MaxKeyWrites \in Nat
  /\ MaxFailures \in Nat /\ 0 \in 0..MaxFailures
  /\ Catalog \subseteq Keys /\ NewLevels \subseteq Levels /\ ScanOrders \subseteq Seq(Keys)
BY KeyAssumption, BoundAssumption

(* A failure is counted up to the bound.                                   *)
LEMMA FailureCounted ==
  ASSUME failures \in 0..MaxFailures, failures < MaxFailures
  PROVE  failures + 1 \in 0..MaxFailures
BY SyncBounds

(* A flush that reads or writes nothing keeps what it holds.               *)
LEMMA HeldKeeps ==
  ASSUME SyncTypeOK, NEW read \in Seq(Update), SnapshotOK(read),
         \A i \in Keys : writes'[i] \in Nat /\ writes'[i] >= writes[i],
         synced' = synced
  PROVE  SnapshotOK(read)'
<1>1. \A n \in 1..Len(read) : read[n] \in Update
  OBVIOUS
<1>2. \A n \in 1..Len(read) : read[n].itemId \in Keys /\ read[n].version \in Nat
  BY <1>1 DEF Update
<1>3. \A i \in Keys : writes[i] \in Nat
  BY DEF SyncTypeOK
<1>4. ASSUME NEW n \in 1..Len(read) PROVE read[n].version <= writes'[read[n].itemId]
  BY <1>2, <1>3 DEF SnapshotOK
<1>5. QED
  BY <1>4 DEF SnapshotOK

(* A key is written: its versions grow.                                    *)
LEMMA WriteSync ==
  ASSUME SyncIInv, NEW i \in Keys, NEW level \in NewLevels, Write(i, level) PROVE SyncIInv'
<1>1. /\ levelOf' = [levelOf EXCEPT ![i] = level] /\ writes' = [writes EXCEPT ![i] = @ + 1]
      /\ UNCHANGED <<scanOrder, rows, synced, inFlight, at, cursor, keys, updates, failures>>
  BY DEF Write, postgres
<1>2. level \in Levels /\ Catalog \subseteq Keys
  BY SyncBounds
<1>3. /\ levelOf' \in [Keys -> Levels] /\ writes' \in [Keys -> Nat]
      /\ \A k \in Keys : writes'[k] >= writes[k]
  BY <1>1, <1>2 DEF SyncIInv, SyncTypeOK
<1>4. SyncTypeOK'
  BY <1>1, <1>3 DEF SyncIInv, SyncTypeOK
<1>5. ASSUME NEW f \in Flushes, at[f] # "idle" PROVE SnapshotOK(updates[f])'
  <2>1. PICK read \in Seq(Update) : read = updates[f]
    BY DEF SyncIInv, SyncTypeOK
  <2>2. SnapshotOK(read)'
    BY <1>1, <1>3, <1>5, <2>1, HeldKeeps DEF SyncIInv, FlushInv
  <2>3. QED
    BY <1>1, <2>1, <2>2 DEF SnapshotOK
<1>6. \A k \in Catalog : synced'[k] <= writes'[k]
  BY <1>1, <1>2, <1>3 DEF SyncIInv, SyncTypeOK, FlushInv
<1>7. FlushInv'
  BY <1>1, <1>5, <1>6 DEF SyncIInv, FlushInv
<1>8. QED
  BY <1>4, <1>7 DEF SyncIInv

(* The timer starts a flush where there is none, with nothing read.        *)
LEMMA TickSync == ASSUME SyncIInv, Tick PROVE SyncIInv'
<1>1. PICK f \in Flushes :
        /\ inFlight' = TRUE /\ at' = [at EXCEPT ![f] = "scan"]
        /\ cursor' = [cursor EXCEPT ![f] = 0] /\ updates' = [updates EXCEPT ![f] = <<>>]
        /\ ~inFlight
        /\ UNCHANGED <<levelOf, writes, scanOrder, rows, synced, keys, failures>>
  <2> DEFINE idle == {f \in Flushes : at[f] = "idle"}
             f == CHOOSE x \in idle : TRUE
  <2>1. idle # {}
    BY DEF Tick
  <2>2. f \in idle
    BY <2>1
  <2>3. f \in Flushes
    BY <2>2
  <2>4. QED
    BY <2>3 DEF Tick, MayFlush, redis, postgres
<1>2. \A g \in Flushes : at[g] = "idle"
  BY <1>1 DEF SyncIInv, FlushInv
<1>3. SyncTypeOK'
  <2>1. <<>> \in Seq(Update)
    OBVIOUS
  <2>2. QED
    BY <1>1, <2>1 DEF SyncIInv, SyncTypeOK
<1>4. updates'[f] = <<>> /\ \A g \in Flushes : at'[g] = IF g = f THEN "scan" ELSE "idle"
  BY <1>1, <1>2 DEF SyncIInv, SyncTypeOK
<1>5. SnapshotOK(updates[f])'
  BY <1>4 DEF SnapshotOK
<1>6. FlushInv'
  BY <1>1, <1>4, <1>5 DEF SyncIInv, FlushInv
<1>7. QED
  BY <1>3, <1>6 DEF SyncIInv

(* A page is done: what was read is kept until it is upserted.             *)
LEMMA NextPageSync ==
  ASSUME SyncIInv, NEW f \in Flushes, at[f] # "idle", NEW next \in Nat,
         NEW read \in Seq(Update), SnapshotOK(read), NextPage(f, next, read),
         UNCHANGED <<redis, postgres, keys, failures>>
  PROVE  SyncIInv'
<1>1. /\ cursor' = [cursor EXCEPT ![f] = next] /\ updates' = [updates EXCEPT ![f] = read]
      /\ UNCHANGED <<levelOf, writes, scanOrder, rows, synced, keys, failures>>
  BY DEF NextPage, redis, postgres
<1>2. /\ at' \in [Flushes -> {"idle", "scan", "mget", "upsert"}] /\ inFlight' \in BOOLEAN
      /\ \A g \in Flushes : g # f => at'[g] = at[g]
      /\ at'[f] = "upsert" => read # <<>>
      /\ at'[f] # "idle" => inFlight' = inFlight
  BY DEF NextPage, Finish, SyncIInv, SyncTypeOK
<1>3. SyncTypeOK'
  BY <1>1, <1>2 DEF SyncIInv, SyncTypeOK
<1>4. \A g \in Flushes : g # f => at'[g] = "idle"
  BY <1>2 DEF SyncIInv, FlushInv
<1>5. updates'[f] = read
  BY <1>1 DEF SyncIInv, SyncTypeOK
<1>6. SnapshotOK(updates[f])'
  BY <1>1, <1>5 DEF SnapshotOK
<1>7. inFlight
  BY DEF SyncIInv, FlushInv
<1>8. FlushInv'
  BY <1>1, <1>2, <1>4, <1>5, <1>6, <1>7 DEF SyncIInv, FlushInv
<1>9. QED
  BY <1>3, <1>8 DEF SyncIInv

(* SCAN answers: keys to read, or the end of the keyspace.                 *)
LEMMA ScanSync == ASSUME SyncIInv, NEW f \in Flushes, Scan(f) PROVE SyncIInv'
<1> DEFINE last == Min({cursor[f] + STOCK_SCAN_COUNT, Len(scanOrder)})
           slots == SubSeq(scanOrder, cursor[f] + 1, last)
           next == IF last = Len(scanOrder) THEN 0 ELSE last
<1>1. scanOrder \in Seq(Keys) /\ cursor[f] \in Nat /\ Len(scanOrder) \in Nat
  BY SyncBounds DEF SyncIInv, SyncTypeOK
<1>2. last \in Nat /\ last <= Len(scanOrder)
  <2>1. PICK a \in Nat : a = cursor[f] + STOCK_SCAN_COUNT
    BY <1>1, SyncBounds
  <2>2. PICK b \in Nat : b = Len(scanOrder)
    BY <1>1
  <2>3. \E x \in {a, b} : \A y \in {a, b} : x <= y
    BY <2>1, <2>2
  <2>4. Min({a, b}) \in {a, b} /\ \A y \in {a, b} : Min({a, b}) <= y
    BY <2>3 DEF Min
  <2>5. QED
    BY <2>1, <2>2, <2>4
<1> HIDE DEF last
<1>3. slots \in Seq(Keys) /\ next \in Nat
  <2>1. cursor[f] + 1 \in 1..(Len(scanOrder) + 1) \/ cursor[f] + 1 > last
    BY <1>1, <1>2
  <2>2. \A n \in (cursor[f] + 1)..last : scanOrder[n] \in Keys
    BY <1>1, <1>2
  <2>3. slots \in Seq(Keys)
    BY <1>1, <1>2, <2>1, <2>2
  <2>4. QED
    BY <1>1, <1>2, <2>3
<1>4. Existing(slots) \in Seq(Keys)
  <2>1. Existing(slots) \in Seq({i \in Keys : Exists(i)})
    BY <1>3, ExistingType
  <2>2. QED
    BY <2>1
<1>5. CASE /\ keys' = [keys EXCEPT ![f] = Existing(slots)]
           /\ cursor' = [cursor EXCEPT ![f] = next]
           /\ at' = [at EXCEPT ![f] = "mget"]
           /\ UNCHANGED <<inFlight, updates>>
  <2>1. UNCHANGED <<levelOf, writes, scanOrder, rows, synced, failures>> /\ at[f] = "scan"
    BY DEF Scan, redis, postgres
  <2> HIDE DEF slots, next
  <2>2. SyncTypeOK'
    BY <1>3, <1>4, <1>5, <2>1 DEF SyncIInv, SyncTypeOK
  <2>3. \A g \in Flushes : at'[g] = IF g = f THEN "mget" ELSE "idle"
    BY <1>5, <2>1 DEF SyncIInv, FlushInv, SyncTypeOK
  <2>4. SnapshotOK(updates[f])'
    BY <1>5, <2>1 DEF SyncIInv, FlushInv, SnapshotOK
  <2>5. FlushInv'
    BY <1>5, <2>1, <2>3, <2>4 DEF SyncIInv, FlushInv
  <2>6. QED
    BY <2>2, <2>5 DEF SyncIInv
<1>6. CASE NextPage(f, next, updates[f]) /\ UNCHANGED keys
  <2>1. PICK read \in Seq(Update) : read = updates[f]
    BY DEF SyncIInv, SyncTypeOK
  <2>2. at[f] # "idle" /\ SnapshotOK(read) /\ UNCHANGED <<redis, postgres, keys, failures>>
    BY <1>6, <2>1 DEF Scan, SyncIInv, FlushInv
  <2> HIDE DEF slots, next
  <2>3. QED
    BY <1>3, <1>6, <2>1, <2>2, NextPageSync
<1>7. QED
  BY <1>5, <1>6 DEF Scan, last, slots, next

(* MGET answers: the newest values there are join those read before.       *)
LEMMA MgetSync == ASSUME SyncIInv, NEW f \in Flushes, Mget(f) PROVE SyncIInv'
<1> DEFINE there == Existing(keys[f])
           read == [k \in DOMAIN there |->
                      [itemId |-> there[k], availableStock |-> levelOf[there[k]],
                       version |-> writes[there[k]]]]
           all == updates[f] \o read
<1>1. there \in Seq({i \in Keys : Exists(i)})
  <2>1. keys[f] \in Seq(Keys)
    BY DEF SyncIInv, SyncTypeOK
  <2>2. QED
    BY <2>1, ExistingType
<1>2. Len(there) \in Nat /\ DOMAIN there = 1..Len(there)
      /\ \A k \in 1..Len(there) : there[k] \in Keys /\ Exists(there[k])
  BY <1>1
<1>3. \A k \in 1..Len(there) : /\ levelOf[there[k]] \in Nat /\ writes[there[k]] \in Nat
                               /\ there[k] \in Keys
  BY <1>2 DEF SyncIInv, SyncTypeOK, Exists, Levels
<1> HIDE DEF there
<1>4. \A k \in 1..Len(there) : read[k] \in Update
  BY <1>2, <1>3 DEF Update
<1>5. read \in Seq(Update) /\ Len(read) = Len(there)
  <2>1. read \in [1..Len(there) -> Update]
    BY <1>2, <1>4
  <2>2. QED
    BY <1>2, <2>1
<1>6. \A k \in 1..Len(there) : /\ read[k].itemId = there[k] /\ read[k].version = writes[there[k]]
  BY <1>2
<1>7. PICK before \in Seq(Update) : before = updates[f]
  BY DEF SyncIInv, SyncTypeOK
<1>8. SnapshotOK(before) /\ at[f] = "mget"
  BY <1>7 DEF Mget, SyncIInv, FlushInv
<1> HIDE DEF read
<1>9. /\ all \in Seq(Update) /\ Len(all) = Len(before) + Len(read)
      /\ Len(before) \in Nat /\ Len(read) \in Nat
      /\ \A n \in 1..Len(before) : all[n] = before[n]
      /\ \A n \in 1..Len(all) : n > Len(before) =>
           n - Len(before) \in 1..Len(read) /\ all[n] = read[n - Len(before)]
  BY <1>5, <1>7
<1> HIDE DEF all
<1>10. ASSUME NEW n \in 1..Len(all)
       PROVE  /\ all[n].itemId \in Keys /\ all[n].version \in Nat
              /\ all[n].version <= writes[all[n].itemId]
              /\ all[n].itemId \in Catalog => synced[all[n].itemId] <= all[n].version
  <2>1. CASE n <= Len(before)
    <3>1. n \in 1..Len(before) /\ all[n] = before[n] /\ before[n] \in Update
      BY <1>9, <2>1
    <3>2. QED
      BY <1>8, <3>1 DEF SnapshotOK, Update
  <2>2. CASE n > Len(before)
    <3>1. PICK k \in 1..Len(there) : all[n] = read[k]
      BY <1>5, <1>9, <2>2
    <3>2. all[n].itemId = there[k] /\ all[n].version = writes[there[k]]
      BY <1>6, <3>1
    <3>3. QED
      BY <1>3, <3>2 DEF SyncIInv, FlushInv
  <2>3. QED
    BY <1>9, <2>1, <2>2
<1>11. ASSUME NEW m \in 1..Len(all), NEW n \in 1..Len(all), m <= n, all[m].itemId = all[n].itemId
       PROVE  all[m].version <= all[n].version
  <2>1. CASE n <= Len(before)
    <3>1. /\ m \in 1..Len(before) /\ n \in 1..Len(before)
          /\ all[m] = before[m] /\ all[n] = before[n]
      BY <1>9, <1>11, <2>1
    <3>2. QED
      BY <1>8, <1>11, <3>1 DEF SnapshotOK
  <2>2. CASE n > Len(before)
    <3>1. PICK k \in 1..Len(there) : all[n] = read[k]
      BY <1>5, <1>9, <2>2
    <3>2. all[n].version = writes[all[n].itemId]
      BY <1>6, <3>1
    <3>3. QED
      BY <1>10, <1>11, <3>2
  <2>3. QED
    BY <1>9, <2>1, <2>2
<1>12. SnapshotOK(all)
  BY <1>10, <1>11 DEF SnapshotOK
<1>13. cursor[f] \in Nat /\ NextPage(f, cursor[f], all) /\ UNCHANGED <<redis, postgres, keys, failures>>
  BY DEF Mget, SyncIInv, SyncTypeOK, there, read, all
<1>14. QED
  BY <1>8, <1>9, <1>12, <1>13, NextPageSync

(* The first update is stored: its row does not go back, nor will it with  *)
(* those that follow.                                                      *)
LEMMA StoreRow ==
  ASSUME SyncIInv, NEW f \in Flushes, at[f] = "upsert",
         Storable(Head(updates[f])), Store(Head(updates[f]))
  PROVE  /\ rows' \in [Catalog -> 0..IntegerMax] /\ synced' \in [Catalog -> Nat]
         /\ \A i \in Catalog : synced'[i] >= synced[i] /\ synced'[i] <= writes[i]
         /\ \A n \in 2..Len(updates[f]) : updates[f][n].itemId \in Catalog =>
              synced'[updates[f][n].itemId] <= updates[f][n].version
<1>1. PICK read \in Seq(Update) : read = updates[f]
  BY DEF SyncIInv, SyncTypeOK
<1>2. read # <<>> /\ SnapshotOK(read)
  BY <1>1 DEF SyncIInv, FlushInv
<1>3. Len(read) \in Nat /\ 1 \in 1..Len(read) /\ Head(read) = read[1] /\ \A n \in 1..Len(read) : read[n] \in Update
  BY <1>2
<1>4. PICK u \in Update : u = read[1]
  BY <1>3
<1>5. /\ u.itemId \in Catalog /\ u.availableStock <= IntegerMax
      /\ rows' = [rows EXCEPT ![u.itemId] = u.availableStock]
      /\ synced' = [synced EXCEPT ![u.itemId] = u.version]
  BY <1>1, <1>3, <1>4 DEF Storable, Store
<1>6. u.availableStock \in 0..IntegerMax /\ u.version \in Nat
  BY <1>5, SyncBounds DEF Update
<1>7. rows' \in [Catalog -> 0..IntegerMax] /\ synced' \in [Catalog -> Nat]
  BY <1>5, <1>6 DEF SyncIInv, SyncTypeOK
<1>8. \A i \in Catalog : synced'[i] = IF i = u.itemId THEN u.version ELSE synced[i]
  BY <1>5 DEF SyncIInv, SyncTypeOK
<1>9. synced[u.itemId] <= u.version /\ u.version <= writes[u.itemId]
  BY <1>2, <1>3, <1>4, <1>5 DEF SnapshotOK
<1>10. \A i \in Catalog : synced[i] \in Nat /\ synced[i] <= writes[i]
  BY DEF SyncIInv, SyncTypeOK, FlushInv
<1>11. \A i \in Catalog : synced'[i] >= synced[i] /\ synced'[i] <= writes[i]
  BY <1>8, <1>9, <1>10
<1>12. ASSUME NEW n \in 2..Len(read), read[n].itemId \in Catalog
       PROVE  synced'[read[n].itemId] <= read[n].version
  <2>1. n \in 1..Len(read) /\ 1 <= n
    BY <1>3
  <2>2. read[n].itemId = u.itemId => u.version <= read[n].version
    BY <1>2, <1>3, <1>4, <2>1 DEF SnapshotOK
  <2>3. synced[read[n].itemId] <= read[n].version
    BY <1>2, <1>12, <2>1 DEF SnapshotOK
  <2>4. QED
    BY <1>8, <1>12, <2>2, <2>3
<1>13. QED
  BY <1>1, <1>7, <1>11, <1>12

(* An upsert, or its refusal by Postgres.                                  *)
LEMMA UpsertSync == ASSUME SyncIInv, NEW f \in Flushes, Upsert(f) PROVE SyncIInv'
<1>1. PICK read \in Seq(Update) : read = updates[f]
  BY DEF SyncIInv, SyncTypeOK
<1>2. /\ at[f] = "upsert" /\ read # <<>> /\ SnapshotOK(read) /\ inFlight
      /\ updates' = [updates EXCEPT ![f] = Tail(read)]
      /\ UNCHANGED <<levelOf, writes, scanOrder, cursor, keys, failures>>
  BY <1>1 DEF Upsert, redis, SyncIInv, FlushInv
<1>3. /\ Tail(read) \in Seq(Update) /\ Len(read) \in Nat /\ Len(Tail(read)) = Len(read) - 1
      /\ \A n \in 1..Len(Tail(read)) : Tail(read)[n] = read[n + 1] /\ n + 1 \in 2..Len(read)
  BY <1>2
<1>4. /\ rows' \in [Catalog -> 0..IntegerMax] /\ synced' \in [Catalog -> Nat]
      /\ \A i \in Catalog : synced'[i] <= writes[i]
      /\ \A n \in 2..Len(read) : read[n].itemId \in Catalog =>
           synced'[read[n].itemId] <= read[n].version
  <2>1. CASE UNCHANGED postgres
    BY <1>2, <2>1 DEF postgres, SyncIInv, SyncTypeOK, FlushInv, SnapshotOK
  <2>2. CASE Storable(Head(updates[f])) /\ Store(Head(updates[f]))
    BY <1>1, <1>2, <2>2, StoreRow
  <2>3. QED
    BY <2>1, <2>2 DEF Upsert
<1>5. /\ at' \in [Flushes -> {"idle", "scan", "mget", "upsert"}] /\ inFlight' \in BOOLEAN
      /\ \A g \in Flushes : g # f => at'[g] = at[g]
      /\ at'[f] # "idle" => at'[f] = "upsert" /\ inFlight' = inFlight /\ Tail(read) # <<>>
  BY <1>1, <1>2 DEF Upsert, Finish, SyncIInv, SyncTypeOK
<1>6. SyncTypeOK'
  BY <1>2, <1>3, <1>4, <1>5 DEF SyncIInv, SyncTypeOK
<1>7. \A g \in Flushes : g # f => at'[g] = "idle"
  BY <1>2, <1>5 DEF SyncIInv, FlushInv
<1>8. updates'[f] = Tail(read)
  BY <1>2 DEF SyncIInv, SyncTypeOK
<1>9. SnapshotOK(Tail(read))'
  <2> DEFINE rest == Tail(read)
  <2>1. ASSUME NEW n \in 1..Len(rest)
        PROVE  /\ rest[n].version <= writes'[rest[n].itemId]
               /\ rest[n].itemId \in Catalog => synced'[rest[n].itemId] <= rest[n].version
    BY <1>2, <1>3, <1>4 DEF SnapshotOK
  <2>2. ASSUME NEW m \in 1..Len(rest), NEW n \in 1..Len(rest), m <= n,
               rest[m].itemId = rest[n].itemId
        PROVE  rest[m].version <= rest[n].version
    <3>1. /\ rest[m] = read[m + 1] /\ rest[n] = read[n + 1] /\ m + 1 <= n + 1
          /\ m + 1 \in 1..Len(read) /\ n + 1 \in 1..Len(read)
      BY <1>3, <2>2
    <3>2. QED
      BY <1>2, <2>2, <3>1 DEF SnapshotOK
  <2>3. QED
    BY <2>1, <2>2 DEF SnapshotOK
<1>10. SnapshotOK(updates[f])'
  BY <1>8, <1>9 DEF SnapshotOK
<1>11. FlushInv'
  BY <1>2, <1>4, <1>5, <1>7, <1>8, <1>10 DEF SyncIInv, FlushInv
<1>12. QED
  BY <1>6, <1>11 DEF SyncIInv

(* A flush ends where it stands; an upsert may have had its effect.        *)
LEMMA FailsSync == ASSUME SyncIInv, NEW f \in Flushes, Fails(f) PROVE SyncIInv'
<1>1. /\ at[f] # "idle" /\ at' = [at EXCEPT ![f] = "idle"] /\ inFlight' = FALSE
      /\ failures < MaxFailures /\ failures' = failures + 1
      /\ UNCHANGED <<levelOf, writes, scanOrder, cursor, keys, updates>>
  BY DEF Fails, Finish, redis
<1>2. /\ rows' \in [Catalog -> 0..IntegerMax] /\ synced' \in [Catalog -> Nat]
      /\ \A i \in Catalog : synced'[i] <= writes[i]
  <2>1. CASE UNCHANGED postgres
    BY <2>1 DEF postgres, SyncIInv, SyncTypeOK, FlushInv
  <2>2. CASE /\ at[f] = "upsert" /\ Storable(Head(updates[f])) /\ Store(Head(updates[f]))
    BY <2>2, StoreRow
  <2>3. QED
    BY <2>1, <2>2 DEF Fails
<1>3. failures' \in 0..MaxFailures
  BY <1>1, FailureCounted DEF SyncIInv, SyncTypeOK
<1>4. SyncTypeOK'
  BY <1>1, <1>2, <1>3 DEF SyncIInv, SyncTypeOK
<1>5. \A g \in Flushes : at'[g] = "idle"
  BY <1>1 DEF SyncIInv, SyncTypeOK, FlushInv
<1>6. FlushInv'
  BY <1>1, <1>2, <1>5 DEF FlushInv
<1>7. QED
  BY <1>4, <1>6 DEF SyncIInv

(* The invariant holds at first ...                                        *)
LEMMA SyncInitIInv == ASSUME SyncInit PROVE SyncIInv
<1>1. <<>> \in Seq(Keys) /\ <<>> \in Seq(Update)
  OBVIOUS
<1>2. SyncTypeOK
  BY <1>1, SyncBounds, KeyAssumption DEF SyncInit, SyncTypeOK
<1>3. FlushInv
  BY SyncBounds DEF SyncInit, FlushInv
<1>4. QED
  BY <1>2, <1>3 DEF SyncIInv

(* ... and after every step.                                               *)
LEMMA SyncNextIInv == ASSUME SyncIInv, [SyncNext]_syncVars PROVE SyncIInv'
<1>1. CASE UNCHANGED syncVars
  BY <1>1 DEF syncVars, SyncIInv, SyncTypeOK, FlushInv, SnapshotOK
<1>2. CASE SyncNext
  BY <1>2, WriteSync, TickSync, ScanSync, MgetSync, UpsertSync, FailsSync DEF SyncNext, FlushStep
<1>3. QED
  BY <1>1, <1>2

(* No step takes a row back.                                               *)
LEMMA RowKept ==
  ASSUME SyncIInv, [SyncNext]_syncVars
  PROVE  [\A i \in Catalog : synced'[i] >= synced[i]]_synced
<1>1. ASSUME NEW f \in Flushes, Upsert(f) \/ Fails(f)
      PROVE  \A i \in Catalog : synced'[i] >= synced[i]
  <2>1. CASE UNCHANGED postgres
    BY <2>1 DEF postgres, SyncIInv, SyncTypeOK
  <2>2. CASE /\ at[f] = "upsert" /\ Storable(Head(updates[f])) /\ Store(Head(updates[f]))
    BY <2>2, StoreRow
  <2>3. QED
    BY <1>1, <2>1, <2>2 DEF Upsert, Fails
<1>2. CASE \/ \E i \in Keys, level \in NewLevels : Write(i, level)
           \/ Tick
           \/ \E f \in Flushes : Scan(f) \/ Mget(f)
  BY <1>2 DEF Write, Tick, Scan, Mget, postgres
<1>3. CASE UNCHANGED syncVars
  BY <1>3 DEF syncVars
<1>4. QED
  BY <1>1, <1>2, <1>3 DEF SyncNext, FlushStep

(* The invariant.                                                          *)
LEMMA SyncInvariance == SyncSpec => []SyncIInv
BY SyncInitIInv, SyncNextIInv, PTL DEF SyncSpec

(* Every variable of the worker keeps its type: a row never holds a        *)
(* negative level nor one its column cannot hold.                          *)
THEOREM SyncTypeCorrect == SyncSpec => []SyncTypeOK
<1>1. SyncIInv => SyncTypeOK
  BY DEF SyncIInv
<1>2. QED
  BY <1>1, SyncInvariance, PTL

(* The worker never replaces the level of a row by one that Redis held     *)
(* earlier, wherever SCAN reports a key again, keys are written between    *)
(* its calls, and flushes fail.                                            *)
THEOREM NoRowGoesBack == SyncSpec => RowsNeverGoBack
<1>1. SyncIInv /\ [SyncNext]_syncVars => [\A i \in Catalog : synced'[i] >= synced[i]]_synced
  BY RowKept
<1>2. QED
  BY <1>1, SyncInvariance, PTL DEF SyncSpec, RowsNeverGoBack

-----------------------------------------------------------------------------
(* The handlers of the stock service.                                      *)

(* Where a call stands, what became of its command and how often Redis ran *)
(* it.                                                                     *)
CallInv(c) ==
  /\ command[c] = "none" <=> pc[c] = "idle" \/ answer[c] = "INVALID_ARGUMENT"
  /\ command[c] # "none" => ValidRequest(Asked(c))
  /\ pc[c] = "done" => answer[c] # "none"
  /\ answer[c] # "none" => pc[c] = "done" \/ (pc[c] = "crashed" /\ answer[c] = "INTERNAL")
  /\ pc[c] = "done" /\ answer[c] # "INTERNAL" => command[c] # "queued"
  /\ command[c] = "none" => ran[c] = 0
  /\ command[c] = "ran" => ran[c] > 0
  /\ ran[c] <= reconnects + (IF command[c] = "queued" THEN 0 ELSE 1)
  /\ ran[c] = 0 => result[c].code # SUCCESS

DecrementInv(c) == answer[c] = "SUCCESS" => command[c] = "ran" /\ result[c].code = SUCCESS
ReleaseInv(r) == command[r] # "none" => answer[ReleaseOf[r]] = "SUCCESS"

CallsInv ==
  /\ TypeOK
  /\ \A c \in Calls : CallInv(c)
  /\ \A c \in Decrements : DecrementInv(c)
  /\ \A r \in Releases : ReleaseInv(r)

(* The calls, their bounds and where they are found.                       *)
LEMMA CallFacts ==
  /\ Decrements \subseteq Calls /\ Releases \subseteq Calls /\ Calls = Decrements \cup Releases
  /\ IsFiniteSet(Decrements) /\ IsFiniteSet(Releases)
  /\ Decrements \cap Releases = {} /\ Calls \cap Refills = {}
  /\ ReleaseOf \in [Releases -> Decrements]
  /\ \A r, t \in Releases : ReleaseOf[r] = ReleaseOf[t] => r = t
  /\ MaxWrites \in Nat /\ MaxReconnects \in Nat /\ AdminLevels \subseteq Nat
  /\ SEED_PRODUCTS \in Seq([id : Items, initialStock : Nat]) /\ Len(SEED_PRODUCTS) \in Nat
  /\ \A q \in Requests : q.itemId \in Items \cup {NoItem} /\ q.quantity \in Int
BY StockAssumption, CallAssumption DEF Calls, Request

(* What a valid call asks for.                                             *)
LEMMA AskedType ==
  ASSUME TypeOK, NEW c \in Calls
  PROVE  /\ Asked(c) \in Requests
         /\ ValidRequest(Asked(c)) => Asked(c).itemId \in Items /\ Asked(c).quantity \in Nat \ {0}
<1>1. Asked(c) \in Requests
  BY CallFacts DEF TypeOK, Asked
<1>2. QED
  BY <1>1, CallFacts DEF ValidRequest

(* The scripts' results.                                                   *)
LEMMA Scripts ==
  ASSUME NEW level \in Levels, NEW q \in Nat \ {0}
  PROVE  /\ AfterDecrement(level, q) \in Levels /\ AfterRelease(level, q) \in Levels
         /\ DecrementCode(level, q) \in {SUCCESS, INSUFFICIENT, NOT_FOUND}
         /\ DecrementCode(level, q) = SUCCESS =>
              level # NoKey /\ AfterDecrement(level, q) = level - q /\ AfterDecrement(level, q) \in Nat
         /\ DecrementCode(level, q) # SUCCESS => AfterDecrement(level, q) = level
         /\ AfterRelease(level, q) = IF level = NoKey THEN NoKey ELSE level + q
BY DEF AfterDecrement, AfterRelease, DecrementCode, Levels, NoKey, SUCCESS, INSUFFICIENT, NOT_FOUND

(* A call arrives.                                                         *)
LEMMA ReceiveCalls == ASSUME CallsInv, NEW c \in Calls, Receive(c) PROVE CallsInv'
<1> USE DEF CallsInv
<1>1. /\ pc[c] = "idle" /\ answer[c] = "none" /\ command[c] = "none" /\ ran[c] = 0
      /\ c \in Releases => answer[ReleaseOf[c]] = "SUCCESS"
      /\ UNCHANGED <<stock, supplied, request, result, ran, refilled, zeroStock, refused, soldOut,
                     adminWrites, reconnects>>
  BY DEF Receive, CallInv, sellouts, bounds
<1>2. c \in Calls \cup Refills /\ reconnects \in Nat
  BY CallFacts DEF TypeOK
<1>3. CASE /\ ~ValidRequest(Asked(c)) /\ Answer(c, "INVALID_ARGUMENT") /\ UNCHANGED command
  <2>1. /\ answer' = [answer EXCEPT ![c] = "INVALID_ARGUMENT"] /\ pc' = [pc EXCEPT ![c] = "done"]
        /\ command' = command
    BY <1>3 DEF Answer
  <2>2. TypeOK'
    BY <1>1, <1>2, <2>1 DEF TypeOK, Answers
  <2>3. \A b \in Calls : CallInv(b)'
    BY <1>1, <1>2, <2>1, CallFacts DEF CallInv, TypeOK, Asked
  <2>4. \A b \in Calls : b # c => answer'[b] = answer[b]
    BY <2>1 DEF TypeOK
  <2>5. \A b \in Decrements : DecrementInv(b)'
    BY <1>1, <2>1, CallFacts DEF DecrementInv, TypeOK
  <2>6. \A r \in Releases : ReleaseInv(r)'
    BY <1>1, <2>1, <2>4, CallFacts DEF ReleaseInv
  <2>7. QED
    BY <2>2, <2>3, <2>5, <2>6
<1>4. CASE /\ ValidRequest(Asked(c)) /\ pc' = [pc EXCEPT ![c] = "waiting"]
           /\ command' = [command EXCEPT ![c] = "queued"] /\ UNCHANGED answer
  <2>1. TypeOK'
    BY <1>1, <1>2, <1>4 DEF TypeOK
  <2>2. \A b \in Calls : CallInv(b)'
    BY <1>1, <1>2, <1>4, CallFacts DEF CallInv, TypeOK, Asked
  <2>3. \A b \in Decrements : DecrementInv(b)'
    BY <1>1, <1>4, CallFacts DEF DecrementInv, TypeOK
  <2>4. \A r \in Releases : ReleaseInv(r)'
    BY <1>1, <1>4, CallFacts DEF ReleaseInv, TypeOK
  <2>5. QED
    BY <2>1, <2>2, <2>3, <2>4
<1>5. QED
  BY <1>3, <1>4 DEF Receive

(* Redis runs a script.                                                    *)
LEMMA RunCalls ==
  ASSUME CallsInv, NEW c \in Calls, command[c] = "queued",
         stock' \in [Items -> Levels], soldOut' \in [Items -> Nat],
         command' = [command EXCEPT ![c] = "ran"],
         NEW outcome \in [code : {SUCCESS, INSUFFICIENT, NOT_FOUND}, remaining : Levels],
         result' = [result EXCEPT ![c] = outcome], ran' = [ran EXCEPT ![c] = @ + 1],
         UNCHANGED <<supplied, handlers, refilled, zeroStock, refused, bounds>>
  PROVE  CallsInv'
<1> USE DEF CallsInv
<1>1. UNCHANGED <<supplied, request, pc, answer, refilled, zeroStock, refused, adminWrites, reconnects>>
  BY DEF handlers, bounds
<1>2. ran[c] \in Nat /\ ran[c] <= reconnects /\ reconnects \in Nat /\ reconnects <= MaxReconnects
  BY CallFacts DEF CallInv, TypeOK
<1>3. ran[c] + 1 \in 0..(1 + MaxReconnects)
  BY <1>2, CallFacts
<1>4. TypeOK'
  BY <1>1, <1>3 DEF TypeOK
<1>5. \A b \in Calls : CallInv(b)'
  BY <1>1, <1>2, CallFacts DEF CallInv, TypeOK, Asked
<1>6. \A b \in Decrements : DecrementInv(b)'
  BY <1>1, CallFacts DEF DecrementInv, CallInv, TypeOK
<1>7. \A r \in Releases : ReleaseInv(r)'
  BY <1>1, CallFacts DEF ReleaseInv, TypeOK
<1>8. QED
  BY <1>4, <1>5, <1>6, <1>7

(* What running a decrement's script does, and ...                         *)
LEMMA DecrementRuns ==
  ASSUME CallsInv, NEW c \in Decrements, RunDecrement(c)
  PROVE  LET q == request[c]
             level == AfterDecrement(stock[q.itemId], q.quantity)
             code == DecrementCode(stock[q.itemId], q.quantity)
         IN  /\ q = Asked(c) /\ q.itemId \in Items /\ q.quantity \in Nat \ {0}
             /\ stock[q.itemId] \in Levels /\ level \in Levels
             /\ code \in {SUCCESS, INSUFFICIENT, NOT_FOUND}
             /\ stock' \in [Items -> Levels] /\ soldOut' \in [Items -> Nat]
             /\ \A i \in Items : stock'[i] = IF i = q.itemId THEN level ELSE stock[i]
             /\ \A i \in Items : soldOut'[i] =
                  IF i = q.itemId /\ code = SUCCESS /\ level = 0 THEN soldOut[i] + 1 ELSE soldOut[i]
             /\ result' = [result EXCEPT ![c] =
                             [code |-> code, remaining |-> IF level = NoKey THEN 0 ELSE level]]
             /\ ran' = [ran EXCEPT ![c] = @ + 1]
             /\ command[c] = "queued" /\ command' = [command EXCEPT ![c] = "ran"]
             /\ UNCHANGED <<supplied, handlers, refilled, zeroStock, refused, bounds>>
<1> DEFINE q == request[c]
           level == AfterDecrement(stock[q.itemId], q.quantity)
           code == DecrementCode(stock[q.itemId], q.quantity)
<1>1. c \in Calls /\ q = Asked(c) /\ command[c] = "queued"
  BY CallFacts DEF Asked, RunDecrement
<1>2. q.itemId \in Items /\ q.quantity \in Nat \ {0}
  BY <1>1, AskedType DEF CallsInv, CallInv
<1>3. stock[q.itemId] \in Levels
  BY <1>2 DEF CallsInv, TypeOK
<1>4. level \in Levels /\ code \in {SUCCESS, INSUFFICIENT, NOT_FOUND}
  BY <1>2, <1>3, Scripts
<1>5. /\ stock' = [stock EXCEPT ![q.itemId] = level]
      /\ soldOut' = [soldOut EXCEPT ![q.itemId] = IF code = SUCCESS /\ level = 0 THEN @ + 1 ELSE @]
      /\ result' = [result EXCEPT ![c] =
                      [code |-> code, remaining |-> IF level = NoKey THEN 0 ELSE level]]
      /\ ran' = [ran EXCEPT ![c] = @ + 1] /\ command' = [command EXCEPT ![c] = "ran"]
      /\ UNCHANGED <<supplied, handlers, refilled, zeroStock, refused, bounds>>
  BY DEF RunDecrement
<1> HIDE DEF level, code
<1>6. stock' \in [Items -> Levels] /\ \A i \in Items : stock'[i] = IF i = q.itemId THEN level ELSE stock[i]
  BY <1>4, <1>5 DEF CallsInv, TypeOK
<1>7. /\ soldOut' \in [Items -> Nat]
      /\ \A i \in Items : soldOut'[i] =
           IF i = q.itemId /\ code = SUCCESS /\ level = 0 THEN soldOut[i] + 1 ELSE soldOut[i]
  <2>1. soldOut \in [Items -> Nat]
    BY DEF CallsInv, TypeOK
  <2>2. CASE code = SUCCESS /\ level = 0
    BY <1>2, <1>5, <2>1, <2>2
  <2>3. CASE ~(code = SUCCESS /\ level = 0)
    BY <1>2, <1>5, <2>1, <2>3
  <2>4. QED
    BY <2>2, <2>3
<1>8. QED
  BY <1>1, <1>2, <1>3, <1>4, <1>5, <1>6, <1>7 DEF level, code

(* ... a release's.                                                        *)
LEMMA ReleaseRuns ==
  ASSUME CallsInv, NEW r \in Releases, RunRelease(r)
  PROVE  LET q == request[ReleaseOf[r]]
             level == AfterRelease(stock[q.itemId], q.quantity)
         IN  /\ q = Asked(r) /\ q.itemId \in Items /\ q.quantity \in Nat \ {0}
             /\ ReleaseOf[r] \in Decrements
             /\ stock[q.itemId] \in Levels /\ level \in Levels
             /\ stock' \in [Items -> Levels]
             /\ \A i \in Items : stock'[i] = IF i = q.itemId THEN level ELSE stock[i]
             /\ result' = [result EXCEPT ![r] = [code |-> SUCCESS, remaining |-> level]]
             /\ ran' = [ran EXCEPT ![r] = @ + 1]
             /\ command[r] = "queued" /\ command' = [command EXCEPT ![r] = "ran"]
             /\ UNCHANGED <<supplied, handlers, refilled, zeroStock, refused, soldOut, bounds>>
<1> DEFINE q == request[ReleaseOf[r]]
           level == AfterRelease(stock[q.itemId], q.quantity)
<1>1. r \in Calls /\ q = Asked(r) /\ command[r] = "queued" /\ ReleaseOf[r] \in Decrements
  BY CallFacts DEF Asked, RunRelease
<1>2. q.itemId \in Items /\ q.quantity \in Nat \ {0}
  BY <1>1, AskedType DEF CallsInv, CallInv
<1>3. stock[q.itemId] \in Levels
  BY <1>2 DEF CallsInv, TypeOK
<1>4. level \in Levels
  BY <1>2, <1>3, Scripts
<1>5. /\ stock' = [stock EXCEPT ![q.itemId] = level]
      /\ result' = [result EXCEPT ![r] = [code |-> SUCCESS, remaining |-> level]]
      /\ ran' = [ran EXCEPT ![r] = @ + 1] /\ command' = [command EXCEPT ![r] = "ran"]
      /\ UNCHANGED <<supplied, handlers, refilled, zeroStock, refused, soldOut, bounds>>
  BY <1>1 DEF RunRelease, sellouts
<1> HIDE DEF level
<1>6. stock' \in [Items -> Levels] /\ \A i \in Items : stock'[i] = IF i = q.itemId THEN level ELSE stock[i]
  BY <1>4, <1>5 DEF CallsInv, TypeOK
<1>7. QED
  BY <1>1, <1>2, <1>3, <1>4, <1>5, <1>6 DEF level

(* Redis runs a decrement or a release.                                    *)
LEMMA ScriptCalls ==
  ASSUME CallsInv, \/ \E c \in Decrements : RunDecrement(c)
                   \/ \E r \in Releases : RunRelease(r)
  PROVE  CallsInv'
<1>1. ASSUME NEW c \in Decrements, RunDecrement(c) PROVE CallsInv'
  <2> DEFINE level == AfterDecrement(stock[request[c].itemId], request[c].quantity)
             outcome == [code |-> DecrementCode(stock[request[c].itemId], request[c].quantity),
                         remaining |-> IF level = NoKey THEN 0 ELSE level]
  <2>1. outcome \in [code : {SUCCESS, INSUFFICIENT, NOT_FOUND}, remaining : Levels]
    BY <1>1, DecrementRuns DEF Levels
  <2>2. /\ c \in Calls /\ command[c] = "queued" /\ stock' \in [Items -> Levels]
        /\ soldOut' \in [Items -> Nat] /\ command' = [command EXCEPT ![c] = "ran"]
        /\ result' = [result EXCEPT ![c] = outcome] /\ ran' = [ran EXCEPT ![c] = @ + 1]
        /\ UNCHANGED <<supplied, handlers, refilled, zeroStock, refused, bounds>>
    BY <1>1, DecrementRuns, CallFacts
  <2> HIDE DEF outcome
  <2>3. QED
    BY <2>1, <2>2, RunCalls
<1>2. ASSUME NEW r \in Releases, RunRelease(r) PROVE CallsInv'
  <2> DEFINE level == AfterRelease(stock[request[ReleaseOf[r]].itemId], request[ReleaseOf[r]].quantity)
             outcome == [code |-> SUCCESS, remaining |-> level]
  <2>1. outcome \in [code : {SUCCESS, INSUFFICIENT, NOT_FOUND}, remaining : Levels]
    BY <1>2, ReleaseRuns
  <2>2. /\ r \in Calls /\ command[r] = "queued" /\ stock' \in [Items -> Levels]
        /\ soldOut' = soldOut /\ command' = [command EXCEPT ![r] = "ran"]
        /\ result' = [result EXCEPT ![r] = outcome] /\ ran' = [ran EXCEPT ![r] = @ + 1]
        /\ UNCHANGED <<supplied, handlers, refilled, zeroStock, refused, bounds>>
    BY <1>2, ReleaseRuns, CallFacts
  <2>3. soldOut' \in [Items -> Nat]
    BY <2>2 DEF CallsInv, TypeOK
  <2> HIDE DEF outcome
  <2>4. QED
    BY <2>1, <2>2, <2>3, RunCalls
<1>3. QED
  BY <1>1, <1>2

(* A call is answered by what its script returned, or has waited too long. *)
LEMMA AnswerCalls ==
  ASSUME CallsInv, NEW c \in Calls, NEW reply \in Answers \ {"none", "INVALID_ARGUMENT"},
         pc[c] = "waiting", Answer(c, reply),
         reply = "INTERNAL" \/ command[c] = "ran",
         c \in Decrements /\ reply = "SUCCESS" => result[c].code = SUCCESS,
         zeroStock' \in [Items -> Nat], refused' \in [Items -> Nat],
         UNCHANGED <<stock, supplied, request, wire, refilled, soldOut, bounds>>
  PROVE  CallsInv'
<1> USE DEF CallsInv
<1>1. /\ UNCHANGED <<stock, supplied, request, command, result, ran, refilled, soldOut,
                     adminWrites, reconnects>>
      /\ answer' = [answer EXCEPT ![c] = reply] /\ pc' = [pc EXCEPT ![c] = "done"]
  BY DEF wire, bounds, Answer
<1>2. answer[c] = "none" /\ command[c] # "none" /\ c \in Calls \cup Refills
  BY DEF CallInv
<1>3. TypeOK'
  BY <1>1, <1>2 DEF TypeOK
<1>4. \A b \in Calls : CallInv(b)'
  BY <1>1, <1>2, CallFacts DEF CallInv, TypeOK, Asked
<1>5. \A b \in Decrements : DecrementInv(b)'
  BY <1>1, CallFacts DEF DecrementInv, TypeOK
<1>6. \A r \in Releases : ReleaseInv(r)'
  BY <1>1, <1>2, CallFacts DEF ReleaseInv, TypeOK
<1>7. QED
  BY <1>3, <1>4, <1>5, <1>6

(* What a decrement's answer does to the announcements.                    *)
LEMMA DecrementReplies ==
  ASSUME CallsInv, NEW c \in Decrements, ReplyDecrement(c)
  PROVE  /\ pc[c] = "waiting" /\ command[c] = "ran" /\ request[c].itemId \in Items
         /\ CodeName(result[c].code) \in {"SUCCESS", "INSUFFICIENT", "NOT_FOUND"}
         /\ CodeName(result[c].code) = "SUCCESS" => result[c].code = SUCCESS
         /\ Answer(c, CodeName(result[c].code))
         /\ zeroStock' \in [Items -> Nat] /\ refused' \in [Items -> Nat]
         /\ \A i \in Items : zeroStock'[i] + refused'[i] =
              zeroStock[i] + refused[i] + IF CrossedZero(result[c]) /\ request[c].itemId = i
                                          THEN 1 ELSE 0
         /\ UNCHANGED <<stock, supplied, request, wire, refilled, soldOut, bounds>>
<1>1. c \in Calls /\ Asked(c) = request[c] /\ pc[c] = "waiting" /\ command[c] = "ran"
  BY CallFacts DEF Asked, ReplyDecrement
<1>2. request[c].itemId \in Items
  BY <1>1, AskedType DEF CallsInv, CallInv
<1>3. result[c].code \in {SUCCESS, INSUFFICIENT, NOT_FOUND}
  BY <1>1 DEF CallsInv, TypeOK
<1>4. /\ CodeName(result[c].code) \in {"SUCCESS", "INSUFFICIENT", "NOT_FOUND"}
      /\ CodeName(result[c].code) = "SUCCESS" => result[c].code = SUCCESS
  BY <1>3 DEF CodeName, SUCCESS, INSUFFICIENT, NOT_FOUND
<1>5. /\ zeroStock' \in [Items -> Nat] /\ refused' \in [Items -> Nat]
      /\ \A i \in Items : zeroStock'[i] + refused'[i] =
           zeroStock[i] + refused[i] + IF CrossedZero(result[c]) /\ request[c].itemId = i
                                       THEN 1 ELSE 0
  <2>1. zeroStock \in [Items -> Nat] /\ refused \in [Items -> Nat]
    BY DEF CallsInv, TypeOK
  <2>2. CASE /\ CrossedZero(result[c]) /\ UNCHANGED refused
             /\ zeroStock' = [zeroStock EXCEPT ![request[c].itemId] = @ + 1]
    BY <1>2, <2>1, <2>2
  <2>3. CASE /\ CrossedZero(result[c]) /\ UNCHANGED zeroStock
             /\ refused' = [refused EXCEPT ![request[c].itemId] = @ + 1]
    BY <1>2, <2>1, <2>3
  <2>4. CASE ~CrossedZero(result[c]) /\ UNCHANGED <<zeroStock, refused>>
    BY <2>1, <2>4
  <2>5. QED
    BY <2>2, <2>3, <2>4 DEF ReplyDecrement
<1>6. QED
  BY <1>1, <1>2, <1>4, <1>5 DEF ReplyDecrement

(* The handlers' answers.                                                  *)
LEMMA RepliesCalls ==
  ASSUME CallsInv, \/ \E c \in Decrements : ReplyDecrement(c)
                   \/ \E r \in Releases : ReplyRelease(r)
                   \/ \E c \in Calls : TimeOut(c)
  PROVE  CallsInv'
<1>1. ASSUME NEW c \in Decrements, ReplyDecrement(c) PROVE CallsInv'
  <2>1. CodeName(result[c].code) \in Answers \ {"none", "INVALID_ARGUMENT"} /\ c \in Calls
    BY <1>1, DecrementReplies, CallFacts DEF Answers
  <2>2. QED
    BY <1>1, <2>1, DecrementReplies, AnswerCalls
<1>2. zeroStock \in [Items -> Nat] /\ refused \in [Items -> Nat]
  BY DEF CallsInv, TypeOK
<1>3. ASSUME NEW r \in Releases, ReplyRelease(r) PROVE CallsInv'
  <2>1. "OK" \in Answers \ {"none", "INVALID_ARGUMENT"} /\ r \in Calls /\ r \notin Decrements
    BY CallFacts DEF Answers
  <2>2. /\ pc[r] = "waiting" /\ command[r] = "ran" /\ Answer(r, "OK")
        /\ zeroStock' = zeroStock /\ refused' = refused
        /\ UNCHANGED <<stock, supplied, request, wire, refilled, soldOut, bounds>>
    BY <1>3 DEF ReplyRelease, sellouts
  <2>3. QED
    BY <1>2, <2>1, <2>2, AnswerCalls
<1>4. ASSUME NEW c \in Calls, TimeOut(c) PROVE CallsInv'
  <2>1. "INTERNAL" \in Answers \ {"none", "INVALID_ARGUMENT"}
    BY DEF Answers
  <2>2. /\ pc[c] = "waiting" /\ Answer(c, "INTERNAL") /\ zeroStock' = zeroStock /\ refused' = refused
        /\ UNCHANGED <<stock, supplied, request, wire, refilled, soldOut, bounds>>
    BY <1>4 DEF TimeOut, sellouts
  <2>3. QED
    BY <1>2, <2>1, <2>2, AnswerCalls
<1>5. QED
  BY <1>1, <1>3, <1>4

(* A broken connection queues again what waits and what was given up.      *)
LEMMA ReconnectCalls == ASSUME CallsInv, Reconnect PROVE CallsInv'
<1> USE DEF CallsInv
<1>1. PICK late \in SUBSET {c \in Calls : GivenUp(c)} :
        command' = [c \in Calls |-> IF pc[c] = "waiting" \/ c \in late THEN "queued" ELSE command[c]]
  BY DEF Reconnect
<1>2. /\ reconnects' = reconnects + 1 /\ reconnects < MaxReconnects /\ reconnects \in Nat
      /\ UNCHANGED <<stock, supplied, request, pc, answer, result, ran, refilled, zeroStock, refused,
                     soldOut, adminWrites>>
  BY CallFacts DEF Reconnect, handlers, sellouts, TypeOK
<1>3. TypeOK'
  <2>1. reconnects' \in 0..MaxReconnects
    BY <1>2, CallFacts
  <2>2. command' \in [Calls -> {"none", "queued", "ran"}]
    BY <1>1 DEF TypeOK
  <2>. QED BY <1>2, <2>1, <2>2 DEF TypeOK
<1>4. ASSUME NEW c \in Calls PROVE CallInv(c)'
  <2>1. pc[c] \in {"idle", "waiting", "done", "crashed"} /\ ran[c] \in Nat
    BY DEF TypeOK
  <2>2. \/ command'[c] = "queued" /\ (pc[c] = "waiting" \/ GivenUp(c))
        \/ command'[c] = command[c] /\ pc[c] # "waiting"
    BY <1>1
  <2>3. CallInv(c) /\ Asked(c)' = Asked(c)
    BY <1>2 DEF Asked
  <2>4. pc[c] = "waiting" \/ GivenUp(c) => command[c] # "none" /\ answer[c] \in {"none", "INTERNAL"}
    BY <2>3 DEF CallInv, GivenUp
  <2>5. CASE command'[c] = command[c]
    BY <1>2, <2>1, <2>3, <2>5 DEF CallInv
  <2>6. CASE command'[c] # command[c]
    <3>1. command'[c] = "queued" /\ (pc[c] = "waiting" \/ GivenUp(c))
      BY <2>2, <2>6
    <3>. QED BY <1>2, <2>1, <2>3, <2>4, <3>1 DEF CallInv, GivenUp
  <2>. QED BY <2>5, <2>6
<1>5. \A c \in Decrements : DecrementInv(c)'
  <2>1. ASSUME NEW c \in Decrements, answer[c] = "SUCCESS" PROVE command'[c] = command[c]
    <3>1. c \in Calls /\ CallInv(c)
      BY CallFacts
    <3>2. pc[c] = "done" /\ ~GivenUp(c)
      BY <2>1, <3>1 DEF CallInv, GivenUp
    <3>. QED BY <1>1, <3>1, <3>2
  <2>. QED BY <1>2, <2>1 DEF DecrementInv
<1>6. \A r \in Releases : ReleaseInv(r)'
  <2>1. ASSUME NEW r \in Releases, command'[r] # "none" PROVE command[r] # "none"
    <3>1. r \in Calls /\ CallInv(r)
      BY CallFacts
    <3>. QED BY <1>1, <2>1, <3>1 DEF CallInv, GivenUp
  <2>. QED BY <1>2, <2>1 DEF ReleaseInv
<1>. QED BY <1>3, <1>4, <1>5, <1>6

(* The process dies.                                                       *)
LEMMA CrashCalls == ASSUME CallsInv, Crash PROVE CallsInv'
<1> USE DEF CallsInv
<1>1. /\ pc' = [c \in Calls \cup Refills |->
                   IF pc[c] = "waiting" \/ (c \in Calls /\ GivenUp(c)) THEN "crashed" ELSE pc[c]]
      /\ UNCHANGED <<stock, supplied, request, answer, command, result, ran, refilled, zeroStock,
                     refused, soldOut, adminWrites, reconnects>>
  BY DEF Crash, wire, sellouts, bounds, TypeOK
<1>2. TypeOK'
  BY <1>1 DEF TypeOK
<1>3. ASSUME NEW c \in Calls PROVE CallInv(c)'
  <2>1. CallInv(c) /\ Asked(c)' = Asked(c)
    BY <1>1 DEF Asked
  <2>2. \/ pc'[c] = "crashed" /\ (pc[c] = "waiting" \/ GivenUp(c))
        \/ pc'[c] = pc[c] /\ ~(pc[c] = "waiting" \/ GivenUp(c))
    BY <1>1
  <2>. QED BY <1>1, <2>1, <2>2 DEF CallInv, GivenUp
<1>4. /\ \A c \in Decrements : DecrementInv(c)'
      /\ \A r \in Releases : ReleaseInv(r)'
  BY <1>1 DEF DecrementInv, ReleaseInv
<1>5. QED
  BY <1>2, <1>3, <1>4

(* A level is written: the shelf has what is put on sale.                  *)
LEMMA LevelSet ==
  ASSUME CallsInv, NEW i \in Items, NEW level \in Nat, SetLevel(i, level)
  PROVE  /\ stock' \in [Items -> Levels] /\ supplied' \in [Items -> Int]
         /\ \A k \in Items : OnShelf(k)' - supplied'[k] = OnShelf(k) - supplied[k]
<1>1. stock \in [Items -> Levels] /\ supplied \in [Items -> Int] /\ level \in Levels /\ level # NoKey
  BY DEF CallsInv, TypeOK, Levels, NoKey
<1>2. OnShelf(i) \in Nat
  BY <1>1 DEF OnShelf, Levels
<1>3. /\ stock' = [stock EXCEPT ![i] = level] /\ stock' \in [Items -> Levels]
      /\ supplied' = [supplied EXCEPT ![i] = @ + level - OnShelf(i)] /\ supplied' \in [Items -> Int]
  BY <1>1, <1>2 DEF SetLevel
<1>4. ASSUME NEW k \in Items PROVE OnShelf(k)' - supplied'[k] = OnShelf(k) - supplied[k]
  <2>1. CASE k = i
    <3>1. OnShelf(k)' = level /\ supplied'[k] = supplied[i] + level - OnShelf(i) /\ supplied[i] \in Int
      BY <1>1, <1>3, <2>1 DEF OnShelf
    <3>2. QED
      BY <1>2, <2>1, <3>1
  <2>2. CASE k # i
    BY <1>1, <1>3, <2>2 DEF OnShelf
  <2>3. QED
    BY <2>1, <2>2
<1>5. QED
  BY <1>3, <1>4

(* What stands in a sequence.                                              *)
LEMMA SeqMember ==
  ASSUME NEW S, NEW s \in Seq(S), NEW k \in 1..Len(s)
  PROVE  s[k] \in S
OBVIOUS

(* The two ways to write one.                                              *)
LEMMA LevelWritten ==
  ASSUME CallsInv, \/ \E a \in Refills : Refill(a)
                   \/ \E i \in Items, level \in AdminLevels : SetStock(i, level)
  PROVE  /\ CallsInv'
         /\ \A k \in Items : OnShelf(k)' - supplied'[k] = OnShelf(k) - supplied[k]
         /\ \A c \in Calls : pc'[c] = pc[c]
         /\ UNCHANGED <<request, answer, wire, sellouts, reconnects>>
<1>1. ASSUME NEW a \in Refills, Refill(a)
      PROVE  /\ \E i \in Items, level \in Nat : SetLevel(i, level)
             /\ refilled' \in [Refills -> 0..Len(SEED_PRODUCTS)]
             /\ pc' \in [Calls \cup Refills -> {"idle", "waiting", "done", "crashed"}]
             /\ \A c \in Calls : pc'[c] = pc[c]
             /\ UNCHANGED <<request, answer, wire, sellouts, bounds>>
  <2> DEFINE n == refilled[a] + 1
  <2>1. /\ n \in 1..Len(SEED_PRODUCTS) /\ SetLevel(SEED_PRODUCTS[n].id, SEED_PRODUCTS[n].initialStock)
        /\ refilled' = [refilled EXCEPT ![a] = n]
        /\ pc' = [pc EXCEPT ![a] = IF n = Len(SEED_PRODUCTS) THEN "done" ELSE "waiting"]
        /\ UNCHANGED <<request, answer, wire, sellouts, bounds>>
    BY SMTT(30), <1>1, CallFacts DEF Refill, CallsInv, TypeOK
  <2>2. SEED_PRODUCTS[n] \in [id : Items, initialStock : Nat]
    <3>1. SEED_PRODUCTS \in Seq([id : Items, initialStock : Nat]) /\ n \in 1..Len(SEED_PRODUCTS)
      BY <2>1, StockAssumption
    <3> HIDE DEF n
    <3>2. QED
      BY <3>1, SeqMember
  <2>3. SEED_PRODUCTS[n].id \in Items /\ SEED_PRODUCTS[n].initialStock \in Nat
    BY <2>2
  <2>4. a \notin Calls
    BY CallFacts
  <2> HIDE DEF n
  <2>5. /\ refilled' \in [Refills -> 0..Len(SEED_PRODUCTS)]
        /\ pc' \in [Calls \cup Refills -> {"idle", "waiting", "done", "crashed"}]
        /\ \A c \in Calls : pc'[c] = pc[c]
    BY SMTT(30), <2>1, <2>4, CallFacts DEF CallsInv, TypeOK
  <2>6. QED
    BY <2>1, <2>3, <2>5
<1>2. ASSUME NEW i \in Items, NEW level \in AdminLevels, SetStock(i, level)
      PROVE  /\ SetLevel(i, level) /\ level \in Nat /\ adminWrites' \in 0..MaxWrites
             /\ UNCHANGED <<request, pc, answer, wire, sellouts, refilled, reconnects>>
  BY <1>2, CallFacts DEF SetStock, handlers, CallsInv, TypeOK
<1>3. /\ \E i \in Items, level \in Nat : SetLevel(i, level)
      /\ refilled' \in [Refills -> 0..Len(SEED_PRODUCTS)] /\ adminWrites' \in 0..MaxWrites
      /\ pc' \in [Calls \cup Refills -> {"idle", "waiting", "done", "crashed"}]
      /\ \A c \in Calls : pc'[c] = pc[c]
      /\ UNCHANGED <<request, answer, wire, sellouts, reconnects>>
  <2>1. CASE \E a \in Refills : Refill(a)
    BY <1>1, <2>1 DEF bounds, CallsInv, TypeOK
  <2>2. CASE \E i \in Items, level \in AdminLevels : SetStock(i, level)
    BY <1>2, <2>2 DEF CallsInv, TypeOK
  <2>3. QED
    BY <2>1, <2>2
<1>4. /\ stock' \in [Items -> Levels] /\ supplied' \in [Items -> Int]
      /\ \A k \in Items : OnShelf(k)' - supplied'[k] = OnShelf(k) - supplied[k]
  BY <1>3, LevelSet
<1>5. TypeOK'
  BY <1>3, <1>4 DEF CallsInv, TypeOK, wire, sellouts
<1>6. \A c \in Calls : CallInv(c)'
  BY <1>3 DEF CallsInv, CallInv, wire, Asked
<1>7. /\ \A c \in Decrements : DecrementInv(c)'
      /\ \A r \in Releases : ReleaseInv(r)'
  BY <1>3 DEF CallsInv, DecrementInv, ReleaseInv, wire
<1>8. QED
  BY <1>3, <1>4, <1>5, <1>6, <1>7 DEF CallsInv

(* Every step keeps the calls' invariant, and it holds at first.           *)
LEMMA CallsStep == ASSUME CallsInv, [Next]_vars PROVE CallsInv'
<1>1. CASE UNCHANGED vars
  BY <1>1 DEF vars, CallsInv, TypeOK, CallInv, DecrementInv, ReleaseInv, Asked
<1>2. CASE Next
  BY <1>2, ReceiveCalls, ScriptCalls, RepliesCalls, LevelWritten, ReconnectCalls, CrashCalls
  DEF Next, DecrementStep, ReleaseStep
<1>3. QED
  BY <1>1, <1>2

(* No call has been received yet.                                          *)
LEMMA InitCalls == ASSUME Init PROVE CallsInv
<1>1. ASSUME NEW i \in Items PROVE OnShelf(i) \in Nat
  BY StockAssumption DEF Init, OnShelf, Levels
<1>2. TypeOK
  BY <1>1, StockAssumption, CallFacts DEF Init, TypeOK, Answers, Levels
<1>3. \A c \in Calls : CallInv(c)
  BY DEF Init, CallInv, NOT_FOUND, SUCCESS
<1>4. /\ \A c \in Decrements : DecrementInv(c)
      /\ \A r \in Releases : ReleaseInv(r)
  BY CallFacts DEF Init, DecrementInv, ReleaseInv
<1>5. QED
  BY <1>2, <1>3, <1>4 DEF CallsInv


(* So it always holds.                                                    *)
LEMMA CallsInvariance == Spec => []CallsInv
<1>1. Init => CallsInv
  BY InitCalls
<1>2. CallsInv /\ [Next]_vars => CallsInv'
  BY CallsStep
<1>3. QED
  BY <1>1, <1>2, PTL DEF Spec

(* Every variable of the handlers keeps its type, for any set of calls,    *)
(* requests and levels: no level ever falls below zero.                    *)
THEOREM StockTypeCorrect == Spec => []TypeOK
<1>1. CallsInv => TypeOK
  BY DEF CallsInv
<1>2. QED
  BY <1>1, CallsInvariance, PTL

-----------------------------------------------------------------------------
(* Units.  Those of a decrement that Redis has run and of which no release *)
(* has run are out, whether or not anybody was told so.                    *)

Out(c) ==
  /\ result[c].code = SUCCESS
  /\ \A r \in Releases : ReleaseOf[r] = c => ran[r] = 0
OutTerm(i) ==
  [c \in Decrements |-> IF Out(c) /\ request[c].itemId = i THEN request[c].quantity ELSE 0]
MintTerm(i) ==
  [r \in Releases |-> IF ran[r] > 1 /\ Asked(r).itemId = i
                      THEN (ran[r] - 1) * Asked(r).quantity ELSE 0]
UnitsOut(i) == SumFunctionOnSet(OutTerm(i), Decrements)

UnitsInv == \A i \in Items : OnShelf(i) + UnitsOut(i) <= supplied[i] + UnitsMinted(i)

(* The terms, and what their sums are the sums of.                         *)
LEMMA UnitTerms ==
  ASSUME CallsInv, NEW i \in Items
  PROVE  /\ \A c \in Decrements : OutTerm(i)[c] \in Nat
         /\ \A r \in Releases : MintTerm(i)[r] \in Nat
         /\ UnitsMinted(i) = SumFunctionOnSet(MintTerm(i), Releases)
         /\ UnitsOut(i) \in Int /\ UnitsMinted(i) \in Int
         /\ OnShelf(i) \in Nat /\ supplied[i] \in Int
<1>1. ASSUME NEW c \in Calls, ran[c] > 0
      PROVE  Asked(c).quantity \in Nat \ {0}
  BY <1>1, AskedType DEF CallsInv, CallInv
<1>2. ASSUME NEW c \in Decrements PROVE OutTerm(i)[c] \in Nat
  <2>1. c \in Calls /\ Asked(c) = request[c] /\ ran[c] \in Nat
    BY CallFacts DEF Asked, CallsInv, TypeOK
  <2>2. Out(c) => ran[c] > 0
    BY <2>1 DEF Out, CallsInv, CallInv
  <2>3. QED
    BY <1>1, <2>1, <2>2 DEF OutTerm
<1>3. ASSUME NEW r \in Releases PROVE MintTerm(i)[r] \in Nat
  <2>1. r \in Calls /\ ran[r] \in Nat
    BY CallFacts DEF CallsInv, TypeOK
  <2>2. ASSUME ran[r] > 1 PROVE (ran[r] - 1) * Asked(r).quantity \in Nat
    <3>1. Asked(r).quantity \in Nat /\ ran[r] - 1 \in Nat
      BY <1>1, <2>1, <2>2
    <3>2. QED
      BY <3>1
  <2>3. QED
    BY <2>2 DEF MintTerm
<1>4. UnitsMinted(i) = SumFunctionOnSet(MintTerm(i), Releases)
  BY DEF UnitsMinted, MintTerm
<1>5. UnitsOut(i) \in Int
  <2>1. PICK f : f = OutTerm(i)
    OBVIOUS
  <2>2. SumFunctionOnSet(f, Decrements) \in Int
    BY <1>2, <2>1, CallFacts, SumType
  <2>3. QED
    BY <2>1, <2>2 DEF UnitsOut
<1>6. UnitsMinted(i) \in Int
  <2>1. PICK f : f = MintTerm(i)
    OBVIOUS
  <2>2. SumFunctionOnSet(f, Releases) \in Int
    BY <1>3, <2>1, CallFacts, SumType
  <2>3. QED
    BY <1>4, <2>1, <2>2
<1>7. OnShelf(i) \in Nat /\ supplied[i] \in Int
  BY DEF CallsInv, TypeOK, OnShelf, Levels
<1>8. QED
  BY <1>2, <1>3, <1>4, <1>5, <1>6, <1>7

UnitTypes ==
  \A i \in Items :
    /\ \A c \in Decrements : OutTerm(i)[c] \in Nat
    /\ \A r \in Releases : MintTerm(i)[r] \in Nat
    /\ UnitsMinted(i) = SumFunctionOnSet(MintTerm(i), Releases)
    /\ UnitsOut(i) \in Int /\ UnitsMinted(i) \in Int
    /\ OnShelf(i) \in Nat /\ supplied[i] \in Int

(* They are the same after a step.                                         *)
LEMMA UnitTermsNext == CallsInv' => UnitTypes'
<1>1. CallsInv => UnitTypes
  BY UnitTerms DEF UnitTypes
<1>2. QED
  BY <1>1, PTL

(* Steps that run no script move no unit.                                  *)
LEMMA UnitsStay ==
  ASSUME CallsInv, CallsInv', UnitsInv, UNCHANGED <<request, result, ran>>,
         \A k \in Items : OnShelf(k)' - supplied'[k] = OnShelf(k) - supplied[k]
  PROVE  UnitsInv'
<1>1. ASSUME NEW i \in Items
      PROVE  OnShelf(i)' + UnitsOut(i)' <= supplied'[i] + UnitsMinted(i)'
  <2>1. UnitsOut(i)' = UnitsOut(i)
    BY DEF UnitsOut, OutTerm, Out
  <2>2. UnitsMinted(i)' = UnitsMinted(i)
    BY DEF UnitsMinted, Asked
  <2>3. OnShelf(i) + UnitsOut(i) <= supplied[i] + UnitsMinted(i)
    BY DEF UnitsInv
  <2>4. QED
    BY <2>1, <2>2, <2>3, UnitTerms, UnitTermsNext DEF UnitTypes
<1>2. QED
  BY <1>1 DEF UnitsInv

(* A decrement takes from the shelf at least what is out for it.           *)
LEMMA UnitsTaken ==
  ASSUME CallsInv, CallsInv', UnitsInv, NEW c \in Decrements, RunDecrement(c)
  PROVE  UnitsInv'
<1> DEFINE q == request[c]
           level == AfterDecrement(stock[q.itemId], q.quantity)
           code == DecrementCode(stock[q.itemId], q.quantity)
<1>1. /\ q.itemId \in Items /\ q.quantity \in Nat \ {0} /\ stock[q.itemId] \in Levels
      /\ \A i \in Items : stock'[i] = IF i = q.itemId THEN level ELSE stock[i]
      /\ result' = [result EXCEPT ![c] =
                      [code |-> code, remaining |-> IF level = NoKey THEN 0 ELSE level]]
      /\ ran' = [ran EXCEPT ![c] = @ + 1]
      /\ supplied' = supplied /\ request' = request
  BY DecrementRuns DEF handlers
<1>2. /\ code = SUCCESS => stock[q.itemId] # NoKey /\ level = stock[q.itemId] - q.quantity /\ level \in Nat
      /\ code # SUCCESS => level = stock[q.itemId]
  BY <1>1, Scripts
<1> HIDE DEF level, code
<1>3. c \in Calls /\ c \notin Releases /\ result \in [Calls -> [code : {SUCCESS, INSUFFICIENT, NOT_FOUND}, remaining : Levels]]
      /\ ran \in [Calls -> Nat]
  BY CallFacts DEF CallsInv, TypeOK
<1>4. /\ result'[c].code = code
      /\ \A b \in Decrements \ {c} : result'[b] = result[b]
      /\ \A r \in Releases : ran'[r] = ran[r]
  BY <1>1, <1>3, CallFacts
<1>5. ASSUME NEW i \in Items
      PROVE  OnShelf(i)' + UnitsOut(i)' <= supplied'[i] + UnitsMinted(i)'
  <2>1. UnitsMinted(i)' = UnitsMinted(i)
    BY <1>1, <1>4, <1>3 DEF UnitsMinted, Asked
  <2>2. PICK f : f = OutTerm(i)
    OBVIOUS
  <2>3. PICK g : g = OutTerm(i)'
    OBVIOUS
  <2>4. UnitsOut(i) = SumFunctionOnSet(f, Decrements) /\ UnitsOut(i)' = SumFunctionOnSet(g, Decrements)
    BY <2>2, <2>3 DEF UnitsOut
  <2>5. \A b \in Decrements : f[b] \in Nat /\ g[b] \in Nat
    BY <2>2, <2>3, UnitTerms, UnitTermsNext DEF UnitTypes
  <2>6. \A b \in Decrements \ {c} : f[b] = g[b]
    BY <1>1, <1>4, <2>2, <2>3 DEF OutTerm, Out
  <2>7. SumFunctionOnSet(g, Decrements) = SumFunctionOnSet(f, Decrements) + g[c] - f[c]
    BY <2>5, <2>6, CallFacts, SumUpdate
  <2>8. OnShelf(i)' + g[c] <= OnShelf(i) + f[c]
    <3>1. CASE i # q.itemId
      <4>1. g[c] = 0 /\ OnShelf(i)' = OnShelf(i)
        BY <1>1, <2>3, <3>1 DEF OutTerm, OnShelf
      <4>2. QED
        BY <2>5, <4>1, UnitTerms
    <3>2. CASE i = q.itemId /\ code = SUCCESS
      <4>1. g[c] <= q.quantity
        BY <1>1, <2>3 DEF OutTerm
      <4>2. OnShelf(i) = stock[i] /\ OnShelf(i)' = stock[i] - q.quantity
        BY <1>1, <1>2, <3>2 DEF OnShelf, NoKey
      <4>3. QED
        BY <1>1, <2>5, <3>2, <4>1, <4>2, UnitTerms
    <3>3. CASE i = q.itemId /\ code # SUCCESS
      <4>1. g[c] = 0 /\ OnShelf(i)' = OnShelf(i)
        BY <1>1, <1>2, <1>4, <2>3, <3>3 DEF OutTerm, Out, OnShelf
      <4>2. QED
        BY <2>5, <4>1, UnitTerms
    <3>4. QED
      BY <3>1, <3>2, <3>3
  <2>9. OnShelf(i) + UnitsOut(i) <= supplied[i] + UnitsMinted(i)
    BY DEF UnitsInv
  <2>10. f[c] \in Nat /\ g[c] \in Nat /\ supplied'[i] = supplied[i]
    BY <1>1, <2>5
  <2>11. QED
    BY <2>1, <2>4, <2>7, <2>8, <2>9, <2>10, UnitTerms, UnitTermsNext DEF UnitTypes
<1>6. QED
  BY <1>5 DEF UnitsInv

(* A release that runs for the first time puts back what is out for its    *)
(* decrement; when it runs again, its units are minted.                    *)
LEMMA UnitsGivenBack ==
  ASSUME CallsInv, CallsInv', UnitsInv, NEW r \in Releases, RunRelease(r)
  PROVE  UnitsInv'
<1> DEFINE c == ReleaseOf[r]
           q == request[c]
           level == AfterRelease(stock[q.itemId], q.quantity)
<1>1. /\ q = Asked(r) /\ q.itemId \in Items /\ q.quantity \in Nat \ {0} /\ stock[q.itemId] \in Levels
      /\ c \in Decrements /\ command[r] = "queued"
      /\ \A i \in Items : stock'[i] = IF i = q.itemId THEN level ELSE stock[i]
      /\ result' = [result EXCEPT ![r] = [code |-> SUCCESS, remaining |-> level]]
      /\ ran' = [ran EXCEPT ![r] = @ + 1]
      /\ supplied' = supplied /\ request' = request
  BY ReleaseRuns DEF handlers
<1>2. level = IF stock[q.itemId] = NoKey THEN NoKey ELSE stock[q.itemId] + q.quantity
  BY <1>1, Scripts
<1>3. r \in Calls /\ r \notin Decrements /\ c \in Calls
      /\ result \in [Calls -> [code : {SUCCESS, INSUFFICIENT, NOT_FOUND}, remaining : Levels]]
      /\ ran \in [Calls -> Nat]
  BY CallFacts DEF CallsInv, TypeOK
<1>4. result[c].code = SUCCESS
  BY <1>1 DEF CallsInv, ReleaseInv, DecrementInv
<1>5. \A t \in Releases : ReleaseOf[t] = c <=> t = r
  BY CallFacts
<1> HIDE DEF level, c, q
<1>6. /\ \A b \in Decrements : result'[b] = result[b]
      /\ \A t \in Releases \ {r} : ran'[t] = ran[t]
      /\ ran'[r] = ran[r] + 1 /\ ran[r] \in Nat
  BY <1>1, <1>3, CallFacts
<1>7. \A t \in Releases : Asked(t)' = Asked(t)
  BY <1>1 DEF Asked
<1>8. ASSUME NEW i \in Items
      PROVE  OnShelf(i)' + UnitsOut(i)' <= supplied'[i] + UnitsMinted(i)'
  <2>1. PICK f : f = OutTerm(i)
    OBVIOUS
  <2>2. PICK g : g = OutTerm(i)'
    OBVIOUS
  <2>3. PICK m : m = MintTerm(i)
    OBVIOUS
  <2>4. PICK n : n = MintTerm(i)'
    OBVIOUS
  <2>5. /\ UnitsOut(i) = SumFunctionOnSet(f, Decrements) /\ UnitsOut(i)' = SumFunctionOnSet(g, Decrements)
        /\ UnitsMinted(i) = SumFunctionOnSet(m, Releases) /\ UnitsMinted(i)' = SumFunctionOnSet(n, Releases)
    BY <2>1, <2>2, <2>3, <2>4, UnitTerms, UnitTermsNext DEF UnitTypes, UnitsOut
  <2>6. /\ \A b \in Decrements : f[b] \in Nat /\ g[b] \in Nat
        /\ \A t \in Releases : m[t] \in Nat /\ n[t] \in Nat
    BY <2>1, <2>2, <2>3, <2>4, UnitTerms, UnitTermsNext DEF UnitTypes
  <2>7. \A b \in Decrements \ {c} : f[b] = g[b]
    <3>1. ASSUME NEW b \in Decrements \ {c} PROVE Out(b)' <=> Out(b)
      BY <1>5, <1>6 DEF Out
    <3>2. QED
      BY <1>1, <2>1, <2>2, <3>1 DEF OutTerm
  <2>8. \A t \in Releases \ {r} : m[t] = n[t]
    BY <1>6, <1>7, <2>3, <2>4 DEF MintTerm
  <2>9. SumFunctionOnSet(g, Decrements) = SumFunctionOnSet(f, Decrements) + g[c] - f[c]
    <3>1. /\ c \in Decrements /\ IsFiniteSet(Decrements)
          /\ \A b \in Decrements : f[b] \in Int /\ g[b] \in Int
      BY <1>1, <2>6, CallFacts
    <3>2. QED
      BY <2>7, <3>1, SumUpdate
  <2>10. SumFunctionOnSet(n, Releases) = SumFunctionOnSet(m, Releases) + n[r] - m[r]
    <3>1. IsFiniteSet(Releases) /\ \A t \in Releases : m[t] \in Int /\ n[t] \in Int
      BY <2>6, CallFacts
    <3>2. QED
      BY <2>8, <3>1, SumUpdate
  <2>11. OnShelf(i)' + g[c] + m[r] <= OnShelf(i) + f[c] + n[r]
    <3>1. CASE i # q.itemId
      <4>1. g[c] = 0 /\ n[r] = 0 /\ m[r] = 0 /\ OnShelf(i)' = OnShelf(i)
        BY <1>1, <1>7, <2>2, <2>3, <2>4, <3>1 DEF OutTerm, MintTerm, OnShelf, q
      <4>2. QED
        BY <1>1, <2>6, <4>1, UnitTerms
    <3>2. CASE i = q.itemId
      <4>1. OnShelf(i)' <= OnShelf(i) + q.quantity
        BY <1>1, <1>2, <3>2 DEF OnShelf, NoKey, Levels
      <4>2. g[c] = 0
        BY <1>1, <1>5, <1>6, <2>2 DEF OutTerm, Out
      <4>3. CASE ran[r] = 0
        <5>1. Out(c)
          BY <1>4, <1>5, <4>3 DEF Out
        <5>2. f[c] = q.quantity
          BY <1>1, <2>1, <3>2, <5>1 DEF OutTerm, q
        <5>3. m[r] = 0 /\ n[r] = 0
          BY <1>6, <2>3, <2>4, <4>3 DEF MintTerm
        <5>4. QED
          BY <1>1, <4>1, <4>2, <5>2, <5>3, UnitTerms, UnitTermsNext DEF UnitTypes
      <4>4. CASE ran[r] > 0
        <5>1. n[r] = ran[r] * q.quantity
          BY <1>1, <1>6, <1>7, <2>4, <3>2, <4>4 DEF MintTerm
        <5>2. m[r] = (ran[r] - 1) * q.quantity
          BY <1>1, <1>6, <2>3, <3>2, <4>4 DEF MintTerm
        <5>3. n[r] = m[r] + q.quantity
          BY <1>1, <1>6, <5>1, <5>2
        <5>4. QED
          BY <1>1, <2>6, <4>1, <4>2, <5>3, UnitTerms, UnitTermsNext DEF UnitTypes
      <4>5. QED
        BY <1>6, <4>3, <4>4
    <3>3. QED
      BY <3>1, <3>2
  <2>12. OnShelf(i) + UnitsOut(i) <= supplied[i] + UnitsMinted(i)
    BY DEF UnitsInv
  <2>13. f[c] \in Nat /\ g[c] \in Nat /\ m[r] \in Nat /\ n[r] \in Nat /\ supplied'[i] = supplied[i]
    BY <1>1, <2>6
  <2>14. QED
    BY <2>5, <2>9, <2>10, <2>11, <2>12, <2>13, UnitTerms, UnitTermsNext DEF UnitTypes
<1>9. QED
  BY <1>8 DEF UnitsInv

(* Every step keeps the balance.                                          *)
LEMMA UnitsStep == ASSUME CallsInv, CallsInv', UnitsInv, [Next]_vars PROVE UnitsInv'
<1>1. ASSUME UNCHANGED <<stock, supplied, request, result, ran>> PROVE UnitsInv'
  BY <1>1, UnitsStay DEF OnShelf
<1>2. CASE \E c \in Decrements : RunDecrement(c)
  BY <1>2, UnitsTaken
<1>3. CASE \E r \in Releases : RunRelease(r)
  BY <1>3, UnitsGivenBack
<1>4. CASE \/ \E a \in Refills : Refill(a)
           \/ \E i \in Items, level \in AdminLevels : SetStock(i, level)
  BY <1>4, LevelWritten, UnitsStay DEF wire
<1>5. CASE \/ \E c \in Calls : Receive(c) \/ TimeOut(c)
           \/ \E c \in Decrements : ReplyDecrement(c)
           \/ \E r \in Releases : ReplyRelease(r)
           \/ Reconnect
           \/ Crash
  <2>1. UNCHANGED <<stock, supplied, request, result, ran>>
    BY <1>5 DEF Receive, TimeOut, ReplyDecrement, ReplyRelease, Reconnect, Crash, wire, handlers
  <2>2. QED
    BY <1>1, <2>1
<1>6. CASE UNCHANGED vars
  BY <1>1, <1>6 DEF vars
<1>7. QED
  BY <1>2, <1>3, <1>4, <1>5, <1>6 DEF Next, DecrementStep, ReleaseStep

(* Nothing has run at first.                                               *)
LEMMA InitUnits == ASSUME Init PROVE UnitsInv
<1>1. ASSUME NEW i \in Items PROVE OnShelf(i) + UnitsOut(i) <= supplied[i] + UnitsMinted(i)
  <2>1. /\ \A c \in Decrements : OutTerm(i)[c] = 0
        /\ \A r \in Releases : MintTerm(i)[r] = 0
    BY CallFacts DEF Init, OutTerm, MintTerm, Out, NOT_FOUND, SUCCESS
  <2>2. UnitsOut(i) = 0
    BY <2>1, CallFacts, SumZero DEF UnitsOut
  <2>3. UnitsMinted(i) = 0
    <3>1. SumFunctionOnSet(MintTerm(i), Releases) = 0
      BY <2>1, CallFacts, SumZero
    <3>2. QED
      BY <3>1, InitCalls, UnitTerms
  <2>4. supplied[i] = OnShelf(i) /\ OnShelf(i) \in Nat
    BY InitCalls, UnitTerms DEF Init
  <2>5. QED
    BY <2>2, <2>3, <2>4
<1>2. QED
  BY <1>1 DEF UnitsInv

(* What patrons were told is theirs is out.                                *)
LEMMA HeldIsOut ==
  ASSUME CallsInv, NEW i \in Items
  PROVE  UnitsHeld(i) \in Int /\ UnitsHeld(i) <= UnitsOut(i)
<1>1. PICK f : f = [c \in Decrements |-> IF Held(c) /\ request[c].itemId = i
                                         THEN request[c].quantity ELSE 0]
  OBVIOUS
<1>2. PICK g : g = OutTerm(i)
  OBVIOUS
<1>3. ASSUME NEW c \in Decrements, Held(c) PROVE Out(c)
  <2>1. result[c].code = SUCCESS
    BY <1>3 DEF Held, CallsInv, DecrementInv
  <2>2. ASSUME NEW r \in Releases, ReleaseOf[r] = c PROVE ran[r] = 0
    BY <1>3, <2>2, CallFacts DEF Held, CallsInv, CallInv
  <2>3. QED
    BY <2>1, <2>2 DEF Out
<1>4. \A c \in Decrements : g[c] \in Int /\ f[c] \in Int /\ f[c] <= g[c]
  <2>1. ASSUME NEW c \in Decrements PROVE g[c] \in Nat /\ (f[c] = g[c] \/ f[c] = 0)
    BY <1>1, <1>2, <1>3, UnitTerms DEF OutTerm
  <2>2. QED
    BY <2>1
<1>5. SumFunctionOnSet(f, Decrements) <= SumFunctionOnSet(g, Decrements)
  BY <1>4, CallFacts, SumMonotone
<1>6. SumFunctionOnSet(f, Decrements) \in Int
  BY <1>4, CallFacts, SumType
<1>7. UnitsHeld(i) = SumFunctionOnSet(f, Decrements) /\ UnitsOut(i) = SumFunctionOnSet(g, Decrements)
  BY <1>1, <1>2 DEF UnitsHeld, UnitsOut
<1>8. QED
  BY <1>5, <1>6, <1>7

(* Both together are kept.                                                 *)
LEMMA UnitsInvariance == Spec => [](CallsInv /\ UnitsInv)
<1>1. Init => CallsInv /\ UnitsInv
  BY InitCalls, InitUnits
<1>2. CallsInv /\ UnitsInv /\ [Next]_vars => (CallsInv /\ UnitsInv)'
  BY CallsStep, UnitsStep
<1>3. QED
  BY <1>1, <1>2, PTL DEF Spec

(* However late, however often and for whomever commands run: what is on   *)
(* the shelf and what patrons hold exceeds what was put on sale by no more *)
(* than the units of releases that Redis ran again.                        *)
THEOREM OnlyResentReleasesMint == Spec => []ExcessIsResent
<1>1. CallsInv /\ UnitsInv => ExcessIsResent
  <2>1. ASSUME CallsInv, UnitsInv, NEW i \in Items
        PROVE  OnShelf(i) + UnitsHeld(i) <= supplied[i] + UnitsMinted(i)
    <3>1. OnShelf(i) + UnitsOut(i) <= supplied[i] + UnitsMinted(i)
      BY <2>1 DEF UnitsInv
    <3>2. QED
      BY <2>1, <3>1, UnitTerms, HeldIsOut
  <2>2. QED
    BY <2>1 DEF ExcessIsResent
<1>2. QED
  BY <1>1, UnitsInvariance, PTL

(* So until a connection breaks nothing is oversold, whatever times out,   *)
(* crashes, is refilled or set meanwhile.                                  *)
THEOREM NothingOversold == Spec => [](reconnects = 0 => NoOversell)
<1>1. CallsInv /\ UnitsInv => (reconnects = 0 => NoOversell)
  <2>1. ASSUME CallsInv, UnitsInv, reconnects = 0, NEW i \in Items
        PROVE  OnShelf(i) + UnitsHeld(i) <= supplied[i]
    <3>1. OnShelf(i) + UnitsOut(i) <= supplied[i] + UnitsMinted(i)
      BY <2>1 DEF UnitsInv
    <3>2. ASSUME NEW r \in Releases PROVE MintTerm(i)[r] = 0
      <4>1. r \in Calls /\ ran[r] \in Nat
        BY <2>1, CallFacts DEF CallsInv, TypeOK
      <4>2. ran[r] <= 1
        BY <2>1, <4>1 DEF CallsInv, CallInv
      <4>3. QED
        BY <4>1, <4>2 DEF MintTerm
    <3>3. SumFunctionOnSet(MintTerm(i), Releases) = 0
      BY <3>2, CallFacts, SumZero
    <3>4. UnitsMinted(i) = 0
      BY <2>1, <3>3, UnitTerms
    <3>5. QED
      BY <2>1, <3>1, <3>4, UnitTerms, HeldIsOut
  <2>2. QED
    BY <2>1 DEF NoOversell
<1>2. QED
  BY <1>1, UnitsInvariance, PTL

-----------------------------------------------------------------------------
(* Announcements.  A sell-out is pending while the call whose script took  *)
(* the last unit has not been answered by it.                              *)

Unannounced(c) ==
  CrossedZero(result[c]) /\ ~(pc[c] = "done" /\ answer[c] # "INTERNAL")
PendingTerm(i) ==
  [c \in Decrements |-> IF Unannounced(c) /\ request[c].itemId = i THEN 1 ELSE 0]
Pending(i) == SumFunctionOnSet(PendingTerm(i), Decrements)

Announced(i) == zeroStock[i] + refused[i] + Pending(i)
AnnounceInv ==
  \A i \in Items : Announced(i) <= soldOut[i] /\ (reconnects = 0 => Announced(i) = soldOut[i])

(* The number of pending sell-outs.                                        *)
LEMMA PendingTypes ==
  ASSUME NEW f, \A c \in Decrements : f[c] \in {0, 1}
  PROVE  /\ SumFunctionOnSet(f, Decrements) \in Nat
         /\ (\A c \in Decrements : f[c] = 0) => SumFunctionOnSet(f, Decrements) = 0
<1>1. PICK z : z = [c \in Decrements |-> 0]
  OBVIOUS
<1>2. SumFunctionOnSet(z, Decrements) = 0
  BY <1>1, CallFacts, SumZero
<1>3. \A c \in Decrements : z[c] \in Int /\ f[c] \in Int /\ z[c] <= f[c]
  BY <1>1
<1>4. SumFunctionOnSet(z, Decrements) <= SumFunctionOnSet(f, Decrements)
  BY <1>3, CallFacts, SumMonotone
<1>5. SumFunctionOnSet(f, Decrements) \in Int
  BY <1>3, CallFacts, SumType
<1>6. (\A c \in Decrements : f[c] = 0) => SumFunctionOnSet(f, Decrements) = 0
  BY CallFacts, SumZero
<1>7. QED
  BY <1>2, <1>4, <1>5, <1>6

(* Steps that answer no decrement and run none.                            *)
LEMMA AnnouncementsStay ==
  ASSUME AnnounceInv, UNCHANGED <<request, zeroStock, refused, soldOut>>,
         \A c \in Decrements : Unannounced(c)' <=> Unannounced(c),
         reconnects' = 0 => reconnects = 0
  PROVE  AnnounceInv'
<1>1. ASSUME NEW i \in Items PROVE Announced(i)' = Announced(i)
  BY DEF Announced, Pending, PendingTerm
<1>2. QED
  BY <1>1 DEF AnnounceInv

(* One decrement's part in what is pending.                                *)
LEMMA PendingChange ==
  ASSUME NEW c \in Decrements, NEW i \in Items, request' = request,
         \A b \in Decrements \ {c} : Unannounced(b)' <=> Unannounced(b)
  PROVE  /\ Pending(i) \in Nat /\ Pending(i)' \in Nat
         /\ request[c].itemId # i => Pending(i)' = Pending(i)
         /\ request[c].itemId = i =>
              Pending(i)' + (IF Unannounced(c) THEN 1 ELSE 0)
                = Pending(i) + (IF Unannounced(c)' THEN 1 ELSE 0)
<1>1. PICK f : f = PendingTerm(i)
  OBVIOUS
<1>2. PICK g : g = PendingTerm(i)'
  OBVIOUS
<1>3. Pending(i) = SumFunctionOnSet(f, Decrements) /\ Pending(i)' = SumFunctionOnSet(g, Decrements)
  BY <1>1, <1>2 DEF Pending
<1>4. \A b \in Decrements : f[b] \in {0, 1} /\ g[b] \in {0, 1}
  BY <1>1, <1>2 DEF PendingTerm
<1>5. Pending(i) \in Nat /\ Pending(i)' \in Nat
  BY <1>3, <1>4, PendingTypes
<1>6. \A b \in Decrements \ {c} : f[b] = g[b]
  BY <1>1, <1>2 DEF PendingTerm
<1>7. SumFunctionOnSet(g, Decrements) = SumFunctionOnSet(f, Decrements) + g[c] - f[c]
  <2>1. IsFiniteSet(Decrements) /\ \A b \in Decrements : f[b] \in Int /\ g[b] \in Int
    BY <1>4, CallFacts
  <2>2. QED
    BY <1>6, <2>1, SumUpdate
<1>8. /\ f[c] = IF Unannounced(c) /\ request[c].itemId = i THEN 1 ELSE 0
      /\ g[c] = IF Unannounced(c)' /\ request[c].itemId = i THEN 1 ELSE 0
  BY <1>1, <1>2 DEF PendingTerm
<1>9. QED
  BY <1>3, <1>5, <1>7, <1>8

(* A script that takes the last unit makes a sell-out pending.  Unless the *)
(* connection has broken it runs for the first time, so that none was      *)
(* pending for it.                                                         *)
LEMMA DecrementAnnounces ==
  ASSUME CallsInv, AnnounceInv, NEW c \in Decrements, RunDecrement(c)
  PROVE  AnnounceInv'
<1> DEFINE q == request[c]
           level == AfterDecrement(stock[q.itemId], q.quantity)
           code == DecrementCode(stock[q.itemId], q.quantity)
           crossed == code = SUCCESS /\ level = 0
<1>1. /\ q.itemId \in Items /\ q.quantity \in Nat \ {0} /\ stock[q.itemId] \in Levels
      /\ \A i \in Items : soldOut'[i] =
           IF i = q.itemId /\ code = SUCCESS /\ level = 0 THEN soldOut[i] + 1 ELSE soldOut[i]
      /\ result' = [result EXCEPT ![c] =
                      [code |-> code, remaining |-> IF level = NoKey THEN 0 ELSE level]]
      /\ command[c] = "queued"
      /\ UNCHANGED <<request, pc, answer, zeroStock, refused, reconnects>>
  BY DecrementRuns DEF handlers, bounds
<1>2. code = SUCCESS => level \in Nat
  BY <1>1, Scripts
<1>3. c \in Calls /\ result \in [Calls -> [code : {SUCCESS, INSUFFICIENT, NOT_FOUND}, remaining : Levels]]
  BY CallFacts DEF CallsInv, TypeOK
<1> HIDE DEF level, code
<1>4. CrossedZero(result[c])' <=> crossed
  BY <1>1, <1>2, <1>3 DEF CrossedZero, NoKey
<1>5. Unannounced(c)' <=> crossed
  <2>1. ~(pc[c] = "done" /\ answer[c] # "INTERNAL")
    BY <1>1, <1>3 DEF CallsInv, CallInv
  <2>2. QED
    BY <1>1, <1>4, <2>1 DEF Unannounced
<1>6. \A b \in Decrements \ {c} : Unannounced(b)' <=> Unannounced(b)
  <2>1. \A b \in Decrements \ {c} : result'[b] = result[b]
    BY <1>1, <1>3, CallFacts
  <2>2. QED
    BY <1>1, <2>1 DEF Unannounced, CrossedZero
<1>7. reconnects = 0 => ~Unannounced(c)
  <2>1. reconnects = 0 => ran[c] = 0
    BY <1>1, <1>3 DEF CallsInv, CallInv, TypeOK
  <2>2. QED
    BY <1>3, <2>1 DEF CallsInv, CallInv, Unannounced, CrossedZero
<1>8. ASSUME NEW i \in Items
      PROVE  Announced(i)' <= soldOut'[i] /\ (reconnects' = 0 => Announced(i)' = soldOut'[i])
  <2>1. zeroStock[i] \in Nat /\ refused[i] \in Nat /\ soldOut[i] \in Nat
    BY DEF CallsInv, TypeOK
  <2>2. Announced(i) <= soldOut[i] /\ (reconnects = 0 => Announced(i) = soldOut[i])
    BY DEF AnnounceInv
  <2>3. /\ Announced(i) = zeroStock[i] + refused[i] + Pending(i)
        /\ Announced(i)' = zeroStock[i] + refused[i] + Pending(i)'
    BY <1>1 DEF Announced
  <2>4. /\ Pending(i) \in Nat /\ Pending(i)' \in Nat
        /\ request[c].itemId # i => Pending(i)' = Pending(i)
        /\ request[c].itemId = i =>
             Pending(i)' + (IF Unannounced(c) THEN 1 ELSE 0)
               = Pending(i) + (IF Unannounced(c)' THEN 1 ELSE 0)
    BY <1>1, <1>6, PendingChange
  <2>5. CASE q.itemId # i
    BY <1>1, <2>1, <2>2, <2>3, <2>4, <2>5
  <2>6. CASE q.itemId = i
    <3>1. soldOut'[i] = soldOut[i] + (IF crossed THEN 1 ELSE 0)
      BY <1>1, <2>1, <2>6
    <3>2. Pending(i)' + (IF Unannounced(c) THEN 1 ELSE 0) = Pending(i) + (IF crossed THEN 1 ELSE 0)
      BY <1>5, <2>4, <2>6
    <3>3. Pending(i)' <= Pending(i) + (IF crossed THEN 1 ELSE 0)
      BY <2>4, <3>2
    <3>4. reconnects = 0 => Pending(i)' = Pending(i) + (IF crossed THEN 1 ELSE 0)
      BY <1>7, <2>4, <3>2
    <3> HIDE DEF crossed
    <3>5. QED
      BY <1>1, <2>1, <2>2, <2>3, <2>4, <3>1, <3>3, <3>4
  <2>7. QED
    BY <2>5, <2>6
<1>9. QED
  BY <1>8 DEF AnnounceInv

(* The answer announces what was pending for it.                           *)
LEMMA AnswerAnnounces ==
  ASSUME CallsInv, AnnounceInv, NEW c \in Decrements, ReplyDecrement(c)
  PROVE  AnnounceInv'
<1>1. /\ pc[c] = "waiting" /\ request[c].itemId \in Items
      /\ CodeName(result[c].code) \in {"SUCCESS", "INSUFFICIENT", "NOT_FOUND"}
      /\ Answer(c, CodeName(result[c].code))
      /\ \A i \in Items : zeroStock'[i] + refused'[i] =
           zeroStock[i] + refused[i] + IF CrossedZero(result[c]) /\ request[c].itemId = i
                                       THEN 1 ELSE 0
      /\ zeroStock' \in [Items -> Nat] /\ refused' \in [Items -> Nat]
      /\ UNCHANGED <<request, result, soldOut, reconnects>>
  BY DecrementReplies DEF wire, bounds
<1>2. /\ pc \in [Calls \cup Refills -> {"idle", "waiting", "done", "crashed"}]
      /\ answer \in [Calls -> Answers] /\ c \in Calls
  BY CallFacts DEF CallsInv, TypeOK
<1>3. pc'[c] = "done" /\ answer'[c] # "INTERNAL"
      /\ \A b \in Decrements \ {c} : pc'[b] = pc[b] /\ answer'[b] = answer[b]
  BY <1>1, <1>2, CallFacts DEF Answer
<1>4. /\ ~Unannounced(c)'
      /\ Unannounced(c) <=> CrossedZero(result[c])
      /\ \A b \in Decrements \ {c} : Unannounced(b)' <=> Unannounced(b)
  BY <1>1, <1>3 DEF Unannounced, CrossedZero
<1>5. ASSUME NEW i \in Items PROVE Announced(i)' = Announced(i)
  <2>1. /\ Pending(i) \in Nat /\ Pending(i)' \in Nat
        /\ request[c].itemId # i => Pending(i)' = Pending(i)
        /\ request[c].itemId = i =>
             Pending(i)' + (IF Unannounced(c) THEN 1 ELSE 0)
               = Pending(i) + (IF Unannounced(c)' THEN 1 ELSE 0)
    BY <1>1, <1>4, PendingChange
  <2>2. Pending(i) = Pending(i)' + IF CrossedZero(result[c]) /\ request[c].itemId = i THEN 1 ELSE 0
    BY <1>4, <2>1
  <2>3. /\ zeroStock[i] \in Nat /\ refused[i] \in Nat /\ zeroStock'[i] \in Nat /\ refused'[i] \in Nat
    BY <1>1 DEF CallsInv, TypeOK
  <2>4. zeroStock'[i] + refused'[i] =
          zeroStock[i] + refused[i] + IF CrossedZero(result[c]) /\ request[c].itemId = i THEN 1 ELSE 0
    BY <1>1
  <2>5. zeroStock'[i] + refused'[i] + Pending(i)' = zeroStock[i] + refused[i] + Pending(i)
    BY <2>1, <2>2, <2>3, <2>4
  <2>6. QED
    BY <2>5 DEF Announced
<1>6. QED
  BY <1>1, <1>5 DEF AnnounceInv

(* Every step keeps the announcements.                                     *)
LEMMA AnnounceStep == ASSUME CallsInv, AnnounceInv, [Next]_vars PROVE AnnounceInv'
<1>1. \A c \in Decrements : c \in Calls /\ c \notin Releases /\ c \notin Refills
  BY CallFacts
<1>2. CASE \E c \in Decrements : RunDecrement(c)
  BY <1>2, DecrementAnnounces
<1>3. CASE \E c \in Decrements : ReplyDecrement(c)
  BY <1>3, AnswerAnnounces
<1>4. /\ pc \in [Calls \cup Refills -> {"idle", "waiting", "done", "crashed"}]
      /\ answer \in [Calls -> Answers]
      /\ result \in [Calls -> [code : {SUCCESS, INSUFFICIENT, NOT_FOUND}, remaining : Levels]]
  BY DEF CallsInv, TypeOK
<1>5. CASE \E c \in Calls : Receive(c)
  <2>1. PICK c \in Calls : Receive(c)
    BY <1>5
  <2>2. /\ pc[c] = "idle" /\ UNCHANGED <<request, zeroStock, refused, soldOut, reconnects, result>>
        /\ \A b \in Calls \ {c} : pc'[b] = pc[b] /\ answer'[b] = answer[b]
    BY <1>4, <2>1 DEF Receive, Answer, sellouts, bounds
  <2>3. ~CrossedZero(result[c])
    BY <2>2 DEF CallsInv, CallInv, CrossedZero
  <2>4. \A b \in Decrements : Unannounced(b)' <=> Unannounced(b)
    BY <1>1, <2>2, <2>3 DEF Unannounced, CrossedZero
  <2>5. QED
    BY <2>2, <2>4, AnnouncementsStay
<1>6. CASE \E c \in Calls : TimeOut(c)
  <2>1. PICK c \in Calls : TimeOut(c)
    BY <1>6
  <2>2. /\ pc[c] = "waiting" /\ UNCHANGED <<request, zeroStock, refused, soldOut, reconnects, result>>
        /\ answer'[c] = "INTERNAL"
        /\ \A b \in Calls \ {c} : pc'[b] = pc[b] /\ answer'[b] = answer[b]
    BY <1>4, <2>1 DEF TimeOut, Answer, sellouts, bounds, wire
  <2>3. \A b \in Decrements : Unannounced(b)' <=> Unannounced(b)
    BY <1>1, <2>2 DEF Unannounced, CrossedZero
  <2>4. QED
    BY <2>2, <2>3, AnnouncementsStay
<1>7. CASE \E r \in Releases : RunRelease(r) \/ ReplyRelease(r)
  <2>1. PICK r \in Releases : RunRelease(r) \/ ReplyRelease(r)
    BY <1>7
  <2>2. /\ UNCHANGED <<request, zeroStock, refused, soldOut, reconnects>>
        /\ \A b \in Calls \ {r} : pc'[b] = pc[b] /\ answer'[b] = answer[b] /\ result'[b] = result[b]
    BY <1>4, <2>1 DEF RunRelease, ReplyRelease, Answer, sellouts, bounds, wire, handlers
  <2>3. \A b \in Decrements : Unannounced(b)' <=> Unannounced(b)
    BY <1>1, <2>1, <2>2 DEF Unannounced, CrossedZero
  <2>4. QED
    BY <2>2, <2>3, AnnouncementsStay
<1>8. CASE \/ \E a \in Refills : Refill(a)
           \/ \E i \in Items, level \in AdminLevels : SetStock(i, level)
  <2>1. /\ UNCHANGED <<request, zeroStock, refused, soldOut, reconnects, result, answer>>
        /\ \A b \in Calls : pc'[b] = pc[b]
    BY <1>8, LevelWritten DEF wire, sellouts
  <2>2. \A b \in Decrements : Unannounced(b)' <=> Unannounced(b)
    BY <1>1, <2>1 DEF Unannounced, CrossedZero
  <2>3. QED
    BY <2>1, <2>2, AnnouncementsStay
<1>9. CASE Reconnect
  <2>1. UNCHANGED <<request, zeroStock, refused, soldOut, result, answer, pc>> /\ reconnects' # 0
    BY <1>9 DEF Reconnect, handlers, sellouts, CallsInv, TypeOK
  <2>2. \A b \in Decrements : Unannounced(b)' <=> Unannounced(b)
    BY <2>1 DEF Unannounced, CrossedZero
  <2>3. QED
    BY <2>1, <2>2, AnnouncementsStay
<1>10. CASE Crash
  <2>1. /\ UNCHANGED <<request, zeroStock, refused, soldOut, reconnects, result, answer>>
        /\ \A b \in Calls : pc'[b] = "done" /\ answer[b] # "INTERNAL"
                             <=> pc[b] = "done" /\ answer[b] # "INTERNAL"
    BY <1>4, <1>10 DEF Crash, GivenUp, sellouts, bounds, wire
  <2>2. \A b \in Decrements : Unannounced(b)' <=> Unannounced(b)
    BY <1>1, <2>1 DEF Unannounced, CrossedZero
  <2>3. QED
    BY <2>1, <2>2, AnnouncementsStay
<1>11. CASE UNCHANGED vars
  <2>1. UNCHANGED <<request, zeroStock, refused, soldOut, reconnects, result, answer, pc>>
    BY <1>11 DEF vars
  <2>2. \A b \in Decrements : Unannounced(b)' <=> Unannounced(b)
    BY <2>1 DEF Unannounced, CrossedZero
  <2>3. QED
    BY <2>1, <2>2, AnnouncementsStay
<1>12. QED
  BY <1>2, <1>3, <1>5, <1>6, <1>7, <1>8, <1>9, <1>10, <1>11 DEF Next, DecrementStep, ReleaseStep

(* No sell-out has happened at first.                                      *)
LEMMA InitAnnounce == ASSUME Init PROVE AnnounceInv
<1>1. ASSUME NEW i \in Items PROVE Announced(i) = 0 /\ soldOut[i] = 0
  <2>1. \A c \in Decrements : PendingTerm(i)[c] = 0
    BY CallFacts DEF Init, PendingTerm, Unannounced, CrossedZero, NOT_FOUND, SUCCESS
  <2>2. Pending(i) = 0
    BY <2>1, CallFacts, SumZero DEF Pending
  <2>3. QED
    BY <2>2 DEF Init, Announced
<1>2. QED
  BY <1>1 DEF AnnounceInv

(* Every announcement is of a sell-out that happened, and of no other      *)
(* item's; once every caller has heard, each was announced exactly once.   *)
THEOREM EverySelloutAnnounced == Spec => []SelloutAnnounced
<1>1. CallsInv /\ AnnounceInv => SelloutAnnounced
  <2>1. ASSUME CallsInv, AnnounceInv, NEW i \in Items
        PROVE  /\ zeroStock[i] + refused[i] <= soldOut[i]
               /\ Heard => zeroStock[i] + refused[i] = soldOut[i]
    <3>1. zeroStock[i] \in Nat /\ refused[i] \in Nat /\ soldOut[i] \in Nat
      BY <2>1 DEF CallsInv, TypeOK
    <3>2. \A c \in Decrements : PendingTerm(i)[c] \in {0, 1}
      BY DEF PendingTerm
    <3>3. Pending(i) \in Nat
      BY <3>2, PendingTypes DEF Pending
    <3>4. Heard => Pending(i) = 0
      <4>1. ASSUME Heard, NEW c \in Decrements PROVE ~Unannounced(c)
        <5>1. c \in Calls /\ pc[c] \in {"idle", "done"} /\ answer[c] # "INTERNAL"
          BY <4>1, CallFacts DEF Heard
        <5>2. pc[c] = "idle" => result[c].code # SUCCESS
          BY <2>1, <5>1 DEF CallsInv, CallInv
        <5>3. QED
          BY <5>1, <5>2 DEF Unannounced, CrossedZero
      <4>2. ASSUME Heard PROVE \A c \in Decrements : PendingTerm(i)[c] = 0
        BY <4>1, <4>2 DEF PendingTerm
      <4>3. QED
        BY <3>2, <4>2, PendingTypes DEF Pending
    <3>5. /\ zeroStock[i] + refused[i] + Pending(i) <= soldOut[i]
          /\ reconnects = 0 => zeroStock[i] + refused[i] + Pending(i) = soldOut[i]
      BY <2>1 DEF AnnounceInv, Announced
    <3>6. Heard => reconnects = 0
      BY DEF Heard
    <3>7. QED
      BY <3>1, <3>3, <3>4, <3>5, <3>6
  <2>2. QED
    BY <2>1 DEF SelloutAnnounced
<1>2. Init => CallsInv /\ AnnounceInv
  BY InitCalls, InitAnnounce
<1>3. CallsInv /\ AnnounceInv /\ [Next]_vars => (CallsInv /\ AnnounceInv)'
  BY CallsStep, AnnounceStep
<1>4. QED
  BY <1>1, <1>2, <1>3, PTL DEF Spec

-----------------------------------------------------------------------------
(* The start script.                                                       *)

NoneSpawned(g) == \A s \in Services : child[g][s] = "none"

(* What each start has spawned, and whose services are still alive.        *)
ProcessInv ==
  /\ step # "off" => starts > 0
  /\ \A g \in Starts : g > starts \/ (g = starts /\ step \in DOMAIN Following) => NoneSpawned(g)
  /\ timedOut \subseteq 1..starts
  /\ starts \in timedOut => step = "off"
  /\ \A g \in Starts, s \in Services :
       child[g][s] \in Alive => g \in timedOut \/ (g = starts /\ step \in {"gateway", "ready"})
  /\ portTaken # {} => timedOut # {}

(* What the catalogue holds, and what menu services have loaded of it.     *)
CatalogInv ==
  /\ step = "seed" => \A k \in DOMAIN Products : 2 * k - 1 <= seeded => Products[k] \in catalog
  /\ step \in {"seed redis", "spawn"} => catalog = SeedItems
  /\ (\E g \in Starts : ~NoneSpawned(g)) => catalog = SeedItems
  /\ \A g \in Up("menu") : known[g] = SeedItems

(* The levels the stores hold while nothing sells from them.               *)
Full == [p \in SeedItems |-> InitialStock]
LevelsInv ==
  timedOut = {} =>
    /\ step = "seed" =>
         \A k \in DOMAIN Products : 2 * k <= seeded => inventory[Products[k]] = InitialStock
    /\ step \in {"seed redis", "spawn"} => inventory = Full
    /\ step = "spawn" /\ ~lostSets => levels = Full

StackInv == StackTypeOK /\ ProcessInv /\ CatalogInv /\ LevelsInv

(* The order of the steps.                                                 *)
LEMMA Steps ==
  /\ DOMAIN Following = {"env", "install", "compose", "postgres", "redis", "migrate", "seed", "seed redis", "spawn"}
  /\ Following["env"] = "install" /\ Following["install"] = "compose"
  /\ Following["compose"] = "postgres" /\ Following["postgres"] = "redis"
  /\ Following["redis"] = "migrate" /\ Following["migrate"] = "seed"
  /\ Following["seed"] = "seed redis" /\ Following["seed redis"] = "spawn"
  /\ Following["spawn"] = "gateway"
BY DEF Following

(* The constants.                                                          *)
LEMMA StackFacts ==
  /\ {"menu", "stock", "gateway"} \subseteq Services
  /\ MaxStarts \in Nat /\ MaxSlips \in Nat
  /\ Len(Products) \in Nat /\ DOMAIN Products = 1..Len(Products)
  /\ \A k \in DOMAIN Products : Products[k] \in SeedItems
  /\ \A p \in SeedItems : \E k \in DOMAIN Products : p = Products[k]
BY StackAssumption DEF SeedItems

(* A step that neither spawns nor meets a service, and of the script moves *)
(* from one step of bootstrap to another or ends it, keeps the processes.  *)
LEMMA BootstrapProcesses ==
  ASSUME StackInv, UNCHANGED <<processes, timedOut>>,
         \/ starts' = starts /\ step \in DOMAIN Following
              /\ step' \in (DOMAIN Following \cup {"off"})
         \/ Start
  PROVE  /\ starts' \in 0..MaxStarts
         /\ ProcessInv'
<1> USE DEF StackInv, ProcessInv
<1>1. UNCHANGED <<child, known, portTaken, timedOut>> /\ starts \in 0..MaxStarts
  BY DEF processes, StackTypeOK
<1>2. \A g \in Starts : NoneSpawned(g)' <=> NoneSpawned(g)
  BY <1>1 DEF NoneSpawned
<1>3. Starts = 1..MaxStarts /\ MaxStarts \in Nat
  BY StackFacts DEF Starts
<1>4. CASE /\ starts' = starts /\ step \in DOMAIN Following
           /\ step' \in (DOMAIN Following \cup {"off"})
  BY <1>1, <1>2, <1>4, Steps
<1>5. CASE Start
  <2>1. starts' = starts + 1 /\ step = "off" /\ starts < MaxStarts /\ step' = "env"
    BY <1>5 DEF Start
  <2>2. starts' \in 0..MaxStarts /\ starts' > 0
    BY <1>1, <1>3, <2>1
  <2>3. \A g \in Starts : g > starts' \/ g = starts' => NoneSpawned(g)'
    BY <1>1, <1>2, <1>3, <2>1
  <2>4. timedOut' \subseteq 1..starts' /\ starts' \notin timedOut'
    BY <1>1, <2>1
  <2>5. \A g \in Starts, s \in Services : child'[g][s] \in Alive => g \in timedOut'
    BY <1>1, <2>1
  <2>6. portTaken' # {} => timedOut' # {}
    BY <1>1
  <2>7. QED
    BY <2>1, <2>2, <2>3, <2>4, <2>5, <2>6
<1>6. QED
  BY <1>4, <1>5

(* What menu services hold, and whether any was spawned, is as before.     *)
LEMMA BootstrapKnown ==
  ASSUME StackInv, UNCHANGED processes, catalog \subseteq catalog', catalog' \subseteq SeedItems
  PROVE  /\ (\E g \in Starts : ~NoneSpawned(g)') => catalog' = SeedItems
         /\ \A g \in Up("menu")' : known'[g] = SeedItems
BY DEF StackInv, CatalogInv, NoneSpawned, Up, processes

(* Half of a number of seeded rows.                                        *)
LEMMA Halves ==
  ASSUME NEW n \in Nat
  PROVE  n \div 2 \in Nat /\ n % 2 \in {0, 1} /\ n = 2 * (n \div 2) + (n % 2)
OBVIOUS

(* The steps of bootstrap before the rows are seeded.                      *)
LEMMA EarlySteps ==
  ASSUME StackInv, Start \/ Prepare \/ Migrate \/ FailBootstrap
  PROVE  StackInv'
<1> USE DEF StackInv
<1>1. /\ UNCHANGED <<catalog, inventory, levels, lostSets, processes, timedOut>>
      /\ step' \in {"off", "env", "install", "compose", "postgres", "redis", "migrate", "seed"}
      /\ step' = "seed" => seeded' = 0
      /\ seeded' \in {0, seeded} /\ migrated' \in BOOLEAN /\ slips' \in 0..MaxSlips
      /\ Start \/ (starts' = starts /\ step \in DOMAIN Following)
  <2>1. migrated \in BOOLEAN /\ slips \in 0..MaxSlips /\ MaxSlips \in Nat
    BY StackFacts DEF StackTypeOK
  <2>2. CASE Start
    BY <2>1, <2>2 DEF Start, stores
  <2>3. CASE Prepare
    BY <2>1, <2>3, Steps DEF Prepare, Proceed, stores
  <2>4. CASE Migrate
    BY <2>1, <2>4, Steps DEF Migrate, Proceed
  <2>5. CASE FailBootstrap
    <3>1. /\ step' = "off" /\ step \in DOMAIN Following /\ starts' = starts
          /\ UNCHANGED <<seeded, migrated, catalog, inventory, levels, lostSets, processes, timedOut>>
      BY <2>5 DEF FailBootstrap, stores
    <3>2. slips < MaxSlips /\ slips' = slips + 1
      BY <2>5 DEF FailBootstrap, Slip
    <3>3. slips' \in 0..MaxSlips
      BY <2>1, <3>2
    <3>4. QED
      BY <2>1, <3>1, <3>3
  <2>6. QED
    BY <2>2, <2>3, <2>4, <2>5
<1>2. step' \in DOMAIN Following \cup {"off"}
  BY <1>1, Steps
<1>3. starts' \in 0..MaxStarts /\ ProcessInv'
  BY <1>1, <1>2, BootstrapProcesses
<1>4. StackTypeOK'
  <2>1. seeded' \in 0..(2 * Len(Products))
    BY <1>1, StackFacts DEF StackTypeOK
  <2>2. QED
    BY <1>1, <1>2, <1>3, <2>1 DEF StackTypeOK, processes
<1>5. CatalogInv'
  <2>1. step' = "seed" => \A k \in DOMAIN Products : ~(2 * k - 1 <= seeded')
    BY <1>1, StackFacts
  <2>2. (\E g \in Starts : ~NoneSpawned(g)') => catalog' = SeedItems
    BY <1>1, BootstrapKnown DEF StackTypeOK
  <2>3. \A g \in Up("menu")' : known'[g] = SeedItems
    BY <1>1, BootstrapKnown DEF StackTypeOK
  <2>4. step' \notin {"seed redis", "spawn"}
    BY <1>1
  <2>5. QED
    BY <2>1, <2>2, <2>3, <2>4 DEF CatalogInv
<1>6. LevelsInv'
  <2>1. step' = "seed" => \A k \in DOMAIN Products : ~(2 * k <= seeded')
    BY <1>1, StackFacts
  <2>2. QED
    BY <1>1, <2>1 DEF LevelsInv
<1>7. QED
  BY <1>3, <1>4, <1>5, <1>6

(* A row is seeded: of a product, the catalogue's before the inventory's.  *)
LEMMA RowSeeded == ASSUME StackInv, SeedRow PROVE StackInv'
<1> USE DEF StackInv
<1>1. PICK h : h = seeded \div 2
  OBVIOUS
<1>2. PICK p : p = Products[h + 1]
  OBVIOUS
<1>3. /\ step = "seed" /\ step' = "seed" /\ starts' = starts /\ seeded' = seeded + 1
      /\ seeded < 2 * Len(Products) /\ seeded \in Nat
      /\ UNCHANGED <<migrated, levels, lostSets, processes, timedOut, slips>>
  BY StackFacts DEF SeedRow, StackTypeOK
<1>4. /\ seeded % 2 = 0 => catalog' = catalog \cup {p} /\ inventory' = inventory
      /\ seeded % 2 # 0 => inventory' = [inventory EXCEPT ![p] = InitialStock] /\ catalog' = catalog
  BY <1>1, <1>2 DEF SeedRow
<1>5. h \in Nat /\ seeded % 2 \in {0, 1} /\ seeded = 2 * h + (seeded % 2)
  BY <1>1, <1>3, Halves
<1>6. h + 1 \in DOMAIN Products /\ p \in SeedItems
  BY <1>2, <1>3, <1>5, StackFacts
<1>7. starts' \in 0..MaxStarts /\ ProcessInv'
  BY <1>3, BootstrapProcesses, Steps
<1>8. catalog \subseteq catalog' /\ catalog' \subseteq SeedItems
  BY <1>4, <1>5, <1>6 DEF StackTypeOK
<1>9. /\ inventory \in [SeedItems -> NoLevel..InitialStock]
      /\ inventory' \in [SeedItems -> NoLevel..InitialStock]
  BY <1>4, <1>5, <1>6 DEF StackTypeOK, NoLevel, InitialStock
<1>10. StackTypeOK'
  <2>1. seeded' \in 0..(2 * Len(Products))
    BY <1>3, StackFacts
  <2>2. QED
    BY <1>3, <1>7, <1>8, <1>9, <2>1, Steps DEF StackTypeOK, processes
<1>11. ASSUME NEW k \in DOMAIN Products, 2 * k - 1 <= seeded' PROVE Products[k] \in catalog'
  <2>1. k \in Nat
    BY StackFacts
  <2>2. CASE 2 * k - 1 <= seeded
    BY <1>3, <1>8, <2>2 DEF CatalogInv
  <2>3. CASE 2 * k - 1 = seeded + 1
    <3>1. seeded % 2 = 0 /\ k = h + 1
      BY <1>5, <2>1, <2>3
    <3>2. QED
      BY <1>2, <1>4, <3>1
  <2>4. QED
    BY <1>3, <1>11, <2>1, <2>2, <2>3
<1>12. CatalogInv'
  <2>1. (\E g \in Starts : ~NoneSpawned(g)') => catalog' = SeedItems
    BY <1>3, <1>8, BootstrapKnown
  <2>2. \A g \in Up("menu")' : known'[g] = SeedItems
    BY <1>3, <1>8, BootstrapKnown
  <2>3. QED
    BY <1>3, <1>11, <2>1, <2>2 DEF CatalogInv
<1>13. ASSUME timedOut' = {}, NEW k \in DOMAIN Products, 2 * k <= seeded'
       PROVE  inventory'[Products[k]] = InitialStock
  <2>1. k \in Nat /\ Products[k] \in SeedItems
    BY StackFacts
  <2>2. CASE 2 * k <= seeded
    <3>1. inventory[Products[k]] = InitialStock
      BY <1>3, <1>13, <2>2 DEF LevelsInv
    <3>2. QED
      BY <1>4, <1>9, <2>1, <3>1
  <2>3. CASE 2 * k = seeded + 1
    <3>1. seeded % 2 # 0 /\ k = h + 1
      BY <1>5, <2>1, <2>3
    <3>2. QED
      BY <1>2, <1>4, <1>9, <2>1, <3>1
  <2>4. QED
    BY <1>3, <1>13, <2>1, <2>2, <2>3
<1>14. LevelsInv'
  BY <1>3, <1>13 DEF LevelsInv
<1>15. QED
  BY <1>7, <1>10, <1>12, <1>14

(* When the last row is there the catalogue is whole.                      *)
LEMMA RowsDone == ASSUME StackInv, SeedDone PROVE StackInv'
<1> USE DEF StackInv
<1>1. /\ step = "seed" /\ step' = "seed redis" /\ starts' = starts /\ seeded = 2 * Len(Products)
      /\ UNCHANGED <<seeded, migrated, catalog, inventory, levels, lostSets, processes, timedOut, slips>>
  BY Steps DEF SeedDone, Proceed, stores
<1>2. starts' \in 0..MaxStarts /\ ProcessInv'
  BY <1>1, BootstrapProcesses, Steps
<1>3. StackTypeOK'
  BY <1>1, <1>2, Steps DEF StackTypeOK, processes
<1>4. ASSUME NEW k \in DOMAIN Products PROVE 2 * k - 1 <= seeded /\ 2 * k <= seeded
  <2>1. PICK n \in Nat : n = Len(Products)
    BY StackFacts
  <2>2. k \in 1..n /\ seeded = 2 * n
    BY <1>1, <2>1, StackFacts
  <2>3. QED
    BY <2>2
<1>5. catalog = SeedItems
  <2>1. \A k \in DOMAIN Products : Products[k] \in catalog
    BY <1>1, <1>4 DEF CatalogInv
  <2>2. QED
    BY <2>1, StackFacts DEF StackTypeOK
<1>6. timedOut = {} => inventory = Full
  <2>1. inventory \in [SeedItems -> NoLevel..InitialStock]
    BY DEF StackTypeOK
  <2>2. timedOut = {} => \A p \in SeedItems : inventory[p] = InitialStock
    BY <1>1, <1>4, StackFacts DEF LevelsInv
  <2>3. QED
    BY <2>1, <2>2 DEF Full
<1>7. CatalogInv'
  <2>1. (\E g \in Starts : ~NoneSpawned(g)') => catalog' = SeedItems
    BY <1>1, <1>5
  <2>2. \A g \in Up("menu")' : known'[g] = SeedItems
    BY <1>1, BootstrapKnown DEF StackTypeOK
  <2>3. QED
    BY <1>1, <1>5, <2>1, <2>2 DEF CatalogInv
<1>8. LevelsInv'
  BY <1>1, <1>6 DEF LevelsInv
<1>9. QED
  BY <1>2, <1>3, <1>7, <1>8

(* The levels are set, unless Redis loses some.                            *)
LEMMA RedisSeeded == ASSUME StackInv, SeedRedis PROVE StackInv'
<1> USE DEF StackInv
<1>1. /\ step = "seed redis" /\ step' = "spawn" /\ starts' = starts
      /\ UNCHANGED <<seeded, migrated, catalog, inventory, processes, timedOut>>
  BY Steps DEF SeedRedis, Proceed
<1>2. PICK lost \in SUBSET SeedItems :
        /\ IF lost = {} THEN UNCHANGED slips ELSE Slip
        /\ levels' = [p \in SeedItems |-> IF p \in lost THEN levels[p] ELSE InitialStock]
        /\ lostSets' = (lost # {})
  BY DEF SeedRedis
<1>3. starts' \in 0..MaxStarts /\ ProcessInv'
  BY <1>1, BootstrapProcesses, Steps
<1>4. StackTypeOK'
  <2>1. levels' \in [SeedItems -> NoLevel..InitialStock]
    BY <1>2 DEF StackTypeOK, NoLevel, InitialStock
  <2>2. slips' \in 0..MaxSlips
    BY <1>2, StackFacts DEF StackTypeOK, Slip
  <2>3. lostSets' \in BOOLEAN
    BY <1>2
  <2>4. QED
    BY <1>1, <1>3, <2>1, <2>2, <2>3, Steps DEF StackTypeOK, processes
<1>5. catalog' = SeedItems
  BY <1>1 DEF CatalogInv
<1>6. CatalogInv'
  <2>1. \A g \in Up("menu")' : known'[g] = SeedItems
    BY <1>1, <1>5, BootstrapKnown DEF StackTypeOK
  <2>2. QED
    BY <1>1, <1>5, <2>1 DEF CatalogInv
<1>7. LevelsInv'
  <2>1. ~lostSets' => levels' = Full
    BY <1>2 DEF Full
  <2>2. QED
    BY <1>1, <2>1 DEF LevelsInv
<1>8. QED
  BY <1>3, <1>4, <1>6, <1>7

(* A set of services is spawned when the catalogue is whole.               *)
LEMMA Spawned == ASSUME StackInv, Spawn PROVE StackInv'
<1> USE DEF StackInv
<1>1. /\ step = "spawn" /\ step' = "gateway" /\ starts' = starts
      /\ child' = [child EXCEPT ![starts] = [s \in Services |-> "booting"]]
      /\ UNCHANGED <<seeded, migrated, catalog, inventory, levels, lostSets, known, portTaken, timedOut, slips>>
  BY Steps DEF Spawn, Proceed, stores
<1>2. /\ starts \in Starts /\ starts \in Nat /\ \A g \in Starts : g \in Nat
      /\ child \in [Starts -> [Services -> Alive \cup {"none", "exited", "killed"}]]
  BY <1>1, StackFacts DEF ProcessInv, StackTypeOK, Starts
<1>3. StackTypeOK'
  <2>1. child' \in [Starts -> [Services -> Alive \cup {"none", "exited", "killed"}]]
    BY <1>1, <1>2 DEF Alive
  <2>2. QED
    BY <1>1, <2>1 DEF StackTypeOK
<1>4. \A g \in Starts : g # starts => child'[g] = child[g]
  BY <1>1, <1>2
<1>5. ProcessInv'
  <2>1. \A g \in Starts : g > starts => NoneSpawned(g)'
    BY <1>2, <1>4 DEF ProcessInv, NoneSpawned
  <2>2. \A g \in Starts, s \in Services : child'[g][s] \in Alive => g \in timedOut \/ g = starts
    BY <1>4 DEF ProcessInv
  <2>3. step' \notin DOMAIN Following /\ step' # "off"
    BY <1>1, Steps
  <2>4. QED
    BY <1>1, <2>1, <2>2, <2>3 DEF ProcessInv
<1>6. CatalogInv'
  <2>1. Up("menu")' \subseteq Up("menu")
    BY <1>1, <1>2, <1>4, StackFacts DEF Up
  <2>2. QED
    BY <1>1, <2>1 DEF CatalogInv
<1>7. LevelsInv'
  BY <1>1 DEF LevelsInv
<1>8. QED
  BY <1>3, <1>5, <1>6, <1>7

(* The script finds its gateway, or gives up on it.                        *)
LEMMA GatewayAwaited ==
  ASSUME StackInv, GatewayAnswers \/ GatewayTimesOut
  PROVE  StackInv'
<1> USE DEF StackInv
<1>1. /\ step = "gateway" /\ starts' = starts
      /\ UNCHANGED <<seeded, migrated, catalog, inventory, levels, lostSets, child, known, portTaken, slips>>
      /\ \/ step' = "ready" /\ timedOut' = timedOut
         \/ step' = "off" /\ timedOut' = timedOut \cup {starts}
  BY DEF GatewayAnswers, GatewayTimesOut, stores, processes
<1>2. starts \in Starts /\ starts \in 1..starts
  BY <1>1, StackFacts DEF ProcessInv, StackTypeOK, Starts
<1>3. StackTypeOK'
  BY <1>1, <1>2 DEF StackTypeOK
<1>4. ProcessInv'
  BY ZenonT(60), <1>1, <1>2, Steps DEF ProcessInv, NoneSpawned
<1>5. CatalogInv' /\ LevelsInv'
  BY <1>1 DEF CatalogInv, LevelsInv, NoneSpawned, Up
<1>6. QED
  BY <1>3, <1>4, <1>5

(* Ctrl+C takes along what the script has spawned.                         *)
LEMMA Interrupted == ASSUME StackInv, Interrupt PROVE StackInv'
<1> USE DEF StackInv
<1>1. /\ step # "off" /\ step' = "off" /\ starts' = starts
      /\ child' = [child EXCEPT ![starts] = Killed(@)]
      /\ UNCHANGED <<seeded, migrated, catalog, inventory, levels, lostSets, known, portTaken, timedOut, slips>>
  BY DEF Interrupt, stores
<1>2. /\ starts \in Starts
      /\ child \in [Starts -> [Services -> Alive \cup {"none", "exited", "killed"}]]
  BY <1>1, StackFacts DEF ProcessInv, StackTypeOK, Starts
<1>3. /\ child'[starts] = Killed(child[starts])
      /\ \A g \in Starts : g # starts => child'[g] = child[g]
  BY <1>1, <1>2
<1>4. \A s \in Services :
        /\ child'[starts][s] \in {"none", "exited", "killed"}
        /\ child'[starts][s] = "none" <=> child[starts][s] = "none"
  BY <1>2, <1>3 DEF Killed, Alive
<1>5. StackTypeOK'
  <2>1. Killed(child[starts]) \in [Services -> Alive \cup {"none", "exited", "killed"}]
    BY <1>2 DEF Killed, Alive
  <2>2. child' \in [Starts -> [Services -> Alive \cup {"none", "exited", "killed"}]]
    BY <1>1, <1>2, <2>1
  <2>3. QED
    BY <1>1, <2>2 DEF StackTypeOK
<1>6. \A g \in Starts : NoneSpawned(g)' <=> NoneSpawned(g)
  <2>1. ASSUME NEW g \in Starts, g # starts PROVE NoneSpawned(g)' <=> NoneSpawned(g)
    BY <1>3, <2>1 DEF NoneSpawned
  <2>2. ASSUME NEW g \in Starts, g = starts PROVE NoneSpawned(g)' <=> NoneSpawned(g)
    BY <1>4, <2>2 DEF NoneSpawned
  <2>3. QED
    BY <2>1, <2>2
<1>7. ProcessInv'
  <2>1. \A g \in Starts, s \in Services : child'[g][s] \in Alive => g # starts /\ child[g][s] \in Alive
    BY <1>3, <1>4 DEF Alive
  <2>2. \A g \in Starts, s \in Services : child'[g][s] \in Alive => g \in timedOut
    BY <2>1 DEF ProcessInv
  <2>3. \A g \in Starts : g > starts => NoneSpawned(g)'
    BY <1>6 DEF ProcessInv
  <2>4. step' \notin DOMAIN Following
    BY <1>1, Steps
  <2>5. QED
    BY <1>1, <2>2, <2>3, <2>4 DEF ProcessInv
<1>8. CatalogInv'
  <2>1. Up("menu")' \subseteq Up("menu")
    BY <1>3, <1>4, StackFacts DEF Up
  <2>2. QED
    BY <1>1, <1>6, <2>1 DEF CatalogInv
<1>9. LevelsInv'
  BY <1>1 DEF LevelsInv
<1>10. QED
  BY <1>5, <1>7, <1>8, <1>9

(* A service boots or crashes.  That a port is taken means that two starts *)
(* have services alive, of which the script knows one at most; and the     *)
(* catalogue a menu service loads is whole.                                *)
LEMMA ServiceSteps ==
  ASSUME StackInv, NEW g \in Starts, NEW s \in Services, Boot(g, s) \/ CrashChild(g, s)
  PROVE  StackInv'
<1> USE DEF StackInv
<1>1. PICK now \in {"up", "exited"} :
        /\ child[g][s] \in Alive
        /\ child' = [child EXCEPT ![g][s] = now]
        /\ \/ UNCHANGED <<portTaken, known>>
           \/ /\ child[g][s] = "booting"
              /\ portTaken' = IF Up(s) = {} THEN portTaken ELSE portTaken \cup {<<g, s>>}
              /\ known' = IF s = "menu" /\ now = "up" THEN [known EXCEPT ![g] = catalog] ELSE known
        /\ now = "up" => child[g][s] = "booting" /\ (s = "menu" => known' = [known EXCEPT ![g] = catalog])
        /\ UNCHANGED <<starts, step, seeded, migrated, catalog, inventory, levels, lostSets, timedOut>>
        /\ slips' = slips \/ Slip
  <2>1. CASE Boot(g, s)
    <3>1. PICK listens \in BOOLEAN : listens = (Up(s) = {} /\ (s = "menu" => migrated))
      OBVIOUS
    <3>2. /\ child[g][s] = "booting"
          /\ child' = [child EXCEPT ![g][s] = IF listens THEN "up" ELSE "exited"]
          /\ portTaken' = IF Up(s) = {} THEN portTaken ELSE portTaken \cup {<<g, s>>}
          /\ known' = IF s = "menu" /\ listens THEN [known EXCEPT ![g] = catalog] ELSE known
          /\ UNCHANGED <<starts, step, seeded, migrated, catalog, inventory, levels, lostSets, timedOut, slips>>
      BY <2>1, <3>1 DEF Boot, stores
    <3>3. CASE listens
      BY <3>2, <3>3 DEF Alive
    <3>4. CASE ~listens
      BY <3>2, <3>4 DEF Alive
    <3>5. QED
      BY <3>3, <3>4
  <2>2. CASE CrashChild(g, s)
    BY <2>2 DEF CrashChild, stores, Alive
  <2>3. QED
    BY <2>1, <2>2
<1>2. child \in [Starts -> [Services -> Alive \cup {"none", "exited", "killed"}]]
  BY DEF StackTypeOK
<1>3. \A h \in Starts, t \in Services :
        child'[h][t] = IF h = g /\ t = s THEN now ELSE child[h][t]
  BY <1>1, <1>2
<1>4. ~NoneSpawned(g) /\ catalog = SeedItems
  BY <1>1 DEF NoneSpawned, Alive, CatalogInv
<1>5. portTaken' # {} => timedOut # {}
  <2>1. ASSUME child[g][s] = "booting", Up(s) # {} PROVE timedOut # {}
    <3>1. PICK h \in Starts : child[h][s] = "up"
      BY <2>1 DEF Up
    <3>2. h # g /\ child[h][s] \in Alive
      BY <2>1, <3>1 DEF Alive
    <3>3. QED
      BY <1>1, <3>2 DEF ProcessInv
  <2>2. QED
    BY <1>1, <2>1 DEF ProcessInv
<1>6. StackTypeOK'
  <2>1. child' \in [Starts -> [Services -> Alive \cup {"none", "exited", "killed"}]]
    BY <1>1, <1>2 DEF Alive
  <2>2. known' \in [Starts -> SUBSET SeedItems]
    BY <1>1 DEF StackTypeOK
  <2>3. portTaken' \subseteq (Starts \X Services)
    BY <1>1 DEF StackTypeOK
  <2>4. slips' \in 0..MaxSlips
    BY <1>1, StackFacts DEF StackTypeOK, Slip
  <2>5. QED
    BY <1>1, <2>1, <2>2, <2>3, <2>4 DEF StackTypeOK
<1>7. ProcessInv'
  <2>1. \A h \in Starts : NoneSpawned(h)' <=> NoneSpawned(h)
    BY <1>1, <1>3, <1>4 DEF NoneSpawned
  <2>2. \A h \in Starts, t \in Services : child'[h][t] \in Alive => child[h][t] \in Alive
    BY <1>1, <1>3
  <2>3. QED
    BY <1>1, <1>5, <2>1, <2>2 DEF ProcessInv
<1>8. CatalogInv'
  <2>1. ASSUME NEW h \in Starts, child'[h]["menu"] = "up" PROVE known'[h] = SeedItems
    <3>1. "menu" \in Services /\ known \in [Starts -> SUBSET SeedItems]
      BY StackFacts DEF StackTypeOK
    <3>2. CASE h = g /\ s = "menu"
      BY <1>1, <1>3, <1>4, <2>1, <3>1, <3>2
    <3>3. CASE ~(h = g /\ s = "menu")
      <4>1. h \in Up("menu")
        BY <1>3, <2>1, <3>1, <3>3 DEF Up
      <4>2. known[h] = SeedItems
        BY <4>1 DEF CatalogInv
      <4>3. QED
        BY <1>1, <1>4, <3>1, <4>2
    <3>4. QED
      BY <3>2, <3>3
  <2>2. QED
    BY <1>1, <1>4, <2>1 DEF CatalogInv, Up
<1>9. LevelsInv'
  BY <1>1 DEF LevelsInv
<1>10. QED
  BY <1>6, <1>7, <1>8, <1>9

(* A stock service sells, or writes the levels back: then either the script*)
(* is past its seeding, or a start has left services behind.               *)
LEMMA StockSteps ==
  ASSUME StackInv, (\E p \in SeedItems : Sale(p)) \/ FlushLevels
  PROVE  StackInv'
<1> USE DEF StackInv
<1>1. /\ Up("stock") # {}
      /\ UNCHANGED <<starts, step, seeded, migrated, catalog, lostSets, processes, timedOut, slips>>
  BY DEF Sale, FlushLevels
<1>2. levels' \in [SeedItems -> NoLevel..InitialStock] /\ inventory' \in [SeedItems -> NoLevel..InitialStock]
  <2>1. /\ levels \in [SeedItems -> NoLevel..InitialStock]
        /\ inventory \in [SeedItems -> NoLevel..InitialStock]
    BY DEF StackTypeOK
  <2>2. CASE FlushLevels
    BY <2>1, <2>2 DEF FlushLevels
  <2>3. ASSUME NEW p \in SeedItems, Sale(p)
        PROVE  levels' \in [SeedItems -> NoLevel..InitialStock] /\ inventory' = inventory
    <3>1. levels[p] - 1 \in NoLevel..InitialStock
      BY <2>1, <2>3 DEF Sale, NoLevel, InitialStock
    <3>2. QED
      BY <2>1, <2>3, <3>1 DEF Sale
  <2>4. QED
    BY <2>1, <2>2, <2>3
<1>3. StackTypeOK'
  BY <1>1, <1>2 DEF StackTypeOK, processes
<1>4. timedOut # {} \/ step \in {"gateway", "ready"}
  BY <1>1, StackFacts DEF ProcessInv, Up, Alive
<1>5. ProcessInv'
  BY <1>1 DEF ProcessInv, NoneSpawned, processes
<1>6. CatalogInv'
  BY <1>1 DEF CatalogInv, NoneSpawned, Up, processes
<1>7. LevelsInv'
  BY <1>1, <1>4 DEF LevelsInv
<1>8. QED
  BY <1>3, <1>5, <1>6, <1>7

(* So the stack's invariant always holds.                                  *)
LEMMA StackInvariance == StackSpec => []StackInv
<1>1. ASSUME StackInit PROVE StackInv
  <2>1. StackTypeOK
    <3>1. /\ {inventory, levels} \subseteq [SeedItems -> NoLevel..InitialStock]
          /\ child \in [Starts -> [Services -> Alive \cup {"none", "exited", "killed"}]]
          /\ known \in [Starts -> SUBSET SeedItems]
      BY <1>1 DEF StackInit, NoLevel, InitialStock
    <3>2. starts \in 0..MaxStarts /\ seeded \in 0..(2 * Len(Products)) /\ slips \in 0..MaxSlips
      BY <1>1, StackFacts DEF StackInit
    <3>3. QED
      BY <1>1, <3>1, <3>2 DEF StackInit, StackTypeOK
  <2>2. ProcessInv
    BY <1>1, Steps DEF StackInit, ProcessInv, NoneSpawned, Alive
  <2>3. CatalogInv
    BY <1>1, StackFacts DEF StackInit, CatalogInv, NoneSpawned, Up
  <2>4. LevelsInv
    BY <1>1 DEF StackInit, LevelsInv
  <2>5. QED
    BY <2>1, <2>2, <2>3, <2>4 DEF StackInv
<1>2. ASSUME StackInv, [StackNext]_stackVars PROVE StackInv'
  <2>1. CASE UNCHANGED stackVars
    BY <1>2, <2>1 DEF stackVars, StackInv, StackTypeOK, ProcessInv, CatalogInv, LevelsInv, NoneSpawned, Up
  <2>2. CASE StackNext
    BY <1>2, <2>2, EarlySteps, RowSeeded, RowsDone, RedisSeeded, Spawned, GatewayAwaited,
       Interrupted, ServiceSteps, StockSteps DEF StackNext
  <2>3. QED
    BY <1>2, <2>1, <2>2
<1>3. QED
  BY <1>1, <1>2, PTL DEF StackSpec

(* Every variable of the start script keeps its type, for any services and *)
(* any sequence of products.                                               *)
THEOREM StackTypeCorrect == StackSpec => []StackTypeOK
<1>1. StackInv => StackTypeOK
  BY DEF StackInv
<1>2. QED
  BY <1>1, StackInvariance, PTL

(* Services outlive their script only when it gave up on its gateway, and  *)
(* until one did no process finds its port taken.                          *)
THEOREM OnlyTimeoutsLeaveServices == StackSpec => []LeftoversTimedOut
<1>1. StackInv => LeftoversTimedOut
  BY DEF StackInv, ProcessInv, LeftoversTimedOut, Leftover
<1>2. QED
  BY <1>1, StackInvariance, PTL

(* Services are spawned on stores that hold every product at its opening   *)
(* level, and a menu service holds the whole catalogue.                    *)
THEOREM StoresOpenFull == StackSpec => []OpensFull
<1>1. StackInv => OpensFull
  BY DEF StackInv, CatalogInv, LevelsInv, OpensFull, Full
<1>2. QED
  BY <1>1, StackInvariance, PTL
=============================================================================
