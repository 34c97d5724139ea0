----------------------------- MODULE WriteBehind -----------------------------
(***************************************************************************)
(* The write-behind worker of the stock service: a timer copies the levels *)
(* of Redis into Postgres' inventory_sql, page by page of a SCAN, one      *)
(* upsert after another.  The rest of the service appears only as writes   *)
(* to keys, which may fall between any two of the worker's awaits.         *)
(***************************************************************************)
EXTENDS RedisStock, Sequences, FiniteSets, FiniteSetsExt

CONSTANTS Keys,          \* ids for which stock:available:{id} may exist
          Catalog,       \* ids with a row in catalog_items
          OpeningLevels,  \* id -> level when the worker starts
          OpeningRows,   \* id -> available_stock when the worker starts
          ScanOrders,    \* orders in which SCAN may visit the keys
          STOCK_SCAN_COUNT,
          NewLevels,     \* levels a key may be given, NoKey when it is deleted
          IntegerMax,    \* largest value of a Postgres integer column
          Flushes,       \* names for flushes that might run at once
          MaxKeyWrites,     \* bound on the writes to one key
          MaxFailures    \* bound on the awaits that reject

ASSUME KeyAssumption ==
  /\ Catalog \subseteq Keys
  /\ OpeningLevels \in [Keys -> Levels]
  /\ OpeningRows \in [Catalog -> 0..IntegerMax]
  /\ NewLevels \subseteq Levels
  /\ ScanOrders \subseteq Seq(Keys)

ASSUME BoundAssumption ==
  /\ STOCK_SCAN_COUNT \in Nat \ {0}
  /\ {IntegerMax, MaxKeyWrites, MaxFailures} \subseteq Nat
  /\ Flushes # {} /\ IsFiniteSet(Flushes)

VARIABLES
  levelOf,    \* Redis: id -> available units or NoKey
  writes,     \* history: how often a key was written, the version of its level
  scanOrder,  \* where Redis keeps the keys: SCAN cursors are positions in it
  rows,       \* Postgres inventory_sql.available_stock
  synced,     \* history: the version of the level a row holds
  inFlight,   \* the worker's guard against overlapping flushes
  at,         \* the call a flush awaits, "idle" when there is no such flush
  cursor,     \* SCAN cursor
  keys,       \* keys of the page whose values MGET is reading
  updates,    \* `updates`: what was read and is not yet upserted
  failures    \* awaits that have rejected

redis == <<levelOf, writes, scanOrder>>
postgres == <<rows, synced>>
syncVars == <<levelOf, writes, scanOrder, rows, synced, inFlight, at, cursor, keys,
          updates, failures>>

Update == [itemId : Keys, availableStock : Nat, version : Nat]

-----------------------------------------------------------------------------

SyncInit ==
  /\ levelOf = OpeningLevels
  /\ writes = [i \in Keys |-> 0]
  /\ scanOrder \in ScanOrders
  /\ rows = OpeningRows
  /\ synced = [i \in Catalog |-> 0]
  /\ inFlight = FALSE
  /\ at = [f \in Flushes |-> "idle"]
  /\ cursor = [f \in Flushes |-> 0]
  /\ keys = [f \in Flushes |-> <<>>]
  /\ updates = [f \in Flushes |-> <<>>]
  /\ failures = 0

(* Anything that changes a level: a script, a refill, an administrator, an *)
(* eviction.                                                               *)
Write(i, level) ==
  /\ writes[i] < MaxKeyWrites
  /\ level # levelOf[i]
  /\ levelOf' = [levelOf EXCEPT ![i] = level]
  /\ writes' = [writes EXCEPT ![i] = @ + 1]
  /\ UNCHANGED <<scanOrder, postgres, inFlight, at, cursor, keys, updates, failures>>

(* The timer without its guard.                                            *)
AlwaysFree == TRUE

(* "never overlap flushes"                                                 *)
MayFlush == ~inFlight

(* The timer fires.  A tick during a flush returns at once.                *)
Tick ==
  LET idle == {f \in Flushes : at[f] = "idle"}
      f == CHOOSE x \in idle : TRUE
  IN  /\ MayFlush
      /\ idle # {}
      /\ inFlight' = TRUE
      /\ at' = [at EXCEPT ![f] = "scan"]
      /\ cursor' = [cursor EXCEPT ![f] = 0]
      /\ updates' = [updates EXCEPT ![f] = <<>>]
      /\ UNCHANGED <<redis, postgres, keys, failures>>

(* The end of flush(), by its last statement or by way of the catch.       *)
Finish(f) ==
  /\ at' = [at EXCEPT ![f] = "idle"]
  /\ inFlight' = FALSE

(* The loop's condition once a page is done, then the upserts.             *)
NextPage(f, next, read) ==
  /\ cursor' = [cursor EXCEPT ![f] = next]
  /\ updates' = [updates EXCEPT ![f] = read]
  /\ \/ /\ next # 0
        /\ at' = [at EXCEPT ![f] = "scan"]
        /\ UNCHANGED inFlight
     \/ /\ next = 0 /\ read # <<>>
        /\ at' = [at EXCEPT ![f] = "upsert"]
        /\ UNCHANGED inFlight
     \/ /\ next = 0 /\ read = <<>>
        /\ Finish(f)

Exists(i) == levelOf[i] # NoKey

(* The keys of a sequence that are there, in its order.                    *)
Existing(s) ==
  LET among[n \in 0..Len(s)] ==
        IF n = 0 THEN <<>>
        ELSE IF Exists(s[n]) THEN Append(among[n - 1], s[n]) ELSE among[n - 1]
  IN  among[Len(s)]

(* SCAN answers: the next slots of the keyspace, the keys that are there.  *)
Scan(f) ==
  LET last == Min({cursor[f] + STOCK_SCAN_COUNT, Len(scanOrder)})
      page == Existing(SubSeq(scanOrder, cursor[f] + 1, last))
      next == IF last = Len(scanOrder) THEN 0 ELSE last
  IN  /\ at[f] = "scan"
      /\ \/ /\ page # <<>>
            /\ keys' = [keys EXCEPT ![f] = page]
            /\ cursor' = [cursor EXCEPT ![f] = next]
            /\ at' = [at EXCEPT ![f] = "mget"]
            /\ UNCHANGED <<inFlight, updates>>
         \/ /\ page = <<>>
            /\ NextPage(f, next, updates[f])
            /\ UNCHANGED keys
      /\ UNCHANGED <<redis, postgres, failures>>

(* MGET answers for the page: a key deleted since the SCAN is skipped.     *)
Mget(f) ==
  LET there == Existing(keys[f])
      read == [k \in DOMAIN there |->
                 [itemId |-> there[k], availableStock |-> levelOf[there[k]],
                  version |-> writes[there[k]]]]
  IN  /\ at[f] = "mget"
      /\ NextPage(f, cursor[f], updates[f] \o read)
      /\ UNCHANGED <<redis, postgres, keys, failures>>

(* The foreign key to catalog_items, and the width of the column.          *)
Storable(u) == u.itemId \in Catalog /\ u.availableStock <= IntegerMax

Store(u) ==
  /\ rows' = [rows EXCEPT ![u.itemId] = u.availableStock]
  /\ synced' = [synced EXCEPT ![u.itemId] = u.version]

(* One upsert: a statement Postgres refuses leads to the catch.            *)
Upsert(f) ==
  LET u == Head(updates[f])
      rest == Tail(updates[f])
  IN  /\ at[f] = "upsert"
      /\ updates' = [updates EXCEPT ![f] = rest]
      /\ \/ /\ Storable(u)
            /\ Store(u)
            /\ IF rest = <<>> THEN Finish(f) ELSE UNCHANGED <<at, inFlight>>
         \/ /\ ~Storable(u)
            /\ Finish(f)
            /\ UNCHANGED postgres
      /\ UNCHANGED <<redis, cursor, keys, failures>>

(* A catch that forgot what the finally does.                              *)
FailsInFlight(f) ==
  /\ failures < MaxFailures
  /\ at[f] # "idle"
  /\ at' = [at EXCEPT ![f] = "idle"]
  /\ failures' = failures + 1
  /\ UNCHANGED <<redis, postgres, inFlight, cursor, keys, updates>>

(* The awaited call rejects, an upsert before or after its effect; a dead  *)
(* process whose successor starts a new timer leaves the same state.       *)
Fails(f) ==
  /\ failures < MaxFailures
  /\ at[f] # "idle"
  /\ \/ UNCHANGED postgres
     \/ /\ at[f] = "upsert"
        /\ Storable(Head(updates[f]))
        /\ Store(Head(updates[f]))
  /\ Finish(f)
  /\ failures' = failures + 1
  /\ UNCHANGED <<redis, cursor, keys, updates>>

-----------------------------------------------------------------------------

FlushStep(f) == Scan(f) \/ Mget(f) \/ Upsert(f)

SyncNext ==
  \/ \E i \in Keys, level \in NewLevels : Write(i, level)
  \/ Tick
  \/ \E f \in Flushes : FlushStep(f) \/ Fails(f)

(* The interval fires again and again, and each awaited call settles.      *)
SyncFairness ==
  /\ WF_syncVars(Tick)
  /\ \A f \in Flushes : WF_syncVars(FlushStep(f))

SyncSpec == SyncInit /\ [][SyncNext]_syncVars
FairSyncSpec == SyncSpec /\ SyncFairness

-----------------------------------------------------------------------------
(* Properties.                                                             *)

(* Every variable keeps its type; rows only hold levels Redis has had, so  *)
(* never a negative one nor one the column cannot hold.                    *)
SyncTypeOK ==
  /\ levelOf \in [Keys -> Levels]
  /\ writes \in [Keys -> Nat]
  /\ scanOrder \in ScanOrders
  /\ rows \in [Catalog -> 0..IntegerMax]
  /\ synced \in [Catalog -> Nat]
  /\ inFlight \in BOOLEAN
  /\ at \in [Flushes -> {"idle", "scan", "mget", "upsert"}]
  /\ cursor \in [Flushes -> Nat]
  /\ keys \in [Flushes -> Seq(Keys)]
  /\ updates \in [Flushes -> Seq(Update)]
  /\ failures \in 0..MaxFailures

(* Postgres never goes back in time: an upsert never replaces the level of *)
(* a row by one that Redis held earlier, however long the snapshot in      *)
(* `updates` has waited.                                                   *)
RowsNeverGoBack == [][\A i \in Catalog : synced'[i] >= synced[i]]_synced

Reconciled ==
  \A i \in Catalog : Exists(i) /\ levelOf[i] <= IntegerMax => rows[i] = levelOf[i]

(* "On failure it logs and retries on the next tick": once the writes and  *)
(* the failures stop and Redis holds nothing Postgres refuses, every row   *)
(* comes to hold its key's level, and keeps it.                            *)
AllStorable ==
  \A i \in Keys : Exists(i) => i \in Catalog /\ levelOf[i] <= IntegerMax
Converges == <>[]AllStorable => <>[]Reconciled

(* "Periodically reconciles authoritative Redis stock counts into the      *)
(* inventory_sql read model", whatever other keys there are.               *)
RowsCatchUp == <>[]Reconciled

=============================================================================
