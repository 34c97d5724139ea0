------------------------------ MODULE StackStart ------------------------------
(* `bun run start`: the script that migrates and seeds the stores, spawns   *)
(* the services and waits for the gateway, run several times by somebody    *)
(* who may press Ctrl+C at any moment.  Of the services there is what meets *)
(* a start: their ports, the menu service's catalogue, and what the stock   *)
(* service does to the levels.                                              *)
EXTENDS Integers, Sequences, FiniteSets

CONSTANTS
  Services,   \* some of PRODUCTION_STACK, among them menu, stock and gateway
  Products,   \* SEED_PRODUCTS, in order
  MaxStarts,
  MaxSlips    \* failing steps, lost SETs and crashes of services

SeedItems == {Products[k] : k \in DOMAIN Products}

ASSUME StackAssumption ==
  /\ {"menu", "stock", "gateway"} \subseteq Services
  /\ Products \in Seq(SeedItems)
  /\ {MaxStarts, MaxSlips} \subseteq Nat

VARIABLES
  starts,     \* times the script was started
  step,       \* what the last start awaits, "off" when it has exited
  seeded,     \* INSERTs that db:seed has made
  migrated,   \* the tables exist
  catalog,    \* catalog_items
  inventory,  \* inventory_sql
  levels,     \* the stock keys in Redis
  child,      \* what each start spawned
  known,      \* the catalogue of each start's menu service
  timedOut,   \* starts that gave up waiting for the gateway
  portTaken,  \* processes that could not listen
  lostSets,   \* the last seed:redis lost SETs
  slips

stackVars == <<starts, step, seeded, migrated, catalog, inventory, levels, child, known,
               timedOut, portTaken, lostSets, slips>>
stores == <<seeded, migrated, catalog, inventory, levels, lostSets>>
processes == <<child, known, portTaken>>

Starts == 1..MaxStarts
NoLevel == -1
InitialStock == 1
Alive == {"booting", "up"}

(* The steps of bootstrap, and of what follows it.                          *)
Following ==
  [s \in {"env", "install", "compose", "postgres", "redis", "migrate", "seed", "seed redis", "spawn"} |->
     CASE s = "env" -> "install" [] s = "install" -> "compose" [] s = "compose" -> "postgres"
       [] s = "postgres" -> "redis" [] s = "redis" -> "migrate" [] s = "migrate" -> "seed"
       [] s = "seed" -> "seed redis" [] s = "seed redis" -> "spawn" [] s = "spawn" -> "gateway"]
Proceed == step' = Following[step]

StackInit ==
  /\ starts = 0 /\ step = "off"
  /\ seeded = 0 /\ migrated = FALSE /\ catalog = {}
  /\ inventory = [p \in SeedItems |-> NoLevel] /\ levels = [p \in SeedItems |-> NoLevel]
  /\ child = [g \in Starts |-> [s \in Services |-> "none"]]
  /\ known = [g \in Starts |-> {}]
  /\ timedOut = {} /\ portTaken = {} /\ lostSets = FALSE
  /\ slips = 0

Slip == slips < MaxSlips /\ slips' = slips + 1
Up(s) == {g \in Starts : child[g][s] = "up"}

-----------------------------------------------------------------------------
(* bootstrap.                                                               *)

Start ==
  /\ step = "off" /\ starts < MaxStarts
  /\ starts' = starts + 1 /\ step' = "env"
  /\ UNCHANGED <<stores, processes, timedOut, slips>>

(* Docker and .env are there or made, dependencies installed, the           *)
(* containers started and found ready.                                      *)
Prepare ==
  /\ step \in {"env", "install", "compose", "postgres", "redis"}
  /\ Proceed
  /\ UNCHANGED <<starts, stores, processes, timedOut, slips>>

Migrate ==
  /\ step = "migrate"
  /\ Proceed
  /\ migrated' = TRUE /\ seeded' = 0
  /\ UNCHANGED <<starts, catalog, inventory, levels, lostSets, processes, timedOut, slips>>

(* db:seed: for each product its catalogue row, then its inventory row.     *)
SeedRow ==
  /\ step = "seed" /\ seeded < 2 * Len(Products)
  /\ seeded' = seeded + 1
  /\ LET product == Products[(seeded \div 2) + 1] IN
     IF seeded % 2 = 0
     THEN catalog' = catalog \cup {product} /\ UNCHANGED inventory
     ELSE inventory' = [inventory EXCEPT ![product] = InitialStock] /\ UNCHANGED catalog
  /\ UNCHANGED <<starts, step, migrated, levels, lostSets, processes, timedOut, slips>>

(* The seeding not awaited.                                                 *)
SeedBehind ==
  /\ step = "seed"
  /\ Proceed
  /\ UNCHANGED <<starts, stores, processes, timedOut, slips>>

SeedDone ==
  /\ step = "seed" /\ seeded = 2 * Len(Products)
  /\ Proceed
  /\ UNCHANGED <<starts, stores, processes, timedOut, slips>>

(* seed:redis: the answers of the pipeline's SETs are not looked at.        *)
SeedRedis ==
  /\ step = "seed redis"
  /\ Proceed
  /\ \E lost \in SUBSET SeedItems :
       /\ IF lost = {} THEN UNCHANGED slips ELSE Slip
       /\ levels' = [p \in SeedItems |-> IF p \in lost THEN levels[p] ELSE InitialStock]
       /\ lostSets' = (lost # {})
  /\ UNCHANGED <<starts, seeded, migrated, catalog, inventory, processes, timedOut>>

(* A command exits with an error, Docker is missing, or a store is not ready*)
(* in time.                                                                 *)
FailBootstrap ==
  /\ step \in DOMAIN Following \ {"spawn"} /\ Slip
  /\ step' = "off"
  /\ UNCHANGED <<starts, stores, processes, timedOut>>

-----------------------------------------------------------------------------
(* startStack, waitForGateway and shutdown.                                 *)

Spawn ==
  /\ step = "spawn"
  /\ Proceed
  /\ child' = [child EXCEPT ![starts] = [s \in Services |-> "booting"]]
  /\ UNCHANGED <<starts, stores, known, portTaken, timedOut, slips>>

(* Any gateway will do.                                                     *)
GatewayAnswers ==
  /\ step = "gateway" /\ Up("gateway") # {}
  /\ step' = "ready"
  /\ UNCHANGED <<starts, stores, processes, timedOut, slips>>

(* The script exits, and leaves what it spawned.                            *)
GatewayTimesOut ==
  /\ step = "gateway" /\ Up("gateway") = {}
  /\ step' = "off" /\ timedOut' = timedOut \cup {starts}
  /\ UNCHANGED <<starts, stores, processes, slips>>

(* SIGINT ends the script alone.                                            *)
Spared(children) == children

Killed(children) ==
  [s \in Services |-> IF children[s] \in Alive THEN "killed" ELSE children[s]]

(* Ctrl+C: until startStack has set its handlers there is nothing to stop.  *)
Interrupt ==
  /\ step # "off"
  /\ step' = "off"
  /\ child' = [child EXCEPT ![starts] = Killed(@)]
  /\ UNCHANGED <<starts, stores, known, portTaken, timedOut, slips>>

-----------------------------------------------------------------------------
(* The services.  The menu service loads its catalogue before it listens.   *)

Boot(g, s) ==
  /\ child[g][s] = "booting"
  /\ LET listens == Up(s) = {} /\ (s = "menu" => migrated) IN
     /\ child' = [child EXCEPT ![g][s] = IF listens THEN "up" ELSE "exited"]
     /\ portTaken' = IF Up(s) = {} THEN portTaken ELSE portTaken \cup {<<g, s>>}
     /\ known' = IF s = "menu" /\ listens THEN [known EXCEPT ![g] = catalog] ELSE known
  /\ UNCHANGED <<starts, step, stores, timedOut, slips>>

CrashChild(g, s) ==
  /\ child[g][s] = "up" /\ Slip
  /\ child' = [child EXCEPT ![g][s] = "exited"]
  /\ UNCHANGED <<starts, step, stores, known, portTaken, timedOut>>

(* See StockService and WriteBehind.                                        *)
Sale(p) ==
  /\ Up("stock") # {} /\ levels[p] > 0
  /\ levels' = [levels EXCEPT ![p] = @ - 1]
  /\ UNCHANGED <<starts, step, seeded, migrated, catalog, inventory, lostSets, processes, timedOut, slips>>

FlushLevels ==
  /\ Up("stock") # {}
  /\ inventory' = [p \in SeedItems |-> IF p \in catalog /\ levels[p] # NoLevel THEN levels[p]
                                   ELSE inventory[p]]
  /\ UNCHANGED <<starts, step, seeded, migrated, catalog, levels, lostSets, processes, timedOut, slips>>

StackNext ==
  \/ Start \/ Prepare \/ Migrate \/ SeedRow \/ SeedDone \/ SeedRedis \/ FailBootstrap
  \/ Spawn \/ GatewayAnswers \/ GatewayTimesOut \/ Interrupt
  \/ \E g \in Starts : \E s \in Services : Boot(g, s) \/ CrashChild(g, s)
  \/ \E p \in SeedItems : Sale(p)
  \/ FlushLevels

StackSpec == StackInit /\ [][StackNext]_stackVars

-----------------------------------------------------------------------------

(* Every variable keeps its type.                                           *)
StackTypeOK ==
  /\ starts \in 0..MaxStarts /\ step \in DOMAIN Following \cup {"off", "gateway", "ready"}
  /\ seeded \in 0..(2 * Len(Products)) /\ migrated \in BOOLEAN /\ catalog \subseteq SeedItems
  /\ {inventory, levels} \subseteq [SeedItems -> NoLevel..InitialStock]
  /\ child \in [Starts -> [Services -> Alive \cup {"none", "exited", "killed"}]]
  /\ known \in [Starts -> SUBSET SeedItems]
  /\ timedOut \subseteq Starts /\ portTaken \subseteq (Starts \X Services)
  /\ lostSets \in BOOLEAN /\ slips \in 0..MaxSlips

Leftover(g) == (g # starts \/ step = "off") /\ \E s \in Services : child[g][s] \in Alive

(* Services outlive the script that spawned them only when that start gave  *)
(* up on its gateway: Ctrl+C, at whatever moment, and a bootstrap that      *)
(* fails, leave none, so that the next start finds its ports free.          *)
LeftoversTimedOut ==
  /\ \A g \in Starts : Leftover(g) => g \in timedOut
  /\ portTaken # {} => timedOut # {}

(* Whatever earlier starts were interrupted or failed half-way, services are*)
(* spawned on stores that hold every product at its opening level, unless   *)
(* Redis lost SETs unnoticed, or a start left its services behind; and the  *)
(* menu service, which loads its catalogue once, never holds a part of it.  *)
OpensFull ==
  /\ step = "spawn" /\ ~lostSets /\ timedOut = {}
       => /\ catalog = SeedItems
          /\ {inventory, levels} = {[p \in SeedItems |-> InitialStock]}
  /\ \A g \in Up("menu") : known[g] = SeedItems

=============================================================================
