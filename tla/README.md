# CinemaCommerce in TLA+

This directory specifies the cinema concession platform of this repository in
TLA+, checks it with TLC on small instances and proves the central results with
TLAPS for every instance.

## 1. The system

Patrons order concessions from their seats; the stand prepares and delivers
them. Each service is one Bun process; handlers are async functions and only
interleave where they `await`. The web is one page per tab, whose handlers
interleave in the same way.

| Component | State | Operations | Talks to |
|---|---|---|---|
| order-service | Postgres `orders`, `order_items`; handler locals | `placeOrder`, `cancelOrder`, `updateOrderStatus`, reads | stock-service (gRPC), payment gateway, Postgres, BullMQ |
| stock-service | Redis `stock:available:{id}`; Postgres `inventory_sql` | `Decrement`, `Release`, `GetStock` (gRPC), `refill`, `PUT /admin/stock/:id`, write-behind worker | Redis (Lua), Postgres, notification queue |
| cart-service | Redis `cart:{user}`, 3 h TTL | `getCart`, `addItem`, `removeItem`, `clearCart`, clean-up consumer | Redis, `cart-cleanup` queue |
| analytics-service | in-memory buffer, Postgres `analytics_events` | consumer, batcher (`enqueue`, `flush`, `stop`), dashboard | `analytics` queue, Postgres |
| notification-service | open WebSockets | two consumers, broadcast | `notification` queues, browsers |
| gateway | per-socket tunnel state | HTTP proxy, `/ws` tunnel with reconnection | every service |
| menu-service | the catalogue, loaded once | catalogue reads with live stock | Postgres, stock-service |
| user-service | Postgres `users`, signed tokens | `signup`, `login`, `adminLogin`, `me` | Postgres |
| web | React state, `localStorage`, WebSocket | bootstrap, cart, checkout, order list, admin tables, simulation panel | gateway |
| digital-twin | run state, metrics | stub order pipeline, live traffic driver, audits, reports | gateway, Redis |
| packages | none | queue names, stock RPC client, JWT, Redis client, schema | used by all |
| scripts | child processes | `start`: prepare, migrate, seed, spawn, wait | Docker, Postgres, Redis |

What makes each of them hard, and what would make it correct:

- **order-service**: a checkout is a saga of four awaited steps (reserve line
  by line, charge, commit, publish) with a compensation (`releaseAll`), run
  concurrently with other checkouts, cancellations and status updates. Any await
  may fail before or after its effect and the process may die at any of them. It
  is correct if units are never given twice, rows exist only for paid and
  reserved orders, a cancellation releases once and finally, every accepted call
  is answered, and each transition is announced once.
- **stock-service**: scripts must be atomic per key; the write-behind worker
  copies Redis to Postgres on a timer that must not overlap itself, keep going
  after a failure, and converge when traffic stops.
- **cart-service**: read-modify-write on one JSON value in two calls, and a
  consumer that deletes the cart some time after the order it belonged to.
- **analytics-service**: a batcher that must neither reorder, overlap nor lose
  what the queue has already acknowledged; a dashboard whose six queries read
  the table at six moments.
- **user-service, web session**: several tabs of a browser, and two bootstraps
  per mount in development, sign up as one session at once while tokens expire
  and answers are lost. They must end up as one patron, and nobody locked out.
- **notification-service, web lists**: patrons must end up with the true status
  of their orders although messages are missed, late or overtaken by REST
  answers; sold-out items must not be offered; a checkout's late answer must not
  empty another cart.
- **web admin**: handlers go on, with what they captured, after rows were
  expanded, hidden, moved or cancelled; polls and cancellations of a simulation
  overlap while runs end and the twin restarts.
- **gateway**: a tunnel must not leak its upstream, reorder frames or keep
  reconnecting after the patron has left.
- **digital-twin**: a run can be cancelled, fail half-way or end on time; its
  audit must be right about oversold units.
- **scripts**: a start may be interrupted or fail at any step, and the next one
  meets what it left: half-seeded stores, children on their ports.

## 2. Plan

Done, in the order of their importance to the system:

1. `RedisStock`, `OrderService`, with `Inventory` as its abstract specification.
2. `StockService` and `WriteBehind` over the same scripts.
3. `Analytics`; `Dashboard` over its table.
4. `Tunnel`: the notification service, the gateway's tunnel and the web's hook.
5. `TwinReport`, `TwinRun`: the digital twin, with `SimulationRuns` as the
   abstract specification of a run's life.
6. `PatronSession`, `OrderTracking`, `PatronCart`: the patron's side of the web
   with the services it calls.
7. `AdminOrders`, `SimulationPanel`: the admin page; the panel is a client of
   `SimulationRuns`.
8. `CartService`, `StackStart`.

9. The proofs of section 5: every safety property the passing runs check, that
   is, all but the liveness named in section 6.

## 3. Modules

### `RedisStock`
The two Lua scripts as functions of one key's value. `NoKey` (-1) is a key Redis
does not have. A script is one atomic step because Redis is single-threaded.

### `Inventory`
What checkout promises about stock, with no handler in sight: a *claim* (one
line of one checkout) takes its units off the shelf once and only if they are
there, is sold together with the other lines of its order, and comes back at
most once. Faults may lose claims and units; nothing but a return or the
administrator adds any. So no unit is ever oversold: it is taken from a shelf
that holds it, or it does not exist.

### `OrderService`
`order-controller.ts` and the queries of `services/order-service.ts`.

| Specification | Code |
|---|---|
| `stock` | Redis levels, behind the stock RPC |
| `status` | `orders.status`; an order is named by the checkout that creates it |
| `pc`, `reserved`, `read`, `releasing`, `adding` | where a handler is suspended and its locals |
| `reply` | the HTTP status the handler has decided on |
| `published`, `notifications` | jobs the BullMQ queues have accepted |
| `charged`, `supplied` | history: charges that succeeded, units ever put on sale |

An action is the code between two awaits: the awaited call takes effect and the
handler runs on to the next await. So `Reserve` is one turn of the reservation
loop, `StartRelease` begins `releaseAll` (all lines are requested at once,
`ReleaseLine` settles them in any order, the reply follows the last), and
`AddJob` settles one of the two `OrderPlaced` adds that `Promise.all` awaits.
`cancelOrder` is `ReadForCancel` then `CancelIfEligible`; `updateOrderStatus` is
`ReadForUpdate`, `UpdateStatus`, `Announce`. `getOrderWithItems` issues two
queries and the model reads both at once: an order's lines are written in the
transaction that creates it and never change.

Failures are actions of their own, enabled by `failing`: what may go wrong in this
behaviour, one of the constant `FaultPlans`, chosen at the start. `wanted` is
`"none"` for an update that is never sent. A call that
rejects may or may not have had its effect (`DecrementRejects`,
`CreateOrderThrows`, `CancelThrows`, `UpdateThrows`, `ReleaseRejects`,
`AddRejects`); where the code has no `try`, the handler ends with a 500 where it
stands. `Crash` ends every running handler at once. A call may also never settle:
the stock client sets no deadline (`stock-client.ts:31`), queries have no timeout,
and BullMQ's connections retry a command for as long as Redis is away
(`connection.ts:7`). `Silent(h)` says that `h` awaits a call of a side that the plan
lets fall silent; its steps remain possible and are not made fair. To safety a call
that is never answered is one that is rejected later than the behaviour lasts.

Abstracted: prices, names, seats and times (a body is its lines and whether the
rest validates); authentication; read-only routes; the 400 for a cancel without
an order id, which touches nothing.

### The proof modules
`OrderServiceProofs`, `StockProofs`, `ConsumersProofs`, `TunnelProofs`,
`TwinProofs`, `PatronProofs`, `AdminProofs`, and `Sums` with what all of them need
about sums over finite sets: see section 5.

### `StockService`
The handlers of `stock-controller.ts` and `stock-service.ts`, seen from the
Redis connection: sending a command, running it and hearing its answer are three
steps. ioredis' `commandTimeout` may answer the caller while the command is still
queued, and a broken connection makes it send again what was not answered.

| Specification | Code |
|---|---|
| `stock`, `supplied` | `stock:available:{id}`; history of what was put on sale |
| `pc`, `answer` | where a gRPC handler stands, and its answer |
| `command`, `result`, `ran` | its EVALSHA on the wire, what it returned, how often it has run |
| `refilled` | how far the pipeline of `refillAll` is |
| `zeroStock`, `refused`, `soldOut` | `ItemZeroStock` jobs added, lost, and due |

`OrderService` sees the same service as calls that succeed or reject. It applies
a decrement whose answer is lost where it is rejected, and lets a release run at
most once; the specification here shows what that leaves out: a command can run
after its rejection (which only loses units), and a release can run twice (run
`stock_resend`). `Reconnect` sends again every command that is still waited for and
any of those whose caller has given up (`GivenUp`), as ioredis does with what has no
answer; which of them are still unanswered it leaves open, so that it may send one
more than ioredis would. `Crash` ends the connection and with it all of them.

### `WriteBehind`
The worker of `write-behind.worker.ts`: a tick starts a flush unless one is in
flight; a flush scans Redis page by page, reads each page with MGET and then
upserts row by row. Every await is a step; writes and evictions fall between any
two. Levels carry the version of the write that made them (`writes`, `synced`),
so that going back in time is visible where the numbers agree. Postgres refuses
ids outside the catalogue (foreign key) and levels wider than its column.

### `Analytics`
Queue, worker, batcher and shutdown. `queue` and `active` are BullMQ's waiting
and active jobs, `buffer`, `inFlight` and `batch` the batcher's variables,
`rows` the table, `enqueued` the history the table is compared with. `Enqueue`
is the processor with the flush a full buffer starts; `Insert` and `InsertFails`
settle `bulkInsert`, the latter with its rows in the table or not; `Stop` and
`Close` are `onClose`, `Restart` is a crash or the exit after it.

### `Dashboard`
`getDashboard`'s six queries over a log of rows of which `inserted` are in the
table. Each query of a load answers at a moment of its own (`Ask`),
batches are inserted between them, and `Promise.all` shows the page when the last
has answered; a query that fails, or whose `::int` sum does not fit, fails the
load (`ShowError`). `asked` is what the table held when the load began.

### `CartService`
One patron's cart. `addItem` and `removeItem` are `ReadCart` and `WriteCart`,
with other requests and the clean-up of any order between them; `getCart` and
`clearCart` are one call each. `serial` is the cart had every request happened
at once when it wrote, `raced` whether a request ever wrote back a cart that had
changed since it read. A write may be made and answered 500 (`ReplyOf`), or refused
(`FailRequest`). A clean-up deletes the cart, may fail in its one attempt, the cart
deleted or not, and may be given out again after it was done. The value may also outlive its
three hours (`ExpireCart`). Names and prices of lines are left out.

### `Tunnel`
One browser, its connections (*sessions*), and for each the gateway's tunnel.
`clients` is `BroadcastService.clients`; `upstream`, `upstreamAttempt`,
`retryTimer`, `tunnelClosed`, `pendingFrames` are the tunnel's variables, and
`socket`, `clientSocket` the sockets as the gateway sees them; `hook`, `session`
are `useCinemaSocket`. A frame is its place in the order of broadcasts.
A connection delivers in order but may be refused or break with what is in
flight, and both ends learn of it independently.

### `PatronSession`
`AuthProvider` in every tab of one browser, and the user service. `storage` is
`localStorage`, shared by the tabs; `tab` a tab's React state; `call` the
request a bootstrap awaits and its answer. Loading a tab starts one bootstrap, or
two under React's StrictMode (`Mounts`). `Signup` is one INSERT under the unique
constraint on the session id; `Me` and `Login` are reads. `Admit`, `DropToken`,
`LogIn` and `GiveUp` are what `bootstrapPatron` does with an answer: keep the
token, remove a refused one and sign up, log in after a 409, or show the error.
Requests and answers may be lost (`LoseCall`), tokens expire (`Expire`). That
`setPatronToken(null)` takes the page and its cart down for the time without a
patron is not here: the session's properties say nothing of a cart, and `PatronCart`
is about a page that stays.

### `OrderTracking`
The patron's order list: `PatronView`'s loads, `OrderTrackingList` with its
cancellations, and the statuses the feed brings.

| Specification | Code |
|---|---|
| `row`, `announcing` | the order's row; updates committed and not announced yet |
| `feed`, `missed` | messages on their way, in order; those a broken connection took with it |
| `load` | each `GET /orders`: asked for, read by the service, answered |
| `listed`, `told` | `trackableOrders` and `orderStatuses` |
| `cancel`, `cancelling` | each `DELETE /orders/:id`, and `cancellingId` |
| `dismissed` | dismissed orders, which `sessionStorage` keeps over a reload |

Loads overlap: whichever is answered last is shown. `HearStatus` includes the
effect that merges every status told so far into the list. The page may be
loaded again or left and come back to (`ReloadPage`, `ReturnToPage`).

### `PatronCart`
Menu, cart and checkout of the patron page, in a tab that may also visit the
admin's stock page. `marks` is `zeroStockIds`, which belongs to the tab and not
to the page; `grid` is `MenuGrid`'s request and what it shows; `order` is each
`POST /orders`, with whether the page that asked is still there (`here`);
`saving` is `StockManager`'s PUT. Saving any level clears the marks of every
item, as `clearZeroStock` does. The web does not use the cart service: its cart
is `CartContext`. One PUT of an item is under way at a time here, whereas saving
another item enables the first one's button before.

### `AdminOrders`
`LoginForm` and `OrdersTable`. The table's asynchronous functions (`loadOrders`,
`handleToggleDetail`, `handleAdvance`) are *handlers*: a record of what each
captured when it was clicked, the request it awaits and the answer to it. Several
are under way at once; rows are moved by a second administrator and cancelled by
their patrons meanwhile. Signing out drops the table and its handlers.

### `SimulationRuns`, `SimulationPanel`
`SimulationRuns` is the life of a run as others may rely on it: started once,
cancelled only by noticing its signal, its report built in the step that ends it.
`TwinRun` implements it (`LifecycleKept`). `SimulationPanel` is `SimulationPanel.tsx`
and the controller over an instance of it: `job` holds the page's handlers
(`handleRun`, the poll, `handleCancel`), the timer polls again although the last
poll has no answer, and the twin may restart and forget its runs.

### `TwinReport`, `TwinRun`
`TwinReport` holds the twin's arithmetic as operators: percentiles, snapshots,
the synchronisation lag, the oversell audit, break events, the report. `TwinRun`
is `executeRun` around it.

| Specification | Code |
|---|---|
| `config` | the run's scenario with what `generateDemand` and the platform draw at random |
| `run` | `SimulationRun`, `scheduleIndex`, and where `executeRun` is suspended |
| `task` | the patrons' tasks in the last `runWithConcurrency`; the stub order's locals |
| `metrics` | the collector: outcomes, last levels and depths, lag, time series |
| `stock` | the stub's database 15 and the platform's levels |
| `history` | whether a run had its stock to itself and lost no call; what it may still record |

A batch is any non-empty run of patrons who are due. Workers take tasks in order
and one ends when the signal is aborted. A call that rejects ends its worker and
fails the run, and the other workers go on. The stub reserves line by line with
the scripts of `RedisStock`; a live order is one step of the platform, which may
take the units or answer 409 or 500. Payment in the stub takes no time and never
fails (`STUB_PAYMENT_LATENCY_MS` is 0, `STUB_PAYMENT_SUCCESS_RATE` 1), so its
branches are unreachable. A poll is one step, whereas the code awaits Redis, the
queues and Postgres one after the other (`metrics-collector.ts:98`, `:101`, `:114`)
and polls may overlap (`:175`); so time, which the lag counts in polls, has the
poll's own duration left out.

### `StackStart`
`scripts/start.ts`, the supervisor and both seeds, run several times. `step` is
what the last start awaits, `child` what each start spawned, `known` the
catalogue its menu service loaded, `timedOut` the starts that gave up waiting for
the gateway and left their children. Seeding is row by row; the answers of the
Redis seed's pipeline are not looked at; Ctrl+C ends the children through the
handlers `startStack` sets. The specification takes it that killing a child
reaches the service behind its `bun run` wrapper. Of the services there is what
meets a start: ports, the menu's catalogue, sales and the write-behind's rows.

## 4. Runs

Components that share no variable are checked by one run: the MC module extends
them all and adds a variable `part`, chosen in the initial state; a behaviour
plays one part and leaves the others where they began, and fairness is stated of
each part where it is played.

| Run | Question | Instance |
|---|---|---|
| `order_races` | Do contending checkouts, two cancellations, an update and an administrator's levels leave one final cancellation and every unit accounted for? | 2 checkouts, 2 lines, the second scarce; 2 cancels, 1 update; charges may fail; symmetric handlers |
| `order_faults` | What survives when any await fails, its effect applied or not, or the process dies? Who waits when a store or the queues stay silent? And, where nothing fails: do concurrent updates and a cancellation follow the status graph and announce each move once? | 2 checkouts of 7 bodies (an untracked item, an item on two lines, invalid ones), 1 cancel, all faults; 2 checkouts, 1 cancel and 1 update with stock and database silent, or the queues; 1 checkout, 3 updates of any status, 1 cancel |
| `order_create_fails` | *violated*: is stock given back when the commit fails? | 1 checkout, 1 fault |
| `order_redis_lost` | *violated*: does checkout return when Redis is down? | 1 checkout of up to 2 lines; decrements fail, the queues stay silent |
| `stand` | Can late, lost or repeated commands create units, or announce a sell-out that was none? Do rows never go back, and catch up once writes and failures stop? Does every start open on full stores? Do the details on the orders table belong to their row, and does the table come back? | 2 decrements, a release, a refill of 2 items, 1 overwrite, 1 reconnection; 3 keys, one outside the catalogue, pages of one, 2 writes a key, 1 failing call; 3 services, 2 products, 2 starts, 1 failing step; 2 orders, 3 handlers, 1 failing call |
| `stock_resend` | *violated*: is no oversell possible? | the same handlers, with one reconnection as the only fault |
| `write_behind_foreign_key` | *violated*: do rows catch up whatever keys there are? | the foreign key first in SCAN order, no failing call |
| `back_office` | What becomes of an order that was placed: does its event reach the table in order, do the dashboard's figures add up, is the cart cleared? Does the simulation panel follow its run to the end? | 3 events, batches of 2, one failed and one unheard insert, 1 restart; 3 rows in 2 batches, 2 loads, sums past the integer; 2 requests, 2 clean-ups, 2 items, 1 mishap; 2 runs, 2 handlers at once, 1 failing call or restart |
| `analytics_crash_loses` | *violated*: do events replay on restart? | 1 crash |
| `twin_runs` | Are reports final, complete and right, do runs end, and do they live as the panel expects? | six experiments, see below |
| `twin_lag` | *violated*: is the reported lag the time since the stores last matched? | 1 live run, a difference that grows at each of three polls |
| `web_patron` | Is a browser one patron, is the order list true in the end and never goes back, is nothing ordered twice and nothing sold out offered? Do broadcasts arrive in order, once, over one upstream, and does a patient patron end up with a feed? | 2 tabs, 2 bootstraps a mount, 2 loads, 1 expiry, 1 lost call; 1 order, 3 list loads, 1 reload, 2 losses; 1 item up to level 2, 3 units, 2 checkouts, 1 visit to the admin page, 1 loss; 3 connections, 2 attempts, 2 broadcasts, 2 failures |

Which property answers which question, beyond the comments in the modules:

- `order_races`: `CancelledForGood` (one winner, and final), `ChargedIsOrdered`,
  `StockAccounted` (an equality: no unit is lost where nothing but charges fails).
- `order_faults`: `PaidAndReserved`, `KeepsPromise` (the refinement of
  `Inventory`), `AllAnswered` (but for calls that never settle), `StatusMoves`, `AnnouncedOnce` (in the end, and
  once), `TypeOK`.
- `stand`: `ExcessIsResent` (the only units too many are those of a release that
  ran again), `SelloutAnnounced`; `RowsNeverGoBack`, `Converges`; `OpensFull`,
  `LeftoversTimedOut`; `OwnDetails`, `ComesBack`.
- `back_office`: `Conserved`, `Ingested` (end to end, and by the process after the
  one that died with the job); `AddsUp`; `OnlyRacesLose`, `ClearedForGood`;
  `FollowsItsRun`, `ShownToTheEnd`.
- `twin_runs`: `ReportIsFinal` (and complete), `ReportIsTrue` (snapshots, exhaustions
  of stub and of live runs, and exactly which lag is reported), `AuditExact`, `CancelStopsDemand`, `RunsEnd`,
  `LifecycleKept` (the refinement of `SimulationRuns`).
- `web_patron`: `OneIdentity`, `LetIn`; `NeverBack`, `TruthShown`;
  `OrderedOnce`, `ClearsItsOrder`, `SelloutReaches`; `InOrder`, `AtMostOneUpstream`,
  `Reconnects`.

The bounds are small because each is past the point where the interesting cases
occur: two contenders for the last unit and one who finds nothing; a body with a
line before and after the one that fails; two flush names where the guard must
keep the second from starting; a batch that fails while the next fills; a
connection that fails before, during and after another; two tabs that sign up as
one session while a third answer is lost; a list load overtaken by the next and
by a message; a handler that goes on after its row was hidden; a start after one
that was cut off and one that gave up. Counters that only grow (restarts,
failures, writes, connections, loads) are bounded in guards, by constants whose
names say so. `twin_runs` chooses one of six experiments in its initial
state: three patrons on a stub with too little stock and two workers; two stub
runs on one database; a live run with an override and two workers; a live run
whose stores drift apart, match, and drift apart again; one whose stores differ by
more at each poll; a stub run without
workers next to one without audience. Each may be cancelled at any moment and
meet one failing call. Thresholds are scaled down so that three orders can
breach them. Deadlock is not checked: every instance stops when its calls are
used up.

Fairness. `FairSpec` of each module, under its own prefix where modules share a
run, is weak fairness of the steps of code that is already running: timers fire,
BullMQ hands out jobs, answers are handled, a run ends because its schedule is
finite, and awaited calls settle. The last is an assumption more than a fact of the
code. The code bounds the commands of `createRedis` (5 s) and the charge, which is made
in the process; it sets no deadline on gRPC calls, no timeout on queries or on the
web's requests, and lets BullMQ's commands wait for Redis for ever. `OrderService`
does without the assumption where a patron waits for an answer: fairness is stated
of `~Silent(h) /\ step`, so that a call of the stock service, the database or the
queues may stay unanswered in the plans that name it, and `AllAnswered` says what
is left, that a handler is held back by nothing but its own silent call;
`order_redis_lost` shows what the silence of the queues means to a patron. The
other liveness properties are about what follows when calls do settle: `RunsEnd` of
orders, `Converges` and `Ingested` of queries, `LetIn`, `TruthShown`, `ComesBack`
and `ShownToTheEnd` of requests of the page.
Nothing makes patrons or administrators act, processes stop, or failures happen. For
`TwinRun` one fairness condition on the steps of all runs is enough, since all of
them are bounded. `StackStart` and `Dashboard` have safety properties only.

The six violated runs are disagreements of the code with what the repository
says of it:

- `order_create_fails`: the design document says a checkout that fails at commit
  has its stock released; `createOrder` is awaited outside any `try`, so the
  patron stays charged and the units stay off the shelf.
- `order_redis_lost`: "checkout returns 5xx/409" when Redis is down; the 201 waits for
  two queue adds that are retried for as long as Redis is away, so a patron whose
  units were reserved before is charged, has an order, and gets no answer.
- `stock_resend`: "no oversell possible" holds of the scripts, not of a client
  that sends an unanswered release again after reconnecting: both copies return
  units.
- `write_behind_foreign_key`: the worker says it retries on the next tick; a key
  outside the catalogue fails the same upsert each time, and the keys behind it
  are never written.
- `analytics_crash_loses`: events are said to replay on restart; a job is
  acknowledged when its event is in memory, so a crash loses what is buffered.
- `twin_lag`: the benchmark guide calls the lag the time since Redis and Postgres last
  matched; its clock restarts whenever their difference changes
  (`metrics-collector.ts:122`), so stores that never match can have a lag of zero.

What the properties leave out because the code does it (each is an exception in
the property's own text):

- the order list after a missed message stays wrong until the page is loaded
  again, as a status of the feed always beats one of REST
  (`OrderTrackingList.tsx:82`), and nobody announces a cancellation made in
  another tab;
- a level saved as zero is never announced, and an answer to Save that comes when
  the tab has left the admin page clears marks of later sales, although
  `DESIGN_DOCS.md:91` speaks of marks cleared by a refill (`SelloutReaches`);
- what is put in the cart during a checkout is cleared with it, and an order
  whose answer was lost stays in the cart to be sent again (`ClearsItsOrder`,
  `OrderedOnce`);
- late details are shown under the row expanded by then (`OwnDetails`);
- a run that is over before the first answer of `handleRun`, or the answer of
  `handleCancel`, is never polled and its report never shown
  (`SimulationPanel.tsx:125-158`), although `BENCHMARKS.md:15` expects it on the
  page (`ShownToTheEnd`);
- two edits of one cart lose a line through their race, and a late clean-up
  deletes what was put in the cart since (`OnlyRacesLose`, `ClearedForGood`);
- a start whose gateway is not up in time leaves its children on their ports
  (`LeftoversTimedOut`).

Met while modelling the twin: a live run is polled before its stock is set up, so it
may report a sell-out that its set-up then undid (`ReportIsTrue` shows that what it
reports was at zero while it ran, and of a stub run after its refill); stub runs share a database, so two at once
spoil each other's audit; the stub's refill does not look at what its pipeline
failed to set.

## 5. Proofs

`tlapm` proves, for all values of the constants that satisfy the modules'
`ASSUME`s:

| Module | Theorem | Statement |
|---|---|---|
| `OrderServiceProofs` | `TypeCorrect` | `Spec => []TypeOK` |
| | `OrdersArePaid` | `Spec => []PaidAndReserved`: rows exist only for paid and fully reserved orders |
| | `CancelledOnce` | `Spec => []CancelledForGood`: one cancellation wins, for good |
| | `RowsFollowEdges` | `Spec => StatusMoves`: an action property |
| | `Implements` | `Spec => KeepsPromise`: the handlers implement `Inventory` |
| | `NeitherLeaksNorMints` | `Spec /\ Lossless => []StockAccounted`: units are on the shelf or in open lines |
| | `NoMoneyKept` | `Spec /\ ChargesHandled => []ChargedIsOrdered`: a charge ends in an order or a crash |
| `StockProofs` | `StockTypeCorrect` | `Spec => []TypeOK` of the stock handlers |
| | `OnlyResentReleasesMint` | `Spec => []ExcessIsResent`: units too many are those of releases run again |
| | `NothingOversold` | `Spec => [](reconnects = 0 => NoOversell)`: what run `stock_resend` refutes, until a connection breaks |
| | `EverySelloutAnnounced` | `Spec => []SelloutAnnounced` |
| | `SyncTypeCorrect`, `NoRowGoesBack` | `SyncSpec => []SyncTypeOK`, `SyncSpec => RowsNeverGoBack` (an action property) |
| | `StackTypeCorrect` | `StackSpec => []StackTypeOK` |
| | `OnlyTimeoutsLeaveServices`, `StoresOpenFull` | `StackSpec => []LeftoversTimedOut`, `StackSpec => []OpensFull` |
| `ConsumersProofs` | `TypeCorrect`, `KeptInOrder` | `Spec => []TypeOK`, `Spec => []Conserved` of the batcher |
| | `DashboardTypeCorrect`, `DashboardAddsUp` | `DashboardSpec => []DashboardTypeOK`, `DashboardSpec => []AddsUp` |
| | `CartTypeCorrect`, `OnlyRacesLoseLines` | `CartServiceSpec => []CartServiceTypeOK`, `CartServiceSpec => []OnlyRacesLose` |
| `TunnelProofs` | `TypeCorrect` | `Spec => []TypeOK` |
| | `OneUpstream`, `AppliedInOrder` | `Spec => []AtMostOneUpstream`, `Spec => []InOrder` |
| `TwinProofs` | `EveryPatronReported` | `Spec => []ReportIsFinal` |
| | `NothingMoreIsOrdered` | `Spec => []CancelStopsDemand` |
| | `AuditCanBeReliedOn` | `Spec => []AuditExact` |
| | `ReportsTellTheTruth` | `Spec => []ReportIsTrue` |
| | `RunsLiveAsPromised` | `Spec => LifecycleKept`: the runner implements `SimulationRuns` |
| `PatronProofs` | `SessionTypeCorrect`, `OnePatronABrowser` | `SessionSpec => []SessionTypeOK`, `SessionSpec => []OneIdentity` |
| | `TrackingTypeCorrect`, `ProgressNeverBack` | `TrackingSpec => []TrackingTypeOK`, `TrackingSpec => NeverBack` (an action property) |
| | `BasketTypeCorrect`, `NothingOrderedTwice` | `CartSpec => []CartTypeOK`, `CartSpec => []OrderedOnce` |
| | `AnswersClearTheirOrder` | `CartSpec => ClearsItsOrder` (an action property) |
| `AdminProofs` | `AdminTypeCorrect`, `DetailsAreTheRows` | `AdminSpec => []AdminTypeOK`, `AdminSpec => []OwnDetails` |
| | `PanelTypeCorrect`, `PanelFollows` | `PanelSpec => []PanelTypeOK`, `PanelSpec => []FollowsItsRun` |

The constants are only restricted by what the code gives: finite sets of handlers,
items and calls; bodies and logs that are sequences; a release for one decrement of
its own (`ReleaseOf` is injective); products seeded in some order, all of them; a
patron's basket that is never empty. Each assumption is an `ASSUME` that TLC
evaluates on the instances of the runs.

**Order service.** `PaidAndReserved` is not inductive: that a row is paid for
depends on where its checkout stood when it was written. `IInv` adds, for each
handler, what its place in the code implies of its locals and of the row it has
read or written (`CheckoutInv`, `CancelInv`, `UpdateInv`). `HandlerStep` is the
frame: a step of one handler leaves the conjuncts of all the others as they are,
provided rows only move along edges of the status graph. There is one lemma per
action above it, and `NextIInv` puts them together. `RowsFollowEdges` uses `IInv`
for what a handler has read before its await.

**Refinement.** `ClaimOf` maps a line of a checkout to the state of its claim by
its handler's place and the row. Each abstract action has a lemma that says when
a concrete step is that action (`ClaimStep`, `SellStep`, `ReturnStep`, `EndStep`,
`SupplyStep`), and each handler step is shown to be one of them or a stutter.

**Accounting.** `StockAccounted` sums units over the open lines of all checkouts.
Every step moves no unit (`Moves`), claims one line or returns one, and a step of
either kind changes one term of the sum. `Lossless` says that none of the faults
that lose units is in the plan of the behaviour: a decrement that is rejected or
runs unheard, a rejected release, a failed commit or cancellation, a crash. Charges
that are declined or fail, failed publishes, silent sides and an administrator's
writes are not excluded. `ChargesHandled` excludes a failed commit and a failed
publish, the two faults after a charge that the code answers without an order or
without telling both queues; the first is what the violated run `order_create_fails`
shows.

**Sums.** The prover cannot induct over data, so `Sums` shows that a sum over a
finite set does not depend on the order in which the recursion takes its members by
taking, of the subsets for which it would, a minimal one (`MinimalSubset`, from the
library's well-foundedness of finite subsets). `SumUnion`, `SumSubset`, `SumOfGroups` (a sum regrouped by a
key) and `SumOfOnes` (a cardinality) rest on that.

**Stock handlers.** `CallsInv` says, by where a call stands, whether its command
can still run and how often it has; a command runs at most once more often than
connections broke, also one whose caller has given up and which is sent again. `UnitsInv` balances the shelf and the units that callers may
hold against what was supplied and what releases gave a second time;
`NoOversell` follows where nothing ran twice. `AnnounceInv` counts sell-outs that
were announced, refused or are still the duty of a handler.

**Write-behind.** What a flush holds is a snapshot (`SnapshotOK`): its versions
are no newer than Redis', and, because no two flushes overlap, no older than the
rows it has yet to write, even where SCAN returns a key twice.

**Start.** `ProcessInv` tells whose services live, `CatalogInv` and `LevelsInv`
what the seeds have written so far, step by step of the script; the last holds as
long as no start has left a service behind that sells while the next one seeds.

**Batcher.** `Conserved` needs that at most one flush holds a batch
(`OneBatch`), which needs the guard `inFlight`; then each step is a regrouping of
`rows \o batch \o buffer`.

**Dashboard.** `AnswersTrue`: each answer is that of its query over the first `n`
rows for an `n` between the rows there were when the load began and those there are
now. Sums over rows grow with the rows (`SumSubset`), a grouped table's sums are
regroupings of the whole one's (`SumOfGroups`), and a table that is cut at a limit
is a part of it.

**Cart service.** `FreshReads`: a request that has not been overtaken holds what
the serial history holds.

**Tunnel.** `SessionInv` says which of a session's upstream sockets its variables
know of, so that a second one cannot be opened; `PipeInv` that the frames in
the pipe of the browser's session (at the upstream, pending in the tunnel, on the
way to the page) continue what the page has received without a gap, and end where
the notification service has got to.

**Twin.** `RunsFine` gives each run: every patron's task is of one of its states
and in line with the schedule (`Staged`, `Called`), at most `workerConcurrency` are
under way and none waits while a worker is free (`Staffed`), each scheduled patron
is recorded once and only when its task is done (`OnceEach`), counters are those of
the records (`Counted`), and a cancelled run has room for no more than what is under
way (`Stopped`). Every task that ends goes through one lemma (`TookFine`), every
batch that begins through another (`BegunFine`). The refinement maps a run to what
the page sees of it and shows each step to be one of five (`LifeStep`).

**Audit.** `AuditExact` speaks of the end of a run; `AuditInv` says what holds on the
way there. While a run is busy and undisturbed (`Undisturbed`: alone on its stock, no
call failed) it is afloat: its stock is as far set up as its step says, and from the
first batch on every unit it set up is in the stock, held by an order that is not yet
answered, or sold (`Balanced`). The held units are a sum over the patrons of sums over
their baskets' lines (`Out`, `Held`), of which an order's step changes one term
(`OutTouched`), the next line of a basket adding what it takes (`AmountAdds`). A run
that is afloat ends with nothing held, so that the stock and the sold units make up
what was set up (`EndExact`), and its verdict stands (`VerdictStands`). That nobody
else changes the stock of such a run follows from `Rivals`: a step of another run on
the same stock has a busy run behind it (`StockSteps`), so that the run is no longer
alone (`OtherAudit`).

**Report.** `TruthInv` says of each run that its snapshots are those of beginnings
of its outcomes (`SeriesTrue`), that what its collector holds and its snapshots show
at zero has been at zero since the run could be polled (`Witnessed`: a stub run is
polled only while it fires orders, a live one from its start), and which lag it has
(`LagTrue`). The lag is exactly the longest time one difference stood, by the
difference last seen and the poll that first saw it: `Since` says that every poll
from there on saw that difference or nothing, and that the last one before saw
another, so the time it has stood is the time since (`SinceNow`, `StillNow`); a poll
that sees it again makes that time longer, one that sees another or misses the
database leaves the longest as it is (`LongerIs`, `LagCompared`, `LagUnread`).
`MetricSteps` says what a step can do to a collector, and one lemma each keeps the
three parts over such steps. That a snapshot's percentiles are the nearest-rank ones has to be shown of the
sort: the places of the values (`Place`) are all different, hence, the values being
finitely many, all taken (`PlaceIs`, `SortedIs`); so at least as many values as the
rank says do not exceed the one in its place, and fewer do not exceed what is less
(`RankSplits`), which with the least rank that covers the percentage (`RankIs`) is
`PercentileIs`.

**Session.** Every token there is, held by a tab, kept by the browser or still in an
answer on its way, was issued to the browser's session (`SessionInv`).

**Order list.** `Sequel`: the messages on their way about an order, and the updates
not announced yet, come after what the feed has told of it and before what the row
holds; a REST answer, which the page merges under what it was told, cannot beat them.

**Basket.** `AllPutOnce`: the lines of the checkouts that stand were put in the
cart, and so were those that have left it together with what is still in it. That
a page has one checkout under way (`OneCheckingOut`) and an untouched cart is what
that checkout took (`CartAsOrdered`) is what keeps its late answer from emptying
another cart.

**Admin pages.** `HandlersFine`: while no row was crossed, the one toggle under way
is of the row that is expanded. `OneRun`: until Run is clicked over a handler, the
start of a run is alone and every other handler is about the latest run.

## 6. What is only model-checked, and what is not modelled

Only model-checked: the properties that follow from fairness (`AllAnswered`,
`AnnouncedOnce`, `Converges`, `Ingested`, `ClearedForGood`, `Reconnects`,
`RunsEnd`, `LetIn`, `TruthShown`, `SelloutReaches`, `ComesBack`,
`ShownToTheEnd`), as liveness and `ENABLED` are beyond the prover. Every other
property of a passing run has a theorem in section 5.

Not modelled:

- read-only routes of the services, and the routing table of the gateway's
  proxy, which is one `fetch` per request and keeps no state: it appears as the
  call that is lost or answered 503 in its clients' specifications;
- the twin's distributions, presets and parsing of scenarios: a run's scenario
  is what they would have drawn;
- the stock table's own list and drafts, the scenario form, charts, the download
  of a report, layout and texts of the web;
- table definitions, shared constants, prices, names, seats, and validation
  beyond valid and not;
- `dev-stack.ts`, which runs the supervisor of `StackStart` over the development
  scripts without preparing or seeding.

BullMQ, Postgres, ioredis and the browser appear as the code uses them: a queue
that accepts an add or rejects it and redelivers an unacknowledged job, a
transaction that commits or not and may do so unheard, a connection in order, a
socket, a storage shared by tabs.

Hazards that are smaller than those `PROJECT.json` lists, with what the
specifications do about them:

- an `OrderPlaced` add that fails is logged only (`order-controller.ts:196`): an
  action of `OrderService` (`AddRejects`);
- a key deleted between SCAN and MGET (`write-behind.worker.ts:47`): an eviction
  between two steps of `WriteBehind`; a query that never settles leaves `inFlight`
  set (`:28`) and ends the worker's flushes: Redis' calls time out, Postgres' do not,
  and `Converges` assumes that they settle;
- the batcher's buffer has no bound while inserts fail
  (`analytics-batcher.ts:46`); an insert that succeeds unheard is inserted again
  (`analytics-service.ts:60`): `unheard` in `Analytics`, an exception of
  `Conserved`; `onClose` stops the batcher before the worker (`index.ts:42`):
  `Stop` and `Close`;
- an upstream still connecting when the patron leaves stays registered
  (`gateway/src/index.ts:167`): what `AtMostOneUpstream` allows;
- broadcasts during a reconnection are missed (`useCinemaSocket.ts:107`):
  `missed` in `OrderTracking`;
- a run without audience stays pending (`traffic-driver.ts:200`), as
  `SimulationRuns` allows, and the audit takes the stock of the last poll
  (`traffic-driver.ts:398`); polls of the collector may overlap
  (`metrics-collector.ts:175`), which `TwinRun` makes one step;
- the twin keeps its runs in memory (`simulation-controller.ts:143`):
  `TwinRestarts` in `SimulationPanel`;
- signup stores a session id as it is while login trims it
  (`auth-controller.ts:56`): session ids are UUIDs, which trimming leaves alone;
- a bootstrap whose token is refused removes the token another tab has stored
  meanwhile (`AuthContext.tsx:74`): `DropToken` does, and `OneIdentity` holds.
