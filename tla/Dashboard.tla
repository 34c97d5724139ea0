------------------------------- MODULE Dashboard -------------------------------
(* The analytics dashboard: getDashboard's six queries, each reading the    *)
(* table at a moment of its own while batches are inserted, and the admin   *)
(* page that shows what came back.  The table only grows: see Analytics.    *)
EXTENDS Naturals, Sequences, FiniteSets, Functions

CONSTANTS
  Log,        \* the rows: batch, screen, showtime, ageGroup and order lines
  Null,       \* the age group of a patron who gave none
  MaxLoads,   \* loads of the dashboard
  MaxInt,     \* what ::int can hold
  DASHBOARD_TOP_ITEMS_LIMIT,
  DASHBOARD_RECENT_ORDERS_LIMIT

(* bulkInsert leaves no column but the age group empty.                     *)
ASSUME DashboardAssumption ==
  /\ {MaxLoads, MaxInt, DASHBOARD_TOP_ITEMS_LIMIT, DASHBOARD_RECENT_ORDERS_LIMIT} \subseteq Nat
  /\ MaxLoads > 0
  /\ Log \in Seq(Range(Log))
  /\ \A row \in Range(Log) :
       /\ row.screen # Null /\ row.showtime # Null
       /\ row.lines \in Seq(Range(row.lines))
       /\ \A line \in Range(row.lines) : line.quantity \in Nat /\ line.price \in Nat

VARIABLES
  inserted,   \* rows of Log in analytics_events
  answers,    \* of the load under way: what its queries have answered
  fetching,    \* a load is under way: RefreshDashboard is disabled
  asked,      \* rows there were when it began
  dashboard,  \* what the page shows
  loadsDone

dashboardVars == <<inserted, answers, fetching, asked, dashboard, loadsDone>>

Queries == {"summary", "byScreen", "byShowtime", "byAgeGroup", "topItems", "recentOrders"}
NoDashboard == [figures |-> <<>>, from |-> 0, to |-> 0]
Beginning(n) == /\ answers' = [q \in {} |-> 0] /\ fetching' = TRUE /\ asked' = n

DashboardInit ==
  /\ inserted = 0
  /\ answers = [q \in {} |-> 0] /\ fetching = TRUE /\ asked = inserted
  /\ dashboard = NoDashboard /\ loadsDone = 0

-----------------------------------------------------------------------------
(* The queries, over a set of rows.                                         *)

LinesOf(k) == {k} \X DOMAIN Log[k].lines
AllLines == UNION {LinesOf(k) : k \in DOMAIN Log}
Lines(S) == {x \in AllLines : x[1] \in S}
Line(x) == Log[x[1]].lines[x[2]]
Money == [x \in AllLines |-> Line(x).quantity * Line(x).price]
Quantity == [x \in AllLines |-> Line(x).quantity]
Revenue(S) == SumFunctionOnSet(Money, Lines(S))
Units(S) == SumFunctionOnSet(Quantity, Lines(S))

(* count( * ) over the join: an order counted once a line.                  *)
CountingLines(S) == [orders |-> Cardinality(Lines(S)), revenue |-> Revenue(S)]

Summary(S) == [orders |-> Cardinality(S), revenue |-> Revenue(S)]

(* GROUP BY a column, of the rows that have one.                            *)
GroupBy(S, column) ==
  LET Group(g) == {k \in S : Log[k][column] = g}
  IN  [g \in {Log[k][column] : k \in S} \ {Null} |-> Summary(Group(g))]

(* LIMIT n of the greatest: which of equals are left out is open.           *)
Greatest(S, n, key) ==
  {T \in SUBSET S : /\ Cardinality(T) = (IF Cardinality(S) < n THEN Cardinality(S) ELSE n)
                    /\ \A x \in T, y \in S \ T : key[x] >= key[y]}

ItemLines(S, item) == {x \in Lines(S) : Line(x).item = item}
Items(S) == {Line(x).item : x \in Lines(S)}
TopItems(S) ==
  LET sold == [item \in Items(S) |-> SumFunctionOnSet(Quantity, ItemLines(S, item))]
  IN  {[item \in T |-> sold[item]] : T \in Greatest(Items(S), DASHBOARD_TOP_ITEMS_LIMIT, sold)}

(* Rows of a batch were created in one statement, at one moment.            *)
RecentOrders(S) == Greatest(S, DASHBOARD_RECENT_ORDERS_LIMIT, [k \in S |-> Log[k].batch])

Results(q, S) ==
  CASE q = "summary" -> {Summary(S)}
    [] q = "byScreen" -> {GroupBy(S, "screen")}
    [] q = "byShowtime" -> {GroupBy(S, "showtime")}
    [] q = "byAgeGroup" -> {GroupBy(S, "ageGroup")}
    [] q = "topItems" -> TopItems(S)
    [] q = "recentOrders" -> RecentOrders(S)

(* A sum that ::int cannot hold is an error, and never a smaller number.    *)
Cast(q, S, result) ==
  CASE q = "summary" -> {result.revenue}
    [] q = "byScreen" -> {result[g].revenue : g \in DOMAIN result}
    [] q = "topItems" ->
         {SumFunctionOnSet(f, ItemLines(S, item)) : f \in {Money, Quantity}, item \in Items(S)}
    [] q = "recentOrders" -> {Revenue({k}) : k \in result}
    [] OTHER -> {}
OutOfRange(q, S, result) == \E n \in Cast(q, S, result) : n > MaxInt

-----------------------------------------------------------------------------

(* A batch is one INSERT.                                                   *)
InsertBatch ==
  /\ \E k \in (inserted + 1)..Len(Log) :
       /\ \A j \in (inserted + 1)..k : Log[j].batch = Log[k].batch
       /\ k < Len(Log) => Log[k + 1].batch # Log[k].batch
       /\ inserted' = k
  /\ UNCHANGED <<answers, fetching, asked, dashboard, loadsDone>>

Ask(q) ==
  /\ fetching /\ q \notin DOMAIN answers
  /\ \E result \in Results(q, 1..inserted) :
       /\ ~OutOfRange(q, 1..inserted, result)
       /\ answers' = [p \in DOMAIN answers \cup {q} |-> IF p = q THEN result ELSE answers[p]]
  /\ UNCHANGED <<inserted, fetching, asked, dashboard, loadsDone>>

Loaded(shown) ==
  /\ dashboard' = shown
  /\ fetching' = FALSE /\ loadsDone' = loadsDone + 1
  /\ answers' = [q \in {} |-> 0] /\ asked' = 0
  /\ UNCHANGED inserted

(* Promise.all, and the page.                                               *)
ShowDashboard ==
  /\ fetching /\ DOMAIN answers = Queries
  /\ Loaded([figures |-> answers, from |-> asked, to |-> inserted])

(* A query or the call fails: the page shows the error and no figures.      *)
ShowError ==
  /\ fetching
  /\ Loaded(NoDashboard)

RefreshDashboard ==
  /\ ~fetching /\ loadsDone < MaxLoads
  /\ Beginning(inserted)
  /\ UNCHANGED <<inserted, dashboard, loadsDone>>

DashboardNext ==
  InsertBatch \/ (\E q \in Queries : Ask(q)) \/ ShowDashboard \/ ShowError \/ RefreshDashboard

DashboardSpec == DashboardInit /\ [][DashboardNext]_dashboardVars

-----------------------------------------------------------------------------

(* Every variable keeps its type; a dashboard has all its tables or none.   *)
DashboardTypeOK ==
  /\ {inserted, asked, dashboard.from, dashboard.to} \subseteq 0..Len(Log)
  /\ fetching \in BOOLEAN /\ loadsDone \in 0..MaxLoads
  /\ DOMAIN answers \subseteq Queries
  /\ DOMAIN dashboard.figures \in {{}, Queries}

InAll(groups, field) == SumFunction([g \in DOMAIN groups |-> groups[g][field]])
Between(n, low, high) == low <= n /\ n <= high

(* Although its tables are read at different moments, what a dashboard      *)
(* shows adds up: every total lies between what the table held when it was  *)
(* asked for and when it was shown, in every table that leaves nothing out, *)
(* and so they agree when no batch came between; the limited ones never     *)
(* show more.                                                               *)
AddsUp ==
  dashboard # NoDashboard =>
    LET f == dashboard.figures
        low == 1..dashboard.from
        high == 1..dashboard.to
    IN  /\ \A n \in {f["summary"].orders, InAll(f["byScreen"], "orders"),
                     InAll(f["byShowtime"], "orders")} :
              Between(n, Cardinality(low), Cardinality(high))
        /\ \A n \in {f["summary"].revenue, InAll(f["byScreen"], "revenue")} :
              Between(n, Revenue(low), Revenue(high))
        /\ InAll(f["byAgeGroup"], "orders") <= Cardinality(high)
        /\ SumFunction(f["topItems"]) <= Units(high)
        /\ f["recentOrders"] \subseteq high

=============================================================================
