------------------------------ MODULE QueryApi ------------------------------
(***************************************************************************)
(* What a client of the API reads while the worker writes: the query       *)
(* methods of MadeQueryService on top of the SELECTs of                    *)
(* PostgresStorageAdapter.  PostgreSQL runs at READ COMMITTED, so every    *)
(* statement sees the commits before it: a request that takes several      *)
(* statements, or a client that turns pages, reads several states of the   *)
(* tables.  A COUNT is modelled by the set of the rows it counted.         *)
(***************************************************************************)
EXTENDS Naturals, FiniteSets, Sequences

CONSTANTS
    Events,
    Modules,
    Data,          \* per event, what the pipelines make of it
    Legacy,        \* events an older worker stored with their NORMAL rows
    Requests,      \* bound: list requests a client makes
    Charts,        \* bound: chart requests a client makes
    Second,        \* instants in a second; timestamps have fractions of it
    ChartLimit,    \* rows a chart request reads at most (2000)
    Horizon,       \* bound: last instant of processed_at
    Overlap,       \* transactions that overlap take their instants out of order
    MaxPages,      \* bound: pages a client reads in one walk
    NoSymbol

Tables == {"events", "detections", "aggregates", "alerts"}
Statuses == {"NONE", "PENDING", "FAILED", "SENT"}

\* The query parameters of the list routes.
EventFilters == {"event_id", "status", "from", "to"}
DetectionFilters == {"event_id", "module_id", "status", "asset", "from", "to"}
AggregateFilters == {"asset", "priority", "from", "to"}
AlertFilters == {"event_id", "priority", "notification_status", "asset", "from", "to"}

FiltersOf(t) == CASE t = "events" -> EventFilters
                  [] t = "detections" -> DetectionFilters
                  [] t = "aggregates" -> AggregateFilters
                  [] t = "alerts" -> AlertFilters

ASSUME ApiAssumption ==
    /\ IsFiniteSet(Events) /\ IsFiniteSet(Modules)
    /\ \A e \in Events :
         /\ Data[e].at \in Nat
         /\ Data[e].verdict \in [Modules -> {"ANOMALY", "NORMAL", "NONE"}]
         /\ Data[e].aggregated \in BOOLEAN /\ Data[e].alerting \in BOOLEAN
    /\ Legacy \subseteq Events
    /\ \A r \in Requests : /\ r.table \in Tables
                           /\ DOMAIN r.filter \subseteq FiltersOf(r.table)
                           /\ r.limit \in 1..100
    /\ Horizon \in Nat \ {0} /\ Overlap \in Nat /\ MaxPages \in Nat
    /\ ChartLimit \in Nat \ {0} /\ Second \in Nat \ {0}

VARIABLES
    stamp,        \* processed_events.processed_at, 0 when there is no row
    detections,   \* keys <<event, module>> of detection_results
    aggregates,   \* events with a row in aggregated_results
    alertStatus,  \* alerts.notification_status, NONE when there is no row
    pc,           \* the request in progress: "idle", "count", "page", "metrics"
    walk,         \* the pages a client has read of one list
    metrics,      \* per statement of get_metrics, the rows it counted
    step,         \* the next statement of get_metrics
    chart,        \* the last answer of get_chart_history
    missing       \* rows a client was shown and later not found (404)

tables == <<stamp, detections, aggregates, alertStatus>>
vars == <<tables, pc, walk, metrics, step, chart, missing>>

-----------------------------------------------------------------------------
(* The tables *)

Processed == {e \in Events : stamp[e] # 0}
Alerted == {e \in Events : alertStatus[e] # "NONE"}

Anomalous(e, m) == Data[e].verdict[m] = "ANOMALY"
Anomalies == {k \in Events \X Modules : Anomalous(k[1], k[2])}

Keys == Events \cup (Events \X Modules)

\* The keys of a table.
Present(t) == CASE t = "events" -> Processed
                [] t = "detections" -> detections
                [] t = "aggregates" -> aggregates
                [] t = "alerts" -> Alerted

\* The columns that a filter compares, of a row of each table.
EventRow(e) == [event_id |-> e, status |-> Data[e].status, timestamp |-> stamp[e]]
DetectionRow(e, m) ==
    [event_id |-> e, module_id |-> m, status |-> Data[e].verdict[m],
     asset |-> Data[e].asset, timestamp |-> Data[e].at]
AggregateRow(e) ==
    [asset |-> Data[e].asset, priority |-> Data[e].priority, timestamp |-> Data[e].at]
AlertRow(e) ==
    [event_id |-> e, asset |-> Data[e].asset, priority |-> Data[e].priority,
     notification_status |-> alertStatus[e], timestamp |-> Data[e].at]

Row(t, k) == CASE t = "events" -> EventRow(k)
               [] t = "detections" -> DetectionRow(k[1], k[2])
               [] t = "aggregates" -> AggregateRow(k)
               [] t = "alerts" -> AlertRow(k)

Satisfies(row, filter) ==
    \A c \in DOMAIN filter :
       CASE c = "from" -> row.timestamp >= filter[c]
         [] c = "to" -> row.timestamp <= filter[c]
         [] OTHER -> row[c] = filter[c]

\* The rows of the table that the WHERE of a list request keeps.
Matching(r) == {k \in Present(r.table) : Satisfies(Row(r.table, k), r.filter)}

At(t, k) == Row(t, k).timestamp

-----------------------------------------------------------------------------
(* Init *)

NoWalk == [request |-> [table |-> "events", filter |-> << >>, limit |-> 1],
           offset |-> 0, pages |-> 0, counted |-> {}, page |-> {},
           due |-> {}, seen |-> {}, last |-> {}, shift |-> 0]

NoChart == [points |-> << >>, duration |-> 0, complete |-> TRUE,
            evaluated |-> {}]

\* Mutant: the breakdown by priority is read before the total.
BreakdownsFirst ==
    << "total_events", "detections_by_module", "detections_by_status",
       "total_detections", "total_aggregates", "alerts_by_priority",
       "alerts_by_notification_status", "total_alerts" >>

MetricsStatements ==
    << "total_events", "total_detections", "detections_by_status",
       "detections_by_module", "total_aggregates", "total_alerts",
       "alerts_by_priority", "alerts_by_notification_status" >>

NoMetrics == [s \in {MetricsStatements[i] : i \in 1..8} |-> {}]

Init ==
    /\ stamp = [e \in Events |-> IF e \in Legacy THEN 1 ELSE 0]
    /\ detections = {k \in Legacy \X Modules : Data[k[1]].verdict[k[2]] # "NONE"}
    /\ aggregates = {e \in Legacy : Data[e].aggregated}
    /\ alertStatus = [e \in Events |->
           IF e \in Legacy /\ Data[e].alerting THEN "SENT" ELSE "NONE"]
    /\ pc = "idle"
    /\ walk = NoWalk
    /\ metrics = NoMetrics
    /\ step = 1
    /\ chart = NoChart
    /\ missing = {}

reader == <<pc, walk, metrics, step, chart, missing>>

-----------------------------------------------------------------------------
(* The worker *)

\* The instant is taken when the transaction starts, so it may lie before those
\* of transactions that are already committed.
MarkProcessed(e) ==
    \E t \in 1..Horizon :
       /\ \A d \in Events : t + Overlap >= stamp[d]
       /\ stamp' = [stamp EXCEPT ![e] = t]

\* Mutant: NORMAL results are stored like in an older worker.
SaveAllDetections(e) ==
    detections' = detections \cup {k \in {e} \X Modules : Data[e].verdict[k[2]] # "NONE"}

\* anomalies_only
SaveDetections(e) ==
    detections' = detections \cup {k \in {e} \X Modules : Anomalous(k[1], k[2])}

SaveAggregate(e) ==
    aggregates' = IF Data[e].aggregated THEN aggregates \cup {e} ELSE aggregates

SaveAlert(e) ==
    alertStatus' = IF Data[e].alerting THEN [alertStatus EXCEPT ![e] = "PENDING"]
                                       ELSE alertStatus

\* persist_processing_result, one transaction
Persist(e) ==
    /\ stamp[e] = 0
    /\ MarkProcessed(e)
    /\ SaveDetections(e)
    /\ SaveAggregate(e)
    /\ SaveAlert(e)
    /\ UNCHANGED reader

MarkAlertSent(e) ==
    /\ alertStatus[e] # "NONE"
    /\ alertStatus' = [alertStatus EXCEPT ![e] = "SENT"]
    /\ UNCHANGED <<stamp, detections, aggregates, reader>>

MarkAlertFailed(e) ==
    /\ alertStatus[e] # "NONE"
    /\ alertStatus' = [alertStatus EXCEPT ![e] = "FAILED"]
    /\ UNCHANGED <<stamp, detections, aggregates, reader>>

\* Mutant: the DELETE has lost its WHERE.
PurgeAll ==
    /\ detections # {}
    /\ detections' = {}
    /\ UNCHANGED <<stamp, aggregates, alertStatus, reader>>

\* purge_normal_detections, when a worker starts
PurgeNormal ==
    /\ detections # detections \cap Anomalies
    /\ detections' = detections \cap Anomalies
    /\ UNCHANGED <<stamp, aggregates, alertStatus, reader>>

-----------------------------------------------------------------------------
(* Lists *)

Start(r) ==
    /\ pc = "idle"
    /\ pc' = "count"
    /\ walk' = [NoWalk EXCEPT !.request = r]
    /\ metrics' = NoMetrics /\ step' = 1 /\ chart' = NoChart /\ missing' = {}
    /\ UNCHANGED tables

ListEvents == \E r \in Requests : r.table = "events" /\ Start(r)
ListDetections == \E r \in Requests : r.table = "detections" /\ Start(r)
ListAggregates == \E r \in Requests : r.table = "aggregates" /\ Start(r)
ListAlerts == \E r \in Requests : r.table = "alerts" /\ Start(r)

\* Mutant: the COUNT has no WHERE.
CountedAll(r) == Present(r.table)

Counted(r) == Matching(r)

\* The first statement of a list request; the first request of a walk also says
\* what the walk is to find.
Count ==
    /\ pc = "count"
    /\ pc' = "page"
    /\ LET now == Matching(walk.request)
       IN walk' = [walk EXCEPT
             !.counted = Counted(walk.request),
             !.due = IF walk.pages = 0 THEN now ELSE @,
             !.last = IF walk.pages = 0 THEN now ELSE @]
    /\ UNCHANGED <<tables, metrics, step, chart, missing>>

\* Mutant: a page without ORDER BY.
AnyPage(S, P, t, offset, limit) ==
    \E skipped \in SUBSET (S \ P) :
       /\ Cardinality(skipped) = IF offset < Cardinality(S) THEN offset ELSE Cardinality(S)
       /\ Cardinality(P) = LET n == Cardinality(S \ skipped)
                           IN IF limit < n THEN limit ELSE n

\* P is a page of S: ordered by descending timestamp, ties in any order, offset
\* rows are skipped and limit rows returned.
IsPage(S, P, t, offset, limit) ==
    \E skipped \in SUBSET (S \ P) :
       /\ Cardinality(skipped) = IF offset < Cardinality(S) THEN offset ELSE Cardinality(S)
       /\ Cardinality(P) = LET n == Cardinality(S \ skipped)
                           IN IF limit < n THEN limit ELSE n
       /\ \A a \in skipped, b \in S \ skipped : At(t, a) >= At(t, b)
       /\ \A a \in P, b \in S \ (skipped \cup P) : At(t, a) >= At(t, b)

\* No other row shares the instant of row k, so that its place is its own.
Distinct(t, k, S) == \A j \in S \ {k} : At(t, j) # At(t, k)

\* The second statement and the answer.  For the properties the walk remembers
\* which rows have kept their place, and how many left the list between pages.
Page ==
    /\ pc = "page"
    /\ pc' = "read"
    /\ LET now == Matching(walk.request)
       IN \E P \in SUBSET now :
            /\ IsPage(now, P, walk.request.table, walk.offset, walk.request.limit)
            /\ walk' = [walk EXCEPT
                  !.page = P,
                  !.pages = @ + 1,
                  !.seen = @ \cup P,
                  !.due = {k \in @ \cap now : Distinct(walk.request.table, k, now)},
                  !.last = now,
                  !.shift = @ + Cardinality(walk.last \ now)]
    /\ UNCHANGED <<tables, metrics, step, chart, missing>>

\* The client polls the page again, or turns to the next one while the total it
\* was told says that there is one.
AskAgain ==
    /\ pc = "read" /\ walk.pages < MaxPages
    /\ pc' = "count"
    /\ UNCHANGED <<tables, walk, metrics, step, chart, missing>>

LastPage == walk.offset + walk.request.limit >= Cardinality(walk.counted)

TurnPage ==
    /\ pc = "read" /\ walk.pages < MaxPages
    /\ ~LastPage
    /\ pc' = "count"
    /\ walk' = [walk EXCEPT !.offset = @ + walk.request.limit]
    /\ UNCHANGED <<tables, metrics, step, chart, missing>>

Leave ==
    /\ pc = "read"
    /\ pc' = "idle"
    /\ walk' = NoWalk /\ missing' = {}
    /\ UNCHANGED <<tables, metrics, step, chart>>

\* A client opens a row that it was shown; a row that is gone is answered 404.
Open(t) ==
    /\ pc = "read" /\ walk.request.table = t
    /\ \E k \in walk.seen : missing' = missing \cup ({k} \ Present(t))
    /\ UNCHANGED <<tables, pc, walk, metrics, step, chart>>

OpenEvent == Open("events")
OpenDetection == Open("detections")
OpenAggregate == Open("aggregates")
OpenAlert == Open("alerts")

-----------------------------------------------------------------------------
(* Totals *)

\* The rows that a statement of get_metrics counts, grouped or not.
RowsCounted(s) ==
    CASE s = "total_events" -> Processed
      [] s \in {"total_detections", "detections_by_status", "detections_by_module"} -> detections
      [] s = "total_aggregates" -> aggregates
      [] OTHER -> Alerted

AskMetrics ==
    /\ pc = "idle"
    /\ pc' = "metrics"
    /\ metrics' = NoMetrics /\ step' = 1
    /\ chart' = NoChart /\ missing' = {}
    /\ UNCHANGED <<tables, walk>>

CountRows ==
    /\ pc = "metrics"
    /\ LET s == MetricsStatements[step]
       IN metrics' = [metrics EXCEPT ![s] = RowsCounted(s)]
    /\ step' = IF step = 8 THEN step ELSE step + 1
    /\ pc' = IF step = 8 THEN "idle" ELSE pc
    /\ UNCHANGED <<tables, walk, chart, missing>>

MetricsAnswered == pc = "idle" /\ step = 8

-----------------------------------------------------------------------------
(* Charts *)

ChartAt(k) == Data[k[1]].at

\* The rows of an asset and a module from an instant on.
InWindow(c) == {k \in Events \X {c.module} :
                   Data[k[1]].asset = c.asset /\ ChartAt(k) >= c.from}

\* A symbol keeps its rows and those without one, unless that leaves none.
OfSymbol(S, symbol) ==
    LET kept == {k \in S : Data[k[1]].symbol \in {symbol, NoSymbol}}
    IN IF symbol = NoSymbol \/ kept = {} THEN S ELSE kept

\* S in ascending order of time, ties in any order.
Orders(S) == {q \in [1..Cardinality(S) -> S] :
                 \A i, j \in 1..Cardinality(S) :
                    i < j => q[i] # q[j] /\ ChartAt(q[i]) <= ChartAt(q[j])}

\* ORDER BY timestamp ASC LIMIT ChartLimit
Oldest(S, P) ==
    /\ Cardinality(P) = IF ChartLimit < Cardinality(S) THEN ChartLimit ELSE Cardinality(S)
    /\ \A a \in P, b \in S \ P : ChartAt(a) <= ChartAt(b)

\* Mutant: the streak ends at the first point it meets.
LastPointOnly(q, i) == i = Len(q) /\ Anomalous(q[i][1], q[i][2])

\* The points from i on are anomalies.
InStreak(q, i) == \A j \in i..Len(q) : Anomalous(q[j][1], q[j][2])

\* The duration of the streak at the end of a chart, cut to whole seconds.
Span(q) ==
    IF \E i \in 1..Len(q) : InStreak(q, i)
    THEN LET first == CHOOSE i \in 1..Len(q) :
                         InStreak(q, i) /\ \A j \in 1..(i - 1) : ~InStreak(q, j)
         IN (ChartAt(q[Len(q)]) - ChartAt(q[first])) \div Second
    ELSE 0

\* What the events of the window were found to be, stored or not.
Evaluated(c) ==
    {k \in InWindow(c) : k[1] \in Processed /\ Data[k[1]].verdict[k[2]] # "NONE"}

\* get_chart_history, one statement.  The answer also keeps, for the properties,
\* what had been evaluated by then and whether rows were cut off.
ChartHistory(c) ==
    /\ pc = "idle"
    /\ LET stored == InWindow(c) \cap detections
       IN \E P \in SUBSET stored :
            /\ Oldest(stored, P)
            /\ \E q \in Orders(OfSymbol(P, c.symbol)) :
                 chart' = [points |-> q,
                           duration |-> Span(q),
                           complete |-> P = stored,
                           evaluated |-> {k \in Evaluated(c) :
                               \/ c.symbol = NoSymbol
                               \/ Data[k[1]].symbol \in {c.symbol, NoSymbol}}]
    /\ metrics' = NoMetrics /\ step' = 1 /\ missing' = {}
    /\ UNCHANGED <<tables, pc, walk>>

-----------------------------------------------------------------------------
Worker ==
    \/ \E e \in Events : Persist(e) \/ MarkAlertSent(e) \/ MarkAlertFailed(e)
    \/ PurgeNormal

Client ==
    \/ ListEvents \/ ListDetections \/ ListAggregates \/ ListAlerts
    \/ Count \/ Page \/ AskAgain \/ TurnPage \/ Leave
    \/ OpenEvent \/ OpenDetection \/ OpenAggregate \/ OpenAlert
    \/ AskMetrics \/ CountRows
    \/ \E c \in Charts : ChartHistory(c)

Next == Worker \/ Client

Spec == Init /\ [][Next]_vars

-----------------------------------------------------------------------------
(* Properties *)

\* The tables and the requests are what the code can produce: rows of processed
\* events only, NORMAL detections only of an older worker.
TypeOK ==
    /\ stamp \in [Events -> 0..Horizon]
    /\ detections \subseteq Processed \X Modules
    /\ detections \subseteq Anomalies \cup (Legacy \X Modules)
    /\ aggregates \subseteq Processed
    /\ alertStatus \in [Events -> Statuses]
    /\ pc \in {"idle", "count", "page", "read", "metrics"}
    /\ step \in 1..8
    /\ pc \notin {"idle", "metrics"} => step = 1
    /\ walk \in [request : Requests \cup {NoWalk.request}, offset : Nat, pages : Nat,
                 counted : SUBSET Keys, page : SUBSET Keys, due : SUBSET Keys,
                 seen : SUBSET Keys, last : SUBSET Keys, shift : Nat]
    /\ metrics \in [DOMAIN NoMetrics -> SUBSET Keys]
    /\ missing \subseteq Keys

\* Rows that were there when the walk began and at each page of it, whose place in
\* the order was their own, and that no page showed.
Missed == walk.due \ walk.seen

\* A client that turns the pages until the total says there is no more
\* (get_* of the query service) misses no more rows than have left the list under
\* it, by a purge or by a change of the status it filters by, or have arrived
\* between the COUNT and the page of its last request.
WalkMissesFew ==
    pc = "read" /\ LastPage =>
        Cardinality(Missed) <= walk.shift + Cardinality(walk.last \ walk.counted)

\* Lists that rows never leave.
Steady(r) ==
    \/ r.table \in {"events", "aggregates"}
    \/ r.table = "alerts" /\ "notification_status" \notin DOMAIN r.filter
    \/ r.table = "detections" /\ "status" \in DOMAIN r.filter /\ r.filter.status = "ANOMALY"

\* A page is never shorter than the total that is answered with it: the total is
\* counted by a statement of its own, with conditions of its own
\* (repository.py:375-398 and its like).
TotalCoversPage ==
    pc = "read" /\ Steady(walk.request) =>
        LET left == IF walk.offset < Cardinality(walk.counted)
                    THEN Cardinality(walk.counted) - walk.offset ELSE 0
        IN \/ Cardinality(walk.page) >= left
           \/ Cardinality(walk.page) = walk.request.limit

\* The breakdowns that get_metrics answers account for the totals, although each
\* statement sees commits that the one before did not: no alert and no anomaly is
\* in a total and in none of its parts.
BreakdownsCoverTotals ==
    MetricsAnswered =>
        /\ metrics["total_alerts"] \subseteq metrics["alerts_by_priority"]
        /\ metrics["alerts_by_priority"] \subseteq metrics["alerts_by_notification_status"]
        /\ metrics["total_detections"] \cap Anomalies \subseteq metrics["detections_by_status"]
        /\ metrics["detections_by_status"] \cap Anomalies \subseteq metrics["detections_by_module"]

\* What a client was shown can be opened (get_event, get_detection, get_aggregate,
\* get_alert): only NORMAL detections of an older worker are ever gone, after
\* purge_normal_detections.
ShownStaysFound ==
    missing # {} =>
        /\ walk.request.table = "detections"
        /\ missing \subseteq (Legacy \X Modules) \ Anomalies

\* The longest time up to the last evaluated event of a chart in which the module
\* found nothing but anomalies.
RealSpan(S) ==
    LET streak == {k \in S : \A j \in S : ChartAt(j) >= ChartAt(k) => j \in Anomalies}
    IN IF streak = {} THEN 0
       ELSE (CHOOSE t \in {ChartAt(k) : k \in streak} : \A k \in streak : ChartAt(k) <= t)
          - (CHOOSE t \in {ChartAt(k) : k \in streak} : \A k \in streak : ChartAt(k) >= t)

\* The duration a chart reports falls short of the time the spread has been above the
\* threshold by less than a second, for which it was cut (get_chart_history), when no
\* row was cut off.
DurationCoversStreak ==
    chart # NoChart /\ chart.complete =>
        (chart.duration + 1) * Second > RealSpan(chart.evaluated)
=============================================================================
