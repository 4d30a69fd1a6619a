--------------------------- MODULE QueryApiProofs ---------------------------
(***************************************************************************)
(* What the answers of the API are worth while the worker writes, for any  *)
(* events, requests and page sizes.                                        *)
(***************************************************************************)
EXTENDS QueryApi, FiniteSetTheorems, TLAPS

\* The NORMAL rows of an older worker, which a purge may remove.
Purgeable == (Legacy \X Modules) \ Anomalies

\* Rows that leave a table only by the purge.
RowsKept ==
    /\ walk.request.table # "detections" =>
         walk.seen \subseteq Present(walk.request.table) /\ missing = {}
    /\ walk.request.table = "detections" =>
         walk.seen \subseteq detections \cup Purgeable /\ missing \subseteq Purgeable

AlertStatements == {"total_alerts", "alerts_by_priority", "alerts_by_notification_status"}
DetectionStatements == {"total_detections", "detections_by_status", "detections_by_module"}

\* What an earlier statement counted is still there for the later ones.
MetricsInOrder ==
    /\ \A s \in AlertStatements : metrics[s] \subseteq Alerted
    /\ \A s \in DetectionStatements : metrics[s] \cap Anomalies \subseteq detections
    /\ step > 3 => metrics["total_detections"] \cap Anomalies
                      \subseteq metrics["detections_by_status"]
    /\ step > 4 => metrics["detections_by_status"] \cap Anomalies
                      \subseteq metrics["detections_by_module"]
    /\ step > 7 => metrics["total_alerts"] \subseteq metrics["alerts_by_priority"]
    /\ MetricsAnswered => metrics["alerts_by_priority"]
                             \subseteq metrics["alerts_by_notification_status"]

\* Every row that a steady list was counted with is still in it.
CountStillThere ==
    /\ pc \in {"count", "page", "read"} => walk.request \in Requests
    /\ pc = "page" /\ Steady(walk.request) => walk.counted \subseteq Matching(walk.request)

QueryInv == TypeOK /\ RowsKept /\ MetricsInOrder /\ CountStillThere /\ TotalCoversPage

-----------------------------------------------------------------------------
(* The tables *)

\* The keys of every table are finitely many.
LEMMA KeysFinite == IsFiniteSet(Keys)
<1>1. IsFiniteSet(Events \X Modules)
  BY ApiAssumption, FS_Product
<1> QED
  BY <1>1, ApiAssumption, FS_Union DEF Keys

\* A list shows keys of its table only, which are keys.
LEMMA MatchingIsPresent ==
    ASSUME TypeOK, NEW r, r.table \in Tables
    PROVE  Matching(r) \subseteq Present(r.table) /\ Matching(r) \subseteq Keys
<1>1. Matching(r) \subseteq Present(r.table)
  BY DEF Matching
<1>2. Processed \subseteq Events /\ Alerted \subseteq Events
  BY DEF Processed, Alerted
<1>3. detections \subseteq Events \X Modules
  BY <1>2 DEF TypeOK
<1>4. Present(r.table) \subseteq Keys
  BY <1>2, <1>3 DEF Present, Tables, Keys, TypeOK
<1> QED
  BY <1>1, <1>4

\* What a step of the worker leaves of the tables: everything but rows that the
\* purge may remove, and of the other columns only the status of alerts changes.
Grown ==
    /\ Processed \subseteq Processed'
    /\ \A e \in Processed : stamp'[e] = stamp[e]
    /\ detections \subseteq detections' \cup Purgeable
    /\ aggregates \subseteq aggregates'
    /\ Alerted \subseteq Alerted'

\* The part of TypeOK that is about the tables.
TablesOK ==
    /\ stamp \in [Events -> 0..Horizon]
    /\ detections \subseteq Processed \X Modules
    /\ detections \subseteq Anomalies \cup (Legacy \X Modules)
    /\ aggregates \subseteq Processed
    /\ alertStatus \in [Events -> Statuses]

LEMMA WorkerGrows ==
    ASSUME TypeOK, Worker
    PROVE  Grown /\ TablesOK' /\ UNCHANGED reader
<1>. USE DEF TypeOK
<1>1. ASSUME NEW e \in Events, Persist(e)
      PROVE  Grown /\ TablesOK' /\ UNCHANGED reader
  <2>. USE <1>1
  <2>1. PICK t \in 1..Horizon : stamp' = [stamp EXCEPT ![e] = t]
    BY DEF Persist, MarkProcessed
  <2>2. stamp' \in [Events -> 0..Horizon] /\ stamp'[e] # 0
    BY <2>1, ApiAssumption
  <2>3. \A d \in Processed : d # e /\ stamp'[d] = stamp[d]
    BY <2>1 DEF Persist, Processed
  <2>4. Processed \subseteq Processed' /\ e \in Processed'
    BY <2>2, <2>3 DEF Processed
  <2>5. detections' = detections \cup {k \in {e} \X Modules : Anomalous(k[1], k[2])}
    BY DEF Persist, SaveDetections
  <2>6. {k \in {e} \X Modules : Anomalous(k[1], k[2])} \subseteq Anomalies
    BY DEF Anomalies
  <2>7. detections' \subseteq Processed' \X Modules
    BY <2>4, <2>5
  <2>8. detections' \subseteq Anomalies \cup (Legacy \X Modules)
    BY <2>5, <2>6
  <2>9. aggregates' \subseteq Processed' /\ aggregates \subseteq aggregates'
    BY <2>4 DEF Persist, SaveAggregate
  <2>10. alertStatus' \in [Events -> Statuses]
    BY DEF Persist, SaveAlert, Statuses
  <2>11. \A d \in Alerted : alertStatus'[d] # "NONE"
    BY DEF Persist, SaveAlert, Alerted
  <2>12. UNCHANGED reader
    BY DEF Persist
  <2>13. Anomalies' = Anomalies
    BY DEF Anomalies, Anomalous
  <2>14. Grown
    BY <2>3, <2>4, <2>5, <2>9, <2>11 DEF Grown, Alerted
  <2>15. TablesOK'
    BY <2>2, <2>7, <2>8, <2>9, <2>10, <2>13 DEF TablesOK
  <2> QED
    BY <2>12, <2>14, <2>15
<1>2. ASSUME NEW e \in Events, MarkAlertSent(e) \/ MarkAlertFailed(e)
      PROVE  Grown /\ TablesOK' /\ UNCHANGED reader
  BY <1>2 DEF MarkAlertSent, MarkAlertFailed, Grown, TablesOK, Processed, Alerted,
              Statuses, Anomalies, Anomalous
<1>3. ASSUME PurgeNormal PROVE Grown /\ TablesOK' /\ UNCHANGED reader
  BY <1>3 DEF PurgeNormal, Grown, TablesOK, Processed, Alerted, Purgeable,
              Anomalies, Anomalous
<1> QED
  BY <1>1, <1>2, <1>3 DEF Worker

-----------------------------------------------------------------------------
(* Types *)

\* The part of TypeOK that is about the requests in progress.
WalkType ==
    [request : Requests \cup {NoWalk.request}, offset : Nat, pages : Nat,
     counted : SUBSET Keys, page : SUBSET Keys, due : SUBSET Keys,
     seen : SUBSET Keys, last : SUBSET Keys, shift : Nat]

ReaderOK ==
    /\ pc \in {"idle", "count", "page", "read", "metrics"}
    /\ step \in 1..8
    /\ pc \notin {"idle", "metrics"} => step = 1
    /\ walk \in WalkType
    /\ metrics \in [DOMAIN NoMetrics -> SUBSET Keys]
    /\ missing \subseteq Keys

LEMMA TypeParts ==
    /\ TypeOK <=> TablesOK /\ ReaderOK
    /\ TypeOK' <=> TablesOK' /\ ReaderOK'
BY DEF TypeOK, TablesOK, ReaderOK, WalkType

\* Every request has a table, and a page size.
LEMMA RequestTyped ==
    ASSUME TypeOK
    PROVE  walk.request.table \in Tables /\ walk.request.limit \in Nat
<1>1. walk.request \in Requests \cup {NoWalk.request}
  BY DEF TypeOK
<1>2. NoWalk.request.table \in Tables /\ NoWalk.request.limit \in Nat
  BY DEF NoWalk, Tables
<1> QED
  BY <1>1, <1>2, ApiAssumption

LEMMA NoWalkTyped == NoWalk \in WalkType
BY DEF NoWalk, WalkType

\* The statements of get_metrics, by their numbers.
LEMMA StatementNames ==
    /\ DOMAIN NoMetrics = {"total_events", "total_detections", "detections_by_status",
           "detections_by_module", "total_aggregates", "total_alerts",
           "alerts_by_priority", "alerts_by_notification_status"}
    /\ NoMetrics \in [DOMAIN NoMetrics -> SUBSET Keys]
    /\ \A s \in DOMAIN NoMetrics : NoMetrics[s] = {}
    /\ MetricsStatements[1] = "total_events"
    /\ MetricsStatements[2] = "total_detections"
    /\ MetricsStatements[3] = "detections_by_status"
    /\ MetricsStatements[4] = "detections_by_module"
    /\ MetricsStatements[5] = "total_aggregates"
    /\ MetricsStatements[6] = "total_alerts"
    /\ MetricsStatements[7] = "alerts_by_priority"
    /\ MetricsStatements[8] = "alerts_by_notification_status"
<1>1. {MetricsStatements[i] : i \in 1..8} =
          {"total_events", "total_detections", "detections_by_status",
           "detections_by_module", "total_aggregates", "total_alerts",
           "alerts_by_priority", "alerts_by_notification_status"}
  <2>1. 1..8 = {1, 2, 3, 4, 5, 6, 7, 8}
    OBVIOUS
  <2> QED
    BY <2>1 DEF MetricsStatements
<1> QED
  BY <1>1 DEF NoMetrics, MetricsStatements

LEMMA InitTyped == Init => TypeOK
<1>. SUFFICES ASSUME Init PROVE TypeOK
  OBVIOUS
<1>1. Legacy \subseteq Processed
  BY ApiAssumption DEF Init, Processed
<1>2. TablesOK
  <2>1. stamp \in [Events -> 0..Horizon]
    BY ApiAssumption DEF Init
  <2>2. detections \subseteq Legacy \X Modules /\ aggregates \subseteq Legacy
    BY DEF Init
  <2>3. alertStatus \in [Events -> Statuses]
    BY DEF Init, Statuses
  <2> QED
    BY <1>1, <2>1, <2>2, <2>3 DEF TablesOK
<1>3. ReaderOK
  BY NoWalkTyped, StatementNames DEF Init, ReaderOK
<1> QED
  BY <1>2, <1>3, TypeParts

\* A request that begins.
LEMMA StartTyped ==
    ASSUME TypeOK, NEW r \in Requests, Start(r)
    PROVE  TypeOK'
<1>1. walk' \in WalkType
  BY DEF Start, NoWalk, WalkType
<1>2. ReaderOK'
  BY <1>1, StatementNames DEF Start, ReaderOK
<1>3. TablesOK'
  BY TypeParts DEF Start, tables, TablesOK, Processed, Anomalies, Anomalous
<1> QED
  BY <1>2, <1>3, TypeParts

\* A page of rows is counted and read.
LEMMA StatementTyped ==
    ASSUME TypeOK, Count \/ Page
    PROVE  TypeOK' /\ UNCHANGED tables
<1>. DEFINE now == Matching(walk.request)
<1>1. now \subseteq Keys /\ Counted(walk.request) \subseteq Keys
  BY MatchingIsPresent, RequestTyped DEF Counted
<1>2. walk \in WalkType
  BY DEF TypeOK, WalkType
<1>3. TablesOK' /\ UNCHANGED tables
  BY TypeParts DEF Count, Page, tables, TablesOK, Processed, Anomalies, Anomalous
<1>4. CASE Count
  <2>1. walk' = [walk EXCEPT !.counted = Counted(walk.request),
                             !.due = IF walk.pages = 0 THEN now ELSE @,
                             !.last = IF walk.pages = 0 THEN now ELSE @]
    BY <1>4 DEF Count
  <2>. HIDE DEF now
  <2>2. walk' \in WalkType
    BY <1>1, <1>2, <2>1 DEF WalkType
  <2> QED
    BY <1>3, <1>4, <2>2, TypeParts DEF Count, ReaderOK
<1>5. CASE Page
  <2>1. PICK P \in SUBSET now :
          walk' = [walk EXCEPT !.page = P, !.pages = @ + 1, !.seen = @ \cup P,
                     !.due = {k \in @ \cap now : Distinct(walk.request.table, k, now)},
                     !.last = now,
                     !.shift = @ + Cardinality(walk.last \ now)]
    BY <1>5 DEF Page
  <2>2. Cardinality(walk.last \ now) \in Nat
    <3>1. walk.last \ now \subseteq Keys
      BY <1>2 DEF WalkType
    <3> QED
      BY <3>1, KeysFinite, FS_Subset, FS_CardinalityType
  <2>. HIDE DEF now
  <2>3. walk.due \subseteq Keys
    BY <1>2 DEF WalkType
  <2>4. {k \in walk.due \cap now : Distinct(walk.request.table, k, now)} \in SUBSET Keys
    BY <2>3
  <2>. DEFINE due == {k \in walk.due \cap now : Distinct(walk.request.table, k, now)}
              shift == walk.shift + Cardinality(walk.last \ now)
              seen == walk.seen \cup P
              pages == walk.pages + 1
  <2>5. walk' = [walk EXCEPT !.page = P, !.pages = pages, !.seen = seen, !.due = due,
                             !.last = now, !.shift = shift]
    BY <2>1
  <2>6. /\ P \in SUBSET Keys /\ seen \in SUBSET Keys /\ due \in SUBSET Keys
        /\ now \in SUBSET Keys /\ shift \in Nat /\ pages \in Nat
    BY <1>1, <1>2, <2>2, <2>4 DEF WalkType
  <2>. HIDE DEF due, shift, seen, pages
  <2>7. walk' \in WalkType
    BY <1>2, <2>5, <2>6 DEF WalkType
  <2> QED
    BY <1>3, <1>5, <2>7, TypeParts DEF Page, ReaderOK
<1> QED
  BY <1>4, <1>5

\* What a client does between the pages of a walk.
LEMMA WalkTyped ==
    ASSUME TypeOK, AskAgain \/ TurnPage \/ Leave
    PROVE  TypeOK'
<1>1. TablesOK'
  BY TypeParts DEF AskAgain, TurnPage, Leave, tables, TablesOK, Processed, Anomalies,
                   Anomalous
<1>2. walk' \in WalkType
  <2>1. walk \in WalkType
    BY DEF TypeOK, WalkType
  <2>2. CASE TurnPage
    BY <2>1, <2>2, RequestTyped DEF TurnPage, WalkType
  <2> QED
    BY <2>1, <2>2, NoWalkTyped DEF AskAgain, Leave
<1>3. ReaderOK'
  BY <1>2, TypeParts DEF AskAgain, TurnPage, Leave, ReaderOK
<1> QED
  BY <1>1, <1>3, TypeParts

LEMMA OpenTyped ==
    ASSUME TypeOK, NEW t, Open(t)
    PROVE  TypeOK'
<1>1. missing' \subseteq Keys
  BY DEF Open, TypeOK
<1> QED
  BY <1>1 DEF Open, tables, TypeOK, Processed, Anomalies, Anomalous

\* Every statement of get_metrics counts keys.
LEMMA CountedAreKeys ==
    ASSUME TypeOK, NEW s
    PROVE  RowsCounted(s) \subseteq Keys
<1>1. Processed \subseteq Events /\ Alerted \subseteq Events
  BY DEF Processed, Alerted
<1>2. detections \subseteq Events \X Modules /\ aggregates \subseteq Events
  BY <1>1 DEF TypeOK
<1> QED
  BY <1>1, <1>2 DEF RowsCounted, Keys

LEMMA MetricsTyped ==
    ASSUME TypeOK, AskMetrics \/ CountRows \/ \E c \in Charts : ChartHistory(c)
    PROVE  TypeOK'
<1>1. TablesOK'
  BY TypeParts DEF AskMetrics, CountRows, ChartHistory, tables, TablesOK, Processed,
                   Anomalies, Anomalous
<1>2. ReaderOK'
  <2>1. CASE AskMetrics
    BY <2>1, TypeParts, StatementNames DEF AskMetrics, ReaderOK
  <2>2. CASE CountRows
    <3>. DEFINE s == MetricsStatements[step]
    <3>1. RowsCounted(s) \subseteq Keys
      BY CountedAreKeys
    <3>2. metrics' = [metrics EXCEPT ![s] = RowsCounted(s)]
      BY <2>2 DEF CountRows
    <3>3. metrics \in [DOMAIN NoMetrics -> SUBSET Keys]
      BY DEF TypeOK
    <3>. HIDE DEF s
    <3>4. metrics' \in [DOMAIN NoMetrics -> SUBSET Keys]
      BY <3>1, <3>2, <3>3
    <3> QED
      BY <2>2, <3>4, TypeParts DEF CountRows, ReaderOK
  <2>3. ASSUME NEW c \in Charts, ChartHistory(c) PROVE ReaderOK'
    BY <2>3, TypeParts, StatementNames DEF ChartHistory, ReaderOK
  <2> QED
    BY <2>1, <2>2, <2>3
<1> QED
  BY <1>1, <1>2, TypeParts

LEMMA StepTyped == TypeOK /\ [Next]_vars => TypeOK'
<1>. SUFFICES ASSUME TypeOK, [Next]_vars PROVE TypeOK'
  OBVIOUS
<1>1. CASE Worker
  <2>1. ReaderOK'
    BY <1>1, WorkerGrows, TypeParts DEF reader, ReaderOK
  <2> QED
    BY <1>1, <2>1, WorkerGrows, TypeParts
<1>2. CASE ListEvents \/ ListDetections \/ ListAggregates \/ ListAlerts
  BY <1>2, StartTyped DEF ListEvents, ListDetections, ListAggregates, ListAlerts
<1>3. CASE OpenEvent \/ OpenDetection \/ OpenAggregate \/ OpenAlert
  BY <1>3, OpenTyped DEF OpenEvent, OpenDetection, OpenAggregate, OpenAlert
<1>4. CASE UNCHANGED vars
  BY <1>4 DEF vars, tables, TypeOK, Processed, Anomalies, Anomalous
<1> QED
  BY <1>1, <1>2, <1>3, <1>4, StatementTyped, WalkTyped, MetricsTyped DEF Next, Client

-----------------------------------------------------------------------------
(* Rows that were shown *)

\* The worker takes nothing away but NORMAL detections of an older worker.
LEMMA GrownKeeps ==
    ASSUME Grown, NEW t \in Tables, t # "detections"
    PROVE  Present(t) \subseteq Present(t)'
BY DEF Grown, Present, Tables

LEMMA WorkerKeepsRows ==
    ASSUME TypeOK, RowsKept, Worker
    PROVE  RowsKept'
<1>1. Grown /\ walk' = walk /\ missing' = missing
  BY WorkerGrows DEF reader
<1>2. Purgeable' = Purgeable
  BY DEF Purgeable, Anomalies, Anomalous
<1>3. walk.request.table \in Tables
  BY RequestTyped
<1>4. CASE walk.request.table = "detections"
  BY <1>1, <1>2, <1>4 DEF RowsKept, Grown
<1>5. CASE walk.request.table # "detections"
  <2>1. Present(walk.request.table) \subseteq Present(walk.request.table)'
    BY <1>1, <1>3, <1>5, GrownKeeps
  <2> QED
    BY <1>1, <1>5, <2>1 DEF RowsKept
<1> QED
  BY <1>4, <1>5

\* A row that is gone is one that the purge may remove.
LEMMA OpenKeepsRows ==
    ASSUME TypeOK, RowsKept, NEW t \in Tables, Open(t)
    PROVE  RowsKept'
<1>1. walk' = walk /\ walk.request.table = t /\ Present(t)' = Present(t)
      /\ detections' = detections
  BY DEF Open, tables, Present, Processed, Alerted
<1>2. PICK k \in walk.seen : missing' = missing \cup ({k} \ Present(t))
  BY DEF Open
<1>3. Purgeable' = Purgeable
  BY DEF Purgeable, Anomalies, Anomalous
<1>4. CASE t = "detections"
  <2>1. Present(t) = detections
    BY <1>4 DEF Present
  <2> QED
    BY <1>1, <1>2, <1>3, <1>4, <2>1 DEF RowsKept
<1>5. CASE t # "detections"
  BY <1>1, <1>2, <1>5 DEF RowsKept
<1> QED
  BY <1>4, <1>5

LEMMA ReaderKeepsRows ==
    ASSUME TypeOK, RowsKept, Client \/ UNCHANGED vars
    PROVE  RowsKept'
<1>. DEFINE t == walk.request.table
<1>1. Purgeable' = Purgeable
  BY DEF Purgeable, Anomalies, Anomalous
<1>2. ASSUME UNCHANGED <<tables, walk>>, missing' = missing \/ missing' = {}
      PROVE  RowsKept'
  <2>1. Present(t)' = Present(t) /\ detections' = detections /\ walk' = walk
    BY <1>2 DEF tables, Present, Processed, Alerted
  <2> QED
    BY <1>1, <1>2, <2>1 DEF RowsKept
<1>3. ASSUME walk'.seen = {}, missing' = {} PROVE RowsKept'
  BY <1>3 DEF RowsKept
<1>4. CASE ListEvents \/ ListDetections \/ ListAggregates \/ ListAlerts
  BY <1>3, <1>4 DEF ListEvents, ListDetections, ListAggregates, ListAlerts, Start, NoWalk
<1>5. CASE Leave
  BY <1>3, <1>5 DEF Leave, NoWalk
<1>6. CASE AskAgain \/ AskMetrics \/ CountRows \/ (\E c \in Charts : ChartHistory(c))
           \/ UNCHANGED vars
  BY <1>2, <1>6 DEF AskAgain, AskMetrics, CountRows, ChartHistory, vars
<1>7. CASE Count \/ TurnPage
  <2>1. walk'.seen = walk.seen /\ walk'.request = walk.request
        /\ missing' = missing /\ UNCHANGED tables
    BY <1>7 DEF Count, TurnPage, TypeOK
  <2>2. Present(t)' = Present(t) /\ detections' = detections
    BY <2>1 DEF tables, Present, Processed, Alerted
  <2> QED
    BY <1>1, <2>1, <2>2 DEF RowsKept
<1>8. CASE Page
  <2>1. PICK P \in SUBSET Matching(walk.request) :
          /\ walk'.seen = walk.seen \cup P
          /\ walk'.request = walk.request
    BY <1>8 DEF Page, TypeOK
  <2>2. missing' = missing /\ UNCHANGED tables
    BY <1>8 DEF Page
  <2>3. Present(t)' = Present(t) /\ detections' = detections
    BY <2>1, <2>2 DEF tables, Present, Processed, Alerted
  <2>4. P \subseteq Present(t)
    BY <2>1, MatchingIsPresent, RequestTyped
  <2>5. t = "detections" => Present(t) = detections
    BY DEF Present
  <2> QED
    BY <1>1, <2>1, <2>2, <2>3, <2>4, <2>5 DEF RowsKept
<1>9. CASE OpenEvent \/ OpenDetection \/ OpenAggregate \/ OpenAlert
  BY <1>9, OpenKeepsRows DEF OpenEvent, OpenDetection, OpenAggregate, OpenAlert, Tables
<1> QED
  BY <1>4, <1>5, <1>6, <1>7, <1>8, <1>9 DEF Client

-----------------------------------------------------------------------------
(* Totals and their parts *)

LEMMA WorkerKeepsMetrics ==
    ASSUME TypeOK, MetricsInOrder, Worker
    PROVE  MetricsInOrder'
<1>1. Grown /\ metrics' = metrics /\ step' = step /\ pc' = pc
  BY WorkerGrows DEF reader
<1>2. Anomalies' = Anomalies
  BY DEF Anomalies, Anomalous
<1>3. Anomalies \cap Purgeable = {}
  BY DEF Purgeable
<1>4. \A s \in DetectionStatements : metrics[s] \cap Anomalies \subseteq detections'
  BY <1>1, <1>3 DEF MetricsInOrder, Grown
<1>5. \A s \in AlertStatements : metrics[s] \subseteq Alerted'
  BY <1>1 DEF MetricsInOrder, Grown
<1>6. MetricsAnswered' = MetricsAnswered
  BY <1>1 DEF MetricsAnswered
<1> QED
  BY <1>1, <1>2, <1>4, <1>5, <1>6 DEF MetricsInOrder

\* Before the first statement there is nothing to compare.
LEMMA NoMetricsInOrder ==
    ASSUME metrics' = NoMetrics, step' = 1
    PROVE  MetricsInOrder'
<1>1. \A s \in AlertStatements \cup DetectionStatements : metrics'[s] = {}
  BY StatementNames DEF AlertStatements, DetectionStatements
<1> QED
  BY <1>1 DEF MetricsInOrder, MetricsAnswered, AlertStatements, DetectionStatements

\* Each statement counts what the earlier ones counted and more.
LEMMA CountRowsKeepsMetrics ==
    ASSUME TypeOK, MetricsInOrder, CountRows
    PROVE  MetricsInOrder'
<1>. DEFINE D == DOMAIN NoMetrics
<1>1. metrics \in [D -> SUBSET Keys] /\ step \in 1..8 /\ pc = "metrics"
  BY DEF TypeOK, CountRows
<1>2. metrics' = [metrics EXCEPT ![MetricsStatements[step]] =
                                   RowsCounted(MetricsStatements[step])]
      /\ step' = (IF step = 8 THEN step ELSE step + 1)
  BY DEF CountRows
<1>3. Alerted' = Alerted /\ detections' = detections /\ Anomalies' = Anomalies
  BY DEF CountRows, tables, Alerted, Anomalies, Anomalous
<1>4. /\ \A s \in DetectionStatements : RowsCounted(s) = detections
      /\ \A s \in AlertStatements : RowsCounted(s) = Alerted
  BY DEF RowsCounted, DetectionStatements, AlertStatements
<1>5. step \in {1, 2, 3, 4, 5, 6, 7, 8}
  BY <1>1
<1>6. /\ metrics'["total_detections"] = IF step = 2 THEN detections
                                        ELSE metrics["total_detections"]
      /\ metrics'["detections_by_status"] = IF step = 3 THEN detections
                                            ELSE metrics["detections_by_status"]
      /\ metrics'["detections_by_module"] = IF step = 4 THEN detections
                                            ELSE metrics["detections_by_module"]
      /\ metrics'["total_alerts"] = IF step = 6 THEN Alerted ELSE metrics["total_alerts"]
      /\ metrics'["alerts_by_priority"] = IF step = 7 THEN Alerted
                                          ELSE metrics["alerts_by_priority"]
      /\ metrics'["alerts_by_notification_status"] =
             IF step = 8 THEN Alerted ELSE metrics["alerts_by_notification_status"]
  BY <1>1, <1>2, <1>4, <1>5, StatementNames DEF DetectionStatements, AlertStatements
<1>7. \A s \in AlertStatements : metrics'[s] \subseteq Alerted'
  BY <1>3, <1>6 DEF MetricsInOrder, AlertStatements
<1>8. \A s \in DetectionStatements : metrics'[s] \cap Anomalies' \subseteq detections'
  BY <1>3, <1>6 DEF MetricsInOrder, DetectionStatements
<1>9. step' > 3 => metrics'["total_detections"] \cap Anomalies'
                      \subseteq metrics'["detections_by_status"]
  BY <1>2, <1>3, <1>5, <1>6 DEF MetricsInOrder, DetectionStatements
<1>10. step' > 4 => metrics'["detections_by_status"] \cap Anomalies'
                      \subseteq metrics'["detections_by_module"]
  BY <1>2, <1>3, <1>5, <1>6 DEF MetricsInOrder, DetectionStatements
<1>11. step' > 7 => metrics'["total_alerts"] \subseteq metrics'["alerts_by_priority"]
  BY <1>2, <1>5, <1>6 DEF MetricsInOrder, AlertStatements
<1>12. MetricsAnswered' => metrics'["alerts_by_priority"]
                              \subseteq metrics'["alerts_by_notification_status"]
  <2>1. MetricsAnswered' => step = 8
    BY <1>1, <1>2, <1>5 DEF MetricsAnswered, CountRows
  <2> QED
    BY <2>1, <1>6 DEF MetricsInOrder, AlertStatements
<1> QED
  BY <1>7, <1>8, <1>9, <1>10, <1>11, <1>12 DEF MetricsInOrder

LEMMA ReaderKeepsMetrics ==
    ASSUME TypeOK, MetricsInOrder, Client \/ UNCHANGED vars
    PROVE  MetricsInOrder'
<1>1. CASE ListEvents \/ ListDetections \/ ListAggregates \/ ListAlerts \/ AskMetrics
           \/ \E c \in Charts : ChartHistory(c)
  BY <1>1, NoMetricsInOrder DEF ListEvents, ListDetections, ListAggregates, ListAlerts,
                                Start, AskMetrics, ChartHistory
<1>2. CASE Count \/ Page \/ AskAgain \/ TurnPage \/ Leave
           \/ OpenEvent \/ OpenDetection \/ OpenAggregate \/ OpenAlert \/ UNCHANGED vars
  <2>1. UNCHANGED <<tables, metrics, step>>
    BY <1>2 DEF Count, Page, AskAgain, TurnPage, Leave, OpenEvent, OpenDetection,
                OpenAggregate, OpenAlert, Open, vars
  <2>2. MetricsAnswered' => MetricsAnswered
    <3>1. step = 8 => pc \in {"idle", "metrics"}
      BY DEF TypeOK
    <3> QED
      BY <1>2, <2>1, <3>1 DEF Count, Page, AskAgain, TurnPage, Leave, OpenEvent,
           OpenDetection, OpenAggregate, OpenAlert, Open, vars, MetricsAnswered
  <2> QED
    BY <2>1, <2>2 DEF MetricsInOrder, tables, Alerted, Anomalies, Anomalous
<1> QED
  BY <1>1, <1>2, CountRowsKeepsMetrics DEF Client

-----------------------------------------------------------------------------
(* The total and the page *)

\* No row leaves a steady list.
LEMMA SteadyStays ==
    ASSUME TypeOK, NEW r \in Requests, Steady(r), Grown
    PROVE  Matching(r) \subseteq Matching(r)'
<1>. SUFFICES ASSUME NEW k \in Matching(r) PROVE k \in Matching(r)'
  OBVIOUS
<1>1. k \in Present(r.table) /\ Satisfies(Row(r.table, k), r.filter)
  BY DEF Matching
<1>2. CASE r.table = "events"
  <2>1. k \in Processed /\ k \in Processed'
    BY <1>1, <1>2 DEF Present, Grown
  <2>2. stamp'[k] = stamp[k]
    BY <2>1 DEF Grown
  <2>3. EventRow(k)' = EventRow(k)
    BY <2>2 DEF EventRow
  <2> QED
    BY <1>1, <1>2, <2>1, <2>3 DEF Matching, Present, Row
<1>3. CASE r.table = "aggregates"
  <2>1. k \in aggregates'
    BY <1>1, <1>3 DEF Present, Grown
  <2>2. Satisfies(AggregateRow(k), r.filter)
    BY <1>1, <1>3 DEF Row
  <2>3. AggregateRow(k)' = AggregateRow(k)
    BY DEF AggregateRow
  <2> QED
    BY <1>3, <2>1, <2>2, <2>3 DEF Matching, Present, Row
<1>4. CASE r.table = "detections"
  <2>1. k \in detections /\ Satisfies(DetectionRow(k[1], k[2]), r.filter)
    BY <1>1, <1>4 DEF Present, Row
  <2>2. "status" \in DOMAIN r.filter /\ r.filter.status = "ANOMALY"
    BY <1>4 DEF Steady
  <2>3. DetectionRow(k[1], k[2]).status = "ANOMALY"
    BY <2>1, <2>2 DEF Satisfies
  <2>4. k \in Anomalies
    BY <2>1, <2>3 DEF DetectionRow, Anomalies, Anomalous, TypeOK, Processed
  <2>5. k \in detections'
    BY <2>1, <2>4 DEF Grown, Purgeable
  <2>6. DetectionRow(k[1], k[2])' = DetectionRow(k[1], k[2])
    BY DEF DetectionRow
  <2> QED
    BY <1>4, <2>1, <2>5, <2>6 DEF Matching, Present, Row
<1>5. CASE r.table = "alerts"
  <2>1. k \in Alerted' /\ Satisfies(AlertRow(k), r.filter)
    BY <1>1, <1>5 DEF Present, Row, Grown
  <2>2. DOMAIN r.filter \subseteq AlertFilters \ {"notification_status"}
    BY <1>5, ApiAssumption DEF Steady, FiltersOf
  <2>3. \A c \in DOMAIN r.filter :
          CASE c = "from" -> AlertRow(k).timestamp >= r.filter[c]
            [] c = "to" -> AlertRow(k).timestamp <= r.filter[c]
            [] OTHER -> AlertRow(k)[c] = r.filter[c]
    BY <2>1 DEF Satisfies
  <2>4. /\ AlertRow(k)'.timestamp = AlertRow(k).timestamp
        /\ AlertRow(k)'["event_id"] = AlertRow(k)["event_id"]
        /\ AlertRow(k)'["priority"] = AlertRow(k)["priority"]
        /\ AlertRow(k)'["asset"] = AlertRow(k)["asset"]
    BY DEF AlertRow
  <2>5. Satisfies(AlertRow(k)', r.filter)
    BY <2>2, <2>3, <2>4 DEF Satisfies, AlertFilters
  <2>6. Satisfies(AlertRow(k), r.filter)'
    BY <2>5 DEF Satisfies
  <2> QED
    BY <1>5, <2>1, <2>6 DEF Matching, Present, Row
<1> QED
  BY <1>2, <1>3, <1>4, <1>5, ApiAssumption DEF Tables

\* A list whose tables do not change does not change.
LEMMA MatchingUnchanged ==
    ASSUME UNCHANGED tables, NEW r
    PROVE  Matching(r)' = Matching(r)
BY DEF tables, Matching, Present, Processed, Alerted, Satisfies, Row, EventRow,
       DetectionRow, AggregateRow, AlertRow

LEMMA StepKeepsCount ==
    ASSUME TypeOK, CountStillThere, [Next]_vars
    PROVE  CountStillThere'
<1>. DEFINE r == walk.request
<1>1. CASE Worker
  <2>1. Grown /\ walk' = walk /\ pc' = pc
    BY <1>1, WorkerGrows DEF reader
  <2>2. pc = "page" /\ Steady(r) => Matching(r) \subseteq Matching(r)'
    BY <2>1, SteadyStays DEF CountStillThere
  <2> QED
    BY <2>1, <2>2 DEF CountStillThere, Steady
<1>2. CASE ListEvents \/ ListDetections \/ ListAggregates \/ ListAlerts
  BY <1>2 DEF ListEvents, ListDetections, ListAggregates, ListAlerts, Start, NoWalk,
              CountStillThere
<1>3. CASE Count
  <2>1. walk'.request = r /\ walk'.counted = Matching(r) /\ UNCHANGED tables
    BY <1>3 DEF Count, Counted, TypeOK
  <2>2. Matching(r)' = Matching(r)
    BY <2>1, MatchingUnchanged
  <2> QED
    BY <1>3, <2>1, <2>2 DEF Count, CountStillThere
<1>4. CASE Page \/ AskAgain \/ TurnPage
  BY <1>4 DEF Page, AskAgain, TurnPage, TypeOK, CountStillThere
<1>5. CASE Leave \/ AskMetrics \/ CountRows \/ \E c \in Charts : ChartHistory(c)
  BY <1>5 DEF Leave, AskMetrics, CountRows, ChartHistory, CountStillThere
<1>6. CASE OpenEvent \/ OpenDetection \/ OpenAggregate \/ OpenAlert \/ UNCHANGED vars
  <2>1. pc' = pc /\ walk' = walk /\ UNCHANGED tables
    BY <1>6 DEF OpenEvent, OpenDetection, OpenAggregate, OpenAlert, Open, vars
  <2>2. Matching(r)' = Matching(r)
    BY <2>1, MatchingUnchanged
  <2> QED
    BY <2>1, <2>2 DEF CountStillThere, Steady
<1> QED
  BY <1>1, <1>2, <1>3, <1>4, <1>5, <1>6 DEF Next, Client

\* How many rows a page of S has that skips offset rows.
LEMMA PageLength ==
    ASSUME NEW S, IsFiniteSet(S), NEW P, NEW t, NEW offset \in Nat, NEW limit \in Nat,
           IsPage(S, P, t, offset, limit)
    PROVE  \/ Cardinality(P) = limit
           \/ offset < Cardinality(S) /\ Cardinality(P) = Cardinality(S) - offset
           \/ offset >= Cardinality(S)
<1>1. PICK skipped \in SUBSET (S \ P) :
        /\ Cardinality(skipped) = IF offset < Cardinality(S) THEN offset
                                                             ELSE Cardinality(S)
        /\ Cardinality(P) = LET n == Cardinality(S \ skipped)
                            IN IF limit < n THEN limit ELSE n
  BY DEF IsPage
<1>2. Cardinality(S \ skipped) = Cardinality(S) - Cardinality(skipped)
  <2>1. S \cap skipped = skipped
    BY <1>1
  <2> QED
    BY <2>1, FS_Difference
<1>3. Cardinality(S) \in Nat
  BY FS_CardinalityType
<1> QED
  BY <1>1, <1>2, <1>3

LEMMA StepKeepsTotal ==
    ASSUME TypeOK, CountStillThere, TotalCoversPage, [Next]_vars
    PROVE  TotalCoversPage'
<1>1. CASE Page
  <2>. DEFINE r == walk.request
              now == Matching(r)
  <2>1. PICK P \in SUBSET now :
          /\ IsPage(now, P, r.table, walk.offset, r.limit)
          /\ walk'.page = P
          /\ walk'.request = r /\ walk'.counted = walk.counted
          /\ walk'.offset = walk.offset
    BY <1>1 DEF Page, TypeOK
  <2>2. SUFFICES ASSUME Steady(r)
                 PROVE  LET left == IF walk.offset < Cardinality(walk.counted)
                                    THEN Cardinality(walk.counted) - walk.offset ELSE 0
                        IN Cardinality(P) >= left \/ Cardinality(P) = r.limit
    BY <2>1 DEF TotalCoversPage, Steady
  <2>3. IsFiniteSet(now)
    BY MatchingIsPresent, RequestTyped, KeysFinite, FS_Subset
  <2>4. walk.counted \subseteq now
    BY <1>1, <2>2 DEF Page, CountStillThere
  <2>5. /\ Cardinality(walk.counted) <= Cardinality(now)
        /\ Cardinality(walk.counted) \in Nat /\ Cardinality(now) \in Nat
        /\ Cardinality(P) \in Nat
    BY <2>1, <2>3, <2>4, FS_Subset, FS_CardinalityType
  <2>6. walk.offset \in Nat /\ r.limit \in Nat
    BY RequestTyped DEF TypeOK
  <2>7. \/ Cardinality(P) = r.limit
        \/ walk.offset < Cardinality(now) /\ Cardinality(P) = Cardinality(now) - walk.offset
        \/ walk.offset >= Cardinality(now)
    BY <2>1, <2>3, <2>6, PageLength
  <2>. HIDE DEF r, now
  <2> QED
    BY <2>5, <2>6, <2>7
<1>2. ASSUME pc' # "read" PROVE TotalCoversPage'
  BY <1>2 DEF TotalCoversPage
<1>3. ASSUME pc' = pc, walk' = walk PROVE TotalCoversPage'
  BY <1>3 DEF TotalCoversPage, Steady
<1>4. CASE Worker
  BY <1>3, <1>4, WorkerGrows DEF reader
<1>5. CASE ListEvents \/ ListDetections \/ ListAggregates \/ ListAlerts
  BY <1>2, <1>5 DEF ListEvents, ListDetections, ListAggregates, ListAlerts, Start
<1>6. CASE Count \/ AskAgain \/ TurnPage \/ Leave \/ AskMetrics \/ CountRows
  BY <1>2, <1>6 DEF Count, AskAgain, TurnPage, Leave, AskMetrics, CountRows
<1>7. CASE \/ OpenEvent \/ OpenDetection \/ OpenAggregate \/ OpenAlert
           \/ \E c \in Charts : ChartHistory(c)
           \/ UNCHANGED vars
  BY <1>3, <1>7 DEF OpenEvent, OpenDetection, OpenAggregate, OpenAlert, Open,
                    ChartHistory, vars
<1> QED
  BY <1>1, <1>4, <1>5, <1>6, <1>7 DEF Next, Client

-----------------------------------------------------------------------------
(* The theorems *)

LEMMA QueryInvInductive == Spec => []QueryInv
<1>1. Init => QueryInv
  <2>. SUFFICES ASSUME Init PROVE QueryInv
    OBVIOUS
  <2>1. RowsKept /\ CountStillThere /\ TotalCoversPage
    BY DEF Init, NoWalk, RowsKept, CountStillThere, TotalCoversPage
  <2>2. MetricsInOrder
    <3>1. \A s \in AlertStatements \cup DetectionStatements : metrics[s] = {}
      BY StatementNames DEF Init, AlertStatements, DetectionStatements
    <3> QED
      BY <3>1 DEF Init, MetricsInOrder, MetricsAnswered, AlertStatements,
                  DetectionStatements
  <2> QED
    BY <2>1, <2>2, InitTyped DEF QueryInv
<1>2. QueryInv /\ [Next]_vars => QueryInv'
  <2>. SUFFICES ASSUME QueryInv, [Next]_vars PROVE QueryInv'
    OBVIOUS
  <2>1. Worker \/ Client \/ UNCHANGED vars
    BY DEF Next
  <2>2. RowsKept'
    BY <2>1, WorkerKeepsRows, ReaderKeepsRows DEF QueryInv
  <2>3. MetricsInOrder'
    BY <2>1, WorkerKeepsMetrics, ReaderKeepsMetrics DEF QueryInv
  <2> QED
    BY <2>2, <2>3, StepTyped, StepKeepsCount, StepKeepsTotal DEF QueryInv
<1> QED
  BY <1>1, <1>2, PTL DEF Spec

\* The tables hold rows of processed events only and, but for an older worker's,
\* no NORMAL detection.
THEOREM TablesTyped == Spec => []TypeOK
BY QueryInvInductive, PTL DEF QueryInv

\* The total answered with a page of a list that rows never leave is no shorter
\* than the page (list_events, list_detections, list_aggregates, list_alerts).
THEOREM TotalsCoverPages == Spec => []TotalCoversPage
BY QueryInvInductive, PTL DEF QueryInv

\* What a client was shown can be opened, but for what the purge removes (get_event,
\* get_detection, get_aggregate, get_alert).
THEOREM ShownRowsStay == Spec => []ShownStaysFound
<1>1. QueryInv => ShownStaysFound
  BY DEF QueryInv, RowsKept, ShownStaysFound, Purgeable
<1> QED
  BY <1>1, QueryInvInductive, PTL

\* The breakdowns of get_metrics account for its totals.
THEOREM BreakdownsAreComplete == Spec => []BreakdownsCoverTotals
<1>1. QueryInv => BreakdownsCoverTotals
  BY DEF QueryInv, MetricsInOrder, MetricsAnswered, BreakdownsCoverTotals
<1> QED
  BY <1>1, QueryInvInductive, PTL

-----------------------------------------------------------------------------
(* What a walk misses *)

\* The rows in C are the first n of the list as it was last read, and of those
\* the walk missed no more than have left the list.
PassedOver(C, n) ==
    /\ C \subseteq walk.last
    /\ Cardinality(C) >= n \/ C = walk.last
    /\ \A a \in C, b \in walk.last \ C :
          At(walk.request.table, a) >= At(walk.request.table, b)
    /\ Cardinality(Missed \cap C) <= walk.shift

\* The rows before the next page have been passed over.
WalkPlaced ==
    /\ walk.pages = 0 => walk.offset = 0
    /\ pc = "read" => walk.pages # 0
    /\ walk.due \subseteq walk.last
    /\ walk.request.table = "events" => walk.last \subseteq Processed
    /\ \E C \in SUBSET walk.last :
          PassedOver(C, IF pc = "read" THEN walk.offset + walk.request.limit
                                       ELSE walk.offset)

\* The instant of a row of each table.
LEMMA InstantOf ==
    ASSUME NEW t \in Tables, NEW k
    PROVE  /\ At(t, k) = IF t = "events" THEN stamp[k]
                         ELSE IF t = "detections" THEN Data[k[1]].at ELSE Data[k].at
           /\ At(t, k)' = IF t = "events" THEN stamp'[k]
                          ELSE IF t = "detections" THEN Data[k[1]].at ELSE Data[k].at
BY DEF At, Row, EventRow, DetectionRow, AggregateRow, AlertRow, Tables

LEMMA InstantType ==
    ASSUME TypeOK, NEW r, r.table \in Tables, NEW k \in Matching(r)
    PROVE  At(r.table, k) \in Nat
<1>1. k \in Present(r.table)
  BY DEF Matching
<1>2. \A e \in Events : stamp[e] \in Nat /\ Data[e].at \in Nat
  BY ApiAssumption DEF TypeOK
<1>3. Processed \subseteq Events /\ Alerted \subseteq Events
      /\ detections \subseteq Events \X Modules /\ aggregates \subseteq Events
  BY DEF Processed, Alerted, TypeOK
<1>4. CASE r.table = "events"
  BY <1>1, <1>2, <1>3, <1>4, InstantOf DEF Present
<1>5. CASE r.table = "detections"
  BY <1>1, <1>2, <1>3, <1>5, InstantOf DEF Present
<1>6. CASE r.table \in {"aggregates", "alerts"}
  BY <1>1, <1>2, <1>3, <1>6, InstantOf DEF Present
<1> QED
  BY <1>4, <1>5, <1>6 DEF Tables

\* The instant of a row of a table never changes.
LEMMA InstantStays ==
    ASSUME Grown \/ UNCHANGED tables, NEW t \in Tables, NEW k,
           t = "events" => k \in Processed
    PROVE  At(t, k)' = At(t, k)
BY InstantOf DEF Grown, tables

\* A list has finitely many rows.
LEMMA WalkFinite ==
    ASSUME TypeOK
    PROVE  /\ IsFiniteSet(Matching(walk.request)) /\ IsFiniteSet(walk.last)
           /\ IsFiniteSet(walk.counted) /\ IsFiniteSet(walk.due)
           /\ walk.offset \in Nat /\ walk.shift \in Nat /\ walk.pages \in Nat
           /\ walk.request.limit \in Nat
<1>1. Matching(walk.request) \subseteq Keys
  BY MatchingIsPresent, RequestTyped
<1>2. walk.last \subseteq Keys /\ walk.counted \subseteq Keys /\ walk.due \subseteq Keys
      /\ walk.offset \in Nat /\ walk.shift \in Nat /\ walk.pages \in Nat
  BY DEF TypeOK
<1> QED
  BY <1>1, <1>2, KeysFinite, FS_Subset, RequestTyped

\* How many rows can move behind the rows C that were passed over into the rows K
\* that are skipped next: as many as have left C.
LEMMA RowsMovedUp ==
    ASSUME NEW last, IsFiniteSet(last), NEW M, NEW K, IsFiniteSet(K), NEW C \in SUBSET last,
           NEW B \in SUBSET (K \ C), C \cap M \subseteq K,
           Cardinality(K) <= Cardinality(C)
    PROVE  Cardinality(B) <= Cardinality(last \ M)
<1> DEFINE stay == C \cap M
           gone == C \ M
<1>1. IsFiniteSet(C) /\ IsFiniteSet(B) /\ IsFiniteSet(stay) /\ IsFiniteSet(gone)
      /\ IsFiniteSet(last \ M)
  <2>1. IsFiniteSet(C)
    BY FS_Subset
  <2>2. IsFiniteSet(B)
    BY FS_Subset
  <2> QED
    BY <2>1, <2>2, FS_Intersection, FS_Difference
<1>2. /\ Cardinality(C) \in Nat /\ Cardinality(B) \in Nat /\ Cardinality(K) \in Nat
      /\ Cardinality(stay) \in Nat /\ Cardinality(gone) \in Nat
      /\ Cardinality(last \ M) \in Nat
  BY <1>1, FS_CardinalityType
<1>3. Cardinality(B) + Cardinality(stay) <= Cardinality(K)
  <2>1. Cardinality(B \cup stay) = Cardinality(B) + Cardinality(stay) - Cardinality(B \cap stay)
    BY <1>1, FS_Union
  <2>2. B \cap stay = {}
    OBVIOUS
  <2>3. Cardinality(B \cup stay) <= Cardinality(K)
    <3>1. B \cup stay \in SUBSET K
      OBVIOUS
    <3> QED
      BY <3>1, FS_Subset
  <2> HIDE DEF stay
  <2> QED
    BY <1>2, <2>1, <2>2, <2>3, FS_EmptySet
<1>4. Cardinality(gone) = Cardinality(C) - Cardinality(stay)
  BY <1>1, FS_Difference
<1>5. Cardinality(gone) <= Cardinality(last \ M)
  <2>1. gone \in SUBSET (last \ M)
    OBVIOUS
  <2> QED
    BY <1>1, <2>1, FS_Subset
<1> HIDE DEF stay, gone
<1> QED
  BY <1>2, <1>3, <1>4, <1>5

\* A page after the rows C: what is missed of the rows before its end was missed
\* already or has moved up.
LEMMA PageMisses ==
    ASSUME NEW last, IsFiniteSet(last), NEW M, NEW K, IsFiniteSet(K), NEW P,
           NEW due \in SUBSET last, NEW kept \in SUBSET due, NEW seen,
           NEW C \in SUBSET last, Cardinality(K) <= Cardinality(C) \/ C = last,
           \A x \in (kept \cap K) \ C : C \cap M \subseteq K,
           NEW shift \in Nat, Cardinality((due \ seen) \cap C) <= shift
    PROVE  Cardinality((kept \ (seen \cup P)) \cap (K \cup P))
             <= shift + Cardinality(last \ M)
<1> DEFINE B == (kept \cap K) \ C
           old == (due \ seen) \cap C
           new == (kept \ (seen \cup P)) \cap (K \cup P)
<1>1. IsFiniteSet(due) /\ IsFiniteSet(last \ M)
  BY FS_Subset, FS_Difference
<1>2. B \in SUBSET due /\ old \in SUBSET due /\ new \in SUBSET (B \cup old)
  OBVIOUS
<1>3. IsFiniteSet(B) /\ IsFiniteSet(old) /\ IsFiniteSet(B \cup old)
  BY <1>1, <1>2, FS_Subset, FS_Union
<1>4. Cardinality(new) <= Cardinality(B) + Cardinality(old)
  <2>1. Cardinality(new) <= Cardinality(B \cup old)
    BY <1>2, <1>3, FS_Subset
  <2>2. Cardinality(B \cup old) = Cardinality(B) + Cardinality(old) - Cardinality(B \cap old)
    BY <1>3, FS_Union
  <2>3. /\ Cardinality(B) \in Nat /\ Cardinality(old) \in Nat
        /\ Cardinality(B \cap old) \in Nat /\ Cardinality(new) \in Nat
    <3>1. IsFiniteSet(B \cap old) /\ IsFiniteSet(new)
      BY <1>2, <1>3, FS_Intersection, FS_Subset
    <3> QED
      BY <1>3, <3>1, FS_CardinalityType
  <2> HIDE DEF B, old, new
  <2> QED
    BY <2>1, <2>2, <2>3
<1>5. Cardinality(B) <= Cardinality(last \ M)
  <2>1. CASE B = {}
    <3>1. Cardinality(B) = 0
      BY <2>1, FS_EmptySet
    <3>2. Cardinality(last \ M) \in Nat
      BY <1>1, FS_CardinalityType
    <3> HIDE DEF B
    <3> QED
      BY <3>1, <3>2
  <2>2. CASE B # {}
    <3>1. C # last /\ C \cap M \subseteq K
      BY <2>2
    <3>2. B \in SUBSET (K \ C)
      OBVIOUS
    <3> HIDE DEF B
    <3> QED
      BY <3>1, <3>2, RowsMovedUp
  <2> QED
    BY <2>1, <2>2
<1>6. Cardinality(new) \in Nat /\ Cardinality(B) \in Nat /\ Cardinality(old) \in Nat
      /\ Cardinality(last \ M) \in Nat
  <2>1. IsFiniteSet(new)
    BY <1>2, <1>3, FS_Subset
  <2> QED
    BY <1>1, <1>3, <2>1, FS_CardinalityType
<1> HIDE DEF B, new
<1>7. Cardinality(old) <= shift
  OBVIOUS
<1> HIDE DEF old
<1>8. Cardinality(new) <= shift + Cardinality(last \ M)
  BY <1>4, <1>5, <1>6, <1>7
<1> QED
  BY <1>8 DEF new

\* The number of rows before the next page, or before the end of the one just read.
Ahead == IF pc = "read" THEN walk.offset + walk.request.limit ELSE walk.offset

\* What leaves the walk where it is, or takes it back, leaves it placed.
LEMMA PlaceKept ==
    ASSUME TypeOK, WalkPlaced, Grown \/ UNCHANGED tables,
           walk'.request = walk.request, walk'.last = walk.last, walk'.due = walk.due,
           walk'.seen = walk.seen, walk'.shift = walk.shift,
           Ahead' <= Ahead, Ahead' \in Nat,
           walk'.pages = 0 => walk'.offset = 0,
           pc' = "read" => walk'.pages # 0
    PROVE  WalkPlaced'
<1>1. Ahead \in Nat /\ IsFiniteSet(walk.last)
  BY WalkFinite DEF Ahead
<1>2. PICK C \in SUBSET walk.last : PassedOver(C, Ahead)
  BY DEF WalkPlaced, Ahead
<1>3. Cardinality(C) \in Nat
  BY <1>1, FS_Subset, FS_CardinalityType
<1>4. walk.request.table = "events" => walk.last \subseteq Processed /\ walk.last \subseteq Processed'
  <2>1. Processed \subseteq Processed'
    BY DEF Grown, tables, Processed
  <2> QED
    BY <2>1 DEF WalkPlaced
<1>5. \A k \in walk.last : At(walk.request.table, k)' = At(walk.request.table, k)
  <2> DEFINE t == walk.request.table
  <2>1. PICK table \in Tables : table = t /\ table = walk'.request.table
    BY RequestTyped
  <2>2. \A k \in walk.last : At(table, k)' = At(table, k)
    BY <1>4, <2>1, InstantStays
  <2>3. \A k \in walk.last : At(t, k) = At(table, k)
    BY <2>1
  <2>4. \A k \in walk.last : At(t, k)' = At(table, k)'
    BY <2>1 DEF At
  <2> QED
    BY <2>2, <2>3, <2>4
<1>6. Cardinality(C) >= Ahead' \/ C = walk'.last
  BY <1>1, <1>2, <1>3 DEF PassedOver
<1>7. /\ C \in SUBSET walk'.last
      /\ \A a \in C, b \in walk'.last \ C :
            At(walk.request.table, a)' >= At(walk.request.table, b)'
      /\ Cardinality((walk'.due \ walk'.seen) \cap C) <= walk'.shift
  BY <1>2, <1>5 DEF PassedOver, Missed
<1>8. \E D \in SUBSET walk'.last : PassedOver(D, Ahead)'
  BY <1>6, <1>7 DEF PassedOver, Missed
<1> QED
  BY <1>4, <1>8 DEF WalkPlaced, Ahead

\* A page leaves the walk placed behind it.
LEMMA PagePlaces ==
    ASSUME TypeOK, WalkPlaced, Page
    PROVE  WalkPlaced'
<1> DEFINE r == walk.request
           t == r.table
           M == Matching(r)
<1>1. PICK P \in SUBSET M :
        /\ IsPage(M, P, t, walk.offset, r.limit)
        /\ walk' = [walk EXCEPT !.page = P, !.pages = @ + 1, !.seen = @ \cup P,
                      !.due = {k \in @ \cap M : Distinct(t, k, M)},
                      !.last = M,
                      !.shift = @ + Cardinality(walk.last \ M)]
  BY DEF Page
<1>2. PICK K \in SUBSET (M \ P) :
        /\ Cardinality(K) = IF walk.offset < Cardinality(M) THEN walk.offset
                                                            ELSE Cardinality(M)
        /\ Cardinality(P) = LET n == Cardinality(M \ K)
                            IN IF r.limit < n THEN r.limit ELSE n
        /\ \A a \in K, b \in M \ K : At(t, a) >= At(t, b)
        /\ \A a \in P, b \in M \ (K \cup P) : At(t, a) >= At(t, b)
  BY <1>1 DEF IsPage
<1> DEFINE kept == {k \in walk.due \cap M : Distinct(t, k, M)}
           D == K \cup P
<1>3. /\ walk'.request = r /\ walk'.last = M /\ walk'.due = kept
      /\ walk'.seen = walk.seen \cup P /\ walk'.shift = walk.shift + Cardinality(walk.last \ M)
      /\ walk'.offset = walk.offset /\ walk'.pages = walk.pages + 1
      /\ pc = "page" /\ pc' = "read" /\ UNCHANGED tables
  BY <1>1 DEF Page, TypeOK
<1>4. /\ IsFiniteSet(M) /\ IsFiniteSet(walk.last)
      /\ walk.offset \in Nat /\ walk.shift \in Nat /\ walk.pages \in Nat /\ r.limit \in Nat
      /\ t \in Tables
  BY WalkFinite, RequestTyped
<1>5. IsFiniteSet(K) /\ IsFiniteSet(P) /\ IsFiniteSet(M \ K)
  <2>1. K \in SUBSET M /\ P \in SUBSET M
    BY <1>1, <1>2
  <2> QED
    BY <1>4, <2>1, FS_Subset, FS_Difference
<1>6. Cardinality(K) \in Nat /\ Cardinality(P) \in Nat /\ Cardinality(M) \in Nat
      /\ Cardinality(M \ K) \in Nat
  BY <1>4, <1>5, FS_CardinalityType
<1>7. Cardinality(M \ K) = Cardinality(M) - Cardinality(K)
  <2>1. M \cap K = K
    BY <1>2
  <2> QED
    BY <1>4, <2>1, FS_Difference
<1>8. Cardinality(D) = Cardinality(K) + Cardinality(P)
  <2>1. K \cap P = {}
    BY <1>2
  <2>2. Cardinality(K \cap P) = 0
    BY <2>1, FS_EmptySet
  <2>3. Cardinality(K \cup P) = Cardinality(K) + Cardinality(P) - Cardinality(K \cap P)
    BY <1>5, FS_Union
  <2> QED
    BY <1>6, <2>2, <2>3
<1>9. D \in SUBSET M
  BY <1>1, <1>2
<1>10. Cardinality(D) >= walk.offset + r.limit \/ D = M
  <2>1. Cardinality(D) = Cardinality(M) \/ Cardinality(D) >= walk.offset + r.limit
    <3> DEFINE c == Cardinality(D)
               m == Cardinality(M)
               k == Cardinality(K)
               p == Cardinality(P)
               o == walk.offset
               s == r.limit
    <3>1. /\ k = IF o < m THEN o ELSE m
          /\ p = IF s < m - k THEN s ELSE m - k
          /\ c = k + p
      BY <1>2, <1>7, <1>8
    <3>2. k \in Nat /\ m \in Nat /\ p \in Nat /\ o \in Nat /\ s \in Nat
      BY <1>4, <1>6
    <3> HIDE DEF c, m, k, p, o, s
    <3>3. c = m \/ c >= o + s
      BY <3>1, <3>2
    <3> QED
      BY <3>3 DEF c, m, k, p, o, s
  <2> QED
    BY <1>4, <1>9, <2>1, FS_Subset
<1>11. PICK C \in SUBSET walk.last : PassedOver(C, walk.offset)
  BY <1>3 DEF WalkPlaced
<1>12. Cardinality((kept \ (walk.seen \cup P)) \cap D)
         <= walk.shift + Cardinality(walk.last \ M)
  <2>1. walk.due \in SUBSET walk.last /\ kept \in SUBSET walk.due
    BY DEF WalkPlaced
  <2>2. Cardinality(K) <= Cardinality(C) \/ C = walk.last
    <3>1. Cardinality(C) \in Nat
      BY <1>4, FS_Subset, FS_CardinalityType
    <3>2. Cardinality(K) <= walk.offset
      BY <1>2, <1>4, <1>6
    <3>3. Cardinality(C) >= walk.offset \/ C = walk.last
      BY <1>11 DEF PassedOver
    <3> QED
      BY <1>4, <1>6, <3>1, <3>2, <3>3
  <2>3. \A x \in (kept \cap K) \ C : C \cap M \subseteq K
    <3> SUFFICES ASSUME NEW x \in (kept \cap K) \ C, NEW a \in C \cap M, a \notin K
                 PROVE  FALSE
      OBVIOUS
    <3>1. x \in M /\ Distinct(t, x, M) /\ x \in walk.last \ C
      BY <2>1
    <3>2. At(t, a) >= At(t, x)
      BY <1>11, <3>1 DEF PassedOver
    <3>3. At(t, x) >= At(t, a)
      BY <1>2
    <3>4. At(t, a) # At(t, x)
      BY <3>1 DEF Distinct
    <3>5. At(t, a) \in Nat /\ At(t, x) \in Nat
      BY <1>4, <3>1, InstantType
    <3> HIDE DEF t
    <3> QED
      BY <3>2, <3>3, <3>4, <3>5
  <2>4. Cardinality((walk.due \ walk.seen) \cap C) <= walk.shift
    BY <1>11 DEF PassedOver, Missed
  <2> HIDE DEF M, kept
  <2> QED
    BY <1>4, <1>5, <2>1, <2>2, <2>3, <2>4, PageMisses
<1>13. \A a \in D, b \in M \ D : At(t, a) >= At(t, b)
  BY <1>2
<1>14. \A k : At(t, k)' = At(t, k)
  BY <1>3 DEF tables, At, Row, EventRow, DetectionRow, AggregateRow, AlertRow
<1>15. PassedOver(D, walk.offset + r.limit)'
  <2>1. Cardinality(Missed' \cap D) <= walk'.shift
    BY <1>3, <1>12 DEF Missed
  <2>2. \A a \in D, b \in walk'.last \ D : At(t, a)' >= At(t, b)'
    BY <1>3, <1>13, <1>14
  <2>3. walk.offset' = walk.offset /\ r' = r /\ t' = t
    BY <1>3
  <2> HIDE DEF M, D, kept
  <2> QED
    BY <1>3, <1>9, <1>10, <2>1, <2>2, <2>3 DEF PassedOver
<1>16. t = "events" => M \subseteq Processed'
  <2>1. Processed' = Processed
    BY <1>3 DEF tables, Processed
  <2> QED
    BY <2>1 DEF Matching, Present
<1>17. kept \subseteq M /\ walk'.pages # 0
  BY <1>3, <1>4
<1> HIDE DEF M, D, kept
<1>18. \E E \in SUBSET walk'.last :
          PassedOver(E, IF pc = "read" THEN walk.offset + walk.request.limit ELSE walk.offset)'
  BY <1>3, <1>9, <1>15
<1> QED
  BY <1>3, <1>16, <1>17, <1>18 DEF WalkPlaced

\* A walk that starts, or starts to read, has passed over nothing.
LEMMA NothingPassed ==
    ASSUME TypeOK', walk'.offset = 0, pc' # "read", walk'.due \subseteq walk'.last,
           walk'.request.table = "events" => walk'.last \subseteq Processed'
    PROVE  WalkPlaced'
<1>1. Cardinality({}) = 0
  BY FS_EmptySet
<1>2. walk'.shift \in Nat
  BY DEF TypeOK
<1>3. Missed' \cap {} = {} /\ {} \in SUBSET walk'.last
  OBVIOUS
<1>4. PassedOver({}, Ahead)'
  BY <1>1, <1>2, <1>3 DEF PassedOver, Ahead
<1> QED
  BY <1>3, <1>4 DEF WalkPlaced, Ahead

LEMMA StepPlaces ==
    ASSUME TypeOK, WalkPlaced, [Next]_vars
    PROVE  WalkPlaced'
<1>1. TypeOK'
  BY StepTyped
<1>2. walk.offset \in Nat /\ walk.request.limit \in Nat /\ walk.pages \in Nat
  BY WalkFinite
<1>3. ASSUME Grown \/ UNCHANGED tables, walk' = walk, pc' = pc \/ {pc, pc'} \subseteq {"idle", "metrics"}
      PROVE  WalkPlaced'
  BY <1>2, <1>3, PlaceKept DEF Ahead, WalkPlaced
<1>4. CASE Worker
  BY <1>3, <1>4, WorkerGrows DEF reader
<1>5. CASE ListEvents \/ ListDetections \/ ListAggregates \/ ListAlerts
  <2>1. pc' = "count" /\ walk'.offset = 0 /\ walk'.due = {} /\ walk'.last = {}
    BY <1>5 DEF ListEvents, ListDetections, ListAggregates, ListAlerts, Start, NoWalk
  <2> QED
    BY <1>1, <2>1, NothingPassed
<1>6. CASE Count
  <2> DEFINE now == Matching(walk.request)
  <2>1. /\ walk' = [walk EXCEPT !.counted = Counted(walk.request),
                      !.due = IF walk.pages = 0 THEN now ELSE @,
                      !.last = IF walk.pages = 0 THEN now ELSE @]
        /\ pc = "count" /\ pc' = "page" /\ UNCHANGED tables
    BY <1>6 DEF Count
  <2>2. walk.request.table = "events" => now \subseteq Processed'
    <3>1. Processed' = Processed
      BY <2>1 DEF tables, Processed
    <3> QED
      BY <3>1 DEF Matching, Present
  <2> HIDE DEF now
  <2>3. /\ walk'.request = walk.request /\ walk'.offset = walk.offset
        /\ walk'.pages = walk.pages /\ walk'.seen = walk.seen /\ walk'.shift = walk.shift
        /\ walk'.due = (IF walk.pages = 0 THEN now ELSE walk.due)
        /\ walk'.last = (IF walk.pages = 0 THEN now ELSE walk.last)
    BY <2>1 DEF TypeOK
  <2>4. CASE walk.pages = 0
    BY <1>1, <2>1, <2>2, <2>3, <2>4, NothingPassed DEF WalkPlaced
  <2>5. CASE walk.pages # 0
    <3>1. Ahead' <= Ahead /\ Ahead' \in Nat
      BY <1>2, <2>1, <2>3 DEF Ahead
    <3> QED
      BY <2>1, <2>3, <2>5, <3>1, PlaceKept
  <2> QED
    BY <2>4, <2>5
<1>7. CASE Page
  BY <1>7, PagePlaces
<1>8. CASE AskAgain
  <2>1. /\ walk' = walk /\ pc = "read" /\ pc' = "count" /\ UNCHANGED tables
    BY <1>8 DEF AskAgain
  <2>2. Ahead' <= Ahead /\ Ahead' \in Nat
    BY <1>2, <2>1 DEF Ahead
  <2> QED
    BY <2>1, <2>2, PlaceKept DEF WalkPlaced
<1>9. CASE TurnPage
  <2>1. /\ walk' = [walk EXCEPT !.offset = @ + walk.request.limit]
        /\ pc = "read" /\ pc' = "count" /\ UNCHANGED tables
    BY <1>9 DEF TurnPage
  <2>2. /\ walk'.request = walk.request /\ walk'.offset = walk.offset + walk.request.limit
        /\ walk'.last = walk.last /\ walk'.due = walk.due /\ walk'.seen = walk.seen
        /\ walk'.shift = walk.shift /\ walk'.pages = walk.pages
    BY <2>1 DEF TypeOK
  <2>3. Ahead' <= Ahead /\ Ahead' \in Nat
    BY <1>2, <2>1, <2>2 DEF Ahead
  <2>4. walk.pages # 0
    BY <2>1 DEF WalkPlaced
  <2> QED
    BY <2>1, <2>2, <2>3, <2>4, PlaceKept
<1>10. CASE Leave
  <2>1. pc' = "idle" /\ walk'.offset = 0 /\ walk'.due = {} /\ walk'.last = {}
    BY <1>10 DEF Leave, NoWalk
  <2> QED
    BY <1>1, <2>1, NothingPassed
<1>11. CASE OpenEvent \/ OpenDetection \/ OpenAggregate \/ OpenAlert \/ UNCHANGED vars
  <2>1. UNCHANGED tables /\ walk' = walk /\ pc' = pc
    BY <1>11 DEF OpenEvent, OpenDetection, OpenAggregate, OpenAlert, Open, vars
  <2> QED
    BY <1>3, <2>1
<1>12. CASE AskMetrics \/ CountRows \/ \E c \in Charts : ChartHistory(c)
  <2>1. UNCHANGED tables /\ walk' = walk
        /\ (pc' = pc \/ {pc, pc'} \subseteq {"idle", "metrics"})
    BY <1>12 DEF AskMetrics, CountRows, ChartHistory
  <2> QED
    BY <1>3, <2>1
<1> QED
  BY <1>4, <1>5, <1>6, <1>7, <1>8, <1>9, <1>10, <1>11, <1>12 DEF Next, Client

LEMMA InitPlaced == Init => WalkPlaced
<1> SUFFICES ASSUME Init
             PROVE  WalkPlaced
  OBVIOUS
<1>1. walk.offset = 0 /\ walk.due = {} /\ walk.last = {} /\ pc = "idle" /\ walk.shift = 0
  BY DEF Init, NoWalk
<1>2. Cardinality({}) = 0 /\ Missed \cap {} = {}
  BY FS_EmptySet
<1>3. PassedOver({}, walk.offset)
  BY <1>1, <1>2 DEF PassedOver
<1> QED
  BY <1>1, <1>3 DEF WalkPlaced

LEMMA PlacedMissesFew == TypeOK /\ WalkPlaced => WalkMissesFew
<1> SUFFICES ASSUME TypeOK, WalkPlaced, pc = "read", LastPage
             PROVE  Cardinality(Missed) <= walk.shift + Cardinality(walk.last \ walk.counted)
  BY DEF WalkMissesFew
<1> DEFINE n == walk.offset + walk.request.limit
           last == walk.last
           counted == walk.counted
<1>1. PICK C \in SUBSET last : PassedOver(C, n)
  BY DEF WalkPlaced
<1>2. n >= Cardinality(counted)
  BY DEF LastPage
<1>3. IsFiniteSet(last) /\ IsFiniteSet(counted) /\ walk.shift \in Nat /\ n \in Nat
  BY WalkFinite
<1>4. /\ IsFiniteSet(C) /\ IsFiniteSet(last \ C) /\ IsFiniteSet(last \ counted)
      /\ IsFiniteSet(last \cap counted)
  BY <1>3, FS_Subset, FS_Difference, FS_Intersection
<1>5. Missed \in SUBSET last
  BY DEF Missed, WalkPlaced
<1>6. IsFiniteSet(Missed) /\ IsFiniteSet(Missed \cap C) /\ IsFiniteSet(Missed \ C)
  BY <1>3, <1>5, FS_Subset, FS_Intersection, FS_Difference
<1>7. /\ Cardinality(C) \in Nat /\ Cardinality(last) \in Nat /\ Cardinality(counted) \in Nat
      /\ Cardinality(last \ C) \in Nat /\ Cardinality(last \ counted) \in Nat
      /\ Cardinality(last \cap counted) \in Nat
      /\ Cardinality(Missed) \in Nat /\ Cardinality(Missed \cap C) \in Nat
      /\ Cardinality(Missed \ C) \in Nat
  BY <1>3, <1>4, <1>6, FS_CardinalityType
<1>8. Cardinality(Missed \ C) = Cardinality(Missed) - Cardinality(Missed \cap C)
  BY <1>6, FS_Difference
<1>9. Cardinality(Missed \ C) <= Cardinality(last \ C)
  <2>1. Missed \ C \in SUBSET (last \ C)
    BY <1>5
  <2> QED
    BY <1>4, <2>1, FS_Subset
<1>10. Cardinality(last \ C) = Cardinality(last) - Cardinality(C)
  <2>1. last \cap C = C
    OBVIOUS
  <2> QED
    BY <1>3, <2>1, FS_Difference
<1>11. Cardinality(last \ counted) = Cardinality(last) - Cardinality(last \cap counted)
  BY <1>3, FS_Difference
<1>12. Cardinality(last \cap counted) <= Cardinality(counted)
  BY <1>3, FS_Intersection
<1>13. Cardinality(Missed \cap C) <= walk.shift
  BY <1>1 DEF PassedOver
<1>14. Cardinality(C) >= n \/ Cardinality(C) = Cardinality(last)
  BY <1>1 DEF PassedOver
<1> HIDE DEF n, last, counted
<1>15. Cardinality(Missed) <= walk.shift + Cardinality(last \ counted)
  BY <1>2, <1>3, <1>7, <1>8, <1>9, <1>10, <1>11, <1>12, <1>13, <1>14
<1> QED
  BY <1>15 DEF last, counted

-----------------------------------------------------------------------------
(* What a chart shows *)

\* Every anomaly of a processed event is stored, and nothing that a module did
\* not find.
ResultsStored ==
    /\ {k \in Anomalies : k[1] \in Processed} \subseteq detections
    /\ \A k \in detections : Data[k[1]].verdict[k[2]] # "NONE"

LEMMA InitResults == Init => ResultsStored
<1> SUFFICES ASSUME Init
             PROVE  ResultsStored
  OBVIOUS
<1>1. Processed = Legacy
  BY ApiAssumption DEF Init, Processed
<1>2. detections = {k \in Legacy \X Modules : Data[k[1]].verdict[k[2]] # "NONE"}
  BY DEF Init
<1>3. \A k \in Anomalies : k[1] \in Legacy => k \in Legacy \X Modules
  BY DEF Anomalies
<1>4. \A k \in Anomalies : Data[k[1]].verdict[k[2]] # "NONE"
  BY DEF Anomalies, Anomalous
<1> QED
  BY <1>1, <1>2, <1>3, <1>4 DEF ResultsStored

LEMMA StepKeepsResults ==
    ASSUME TypeOK, ResultsStored, [Next]_vars
    PROVE  ResultsStored'
<1>1. \A k \in Anomalies : Data[k[1]].verdict[k[2]] # "NONE"
  BY DEF Anomalies, Anomalous
<1>2. Anomalies' = Anomalies
  BY DEF Anomalies, Anomalous
<1>3. ASSUME NEW e \in Events, Persist(e)
      PROVE  ResultsStored'
  <2>1. PICK t \in 1..Horizon : stamp' = [stamp EXCEPT ![e] = t]
    BY <1>3 DEF Persist, MarkProcessed
  <2>2. Processed' \subseteq Processed \cup {e}
    BY <2>1 DEF Processed, TypeOK
  <2>3. detections' = detections \cup {k \in {e} \X Modules : Anomalous(k[1], k[2])}
    BY <1>3 DEF Persist, SaveDetections
  <2>4. \A k \in Anomalies : k[1] = e => k \in {e} \X Modules /\ Anomalous(k[1], k[2])
    BY DEF Anomalies
  <2>5. \A k \in {e} \X Modules : Anomalous(k[1], k[2]) => Data[k[1]].verdict[k[2]] # "NONE"
    BY DEF Anomalous
  <2> QED
    BY <1>2, <2>2, <2>3, <2>4, <2>5 DEF ResultsStored
<1>4. CASE PurgeNormal
  BY <1>2, <1>4 DEF PurgeNormal, Processed, ResultsStored
<1>5. CASE UNCHANGED <<stamp, detections>>
  BY <1>2, <1>5 DEF Processed, ResultsStored
<1>6. ASSUME Client
      PROVE  UNCHANGED tables
  BY <1>6 DEF Client, ListEvents, ListDetections, ListAggregates, ListAlerts, Start, Count,
              Page, AskAgain, TurnPage, Leave, OpenEvent, OpenDetection, OpenAggregate,
              OpenAlert, Open, AskMetrics, CountRows, ChartHistory
<1> QED
  BY <1>3, <1>4, <1>5, <1>6
     DEF Next, Worker, MarkAlertSent, MarkAlertFailed, tables, vars

LEMMA LeastElement ==
    ASSUME NEW T \in SUBSET Nat, T # {}
    PROVE  \E x \in T : \A y \in T : x <= y
<1> DEFINE R == OpToRel(<, Nat)
<1>1. IsWellFoundedOn(R, Nat)
  BY NatLessThanWellFounded
<1>2. PICK x \in T : \A y \in T : <<y, x>> \notin R
  <2> HIDE DEF R
  <2> QED
    BY <1>1, WFMin
<1>3. ASSUME NEW y \in T
      PROVE  x <= y
  <2>1. ~(y < x)
    BY <1>2 DEF OpToRel
  <2> QED
    BY <2>1
<1> QED
  BY <1>3

LEMMA ChartAtType ==
    ASSUME NEW k, k[1] \in Events
    PROVE  ChartAt(k) \in Nat
BY ApiAssumption DEF ChartAt

\* The points of a chart are all the rows, in the order of their instants.
LEMMA PointsOf ==
    ASSUME NEW S, IsFiniteSet(S), NEW q \in Orders(S)
    PROVE  /\ q \in Seq(S) /\ Len(q) = Cardinality(S) /\ Len(q) \in Nat
           /\ \A i \in 1..Len(q) : q[i] \in S
           /\ \A i, j \in 1..Len(q) : i < j => ChartAt(q[i]) <= ChartAt(q[j])
           /\ \A k \in S : \E i \in 1..Len(q) : q[i] = k
<1> DEFINE n == Cardinality(S)
<1>1. n \in Nat
  BY FS_CardinalityType
<1>2. /\ q \in [1..n -> S]
      /\ \A i, j \in 1..n : i < j => q[i] # q[j] /\ ChartAt(q[i]) <= ChartAt(q[j])
  BY DEF Orders
<1> HIDE DEF n
<1>3. q \in Seq(S) /\ Len(q) = n
  BY <1>1, <1>2
<1>4. q \in Injection(1..n, S)
  <2>1. \A i, j \in 1..n : q[i] = q[j] => i = j
    BY <1>1, <1>2
  <2> QED
    BY <1>2, <2>1 DEF Injection, IsInjective
<1>5. Cardinality(1..n) = n
  BY <1>1, FS_Interval
<1>6. q \in Surjection(1..n, S)
  <2>1. Cardinality(1..n) = Cardinality(S)
    BY <1>5 DEF n
  <2> QED
    BY <1>4, <2>1, FS_Injection
<1>7. \A k \in S : \E i \in 1..n : q[i] = k
  BY <1>6 DEF Surjection
<1> QED
  BY <1>1, <1>2, <1>3, <1>7 DEF n

\* The first point of the last streak, when there is one.
LEMMA StreakStart ==
    ASSUME NEW q, Len(q) \in Nat, NEW m \in 1..Len(q), InStreak(q, m)
    PROVE  LET first == CHOOSE i \in 1..Len(q) :
                          InStreak(q, i) /\ \A j \in 1..(i - 1) : ~InStreak(q, j)
           IN  /\ first \in 1..m
               /\ Span(q) = (ChartAt(q[Len(q)]) - ChartAt(q[first])) \div Second
<1> DEFINE Starts(i) == InStreak(q, i) /\ \A j \in 1..(i - 1) : ~InStreak(q, j)
           first == CHOOSE i \in 1..Len(q) : Starts(i)
           T == {i \in 1..Len(q) : InStreak(q, i)}
<1>1. PICK x \in T : \A y \in T : x <= y
  <2>1. T \in SUBSET Nat /\ T # {}
    OBVIOUS
  <2> HIDE DEF T
  <2> QED
    BY <2>1, LeastElement
<1>2. x \in 1..Len(q) /\ Starts(x)
  BY <1>1
<1>3. first \in 1..Len(q) /\ Starts(first)
  <2> HIDE DEF Starts
  <2> QED
    BY <1>2
<1>4. first \in 1..m
  <2> HIDE DEF first
  <2>1. ~(m < first)
    BY <1>3
  <2> QED
    BY <1>3, <2>1
<1>5. \E i \in 1..Len(q) : InStreak(q, i)
  OBVIOUS
<1> QED
  BY <1>4, <1>5 DEF Span

\* What is cut from a time in whole seconds is less than a second.
LEMMA CutToSeconds ==
    ASSUME NEW x \in Nat
    PROVE  ((x \div Second) + 1) * Second > x
<1>1. Second \in Nat \ {0}
  BY ApiAssumption
<1>2. ASSUME NEW s \in Nat \ {0}
      PROVE  ((x \div s) + 1) * s > x
  <2>1. x = s * (x \div s) + (x % s) /\ x % s < s /\ x \div s \in Nat /\ x % s \in Nat
    OBVIOUS
  <2>2. \A k \in Nat : (k + 1) * s = s * k + s
    OBVIOUS
  <2>3. ((x \div s) + 1) * s = s * (x \div s) + s /\ s * (x \div s) \in Nat
    BY <2>1, <2>2
  <2> QED
    BY <2>1, <2>3
<1> QED
  BY <1>1, <1>2

\* A chart of the rows S covers the streak of the evaluated rows E, when S has all
\* the anomalies of E and, if there are any, nothing that is not in E.
LEMMA SpanCovers ==
    ASSUME NEW S, NEW E, IsFiniteSet(S), \A k \in S \cup E : k[1] \in Events,
           E \cap Anomalies \subseteq S, S \subseteq E \/ E \cap Anomalies = {},
           NEW q \in Orders(S)
    PROVE  (Span(q) + 1) * Second > RealSpan(E)
<1> DEFINE n == Len(q)
           streak == {k \in E : \A j \in E : ChartAt(j) >= ChartAt(k) => j \in Anomalies}
           T == {ChartAt(k) : k \in streak}
           latest == CHOOSE t \in T : \A k \in streak : ChartAt(k) <= t
           earliest == CHOOSE t \in T : \A k \in streak : ChartAt(k) >= t
<1>1. /\ n \in Nat
      /\ \A i \in 1..n : q[i] \in S
      /\ \A i, j \in 1..n : i < j => ChartAt(q[i]) <= ChartAt(q[j])
      /\ \A k \in S : \E i \in 1..n : q[i] = k
  BY PointsOf
<1>2. \A k \in S \cup E : ChartAt(k) \in Nat
  BY ChartAtType
<1>3. \A i, j \in 1..n : i <= j => ChartAt(q[i]) <= ChartAt(q[j])
  <2> SUFFICES ASSUME NEW i \in 1..n, NEW j \in 1..n, i <= j
               PROVE  ChartAt(q[i]) <= ChartAt(q[j])
    OBVIOUS
  <2>1. i < j \/ i = j
    OBVIOUS
  <2>2. ChartAt(q[i]) \in Nat
    BY <1>1, <1>2
  <2> QED
    BY <1>1, <2>1, <2>2
<1>4. RealSpan(E) = IF streak = {} THEN 0 ELSE latest - earliest
  BY DEF RealSpan
<1>5. CASE streak = {}
  <2>1. CASE \E m \in 1..n : InStreak(q, m)
    <3>1. PICK m \in 1..n : InStreak(q, m)
      BY <2>1
    <3>2. PICK first \in 1..m : Span(q) = (ChartAt(q[n]) - ChartAt(q[first])) \div Second
      BY <1>1, <3>1, StreakStart
    <3>3. first \in 1..n /\ n \in 1..n /\ first <= n
      BY <1>1, <3>1, <3>2
    <3>4. ChartAt(q[first]) <= ChartAt(q[n]) /\ ChartAt(q[first]) \in Nat /\ ChartAt(q[n]) \in Nat
      BY <1>1, <1>2, <1>3, <3>3
    <3> HIDE DEF streak
    <3>5. RealSpan(E) = 0
      BY <1>4, <1>5
    <3> DEFINE x == ChartAt(q[n]) - ChartAt(q[first])
    <3>6. x \in Nat /\ Span(q) = x \div Second
      BY <3>2, <3>4
    <3> HIDE DEF x
    <3>7. (Span(q) + 1) * Second > x
      BY <3>6, CutToSeconds
    <3>8. Span(q) \in Nat /\ Second \in Nat
      BY <3>6, ApiAssumption
    <3> QED
      BY <3>5, <3>6, <3>7, <3>8
  <2>2. CASE ~ \E m \in 1..n : InStreak(q, m)
    <3>1. Span(q) = 0
      BY <2>2 DEF Span
    <3> HIDE DEF streak
    <3>2. RealSpan(E) = 0
      BY <1>4, <1>5
    <3> QED
      BY <3>1, <3>2, ApiAssumption
  <2> QED
    BY <2>1, <2>2
<1>6. CASE streak # {}
  <2>1. PICK t0 \in T : \A t \in T : t0 <= t
    <3>1. T \in SUBSET Nat
      BY <1>2
    <3>2. T # {}
      BY <1>6
    <3> HIDE DEF T
    <3> QED
      BY <3>1, <3>2, LeastElement
  <2>2. PICK k0 \in streak : t0 = ChartAt(k0)
    BY <2>1
  <2>3. \A k \in streak : k \in E /\ k \in S /\ k \in Anomalies /\ ChartAt(k) \in Nat
    <3> SUFFICES ASSUME NEW k \in streak
                 PROVE  k \in E /\ k \in S /\ k \in Anomalies /\ ChartAt(k) \in Nat
      OBVIOUS
    <3>1. k \in E /\ ChartAt(k) \in Nat
      BY <1>2
    <3>2. k \in Anomalies
      <4>1. ChartAt(k) >= ChartAt(k)
        BY <3>1
      <4> QED
        BY <3>1, <4>1
    <3> QED
      BY <3>1, <3>2
  <2>4. PICK i0 \in 1..n : q[i0] = k0
    BY <1>1, <2>3
  <2>5. S \subseteq E
    BY <2>2, <2>3
  <2>6. n \in 1..n /\ i0 <= n /\ i0 \in Nat
    BY <1>1, <2>4
  <2>7. \A j \in i0..n : q[j] \in Anomalies
    <3> SUFFICES ASSUME NEW j \in i0..n
                 PROVE  q[j] \in Anomalies
      OBVIOUS
    <3>1. j \in 1..n /\ i0 <= j
      BY <1>1, <2>6
    <3>2. ChartAt(q[j]) >= ChartAt(k0) /\ q[j] \in E
      <4>1. ChartAt(q[i0]) <= ChartAt(q[j]) /\ q[j] \in E
        BY <1>1, <1>3, <2>6, <2>5, <3>1
      <4>2. ChartAt(q[j]) \in Nat /\ ChartAt(k0) \in Nat
        BY <1>2, <2>3, <4>1
      <4> QED
        BY <2>4, <4>1, <4>2
    <3> QED
      BY <3>2
  <2>8. InStreak(q, i0)
    BY <2>7 DEF InStreak, Anomalies
  <2>9. PICK first \in 1..i0 : Span(q) = (ChartAt(q[n]) - ChartAt(q[first])) \div Second
    BY <1>1, <2>8, StreakStart
  <2>10. ChartAt(q[first]) <= t0 /\ ChartAt(q[first]) \in Nat
    <3>1. first \in 1..n /\ first <= i0
      BY <1>1, <2>6, <2>9
    <3> QED
      BY <1>1, <1>2, <1>3, <2>2, <2>4, <3>1
  <2>11. \A k \in streak : ChartAt(k) <= ChartAt(q[n])
    <3> SUFFICES ASSUME NEW k \in streak
                 PROVE  ChartAt(k) <= ChartAt(q[n])
      OBVIOUS
    <3>1. PICK i \in 1..n : q[i] = k
      BY <1>1, <2>3
    <3>2. i <= n
      BY <1>1
    <3> QED
      BY <1>3, <2>6, <3>1, <3>2
  <2>12. q[n] \in streak
    <3>1. q[n] \in E
      BY <1>1, <2>6, <2>5
    <3>2. ASSUME NEW j \in E, ChartAt(j) >= ChartAt(q[n])
          PROVE  j \in Anomalies
      <4>1. ChartAt(k0) <= ChartAt(q[n])
        BY <2>11
      <4>2. ChartAt(j) \in Nat /\ ChartAt(k0) \in Nat /\ ChartAt(q[n]) \in Nat
        BY <1>2, <2>3, <3>1
      <4>3. ChartAt(j) >= ChartAt(k0)
        BY <3>2, <4>1, <4>2
      <4> QED
        BY <4>3
    <3> QED
      BY <3>1, <3>2
  <2> DEFINE z == ChartAt(q[n])
  <2>13. z \in T /\ t0 \in T /\ z \in Nat /\ t0 \in Nat
    BY <1>2, <2>1, <2>2, <2>3, <2>12
  <2>14. \A t \in T : t \in Nat
    BY <2>3
  <2>15. \A k \in streak : ChartAt(k) >= t0
    BY <2>1, <2>3, <2>13
  <2> HIDE DEF streak, T, z
  <2>16. latest = z
    <3>1. \A k \in streak : ChartAt(k) <= z
      BY <2>11 DEF z
    <3>2. latest \in T /\ \A k \in streak : ChartAt(k) <= latest
      BY <2>13, <3>1
    <3> HIDE DEF latest
    <3>3. z <= latest
      BY <2>12, <3>2 DEF z
    <3>4. latest <= z
      BY <3>1, <3>2 DEF T
    <3> QED
      BY <2>13, <2>14, <3>2, <3>3, <3>4
  <2>17. earliest = t0
    <3>1. earliest \in T /\ \A k \in streak : ChartAt(k) >= earliest
      BY <2>13, <2>15
    <3> HIDE DEF earliest
    <3>2. t0 >= earliest
      BY <2>2, <3>1
    <3>3. earliest >= t0
      BY <2>15, <3>1 DEF T
    <3> QED
      BY <2>13, <2>14, <3>1, <3>2, <3>3
  <2>18. Span(q) = (z - ChartAt(q[first])) \div Second
    BY <2>9 DEF z
  <2> HIDE DEF n, latest, earliest
  <2>19. RealSpan(E) = z - t0
    BY <1>4, <1>6, <2>16, <2>17
  <2>20. z - ChartAt(q[first]) \in Nat /\ z - t0 <= z - ChartAt(q[first])
    <3>1. t0 <= z
      BY <2>13, <2>16, <2>15, <2>12 DEF z
    <3> QED
      BY <2>10, <2>13, <3>1
  <2>21. (Span(q) + 1) * Second > z - ChartAt(q[first])
    BY <2>18, <2>20, CutToSeconds
  <2>22. Span(q) \in Nat /\ Second \in Nat
    BY <2>18, <2>20, ApiAssumption
  <2> QED
    BY <2>10, <2>13, <2>19, <2>20, <2>21, <2>22
<1> QED
  BY <1>5, <1>6

\* The duration of a chart covers the streak.
LEMMA StepKeepsDuration ==
    ASSUME TypeOK, ResultsStored, DurationCoversStreak, [Next]_vars
    PROVE  DurationCoversStreak'
<1>1. CASE chart' = chart
  BY <1>1 DEF DurationCoversStreak, NoChart, RealSpan, ChartAt, Anomalies, Anomalous
<1>2. CASE chart' = NoChart
  BY <1>2 DEF DurationCoversStreak, NoChart
<1>3. ASSUME NEW c \in Charts, ChartHistory(c)
      PROVE  DurationCoversStreak'
  <2> DEFINE stored == InWindow(c) \cap detections
             E == {k \in Evaluated(c) : \/ c.symbol = NoSymbol
                                        \/ Data[k[1]].symbol \in {c.symbol, NoSymbol}}
  <2>1. PICK P \in SUBSET stored : \E q \in Orders(OfSymbol(P, c.symbol)) :
          chart' = [points |-> q, duration |-> Span(q), complete |-> P = stored,
                    evaluated |-> E]
    BY <1>3 DEF ChartHistory
  <2> DEFINE S == OfSymbol(P, c.symbol)
  <2>2. PICK q \in Orders(S) :
          chart' = [points |-> q, duration |-> Span(q), complete |-> P = stored,
                    evaluated |-> E]
    BY <2>1
  <2>3. /\ chart'.complete <=> P = stored
        /\ chart'.duration = Span(q) /\ chart'.evaluated = E
    BY <2>2
  <2>4. ASSUME P = stored
        PROVE  (Span(q) + 1) * Second > RealSpan(E)
    <3>1. detections \subseteq Processed \X Modules /\ Processed \subseteq Events
      BY DEF TypeOK, Processed
    <3>2. stored \subseteq Evaluated(c)
      BY <3>1 DEF Evaluated, ResultsStored
    <3>3. E \cap Anomalies \subseteq stored
      BY DEF Evaluated, ResultsStored
    <3>4. E \cap Anomalies \subseteq S
      BY <2>4, <3>3 DEF OfSymbol
    <3>5. S \subseteq E \/ E \cap Anomalies = {}
      BY <2>4, <3>2, <3>3 DEF OfSymbol
    <3>6. S \subseteq stored
      BY DEF OfSymbol
    <3>7. IsFiniteSet(S)
      <4>1. S \subseteq Keys
        BY <3>1, <3>6 DEF Keys
      <4> QED
        BY <4>1, KeysFinite, FS_Subset
    <3>8. \A k \in S \cup E : k[1] \in Events
      BY <3>1, <3>6 DEF Evaluated
    <3> HIDE DEF S, E
    <3> QED
      BY <3>4, <3>5, <3>7, <3>8, SpanCovers DEF S
  <2> QED
    BY <2>3, <2>4 DEF DurationCoversStreak
<1>4. chart' = chart \/ chart' = NoChart \/ \E c \in Charts : ChartHistory(c)
  <2>1. Worker => chart' = chart
    BY WorkerGrows DEF reader
  <2> QED
    BY <2>1 DEF Next, Client, ListEvents, ListDetections, ListAggregates, ListAlerts, Start,
                Count, Page, AskAgain, TurnPage, Leave, OpenEvent, OpenDetection,
                OpenAggregate, OpenAlert, Open, AskMetrics, CountRows, vars
<1> QED
  BY <1>1, <1>2, <1>3, <1>4

-----------------------------------------------------------------------------
(* The theorems on walks and charts *)

LEMMA ReadsSound == Spec => [](TypeOK /\ WalkPlaced /\ ResultsStored /\ DurationCoversStreak)
<1>1. Init => DurationCoversStreak
  BY DEF Init, DurationCoversStreak
<1> QED
  BY <1>1, InitTyped, InitPlaced, InitResults, StepTyped, StepPlaces, StepKeepsResults,
     StepKeepsDuration, PTL DEF Spec

\* A client that turns the pages to the end misses no more rows than have left the
\* list under it or have come since the last COUNT (list_events and its like).
THEOREM WalksMissFew == Spec => []WalkMissesFew
BY ReadsSound, PlacedMissesFew, PTL

\* The duration of a chart that is not cut off covers the time the spread has been
\* above the threshold (get_chart_history).
THEOREM DurationsCoverStreaks == Spec => []DurationCoversStreak
BY ReadsSound, PTL
=============================================================================
