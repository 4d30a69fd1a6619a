------------------------ MODULE ModuleSettingsProofs ------------------------
(***************************************************************************)
(* Concurrent requests for different fields of a module do not undo each   *)
(* other: for any clients, requests, defaults and steps of rounding.       *)
(***************************************************************************)
EXTENDS ModuleSettings, TLAPS

\* rows and task are tables over the modules and the clients.
Tables ==
    /\ rows = [m \in ModuleIds |-> rows[m]]
    /\ task \in [Clients -> {"idle", "loaded", "saved"}]

\* Created by a worker or by the migrations, the table is one.
LEMMA FirstTable == Init => rows \in [ModuleIds -> StoredSettings \cup {NoRow}]
BY SettingsAssumption DEF Init, CreatedTable, MigratedTable

LEMMA TablesStay == Spec => []Tables
<1>1. Init => Tables
  <2>. SUFFICES ASSUME Init PROVE Tables
    OBVIOUS
  <2>1. rows \in [ModuleIds -> StoredSettings \cup {NoRow}]
    BY FirstTable
  <2> QED
    BY <2>1 DEF Init, Tables
<1>2. Tables /\ [Next]_vars => Tables'
  <2> SUFFICES ASSUME Tables, [Next]_vars
               PROVE  Tables'
    OBVIOUS
  <2>1. ASSUME NEW c \in Clients, Load(c) \/ InsertConflict(c) \/ Answer(c)
        PROVE  Tables'
    BY <2>1 DEF Tables, Load, InsertConflict, Answer
  <2>2. ASSUME NEW c \in Clients, Commit(c) \/ RequestFails(c)
        PROVE  Tables'
    BY <2>2 DEF Tables, Commit, RequestFails, SaveRow
  <2>3. CASE UNCHANGED <<rows, task>>
    BY <2>3 DEF Tables
  <2>4. CASE ApiRestarts
    BY <2>4 DEF Tables, ApiRestarts
  <2> QED
    BY <2>1, <2>2, <2>3, <2>4
       DEF Next, WorkerStep, SyncQuery, SyncApply, SyncFails, Batch, WorkerRestarts,
           client, vars
<1> QED
  BY <1>1, <1>2, PTL DEF Spec

\* A row that exists changes only where the request that is saved names a field.
LEMMA SaveKeepsOthers ==
    ASSUME Tables, NEW c \in Clients, SaveRow(c), NEW m \in ModuleIds, rows[m] # NoRow,
           NEW f \in Fields, rows'[m][f] # rows[m][f]
    PROVE  request[c].module = m /\ f \in DOMAIN request[c].sets
<1>1. request[c].module = m
  BY DEF SaveRow, Tables
<1>2. loaded[c] # NoRow
  BY <1>1 DEF SaveRow, Collides
<1>3. rows'[m] = UpdatedRow(c)
  BY <1>1, <1>2 DEF SaveRow, Tables
<1>4. rows'[m][f] = IF f \in DOMAIN request[c].sets /\ request[c].sets[f] # loaded[c][f]
                    THEN Stored(f, request[c].sets[f]) ELSE rows[m][f]
  BY <1>1, <1>3 DEF UpdatedRow
<1> QED
  BY <1>1, <1>4

\* A transaction changes nothing but the fields its request names.
THEOREM ConcurrentRequestsLast == Spec => ConcurrentFieldsKept
<1>1. ASSUME Tables, [Next]_vars
      PROVE  [\A m \in ModuleIds : \A f \in Fields :
                rows[m] # NoRow /\ rows'[m][f] # rows[m][f] =>
                    \E c \in Clients : /\ task[c] = "loaded" /\ task'[c] # "loaded"
                                       /\ request[c].module = m
                                       /\ f \in DOMAIN request[c].sets]_vars
  <2>1. SUFFICES ASSUME NEW m \in ModuleIds, NEW f \in Fields,
                        rows[m] # NoRow, rows'[m][f] # rows[m][f]
                 PROVE  \E c \in Clients : /\ task[c] = "loaded" /\ task'[c] # "loaded"
                                           /\ request[c].module = m
                                           /\ f \in DOMAIN request[c].sets
    OBVIOUS
  <2>2. rows' # rows
    BY <2>1
  <2>3. PICK c \in Clients : Commit(c) \/ RequestFails(c)
    BY <1>1, <2>2 DEF Next, WorkerStep, SyncQuery, SyncApply, SyncFails, Batch,
       WorkerRestarts, ApiRestarts, Load, InsertConflict, Answer, vars
  <2>4. SaveRow(c) /\ task[c] = "loaded"
    BY <2>2, <2>3 DEF Commit, RequestFails
  <2>5. task'[c] # "loaded"
    BY <1>1, <2>3 DEF Commit, RequestFails, Tables
  <2> QED
    BY <1>1, <2>1, <2>4, <2>5, SaveKeepsOthers
<1> QED
  BY <1>1, TablesStay, PTL DEF Spec, ConcurrentFieldsKept

-----------------------------------------------------------------------------
(* Types *)

\* Rounding to a step gives a multiple of it.
LEMMA RoundedInSteps ==
    ASSUME NEW x \in Nat, NEW s \in Nat \ {0}
    PROVE  Rounded(x, s) \in Nat /\ Rounded(x, s) % s = 0
<1> DEFINE k == (2 * x + s) \div (2 * s)
<1>1. k \in Nat
  OBVIOUS
<1>2. k * s \in Nat /\ (k * s) % s = 0
  <2> HIDE DEF k
  <2> QED
    BY <1>1
<1> QED
  BY <1>2 DEF Rounded

\* A table over the fields, with values of the fields, is settings.
LEMMA FieldsMakeSettings ==
    ASSUME NEW r, r = [f \in Fields |-> r[f]],
           r["threshold"] \in Nat, r["ratio"] \in Nat,
           r["mode"] \in {"AVERAGE", "FIRST", "SECOND", "LAST"},
           r["status"] \in {"active", "paused"}
    PROVE  r \in Settings
  BY DEF Settings, Fields

\* What a request makes of a row can be stored.
LEMMA RequestsMakeRows ==
    ASSUME NEW q \in Requests, NEW old \in StoredSettings, NEW S \in SUBSET DOMAIN q.sets
    PROVE  [f \in Fields |-> IF f \in S THEN Stored(f, q.sets[f]) ELSE old[f]]
               \in StoredSettings
<1> DEFINE r == [f \in Fields |-> IF f \in S THEN Stored(f, q.sets[f]) ELSE old[f]]
<1>1. IsRequest(q) /\ ThresholdStep \in Nat \ {0} /\ RatioStep \in Nat \ {0}
  BY SettingsAssumption
<1>2. old \in Settings /\ old.threshold % ThresholdStep = 0 /\ old.ratio % RatioStep = 0
  BY DEF StoredSettings
<1>3. r["threshold"] \in Nat /\ r["threshold"] % ThresholdStep = 0
  <2>1. CASE "threshold" \in S
    <3>1. q.sets["threshold"] \in Nat
      BY <1>1, <2>1 DEF IsRequest
    <3>2. r["threshold"] = Rounded(q.sets["threshold"], ThresholdStep)
      BY <2>1 DEF Fields, Stored
    <3> QED
      BY <1>1, <3>1, <3>2, RoundedInSteps
  <2>2. CASE "threshold" \notin S
    BY <1>2, <2>2 DEF Fields, Settings
  <2> QED
    BY <2>1, <2>2
<1>4. r["ratio"] \in Nat /\ r["ratio"] % RatioStep = 0
  <2>1. CASE "ratio" \in S
    <3>1. q.sets["ratio"] \in Nat
      BY <1>1, <2>1 DEF IsRequest
    <3>2. r["ratio"] = Rounded(q.sets["ratio"], RatioStep)
      BY <2>1 DEF Fields, Stored
    <3> QED
      BY <1>1, <3>1, <3>2, RoundedInSteps
  <2>2. CASE "ratio" \notin S
    BY <1>2, <2>2 DEF Fields, Settings
  <2> QED
    BY <2>1, <2>2
<1>5. r["mode"] \in {"AVERAGE", "FIRST", "SECOND", "LAST"}
  BY <1>1, <1>2 DEF Fields, Settings, Stored, IsRequest
<1>6. r["status"] \in {"active", "paused"}
  BY <1>1, <1>2 DEF Fields, Settings, Stored, IsRequest
<1>7. r = [f \in Fields |-> r[f]]
  OBVIOUS
<1>8. r \in Settings
  <2> HIDE DEF r
  <2> QED
    BY <1>3, <1>4, <1>5, <1>6, <1>7, FieldsMakeSettings
<1> QED
  <2> HIDE DEF r
  <2>1. r \in StoredSettings
    BY <1>3, <1>4, <1>8 DEF StoredSettings
  <2> QED
    BY <2>1 DEF r

\* The inductive invariant: a row that was loaded is still there.
TypeInv ==
    /\ TypeOK
    /\ \A c \in Clients : task[c] = "loaded" /\ loaded[c] # NoRow =>
          request[c] \in Requests /\ rows[request[c].module] # NoRow

LEMMA SaveTyped ==
    ASSUME TypeInv, NEW c \in Clients, task[c] = "loaded", SaveRow(c)
    PROVE  /\ rows' \in [ModuleIds -> StoredSettings \cup {NoRow}]
           /\ \A m \in ModuleIds : rows[m] # NoRow => rows'[m] # NoRow
<1> DEFINE n == request[c].module
<1>1. CASE request[c] \notin Requests
  <2>1. request[c] = NoRequest
    BY <1>1 DEF TypeInv, TypeOK
  <2>2. n \notin ModuleIds
    BY <2>1 DEF NoRequest, ModuleIds
  <2> QED
    BY <2>2 DEF SaveRow, TypeInv, TypeOK
<1>2. CASE request[c] \in Requests
  <2> DEFINE new == IF loaded[c] = NoRow THEN With(InsertDefault, request[c].sets)
                    ELSE UpdatedRow(c)
  <2>1. n \in ModuleIds /\ IsRequest(request[c])
    BY <1>2, SettingsAssumption DEF IsRequest
  <2>2. new \in StoredSettings
    <3>1. CASE loaded[c] = NoRow
      <4>1. InsertDefault \in StoredSettings
        BY SettingsAssumption
      <4> QED
        BY <1>2, <3>1, <4>1, RequestsMakeRows DEF With
    <3>2. CASE loaded[c] # NoRow
      <4> DEFINE S == {f \in DOMAIN request[c].sets : request[c].sets[f] # loaded[c][f]}
      <4>1. rows[n] \in StoredSettings
        BY <2>1, <3>2 DEF TypeInv, TypeOK
      <4>2. UpdatedRow(c) = [f \in Fields |-> IF f \in S THEN Stored(f, request[c].sets[f])
                                               ELSE rows[n][f]]
        BY DEF UpdatedRow
      <4>3. [f \in Fields |-> IF f \in S THEN Stored(f, request[c].sets[f])
                              ELSE rows[n][f]] \in StoredSettings
        <5> HIDE DEF n
        <5> QED
          BY <1>2, <4>1, RequestsMakeRows
      <4> QED
        BY <3>2, <4>2, <4>3
    <3> QED
      BY <3>1, <3>2
  <2>3. NoRow \notin StoredSettings
    BY SettingsAssumption DEF StoredSettings
  <2>4. rows' = [rows EXCEPT ![n] = new]
    BY DEF SaveRow
  <2> QED
    <3> HIDE DEF new, n
    <3> QED
      BY <2>1, <2>2, <2>3, <2>4 DEF TypeInv, TypeOK
<1> QED
  BY <1>1, <1>2

LEMMA TypeInit == Init => TypeInv
<1> SUFFICES ASSUME Init PROVE TypeInv
  OBVIOUS
<1> QED
  BY FirstTable, SettingsAssumption DEF Init, TypeInv, TypeOK

\* The settings that the API answers for keep their type.
LEMMA AnswerTyped ==
    ASSUME TypeInv, NEW c \in Clients, Answer(c)
    PROVE  TypeInv'
<1> DEFINE q == request[c]
<1>1. served' \in [ModuleIds -> Settings]
  <2>1. CASE q \notin Requests
    <3>1. q.module \notin ModuleIds
      BY <2>1 DEF TypeInv, TypeOK, NoRequest, ModuleIds
    <3> QED
      BY <3>1 DEF Answer, TypeInv, TypeOK
  <2>2. CASE q \in Requests
    <3> DEFINE old == served[q.module]
               r == [f \in Fields |-> IF f \in DOMAIN q.sets \cap FieldsOf(q.module)
                                      THEN q.sets[f] ELSE old[f]]
    <3>1. IsRequest(q) /\ old \in Settings
      BY <2>2, SettingsAssumption DEF IsRequest, TypeInv, TypeOK
    <3>2. /\ r["threshold"] \in Nat /\ r["ratio"] \in Nat
          /\ r["mode"] \in {"AVERAGE", "FIRST", "SECOND", "LAST"}
          /\ r["status"] \in {"active", "paused"}
      BY <3>1 DEF IsRequest, Settings, Fields
    <3>3. r = [f \in Fields |-> r[f]]
      OBVIOUS
    <3>4. r \in Settings
      <4> HIDE DEF r
      <4> QED
        BY <3>2, <3>3, FieldsMakeSettings
    <3>5. served' = [served EXCEPT ![q.module] = r]
      BY DEF Answer
    <3> QED
      <4> HIDE DEF r, q
      <4> QED
        BY <3>4, <3>5 DEF TypeInv, TypeOK
  <2> QED
    BY <2>1, <2>2
<1>2. task' \in [Clients -> {"idle", "loaded", "saved"}]
      /\ \A d \in Clients : task'[d] = "loaded" => task[d] = "loaded"
  BY DEF Answer, TypeInv, TypeOK
<1> QED
  <2> HIDE DEF q
  <2> QED
    BY <1>1, <1>2 DEF Answer, TypeInv, TypeOK, worker

\* The settings of the worker keep their type, whatever rows it reads.
LEMMA SyncTyped ==
    ASSUME TypeInv, NEW m \in ModuleIds
    PROVE  Synced(m) \in Settings
<1>1. config[m] \in Settings /\ (fetched[m] # NoRow => fetched[m] \in Settings)
  BY DEF TypeInv, TypeOK, StoredSettings
<1> DEFINE row == fetched[m]
           r == [f \in Fields |-> IF f \in FieldsOf(m) THEN row[f] ELSE config[m][f]]
<1>2. CASE row = NoRow \/ Aborted(m)
  BY <1>1, <1>2 DEF Synced
<1>3. ASSUME row # NoRow
      PROVE  [config[m] EXCEPT !.status = row.status] \in Settings
  BY <1>1, <1>3 DEF Settings
<1>4. ASSUME row # NoRow
      PROVE  r \in Settings
  <2>1. row \in Settings /\ config[m] \in Settings
    BY <1>1, <1>4
  <2>2. /\ r["threshold"] \in Nat /\ r["ratio"] \in Nat
        /\ r["mode"] \in {"AVERAGE", "FIRST", "SECOND", "LAST"}
        /\ r["status"] \in {"active", "paused"}
    BY <2>1 DEF Settings, Fields
  <2>3. r = [f \in Fields |-> r[f]]
    OBVIOUS
  <2> QED
    <3> HIDE DEF r
    <3> QED
      BY <2>2, <2>3, FieldsMakeSettings
<1> QED
  BY <1>2, <1>3, <1>4 DEF Synced

LEMMA TypeStep == TypeInv /\ [Next]_vars => TypeInv'
<1> SUFFICES ASSUME TypeInv, [Next]_vars
             PROVE  TypeInv'
  OBVIOUS
<1>1. ASSUME NEW c \in Clients, Load(c)
      PROVE  TypeInv'
  <2>1. PICK q \in Requests :
          /\ request' = [request EXCEPT ![c] = q]
          /\ loaded' = [loaded EXCEPT ![c] = rows[q.module]]
    BY <1>1 DEF Load
  <2>2. q.module \in ModuleIds
    BY SettingsAssumption DEF IsRequest
  <2> QED
    BY <1>1, <2>1, <2>2, SettingsAssumption DEF Load, TypeInv, TypeOK, worker
<1>2. ASSUME NEW c \in Clients, Commit(c)
      PROVE  TypeInv'
  <2>1. task[c] = "loaded" /\ SaveRow(c)
    BY <1>2 DEF Commit
  <2>2. \A d \in Clients : request[d] \in Requests => request[d].module \in ModuleIds
    BY SettingsAssumption DEF IsRequest
  <2> QED
    BY <1>2, <2>1, <2>2, SaveTyped DEF Commit, TypeInv, TypeOK, worker
<1>3. ASSUME NEW c \in Clients, InsertConflict(c)
      PROVE  TypeInv'
  BY <1>3 DEF InsertConflict, TypeInv, TypeOK, worker
<1>4. ASSUME NEW c \in Clients, Answer(c)
      PROVE  TypeInv'
  BY <1>4, AnswerTyped
<1>5. ASSUME NEW c \in Clients, RequestFails(c)
      PROVE  TypeInv'
  <2>1. /\ rows' \in [ModuleIds -> StoredSettings \cup {NoRow}]
        /\ \A m \in ModuleIds : rows[m] # NoRow => rows'[m] # NoRow
    BY <1>5, SaveTyped DEF RequestFails, TypeInv, TypeOK
  <2>2. \A d \in Clients : request[d] \in Requests => request[d].module \in ModuleIds
    BY SettingsAssumption DEF IsRequest
  <2>3. faults' \in 0..MaxFaults
    BY <1>5, SettingsAssumption DEF RequestFails, Fault, TypeInv, TypeOK
  <2> QED
    BY <1>5, <2>1, <2>2, <2>3 DEF RequestFails, TypeInv, TypeOK, worker
<1>6. CASE ApiRestarts
  BY <1>6, SettingsAssumption DEF ApiRestarts, Fault, TypeInv, TypeOK, worker
<1>7. CASE SyncQuery
  BY <1>7 DEF SyncQuery, Fetch, TypeInv, TypeOK, client
<1>8. CASE SyncApply
  <2>1. config' \in [ModuleIds -> Settings]
    BY <1>8, SyncTyped DEF SyncApply
  <2> QED
    BY <1>8, <2>1 DEF SyncApply, TypeInv, TypeOK, client
<1>9. CASE Batch
  BY <1>9 DEF Batch, TypeInv, TypeOK, client
<1>10. CASE SyncFails
  BY <1>10, SettingsAssumption DEF SyncFails, Fault, TypeInv, TypeOK, client
<1>11. CASE WorkerRestarts
  BY <1>11, SettingsAssumption DEF WorkerRestarts, Fault, TypeInv, TypeOK, client
<1>12. CASE UNCHANGED vars
  BY <1>12 DEF vars, client, worker, TypeInv, TypeOK
<1> QED
  BY <1>1, <1>2, <1>3, <1>4, <1>5, <1>6, <1>7, <1>8, <1>9, <1>10, <1>11, <1>12
     DEF Next, WorkerStep

\* Rows, registries and the worker's settings keep their types: the database holds
\* what its columns can hold, whatever is asked for, lost or restarted.
THEOREM SettingsTypes == Spec => []TypeOK
<1>1. TypeInv => TypeOK
  BY DEF TypeInv
<1> QED
  BY TypeInit, TypeStep, <1>1, PTL DEF Spec
=============================================================================
