--------------------------- MODULE ModuleSettings ---------------------------
(***************************************************************************)
(* The settings of the detection modules: clients change them through the  *)
(* API (made_api, update_module_config), PostgreSQL keeps them             *)
(* (module_configs), and the worker reads them back before every batch     *)
(* (sync_module_configs).  Worker, API and upsert each have defaults of    *)
(* their own.  Thresholds and ratios are integers in some small unit; the  *)
(* database rounds them to multiples of a step.                            *)
(***************************************************************************)
EXTENDS AnomalyPipeline

CONSTANTS
    WorkerDefault,  \* per module: create_default_worker
    ApiDefault,     \* per module: create_default_rule_registry
    InsertDefault,  \* defaults of upsert_module_config for a new row
    Seed,           \* per module: the row that migration 0002 inserts
    ThresholdStep,  \* Numeric(28, 10)
    RatioStep,      \* Numeric(10, 2)
    One,            \* the ratio 1.0
    NoRow,
    Clients,
    Requests,       \* bound: what clients may ask for
    MaxRequests,    \* bound: number of requests
    MaxFaults       \* bound: database errors and restarts

Fields == {"threshold", "ratio", "mode", "status"}

Settings == [threshold : Nat, ratio : Nat,
             mode : {"AVERAGE", "FIRST", "SECOND", "LAST"},
             status : {"active", "paused"}]

\* What a row of module_configs can hold.
StoredSettings == {s \in Settings : /\ s.threshold % ThresholdStep = 0
                                    /\ s.ratio % RatioStep = 0}

\* The fields a module has; the funding module compares no prices.
FieldsOf(m) == IF m = "funding-spread" THEN {"threshold", "status"} ELSE Fields

\* Mutant: values are stored as they were sent.
StoredExactly(f, v) == v

\* The value of a field in the database.
Rounded(x, step) == ((2 * x + step) \div (2 * step)) * step
Stored(f, v) == CASE f = "threshold" -> Rounded(v, ThresholdStep)
                  [] f = "ratio" -> Rounded(v, RatioStep)
                  [] OTHER -> v

\* A request sets some fields of a module, the threshold to more than zero and
\* the ratio to more than one (ModuleConfigUpdateRequest).
IsRequest(r) ==
    /\ r.module \in ModuleIds
    /\ DOMAIN r.sets \subseteq Fields
    /\ "threshold" \in DOMAIN r.sets => r.sets["threshold"] \in Nat \ {0}
    /\ "ratio" \in DOMAIN r.sets => r.sets["ratio"] \in Nat /\ r.sets["ratio"] > One
    /\ "mode" \in DOMAIN r.sets => r.sets["mode"] \in {"AVERAGE", "FIRST", "SECOND", "LAST"}
    /\ "status" \in DOMAIN r.sets => r.sets["status"] \in {"active", "paused"}

ASSUME SettingsAssumption ==
    /\ WorkerDefault \in [ModuleIds -> Settings]
    /\ ApiDefault \in [ModuleIds -> Settings]
    /\ ThresholdStep \in Nat \ {0} /\ RatioStep \in Nat \ {0} /\ One \in Nat
    /\ InsertDefault \in StoredSettings /\ Seed \in [ModuleIds -> StoredSettings]
    /\ NoRow \notin Settings
    /\ \A r \in Requests : IsRequest(r)
    /\ MaxRequests \in Nat /\ MaxFaults \in Nat

VARIABLES
    rows,      \* module_configs: per module its row, or NoRow
    served,    \* the registry in the memory of the API
    task,      \* per client, where its request is: "idle", "loaded", "saved"
    request,   \* per client, its request
    loaded,    \* per client, the row its transaction read
    phase,     \* the worker: at "query", "apply" or "batch"
    fetched,   \* the rows its last query returned
    config,    \* the registry in the memory of the worker
    asked,     \* number of requests
    faults

client == <<task, request, loaded, asked>>
worker == <<phase, fetched, config>>
vars == <<rows, served, client, worker, faults>>

NoRequest == [module |-> "none", sets |-> << >>]

\* The table as a worker that finds none creates it when it starts (create_tables).
CreatedTable == [m \in ModuleIds |-> NoRow]

\* The table as the migrations create it, when somebody runs them first.
MigratedTable == Seed

Init ==
    /\ rows \in {CreatedTable, MigratedTable}
    /\ served = ApiDefault
    /\ task = [c \in Clients |-> "idle"]
    /\ request = [c \in Clients |-> NoRequest]
    /\ loaded = [c \in Clients |-> NoRow]
    /\ phase = "query"
    /\ fetched = [m \in ModuleIds |-> NoRow]
    /\ config = WorkerDefault
    /\ asked = 0
    /\ faults = 0

Fault == faults < MaxFaults /\ faults' = faults + 1

-----------------------------------------------------------------------------
(* The API *)

\* upsert_module_config up to its SELECT.
Load(c) ==
    /\ task[c] = "idle"
    /\ asked < MaxRequests
    /\ \E r \in Requests :
         /\ request' = [request EXCEPT ![c] = r]
         /\ loaded' = [loaded EXCEPT ![c] = rows[r.module]]
    /\ task' = [task EXCEPT ![c] = "loaded"]
    /\ asked' = asked + 1
    /\ UNCHANGED <<rows, served, worker, faults>>

\* The row a request makes of another.
With(row, sets) ==
    [f \in Fields |-> IF f \in DOMAIN sets THEN Stored(f, sets[f]) ELSE row[f]]

\* Mutant: the whole row that was loaded is written back.
WholeRow(c) == With(loaded[c], request[c].sets)

\* An UPDATE writes the columns whose value differs from the loaded one.
UpdatedRow(c) ==
    LET sets == request[c].sets
        row == rows[request[c].module]
    IN  [f \in Fields |->
            IF f \in DOMAIN sets /\ sets[f] # loaded[c][f]
            THEN Stored(f, sets[f]) ELSE row[f]]

\* Another transaction inserted the row in the meantime.
Collides(c) == loaded[c] = NoRow /\ rows[request[c].module] # NoRow

SaveRow(c) ==
    /\ ~Collides(c)
    /\ rows' = [rows EXCEPT ![request[c].module] =
                    IF loaded[c] = NoRow THEN With(InsertDefault, request[c].sets)
                    ELSE UpdatedRow(c)]

\* The transaction commits.
Commit(c) ==
    /\ task[c] = "loaded"
    /\ SaveRow(c)
    /\ task' = [task EXCEPT ![c] = "saved"]
    /\ UNCHANGED <<served, request, loaded, asked, worker, faults>>

\* The INSERT meets the row of another client: the request fails.
InsertConflict(c) ==
    /\ task[c] = "loaded"
    /\ Collides(c)
    /\ task' = [task EXCEPT ![c] = "idle"]
    /\ UNCHANGED <<rows, served, request, loaded, asked, worker, faults>>

\* The API updates its own registry and answers.
Answer(c) ==
    /\ task[c] = "saved"
    /\ LET m == request[c].module
           sets == request[c].sets
       IN  served' = [served EXCEPT ![m] =
               [f \in Fields |-> IF f \in DOMAIN sets \cap FieldsOf(m)
                                 THEN sets[f] ELSE served[m][f]]]
    /\ task' = [task EXCEPT ![c] = "idle"]
    /\ UNCHANGED <<rows, request, loaded, asked, worker, faults>>

\* A call to the database fails before its effect, or after it.
RequestFails(c) ==
    /\ Fault
    /\ \/ task[c] \in {"loaded", "saved"} /\ UNCHANGED rows
       \/ task[c] = "loaded" /\ SaveRow(c)
    /\ task' = [task EXCEPT ![c] = "idle"]
    /\ UNCHANGED <<served, request, loaded, asked, worker>>

ApiRestarts ==
    /\ Fault
    /\ served' = ApiDefault
    /\ task' = [c \in Clients |-> "idle"]
    /\ UNCHANGED <<rows, request, loaded, asked, worker>>

-----------------------------------------------------------------------------
(* The worker *)

\* get_module_configs returns the modules in this order.
Position == [m \in ModuleIds |-> CASE m = "dex-futures-spread" -> 1
                                   [] m = "funding-spread" -> 2
                                   [] m = "futures-futures-spread" -> 3
                                   [] m = "spot-futures-spread" -> 4]

\* update_config accepts the row.
Usable(m, row) == row.threshold > 0 /\ ("ratio" \in FieldsOf(m) => row.ratio > One)

\* An earlier row raised, and the loop over the rows ended there.
Aborted(m) == \E n \in ModuleIds :
    /\ Position[n] < Position[m]
    /\ fetched[n] # NoRow
    /\ ~Usable(n, fetched[n])

\* The settings of m after the loop; the status is set before the row is judged.
Synced(m) ==
    LET row == fetched[m] IN
    IF row = NoRow \/ Aborted(m) THEN config[m]
    ELSE IF ~Usable(m, row) THEN [config[m] EXCEPT !.status = row.status]
    ELSE [f \in Fields |-> IF f \in FieldsOf(m) THEN row[f] ELSE config[m][f]]

\* Mutant: rows that were read once are not read again.
FetchOnce == fetched' = IF \A m \in ModuleIds : fetched[m] = NoRow THEN rows ELSE fetched

Fetch == fetched' = rows

SyncQuery ==
    /\ phase = "query"
    /\ Fetch
    /\ phase' = "apply"
    /\ UNCHANGED <<rows, served, client, config, faults>>

SyncApply ==
    /\ phase = "apply"
    /\ config' = [m \in ModuleIds |-> Synced(m)]
    /\ phase' = "batch"
    /\ UNCHANGED <<rows, served, client, fetched, faults>>

\* The query fails; the error is logged and the batch goes on.
SyncFails ==
    /\ phase = "query"
    /\ Fault
    /\ phase' = "batch"
    /\ UNCHANGED <<rows, served, client, fetched, config>>

\* The batch is processed, with the settings as they are.
Batch ==
    /\ phase = "batch"
    /\ phase' = "query"
    /\ UNCHANGED <<rows, served, client, fetched, config, faults>>

WorkerRestarts ==
    /\ Fault
    /\ phase' = "query"
    /\ config' = WorkerDefault
    /\ fetched' = [m \in ModuleIds |-> NoRow]
    /\ UNCHANGED <<rows, served, client>>

WorkerStep == SyncQuery \/ SyncApply \/ Batch

Next ==
    \/ \E c \in Clients : \/ Load(c) \/ Commit(c) \/ InsertConflict(c)
                          \/ Answer(c) \/ RequestFails(c)
    \/ ApiRestarts
    \/ WorkerStep \/ SyncFails \/ WorkerRestarts

Spec == Init /\ [][Next]_vars

\* The worker's loop goes on; a client may leave its request where it is.
FairSpec == Spec /\ WF_vars(WorkerStep)

-----------------------------------------------------------------------------
(* Properties *)

\* Every variable holds a value the code can store in it, the rows only what
\* their columns can hold.
TypeOK ==
    /\ rows \in [ModuleIds -> StoredSettings \cup {NoRow}]
    /\ served \in [ModuleIds -> Settings]
    /\ task \in [Clients -> {"idle", "loaded", "saved"}]
    /\ request \in [Clients -> Requests \cup {NoRequest}]
    /\ loaded \in [Clients -> StoredSettings \cup {NoRow}]
    /\ phase \in {"query", "apply", "batch"}
    /\ fetched \in [ModuleIds -> StoredSettings \cup {NoRow}]
    /\ config \in [ModuleIds -> Settings]
    /\ asked \in 0..MaxRequests /\ faults \in 0..MaxFaults

\* A transaction changes nothing but the fields its request names, in the row of
\* its module: concurrent requests for different fields of a module both last.
ConcurrentFieldsKept ==
    [][\A m \in ModuleIds : \A f \in Fields :
          rows[m] # NoRow /\ rows'[m][f] # rows[m][f] =>
              \E c \in Clients : /\ task[c] = "loaded" /\ task'[c] # "loaded"
                                 /\ request[c].module = m
                                 /\ f \in DOMAIN request[c].sets]_vars

\* m itself, or a module that is synced before it, has a row that the worker refuses:
\* a ratio that the API accepts may be stored as 1.00.
HeldBack(m) == \E n \in ModuleIds :
    Position[n] <= Position[m] /\ rows[n] # NoRow /\ ~Usable(n, rows[n])

\* Once the last request is saved and the last fault is over, the modules of the
\* worker run with the stored settings, and go on so; only a row that the worker
\* refuses keeps it from its own settings and from those of the modules after it.
SettingsReachWorker ==
    <>[](\A m \in ModuleIds : rows[m] # NoRow /\ ~HeldBack(m) =>
            \A f \in FieldsOf(m) : config[m][f] = rows[m][f])

\* "Update threshold, active status, reference price mode, or homonym ratio":
\* the threshold of a module is its configured default, that of a migrated table, or
\* one asked for.
OnlyAskedThresholds ==
    \A m \in ModuleIds :
        \/ config[m].threshold \in {WorkerDefault[m].threshold, Seed[m].threshold}
        \/ \E r \in Requests : /\ r.module = m /\ "threshold" \in DOMAIN r.sets
                               /\ config[m].threshold = Stored("threshold", r.sets["threshold"])
=============================================================================
