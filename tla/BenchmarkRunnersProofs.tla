----------------------- MODULE BenchmarkRunnersProofs -----------------------
(***************************************************************************)
(* What the live benchmarks conclude is true of the worker, for any events *)
(* they publish, any stages, runs and polls, and any faults, restarts and  *)
(* batches of the worker meanwhile.                                        *)
(***************************************************************************)
EXTENDS BenchmarkRunners, FiniteSetTheorems, SequenceTheorems, TLAPS

-----------------------------------------------------------------------------
(* The invariant *)

Entries == 1..Len(stream)

WorkerTypes ==
    /\ stream \in Seq(Events)
    /\ cursor \in Nat /\ lives \in Nat
    /\ pending \subseteq Entries
    /\ batch \in Seq(Entries)
    /\ phase \in {"store", "ack"} => batch # << >>

\* What is stored was stored by an entry that carries it, and by a process there was.
StoresAreBacked ==
    /\ storedBy \in [Events -> [entry : Nat, life : Nat]]
    /\ \A e \in Events : Stored(e) =>
          /\ storedBy[e].entry \in Entries /\ stream[storedBy[e].entry] = e
          /\ storedBy[e].life <= lives

ProcessInv == WorkerTypes /\ StoresAreBacked

\* The places of each benchmark.
Places(name) ==
    CASE name = "none" -> {"idle"}
      [] name = "worker_restart" -> {"restarting", "publish", "probe", "done"}
      [] name = "duplicate" -> {"original", "duplicate", "asleep", "done"}
      [] name = "throughput" -> {"inject", "classify", "staged"}
      [] name = "latency" -> {"timing", "sampled"}

RunnerTypes ==
    /\ script \in {"none", "worker_restart", "duplicate", "throughput", "latency"}
    /\ at \in Places(script)
    /\ faultLife \in Nat /\ sent \in Nat /\ stage \in Nat
    /\ verdicts \in Seq({"PASSED", "FAILED", "SUSTAINABLE", "SATURATED", "INCONCLUSIVE"})

\* Before a benchmark begins, only ingestion has published.
Untouched ==
    script = "none" =>
        /\ \A i \in DOMAIN stream : stream[i] \in Ambient
        /\ verdicts = << >> /\ samples = {} /\ stage = 1

\* The probe is published when the new process is there, and a trial passes when it
\* is stored.
RestartInv ==
    script = "worker_restart" =>
        /\ at \in {"publish", "probe"} => lives > faultLife
        /\ \A i \in DOMAIN stream : stream[i] = Probe =>
              lives > faultLife /\ at \in {"probe", "done"}
        /\ Stored(Probe) => storedBy[Probe].life > faultLife
        /\ at # "done" => verdicts = << >>
        /\ at = "done" => verdicts = <<"FAILED">> \/ (verdicts = <<"PASSED">> /\ Stored(Probe))

AllStored(s) == \A i \in DOMAIN Stages[s] : Stored(Stages[s][i])

\* The verdicts are those of the stages so far, and a stage whose events are as many
\* as were counted is stored.
ThroughputInv ==
    /\ \A i \in DOMAIN verdicts : verdicts[i] = "SUSTAINABLE" =>
          i \in DOMAIN Stages /\ AllStored(i)
    /\ script = "throughput" =>
        /\ stage \in DOMAIN Stages
        /\ Len(verdicts) = IF at = "staged" THEN stage ELSE stage - 1
        /\ persisted \in Nat
        /\ at = "classify" => sent = Len(Stages[stage])
        /\ at = "classify" /\ persisted >= sent => AllStored(stage)

\* In the first run the stream holds the event that is timed in one place, and those
\* to come in none; what gave a sample is stored.
LatencyInv ==
    /\ \A s \in samples : s.run = 1 =>
          s.event \in Events /\ Stored(s.event) /\ storedBy[s.event].entry = s.entry
    /\ script = "latency" =>
        /\ stage \in Nat \ {0} /\ sent \in DOMAIN LatencyEvents
        /\ stage = 1 =>
            /\ \A i \in DOMAIN stream : stream[i] = LatencyEvents[sent] => i = initial
            /\ \A i \in DOMAIN stream, j \in DOMAIN LatencyEvents :
                  j > sent => stream[i] # LatencyEvents[j]

RunnersInv ==
    /\ ProcessInv /\ RunnerTypes /\ Untouched
    /\ RestartInv /\ ThroughputInv /\ LatencyInv

-----------------------------------------------------------------------------
(* The worker *)

\* The first entries of a set are a sequence of them.
LEMMA FirstOfTyped ==
    ASSUME NEW n \in Nat, NEW S \in SUBSET (1..n), NEW q \in FirstOf(S)
    PROVE  q \in Seq(S) /\ Len(q) \in Nat
<1>1. IsFiniteSet(S) /\ Cardinality(S) \in Nat
  <2>1. IsFiniteSet(1..n)
    BY FS_Interval
  <2>2. IsFiniteSet(S)
    BY <2>1, FS_Subset
  <2> QED
    BY <2>2, FS_CardinalityType
<1>. DEFINE k == IF Cardinality(S) < BatchSize THEN Cardinality(S) ELSE BatchSize
<1>2. k \in Nat
  BY <1>1, ProcessAssumption
<1>3. q \in [1..k -> S]
  BY DEF FirstOf
<1>. HIDE DEF k
<1> QED
  BY <1>2, <1>3

\* The worker's part of the state stays typed.
LEMMA WorkerTypesStep ==
    ASSUME WorkerTypes, WorkerRuns \/ Disturbed
    PROVE  WorkerTypes' /\ UNCHANGED stream /\ lives <= lives'
<1>. DEFINE Typed == /\ UNCHANGED stream /\ cursor' \in Nat
                     /\ lives' = lives \/ lives' = lives + 1
                     /\ pending' \subseteq Entries /\ batch' \in Seq(Entries)
                     /\ phase' \in {"store", "ack"} => batch' # << >>
<1>. SUFFICES Typed
  <2>. SUFFICES ASSUME Typed PROVE WorkerTypes' /\ UNCHANGED stream /\ lives <= lives'
    OBVIOUS
  <2>1. Entries' = Entries /\ lives <= lives' /\ lives' \in Nat
    BY DEF Entries, WorkerTypes
  <2> QED
    BY <2>1 DEF WorkerTypes
<1>1. CASE \/ Boot \/ StartUp \/ EnterLoop \/ TestRunning \/ ClaimTooEarly \/ BatchDone \/ Close
           \/ StartUpFails \/ BatchFails \/ Kill \/ Crash
  <2>1. /\ UNCHANGED <<stream, cursor, pending>>
        /\ lives' = lives \/ lives' = lives + 1
        /\ batch' = << >> \/ UNCHANGED batch
        /\ phase' \notin {"store", "ack"}
    BY <1>1 DEF Boot, StartUp, EnterLoop, TestRunning, ClaimTooEarly, BatchDone, Close,
       StartUpFails, BatchFails, Kill, Crash, group
  <2>2. << >> \in Seq(Entries)
    OBVIOUS
  <2> QED
    BY <2>1, <2>2 DEF WorkerTypes
<1>2. CASE Claim
  <2>1. batch' \in FirstOf(pending) /\ UNCHANGED <<stream, cursor, pending, lives>>
        /\ phase' = "claimed"
    BY <1>2 DEF Claim, group
  <2>2. batch' \in Seq(pending)
    <3>1. Len(stream) \in Nat /\ pending \in SUBSET (1..Len(stream))
      BY DEF WorkerTypes, Entries
    <3> QED
      BY <2>1, <3>1, FirstOfTyped
  <2>3. batch' \in Seq(Entries)
    BY <2>2, SeqMonotonic DEF WorkerTypes
  <2> QED
    BY <2>1, <2>3 DEF WorkerTypes
<1>3. CASE Read
  <2>. DEFINE new == (cursor + 1)..Len(stream)
  <2>1. Len(stream) \in Nat /\ new \subseteq Entries /\ batch' \in FirstOf(new)
    BY <1>3 DEF Read, WorkerTypes, Entries
  <2>2. /\ UNCHANGED <<stream, lives>> /\ phase' = "handed"
        /\ cursor' = cursor + Len(batch')
        /\ pending' = pending \cup {batch'[i] : i \in DOMAIN batch'}
    BY <1>3 DEF Read
  <2>. HIDE DEF new
  <2>3. batch' \in Seq(new) /\ Len(batch') \in Nat
    BY <2>1, FirstOfTyped DEF Entries
  <2>4. batch' \in Seq(Entries)
    BY <2>1, <2>3, SeqMonotonic
  <2>5. \A i \in DOMAIN batch' : batch'[i] \in Entries
    BY <2>4, ElementOfSeq, LenProperties
  <2> QED
    BY <2>2, <2>3, <2>4, <2>5 DEF WorkerTypes
<1>4. CASE Store
  BY <1>4 DEF Store, WorkerTypes, group
<1>5. CASE Ack
  <2>1. /\ UNCHANGED <<stream, cursor, lives>> /\ phase' \notin {"store", "ack"}
        /\ pending' \subseteq pending /\ batch' = Tail(batch) /\ batch # << >>
    BY <1>5 DEF Ack, WorkerTypes
  <2>2. Tail(batch) \in Seq(Entries)
    BY <2>1, HeadTailProperties DEF WorkerTypes
  <2> QED
    BY <2>1, <2>2 DEF WorkerTypes
<1> QED
  BY <1>1, <1>2, <1>3, <1>4, <1>5 DEF WorkerRuns, Disturbed

\* A step of the worker stores nothing, or one entry's event that was not stored.
LEMMA StoreStep ==
    ASSUME ProcessInv, WorkerRuns \/ Disturbed, UNCHANGED stream
    PROVE  /\ storedBy' \in [Events -> [entry : Nat, life : Nat]]
           /\ \A e \in Events :
                \/ storedBy'[e] = storedBy[e]
                \/ /\ ~Stored(e)
                   /\ \E m \in Entries :
                        stream[m] = e /\ storedBy'[e] = [entry |-> m, life |-> lives]
<1>. USE DEF ProcessInv, WorkerTypes, StoresAreBacked, Entries, group
<1>1. CASE Store
  <2>1. Head(batch) \in Entries
    BY <1>1, HeadTailProperties DEF Store
  <2>2. stream[Head(batch)] \in Events
    BY <2>1, ElementOfSeq
  <2>3. [entry |-> Head(batch), life |-> lives] \in [entry : Nat, life : Nat]
    BY <2>1
  <2>4. storedBy' = Saved(stream[Head(batch)])
    BY <1>1 DEF Store
  <2> QED
    BY <2>1, <2>2, <2>3, <2>4 DEF Saved
<1>2. CASE ~Store
  <2>1. storedBy' = storedBy
    BY <1>2 DEF WorkerRuns, Disturbed, Boot, StartUp, EnterLoop, TestRunning, Claim,
       ClaimTooEarly, Read, BatchDone, Ack, Close, StartUpFails, BatchFails, Kill, Crash
  <2> QED
    BY <2>1
<1> QED
  BY <1>1, <1>2

\* What is stored stays as it was stored.
StoredStays ==
    \A e \in Events : Stored(e) => Stored(e)' /\ storedBy'[e] = storedBy[e]

LEMMA WorkerStepInv ==
    ASSUME ProcessInv, WorkerRuns \/ Disturbed
    PROVE  ProcessInv' /\ StoredStays /\ UNCHANGED stream /\ lives <= lives'
<1>1. WorkerTypes' /\ UNCHANGED stream /\ lives <= lives'
  BY WorkerTypesStep DEF ProcessInv
<1>2. lives \in Nat /\ lives' \in Nat
  BY <1>1 DEF ProcessInv, WorkerTypes
<1>3. StoredStays
  BY <1>1, StoreStep DEF StoredStays, Stored
<1>4. ASSUME NEW e \in Events, Stored(e)'
      PROVE  /\ storedBy'[e].entry \in Entries /\ stream[storedBy'[e].entry] = e
             /\ storedBy'[e].life <= lives'
  <2>1. CASE storedBy'[e] = storedBy[e]
    <3>1. Stored(e) /\ storedBy[e] \in [entry : Nat, life : Nat]
      BY <1>4, <2>1 DEF Stored, ProcessInv, StoresAreBacked
    <3>2. storedBy[e].life \in Nat
      BY <3>1
    <3> QED
      BY <1>1, <1>2, <2>1, <3>1, <3>2 DEF ProcessInv, StoresAreBacked
  <2>2. ASSUME NEW m \in Entries, stream[m] = e,
               storedBy'[e] = [entry |-> m, life |-> lives]
        PROVE  /\ storedBy'[e].entry \in Entries /\ stream[storedBy'[e].entry] = e
               /\ storedBy'[e].life <= lives'
    BY <1>1, <2>2
  <2> QED
    BY <1>1, <2>1, <2>2, StoreStep
<1>5. storedBy' \in [Events -> [entry : Nat, life : Nat]]
  BY <1>1, StoreStep
<1>6. StoresAreBacked'
  BY <1>1, <1>4, <1>5 DEF StoresAreBacked, Entries
<1> QED
  BY <1>1, <1>3, <1>6 DEF ProcessInv

-----------------------------------------------------------------------------
(* The runners and ingestion *)

\* An event is added at the end of the stream.
LEMMA PublishStep ==
    ASSUME ProcessInv, NEW e \in Events, Publish(e), UNCHANGED <<process, group, storedBy>>
    PROVE  /\ ProcessInv'
           /\ DOMAIN stream = Entries /\ DOMAIN stream' = Entries'
           /\ Len(stream') = Len(stream) + 1 /\ Len(stream) \in Nat
           /\ stream'[Len(stream')] = e
           /\ \A i \in Entries : i \in Entries' /\ stream'[i] = stream[i]
           /\ \A i \in Entries' : i \in Entries \/ i = Len(stream')
<1>1. stream \in Seq(Events) /\ stream' = Append(stream, e)
  BY DEF Publish, ProcessInv, WorkerTypes
<1>2. /\ stream' \in Seq(Events) /\ Len(stream') = Len(stream) + 1 /\ Len(stream) \in Nat
      /\ stream'[Len(stream')] = e
      /\ \A i \in 1..Len(stream) : stream'[i] = stream[i]
  BY <1>1, AppendProperties, LenProperties
<1>3. DOMAIN stream = Entries /\ DOMAIN stream' = Entries'
  BY <1>1, <1>2, LenProperties DEF Entries
<1>4. /\ \A i \in Entries : i \in Entries' /\ stream'[i] = stream[i]
      /\ \A i \in Entries' : i \in Entries \/ i = Len(stream')
  BY <1>2 DEF Entries
<1>5. batch \in Seq(Entries')
  BY <1>4, SeqMonotonic DEF ProcessInv, WorkerTypes
<1>6. WorkerTypes'
  BY <1>2, <1>4, <1>5 DEF ProcessInv, WorkerTypes, process, group
<1>7. StoresAreBacked'
  BY <1>4 DEF ProcessInv, StoresAreBacked, Stored, process
<1> QED
  BY <1>2, <1>3, <1>4, <1>6, <1>7 DEF ProcessInv

LEMMA Constants ==
    /\ Probe \in Events /\ Duplicate \in Events /\ Ambient \subseteq Events
    /\ Stages \in Seq(Seq(Events)) /\ LatencyEvents \in Seq(Events)
    /\ Probe \notin Ambient
    /\ \A i \in DOMAIN LatencyEvents :
          LatencyEvents[i] \in Events /\ LatencyEvents[i] \notin Ambient
<1>1. \A i \in DOMAIN LatencyEvents : LatencyEvents[i] \in Events
  BY RunnersAssumption, ElementOfSeq, LenProperties
<1> QED
  BY <1>1, RunnersAssumption, IdAssumption

\* The events of a stage are events.
LEMMA StageEvents ==
    ASSUME NEW s \in DOMAIN Stages
    PROVE  /\ Stages[s] \in Seq(Events)
           /\ DOMAIN Stages[s] = 1..Len(Stages[s]) /\ Len(Stages[s]) \in Nat
           /\ \A i \in DOMAIN Stages[s] : Stages[s][i] \in Events
<1>1. Stages[s] \in Seq(Events)
  BY Constants, ElementOfSeq, LenProperties
<1> QED
  BY <1>1, ElementOfSeq, LenProperties

\* A count that reaches the number of events of a stage means that all are stored.
LEMMA CountComplete ==
    ASSUME NEW s \in DOMAIN Stages
    PROVE  /\ CountTrial(s) \in Nat
           /\ CountTrial(s) >= Len(Stages[s]) => AllStored(s)
<1>. DEFINE n == Len(Stages[s])
            found == {i \in DOMAIN Stages[s] : Stored(Stages[s][i])}
<1>1. DOMAIN Stages[s] = 1..n /\ n \in Nat
  BY StageEvents
<1>2. IsFiniteSet(1..n) /\ Cardinality(1..n) = n
  BY <1>1, FS_Interval
<1>3. found \subseteq 1..n
  BY <1>1
<1>. HIDE DEF found
<1>4. /\ Cardinality(found) \in Nat
      /\ Cardinality(found) = Cardinality(1..n) => found = 1..n
      /\ Cardinality(found) <= Cardinality(1..n)
  BY <1>2, <1>3, FS_Subset, FS_CardinalityType
<1>5. CountTrial(s) = Cardinality(found)
  BY DEF CountTrial, found
<1>6. CASE Cardinality(found) >= n
  <2>1. found = 1..n
    BY <1>1, <1>2, <1>4, <1>6
  <2> QED
    BY <1>1, <1>4, <1>5, <2>1 DEF AllStored, found
<1> QED
  BY <1>4, <1>5, <1>6

LEMMA InitInv == Init => RunnersInv
<1>. SUFFICES ASSUME Init PROVE RunnersInv
  OBVIOUS
<1>1. << >> \in Seq(Events) /\ Len(<< >>) = 0 /\ << >> \in Seq(Entries)
      /\ << >> \in Seq({"PASSED", "FAILED", "SUSTAINABLE", "SATURATED", "INCONCLUSIVE"})
      /\ DOMAIN << >> = {}
  BY EmptySeq
<1>2. ProcessInv
  <2>1. storedBy \in [Events -> [entry : Nat, life : Nat]]
    BY DEF Init, ProcessInit, Nobody
  <2>2. \A e \in Events : ~Stored(e)
    BY DEF Init, ProcessInit, Stored
  <2> QED
    BY <1>1, <2>1, <2>2 DEF Init, ProcessInit, ProcessInv, WorkerTypes, StoresAreBacked
<1>3. RunnerTypes
  BY <1>1 DEF Init, RunnerTypes, Places
<1> QED
  BY <1>1, <1>2, <1>3 DEF Init, ProcessInit, RunnersInv, Untouched, RestartInv, ThroughputInv,
     LatencyInv

\* What the runners know stays true when the worker goes on.
LEMMA WorkerKeeps ==
    ASSUME RunnersInv, WorkerRuns \/ Disturbed, UNCHANGED runner
    PROVE  RunnersInv'
<1>1. ProcessInv' /\ StoredStays /\ UNCHANGED stream /\ lives <= lives'
  BY WorkerStepInv DEF RunnersInv
<1>2. lives \in Nat /\ lives' \in Nat /\ faultLife \in Nat
  BY <1>1 DEF RunnersInv, RunnerTypes, ProcessInv, WorkerTypes
<1>. USE DEF runner
<1>3. RunnerTypes' /\ Untouched'
  BY <1>1 DEF RunnersInv, RunnerTypes, Untouched
<1>4. RestartInv'
  <2>. SUFFICES ASSUME script = "worker_restart" PROVE RestartInv'
    BY DEF RestartInv
  <2>1. Stored(Probe)' => storedBy'[Probe].life > faultLife
    <3>1. CASE storedBy'[Probe] = storedBy[Probe]
      BY <3>1 DEF RunnersInv, RestartInv, Stored
    <3>2. ASSUME NEW m \in Entries, stream[m] = Probe,
                 storedBy'[Probe] = [entry |-> m, life |-> lives]
          PROVE  storedBy'[Probe].life > faultLife
      <4>1. m \in DOMAIN stream
        BY LenProperties DEF Entries, RunnersInv, ProcessInv, WorkerTypes
      <4>2. lives > faultLife
        BY <3>2, <4>1 DEF RunnersInv, RestartInv
      <4> QED
        BY <3>2, <4>2
    <3> QED
      BY <1>1, <3>1, <3>2, StoreStep, Constants DEF RunnersInv
  <2>2. Stored(Probe) => Stored(Probe)'
    BY <1>1, Constants DEF StoredStays
  <2> QED
    BY <1>1, <1>2, <2>1, <2>2 DEF RunnersInv, RestartInv
<1>5. \A s \in DOMAIN Stages : AllStored(s) => AllStored(s)'
  BY <1>1, StageEvents DEF StoredStays, AllStored
<1>6. ThroughputInv'
  BY <1>1, <1>5 DEF RunnersInv, ThroughputInv
<1>7. LatencyInv'
  BY <1>1 DEF RunnersInv, LatencyInv, StoredStays
<1> QED
  BY <1>1, <1>3, <1>4, <1>6, <1>7 DEF RunnersInv

\* What a step that leaves the worker and the stream alone keeps.
LEMMA QuietKeeps ==
    ASSUME RunnersInv, Quiet, UNCHANGED process \/ Terminate
    PROVE  ProcessInv' /\ UNCHANGED <<stream, storedBy, lives>>
<1>1. UNCHANGED <<stream, group, storedBy, lives, batch, phase>>
  BY DEF Quiet, Terminate, process
<1> QED
  BY <1>1 DEF RunnersInv, ProcessInv, WorkerTypes, StoresAreBacked, Stored, Entries, group

Verdicts == {"PASSED", "FAILED", "SUSTAINABLE", "SATURATED", "INCONCLUSIVE"}

\* One more verdict.
LEMMA VerdictAdded ==
    ASSUME RunnersInv, NEW v \in Verdicts, verdicts' = Append(verdicts, v)
    PROVE  /\ verdicts' \in Seq(Verdicts)
           /\ Len(verdicts') = Len(verdicts) + 1 /\ Len(verdicts) \in Nat
           /\ DOMAIN verdicts = 1..Len(verdicts)
           /\ DOMAIN verdicts' = 1..(Len(verdicts) + 1)
           /\ verdicts'[Len(verdicts) + 1] = v
           /\ \A i \in DOMAIN verdicts : verdicts'[i] = verdicts[i]
           /\ verdicts = << >> => verdicts' = <<v>>
<1>1. verdicts \in Seq(Verdicts)
  BY DEF RunnersInv, RunnerTypes, Verdicts
<1>2. verdicts' \in Seq(Verdicts) /\ Len(verdicts') = Len(verdicts) + 1
      /\ verdicts'[Len(verdicts) + 1] = v
      /\ \A i \in 1..Len(verdicts) : verdicts'[i] = verdicts[i]
  BY <1>1, AppendProperties
<1>3. DOMAIN verdicts = 1..Len(verdicts) /\ DOMAIN verdicts' = 1..Len(verdicts')
      /\ Len(verdicts) \in Nat
  BY <1>1, <1>2, LenProperties
<1>4. verdicts = << >> => verdicts' = <<v>>
  OBVIOUS
<1> QED
  BY <1>2, <1>3, <1>4

\* The other benchmarks draw conclusions of their own.
LEMMA OtherVerdict ==
    ASSUME RunnersInv, NEW v \in {"PASSED", "FAILED"}, verdicts' = Append(verdicts, v)
    PROVE  /\ verdicts' \in Seq(Verdicts)
           /\ verdicts = << >> => verdicts' = <<v>>
           /\ \A i \in DOMAIN verdicts' : verdicts'[i] = "SUSTAINABLE" =>
                 i \in DOMAIN verdicts /\ verdicts[i] = "SUSTAINABLE"
BY VerdictAdded DEF Verdicts

LEMMA RestartSteps ==
    ASSUME RunnersInv,
           RestartWorker \/ RestartReturns \/ RestartTimesOut \/ PublishProbe \/ PollProbe
    PROVE  RunnersInv'
<1>. USE DEF runner
<1>1. CASE RestartWorker
  <2>1. /\ ProcessInv' /\ UNCHANGED <<stream, storedBy, lives>>
        /\ script = "none" /\ script' = "worker_restart" /\ at' = "restarting"
        /\ faultLife' = lives \/ faultLife' = faultLife
        /\ UNCHANGED <<sent, initial, persisted, stage, samples, verdicts>>
    BY <1>1, QuietKeeps DEF RestartWorker, Begin
  <2>2. lives \in Nat /\ verdicts = << >> /\ samples = {} /\ DOMAIN << >> = {}
        /\ \A i \in DOMAIN stream : stream[i] # Probe
    BY <2>1, Constants DEF RunnersInv, ProcessInv, WorkerTypes, Untouched
  <2>3. ~Stored(Probe)
    BY <2>2, Constants, LenProperties DEF RunnersInv, ProcessInv, StoresAreBacked, Entries,
       WorkerTypes
  <2> QED
    BY <2>1, <2>2, <2>3 DEF RunnersInv, RunnerTypes, Places, Untouched, RestartInv,
       ThroughputInv, LatencyInv, Stored
<1>2. CASE RestartReturns
  <2>1. /\ ProcessInv' /\ UNCHANGED <<stream, storedBy, lives>>
        /\ at = "restarting" /\ at' = "publish" /\ lives > faultLife
        /\ UNCHANGED <<script, faultLife, sent, initial, persisted, stage, samples, verdicts>>
    BY <1>2, QuietKeeps DEF RestartReturns
  <2>2. script = "worker_restart"
    BY <2>1 DEF RunnersInv, RunnerTypes, Places
  <2> QED
    BY <2>1, <2>2 DEF RunnersInv, RunnerTypes, Places, Untouched, RestartInv, ThroughputInv,
       LatencyInv, Stored, AllStored
<1>3. CASE RestartTimesOut
  <2>1. /\ ProcessInv' /\ UNCHANGED <<stream, storedBy, lives>>
        /\ at = "restarting" /\ at' = "done" /\ verdicts' = Append(verdicts, "FAILED")
        /\ UNCHANGED <<script, faultLife, sent, initial, persisted, stage, samples>>
    BY <1>3, QuietKeeps DEF RestartTimesOut, Conclude
  <2>2. script = "worker_restart" /\ verdicts = << >>
    BY <2>1 DEF RunnersInv, RunnerTypes, Places, RestartInv
  <2>3. \A i \in DOMAIN stream : stream[i] # Probe
    BY <2>1, <2>2 DEF RunnersInv, RestartInv
  <2> QED
    BY <2>1, <2>2, <2>3, OtherVerdict DEF RunnersInv, RunnerTypes, Places, Untouched,
       RestartInv, ThroughputInv, LatencyInv, Stored, AllStored, Verdicts
<1>4. CASE PublishProbe
  <2>1. /\ Publish(Probe) /\ UNCHANGED <<process, group, storedBy>>
        /\ at = "publish" /\ at' = "probe"
        /\ UNCHANGED <<script, faultLife, sent, initial, persisted, stage, samples, verdicts>>
    BY <1>4 DEF PublishProbe
  <2>2. ProcessInv' /\ UNCHANGED lives
    BY <2>1, PublishStep, Constants DEF RunnersInv, process
  <2>3. script = "worker_restart" /\ lives > faultLife /\ verdicts = << >>
    BY <2>1 DEF RunnersInv, RunnerTypes, Places, RestartInv
  <2> QED
    BY <2>1, <2>2, <2>3 DEF RunnersInv, RunnerTypes, Places, Untouched, RestartInv,
       ThroughputInv, LatencyInv, Stored, AllStored
<1>5. CASE PollProbe
  <2>1. /\ ProcessInv' /\ UNCHANGED <<stream, storedBy, lives>>
        /\ at = "probe"
        /\ \/ at' = at /\ verdicts' = verdicts
           \/ at' = "done" /\ verdicts' = Append(verdicts, "FAILED")
           \/ at' = "done" /\ verdicts' = Append(verdicts, "PASSED") /\ Stored(Probe)
        /\ UNCHANGED <<script, faultLife, sent, initial, persisted, stage, samples>>
    BY <1>5, QuietKeeps DEF PollProbe, Conclude
  <2>2. script = "worker_restart" /\ verdicts = << >> /\ lives > faultLife
    BY <2>1 DEF RunnersInv, RunnerTypes, Places, RestartInv
  <2>3. RunnerTypes' /\ Untouched'
    BY <2>1, <2>2, OtherVerdict DEF RunnersInv, RunnerTypes, Places, Untouched, Verdicts
  <2>4. RestartInv'
    BY <2>1, <2>2, OtherVerdict DEF RunnersInv, RestartInv, Stored
  <2>5. ThroughputInv' /\ LatencyInv'
    BY <2>1, <2>2, OtherVerdict DEF RunnersInv, ThroughputInv, LatencyInv, Stored, AllStored
  <2> QED
    BY <2>1, <2>3, <2>4, <2>5 DEF RunnersInv
<1> QED
  BY <1>1, <1>2, <1>3, <1>4, <1>5

LEMMA DuplicateSteps ==
    ASSUME RunnersInv,
           PublishOriginal \/ PollOriginal \/ PublishDuplicate \/ JudgeDuplicate
    PROVE  RunnersInv'
<1>1. CASE PublishOriginal \/ PublishDuplicate
  <2>1. /\ Publish(Duplicate) /\ UNCHANGED <<process, group, storedBy>>
        /\ UNCHANGED <<faultLife, sent, initial, persisted, stage, samples, verdicts>>
        /\ \/ script = "none" /\ script' = "duplicate" /\ at' = "original"
           \/ script' = script /\ at = "duplicate" /\ at' = "asleep"
    BY <1>1 DEF PublishOriginal, PublishDuplicate, Begin
  <2>2. ProcessInv'
    BY <2>1, PublishStep, Constants DEF RunnersInv
  <2>3. script' = "duplicate" /\ at' \in Places("duplicate")
    BY <2>1 DEF RunnersInv, RunnerTypes, Places
  <2> QED
    BY <2>1, <2>2, <2>3 DEF RunnersInv, RunnerTypes, Untouched, RestartInv, ThroughputInv,
       LatencyInv, Stored, AllStored
<1>2. CASE PollOriginal \/ JudgeDuplicate
  <2>1. /\ ProcessInv' /\ UNCHANGED <<stream, storedBy, lives>>
        /\ UNCHANGED <<script, faultLife, sent, initial, persisted, stage, samples>>
        /\ \/ at = "original" /\ at' \in {"original", "duplicate"} /\ verdicts' = verdicts
           \/ /\ at = "asleep" /\ at' = "done"
              /\ \E v \in {"PASSED", "FAILED"} : verdicts' = Append(verdicts, v)
    BY <1>2, QuietKeeps DEF PollOriginal, JudgeDuplicate, Conclude, PollAgain
  <2>2. script = "duplicate" /\ at' \in Places("duplicate")
    BY <2>1 DEF RunnersInv, RunnerTypes, Places
  <2>3. /\ verdicts' \in Seq(Verdicts)
        /\ \A i \in DOMAIN verdicts' : verdicts'[i] = "SUSTAINABLE" =>
              i \in DOMAIN verdicts /\ verdicts[i] = "SUSTAINABLE"
    BY <2>1, OtherVerdict DEF RunnersInv, RunnerTypes, Verdicts
  <2> QED
    BY <2>1, <2>2, <2>3 DEF RunnersInv, RunnerTypes, Untouched, RestartInv, ThroughputInv,
       LatencyInv, Stored, AllStored, Verdicts
<1> QED
  BY <1>1, <1>2

LEMMA ThroughputSteps ==
    ASSUME RunnersInv, BeginStage \/ Inject \/ Drain \/ Classify
    PROVE  RunnersInv'
<1>1. CASE BeginStage
  <2>1. /\ ProcessInv' /\ UNCHANGED <<stream, storedBy, lives>>
        /\ UNCHANGED <<faultLife, samples, verdicts>>
        /\ sent' = 0 /\ persisted' = 0
        /\ at' = "inject"
        /\ \/ script = "none" /\ script' = "throughput" /\ stage \in DOMAIN Stages
              /\ stage' = stage
           \/ at = "staged" /\ script' = script /\ stage < Len(Stages) /\ stage' = stage + 1
    BY <1>1, QuietKeeps DEF BeginStage, Begin
  <2>2. script' = "throughput" /\ DOMAIN Stages = 1..Len(Stages) /\ Len(Stages) \in Nat
    BY <2>1, Constants, LenProperties DEF RunnersInv, RunnerTypes, Places
  <2>3. stage' \in DOMAIN Stages /\ Len(verdicts) = stage' - 1 /\ stage' \in Nat
    <3>1. CASE script = "none"
      BY <2>1, <2>2, <3>1 DEF RunnersInv, RunnerTypes, Places, Untouched
    <3>2. CASE at = "staged" /\ script = "throughput"
      BY <2>1, <2>2, <3>2 DEF RunnersInv, RunnerTypes, ThroughputInv
    <3> QED
      BY <2>1, <2>2, <3>1, <3>2
  <2> QED
    BY <2>1, <2>2, <2>3 DEF RunnersInv, RunnerTypes, Places, Untouched, RestartInv,
       ThroughputInv, LatencyInv, Stored, AllStored
<1>2. CASE Inject
  <2>1. at = "inject" /\ script = "throughput" /\ stage \in DOMAIN Stages
    BY <1>2 DEF Inject, RunnersInv, RunnerTypes, Places, ThroughputInv
  <2>2. Stages[stage][sent + 1] \in Events
    BY <1>2, <2>1, StageEvents DEF Inject, RunnersInv, RunnerTypes
  <2>3. /\ ProcessInv' /\ sent' \in Nat /\ UNCHANGED storedBy
        /\ UNCHANGED <<script, at, faultLife, initial, persisted, stage, samples, verdicts>>
    BY <1>2, <2>2, PublishStep DEF Inject, RunnersInv, RunnerTypes
  <2> QED
    BY <2>1, <2>3 DEF RunnersInv, RunnerTypes, Places, Untouched, RestartInv,
       ThroughputInv, LatencyInv, Stored, AllStored
<1>3. CASE Drain
  <2>1. at = "inject" /\ script = "throughput" /\ stage \in DOMAIN Stages
    BY <1>3 DEF Drain, RunnersInv, RunnerTypes, Places, ThroughputInv
  <2>2. /\ ProcessInv' /\ UNCHANGED <<stream, storedBy, lives>>
        /\ sent = Len(Stages[stage]) /\ persisted' = CountTrial(stage)
        /\ at' \in {"inject", "classify"}
        /\ UNCHANGED <<script, faultLife, sent, initial, stage, samples, verdicts>>
    BY <1>3, <2>1, QuietKeeps DEF Drain
  <2>3. persisted' \in Nat /\ (persisted' >= sent => AllStored(stage))
    BY <2>1, <2>2, CountComplete
  <2> QED
    BY <2>1, <2>2, <2>3 DEF RunnersInv, RunnerTypes, Places, Untouched, RestartInv,
       ThroughputInv, LatencyInv, Stored, AllStored
<1>4. CASE Classify
  <2>1. at = "classify" /\ script = "throughput" /\ stage \in DOMAIN Stages
    BY <1>4 DEF Classify, RunnersInv, RunnerTypes, Places, ThroughputInv
  <2>2. /\ ProcessInv' /\ UNCHANGED <<stream, storedBy, lives>>
        /\ at' = "staged"
        /\ UNCHANGED <<script, faultLife, sent, initial, persisted, stage, samples>>
    BY <1>4, QuietKeeps DEF Classify
  <2>3. PICK fast \in BOOLEAN, final \in Backlogs :
           verdicts' = Append(verdicts,
               Class(fast, Minus(final, initial), Minus(sent, persisted)))
    BY <1>4 DEF Classify
  <2>. DEFINE v == Class(fast, Minus(final, initial), Minus(sent, persisted))
  <2>4. /\ v \in Verdicts
        /\ v = "SUSTAINABLE" => Minus(sent, persisted) = 0
    BY DEF Class, Verdicts
  <2>5. v = "SUSTAINABLE" => AllStored(stage)
    BY <2>1, <2>4 DEF Minus, RunnersInv, RunnerTypes, ThroughputInv
  <2>. HIDE DEF v
  <2>6. Len(verdicts) = stage - 1 /\ stage \in Nat
    BY <2>1 DEF RunnersInv, RunnerTypes, ThroughputInv
  <2>7. /\ verdicts' \in Seq(Verdicts) /\ Len(verdicts') = stage
        /\ \A i \in DOMAIN verdicts' : \/ i = stage /\ verdicts'[i] = v
                                       \/ i \in DOMAIN verdicts /\ verdicts'[i] = verdicts[i]
    BY <2>3, <2>4, <2>6, VerdictAdded DEF v
  <2> QED
    BY <2>1, <2>2, <2>5, <2>7 DEF RunnersInv, RunnerTypes, Places, Untouched, RestartInv,
       ThroughputInv, LatencyInv, Stored, AllStored, Verdicts
<1> QED
  BY <1>1, <1>2, <1>3, <1>4

LEMMA LatencySteps ==
    ASSUME RunnersInv, PublishTimed \/ PollTimed
    PROVE  RunnersInv'
<1>0. DOMAIN LatencyEvents = 1..Len(LatencyEvents) /\ Len(LatencyEvents) \in Nat
  BY Constants, LenProperties
<1>1. CASE PublishTimed
  <2>1. /\ Publish(LatencyEvents[sent']) /\ UNCHANGED <<process, group, storedBy>>
        /\ initial' = Len(stream') /\ at' = "timing"
        /\ UNCHANGED <<faultLife, persisted, samples, verdicts>>
        /\ \/ /\ script = "none" /\ script' = "latency" /\ LatencyEvents # << >>
              /\ sent' = 1 /\ stage' = stage
           \/ /\ at = "sampled" /\ script' = script
              /\ \/ sent < Len(LatencyEvents) /\ sent' = sent + 1 /\ stage' = stage
                 \/ sent' = 1 /\ stage' = stage + 1 /\ sent = Len(LatencyEvents)
    BY <1>1 DEF PublishTimed, Begin
  <2>2. script' = "latency" /\ sent' \in DOMAIN LatencyEvents /\ stage' \in Nat \ {0}
    <3>1. CASE script = "none"
      <4>1. stage = 1 /\ at = "idle"
        BY <3>1 DEF RunnersInv, Untouched, RunnerTypes, Places
      <4>2. script' = "latency" /\ LatencyEvents # << >> /\ sent' = 1 /\ stage' = 1
        BY <2>1, <4>1
      <4>3. Len(LatencyEvents) > 0
        BY <1>0, <4>2, Constants, EmptySeq
      <4> QED
        BY <1>0, <4>2, <4>3
    <3>2. CASE at = "sampled"
      BY <1>0, <2>1, <3>2 DEF RunnersInv, RunnerTypes, Places, LatencyInv
    <3> QED
      BY <2>1, <3>1, <3>2
  <2>3. LatencyEvents[sent'] \in Events
    BY <2>2, Constants
  <2>4. /\ ProcessInv' /\ DOMAIN stream = Entries /\ DOMAIN stream' = Entries'
        /\ stream'[initial'] = LatencyEvents[sent']
        /\ \A i \in Entries' : i \in Entries \/ i = initial'
        /\ \A i \in Entries : stream'[i] = stream[i]
    BY <2>1, <2>3, PublishStep DEF RunnersInv
  \* In the first run, neither the event nor one after it was published before.
  <2>5. stage' = 1 => \A i \in Entries, j \in DOMAIN LatencyEvents :
                         j >= sent' => stream[i] # LatencyEvents[j]
    <3>1. CASE script = "none"
      BY <2>4, <3>1, Constants DEF RunnersInv, Untouched
    <3>2. CASE at = "sampled" /\ sent' = sent + 1 /\ stage' = stage
      <4>1. script = "latency" /\ sent \in Nat
        BY <3>2 DEF RunnersInv, RunnerTypes, Places
      <4>2. \A j \in DOMAIN LatencyEvents : j >= sent' => j > sent
        BY <1>0, <3>2, <4>1
      <4> QED
        BY <2>4, <3>2, <4>1, <4>2 DEF RunnersInv, LatencyInv
    <3>3. CASE at = "sampled" /\ stage' = stage + 1
      BY <3>3 DEF RunnersInv, RunnerTypes, Places, LatencyInv
    <3> QED
      BY <2>1, <3>1, <3>2, <3>3
  <2>6. stage' = 1 =>
           /\ \A i \in Entries' : stream'[i] = LatencyEvents[sent'] => i = initial'
           /\ \A i \in Entries', j \in DOMAIN LatencyEvents :
                 j > sent' => stream'[i] # LatencyEvents[j]
    <3>1. \A j \in DOMAIN LatencyEvents :
             j > sent' => j >= sent' /\ LatencyEvents[j] # LatencyEvents[sent']
      BY <1>0, <2>2, IdAssumption
    <3>2. sent' >= sent'
      BY <1>0, <2>2
    <3> QED
      BY <2>2, <2>4, <2>5, <3>1, <3>2
  <2>7. LatencyInv'
    BY <2>1, <2>2, <2>4, <2>6 DEF RunnersInv, LatencyInv, Stored
  <2> QED
    BY <1>0, <2>1, <2>2, <2>4, <2>7 DEF RunnersInv, RunnerTypes, Places, Untouched,
       RestartInv, ThroughputInv, Stored, AllStored
<1>2. CASE PollTimed
  <2>1. /\ ProcessInv' /\ UNCHANGED <<stream, storedBy, lives>>
        /\ at = "timing" /\ at' \in {"timing", "sampled"}
        /\ UNCHANGED <<script, faultLife, sent, initial, persisted, stage, verdicts>>
        /\ \/ samples' = samples
           \/ /\ Stored(LatencyEvents[sent])
              /\ samples' = samples \cup {[event |-> LatencyEvents[sent], entry |-> initial,
                                           run |-> stage]}
    BY <1>2, QuietKeeps DEF PollTimed, Kept
  <2>2. script = "latency" /\ sent \in DOMAIN LatencyEvents
    BY <2>1 DEF RunnersInv, RunnerTypes, Places, LatencyInv
  <2>. DEFINE e == LatencyEvents[sent]
  <2>3. e \in Events
    BY <2>2, Constants
  <2>4. Stored(e) /\ stage = 1 => storedBy[e].entry = initial
    BY <2>2, <2>3, LenProperties DEF RunnersInv, ProcessInv, StoresAreBacked, WorkerTypes,
       Entries, LatencyInv
  <2>5. LatencyInv'
    <3>1. ASSUME NEW s \in samples', s.run = 1
          PROVE  s.event \in Events /\ Stored(s.event) /\ storedBy[s.event].entry = s.entry
      <4>1. CASE s \in samples
        BY <3>1, <4>1 DEF RunnersInv, LatencyInv
      <4>2. CASE Stored(e) /\ s = [event |-> e, entry |-> initial, run |-> stage]
        BY <2>3, <2>4, <3>1, <4>2
      <4> QED
        BY <2>1, <3>1, <4>1, <4>2
    <3> QED
      BY <2>1, <2>2, <3>1 DEF RunnersInv, LatencyInv, Stored
  <2> QED
    BY <2>1, <2>2, <2>5 DEF RunnersInv, RunnerTypes, Places, Untouched,
       RestartInv, ThroughputInv, Stored, AllStored
<1> QED
  BY <1>1, <1>2

\* Ingestion publishes none of the events of a benchmark.
LEMMA IngestionStep ==
    ASSUME RunnersInv, IngestionPublishes
    PROVE  RunnersInv'
<1>1. PICK e \in Ambient : Publish(e)
  BY DEF IngestionPublishes
<1>2. UNCHANGED <<process, group, storedBy, runner>>
  BY DEF IngestionPublishes
<1>3. /\ ProcessInv' /\ DOMAIN stream = Entries /\ DOMAIN stream' = Entries'
      /\ \A i \in Entries' : (i \in Entries /\ stream'[i] = stream[i]) \/ stream'[i] = e
  BY <1>1, <1>2, PublishStep, Constants DEF RunnersInv
<1>4. e # Probe /\ \A j \in DOMAIN LatencyEvents : LatencyEvents[j] # e
  BY Constants
<1>5. LatencyInv'
  BY <1>2, <1>3, <1>4 DEF RunnersInv, LatencyInv, Stored, runner
<1> QED
  BY <1>2, <1>3, <1>4, <1>5 DEF RunnersInv, RunnerTypes, Untouched, RestartInv,
     ThroughputInv, Stored, AllStored, runner, process

LEMMA StepInv == RunnersInv /\ [Next]_vars => RunnersInv'
<1>. SUFFICES ASSUME RunnersInv, [Next]_vars PROVE RunnersInv'
  OBVIOUS
<1>1. CASE UNCHANGED vars
  BY <1>1 DEF vars, processVars, process, group, runner, RunnersInv, ProcessInv, WorkerTypes,
     StoresAreBacked, Stored, Entries, RunnerTypes, Untouched, RestartInv, ThroughputInv,
     AllStored, LatencyInv
<1> QED
  BY <1>1, WorkerKeeps, RestartSteps, DuplicateSteps, ThroughputSteps, LatencySteps,
     IngestionStep DEF Next, WorkerStep, Runner

LEMMA RunnersInvariant == Spec => []RunnersInv
BY InitInv, StepInv, PTL DEF Spec

-----------------------------------------------------------------------------

\* A restart trial that passed was passed by a process that was started after the one
\* it ended, whatever batch that one was in and however often the worker died.
THEOREM ProbesAreSeenByNewProcesses == Spec => []ProbeSeenByNewProcess
<1>1. RunnersInv => ProbeSeenByNewProcess
  <2>. SUFFICES ASSUME RunnersInv, script = "worker_restart", verdicts = <<"PASSED">>
                PROVE  storedBy[Probe].life > faultLife
    BY DEF ProbeSeenByNewProcess
  <2>1. verdicts # << >> /\ verdicts # <<"FAILED">>
    OBVIOUS
  <2> QED
    BY <2>1 DEF RunnersInv, RestartInv
<1> QED
  BY <1>1, RunnersInvariant, PTL

\* The stage reported as the highest sustainable one is a sustainable one.
LEMMA HighestIsSustainable ==
    ASSUME RunnersInv, HighestSustainable # 0
    PROVE  HighestSustainable \in DOMAIN verdicts
           /\ verdicts[HighestSustainable] = "SUSTAINABLE"
<1>. DEFINE n == Len(verdicts)
            T == {d \in Nat : n - d \in DOMAIN verdicts /\ verdicts[n - d] = "SUSTAINABLE"}
<1>1. DOMAIN verdicts = 1..n /\ n \in Nat
  BY LenProperties DEF RunnersInv, RunnerTypes
<1>2. PICK i \in DOMAIN verdicts : verdicts[i] = "SUSTAINABLE"
  BY DEF HighestSustainable
<1>3. n - i \in T
  <2>1. n - i \in Nat /\ n - (n - i) = i
    BY <1>1
  <2> QED
    BY <1>2, <2>1
<1>. DEFINE R == OpToRel(<, Nat)
<1>4. PICK d \in T : \A c \in T : ~(c < d)
  <2>1. IsWellFoundedOn(R, Nat)
    BY NatLessThanWellFounded
  <2>2. T \subseteq Nat /\ T # {}
    BY <1>3
  <2>3. \E d \in T : \A c \in T : <<c, d>> \notin R
    <3>. HIDE DEF R, T
    <3> QED
      BY <2>1, <2>2, WFMin
  <2> QED
    BY <2>3 DEF OpToRel
<1>5. /\ n - d \in DOMAIN verdicts /\ verdicts[n - d] = "SUSTAINABLE"
      /\ \A j \in DOMAIN verdicts : j > n - d => verdicts[j] # "SUSTAINABLE"
  <2>1. ASSUME NEW j \in DOMAIN verdicts, j > n - d, verdicts[j] = "SUSTAINABLE" PROVE FALSE
    <3>1. n - j \in Nat /\ n - (n - j) = j /\ n - j < d
      BY <1>1, <1>4, <2>1
    <3> QED
      BY <1>4, <2>1, <3>1
  <2> QED
    BY <1>4, <2>1
<1> QED
  BY <1>2, <1>5 DEF HighestSustainable

\* A rate is reported as the highest sustainable one only if every event offered at it
\* was stored, however late the worker was and whatever else it handled.
THEOREM SustainableRatesAreComplete == Spec => []SustainableIsComplete
<1>1. RunnersInv => SustainableIsComplete
  BY HighestIsSustainable DEF SustainableIsComplete, RunnersInv, ThroughputInv, AllStored
<1> QED
  BY <1>1, RunnersInvariant, PTL

\* A sample of the first run times the commit of the entry that was published for it.
THEOREM FirstRunIsTimed == Spec => []FirstRunTimesItsCommits
<1>1. RunnersInv => FirstRunTimesItsCommits
  BY DEF RunnersInv, LatencyInv, FirstRunTimesItsCommits
<1> QED
  BY <1>1, RunnersInvariant, PTL
=============================================================================
