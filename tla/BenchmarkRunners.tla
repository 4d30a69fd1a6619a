-------------------------- MODULE BenchmarkRunners --------------------------
(***************************************************************************)
(* The live benchmarks of src/experiments: each publishes events of its    *)
(* own to the stream the worker reads, polls processed_events for them and *)
(* draws a conclusion.  Modelled with the worker, which may be restarted   *)
(* or fail meanwhile, and with the events that ingestion publishes.        *)
(***************************************************************************)
EXTENDS WorkerProcess

CONSTANTS
    Probe,          \* the event of a restart trial
    Duplicate,      \* the event of a deduplication trial
    Stages,         \* per stage of a throughput test, the sequence of its events
    LatencyEvents,  \* the events of a latency test, the same in each run of it
    Ambient,        \* events of the ingestion service
    LatencyRuns,    \* bound: runs of the latency test on one database
    Warmup,         \* events of a latency test that give no sample
    MaxPolls,       \* polls before a runner gives up
    MaxBacklog      \* max_allowed_backlog

ASSUME RunnersAssumption ==
    /\ Probe \in Events /\ Duplicate \in Events
    /\ Stages \in Seq(Seq(Events)) /\ LatencyEvents \in Seq(Events)
    /\ Ambient \subseteq Events
    /\ LatencyRuns \in Nat /\ Warmup \in Nat
    /\ MaxPolls \in Nat \ {0} /\ MaxBacklog \in Nat

\* The ids of a latency test are numbered, and those of a benchmark begin otherwise
\* than those of ingestion.
ASSUME IdAssumption ==
    /\ \A i, j \in DOMAIN LatencyEvents : LatencyEvents[i] = LatencyEvents[j] => i = j
    /\ Probe \notin Ambient
    /\ \A i \in DOMAIN LatencyEvents : LatencyEvents[i] \notin Ambient

VARIABLES
    script,     \* the benchmark that runs: "none" before it is chosen
    at,         \* where it is
    polls,      \* polls of the current wait
    faultLife,  \* the process a restart trial means to end, 0 if it did not
    sent,       \* events published of the current stage or run
    initial,    \* initial_pending
    persisted,  \* what the last count of the stage returned
    stage,      \* the current stage or run
    samples,    \* latency samples: the run, the event and the entry it was timed with
    verdicts    \* the results so far

runner == <<script, at, polls, faultLife, sent, initial, persisted, stage, samples, verdicts>>
vars == <<processVars, runner>>

Init ==
    /\ ProcessInit
    /\ script = "none" /\ at = "idle" /\ polls = 0
    /\ faultLife = 0 /\ sent = 0 /\ initial = 0 /\ persisted = 0
    /\ stage = 1 /\ samples = {} /\ verdicts = << >>

Begin(name, first) ==
    /\ script = "none"
    /\ script' = name /\ at' = first

Conclude(verdict) ==
    /\ at' = "done"
    /\ verdicts' = Append(verdicts, verdict)

\* A poll that finds nothing: the next one, or on to where the wait ends.
PollAgain(next) ==
    IF polls + 1 < MaxPolls
    THEN at' = at /\ polls' = polls + 1
    ELSE at' = next /\ polls' = 0

Quiet == UNCHANGED <<stream, group, storedBy, faults>>

-----------------------------------------------------------------------------
(* _scenario_worker_restart *)

\* The exit code of docker compose is not looked at: a command that fails leaves
\* the worker as it is and the trial goes on.
RestartWorker ==
    /\ Begin("worker_restart", "restarting")
    /\ \/ Terminate /\ faultLife' = lives
       \/ UNCHANGED <<process, faultLife>>
    /\ Quiet
    /\ UNCHANGED <<polls, sent, initial, persisted, stage, samples, verdicts>>

\* Mutant: the runner does not wait for the command.
RestartNotAwaited ==
    /\ at = "restarting"
    /\ at' = "publish"
    /\ UNCHANGED <<process, script, polls, faultLife, sent, initial, persisted,
                   stage, samples, verdicts>>
    /\ Quiet

RestartReturns ==
    /\ at = "restarting" /\ docker = "up" /\ lives > faultLife
    /\ at' = "publish"
    /\ UNCHANGED <<process, script, polls, faultLife, sent, initial, persisted,
                   stage, samples, verdicts>>
    /\ Quiet

\* subprocess.TimeoutExpired
RestartTimesOut ==
    /\ at = "restarting"
    /\ Conclude("FAILED")
    /\ UNCHANGED <<process, script, polls, faultLife, sent, initial, persisted,
                   stage, samples>>
    /\ Quiet

PublishProbe ==
    /\ at = "publish"
    /\ Publish(Probe)
    /\ at' = "probe"
    /\ UNCHANGED <<process, group, storedBy, faults, script, polls, faultLife, sent,
                   initial, persisted, stage, samples, verdicts>>

\* The trial fails, with one message lost, if the probe is not stored in time.
PollProbe ==
    /\ at = "probe"
    /\ IF Stored(Probe) THEN Conclude("PASSED") /\ UNCHANGED polls
       ELSE IF polls + 1 < MaxPolls
            THEN polls' = polls + 1 /\ UNCHANGED <<at, verdicts>>
            ELSE Conclude("FAILED") /\ UNCHANGED polls
    /\ UNCHANGED <<process, script, faultLife, sent, initial, persisted, stage, samples>>
    /\ Quiet

-----------------------------------------------------------------------------
(* _scenario_idempotency_deduplication *)

PublishOriginal ==
    /\ Begin("duplicate", "original")
    /\ Publish(Duplicate)
    /\ UNCHANGED <<process, group, storedBy, faults, polls, faultLife, sent, initial,
                   persisted, stage, samples, verdicts>>

PollOriginal ==
    /\ at = "original"
    /\ IF Stored(Duplicate) THEN at' = "duplicate" /\ UNCHANGED polls
                            ELSE PollAgain("duplicate")
    /\ UNCHANGED <<process, script, faultLife, sent, initial, persisted, stage, samples,
                   verdicts>>
    /\ Quiet

PublishDuplicate ==
    /\ at = "duplicate"
    /\ Publish(Duplicate)
    /\ at' = "asleep"
    /\ UNCHANGED <<process, group, storedBy, faults, script, polls, faultLife, sent,
                   initial, persisted, stage, samples, verdicts>>

\* After half a second, whatever became of the duplicate.
JudgeDuplicate ==
    /\ at = "asleep"
    /\ Conclude(IF Stored(Duplicate) THEN "PASSED" ELSE "FAILED")
    /\ UNCHANGED <<process, script, polls, faultLife, sent, initial, persisted, stage,
                   samples>>
    /\ Quiet

-----------------------------------------------------------------------------
(* ThroughputBenchmarkRunner.run_live *)

\* Mutant: the trial counts every event there is.
CountAll(s) == Cardinality({e \in Events : Stored(e)})

\* The events of a stage that are in processed_events, found by their prefix.
CountTrial(s) == Cardinality({i \in DOMAIN Stages[s] : Stored(Stages[s][i])})

\* XPENDING; an error counts as no backlog.
Backlogs == {Cardinality(pending), 0}

\* The stages, and the trials of a stage, come one after the other; each trial has
\* a fresh prefix.
BeginStage ==
    /\ \/ Begin("throughput", "inject") /\ stage \in DOMAIN Stages /\ UNCHANGED stage
       \/ at = "staged" /\ stage < Len(Stages)
          /\ stage' = stage + 1 /\ at' = "inject" /\ UNCHANGED script
    /\ initial' \in Backlogs
    /\ sent' = 0 /\ persisted' = 0 /\ polls' = 0
    /\ UNCHANGED <<process, faultLife, samples, verdicts>>
    /\ Quiet

Inject ==
    /\ at = "inject" /\ sent < Len(Stages[stage])
    /\ Publish(Stages[stage][sent + 1])
    /\ sent' = sent + 1
    /\ UNCHANGED <<process, group, storedBy, faults, script, at, polls, faultLife,
                   initial, persisted, stage, samples, verdicts>>

\* One poll of the drain phase, or its end.
Drain ==
    /\ at = "inject" /\ sent = Len(Stages[stage])
    /\ persisted' = CountTrial(stage)
    /\ IF persisted' >= sent THEN at' = "classify" /\ UNCHANGED polls
                             ELSE at' = (IF polls + 1 < MaxPolls THEN at ELSE "classify")
                                  /\ polls' = polls + 1
    /\ UNCHANGED <<process, script, faultLife, sent, initial, stage, samples, verdicts>>
    /\ Quiet

Minus(x, y) == IF x < y THEN 0 ELSE x - y

\* The three-state classification; fast says whether the throughput reached the
\* threshold ratio.
Class(fast, growth, loss) ==
    CASE fast /\ loss = 0 /\ growth <= MaxBacklog -> "SUSTAINABLE"
      [] ~fast \/ growth > MaxBacklog \/ loss > 0 -> "SATURATED"
      [] OTHER -> "INCONCLUSIVE"

Classify ==
    /\ at = "classify"
    /\ \E fast \in BOOLEAN, final \in Backlogs :
         verdicts' = Append(verdicts,
             Class(fast, Minus(final, initial), Minus(sent, persisted)))
    /\ at' = "staged"
    /\ UNCHANGED <<process, script, polls, faultLife, sent, initial, persisted, stage,
                   samples>>
    /\ Quiet

\* highest_sustainable_rate_eps: the last stage that was sustainable, 0 for none.
HighestSustainable ==
    IF \E i \in DOMAIN verdicts : verdicts[i] = "SUSTAINABLE"
    THEN CHOOSE i \in DOMAIN verdicts :
           /\ verdicts[i] = "SUSTAINABLE"
           /\ \A j \in DOMAIN verdicts : j > i => verdicts[j] # "SUSTAINABLE"
    ELSE 0

-----------------------------------------------------------------------------
(* LatencyBenchmarkRunner.run_live *)

\* An event is published and timed; a new run generates the same events again.
PublishTimed ==
    /\ \/ /\ Begin("latency", "timing") /\ LatencyEvents # << >>
          /\ sent' = 1 /\ UNCHANGED stage
       \/ /\ at = "sampled" /\ at' = "timing" /\ UNCHANGED script
          /\ \/ sent < Len(LatencyEvents) /\ sent' = sent + 1 /\ UNCHANGED stage
             \/ sent = Len(LatencyEvents) /\ stage < LatencyRuns
                /\ sent' = 1 /\ stage' = stage + 1
    /\ Publish(LatencyEvents[sent'])
    /\ initial' = Len(stream')
    /\ polls' = 0
    /\ UNCHANGED <<process, group, storedBy, faults, faultLife, persisted, samples,
                   verdicts>>

\* Mutant: an event that was not stored in time gives a sample, too.
KeptAnyway(stored) == sent > Warmup

\* Only events after the warm-up that were stored in time give a sample.
Kept(stored) == sent > Warmup /\ stored

PollTimed ==
    /\ at = "timing"
    /\ LET stored == Stored(LatencyEvents[sent])
           over == stored \/ polls + 1 = MaxPolls
       IN  /\ at' = IF over THEN "sampled" ELSE at
           /\ polls' = IF over THEN 0 ELSE polls + 1
           /\ samples' = IF over /\ Kept(stored)
                         THEN samples \cup {[event |-> LatencyEvents[sent], entry |-> initial,
                                             run |-> stage]}
                         ELSE samples
    /\ UNCHANGED <<process, script, faultLife, sent, initial, persisted, stage, verdicts>>
    /\ Quiet

-----------------------------------------------------------------------------
\* The ingestion service goes on publishing.
IngestionPublishes ==
    /\ \E e \in Ambient : (\A i \in DOMAIN stream : stream[i] # e) /\ Publish(e)
    /\ UNCHANGED <<process, group, storedBy, faults, runner>>

WorkerStep == WorkerRuns /\ UNCHANGED runner

Runner ==
    \/ RestartWorker \/ RestartReturns \/ PublishProbe \/ PollProbe
    \/ PublishOriginal \/ PollOriginal \/ PublishDuplicate \/ JudgeDuplicate
    \/ BeginStage \/ Inject \/ Drain \/ Classify
    \/ PublishTimed \/ PollTimed

Next ==
    \/ WorkerStep
    \/ Disturbed /\ UNCHANGED runner
    \/ Runner
    \/ RestartTimesOut
    \/ IngestionPublishes

\* The event loop goes on with a task whose await is over, and Docker starts a
\* container whose process has ended.
Fairness == WF_vars(WorkerStep)

Spec == Init /\ [][Next]_vars

FairSpec == Spec /\ Fairness

-----------------------------------------------------------------------------
(* Properties *)

\* A signal that finds the worker in its loop ends the process without a kill
\* (main, MadeCoreWorker.run and stop), however many entries are left.
StopEndsLoop == docker = "stopping" ~> docker = "up"

\* A restart trial passes only by a process that was started after the one it ended,
\* if docker ended it: the probe is published when the command has returned.
ProbeSeenByNewProcess ==
    script = "worker_restart" /\ verdicts = <<"PASSED">> => storedBy[Probe].life > faultLife

\* A rate is reported as the highest sustainable one only if every event offered at
\* that rate was stored, whatever else was processed meanwhile.
SustainableIsComplete ==
    HighestSustainable # 0 =>
        \A i \in DOMAIN Stages[HighestSustainable] : Stored(Stages[HighestSustainable][i])

\* A latency sample of the first run on a database times the commit of the entry that
\* was published for it (latency_runner.py:286 "Pipeline persistence (Redis XADD ->
\* PostgreSQL commit)"), whatever happens to the worker between the two.  A later run
\* publishes events of the same ids, which are stored already.
FirstRunTimesItsCommits ==
    \A s \in samples : s.run = 1 => storedBy[s.event].entry = s.entry
=============================================================================
