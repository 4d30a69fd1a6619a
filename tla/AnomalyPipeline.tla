-------------------------- MODULE AnomalyPipeline --------------------------
(***************************************************************************)
(* made_core/application: from the detection results of one event to its   *)
(* alert (aggregator, priority, alerting, anomaly_pipeline).  A result     *)
(* carries its status and its anomaly ratio as a fraction num/den; scores, *)
(* windows, ids and texts are left out.  The results of an event are a     *)
(* function from the modules that ran to their results: their order only   *)
(* shows in the alert's texts.                                             *)
(***************************************************************************)
EXTENDS Integers, FiniteSets

ModuleIds == {"futures-futures-spread", "spot-futures-spread",
              "dex-futures-spread", "funding-spread"}

\* A DetectionResult.
Result == [status : {"NORMAL", "ANOMALY"}, num : Nat, den : Nat \ {0}]

\* The result of a module that cannot compare anything.
Insufficient == [status |-> "NORMAL", num |-> 0, den |-> 1]

\* What process_pipeline_result_detailed is called with.
ResultsOf(ran) == [ran -> Result]

Priorities == {"NONE", "LOW", "MEDIUM", "HIGH"}

-----------------------------------------------------------------------------
\* triggered_modules of the aggregate.
Triggered(results) == {m \in DOMAIN results : results[m].status = "ANOMALY"}

\* Mutant: the boundary belongs to the lower priority.
RatioAbove(results, n, d) ==
    \E m \in Triggered(results) : results[m].num * d > results[m].den * n

\* max_anomaly_ratio >= n/d: some triggered module's ratio is.
MaxRatioAtLeast(results, n, d) ==
    \E m \in Triggered(results) : results[m].num * d >= results[m].den * n

\* Priority of the aggregate, "NONE" when there is no anomaly to aggregate.
Priority(results) ==
    IF Triggered(results) = {} THEN "NONE"
    ELSE IF Cardinality(Triggered(results)) >= 2 \/ MaxRatioAtLeast(results, 3, 1)
         THEN "HIGH"
    ELSE IF MaxRatioAtLeast(results, 3, 2) THEN "MEDIUM"
    ELSE "LOW"

\* generate: LOW aggregates raise no alert.
HasAlert(results) == Priority(results) \in {"MEDIUM", "HIGH"}

\* The kind of the alert the notifier is given.
AlertKindOf(results) ==
    IF ~HasAlert(results) THEN "none"
    ELSE IF /\ "funding-spread" \in Triggered(results)
            /\ "futures-futures-spread" \notin Triggered(results)
         THEN "funding"
    ELSE "price"
=============================================================================
