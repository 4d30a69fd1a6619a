-------------------------- MODULE MCMadeCoreWorker --------------------------
(***************************************************************************)
(* Values of the constants of MadeCoreWorker for TLC.  Two events about    *)
(* the same asset, their alerts with the same metric; entry 1 and entry 3  *)
(* hold the same event.                                                    *)
(***************************************************************************)
EXTENDS MadeCoreWorkerInv, TLC

CONSTANTS e1, e2, btc

MCAssetOf == [e \in {e1, e2} |-> btc]
MCMetricOf == [e \in {e1, e2} |-> 5]

\* The same event published twice around another one, then a broken entry.
MCEventOf == <<e1, e2, e1, Malformed>>

\* The same event published twice.
MCEventOfTwin == <<e1, e1>>

\* One entry.
MCEventOfOne == <<e1>>

\* One entry of each event.
MCEventOfPair == <<e1, e2>>

\* e1 may or may not raise a price alert, e2 raises a funding alert.
MCOutcomes == (e1 :> {"none", "price"}) @@ (e2 :> {"funding"})

\* Every event raises a price alert.
MCOutcomesPrice == [e \in {e1, e2} |-> {"price"}]

\* Every event raises a funding alert.
MCOutcomesFunding == [e \in {e1, e2} |-> {"funding"}]

MCUndeliverable == {e1}
=============================================================================
