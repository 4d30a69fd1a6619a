------------------------------- MODULE Alerts -------------------------------
(***************************************************************************)
(* The names that storage, notifier and worker share.  An alert's id is    *)
(* alert:{asset}:agg:{asset}:{event_id} (alerting.py, aggregator.py): at   *)
(* most one alert exists per event, and alerts are named by their event.   *)
(***************************************************************************)

CONSTANT Events   \* event ids

\* How the notifier classifies an alert: "funding" when funding-spread is among
\* its modules and futures-futures-spread is not, "price" otherwise.
AlertKinds == {"price", "funding"}

\* What the core pipelines make of an event: an alert, or none (the event is
\* INVALID, no module found an anomaly, or the aggregate has LOW priority).
Kinds == {"none"} \cup AlertKinds

\* alerts.notification_status; NONE stands for the absence of a row.
Statuses == {"NONE", "PENDING", "FAILED", "SENT"}
=============================================================================
