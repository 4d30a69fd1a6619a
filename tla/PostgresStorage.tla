-------------------------- MODULE PostgresStorage --------------------------
(***************************************************************************)
(* The tables of made_core/infrastructure/postgres/repository.py that the  *)
(* worker's control flow depends on: processed_events (idempotency) and    *)
(* alerts (the notification outbox).  Detection and aggregate rows are     *)
(* written in the same transaction as processed_events and never read back *)
(* by the worker; they are left out.                                       *)
(***************************************************************************)
EXTENDS Alerts

VARIABLES
    processed,    \* events with a row in processed_events
    alertStatus,  \* alerts.notification_status, NONE when there is no row
    alertKind     \* what alerts.triggered_modules means to the notifier

storageVars == <<processed, alertStatus, alertKind>>

StorageInit ==
    /\ processed = {}
    /\ alertStatus = [e \in Events |-> "NONE"]
    /\ alertKind = [e \in Events |-> "none"]

StorageTypeOK ==
    /\ processed \subseteq Events
    /\ alertStatus \in [Events -> Statuses]
    /\ alertKind \in [Events -> Kinds]

\* Mutant: the query does not look at the status.
AnyAlert(e) == alertStatus[e] # "NONE"

\* get_pending_alert_for_event finds a row: it exists and is not SENT.
Owed(e) == alertStatus[e] \in {"PENDING", "FAILED"}

-----------------------------------------------------------------------------
\* What the SELECTs of session.merge load inside persist_processing_result.
Rows == [event : BOOLEAN, status : Statuses, kind : Kinds]

NoRows == [event |-> FALSE, status |-> "NONE", kind |-> "none"]

LoadRows(e) == [event |-> e \in processed, status |-> alertStatus[e],
                kind |-> alertKind[e]]

\* session.merge emits a column only when the new value differs from the loaded
\* one: an equal value leaves whatever another transaction stored meanwhile.
Merged(loaded, new, current) == IF loaded = new THEN current ELSE new

\* The INSERT of a row that was absent when loaded meets a row that another
\* transaction committed meanwhile: the unique key raises IntegrityError.
Conflicts(e, kind, rows) ==
    \/ ~rows.event /\ e \in processed
    \/ kind # "none" /\ rows.status = "NONE" /\ alertStatus[e] # "NONE"

\* Mutant: the alert is left out of the transaction.
PersistWithoutAlert(e, kind, rows) ==
    IF Conflicts(e, kind, rows)
    THEN UNCHANGED storageVars
    ELSE processed' = processed \cup {e} /\ UNCHANGED <<alertStatus, alertKind>>

\* The commit of persist_processing_result: the event is marked processed and
\* its alert, if any, is stored as PENDING, in one transaction.  A conflict
\* rolls everything back, and the IntegrityError is swallowed.
PersistProcessingResult(e, kind, rows) ==
    IF Conflicts(e, kind, rows)
    THEN UNCHANGED storageVars
    ELSE /\ processed' = processed \cup {e}
         /\ IF kind = "none"
            THEN UNCHANGED <<alertStatus, alertKind>>
            ELSE /\ alertStatus' = [alertStatus EXCEPT
                                      ![e] = Merged(rows.status, "PENDING", @)]
                 /\ alertKind' = [alertKind EXCEPT
                                      ![e] = Merged(rows.kind, kind, @)]

\* UPDATE alerts SET notification_status WHERE alert_id: no row, no effect.
SetStatus(e, status) ==
    /\ alertStatus' = [alertStatus EXCEPT ![e] = IF @ = "NONE" THEN @ ELSE status]
    /\ UNCHANGED <<processed, alertKind>>

MarkAlertSent(e) == SetStatus(e, "SENT")

\* notification_attempts and last_notification_error are left out.
MarkAlertFailed(e) == SetStatus(e, "FAILED")
=============================================================================
