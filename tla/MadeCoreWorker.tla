--------------------------- MODULE MadeCoreWorker ---------------------------
(***************************************************************************)
(* made_core/infrastructure/worker.py: workers that take market events     *)
(* from the consumer group, run the core pipelines, store the outcome,     *)
(* notify Telegram and acknowledge.  One action per await of               *)
(* process_batch and process_message; what happens between two awaits is   *)
(* one step, because a worker is a single asyncio task.                    *)
(*                                                                         *)
(* The core pipelines (cache, validation, detection, aggregation) are      *)
(* local and synchronous: here they return one of the kinds of alert that  *)
(* Outcomes allows for the event.                                          *)
(***************************************************************************)
EXTENDS RedisStreamConsumer, PostgresStorage, TelegramNotifier

CONSTANTS
    Malformed,      \* what an undecodable entry holds instead of an event
    EventOf,        \* the event an entry holds; two entries may hold the same
    Outcomes,       \* what the pipelines may make of an event
    Undeliverable,  \* events whose alert Telegram rejects for good (4xx)
    MaxFaults       \* bound: exceptions, outages and crashes in a behaviour

ASSUME WorkerAssumption ==
    /\ Malformed \notin Events
    /\ EventOf \in [Msgs -> Events \cup {Malformed}]
    /\ Outcomes \in [Events -> SUBSET Kinds]
    /\ Undeliverable \subseteq Events
    /\ MaxFaults \in Nat

VARIABLES
    pc,      \* where each worker's task is
    batch,   \* entries of the current batch it has not finished
    phase,   \* whether that batch was claimed or freshly read
    alert,   \* the alert process_message is handling, "none" without one
    rows,    \* what its open persist transaction has loaded
    faults   \* faults so far

taskVars == <<pc, batch, phase, alert, rows>>
vars == <<streamVars, storageVars, telegramVars, taskVars, faults>>

\* "down": no process.  "claim", "read": process_batch.  The others are inside
\* process_message.
Labels == {"down", "claim", "read", "check", "persist", "commit", "send",
           "markSent", "markFailed", "ack"}
InMessage == Labels \ {"down", "claim", "read"}

WorkerTypeOK ==
    /\ pc \in [Workers -> Labels]
    /\ batch \in [Workers -> SUBSET Msgs]
    /\ phase \in [Workers -> {"claimed", "fresh"}]
    /\ alert \in [Workers -> Kinds]
    /\ rows \in [Workers -> Rows]
    /\ faults \in 0..MaxFaults

Init ==
    /\ StreamInit
    /\ StorageInit
    /\ TelegramInit
    /\ pc = [w \in Workers |-> "down"]
    /\ batch = [w \in Workers |-> {}]
    /\ phase = [w \in Workers |-> "claimed"]
    /\ alert = [w \in Workers |-> "none"]
    /\ rows = [w \in Workers |-> NoRows]
    /\ faults = 0

-----------------------------------------------------------------------------
\* A batch is processed in stream order: its least entry is being handled.
Handling(w, m) == m \in batch[w] /\ \A k \in batch[w] : m <= k

\* A fault is one of a bounded number.
Fault == faults < MaxFaults /\ faults' = faults + 1

Goto(w, label) == pc' = [pc EXCEPT ![w] = label]

\* The worker loops over the entries S it got in phase p.
StartLoop(w, p, S) ==
    /\ batch' = [batch EXCEPT ![w] = S]
    /\ phase' = [phase EXCEPT ![w] = p]
    /\ Goto(w, IF S # {} THEN "check" ELSE IF p = "claimed" THEN "read" ELSE "claim")

\* The locals of process_message end with it.
DropLocals(w) ==
    /\ alert' = [alert EXCEPT ![w] = "none"]
    /\ rows' = [rows EXCEPT ![w] = NoRows]

\* Mutant: the exception is logged and the message acknowledged.
AckAnyway(w) ==
    /\ Goto(w, "ack")
    /\ DropLocals(w)
    /\ UNCHANGED <<batch, phase>>

\* An exception leaves process_message and process_batch: run catches it, and
\* the rest of the batch stays in the PEL.
Abort(w) ==
    /\ batch' = [batch EXCEPT ![w] = {}]
    /\ Goto(w, "claim")
    /\ DropLocals(w)
    /\ UNCHANGED phase

-----------------------------------------------------------------------------
(* process_batch *)

\* The process starts: initialize, then the loop of run.
Start(w) ==
    /\ pc[w] = "down"
    /\ Goto(w, "claim")
    /\ UNCHANGED <<streamVars, storageVars, telegramVars, batch, phase, alert,
                   rows, faults>>

\* Mutant: stale entries are never reclaimed.
ClaimNothing(w) ==
    /\ pc[w] = "claim"
    /\ StartLoop(w, "claimed", {})
    /\ UNCHANGED <<streamVars, storageVars, telegramVars, alert, rows, faults>>

Claim(w) ==
    /\ pc[w] = "claim"
    /\ StartLoop(w, "claimed", Stale)
    /\ ClaimStale
    /\ UNCHANGED <<storageVars, telegramVars, alert, rows, faults>>

\* claim_stale_messages turns an error of XAUTOCLAIM into an empty batch.
ClaimFails(w) ==
    /\ pc[w] = "claim"
    /\ Fault
    /\ StartLoop(w, "claimed", {})
    /\ UNCHANGED <<streamVars, storageVars, telegramVars, alert, rows>>

Read(w) ==
    /\ pc[w] = "read"
    /\ StartLoop(w, "fresh", Fresh)
    /\ ReadBatch
    /\ UNCHANGED <<storageVars, telegramVars, alert, rows, faults>>

-----------------------------------------------------------------------------
(* process_message *)

\* The payload does not deserialize: it goes to the dead-letter stream.
DeadLetter(w, m) ==
    /\ pc[w] = "check"
    /\ EventOf[m] = Malformed
    /\ PublishDlq(m)
    /\ Goto(w, "ack")
    /\ UNCHANGED <<storageVars, telegramVars, batch, phase, alert, rows, faults>>

\* Mutant: an event that is stored is done.
CheckProcessed(w, m) ==
    /\ pc[w] = "check"
    /\ EventOf[m] \in processed
    /\ Goto(w, "ack")
    /\ UNCHANGED <<streamVars, storageVars, telegramVars, batch, phase, alert,
                   rows, faults>>

\* is_event_processed, and get_pending_alert_for_event if it is.  The two
\* queries are one step: processed rows are never deleted, so the answers are
\* those of the moment of the second query.
CheckDone(w, m) ==
    /\ pc[w] = "check"
    /\ EventOf[m] \in processed
    /\ ~Owed(EventOf[m])
    /\ Goto(w, "ack")
    /\ UNCHANGED <<streamVars, storageVars, telegramVars, batch, phase, alert,
                   rows, faults>>

\* The stored alert is still owed: it is sent again, without running the core.
CheckOwed(w, m) ==
    /\ pc[w] = "check"
    /\ EventOf[m] \in processed
    /\ Owed(EventOf[m])
    /\ alert' = [alert EXCEPT ![w] = alertKind[EventOf[m]]]
    /\ Goto(w, "send")
    /\ UNCHANGED <<streamVars, storageVars, telegramVars, batch, phase, rows, faults>>

\* A new event: the core pipelines run up to the first await of the persist.
CheckNew(w, m) ==
    /\ pc[w] = "check"
    /\ EventOf[m] \in Events \ processed
    /\ \E kind \in Outcomes[EventOf[m]] : alert' = [alert EXCEPT ![w] = kind]
    /\ Goto(w, "persist")
    /\ UNCHANGED <<streamVars, storageVars, telegramVars, batch, phase, rows, faults>>

\* persist_processing_result: the SELECTs of its transaction.
PersistLoad(w, m) ==
    /\ pc[w] = "persist"
    /\ rows' = [rows EXCEPT ![w] = LoadRows(EventOf[m])]
    /\ Goto(w, "commit")
    /\ UNCHANGED <<streamVars, storageVars, telegramVars, batch, phase, alert, faults>>

\* Mutant: after a conflict the worker takes the event for done.
CommitOrDone(w, m) ==
    /\ pc[w] = "commit"
    /\ PersistProcessingResult(EventOf[m], alert[w], rows[w])
    /\ Goto(w, IF alert[w] = "none" \/ Conflicts(EventOf[m], alert[w], rows[w])
               THEN "ack" ELSE "send")
    /\ rows' = [rows EXCEPT ![w] = NoRows]
    /\ UNCHANGED <<streamVars, telegramVars, batch, phase, alert, faults>>

\* persist_processing_result: flush and commit.
PersistCommit(w, m) ==
    /\ pc[w] = "commit"
    /\ PersistProcessingResult(EventOf[m], alert[w], rows[w])
    /\ Goto(w, IF alert[w] = "none" THEN "ack" ELSE "send")
    /\ rows' = [rows EXCEPT ![w] = NoRows]
    /\ UNCHANGED <<streamVars, telegramVars, batch, phase, alert, faults>>

\* send_alert suppresses the alert and returns: to the worker it was sent.
SendThrottled(w, m) ==
    /\ pc[w] = "send"
    /\ Throttled(w, EventOf[m], alert[w])
    /\ Goto(w, "markSent")
    /\ UNCHANGED <<streamVars, storageVars, telegramVars, batch, phase, alert,
                   rows, faults>>

SendAccepted(w, m) ==
    /\ pc[w] = "send"
    /\ ~Throttled(w, EventOf[m], alert[w])
    /\ EventOf[m] \notin Undeliverable
    /\ StartCooldown(w, EventOf[m], alert[w])
    /\ Deliver(EventOf[m])
    /\ Goto(w, "markSent")
    /\ UNCHANGED <<streamVars, storageVars, batch, phase, alert, rows, faults>>

\* Telegram rejects the message for good: TelegramNotificationError.
SendRejected(w, m) ==
    /\ pc[w] = "send"
    /\ ~Throttled(w, EventOf[m], alert[w])
    /\ EventOf[m] \in Undeliverable
    /\ StartCooldown(w, EventOf[m], alert[w])
    /\ Goto(w, "markFailed")
    /\ UNCHANGED <<streamVars, storageVars, delivered, batch, phase, alert,
                   rows, faults>>

\* Mutant: send_alert returns after its last attempt failed.
FailsSilently(w, m) ==
    /\ pc[w] = "send"
    /\ ~Throttled(w, EventOf[m], alert[w])
    /\ Fault
    /\ StartCooldown(w, EventOf[m], alert[w])
    /\ Goto(w, "markSent")
    /\ UNCHANGED <<streamVars, storageVars, delivered, batch, phase, alert, rows>>

\* Retries exhausted: TelegramNotificationError, and nothing reached the chat.
SendFails(w, m) ==
    /\ pc[w] = "send"
    /\ ~Throttled(w, EventOf[m], alert[w])
    /\ Fault
    /\ StartCooldown(w, EventOf[m], alert[w])
    /\ Goto(w, "markFailed")
    /\ UNCHANGED <<streamVars, storageVars, delivered, batch, phase, alert, rows>>

\* Retries exhausted, although an attempt whose answer was lost got through.
SendTimesOut(w, m) ==
    /\ pc[w] = "send"
    /\ ~Throttled(w, EventOf[m], alert[w])
    /\ EventOf[m] \notin Undeliverable
    /\ Fault
    /\ StartCooldown(w, EventOf[m], alert[w])
    /\ Deliver(EventOf[m])
    /\ Goto(w, "markFailed")
    /\ UNCHANGED <<streamVars, storageVars, batch, phase, alert, rows>>

MarkSent(w, m) ==
    /\ pc[w] = "markSent"
    /\ MarkAlertSent(EventOf[m])
    /\ Goto(w, "ack")
    /\ UNCHANGED <<streamVars, telegramVars, batch, phase, alert, rows, faults>>

\* Mutant: the failure is recorded and the message acknowledged.
FailedIsDone(w, m) ==
    /\ pc[w] = "markFailed"
    /\ MarkAlertFailed(EventOf[m])
    /\ Goto(w, "ack")
    /\ UNCHANGED <<streamVars, telegramVars, batch, phase, alert, rows, faults>>

\* The failure is recorded and TelegramNotificationError goes up: no ack.
MarkFailed(w, m) ==
    /\ pc[w] = "markFailed"
    /\ MarkAlertFailed(EventOf[m])
    /\ Abort(w)
    /\ UNCHANGED <<streamVars, telegramVars, faults>>

\* XACK, and on to the rest of the batch.
Ack(w, m) ==
    /\ pc[w] = "ack"
    /\ XAck(m)
    /\ StartLoop(w, phase[w], batch[w] \ {m})
    /\ DropLocals(w)
    /\ UNCHANGED <<storageVars, telegramVars, faults>>

-----------------------------------------------------------------------------
(* What goes wrong, and what happens around the workers *)

\* The awaited call raises, or raises after it took effect (then this step
\* follows the one of the call): Redis or PostgreSQL is out of reach, the core
\* pipelines raise, Telegram's 200 answer is not JSON.  (What escapes send_alert with
\* nothing sent but the cooldown begun is SendFails and this at its markFailed.)
StepFails(w) ==
    /\ pc[w] \in InMessage \cup {"read"}
    /\ Fault
    /\ Abort(w)
    /\ UNCHANGED <<streamVars, storageVars, telegramVars>>

\* The process dies; docker-compose.yml restarts it (restart: unless-stopped).
Crash(w) ==
    /\ pc[w] # "down"
    /\ Fault
    /\ Goto(w, "down")
    /\ batch' = [batch EXCEPT ![w] = {}]
    /\ DropLocals(w)
    /\ ForgetCooldowns(w)
    /\ UNCHANGED <<streamVars, storageVars, delivered, phase>>

\* The ingestion side publishes the next entry.
Publish ==
    /\ XAdd
    /\ UNCHANGED <<storageVars, telegramVars, taskVars, faults>>

Tick ==
    /\ StreamTick
    /\ TelegramTick
    /\ UNCHANGED <<storageVars, taskVars, faults>>

Message(w, m) ==
    /\ Handling(w, m)
    /\ \/ DeadLetter(w, m)
       \/ CheckDone(w, m)
       \/ CheckOwed(w, m)
       \/ CheckNew(w, m)
       \/ PersistLoad(w, m)
       \/ PersistCommit(w, m)
       \/ SendThrottled(w, m)
       \/ SendAccepted(w, m)
       \/ SendRejected(w, m)
       \/ MarkSent(w, m)
       \/ MarkFailed(w, m)
       \/ Ack(w, m)

SendGoesWrong(w, m) == Handling(w, m) /\ (SendFails(w, m) \/ SendTimesOut(w, m))

\* What a running worker does when nothing fails.
Work(w) ==
    \/ Start(w)
    \/ Claim(w)
    \/ Read(w)
    \/ \E m \in Msgs : Message(w, m)

Goes(w) ==
    \/ Work(w)
    \/ ClaimFails(w)
    \/ \E m \in Msgs : SendGoesWrong(w, m)
    \/ StepFails(w)
    \/ Crash(w)

Next ==
    \/ \E w \in Workers : Goes(w)
    \/ Publish
    \/ Tick

Spec == Init /\ [][Next]_vars

\* A task that can take a step is scheduled, a process that is down is
\* restarted, and time passes.  Nothing is assumed of faults or publication.
Fairness ==
    /\ \A w \in Workers : WF_vars(Work(w))
    /\ WF_vars(Tick)

FairSpec == Spec /\ Fairness

\* Handling an entry is short compared with MinIdle (60 s): ticks only fall
\* while the workers wait in XREADGROUP, where they do spend time.
QuietTick ==
    /\ \A w \in Workers : pc[w] = "read"
    /\ Tick

QuietNext ==
    \/ \E w \in Workers : Goes(w)
    \/ Publish
    \/ QuietTick

QuietSpec ==
    /\ Init /\ [][QuietNext]_vars
    /\ \A w \in Workers : WF_vars(Work(w))
    /\ SF_vars(QuietTick)

-----------------------------------------------------------------------------
(* Properties *)

\* Every variable holds a value the code can store in it.
TypeOK == StreamTypeOK /\ StorageTypeOK /\ TelegramTypeOK /\ WorkerTypeOK

\* What must be durable before an entry may leave the PEL.
Settled(m) ==
    IF EventOf[m] = Malformed THEN m \in deadLetter ELSE EventOf[m] \in processed

\* No entry is acknowledged before its event is stored, or the entry is copied
\* to the dead-letter stream if it holds none: whatever fails, crashes or is
\* claimed by another worker in between, no entry is lost (process_message).
AckedIsSettled == \A m \in Acked : Settled(m)

\* An alert that is stored but not SENT has a pending entry whose redelivery
\* retries it ("do NOT ACK ... so failure is retried on redelivery").
OwedIsRetried ==
    \A e \in Events : Owed(e) => \E m \in pending : EventOf[m] = e

\* An event that is bound to raise a price alert reached the chat before any of
\* its entries is acknowledged, however many workers share the group and however
\* their transactions on the same rows overlap.
AckedWasNotified ==
    \A m \in Acked : \A e \in Events :
        EventOf[m] = e /\ Outcomes[e] = {"price"} => delivered[e] > 0

\* Nothing is sent to the chat that was not stored first ("Database is
\* committed" when send_alert runs).
DeliveredIsStored == \A e \in Events : delivered[e] > 0 => alertStatus[e] # "NONE"

\* A price alert is marked SENT only after the chat got it.
SentPriceWasDelivered ==
    \A e \in Events :
        alertStatus[e] = "SENT" /\ alertKind[e] = "price" => delivered[e] > 0

\* The same of every alert: mark_alert_sent follows a delivery.
SentWasDelivered == \A e \in Events : alertStatus[e] = "SENT" => delivered[e] > 0

\* Once an alert is SENT it stays so and is never sent again, whichever entries
\* of its event are delivered later: duplicates arise only before that mark.
SentIsFinal ==
    [][\A e \in Events : alertStatus[e] = "SENT" =>
           alertStatus'[e] = "SENT" /\ delivered'[e] = delivered[e]]_vars

\* The worker implements the outbox: its storage is the outbox's store, and the
\* acknowledged entries are the finished ones.
Outbox == INSTANCE AlertOutbox WITH
    MayThrottle <- {e \in Events : "funding" \in Outcomes[e]},
    stored <- processed,
    outbox <- [e \in Events |-> IF Owed(e) THEN "owed"
                                ELSE IF alertStatus[e] = "SENT" THEN "closed"
                                ELSE "none"],
    told <- {e \in Events : delivered[e] > 0},
    finished <- Acked

\* Stored once, with its alert; owed until told; finished when nothing is owed.
ImplementsOutbox == Outbox!Spec

\* Every published entry is acknowledged in the end.
PublishedIsAcked == \A m \in Msgs : published >= m ~> m \in Acked

\* The same of the entries that Telegram does not reject, when it rejects others:
\* process_batch "reclaims and processes stale PEL messages".
OthersAreAcked ==
    \A m \in Msgs : EventOf[m] \notin Undeliverable =>
        (published >= m ~> m \in Acked)

\* Every stored alert is SENT in the end.
OwedIsSent == \A e \in Events : Owed(e) ~> alertStatus[e] = "SENT"
=============================================================================
