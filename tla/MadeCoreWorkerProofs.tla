----------------------- MODULE MadeCoreWorkerProofs -----------------------
(***************************************************************************)
(* What holds of MadeCoreWorker for every stream, every set of events and  *)
(* workers and every number of faults; then what holds when one worker     *)
(* process runs, as docker-compose.yml deploys it, and that it implements  *)
(* AlertOutbox.                                                            *)
(***************************************************************************)
EXTENDS MadeCoreWorkerInv, TLAPS

USE DEF Msgs, Labels, InMessage, Kinds, AlertKinds, Statuses

-----------------------------------------------------------------------------
(* Fragments *)

LEMMA StreamFragments ==
    ASSUME StreamTypeOK
    PROVE  /\ XAdd => StreamTypeOK'
           /\ ReadBatch => StreamTypeOK'
           /\ ClaimStale => StreamTypeOK'
           /\ StreamTick => StreamTypeOK'
           /\ \A m \in Msgs : XAck(m) \/ PublishDlq(m) => StreamTypeOK'
           /\ UNCHANGED streamVars => StreamTypeOK'
<1> USE StreamAssumption DEF StreamTypeOK
<1>1. XAdd => StreamTypeOK'
  BY DEF XAdd
<1>2. ASSUME ReadBatch
      PROVE  StreamTypeOK'
  <2>1. published' \in 0..NumMsgs /\ cursor' \in 0..published' /\ cursor <= cursor'
    BY <1>2 DEF ReadBatch
  <2>2. Fresh \subseteq 1..cursor'
    BY <1>2 DEF ReadBatch, Fresh
  <2>3. pending' \subseteq 1..cursor'
    BY <1>2, <2>1, <2>2 DEF ReadBatch
  <2>4. idle' \in [Msgs -> 0..MinIdle] /\ deadLetter' \subseteq Msgs
    BY <1>2 DEF ReadBatch
  <2> QED
    BY <2>1, <2>3, <2>4
<1>3. ClaimStale => StreamTypeOK'
  BY DEF ClaimStale
<1>4. StreamTick => StreamTypeOK'
  BY DEF StreamTick
<1>5. ASSUME NEW m \in Msgs, XAck(m) \/ PublishDlq(m)
      PROVE  StreamTypeOK'
  <2>1. idle' \in [Msgs -> 0..MinIdle]
    BY <1>5 DEF XAck, PublishDlq
  <2> QED
    BY <1>5, <2>1 DEF XAck, PublishDlq
<1>6. UNCHANGED streamVars => StreamTypeOK'
  BY DEF streamVars
<1> QED
  BY <1>1, <1>2, <1>3, <1>4, <1>5, <1>6

\* Merging a loaded, a new and a current value yields the new or the current.
LEMMA MergedIsOneOf ==
    ASSUME NEW loaded, NEW new, NEW current
    PROVE  Merged(loaded, new, current) \in {new, current}
  BY DEF Merged

LEMMA StorageFragments ==
    ASSUME StorageTypeOK
    PROVE  /\ \A e \in Events : MarkAlertSent(e) \/ MarkAlertFailed(e) => StorageTypeOK'
           /\ \A e \in Events, kind \in Kinds, r \in Rows :
                 PersistProcessingResult(e, kind, r) => StorageTypeOK'
           /\ UNCHANGED storageVars => StorageTypeOK'
<1> USE DEF StorageTypeOK, storageVars
<1>1. \A e \in Events : MarkAlertSent(e) \/ MarkAlertFailed(e) => StorageTypeOK'
  BY DEF MarkAlertSent, MarkAlertFailed, SetStatus
<1>2. ASSUME NEW e \in Events, NEW kind \in Kinds, NEW r \in Rows,
             PersistProcessingResult(e, kind, r)
      PROVE  StorageTypeOK'
  BY <1>2, MergedIsOneOf DEF PersistProcessingResult
<1> QED
  BY <1>1, <1>2

LEMMA TelegramFragments ==
    ASSUME TelegramTypeOK
    PROVE  /\ \A w \in Workers, e \in Events, kind \in Kinds :
                 StartCooldown(w, e, kind) /\ (Deliver(e) \/ UNCHANGED delivered)
                   => TelegramTypeOK'
           /\ \A w \in Workers :
                 ForgetCooldowns(w) /\ UNCHANGED delivered => TelegramTypeOK'
           /\ TelegramTick => TelegramTypeOK'
           /\ UNCHANGED telegramVars => TelegramTypeOK'
<1> USE TelegramAssumption DEF TelegramTypeOK, telegramVars
<1>1. ASSUME NEW w \in Workers, NEW e \in Events, NEW kind \in Kinds,
             StartCooldown(w, e, kind), Deliver(e) \/ UNCHANGED delivered
      PROVE  TelegramTypeOK'
  <2>1. cooldown' \in [Workers -> [Assets -> [left : 0..Cooldown, metric : Nat]]]
    BY <1>1 DEF StartCooldown
  <2>2. delivered' \in [Events -> 0..DeliveryCap]
    BY <1>1 DEF Deliver
  <2> QED
    BY <2>1, <2>2
<1>2. ASSUME NEW w \in Workers, ForgetCooldowns(w), UNCHANGED delivered
      PROVE  TelegramTypeOK'
  BY <1>2 DEF ForgetCooldowns, NoCooldown
<1>3. ASSUME TelegramTick
      PROVE  TelegramTypeOK'
  <2>1. ASSUME NEW w \in Workers, NEW a \in Assets
        PROVE  [cooldown[w][a] EXCEPT !.left = IF @ > 0 THEN @ - 1 ELSE @]
                 \in [left : 0..Cooldown, metric : Nat]
    <3>1. PICK l \in 0..Cooldown, n \in Nat : cooldown[w][a] = [left |-> l, metric |-> n]
      OBVIOUS
    <3> QED
      BY <3>1
  <2> QED
    BY <1>3, <2>1 DEF TelegramTick
<1>4. UNCHANGED telegramVars => TelegramTypeOK'
  OBVIOUS
<1> QED
  BY <1>1, <1>2, <1>3, <1>4

LEMMA TaskFragments ==
    ASSUME WorkerTypeOK, NEW w \in Workers
    PROVE  /\ \A p \in {"claimed", "fresh"}, S \in SUBSET Msgs :
                StartLoop(w, p, S) =>
                    /\ pc' \in [Workers -> Labels]
                    /\ batch' \in [Workers -> SUBSET Msgs]
                    /\ phase' \in [Workers -> {"claimed", "fresh"}]
           /\ \A label \in Labels : Goto(w, label) => pc' \in [Workers -> Labels]
           /\ DropLocals(w) => /\ alert' \in [Workers -> Kinds]
                               /\ rows' \in [Workers -> Rows]
           /\ Abort(w) => /\ pc' \in [Workers -> Labels]
                          /\ batch' \in [Workers -> SUBSET Msgs]
                          /\ phase' \in [Workers -> {"claimed", "fresh"}]
                          /\ alert' \in [Workers -> Kinds]
                          /\ rows' \in [Workers -> Rows]
           /\ Fault => faults' \in 0..MaxFaults
<1> USE DEF WorkerTypeOK, Goto
<1>1. NoRows \in Rows
  BY DEF NoRows, Rows
<1>2. ASSUME DropLocals(w)
      PROVE  alert' \in [Workers -> Kinds] /\ rows' \in [Workers -> Rows]
  BY <1>1, <1>2 DEF DropLocals
<1>3. ASSUME NEW p \in {"claimed", "fresh"}, NEW S \in SUBSET Msgs, StartLoop(w, p, S)
      PROVE  /\ pc' \in [Workers -> Labels]
             /\ batch' \in [Workers -> SUBSET Msgs]
             /\ phase' \in [Workers -> {"claimed", "fresh"}]
  BY <1>3 DEF StartLoop
<1>4. \A label \in Labels : Goto(w, label) => pc' \in [Workers -> Labels]
  OBVIOUS
<1>5. ASSUME Abort(w)
      PROVE  /\ pc' \in [Workers -> Labels]
             /\ batch' \in [Workers -> SUBSET Msgs]
             /\ phase' \in [Workers -> {"claimed", "fresh"}]
  BY <1>5 DEF Abort
<1>6. Fault => faults' \in 0..MaxFaults
  BY WorkerAssumption DEF Fault
<1> QED
  BY <1>2, <1>3, <1>4, <1>5, <1>6 DEF Abort

\* Both kinds of batch consist of entries that were handed out.
LEMMA BatchEntries ==
    ASSUME StreamTypeOK
    PROVE  /\ Stale \subseteq pending
           /\ Stale \subseteq Msgs
           /\ Fresh \subseteq Msgs
           /\ \A m \in Fresh : m > cursor
<1>1. Stale \subseteq pending
  BY DEF Stale
<1> QED
  BY <1>1, StreamAssumption DEF StreamTypeOK, Fresh

-----------------------------------------------------------------------------
(* Type correctness *)

LEMMA TypeInit == Init => TypeOK
<1> USE DEF Init, TypeOK
<1>1. Init => StreamTypeOK
  BY StreamAssumption DEF StreamInit, StreamTypeOK
<1>2. Init => StorageTypeOK
  BY DEF StorageInit, StorageTypeOK
<1>3. Init => TelegramTypeOK
  BY TelegramAssumption DEF TelegramInit, TelegramTypeOK, NoCooldown
<1>4. Init => WorkerTypeOK
  BY WorkerAssumption DEF WorkerTypeOK, NoRows, Rows
<1> QED
  BY <1>1, <1>2, <1>3, <1>4

\* A worker's position tells that the entry it handles holds an event; without
\* that the type of the rows it loads or stores would not be preserved.
LEMMA TypeStep == TypeOK /\ TaskSettles /\ [Next]_vars => TypeOK'
<1> SUFFICES ASSUME TypeOK, TaskSettles, [Next]_vars
             PROVE  TypeOK'
  OBVIOUS
<1> USE StreamFragments, StorageFragments, TelegramFragments DEF TypeOK
<1>0. CASE UNCHANGED vars
  BY <1>0 DEF vars, taskVars, WorkerTypeOK
<1>1. ASSUME NEW w \in Workers, Goes(w)
      PROVE  TypeOK'
  <2> USE TaskFragments
  <2>1. CASE Start(w)
    BY <2>1 DEF Start, WorkerTypeOK
  <2>2. CASE Claim(w)
    BY <2>2, BatchEntries DEF Claim, WorkerTypeOK
  <2>3. CASE Read(w)
    BY <2>3, BatchEntries DEF Read, WorkerTypeOK
  <2>4. CASE ClaimFails(w)
    BY <2>4 DEF ClaimFails, WorkerTypeOK
  <2>5. CASE StepFails(w)
    BY <2>5 DEF StepFails, WorkerTypeOK
  <2>6. CASE Crash(w)
    BY <2>6 DEF Crash, WorkerTypeOK
  <2>7. ASSUME NEW m \in Msgs, Message(w, m) \/ SendGoesWrong(w, m)
        PROVE  TypeOK'
    <3>0. Handling(w, m)
      BY <2>7 DEF Message, SendGoesWrong
    <3>1. pc[w] \in {"persist", "commit", "send", "markSent", "markFailed"}
            => EventOf[m] \in Events
      BY <3>0 DEF TaskSettles
    <3>2. CASE DeadLetter(w, m)
      BY <3>2 DEF DeadLetter, WorkerTypeOK
    <3>3. CASE CheckDone(w, m)
      BY <3>3 DEF CheckDone, WorkerTypeOK
    <3>4. CASE CheckOwed(w, m)
      BY <3>4 DEF CheckOwed, WorkerTypeOK, StorageTypeOK
    <3>5. CASE CheckNew(w, m)
      BY <3>5, WorkerAssumption DEF CheckNew, WorkerTypeOK
    <3>6. CASE PersistLoad(w, m)
      <4>1. LoadRows(EventOf[m]) \in Rows
        BY <3>1, <3>6 DEF PersistLoad, LoadRows, Rows, StorageTypeOK
      <4> QED
        BY <3>6, <4>1 DEF PersistLoad, WorkerTypeOK
    <3>7. CASE PersistCommit(w, m)
      <4>1. EventOf[m] \in Events /\ alert[w] \in Kinds /\ rows[w] \in Rows
        BY <3>1, <3>7 DEF PersistCommit, WorkerTypeOK
      <4>2. NoRows \in Rows
        BY DEF NoRows, Rows
      <4>3. StorageTypeOK'
        BY <3>7, <4>1 DEF PersistCommit
      <4> QED
        BY <3>7, <4>2, <4>3 DEF PersistCommit, WorkerTypeOK
    <3>8. CASE SendThrottled(w, m)
      BY <3>8 DEF SendThrottled, WorkerTypeOK
    <3>9. CASE pc[w] = "send" /\ ~SendThrottled(w, m)
      <4>1. EventOf[m] \in Events /\ alert[w] \in Kinds
        BY <3>1, <3>9 DEF WorkerTypeOK
      <4>2. CASE SendAccepted(w, m)
        BY <4>1, <4>2 DEF SendAccepted, WorkerTypeOK
      <4>3. CASE SendRejected(w, m)
        BY <4>1, <4>3 DEF SendRejected, WorkerTypeOK
      <4>4. CASE SendFails(w, m)
        BY <4>1, <4>4 DEF SendFails, WorkerTypeOK
      <4>5. CASE SendTimesOut(w, m)
        BY <4>1, <4>5 DEF SendTimesOut, WorkerTypeOK
      <4> QED
        BY <2>7, <3>2, <3>3, <3>4, <3>5, <3>6, <3>7, <3>9, <4>2, <4>3, <4>4, <4>5
        DEF Message, SendGoesWrong, MarkSent, MarkFailed, Ack
    <3>10. CASE MarkSent(w, m)
      BY <3>1, <3>10 DEF MarkSent, WorkerTypeOK
    <3>11. CASE MarkFailed(w, m)
      BY <3>1, <3>11 DEF MarkFailed, WorkerTypeOK
    <3>12. CASE Ack(w, m)
      <4>1. phase[w] \in {"claimed", "fresh"} /\ batch[w] \ {m} \in SUBSET Msgs
        BY DEF WorkerTypeOK
      <4> QED
        BY <3>12, <4>1 DEF Ack, WorkerTypeOK
    <3> QED
      BY <2>7, <3>2, <3>3, <3>4, <3>5, <3>6, <3>7, <3>8, <3>9, <3>10, <3>11, <3>12
      DEF Message, SendGoesWrong, SendAccepted, SendRejected, SendFails, SendTimesOut
  <2> QED
    BY <1>1, <2>1, <2>2, <2>3, <2>4, <2>5, <2>6, <2>7 DEF Goes, Work
<1>2. CASE Publish
  BY <1>2 DEF Publish, taskVars, WorkerTypeOK
<1>3. CASE Tick
  BY <1>3 DEF Tick, taskVars, WorkerTypeOK
<1> QED
  BY <1>0, <1>1, <1>2, <1>3 DEF Next

-----------------------------------------------------------------------------
(* The shape of a step *)

\* The steps that move a worker on within the handling of one entry.
InPlace(w, m) ==
    \/ DeadLetter(w, m)
    \/ CheckDone(w, m)
    \/ CheckOwed(w, m)
    \/ CheckNew(w, m)
    \/ PersistLoad(w, m)
    \/ PersistCommit(w, m)
    \/ SendThrottled(w, m)
    \/ SendAccepted(w, m)
    \/ SendRejected(w, m)
    \/ SendFails(w, m)
    \/ SendTimesOut(w, m)
    \/ MarkSent(w, m)

LEMMA GoesCases ==
    ASSUME NEW w \in Workers, Goes(w)
    PROVE  \/ Start(w) \/ Claim(w) \/ Read(w) \/ ClaimFails(w)
           \/ StepFails(w) \/ Crash(w)
           \/ \E m \in Msgs : Handling(w, m) /\ (MarkFailed(w, m) \/ Ack(w, m))
           \/ \E m \in Msgs : Handling(w, m) /\ InPlace(w, m)
  BY DEF Goes, Work, Message, SendGoesWrong, InPlace

\* A step of worker w leaves the tasks of the others alone, takes only pending
\* entries into its batch, and either ends at a position that says nothing about
\* an entry, or moves on in place.
LEMMA StepShape ==
    ASSUME TypeOK, NEW w \in Workers, Goes(w)
    PROVE  /\ \A v \in Workers \ {w} :
                /\ pc'[v] = pc[v]
                /\ batch'[v] = batch[v]
                /\ alert'[v] = alert[v]
                /\ rows'[v] = rows[v]
           /\ batch'[w] \subseteq batch[w] \cup pending'
           /\ \/ pc'[w] \in {"down", "claim", "read", "check"}
              \/ /\ batch' = batch
                 /\ \E m \in Msgs : Handling(w, m) /\ InPlace(w, m)
<1> USE DEF TypeOK, WorkerTypeOK, Goto, StartLoop, Abort, DropLocals
<1>1. CASE Start(w)
  BY <1>1 DEF Start
<1>2. CASE Claim(w)
  BY <1>2, BatchEntries DEF Claim, ClaimStale
<1>3. CASE Read(w)
  BY <1>3 DEF Read, ReadBatch
<1>4. CASE ClaimFails(w)
  BY <1>4 DEF ClaimFails
<1>5. CASE StepFails(w)
  BY <1>5 DEF StepFails
<1>6. CASE Crash(w)
  BY <1>6 DEF Crash
<1>7. ASSUME NEW m \in Msgs, Handling(w, m), MarkFailed(w, m) \/ Ack(w, m)
      PROVE  /\ \A v \in Workers \ {w} :
                  /\ pc'[v] = pc[v]
                  /\ batch'[v] = batch[v]
                  /\ alert'[v] = alert[v]
                  /\ rows'[v] = rows[v]
             /\ batch'[w] \subseteq batch[w]
             /\ pc'[w] \in {"claim", "read", "check"}
  BY <1>7 DEF MarkFailed, Ack
<1>8. ASSUME NEW m \in Msgs, Handling(w, m), InPlace(w, m)
      PROVE  /\ \A v \in Workers \ {w} :
                  /\ pc'[v] = pc[v]
                  /\ alert'[v] = alert[v]
                  /\ rows'[v] = rows[v]
             /\ batch' = batch
  BY <1>8 DEF InPlace, DeadLetter, CheckDone, CheckOwed, CheckNew, PersistLoad,
     PersistCommit, SendThrottled, SendAccepted, SendRejected, SendFails,
     SendTimesOut, MarkSent
<1> QED
  BY GoesCases, <1>1, <1>2, <1>3, <1>4, <1>5, <1>6, <1>7, <1>8

\* Which steps of a worker change the storage, reach the chat or take an entry
\* out of the PEL.
LEMMA StepEffects ==
    ASSUME NEW w \in Workers, Goes(w)
    PROVE  /\ \/ UNCHANGED storageVars
              \/ \E m \in Msgs : /\ Handling(w, m)
                                 /\ PersistCommit(w, m) \/ MarkSent(w, m) \/ MarkFailed(w, m)
           /\ \/ UNCHANGED delivered
              \/ \E m \in Msgs : /\ Handling(w, m)
                                 /\ SendAccepted(w, m) \/ SendTimesOut(w, m)
           /\ \/ pending \subseteq pending'
              \/ \E m \in Msgs : Handling(w, m) /\ Ack(w, m)
<1>1. CASE Start(w) \/ Claim(w) \/ Read(w) \/ ClaimFails(w) \/ StepFails(w) \/ Crash(w)
  BY <1>1 DEF Start, Claim, Read, ClaimFails, StepFails, Crash, ClaimStale, ReadBatch,
     streamVars, telegramVars
<1>2. ASSUME NEW m \in Msgs, Handling(w, m), MarkFailed(w, m) \/ Ack(w, m)
      PROVE  /\ MarkFailed(w, m) \/ UNCHANGED storageVars
             /\ UNCHANGED delivered
             /\ Ack(w, m) \/ UNCHANGED pending
  BY <1>2 DEF MarkFailed, Ack, streamVars, telegramVars
<1>3. ASSUME NEW m \in Msgs, Handling(w, m), InPlace(w, m)
      PROVE  /\ PersistCommit(w, m) \/ MarkSent(w, m) \/ UNCHANGED storageVars
             /\ SendAccepted(w, m) \/ SendTimesOut(w, m) \/ UNCHANGED delivered
             /\ UNCHANGED pending
  BY <1>3 DEF InPlace, DeadLetter, CheckDone, CheckOwed, CheckNew, PersistLoad,
     PersistCommit, SendThrottled, SendAccepted, SendRejected, SendFails, SendTimesOut,
     MarkSent, PublishDlq, streamVars, telegramVars
<1> QED
  BY GoesCases, <1>1, <1>2, <1>3

\* The other steps leave every task and the storage alone.
LEMMA EnvironmentShape ==
    ASSUME TypeOK, Publish \/ Tick \/ UNCHANGED vars
    PROVE  /\ UNCHANGED <<cursor, pending, deadLetter, storageVars, delivered>>
           /\ UNCHANGED taskVars
  BY DEF Publish, Tick, XAdd, StreamTick, TelegramTick, vars, streamVars,
     telegramVars, taskVars

\* What a worker step does to the state that the workers share.
LEMMA SharedShape ==
    ASSUME TypeOK, TaskSettles, NEW w \in Workers, Goes(w)
    PROVE  /\ cursor' \in Nat /\ cursor <= cursor'
           /\ deadLetter \subseteq deadLetter'
           /\ processed \subseteq processed'
           /\ \A e \in Events : alertStatus[e] # "NONE" => alertStatus'[e] # "NONE"
           /\ \A e \in Events : delivered[e] > 0 => delivered'[e] > 0
           /\ \A m \in Acked' : m \in Acked \/ (Handling(w, m) /\ pc[w] = "ack")
<1> USE DEF TypeOK, StreamTypeOK, Acked
<1>1. CASE Start(w)
  BY <1>1 DEF Start, streamVars, storageVars, telegramVars
<1>2. CASE Claim(w)
  BY <1>2 DEF Claim, ClaimStale, storageVars, telegramVars
<1>3. CASE Read(w)
  <2>1. cursor' \in Nat /\ cursor <= cursor'
    BY <1>3, StreamAssumption DEF Read, ReadBatch
  <2>2. ASSUME NEW m \in Acked'
        PROVE  m \in Acked
    BY <1>3, <2>1, <2>2, StreamAssumption DEF Read, ReadBatch, Fresh
  <2> QED
    BY <1>3, <2>1, <2>2 DEF Read, ReadBatch, storageVars, telegramVars
<1>4. CASE ClaimFails(w)
  BY <1>4 DEF ClaimFails, streamVars, storageVars, telegramVars
<1>5. CASE StepFails(w)
  BY <1>5 DEF StepFails, streamVars, storageVars, telegramVars
<1>6. CASE Crash(w)
  BY <1>6 DEF Crash, streamVars, storageVars
<1>7. ASSUME NEW m \in Msgs, Handling(w, m), MarkFailed(w, m)
      PROVE  /\ UNCHANGED <<cursor, pending, deadLetter, processed, delivered>>
             /\ \A e \in Events : alertStatus[e] # "NONE" => alertStatus'[e] # "NONE"
  BY <1>7 DEF MarkFailed, MarkAlertFailed, SetStatus, StorageTypeOK, streamVars,
     telegramVars
<1>8. ASSUME NEW m \in Msgs, Handling(w, m), Ack(w, m)
      PROVE  /\ UNCHANGED <<cursor, deadLetter, processed, alertStatus, delivered>>
             /\ pending' = pending \ {m}
             /\ pc[w] = "ack"
  BY <1>8 DEF Ack, XAck, storageVars, telegramVars
<1>9. ASSUME NEW m \in Msgs, Handling(w, m), InPlace(w, m)
      PROVE  /\ UNCHANGED <<cursor, pending>>
             /\ deadLetter \subseteq deadLetter'
             /\ processed \subseteq processed'
             /\ \A e \in Events : alertStatus[e] # "NONE" => alertStatus'[e] # "NONE"
             /\ \A e \in Events : delivered[e] > 0 => delivered'[e] > 0
  <2>1. CASE DeadLetter(w, m)
    BY <2>1 DEF DeadLetter, PublishDlq, storageVars, telegramVars
  <2>2. CASE PersistCommit(w, m)
    <3>1. UNCHANGED <<cursor, pending, deadLetter, delivered>>
      BY <2>2 DEF PersistCommit, streamVars, telegramVars
    <3>2. PersistProcessingResult(EventOf[m], alert[w], rows[w])
      BY <2>2 DEF PersistCommit
    <3>3. processed \subseteq processed'
      BY <3>2 DEF PersistProcessingResult, storageVars
    <3>4. \A e \in Events : alertStatus[e] # "NONE" => alertStatus'[e] # "NONE"
      BY <3>2 DEF PersistProcessingResult, storageVars, Merged, StorageTypeOK
    <3> QED
      BY <3>1, <3>3, <3>4
  <2>3. CASE MarkSent(w, m)
    BY <2>3 DEF MarkSent, MarkAlertSent, SetStatus, StorageTypeOK, streamVars,
       telegramVars
  <2>4. CASE SendAccepted(w, m) \/ SendTimesOut(w, m)
    <3>1. UNCHANGED <<cursor, pending, deadLetter, processed, alertStatus>>
      BY <2>4 DEF SendAccepted, SendTimesOut, streamVars, storageVars
    <3>2. Deliver(EventOf[m])
      BY <2>4 DEF SendAccepted, SendTimesOut
    <3>3. ASSUME NEW e \in Events, delivered[e] > 0
          PROVE  delivered'[e] > 0
      BY <3>2, <3>3, TelegramAssumption DEF Deliver, TelegramTypeOK
    <3> QED
      BY <3>1, <3>3
  <2>5. CASE SendRejected(w, m) \/ SendFails(w, m)
    BY <2>5 DEF SendRejected, SendFails, streamVars, storageVars
  <2>6. CASE CheckDone(w, m) \/ CheckOwed(w, m) \/ CheckNew(w, m)
               \/ PersistLoad(w, m) \/ SendThrottled(w, m)
    BY <2>6 DEF CheckDone, CheckOwed, CheckNew, PersistLoad, SendThrottled,
       streamVars, storageVars, telegramVars
  <2> QED
    BY <1>9, <2>1, <2>2, <2>3, <2>4, <2>5, <2>6 DEF InPlace
<1> QED
  BY GoesCases, <1>1, <1>2, <1>3, <1>4, <1>5, <1>6, <1>7, <1>8, <1>9

-----------------------------------------------------------------------------
(* No entry is lost, whoever handles it *)

\* What is durable about an entry stays durable.
LEMMA SettledIsStable ==
    ASSUME TypeOK, TaskSettles, [Next]_vars, NEW m \in Msgs, Settled(m)
    PROVE  Settled(m)'
<1>1. ASSUME NEW w \in Workers, Goes(w)
      PROVE  Settled(m)'
  BY <1>1, SharedShape DEF Settled
<1>2. CASE Publish \/ Tick \/ UNCHANGED vars
  BY <1>2, EnvironmentShape DEF Settled, storageVars
<1> QED
  BY <1>1, <1>2 DEF Next

LEMMA GroupStep == GroupInv /\ [Next]_vars => GroupInv'
<1> SUFFICES ASSUME GroupInv, [Next]_vars
             PROVE  GroupInv'
  OBVIOUS
<1> USE DEF GroupInv
<1>1. TypeOK'
  BY TypeStep
<1>2. CASE Publish \/ Tick \/ UNCHANGED vars
  <2>1. UNCHANGED <<cursor, pending, deadLetter, storageVars, pc, batch, rows>>
    BY <1>2, EnvironmentShape DEF taskVars
  <2> QED
    BY <1>1, <2>1 DEF storageVars, BatchesHandedOut, AckedIsSettled, Acked, Settled, TaskSettles,
       Handling, AlertRowsSound, RowsStillThere
<1>3. ASSUME NEW w \in Workers, Goes(w)
      PROVE  /\ BatchesHandedOut'
             /\ AlertRowsSound'
             /\ RowsStillThere'
             /\ TaskSettles'
             /\ AckedIsSettled'
  <2>1. BatchesHandedOut'
    <3>1. pending' \subseteq 1..cursor'
      BY <1>1 DEF TypeOK, StreamTypeOK
    <3>2. ASSUME NEW v \in Workers
          PROVE  batch'[v] \subseteq 1..cursor'
      <4>1. batch'[v] \subseteq batch[v] \cup pending'
        BY <1>3, StepShape
      <4>2. batch[v] \subseteq 1..cursor'
        BY <1>3, SharedShape DEF BatchesHandedOut, TypeOK, StreamTypeOK
      <4> QED
        BY <3>1, <4>1, <4>2
    <3> QED
      BY <3>2 DEF BatchesHandedOut
  <2>2. AckedIsSettled'
    <3>1. ASSUME NEW m \in Acked'
          PROVE  Settled(m)'
      <4>1. m \in Msgs
        BY <1>1, StreamAssumption DEF Acked, TypeOK, StreamTypeOK
      <4>2. Settled(m)
        BY <1>3, <4>1, SharedShape DEF AckedIsSettled, TaskSettles
      <4> QED
        BY <4>1, <4>2, SettledIsStable
    <3> QED
      BY <3>1 DEF AckedIsSettled
  <2>3. TaskSettles'
    <3> SUFFICES ASSUME NEW v \in Workers, NEW m \in Msgs, Handling(v, m)'
                 PROVE  /\ pc'[v] \in {"persist", "commit", "send", "markSent", "markFailed"}
                             => EventOf[m] \in Events
                        /\ pc'[v] \in {"send", "markSent", "markFailed"}
                             => EventOf[m] \in processed'
                        /\ pc'[v] = "ack" => Settled(m)'
      BY DEF TaskSettles
    <3>1. CASE v # w
      <4>1. pc'[v] = pc[v] /\ batch'[v] = batch[v]
        BY <1>3, <3>1, StepShape
      <4>2. Handling(v, m)
        BY <4>1 DEF Handling
      <4> QED
        BY <1>3, <4>1, <4>2, SharedShape, SettledIsStable DEF TaskSettles
    <3>2. CASE v = w /\ pc'[w] \notin {"down", "claim", "read", "check"}
      <4>1. PICK k \in Msgs : Handling(w, k) /\ InPlace(w, k) /\ batch' = batch
        BY <1>3, <3>2, StepShape
      <4>2. k = m
        BY <3>2, <4>1 DEF Handling
      <4>3. TypeOK /\ EventOf[m] \in Events \cup {Malformed}
        BY WorkerAssumption
      <4> USE DEF TaskSettles, Settled, Goto, TypeOK, WorkerTypeOK
      <4>4. CASE DeadLetter(w, m)
        BY <3>2, <4>1, <4>2, <4>4 DEF DeadLetter, PublishDlq
      <4>5. CASE CheckDone(w, m)
        BY <3>2, <4>3, <4>5, WorkerAssumption DEF CheckDone, StorageTypeOK, storageVars
      <4>6. CASE CheckOwed(w, m)
        BY <3>2, <4>6 DEF CheckOwed, StorageTypeOK, storageVars
      <4>7. CASE CheckNew(w, m)
        BY <3>2, <4>7 DEF CheckNew
      <4>8. CASE PersistLoad(w, m)
        BY <3>2, <4>1, <4>2, <4>8 DEF PersistLoad
      <4>9. CASE PersistCommit(w, m)
        <5>1. EventOf[m] \in processed'
          BY <4>1, <4>2, <4>9 DEF PersistCommit, PersistProcessingResult, Conflicts,
             storageVars, AlertRowsSound, RowsStillThere
        <5> QED
          BY <3>2, <4>1, <4>2, <4>9, <5>1, WorkerAssumption DEF PersistCommit
      <4>10. CASE SendThrottled(w, m) \/ SendAccepted(w, m) \/ SendRejected(w, m)
                    \/ SendFails(w, m) \/ SendTimesOut(w, m)
        BY <3>2, <4>1, <4>2, <4>10 DEF SendThrottled, SendAccepted, SendRejected,
           SendFails, SendTimesOut, storageVars
      <4>11. CASE MarkSent(w, m)
        BY <3>2, <4>1, <4>2, <4>11, WorkerAssumption
        DEF MarkSent, MarkAlertSent, SetStatus
      <4> QED
        BY <4>1, <4>2, <4>4, <4>5, <4>6, <4>7, <4>8, <4>9, <4>10, <4>11 DEF InPlace
    <3> QED
      BY <3>1, <3>2
  <2>4. AlertRowsSound'
    <3>1. CASE UNCHANGED storageVars
      BY <3>1 DEF AlertRowsSound, storageVars
    <3>2. ASSUME NEW m \in Msgs, Handling(w, m), MarkFailed(w, m) \/ MarkSent(w, m)
          PROVE  AlertRowsSound'
      BY <3>2 DEF MarkFailed, MarkSent, MarkAlertFailed, MarkAlertSent, SetStatus,
         AlertRowsSound, TypeOK, StorageTypeOK
    <3>3. ASSUME NEW m \in Msgs, Handling(w, m), PersistCommit(w, m)
          PROVE  AlertRowsSound'
      <4>1. EventOf[m] \in Events /\ PersistProcessingResult(EventOf[m], alert[w], rows[w])
        BY <3>3 DEF PersistCommit, TaskSettles
      <4>2. /\ rows[w].status = "NONE" <=> rows[w].kind = "none"
            /\ rows[w].status # "NONE" => alertStatus[EventOf[m]] # "NONE"
        BY <3>3 DEF PersistCommit, RowsStillThere
      <4> QED
        BY <4>1, <4>2 DEF PersistProcessingResult, Merged, AlertRowsSound, storageVars,
           TypeOK, StorageTypeOK
    <3> QED
      BY <1>3, <3>1, <3>2, <3>3, StepEffects
  <2>5. RowsStillThere'
    <3> SUFFICES ASSUME NEW v \in Workers, NEW m \in Msgs, Handling(v, m)',
                        pc'[v] = "commit"
                 PROVE  /\ rows'[v].event => EventOf[m] \in processed'
                        /\ rows'[v].status = "NONE" <=> rows'[v].kind = "none"
                        /\ rows'[v].status # "NONE" => alertStatus'[EventOf[m]] # "NONE"
      BY DEF RowsStillThere
    <3>1. CASE v # w
      <4>1. pc'[v] = pc[v] /\ batch'[v] = batch[v] /\ rows'[v] = rows[v]
        BY <1>3, <3>1, StepShape
      <4>2. Handling(v, m)
        BY <4>1 DEF Handling
      <4>3. EventOf[m] \in Events
        BY <4>1, <4>2 DEF TaskSettles
      <4> QED
        BY <1>3, <4>1, <4>2, <4>3, SharedShape DEF RowsStillThere
    <3>2. CASE v = w
      <4>1. PICK k \in Msgs : Handling(w, k) /\ InPlace(w, k) /\ batch' = batch
        BY <1>3, <3>2, StepShape
      <4>2. k = m
        BY <3>2, <4>1 DEF Handling
      <4>3. PersistLoad(w, m)
        BY <3>2, <4>1, <4>2 DEF InPlace, Goto, TypeOK, WorkerTypeOK, DeadLetter,
           CheckDone, CheckOwed, CheckNew, PersistCommit, SendThrottled,
           SendAccepted, SendRejected, SendFails, SendTimesOut, MarkSent
      <4>4. EventOf[m] \in Events
        BY <4>1, <4>2, <4>3 DEF PersistLoad, TaskSettles
      <4>5. rows'[w] = LoadRows(EventOf[m]) /\ UNCHANGED storageVars
        BY <4>3 DEF PersistLoad, TypeOK, WorkerTypeOK
      <4>6. rows'[w].event = (EventOf[m] \in processed)
        BY <4>5 DEF LoadRows
      <4>7. rows'[w].status = alertStatus[EventOf[m]]
        BY <4>5 DEF LoadRows
      <4>8. rows'[w].kind = alertKind[EventOf[m]]
        BY <4>5 DEF LoadRows
      <4> QED
        BY <3>2, <4>4, <4>5, <4>6, <4>7, <4>8 DEF AlertRowsSound, storageVars
    <3> QED
      BY <3>1, <3>2
  <2> QED
    BY <2>1, <2>2, <2>3, <2>4, <2>5
<1> QED
  BY <1>1, <1>2, <1>3 DEF Next

LEMMA GroupInit == Init => GroupInv
<1> SUFFICES ASSUME Init
             PROVE  GroupInv
  OBVIOUS
<1> USE DEF Init, StreamInit, StorageInit
<1>1. TypeOK
  BY TypeInit
<1>2. \A w \in Workers : batch[w] = {} /\ pc[w] = "down"
  OBVIOUS
<1>3. Acked = {}
  BY DEF Acked
<1> QED
  BY <1>1, <1>2, <1>3 DEF GroupInv, BatchesHandedOut, AlertRowsSound, RowsStillThere,
     TaskSettles, AckedIsSettled, Handling

\* In every reachable state the variables hold values of their types.
THEOREM TypeCorrect == Spec => []TypeOK
<1>1. GroupInv => TypeOK
  BY DEF GroupInv
<1> QED
  BY GroupInit, GroupStep, <1>1, PTL DEF Spec

\* No entry is lost: none leaves the PEL unless its event is stored, or its copy
\* is in the dead-letter stream, whatever fails and however many workers share
\* the group.
THEOREM NoEntryLost == Spec => []AckedIsSettled
<1>1. GroupInv => AckedIsSettled
  BY DEF GroupInv
<1> QED
  BY GroupInit, GroupStep, <1>1, PTL DEF Spec

-----------------------------------------------------------------------------
(* No alert is lost, whoever handles its event *)

LEMMA KindsStep == GroupInv /\ KindsAllowed /\ [Next]_vars => KindsAllowed'
<1> SUFFICES ASSUME GroupInv, KindsAllowed, [Next]_vars
             PROVE  KindsAllowed'
  OBVIOUS
<1> USE DEF GroupInv
<1>1. CASE Publish \/ Tick \/ UNCHANGED vars
  <2>1. UNCHANGED <<storageVars, pc, batch, alert>>
    BY <1>1, EnvironmentShape DEF taskVars
  <2> QED
    BY <2>1 DEF KindsAllowed, Handling, storageVars
<1>2. ASSUME NEW w \in Workers, Goes(w)
      PROVE  KindsAllowed'
  <2>1. ASSUME NEW e \in Events
        PROVE  alertKind'[e] \in Outcomes[e] \cup {"none"}
    <3>1. CASE UNCHANGED alertKind
      BY <3>1 DEF KindsAllowed
    <3>2. ASSUME NEW m \in Msgs, Handling(w, m), PersistCommit(w, m)
          PROVE  alertKind'[e] \in Outcomes[e] \cup {"none"}
      <4>1. alert[w] \in Outcomes[EventOf[m]]
        BY <3>2 DEF PersistCommit, KindsAllowed
      <4>2. PersistProcessingResult(EventOf[m], alert[w], rows[w])
        BY <3>2 DEF PersistCommit
      <4>3. alertKind'[e] = alertKind[e] \/ (e = EventOf[m] /\ alertKind'[e] = alert[w])
        BY <4>2, MergedIsOneOf DEF PersistProcessingResult, storageVars, TypeOK, StorageTypeOK
      <4> QED
        BY <4>1, <4>3 DEF KindsAllowed
    <3> QED
      BY <1>2, <3>1, <3>2, StepEffects
      DEF storageVars, MarkSent, MarkFailed, MarkAlertSent, MarkAlertFailed, SetStatus
  <2>2. ASSUME NEW v \in Workers, NEW m \in Msgs, Handling(v, m)'
        PROVE  /\ pc'[v] \in {"persist", "commit"} => alert'[v] \in Outcomes[EventOf[m]]
               /\ pc'[v] \in {"send", "markSent", "markFailed"} =>
                    alert'[v] \in Outcomes[EventOf[m]] \ {"none"}
    <3>1. CASE v # w
      <4>1. pc'[v] = pc[v] /\ batch'[v] = batch[v] /\ alert'[v] = alert[v]
        BY <1>2, <3>1, StepShape
      <4> QED
        BY <2>2, <4>1 DEF KindsAllowed, Handling
    <3>2. CASE v = w /\ pc'[w] \notin {"down", "claim", "read", "check"}
      <4>1. PICK k \in Msgs : Handling(w, k) /\ InPlace(w, k) /\ batch' = batch
        BY <1>2, <3>2, StepShape
      <4>2. k = m
        BY <2>2, <3>2, <4>1 DEF Handling
      <4> USE DEF Goto, TypeOK, WorkerTypeOK
      <4>3. CASE DeadLetter(w, m) \/ CheckDone(w, m) \/ MarkSent(w, m)
        BY <3>2, <4>3 DEF DeadLetter, CheckDone, MarkSent
      <4>4. CASE CheckOwed(w, m)
        BY <3>2, <4>4 DEF CheckOwed, Owed, AlertRowsSound, KindsAllowed, StorageTypeOK
      <4>5. CASE CheckNew(w, m)
        BY <3>2, <4>5 DEF CheckNew
      <4>6. CASE PersistLoad(w, m) \/ PersistCommit(w, m)
        BY <3>2, <4>1, <4>2, <4>6 DEF PersistLoad, PersistCommit, KindsAllowed
      <4>7. CASE SendThrottled(w, m) \/ SendAccepted(w, m) \/ SendRejected(w, m)
                   \/ SendFails(w, m) \/ SendTimesOut(w, m)
        BY <3>2, <4>1, <4>2, <4>7 DEF SendThrottled, SendAccepted, SendRejected,
           SendFails, SendTimesOut, KindsAllowed
      <4> QED
        BY <4>1, <4>2, <4>3, <4>4, <4>5, <4>6, <4>7 DEF InPlace
    <3> QED
      BY <3>1, <3>2
  <2> QED
    BY <2>1, <2>2 DEF KindsAllowed
<1> QED
  BY <1>1, <1>2 DEF Next

\* Alerts of other events, and what the chat got, are not taken back: this is
\* why a second worker in the middle of the same event does no harm here.
LEMMA BoundStep ==
    GroupInv /\ KindsAllowed /\ BoundIsNotified /\ [Next]_vars => BoundIsNotified'
<1> SUFFICES ASSUME GroupInv, KindsAllowed, BoundIsNotified, [Next]_vars
             PROVE  BoundIsNotified'
  OBVIOUS
<1> USE DEF GroupInv, Bound
<1>1. CASE Publish \/ Tick \/ UNCHANGED vars
  <2>1. UNCHANGED <<storageVars, delivered, pc, batch>>
    BY <1>1, EnvironmentShape DEF taskVars
  <2> QED
    BY <2>1 DEF BoundIsNotified, Handling, storageVars
<1>2. ASSUME NEW w \in Workers, Goes(w)
      PROVE  BoundIsNotified'
  <2>0. \A e \in Events : delivered[e] > 0 => delivered'[e] > 0
    BY <1>2, SharedShape
  <2>1. ASSUME NEW e \in Events, Bound(e)
        PROVE  /\ e \in processed' => alertStatus'[e] # "NONE"
               /\ alertStatus'[e] = "SENT" => delivered'[e] > 0
    <3>0. /\ e \in processed => alertStatus[e] # "NONE"
          /\ alertStatus[e] = "SENT" => delivered[e] > 0
      BY <2>1 DEF BoundIsNotified
    <3>1. CASE UNCHANGED storageVars
      BY <2>0, <3>0, <3>1 DEF storageVars
    <3>2. ASSUME NEW m \in Msgs, Handling(w, m), PersistCommit(w, m)
          PROVE  /\ e \in processed' => alertStatus'[e] # "NONE"
                 /\ alertStatus'[e] = "SENT" => alertStatus[e] = "SENT"
      <4>1. PersistProcessingResult(EventOf[m], alert[w], rows[w])
        BY <3>2 DEF PersistCommit
      <4>2. CASE e # EventOf[m] \/ UNCHANGED storageVars
        BY <3>0, <4>1, <4>2 DEF PersistProcessingResult, storageVars, TypeOK, StorageTypeOK
      <4>3. CASE e = EventOf[m] /\ ~UNCHANGED storageVars
        <5>1. alert[w] = "price"
          BY <2>1, <3>2, <4>3 DEF PersistCommit, KindsAllowed
        <5>2. rows[w].status # "NONE" => alertStatus[e] # "NONE"
          BY <3>2, <4>3 DEF PersistCommit, RowsStillThere
        <5>3. alertStatus'[e] = Merged(rows[w].status, "PENDING", alertStatus[e])
          BY <4>1, <4>3, <5>1 DEF PersistProcessingResult, storageVars, TypeOK, StorageTypeOK
        <5> QED
          BY <5>2, <5>3 DEF Merged
      <4> QED
        BY <4>2, <4>3
    <3>3. ASSUME NEW m \in Msgs, Handling(w, m), MarkSent(w, m)
          PROVE  /\ UNCHANGED processed
                 /\ alertStatus[e] # "NONE" => alertStatus'[e] # "NONE"
                 /\ alertStatus'[e] = "SENT" => alertStatus[e] = "SENT" \/ e = EventOf[m]
                 /\ e = EventOf[m] => delivered[e] > 0
      BY <2>1, <3>3 DEF MarkSent, MarkAlertSent, SetStatus, TypeOK, StorageTypeOK,
         BoundIsNotified
    <3>4. ASSUME NEW m \in Msgs, Handling(w, m), MarkFailed(w, m)
          PROVE  /\ UNCHANGED processed
                 /\ alertStatus[e] # "NONE" => alertStatus'[e] # "NONE"
                 /\ alertStatus'[e] = "SENT" => alertStatus[e] = "SENT"
      BY <3>4 DEF MarkFailed, MarkAlertFailed, SetStatus, TypeOK, StorageTypeOK
    <3> QED
      BY <1>2, <2>0, <3>0, <3>1, <3>2, <3>3, <3>4, StepEffects
  <2>2. ASSUME NEW v \in Workers, NEW m \in Msgs, Handling(v, m)',
               EventOf[m] \in Events, Bound(EventOf[m]), pc'[v] \in {"markSent", "ack"}
        PROVE  delivered'[EventOf[m]] > 0
    <3>1. CASE v # w
      <4>1. pc'[v] = pc[v] /\ batch'[v] = batch[v]
        BY <1>2, <3>1, StepShape
      <4>2. delivered[EventOf[m]] > 0
        BY <2>2, <4>1 DEF BoundIsNotified, Handling
      <4> QED
        BY <2>0, <2>2, <4>2
    <3>2. CASE v = w
      <4>1. PICK k \in Msgs : Handling(w, k) /\ InPlace(w, k) /\ batch' = batch
        BY <1>2, <2>2, <3>2, StepShape
      <4>2. k = m
        BY <2>2, <3>2, <4>1 DEF Handling
      <4> USE DEF Goto, TypeOK, WorkerTypeOK
      <4>3. CASE CheckDone(w, m)
        BY <2>0, <2>2, <4>3 DEF CheckDone, Owed, BoundIsNotified, StorageTypeOK
      <4>4. CASE MarkSent(w, m)
        BY <2>0, <2>2, <4>1, <4>2, <4>4 DEF MarkSent, BoundIsNotified
      <4>5. CASE SendAccepted(w, m)
        BY <2>2, <4>5, TelegramAssumption DEF SendAccepted, Deliver, TelegramTypeOK
      <4>6. CASE SendThrottled(w, m) \/ PersistCommit(w, m)
        BY <2>2, <3>2, <4>1, <4>2, <4>6 DEF SendThrottled, Throttled, PersistCommit, KindsAllowed
      <4>7. CASE DeadLetter(w, m) \/ CheckOwed(w, m) \/ CheckNew(w, m)
                   \/ PersistLoad(w, m) \/ SendRejected(w, m) \/ SendFails(w, m)
                   \/ SendTimesOut(w, m)
        BY <2>2, <3>2, <4>7, WorkerAssumption
        DEF DeadLetter, CheckOwed, CheckNew, PersistLoad, SendRejected, SendFails,
            SendTimesOut
      <4> QED
        BY <4>1, <4>2, <4>3, <4>4, <4>5, <4>6, <4>7 DEF InPlace
    <3> QED
      BY <3>1, <3>2
  <2> QED
    BY <2>1, <2>2 DEF BoundIsNotified
<1> QED
  BY <1>1, <1>2 DEF Next

LEMMA NotifyInit == Init => NotifyInv
<1> SUFFICES ASSUME Init
             PROVE  NotifyInv
  OBVIOUS
<1>1. Acked = {}
  BY DEF Init, StreamInit, Acked
<1> QED
  BY GroupInit, <1>1 DEF Init, StorageInit, NotifyInv, KindsAllowed, BoundIsNotified,
     AckedWasNotified, Handling

LEMMA NotifyStep == NotifyInv /\ [Next]_vars => NotifyInv'
<1> SUFFICES ASSUME NotifyInv, [Next]_vars
             PROVE  NotifyInv'
  OBVIOUS
<1> USE DEF NotifyInv
<1>1. GroupInv' /\ KindsAllowed' /\ BoundIsNotified'
  BY GroupStep, KindsStep, BoundStep
<1>2. ASSUME NEW m \in Acked', NEW e \in Events, EventOf[m] = e, Bound(e)
      PROVE  delivered'[e] > 0
  <2>1. m \in Msgs
    BY <1>1, StreamAssumption DEF GroupInv, TypeOK, Acked, StreamTypeOK
  <2>2. CASE m \in Acked /\ (Publish \/ Tick \/ UNCHANGED vars)
    BY <1>2, <2>2, EnvironmentShape DEF GroupInv, AckedWasNotified, Bound
  <2>3. ASSUME NEW w \in Workers, Goes(w)
        PROVE  delivered'[e] > 0
    BY <1>2, <2>1, <2>3, SharedShape DEF GroupInv, AckedWasNotified, BoundIsNotified, Bound
  <2> QED
    BY <1>2, <2>2, <2>3, EnvironmentShape DEF Next, Acked, GroupInv
<1> QED
  BY <1>1, <1>2 DEF AckedWasNotified, Bound

\* No alert is lost: when an event that can only raise a price alert is
\* acknowledged, the chat received it, however many workers share the group and
\* whatever failed before.
THEOREM NoPriceAlertLost == Spec => []AckedWasNotified
<1>1. NotifyInv => AckedWasNotified
  BY DEF NotifyInv
<1> QED
  BY NotifyInit, NotifyStep, <1>1, PTL DEF Spec

-----------------------------------------------------------------------------
(* What the only worker knows *)

\* Nothing but the worker's own ack takes an entry of its batch out of the PEL.
LEMMA PendingStep ==
    ASSUME SingleWorker, GroupInv, BatchesPending, [Next]_vars
    PROVE  BatchesPending'
<1> USE DEF GroupInv
<1>1. CASE Publish \/ Tick \/ UNCHANGED vars
  BY <1>1, EnvironmentShape DEF taskVars, BatchesPending
<1>2. ASSUME NEW w \in Workers, Goes(w)
      PROVE  batch'[w] \subseteq pending'
  <2>1. batch'[w] \subseteq batch[w] \cup pending'
    BY <1>2, StepShape
  <2>2. CASE pending \subseteq pending'
    BY <2>1, <2>2 DEF BatchesPending
  <2>3. ASSUME NEW m \in Msgs, Ack(w, m)
        PROVE  batch'[w] \subseteq pending'
    BY <2>3 DEF Ack, StartLoop, XAck, BatchesPending, TypeOK, WorkerTypeOK
  <2> QED
    BY <1>2, <2>2, <2>3, StepEffects
<1> QED
  BY <1>1, <1>2 DEF Next, SingleWorker, BatchesPending

\* A commit of the only worker meets no conflict: it stores the event, and its
\* alert as PENDING.
LEMMA CommitStores ==
    ASSUME GroupInv, TaskKnows, NEW w \in Workers, NEW m \in Msgs, Handling(w, m),
           PersistCommit(w, m)
    PROVE  LET e == EventOf[m] IN
           /\ e \in Events /\ e \notin processed /\ alertStatus[e] = "NONE"
           /\ alert[w] \in Kinds
           /\ processed' = processed \cup {e}
           /\ alert[w] = "none" => UNCHANGED <<alertStatus, alertKind>>
           /\ alert[w] # "none" =>
                /\ alertStatus' = [alertStatus EXCEPT ![e] = "PENDING"]
                /\ alertKind' = [alertKind EXCEPT ![e] = alert[w]]
<1> DEFINE e == EventOf[m]
<1> USE DEF GroupInv
<1>1. pc[w] = "commit" /\ e \in Events
  BY DEF PersistCommit, TaskSettles
<1>2. e \notin processed /\ rows[w] = NoRows
  BY <1>1 DEF TaskKnows
<1>3. alertStatus[e] = "NONE" /\ alertKind[e] = "none"
  BY <1>1, <1>2 DEF AlertRowsSound
<1>4. ~Conflicts(e, alert[w], rows[w])
  BY <1>2, <1>3 DEF Conflicts, NoRows
<1>5. PersistProcessingResult(e, alert[w], rows[w])
  BY DEF PersistCommit
<1>6. rows[w].status = "NONE" /\ rows[w].kind = "none"
  BY <1>2 DEF NoRows
<1>7. alert[w] \in Kinds
  BY DEF TypeOK, WorkerTypeOK
<1> HIDE DEF e
<1>8. /\ processed' = processed \cup {e}
      /\ alert[w] = "none" => UNCHANGED <<alertStatus, alertKind>>
      /\ alert[w] # "none" =>
           /\ alertStatus' = [alertStatus EXCEPT ![e] = Merged("NONE", "PENDING", @)]
           /\ alertKind' = [alertKind EXCEPT ![e] = Merged("none", alert[w], @)]
  BY <1>4, <1>5, <1>6 DEF PersistProcessingResult
<1>9. /\ Merged("NONE", "PENDING", alertStatus[e]) = "PENDING"
      /\ alert[w] # "none" => Merged("none", alert[w], alertKind[e]) = alert[w]
  BY DEF Merged
<1> QED
  BY <1>1, <1>2, <1>3, <1>7, <1>8, <1>9 DEF e

LEMMA KnowsStep ==
    ASSUME SingleWorker, GroupInv, KindsAllowed, TaskKnows, [Next]_vars
    PROVE  TaskKnows'
<1> USE DEF GroupInv
<1>1. CASE Publish \/ Tick \/ UNCHANGED vars
  <2>1. UNCHANGED <<storageVars, delivered, pc, batch, alert, rows>>
    BY <1>1, EnvironmentShape DEF taskVars
  <2> QED
    BY <2>1 DEF TaskKnows, Handling, storageVars, Owed
<1>2. ASSUME NEW w \in Workers, Goes(w)
      PROVE  TaskKnows'
  <2> SUFFICES ASSUME NEW m \in Msgs, Handling(w, m)', EventOf[m] \in Events
               PROVE  /\ pc'[w] \in {"persist", "commit"} => EventOf[m] \notin processed'
                      /\ pc'[w] = "commit" => rows'[w] = NoRows
                      /\ pc'[w] \in {"send", "markSent", "markFailed"} =>
                           Owed(EventOf[m])' /\ alert'[w] = alertKind'[EventOf[m]]
                      /\ pc'[w] = "ack" => ~Owed(EventOf[m])'
                      /\ pc'[w] = "markSent" /\ alert'[w] = "price"
                           => delivered'[EventOf[m]] > 0
    BY DEF TaskKnows, SingleWorker
  <2>0. CASE pc'[w] \in {"down", "claim", "read", "check"}
    BY <2>0
  <2>1. CASE pc'[w] \notin {"down", "claim", "read", "check"}
    <3>1. PICK k \in Msgs : Handling(w, k) /\ InPlace(w, k) /\ batch' = batch
      BY <1>2, <2>1, StepShape
    <3>2. k = m
      BY <3>1 DEF Handling
    <3>3. Malformed # EventOf[m]
      BY WorkerAssumption
    <3> USE DEF Goto, TypeOK, WorkerTypeOK
    <3>4. CASE DeadLetter(w, m)
      BY <3>3, <3>4 DEF DeadLetter
    <3>5. CASE CheckDone(w, m)
      BY <3>5 DEF CheckDone, storageVars, Owed
    <3>6. CASE CheckOwed(w, m)
      BY <3>6 DEF CheckOwed, storageVars, Owed
    <3>7. CASE CheckNew(w, m)
      BY <3>7 DEF CheckNew, storageVars
    <3>8. CASE PersistLoad(w, m)
      <4>1. EventOf[m] \notin processed
        BY <3>1, <3>2, <3>8 DEF PersistLoad, TaskKnows
      <4>2. alertStatus[EventOf[m]] = "NONE" /\ alertKind[EventOf[m]] = "none"
        BY <4>1 DEF AlertRowsSound
      <4>3. (EventOf[m] \in processed) = FALSE
        BY <4>1
      <4>4. LoadRows(EventOf[m]) = NoRows
        BY <4>2, <4>3, Zenon DEF LoadRows, NoRows
      <4> QED
        BY <3>8, <4>1, <4>4 DEF PersistLoad, storageVars
    <3>9. CASE PersistCommit(w, m)
      <4>1. Owed(EventOf[m])' <=> alert[w] # "none"
        BY <3>1, <3>2, <3>9, CommitStores DEF Owed, StorageTypeOK
      <4>2. alert[w] # "none" => alertKind'[EventOf[m]] = alert[w]
        BY <3>1, <3>2, <3>9, CommitStores DEF StorageTypeOK
      <4> QED
        BY <3>9, <4>1, <4>2 DEF PersistCommit
    <3>10. CASE SendThrottled(w, m)
      BY <3>1, <3>2, <3>10
      DEF SendThrottled, Throttled, TaskKnows, Owed, storageVars
    <3>11. CASE SendAccepted(w, m)
      <4>1. delivered'[EventOf[m]] > 0
        BY <3>11, TelegramAssumption DEF SendAccepted, Deliver, TelegramTypeOK
      <4> QED
        BY <3>1, <3>2, <3>11, <4>1 DEF SendAccepted, TaskKnows, Owed, storageVars
    <3>12. CASE SendRejected(w, m) \/ SendFails(w, m) \/ SendTimesOut(w, m)
      BY <3>1, <3>2, <3>12
      DEF SendRejected, SendFails, SendTimesOut, TaskKnows, Owed, storageVars
    <3>13. CASE MarkSent(w, m)
      BY <3>1, <3>2, <3>13
      DEF MarkSent, MarkAlertSent, SetStatus, Owed, StorageTypeOK
    <3> QED
      BY <3>1, <3>2, <3>4, <3>5, <3>6, <3>7, <3>8, <3>9, <3>10, <3>11, <3>12, <3>13
      DEF InPlace
  <2> QED
    BY <2>0, <2>1
<1> QED
  BY <1>1, <1>2 DEF Next

-----------------------------------------------------------------------------
(* The outbox *)

\* How a step of the only worker changes an alert and what the chat got of it.
\* The worker handles a pending entry of the event in each of these cases.
LEMMA AlertChanges ==
    ASSUME SingleWorker, SingleInv, NEW w \in Workers, Goes(w), NEW e \in Events
    PROVE  \/ UNCHANGED <<alertStatus[e], alertKind[e], delivered[e]>>
           \/ \E m \in Msgs : /\ Handling(w, m) /\ EventOf[m] = e /\ m \in pending \cap pending'
                              /\ \/ /\ PersistCommit(w, m)
                                    /\ alertStatus[e] = "NONE" /\ alertStatus'[e] = "PENDING"
                                    /\ UNCHANGED delivered[e]
                                 \/ /\ MarkSent(w, m)
                                    /\ Owed(e) /\ alertStatus'[e] = "SENT"
                                    /\ alertKind[e] = "price" => delivered[e] > 0
                                    /\ UNCHANGED <<alertKind[e], delivered[e]>>
                                 \/ /\ MarkFailed(w, m)
                                    /\ Owed(e) /\ alertStatus'[e] = "FAILED"
                                    /\ UNCHANGED <<alertKind[e], delivered[e]>>
                                 \/ /\ SendAccepted(w, m) \/ SendTimesOut(w, m)
                                    /\ Owed(e)
                                    /\ UNCHANGED <<alertStatus[e], alertKind[e]>>
<1> USE DEF SingleInv, GroupInv
<1>0. \A m \in Msgs : Handling(w, m) => m \in pending
  BY DEF Handling, BatchesPending
<1>1. ASSUME NEW m \in Msgs, Handling(w, m), PersistCommit(w, m)
      PROVE  /\ UNCHANGED <<pending, delivered>>
             /\ \/ UNCHANGED <<alertStatus[e], alertKind[e]>>
                \/ EventOf[m] = e /\ alertStatus[e] = "NONE" /\ alertStatus'[e] = "PENDING"
  <2>1. UNCHANGED <<pending, delivered>>
    BY <1>1 DEF PersistCommit, streamVars, telegramVars
  <2> QED
    BY <1>1, <2>1, CommitStores DEF TypeOK, StorageTypeOK
<1>2. ASSUME NEW m \in Msgs, Handling(w, m), MarkSent(w, m)
      PROVE  /\ UNCHANGED <<pending, delivered, alertKind>>
             /\ \/ UNCHANGED alertStatus[e]
                \/ /\ EventOf[m] = e /\ Owed(e) /\ alertStatus'[e] = "SENT"
                   /\ alertKind[e] = "price" => delivered[e] > 0
  <2>1. /\ UNCHANGED <<pending, delivered, alertKind>>
        /\ pc[w] = "markSent"
        /\ EventOf[m] # e => UNCHANGED alertStatus[e]
    BY <1>2 DEF MarkSent, MarkAlertSent, SetStatus, streamVars, telegramVars,
       TypeOK, StorageTypeOK
  <2>2. EventOf[m] = e =>
          /\ Owed(e) /\ alert[w] = alertKind[e]
          /\ alert[w] = "price" => delivered[e] > 0
    BY <1>2, <2>1 DEF TaskKnows
  <2>3. EventOf[m] = e => alertStatus'[e] = "SENT"
    BY <1>2, <2>2 DEF MarkSent, MarkAlertSent, SetStatus, Owed, TypeOK, StorageTypeOK
  <2> QED
    BY <2>1, <2>2, <2>3
<1>3. ASSUME NEW m \in Msgs, Handling(w, m), MarkFailed(w, m)
      PROVE  /\ UNCHANGED <<pending, delivered, alertKind>>
             /\ \/ UNCHANGED alertStatus[e]
                \/ EventOf[m] = e /\ Owed(e) /\ alertStatus'[e] = "FAILED"
  <2>1. /\ UNCHANGED <<pending, delivered, alertKind>>
        /\ pc[w] = "markFailed"
        /\ EventOf[m] # e => UNCHANGED alertStatus[e]
    BY <1>3 DEF MarkFailed, MarkAlertFailed, SetStatus, streamVars, telegramVars,
       TypeOK, StorageTypeOK
  <2>2. EventOf[m] = e => Owed(e)
    BY <1>3, <2>1 DEF TaskKnows
  <2>3. EventOf[m] = e => alertStatus'[e] = "FAILED"
    BY <1>3, <2>2 DEF MarkFailed, MarkAlertFailed, SetStatus, Owed, TypeOK, StorageTypeOK
  <2> QED
    BY <2>1, <2>2, <2>3
<1>4. ASSUME NEW m \in Msgs, Handling(w, m), SendAccepted(w, m) \/ SendTimesOut(w, m)
      PROVE  /\ UNCHANGED <<pending, alertStatus, alertKind>>
             /\ UNCHANGED delivered[e] \/ (EventOf[m] = e /\ Owed(e))
  <2>1. UNCHANGED <<pending, alertStatus, alertKind>> /\ pc[w] = "send"
    BY <1>4 DEF SendAccepted, SendTimesOut, streamVars, storageVars
  <2>2. EventOf[m] # e => UNCHANGED delivered[e]
    BY <1>4 DEF SendAccepted, SendTimesOut, Deliver, TypeOK, TelegramTypeOK
  <2> QED
    BY <1>4, <2>1, <2>2 DEF TaskKnows
<1>5. \A m \in Msgs : Ack(w, m) => UNCHANGED <<alertStatus, alertKind, delivered>>
  BY DEF Ack, storageVars, telegramVars
<1> QED
  BY <1>0, <1>1, <1>2, <1>3, <1>4, StepEffects DEF storageVars

LEMMA SingleInit == Init => SingleInv
<1> SUFFICES ASSUME Init
             PROVE  SingleInv
  OBVIOUS
<1>1. GroupInv /\ KindsAllowed
  BY NotifyInit DEF NotifyInv
<1> QED
  BY <1>1 DEF Init, StorageInit, TelegramInit, SingleInv, BatchesPending, TaskKnows,
     OwedIsRetried, Owed, SentPriceWasDelivered, DeliveredIsStored, Handling

LEMMA SingleStep == SingleWorker /\ SingleInv /\ [Next]_vars => SingleInv'
<1> SUFFICES ASSUME SingleWorker, SingleInv, [Next]_vars
             PROVE  SingleInv'
  OBVIOUS
<1>1. /\ GroupInv' /\ KindsAllowed' /\ BatchesPending' /\ TaskKnows'
  BY GroupStep, KindsStep, PendingStep, KnowsStep DEF SingleInv
<1>2. CASE Publish \/ Tick \/ UNCHANGED vars
  <2>1. UNCHANGED <<pending, storageVars, delivered>>
    BY <1>2, EnvironmentShape DEF SingleInv, GroupInv
  <2> QED
    BY <1>1, <2>1 DEF SingleInv, OwedIsRetried, Owed, SentPriceWasDelivered,
       DeliveredIsStored, storageVars
<1>3. ASSUME NEW w \in Workers, Goes(w), NEW e \in Events
      PROVE  /\ Owed(e)' => \E m \in pending' : EventOf[m] = e
             /\ alertStatus'[e] = "SENT" /\ alertKind'[e] = "price" => delivered'[e] > 0
             /\ delivered'[e] > 0 => alertStatus'[e] # "NONE"
  <2>0. /\ Owed(e) => \E m \in pending : EventOf[m] = e
        /\ alertStatus[e] = "SENT" /\ alertKind[e] = "price" => delivered[e] > 0
        /\ delivered[e] > 0 => alertStatus[e] # "NONE"
    BY DEF SingleInv, OwedIsRetried, SentPriceWasDelivered, DeliveredIsStored
  <2>1. CASE UNCHANGED <<alertStatus[e], alertKind[e], delivered[e]>>
    <3>1. Owed(e)' => Owed(e)
      BY <2>1 DEF Owed
    <3>2. ASSUME NEW m \in Msgs, Handling(w, m), Ack(w, m), EventOf[m] = e
          PROVE  ~Owed(e)
      BY <3>2 DEF Ack, SingleInv, TaskKnows
    <3>3. ASSUME NEW m \in Msgs, Handling(w, m), Ack(w, m), EventOf[m] # e, Owed(e)
          PROVE  \E k \in pending' : EventOf[k] = e
      BY <2>0, <3>3 DEF Ack, XAck
    <3> QED
      BY <1>3, <2>0, <2>1, <3>1, <3>2, <3>3, StepEffects
  <2>2. CASE ~UNCHANGED <<alertStatus[e], alertKind[e], delivered[e]>>
    <3>1. PICK m \in Msgs : /\ EventOf[m] = e /\ m \in pending'
                            /\ \/ /\ alertStatus'[e] = "PENDING"
                                  /\ UNCHANGED delivered[e]
                               \/ /\ Owed(e) /\ alertStatus'[e] = "SENT"
                                  /\ alertKind[e] = "price" => delivered[e] > 0
                                  /\ UNCHANGED <<alertKind[e], delivered[e]>>
                               \/ /\ Owed(e) /\ alertStatus'[e] = "FAILED"
                                  /\ UNCHANGED delivered[e]
                               \/ /\ Owed(e)
                                  /\ UNCHANGED <<alertStatus[e], alertKind[e]>>
      BY <1>3, <2>2, AlertChanges
    <3> QED
      BY <2>0, <3>1 DEF Owed
  <2> QED
    BY <2>1, <2>2
<1> QED
  BY <1>1, <1>2, <1>3 DEF Next, SingleInv, OwedIsRetried, SentPriceWasDelivered,
     DeliveredIsStored

\* With one worker, an alert that is stored but not SENT has a pending entry
\* whose redelivery sends it again, at every moment and after any failure.
THEOREM OwedAlertsAreRetried ==
    ASSUME SingleWorker
    PROVE  Spec => []OwedIsRetried
<1>1. SingleInv /\ [Next]_vars => SingleInv'
  BY SingleStep
<1>2. SingleInv => OwedIsRetried
  BY DEF SingleInv
<1> QED
  BY SingleInit, <1>1, <1>2, PTL DEF Spec

\* With one worker, a price alert is marked SENT only after the chat got it.
THEOREM SentPricesWereDelivered ==
    ASSUME SingleWorker
    PROVE  Spec => []SentPriceWasDelivered
<1>1. SingleInv /\ [Next]_vars => SingleInv'
  BY SingleStep
<1>2. SingleInv => SentPriceWasDelivered
  BY DEF SingleInv
<1> QED
  BY SingleInit, <1>1, <1>2, PTL DEF Spec

\* With one worker, the chat hears of stored alerts only: nothing is sent before its
\* transaction has committed (process_message), whatever fails or is redelivered.
THEOREM DeliveredAlertsAreStored ==
    ASSUME SingleWorker
    PROVE  Spec => []DeliveredIsStored
<1>1. SingleInv /\ [Next]_vars => SingleInv'
  BY SingleStep
<1>2. SingleInv => DeliveredIsStored
  BY DEF SingleInv
<1> QED
  BY SingleInit, <1>1, <1>2, PTL DEF Spec

\* With one worker, SENT is final: neither a redelivery nor a second entry of the
\* event changes the alert or sends it again.
THEOREM SentStaysSent ==
    ASSUME SingleWorker
    PROVE  Spec => SentIsFinal
<1>1. SingleInv /\ [Next]_vars =>
        [\A e \in Events : alertStatus[e] = "SENT" =>
            alertStatus'[e] = "SENT" /\ delivered'[e] = delivered[e]]_vars
  <2> SUFFICES ASSUME SingleInv, [Next]_vars,
                      NEW e \in Events, alertStatus[e] = "SENT"
               PROVE  alertStatus'[e] = "SENT" /\ delivered'[e] = delivered[e]
    OBVIOUS
  <2>1. CASE Publish \/ Tick \/ UNCHANGED vars
    BY <2>1, EnvironmentShape DEF SingleInv, GroupInv, storageVars
  <2>2. ASSUME NEW w \in Workers, Goes(w)
        PROVE  UNCHANGED <<alertStatus[e], delivered[e]>>
    BY <2>2, AlertChanges DEF Owed
  <2> QED
    BY <2>1, <2>2 DEF Next
<1>2. SingleInv /\ [Next]_vars => SingleInv'
  BY SingleStep
<1> QED
  BY SingleInit, <1>1, <1>2, PTL DEF Spec, SentIsFinal

-----------------------------------------------------------------------------
(* Refinement *)

\* Entries are finished by the ack alone.
LEMMA FinishedShape ==
    ASSUME TypeOK, NEW w \in Workers, Goes(w)
    PROVE  \/ UNCHANGED Acked
           \/ \E m \in Msgs : /\ Handling(w, m) /\ Ack(w, m)
                              /\ Acked' = (1..cursor) \ (pending \ {m})
<1> USE DEF Acked
<1>1. CASE Read(w)
  <2>1. cursor \in Nat /\ cursor' \in Nat /\ cursor <= cursor' /\ cursor' <= cursor + BatchSize
    BY <1>1, StreamAssumption DEF Read, ReadBatch, TypeOK, StreamTypeOK
  <2>2. pending' = pending \cup Fresh /\ cursor' <= published
    BY <1>1, StreamAssumption DEF Read, ReadBatch, TypeOK, StreamTypeOK
  <2>3. ASSUME NEW m \in 1..cursor', m \notin 1..cursor
        PROVE  m \in Fresh
    BY <2>1, <2>2, <2>3, StreamAssumption DEF Fresh, TypeOK, StreamTypeOK
  <2>4. ASSUME NEW m \in 1..cursor
        PROVE  m \notin Fresh
    BY <2>1 DEF Fresh
  <2>5. 1..cursor \subseteq 1..cursor'
    BY <2>1
  <2> QED
    BY <2>2, <2>3, <2>4, <2>5
<1>2. CASE Start(w) \/ Claim(w) \/ ClaimFails(w) \/ StepFails(w) \/ Crash(w)
  BY <1>2 DEF Start, Claim, ClaimFails, StepFails, Crash, ClaimStale, streamVars
<1>3. ASSUME NEW m \in Msgs, Handling(w, m), MarkFailed(w, m)
      PROVE  UNCHANGED Acked
  BY <1>3 DEF MarkFailed, streamVars
<1>4. ASSUME NEW m \in Msgs, Handling(w, m), Ack(w, m)
      PROVE  Acked' = (1..cursor) \ (pending \ {m})
  BY <1>4 DEF Ack, XAck
<1>5. ASSUME NEW m \in Msgs, Handling(w, m), InPlace(w, m)
      PROVE  UNCHANGED Acked
  BY <1>5 DEF InPlace, DeadLetter, CheckDone, CheckOwed, CheckNew, PersistLoad,
     PersistCommit, SendThrottled, SendAccepted, SendRejected, SendFails, SendTimesOut,
     MarkSent, PublishDlq, streamVars
<1> QED
  BY GoesCases, <1>1, <1>2, <1>3, <1>4, <1>5

\* The state of an event's alert in the outbox, and the events told.
OutboxOf(e) == IF Owed(e) THEN "owed" ELSE IF alertStatus[e] = "SENT" THEN "closed" ELSE "none"
Told == {e \in Events : delivered[e] > 0}

LEMMA OutboxInit == Init => Outbox!Init
<1> SUFFICES ASSUME Init
             PROVE  Outbox!Init
  OBVIOUS
<1>1. Acked = {}
  BY DEF Init, StreamInit, Acked
<1> QED
  BY <1>1 DEF Init, StorageInit, TelegramInit, Outbox!Init, Owed

LEMMA OutboxStep ==
    ASSUME SingleWorker, SingleInv, [Next]_vars
    PROVE  [Outbox!Next]_(Outbox!outboxVars)
<1> USE DEF SingleInv, GroupInv
<1>1. CASE Publish \/ Tick \/ UNCHANGED vars
  BY <1>1, EnvironmentShape DEF Outbox!outboxVars, storageVars, Owed, Acked
<1>2. ASSUME NEW w \in Workers, Goes(w)
      PROVE  [Outbox!Next]_(Outbox!outboxVars)
  <2>1. CASE UNCHANGED <<processed, alertStatus, delivered, Acked>>
    BY <2>1 DEF Outbox!outboxVars, Owed
  <2>2. ASSUME NEW m \in Msgs, Handling(w, m), PersistCommit(w, m)
        PROVE  Outbox!Store(EventOf[m]) /\ EventOf[m] \in Events
    <3> DEFINE e == EventOf[m]
    <3>1. e \in Events /\ e \notin processed /\ processed' = processed \cup {e}
      BY <2>2, CommitStores
    <3>2. UNCHANGED <<delivered, Acked>>
      BY <2>2 DEF PersistCommit, streamVars, telegramVars, Acked
    <3>3. \/ UNCHANGED alertStatus
          \/ alertStatus' = [alertStatus EXCEPT ![e] = "PENDING"]
      BY <2>2, CommitStores
    <3>4. \/ [f \in Events |-> OutboxOf(f)]' = [f \in Events |-> OutboxOf(f)]
          \/ [f \in Events |-> OutboxOf(f)]' =
               [[f \in Events |-> OutboxOf(f)] EXCEPT ![e] = "owed"]
      BY <3>1, <3>3 DEF OutboxOf, Owed, TypeOK, StorageTypeOK
    <3> QED
      BY <3>1, <3>2, <3>4 DEF Outbox!Store, OutboxOf
  <2>3. ASSUME NEW m \in Msgs, Handling(w, m), MarkSent(w, m)
        PROVE  Outbox!Close(EventOf[m]) /\ EventOf[m] \in Events
    <3> DEFINE e == EventOf[m]
    <3>1. /\ e \in Events /\ Owed(e)
          /\ alertKind[e] = "price" => delivered[e] > 0
          /\ alertKind[e] \in Outcomes[e] \ {"none"} /\ alertKind[e] \in Kinds
      BY <2>3 DEF MarkSent, TaskSettles, TaskKnows, KindsAllowed, TypeOK, StorageTypeOK
    <3>2. UNCHANGED <<processed, delivered, Acked>>
      BY <2>3 DEF MarkSent, MarkAlertSent, SetStatus, streamVars, telegramVars, Acked
    <3>3. alertStatus' = [alertStatus EXCEPT ![e] = "SENT"]
      BY <2>3, <3>1 DEF MarkSent, MarkAlertSent, SetStatus, Owed
    <3>4. [f \in Events |-> OutboxOf(f)]' =
            [[f \in Events |-> OutboxOf(f)] EXCEPT ![e] = "closed"]
      BY <3>1, <3>3 DEF OutboxOf, Owed, TypeOK, StorageTypeOK
    <3>5. e \in Told \cup {f \in Events : "funding" \in Outcomes[f]}
      BY <3>1 DEF Told
    <3> QED
      BY <3>1, <3>2, <3>4, <3>5 DEF Outbox!Close, OutboxOf, Told
  <2>4. ASSUME NEW m \in Msgs, Handling(w, m), SendAccepted(w, m) \/ SendTimesOut(w, m)
        PROVE  /\ EventOf[m] \in Events
               /\ Outbox!Tell(EventOf[m])
    <3> DEFINE e == EventOf[m]
    <3>1. e \in Events /\ Owed(e)
      BY <2>4 DEF SendAccepted, SendTimesOut, TaskSettles, TaskKnows
    <3>2. UNCHANGED <<processed, alertStatus, Acked>>
      BY <2>4 DEF SendAccepted, SendTimesOut, streamVars, storageVars, Acked
    <3>3. delivered' = [delivered EXCEPT ![e] = IF @ < DeliveryCap THEN @ + 1 ELSE @]
      BY <2>4 DEF SendAccepted, SendTimesOut, Deliver
    <3>4. Told' = Told \cup {e}
      BY <3>1, <3>3, TelegramAssumption DEF Told, TypeOK, TelegramTypeOK
    <3> QED
      BY <3>1, <3>2, <3>4 DEF Outbox!Tell, Told, Owed
  <2>5. ASSUME NEW m \in Msgs, Handling(w, m), MarkFailed(w, m)
        PROVE  UNCHANGED Outbox!outboxVars
    <3> DEFINE e == EventOf[m]
    <3>1. e \in Events /\ Owed(e)
      BY <2>5 DEF MarkFailed, TaskSettles, TaskKnows
    <3>2. UNCHANGED <<processed, delivered, Acked>>
      BY <2>5 DEF MarkFailed, MarkAlertFailed, SetStatus, streamVars, telegramVars, Acked
    <3>3. alertStatus' = [alertStatus EXCEPT ![e] = "FAILED"]
      BY <2>5, <3>1 DEF MarkFailed, MarkAlertFailed, SetStatus, Owed
    <3>4. [f \in Events |-> OutboxOf(f)]' = [f \in Events |-> OutboxOf(f)]
      BY <3>1, <3>3 DEF OutboxOf, Owed, TypeOK, StorageTypeOK
    <3> QED
      BY <3>2, <3>4 DEF Outbox!outboxVars, OutboxOf
  <2>6. ASSUME NEW m \in Msgs, Handling(w, m), Ack(w, m)
        PROVE  Outbox!Finish(m)
    <3>1. UNCHANGED <<processed, alertStatus, delivered>> /\ pc[w] = "ack"
      BY <2>6 DEF Ack, storageVars, telegramVars
    <3>2. m \in pending /\ m \in 1..cursor
      BY <2>6 DEF Handling, BatchesPending, BatchesHandedOut
    <3>3. m \notin Acked /\ Acked' = Acked \cup {m}
      BY <2>6, <3>2 DEF Ack, XAck, Acked
    <3>4. EventOf[m] # Malformed => EventOf[m] \in processed /\ ~Owed(EventOf[m])
      BY <2>6, <3>1, WorkerAssumption DEF TaskSettles, Settled, TaskKnows
    <3>5. EventOf[m] # Malformed => EventOf[m] \in Events
      BY WorkerAssumption
    <3> QED
      BY <3>1, <3>3, <3>4, <3>5 DEF Outbox!Finish, Owed
  <2>7. ASSUME ~(\E m \in Msgs : Handling(w, m) /\ Ack(w, m))
        PROVE  UNCHANGED Acked
    BY <1>2, <2>7, FinishedShape
  <2> QED
    BY <1>2, <2>1, <2>2, <2>3, <2>4, <2>5, <2>6, <2>7, StepEffects
    DEF Outbox!Next, storageVars
<1> QED
  BY <1>1, <1>2 DEF Next

\* With one worker, the worker, the consumer group, the storage and the notifier
\* together implement the outbox: whatever fails, an event is stored once with its
\* alert, an alert is owed until the chat was told or it was throttled, and an
\* entry is finished only when nothing is owed about its event.
THEOREM WorkerImplementsOutbox ==
    ASSUME SingleWorker
    PROVE  Spec => ImplementsOutbox
<1>1. SingleInv /\ [Next]_vars => SingleInv'
  BY SingleStep
<1>2. SingleInv /\ [Next]_vars => [Outbox!Next]_(Outbox!outboxVars)
  BY OutboxStep
<1> QED
  BY SingleInit, OutboxInit, <1>1, <1>2, PTL DEF Spec, ImplementsOutbox, Outbox!Spec
=============================================================================
