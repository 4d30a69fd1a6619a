---------------------------- MODULE WorkerProcess ----------------------------
(***************************************************************************)
(* The worker as a process under Docker: the start-up of entrypoint.main,  *)
(* the loop of MadeCoreWorker.run and its stop flag, signals, and restarts *)
(* in the middle of a batch.  What the process does to an entry is reduced *)
(* to its commit and its acknowledgement; MadeCoreWorker has the detail.   *)
(***************************************************************************)
EXTENDS Naturals, FiniteSets, Sequences

CONSTANTS
    Events,
    BatchSize,     \* batch_size and pel_claim_batch_size
    MaxStream,     \* bound: entries in the stream
    MaxFaults      \* bound: failed start-ups, failed batches and crashes

ASSUME ProcessAssumption ==
    /\ BatchSize \in Nat \ {0}
    /\ MaxStream \in Nat /\ MaxFaults \in Nat

VARIABLES
    phase,     \* where the process is, "down" when there is none
    running,   \* _running
    batch,     \* entries of the batch still to be handled
    docker,    \* "up", or while a restart waits for the process to end, "stopping"
               \* if the signal found its loop and "ignored" if it was starting
    lives,     \* processes started so far
    stream,    \* the events of the input stream, in order
    cursor,    \* entries handed out by the consumer group
    pending,   \* entries handed out and not acknowledged
    storedBy,  \* per event, the entry whose transaction stored it and the process
    faults

process == <<phase, running, batch, docker, lives>>
group == <<cursor, pending>>
processVars == <<process, stream, group, storedBy, faults>>

Starting == {"initialize", "purge", "reinitialize"}
Looping == {"loop", "claim", "claimed", "handed", "store", "ack"}

Nobody == [entry |-> 0, life |-> 0]

ProcessInit ==
    /\ phase = "loop" /\ running = TRUE /\ batch = << >>
    /\ docker = "up" /\ lives = 1
    /\ stream = << >> /\ cursor = 0 /\ pending = {}
    /\ storedBy = [e \in Events |-> Nobody]
    /\ faults = 0

Stored(e) == storedBy[e] # Nobody

Fault == faults < MaxFaults /\ faults' = faults + 1

-----------------------------------------------------------------------------
(* Start-up *)

\* asyncio.run(main()) after Docker has started the container.
Boot ==
    /\ phase = "down"
    /\ phase' = "initialize" /\ running' = FALSE /\ batch' = << >>
    /\ docker' = "up" /\ lives' = lives + 1
    /\ UNCHANGED <<stream, group, storedBy, faults>>

\* __aenter__, purge_normal_detections and the initialize of run, in that order.
StartUp ==
    /\ \/ phase = "initialize" /\ phase' = "purge"
       \/ phase = "purge" /\ phase' = "reinitialize"
    /\ UNCHANGED <<running, batch, docker, lives, stream, group, storedBy, faults>>

\* run sets _running only here: a signal that came earlier is forgotten.
EnterLoop ==
    /\ phase = "reinitialize"
    /\ phase' = "loop" /\ running' = TRUE
    /\ UNCHANGED <<batch, docker, lives, stream, group, storedBy, faults>>

\* An exception during start-up ends the process.
StartUpFails ==
    /\ phase \in Starting
    /\ Fault
    /\ phase' = "down" /\ running' = FALSE
    /\ UNCHANGED <<batch, docker, lives, stream, group, storedBy>>

-----------------------------------------------------------------------------
(* The loop *)

TestRunning ==
    /\ phase = "loop"
    /\ phase' = IF running THEN "claim" ELSE "close"
    /\ UNCHANGED <<running, batch, docker, lives, stream, group, storedBy, faults>>

\* The first entries of a set, in stream order: there is one such sequence.
FirstOf(S) ==
    LET n == IF Cardinality(S) < BatchSize THEN Cardinality(S) ELSE BatchSize
    IN  {q \in [1..n -> S] :
           /\ \A i, j \in 1..n : i < j => q[i] < q[j]
           /\ \A i \in 1..n, m \in S : m < q[i] => \E j \in 1..n : q[j] = m}

\* XAUTOCLAIM returns the entries that have been pending long enough.
Claim ==
    /\ phase = "claim"
    /\ phase' = "claimed" /\ batch' \in FirstOf(pending)
    /\ UNCHANGED <<running, docker, lives, stream, group, storedBy, faults>>

ClaimTooEarly ==
    /\ phase = "claim" /\ pending # {}
    /\ phase' = "claimed" /\ batch' = << >>
    /\ UNCHANGED <<running, docker, lives, stream, group, storedBy, faults>>

\* XREADGROUP, after the claimed entries are handled.
Read ==
    /\ phase = "claimed" /\ batch = << >>
    /\ batch' \in FirstOf((cursor + 1)..Len(stream))
    /\ cursor' = cursor + Len(batch')
    /\ pending' = pending \cup {batch'[i] : i \in DOMAIN batch'}
    /\ phase' = "handed"
    /\ UNCHANGED <<running, docker, lives, stream, storedBy, faults>>

BatchDone ==
    /\ phase = "handed" /\ batch = << >>
    /\ phase' = "loop"
    /\ UNCHANGED <<running, batch, docker, lives, stream, group, storedBy, faults>>

\* The event of the entry is stored, unless it is already.
Saved(e) ==
    IF Stored(e) THEN storedBy
    ELSE [storedBy EXCEPT ![e] = [entry |-> Head(batch), life |-> lives]]

\* The transaction of the first entry of the batch.
Store ==
    /\ phase \in {"claimed", "handed"} /\ batch # << >>
    /\ storedBy' = Saved(stream[Head(batch)])
    /\ phase' = IF phase = "claimed" THEN "store" ELSE "ack"
    /\ UNCHANGED <<running, batch, docker, lives, stream, group, faults>>

\* XACK; "store" is the acknowledgement of a claimed entry, "ack" of a new one.
Ack ==
    /\ phase \in {"store", "ack"}
    /\ pending' = pending \ {Head(batch)}
    /\ batch' = Tail(batch)
    /\ phase' = IF phase = "store" THEN "claimed" ELSE "handed"
    /\ UNCHANGED <<running, docker, lives, stream, cursor, storedBy, faults>>

\* An exception gives up the rest of the batch; the loop goes on after a pause.
BatchFails ==
    /\ phase \in Looping \ {"loop"}
    /\ Fault
    /\ phase' = "loop" /\ batch' = << >>
    /\ UNCHANGED <<running, docker, lives, stream, group, storedBy>>

\* The notifier, the storage and the consumer are closed and the process exits.
Close ==
    /\ phase = "close"
    /\ phase' = "down"
    /\ UNCHANGED <<running, batch, docker, lives, stream, group, storedBy, faults>>

-----------------------------------------------------------------------------
(* Docker *)

\* Mutant: the signal stops the consumer only.
StopConsumerOnly == running' = running

\* The signal handler calls stop().
Stop == running' = FALSE

\* docker compose restart: SIGTERM, then the container is started once the
\* process has ended.
Terminate ==
    /\ docker = "up"
    /\ docker' = IF phase \in Looping THEN "stopping" ELSE "ignored"
    /\ Stop
    /\ UNCHANGED <<phase, batch, lives>>

\* SIGKILL at the end of the grace period.
Kill ==
    /\ docker # "up" /\ phase # "down"
    /\ phase' = "down" /\ batch' = << >> /\ running' = FALSE
    /\ UNCHANGED <<docker, lives, stream, group, storedBy, faults>>

\* The process dies; the restart policy starts another one.
Crash ==
    /\ phase # "down"
    /\ Fault
    /\ phase' = "down" /\ batch' = << >> /\ running' = FALSE
    /\ UNCHANGED <<docker, lives, stream, group, storedBy>>

-----------------------------------------------------------------------------
\* XADD
Publish(e) ==
    /\ Len(stream) < MaxStream
    /\ stream' = Append(stream, e)

WorkerRuns ==
    \/ Boot \/ StartUp \/ EnterLoop \/ TestRunning
    \/ Claim \/ ClaimTooEarly \/ Read \/ BatchDone \/ Store \/ Ack \/ Close

Disturbed == StartUpFails \/ BatchFails \/ Kill \/ Crash
=============================================================================
