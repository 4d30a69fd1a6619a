------------------------ MODULE RedisStreamConsumer ------------------------
(***************************************************************************)
(* The consumer group behind made_core/infrastructure/redis_consumer.py,   *)
(* as the worker uses it: entries are appended by the ingestion publisher, *)
(* handed out once by XREADGROUP ">", kept in the pending entries list     *)
(* (PEL) until XACK, and taken over by XAUTOCLAIM when they have been idle *)
(* for long enough.  The group is created at id "0", so it sees the whole  *)
(* stream.  Stream ids are the numbers 1..NumMsgs in publication order.    *)
(* The owner recorded in the PEL is left out: XACK ignores it, and         *)
(* XAUTOCLAIM takes entries from every consumer, the caller included.      *)
(* This module only holds the group's state and the fragments of it that   *)
(* one call changes; MadeCoreWorker composes them into steps.              *)
(***************************************************************************)
EXTENDS Naturals, FiniteSets

CONSTANTS
    NumMsgs,            \* bound: number of entries ever published
    BatchSize,          \* batch_size, COUNT of XREADGROUP
    PelClaimBatchSize,  \* pel_claim_batch_size, COUNT of XAUTOCLAIM
    MinIdle             \* pel_claim_min_idle_ms, in ticks of the clock

ASSUME StreamAssumption ==
    /\ NumMsgs \in Nat
    /\ BatchSize \in Nat \ {0}
    /\ PelClaimBatchSize \in Nat \ {0}
    /\ MinIdle \in Nat

VARIABLES
    published,   \* number of entries in the stream
    cursor,      \* last-delivered-id of the group
    pending,     \* the group's PEL
    idle,        \* ticks since a pending entry was last handed out, capped
    deadLetter   \* entries copied to the dead-letter stream

streamVars == <<published, cursor, pending, idle, deadLetter>>

Msgs == 1..NumMsgs

\* Entries that were handed out and then acknowledged.
Acked == (1..cursor) \ pending

StreamInit ==
    /\ published = 0
    /\ cursor = 0
    /\ pending = {}
    /\ idle = [m \in Msgs |-> 0]
    /\ deadLetter = {}

StreamTypeOK ==
    /\ published \in 0..NumMsgs
    /\ cursor \in 0..published
    /\ pending \subseteq 1..cursor
    /\ idle \in [Msgs -> 0..MinIdle]
    /\ deadLetter \subseteq Msgs

-----------------------------------------------------------------------------
\* XADD by the ingestion side.
XAdd ==
    /\ published < NumMsgs
    /\ published' = published + 1
    /\ UNCHANGED <<cursor, pending, idle, deadLetter>>

\* What the next XREADGROUP ">" returns: at most BatchSize new entries.
Fresh == {m \in 1..published : cursor < m /\ m <= cursor + BatchSize}

\* Mutant: the cursor moves past the end of the stream.
ReadPastEnd ==
    /\ cursor' = cursor + BatchSize
    /\ pending' = pending \cup Fresh
    /\ idle' = [m \in Msgs |-> IF m \in Fresh THEN 0 ELSE idle[m]]
    /\ UNCHANGED <<published, deadLetter>>

\* read_batch: the entries returned enter the PEL with idle time zero.
ReadBatch ==
    /\ cursor' = IF cursor + BatchSize < published THEN cursor + BatchSize
                                                   ELSE published
    /\ pending' = pending \cup Fresh
    /\ idle' = [m \in Msgs |-> IF m \in Fresh THEN 0 ELSE idle[m]]
    /\ UNCHANGED <<published, deadLetter>>

\* What XAUTOCLAIM from "0-0" returns: the PelClaimBatchSize lowest ids among
\* the entries that have been idle for at least MinIdle.
Stale ==
    LET ripe == {m \in pending : idle[m] >= MinIdle}
    IN  {m \in ripe : Cardinality({k \in ripe : k < m}) < PelClaimBatchSize}

\* claim_stale_messages: the claimed entries stay pending, idle time zero.
ClaimStale ==
    /\ idle' = [m \in Msgs |-> IF m \in Stale THEN 0 ELSE idle[m]]
    /\ UNCHANGED <<published, cursor, pending, deadLetter>>

\* _ack_message: XACK of an entry that is no longer pending changes nothing.
XAck(m) ==
    /\ pending' = pending \ {m}
    /\ idle' = [idle EXCEPT ![m] = 0]
    /\ UNCHANGED <<published, cursor, deadLetter>>

\* _publish_dlq: XADD of a copy to the dead-letter stream.
PublishDlq(m) ==
    /\ deadLetter' = deadLetter \cup {m}
    /\ UNCHANGED <<published, cursor, pending, idle>>

\* One tick of the clock for every pending entry.
StreamTick ==
    /\ idle' = [m \in Msgs |-> IF m \in pending /\ idle[m] < MinIdle
                               THEN idle[m] + 1 ELSE idle[m]]
    /\ UNCHANGED <<published, cursor, pending, deadLetter>>
=============================================================================
