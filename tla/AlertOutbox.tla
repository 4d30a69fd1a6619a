---------------------------- MODULE AlertOutbox ----------------------------
(***************************************************************************)
(* What the worker promises to whoever publishes market events, with the   *)
(* consumer group, the batches, the transactions and the failures left     *)
(* out: an event is stored once, together with the alert it raises; the    *)
(* alert is owed until the chat was told; an entry of the stream is        *)
(* finished only when nothing about its event is owed any more.            *)
(***************************************************************************)

CONSTANTS
    Msgs,        \* entries of the stream
    Events,
    Malformed,   \* what an undecodable entry holds instead of an event
    EventOf,
    MayThrottle  \* events whose alert the anti-spam throttle may suppress

VARIABLES
    stored,    \* events stored
    outbox,    \* the alert of each event: "none", "owed" or "closed"
    told,      \* events whose alert the chat received
    finished   \* entries finished

outboxVars == <<stored, outbox, told, finished>>

Init ==
    /\ stored = {}
    /\ outbox = [e \in Events |-> "none"]
    /\ told = {}
    /\ finished = {}

\* An event is stored, with its alert if it raises one.
Store(e) ==
    /\ e \notin stored
    /\ stored' = stored \cup {e}
    /\ \/ outbox' = [outbox EXCEPT ![e] = "owed"]
       \/ UNCHANGED outbox
    /\ UNCHANGED <<told, finished>>

\* The chat is told, possibly again, as long as the alert is owed.
Tell(e) ==
    /\ outbox[e] = "owed"
    /\ told' = told \cup {e}
    /\ UNCHANGED <<stored, outbox, finished>>

\* The alert is closed once the chat was told, or because it was throttled.
Close(e) ==
    /\ outbox[e] = "owed"
    /\ e \in told \cup MayThrottle
    /\ outbox' = [outbox EXCEPT ![e] = "closed"]
    /\ UNCHANGED <<stored, told, finished>>

\* An entry is finished when it holds no event, or its event is stored and
\* nothing is owed about it.
Finish(m) ==
    /\ m \notin finished
    /\ EventOf[m] # Malformed =>
         EventOf[m] \in stored /\ outbox[EventOf[m]] # "owed"
    /\ finished' = finished \cup {m}
    /\ UNCHANGED <<stored, outbox, told>>

Next ==
    \/ \E e \in Events : Store(e) \/ Tell(e) \/ Close(e)
    \/ \E m \in Msgs : Finish(m)

Spec == Init /\ [][Next]_outboxVars
=============================================================================
