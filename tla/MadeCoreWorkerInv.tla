------------------------- MODULE MadeCoreWorkerInv -------------------------
(***************************************************************************)
(* Inductive invariants of MadeCoreWorker.  GroupInv holds of any number   *)
(* of workers, SingleInv of one: it speaks of what the only worker knows   *)
(* about the rows and entries it is working on.                            *)
(***************************************************************************)
EXTENDS MadeCoreWorker

\* At most one worker process, as docker-compose.yml deploys it.
SingleWorker == \A v, w \in Workers : v = w

\* Events that can only raise a price alert.
Bound(e) == Outcomes[e] = {"price"}

-----------------------------------------------------------------------------
(* Any number of workers *)

\* Entries are handled after they were handed out.
BatchesHandedOut == \A w \in Workers : batch[w] \subseteq 1..cursor

\* An alert row exists only with its processed_events row, and has a kind.
AlertRowsSound ==
    \A e \in Events :
        /\ alertStatus[e] # "NONE" => e \in processed
        /\ alertStatus[e] = "NONE" <=> alertKind[e] = "none"

\* How far the handling of entry m has come, by the position of its worker.
TaskSettles ==
    \A w \in Workers, m \in Msgs : Handling(w, m) =>
        /\ pc[w] \in {"persist", "commit", "send", "markSent", "markFailed"} =>
             EventOf[m] \in Events
        /\ pc[w] \in {"send", "markSent", "markFailed"} => EventOf[m] \in processed
        /\ pc[w] = "ack" => Settled(m)

\* What a transaction loaded is still there when it commits.
RowsStillThere ==
    \A w \in Workers, m \in Msgs : Handling(w, m) /\ pc[w] = "commit" =>
        /\ rows[w].event => EventOf[m] \in processed
        /\ rows[w].status = "NONE" <=> rows[w].kind = "none"
        /\ rows[w].status # "NONE" => alertStatus[EventOf[m]] # "NONE"

GroupInv ==
    /\ TypeOK
    /\ BatchesHandedOut
    /\ AlertRowsSound
    /\ RowsStillThere
    /\ TaskSettles
    /\ AckedIsSettled

\* Every alert, stored or in hand, is one that the pipelines may raise.
KindsAllowed ==
    /\ \A e \in Events : alertKind[e] \in Outcomes[e] \cup {"none"}
    /\ \A w \in Workers, m \in Msgs : Handling(w, m) =>
          /\ pc[w] \in {"persist", "commit"} => alert[w] \in Outcomes[EventOf[m]]
          /\ pc[w] \in {"send", "markSent", "markFailed"} =>
               alert[w] \in Outcomes[EventOf[m]] \ {"none"}

\* A bound event is stored with its alert, and is SENT, or at the ack, only
\* after the chat got it.
BoundIsNotified ==
    /\ \A e \in Events : Bound(e) =>
          /\ e \in processed => alertStatus[e] # "NONE"
          /\ alertStatus[e] = "SENT" => delivered[e] > 0
    /\ \A w \in Workers, m \in Msgs :
          Handling(w, m) /\ EventOf[m] \in Events /\ Bound(EventOf[m])
            /\ pc[w] \in {"markSent", "ack"} => delivered[EventOf[m]] > 0

NotifyInv ==
    /\ GroupInv
    /\ KindsAllowed
    /\ BoundIsNotified
    /\ AckedWasNotified

-----------------------------------------------------------------------------
(* One worker *)

\* The entries of the batch stay pending until this worker acknowledges them.
BatchesPending == \A w \in Workers : batch[w] \subseteq pending

\* Between two awaits nobody else touches the rows of the event at hand.
TaskKnows ==
    \A w \in Workers, m \in Msgs : Handling(w, m) /\ EventOf[m] \in Events =>
        /\ pc[w] \in {"persist", "commit"} => EventOf[m] \notin processed
        /\ pc[w] = "commit" => rows[w] = NoRows
        /\ pc[w] \in {"send", "markSent", "markFailed"} =>
             Owed(EventOf[m]) /\ alert[w] = alertKind[EventOf[m]]
        /\ pc[w] = "ack" => ~Owed(EventOf[m])
        /\ pc[w] = "markSent" /\ alert[w] = "price" => delivered[EventOf[m]] > 0

SingleInv ==
    /\ GroupInv
    /\ KindsAllowed
    /\ BatchesPending
    /\ TaskKnows
    /\ OwedIsRetried
    /\ SentPriceWasDelivered
    /\ DeliveredIsStored
=============================================================================
