----------------------------- MODULE Ingestion -----------------------------
(***************************************************************************)
(* The ingestion runner: in every cycle one task per source asks for its   *)
(* tickers, with retries, and Binance futures for their funding rates too; *)
(* asyncio.gather waits for all of them; what they returned is normalized  *)
(* and appended to the Redis stream in one MULTI/EXEC; the runner sleeps   *)
(* until the next cycle or until it is told to stop.                       *)
(* A quote is the number of times its market has moved.  Of the stream the *)
(* last entry of each market is kept, which is what counts for a consumer. *)
(***************************************************************************)
EXTENDS Naturals

CONSTANTS
    Markets,
    Feeds,         \* the requests made at once: an exchange's spot or futures
                   \* tickers, or the search for one asset on the DEXes
    FeedOf,        \* the feed that reports a market
    FundingFeeds,  \* feeds whose funding rates take a second request
    DeadFeeds,     \* feeds whose source never answers
    Unusable,      \* quotes <<market, number>> without a usable price
    MaxRetries,    \* max_retries
    MaxMoves,      \* bound: moves of a market
    MaxFaults      \* bound: failed requests, publications and restarts

ASSUME IngestionAssumption ==
    /\ FeedOf \in [Markets -> Feeds]
    /\ FundingFeeds \subseteq Feeds
    /\ DeadFeeds \subseteq Feeds
    /\ Unusable \subseteq Markets \X Nat
    /\ MaxRetries \in Nat
    /\ MaxMoves \in Nat
    /\ MaxFaults \in Nat

VARIABLES
    quote,     \* per market, its quote at the source, from 1
    phase,     \* "cycle", "sleep", or "closed"
    task,      \* per feed: "tickers", "funding", "done" or "failed"
    attempt,   \* per feed, failed attempts of the current request
    taken,     \* per market, the quote that the task of its feed holds, or 0
    rated,     \* feeds whose funding rates were fetched in this cycle
    last,      \* per market, its last entry in the stream
    opened,    \* history: the quotes when the cycle began
    stopping,  \* stop_event
    faults

tasks == <<task, attempt, taken, rated>>
vars == <<quote, phase, tasks, last, opened, stopping, faults>>

\* An entry of the stream, and none.
Entry == [number : Nat \ {0}, funded : BOOLEAN]
NoEntry == [number |-> 0, funded |-> FALSE]

Init ==
    /\ quote = [k \in Markets |-> 1]
    /\ phase = "cycle"
    /\ task = [f \in Feeds |-> "tickers"]
    /\ attempt = [f \in Feeds |-> 0]
    /\ taken = [k \in Markets |-> 0]
    /\ rated = {}
    /\ last = [k \in Markets |-> NoEntry]
    /\ opened = quote
    /\ stopping = FALSE
    /\ faults = 0

Fault == faults < MaxFaults /\ faults' = faults + 1

\* A source that is down fails for free; other failures are bounded.
RequestFault(f) == IF f \in DeadFeeds THEN UNCHANGED faults ELSE Fault

-----------------------------------------------------------------------------
\* The source's quote of market k changes.
Moves(k) ==
    /\ quote[k] <= MaxMoves
    /\ quote' = [quote EXCEPT ![k] = @ + 1]
    /\ UNCHANGED <<phase, tasks, last, opened, stopping, faults>>

Goto(f, at) ==
    /\ task' = [task EXCEPT ![f] = at]
    /\ attempt' = [attempt EXCEPT ![f] = 0]

\* What the response of feed f reports: the quotes of its markets.
Reported(f) == [k \in Markets |-> IF FeedOf[k] = f THEN quote[k] ELSE taken[k]]

\* The response to the ticker request of feed f.
Tickers(f) ==
    /\ phase = "cycle" /\ task[f] = "tickers"
    /\ f \notin DeadFeeds
    /\ Goto(f, IF f \in FundingFeeds THEN "funding" ELSE "done")
    /\ taken' = Reported(f)
    /\ UNCHANGED <<quote, phase, rated, last, opened, stopping, faults>>

\* The response to its funding request.
FundingRates(f) ==
    /\ phase = "cycle" /\ task[f] = "funding"
    /\ Goto(f, "done")
    /\ rated' = rated \cup {f}
    /\ UNCHANGED <<quote, phase, taken, last, opened, stopping, faults>>

\* Mutant: one attempt more.
OneMore(f) == attempt[f] > MaxRetries

\* This attempt is the last one.
Exhausted(f) == attempt[f] = MaxRetries

\* An attempt fails in a way that is retried: a timeout, a network error, a 429
\* or 5xx.
Retried(f) ==
    /\ phase = "cycle" /\ task[f] \in {"tickers", "funding"}
    /\ RequestFault(f)
    /\ ~Exhausted(f)
    /\ attempt' = [attempt EXCEPT ![f] = @ + 1]
    /\ UNCHANGED <<quote, phase, task, taken, rated, last, opened, stopping>>

\* The last attempt fails, or one in a way that is not retried.  Without its
\* tickers the task fails; without its funding rates it goes on.
GivesUp(f) ==
    /\ phase = "cycle"
    /\ RequestFault(f)
    /\ \/ task[f] = "tickers" /\ Goto(f, "failed")
       \/ task[f] = "funding" /\ Goto(f, "done")
    /\ UNCHANGED <<quote, phase, taken, rated, last, opened, stopping>>

-----------------------------------------------------------------------------
\* Mutant: the cycle waits for every task to succeed.
AllSucceeded == phase = "cycle" /\ \A f \in Feeds : task[f] = "done"

\* asyncio.gather: every task is over.
Gathered ==
    /\ phase = "cycle"
    /\ \A f \in Feeds : task[f] \in {"done", "failed"}

\* Mutant: gather without return_exceptions.
AllOrNothing ==
    IF \E f \in Feeds : task[f] = "failed" THEN {} ELSE {k \in Markets : taken[k] # 0}

\* The markets whose quote was collected.
Collected == {k \in Markets : taken[k] # 0}

\* A normalizer makes an event of the quote: it has a positive price.
Usable(k, number) == <<k, number>> \notin Unusable

\* normalize_batch leaves the other quotes out.
Normalized == {k \in Collected : Usable(k, taken[k])}

\* publish_batch.
Append ==
    last' = [k \in Markets |->
                IF k \in Normalized
                THEN [number |-> taken[k], funded |-> FeedOf[k] \in rated]
                ELSE last[k]]

Publish ==
    /\ Gathered
    /\ Append
    /\ phase' = "sleep"
    /\ UNCHANGED <<quote, tasks, opened, stopping, faults>>

\* It raises, before its effect or after it; the runner logs the error.
PublishFails ==
    /\ Gathered
    /\ Normalized # {}
    /\ Fault
    /\ Append \/ UNCHANGED last
    /\ phase' = "sleep"
    /\ UNCHANGED <<quote, tasks, opened, stopping>>

\* Mutant: what the tasks returned in the cycle before is kept.
KeepTaken == UNCHANGED taken

ForgetTaken == taken' = [k \in Markets |-> 0]

\* A cycle begins with new tasks.
BeginCycle ==
    /\ phase' = "cycle"
    /\ task' = [f \in Feeds |-> "tickers"]
    /\ attempt' = [f \in Feeds |-> 0]
    /\ ForgetTaken
    /\ rated' = {}
    /\ opened' = quote

\* The sleep is over; the loop's condition is evaluated again.
NextCycle ==
    /\ phase = "sleep"
    /\ ~stopping
    /\ BeginCycle
    /\ UNCHANGED <<quote, last, stopping, faults>>

\* SIGTERM sets stop_event.  It is looked at between cycles only.
Stop ==
    /\ ~stopping
    /\ stopping' = TRUE
    /\ UNCHANGED <<quote, phase, tasks, last, opened, faults>>

Close ==
    /\ phase = "sleep"
    /\ stopping
    /\ phase' = "closed"
    /\ UNCHANGED <<quote, tasks, last, opened, stopping, faults>>

\* The process dies and is restarted (docker-compose.yml).
Restart ==
    /\ phase # "closed"
    /\ ~stopping
    /\ Fault
    /\ BeginCycle
    /\ UNCHANGED <<quote, last, stopping>>

Request(f) == Tickers(f) \/ FundingRates(f) \/ Retried(f) \/ GivesUp(f)

Next ==
    \/ \E k \in Markets : Moves(k)
    \/ \E f \in Feeds : Request(f)
    \/ Publish \/ PublishFails
    \/ NextCycle \/ Stop \/ Close \/ Restart

Spec == Init /\ [][Next]_vars

\* Every request ends, by its timeout at the latest, and so do the publication
\* and the sleep.  Nothing is assumed of the sources, of Stop or of faults.
FairSpec ==
    /\ Spec
    /\ \A f \in Feeds : WF_vars(Request(f))
    /\ WF_vars(Publish \/ PublishFails)
    /\ WF_vars(NextCycle \/ Close)

-----------------------------------------------------------------------------
(* Properties *)

\* Every variable holds a value the code can store in it.
TypeOK ==
    /\ quote \in [Markets -> 1..(MaxMoves + 1)]
    /\ phase \in {"cycle", "sleep", "closed"}
    /\ task \in [Feeds -> {"tickers", "funding", "done", "failed"}]
    /\ \A f \in Feeds : task[f] = "funding" => f \in FundingFeeds
    /\ attempt \in [Feeds -> 0..MaxRetries]
    /\ taken \in [Markets -> Nat]
    /\ rated \subseteq FundingFeeds
    /\ last \in [Markets -> Entry \cup {NoEntry}]
    /\ opened \in [Markets -> Nat]
    /\ stopping \in BOOLEAN
    /\ faults \in 0..MaxFaults

\* What enters the stream was the quote of its market at some time since the
\* cycle began: no failure of a source or of a publication makes the runner
\* report what an earlier cycle collected, and a market never goes back in time.
PublishedIsCurrent ==
    [][\A k \in Markets : last'[k] # last[k] =>
          last'[k].number >= opened[k] /\ last'[k].number >= last[k].number]_vars

\* Whatever other sources do, a usable quote of a source that is up reaches the
\* stream or is overtaken, unless the runner is told to stop ("error isolation").
QuotesArrive ==
    \A k \in Markets : \A n \in 1..(MaxMoves + 1) :
        FeedOf[k] \notin DeadFeeds /\ Usable(k, n) =>
            (quote[k] = n ~> last[k].number = n \/ quote[k] > n \/ stopping)

\* Told to stop, the runner closes, even while a source is down.
StopCloses == stopping ~> phase = "closed"
=============================================================================
