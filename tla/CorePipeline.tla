---------------------------- MODULE CorePipeline ----------------------------
(***************************************************************************)
(* What the worker does with the content of an event between the           *)
(* idempotency check and the commit: update the SnapshotCache, validate,   *)
(* enrich, run the detection modules with their shared HomonymBlacklist,   *)
(* and store the results.  Cache and blacklist live in the memory of the   *)
(* process: they keep the effects of attempts that fail later, they see    *)
(* events in the order of the attempts, and a restart loses them.          *)
(***************************************************************************)
EXTENDS DetectionModules, Sequences

CONSTANTS
    Offered,           \* bound: the quotes that may be published
    MaxQuotes,         \* bound: quotes published
    MaxFaults,         \* bound: failed attempts and restarts
    FreshnessTTL,      \* snapshot_freshness_ttl_seconds
    Active,            \* modules whose status is active
    InitialBlacklist   \* blacklisted_pairs

ASSUME CoreAssumption ==
    /\ Offered \subseteq Quote
    /\ MaxQuotes \in Nat
    /\ MaxFaults \in Nat
    /\ FreshnessTTL \in Nat
    /\ Active \subseteq ModuleIds
    /\ InitialBlacklist \subseteq Symbols

VARIABLES
    quotes,    \* the stream: one event per quote published
    handed,    \* number of entries handed out
    waiting,   \* entries handed out whose handling failed
    cache,     \* per market, the entry its snapshot was made from, 0 for none
    place,     \* per cached market, its place in the order of the dict
    muted,     \* the blacklist
    stored,    \* entries whose event is stored
    found,     \* the detection results of each stored event
    faults

memory == <<cache, place, muted>>
vars == <<quotes, handed, waiting, cache, place, muted, stored, found, faults>>

Entries == 1..Len(quotes)

NoResults == [m \in {} |-> Insufficient]

Init ==
    /\ quotes = << >>
    /\ handed = 0
    /\ waiting = {}
    /\ cache = [k \in Markets |-> 0]
    /\ place = [k \in Markets |-> 0]
    /\ muted = InitialBlacklist
    /\ stored = {}
    /\ found = << >>
    /\ faults = 0

-----------------------------------------------------------------------------
MarketOf(i) == quotes[i].market
SymbolAt(i) == SymbolOf[MarketOf(i)]

Cached == {k \in Markets : cache[k] # 0}

\* Mutant: the key of the cache leaves the market type out.
CacheBySource(i) ==
    [k \in Markets |->
        IF SourceOf[k] = SourceOf[MarketOf(i)] /\ SymbolOf[k] = SymbolAt(i)
        THEN i ELSE cache[k]]

\* update_from_event: the entry replaces the snapshot of its market; a market
\* that was cached before keeps its place in the dict.
CacheWith(i) == [cache EXCEPT ![MarketOf(i)] = i]

PlaceWith(i) == IF MarketOf(i) \in Cached THEN place
                ELSE [place EXCEPT ![MarketOf(i)] = Cardinality(Cached) + 1]

\* The snapshot made from entry j is fresh for entry i.
Fresh(i, j) == Abs(quotes[i].time - quotes[j].time) <= FreshnessTTL

\* Mutant: snapshots never expire.
ContextOfAnyAge(i) ==
    {k \in Cached \cup {MarketOf(i)} : SymbolOf[k] = SymbolAt(i)}

\* get_snapshots_for: the markets of i's symbol with a fresh snapshot.
Context(i) ==
    {k \in Cached \cup {MarketOf(i)} :
        SymbolOf[k] = SymbolAt(i) /\ Fresh(i, CacheWith(i)[k])}

\* Mutant: the snapshots are taken before the event is put in the cache.
SnapshotsBefore(i) ==
    [k \in Context(i) |-> quotes[IF cache[k] # 0 THEN cache[k] ELSE i]]

Snapshots(i) == [k \in Context(i) |-> quotes[CacheWith(i)[k]]]

PairsOf(m, i) ==
    Selected(m, TypeOf[MarketOf(i)], Context(i), Snapshots(i), PlaceWith(i))

\* The active modules that run before m and can blacklist the symbol.
Before(m) ==
    Active \cap (CASE m = "futures-futures-spread" -> {}
                   [] m = "spot-futures-spread" -> {"futures-futures-spread"}
                   [] OTHER -> {"futures-futures-spread", "spot-futures-spread"})

PriceModules == ModuleIds \ {"funding-spread"}

\* The symbol is blacklisted when module m runs.
MutedFor(m, i) ==
    \/ SymbolAt(i) \in muted
    \/ \E n \in Before(m) : Mismatch(PairsOf(n, i), Snapshots(i))

\* The validator's only rule: bid <= ask.
Invalid(i) == quotes[i].crossed

\* RuleEngineExecutor.execute, and nothing for an event that is INVALID.
Detected(i) ==
    IF Invalid(i) THEN NoResults
    ELSE [m \in Active |->
            IF m \in PriceModules
            THEN PriceResult(PairsOf(m, i), Snapshots(i), MutedFor(m, i))
            ELSE FundingResult(PairsOf(m, i), Snapshots(i))]

\* Mutant: an anomalous spread is taken for a homonym.
MutedOnSpread(i) ==
    IF Triggered(Detected(i)) \cap PriceModules # {} THEN muted \cup {SymbolAt(i)}
    ELSE muted

\* The blacklist after the modules ran; they add to it whatever auto_blacklist
\* says.
MutedAfter(i) ==
    IF /\ ~Invalid(i)
       /\ \E m \in Active \cap PriceModules : Mismatch(PairsOf(m, i), Snapshots(i))
    THEN muted \cup {SymbolAt(i)}
    ELSE muted

\* What an attempt leaves in the memory of the process.
Remember(i) ==
    /\ cache' = CacheWith(i)
    /\ place' = PlaceWith(i)
    /\ muted' = MutedAfter(i)

-----------------------------------------------------------------------------
\* Entry i is handled next: the next new one, or one that is redelivered.
Due(i) == i \in waiting \/ (i = handed + 1 /\ i <= Len(quotes))

HandOut(i) == handed' = IF i = handed + 1 THEN i ELSE handed

Fault == faults < MaxFaults /\ faults' = faults + 1

Publish ==
    /\ Len(quotes) < MaxQuotes
    /\ \E q \in Offered : quotes' = Append(quotes, q)
    /\ found' = Append(found, NoResults)
    /\ UNCHANGED <<handed, waiting, memory, stored, faults>>

\* The attempt succeeds: the results are stored with the event.
Finish(i) ==
    /\ Due(i)
    /\ HandOut(i)
    /\ waiting' = waiting \ {i}
    /\ Remember(i)
    /\ stored' = stored \cup {i}
    /\ found' = [found EXCEPT ![i] = Detected(i)]
    /\ UNCHANGED <<quotes, faults>>

\* It fails after the core ran (persist_processing_result raises).
FailAfterCore(i) ==
    /\ Due(i)
    /\ Fault
    /\ HandOut(i)
    /\ waiting' = waiting \cup {i}
    /\ Remember(i)
    /\ UNCHANGED <<quotes, stored, found>>

\* It fails before (is_event_processed raises, or an entry ahead in the batch
\* aborted it).
FailBeforeCore(i) ==
    /\ Due(i)
    /\ Fault
    /\ HandOut(i)
    /\ waiting' = waiting \cup {i}
    /\ UNCHANGED <<quotes, memory, stored, found>>

\* The process is restarted.
Restart ==
    /\ Fault
    /\ cache' = [k \in Markets |-> 0]
    /\ place' = [k \in Markets |-> 0]
    /\ muted' = InitialBlacklist
    /\ UNCHANGED <<quotes, handed, waiting, stored, found>>

Next ==
    \/ Publish
    \/ \E i \in Entries : Finish(i) \/ FailAfterCore(i) \/ FailBeforeCore(i)
    \/ Restart

Spec == Init /\ [][Next]_vars

-----------------------------------------------------------------------------
(* Properties *)

\* Every variable holds a value the code can store in it; in particular a
\* cached entry is one of its market.
TypeOK ==
    /\ quotes \in Seq(Quote)
    /\ handed \in 0..Len(quotes)
    /\ waiting \subseteq 1..handed
    /\ cache \in [Markets -> 0..handed]
    /\ \A k \in Markets : cache[k] # 0 => MarketOf(cache[k]) = k
    /\ place \in [Markets -> Nat]
    /\ muted \subseteq Symbols
    /\ stored \subseteq 1..handed
    /\ found \in Seq(ResultsOf(Active) \cup {NoResults})
    /\ Len(found) = Len(quotes)
    /\ faults \in 0..MaxFaults

\* The types of the two markets a module compares.
Comparable(m, k, l) ==
    CASE m = "spot-futures-spread" -> TypeOf[k] = "SPOT" /\ TypeOf[l] = "FUTURES"
      [] m = "dex-futures-spread" -> TypeOf[k] = "DEX" /\ TypeOf[l] = "FUTURES"
      [] OTHER -> /\ TypeOf[k] = "FUTURES" /\ TypeOf[l] = "FUTURES"
                  /\ SourceOf[k] # SourceOf[l]

\* The quotes j and l show the anomaly that m found in event i: two markets of
\* i's symbol that m compares, both fresh at i, on the same scale, with this
\* ratio above the threshold.
Shows(i, m, j, l) ==
    /\ SymbolAt(j) = SymbolAt(i) /\ SymbolAt(l) = SymbolAt(i)
    /\ Comparable(m, MarketOf(j), MarketOf(l))
    /\ Fresh(i, j) /\ Fresh(i, l)
    /\ IF m = "funding-spread"
       THEN /\ quotes[j].funding # NoRate /\ quotes[l].funding # NoRate
            /\ found[i][m] = Judged(FundingRatio(quotes[j].funding, quotes[l].funding))
       ELSE /\ ~Homonym(quotes[j].price, quotes[l].price)
            /\ found[i][m] = Judged(PriceRatio(quotes[j].price, quotes[l].price))

Anomalies(i) == Triggered(found[i])

\* No false alarm: every stored anomaly is shown by two quotes that were really
\* published, whatever was retried, lost with a restart or replaced meanwhile.
AnomaliesAreReal ==
    \A i \in stored : \A m \in Anomalies(i) : \E j, l \in Entries : Shows(i, m, j, l)

\* A symbol is blacklisted by configuration, or because two of its quotes, at
\* most two freshness windows apart, were on different scales.
MutedOnEvidence ==
    \A s \in muted \ InitialBlacklist : \E j, l \in Entries :
        /\ SymbolAt(j) = s /\ SymbolAt(l) = s
        /\ Abs(quotes[j].time - quotes[l].time) <= 2 * FreshnessTTL
        /\ Homonym(quotes[j].price, quotes[l].price)

\* While a symbol is blacklisted, no price anomaly of it is stored.
MutedIsSilent ==
    [][\A i \in stored' \ stored : SymbolAt(i) \in muted =>
           Triggered(found'[i]) \cap PriceModules = {}]_vars

\* The last entry of market k up to i, 0 when there is none.
LastUpTo(k, i) ==
    LET earlier == {j \in 1..i : MarketOf(j) = k}
    IN  IF earlier = {} THEN 0 ELSE CHOOSE j \in earlier : \A l \in earlier : l <= j

\* The markets that had a fresh quote when i was published.
Live(i) == {k \in Markets : /\ SymbolOf[k] = SymbolAt(i)
                            /\ LastUpTo(k, i) # 0
                            /\ Fresh(i, LastUpTo(k, i))}

\* Up to entry i, market k was quoted before market l was.
CameBefore(k, l, i) ==
    \E j \in 1..i : MarketOf(j) = k /\ \A n \in 1..j : MarketOf(n) # l

\* Event i, handled without faults while its symbol was on one scale, has the
\* markets k and l, one of them its own, to be compared by m and no others.
\* (Of several sources the modules look at the first two only.)  Of two futures
\* markets the one that was quoted first is the first observation.
Decides(i, m, k, l) ==
    /\ faults = 0
    /\ ~Invalid(i)
    /\ SymbolAt(i) \notin InitialBlacklist
    /\ MarketOf(i) \in {k, l}
    /\ Comparable(m, k, l)
    /\ TypeOf[k] = TypeOf[l] => CameBefore(k, l, i)
    /\ {n \in Live(i) : Comparable(m, n, l) \/ Comparable(m, k, n)} \subseteq {k, l}
    /\ \A j, n \in 1..i :
          SymbolAt(j) = SymbolAt(i) /\ SymbolAt(n) = SymbolAt(i) =>
              ~Homonym(quotes[j].price, quotes[n].price)

\* No alarm is missed or invented: the module finds an anomaly exactly if the
\* last quotes published for the two markets show one.
NothingMissed ==
    \A i \in stored : \A m \in Active : \A k, l \in Live(i) :
        Decides(i, m, k, l) =>
          LET p == quotes[LastUpTo(k, i)]
              q == quotes[LastUpTo(l, i)]
          IN  m \in Anomalies(i) <=>
                IF m = "funding-spread"
                THEN /\ p.funding # NoRate /\ q.funding # NoRate
                     /\ Abs(p.funding - q.funding) >= FundingThreshold
                ELSE PriceRatio(p.price, q.price).num >= PriceRatio(p.price, q.price).den

\* A spread of one and a half times the threshold or more raises an alert,
\* whatever was handled before and whatever the other modules find.
WideSpreadsAlert ==
    \A i \in stored : \A m \in Active \cap PriceModules : \A k, l \in Live(i) :
        Decides(i, m, k, l) =>
          LET ratio == PriceRatio(quotes[LastUpTo(k, i)].price, quotes[LastUpTo(l, i)].price)
          IN  2 * ratio.num >= 3 * ratio.den => HasAlert(found[i])
=============================================================================
