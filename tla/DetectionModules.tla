-------------------------- MODULE DetectionModules --------------------------
(***************************************************************************)
(* made_core/modules: the four detection modules as functions of the event *)
(* and of the snapshots that SnapshotCache.get_snapshots_for hands them.   *)
(* A snapshot is the quote it was made from.  Prices, funding rates and    *)
(* times are integers, and ratios are compared by multiplication: the 28   *)
(* digits of Decimal are taken as exact.                                   *)
(***************************************************************************)
EXTENDS AnomalyPipeline

CONSTANTS
    Markets,           \* (source, market type, symbol) of a quote
    SourceOf, TypeOf,  \* source and market type of a market
    SymbolOf,          \* its symbol; asset and symbol determine each other,
                       \* since ingestion collects one quote currency
    Rates,             \* the funding rates that occur
    NoRate,            \* funding of a quote without funding rate
    PriceThreshold,    \* threshold of the price modules, in percent
    FundingThreshold,  \* threshold of the funding module
    MaxPriceRatio,     \* max_price_ratio
    ReferenceMode      \* reference_price_mode

ASSUME MarketAssumption ==
    /\ IsFiniteSet(Markets)
    /\ TypeOf \in [Markets -> {"SPOT", "FUTURES", "DEX"}]
    /\ Rates \subseteq Int /\ NoRate \notin Rates
    /\ PriceThreshold \in Nat \ {0}
    /\ FundingThreshold \in Nat \ {0}
    /\ MaxPriceRatio \in Nat \ {0, 1}
    /\ ReferenceMode \in {"FIRST", "SECOND", "LAST", "AVERAGE"}

Symbols == {SymbolOf[k] : k \in Markets}

\* A NormalizedEvent; crossed says that its bid exceeds its ask.
Quote == [market : Markets, price : Nat \ {0}, funding : Rates \cup {NoRate},
          time : Nat, crossed : BOOLEAN]

-----------------------------------------------------------------------------
Abs(x) == IF x < 0 THEN -x ELSE x

\* The homonym check: the larger price is at least MaxPriceRatio times the
\* smaller one.
Homonym(p, q) == p >= MaxPriceRatio * q \/ q >= MaxPriceRatio * p

\* The spread of two prices, in percent of the reference price, over the
\* threshold: the anomaly ratio as a fraction.
PriceRatio(p, q) ==
    LET reference == CASE ReferenceMode = "FIRST" -> 2 * p
                       [] ReferenceMode \in {"SECOND", "LAST"} -> 2 * q
                       [] ReferenceMode = "AVERAGE" -> p + q
    IN  [num |-> 200 * Abs(p - q), den |-> PriceThreshold * reference]

FundingRatio(r, s) == [num |-> Abs(r - s), den |-> FundingThreshold]

\* A ratio of at least one is an anomaly.
Judged(ratio) ==
    [status |-> IF ratio.num >= ratio.den THEN "ANOMALY" ELSE "NORMAL",
     num |-> ratio.num, den |-> ratio.den]

-----------------------------------------------------------------------------
(* snaps is the set of markets with a snapshot in the context, at[k] the     *)
(* snapshot of market k, and seen[k] its place in the order of the snapshots. *)

OfType(snaps, type) == {k \in snaps : TypeOf[k] = type}

\* The first of some snapshots, as a set with at most one element.
First(S, seen) == {k \in S : \A l \in S : seen[k] <= seen[l]}

\* The pairs of markets that a module compares: none or one.
FuturesPairs(snaps, seen) ==
    {pair \in First(snaps, seen) \X snaps :
        pair[2] \in First({k \in snaps : SourceOf[k] # SourceOf[pair[1]]}, seen)}

CrossPairs(snaps, seen, type) ==
    First(OfType(snaps, type), seen) \X First(OfType(snaps, "FUTURES"), seen)

\* A selected pair fails the homonym check.
Mismatch(pairs, at) == \E x \in pairs : Homonym(at[x[1]].price, at[x[2]].price)

\* What a price module makes of the pair it selected, if any: nothing when the
\* symbol is blacklisted or the pair is a homonym.
PriceResult(pairs, at, muted) ==
    IF muted \/ pairs = {} \/ Mismatch(pairs, at) THEN Insufficient
    ELSE LET pair == CHOOSE x \in pairs : TRUE
         IN  Judged(PriceRatio(at[pair[1]].price, at[pair[2]].price))

FundingResult(pairs, at) ==
    IF pairs = {} THEN Insufficient
    ELSE LET pair == CHOOSE x \in pairs : TRUE
         IN  Judged(FundingRatio(at[pair[1]].funding, at[pair[2]].funding))

\* The pairs module m selects for an event of market type type.
Selected(m, type, snaps, at, seen) ==
    CASE m = "futures-futures-spread" ->
           IF type # "FUTURES" THEN {}
           ELSE FuturesPairs(OfType(snaps, "FUTURES"), seen)
      [] m = "spot-futures-spread" ->
           IF type \notin {"SPOT", "FUTURES"} THEN {}
           ELSE CrossPairs(snaps, seen, "SPOT")
      [] m = "dex-futures-spread" ->
           IF type \notin {"DEX", "FUTURES"} THEN {}
           ELSE CrossPairs(snaps, seen, "DEX")
      [] m = "funding-spread" ->
           IF type # "FUTURES" THEN {}
           ELSE FuturesPairs({k \in OfType(snaps, "FUTURES") :
                                at[k].funding # NoRate}, seen)
=============================================================================
