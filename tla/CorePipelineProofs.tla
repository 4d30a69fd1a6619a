------------------------- MODULE CorePipelineProofs -------------------------
(***************************************************************************)
(* CorePipeline for every set of markets, every threshold, price ratio and *)
(* reference price, and every number of quotes and faults: no anomaly is   *)
(* stored and no symbol is blacklisted without published quotes that show  *)
(* it, and a blacklisted symbol is silent; and more evidence never lowers  *)
(* the priority of an event.                                               *)
(***************************************************************************)
EXTENDS CorePipeline, FiniteSetTheorems, TLAPS

-----------------------------------------------------------------------------
(* The anomaly pipeline *)

\* The order of the priorities.
Rank(priority) == CASE priority = "NONE" -> 0
                    [] priority = "LOW" -> 1
                    [] priority = "MEDIUM" -> 2
                    [] priority = "HIGH" -> 3

\* more shows everything that results shows, at least as strongly.
ShowsMore(results, more) ==
    /\ Triggered(results) \subseteq Triggered(more)
    /\ \A m \in Triggered(results) :
          results[m].num * more[m].den <= more[m].num * results[m].den

\* A fraction that is not smaller passes every boundary the smaller one passes.
LEMMA FractionMonotone ==
    ASSUME NEW a \in Nat, NEW b \in Nat \ {0}, NEW c \in Nat, NEW e \in Nat \ {0},
           NEW n \in Nat, NEW d \in Nat, a * e <= c * b, a * d >= b * n
    PROVE  c * d >= e * n
<1>1. (a * e) * d <= (c * b) * d
  OBVIOUS
<1>2. (a * d) * e >= (b * n) * e
  OBVIOUS
<1>3. b * (e * n) <= b * (c * d)
  <2>1. (a * e) * d = (a * d) * e
    OBVIOUS
  <2>2. (c * b) * d = b * (c * d) /\ (b * n) * e = b * (e * n)
    OBVIOUS
  <2> QED
    BY <1>1, <1>2, <2>1, <2>2
<1> DEFINE x == e * n
           y == c * d
<1>4. x \in Nat /\ y \in Nat /\ b * x <= b * y
  BY <1>3
<1> HIDE DEF x, y
<1>5. x <= y
  <2> SUFFICES ASSUME y + 1 <= x
               PROVE  FALSE
    BY <1>4
  <2>1. b * (y + 1) <= b * x
    BY <1>4
  <2>2. b * (y + 1) = b * y + b
    BY <1>4
  <2> QED
    BY <1>4, <2>1, <2>2
<1> QED
  BY <1>5 DEF x, y

LEMMA RatioMonotone ==
    ASSUME NEW ran, NEW results \in ResultsOf(ran),
           NEW ranMore, NEW more \in ResultsOf(ranMore), ShowsMore(results, more),
           NEW n \in Nat, NEW d \in Nat, MaxRatioAtLeast(results, n, d)
    PROVE  MaxRatioAtLeast(more, n, d)
<1>1. PICK m \in Triggered(results) : results[m].num * d >= results[m].den * n
  BY DEF MaxRatioAtLeast
<1>2. m \in ran /\ m \in ranMore /\ m \in Triggered(more)
  BY <1>1 DEF ShowsMore, Triggered, ResultsOf
<1>3. results[m] \in Result /\ more[m] \in Result
  BY <1>2 DEF ResultsOf
<1>4. results[m].num * more[m].den <= more[m].num * results[m].den
  BY <1>1 DEF ShowsMore
<1>5. more[m].num * d >= more[m].den * n
  BY <1>1, <1>3, <1>4, FractionMonotone DEF Result
<1> QED
  BY <1>2, <1>5 DEF MaxRatioAtLeast

\* Adding an anomaly, or raising the ratio of one, never lowers the priority;
\* in particular it never takes an alert away.
THEOREM PriorityMonotone ==
    ASSUME NEW ran, NEW results \in ResultsOf(ran),
           NEW ranMore, NEW more \in ResultsOf(ranMore), IsFiniteSet(ranMore),
           ShowsMore(results, more)
    PROVE  /\ Rank(Priority(results)) <= Rank(Priority(more))
           /\ HasAlert(results) => HasAlert(more)
<1>1. IsFiniteSet(Triggered(more))
  BY FS_Subset DEF Triggered, ResultsOf
<1>2. /\ Cardinality(Triggered(results)) \in Nat
      /\ Cardinality(Triggered(more)) \in Nat
      /\ Cardinality(Triggered(results)) <= Cardinality(Triggered(more))
  BY <1>1, FS_Subset, FS_CardinalityType DEF ShowsMore
<1>3. Triggered(more) = {} => Triggered(results) = {}
  BY DEF ShowsMore
<1>4. MaxRatioAtLeast(results, 3, 1) => MaxRatioAtLeast(more, 3, 1)
  BY RatioMonotone
<1>5. MaxRatioAtLeast(results, 3, 2) => MaxRatioAtLeast(more, 3, 2)
  BY RatioMonotone
<1> QED
  BY <1>2, <1>3, <1>4, <1>5 DEF Priority, Rank, HasAlert

-----------------------------------------------------------------------------
(* The detection modules *)

\* A pair that a module selects is of two markets in the context that it can
\* compare; the funding module selects markets with a rate only.
LEMMA SelectedSound ==
    ASSUME NEW module \in ModuleIds, NEW type, NEW snaps, NEW at, NEW seen,
           NEW pair \in Selected(module, type, snaps, at, seen)
    PROVE  /\ pair[1] \in snaps /\ pair[2] \in snaps
           /\ Comparable(module, pair[1], pair[2])
           /\ module = "funding-spread" =>
                at[pair[1]].funding # NoRate /\ at[pair[2]].funding # NoRate
<1>1. CASE module = "futures-futures-spread"
  BY <1>1 DEF Selected, FuturesPairs, OfType, First, Comparable
<1>2. CASE module = "spot-futures-spread"
  BY <1>2 DEF Selected, CrossPairs, OfType, First, Comparable
<1>3. CASE module = "dex-futures-spread"
  BY <1>3 DEF Selected, CrossPairs, OfType, First, Comparable
<1>4. CASE module = "funding-spread"
  BY <1>4 DEF Selected, FuturesPairs, OfType, First, Comparable
<1> QED
  BY <1>1, <1>2, <1>3, <1>4 DEF ModuleIds

LEMMA PriceRatioType ==
    ASSUME NEW p \in Nat \ {0}, NEW q \in Nat \ {0}
    PROVE  PriceRatio(p, q) \in [num : Nat, den : Nat \ {0}]
<1> DEFINE reference == CASE ReferenceMode = "FIRST" -> 2 * p
                          [] ReferenceMode \in {"SECOND", "LAST"} -> 2 * q
                          [] ReferenceMode = "AVERAGE" -> p + q
<1>1. reference \in Nat \ {0}
  BY MarketAssumption
<1>2. PriceThreshold \in Nat \ {0}
  BY MarketAssumption
<1> HIDE DEF reference
<1>3. PriceThreshold * reference \in Nat \ {0}
  BY <1>1, <1>2
<1>4. 200 * Abs(p - q) \in Nat
  BY DEF Abs
<1> QED
  BY <1>3, <1>4 DEF PriceRatio, reference

LEMMA FundingRatioType ==
    ASSUME NEW r \in Rates, NEW s \in Rates
    PROVE  FundingRatio(r, s) \in [num : Nat, den : Nat \ {0}]
<1>1. r \in Int /\ s \in Int /\ FundingThreshold \in Nat \ {0}
  BY MarketAssumption
<1>2. Abs(r - s) \in Nat
  BY <1>1 DEF Abs
<1> QED
  BY <1>1, <1>2 DEF FundingRatio

LEMMA JudgedType ==
    ASSUME NEW ratio \in [num : Nat, den : Nat \ {0}]
    PROVE  Judged(ratio) \in Result
BY DEF Judged, Result

LEMMA InsufficientType == Insufficient \in Result /\ Insufficient.status = "NORMAL"
BY DEF Insufficient, Result

\* A price module's result is that of a pair it selected, on one scale, or none.
LEMMA PriceResultSound ==
    ASSUME NEW pairs, NEW at, NEW silent,
           PriceResult(pairs, at, silent) # Insufficient
    PROVE  /\ ~silent
           /\ \E pair \in pairs :
                /\ ~Homonym(at[pair[1]].price, at[pair[2]].price)
                /\ PriceResult(pairs, at, silent) =
                     Judged(PriceRatio(at[pair[1]].price, at[pair[2]].price))
<1> DEFINE pair == CHOOSE x \in pairs : TRUE
<1>1. ~silent /\ pairs # {} /\ ~Mismatch(pairs, at)
  BY DEF PriceResult
<1>2. pair \in pairs
  BY <1>1
<1>3. ~Homonym(at[pair[1]].price, at[pair[2]].price)
  BY <1>1, <1>2 DEF Mismatch
<1>4. PriceResult(pairs, at, silent)
        = Judged(PriceRatio(at[pair[1]].price, at[pair[2]].price))
  BY <1>1 DEF PriceResult
<1> QED
  BY <1>1, <1>2, <1>3, <1>4

LEMMA FundingResultSound ==
    ASSUME NEW pairs, NEW at, FundingResult(pairs, at) # Insufficient
    PROVE  \E pair \in pairs :
             FundingResult(pairs, at) =
               Judged(FundingRatio(at[pair[1]].funding, at[pair[2]].funding))
BY DEF FundingResult

-----------------------------------------------------------------------------
(* One attempt *)

LEMMA QuoteType ==
    ASSUME TypeOK, NEW i \in Entries
    PROVE  quotes[i] \in Quote
BY DEF TypeOK, Entries

\* The context of an entry consists of published, fresh quotes of its symbol.
LEMMA ContextSound ==
    ASSUME TypeOK, NEW i \in Entries, NEW k \in Context(i)
    PROVE  /\ k \in Markets
           /\ CacheWith(i)[k] \in Entries
           /\ MarketOf(CacheWith(i)[k]) = k
           /\ SymbolAt(CacheWith(i)[k]) = SymbolAt(i)
           /\ Fresh(i, CacheWith(i)[k])
           /\ Snapshots(i)[k] = quotes[CacheWith(i)[k]]
           /\ Snapshots(i)[k] \in Quote
<1>1. MarketOf(i) \in Markets
  BY QuoteType DEF MarketOf, Quote
<1>2. k \in Markets /\ SymbolOf[k] = SymbolAt(i) /\ Fresh(i, CacheWith(i)[k])
  BY <1>1 DEF Context, Cached
<1>3. CacheWith(i)[k] \in Entries /\ MarketOf(CacheWith(i)[k]) = k
  <2>1. CASE k = MarketOf(i)
    BY <1>2, <2>1 DEF CacheWith, TypeOK
  <2>2. CASE k # MarketOf(i)
    <3>1. cache[k] # 0 /\ cache[k] \in 0..handed /\ handed \in 0..Len(quotes)
      BY <1>2, <2>2 DEF Context, Cached, TypeOK
    <3> QED
      BY <1>2, <2>2, <3>1 DEF CacheWith, TypeOK, Entries
  <2> QED
    BY <2>1, <2>2
<1> QED
  BY <1>2, <1>3, QuoteType DEF Snapshots, SymbolAt

\* A pair selected for entry i stands for two published quotes of the symbol,
\* fresh at i, that the module compares.
LEMMA PairSound ==
    ASSUME TypeOK, NEW i \in Entries, NEW module \in ModuleIds,
           NEW pair \in PairsOf(module, i)
    PROVE  \E j, l \in Entries :
             /\ Snapshots(i)[pair[1]] = quotes[j] /\ Snapshots(i)[pair[2]] = quotes[l]
             /\ quotes[j] \in Quote /\ quotes[l] \in Quote
             /\ SymbolAt(j) = SymbolAt(i) /\ SymbolAt(l) = SymbolAt(i)
             /\ Comparable(module, MarketOf(j), MarketOf(l))
             /\ Fresh(i, j) /\ Fresh(i, l)
             /\ module = "funding-spread" =>
                  quotes[j].funding # NoRate /\ quotes[l].funding # NoRate
<1>1. /\ pair[1] \in Context(i) /\ pair[2] \in Context(i)
      /\ Comparable(module, pair[1], pair[2])
      /\ module = "funding-spread" =>
           /\ Snapshots(i)[pair[1]].funding # NoRate
           /\ Snapshots(i)[pair[2]].funding # NoRate
  BY SelectedSound DEF PairsOf
<1> QED
  BY <1>1, ContextSound

\* What Detected says of one module that ran.
LEMMA DetectedSound ==
    ASSUME TypeOK, NEW i \in Entries, NEW module \in Active,
           ~Invalid(i)
    PROVE  /\ Detected(i)[module] \in Result
           /\ Detected(i)[module] # Insufficient =>
                \E j, l \in Entries :
                  /\ SymbolAt(j) = SymbolAt(i) /\ SymbolAt(l) = SymbolAt(i)
                  /\ Comparable(module, MarketOf(j), MarketOf(l))
                  /\ Fresh(i, j) /\ Fresh(i, l)
                  /\ IF module = "funding-spread"
                     THEN /\ quotes[j].funding # NoRate /\ quotes[l].funding # NoRate
                          /\ Detected(i)[module] =
                               Judged(FundingRatio(quotes[j].funding, quotes[l].funding))
                     ELSE /\ ~Homonym(quotes[j].price, quotes[l].price)
                          /\ Detected(i)[module] =
                               Judged(PriceRatio(quotes[j].price, quotes[l].price))
           /\ Detected(i)[module] # Insufficient /\ module # "funding-spread" =>
                SymbolAt(i) \notin muted
<1> DEFINE pairs == PairsOf(module, i)
           at == Snapshots(i)
           silent == MutedFor(module, i)
<1>1. module \in ModuleIds
  BY CoreAssumption
<1>2. CASE Detected(i)[module] = Insufficient
  BY <1>2, InsufficientType
<1>3. CASE Detected(i)[module] # Insufficient /\ module # "funding-spread"
  <2>1. Detected(i)[module] = PriceResult(pairs, at, silent)
    BY <1>1, <1>3 DEF Detected, PriceModules
  <2>2. PICK pair \in pairs :
          /\ ~Homonym(at[pair[1]].price, at[pair[2]].price)
          /\ PriceResult(pairs, at, silent) =
               Judged(PriceRatio(at[pair[1]].price, at[pair[2]].price))
    BY <1>3, <2>1, PriceResultSound
  <2>3. ~silent
    BY <1>3, <2>1, PriceResultSound
  <2>4. PICK j \in Entries, l \in Entries :
          /\ at[pair[1]] = quotes[j] /\ at[pair[2]] = quotes[l]
          /\ quotes[j] \in Quote /\ quotes[l] \in Quote
          /\ SymbolAt(j) = SymbolAt(i) /\ SymbolAt(l) = SymbolAt(i)
          /\ Comparable(module, MarketOf(j), MarketOf(l))
          /\ Fresh(i, j) /\ Fresh(i, l)
    BY <1>1, PairSound
  <2>5. quotes[j].price \in Nat \ {0} /\ quotes[l].price \in Nat \ {0}
    BY <2>4 DEF Quote
  <2>6. Judged(PriceRatio(quotes[j].price, quotes[l].price)) \in Result
    BY <2>5, PriceRatioType, JudgedType
  <2> QED
    BY <1>3, <2>1, <2>2, <2>3, <2>4, <2>6 DEF MutedFor
<1>4. CASE Detected(i)[module] # Insufficient /\ module = "funding-spread"
  <2>1. Detected(i)[module] = FundingResult(pairs, at)
    BY <1>1, <1>4 DEF Detected, PriceModules
  <2>2. PICK pair \in pairs :
          FundingResult(pairs, at) =
            Judged(FundingRatio(at[pair[1]].funding, at[pair[2]].funding))
    BY <1>4, <2>1, FundingResultSound
  <2>3. PICK j \in Entries, l \in Entries :
          /\ at[pair[1]] = quotes[j] /\ at[pair[2]] = quotes[l]
          /\ quotes[j] \in Quote /\ quotes[l] \in Quote
          /\ SymbolAt(j) = SymbolAt(i) /\ SymbolAt(l) = SymbolAt(i)
          /\ Comparable(module, MarketOf(j), MarketOf(l))
          /\ Fresh(i, j) /\ Fresh(i, l)
          /\ quotes[j].funding # NoRate /\ quotes[l].funding # NoRate
    BY <1>1, <1>4, PairSound
  <2>4. quotes[j].funding \in Rates /\ quotes[l].funding \in Rates
    BY <2>3 DEF Quote
  <2>5. Judged(FundingRatio(quotes[j].funding, quotes[l].funding)) \in Result
    BY <2>4, FundingRatioType, JudgedType
  <2> QED
    BY <1>4, <2>1, <2>2, <2>3, <2>5
<1> QED
  BY <1>2, <1>3, <1>4

\* What an attempt adds to the blacklist: the symbol of the entry, when two of
\* its fresh quotes are on different scales.
LEMMA MutedAfterSound ==
    ASSUME TypeOK, NEW i \in Entries
    PROVE  /\ MutedAfter(i) \subseteq muted \cup {SymbolAt(i)}
           /\ MutedAfter(i) # muted =>
                \E j, l \in Entries :
                  /\ quotes[j] \in Quote /\ quotes[l] \in Quote
                  /\ SymbolAt(j) = SymbolAt(i) /\ SymbolAt(l) = SymbolAt(i)
                  /\ Fresh(i, j) /\ Fresh(i, l)
                  /\ Homonym(quotes[j].price, quotes[l].price)
<1>1. MutedAfter(i) \subseteq muted \cup {SymbolAt(i)}
  BY DEF MutedAfter
<1>2. ASSUME MutedAfter(i) # muted
      PROVE  \E module \in ModuleIds : Mismatch(PairsOf(module, i), Snapshots(i))
  BY <1>2, CoreAssumption DEF MutedAfter
<1>3. ASSUME NEW module \in ModuleIds, Mismatch(PairsOf(module, i), Snapshots(i))
      PROVE  \E j, l \in Entries :
               /\ quotes[j] \in Quote /\ quotes[l] \in Quote
               /\ SymbolAt(j) = SymbolAt(i) /\ SymbolAt(l) = SymbolAt(i)
               /\ Fresh(i, j) /\ Fresh(i, l)
               /\ Homonym(quotes[j].price, quotes[l].price)
  <2>1. PICK pair \in PairsOf(module, i) :
          Homonym(Snapshots(i)[pair[1]].price, Snapshots(i)[pair[2]].price)
    BY <1>3 DEF Mismatch
  <2> QED
    BY <2>1, PairSound
<1> QED
  BY <1>1, <1>2, <1>3

LEMMA DetectedType ==
    ASSUME TypeOK, NEW i \in Entries
    PROVE  Detected(i) \in ResultsOf(Active) \cup {NoResults}
<1>1. CASE Invalid(i)
  BY <1>1 DEF Detected
<1>2. CASE ~Invalid(i)
  <2>1. \A module \in Active : Detected(i)[module] \in Result
    BY <1>2, DetectedSound
  <2>2. Detected(i) = [module \in Active |-> Detected(i)[module]]
    BY <1>2 DEF Detected
  <2> QED
    BY <2>1, <2>2 DEF ResultsOf
<1> QED
  BY <1>1, <1>2

-----------------------------------------------------------------------------
(* Type correctness *)

LEMMA InitTypes == Init => TypeOK
<1> SUFFICES ASSUME Init
             PROVE  TypeOK
  OBVIOUS
<1>1. InitialBlacklist \subseteq Symbols /\ MaxFaults \in Nat
  BY CoreAssumption
<1> QED
  BY <1>1 DEF Init, TypeOK

LEMMA CachedFinite == IsFiniteSet(Cached)
BY MarketAssumption, FS_Subset DEF Cached

\* What an attempt leaves in the memory has the types of TypeOK, for any later
\* value of handed that covers the entry.
LEMMA RememberTypes ==
    ASSUME TypeOK, NEW i \in Entries, NEW h \in 0..Len(quotes), handed <= h, i <= h,
           Remember(i)
    PROVE  /\ cache' \in [Markets -> 0..h]
           /\ \A k \in Markets : cache'[k] # 0 => MarketOf(cache'[k]) = k
           /\ place' \in [Markets -> Nat]
           /\ muted' \subseteq Symbols
<1>1. MarketOf(i) \in Markets
  BY QuoteType DEF MarketOf, Quote
<1>2. handed \in 0..Len(quotes) /\ cache \in [Markets -> 0..handed] /\ i \in 1..h
  BY DEF TypeOK, Entries
<1>3. cache' \in [Markets -> 0..h]
  <2>1. cache' = [k \in Markets |-> IF k = MarketOf(i) THEN i ELSE cache[k]]
    BY <1>2 DEF Remember, CacheWith
  <2>2. \A k \in Markets : cache[k] \in 0..handed
    BY <1>2
  <2>3. \A k \in Markets : (IF k = MarketOf(i) THEN i ELSE cache[k]) \in 0..h
    BY <1>2, <2>2
  <2> QED
    BY <2>1, <2>3
<1>4. \A k \in Markets : cache'[k] # 0 => MarketOf(cache'[k]) = k
  BY <1>1, <1>2 DEF Remember, CacheWith, TypeOK
<1>5. place' \in [Markets -> Nat]
  <2>1. CASE MarketOf(i) \in Cached
    BY <2>1 DEF Remember, PlaceWith, TypeOK
  <2>2. CASE MarketOf(i) \notin Cached
    <3>1. Cardinality(Cached) + 1 \in Nat
      BY CachedFinite, FS_CardinalityType
    <3> QED
      BY <2>2, <3>1 DEF Remember, PlaceWith, TypeOK
  <2> QED
    BY <2>1, <2>2
<1>6. muted' \subseteq Symbols
  BY <1>1, MutedAfterSound DEF Remember, TypeOK, Symbols, SymbolAt
<1> QED
  BY <1>3, <1>4, <1>5, <1>6

\* A publication keeps the entries there are, and their quotes.
LEMMA PublishKeeps ==
    ASSUME TypeOK, Publish
    PROVE  /\ quotes' \in Seq(Quote) /\ Len(quotes') = Len(quotes) + 1
           /\ Entries \subseteq Entries'
           /\ \A i \in Entries : quotes'[i] = quotes[i] /\ found'[i] = found[i]
           /\ found' \in Seq(ResultsOf(Active) \cup {NoResults})
           /\ Len(found') = Len(found) + 1
<1>1. PICK q \in Offered : quotes' = Append(quotes, q)
  BY DEF Publish
<1>2. q \in Quote
  BY <1>1, CoreAssumption
<1>3. quotes \in Seq(Quote) /\ found \in Seq(ResultsOf(Active) \cup {NoResults})
      /\ Len(found) = Len(quotes)
  BY DEF TypeOK
<1>4. quotes' \in Seq(Quote) /\ Len(quotes') = Len(quotes) + 1
  BY <1>1, <1>2, <1>3
<1>5. found' \in Seq(ResultsOf(Active) \cup {NoResults}) /\ Len(found') = Len(found) + 1
  BY <1>3 DEF Publish
<1>6. \A i \in Entries : quotes'[i] = quotes[i] /\ found'[i] = found[i]
  BY <1>1, <1>3 DEF Publish, Entries
<1>7. Entries \subseteq Entries'
  BY <1>3, <1>4 DEF Entries
<1> QED
  BY <1>4, <1>5, <1>6, <1>7

\* Every variable keeps its type.
LEMMA StepTypes == TypeOK /\ [Next]_vars => TypeOK'
<1> SUFFICES ASSUME TypeOK, [Next]_vars
             PROVE  TypeOK'
  OBVIOUS
<1>1. handed \in 0..Len(quotes) /\ waiting \subseteq 1..handed /\ stored \subseteq 1..handed
      /\ faults \in 0..MaxFaults /\ MaxFaults \in Nat /\ Len(quotes) \in Nat
  BY CoreAssumption DEF TypeOK
<1>2. CASE Publish
  <2>1. /\ quotes' \in Seq(Quote) /\ Len(quotes') = Len(quotes) + 1
        /\ \A i \in 1..Len(quotes) : quotes'[i] = quotes[i]
        /\ found' \in Seq(ResultsOf(Active) \cup {NoResults})
        /\ Len(found') = Len(found) + 1
    BY <1>2, PublishKeeps DEF Entries
  <2>2. UNCHANGED <<handed, waiting, cache, place, muted, stored, faults>>
    BY <1>2 DEF Publish, memory
  <2>3. handed' \in 0..Len(quotes')
    BY <1>1, <2>1, <2>2
  <2>4. cache \in [Markets -> 0..handed]
    BY DEF TypeOK
  <2>5. \A k \in Markets : cache[k] # 0 => cache[k] \in 1..Len(quotes)
    BY <1>1, <2>4
  <2>6. \A k \in Markets : cache'[k] # 0 => MarketOf(cache[k])' = k
    BY <2>1, <2>2, <2>5 DEF TypeOK, MarketOf
  <2> QED
    BY <1>1, <2>1, <2>2, <2>3, <2>4, <2>6 DEF TypeOK, MarketOf
<1>3. ASSUME NEW i \in Entries, Due(i), HandOut(i), UNCHANGED quotes
      PROVE  /\ handed' \in 0..Len(quotes) /\ handed <= handed' /\ i \in 1..handed'
             /\ waiting \cup {i} \subseteq 1..handed' /\ stored \cup {i} \subseteq 1..handed'
  BY <1>1, <1>3 DEF Due, HandOut, Entries
<1>4. ASSUME NEW i \in Entries, Finish(i)
      PROVE  TypeOK'
  <2>1. /\ handed' \in 0..Len(quotes) /\ handed <= handed' /\ i \in 1..handed'
        /\ waiting' \subseteq 1..handed' /\ stored' \subseteq 1..handed'
    BY <1>3, <1>4 DEF Finish
  <2>2. /\ cache' \in [Markets -> 0..handed']
        /\ \A k \in Markets : cache'[k] # 0 => MarketOf(cache'[k]) = k
        /\ place' \in [Markets -> Nat]
        /\ muted' \subseteq Symbols
    BY <1>4, <2>1, RememberTypes DEF Finish
  <2>3. found' \in Seq(ResultsOf(Active) \cup {NoResults}) /\ Len(found') = Len(found)
    BY <1>4, DetectedType DEF Finish, TypeOK, Entries
  <2> QED
    BY <1>4, <2>1, <2>2, <2>3 DEF Finish, TypeOK, MarketOf
<1>5. ASSUME NEW i \in Entries, FailAfterCore(i)
      PROVE  TypeOK'
  <2>1. /\ handed' \in 0..Len(quotes) /\ handed <= handed' /\ i \in 1..handed'
        /\ waiting' \subseteq 1..handed' /\ stored' \subseteq 1..handed'
    BY <1>3, <1>5 DEF FailAfterCore
  <2>2. /\ cache' \in [Markets -> 0..handed']
        /\ \A k \in Markets : cache'[k] # 0 => MarketOf(cache'[k]) = k
        /\ place' \in [Markets -> Nat]
        /\ muted' \subseteq Symbols
    BY <1>5, <2>1, RememberTypes DEF FailAfterCore
  <2> QED
    BY <1>1, <1>5, <2>1, <2>2 DEF FailAfterCore, Fault, TypeOK, MarketOf
<1>6. ASSUME NEW i \in Entries, FailBeforeCore(i)
      PROVE  TypeOK'
  <2>1. /\ handed' \in 0..Len(quotes) /\ handed <= handed' /\ i \in 1..handed'
        /\ waiting' \subseteq 1..handed' /\ stored' \subseteq 1..handed'
    BY <1>3, <1>6 DEF FailBeforeCore
  <2>2. cache' \in [Markets -> 0..handed']
    BY <1>1, <1>6, <2>1 DEF FailBeforeCore, memory, TypeOK
  <2> QED
    BY <1>1, <1>6, <2>1, <2>2 DEF FailBeforeCore, memory, Fault, TypeOK, MarketOf
<1>7. CASE Restart
  BY <1>1, <1>7, CoreAssumption DEF Restart, Fault, TypeOK, MarketOf
<1>8. CASE UNCHANGED vars
  BY <1>8 DEF vars, memory, TypeOK, MarketOf
<1> QED
  BY <1>2, <1>4, <1>5, <1>6, <1>7, <1>8 DEF Next

\* Every variable holds a value the code can store in it.
THEOREM CoreTypes == Spec => []TypeOK
<1> QED
  BY InitTypes, StepTypes, PTL DEF Spec

-----------------------------------------------------------------------------
(* No false alarm, no groundless blacklisting *)

\* Entries, once published, stay what they are, so what they show stays shown.
LEMMA QuotesStay ==
    ASSUME TypeOK, [Next]_vars
    PROVE  /\ Entries \subseteq Entries'
           /\ \A i \in Entries : quotes'[i] = quotes[i]
<1>1. CASE Publish
  BY <1>1, PublishKeeps
<1>2. CASE UNCHANGED quotes
  BY <1>2 DEF Entries
<1> QED
  BY <1>1, <1>2 DEF Next, Finish, FailAfterCore, FailBeforeCore, Restart, vars

\* The step that stores an entry with results is its Finish.
LEMMA StoreStep ==
    ASSUME TypeOK, [Next]_vars
    PROVE  \/ /\ UNCHANGED stored
              /\ \A i \in stored : found'[i] = found[i]
           \/ /\ UNCHANGED quotes
              /\ \E i \in Entries :
                   /\ stored' = stored \cup {i}
                   /\ found'[i] = Detected(i)
                   /\ \A j \in Entries \ {i} : found'[j] = found[j]
<1>1. stored \subseteq Entries /\ Len(found) = Len(quotes) /\ found \in Seq(ResultsOf(Active) \cup {NoResults})
  BY DEF TypeOK, Entries
<1>2. CASE Publish
  BY <1>1, <1>2, PublishKeeps DEF Publish
<1>3. ASSUME NEW i \in Entries, Finish(i)
      PROVE  /\ UNCHANGED quotes
             /\ stored' = stored \cup {i}
             /\ found'[i] = Detected(i)
             /\ \A j \in Entries \ {i} : found'[j] = found[j]
  BY <1>1, <1>3 DEF Finish, Entries
<1>4. CASE UNCHANGED <<stored, found>>
  BY <1>4
<1> QED
  BY <1>2, <1>3, <1>4 DEF Next, FailAfterCore, FailBeforeCore, Restart, vars

LEMMA RealStep ==
    ASSUME TypeOK, AnomaliesAreReal, [Next]_vars
    PROVE  AnomaliesAreReal'
<1>1. stored \subseteq Entries
  BY DEF TypeOK, Entries
<1>2. ASSUME NEW i \in Entries, NEW module, NEW j \in Entries, NEW l \in Entries,
             Shows(i, module, j, l), found'[i] = found[i]
      PROVE  Shows(i, module, j, l)'
  BY <1>2, QuotesStay DEF Shows, SymbolAt, MarketOf, Fresh
<1>3. ASSUME NEW i \in stored, found'[i] = found[i], NEW module \in Anomalies(i)'
      PROVE  \E j, l \in Entries' : Shows(i, module, j, l)'
  <2>1. module \in Anomalies(i)
    BY <1>3 DEF Anomalies
  <2>2. PICK j \in Entries, l \in Entries : Shows(i, module, j, l)
    BY <2>1 DEF AnomaliesAreReal
  <2> QED
    BY <1>1, <1>2, <1>3, <2>2, QuotesStay
<1>4. ASSUME UNCHANGED quotes, NEW i \in Entries, found'[i] = Detected(i),
             NEW module \in Anomalies(i)'
      PROVE  \E j, l \in Entries' : Shows(i, module, j, l)'
  <2>1. module \in DOMAIN Detected(i) /\ Detected(i)[module].status = "ANOMALY"
    BY <1>4 DEF Anomalies, Triggered
  <2>2. ~Invalid(i) /\ module \in Active
    BY <2>1 DEF Detected, NoResults
  <2>3. Detected(i)[module] # Insufficient
    BY <2>1, InsufficientType
  <2>4. PICK j \in Entries, l \in Entries :
          /\ SymbolAt(j) = SymbolAt(i) /\ SymbolAt(l) = SymbolAt(i)
          /\ Comparable(module, MarketOf(j), MarketOf(l))
          /\ Fresh(i, j) /\ Fresh(i, l)
          /\ IF module = "funding-spread"
             THEN /\ quotes[j].funding # NoRate /\ quotes[l].funding # NoRate
                  /\ Detected(i)[module] =
                       Judged(FundingRatio(quotes[j].funding, quotes[l].funding))
             ELSE /\ ~Homonym(quotes[j].price, quotes[l].price)
                  /\ Detected(i)[module] =
                       Judged(PriceRatio(quotes[j].price, quotes[l].price))
    BY <2>2, <2>3, DetectedSound
  <2>5. Shows(i, module, j, l)'
    BY <1>4, <2>4 DEF Shows, SymbolAt, MarketOf, Fresh
  <2> QED
    BY <1>4, <2>5 DEF Entries
<1>5. CASE UNCHANGED stored /\ \A i \in stored : found'[i] = found[i]
  BY <1>3, <1>5 DEF AnomaliesAreReal
<1>6. CASE /\ UNCHANGED quotes
           /\ \E i \in Entries :
                /\ stored' = stored \cup {i}
                /\ found'[i] = Detected(i)
                /\ \A j \in Entries \ {i} : found'[j] = found[j]
  BY <1>1, <1>3, <1>4, <1>6 DEF AnomaliesAreReal
<1> QED
  BY <1>5, <1>6, StoreStep

\* Every stored anomaly is shown by two quotes that were really published.
THEOREM NoFalseAlarm == Spec => []AnomaliesAreReal
<1>1. Init => AnomaliesAreReal
  BY DEF Init, AnomaliesAreReal
<1> QED
  BY <1>1, CoreTypes, RealStep, PTL DEF Spec

\* The blacklist grows by the symbol of the entry at hand, on the evidence of
\* two fresh quotes of it.
LEMMA MutedStep ==
    ASSUME TypeOK, MutedOnEvidence, [Next]_vars
    PROVE  MutedOnEvidence'
<1> DEFINE Evidence(s) == \E j, l \in Entries :
             /\ SymbolAt(j) = s /\ SymbolAt(l) = s
             /\ Abs(quotes[j].time - quotes[l].time) <= 2 * FreshnessTTL
             /\ Homonym(quotes[j].price, quotes[l].price)
<1>1. ASSUME NEW s, Evidence(s)
      PROVE  Evidence(s)'
  BY <1>1, QuotesStay DEF SymbolAt, MarketOf
<1>2. CASE muted' \subseteq muted
  BY <1>1, <1>2 DEF MutedOnEvidence
<1>3. CASE muted' \subseteq InitialBlacklist
  BY <1>3 DEF MutedOnEvidence
<1>4. ASSUME NEW i \in Entries, Remember(i), MutedAfter(i) # muted
      PROVE  Evidence(SymbolAt(i))
  <2>1. PICK j \in Entries, l \in Entries :
          /\ quotes[j] \in Quote /\ quotes[l] \in Quote
          /\ SymbolAt(j) = SymbolAt(i) /\ SymbolAt(l) = SymbolAt(i)
          /\ Fresh(i, j) /\ Fresh(i, l)
          /\ Homonym(quotes[j].price, quotes[l].price)
    BY <1>4, MutedAfterSound
  <2>2. quotes[i].time \in Nat /\ quotes[j].time \in Nat /\ quotes[l].time \in Nat
        /\ FreshnessTTL \in Nat
    BY <2>1, QuoteType, CoreAssumption DEF Quote
  <2>3. Abs(quotes[j].time - quotes[l].time) <= 2 * FreshnessTTL
    BY <2>1, <2>2 DEF Fresh, Abs
  <2> QED
    BY <2>1, <2>3
<1>5. ASSUME NEW i \in Entries, Remember(i)
      PROVE  MutedOnEvidence'
  <2>1. muted' \subseteq muted \cup {SymbolAt(i)}
    BY <1>5, MutedAfterSound DEF Remember
  <2>2. \A s \in muted \ InitialBlacklist : Evidence(s)
    BY DEF MutedOnEvidence
  <2>3. \A s \in muted' \ InitialBlacklist : Evidence(s)
    BY <1>4, <1>5, <2>1, <2>2 DEF Remember
  <2> QED
    BY <1>1, <2>3 DEF MutedOnEvidence
<1> QED
  BY <1>2, <1>3, <1>5
     DEF Next, Publish, Finish, FailAfterCore, FailBeforeCore, Restart, memory, vars

\* A symbol is blacklisted by configuration or on the evidence of two quotes.
THEOREM NoGroundlessMuting == Spec => []MutedOnEvidence
<1>1. Init => MutedOnEvidence
  BY DEF Init, MutedOnEvidence
<1> QED
  BY <1>1, CoreTypes, MutedStep, PTL DEF Spec

LEMMA SilentStep ==
    ASSUME TypeOK, [Next]_vars
    PROVE  [\A i \in stored' \ stored : SymbolAt(i) \in muted =>
               Triggered(found'[i]) \cap PriceModules = {}]_vars
<1>1. SUFFICES ASSUME NEW i \in Entries, found'[i] = Detected(i), SymbolAt(i) \in muted,
                      NEW module \in Triggered(found'[i]) \cap PriceModules
               PROVE  FALSE
  BY StoreStep
<1>2. module \in DOMAIN Detected(i) /\ Detected(i)[module].status = "ANOMALY"
      /\ module # "funding-spread"
  BY <1>1 DEF Triggered, PriceModules
<1>3. ~Invalid(i) /\ module \in Active
  BY <1>2 DEF Detected, NoResults
<1>4. Detected(i)[module] # Insufficient
  BY <1>2, InsufficientType
<1> QED
  BY <1>1, <1>2, <1>3, <1>4, DetectedSound

\* While a symbol is blacklisted, no price anomaly of it is stored.
THEOREM MutedSymbolsSilent == Spec => MutedIsSilent
<1> QED
  BY CoreTypes, SilentStep, PTL DEF Spec, MutedIsSilent

-----------------------------------------------------------------------------
(* Nothing missed: as long as nothing failed, the memory of the process is a *)
(* function of the entries handed out.                                       *)

\* The cache holds the last quote of every market, in the order in which the
\* markets were first quoted, and the blacklist has its evidence among the
\* entries handed out.
MemoryIsCurrent ==
    /\ waiting = {}
    /\ \A k \in Markets : cache[k] = LastUpTo(k, handed)
    /\ \A j \in 1..handed : MarketOf(j) \in Cached
    /\ \A k \in Cached : place[k] \in 1..Cardinality(Cached)
    /\ \A k, l \in Cached : CameBefore(k, l, handed) => place[k] < place[l]
    /\ \A s \in muted \ InitialBlacklist : \E j, n \in 1..handed :
          /\ SymbolAt(j) = s /\ SymbolAt(n) = s
          /\ Homonym(quotes[j].price, quotes[n].price)

\* The result of module m for event i is the one of the last quotes of k and l.
AsPublished(i, m, k, l) ==
    LET p == quotes[LastUpTo(k, i)]
        q == quotes[LastUpTo(l, i)]
    IN  /\ DOMAIN found[i] = Active
        /\ found[i][m] = IF m # "funding-spread" THEN Judged(PriceRatio(p.price, q.price))
                         ELSE IF p.funding = NoRate \/ q.funding = NoRate THEN Insufficient
                         ELSE Judged(FundingRatio(p.funding, q.funding))

\* The invariant: a process without faults knows what was published, and judged
\* the stored events by it.
Undisturbed ==
    faults = 0 =>
      /\ MemoryIsCurrent
      /\ \A i \in stored : \A m \in Active : \A k, l \in Live(i) :
            Decides(i, m, k, l) => AsPublished(i, m, k, l)

LEMMA MarketType ==
    ASSUME TypeOK, NEW i \in Entries
    PROVE  MarketOf(i) \in Markets
BY QuoteType DEF MarketOf, Quote

LEMMA MemoryTypes ==
    ASSUME TypeOK
    PROVE  /\ handed \in Nat /\ Len(quotes) \in Nat /\ handed <= Len(quotes)
           /\ cache \in [Markets -> 0..handed] /\ place \in [Markets -> Nat]
           /\ Cached \subseteq Markets
           /\ Entries = 1..Len(quotes)
BY DEF TypeOK, Cached, Entries

\* The largest number of a set, 0 when it is empty.
LastOf(S) == IF S = {} THEN 0 ELSE CHOOSE j \in S : \A l \in S : l <= j

LEMMA LastUpToIs ==
    ASSUME NEW k, NEW i
    PROVE  LastUpTo(k, i) = LastOf({j \in 1..i : MarketOf(j) = k})
BY DEF LastUpTo, LastOf

\* The last entry of a market among those up to i + 1.
LEMMA LastStep ==
    ASSUME NEW i \in Nat, NEW k
    PROVE  /\ LastUpTo(k, 0) = 0
           /\ MarketOf(i + 1) = k => LastUpTo(k, i + 1) = i + 1
           /\ MarketOf(i + 1) # k => LastUpTo(k, i + 1) = LastUpTo(k, i)
<1> DEFINE earlier(n) == {j \in 1..n : MarketOf(j) = k}
<1>1. LastUpTo(k, 0) = 0
  <2>1. earlier(0) = {}
    OBVIOUS
  <2> QED
    BY <2>1, LastUpToIs DEF LastOf
<1>2. CASE MarketOf(i + 1) = k
  <2> DEFINE S == earlier(i + 1)
  <2>1. i + 1 \in S /\ \A l \in S : l <= i + 1 /\ l \in Nat
    BY <1>2
  <2>2. LastUpTo(k, i + 1) = LastOf(S)
    BY LastUpToIs
  <2> HIDE DEF S
  <2>3. \A j \in S : (\A l \in S : l <= j) => j = i + 1
    BY <2>1
  <2>4. (CHOOSE j \in S : \A l \in S : l <= j) = i + 1
    BY <2>1, <2>3
  <2>5. S # {}
    BY <2>1
  <2> QED
    BY <1>1, <1>2, <2>2, <2>4, <2>5 DEF LastOf
<1>3. CASE MarketOf(i + 1) # k
  <2>1. 1..(i + 1) = 1..i \cup {i + 1}
    OBVIOUS
  <2>2. earlier(i + 1) = earlier(i)
    BY <1>3, <2>1
  <2>3. LastUpTo(k, i + 1) = LastUpTo(k, i)
    BY <2>2, LastUpToIs
  <2> QED
    BY <1>1, <1>3, <2>3
<1> QED
  BY <1>1, <1>2, <1>3

\* What is said about published entries stays true.
LEMMA PastStays ==
    ASSUME TypeOK, [Next]_vars, NEW i \in 0..Len(quotes)
    PROVE  /\ \A j \in 1..i : /\ j \in Entries
                              /\ quotes'[j] = quotes[j]
                              /\ MarketOf(j)' = MarketOf(j) /\ SymbolAt(j)' = SymbolAt(j)
           /\ \A k : LastUpTo(k, i)' = LastUpTo(k, i)
           /\ \A k, l : CameBefore(k, l, i)' = CameBefore(k, l, i)
<1>1. \A j \in 1..i : j \in Entries
  BY DEF Entries, TypeOK
<1>2. \A j \in 1..i : /\ quotes'[j] = quotes[j]
                      /\ MarketOf(j)' = MarketOf(j) /\ SymbolAt(j)' = SymbolAt(j)
  BY <1>1, QuotesStay DEF MarketOf, SymbolAt
<1>3. \A k : {j \in 1..i : MarketOf(j)' = k} = {j \in 1..i : MarketOf(j) = k}
  BY <1>2
<1>4. ASSUME NEW k
      PROVE  LastUpTo(k, i)' = LastUpTo(k, i)
  <2>1. LastUpTo(k, i)' = LastOf({j \in 1..i : MarketOf(j)' = k})
    BY DEF LastUpTo, LastOf
  <2>2. LastUpTo(k, i) = LastOf({j \in 1..i : MarketOf(j) = k})
    BY DEF LastUpTo, LastOf
  <2> QED
    BY <1>3, <2>1, <2>2
<1>5. \A j \in 1..i : \A n \in 1..j : n \in 1..i
  OBVIOUS
<1>6. \A k, l : CameBefore(k, l, i)' <=> CameBefore(k, l, i)
  BY <1>2, <1>5 DEF CameBefore
<1> QED
  BY <1>1, <1>2, <1>4, <1>6 DEF CameBefore

\* The entries in the memory are those that were handed out.
LEMMA CachedIsHanded ==
    ASSUME TypeOK, MemoryIsCurrent, NEW k \in Markets
    PROVE  k \in Cached <=> \E j \in 1..handed : MarketOf(j) = k
<1>1. ASSUME k \in Cached
      PROVE  cache[k] \in 1..handed /\ MarketOf(cache[k]) = k
  <2>1. cache[k] # 0 /\ cache[k] \in 0..handed /\ handed \in Nat
    BY <1>1 DEF TypeOK, Cached
  <2> QED
    BY <2>1 DEF TypeOK
<1> QED
  BY <1>1 DEF MemoryIsCurrent

-----------------------------------------------------------------------------
(* The next entry, handled without faults *)

\* The cache with the next entry in it holds the last quote of every market.
LEMMA CacheWithNext ==
    ASSUME TypeOK, MemoryIsCurrent, handed + 1 \in Entries
    PROVE  LET i == handed + 1
           IN  /\ CacheWith(i) \in [Markets -> 0..i]
               /\ \A k \in Markets : /\ CacheWith(i)[k] = LastUpTo(k, i)
                                     /\ CacheWith(i)[k] # 0 <=> k \in Cached \cup {MarketOf(i)}
<1> DEFINE i == handed + 1
<1>1. handed \in Nat /\ cache \in [Markets -> 0..handed] /\ MarketOf(i) \in Markets
  BY MarketType, MemoryTypes
<1>2. \A k \in Markets : CacheWith(i)[k] = IF k = MarketOf(i) THEN i ELSE cache[k]
  BY <1>1 DEF CacheWith
<1>3. \A k \in Markets : CacheWith(i)[k] = LastUpTo(k, i)
  BY <1>1, <1>2, LastStep DEF MemoryIsCurrent
<1>4. \A k \in Markets : CacheWith(i)[k] # 0 <=> k \in Cached \cup {MarketOf(i)}
  BY <1>1, <1>2 DEF Cached
<1>5. \A k \in Markets : cache[k] \in 0..handed
  BY <1>1
<1>6. CacheWith(i) \in [Markets -> 0..i]
  <2>1. i \in 0..i /\ 0..handed \subseteq 0..i
    BY <1>1
  <2> QED
    BY <1>1, <2>1 DEF CacheWith
<1> QED
  BY <1>3, <1>4, <1>6

\* The context of the next entry is what was live when it was published.
LEMMA ContextIsLive ==
    ASSUME TypeOK, MemoryIsCurrent, handed + 1 \in Entries
    PROVE  LET i == handed + 1
           IN  /\ Context(i) = Live(i)
               /\ \A k \in Context(i) : /\ LastUpTo(k, i) \in 1..i
                                        /\ SymbolAt(LastUpTo(k, i)) = SymbolAt(i)
                                        /\ Snapshots(i)[k] = quotes[LastUpTo(k, i)]
<1> DEFINE i == handed + 1
<1>1. MarketOf(i) \in Markets /\ Cached \subseteq Markets /\ i \in Nat
  BY MarketType, MemoryTypes
<1>2. \A k \in Markets : /\ CacheWith(i)[k] = LastUpTo(k, i)
                         /\ LastUpTo(k, i) \in 0..i
                         /\ LastUpTo(k, i) # 0 <=> k \in Cached \cup {MarketOf(i)}
  BY CacheWithNext
<1>3. Context(i) = Live(i)
  BY <1>1, <1>2 DEF Context, Live
<1>4. ASSUME NEW k \in Context(i)
      PROVE  /\ LastUpTo(k, i) \in 1..i
             /\ SymbolAt(LastUpTo(k, i)) = SymbolAt(i)
             /\ Snapshots(i)[k] = quotes[LastUpTo(k, i)]
  <2>1. k \in Markets /\ k \in Cached \cup {MarketOf(i)}
    BY <1>1 DEF Context
  <2>2. LastUpTo(k, i) \in 1..i
    BY <1>1, <1>2, <2>1
  <2> QED
    BY <1>2, <2>1, <2>2, ContextSound
<1> QED
  BY <1>3, <1>4

\* A pair on different scales, in the context of the next entry, is one of two
\* entries of its symbol up to it.
LEMMA MismatchShown ==
    ASSUME TypeOK, MemoryIsCurrent, handed + 1 \in Entries,
           NEW m \in ModuleIds, Mismatch(PairsOf(m, handed + 1), Snapshots(handed + 1))
    PROVE  \E j, n \in 1..(handed + 1) :
             /\ SymbolAt(j) = SymbolAt(handed + 1) /\ SymbolAt(n) = SymbolAt(handed + 1)
             /\ Homonym(quotes[j].price, quotes[n].price)
<1> DEFINE i == handed + 1
<1>1. PICK pair \in PairsOf(m, i) :
        Homonym(Snapshots(i)[pair[1]].price, Snapshots(i)[pair[2]].price)
  BY DEF Mismatch
<1>2. pair[1] \in Context(i) /\ pair[2] \in Context(i)
  BY SelectedSound DEF PairsOf
<1> QED
  BY <1>1, <1>2, ContextIsLive

\* The places of the cached markets follow the order of their first quotes.
LEMMA PlaceWithNext ==
    ASSUME TypeOK, MemoryIsCurrent, handed + 1 \in Entries,
           NEW C, C = Cached \cup {MarketOf(handed + 1)}
    PROVE  LET i == handed + 1
           IN  /\ \A k \in C : PlaceWith(i)[k] \in 1..Cardinality(C)
               /\ \A k, l \in C : CameBefore(k, l, i) => PlaceWith(i)[k] < PlaceWith(i)[l]
<1> DEFINE i == handed + 1
           N == MarketOf(i)
<1>1. N \in Markets /\ Cached \subseteq Markets /\ handed \in Nat /\ i = handed + 1
      /\ place \in [Markets -> Nat]
  BY MarketType, MemoryTypes
<1>2. IsFiniteSet(Cached) /\ Cardinality(Cached) \in Nat
  BY CachedFinite, FS_CardinalityType
<1>3. ASSUME NEW k \in C, NEW l \in C, CameBefore(k, l, i)
      PROVE  \/ k \in Cached /\ l \in Cached /\ CameBefore(k, l, handed)
             \/ k \in Cached /\ l = N /\ N \notin Cached
  <2>1. PICK j \in 1..i : MarketOf(j) = k /\ \A n \in 1..j : MarketOf(n) # l
    BY <1>3 DEF CameBefore
  <2>2. ASSUME l \in Cached
        PROVE  j \in 1..handed
    <3>1. PICK n \in 1..handed : MarketOf(n) = l
      BY <1>1, <2>2, CachedIsHanded
    <3> QED
      BY <1>1, <2>1, <3>1
  <2>3. j \in 1..handed => k \in Cached /\ CameBefore(k, l, handed)
    BY <1>1, <2>1, CachedIsHanded DEF CameBefore
  <2>4. CASE l \in Cached
    BY <2>2, <2>3, <2>4
  <2>5. CASE l \notin Cached
    <3>1. l = N
      BY <2>5
    <3>2. j # i
      <4>1. j = i => i \in 1..j
        BY <1>1
      <4> QED
        BY <2>1, <3>1, <4>1
    <3> QED
      BY <1>1, <2>1, <2>3, <2>5, <3>1, <3>2
  <2> QED
    BY <2>4, <2>5
<1>4. CASE N \in Cached
  <2>1. PlaceWith(i) = place /\ C = Cached
    BY <1>4 DEF PlaceWith
  <2> QED
    BY <1>3, <1>4, <2>1 DEF MemoryIsCurrent
<1>5. CASE N \notin Cached
  <2>1. Cardinality(C) = Cardinality(Cached) + 1
    BY <1>2, <1>5, FS_AddElement
  <2>2. PlaceWith(i)[N] = Cardinality(Cached) + 1
    BY <1>1, <1>5 DEF PlaceWith
  <2>3. \A k \in Cached : PlaceWith(i)[k] = place[k]
    BY <1>1, <1>5 DEF PlaceWith
  <2>4. \A k \in Cached : place[k] \in 1..Cardinality(Cached)
    BY DEF MemoryIsCurrent
  <2>5. \A k \in C : PlaceWith(i)[k] \in 1..Cardinality(C)
    BY <1>2, <2>1, <2>2, <2>3, <2>4
  <2>6. \A k, l \in Cached : CameBefore(k, l, handed) => PlaceWith(i)[k] < PlaceWith(i)[l]
    BY <2>3 DEF MemoryIsCurrent
  <2>7. \A k \in Cached : PlaceWith(i)[k] < PlaceWith(i)[N]
    BY <1>2, <2>2, <2>3, <2>4
  <2> QED
    BY <1>3, <2>5, <2>6, <2>7
<1> QED
  BY <1>4, <1>5

\* What a module selects when k and l are the only markets it can compare: the
\* pair of them, or for the funding module nothing when one has no rate.
LEMMA TheOnlyPair ==
    ASSUME NEW m \in ModuleIds, NEW type, NEW snaps, NEW at, NEW seen,
           NEW k \in snaps, NEW l \in snaps, type \in {TypeOf[k], TypeOf[l]},
           Comparable(m, k, l),
           \A n \in snaps : Comparable(m, n, l) \/ Comparable(m, k, n) => n \in {k, l},
           seen[k] \in Nat, seen[l] \in Nat, TypeOf[k] = TypeOf[l] => seen[k] < seen[l]
    PROVE  Selected(m, type, snaps, at, seen) =
             IF m = "funding-spread" /\ (at[k].funding = NoRate \/ at[l].funding = NoRate)
             THEN {} ELSE {<<k, l>>}
<1>1. \A n : First({n}, seen) = IF seen[n] <= seen[n] THEN {n} ELSE {}
  BY DEF First
<1>2. First({k}, seen) = {k} /\ First({l}, seen) = {l}
  <2>1. seen[k] <= seen[k] /\ seen[l] <= seen[l]
    OBVIOUS
  <2> QED
    BY <1>1, <2>1
<1>3. First({}, seen) = {}
  BY DEF First
<1>4. ASSUME m \in {"futures-futures-spread", "funding-spread"}
      PROVE  /\ TypeOf[k] = "FUTURES" /\ TypeOf[l] = "FUTURES" /\ type = "FUTURES"
             /\ SourceOf[k] # SourceOf[l]
             /\ OfType(snaps, "FUTURES") = {k, l}
             /\ First({k, l}, seen) = {k}
             /\ FuturesPairs({k, l}, seen) = {<<k, l>>}
             /\ FuturesPairs({k}, seen) = {} /\ FuturesPairs({l}, seen) = {}
             /\ FuturesPairs({}, seen) = {}
  <2>1. TypeOf[k] = "FUTURES" /\ TypeOf[l] = "FUTURES" /\ SourceOf[k] # SourceOf[l]
    BY <1>4 DEF Comparable
  <2>2. OfType(snaps, "FUTURES") = {k, l}
    <3>1. ASSUME NEW n \in snaps, TypeOf[n] = "FUTURES"
          PROVE  n \in {k, l}
      BY <1>4, <2>1, <3>1 DEF Comparable
    <3> QED
      BY <2>1, <3>1 DEF OfType
  <2>3. First({k, l}, seen) = {k}
    BY <2>1 DEF First
  <2>4. {n \in {k, l} : SourceOf[n] # SourceOf[k]} = {l}
    BY <2>1
  <2>5. FuturesPairs({k, l}, seen) = {<<k, l>>}
    <3>1. \A pair \in {k} \X {k, l} :
            {n \in {k, l} : SourceOf[n] # SourceOf[pair[1]]} = {l}
      BY <2>4
    <3>2. FuturesPairs({k, l}, seen) = {pair \in {k} \X {k, l} : pair[2] \in {l}}
      BY <1>2, <2>3, <3>1 DEF FuturesPairs
    <3> QED
      BY <3>2
  <2>6. \A n : FuturesPairs({n}, seen) = {}
    BY DEF FuturesPairs, First
  <2>7. FuturesPairs({}, seen) = {}
    BY <1>3 DEF FuturesPairs
  <2> QED
    BY <2>1, <2>2, <2>3, <2>5, <2>6, <2>7
<1>5. CASE m = "futures-futures-spread"
  BY <1>4, <1>5 DEF Selected
<1>6. CASE m = "funding-spread"
  <2>1. {n \in {k, l} : at[n].funding # NoRate} =
          IF at[k].funding = NoRate THEN IF at[l].funding = NoRate THEN {} ELSE {l}
          ELSE IF at[l].funding = NoRate THEN {k} ELSE {k, l}
    OBVIOUS
  <2>2. Selected(m, type, snaps, at, seen)
          = FuturesPairs({n \in {k, l} : at[n].funding # NoRate}, seen)
    BY <1>4, <1>6 DEF Selected
  <2> QED
    BY <1>4, <1>6, <2>1, <2>2
<1>7. ASSUME NEW side \in {"SPOT", "DEX"},
             TypeOf[k] = side, TypeOf[l] = "FUTURES",
             \A n \in snaps : TypeOf[n] = side => n \in {k, l},
             \A n \in snaps : TypeOf[n] = "FUTURES" => n \in {k, l}
      PROVE  CrossPairs(snaps, seen, side) = {<<k, l>>}
  <2>1. OfType(snaps, side) = {k} /\ OfType(snaps, "FUTURES") = {l}
    BY <1>7 DEF OfType
  <2>2. {k} \X {l} = {<<k, l>>}
    OBVIOUS
  <2> QED
    BY <1>2, <2>1, <2>2 DEF CrossPairs
<1>8. CASE m = "spot-futures-spread"
  <2>1. TypeOf[k] = "SPOT" /\ TypeOf[l] = "FUTURES"
    BY <1>8 DEF Comparable
  <2>2. CrossPairs(snaps, seen, "SPOT") = {<<k, l>>}
    BY <1>7, <1>8, <2>1 DEF Comparable
  <2> QED
    BY <1>8, <2>1, <2>2 DEF Selected
<1>9. CASE m = "dex-futures-spread"
  <2>1. TypeOf[k] = "DEX" /\ TypeOf[l] = "FUTURES"
    BY <1>9 DEF Comparable
  <2>2. CrossPairs(snaps, seen, "DEX") = {<<k, l>>}
    BY <1>7, <1>9, <2>1 DEF Comparable
  <2> QED
    BY <1>9, <2>1, <2>2 DEF Selected
<1> QED
  BY <1>5, <1>6, <1>8, <1>9 DEF ModuleIds

\* The next entry is judged by the last quotes of the two markets.
LEMMA NextAsPublished ==
    ASSUME TypeOK, MemoryIsCurrent, handed + 1 \in Entries,
           NEW m \in Active, NEW k \in Live(handed + 1), NEW l \in Live(handed + 1),
           Decides(handed + 1, m, k, l), found'[handed + 1] = Detected(handed + 1)
    PROVE  LET i == handed + 1
               p == quotes[LastUpTo(k, i)]
               q == quotes[LastUpTo(l, i)]
           IN  found'[i][m] =
                 IF m # "funding-spread" THEN Judged(PriceRatio(p.price, q.price))
                 ELSE IF p.funding = NoRate \/ q.funding = NoRate THEN Insufficient
                 ELSE Judged(FundingRatio(p.funding, q.funding))
<1> DEFINE i == handed + 1
           at == Snapshots(i)
           seen == PlaceWith(i)
           pairs == PairsOf(m, i)
<1>1. m \in ModuleIds
  BY CoreAssumption
<1>2. /\ k \in Context(i) /\ l \in Context(i)
      /\ at[k] = quotes[LastUpTo(k, i)] /\ at[l] = quotes[LastUpTo(l, i)]
      /\ Context(i) = Live(i)
  BY ContextIsLive
<1>3. /\ ~Invalid(i) /\ SymbolAt(i) \notin InitialBlacklist
      /\ MarketOf(i) \in {k, l} /\ Comparable(m, k, l)
      /\ TypeOf[k] = TypeOf[l] => CameBefore(k, l, i)
      /\ {n \in Live(i) : Comparable(m, n, l) \/ Comparable(m, k, n)} \subseteq {k, l}
      /\ \A j, n \in 1..i :
            SymbolAt(j) = SymbolAt(i) /\ SymbolAt(n) = SymbolAt(i) =>
                ~Homonym(quotes[j].price, quotes[n].price)
  BY DEF Decides
<1>4. handed \in Nat /\ \A j \in 1..handed : j \in 1..i
  BY MemoryTypes
<1>5. seen[k] \in Nat /\ seen[l] \in Nat /\ (TypeOf[k] = TypeOf[l] => seen[k] < seen[l])
  <2> DEFINE C == Cached \cup {MarketOf(i)}
  <2>1. IsFiniteSet(C) /\ Cardinality(C) \in Nat
    BY CachedFinite, FS_AddElement, FS_CardinalityType
  <2>2. k \in C /\ l \in C
    BY <1>2 DEF Context
  <2>3. seen[k] \in 1..Cardinality(C) /\ seen[l] \in 1..Cardinality(C)
        /\ (CameBefore(k, l, i) => seen[k] < seen[l])
    BY <2>2, PlaceWithNext
  <2> QED
    BY <1>3, <2>1, <2>3
<1>6. pairs = IF m = "funding-spread" /\ (at[k].funding = NoRate \/ at[l].funding = NoRate)
              THEN {} ELSE {<<k, l>>}
  <2>1. TypeOf[MarketOf(i)] \in {TypeOf[k], TypeOf[l]}
    BY <1>3
  <2> DEFINE type == TypeOf[MarketOf(i)]
             snaps == Context(i)
  <2>2. \A n \in snaps : Comparable(m, n, l) \/ Comparable(m, k, n) => n \in {k, l}
    BY <1>2, <1>3
  <2>3. k \in snaps /\ l \in snaps /\ type \in {TypeOf[k], TypeOf[l]}
    BY <1>2, <2>1
  <2>4. pairs = Selected(m, type, snaps, at, seen)
    BY DEF PairsOf
  <2> HIDE DEF i, at, seen, type, snaps, pairs
  <2> QED
    BY <1>1, <1>3, <1>5, <2>2, <2>3, <2>4, TheOnlyPair
<1>7. \A n \in ModuleIds : ~Mismatch(PairsOf(n, i), at)
  BY <1>3, MismatchShown
<1>8. ~MutedFor(m, i)
  <2>1. SymbolAt(i) \notin muted
    BY <1>3, <1>4 DEF MemoryIsCurrent
  <2>2. Before(m) \subseteq ModuleIds
    BY CoreAssumption DEF Before
  <2> QED
    BY <1>7, <2>1, <2>2 DEF MutedFor
<1>9. (CHOOSE x \in {<<k, l>>} : TRUE) = <<k, l>>
  OBVIOUS
<1>10. CASE m # "funding-spread"
  <2>1. found'[i][m] = PriceResult(pairs, at, MutedFor(m, i))
    BY <1>1, <1>3, <1>10 DEF Detected, PriceModules
  <2>2. pairs = {<<k, l>>} /\ ~Mismatch(pairs, at)
    BY <1>1, <1>6, <1>7, <1>10
  <2>3. PriceResult(pairs, at, MutedFor(m, i)) = Judged(PriceRatio(at[k].price, at[l].price))
    BY <1>8, <1>9, <2>2 DEF PriceResult
  <2> QED
    BY <1>2, <1>10, <2>1, <2>3
<1>11. CASE m = "funding-spread"
  <2>1. found'[i][m] = FundingResult(pairs, at)
    BY <1>1, <1>3, <1>11 DEF Detected, PriceModules
  <2>2. CASE at[k].funding = NoRate \/ at[l].funding = NoRate
    BY <1>2, <1>6, <1>11, <2>1, <2>2 DEF FundingResult
  <2>3. CASE ~(at[k].funding = NoRate \/ at[l].funding = NoRate)
    <3>1. pairs = {<<k, l>>}
      BY <1>6, <2>3
    <3>2. FundingResult(pairs, at) = Judged(FundingRatio(at[k].funding, at[l].funding))
      BY <1>9, <3>1 DEF FundingResult
    <3> QED
      BY <1>2, <1>11, <2>1, <2>3, <3>2
  <2> QED
    BY <2>2, <2>3
<1> QED
  BY <1>10, <1>11

LEMMA LeastElement ==
    ASSUME NEW T \in SUBSET Nat, T # {}
    PROVE  \E x \in T : \A y \in T : x <= y
<1> DEFINE R == OpToRel(<, Nat)
<1>1. IsWellFoundedOn(R, Nat)
  BY NatLessThanWellFounded
<1>2. PICK x \in T : \A y \in T : <<y, x>> \notin R
  <2> HIDE DEF R
  <2> QED
    BY <1>1, WFMin
<1>3. ASSUME NEW y \in T
      PROVE  x <= y
  <2>1. ~(y < x)
    BY <1>2 DEF OpToRel
  <2> QED
    BY <2>1
<1> QED
  BY <1>3

LEMMA LastUpToType ==
    ASSUME NEW k, NEW i \in Nat
    PROVE  LastUpTo(k, i) \in 0..i
<1> DEFINE T == {n \in Nat : LastUpTo(k, n) \notin 0..n}
<1>1. ASSUME T # {}
      PROVE  FALSE
  <2>1. PICK n \in T : \A o \in T : n <= o
    <3> HIDE DEF T
    <3>1. T \in SUBSET Nat
      BY DEF T
    <3> QED
      BY <1>1, <3>1, LeastElement
  <2>2. n # 0
    BY LastStep
  <2>3. n - 1 \in Nat /\ n - 1 \notin T /\ (n - 1) + 1 = n
    BY <2>1, <2>2
  <2>4. LastUpTo(k, n - 1) \in 0..(n - 1)
    BY <2>3
  <2>5. LastUpTo(k, n) = n \/ LastUpTo(k, n) = LastUpTo(k, n - 1)
    BY <2>3, LastStep
  <2> QED
    BY <2>3, <2>4, <2>5
<1> QED
  BY <1>1

-----------------------------------------------------------------------------
(* The steps *)

\* What was live, and what decides, when an entry was published stays so.
LEMMA JudgedStays ==
    ASSUME TypeOK, [Next]_vars, faults = 0, NEW i \in Entries, NEW m,
           NEW k \in Live(i)', NEW l \in Live(i)', Decides(i, m, k, l)'
    PROVE  /\ k \in Live(i) /\ l \in Live(i) /\ Decides(i, m, k, l)
           /\ found'[i] = found[i] /\ AsPublished(i, m, k, l) => AsPublished(i, m, k, l)'
           /\ quotes[LastUpTo(k, i)] = quotes'[LastUpTo(k, i)']
           /\ quotes[LastUpTo(l, i)] = quotes'[LastUpTo(l, i)']
<1>1. i \in 0..Len(quotes) /\ i \in 1..i
  BY MemoryTypes
<1>2. /\ \A j \in 1..i : /\ quotes'[j] = quotes[j]
                         /\ MarketOf(j)' = MarketOf(j) /\ SymbolAt(j)' = SymbolAt(j)
      /\ \A n : LastUpTo(n, i)' = LastUpTo(n, i)
      /\ \A n, o : CameBefore(n, o, i)' = CameBefore(n, o, i)
  BY <1>1, PastStays
<1>3. \A n : LastUpTo(n, i) # 0 => LastUpTo(n, i) \in 1..i
  BY <1>1, LastUpToType
<1>4. \A n : LastUpTo(n, i) # 0 =>
         /\ quotes'[LastUpTo(n, i)] = quotes[LastUpTo(n, i)]
         /\ Fresh(i, LastUpTo(n, i))' <=> Fresh(i, LastUpTo(n, i))
  BY <1>1, <1>2, <1>3 DEF Fresh
<1>5. Live(i)' = Live(i)
  BY <1>1, <1>2, <1>4 DEF Live
<1>6. /\ quotes[LastUpTo(k, i)] = quotes'[LastUpTo(k, i)']
      /\ quotes[LastUpTo(l, i)] = quotes'[LastUpTo(l, i)']
  BY <1>2, <1>4, <1>5 DEF Live
<1>7. Decides(i, m, k, l)
  <2>1. Invalid(i)' <=> Invalid(i)
    BY <1>1, <1>2 DEF Invalid
  <2> QED
    BY <1>1, <1>2, <1>5, <2>1 DEF Decides
<1> QED
  BY <1>2, <1>5, <1>6, <1>7 DEF AsPublished

\* A publication changes nothing in the memory, nor what it stands for.
LEMMA MemoryStays ==
    ASSUME TypeOK, MemoryIsCurrent, [Next]_vars, UNCHANGED <<handed, waiting, memory>>
    PROVE  MemoryIsCurrent'
<1>1. handed \in 0..Len(quotes)
  BY MemoryTypes
<1>2. /\ \A j \in 1..handed : /\ quotes'[j] = quotes[j]
                              /\ MarketOf(j)' = MarketOf(j) /\ SymbolAt(j)' = SymbolAt(j)
      /\ \A k : LastUpTo(k, handed)' = LastUpTo(k, handed)
      /\ \A k, l : CameBefore(k, l, handed)' = CameBefore(k, l, handed)
  <2>1. PICK h \in 0..Len(quotes) : h = handed /\ h = handed'
    BY <1>1
  <2>2. /\ \A j \in 1..h : /\ quotes'[j] = quotes[j]
                         /\ MarketOf(j)' = MarketOf(j) /\ SymbolAt(j)' = SymbolAt(j)
        /\ \A k : LastUpTo(k, h)' = LastUpTo(k, h)
        /\ \A k, l : CameBefore(k, l, h)' = CameBefore(k, l, h)
    BY PastStays
  <2>3. \A k : LastUpTo(k, handed)' = LastUpTo(k, h)'
    BY <2>1 DEF LastUpTo
  <2>4. \A k, l : CameBefore(k, l, handed)' = CameBefore(k, l, h)'
    BY <2>1 DEF CameBefore
  <2> QED
    BY <2>1, <2>2, <2>3, <2>4
<1>3. Cached' = Cached /\ waiting' = {} /\ handed' = handed /\ cache' = cache
      /\ place' = place /\ muted' = muted
  BY DEF memory, Cached, MemoryIsCurrent
<1> QED
  BY <1>2, <1>3 DEF MemoryIsCurrent

\* The next entry, handled without a fault, keeps the memory current.
LEMMA MemoryAdvances ==
    ASSUME TypeOK, MemoryIsCurrent, handed + 1 \in Entries, Finish(handed + 1)
    PROVE  MemoryIsCurrent'
<1> DEFINE i == handed + 1
<1>1. handed \in Nat /\ i \in Nat /\ handed' = i /\ quotes' = quotes /\ waiting' = {}
  BY MemoryTypes DEF Finish, HandOut, MemoryIsCurrent
<1>2. cache' = CacheWith(i) /\ place' = PlaceWith(i) /\ muted' = MutedAfter(i)
  BY DEF Finish, Remember
<1>3. /\ \A j : MarketOf(j)' = MarketOf(j) /\ SymbolAt(j)' = SymbolAt(j)
      /\ \A k : LastUpTo(k, handed)' = LastUpTo(k, i)
      /\ \A k, l : CameBefore(k, l, handed)' = CameBefore(k, l, i)
  BY <1>1 DEF MarketOf, SymbolAt, LastUpTo, CameBefore
<1>4. \A k \in Markets : cache'[k] = LastUpTo(k, handed)'
  BY <1>2, <1>3, CacheWithNext
<1>5. Cached' = Cached \cup {MarketOf(i)}
  BY <1>2, CacheWithNext, MarketType, MemoryTypes DEF Cached
<1>6. \A j \in 1..i : MarketOf(j) \in Cached \cup {MarketOf(i)}
  BY <1>1 DEF MemoryIsCurrent
<1>7. /\ \A k \in Cached' : place'[k] \in 1..Cardinality(Cached')
      /\ \A k, l \in Cached' : CameBefore(k, l, handed)' => place'[k] < place'[l]
  BY <1>2, <1>3, <1>5, PlaceWithNext
<1>8. \A s \in muted' \ InitialBlacklist : \E j, n \in 1..i :
         /\ SymbolAt(j) = s /\ SymbolAt(n) = s
         /\ Homonym(quotes[j].price, quotes[n].price)
  <2> SUFFICES ASSUME NEW s \in MutedAfter(i) \ InitialBlacklist
               PROVE  \E j, n \in 1..i :
                        /\ SymbolAt(j) = s /\ SymbolAt(n) = s
                        /\ Homonym(quotes[j].price, quotes[n].price)
    BY <1>2
  <2>1. CASE s \in muted
    <3>1. PICK j \in 1..handed, n \in 1..handed :
            /\ SymbolAt(j) = s /\ SymbolAt(n) = s
            /\ Homonym(quotes[j].price, quotes[n].price)
      BY <2>1 DEF MemoryIsCurrent
    <3> QED
      BY <1>1, <3>1
  <2>2. CASE s \notin muted
    <3>1. PICK m \in Active \cap PriceModules : Mismatch(PairsOf(m, i), Snapshots(i))
      BY <2>2 DEF MutedAfter
    <3>2. s = SymbolAt(i)
      BY <2>2 DEF MutedAfter
    <3>3. m \in ModuleIds
      BY <3>1, CoreAssumption
    <3> QED
      BY <3>1, <3>2, <3>3, MismatchShown
  <2> QED
    BY <2>1, <2>2
<1> QED
  BY <1>1, <1>3, <1>4, <1>5, <1>6, <1>7, <1>8 DEF MemoryIsCurrent

LEMMA UndisturbedStep ==
    ASSUME TypeOK, Undisturbed, [Next]_vars
    PROVE  Undisturbed'
<1> SUFFICES ASSUME faults' = 0
             PROVE  /\ MemoryIsCurrent'
                    /\ \A i \in stored' : \A m \in Active : \A k, l \in Live(i)' :
                          Decides(i, m, k, l)' => AsPublished(i, m, k, l)'
  BY DEF Undisturbed
<1>1. stored \subseteq Entries /\ faults \in Nat
  BY CoreAssumption DEF TypeOK, Entries
<1>2. ~Fault
  BY <1>1 DEF Fault
<1>3. faults = 0
  BY <1>2 DEF Next, Publish, Finish, FailAfterCore, FailBeforeCore, Restart, vars
<1>4. /\ MemoryIsCurrent
      /\ \A i \in stored : \A m \in Active : \A k, l \in Live(i) :
            Decides(i, m, k, l) => AsPublished(i, m, k, l)
  BY <1>3 DEF Undisturbed
<1>5. ASSUME NEW i \in stored, found'[i] = found[i],
             NEW m \in Active, NEW k \in Live(i)', NEW l \in Live(i)', Decides(i, m, k, l)'
      PROVE  AsPublished(i, m, k, l)'
  BY <1>1, <1>3, <1>4, <1>5, JudgedStays
<1>6. CASE UNCHANGED <<handed, waiting, memory, stored>> /\ \A i \in stored : found'[i] = found[i]
  <2>1. MemoryIsCurrent'
    BY <1>4, <1>6, MemoryStays
  <2> QED
    BY <1>5, <1>6, <2>1
<1>7. ASSUME NEW i \in Entries, Finish(i)
      PROVE  /\ MemoryIsCurrent'
             /\ \A j \in stored' : \A m \in Active : \A k, l \in Live(j)' :
                   Decides(j, m, k, l)' => AsPublished(j, m, k, l)'
  <2>1. i = handed + 1
    BY <1>4, <1>7 DEF Finish, Due, MemoryIsCurrent
  <2>2. MemoryIsCurrent'
    BY <1>4, <1>7, <2>1, MemoryAdvances
  <2>3. stored' = stored \cup {i} /\ found'[i] = Detected(i)
        /\ \A j \in Entries \ {i} : found'[j] = found[j]
    BY <1>1, <1>7 DEF Finish, TypeOK, Entries
  <2>4. i \notin stored
    BY <2>1, MemoryTypes DEF TypeOK
  <2>5. ASSUME NEW m \in Active, NEW k \in Live(i)', NEW l \in Live(i)', Decides(i, m, k, l)'
        PROVE  AsPublished(i, m, k, l)'
    <3>1. /\ k \in Live(i) /\ l \in Live(i) /\ Decides(i, m, k, l)
          /\ quotes[LastUpTo(k, i)] = quotes'[LastUpTo(k, i)']
          /\ quotes[LastUpTo(l, i)] = quotes'[LastUpTo(l, i)']
      BY <1>3, <2>5, JudgedStays
    <3>2. DOMAIN found'[i] = Active
      BY <2>3, <3>1 DEF Decides, Detected
    <3> QED
      BY <1>4, <2>1, <2>3, <3>1, <3>2, NextAsPublished DEF AsPublished
  <2> QED
    BY <1>1, <1>5, <2>2, <2>3, <2>4, <2>5
<1>8. CASE Publish
  <2>1. \A i \in stored : found'[i] = found[i]
    BY <1>1, <1>8, PublishKeeps
  <2> QED
    BY <1>6, <1>8, <2>1 DEF Publish
<1>9. CASE UNCHANGED vars
  BY <1>6, <1>9 DEF vars, memory
<1> QED
  BY <1>2, <1>7, <1>8, <1>9 DEF Next, FailAfterCore, FailBeforeCore, Restart

LEMMA InitUndisturbed == Init => Undisturbed
<1> SUFFICES ASSUME Init
             PROVE  MemoryIsCurrent /\ stored = {}
  BY DEF Undisturbed
<1>1. Cached = {} /\ handed = 0 /\ waiting = {} /\ muted = InitialBlacklist /\ stored = {}
  BY DEF Init, Cached
<1>2. \A k \in Markets : cache[k] = LastUpTo(k, handed)
  BY <1>1, LastStep DEF Init
<1>3. 1..handed = {}
  BY <1>1
<1> QED
  BY <1>1, <1>2, <1>3 DEF MemoryIsCurrent

-----------------------------------------------------------------------------
(* What the invariant says of the alerts *)

LEMMA NothingMissedHolds == TypeOK /\ Undisturbed => NothingMissed
<1> SUFFICES ASSUME TypeOK, Undisturbed, NEW i \in stored, NEW m \in Active,
                    NEW k \in Live(i), NEW l \in Live(i), Decides(i, m, k, l)
             PROVE  LET p == quotes[LastUpTo(k, i)]
                        q == quotes[LastUpTo(l, i)]
                    IN  m \in Anomalies(i) <=>
                          IF m = "funding-spread"
                          THEN /\ p.funding # NoRate /\ q.funding # NoRate
                               /\ Abs(p.funding - q.funding) >= FundingThreshold
                          ELSE PriceRatio(p.price, q.price).num
                                 >= PriceRatio(p.price, q.price).den
  BY DEF NothingMissed
<1>1. AsPublished(i, m, k, l) /\ ~Invalid(i)
  BY DEF Undisturbed, Decides
<1>2. m \in DOMAIN found[i]
  BY <1>1 DEF AsPublished
<1>3. m \in Anomalies(i) <=> found[i][m].status = "ANOMALY"
  BY <1>2 DEF Anomalies, Triggered
<1>4. \A ratio : Judged(ratio).status = "ANOMALY" <=> ratio.num >= ratio.den
  BY DEF Judged
<1>5. Insufficient.status # "ANOMALY"
  BY DEF Insufficient
<1>6. \A r, s : /\ FundingRatio(r, s).num = Abs(r - s)
                /\ FundingRatio(r, s).den = FundingThreshold
  BY DEF FundingRatio
<1> QED
  BY <1>1, <1>3, <1>4, <1>5, <1>6 DEF AsPublished

LEMMA WideSpreadsAlertHolds == TypeOK /\ Undisturbed => WideSpreadsAlert
<1> SUFFICES ASSUME TypeOK, Undisturbed, NEW i \in stored, NEW m \in Active \cap PriceModules,
                    NEW k \in Live(i), NEW l \in Live(i), Decides(i, m, k, l),
                    NEW ratio,
                    ratio = PriceRatio(quotes[LastUpTo(k, i)].price,
                                       quotes[LastUpTo(l, i)].price),
                    2 * ratio.num >= 3 * ratio.den
             PROVE  HasAlert(found[i])
  BY DEF WideSpreadsAlert
<1>1. ratio \in [num : Nat, den : Nat \ {0}]
  <2>1. i \in Nat /\ i \in 1..Len(quotes) /\ Len(quotes) \in Nat
    BY MemoryTypes DEF TypeOK
  <2>2. \A n \in Live(i) : LastUpTo(n, i) \in Entries
    BY <2>1, LastUpToType DEF Live, Entries
  <2>3. \A n \in Live(i) : quotes[LastUpTo(n, i)].price \in Nat \ {0}
    BY <2>2, QuoteType DEF Quote
  <2> QED
    BY <2>3, PriceRatioType
<1>2. found[i][m] = Judged(ratio) /\ DOMAIN found[i] = Active
  BY DEF Undisturbed, Decides, AsPublished, PriceModules
<1>3. ratio.num \in Nat /\ ratio.den \in Nat /\ ratio.num >= ratio.den
      /\ ratio.num * 2 >= ratio.den * 3
  BY <1>1
<1>4. m \in Triggered(found[i])
  BY <1>2, <1>3 DEF Triggered, Judged
<1>5. MaxRatioAtLeast(found[i], 3, 2)
  BY <1>2, <1>3, <1>4 DEF MaxRatioAtLeast, Judged
<1> QED
  BY <1>4, <1>5 DEF HasAlert, Priority

\* Without faults the stored results are those of the last published quotes.
LEMMA UndisturbedAlways == Spec => [](TypeOK /\ Undisturbed)
<1> QED
  BY InitTypes, StepTypes, InitUndisturbed, UndisturbedStep, PTL DEF Spec

\* A module finds an anomaly in an event exactly if the last quotes published
\* for the two markets it has to compare show one.
THEOREM AlarmsAreExact == Spec => []NothingMissed
<1> QED
  BY UndisturbedAlways, NothingMissedHolds, PTL

\* A spread of one and a half thresholds or more between the last quotes of the
\* two markets raises an alert.
THEOREM WideSpreadsRaiseAlerts == Spec => []WideSpreadsAlert
<1> QED
  BY UndisturbedAlways, WideSpreadsAlertHolds, PTL
=============================================================================
