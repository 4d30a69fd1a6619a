-------------------------- MODULE MCCorePipeline --------------------------
(***************************************************************************)
(* One symbol, "on", quoted by two futures markets, a spot market and a    *)
(* DEX.  Times are in freshness windows: a snapshot is fresh for one.      *)
(***************************************************************************)
EXTENDS CorePipeline

MCMarkets == {"f1", "f2", "s1", "d1"}
MCSourceOf == [k \in MCMarkets |-> CASE k = "f1" -> "BINANCE"
                                     [] k = "s1" -> "BINANCE"
                                     [] k = "f2" -> "BYBIT"
                                     [] k = "d1" -> "DEX"]
MCTypeOf == [k \in MCMarkets |-> CASE k \in {"f1", "f2"} -> "FUTURES"
                                   [] k = "s1" -> "SPOT"
                                   [] k = "d1" -> "DEX"]
MCSymbolOf == [k \in MCMarkets |-> "on"]

Q(market, price, funding, time) ==
    [market |-> market, price |-> price, funding |-> funding, time |-> time,
     crossed |-> FALSE]

\* Prices 111 and 129 are exactly one and a half thresholds apart (of their
\* average), 111 and 250 on different scales; the funding rates differ by more
\* than the threshold.
MCOffered ==
    {Q("f1", 111, 0, 0), Q("f1", 129, NoRate, 2), Q("f2", 129, 6, 0),
     Q("f2", 129, 0, 2), Q("f2", 250, NoRate, 1), Q("s1", 129, NoRate, 1),
     Q("d1", 125, NoRate, 1),
     [Q("f1", 150, 0, 1) EXCEPT !.crossed = TRUE]}
=============================================================================
