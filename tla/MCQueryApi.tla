----------------------------- MODULE MCQueryApi -----------------------------
(***************************************************************************)
(* An event of an older worker, with a NORMAL row, and two that come.      *)
(***************************************************************************)
EXTENDS QueryApi

CONSTANTS old, early, late

\* Short names for the fields of an event.
Event(at, status, asset, symbol, priority, futures, funding, aggregated, alerting) ==
    [at |-> at, status |-> status, asset |-> asset, symbol |-> symbol,
     priority |-> priority,
     verdict |-> [m \in Modules |-> IF m = "futures-futures-spread" THEN futures ELSE funding],
     aggregated |-> aggregated, alerting |-> alerting]

MCData == [e \in Events |->
    CASE e = old -> Event(1, "VALID", "BTC", "BTCUSDT", "HIGH",
                            "ANOMALY", "NORMAL", TRUE, FALSE)
      [] e = early -> Event(2, "VALID", "BTC", NoSymbol, "HIGH",
                              "ANOMALY", "ANOMALY", TRUE, TRUE)
      [] OTHER -> Event(3, "VALID", "BTC", "BTCUSDT", "MEDIUM",
                        "ANOMALY", "NORMAL", TRUE, TRUE)]

List(table, filter, limit) == [table |-> table, filter |-> filter, limit |-> limit]

MCRequests ==
    {List("events", << >>, 1),
     List("events", [status |-> "VALID", from |-> 1, to |-> 2], 2),
     List("detections", << >>, 1),
     List("detections", [status |-> "ANOMALY", asset |-> "BTC"], 1),
     List("aggregates", [priority |-> "HIGH"], 1),
     List("alerts", << >>, 1),
     List("alerts", [notification_status |-> "PENDING"], 1)}

Chart(symbol, module, from) ==
    [asset |-> "BTC", symbol |-> symbol, module |-> module, from |-> from]

MCCharts == {Chart(NoSymbol, "futures-futures-spread", 0),
             Chart("BTCUSDT", "futures-futures-spread", 1),
             Chart("ETHUSDT", "funding-spread", 2)}
=============================================================================
