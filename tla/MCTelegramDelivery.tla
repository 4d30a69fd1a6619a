------------------------- MODULE MCTelegramDelivery -------------------------
EXTENDS TelegramDelivery

\* Alerts of each routing rule; the funding metric of two of them differs by less
\* than MinChange from that of the third, or by more.
Raised(modules, metric) == [modules |-> modules, asset |-> "BTC", metric |-> metric]

MCAlerts ==
    {Raised({"funding-spread"}, 1),
     Raised({"funding-spread", "dex-futures-spread"}, 2),
     Raised({"funding-spread", "spot-futures-spread"}, 5),
     Raised({"futures-futures-spread", "funding-spread"}, 1),
     Raised({"dex-futures-spread"}, 0),
     Raised({"spot-futures-spread", "dex-futures-spread"}, 0)}
=============================================================================
