---------------------------- MODULE MCIngestion ----------------------------
(***************************************************************************)
(* Three feeds: futures tickers of an exchange, with two markets, one of   *)
(* which loses its price for a while; the search for an asset on the       *)
(* DEXes; and a source that is down and would report other markets.           *)
(***************************************************************************)
EXTENDS Ingestion

MCFeedOf == [k \in Markets |-> IF k = "sol" THEN "dex" ELSE "futures"]

MCUnusable == {<<"eth", 2>>}
=============================================================================
