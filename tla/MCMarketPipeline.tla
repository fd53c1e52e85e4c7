-------------------------- MODULE MCMarketPipeline --------------------------
(* Instances of MarketPipeline for TLC: the feed of each exchange under    *)
(* disturbances, agent 2, and the ingestion.                               *)
EXTENDS MarketPipeline

Scene(venue, sources, rounds, cycles, vectors, weather, faults) ==
    [venue |-> venue, sources |-> sources, rounds |-> rounds, cycles |-> cycles, vectors |-> vectors,
     weather |-> weather, faults |-> faults]
MCReview == [a |-> "ACCEPTED", b |-> "ACCEPTED", q |-> "QUARANTINED"]
MCKeys   == [a |-> {1}, b |-> {1, 2}, q |-> {2}]
MCScenes == {
    Scene("BYBIT", <<{}>>, 0, 1, 0, TRUE, 2),
    Scene("BINANCE", <<{}>>, 0, 1, 0, TRUE, 2),
    Scene("BINANCE", <<{"a"}>>, 0, 2, 2, FALSE, 2),
    Scene("BYBIT", <<{"a"}, {"b", "q"}>>, 2, 0, 0, FALSE, 3)}
=============================================================================
