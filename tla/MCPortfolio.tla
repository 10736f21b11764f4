---------------------------- MODULE MCPortfolio ----------------------------
(* Instances of Portfolio for TLC. *)
EXTENDS Portfolio

\* Three bots, two of them on one symbol.
ThreeStrategies == <<"sma_cross", "momentum", "agent">>
TwoSymbols == <<"AAPL", "TSLA", "AAPL">>

\* Uneven weights, none at all, a leg left out, and a leg sold short.
SomeWeights == {<<1, 3, 2>>, <<0, 0, 0>>, <<2, 1, 0>>, <<2, 1, -1>>}

FlatWarmup == <<12, 12>>
=============================================================================
