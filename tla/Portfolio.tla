------------------------------ MODULE Portfolio ------------------------------
(***************************************************************************)
(* M7's PortfolioService (portfolio/service.py): every leg of a weighted   *)
(* allocation is backtested on its own, and the capital follows the        *)
(* weighted sum of the legs' equity curves.                                *)
(*                                                                         *)
(* The service backtests the legs one after another; as they share nothing *)
(* a step here takes all of them through the next bar of their symbols.    *)
(* The window may end after any bar.  A value of the portfolio is a        *)
(* numerator over weights.whole times the starting cash.                   *)
(***************************************************************************)
EXTENDS Backtest

CONSTANTS
    LegStrategy,    \* the strategies of the legs, in the request's order
    LegSymbol,      \* and their symbols
    Asked,          \* weights that may be asked for, one list for each request
    Capital,
    Warmup,         \* closes of a feed before the window
    MaxBars

Legs == DOMAIN LegStrategy
Symbols == Range(LegSymbol)

ASSUME PortfolioAssumption ==
    /\ LegStrategy \in Seq({"sma_cross", "momentum", "agent"})
    /\ LegStrategy # << >>
    /\ DOMAIN LegSymbol = Legs
    /\ \A w \in Asked : w \in [Legs -> Int]
    /\ Capital \in Nat \ {0}
    /\ Warmup \in Seq(Closes)
    /\ MaxBars \in Nat

VARIABLES
    claude,     \* whether the agents' client is Claude, or the stub
    asked,      \* the request's weights
    feed,       \* for each symbol, its closes up to the bar
    legs,       \* for each leg, its backtest
    result      \* the portfolio's curve and record, once combined

portfolioVars == <<claude, asked, feed, legs, result>>

NoResult == [done |-> FALSE]
BarCount == Len(feed[LegSymbol[1]]) - Len(Warmup)

-----------------------------------------------------------------------------

SumOf(xs) == FoldLeft(+, 0, xs)

\* Mutant: a weight is a share of the number of legs.
WeightsOfCount(w) == [parts |-> w, whole |-> Len(w)]

\* The weights as shares of a whole; equal ones if they add up to nothing.
Weights(w) ==
    IF SumOf(w) > 0 THEN [parts |-> w, whole |-> SumOf(w)]
    ELSE [parts |-> [i \in Legs |-> 1], whole |-> Len(w)]

\* The value at bar t of the capital, given the legs' curves.
ValueAt(parts, t) ==
    Capital * SumOf([i \in Legs |-> parts[i] * legs[i].curve[t]])

PortfolioInit ==
    /\ claude \in BOOLEAN
    /\ asked \in Asked
    /\ feed = [s \in Symbols |-> Warmup]
    /\ legs = [i \in Legs |-> FlatStart]
    /\ result = NoResult

\* The next bar of every symbol, and what every leg does at it.
NextBars ==
    /\ ~result.done
    /\ BarCount < MaxBars
    /\ \E c \in [Symbols -> Closes] :
        LET closes == [s \in Symbols |-> Append(feed[s], c[s])]
            SignalsOf(i) == Signals(LegStrategy[i], claude, closes[LegSymbol[i]],
                                    legs[i].account.position)
        IN  /\ feed' = closes
            /\ \E side \in {f \in [Legs -> Side \cup {"none"}] :
                                \A i \in Legs : f[i] \in SignalsOf(i)} :
                legs' = [i \in Legs |->
                            BacktestBar(legs[i], closes[LegSymbol[i]], side[i])]
    /\ UNCHANGED <<claude, asked, result>>

\* The legs are combined, and the record derived from the portfolio's curve.
Combine ==
    /\ ~result.done
    /\ LET w == Weights(asked)
           curve == [t \in 1..BarCount |-> ValueAt(w.parts, t)]
       IN  result' =
            [done |-> TRUE, weights |-> w, equity |-> curve,
             net_pnl |-> IF curve = << >> THEN 0
                         ELSE Last(curve) - Capital * w.whole * StartingCash,
             max_drawdown_pct |-> MaxDrawdownPct(curve),
             num_trades |-> SumOf([i \in Legs |-> Trades(legs[i].events).closes])]
    /\ UNCHANGED <<claude, asked, feed, legs>>

PortfolioNext == NextBars \/ Combine

PortfolioSpec == PortfolioInit /\ [][PortfolioNext]_portfolioVars

-----------------------------------------------------------------------------
(* Properties. *)

\* Spreading capital does no worse than the worst leg and no better than the
\* best one: the portfolio's value stays between what the capital would be
\* with the one and with the other at every bar, and its recorded drawdown is
\* no deeper than the deepest of the legs' (portfolio/service.py 4-6).  This
\* is of weights without a negative one, which the request may contain, and of
\* legs with room for costs: a negative curve has no peak to fall from.
BoundedByLegs ==
    result.done /\ (\A i \in Legs : result.weights.parts[i] >= 0) =>
        LET w == result.weights
            Held == {i \in Legs : w.parts[i] > 0}
            Alone(i, t) == Capital * w.whole * legs[i].curve[t]
        IN  /\ \A t \in DOMAIN result.equity : \E i, j \in Held :
                /\ Alone(i, t) <= result.equity[t]
                /\ result.equity[t] <= Alone(j, t)
            /\ \E i \in Held :
                result.max_drawdown_pct <= MaxDrawdownPct(legs[i].curve)

\* Whatever the strategy, and whatever the agent's client says, a bot has one
\* entry at a time and leaves it whole: its fills buy and sell in turn, and
\* it is flat after each sale (library/momentum.py 1-4, "position gating keeps
\* it from re-entering"; risk/sizing.py 4-5).
OneEntryAtATime ==
    \A i \in Legs :
        LET fills == legs[i].events
        IN  /\ \A n \in DOMAIN fills :
                fills[n].side = IF n % 2 = 1 THEN "buy" ELSE "sell"
            /\ legs[i].account.position > 0 <=> Len(fills) % 2 = 1
=============================================================================
