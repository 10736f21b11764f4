------------------------------ MODULE Backtest ------------------------------
(***************************************************************************)
(* M8's BacktestService (backtest/service.py): the bars of a window pass   *)
(* through the components of the live session, in one transaction its      *)
(* caller rolls back, so a backtest is a function of the closes and of     *)
(* what the strategy signals.                                              *)
(***************************************************************************)
EXTENDS Trading, Performance, Strategies

-----------------------------------------------------------------------------
(* The run. *)

FlatStart == [account |-> NewAccount, peak |-> StartingCash,
              events |-> << >>, curve |-> << >>]

\* Mutant: an order is checked and filled on the bar before.
BacktestBarPrevious(b, cs, side) ==
    LET c == Last(cs)
        equity == Equity(b.account, c)
        peak == Larger(b.peak, equity)
        qty == Quantity(side, b.account, equity, cs[Len(cs) - 1])
        trades == /\ side \in Side /\ ~Halted(equity, peak)
                  /\ qty > 0 /\ Approved(side, qty, b.account, equity, c)
        fill == Fill(side, qty, cs[Len(cs) - 1])
        after == IF trades THEN AfterFill(b.account, fill) ELSE b.account
    IN  [account |-> after, peak |-> peak,
         events |-> IF trades THEN Append(b.events, fill) ELSE b.events,
         curve |-> Append(b.curve, Equity(after, c))]

\* The loop body of run, with _execute, on the closes up to the bar and the
\* strategy's signal: a halted or refused one leaves no record here.
BacktestBar(b, cs, side) ==
    LET c == Last(cs)
        equity == Equity(b.account, c)
        peak == Larger(b.peak, equity)
        qty == Quantity(side, b.account, equity, c)
        trades == /\ side \in Side /\ ~Halted(equity, peak)
                  /\ qty > 0 /\ Approved(side, qty, b.account, equity, c)
        fill == Fill(side, qty, c)
        after == IF trades THEN AfterFill(b.account, fill) ELSE b.account
    IN  [account |-> after, peak |-> peak,
         events |-> IF trades THEN Append(b.events, fill) ELSE b.events,
         curve |-> Append(b.curve, Equity(after, c))]

\* BacktestService.run, of an SMA-cross bot, over the bars from index start
\* on; the earlier ones warm the averages up.
BacktestStep(b, cs) == BacktestBar(b, cs, SmaCross(cs, b.account.position))

BacktestRun(closes, start) ==
    FoldLeft(BacktestStep, FlatStart,
             [i \in 1..(Len(closes) + 1 - start) |->
                SubSeq(closes, 1, start + i - 1)])
=============================================================================
