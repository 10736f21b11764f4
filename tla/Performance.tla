---------------------------- MODULE Performance ----------------------------
(***************************************************************************)
(* M10's PerformanceCalculator and M4's qualification criteria: a record   *)
(* derived from the fill and mark events of one stream of one instrument   *)
(* (ledger/performance.py, lifecycle/qualification.py).                    *)
(*                                                                         *)
(* The average cost is a fraction n/d.  Percentages are in hundredths of a *)
(* percent, rounded half to even as Decimal.quantize does.                 *)
(***************************************************************************)
EXTENDS Integers, Sequences, SequencesExt

CONSTANTS
    MinPeriod, MinTrades,   \* days and closed trades a policy asks for
    DrawdownCeiling,        \* hundredths of a percent
    SharpeFloor             \* whether the policy has a Sharpe criterion

ASSUME PerformanceAssumption ==
    /\ MinPeriod \in Nat /\ MinTrades \in Nat
    /\ DrawdownCeiling \in 0..10000
    /\ SharpeFloor \in BOOLEAN

\* The events of a stream by type, in order.
KeepFill(es, e) == IF e.type = "fill" THEN Append(es, e) ELSE es
KeepMark(es, e) == IF e.type = "mark" THEN Append(es, e) ELSE es
Fills(events) == FoldLeft(KeepFill, << >>, events)
Marks(events) == FoldLeft(KeepMark, << >>, events)

\* x rounded to an integer for the fraction n/d, d > 0.
RoundHalfEven(n, d) ==
    LET q == n \div d
        r == 2 * (n % d)
    IN  IF r > d \/ (r = d /\ q % 2 = 1) THEN q + 1 ELSE q

-----------------------------------------------------------------------------
(* Realized trades, at average cost. *)

NoTrades == [position |-> 0, n |-> 0, d |-> 1, closes |-> 0, wins |-> 0]

Smaller(x, y) == IF x < y THEN x ELSE y

\* Mutant: the new price is averaged with the old one, whatever the position.
TradeStepUnweighted(t, f) ==
    IF f.side = "buy"
    THEN [t EXCEPT !.position = @ + f.quantity,
                   !.n = t.n + f.price * t.d,
                   !.d = 2 * t.d]
    ELSE LET won == (f.price * t.d - t.n) * f.quantity > f.fee * t.d
         IN  [t EXCEPT !.position = @ - f.quantity,
                       !.closes = @ + 1,
                       !.wins = IF won THEN @ + 1 ELSE @]

\* The loop body of from_events.
TradeStep(t, f) ==
    IF f.side = "buy"
    THEN LET total == t.position + f.quantity
         IN  [t EXCEPT
                !.position = total,
                !.n = IF total = 0 THEN 0
                      ELSE IF t.position = 0 THEN f.price
                      ELSE t.position * t.n + f.quantity * f.price * t.d,
                !.d = IF total = 0 \/ t.position = 0 THEN 1 ELSE total * t.d]
    ELSE LET closed == IF t.position > 0 THEN Smaller(f.quantity, t.position)
                       ELSE f.quantity
             won == (f.price * t.d - t.n) * closed > f.fee * t.d
         IN  [t EXCEPT !.position = @ - f.quantity,
                       !.closes = @ + 1,
                       !.wins = IF won THEN @ + 1 ELSE @]

Trades(events) == FoldLeft(TradeStep, NoTrades, Fills(events))

-----------------------------------------------------------------------------
(* The equity curve. *)

EquityCurve(events) ==
    LET marks == Marks(events) IN [i \in DOMAIN marks |-> marks[i].equity]

Larger(x, y) == IF x > y THEN x ELSE y

\* _max_drawdown_pct keeps the peak so far and the worst fall, n/d of it.
DrawdownStep(s, e) ==
    LET peak == Larger(s.peak, e)
    IN  IF peak > 0 /\ (peak - e) * s.d > s.n * peak
        THEN [peak |-> peak, n |-> peak - e, d |-> peak]
        ELSE [s EXCEPT !.peak = peak]

MaxDrawdownPct(curve) ==
    IF curve = << >> THEN 0
    ELSE LET s == FoldLeft(DrawdownStep,
                           [peak |-> curve[1], n |-> 0, d |-> 1], curve)
         IN  RoundHalfEven(10000 * s.n, s.d)

\* _sharpe is a number only if at least two returns exist and they differ.
SharpeAvailable(curve) ==
    LET returns == {i \in 2..Len(curve) : curve[i - 1] # 0}
    IN  /\ Len(curve) >= 3
        /\ \E i, j \in returns : curve[i] * curve[j - 1] # curve[j] * curve[i - 1]

-----------------------------------------------------------------------------
(* The record and the policy. *)

AddFee(sum, f) == sum + f.fee
FeesPaid(events) == FoldLeft(AddFee, 0, Fills(events))

\* PerformanceCalculator.from_events.
Record(events, startingCash) ==
    LET curve == EquityCurve(events)
        t == Trades(events)
    IN  [net_pnl |-> IF curve = << >> THEN -FeesPaid(events)
                     ELSE Last(curve) - startingCash,
         max_drawdown_pct |-> MaxDrawdownPct(curve),
         num_trades |-> t.closes,
         wins |-> t.wins]

\* Mutant: the record need not be net positive.
PassesAnyResult(record, days, sharpeOk) ==
    /\ days >= MinPeriod
    /\ record.num_trades >= MinTrades

\* QualificationPolicy.assess: every criterion of the policy holds.
Passes(record, days, sharpeOk) ==
    /\ days >= MinPeriod
    /\ record.num_trades >= MinTrades
    /\ SharpeFloor => sharpeOk
    /\ record.max_drawdown_pct <= DrawdownCeiling
    /\ record.net_pnl > 0
=============================================================================
