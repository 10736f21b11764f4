---------------------------- MODULE IndicatorFeed ----------------------------
(***************************************************************************)
(* The indicators of the chart while bars arrive (Indicators over a feed   *)
(* like realtime/demo.py's, whose bars a provider may leave gaps between). *)
(***************************************************************************)
EXTENDS Indicators

CONSTANTS
    Drifts,         \* changes of the price in a bar
    Gaps,           \* times between the starts of two bars
    FirstTime, FirstPrice,
    Timeframes,     \* minutes
    Lengths,        \* lengths of moving averages and the RSI
    HtfMinutes,     \* the higher timeframe
    MaxBars         \* bound

VARIABLE bars

ASSUME FeedAssumption ==
    /\ Drifts \subseteq Int /\ Gaps \subseteq Nat \ {0}
    /\ Timeframes \subseteq Nat \ {0} /\ Lengths \subseteq Nat \ {0}
    /\ \A tf \in Timeframes : (Day % (tf * Minute)) = 0

\* DemoFeed.next_bar(): opens at the price, moves it, not below 1; the volume
\* follows the range.
NextBar(t, price, drift) ==
    LET close == Max({1, price + drift})
    IN  [time |-> t, open |-> price, high |-> Max({price, close}) + 1,
         low |-> Min({price, close}) - 1, close |-> close,
         volume |-> (close - price) * (close - price)]

Init == \E d \in Drifts : bars = <<NextBar(FirstTime, FirstPrice, d)>>

Next ==
    /\ Len(bars) < MaxBars
    /\ \E d \in Drifts, g \in Gaps :
        bars' = Append(bars, NextBar(Last(bars).time + g, Last(bars).close, d))

Spec == Init /\ [][Next]_bars

-----------------------------------------------------------------------------
(* Properties, in every timeframe. *)

Candles(tf) == Aggregate(bars, tf)

\* A candle is the candle of exactly the bars of its bucket: its opening is
\* the first one's, its close the last one's, and none of their range or
\* volume is lost (indicators.ts 24-55).
CandlesCoverBars ==
    \A tf \in Timeframes :
        LET cs == Candles(tf)
            In(i) == SelectSeq(bars, LAMBDA b : Bucket(b.time, tf) = cs[i].time)
        IN  /\ cs \in Seq(Candle)
            /\ {cs[i].time : i \in DOMAIN cs} = {Bucket(b.time, tf) : b \in Range(bars)}
            /\ \A i \in DOMAIN cs :
                /\ i > 1 => cs[i - 1].time < cs[i].time
                /\ cs[i].open = Head(In(i)).open /\ cs[i].close = Last(In(i)).close
                /\ cs[i].high = Max({b.high : b \in Range(In(i))})
                /\ cs[i].low = Min({b.low : b \in Range(In(i))})
                /\ cs[i].volume = FoldLeft(LAMBDA v, b : v + b.volume, 0, In(i))

Upto(f, n) == [i \in {i \in DOMAIN f : i <= n} |-> f[i]]

\* What an indicator shows at a complete candle it goes on showing there when
\* bars arrive: a replay of the past shows what could be seen then
\* (indicators.ts 261-263, "no lookahead").
NoRepaint ==
    [][\A tf \in Timeframes :
        LET before == Candles(tf)
            after == Aggregate(bars', tf)
            Same(Shows(_)) ==
                Upto(Shows(before), Len(before) - 1) = Upto(Shows(after), Len(before) - 1)
        IN  /\ \A n \in Lengths :
                /\ \A type \in MaType : Same(LAMBDA cs : MovingAverage(cs, n, type))
                /\ Same(LAMBDA cs : Rsi(cs, n))
            /\ Same(Vwap) /\ Same(LAMBDA cs : AnchoredVwap(cs, Day))
            /\ Same(LAMBDA cs : HtfLevels(cs, HtfMinutes))
            /\ Same(DayLevels) /\ Same(WeekLevels)]_bars

\* Levels do not depend on the timeframe they are drawn in: those of a candle
\* are those of the bars it consists of (indicators.ts 264-346).
LevelsOfBars ==
    \A tf \in Timeframes :
        LET cs == Candles(tf)
            Agree(Level(_)) ==
                LET ofCandles == Level(cs)
                    ofBars == Level(bars)
                IN  \A i \in DOMAIN cs, j \in DOMAIN bars :
                    Bucket(bars[j].time, tf) = cs[i].time =>
                        /\ i \in DOMAIN ofCandles <=> j \in DOMAIN ofBars
                        /\ i \in DOMAIN ofCandles => ofCandles[i] = ofBars[j]
        IN  /\ tf <= HtfMinutes => Agree(LAMBDA cs1 : HtfLevels(cs1, HtfMinutes))
            /\ Agree(DayLevels) /\ Agree(WeekLevels)

\* In every timeframe the candles and the levels drawn over them tell what the
\* bars do.
CandlesTellBars == CandlesCoverBars /\ LevelsOfBars

\* A moving average that only weighs past closes stays between the lowest and
\* the highest of them from its seed on; Hull's may overshoot
\* (indicators.ts 59-110).
AveragesWithinCloses ==
    \A tf \in Timeframes, n \in Lengths, type \in MaType \ {"HMA"} :
        LET v == Closes(Candles(tf))
            avg == MovingAverage(Candles(tf), n, type)
        IN  \A i \in DOMAIN avg :
                /\ Leq(Frac(Min({v[j] : j \in 1..i}), 1), avg[i])
                /\ Leq(avg[i], Frac(Max({v[j] : j \in 1..i}), 1))

\* The RSI, of the lengths 2 and up the page allows, stays on its scale; it is
\* 50 while the market has been flat and 100 while it has only risen
\* (indicators.ts 221-246).
RsiOnScale ==
    \A tf \in Timeframes, n \in Lengths \ {1} :
        LET v == Closes(Candles(tf))
            r == Rsi(Candles(tf), n)
        IN  \A i \in DOMAIN r :
                /\ Leq(Frac(0, 1), r[i]) /\ Leq(r[i], Frac(100, 1))
                /\ (\A j \in 1..i : v[j] = v[1]) => r[i] = Frac(50, 1)
                /\ (v[i] > v[1] /\ \A j \in 2..i : v[j - 1] <= v[j])
                        => r[i] = Frac(100, 1)

\* The session's VWAP lies between the lowest and the highest price of its day
\* so far, and without rounding its variance is never negative, which the
\* code guards its root against (indicators.ts 176-204).
VwapWithinSession ==
    \A tf \in Timeframes :
        LET cs == Candles(tf)
            vw == Vwap(cs)
        IN  \A i \in DOMAIN vw :
                LET today == {j \in 1..i : DayOf(cs[j].time) = DayOf(cs[i].time)}
                IN  /\ Leq(Frac(Min({cs[j].low : j \in today}), 1), vw[i].vwap)
                    /\ Leq(vw[i].vwap, Frac(Max({cs[j].high : j \in today}), 1))
                    /\ vw[i].variance.num >= 0

\* Every line stays on the scale it is read on, in every timeframe.
LinesOnScale == AveragesWithinCloses /\ RsiOnScale /\ VwapWithinSession
=============================================================================
