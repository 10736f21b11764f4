------------------------------ MODULE Indicators ------------------------------
(***************************************************************************)
(* The chart's candle aggregation and indicators                           *)
(* (packages/web/src/indicators.ts) as functions of a sequence of candles  *)
(* in time order.  An indicator is a function from the indexes at which it *)
(* is defined to exact fractions; the code computes them in floating       *)
(* point and stores each at the time of its candle.                        *)
(***************************************************************************)
EXTENDS Integers, FiniteSetsExt, SequencesExt, Functions

CONSTANTS
    Minute,         \* time units of one minute (60 in the code)
    Day,            \* time units of a UTC day (86 400)
    WeekDays        \* days of a week (7)

ASSUME CalendarAssumption ==
    Minute \in Nat \ {0} /\ Day \in Nat \ {0} /\ WeekDays \in Nat \ {0}

-----------------------------------------------------------------------------
(* Candles and fractions. *)

Candle == [time: Int, open: Int, high: Int, low: Int, close: Int, volume: Nat]

Closes(cs) == [i \in DOMAIN cs |-> cs[i].close]

Frac(n, d) == [num |-> n, den |-> d]        \* d > 0 throughout
Leq(a, b) == a.num * b.den <= b.num * a.den

\* The start of the bucket of `minutes` that holds t.
Bucket(t, minutes) ==
    IF minutes <= 1 THEN t
    ELSE (t \div (minutes * Minute)) * (minutes * Minute)

\* Mutant: the close stays the first one.
MergeFirstClose(cur, c) ==
    [cur EXCEPT !.high = Max({@, c.high}), !.low = Min({@, c.low}),
                !.volume = @ + c.volume]

Merge(cur, c) ==
    [cur EXCEPT !.high = Max({@, c.high}), !.low = Min({@, c.low}),
                !.close = c.close, !.volume = @ + c.volume]

\* aggregate(): one candle per bucket that has bars.
Aggregate(cs, minutes) ==
    LET Roll(out, c) ==
            IF out # << >> /\ Last(out).time = Bucket(c.time, minutes)
            THEN [out EXCEPT ![Len(out)] = Merge(@, c)]
            ELSE Append(out, [c EXCEPT !.time = Bucket(@, minutes)])
    IN  IF minutes <= 1 THEN cs ELSE FoldLeft(Roll, << >>, cs)

-----------------------------------------------------------------------------
(* Moving averages of a sequence of numbers. *)

SumTo(v, n, i) == FoldLeft(+, 0, SubSeq(v, i - n + 1, i))

Sma(v, n) == [i \in n..Len(v) |-> Frac(SumTo(v, n, i), n)]

\* A running average: from the mean of the first n numbers on, each value
\* moves the average by weight/whole of its distance.
Running(v, n, weight, whole) ==
    LET avg[i \in n..Len(v)] ==
            IF i = n THEN Frac(SumTo(v, n, n), n)
            ELSE Frac(v[i] * weight * avg[i - 1].den
                        + avg[i - 1].num * (whole - weight),
                      avg[i - 1].den * whole)
    IN  avg

Ema(v, n) == Running(v, n, 2, n + 1)
Rma(v, n) == Running(v, n, 1, n)            \* Wilder's

\* Mutant: the weights start at n - 1.
WmaFromZero(v, n) ==
    [i \in n..Len(v) |->
        Frac(MapThenSumSet(LAMBDA j : v[i - j] * (n - 1 - j), 0..(n - 1)),
             (n * (n + 1)) \div 2)]

\* Weights n for the latest number down to 1.
Wma(v, n) ==
    [i \in n..Len(v) |->
        Frac(MapThenSumSet(LAMBDA j : v[i - j] * (n - j), 0..(n - 1)),
             (n * (n + 1)) \div 2)]

\* Math.round(Math.sqrt(n))
RoundedRoot(n) == CHOOSE r \in 0..n : (2 * r - 1) ^ 2 <= 4 * n /\ 4 * n < (2 * r + 1) ^ 2

\* Hull: the weighted average, over sqrt(n), of twice the average over n/2
\* less the one over n.
Hma(v, n) ==
    LET half == Max({1, n \div 2})
        root == Max({1, RoundedRoot(n)})
        fast == Wma(v, half)
        slow == Wma(v, n)
        Twice(i) == 2 * fast[i].num * slow[i].den - slow[i].num * fast[i].den
        den == ((half * (half + 1)) \div 2) * ((n * (n + 1)) \div 2)
    IN  [i \in (n + root - 1)..Len(v) |->
            Frac(MapThenSumSet(LAMBDA j : Twice(i - j) * (root - j), 0..(root - 1)),
                 den * ((root * (root + 1)) \div 2))]

MaType == {"SMA", "EMA", "WMA", "RMA", "HMA"}

MovingAverage(cs, length, type) ==
    LET v == Closes(cs)
    IN  CASE type = "SMA" -> Sma(v, length)
          [] type = "EMA" -> Ema(v, length)
          [] type = "WMA" -> Wma(v, length)
          [] type = "RMA" -> Rma(v, length)
          [] type = "HMA" -> Hma(v, length)

-----------------------------------------------------------------------------
(* RSI and volume-weighted averages. *)

Gains(v) == [i \in DOMAIN v |-> IF i = 1 THEN 0 ELSE Max({0, v[i] - v[i - 1]})]
Losses(v) == [i \in DOMAIN v |-> IF i = 1 THEN 0 ELSE Max({0, v[i - 1] - v[i]})]

\* 100 - 100 / (1 + gain / loss); the two averages have one denominator.
Rsi(cs, length) ==
    LET g == Rma(Gains(Closes(cs)), length)
        l == Rma(Losses(Closes(cs)), length)
    IN  [i \in DOMAIN g |->
            IF l[i].num = 0 THEN Frac(IF g[i].num = 0 THEN 50 ELSE 100, 1)
            ELSE Frac(100 * g[i].num, g[i].num + l[i].num)]

DayOf(t) == t \div Day

\* The volume-weighted typical price of the candles and its variance; the
\* bands lie a multiple of its root around it.
Weighted(cs) ==
    LET Typical(c) == c.high + c.low + c.close
        v == FoldLeft(LAMBDA s, c : s + c.volume, 0, cs)
        pv == FoldLeft(LAMBDA s, c : s + Typical(c) * c.volume, 0, cs)
        pv2 == FoldLeft(LAMBDA s, c : s + Typical(c) * Typical(c) * c.volume, 0, cs)
    IN  [volume |-> v, vwap |-> Frac(pv, 3 * v),
         variance |-> Frac(pv2 * v - pv * pv, 9 * v * v)]

\* The candles since the day of candle i began.
Session(cs, i) ==
    SelectSeq(SubSeq(cs, 1, i), LAMBDA c : DayOf(c.time) = DayOf(cs[i].time))

Vwap(cs) ==
    [i \in {i \in DOMAIN cs : Weighted(Session(cs, i)).volume > 0} |->
        Weighted(Session(cs, i))]

AnchoredVwap(cs, anchor) ==
    LET Since(i) == SelectSeq(SubSeq(cs, 1, i), LAMBDA c : c.time >= anchor)
    IN  [i \in {i \in DOMAIN cs : cs[i].time >= anchor /\ Weighted(Since(i)).volume > 0} |->
            Weighted(Since(i)).vwap]

-----------------------------------------------------------------------------
(* Levels of the period before. *)

\* Mutant: the level of the current period.
PeriodBeforeCurrent(keys, k) == {k}

\* The last earlier period that has candles, if any.
PeriodBefore(keys, k) ==
    LET earlier == {e \in keys : e < k} IN IF earlier = {} THEN {} ELSE {Max(earlier)}

\* htfLevels() and prevPeriodLevels(): at each candle the high, low and last
\* close of the period before; period[i] is the number of candle i's period.
PriorLevels(cs, period) ==
    LET In(k) == {i \in DOMAIN cs : period[i] = k}
        Before(i) == PeriodBefore(Range(period), period[i])
        Level(k) == [high |-> Max({cs[i].high : i \in In(k)}),
                     low |-> Min({cs[i].low : i \in In(k)}),
                     close |-> cs[Max(In(k))].close]
    IN  [i \in {i \in DOMAIN cs : Before(i) # {}} |->
            Level(CHOOSE k \in Before(i) : TRUE)]

HtfLevels(cs, minutes) ==
    PriorLevels(cs, [i \in DOMAIN cs |-> cs[i].time \div (minutes * Minute)])

DayLevels(cs) == PriorLevels(cs, [i \in DOMAIN cs |-> DayOf(cs[i].time)])

\* Weeks begin on Monday; day 0 was a Thursday.
WeekLevels(cs) ==
    LET Monday(t) == DayOf(t) - ((DayOf(t) + 3) % WeekDays)
    IN  PriorLevels(cs, [i \in DOMAIN cs |-> Monday(cs[i].time)])
=============================================================================
