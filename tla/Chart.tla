-------------------------------- MODULE Chart --------------------------------
(***************************************************************************)
(* The web client's chart (packages/web/src/SignalChart.tsx): a live feed  *)
(* over a WebSocket or a fetched backtest window played up to a cursor,    *)
(* shown in a timeframe.  The server's feed is deterministic per symbol    *)
(* (realtime/demo.py), so every connection and every window shows the same *)
(* history.                                                                *)
(*                                                                         *)
(* One action per event: a user's click, a callback of a socket or a       *)
(* fetch, a tick of the playback timer, each with the React effects it     *)
(* causes.  A bar stands for itself by its time; what aggregation makes of *)
(* its prices is Indicators'.  The page's other panels (signal list,       *)
(* blocked orders, performance, lifecycle badge) and styling are left out. *)
(***************************************************************************)
EXTENDS Integers, FiniteSetsExt, SequencesExt, Functions

CONSTANTS
    Minute,         \* time units of one minute (60 in the code)
    Feed,           \* the times of the bars of the symbol's feed
    SnapshotBars,   \* bars of the snapshot a connection begins with
    Ranges,         \* date ranges of a backtest: pairs of a start and an end
    AllTime,        \* the one without limits, at first
    SignalTimes,    \* times at which the bot trades in a backtest
    Timeframes,     \* minutes
    Speeds,         \* bars per tick of playback, as selected at the time
    MaxMarkers,     \* markers a live chart keeps (2000 in the code)
    MaxPending,     \* bound: sockets and fetches not done with at a time
    MaxClicks       \* bound: markers set by hand at a time

VARIABLES
    backtest,   \* the mode
    status,     \* what the page says of its connection
    sockets,    \* id -> state, and bars received over it
    live,       \* the socket of the current live mode, 0 for none
    fetches,    \* fetches under way: range, and whether cancelled
    asked,      \* the range chosen
    base,       \* base1mRef: the bars
    raw,        \* rawMarkersRef
    equity,     \* equityRef: times of the equity points
    pane,       \* whether the equity pane exists
    cursor, barCount, playing, timeframe,
    drawn,      \* what the chart library was last given
    failed      \* an error in an effect has unmounted the page

vars == <<backtest, status, sockets, live, fetches, asked, base, raw,
          equity, pane, cursor, barCount, playing, timeframe, drawn,
          failed>>

ASSUME ChartAssumption ==
    /\ SnapshotBars \in Nat \ {0} /\ MaxMarkers \in Nat \ {0}
    /\ MaxClicks \in Nat /\ MaxPending \in Nat \ {0}
    /\ AllTime \in Ranges
    /\ Minute \in Nat \ {0}
    /\ Timeframes \subseteq Nat \ {0} /\ 1 \in Timeframes
    /\ Speeds \subseteq Nat \ {0}
    /\ IsFiniteSet(SignalTimes)
    /\ Feed \in Seq(Nat) /\ Len(Feed) >= SnapshotBars
    /\ \A i, j \in 1..Len(Feed) : i < j => Feed[i] < Feed[j]

-----------------------------------------------------------------------------
(* Data. *)

Status == {"connecting", "live", "closed", "backtest"}

\* failing: closed by the page before it opened; closing: after.
SocketStates == {"unused", "connecting", "open", "closing", "failing"}
Sockets == 1..MaxPending
Unused == [state |-> "unused", got |-> 0]

Marker(kind, t) == [kind |-> kind, time |-> t]   \* kinds: order, manual

\* bucketTime(), the start of the candle of `minutes` that holds t.
BucketTime(t, minutes) ==
    IF minutes <= 1 THEN t
    ELSE (t \div (minutes * Minute)) * (minutes * Minute)

\* The candles of some bars: the bars of each, by its time.
Candles(bars, minutes) ==
    [b \in {BucketTime(t, minutes) : t \in Range(bars)} |->
        {t \in Range(bars) : BucketTime(t, minutes) = b}]

\* The server's answer: the bars between the two ends, each clamped into the
\* feed.
Window(range) ==
    LET Clamp(t, lo) == Max({lo, Min({t, Last(Feed)})})
        start == Clamp(range[1], Feed[1])
        end == Clamp(range[2], start)
        Earlier == {i \in 1..Len(Feed) : Feed[i] < start}
        UpToEnd == {i \in 1..Len(Feed) : Feed[i] <= end}
    IN  SubSeq(Feed, Cardinality(Earlier) + 1, Cardinality(UpToEnd))

\* The trades of the bot in the window.
KeepTrade(marks, t) ==
    IF t \in SignalTimes THEN Append(marks, Marker("order", t)) ELSE marks
TradesIn(bars) == FoldLeft(KeepTrade, << >>, bars)

-----------------------------------------------------------------------------
(* Drawing. *)

\* slice(0, cursor + 1) in backtest mode.
Revealed(m, items, cur) ==
    IF m THEN SubSeq(items, 1, Min({cur + 1, Len(items)})) ELSE items

\* applyMarkers(): those up to the cursor's bar, snapped to their candles.
Markers(m, bars, marks, cur, tf) ==
    {Marker(x.kind, BucketTime(x.time, tf)) :
        x \in {x \in Range(marks) :
                m /\ cur < Len(bars) => x.time <= bars[cur + 1]}}

\* redraw(): candles, markers and, if its pane exists, equity.
Drawing(m, bars, marks, eq, shown, cur, tf) ==
    [candles |-> Candles(Revealed(m, bars, cur), tf),
     markers |-> Markers(m, bars, marks, cur, tf),
     equity |-> IF shown THEN Revealed(m, eq, cur) ELSE << >>]

\* Drawing at a cursor before the first bar reads the time of no bar.
Throws(m, cur) == m /\ cur < 0

\* redrawRef.current() as an effect of the state after the event.
RedrawEffect ==
    /\ drawn' = IF Throws(backtest', cursor') THEN drawn
                ELSE Drawing(backtest', base', raw', equity', pane', cursor',
                             timeframe')
    /\ failed' = Throws(backtest', cursor')

\* applyMarkers() in a callback: an error ends the callback only.
MarkersAgain ==
    drawn' = IF Throws(backtest, cursor) THEN drawn
             ELSE [drawn EXCEPT !.markers =
                    Markers(backtest, base, raw', cursor, timeframe)]

-----------------------------------------------------------------------------
(* Mounting, and the two modes. *)

FreeSockets == {s \in Sockets : sockets[s].state = "unused"}

\* The bound MaxPending.
Room == Cardinality(fetches) < Cardinality(FreeSockets)

\* The page mounts in live mode.  An error in an effect unmounts it; loading
\* it again begins here.
Init ==
    /\ backtest = FALSE /\ status = "connecting"
    /\ live = 1
    /\ sockets = [s \in Sockets |-> IF s = live
                    THEN [state |-> "connecting", got |-> 0] ELSE Unused]
    /\ fetches = {} /\ asked = AllTime
    /\ base = << >> /\ raw = << >> /\ equity = << >> /\ pane = FALSE
    /\ cursor = 0 /\ barCount = 0 /\ playing = FALSE
    /\ timeframe = 1
    /\ drawn = [candles |-> << >>, markers |-> {}, equity |-> << >>]
    /\ failed = FALSE

Cancelled == {[f EXCEPT !.cancelled = TRUE] : f \in fetches}

\* The cleanup of live mode: close() on its socket.
SocketsLeft ==
    IF live = 0 THEN sockets
    ELSE [sockets EXCEPT ![live].state =
            CASE @ = "open" -> "closing" [] @ = "connecting" -> "failing"
              [] OTHER -> @]

\* The backtest button, to live: a new socket, the equity pane goes, the
\* bars stay until the snapshot replaces them.
EnterLive ==
    /\ backtest /\ Room
    /\ live' = Min(FreeSockets)
    /\ backtest' = FALSE /\ status' = "connecting"
    /\ sockets' = [sockets EXCEPT ![live'] = [state |-> "connecting", got |-> 0]]
    /\ fetches' = Cancelled
    /\ pane' = FALSE
    /\ drawn' = [drawn EXCEPT !.equity = << >>]
    /\ UNCHANGED <<asked, base, raw, equity, cursor, barCount, playing,
                   timeframe, failed>>

\* To backtest: close the socket and ask for the window.
EnterBacktest ==
    /\ ~backtest /\ Room
    /\ backtest' = TRUE /\ status' = "connecting"
    /\ sockets' = SocketsLeft /\ live' = 0
    /\ fetches' = fetches \cup {[range |-> asked, cancelled |-> FALSE]}
    /\ UNCHANGED <<asked, base, raw, equity, pane, cursor, barCount,
                   playing, timeframe, drawn, failed>>

\* The date inputs, which backtest mode shows.
ChooseRange(r) ==
    /\ backtest /\ r \in Ranges \ {asked}
    /\ Room
    /\ asked' = r
    /\ fetches' = Cancelled \cup {[range |-> r, cancelled |-> FALSE]}
    /\ status' = "connecting"
    /\ UNCHANGED <<backtest, sockets, live, base, raw, equity, pane,
                   cursor, barCount, playing, timeframe, drawn, failed>>

-----------------------------------------------------------------------------
(* The callbacks of a fetch. *)

\* Mutant: the flag is not looked at.
AppliesAlways(f) == TRUE

Applies(f) == ~f.cancelled

\* The window replaces everything and is shown whole, playback stopped.
FetchAnswered(f) ==
    /\ f \in fetches
    /\ fetches' = fetches \ {f}
    /\ UNCHANGED <<backtest, sockets, live, asked, timeframe>>
    /\ IF Applies(f)
       THEN LET bars == Window(f.range)
                last == Max({0, Len(bars) - 1})
            IN  /\ base' = bars /\ raw' = TradesIn(bars)
                /\ equity' = bars /\ pane' = (bars # << >> /\ backtest)
                /\ barCount' = Len(bars) /\ cursor' = last
                /\ playing' = FALSE /\ status' = "backtest"
                /\ RedrawEffect
       ELSE UNCHANGED <<base, raw, equity, pane, barCount, cursor, playing,
                        status, drawn, failed>>

\* No answer, or one that is no window: what was shown stays.
FetchFailed(f) ==
    /\ f \in fetches
    /\ fetches' = fetches \ {f}
    /\ status' = IF f.cancelled THEN status ELSE "closed"
    /\ UNCHANGED <<backtest, sockets, live, asked, base, raw, equity,
                   pane, cursor, barCount, playing, timeframe, drawn,
                   failed>>

-----------------------------------------------------------------------------
(* The callbacks of a socket, of the current live mode or not. *)

SocketOnly == <<backtest, live, fetches, asked, equity, pane, cursor,
                barCount, playing, timeframe>>

Opened(s) ==
    /\ sockets[s].state = "connecting"
    /\ sockets' = [sockets EXCEPT ![s].state = "open"]
    /\ status' = "live"
    /\ UNCHANGED <<SocketOnly, base, raw, drawn, failed>>

\* onclose, of a socket that was open; one the page left says so late.
Closed(s) ==
    /\ sockets[s].state \in {"open", "closing"}
    /\ sockets' = [sockets EXCEPT ![s] = Unused]
    /\ live' = IF live = s THEN 0 ELSE live
    /\ status' = IF status \in {"live", "connecting"} THEN "closed" ELSE status
    /\ UNCHANGED <<backtest, fetches, asked, base, raw, equity, pane,
                   cursor, barCount, playing, timeframe, drawn, failed>>

\* onerror and onclose, of a socket that never opened.
Errored(s) ==
    /\ sockets[s].state \in {"connecting", "failing"}
    /\ sockets' = [sockets EXCEPT ![s] = Unused]
    /\ live' = IF live = s THEN 0 ELSE live
    /\ status' = "closed"
    /\ UNCHANGED <<backtest, fetches, asked, base, raw, equity, pane,
                   cursor, barCount, playing, timeframe, drawn, failed>>

\* The first message replaces the bars and drops the markers.
Snapshot(s) ==
    /\ sockets[s] = [state |-> "open", got |-> 0]
    /\ sockets' = [sockets EXCEPT ![s].got = SnapshotBars]
    /\ base' = SubSeq(Feed, 1, SnapshotBars) /\ raw' = << >>
    /\ UNCHANGED SocketOnly
    /\ RedrawEffect
    /\ UNCHANGED status

\* A bar with the time of the last one replaces it.
Bar(s) ==
    LET n == sockets[s].got + 1
        bar == Feed[n]
    IN  /\ sockets[s].state = "open" /\ n > SnapshotBars /\ n <= Len(Feed)
        /\ sockets' = [sockets EXCEPT ![s].got = n]
        /\ base' = IF base # << >> /\ Last(base) = bar
                   THEN [base EXCEPT ![Len(base)] = bar]
                   ELSE Append(base, bar)
        /\ UNCHANGED <<SocketOnly, raw>>
        /\ RedrawEffect
        /\ UNCHANGED status

\* Mutant: a trade is marked at the bar to come.
TradeTimeNext(s) == Feed[sockets[s].got] + Minute

TradeTime(s) == Feed[sockets[s].got]

\* A trade, or an order the risk rules refused, of the bar received last; a
\* bar has one at most.  The oldest markers go.
Traded(s) ==
    LET all == Append(raw, Marker("order", TradeTime(s)))
    IN  /\ sockets[s].state = "open" /\ sockets[s].got > SnapshotBars
        /\ Marker("order", TradeTime(s)) \notin Range(raw)
        /\ raw' = SubSeq(all, Max({1, Len(all) - MaxMarkers + 1}), Len(all))
        /\ MarkersAgain
        /\ UNCHANGED <<SocketOnly, sockets, status, base, failed>>

-----------------------------------------------------------------------------
(* The user's and the timer's events. *)

UserOnly == <<backtest, status, sockets, live, fetches, asked, base,
              equity, pane, barCount>>

ByHand(marks) == {i \in DOMAIN marks : marks[i].kind = "manual"}

\* A click on a candle of the chart marks the time of the candle.
Click ==
    /\ Cardinality(ByHand(raw)) < MaxClicks
    /\ \E t \in DOMAIN drawn.candles : raw' = Append(raw, Marker("manual", t))
    /\ MarkersAgain
    /\ UNCHANGED <<UserOnly, cursor, playing, timeframe, failed>>

KeepOrder(marks, x) == IF x.kind # "manual" THEN Append(marks, x) ELSE marks

Clear ==
    /\ raw' = FoldLeft(KeepOrder, << >>, raw)
    /\ MarkersAgain
    /\ UNCHANGED <<UserOnly, cursor, playing, timeframe, failed>>

\* Mutant: the chart is not redrawn.
SelectTimeframeOnly(tf) ==
    /\ tf \in Timeframes \ {timeframe}
    /\ timeframe' = tf
    /\ UNCHANGED <<UserOnly, raw, cursor, playing, drawn, failed>>

\* A timeframe is selected, or picked by Auto as the user zooms.
SelectTimeframe(tf) ==
    /\ tf \in Timeframes \ {timeframe}
    /\ timeframe' = tf
    /\ UNCHANGED <<UserOnly, raw, cursor, playing>>
    /\ RedrawEffect

\* The cursor moves: its effect redraws.
MoveTo(c) ==
    /\ cursor' = c
    /\ UNCHANGED <<UserOnly, raw, timeframe>>
    /\ IF c = cursor THEN UNCHANGED <<drawn, failed>> ELSE RedrawEffect

\* Mutant: nothing stops a step before the first bar.
StepUnclamped(delta) ==
    /\ backtest
    /\ playing' = FALSE
    /\ MoveTo(Min({barCount - 1, cursor + delta}))

\* The step buttons and the slider, which stop playback.
Step(delta) ==
    /\ backtest
    /\ playing' = FALSE
    /\ MoveTo(Max({0, Min({barCount - 1, cursor + delta})}))

Seek(c) ==
    /\ backtest /\ c \in 0..Max({0, barCount - 1})
    /\ playing' = FALSE
    /\ MoveTo(c)

PlayOrPause ==
    /\ backtest
    /\ playing' = ~playing
    /\ UNCHANGED <<UserOnly, raw, cursor, timeframe, drawn, failed>>

\* Mutant: playback does not stop at the end.
TickOn(k) ==
    /\ playing
    /\ playing' = playing
    /\ MoveTo(Min({cursor + k, Len(base) - 1}))

\* The timer, at a speed of k: on to the last bar, where playback stops.
Tick(k) ==
    /\ playing
    /\ playing' = (cursor + k < Len(base) - 1)
    /\ MoveTo(Min({cursor + k, Len(base) - 1}))

-----------------------------------------------------------------------------

FetchEvent == \E f \in fetches : FetchAnswered(f) \/ FetchFailed(f)

SocketEvent ==
    \E s \in Sockets :
        \/ Opened(s) \/ Closed(s) \/ Errored(s)
        \/ Snapshot(s) \/ Bar(s) \/ Traded(s)

UserEvent ==
    \/ EnterLive \/ EnterBacktest
    \/ \E r \in Ranges : ChooseRange(r)
    \/ Click \/ Clear
    \/ \E tf \in Timeframes : SelectTimeframe(tf)
    \/ \E delta \in {-1, 1} : Step(delta)
    \/ \E c \in 0..barCount : Seek(c)
    \/ PlayOrPause

Next ==
    /\ ~failed
    /\ FetchEvent \/ SocketEvent \/ UserEvent \/ \E k \in Speeds : Tick(k)

Spec == Init /\ [][Next]_vars

\* The browser's timer runs; users, servers and networks owe nothing.
FairSpec == Spec /\ WF_vars(~failed /\ \E k \in Speeds : Tick(k))

-----------------------------------------------------------------------------
(* Properties. *)

TypeOK ==
    /\ Range(base) \subseteq Range(Feed)
    /\ status \in Status /\ asked \in Ranges
    /\ \A s \in Sockets : /\ sockets[s].state \in SocketStates
                          /\ sockets[s].got \in 0..Len(Feed)
    /\ live \in {0} \cup Sockets
    /\ {backtest, pane, playing, failed} \subseteq BOOLEAN
    /\ cursor \in -1..Len(Feed) /\ barCount \in 0..Len(Feed)
    /\ timeframe \in Timeframes
    /\ Len(raw) <= Max({MaxMarkers, Cardinality(SignalTimes)}) + MaxClicks

Loaded == backtest /\ status = "backtest"
Following == ~backtest /\ live # 0 /\ sockets[live].got > 0

\* A live chart shows the bars of its own connection and of no other, in
\* their order, whatever connections were left before (SignalChart.tsx
\* 614-686).
FollowsOneFeed == Following => base = SubSeq(Feed, 1, sockets[live].got)

\* A loaded backtest shows the window last asked for, whatever the order in
\* which fetches answer (689-740).
ShowsAskedWindow == Loaded => base = Window(asked)

\* "live" is said of an open connection only (623-625, 617-618).
LiveMeansOpen ==
    status = "live" => ~backtest /\ live # 0 /\ sockets[live].state = "open"

\* The bars on the page are those of the mode it is in, whatever socket or
\* fetch of an earlier mode is still to answer.
ShowsItsSource == TypeOK /\ FollowsOneFeed /\ ShowsAskedWindow /\ LiveMeansOpen

\* Whatever changed last, the cursor, the timeframe, the bars or the mode,
\* the candles and the equity curve on the screen are those of the present
\* state (353-371).
DrawnIsCurrent ==
    Loaded \/ Following =>
        /\ drawn.candles = Candles(Revealed(backtest, base, cursor), timeframe)
        /\ drawn.equity = IF Loaded THEN Revealed(backtest, base, cursor)
                          ELSE << >>

\* Every trade and refused order stands at a candle of the chart, in every
\* timeframe and at every cursor (99-100).
TradesOnCandles ==
    Loaded \/ Following =>
        \A x \in drawn.markers :
            x.kind # "manual" => x.time \in DOMAIN drawn.candles

\* A loaded window that has bars can be played, stepped and searched without
\* an error that unmounts the page, whatever happened before it was loaded
\* (597-612, 748-751).
LoadedPageStays == failed /\ Loaded => base = << >>

\* Playback that runs stops, at the last bar or before, unless the page fails (597-612).
PlaybackEnds == playing ~> ~playing \/ failed
=============================================================================
