--------------------------- MODULE SandboxSession ---------------------------
(***************************************************************************)
(* A live session (realtime/sandbox_session.py): a new bot version is put  *)
(* under evaluation and trades a paper account bar by bar, on the          *)
(* SMA-cross strategy; each tick ends with a mark and a commit, and a      *)
(* session with a last tick ends with the qualification of its version.    *)
(*                                                                         *)
(* Every await is a point where the client may be gone, the server stop or *)
(* the database fail: the unit of work then rolls back to the last commit  *)
(* and the account in memory is lost.  The stream belongs to the session   *)
(* alone, so its hash chain is left to EventLedger.                        *)
(***************************************************************************)
EXTENDS Backtest

CONSTANTS
    History,        \* closes before the session starts
    BarsPerDay,
    Endless,        \* whether the session has no max_ticks, as /ws/sandbox
    MaxTicks        \* max_ticks; of an endless session, a bound

ASSUME SessionAssumption ==
    /\ History \in Seq(Closes) /\ History # << >>
    /\ BarsPerDay \in Nat \ {0}
    /\ Endless \in BOOLEAN
    /\ MaxTicks \in Nat

VARIABLES
    stage,      \* how far the tick is
    closes,     \* _closes: the history and the bars so far
    account,    \* cash and position of the SandboxLedger
    peak,       \* _peak_equity
    view,       \* the transaction's view of the session's rows
    saved,      \* the same rows as committed
    told        \* the fills the client was sent

vars == <<stage, closes, account, peak, view, saved, told>>

\* The rows: the ledger stream, order_blocked audit records, version state.
NoRows == [events |-> << >>, blocked |-> << >>, version |-> "none"]

Live == stage \notin {"new", "over", "gone"}
Tick == Len(closes) - Len(History)
Close == Last(closes)
EquityNow == Equity(account, Close)

-----------------------------------------------------------------------------
(* The session. *)

Init ==
    /\ stage = "new"
    /\ closes = History
    /\ account = NewAccount
    /\ peak = StartingCash
    /\ view = NoRows
    /\ saved = NoRows
    /\ told = << >>

\* _start_evaluation: bot, version and transition, not committed yet.
StartEvaluation ==
    /\ stage = "new"
    /\ stage' = "tick"
    /\ view' = [view EXCEPT !.version = "evaluation"]
    /\ UNCHANGED <<closes, account, peak, saved, told>>

\* The next bar is sent, and the account valued at it.
NextBar(c) ==
    /\ stage = "tick"
    /\ Tick < MaxTicks
    /\ stage' = "trade"
    /\ closes' = Append(closes, c)
    /\ peak' = Larger(peak, Equity(account, c))
    /\ UNCHANGED <<account, view, saved, told>>

NoSignal ==
    /\ stage = "trade"
    /\ SmaCross(closes, account.position) = "none"
    /\ stage' = "mark"
    /\ UNCHANGED <<closes, account, peak, view, saved, told>>

\* _block: an audit record and a message to the client.
Block(kind, side) ==
    /\ stage' = "mark"
    /\ view' = [view EXCEPT !.blocked = Append(@, [kind |-> kind, action |-> side])]
    /\ UNCHANGED <<closes, account, peak, saved, told>>

\* A signal while the account is halted.
BlockedByGuardrail ==
    LET side == SmaCross(closes, account.position)
    IN  /\ stage = "trade"
        /\ side \in Side
        /\ Halted(EquityNow, peak)
        /\ Block("guardrail", side)

\* Mutant: the guardrails are not enforced.
OrderDespiteHalt(side) ==
    /\ stage = "trade"
    /\ side = SmaCross(closes, account.position)

\* _handle on a signal: the quantity to order, if trading goes on.
Order(side) ==
    /\ stage = "trade"
    /\ side = SmaCross(closes, account.position)
    /\ ~Halted(EquityNow, peak)

OrderQuantity(side) == Quantity(side, account, EquityNow, Close)

OrderApproved(side) ==
    Approved(side, OrderQuantity(side), account, EquityNow, Close)

\* The sizer finds nothing to trade.
NothingToOrder(side) ==
    /\ Order(side)
    /\ OrderQuantity(side) <= 0
    /\ stage' = "mark"
    /\ UNCHANGED <<closes, account, peak, view, saved, told>>

BlockedByRisk(side) ==
    /\ Order(side)
    /\ OrderQuantity(side) > 0 /\ ~OrderApproved(side)
    /\ Block("risk", side)

\* SandboxLedger.submit, and the fill sent to the client.
Submit(side) ==
    LET fill == Fill(side, OrderQuantity(side), Close)
    IN  /\ Order(side)
        /\ OrderQuantity(side) > 0 /\ OrderApproved(side)
        /\ stage' = "mark"
        /\ account' = AfterFill(account, fill)
        /\ view' = [view EXCEPT !.events = Append(@, fill)]
        /\ told' = Append(told, fill)
        /\ UNCHANGED <<closes, peak, saved>>

\* mark_to_market; the performance message derives from the view.
MarkToMarket ==
    /\ stage = "mark"
    /\ stage' = "commit"
    /\ view' = [view EXCEPT !.events =
                  Append(@, [type |-> "mark", equity |-> EquityNow])]
    /\ UNCHANGED <<closes, account, peak, saved, told>>

\* Mutant: a tick is not committed, only the end of the run is.
CommitTickLater ==
    /\ stage = "commit"
    /\ stage' = "tick"
    /\ UNCHANGED <<closes, account, peak, view, saved, told>>

CommitTick ==
    /\ stage = "commit"
    /\ stage' = "tick"
    /\ saved' = view
    /\ UNCHANGED <<closes, account, peak, view, told>>

\* _eval_days, from the first and the last bar's times.
EvalDays == IF Tick = 0 THEN 0 ELSE (Tick - 1) \div BarsPerDay

\* _qualify: the record of the replayed stream decides where the version
\* goes.  The Sharpe ratio is above the floor or not, if there is one.
Qualify ==
    LET record == Record(view.events, StartingCash)
        available == SharpeAvailable(EquityCurve(view.events))
    IN  /\ stage = "tick"
        /\ ~Endless /\ Tick = MaxTicks
        /\ stage' = "end"
        /\ \E sharpeOk \in IF available THEN BOOLEAN ELSE {FALSE} :
            view' = [view EXCEPT !.version =
                       IF Passes(record, EvalDays, sharpeOk)
                       THEN "listed" ELSE "delisted"]
        /\ UNCHANGED <<closes, account, peak, saved, told>>

CommitEnd ==
    /\ stage = "end"
    /\ stage' = "over"
    /\ saved' = view
    /\ UNCHANGED <<closes, account, peak, view, told>>

\* An await raises: the unit of work rolls back and the session is gone.
Abort ==
    /\ Live
    /\ stage' = "gone"
    /\ view' = saved
    /\ UNCHANGED <<closes, account, peak, saved, told>>

Next ==
    \/ StartEvaluation
    \/ \E c \in Closes : NextBar(c)
    \/ NoSignal
    \/ BlockedByGuardrail
    \/ \E side \in Side :
        NothingToOrder(side) \/ BlockedByRisk(side) \/ Submit(side)
    \/ MarkToMarket \/ CommitTick
    \/ Qualify \/ CommitEnd
    \/ Abort

Spec == Init /\ [][Next]_vars

-----------------------------------------------------------------------------
(* Properties. *)

Money == Int
FillRecords ==
    [type: {"fill"}, side: Side, quantity: Nat \ {0}, price: Nat, fee: Nat]
MarkRecords == [type: {"mark"}, equity: Money]
Blocks == [kind: {"guardrail", "risk"}, action: Side]
Rows ==
    [events: Seq(FillRecords \cup MarkRecords), blocked: Seq(Blocks),
     version: {"none", "evaluation", "listed", "delisted"}]

TypeOK ==
    /\ stage \in {"new", "tick", "trade", "mark", "commit", "end", "over", "gone"}
    /\ closes \in Seq(Closes)
    /\ account \in [cash: Money, position: Int]
    /\ peak \in Money
    /\ view \in Rows
    /\ saved \in Rows
    /\ told \in Seq(FillRecords)

\* The account the fills of an event list lead to.
Replay(a, e) == IF e.type = "fill" THEN AfterFill(a, e) ELSE a
Rebuilt(events) == FoldLeft(Replay, NewAccount, events)

\* "The ledger is the source of truth: positions can be rebuilt by replaying
\* it" (execution/sandbox.py 4-5): while the session lives its stream replays
\* to the account in memory.
LedgerRebuildsAccount == Live => Rebuilt(view.events) = account

\* Every mark of a stream is the equity, at that bar's close, of the account
\* replayed up to the mark, and no fill follows the last committed mark:
\* what a crash leaves behind is a whole number of ticks.
MarksAreReproducible ==
    LET MarkIndices(events) == {i \in DOMAIN events : events[i].type = "mark"}
        Bar(events, i) == Len(History) + Len(Marks(SubSeq(events, 1, i)))
    IN  /\ \A i \in MarkIndices(view.events) :
            view.events[i].equity =
                Equity(Rebuilt(SubSeq(view.events, 1, i)),
                       closes[Bar(view.events, i)])
        /\ saved.events # << >> => Last(saved.events).type = "mark"
        /\ saved.events = SubSeq(view.events, 1, Len(saved.events))

\* A client that lost its session has been told of at most one fill the
\* ledger does not hold, and of every one it does: fills are sent before the
\* tick commits (sandbox_session.py 176-177, 258).
CommitsWithinOneTick ==
    LET kept == Fills(saved.events)
    IN  /\ Len(told) - Len(kept) \in {0, 1}
        /\ kept = SubSeq(told, 1, Len(kept))

\* The stream is all there is to know of a session, at any await, and a lost
\* one keeps all its client was told but for the last tick.
LedgerIsTheTruth ==
    TypeOK /\ LedgerRebuildsAccount /\ MarksAreReproducible /\ CommitsWithinOneTick

\* Long-only and unlevered: with room for spread, slippage and commission no
\* sequence of bars makes the account short or in debt (risk/sizing.py 4-5).
NeverShortNeverOwing ==
    RoomForCosts => account.position >= 0 /\ account.cash >= 0

\* Sandbox fills are conservative, one pays the spread (fills/price.py 16):
\* at unchanged prices no trade raises the equity.
TradesCostEquity ==
    [][closes' = closes =>
        Equity(account', Close) <= EquityNow]_vars

\* An equity, after a curve of marks, at which the guardrails allow an order.
WithinLimits(equity, curve) ==
    /\ ~KillSwitch
    /\ 100 * (equity - StartingCash) > -DailyLossLimit * StartingCash
    /\ \A k \in DOMAIN curve :
        curve[k] > 0 => 100 * (equity - curve[k]) > -MaxDrawdown * curve[k]

\* The "hard" guardrails (risk/guardrails.py 1-6), as an audit of the stream
\* finds them: every trade was made at an equity, of the account the fills
\* before it lead to, above the loss limit and not too far below any mark
\* before it.  The stream does not hold the peak the session trades by
\* (sandbox_session.py 155-173).
TradesWithinLimits ==
    \A i \in DOMAIN view.events : view.events[i].type = "fill" =>
        LET before == SubSeq(view.events, 1, i - 1)
            bar == Len(History) + Len(Marks(before)) + 1
        IN  WithinLimits(Equity(Rebuilt(before), closes[bar]), EquityCurve(before))

\* The backtest of the same closes takes the same trades to the same account
\* and curve as the session (backtest/service.py 4-6, "Drives the same
\* components as the live sandbox").
BacktestAgrees ==
    stage = "tick" =>
        LET b == BacktestRun(closes, Len(History) + 1)
        IN  /\ b.account = account
            /\ b.events = Fills(view.events)
            /\ b.curve = EquityCurve(view.events)

\* The fills that close a trade.
Exits(fills) == {i \in DOMAIN fills : fills[i].side = "sell"}

\* The wins counted at average cost are the round trips that left the
\* account with more cash than before they began; this takes commissions of
\* zero, as an entry's commission is not part of the average cost.
WinsAreCashGains ==
    LET fills == Fills(view.events)
        CashAfter(n) == Rebuilt(SubSeq(fills, 1, n)).cash
        record == Record(view.events, StartingCash)
    IN  /\ record.num_trades = Cardinality(Exits(fills))
        /\ Fee = 0 => record.wins = Cardinality(
                        {i \in Exits(fills) : CashAfter(i) > CashAfter(i - 2)})

\* The recorded maximum drawdown is the worst fall from an equity to a later
\* one, as a share of the former.
DrawdownIsWorstFall ==
    LET curve == EquityCurve(view.events)
        Fall(i, j) == IF curve[i] > 0
                      THEN RoundHalfEven(10000 * (curve[i] - curve[j]), curve[i])
                      ELSE 0
        falls == {Fall(p[1], p[2]) :
                    p \in {q \in (DOMAIN curve) \X (DOMAIN curve) : q[1] < q[2]}}
    IN  MaxDrawdownPct(curve) = Max(falls \cup {0})

\* The performance record is what the stream's fills and marks show.
RecordShowsLedger == WinsAreCashGains /\ DrawdownIsWorstFall

\* A version is listed only on a committed ledger that shows the policy's
\* bar cleared: a profit, enough closed trades, no fall beyond the ceiling.
ListedOnItsLedger ==
    saved.version = "listed" =>
        LET curve == EquityCurve(saved.events)
        IN  /\ Len(curve) = Tick
            /\ Last(curve) > StartingCash
            /\ \A i, j \in DOMAIN curve :
                i < j => 10000 * (curve[i] - curve[j])
                            <= (DrawdownCeiling + 1) * curve[i]
            /\ Cardinality(Exits(Fills(saved.events))) >= MinTrades
=============================================================================
