------------------------------ MODULE Trading ------------------------------
(***************************************************************************)
(* M5 and M6 for one equity: fill models, paper account, position sizing,  *)
(* the per-order risk check and the account guardrails (execution/, risk/).*)
(*                                                                         *)
(* A quote is an integer number of ticks around the close.  Money is       *)
(* counted in 1/Scale of a tick, so that a slipped price is exact, and     *)
(* ratios are compared by multiplying out, as the code's decimals do.      *)
(***************************************************************************)
EXTENDS Integers

CONSTANTS
    Closes,             \* closes a feed may produce, in ticks
    Spread,             \* distance of the bid and of the ask from the close
    Slippage, Scale,    \* adverse slippage is the fraction Slippage / Scale
    Fee,                \* commission per share
    StartingCash,
    SizingFraction,     \* percent of equity an entry allocates
    MaxPosition,        \* percent of equity one name may weigh
    DailyLossLimit,     \* percent below the equity the limit is measured from
    MaxDrawdown,        \* percent below the equity peak
    KillSwitch

ASSUME TradingAssumption ==
    /\ Closes \subseteq Nat \ {0} /\ \A c \in Closes : c > Spread
    /\ Spread \in Nat /\ Slippage \in Nat /\ Fee \in Nat
    /\ Scale \in Nat \ {0} /\ Slippage < Scale
    /\ StartingCash \in Nat \ {0}
    /\ SizingFraction \in 1..100
    /\ MaxPosition \in 0..100
    /\ DailyLossLimit \in 1..100 /\ MaxDrawdown \in 1..100
    /\ KillSwitch \in BOOLEAN

Side == {"buy", "sell"}

-----------------------------------------------------------------------------
(* Fill models. *)

\* Mutant: the fill is at the better side of the quote.
CrossSpreadInside(side, c) == IF side = "buy" THEN c - Spread ELSE c + Spread

\* CrossSpreadFill: buy at the ask, sell at the bid.
CrossSpread(side, c) == IF side = "buy" THEN c + Spread ELSE c - Spread

\* FixedBpsSlippage moves the price against the order.
FillPrice(side, c) ==
    CrossSpread(side, c)
        * (IF side = "buy" THEN Scale + Slippage ELSE Scale - Slippage)

Commission(qty) == Fee * qty

\* The close in money: the mark of a position and the mid of the quote.
Mark(c) == c * Scale

\* An entry of the sizing fraction can be paid for at every close: what a
\* share costs above its mark fits in what the fraction leaves; and a sale
\* pays its commission.
RoomForCosts ==
    \A c \in Closes :
        /\ SizingFraction * (FillPrice("buy", c) + Fee) <= 100 * Mark(c)
        /\ Fee <= FillPrice("sell", c)

-----------------------------------------------------------------------------
(* The account. *)

NewAccount == [cash |-> StartingCash, position |-> 0]

Fill(side, qty, c) ==
    [type |-> "fill", side |-> side, quantity |-> qty,
     price |-> FillPrice(side, c), fee |-> Commission(qty)]

\* SandboxLedger.submit: what a fill does to cash and position.
AfterFill(account, fill) ==
    IF fill.side = "buy"
    THEN [cash |-> account.cash - (fill.price * fill.quantity + fill.fee),
          position |-> account.position + fill.quantity]
    ELSE [cash |-> account.cash + fill.price * fill.quantity - fill.fee,
          position |-> account.position - fill.quantity]

Equity(account, c) == account.cash + account.position * Mark(c)

-----------------------------------------------------------------------------
(* Sizing, risk check and guardrails. *)

Abs(x) == IF x < 0 THEN -x ELSE x

\* Mutant: an exit also enters on the other side.
QuantityReverses(side, account, equity, c) ==
    LET entry == IF equity <= 0 THEN 0
                 ELSE (equity * SizingFraction) \div (100 * Mark(c))
    IN  IF side = "sell" THEN Abs(account.position) + entry ELSE entry

\* FixedFractional: an exit flattens, an entry takes whole units of a
\* fraction of the equity (signals have strength 1).
Quantity(side, account, equity, c) ==
    IF side = "sell" THEN Abs(account.position)
    ELSE IF equity <= 0 THEN 0
    ELSE (equity * SizingFraction) \div (100 * Mark(c))

\* The position an order leads to.
Projected(side, qty, account) ==
    IF side = "buy" THEN account.position + qty ELSE account.position - qty

\* RiskModel.check on the equity and the mid before the fill.
Approved(side, qty, account, equity, c) ==
    /\ equity > 0
    /\ 100 * Abs(Projected(side, qty, account)) * Mark(c)
        <= MaxPosition * equity

\* GuardrailPolicy.enforce.  The day-start equity it is given is the starting
\* cash, on every day of a session (sandbox_session.py 117, 169) and of a
\* backtest.
Halted(equity, peak) ==
    \/ KillSwitch
    \/ 100 * (equity - StartingCash) <= -DailyLossLimit * StartingCash
    \/ /\ peak > 0
       /\ 100 * (equity - peak) <= -MaxDrawdown * peak
=============================================================================
