---------------------------- MODULE TradingProofs ----------------------------
(***************************************************************************)
(* Theorems of SandboxSession and of Portfolio, for every feed, every      *)
(* parameter of the fill models, the sizer and the limits, sessions and    *)
(* windows of any length, and any legs and weights.                        *)
(*                                                                         *)
(* The invariants of a session build on each other.  Sound types the       *)
(* account, the closes and the peak, and holds the account long and        *)
(* solvent: a purchase happens only from a flat account, whose equity is   *)
(* its cash, so what the sizer allots is a fraction of the cash, and       *)
(* RoomForCosts makes the rest cover what the fill costs above the mark.   *)
(* Truth relates the stream, the account in memory and what the client was *)
(* told, stage by stage.  Backtests does so for the run of the backtest,   *)
(* which within a tick is a bar behind or a mark ahead.  Records holds the *)
(* fills to round trips, Guarded its marks to the peak and its trades to   *)
(* the limits, and Listing says what was true when the version was listed. *)
(*                                                                         *)
(* LegsBacktested says the same of every leg of a portfolio, whose bars    *)
(* keep pace, and Combined where its result comes from.  A weighted sum    *)
(* lies between the numbers it weighs, and when it falls one of them falls *)
(* as deep for its height: these lemmas on sums bound the portfolio by its *)
(* legs.                                                                   *)
(*                                                                         *)
(* What a fold makes of a sequence comes from FoldFacts, one instance for  *)
(* each folded operator.                                                   *)
(***************************************************************************)
EXTENDS SandboxSession, Portfolio, FiniteSetTheorems, TLAPS

Accounts == [cash: Int, position: Int]

\* The part of TypeOK that decisions depend on.
Typed ==
    /\ closes \in Seq(Closes) /\ closes # << >>
    /\ account \in Accounts
    /\ peak \in Int

LEMMA CloseTyped ==
    ASSUME Typed
    PROVE  Close \in Closes /\ Close \in Nat \ {0} /\ Close > Spread
<1>1. closes \in Seq(Closes) /\ Len(closes) \in 1..Len(closes)
  BY DEF Typed
<1>2. closes[Len(closes)] \in Closes
  BY <1>1
<1>3. Close \in Closes
  BY <1>2 DEF Close, Last
<1> QED
  BY <1>3, TradingAssumption

\* Prices and marks at a close of the feed.
LEMMA PricesTyped ==
    ASSUME NEW c \in Closes
    PROVE  /\ Mark(c) \in Nat \ {0}
           /\ FillPrice("buy", c) \in Nat /\ FillPrice("sell", c) \in Nat
           /\ FillPrice("sell", c) <= Mark(c)
           /\ Mark(c) <= FillPrice("buy", c)
<1>1. /\ c \in Nat \ {0} /\ c > Spread /\ Spread \in Nat
      /\ Scale \in Nat \ {0} /\ Slippage \in Nat /\ Slippage < Scale
  BY TradingAssumption
<1>2. \A x, y \in Nat : x * y \in Nat /\ (x > 0 /\ y > 0 => x * y > 0)
  OBVIOUS
<1>3. \A x, y, u, v \in Nat : x <= u /\ y <= v => x * y <= u * v
  OBVIOUS
<1>4. Mark(c) = c * Scale /\ Mark(c) \in Nat \ {0}
  BY <1>1, <1>2 DEF Mark
<1>5. /\ FillPrice("buy", c) = (c + Spread) * (Scale + Slippage)
      /\ FillPrice("sell", c) = (c - Spread) * (Scale - Slippage)
  BY DEF FillPrice, CrossSpread
<1>6. /\ c + Spread \in Nat /\ Scale + Slippage \in Nat
      /\ c - Spread \in Nat /\ Scale - Slippage \in Nat
      /\ c <= c + Spread /\ Scale <= Scale + Slippage
      /\ c - Spread <= c /\ Scale - Slippage <= Scale
  BY <1>1
<1>7. FillPrice("buy", c) \in Nat /\ FillPrice("sell", c) \in Nat
  BY <1>2, <1>5, <1>6
<1>8. c * Scale <= (c + Spread) * (Scale + Slippage)
  BY <1>1, <1>3, <1>6
<1>9. (c - Spread) * (Scale - Slippage) <= c * Scale
  BY <1>1, <1>3, <1>6
<1> QED
  BY <1>4, <1>5, <1>7, <1>8, <1>9

\* The equity of a typed account is an integer, and that of a flat account
\* is its cash.
LEMMA EquityTyped ==
    ASSUME NEW a \in Accounts, NEW c \in Closes
    PROVE  Equity(a, c) \in Int /\ (a.position = 0 => Equity(a, c) = a.cash)
<1>1. a.cash \in Int /\ a.position \in Int /\ Mark(c) \in Int
  BY PricesTyped DEF Accounts
<1>2. a.position * Mark(c) \in Int /\ 0 * Mark(c) = 0
  BY <1>1
<1> QED
  BY <1>1, <1>2 DEF Equity

\* What the sizer makes of a signal of a typed account: whole units, for an
\* entry no more than the fraction of the equity, for an exit the position.
LEMMA QuantityTyped ==
    ASSUME NEW a \in Accounts, NEW c \in Closes, NEW equity \in Int
    PROVE  /\ Quantity("buy", a, equity, c) \in Nat
           /\ equity > 0 => Quantity("buy", a, equity, c) * (100 * Mark(c))
                                <= SizingFraction * equity
           /\ equity <= 0 => Quantity("buy", a, equity, c) = 0
           /\ a.position >= 0 => Quantity("sell", a, equity, c) = a.position
           /\ Quantity("sell", a, equity, c) \in Nat
<1>1. Mark(c) \in Nat \ {0} /\ SizingFraction \in Nat /\ a.position \in Int
  BY PricesTyped, TradingAssumption DEF Accounts
<1>2. 100 * Mark(c) \in Nat \ {0}
  BY <1>1
<1>3. \A n \in Nat, d \in Nat \ {0} : n \div d \in Nat /\ (n \div d) * d <= n
  OBVIOUS
<1>4. /\ a.position >= 0 => Quantity("sell", a, equity, c) = a.position
      /\ Quantity("sell", a, equity, c) \in Nat
  BY <1>1 DEF Quantity, Abs
<1>5. equity <= 0 => Quantity("buy", a, equity, c) = 0
  BY DEF Quantity
<1>6. ASSUME equity > 0
      PROVE  /\ Quantity("buy", a, equity, c) \in Nat
             /\ Quantity("buy", a, equity, c) * (100 * Mark(c))
                    <= SizingFraction * equity
  <2>1. equity * SizingFraction \in Nat /\ ~(equity <= 0)
    BY <1>1, <1>6
  <2>2. Quantity("buy", a, equity, c) = (equity * SizingFraction) \div (100 * Mark(c))
    BY <2>1 DEF Quantity
  <2>3. SizingFraction * equity = equity * SizingFraction
    BY <1>1
  <2>4. /\ (equity * SizingFraction) \div (100 * Mark(c)) \in Nat
        /\ ((equity * SizingFraction) \div (100 * Mark(c))) * (100 * Mark(c))
              <= equity * SizingFraction
    BY <1>2, <1>3, <2>1
  <2> QED
    BY <2>2, <2>3, <2>4
<1> QED
  BY <1>4, <1>5, <1>6

-----------------------------------------------------------------------------
(* Fills. *)

\* A purchase, or a sale of what is held, keeps the account typed and costs
\* equity at the close it is made at.
LEMMA FillCosts ==
    ASSUME NEW a \in Accounts, NEW c \in Closes, NEW side \in Side,
           NEW qty \in Nat
    PROVE  LET after == AfterFill(a, Fill(side, qty, c))
           IN  /\ after \in Accounts
               /\ after.position = IF side = "buy" THEN a.position + qty
                                   ELSE a.position - qty
               /\ side = "buy" =>
                    after.cash = a.cash - (FillPrice("buy", c) * qty + Fee * qty)
               /\ side = "sell" =>
                    after.cash = a.cash + FillPrice("sell", c) * qty - Fee * qty
               /\ Equity(after, c) <= Equity(a, c)
<1> DEFINE after == AfterFill(a, Fill(side, qty, c))
           m == Mark(c)
           ask == FillPrice("buy", c)
           bid == FillPrice("sell", c)
           fees == Fee * qty
<1>1. /\ a.cash \in Int /\ a.position \in Int
      /\ m \in Nat /\ ask \in Nat /\ bid \in Nat /\ bid <= m /\ m <= ask
  BY PricesTyped DEF Accounts
<1>2. fees \in Nat
  BY TradingAssumption
<1>3. /\ Fill(side, qty, c).side = side /\ Fill(side, qty, c).quantity = qty
      /\ Fill(side, qty, c).price = FillPrice(side, c)
      /\ Fill(side, qty, c).fee = fees
  BY DEF Fill, Commission
<1>4. \A x, y, z \in Nat : x <= y => x * z <= y * z
  OBVIOUS
<1>5. \A x, y, z \in Int : (x + y) * z = x * z + y * z /\ (x - y) * z = x * z - y * z
  OBVIOUS
<1>6. CASE side = "buy"
  <2>1. after = [cash |-> a.cash - (ask * qty + fees), position |-> a.position + qty]
    BY <1>3, <1>6 DEF AfterFill
  <2>2. ask * qty \in Nat /\ m * qty <= ask * qty /\ m * qty = qty * m
    BY <1>1, <1>4
  <2>3. (a.position + qty) * m = a.position * m + qty * m
    BY <1>1, <1>5
  <2>4. a.position * m \in Int /\ qty * m \in Int
    BY <1>1
  <2> HIDE DEF after, m, ask, bid, fees
  <2>5. after.cash = a.cash - (ask * qty + fees) /\ after.position = a.position + qty
    BY <2>1
  <2>6. after.cash + (a.position + qty) * m <= a.cash + a.position * m
    BY <1>1, <1>2, <2>2, <2>3, <2>4, <2>5
  <2>7. after \in Accounts
    BY <1>1, <1>2, <2>1, <2>2 DEF Accounts
  <2>8. Equity(after, c) <= Equity(a, c)
    BY <2>5, <2>6 DEF Equity, m
  <2> QED
    BY <1>6, <2>5, <2>7, <2>8 DEF after, ask, fees
<1>7. CASE side = "sell"
  <2>1. after = [cash |-> a.cash + bid * qty - fees, position |-> a.position - qty]
    BY <1>3, <1>7 DEF AfterFill
  <2>2. bid * qty \in Nat /\ bid * qty <= m * qty /\ m * qty = qty * m
    BY <1>1, <1>4
  <2>3. (a.position - qty) * m = a.position * m - qty * m
    BY <1>1, <1>5
  <2>4. a.position * m \in Int /\ qty * m \in Int
    BY <1>1
  <2> HIDE DEF after, m, ask, bid, fees
  <2>5. after.cash = a.cash + bid * qty - fees /\ after.position = a.position - qty
    BY <2>1
  <2>6. after.cash + (a.position - qty) * m <= a.cash + a.position * m
    BY <1>1, <1>2, <2>2, <2>3, <2>4, <2>5
  <2>7. after \in Accounts
    BY <1>1, <1>2, <2>1, <2>2 DEF Accounts
  <2>8. Equity(after, c) <= Equity(a, c)
    BY <2>5, <2>6 DEF Equity, m
  <2> QED
    BY <1>7, <2>5, <2>7, <2>8 DEF after, bid, fees
<1> QED
  BY <1>6, <1>7 DEF Side

\* With room for costs, the entry the sizer makes of a flat account's cash
\* can be paid from that cash.
LEMMA EntryIsPaidFor ==
    ASSUME RoomForCosts,
           NEW a \in Accounts, a.position = 0, a.cash >= 0,
           NEW c \in Closes,
           NEW qty \in Nat, qty = Quantity("buy", a, a.cash, c)
    PROVE  FillPrice("buy", c) * qty + Fee * qty <= a.cash
<1> DEFINE m == 100 * Mark(c)
           cost == FillPrice("buy", c) + Fee
<1>1. /\ a.cash \in Nat /\ m \in Nat /\ cost \in Nat /\ Fee \in Nat
      /\ FillPrice("buy", c) \in Nat /\ SizingFraction \in Nat \ {0}
  BY PricesTyped, TradingAssumption DEF Accounts
<1>2. SizingFraction * cost <= m
  BY DEF RoomForCosts
<1>3. qty * m <= SizingFraction * a.cash
  BY QuantityTyped, <1>1
<1> HIDE DEF m
<1>4. FillPrice("buy", c) * qty + Fee * qty = cost * qty
  BY <1>1
<1> HIDE DEF cost
<1>5. \A x, y, z \in Nat : x <= y => x * z <= y * z
  OBVIOUS
<1>6. (SizingFraction * cost) * qty <= m * qty
  <2>1. SizingFraction * cost \in Nat
    BY <1>1
  <2> QED
    BY <1>1, <1>2, <1>5, <2>1
<1>7. SizingFraction * (cost * qty) <= SizingFraction * a.cash
  <2>1. (SizingFraction * cost) * qty = SizingFraction * (cost * qty) /\ m * qty = qty * m
    BY <1>1
  <2>2. SizingFraction * a.cash \in Nat /\ m * qty \in Nat /\ cost * qty \in Nat
    BY <1>1
  <2>3. SizingFraction * (cost * qty) \in Nat
    BY <1>1, <2>2
  <2> HIDE DEF m, cost
  <2> QED
    BY <1>3, <1>6, <2>1, <2>2, <2>3
<1>8. \A k \in Nat \ {0} : \A x, y \in Nat : k * x <= k * y => x <= y
  OBVIOUS
<1>9. cost * qty \in Nat
  BY <1>1
<1> QED
  BY <1>1, <1>4, <1>7, <1>8, <1>9

-----------------------------------------------------------------------------
(* The invariant. *)

Sound ==
    /\ Typed
    /\ account.position >= 0
    /\ RoomForCosts => account.cash >= 0

LEMMA SoundInit == Init => Sound
BY SessionAssumption, TradingAssumption
   DEF Init, Sound, Typed, Accounts, NewAccount

\* What an order that is submitted is like: it buys from a flat account or
\* sells all of a long one.
LEMMA SubmittedOrder ==
    ASSUME Sound, NEW side \in Side, Order(side), OrderQuantity(side) > 0
    PROVE  /\ Close \in Closes /\ account \in Accounts /\ EquityNow \in Int
           /\ OrderQuantity(side) \in Nat
           /\ side = "buy" => /\ account.position = 0
                              /\ EquityNow = account.cash
           /\ side = "sell" => OrderQuantity(side) = account.position
<1>1. Close \in Closes /\ account \in Accounts /\ account.position >= 0
  BY CloseTyped DEF Sound, Typed
<1>2. EquityNow \in Int /\ (account.position = 0 => EquityNow = account.cash)
  BY <1>1, EquityTyped DEF EquityNow
<1>3. /\ side = "buy" => account.position <= 0
      /\ side = "sell" => account.position > 0
  BY DEF Order, SmaCross, Side
<1>4. account.position \in Int
  BY <1>1 DEF Accounts
<1>5. CASE side = "buy"
  BY <1>1, <1>2, <1>3, <1>4, <1>5, QuantityTyped DEF OrderQuantity
<1>6. CASE side = "sell"
  BY <1>1, <1>2, <1>3, <1>4, <1>6, QuantityTyped DEF OrderQuantity
<1> QED
  BY <1>1, <1>2, <1>5, <1>6 DEF Side

\* A submitted order keeps the invariant and costs equity.
LEMMA SubmitKeepsSound ==
    ASSUME Sound, NEW side \in Side, Submit(side)
    PROVE  Sound' /\ Equity(account', Close) <= EquityNow
<1> DEFINE qty == OrderQuantity(side)
<1>1. /\ Order(side) /\ qty > 0
      /\ account' = AfterFill(account, Fill(side, qty, Close))
      /\ closes' = closes /\ peak' = peak
  BY DEF Submit
<1>2. /\ Close \in Closes /\ account \in Accounts /\ EquityNow \in Int
      /\ qty \in Nat
      /\ side = "buy" => account.position = 0 /\ EquityNow = account.cash
      /\ side = "sell" => qty = account.position
  BY <1>1, SubmittedOrder
<1> HIDE DEF qty
<1>3. /\ account' \in Accounts
      /\ account'.position = IF side = "buy" THEN account.position + qty
                             ELSE account.position - qty
      /\ side = "buy" =>
           account'.cash = account.cash
                             - (FillPrice("buy", Close) * qty + Fee * qty)
      /\ side = "sell" =>
           account'.cash = account.cash + FillPrice("sell", Close) * qty - Fee * qty
      /\ Equity(account', Close) <= Equity(account, Close)
  BY <1>1, <1>2, FillCosts
<1>4. Typed'
  BY <1>1, <1>3 DEF Sound, Typed
<1>5. account'.position >= 0
  BY <1>2, <1>3 DEF Sound, Accounts, Side
<1>6. ASSUME RoomForCosts
      PROVE  account'.cash >= 0
  <2>1. account.cash \in Int /\ account.cash >= 0
    BY <1>2, <1>6 DEF Sound, Accounts
  <2>2. CASE side = "buy"
    <3>1. qty = Quantity("buy", account, account.cash, Close)
      BY <1>2, <2>2 DEF qty, OrderQuantity
    <3>2. FillPrice("buy", Close) * qty + Fee * qty <= account.cash
      BY <1>2, <1>6, <2>1, <2>2, <3>1, EntryIsPaidFor
    <3>3. FillPrice("buy", Close) * qty \in Nat /\ Fee * qty \in Nat
      BY <1>2, PricesTyped, TradingAssumption
    <3> QED
      BY <1>3, <2>1, <2>2, <3>2, <3>3
  <2>3. CASE side = "sell"
    <3>1. Fee \in Nat /\ FillPrice("sell", Close) \in Nat
      BY <1>2, PricesTyped, TradingAssumption
    <3>2. Fee <= FillPrice("sell", Close)
      BY <1>2, <1>6 DEF RoomForCosts
    <3>3. \A x, y, z \in Nat : x <= y => x * z <= y * z /\ x * z \in Nat /\ y * z \in Nat
      OBVIOUS
    <3>4. /\ Fee * qty <= FillPrice("sell", Close) * qty
          /\ Fee * qty \in Nat /\ FillPrice("sell", Close) * qty \in Nat
      BY <1>2, <3>1, <3>2, <3>3
    <3> QED
      BY <1>3, <2>1, <2>3, <3>4
  <2> QED
    BY <2>2, <2>3 DEF Side
<1>7. Equity(account', Close) <= EquityNow
  BY <1>3 DEF EquityNow
<1>8. RoomForCosts' <=> RoomForCosts
  BY DEF RoomForCosts, FillPrice, CrossSpread, Mark
<1> QED
  BY <1>4, <1>5, <1>6, <1>7, <1>8 DEF Sound

LEMMA SoundStep == Sound /\ [Next]_vars => Sound'
<1> SUFFICES ASSUME Sound, [Next]_vars
             PROVE  Sound'
  OBVIOUS
<1>1. ASSUME closes' = closes, account' = account, peak' = peak
      PROVE  Sound'
  BY <1>1 DEF Sound, Typed, RoomForCosts, FillPrice, CrossSpread, Mark
<1>2. CASE StartEvaluation
  BY <1>1, <1>2 DEF StartEvaluation
<1>3. ASSUME NEW c \in Closes, NextBar(c)
      PROVE  Sound'
  <2>1. closes' = Append(closes, c) /\ account' = account
        /\ peak' = Larger(peak, Equity(account, c))
    BY <1>3 DEF NextBar
  <2>2. closes' \in Seq(Closes) /\ closes' # << >>
    BY <2>1 DEF Sound, Typed
  <2>3. peak' \in Int
    BY <2>1, EquityTyped DEF Sound, Typed, Larger
  <2> QED
    BY <2>1, <2>2, <2>3
       DEF Sound, Typed, RoomForCosts, FillPrice, CrossSpread, Mark
<1>4. CASE NoSignal
  BY <1>1, <1>4 DEF NoSignal
<1>5. CASE BlockedByGuardrail
  BY <1>1, <1>5 DEF BlockedByGuardrail, Block
<1>6. ASSUME NEW side \in Side, NothingToOrder(side)
      PROVE  Sound'
  BY <1>1, <1>6 DEF NothingToOrder
<1>7. ASSUME NEW side \in Side, BlockedByRisk(side)
      PROVE  Sound'
  BY <1>1, <1>7 DEF BlockedByRisk, Block
<1>8. ASSUME NEW side \in Side, Submit(side)
      PROVE  Sound'
  BY <1>8, SubmitKeepsSound
<1>9. CASE MarkToMarket
  BY <1>1, <1>9 DEF MarkToMarket
<1>10. CASE CommitTick
  BY <1>1, <1>10 DEF CommitTick
<1>11. CASE Qualify
  BY <1>1, <1>11 DEF Qualify
<1>12. CASE CommitEnd
  BY <1>1, <1>12 DEF CommitEnd
<1>13. CASE Abort
  BY <1>1, <1>13 DEF Abort
<1>14. CASE UNCHANGED vars
  BY <1>1, <1>14 DEF vars
<1> QED
  BY <1>2, <1>3, <1>4, <1>5, <1>6, <1>7, <1>8, <1>9, <1>10, <1>11, <1>12,
     <1>13, <1>14 DEF Next

THEOREM SoundAlways == Spec => []Sound
BY SoundInit, SoundStep, PTL DEF Spec

-----------------------------------------------------------------------------
(* The event stream. *)

FillFold == INSTANCE FoldFacts WITH Op <- KeepFill
MarkFold == INSTANCE FoldFacts WITH Op <- KeepMark
ReplayFold == INSTANCE FoldFacts WITH Op <- Replay

Events == FillRecords \cup MarkRecords

LEMMA EventKinds ==
    ASSUME NEW e \in Events
    PROVE  \/ e \in FillRecords /\ e.type = "fill"
           \/ e \in MarkRecords /\ e.type = "mark"
BY DEF Events, FillRecords, MarkRecords

\* What one more event does to the fills, the marks and the account.
LEMMA OneMoreEvent ==
    ASSUME NEW T, NEW s \in Seq(T), NEW e \in T
    PROVE  /\ e.type = "fill" => /\ Fills(Append(s, e)) = Append(Fills(s), e)
                                 /\ Rebuilt(Append(s, e)) = AfterFill(Rebuilt(s), e)
           /\ e.type # "fill" => /\ Fills(Append(s, e)) = Fills(s)
                                 /\ Rebuilt(Append(s, e)) = Rebuilt(s)
           /\ e.type = "mark" => Marks(Append(s, e)) = Append(Marks(s), e)
           /\ e.type # "mark" => Marks(Append(s, e)) = Marks(s)
<1>1. \A q : /\ Fills(q) = FillFold!Fold(<< >>, q)
             /\ Marks(q) = MarkFold!Fold(<< >>, q)
             /\ Rebuilt(q) = ReplayFold!Fold(NewAccount, q)
  <2>1. \A q : Fills(q) = FillFold!Fold(<< >>, q)
    BY DEF Fills, FillFold!Fold, FoldLeft,
           FillFold!MapThenFoldSet, MapThenFoldSet, FillFold!Greatest, Max
  <2>2. \A q : Marks(q) = MarkFold!Fold(<< >>, q)
    BY DEF Marks, MarkFold!Fold, FoldLeft,
           MarkFold!MapThenFoldSet, MapThenFoldSet, MarkFold!Greatest, Max
  <2>3. \A q : Rebuilt(q) = ReplayFold!Fold(NewAccount, q)
    BY DEF Rebuilt, ReplayFold!Fold, FoldLeft,
           ReplayFold!MapThenFoldSet, MapThenFoldSet, ReplayFold!Greatest, Max
  <2> QED
    BY <2>1, <2>2, <2>3
<1>2. Fills(Append(s, e)) = KeepFill(Fills(s), e)
  BY <1>1, FillFold!FoldAppend
<1>3. Marks(Append(s, e)) = KeepMark(Marks(s), e)
  BY <1>1, MarkFold!FoldAppend
<1>4. Rebuilt(Append(s, e)) = Replay(Rebuilt(s), e)
  BY <1>1, ReplayFold!FoldAppend
<1> QED
  BY <1>2, <1>3, <1>4 DEF KeepFill, KeepMark, Replay

LEMMA NoEvents ==
    Fills(<< >>) = << >> /\ Marks(<< >>) = << >> /\ Rebuilt(<< >>) = NewAccount
<1>1. Fills(<< >>) = FillFold!Fold(<< >>, << >>)
  BY DEF Fills, FillFold!Fold, FoldLeft,
         FillFold!MapThenFoldSet, MapThenFoldSet, FillFold!Greatest, Max
<1>2. Marks(<< >>) = MarkFold!Fold(<< >>, << >>)
  BY DEF Marks, MarkFold!Fold, FoldLeft,
         MarkFold!MapThenFoldSet, MapThenFoldSet, MarkFold!Greatest, Max
<1>3. Rebuilt(<< >>) = ReplayFold!Fold(NewAccount, << >>)
  BY DEF Rebuilt, ReplayFold!Fold, FoldLeft,
         ReplayFold!MapThenFoldSet, MapThenFoldSet, ReplayFold!Greatest, Max
<1> QED
  BY <1>1, <1>2, <1>3, FillFold!FoldEmpty, MarkFold!FoldEmpty, ReplayFold!FoldEmpty

LEMMA EventsSplit ==
    ASSUME NEW s \in Seq(Events)
    PROVE  Fills(s) \in Seq(FillRecords) /\ Marks(s) \in Seq(MarkRecords)
<1> DEFINE S == {q \in Seq(Events) : /\ Fills(q) \in Seq(FillRecords)
                                     /\ Marks(q) \in Seq(MarkRecords)}
<1>1. << >> \in S
  <2>1. /\ << >> \in Seq(Events) /\ << >> \in Seq(FillRecords)
        /\ << >> \in Seq(MarkRecords)
    OBVIOUS
  <2> QED
    BY <2>1, NoEvents
<1>2. ASSUME NEW q \in S, NEW e \in Events
      PROVE  Append(q, e) \in S
  <2>1. /\ q \in Seq(Events) /\ Append(q, e) \in Seq(Events)
        /\ Fills(q) \in Seq(FillRecords) /\ Marks(q) \in Seq(MarkRecords)
    BY <1>2
  <2>2. /\ e \in FillRecords => Append(Fills(q), e) \in Seq(FillRecords)
        /\ e \in MarkRecords => Append(Marks(q), e) \in Seq(MarkRecords)
    BY <2>1
  <2>3. CASE e \in FillRecords /\ e.type = "fill"
    <3>1. Fills(Append(q, e)) = Append(Fills(q), e) /\ Marks(Append(q, e)) = Marks(q)
      BY <2>1, <2>3, OneMoreEvent
    <3> QED
      BY <2>1, <2>2, <2>3, <3>1
  <2>4. CASE e \in MarkRecords /\ e.type = "mark"
    <3>1. Fills(Append(q, e)) = Fills(q) /\ Marks(Append(q, e)) = Append(Marks(q), e)
      BY <2>1, <2>4, OneMoreEvent
    <3> QED
      BY <2>1, <2>2, <2>4, <3>1
  <2> QED
    BY <2>3, <2>4, EventKinds
<1> HIDE DEF S
<1>3. Seq(Events) \subseteq S
  BY <1>1, <1>2, FillFold!SequenceInduction
<1> QED
  BY <1>3 DEF S

-----------------------------------------------------------------------------
(* The types of the rows. *)

\* What a submitted order leaves on the stream is a fill.
LEMMA SubmittedFill ==
    ASSUME Sound, NEW side \in Side, Submit(side)
    PROVE  /\ Fill(side, OrderQuantity(side), Close) \in FillRecords
           /\ Fill(side, OrderQuantity(side), Close).type = "fill"
<1> DEFINE qty == OrderQuantity(side)
<1>1. Close \in Closes /\ qty \in Nat \ {0}
  <2>1. Order(side) /\ qty > 0
    BY DEF Submit
  <2>2. Close \in Closes /\ qty \in Nat
    BY <2>1, SubmittedOrder
  <2> QED
    BY <2>1, <2>2
<1> HIDE DEF qty
<1>2. FillPrice(side, Close) \in Nat
  BY <1>1, PricesTyped DEF Side
<1>3. Commission(qty) \in Nat
  BY <1>1, TradingAssumption DEF Commission
<1>4. Fill(side, qty, Close) \in FillRecords
  BY <1>1, <1>2, <1>3 DEF Fill, FillRecords
<1> QED
  BY <1>4 DEF qty, FillRecords

LEMMA TypeInit == Init => TypeOK
<1> SUFFICES ASSUME Init
             PROVE  TypeOK
  OBVIOUS
<1>1. NoRows \in Rows
  BY DEF NoRows, Rows
<1>2. << >> \in Seq(FillRecords)
  OBVIOUS
<1> QED
  BY <1>1, <1>2, SessionAssumption, TradingAssumption
     DEF Init, TypeOK, NewAccount, Money

\* Rows stay rows when one of their columns is replaced by a typed one.
LEMMA RowsKept ==
    ASSUME NEW r \in Rows
    PROVE  /\ \A e \in Events :
                [r EXCEPT !.events = Append(@, e)] \in Rows
           /\ \A b \in Blocks :
                [r EXCEPT !.blocked = Append(@, b)] \in Rows
           /\ \A v \in {"evaluation", "listed", "delisted"} :
                [r EXCEPT !.version = v] \in Rows
<1>1. /\ r.events \in Seq(Events) /\ r.blocked \in Seq(Blocks)
      /\ r.version \in {"none", "evaluation", "listed", "delisted"}
      /\ r = [events |-> r.events, blocked |-> r.blocked, version |-> r.version]
  BY DEF Rows, Events
<1>2. ASSUME NEW e \in Events
      PROVE  [r EXCEPT !.events = Append(@, e)] \in Rows
  <2>1. Append(r.events, e) \in Seq(Events)
    BY <1>1
  <2>2. \A x : [r EXCEPT !.events = x]
                = [events |-> x, blocked |-> r.blocked, version |-> r.version]
    BY ONLY <1>1
  <2> QED
    BY <1>1, <2>1, <2>2 DEF Rows, Events
<1>3. ASSUME NEW b \in Blocks
      PROVE  [r EXCEPT !.blocked = Append(@, b)] \in Rows
  <2>1. Append(r.blocked, b) \in Seq(Blocks)
    BY <1>1
  <2>2. \A x : [r EXCEPT !.blocked = x]
                = [events |-> r.events, blocked |-> x, version |-> r.version]
    BY ONLY <1>1
  <2>3. [r EXCEPT !.blocked = Append(@, b)]
          = [events |-> r.events, blocked |-> Append(r.blocked, b),
             version |-> r.version]
    BY <2>2
  <2> QED
    BY ONLY <1>1, <2>1, <2>3 DEF Rows
<1>4. ASSUME NEW v \in {"evaluation", "listed", "delisted"}
      PROVE  [r EXCEPT !.version = v] \in Rows
  <2>1. [r EXCEPT !.version = v]
          = [events |-> r.events, blocked |-> r.blocked, version |-> v]
    BY <1>1
  <2> QED
    BY <1>1, <2>1 DEF Rows, Events
<1> QED
  BY <1>2, <1>3, <1>4

LEMMA BlockKeepsType ==
    ASSUME TypeOK, NEW kind \in {"guardrail", "risk"}, NEW side \in Side,
           Block(kind, side)
    PROVE  stage' = "mark" /\ view' \in Rows /\ saved' \in Rows
           /\ told' \in Seq(FillRecords)
<1>1. [kind |-> kind, action |-> side] \in Blocks
  BY DEF Blocks
<1>2. view \in Rows /\ saved \in Rows /\ told \in Seq(FillRecords)
  BY DEF TypeOK
<1> QED
  BY <1>1, <1>2, RowsKept DEF Block

LEMMA TypeStep ==
    ASSUME Sound, Sound', TypeOK, [Next]_vars
    PROVE  TypeOK'
<1>0. /\ view \in Rows /\ saved \in Rows /\ told \in Seq(FillRecords)
      /\ stage \in {"new", "tick", "trade", "mark", "commit", "end", "over", "gone"}
  BY DEF TypeOK
<1> SUFFICES /\ stage' \in {"new", "tick", "trade", "mark", "commit", "end",
                            "over", "gone"}
             /\ view' \in Rows /\ saved' \in Rows
             /\ told' \in Seq(FillRecords)
  BY DEF TypeOK, Sound, Typed, Accounts, Money
<1>1. CASE StartEvaluation
  BY <1>0, <1>1, RowsKept DEF StartEvaluation
<1>2. CASE \/ NoSignal \/ CommitTick \/ CommitEnd \/ Abort \/ UNCHANGED vars
           \/ \E c \in Closes : NextBar(c)
           \/ \E side \in Side : NothingToOrder(side)
  BY <1>0, <1>2 DEF NoSignal, CommitTick, CommitEnd, Abort, NextBar,
                    NothingToOrder, vars
<1>3. CASE BlockedByGuardrail
  <2>1. PICK side \in Side : Block("guardrail", side)
    BY <1>3 DEF BlockedByGuardrail
  <2>2. PICK kind \in {"guardrail", "risk"} : Block(kind, side)
    BY <2>1
  <2> QED
    BY <2>2, BlockKeepsType
<1>4. ASSUME NEW side \in Side, BlockedByRisk(side)
      PROVE  /\ stage' = "mark" /\ view' \in Rows /\ saved' \in Rows
             /\ told' \in Seq(FillRecords)
  <2>1. PICK kind \in {"guardrail", "risk"} : Block(kind, side)
    BY <1>4 DEF BlockedByRisk
  <2> QED
    BY <2>1, BlockKeepsType
<1>5. ASSUME NEW side \in Side, Submit(side)
      PROVE  /\ stage' = "mark" /\ view' \in Rows /\ saved' \in Rows
             /\ told' \in Seq(FillRecords)
  <2> DEFINE fill == Fill(side, OrderQuantity(side), Close)
  <2>1. /\ stage' = "mark" /\ saved' = saved
        /\ view' = [view EXCEPT !.events = Append(@, fill)]
        /\ told' = Append(told, fill)
    BY <1>5 DEF Submit
  <2>2. fill \in FillRecords
    BY <1>5, SubmittedFill
  <2> HIDE DEF fill
  <2>3. told' \in Seq(FillRecords)
    BY <1>0, <2>1, <2>2
  <2>4. fill \in Events
    BY <2>2 DEF Events
  <2> QED
    BY <1>0, <2>1, <2>3, <2>4, RowsKept
<1>6. CASE MarkToMarket
  <2> DEFINE mark == [type |-> "mark", equity |-> EquityNow]
  <2>1. /\ stage' = "commit" /\ saved' = saved /\ told' = told
        /\ view' = [view EXCEPT !.events = Append(@, mark)]
    BY <1>6 DEF MarkToMarket
  <2>2. mark \in Events
    <3>1. EquityNow \in Int
      BY CloseTyped, EquityTyped DEF Sound, Typed, EquityNow
    <3> QED
      BY <3>1 DEF Events, MarkRecords, Money
  <2> HIDE DEF mark
  <2> QED
    BY <1>0, <2>1, <2>2, RowsKept
<1>7. CASE Qualify
  <2>1. PICK v \in {"listed", "delisted"} :
            /\ stage' = "end" /\ saved' = saved /\ told' = told
            /\ view' = [view EXCEPT !.version = v]
    BY <1>7 DEF Qualify
  <2> QED
    BY <1>0, <2>1, RowsKept
<1> QED
  BY <1>1, <1>2, <1>3, <1>4, <1>5, <1>6, <1>7 DEF Next

-----------------------------------------------------------------------------
(* The marks. *)

\* The mark at index i is the equity of the account replayed up to it, at
\* the close of its bar.
Bar(events, i) == Len(History) + Len(Marks(SubSeq(events, 1, i)))

MarkTells(events, cs, i) ==
    /\ Bar(events, i) \in 1..Len(cs)
    /\ events[i].equity = Equity(Rebuilt(SubSeq(events, 1, i)), cs[Bar(events, i)])

MarksTell(events, cs) ==
    \A i \in DOMAIN events : events[i].type = "mark" => MarkTells(events, cs, i)

\* More bars change no mark.
LEMMA MarksTellOnMoreBars ==
    ASSUME NEW s \in Seq(Events), NEW cs \in Seq(Closes), NEW c \in Closes,
           MarksTell(s, cs)
    PROVE  MarksTell(s, Append(cs, c))
<1> DEFINE ds == Append(cs, c)
<1>1. /\ Len(cs) \in Nat /\ Len(ds) = Len(cs) + 1
      /\ \A k \in 1..Len(cs) : ds[k] = cs[k]
  OBVIOUS
<1> HIDE DEF ds
<1> SUFFICES ASSUME NEW i \in DOMAIN s, s[i].type = "mark"
             PROVE  MarkTells(s, ds, i)
  BY DEF MarksTell, ds
<1>2. MarkTells(s, cs, i)
  BY DEF MarksTell
<1>3. Bar(s, i) \in 1..Len(cs) /\ Bar(s, i) \in 1..Len(ds)
  BY <1>1, <1>2 DEF MarkTells
<1> QED
  BY <1>1, <1>2, <1>3 DEF MarkTells

\* One more event changes no mark before it.
LEMMA EarlierMarksTell ==
    ASSUME NEW s \in Seq(Events), NEW e \in Events, NEW cs,
           MarksTell(s, cs), e.type = "mark" => MarkTells(Append(s, e), cs, Len(s) + 1)
    PROVE  MarksTell(Append(s, e), cs)
<1> DEFINE t == Append(s, e)
<1>1. /\ DOMAIN t = 1..(Len(s) + 1) /\ DOMAIN s = 1..Len(s) /\ Len(s) \in Nat
      /\ t[Len(s) + 1] = e /\ \A i \in 1..Len(s) : t[i] = s[i]
  OBVIOUS
<1>2. \A i \in 1..Len(s) : SubSeq(t, 1, i) = SubSeq(s, 1, i)
  OBVIOUS
<1> HIDE DEF t
<1> SUFFICES ASSUME NEW i \in DOMAIN t, t[i].type = "mark"
             PROVE  MarkTells(t, cs, i)
  BY DEF MarksTell, t
<1>3. CASE i = Len(s) + 1
  BY <1>1, <1>3 DEF t
<1>4. CASE i \in 1..Len(s)
  <2>1. MarkTells(s, cs, i)
    BY <1>1, <1>4 DEF MarksTell
  <2> QED
    BY <1>1, <1>2, <1>4, <2>1 DEF MarkTells, Bar
<1> QED
  BY <1>1, <1>3, <1>4

\* The mark of a tick, on the last bar.
LEMMA NewMarkTells ==
    ASSUME NEW s \in Seq(Events), NEW m \in MarkRecords, NEW cs \in Seq(Closes),
           MarksTell(s, cs),
           Len(cs) = Len(History) + Len(Marks(s)) + 1,
           m.equity = Equity(Rebuilt(s), Last(cs))
    PROVE  MarksTell(Append(s, m), cs)
<1> DEFINE t == Append(s, m)
<1>1. m \in Events /\ m.type = "mark"
  BY DEF Events, MarkRecords
<1>2. Marks(t) = Append(Marks(s), m) /\ Rebuilt(t) = Rebuilt(s)
  BY <1>1, OneMoreEvent
<1>3. Marks(s) \in Seq(MarkRecords) /\ Len(History) \in Nat
  BY EventsSplit, SessionAssumption
<1>4. Len(Marks(t)) = Len(Marks(s)) + 1 /\ Len(Marks(s)) \in Nat
  BY <1>2, <1>3
<1>5. SubSeq(t, 1, Len(s) + 1) = t /\ t[Len(s) + 1] = m
  OBVIOUS
<1> HIDE DEF t
<1>6. Bar(t, Len(s) + 1) = Len(cs) /\ Len(cs) \in 1..Len(cs)
  <2>1. Bar(t, Len(s) + 1) = Len(History) + Len(Marks(t))
    BY <1>5 DEF Bar
  <2>2. Len(cs) = Len(History) + (Len(Marks(s)) + 1) /\ Len(cs) \in Nat \ {0}
    BY <1>3, <1>4
  <2> QED
    BY <1>4, <2>1, <2>2
<1>7. MarkTells(t, cs, Len(s) + 1)
  BY <1>2, <1>5, <1>6 DEF MarkTells, Last
<1> QED
  BY <1>1, <1>7, EarlierMarksTell DEF t

-----------------------------------------------------------------------------
(* The rows, the account in memory and what the client was told. *)

\* The stream has the marks of the ticks that are past, and the client the
\* fills on it.
Replays ==
    /\ Rebuilt(view.events) = account
    /\ told = Fills(view.events)
    /\ Tick = Len(Marks(view.events)) + (IF stage \in {"trade", "mark"} THEN 1 ELSE 0)

\* What a tick has not committed is a fill, a mark, or both in this order.
Uncommitted ==
    /\ stage \notin {"mark", "commit"} => view.events = saved.events
    /\ stage = "mark" =>
        \/ view.events = saved.events
        \/ \E f \in FillRecords : view.events = Append(saved.events, f)
    /\ stage = "commit" => \E m \in MarkRecords :
        \/ view.events = Append(saved.events, m)
        \/ \E f \in FillRecords :
            view.events = Append(Append(saved.events, f), m)

\* The client has been told of the committed fills and at most one more.
ToldOf(fills) == told = fills \/ \E f \in FillRecords : told = Append(fills, f)

Truth ==
    /\ TypeOK
    /\ stage = "new" => closes = History /\ view = NoRows
    /\ stage # "gone" => Replays
    /\ Uncommitted
    /\ saved.events # << >> => Last(saved.events).type = "mark"
    /\ ToldOf(Fills(saved.events))
    /\ MarksTell(view.events, closes) /\ MarksTell(saved.events, closes)

LEMMA TruthTypes ==
    ASSUME TypeOK
    PROVE  /\ view.events \in Seq(Events) /\ saved.events \in Seq(Events)
           /\ told \in Seq(FillRecords) /\ closes \in Seq(Closes)
           /\ Fills(saved.events) \in Seq(FillRecords)
           /\ Fills(view.events) \in Seq(FillRecords)
           /\ Len(Marks(view.events)) \in Nat /\ Len(closes) \in Nat
           /\ Len(History) \in Nat
<1>1. /\ view.events \in Seq(Events) /\ saved.events \in Seq(Events)
      /\ told \in Seq(FillRecords) /\ closes \in Seq(Closes)
  BY DEF TypeOK, Rows, Events
<1>2. Marks(view.events) \in Seq(MarkRecords)
  BY <1>1, EventsSplit
<1> QED
  BY <1>1, <1>2, EventsSplit, SessionAssumption

LEMMA TruthInit == Init => Truth
<1> SUFFICES ASSUME Init
             PROVE  Truth
  OBVIOUS
<1>1. view.events = << >> /\ saved.events = << >> /\ told = << >>
  BY DEF Init, NoRows
<1>2. Replays
  BY <1>1, NoEvents, SessionAssumption DEF Replays, Init, Tick
<1>3. Uncommitted /\ ToldOf(Fills(saved.events))
  BY <1>1, NoEvents DEF Uncommitted, ToldOf, Init
<1>4. MarksTell(view.events, closes) /\ MarksTell(saved.events, closes)
  <2>1. \A s, cs : DOMAIN s = {} => MarksTell(s, cs)
    BY DEF MarksTell
  <2>2. \A s : s = << >> => DOMAIN s = {}
    OBVIOUS
  <2> QED
    BY <1>1, <2>1, <2>2
<1> QED
  BY <1>1, <1>2, <1>3, <1>4, TypeInit DEF Truth, Init

\* Steps that leave the events, the account and the closes alone, between
\* awaits at which everything is committed.
LEMMA QuietStepTells ==
    ASSUME Truth, TypeOK', view'.events = view.events, saved'.events = view.events,
           UNCHANGED <<closes, account, told>>,
           stage # "gone", stage' \notin {"new", "commit", "gone"},
           stage' \in {"trade", "mark"} <=> stage \in {"trade", "mark"},
           view.events # << >> => Last(view.events).type = "mark"
    PROVE  Truth'
<1>1. Replays'
  BY DEF Truth, Replays, Tick
<1>2. Uncommitted'
  BY DEF Uncommitted
<1>3. ToldOf(Fills(saved.events))'
  BY DEF Truth, Replays, ToldOf
<1>4. MarksTell(view.events, closes)' /\ MarksTell(saved.events, closes)'
  BY DEF Truth
<1> QED
  BY <1>1, <1>2, <1>3, <1>4 DEF Truth

LEMMA NextBarTells ==
    ASSUME Truth, TypeOK', NEW c \in Closes, NextBar(c)
    PROVE  Truth'
<1>1. /\ stage = "tick" /\ stage' = "trade" /\ closes' = Append(closes, c)
      /\ UNCHANGED <<account, view, saved, told>>
  BY DEF NextBar
<1>2. Tick' = Tick + 1
  <2>1. closes \in Seq(Closes) /\ Len(History) \in Nat
    BY TruthTypes DEF Truth
  <2>2. Len(Append(closes, c)) = Len(closes) + 1 /\ Len(closes) \in Nat
    BY <2>1
  <2> QED
    BY <1>1, <2>1, <2>2 DEF Tick
<1>3. Replays'
  BY <1>1, <1>2 DEF Truth, Replays
<1>4. Uncommitted' /\ ToldOf(Fills(saved.events))'
  BY <1>1 DEF Truth, Uncommitted, ToldOf
<1>5. MarksTell(view.events, closes)' /\ MarksTell(saved.events, closes)'
  <2>1. /\ view.events \in Seq(Events) /\ saved.events \in Seq(Events)
        /\ closes \in Seq(Closes)
    BY TruthTypes DEF Truth
  <2>2. /\ MarksTell(view.events, Append(closes, c))
        /\ MarksTell(saved.events, Append(closes, c))
    BY <2>1, MarksTellOnMoreBars DEF Truth
  <2> QED
    BY <1>1, <2>2
<1> QED
  BY <1>1, <1>3, <1>4, <1>5 DEF Truth

LEMMA SubmitTells ==
    ASSUME Sound, Truth, TypeOK', NEW side \in Side, Submit(side)
    PROVE  Truth'
<1>1. PICK f : /\ f = Fill(side, OrderQuantity(side), Close)
               /\ f \in FillRecords /\ f.type = "fill"
  BY SubmittedFill
<1>2. /\ stage = "trade" /\ stage' = "mark" /\ account' = AfterFill(account, f)
      /\ view' = [view EXCEPT !.events = Append(@, f)] /\ told' = Append(told, f)
      /\ UNCHANGED <<closes, saved>>
  BY <1>1 DEF Submit, Order
<1>3. /\ view \in Rows /\ view.events \in Seq(Events) /\ saved.events \in Seq(Events)
      /\ f \in Events /\ view.events = saved.events
  BY <1>1, <1>2, TruthTypes DEF Truth, TypeOK, Events, Uncommitted
<1>4. view'.events = Append(view.events, f)
  BY <1>2, <1>3 DEF Rows
<1>5. /\ Fills(view'.events) = Append(Fills(view.events), f)
      /\ Rebuilt(view'.events) = AfterFill(Rebuilt(view.events), f)
      /\ Marks(view'.events) = Marks(view.events)
  BY <1>1, <1>3, <1>4, OneMoreEvent
<1>6. Replays'
  BY <1>2, <1>5 DEF Truth, Replays, Tick
<1>7. Uncommitted'
  BY <1>1, <1>2, <1>3, <1>4 DEF Uncommitted
<1>8. ToldOf(Fills(saved.events))'
  BY <1>1, <1>2, <1>3 DEF Truth, Replays, ToldOf
<1>9. MarksTell(view.events, closes)' /\ MarksTell(saved.events, closes)'
  <2>1. MarksTell(Append(view.events, f), closes)
    BY <1>1, <1>3, EarlierMarksTell DEF Truth
  <2> QED
    BY <1>2, <1>4, <2>1 DEF Truth
<1> QED
  BY <1>2, <1>6, <1>7, <1>8, <1>9 DEF Truth

LEMMA MarkTellsTruth ==
    ASSUME Sound, Truth, TypeOK', MarkToMarket
    PROVE  Truth'
<1>1. PICK m : /\ m = [type |-> "mark", equity |-> EquityNow]
               /\ m \in MarkRecords /\ m.type = "mark" /\ m.equity = EquityNow
  <2>1. EquityNow \in Int
    BY CloseTyped, EquityTyped DEF Sound, Typed, EquityNow
  <2> DEFINE mark == [type |-> "mark", equity |-> EquityNow]
  <2>2. mark \in MarkRecords /\ mark.type = "mark" /\ mark.equity = EquityNow
    BY <2>1 DEF MarkRecords, Money
  <2> QED
    BY <2>2
<1>2. /\ stage = "mark" /\ stage' = "commit"
      /\ view' = [view EXCEPT !.events = Append(@, m)]
      /\ UNCHANGED <<closes, account, saved, told>>
  BY <1>1 DEF MarkToMarket
<1>3. /\ view \in Rows /\ view.events \in Seq(Events) /\ saved.events \in Seq(Events)
      /\ closes \in Seq(Closes) /\ m \in Events
  BY <1>1, TruthTypes DEF Truth, TypeOK, Events
<1>4. view'.events = Append(view.events, m)
  BY <1>2, <1>3 DEF Rows
<1>5. /\ Fills(view'.events) = Fills(view.events)
      /\ Rebuilt(view'.events) = Rebuilt(view.events)
      /\ Marks(view'.events) = Append(Marks(view.events), m)
  BY <1>1, <1>3, <1>4, OneMoreEvent
<1>6. /\ Tick = Len(Marks(view.events)) + 1 /\ Rebuilt(view.events) = account
      /\ told = Fills(view.events)
  BY <1>2 DEF Truth, Replays
<1>7. Replays'
  <2>1. Len(Append(Marks(view.events), m)) = Len(Marks(view.events)) + 1
    BY <1>1, <1>3, EventsSplit
  <2>2. Len(Append(Marks(view.events), m)) = Tick
    BY <1>6, <2>1
  <2>3. Tick' = Tick /\ Tick \in Int
    BY <1>2, TruthTypes DEF Tick, Truth
  <2> QED
    BY <1>2, <1>5, <1>6, <2>2, <2>3 DEF Replays
<1>8. Uncommitted'
  BY <1>1, <1>2, <1>4 DEF Truth, Uncommitted
<1>9. ToldOf(Fills(saved.events))'
  BY <1>2 DEF Truth, ToldOf
<1>10. MarksTell(view.events, closes)' /\ MarksTell(saved.events, closes)'
  <2>1. Len(closes) = Len(History) + Len(Marks(view.events)) + 1
    BY <1>6, TruthTypes DEF Tick, Truth
  <2>2. m.equity = Equity(Rebuilt(view.events), Last(closes))
    BY <1>1, <1>6 DEF EquityNow, Close
  <2>3. MarksTell(Append(view.events, m), closes)
    BY <1>1, <1>3, <2>1, <2>2, NewMarkTells DEF Truth
  <2> QED
    BY <1>2, <1>4, <2>3 DEF Truth
<1> QED
  BY <1>2, <1>7, <1>8, <1>9, <1>10 DEF Truth

LEMMA TruthStep ==
    ASSUME Sound, Sound', Truth, [Next]_vars
    PROVE  Truth'
<1>0. TypeOK' /\ view \in Rows
  BY TypeStep DEF Truth, TypeOK
<1>1. CASE StartEvaluation
  <2>1. /\ stage = "new" /\ stage' = "tick" /\ UNCHANGED <<closes, account, saved, told>>
        /\ view' = [view EXCEPT !.version = "evaluation"]
    BY <1>1 DEF StartEvaluation
  <2>2. view'.events = view.events /\ view.events = saved.events
    BY <1>0, <2>1 DEF Rows, Truth, Uncommitted
  <2> QED
    BY <1>0, <2>1, <2>2, QuietStepTells DEF Truth
<1>2. ASSUME NEW c \in Closes, NextBar(c)
      PROVE  Truth'
  BY <1>0, <1>2, NextBarTells
<1>3. ASSUME stage = "trade", stage' = "mark", view'.events = view.events,
             UNCHANGED <<closes, account, saved, told>>
      PROVE  Truth'
  <2>1. view.events = saved.events
    BY <1>3 DEF Truth, Uncommitted
  <2> QED
    BY <1>0, <1>3, <2>1, QuietStepTells DEF Truth
<1>4. CASE NoSignal
  BY <1>3, <1>4 DEF NoSignal
<1>5. ASSUME NEW kind, NEW side, stage = "trade", Block(kind, side)
      PROVE  Truth'
  <2>1. /\ stage' = "mark" /\ UNCHANGED <<closes, account, saved, told>>
        /\ view' = [view EXCEPT !.blocked = Append(@, [kind |-> kind, action |-> side])]
    BY <1>5 DEF Block
  <2>2. view'.events = view.events
    BY <1>0, <2>1 DEF Rows
  <2> QED
    BY <1>3, <1>5, <2>1, <2>2
<1>6. CASE BlockedByGuardrail
  <2>1. \E kind, side : stage = "trade" /\ Block(kind, side)
    BY <1>6 DEF BlockedByGuardrail
  <2> QED
    BY <1>5, <2>1
<1>7. ASSUME NEW side \in Side, BlockedByRisk(side)
      PROVE  Truth'
  <2>1. \E kind : stage = "trade" /\ Block(kind, side)
    BY <1>7 DEF BlockedByRisk, Order
  <2> QED
    BY <1>5, <2>1
<1>8. ASSUME NEW side \in Side, NothingToOrder(side)
      PROVE  Truth'
  BY <1>3, <1>8 DEF NothingToOrder, Order
<1>9. ASSUME NEW side \in Side, Submit(side)
      PROVE  Truth'
  BY <1>0, <1>9, SubmitTells
<1>10. CASE MarkToMarket
  BY <1>0, <1>10, MarkTellsTruth
<1>11. CASE CommitTick
  <2>1. /\ stage = "commit" /\ stage' = "tick" /\ saved' = view
        /\ UNCHANGED <<closes, account, view, told>>
    BY <1>11 DEF CommitTick
  <2>2. Last(view.events).type = "mark"
    <3>1. PICK m \in MarkRecords, s \in Seq(Events) : view.events = Append(s, m)
      <4>1. \A f \in FillRecords : Append(saved.events, f) \in Seq(Events)
        BY TruthTypes DEF Truth, Events
      <4> QED
        BY <2>1, <4>1, TruthTypes DEF Truth, Uncommitted
    <3>2. Last(Append(s, m)) = m
      <4>1. m \in Events
        BY DEF Events
      <4> QED
        BY <4>1 DEF Last
    <3> QED
      BY <3>1, <3>2 DEF MarkRecords
  <2> QED
    BY <1>0, <2>1, <2>2, QuietStepTells
<1>12. CASE Qualify
  <2>1. PICK v : /\ stage = "tick" /\ stage' = "end"
                 /\ UNCHANGED <<closes, account, saved, told>>
                 /\ view' = [view EXCEPT !.version = v]
    BY <1>12 DEF Qualify
  <2>2. view'.events = view.events /\ view.events = saved.events
    BY <1>0, <2>1 DEF Rows, Truth, Uncommitted
  <2> QED
    BY <1>0, <2>1, <2>2, QuietStepTells DEF Truth
<1>13. CASE CommitEnd
  <2>1. /\ stage = "end" /\ stage' = "over" /\ saved' = view
        /\ UNCHANGED <<closes, account, view, told>>
    BY <1>13 DEF CommitEnd
  <2>2. view.events = saved.events
    BY <2>1 DEF Truth, Uncommitted
  <2> QED
    BY <1>0, <2>1, <2>2, QuietStepTells DEF Truth
<1>14. CASE Abort
  <2>1. stage' = "gone" /\ view' = saved /\ UNCHANGED <<closes, account, saved, told>>
    BY <1>14 DEF Abort
  <2>2. Uncommitted' /\ ToldOf(Fills(saved.events))'
    BY <2>1 DEF Truth, Uncommitted, ToldOf
  <2>3. MarksTell(view.events, closes)' /\ MarksTell(saved.events, closes)'
    BY <2>1 DEF Truth
  <2> QED
    BY <1>0, <2>1, <2>2, <2>3 DEF Truth
<1>15. CASE UNCHANGED vars
  <2>1. /\ stage' = stage /\ closes' = closes /\ account' = account
        /\ view' = view /\ saved' = saved /\ told' = told
    BY <1>15 DEF vars
  <2>2. (Replays' <=> Replays) /\ (Uncommitted' <=> Uncommitted)
    BY <2>1 DEF Replays, Uncommitted, Tick
  <2>3. ToldOf(Fills(saved.events))' <=> ToldOf(Fills(saved.events))
    BY <2>1 DEF ToldOf
  <2>4. MarksTell(view.events, closes)' /\ MarksTell(saved.events, closes)'
    BY <2>1 DEF Truth
  <2> QED
    BY <1>0, <2>1, <2>2, <2>3, <2>4 DEF Truth
<1> QED
  BY <1>1, <1>2, <1>4, <1>6, <1>7, <1>8, <1>9, <1>10, <1>11, <1>12, <1>13,
     <1>14, <1>15 DEF Next

LEMMA TruthAlways == Spec => []Truth
<1>1. Sound /\ Sound' /\ Truth /\ [Next]_vars => Truth'
  BY TruthStep
<1> QED
  BY <1>1, TruthInit, SoundAlways, PTL DEF Spec

-----------------------------------------------------------------------------
(* The backtest of the same closes. *)

BarFold == INSTANCE FoldFacts WITH Op <- BacktestStep

Backtested(cs) == BacktestRun(cs, Len(History) + 1)

LEMMA IsAppend ==
    ASSUME NEW T, NEW s \in Seq(T), NEW t \in Seq(T), NEW e \in T,
           Len(t) = Len(s) + 1, \A i \in 1..Len(s) : t[i] = s[i],
           t[Len(s) + 1] = e
    PROVE  t = Append(s, e)
OBVIOUS

\* The backtest of one more bar takes one more step.
LEMMA OneMoreBar ==
    ASSUME NEW cs \in Seq(Closes), Len(cs) >= Len(History), NEW c \in Closes
    PROVE  Backtested(Append(cs, c)) = BacktestStep(Backtested(cs), Append(cs, c))
<1> DEFINE ds == Append(cs, c)
           Bars(q) == [i \in 1..(Len(q) + 1 - (Len(History) + 1)) |->
                         SubSeq(q, 1, (Len(History) + 1) + i - 1)]
<1>1. \A q : Backtested(q) = BarFold!Fold(FlatStart, Bars(q))
  BY DEF Backtested, BacktestRun, BarFold!Fold, FoldLeft,
         BarFold!MapThenFoldSet, MapThenFoldSet, BarFold!Greatest, Max
<1>2. /\ ds \in Seq(Closes) /\ Len(ds) = Len(cs) + 1 /\ Len(cs) \in Nat
      /\ \A k \in 1..Len(cs) : SubSeq(ds, 1, k) = SubSeq(cs, 1, k)
      /\ SubSeq(ds, 1, Len(ds)) = ds
  OBVIOUS
<1>3. Len(History) \in Nat
  BY SessionAssumption
<1>4. \A q \in Seq(Closes) : Len(q) >= Len(History) =>
        /\ Bars(q) \in Seq(Seq(Closes))
        /\ Len(Bars(q)) = Len(q) - Len(History)
        /\ \A i \in 1..Len(Bars(q)) : Bars(q)[i] = SubSeq(q, 1, Len(History) + i)
  <2> SUFFICES ASSUME NEW q \in Seq(Closes), Len(q) >= Len(History)
               PROVE  /\ Bars(q) \in Seq(Seq(Closes))
                      /\ Len(Bars(q)) = Len(q) - Len(History)
                      /\ \A i \in 1..Len(Bars(q)) :
                            Bars(q)[i] = SubSeq(q, 1, Len(History) + i)
    OBVIOUS
  <2>1. PICK n \in Nat : n = Len(q) - Len(History)
    BY <1>3
  <2>2. Len(q) + 1 - (Len(History) + 1) = n
    BY <1>3, <2>1
  <2>3. Bars(q) = [i \in 1..n |-> SubSeq(q, 1, (Len(History) + 1) + i - 1)]
    BY <2>2
  <2>4. \A i \in 1..n : /\ (Len(History) + 1) + i - 1 = Len(History) + i
                        /\ SubSeq(q, 1, Len(History) + i) \in Seq(Closes)
    BY <1>3, <2>1
  <2> HIDE DEF Bars
  <2>5. /\ Bars(q) \in Seq(Seq(Closes)) /\ Len(Bars(q)) = n
        /\ \A i \in 1..n : Bars(q)[i] = SubSeq(q, 1, Len(History) + i)
    BY <2>3, <2>4
  <2> QED
    BY <2>1, <2>5
<1> HIDE DEF ds, Bars
<1>5. Bars(ds) = Append(Bars(cs), ds)
  <2>1. /\ Bars(cs) \in Seq(Seq(Closes)) /\ Len(Bars(cs)) = Len(cs) - Len(History)
        /\ \A i \in 1..Len(Bars(cs)) : Bars(cs)[i] = SubSeq(cs, 1, Len(History) + i)
    BY <1>4
  <2>2. /\ Bars(ds) \in Seq(Seq(Closes)) /\ Len(Bars(ds)) = Len(ds) - Len(History)
        /\ \A i \in 1..Len(Bars(ds)) : Bars(ds)[i] = SubSeq(ds, 1, Len(History) + i)
    <3>1. Len(ds) >= Len(History)
      BY <1>2, <1>3
    <3> QED
      BY <1>2, <1>4, <3>1
  <2>3. Len(Bars(ds)) = Len(Bars(cs)) + 1
    BY <1>2, <1>3, <2>1, <2>2
  <2>4. \A i \in 1..Len(Bars(cs)) : Bars(ds)[i] = Bars(cs)[i]
    <3>1. \A i \in 1..Len(Bars(cs)) : Len(History) + i \in 1..Len(cs)
      BY <1>2, <1>3, <2>1
    <3>2. \A i \in 1..Len(Bars(cs)) : i \in 1..Len(Bars(ds))
      BY <1>2, <1>3, <2>1, <2>3
    <3>3. \A i \in 1..Len(Bars(cs)) :
            SubSeq(ds, 1, Len(History) + i) = SubSeq(cs, 1, Len(History) + i)
      BY <1>2, <3>1
    <3> QED
      BY ONLY <2>1, <2>2, <3>2, <3>3
  <2>5. Bars(ds)[Len(Bars(cs)) + 1] = ds
    <3>1. Len(History) + (Len(Bars(cs)) + 1) = Len(ds)
      BY <1>2, <1>3, <2>1
    <3>2. Len(Bars(cs)) + 1 \in 1..Len(Bars(ds))
      BY <2>1, <2>3
    <3> QED
      BY <1>2, <2>2, <3>1, <3>2
  <2>6. \A s, t \in Seq(Seq(Closes)) : \A e \in Seq(Closes) :
          (/\ Len(t) = Len(s) + 1 /\ \A i \in 1..Len(s) : t[i] = s[i]
           /\ t[Len(s) + 1] = e) => t = Append(s, e)
    BY ONLY IsAppend
  <2> QED
    BY ONLY <1>2, <2>1, <2>2, <2>3, <2>4, <2>5, <2>6
<1>6. Bars(cs) \in Seq(Seq(Closes)) /\ ds \in Seq(Closes)
  BY <1>2, <1>4
<1>7. BarFold!Fold(FlatStart, Append(Bars(cs), ds))
        = BacktestStep(BarFold!Fold(FlatStart, Bars(cs)), ds)
  BY <1>6, BarFold!FoldAppend
<1> QED
  BY <1>1, <1>5, <1>7 DEF ds

LEMMA NoBars == Backtested(History) = FlatStart
<1> DEFINE none == [i \in 1..(Len(History) + 1 - (Len(History) + 1)) |->
                      SubSeq(History, 1, (Len(History) + 1) + i - 1)]
<1>1. Backtested(History) = BarFold!Fold(FlatStart, none)
  BY DEF Backtested, BacktestRun, BarFold!Fold, FoldLeft,
         BarFold!MapThenFoldSet, MapThenFoldSet, BarFold!Greatest, Max
<1>2. none = << >>
  <2>1. Len(History) \in Nat
    BY SessionAssumption
  <2>2. 1..(Len(History) + 1 - (Len(History) + 1)) = {}
    BY <2>1
  <2> QED
    BY <2>2
<1> HIDE DEF none
<1> QED
  BY <1>1, <1>2, BarFold!FoldEmpty

LEMMA OneMoreMark ==
    ASSUME NEW s \in Seq(Events), NEW e \in Events
    PROVE  EquityCurve(Append(s, e))
             = IF e.type = "mark" THEN Append(EquityCurve(s), e.equity)
               ELSE EquityCurve(s)
<1>1. \A q : EquityCurve(q) = [i \in DOMAIN Marks(q) |-> Marks(q)[i].equity]
  BY DEF EquityCurve
<1>2. CASE e.type = "mark"
  <2>1. Marks(Append(s, e)) = Append(Marks(s), e) /\ Marks(s) \in Seq(MarkRecords)
        /\ e \in MarkRecords
    BY <1>2, OneMoreEvent, EventsSplit, EventKinds
  <2>2. \A m \in Seq(MarkRecords) :
          [i \in DOMAIN Append(m, e) |-> Append(m, e)[i].equity]
            = Append([i \in DOMAIN m |-> m[i].equity], e.equity)
    <3> SUFFICES ASSUME NEW m \in Seq(MarkRecords)
                 PROVE  [i \in DOMAIN Append(m, e) |-> Append(m, e)[i].equity]
                          = Append([i \in DOMAIN m |-> m[i].equity], e.equity)
      OBVIOUS
    <3> DEFINE s1 == [i \in DOMAIN m |-> m[i].equity]
               t1 == [i \in DOMAIN Append(m, e) |-> Append(m, e)[i].equity]
    <3>1. /\ DOMAIN m = 1..Len(m) /\ Len(m) \in Nat
          /\ DOMAIN Append(m, e) = 1..(Len(m) + 1)
          /\ \A i \in 1..Len(m) : Append(m, e)[i] = m[i] /\ m[i].equity \in Int
          /\ Append(m, e)[Len(m) + 1] = e /\ e.equity \in Int
      <4>1. \A r \in MarkRecords : r.equity \in Int
        BY DEF MarkRecords, Money
      <4>2. /\ DOMAIN m = 1..Len(m) /\ Len(m) \in Nat
            /\ DOMAIN Append(m, e) = 1..(Len(m) + 1)
            /\ \A i \in 1..Len(m) : Append(m, e)[i] = m[i] /\ m[i] \in MarkRecords
            /\ Append(m, e)[Len(m) + 1] = e
        BY <2>1
      <4> QED
        BY <2>1, <4>1, <4>2
    <3>2. s1 \in Seq(Int) /\ Len(s1) = Len(m) /\ \A i \in 1..Len(m) : s1[i] = m[i].equity
      BY <3>1
    <3>3. /\ t1 \in Seq(Int) /\ Len(t1) = Len(m) + 1
          /\ \A i \in 1..Len(m) : t1[i] = m[i].equity
          /\ t1[Len(m) + 1] = e.equity
      BY <3>1
    <3> HIDE DEF s1, t1
    <3>4. t1 = Append(s1, e.equity)
      <4>1. \A s2, t2 \in Seq(Int) : \A x \in Int :
              (/\ Len(t2) = Len(s2) + 1 /\ \A i \in 1..Len(s2) : t2[i] = s2[i]
               /\ t2[Len(s2) + 1] = x) => t2 = Append(s2, x)
        BY ONLY IsAppend
      <4> QED
        BY <3>1, <3>2, <3>3, <4>1
    <3> QED
      BY <3>4 DEF s1, t1
  <2> QED
    BY <1>1, <1>2, <2>1, <2>2
<1>3. CASE e.type # "mark"
  <2>1. Marks(Append(s, e)) = Marks(s)
    BY <1>3, OneMoreEvent
  <2> QED
    BY <1>1, <1>3, <2>1
<1> QED
  BY <1>2, <1>3

\* A run of the backtest that has traded as the session has.
SameRun(b, curve) ==
    /\ b.account = account /\ b.peak = peak
    /\ b.events = Fills(view.events) /\ b.curve = curve

\* Within a tick the backtest is at the bar before, or has taken the bar and
\* is a mark ahead of the stream.
Backtests ==
    /\ stage \in {"new", "tick", "commit"} =>
        SameRun(Backtested(closes), EquityCurve(view.events))
    /\ stage = "trade" =>
        \E b : /\ b.account = account /\ Larger(b.peak, EquityNow) = peak
               /\ b.events = Fills(view.events) /\ b.curve = EquityCurve(view.events)
               /\ Backtested(closes) = BacktestStep(b, closes)
    /\ stage = "mark" =>
        SameRun(Backtested(closes), Append(EquityCurve(view.events), EquityNow))

\* What a bar makes of the same account and peak, given whether it trades.
BarTrades(side) ==
    /\ side \in Side /\ ~Halted(EquityNow, peak)
    /\ OrderQuantity(side) > 0 /\ OrderApproved(side)

LEMMA BarOutcome ==
    ASSUME NEW b, b.account = account, Larger(b.peak, EquityNow) = peak
    PROVE  LET side == SmaCross(closes, account.position)
               after == BacktestStep(b, closes)
           IN  /\ after.peak = peak
               /\ BarTrades(side) =>
                    LET fill == Fill(side, OrderQuantity(side), Close)
                    IN  /\ after.account = AfterFill(account, fill)
                        /\ after.events = Append(b.events, fill)
                        /\ after.curve = Append(b.curve,
                                           Equity(AfterFill(account, fill), Close))
               /\ ~BarTrades(side) => /\ after.account = account
                                      /\ after.events = b.events
                                      /\ after.curve = Append(b.curve, EquityNow)
<1> DEFINE side == SmaCross(closes, account.position)
           qty == Quantity(side, account, EquityNow, Close)
           fill == Fill(side, qty, Close)
           trades == /\ side \in Side /\ ~Halted(EquityNow, peak)
                     /\ qty > 0 /\ Approved(side, qty, account, EquityNow, Close)
           after == IF trades THEN AfterFill(account, fill) ELSE account
<1>1. BacktestStep(b, closes) =
        [account |-> after, peak |-> peak,
         events |-> IF trades THEN Append(b.events, fill) ELSE b.events,
         curve |-> Append(b.curve, Equity(after, Close))]
  BY DEF BacktestStep, BacktestBar, EquityNow, Close
<1>2. BarTrades(side) <=> trades
  BY DEF BarTrades, OrderQuantity, OrderApproved
<1>3. OrderQuantity(side) = qty /\ EquityNow = Equity(account, Close)
  BY DEF OrderQuantity, EquityNow
<1> HIDE DEF qty, fill, side
<1> QED
  BY <1>1, <1>2, <1>3 DEF fill, side

LEMMA BacktestsInit == Init => Backtests
<1> SUFFICES ASSUME Init
             PROVE  Backtests
  OBVIOUS
<1>1. /\ view.events = << >> /\ closes = History /\ account = NewAccount
      /\ peak = StartingCash /\ stage = "new"
  BY DEF Init, NoRows
<1>2. EquityCurve(<< >>) = << >>
  BY NoEvents DEF EquityCurve
<1>3. SameRun(Backtested(closes), EquityCurve(view.events))
  BY <1>1, <1>2, NoBars, NoEvents DEF SameRun, FlatStart
<1> QED
  BY <1>1, <1>3 DEF Backtests

\* A bar without a trade.
LEMMA NoTradeAgrees ==
    ASSUME Backtests, Truth, stage = "trade", stage' = "mark",
           UNCHANGED <<closes, account, peak>>, view'.events = view.events,
           ~BarTrades(SmaCross(closes, account.position))
    PROVE  Backtests'
<1>1. PICK b : /\ b.account = account /\ Larger(b.peak, EquityNow) = peak
               /\ b.events = Fills(view.events) /\ b.curve = EquityCurve(view.events)
               /\ Backtested(closes) = BacktestStep(b, closes)
  BY DEF Backtests
<1>2. /\ Backtested(closes).account = account /\ Backtested(closes).peak = peak
      /\ Backtested(closes).events = Fills(view.events)
      /\ Backtested(closes).curve = Append(EquityCurve(view.events), EquityNow)
  BY <1>1, BarOutcome
<1>3. EquityNow' = EquityNow
  BY DEF EquityNow, Close
<1>4. SameRun(Backtested(closes), Append(EquityCurve(view.events), EquityNow))'
  BY <1>2, <1>3 DEF SameRun
<1> QED
  BY <1>4 DEF Backtests

LEMMA TradeAgrees ==
    ASSUME Backtests, Truth, Sound, NEW side \in Side, Submit(side)
    PROVE  Backtests'
<1>1. PICK b : /\ b.account = account /\ Larger(b.peak, EquityNow) = peak
               /\ b.events = Fills(view.events) /\ b.curve = EquityCurve(view.events)
               /\ Backtested(closes) = BacktestStep(b, closes)
  BY DEF Backtests, Submit, Order
<1>2. PICK f : /\ f = Fill(side, OrderQuantity(side), Close)
               /\ f \in FillRecords /\ f.type = "fill"
  BY SubmittedFill
<1>3. /\ stage' = "mark" /\ account' = AfterFill(account, f)
      /\ view' = [view EXCEPT !.events = Append(@, f)]
      /\ UNCHANGED <<closes, peak>>
      /\ side = SmaCross(closes, account.position) /\ BarTrades(side)
  BY <1>2 DEF Submit, Order, BarTrades
<1>4. view'.events = Append(view.events, f) /\ view.events \in Seq(Events) /\ f \in Events
  BY <1>2, <1>3, TruthTypes DEF Truth, TypeOK, Rows, Events
<1>5. /\ Fills(view'.events) = Append(Fills(view.events), f)
      /\ EquityCurve(view'.events) = EquityCurve(view.events)
  BY <1>2, <1>4, OneMoreEvent, OneMoreMark
<1>6. EquityNow' = Equity(account', Close)
  BY <1>3 DEF EquityNow, Close
<1>7. /\ Backtested(closes).account = account' /\ Backtested(closes).peak = peak
      /\ Backtested(closes).events = Append(Fills(view.events), f)
      /\ Backtested(closes).curve
            = Append(EquityCurve(view.events), Equity(account', Close))
  BY <1>1, <1>2, <1>3, BarOutcome
<1>8. SameRun(Backtested(closes), Append(EquityCurve(view.events), EquityNow))'
  BY <1>3, <1>5, <1>6, <1>7 DEF SameRun
<1> QED
  BY <1>3, <1>8 DEF Backtests

LEMMA BacktestsStep ==
    ASSUME Sound, Truth, Truth', Backtests, [Next]_vars
    PROVE  Backtests'
<1>0. /\ view \in Rows /\ view.events \in Seq(Events) /\ closes \in Seq(Closes)
      /\ Len(closes) \in Nat /\ Len(History) \in Nat
  BY TruthTypes DEF Truth, TypeOK
<1>1. CASE StartEvaluation
  <2>1. /\ stage = "new" /\ stage' = "tick" /\ UNCHANGED <<closes, account, peak>>
        /\ view'.events = view.events
    BY <1>0, <1>1 DEF StartEvaluation, Rows
  <2> QED
    BY <2>1 DEF Backtests, SameRun
<1>2. ASSUME NEW c \in Closes, NextBar(c)
      PROVE  Backtests'
  <2>1. /\ stage = "tick" /\ stage' = "trade" /\ closes' = Append(closes, c)
        /\ peak' = Larger(peak, Equity(account, c)) /\ UNCHANGED <<account, view>>
    BY <1>2 DEF NextBar
  <2>2. EquityNow' = Equity(account, c)
    BY <1>0, <2>1 DEF EquityNow, Close, Last
  <2>3. Len(closes) >= Len(History)
    <3>1. Len(closes) - Len(History) \in Nat
      BY <2>1, TruthTypes DEF Truth, Replays, Tick
    <3> QED
      BY <1>0, <3>1
  <2>4. Backtested(closes') = BacktestStep(Backtested(closes), closes')
    BY <1>0, <2>1, <2>3, OneMoreBar
  <2>5. SameRun(Backtested(closes), EquityCurve(view.events))
    BY <2>1 DEF Backtests
  <2>6. PICK b : b = Backtested(closes)
    OBVIOUS
  <2>7. /\ b.account = account' /\ Larger(b.peak, EquityNow') = peak'
        /\ b.events = Fills(view'.events) /\ b.curve = EquityCurve(view'.events)
        /\ Backtested(closes') = BacktestStep(b, closes')
    BY <2>1, <2>2, <2>4, <2>5, <2>6 DEF SameRun
  <2> QED
    BY <2>1, <2>7 DEF Backtests
<1>3. CASE NoSignal
  <2>1. ~BarTrades(SmaCross(closes, account.position))
    BY <1>3 DEF NoSignal, BarTrades, Side
  <2> QED
    BY <1>3, <2>1, NoTradeAgrees DEF NoSignal
<1>4. ASSUME NEW kind, NEW side, stage = "trade", Block(kind, side),
             ~BarTrades(SmaCross(closes, account.position))
      PROVE  Backtests'
  <2>1. stage' = "mark" /\ UNCHANGED <<closes, account, peak>>
        /\ view'.events = view.events
    BY <1>0, <1>4 DEF Block, Rows
  <2> QED
    BY <1>4, <2>1, NoTradeAgrees
<1>5. CASE BlockedByGuardrail
  <2>1. ~BarTrades(SmaCross(closes, account.position))
    BY <1>5 DEF BlockedByGuardrail, BarTrades
  <2>2. \E kind, side : stage = "trade" /\ Block(kind, side)
    BY <1>5 DEF BlockedByGuardrail
  <2> QED
    BY <1>4, <2>1, <2>2
<1>6. ASSUME NEW side \in Side, BlockedByRisk(side)
      PROVE  Backtests'
  <2>1. ~BarTrades(SmaCross(closes, account.position))
    BY <1>6 DEF BlockedByRisk, Order, BarTrades
  <2>2. \E kind : stage = "trade" /\ Block(kind, side)
    BY <1>6 DEF BlockedByRisk, Order
  <2> QED
    BY <1>4, <2>1, <2>2
<1>7. ASSUME NEW side \in Side, NothingToOrder(side)
      PROVE  Backtests'
  <2>1. /\ stage = "trade" /\ stage' = "mark" /\ UNCHANGED <<closes, account, peak, view>>
        /\ side = SmaCross(closes, account.position) /\ OrderQuantity(side) <= 0
    BY <1>7 DEF NothingToOrder, Order
  <2>2. OrderQuantity(side) \in Int
    <3>1. Close \in Closes /\ account \in Accounts /\ EquityNow \in Int
      BY CloseTyped, EquityTyped DEF Sound, Typed, EquityNow
    <3> QED
      BY <3>1, QuantityTyped DEF OrderQuantity, Side
  <2>3. ~BarTrades(SmaCross(closes, account.position))
    BY <2>1, <2>2 DEF BarTrades
  <2> QED
    BY <2>1, <2>3, NoTradeAgrees
<1>8. ASSUME NEW side \in Side, Submit(side)
      PROVE  Backtests'
  BY <1>8, TradeAgrees
<1>9. CASE MarkToMarket
  <2> DEFINE m == [type |-> "mark", equity |-> EquityNow]
  <2>1. /\ stage = "mark" /\ stage' = "commit" /\ UNCHANGED <<closes, account, peak>>
        /\ view' = [view EXCEPT !.events = Append(@, m)]
    BY <1>9 DEF MarkToMarket
  <2>2. m \in Events /\ m.type = "mark" /\ m.equity = EquityNow
    <3>1. EquityNow \in Int
      BY CloseTyped, EquityTyped DEF Sound, Typed, EquityNow
    <3> QED
      BY <3>1 DEF Events, MarkRecords, Money
  <2> HIDE DEF m
  <2>3. view'.events = Append(view.events, m)
    BY <1>0, <2>1 DEF Rows
  <2>4. EquityCurve(view'.events) = Append(EquityCurve(view.events), EquityNow)
    BY <1>0, <2>2, <2>3, OneMoreMark
  <2>5. Fills(view'.events) = Fills(view.events)
    BY <1>0, <2>2, <2>3, OneMoreEvent
  <2>6. SameRun(Backtested(closes), Append(EquityCurve(view.events), EquityNow))
    BY <2>1 DEF Backtests
  <2>7. SameRun(Backtested(closes), EquityCurve(view.events))'
    BY <2>1, <2>4, <2>5, <2>6 DEF SameRun
  <2> QED
    BY <2>1, <2>7 DEF Backtests
<1>10. CASE CommitTick
  BY <1>10 DEF CommitTick, Backtests, SameRun
<1>11. CASE Qualify \/ CommitEnd \/ Abort
  <2>1. stage' \in {"end", "over", "gone"}
    BY <1>11 DEF Qualify, CommitEnd, Abort
  <2> QED
    BY <2>1 DEF Backtests
<1>12. CASE UNCHANGED vars
  <2>1. /\ stage' = stage /\ closes' = closes /\ account' = account
        /\ peak' = peak /\ view' = view
    BY <1>12 DEF vars
  <2>2. EquityNow' = EquityNow
    BY <2>1 DEF EquityNow, Close
  <2> QED
    BY <2>1, <2>2 DEF Backtests, SameRun
<1> QED
  BY <1>1, <1>2, <1>3, <1>5, <1>6, <1>7, <1>8, <1>9, <1>10, <1>11, <1>12 DEF Next

LEMMA BacktestsAlways == Spec => []Backtests
<1>1. Sound /\ Truth /\ Truth' /\ Backtests /\ [Next]_vars => Backtests'
  BY BacktestsStep
<1> QED
  BY <1>1, BacktestsInit, SoundAlways, TruthAlways, PTL DEF Spec

-----------------------------------------------------------------------------
(* Rounding and the maximum drawdown. *)

LEMMA TimesPositive ==
    ASSUME NEW k \in Nat \ {0}, NEW x \in Int, NEW y \in Int
    PROVE  (x * k <= y * k <=> x <= y) /\ (x * k < y * k <=> x < y)
OBVIOUS

LEMMA RoundTyped ==
    ASSUME NEW a \in Int, NEW b \in Nat \ {0}
    PROVE  /\ RoundHalfEven(a, b) \in {a \div b, a \div b + 1}
           /\ a \div b \in Int /\ a % b \in 0..(b - 1)
           /\ a = b * (a \div b) + (a % b)
<1>1. a \div b \in Int
  OBVIOUS
<1>2. a % b \in 0..(b - 1)
  OBVIOUS
<1>3. a = b * (a \div b) + (a % b)
  OBVIOUS
<1>4. RoundHalfEven(a, b) \in {a \div b, a \div b + 1}
  BY DEF RoundHalfEven
<1> QED
  BY <1>1, <1>2, <1>3, <1>4

\* Of two fractions the smaller one is not rounded to more.
LEMMA RoundMonotone ==
    ASSUME NEW a \in Int, NEW b \in Nat \ {0}, NEW c \in Int, NEW d \in Nat \ {0},
           a * d <= c * b
    PROVE  RoundHalfEven(a, b) <= RoundHalfEven(c, d)
<1> DEFINE p == a \div b
           q == c \div d
           r == a % b
           s == c % d
<1>1. /\ p \in Int /\ r \in Nat /\ r < b /\ a = b * p + r
      /\ RoundHalfEven(a, b) \in {p, p + 1}
      /\ q \in Int /\ s \in Nat /\ s < d /\ c = d * q + s
      /\ RoundHalfEven(c, d) \in {q, q + 1}
  <2>1. \A x \in Int : \A y \in Nat \ {0} :
          /\ RoundHalfEven(x, y) \in {x \div y, x \div y + 1}
          /\ x \div y \in Int /\ x % y \in Nat /\ x % y < y
          /\ x = y * (x \div y) + (x % y)
    <3> SUFFICES ASSUME NEW x \in Int, NEW y \in Nat \ {0}
                 PROVE  /\ RoundHalfEven(x, y) \in {x \div y, x \div y + 1}
                        /\ x \div y \in Int /\ x % y \in Nat /\ x % y < y
                        /\ x = y * (x \div y) + (x % y)
      OBVIOUS
    <3>1. \A k \in 0..(y - 1) : k \in Nat /\ k < y
      OBVIOUS
    <3> QED
      BY <3>1, RoundTyped
  <2>2. /\ RoundHalfEven(a, b) \in {p, p + 1} /\ p \in Int /\ r \in Nat /\ r < b
        /\ a = b * p + r
    BY <2>1
  <2>3. /\ RoundHalfEven(c, d) \in {q, q + 1} /\ q \in Int /\ s \in Nat /\ s < d
        /\ c = d * q + s
    BY <2>1
  <2> QED
    BY <2>2, <2>3
<1>2. /\ RoundHalfEven(a, b) = IF 2 * r > b \/ (2 * r = b /\ p % 2 = 1) THEN p + 1
                               ELSE p
      /\ RoundHalfEven(c, d) = IF 2 * s > d \/ (2 * s = d /\ q % 2 = 1) THEN q + 1
                               ELSE q
  BY DEF RoundHalfEven
<1> HIDE DEF p, q, r, s
<1>3. p <= q
  <2> SUFFICES ASSUME p >= q + 1
               PROVE  FALSE
    BY <1>1
  <2>1. \A x, y \in Int : \A k \in Nat : x <= y => k * x <= k * y
    OBVIOUS
  <2>2. b * (q + 1) <= b * p
    BY <1>1, <2>1
  <2>3. b * (q + 1) <= a
    BY <1>1, <2>2
  <2>4. (b * (q + 1)) * d <= a * d
    BY <1>1, <2>3, TimesPositive
  <2>5. c < d * (q + 1)
    BY <1>1
  <2>6. c * b < (d * (q + 1)) * b
    BY <1>1, <2>5, TimesPositive
  <2>7. (b * (q + 1)) * d = (d * (q + 1)) * b
    BY <1>1
  <2>8. a * d \in Int /\ c * b \in Int /\ (b * (q + 1)) * d \in Int
    BY <1>1
  <2> QED
    BY <2>4, <2>6, <2>7, <2>8
<1>4. CASE p < q
  BY <1>1, <1>4
<1>5. CASE p = q
  <2>1. r * d <= s * b
    <3>1. a * d = (b * d) * p + r * d /\ c * b = (b * d) * p + s * b
      BY <1>1, <1>5
    <3>2. (b * d) * p \in Int /\ r * d \in Int /\ s * b \in Int
      BY <1>1
    <3> QED
      BY <3>1, <3>2
  <2>2. (2 * r) * d <= (2 * s) * b
    BY <1>1, <2>1
  <2>3. 2 * r > b => 2 * s > d
    <3>1. ASSUME 2 * r > b
          PROVE  2 * s > d
      <4>1. b * d < (2 * r) * d
        BY <1>1, <3>1, TimesPositive
      <4>2. d * b < (2 * s) * b
        BY <1>1, <2>2, <4>1
      <4> QED
        BY <1>1, <4>2, TimesPositive
    <3> QED
      BY <3>1
  <2>4. 2 * r = b => 2 * s >= d
    <3>1. ASSUME 2 * r = b
          PROVE  d <= 2 * s
      <4>1. d * b <= (2 * s) * b
        BY <1>1, <2>2, <3>1
      <4> QED
        BY <1>1, <4>1, TimesPositive
    <3> QED
      BY <3>1, <1>1
  <2> QED
    BY <1>1, <1>2, <1>5, <2>3, <2>4
<1> QED
  BY <1>1, <1>3, <1>4, <1>5

FallFold == INSTANCE FoldFacts WITH Op <- DrawdownStep

\* s holds the peak and the deepest fall of a curve that is never negative.
Deepest(s, curve) ==
    /\ s = [peak |-> s.peak, n |-> s.n, d |-> s.d]
    /\ s.peak \in Nat /\ s.n \in Nat /\ s.d \in Nat \ {0}
    /\ \A i \in DOMAIN curve : curve[i] <= s.peak
    /\ \E i \in DOMAIN curve : curve[i] = s.peak
    /\ \A i, j \in DOMAIN curve :
        i < j => (curve[i] - curve[j]) * s.d <= s.n * curve[i]
    /\ \/ s.n = 0
       \/ \E i, j \in DOMAIN curve :
            i < j /\ curve[i] > 0 /\ s.n = curve[i] - curve[j] /\ s.d = curve[i]

\* The next equity e, from the deepest fall n / d below peak.
LEMMA FallFromLower ==
    ASSUME NEW x \in Nat, NEW peak0 \in Nat, x <= peak0, NEW e \in Nat
    PROVE  (x - e) * peak0 <= (peak0 - e) * x
<1>1. e * x <= e * peak0
  OBVIOUS
<1>2. (x - e) * peak0 = x * peak0 - e * peak0 /\ (peak0 - e) * x = peak0 * x - e * x
  OBVIOUS
<1>3. x * peak0 = peak0 * x /\ x * peak0 \in Int /\ e * peak0 \in Int /\ e * x \in Int
  OBVIOUS
<1> QED
  BY <1>1, <1>2, <1>3

\* a/x <= b/y and b/y <= c/z give a/x <= c/z, multiplied out.
LEMMA FractionsCompose ==
    ASSUME NEW a \in Int, NEW x \in Nat, NEW b \in Int, NEW y \in Nat \ {0},
           NEW c \in Int, NEW z \in Nat, a * y <= b * x, b * z <= c * y
    PROVE  a * z <= c * x
<1>1. \A u, v \in Int : \A k \in Nat : u <= v => u * k <= v * k
  OBVIOUS
<1>2. (a * y) * z <= (b * x) * z
  <2>1. a * y \in Int /\ b * x \in Int
    OBVIOUS
  <2> QED
    BY <1>1, <2>1
<1>3. (b * z) * x <= (c * y) * x
  <2>1. b * z \in Int /\ c * y \in Int
    OBVIOUS
  <2> QED
    BY <1>1, <2>1
<1>4. /\ (a * y) * z = (a * z) * y /\ (c * y) * x = (c * x) * y
      /\ (b * x) * z = (b * z) * x
  OBVIOUS
<1>5. (a * z) * y \in Int /\ (c * x) * y \in Int /\ (b * x) * z \in Int
  OBVIOUS
<1>6. (a * z) * y <= (c * x) * y
  BY <1>2, <1>3, <1>4, <1>5
<1>7. a * z \in Int /\ c * x \in Int
  OBVIOUS
<1> QED
  BY <1>6, <1>7, TimesPositive

\* A step of _max_drawdown_pct takes in the next equity.
LEMMA DeepestStep ==
    ASSUME NEW curve \in Seq(Nat), NEW e \in Nat, NEW s, Deepest(s, curve)
    PROVE  Deepest(DrawdownStep(s, e), Append(curve, e))
<1> DEFINE t == Append(curve, e)
           k == Len(curve)
           top == Larger(s.peak, e)
           after == DrawdownStep(s, e)
           sinks == top > 0 /\ (top - e) * s.d > s.n * top
<1>0. /\ s = [peak |-> s.peak, n |-> s.n, d |-> s.d]
      /\ s.peak \in Nat /\ s.n \in Nat /\ s.d \in Nat \ {0}
      /\ \A i \in DOMAIN curve : curve[i] <= s.peak
      /\ \A i, j \in DOMAIN curve :
            i < j => (curve[i] - curve[j]) * s.d <= s.n * curve[i]
  BY DEF Deepest
<1>1. /\ k \in Nat /\ DOMAIN curve = 1..k /\ DOMAIN t = 1..(k + 1) /\ t[k + 1] = e
      /\ \A i \in 1..k : t[i] = curve[i] /\ curve[i] \in Nat
  OBVIOUS
<1>2. top \in Nat /\ s.peak <= top /\ e <= top /\ (top = s.peak \/ top = e)
  BY <1>0 DEF Larger
<1>3. after = [peak |-> top, n |-> IF sinks THEN top - e ELSE s.n,
               d |-> IF sinks THEN top ELSE s.d]
  BY <1>0 DEF DrawdownStep
<1> DEFINE n == IF sinks THEN top - e ELSE s.n
           d == IF sinks THEN top ELSE s.d
<1>4. /\ after = [peak |-> top, n |-> n, d |-> d]
      /\ sinks => n = top - e /\ d = top
      /\ ~sinks => n = s.n /\ d = s.d
  BY <1>3
<1>5. n \in Nat /\ d \in Nat \ {0}
  BY <1>0, <1>2
<1> HIDE DEF t, k, top, after, n, d
<1>6. \A i \in DOMAIN t : t[i] \in Nat /\ t[i] <= top
  BY <1>0, <1>1, <1>2
<1>7. \E i \in DOMAIN t : t[i] = top
  <2>1. CASE top = e
    BY <1>1, <2>1
  <2>2. CASE top = s.peak
    <3>1. PICK i \in DOMAIN curve : curve[i] = s.peak
      BY DEF Deepest
    <3> QED
      BY <1>1, <2>2, <3>1
  <2> QED
    BY <1>2, <2>1, <2>2
\* The fall to e from the top is no deeper than the deepest.
<1>8. (top - e) * d <= n * top
  <2>1. CASE sinks
    <3>1. (top - e) * top <= (top - e) * top
      BY <1>2
    <3> QED
      BY <1>4, <2>1, <3>1
  <2>2. CASE ~sinks
    <3>1. CASE top = 0
      <4>1. e = 0 /\ (top - e) * d = 0 /\ n * top = 0
        BY <1>2, <1>5, <3>1
      <4> QED
        BY <4>1
    <3>2. CASE top > 0
      <4>1. ~((top - e) * s.d > s.n * top)
        BY <2>2, <3>2
      <4>2. (top - e) * s.d \in Int /\ s.n * top \in Int
        BY <1>0, <1>2
      <4> QED
        BY <1>4, <2>2, <4>1, <4>2
    <3> QED
      BY <1>2, <3>1, <3>2
  <2> QED
    BY <2>1, <2>2
<1>9. ASSUME NEW i \in DOMAIN t, NEW j \in DOMAIN t, i < j
      PROVE  (t[i] - t[j]) * d <= n * t[i]
  <2>1. i \in 1..k /\ t[i] = curve[i] /\ t[i] \in Nat /\ t[i] <= top
    BY <1>1, <1>6, <1>9
  <2>2. CASE j = k + 1
    <3>1. t[j] = e
      BY <1>1, <2>2
    <3>2. (t[i] - e) * top <= (top - e) * t[i]
      BY <1>2, <2>1, FallFromLower
    <3>3. CASE top = 0
      <4>1. t[i] = 0 /\ e = 0
        BY <1>2, <2>1, <3>3
      <4>2. (0 - 0) * d = 0 /\ n * 0 = 0
        BY <1>5
      <4> QED
        BY <3>1, <4>1, <4>2
    <3>4. CASE top # 0
      <4>1. t[i] - e \in Int /\ top - e \in Int /\ top \in Nat \ {0}
        BY <1>2, <2>1, <3>4
      <4>2. PICK a \in Int, b \in Int, x \in Nat : a = t[i] - e /\ b = top - e /\ x = t[i]
        BY <2>1, <4>1
      <4>3. a * top <= b * x /\ b * d <= n * top
        BY <1>8, <3>2, <4>2
      <4>4. a * d <= n * x
        BY ONLY <1>5, <4>1, <4>3, a \in Int, b \in Int, x \in Nat, n \in Int,
                FractionsCompose
      <4> QED
        BY <3>1, <4>2, <4>4
    <3> QED
      BY <3>3, <3>4
  <2>3. CASE j \in 1..k
    <3>1. t[j] = curve[j] /\ t[j] \in Nat
      BY <1>1, <2>3
    <3>2. (t[i] - t[j]) * s.d <= s.n * t[i]
      BY <1>0, <1>1, <1>9, <2>1, <2>3, <3>1
    <3>3. CASE sinks
      <4>1. s.n * top <= (top - e) * s.d
        <5>1. s.n * top \in Int /\ (top - e) * s.d \in Int
          BY <1>0, <1>2
        <5> QED
          BY <3>3, <5>1
      <4>2. t[i] - t[j] \in Int /\ top - e \in Int
        BY <1>2, <2>1, <3>1
      <4>3. PICK a \in Int, c \in Int, x \in Nat, b \in Int, y \in Nat \ {0} :
                /\ a = t[i] - t[j] /\ c = top - e /\ x = t[i]
                /\ b = s.n /\ y = s.d
        BY <1>0, <2>1, <4>2
      <4>4. a * y <= b * x /\ b * top <= c * y
        BY <3>2, <4>1, <4>3
      <4>5. a * top <= c * x
        BY ONLY <1>2, <4>4, a \in Int, b \in Int, c \in Int, x \in Nat,
                y \in Nat \ {0}, FractionsCompose
      <4> QED
        BY <1>4, <3>3, <4>3, <4>5
    <3>4. CASE ~sinks
      BY <1>4, <3>2, <3>4
    <3> QED
      BY <3>3, <3>4
  <2> QED
    BY <1>1, <2>2, <2>3
<1>10. \/ n = 0
       \/ \E i, j \in DOMAIN t : i < j /\ t[i] > 0 /\ n = t[i] - t[j] /\ d = t[i]
  <2>1. CASE sinks
    <3>1. top # e
      <4> SUFFICES ASSUME top = e
                   PROVE  FALSE
        OBVIOUS
      <4>1. (top - e) * s.d = 0 /\ s.n * top \in Nat
        BY <1>0, <1>2
      <4>2. (top - e) * s.d > s.n * top
        BY <2>1
      <4> QED
        BY <4>1, <4>2
    <3>2. PICK i \in DOMAIN curve : curve[i] = top
      BY <1>2, <3>1 DEF Deepest
    <3>3. i \in DOMAIN t /\ k + 1 \in DOMAIN t /\ i < k + 1 /\ t[i] = top /\ t[k + 1] = e
      BY <1>1, <3>2
    <3>4. top > 0 /\ n = top - e /\ d = top
      BY <1>4, <2>1
    <3> QED
      BY <3>3, <3>4
  <2>2. CASE ~sinks
    <3>1. n = s.n /\ d = s.d
      BY <1>4, <2>2
    <3>2. \/ n = 0
          \/ \E i, j \in DOMAIN curve :
                i < j /\ curve[i] > 0 /\ n = curve[i] - curve[j] /\ d = curve[i]
      BY <3>1 DEF Deepest
    <3>3. \A i \in DOMAIN curve : i \in DOMAIN t /\ t[i] = curve[i]
      BY <1>1
    <3> QED
      BY <3>2, <3>3
  <2> QED
    BY <2>1, <2>2
<1> QED
  <2>1. after.peak = top /\ after.n = n /\ after.d = d
    BY <1>4
  <2>2. Deepest(after, t)
    BY <1>2, <1>4, <1>5, <1>6, <1>7, <1>9, <1>10, <2>1 DEF Deepest
  <2> QED
    BY <2>2 DEF after, t

FirstPeak(curve) == [peak |-> curve[1], n |-> 0, d |-> 1]

LEMMA DeepestOfCurve ==
    ASSUME NEW curve \in Seq(Nat), curve # << >>
    PROVE  Deepest(FoldLeft(DrawdownStep, FirstPeak(curve), curve), curve)
<1> DEFINE F(q) == FallFold!Fold(FirstPeak(q), q)
           S == {q \in Seq(Nat) : q # << >> => Deepest(F(q), q)}
<1>1. << >> \in S
  OBVIOUS
<1>2. ASSUME NEW q \in Seq(Nat), q \in S, NEW e \in Nat
      PROVE  Append(q, e) \in S
  <2> DEFINE t == Append(q, e)
  <2>1. t \in Seq(Nat)
    OBVIOUS
  <2>2. CASE q = << >>
    <3>1. PICK p : p = FirstPeak(t)
      OBVIOUS
    <3>2. t[1] = e /\ DOMAIN t = 1..1
      BY <2>2
    <3>3. p.peak = e /\ p.n = 0 /\ p.d = 1 /\ p = [peak |-> e, n |-> 0, d |-> 1]
      BY <3>1, <3>2 DEF FirstPeak
    <3>4. FallFold!Fold(p, t) = DrawdownStep(FallFold!Fold(p, q), e)
      BY FallFold!FoldAppend
    <3>5. FallFold!Fold(p, q) = p
      BY <2>2, FallFold!FoldEmpty
    <3>6. DrawdownStep(p, e) = p
      <4>1. Larger(e, e) = e /\ (e - e) * 1 = 0 /\ 0 * e = 0
        BY DEF Larger
      <4>2. [p EXCEPT !.peak = e] = p
        BY <3>3
      <4> QED
        BY <3>3, <4>1, <4>2 DEF DrawdownStep
    <3>7. F(t) = p
      BY <3>1, <3>4, <3>5, <3>6
    <3>8. Deepest(p, t)
      <4>1. \A i \in DOMAIN t : i = 1
        BY <3>2
      <4>2. 1 \in DOMAIN t
        BY <3>2
      <4> QED
        BY <3>2, <3>3, <4>1, <4>2 DEF Deepest
    <3> QED
      BY <2>1, <3>7, <3>8
  <2>3. CASE q # << >>
    <3>1. PICK p : p = FirstPeak(q)
      OBVIOUS
    <3>2. t[1] = q[1]
      BY <2>3
    <3>3. FirstPeak(t) = p
      BY <3>1, <3>2 DEF FirstPeak
    <3>4. FallFold!Fold(p, t) = DrawdownStep(FallFold!Fold(p, q), e)
      BY FallFold!FoldAppend
    <3>5. Deepest(FallFold!Fold(p, q), q)
      BY <1>2, <2>3, <3>1
    <3>6. Deepest(F(t), t)
      BY <3>3, <3>4, <3>5, DeepestStep
    <3> QED
      BY <2>1, <3>6
  <2> QED
    BY <2>2, <2>3
<1> HIDE DEF S
<1>3. Seq(Nat) \subseteq S
  BY <1>1, <1>2, FallFold!SequenceInduction
<1>4. Deepest(F(curve), curve)
  BY <1>3 DEF S
<1>5. \A b, q : FoldLeft(DrawdownStep, b, q) = FallFold!Fold(b, q)
  BY DEF FallFold!Fold, FoldLeft,
         FallFold!MapThenFoldSet, MapThenFoldSet, FallFold!Greatest, Max
<1> QED
  BY <1>4, <1>5

\* The recorded drawdown is the deepest fall, rounded; the pairs of equities
\* that fall as deep or less are all of them.
LEMMA DrawdownOfCurve ==
    ASSUME NEW curve \in Seq(Nat), curve # << >>
    PROVE  \E n \in Nat, d \in Nat \ {0} :
            /\ MaxDrawdownPct(curve) = RoundHalfEven(10000 * n, d)
            /\ \A i, j \in DOMAIN curve :
                i < j => (curve[i] - curve[j]) * d <= n * curve[i]
            /\ \/ n = 0
               \/ \E i, j \in DOMAIN curve :
                    i < j /\ curve[i] > 0 /\ n = curve[i] - curve[j] /\ d = curve[i]
<1>1. PICK s : s = FoldLeft(DrawdownStep, FirstPeak(curve), curve)
  OBVIOUS
<1>2. Deepest(s, curve)
  BY <1>1, DeepestOfCurve
<1>3. MaxDrawdownPct(curve) = RoundHalfEven(10000 * s.n, s.d)
  BY <1>1 DEF MaxDrawdownPct, FirstPeak
<1> QED
  BY <1>2, <1>3 DEF Deepest

LEMMA WorstFall ==
    ASSUME NEW curve \in Seq(Nat)
    PROVE  LET Fall(i, j) == IF curve[i] > 0
                             THEN RoundHalfEven(10000 * (curve[i] - curve[j]), curve[i])
                             ELSE 0
               falls == {Fall(p[1], p[2]) :
                           p \in {q \in (DOMAIN curve) \X (DOMAIN curve) : q[1] < q[2]}}
           IN  MaxDrawdownPct(curve) = Max(falls \cup {0})
<1> DEFINE Fall(i, j) == IF curve[i] > 0
                         THEN RoundHalfEven(10000 * (curve[i] - curve[j]), curve[i])
                         ELSE 0
           pairs == {q \in (DOMAIN curve) \X (DOMAIN curve) : q[1] < q[2]}
           falls == {Fall(p[1], p[2]) : p \in pairs}
           worst == MaxDrawdownPct(curve)
<1>0. \A i \in DOMAIN curve : curve[i] \in Nat
  OBVIOUS
<1>1. \A a \in Int : \A b \in Nat \ {0} : RoundHalfEven(a, b) \in Int
  <2> SUFFICES ASSUME NEW a \in Int, NEW b \in Nat \ {0}
               PROVE  RoundHalfEven(a, b) \in Int
    OBVIOUS
  <2>1. RoundHalfEven(a, b) \in {a \div b, a \div b + 1} /\ a \div b \in Int
    BY RoundTyped
  <2>2. PICK k \in Int : k = a \div b
    BY <2>1
  <2> QED
    BY <2>1, <2>2
<1>2. \A x \in falls \cup {0} : x \in Int
  <2>1. ASSUME NEW i \in DOMAIN curve, NEW j \in DOMAIN curve
        PROVE  Fall(i, j) \in Int
    <3>1. 10000 * (curve[i] - curve[j]) \in Int /\ curve[i] \in Nat
      BY <1>0
    <3> QED
      BY <1>1, <3>1
  <2> HIDE DEF Fall
  <2> QED
    BY <2>1
<1>3. \A y \in falls \cup {0} : y <= worst
  <2>1. CASE curve = << >>
    <3>1. DOMAIN curve = {}
      BY <2>1
    <3>2. falls = {}
      BY <3>1
    <3>3. worst = 0
      BY <2>1 DEF MaxDrawdownPct
    <3> HIDE DEF falls, worst
    <3> QED
      BY <3>2, <3>3
  <2>2. CASE curve # << >>
    <3>1. PICK n \in Nat, d \in Nat \ {0} :
            /\ worst = RoundHalfEven(10000 * n, d)
            /\ \A i, j \in DOMAIN curve :
                i < j => (curve[i] - curve[j]) * d <= n * curve[i]
      BY <2>2, DrawdownOfCurve
    <3>2. 0 <= worst
      <4>1. 10000 * n \in Int /\ 1 \in Nat \ {0} /\ 0 * d <= (10000 * n) * 1
        OBVIOUS
      <4>2. RoundHalfEven(0, 1) <= RoundHalfEven(10000 * n, d)
        BY <4>1, RoundMonotone
      <4>3. RoundHalfEven(0, 1) = 0
        BY DEF RoundHalfEven
      <4> QED
        BY <3>1, <4>2, <4>3
    <3>3. ASSUME NEW i \in DOMAIN curve, NEW j \in DOMAIN curve, i < j
          PROVE  Fall(i, j) <= worst
      <4>1. CASE curve[i] > 0
        <5>1. PICK a \in Int, b \in Nat \ {0} :
                a = 10000 * (curve[i] - curve[j]) /\ b = curve[i]
          BY <1>0, <4>1
        <5>2. PICK c \in Int : c = 10000 * n
          OBVIOUS
        <5>3. a * d <= c * b
          <6>1. PICK x \in Int : x = curve[i] - curve[j]
            BY <1>0
          <6>2. x * d <= n * b
            BY <3>1, <3>3, <5>1, <6>1
          <6>3. 10000 * (x * d) <= 10000 * (n * b)
            <7>1. x * d \in Int /\ n * b \in Int
              OBVIOUS
            <7> QED
              BY <6>2, <7>1
          <6>4. (10000 * x) * d = 10000 * (x * d) /\ (10000 * n) * b = 10000 * (n * b)
            OBVIOUS
          <6> QED
            BY <5>1, <5>2, <6>1, <6>3, <6>4
        <5>4. RoundHalfEven(a, b) <= RoundHalfEven(c, d)
          BY <5>3, RoundMonotone
        <5> QED
          BY <3>1, <4>1, <5>1, <5>2, <5>4
      <4>2. CASE ~(curve[i] > 0)
        BY <3>2, <4>2
      <4> QED
        BY <4>1, <4>2
    <3> HIDE DEF Fall, worst
    <3> QED
      BY <3>2, <3>3
  <2> QED
    BY <2>1, <2>2
<1>4. worst \in falls \cup {0}
  <2>1. CASE curve = << >>
    BY <2>1 DEF MaxDrawdownPct
  <2>2. CASE curve # << >>
    <3>1. PICK n \in Nat, d \in Nat \ {0} :
            /\ worst = RoundHalfEven(10000 * n, d)
            /\ \/ n = 0
               \/ \E i, j \in DOMAIN curve :
                    i < j /\ curve[i] > 0 /\ n = curve[i] - curve[j] /\ d = curve[i]
      BY <2>2, DrawdownOfCurve
    <3>2. CASE n = 0
      <4>1. /\ 10000 * 0 = 0 /\ 0 \div d = 0 /\ 0 % d = 0
            /\ ~(2 * 0 > d) /\ ~(2 * 0 = d)
        OBVIOUS
      <4>2. RoundHalfEven(0, d) = 0
        BY <4>1 DEF RoundHalfEven
      <4> QED
        BY <3>1, <3>2, <4>1, <4>2
    <3>3. CASE n # 0
      <4>1. PICK i \in DOMAIN curve, j \in DOMAIN curve :
                i < j /\ curve[i] > 0 /\ n = curve[i] - curve[j] /\ d = curve[i]
        BY <3>1, <3>3
      <4>2. Fall(i, j) = worst
        BY <3>1, <4>1
      <4>3. <<i, j>> \in pairs
        BY <4>1
      <4> HIDE DEF Fall, pairs, worst
      <4> QED
        BY <4>2, <4>3
    <3> QED
      BY <3>2, <3>3
  <2> QED
    BY <2>1, <2>2
<1> HIDE DEF falls, worst
<1>5. worst = Max(falls \cup {0})
  <2>1. \E x \in falls \cup {0} : \A y \in falls \cup {0} : x >= y
    BY <1>2, <1>3, <1>4
  <2>2. /\ Max(falls \cup {0}) \in falls \cup {0}
        /\ \A y \in falls \cup {0} : Max(falls \cup {0}) >= y
    BY <2>1 DEF Max
  <2>3. PICK m : m = Max(falls \cup {0})
    OBVIOUS
  <2>4. m \in Int /\ worst \in Int /\ m >= worst /\ worst >= m
    BY <1>2, <1>3, <1>4, <2>2, <2>3
  <2> QED
    BY <2>3, <2>4
<1> QED
  BY <1>5 DEF falls, worst


-----------------------------------------------------------------------------
(* Round trips. *)

TradeFold == INSTANCE FoldFacts WITH Op <- TradeStep

TradesOf(fills) == FoldLeft(TradeStep, NoTrades, fills)

CashAfter(fills, n) == Rebuilt(SubSeq(fills, 1, n)).cash

Gain(fills, i) == CashAfter(fills, i) > CashAfter(fills, i - 2)

Gains(fills) == {i \in Exits(fills) : Gain(fills, i)}

\* The trades counted on fills that enter from flat and exit in full: the
\* position is the account's, its average cost the price of the last fill.
RoundTrips(fills) ==
    LET t == TradesOf(fills)
        a == Rebuilt(fills)
    IN  /\ a \in Accounts /\ a.position >= 0 /\ t.position = a.position
        /\ t.closes = Cardinality(Exits(fills))
        /\ Fee = 0 => t.wins = Cardinality(Gains(fills))
        /\ a.position > 0 =>
            /\ t.d = 1 /\ t.n \in Nat /\ fills # << >>
            /\ Fee = 0 => a.cash = CashAfter(fills, Len(fills) - 1) - t.n * a.position

LEMMA NoRoundTrips == RoundTrips(<< >>)
<1>1. TradesOf(<< >>) = NoTrades
  <2>1. TradesOf(<< >>) = TradeFold!Fold(NoTrades, << >>)
    BY DEF TradesOf, TradeFold!Fold, FoldLeft,
           TradeFold!MapThenFoldSet, MapThenFoldSet, TradeFold!Greatest, Max
  <2> QED
    BY <2>1, TradeFold!FoldEmpty
<1>2. Rebuilt(<< >>) = NewAccount /\ NewAccount \in Accounts /\ NewAccount.position = 0
  BY NoEvents, TradingAssumption DEF NewAccount, Accounts
<1>3. Exits(<< >>) = {}
  <2>1. \A s : s = << >> => DOMAIN s = {}
    OBVIOUS
  <2> QED
    BY <2>1 DEF Exits
<1>4. Gains(<< >>) = {}
  BY <1>3 DEF Gains
<1>5. NoTrades.position = 0 /\ NoTrades.closes = 0 /\ NoTrades.wins = 0
  BY DEF NoTrades
<1>6. Cardinality({}) = 0
  BY FS_EmptySet
<1>7. PICK s, t, a : /\ s = << >> /\ t = NoTrades /\ a = NewAccount
                    /\ t = TradesOf(s) /\ a = Rebuilt(s)
  BY <1>1, <1>2
<1>8. /\ a \in Accounts /\ a.position = 0 /\ t.position = 0 /\ t.closes = 0 /\ t.wins = 0
      /\ Cardinality(Exits(s)) = 0 /\ Cardinality(Gains(s)) = 0
  BY <1>2, <1>3, <1>4, <1>5, <1>6, <1>7
<1>9. RoundTrips(s)
  BY ONLY <1>7, <1>8 DEF RoundTrips
<1> QED
  BY <1>7, <1>9

\* The exits of one more fill, and those of them that gained.
LEMMA OneMoreExit ==
    ASSUME NEW s \in Seq(FillRecords), NEW f \in FillRecords
    PROVE  LET t == Append(s, f)
           IN  /\ IsFiniteSet(Exits(s)) /\ IsFiniteSet(Gains(s))
               /\ Len(s) + 1 \notin Exits(s) /\ Len(s) + 1 \notin Gains(s)
               /\ f.side = "buy" => Exits(t) = Exits(s) /\ Gains(t) = Gains(s)
               /\ f.side = "sell" =>
                    /\ Exits(t) = Exits(s) \cup {Len(s) + 1}
                    /\ Gains(t) = Gains(s) \cup
                        (IF Gain(t, Len(s) + 1) THEN {Len(s) + 1} ELSE {})
<1> DEFINE t == Append(s, f)
<1>1. /\ DOMAIN s = 1..Len(s) /\ DOMAIN t = 1..(Len(s) + 1) /\ Len(s) \in Nat
      /\ t[Len(s) + 1] = f /\ \A i \in 1..Len(s) : t[i] = s[i]
  OBVIOUS
<1>2. \A i \in 1..Len(s) : SubSeq(t, 1, i) = SubSeq(s, 1, i)
                             /\ SubSeq(t, 1, i - 2) = SubSeq(s, 1, i - 2)
  OBVIOUS
<1> HIDE DEF t
<1>3. Exits(s) \subseteq 1..Len(s)
  BY <1>1 DEF Exits
<1>4. \A i \in Exits(s) : Gain(t, i) <=> Gain(s, i)
  BY <1>2, <1>3 DEF Gain, CashAfter
<1>5. IsFiniteSet(Exits(s)) /\ IsFiniteSet(Gains(s)) /\ Gains(s) \subseteq Exits(s)
  <2>1. IsFiniteSet(1..Len(s))
    <3>1. 1 \in Int /\ Len(s) \in Int
      BY <1>1
    <3> QED
      BY ONLY <3>1, FS_Interval
  <2>2. Gains(s) \subseteq Exits(s)
    BY DEF Gains
  <2>3. IsFiniteSet(Exits(s))
    BY ONLY <1>3, <2>1, FS_Subset
  <2>4. IsFiniteSet(Gains(s))
    BY ONLY <2>2, <2>3, FS_Subset
  <2> QED
    BY ONLY <2>2, <2>3, <2>4
<1>6. Len(s) + 1 \notin 1..Len(s)
  BY <1>1
<1>7. ASSUME f.side = "buy"
      PROVE  Exits(t) = Exits(s)
  <2>1. \A i \in Exits(t) : i # Len(s) + 1 /\ i \in 1..(Len(s) + 1)
    BY <1>1, <1>7 DEF Exits
  <2>2. \A i \in 1..(Len(s) + 1) : i # Len(s) + 1 => i \in 1..Len(s)
    BY <1>1
  <2> QED
    BY <1>1, <2>1, <2>2 DEF Exits
<1>8. ASSUME f.side = "sell"
      PROVE  Exits(t) = Exits(s) \cup {Len(s) + 1}
  <2>1. \A i \in 1..(Len(s) + 1) : i # Len(s) + 1 => i \in 1..Len(s)
    BY <1>1
  <2>2. Len(s) + 1 \in 1..(Len(s) + 1)
    BY <1>1
  <2> QED
    BY <1>1, <1>8, <2>1, <2>2 DEF Exits
<1>9. f.side = "buy" => Gains(t) = Gains(s)
  BY <1>4, <1>7 DEF Gains
<1>10. f.side = "sell" =>
        Gains(t) = Gains(s) \cup (IF Gain(t, Len(s) + 1) THEN {Len(s) + 1} ELSE {})
  <2>1. \A i \in Exits(s) : i \in Gains(s) <=> Gain(t, i)
    BY <1>4 DEF Gains
  <2>2. \A i : i \in Gains(t) <=> i \in Exits(t) /\ Gain(t, i)
    BY DEF Gains
  <2> QED
    BY <1>5, <1>8, <2>1, <2>2
<1> QED
  BY <1>3, <1>5, <1>6, <1>7, <1>8, <1>9, <1>10 DEF t

LEMMA OneMoreTrade ==
    ASSUME NEW s \in Seq(FillRecords), NEW f \in FillRecords
    PROVE  /\ TradesOf(Append(s, f)) = TradeStep(TradesOf(s), f)
           /\ Rebuilt(Append(s, f)) = AfterFill(Rebuilt(s), f)
<1>1. \A q : TradesOf(q) = TradeFold!Fold(NoTrades, q)
  BY DEF TradesOf, TradeFold!Fold, FoldLeft,
         TradeFold!MapThenFoldSet, MapThenFoldSet, TradeFold!Greatest, Max
<1>2. TradesOf(Append(s, f)) = TradeStep(TradesOf(s), f)
  BY <1>1, TradeFold!FoldAppend
<1>3. f.type = "fill"
  BY DEF FillRecords
<1> QED
  BY <1>2, <1>3, OneMoreEvent

\* TradesOf is a record of the fields TradeStep replaces.
TradeRecords == [position: Int, n: Int, d: Int, closes: Int, wins: Int]

\* Counting trades and replaying fills keep their records typed.
LEMMA TradesTyped ==
    ASSUME NEW s \in Seq(FillRecords)
    PROVE  TradesOf(s) \in TradeRecords
<1> DEFINE S == {q \in Seq(FillRecords) : TradesOf(q) \in TradeRecords}
<1>1. << >> \in S
  <2>1. TradesOf(<< >>) = TradeFold!Fold(NoTrades, << >>)
    BY DEF TradesOf, TradeFold!Fold, FoldLeft,
           TradeFold!MapThenFoldSet, MapThenFoldSet, TradeFold!Greatest, Max
  <2>2. NoTrades \in TradeRecords
    BY DEF NoTrades, TradeRecords
  <2>3. << >> \in Seq(FillRecords)
    OBVIOUS
  <2> QED
    BY <2>1, <2>2, <2>3, TradeFold!FoldEmpty
<1>2. ASSUME NEW q \in S, NEW f \in FillRecords
      PROVE  Append(q, f) \in S
  <2>1. q \in Seq(FillRecords) /\ TradesOf(q) \in TradeRecords
    BY <1>2
  <2>2. PICK t \in TradeRecords : t = TradesOf(q)
    BY <2>1
  <2>3. /\ f.quantity \in Int /\ f.price \in Int
        /\ t.position \in Int /\ t.n \in Int /\ t.d \in Int
        /\ t.closes \in Int /\ t.wins \in Int
    BY DEF FillRecords, TradeRecords
  <2>4. \A x, y \in Int : x * y \in Int /\ x + y \in Int /\ x - y \in Int
    OBVIOUS
  <2>6. TradeStep(t, f) \in TradeRecords
    <3>1. CASE f.side = "buy"
      <4> DEFINE p == t.position + f.quantity
                 n == IF p = 0 THEN 0
                      ELSE IF t.position = 0 THEN f.price
                      ELSE t.position * t.n + f.quantity * f.price * t.d
                 d == IF p = 0 \/ t.position = 0 THEN 1 ELSE p * t.d
      <4>1. TradeStep(t, f) = [t EXCEPT !.position = p, !.n = n, !.d = d]
        BY <3>1 DEF TradeStep
      <4>2. p \in Int
        BY <2>3, <2>4
      <4>3. t.position * t.n \in Int /\ (f.quantity * f.price) * t.d \in Int
            /\ p * t.d \in Int
        BY <2>3, <2>4, <4>2
      <4>4. n \in Int /\ d \in Int
        BY <2>3, <2>4, <4>3
      <4> HIDE DEF p, n, d
      <4>5. PICK x \in Int, y \in Int, z \in Int : x = p /\ y = n /\ z = d
        BY <4>2, <4>4
      <4>6. [t EXCEPT !.position = x, !.n = y, !.d = z] \in TradeRecords
        BY ONLY t \in TradeRecords, x \in Int, y \in Int, z \in Int DEF TradeRecords
      <4> QED
        BY <4>1, <4>5, <4>6
    <3>2. CASE f.side # "buy"
      <4>1. PICK w \in Int : TradeStep(t, f)
                = [t EXCEPT !.position = t.position - f.quantity,
                            !.closes = t.closes + 1, !.wins = w]
        <5> DEFINE closed == IF t.position > 0 THEN Smaller(f.quantity, t.position)
                             ELSE f.quantity
                   won == (f.price * t.d - t.n) * closed > f.fee * t.d
                   w == IF won THEN t.wins + 1 ELSE t.wins
        <5>1. TradeStep(t, f)
                = [t EXCEPT !.position = t.position - f.quantity,
                            !.closes = t.closes + 1, !.wins = w]
          BY <3>2 DEF TradeStep
        <5> HIDE DEF won
        <5>2. w \in Int
          BY <2>3
        <5> QED
          BY <5>1, <5>2
      <4>2. PICK x \in Int, y \in Int : x = t.position - f.quantity /\ y = t.closes + 1
        BY <2>3
      <4>3. [t EXCEPT !.position = x, !.closes = y, !.wins = w] \in TradeRecords
        BY ONLY t \in TradeRecords, x \in Int, y \in Int, w \in Int DEF TradeRecords
      <4> QED
        BY <4>1, <4>2, <4>3
    <3> QED
      BY <3>1, <3>2
  <2>7. Append(q, f) \in Seq(FillRecords)
    BY <2>1
  <2> QED
    BY <2>1, <2>2, <2>6, <2>7, OneMoreTrade
<1> HIDE DEF S
<1>3. Seq(FillRecords) \subseteq S
  BY <1>1, <1>2, FillFold!SequenceInduction
<1> QED
  BY <1>3 DEF S

LEMMA ReplayTyped ==
    ASSUME NEW s \in Seq(FillRecords)
    PROVE  Rebuilt(s) \in Accounts
<1> DEFINE S == {q \in Seq(FillRecords) : Rebuilt(q) \in Accounts}
<1>1. << >> \in S
  <2>1. << >> \in Seq(FillRecords)
    OBVIOUS
  <2>2. NewAccount \in Accounts
    BY TradingAssumption DEF NewAccount, Accounts
  <2> QED
    BY <2>1, <2>2, NoEvents
<1>2. ASSUME NEW q \in S, NEW f \in FillRecords
      PROVE  Append(q, f) \in S
  <2>1. q \in Seq(FillRecords) /\ Rebuilt(q) \in Accounts
    BY <1>2
  <2>2. PICK a \in Accounts : a = Rebuilt(q)
    BY <2>1
  <2>3. f.quantity \in Int /\ f.price \in Int /\ f.fee \in Int
        /\ a.cash \in Int /\ a.position \in Int
    BY DEF FillRecords, Accounts
  <2>4. f.price * f.quantity \in Int
    BY <2>3
  <2>5. AfterFill(a, f) \in Accounts
    <3>1. PICK x \in Int : x = f.price * f.quantity
      BY <2>4
    <3>2. \A c, n \in Int : [cash |-> c, position |-> n] \in Accounts
      BY ONLY DEF Accounts
    <3>3. CASE f.side = "buy"
      <4>1. AfterFill(a, f) = [cash |-> a.cash - (x + f.fee),
                               position |-> a.position + f.quantity]
        BY ONLY <3>1, <3>3 DEF AfterFill
      <4>2. a.cash - (x + f.fee) \in Int /\ a.position + f.quantity \in Int
        BY ONLY <2>3, x \in Int
      <4> QED
        BY ONLY <3>2, <4>1, <4>2
    <3>4. CASE f.side # "buy"
      <4>1. AfterFill(a, f) = [cash |-> a.cash + x - f.fee,
                               position |-> a.position - f.quantity]
        BY ONLY <3>1, <3>4 DEF AfterFill
      <4>2. a.cash + x - f.fee \in Int /\ a.position - f.quantity \in Int
        BY ONLY <2>3, x \in Int
      <4> QED
        BY ONLY <3>2, <4>1, <4>2
    <3> QED
      BY ONLY <3>3, <3>4
  <2>6. Append(q, f) \in Seq(FillRecords)
    BY <2>1
  <2> QED
    BY <2>1, <2>2, <2>5, <2>6, OneMoreTrade
<1> HIDE DEF S
<1>3. Seq(FillRecords) \subseteq S
  BY <1>1, <1>2, FillFold!SequenceInduction
<1> QED
  BY <1>3 DEF S

\* An entry from a flat account.
LEMMA EntryTells ==
    ASSUME NEW s \in Seq(FillRecords), NEW f \in FillRecords, RoundTrips(s),
           Rebuilt(s).position = 0, f.side = "buy", Fee = 0 => f.fee = 0
    PROVE  RoundTrips(Append(s, f))
<1> DEFINE u == Append(s, f)
<1>1. PICK t : t = TradesOf(s)
  OBVIOUS
<1>2. PICK a \in Accounts : a = Rebuilt(s)
  BY DEF RoundTrips
<1>3. /\ a.position = 0 /\ t.position = 0 /\ a.cash \in Int
      /\ t.closes = Cardinality(Exits(s))
      /\ Fee = 0 => t.wins = Cardinality(Gains(s))
  BY <1>1, <1>2 DEF RoundTrips, Accounts
<1>4. f.quantity \in Nat \ {0} /\ f.price \in Nat /\ f.fee \in Nat
  BY DEF FillRecords
<1>5. PICK v : v = TradeStep(t, f)
  OBVIOUS
<1>6. v.position = f.quantity /\ v.n = f.price /\ v.d = 1
      /\ v.closes = t.closes /\ v.wins = t.wins
  <2>1. 0 + f.quantity = f.quantity /\ f.quantity # 0
    BY <1>4
  <2>2. v = [t EXCEPT !.position = f.quantity, !.n = f.price, !.d = 1]
    BY <1>3, <1>5, <2>1 DEF TradeStep
  <2>3. PICK x : x = f.quantity
    OBVIOUS
  <2>4. PICK y : y = f.price
    OBVIOUS
  <2>5. v = [t EXCEPT !.position = x, !.n = y, !.d = 1]
    BY <2>2, <2>3, <2>4
  <2>6. t \in TradeRecords
    BY <1>1, TradesTyped
  <2>7. v.position = x /\ v.n = y /\ v.d = 1 /\ v.closes = t.closes /\ v.wins = t.wins
    BY ONLY <2>5, <2>6 DEF TradeRecords
  <2> QED
    BY <2>3, <2>4, <2>7
<1>7. PICK b : /\ b = AfterFill(a, f) /\ b \in Accounts
               /\ b.position = f.quantity
               /\ b.cash = a.cash - (f.price * f.quantity + f.fee)
  <2> DEFINE b == [cash |-> a.cash - (f.price * f.quantity + f.fee),
                   position |-> a.position + f.quantity]
  <2>1. AfterFill(a, f) = b
    BY DEF AfterFill
  <2>2. f.price * f.quantity \in Int
    BY <1>4
  <2>3. a.cash - (f.price * f.quantity + f.fee) \in Int
    BY <1>3, <1>4, <2>2
  <2>4. a.position + f.quantity = f.quantity
    BY <1>3, <1>4
  <2>5. b \in Accounts
    BY <1>4, <2>3, <2>4 DEF Accounts
  <2> QED
    BY <2>1, <2>4, <2>5
<1>8. TradesOf(u) = v /\ Rebuilt(u) = b
  BY <1>1, <1>2, <1>5, <1>7, OneMoreTrade
<1>9. Exits(u) = Exits(s) /\ Gains(u) = Gains(s)
  BY OneMoreExit
<1>10. u # << >> /\ Len(u) - 1 = Len(s) /\ SubSeq(u, 1, Len(s)) = s
  <2>1. Len(u) = Len(s) + 1 /\ Len(s) \in Nat
    OBVIOUS
  <2>2. SubSeq(u, 1, Len(s)) = s
    OBVIOUS
  <2> QED
    BY <2>1, <2>2
<1>11. CashAfter(u, Len(u) - 1) = a.cash
  BY <1>2, <1>10 DEF CashAfter
<1> HIDE DEF u
<1>12. ASSUME Fee = 0
       PROVE  b.cash = a.cash - v.n * b.position
  <2>1. f.price * f.quantity \in Int /\ f.fee = 0
    BY <1>4, <1>12
  <2> QED
    BY <1>3, <1>6, <1>7, <2>1
<1>13. b.position > 0 /\ v.position = b.position /\ v.n \in Nat
  BY <1>4, <1>6, <1>7
<1>14. RoundTrips(u) <=>
        /\ b \in Accounts /\ b.position >= 0 /\ v.position = b.position
        /\ v.closes = Cardinality(Exits(u))
        /\ Fee = 0 => v.wins = Cardinality(Gains(u))
        /\ b.position > 0 =>
            /\ v.d = 1 /\ v.n \in Nat /\ u # << >>
            /\ Fee = 0 => b.cash = CashAfter(u, Len(u) - 1) - v.n * b.position
  BY <1>8 DEF RoundTrips
<1>15. RoundTrips(u)
  <2>1. b.position >= 0 /\ v.d = 1
    BY <1>4, <1>6, <1>7
  <2>2. Fee = 0 => b.cash = CashAfter(u, Len(u) - 1) - v.n * b.position
    BY <1>11, <1>12
  <2> QED
    BY <1>3, <1>6, <1>7, <1>9, <1>10, <1>13, <1>14, <2>1, <2>2
<1> QED
  BY <1>15 DEF u

\* An exit of the whole position.
LEMMA ExitTells ==
    ASSUME NEW s \in Seq(FillRecords), NEW f \in FillRecords, RoundTrips(s),
           Rebuilt(s).position = f.quantity, f.side = "sell", Fee = 0 => f.fee = 0
    PROVE  RoundTrips(Append(s, f))
<1> DEFINE u == Append(s, f)
           before == CashAfter(s, Len(s) - 1)
<1>1. PICK t : t = TradesOf(s)
  OBVIOUS
<1>2. PICK a \in Accounts : a = Rebuilt(s)
  BY DEF RoundTrips
<1>3. f.quantity \in Nat \ {0} /\ f.price \in Nat /\ f.fee \in Nat
  BY DEF FillRecords
<1>4. /\ a.position = f.quantity /\ t.position = f.quantity /\ a.cash \in Int
      /\ t.closes = Cardinality(Exits(s))
      /\ Fee = 0 => t.wins = Cardinality(Gains(s))
      /\ t.d = 1 /\ t.n \in Nat /\ s # << >>
      /\ Fee = 0 => a.cash = before - t.n * f.quantity
  <2>1. f.quantity > 0
    BY <1>3
  <2> QED
    BY <1>1, <1>2, <2>1 DEF RoundTrips, Accounts
<1>5. t \in TradeRecords
  BY <1>1, TradesTyped
<1>6. PICK v : v = TradeStep(t, f)
  OBVIOUS
<1> DEFINE won == (f.price * t.d - t.n) * f.quantity > f.fee * t.d
<1>7. /\ v.position = 0 /\ v.closes = t.closes + 1
      /\ v.wins = IF won THEN t.wins + 1 ELSE t.wins
  <2>1. Smaller(f.quantity, t.position) = f.quantity /\ t.position > 0
        /\ t.position - f.quantity = 0
    BY <1>3, <1>4 DEF Smaller
  <2>2. v = [t EXCEPT !.position = t.position - f.quantity, !.closes = t.closes + 1,
                      !.wins = IF won THEN t.wins + 1 ELSE t.wins]
    BY <1>6, <2>1 DEF TradeStep
  <2> HIDE DEF won
  <2>3. PICK x : x = t.position - f.quantity
    OBVIOUS
  <2>4. v = [t EXCEPT !.position = x, !.closes = t.closes + 1,
                      !.wins = IF won THEN t.wins + 1 ELSE t.wins]
    BY <2>2, <2>3
  <2>5. /\ v.position = x /\ v.closes = t.closes + 1
        /\ v.wins = IF won THEN t.wins + 1 ELSE t.wins
    BY ONLY <1>5, <2>4 DEF TradeRecords
  <2> QED
    BY <2>1, <2>3, <2>5
<1>8. PICK b : /\ b = AfterFill(a, f) /\ b \in Accounts /\ b.position = 0
               /\ b.cash = a.cash + f.price * f.quantity - f.fee
  <2> DEFINE b == [cash |-> a.cash + f.price * f.quantity - f.fee,
                   position |-> a.position - f.quantity]
  <2>1. AfterFill(a, f) = b
    BY DEF AfterFill
  <2>2. f.price * f.quantity \in Int
    BY <1>3
  <2>3. a.cash + f.price * f.quantity - f.fee \in Int
    BY <1>3, <1>4, <2>2
  <2>4. a.position - f.quantity = 0
    BY <1>3, <1>4
  <2>5. b \in Accounts
    BY <2>3, <2>4 DEF Accounts
  <2> QED
    BY <2>1, <2>4, <2>5
<1>9. TradesOf(u) = v /\ Rebuilt(u) = b
  BY <1>1, <1>2, <1>6, <1>8, OneMoreTrade
<1>10. v.closes = Cardinality(Exits(u))
  <2>1. /\ IsFiniteSet(Exits(s)) /\ Len(s) + 1 \notin Exits(s)
        /\ Exits(u) = Exits(s) \cup {Len(s) + 1}
    BY OneMoreExit
  <2>2. Cardinality(Exits(s) \cup {Len(s) + 1}) = Cardinality(Exits(s)) + 1
    BY <2>1, FS_AddElement
  <2> QED
    BY <1>4, <1>7, <2>1, <2>2
<1>11. ASSUME Fee = 0
       PROVE  v.wins = Cardinality(Gains(u))
  <2>1. Gain(u, Len(s) + 1) <=> b.cash > before
    <3>1. SubSeq(u, 1, Len(s) + 1) = u
      OBVIOUS
    <3>2. SubSeq(u, 1, Len(s) - 1) = SubSeq(s, 1, Len(s) - 1)
      OBVIOUS
    <3>3. (Len(s) + 1) - 2 = Len(s) - 1
      OBVIOUS
    <3> HIDE DEF u
    <3> QED
      BY <1>9, <3>1, <3>2, <3>3 DEF Gain, CashAfter
  <2>2. before \in Int
    <3>1. PICK k \in Int : k = t.n * f.quantity
      BY <1>3, <1>4
    <3>2. a.cash = before - k
      BY <1>4, <1>11, <3>1
    <3>3. SubSeq(s, 1, Len(s) - 1) \in Seq(FillRecords)
      BY <1>4
    <3>4. before = Rebuilt(SubSeq(s, 1, Len(s) - 1)).cash
      BY DEF CashAfter
    <3> QED
      BY <3>3, <3>4, ReplayTyped DEF Accounts
  <2>3. won <=> b.cash > before
    <3>1. PICK p \in Int, n \in Int, q \in Int : p = f.price /\ n = t.n /\ q = f.quantity
      BY <1>3, <1>4
    <3>2. PICK x \in Int, y \in Int, z \in Int : x = p * q /\ y = n * q /\ z = (p - n) * q
      OBVIOUS
    <3>3. z = x - y
      BY <3>2
    <3>4. won <=> z > 0
      <4>1. t.d = 1 /\ f.fee = 0
        BY <1>4, <1>11
      <4>2. f.price * t.d = p /\ f.fee * t.d = 0
        BY ONLY <3>1, <4>1
      <4>3. (f.price * t.d - t.n) * f.quantity = z
        BY ONLY <3>1, <3>2, <4>2
      <4> QED
        BY ONLY <4>2, <4>3
    <3>5. b.cash = (before - y) + x
      <4>1. f.fee = 0 /\ a.cash = before - y /\ b.cash = a.cash + x - f.fee
        BY <1>4, <1>8, <1>11, <3>1, <3>2
      <4>2. a.cash \in Int
        BY <1>4 DEF Accounts
      <4> HIDE DEF before
      <4> QED
        BY <2>2, <4>1, <4>2
    <3> HIDE DEF before, won
    <3> QED
      BY <2>2, <3>3, <3>4, <3>5
  <2>4. t.wins = Cardinality(Gains(s))
    BY <1>4, <1>11
  <2>5. /\ IsFiniteSet(Gains(s)) /\ Len(s) + 1 \notin Gains(s)
        /\ Gains(u)
            = Gains(s) \cup (IF Gain(u, Len(s) + 1) THEN {Len(s) + 1} ELSE {})
    BY OneMoreExit
  <2>6. Cardinality(Gains(s) \cup {Len(s) + 1}) = Cardinality(Gains(s)) + 1
    BY <2>5, FS_AddElement
  <2> HIDE DEF u, won
  <2> QED
    BY <1>7, <2>1, <2>3, <2>4, <2>5, <2>6
<1> HIDE DEF u
<1> QED
  BY <1>7, <1>8, <1>9, <1>10, <1>11 DEF RoundTrips, u

-----------------------------------------------------------------------------
(* The record. *)

\* Fills replay to the account their stream does.
LEMMA FillsReplay ==
    ASSUME NEW s \in Seq(Events)
    PROVE  Rebuilt(Fills(s)) = Rebuilt(s)
<1> DEFINE S == {q \in Seq(Events) : Rebuilt(Fills(q)) = Rebuilt(q)}
<1>1. << >> \in S
  <2>1. << >> \in Seq(Events)
    OBVIOUS
  <2> QED
    BY <2>1, NoEvents
<1>2. ASSUME NEW q \in S, NEW e \in Events
      PROVE  Append(q, e) \in S
  <2>1. /\ q \in Seq(Events) /\ Append(q, e) \in Seq(Events)
        /\ Rebuilt(Fills(q)) = Rebuilt(q) /\ Fills(q) \in Seq(FillRecords)
    BY <1>2, EventsSplit
  <2>2. CASE e \in FillRecords /\ e.type = "fill"
    <3>1. /\ Fills(Append(q, e)) = Append(Fills(q), e)
          /\ Rebuilt(Append(q, e)) = AfterFill(Rebuilt(q), e)
      BY <2>1, <2>2, OneMoreEvent
    <3>2. Rebuilt(Append(Fills(q), e)) = AfterFill(Rebuilt(Fills(q)), e)
      BY <2>1, <2>2, OneMoreTrade
    <3> QED
      BY <2>1, <3>1, <3>2
  <2>3. CASE e \in MarkRecords /\ e.type = "mark"
    <3>1. Fills(Append(q, e)) = Fills(q) /\ Rebuilt(Append(q, e)) = Rebuilt(q)
      BY <2>1, <2>3, OneMoreEvent
    <3> QED
      BY <2>1, <3>1
  <2> QED
    BY <2>2, <2>3, EventKinds
<1> HIDE DEF S
<1>3. Seq(Events) \subseteq S
  BY <1>1, <1>2, FillFold!SequenceInduction
<1> QED
  BY <1>3 DEF S

\* A stream whose fills are round trips and, with room for costs, whose
\* equities are not negative.
Recorded(events) ==
    /\ RoundTrips(Fills(events))
    /\ EquityCurve(events) \in Seq(Int)
    /\ RoomForCosts => EquityCurve(events) \in Seq(Nat)

Records == Recorded(view.events) /\ Recorded(saved.events)

LEMMA RecordsInit == Init => Records
<1>1. Recorded(<< >>)
  <2>1. EquityCurve(<< >>) = << >>
    BY NoEvents DEF EquityCurve
  <2>2. << >> \in Seq(Int) /\ << >> \in Seq(Nat)
    OBVIOUS
  <2> QED
    BY <2>1, <2>2, NoEvents, NoRoundTrips DEF Recorded
<1> QED
  BY <1>1 DEF Init, NoRows, Records

\* A submitted order is an entry or an exit in full.
LEMMA SubmitRecords ==
    ASSUME Sound, Truth, Records, NEW side \in Side, Submit(side)
    PROVE  Recorded(view'.events)
<1>1. PICK f : /\ f = Fill(side, OrderQuantity(side), Close)
               /\ f \in FillRecords /\ f.type = "fill"
  BY SubmittedFill
<1>2. /\ stage = "trade" /\ Order(side) /\ OrderQuantity(side) > 0
      /\ view' = [view EXCEPT !.events = Append(@, f)]
  BY <1>1 DEF Submit, Order
<1>3. /\ view.events \in Seq(Events) /\ f \in Events
      /\ view'.events = Append(view.events, f)
  BY <1>1, <1>2, TruthTypes DEF Truth, TypeOK, Rows, Events
<1>4. PICK s \in Seq(FillRecords) : s = Fills(view.events)
  BY <1>3, EventsSplit
<1>5. Rebuilt(s) = account
  BY <1>2, <1>3, <1>4, FillsReplay DEF Truth, Replays
<1>6. RoundTrips(s)
  BY <1>4 DEF Records, Recorded
<1>7. f.side = side /\ f.quantity = OrderQuantity(side)
      /\ f.fee = Commission(OrderQuantity(side))
  BY <1>1 DEF Fill
<1>8. Fee = 0 => f.fee = 0
  <2>1. OrderQuantity(side) \in Nat
    BY <1>2, SubmittedOrder
  <2> QED
    BY <1>7, <2>1 DEF Commission
<1>9. RoundTrips(Append(s, f))
  <2>1. CASE side = "buy"
    <3>1. Rebuilt(s).position = 0
      BY <1>2, <1>5, <2>1, SubmittedOrder
    <3> QED
      BY <1>1, <1>6, <1>7, <1>8, <2>1, <3>1, EntryTells
  <2>2. CASE side = "sell"
    <3>1. Rebuilt(s).position = f.quantity
      BY <1>2, <1>5, <1>7, <2>2, SubmittedOrder
    <3> QED
      BY <1>1, <1>6, <1>7, <1>8, <2>2, <3>1, ExitTells
  <2> QED
    BY <2>1, <2>2 DEF Side
<1>10. /\ Fills(view'.events) = Append(s, f)
       /\ EquityCurve(view'.events) = EquityCurve(view.events)
  BY <1>1, <1>3, <1>4, OneMoreEvent, OneMoreMark
<1> QED
  BY <1>9, <1>10 DEF Recorded, Records

LEMMA MarkRecorded ==
    ASSUME Sound, Truth, Records, MarkToMarket
    PROVE  Recorded(view'.events)
<1>0. /\ Close \in Closes /\ account \in Accounts /\ EquityNow \in Int
      /\ EquityNow = account.cash + account.position * Mark(Close)
  BY CloseTyped, EquityTyped DEF Sound, Typed, EquityNow, Equity
<1>1. PICK m : m = [type |-> "mark", equity |-> EquityNow]
  OBVIOUS
<1>2. m \in Events /\ m.type = "mark" /\ m.equity = EquityNow
  BY <1>0, <1>1 DEF Events, MarkRecords, Money
<1>3. view.events \in Seq(Events) /\ view'.events = Append(view.events, m)
  BY <1>1, TruthTypes DEF MarkToMarket, Truth, TypeOK, Rows
<1>4. Fills(view'.events) = Fills(view.events)
  BY <1>2, <1>3, OneMoreEvent
<1>5. EquityCurve(view'.events) = Append(EquityCurve(view.events), EquityNow)
  BY <1>2, <1>3, OneMoreMark
<1>6. Append(EquityCurve(view.events), EquityNow) \in Seq(Int)
  BY <1>0 DEF Records, Recorded
<1>7. ASSUME RoomForCosts
      PROVE  Append(EquityCurve(view.events), EquityNow) \in Seq(Nat)
  <2>1. account.cash \in Nat /\ account.position \in Nat
    BY <1>0, <1>7 DEF Sound, Accounts
  <2>2. Mark(Close) \in Nat
    BY <1>0, PricesTyped
  <2>3. account.position * Mark(Close) \in Nat
    BY <2>1, <2>2
  <2>4. EquityNow \in Nat
    BY <1>0, <2>1, <2>3
  <2> QED
    BY <1>7, <2>4 DEF Records, Recorded
<1> QED
  BY <1>4, <1>5, <1>6, <1>7 DEF Records, Recorded

LEMMA RecordsStep ==
    ASSUME Sound, Truth, Records, [Next]_vars
    PROVE  Records'
<1>0. view \in Rows
  BY DEF Truth, TypeOK
<1>1. \A e : Recorded(e)' <=> Recorded(e)
  <2>1. RoomForCosts' <=> RoomForCosts
    BY DEF RoomForCosts, FillPrice, CrossSpread, Mark
  <2> QED
    BY <2>1 DEF Recorded
<1>2. CASE Recorded(view'.events) /\ saved' = saved
  BY <1>1, <1>2 DEF Records
<1>3. CASE saved' = view /\ view' = view
  BY <1>1, <1>3 DEF Records
<1>4. CASE view' = saved /\ saved' = saved
  BY <1>1, <1>4 DEF Records
<1>5. CASE view'.events = view.events /\ saved' = saved
  BY <1>1, <1>5 DEF Records
<1>6. ASSUME NEW side \in Side, Submit(side)
      PROVE  Records'
  BY <1>2, <1>6, SubmitRecords DEF Submit
<1>7. CASE MarkToMarket
  BY <1>2, <1>7, MarkRecorded DEF MarkToMarket
<1>8. ASSUME NEW kind, NEW side, Block(kind, side)
      PROVE  Records'
  BY <1>0, <1>5, <1>8 DEF Block, Rows
<1>9. CASE StartEvaluation \/ Qualify
  BY <1>0, <1>5, <1>9 DEF StartEvaluation, Qualify, Rows
<1> QED
  BY <1>3, <1>4, <1>5, <1>6, <1>7, <1>8, <1>9
     DEF Next, NextBar, NoSignal, BlockedByGuardrail, BlockedByRisk,
         NothingToOrder, CommitTick, CommitEnd, Abort, vars

LEMMA RecordsAlways == Spec => []Records
<1>1. Sound /\ Truth /\ Records /\ [Next]_vars => Records'
  BY RecordsStep
<1> QED
  BY <1>1, RecordsInit, SoundAlways, TruthAlways, PTL DEF Spec

-----------------------------------------------------------------------------
(* The limits. *)

\* The fill at index i was made on the bar after the marks before it, within
\* the limits of the account and of the marks the events before it lead to.
TradeBar(events, i) == Len(History) + Len(Marks(SubSeq(events, 1, i - 1))) + 1

FillWithin(events, cs, i) ==
    LET before == SubSeq(events, 1, i - 1)
    IN  /\ TradeBar(events, i) \in 1..Len(cs)
        /\ WithinLimits(Equity(Rebuilt(before), cs[TradeBar(events, i)]),
                        EquityCurve(before))

FillsWithin(events, cs) ==
    \A i \in DOMAIN events : events[i].type = "fill" => FillWithin(events, cs, i)

\* No mark of the stream is above the peak, nor is the account while a trade
\* of this bar is pending.
Guarded ==
    /\ FillsWithin(view.events, closes) /\ FillsWithin(saved.events, closes)
    /\ stage # "gone" =>
        \A k \in DOMAIN EquityCurve(view.events) : EquityCurve(view.events)[k] <= peak
    /\ stage \in {"trade", "mark"} => EquityNow <= peak

\* More bars change no trade.
LEMMA FillsWithinOnMoreBars ==
    ASSUME NEW s \in Seq(Events), NEW cs \in Seq(Closes), NEW c \in Closes,
           FillsWithin(s, cs)
    PROVE  FillsWithin(s, Append(cs, c))
<1> DEFINE ds == Append(cs, c)
<1>1. /\ Len(cs) \in Nat /\ Len(ds) = Len(cs) + 1
      /\ \A k \in 1..Len(cs) : ds[k] = cs[k]
  OBVIOUS
<1> HIDE DEF ds
<1> SUFFICES ASSUME NEW i \in DOMAIN s, s[i].type = "fill"
             PROVE  FillWithin(s, ds, i)
  BY DEF FillsWithin, ds
<1>2. FillWithin(s, cs, i)
  BY DEF FillsWithin
<1>3. TradeBar(s, i) \in 1..Len(cs) /\ TradeBar(s, i) \in 1..Len(ds)
  BY <1>1, <1>2 DEF FillWithin
<1> QED
  BY <1>1, <1>2, <1>3 DEF FillWithin

\* One more event changes no trade before it.
LEMMA EarlierFillsWithin ==
    ASSUME NEW s \in Seq(Events), NEW e \in Events, NEW cs,
           FillsWithin(s, cs), e.type = "fill" => FillWithin(Append(s, e), cs, Len(s) + 1)
    PROVE  FillsWithin(Append(s, e), cs)
<1> DEFINE t == Append(s, e)
<1>1. /\ DOMAIN t = 1..(Len(s) + 1) /\ DOMAIN s = 1..Len(s) /\ Len(s) \in Nat
      /\ t[Len(s) + 1] = e /\ \A i \in 1..Len(s) : t[i] = s[i]
  OBVIOUS
<1>2. \A i \in 1..Len(s) : SubSeq(t, 1, i - 1) = SubSeq(s, 1, i - 1)
  OBVIOUS
<1> HIDE DEF t
<1> SUFFICES ASSUME NEW i \in DOMAIN t, t[i].type = "fill"
             PROVE  FillWithin(t, cs, i)
  BY DEF FillsWithin, t
<1>3. CASE i = Len(s) + 1
  BY <1>1, <1>3 DEF t
<1>4. CASE i \in 1..Len(s)
  <2>1. FillWithin(s, cs, i)
    BY <1>1, <1>4 DEF FillsWithin
  <2> QED
    BY <1>1, <1>2, <1>4, <2>1 DEF FillWithin, TradeBar
<1> QED
  BY <1>1, <1>3, <1>4

\* An account that is not halted is within the limits of a curve that has not
\* been above the peak.
LEMMA NotHaltedWithin ==
    ASSUME NEW equity \in Int, NEW top \in Int, NEW curve \in Seq(Int),
           ~Halted(equity, top), \A k \in DOMAIN curve : curve[k] <= top
    PROVE  WithinLimits(equity, curve)
<1>1. /\ MaxDrawdown \in 1..100 /\ DailyLossLimit \in 1..100
      /\ StartingCash \in Int
  BY TradingAssumption
<1>2. ~KillSwitch /\ 100 * (equity - StartingCash) > -DailyLossLimit * StartingCash
  <2>1. \A l, x \in Int : -l * x \in Int
    OBVIOUS
  <2> QED
    BY <1>1, <2>1 DEF Halted
<1>3. ASSUME NEW k \in DOMAIN curve, curve[k] > 0
      PROVE  100 * (equity - curve[k]) > -MaxDrawdown * curve[k]
  <2> DEFINE m == curve[k]
  <2>1. m \in Int /\ m > 0 /\ m <= top /\ top > 0
    BY <1>3
  <2> HIDE DEF m
  <2>2. ~(100 * (equity - top) <= -MaxDrawdown * top)
    BY <2>1 DEF Halted
  <2>3. /\ -MaxDrawdown * top = -(MaxDrawdown * top) /\ MaxDrawdown * top \in Int
        /\ -MaxDrawdown * m = -(MaxDrawdown * m) /\ MaxDrawdown * m \in Int
    <3>1. \A l, x \in Int : -l * x = -(l * x) /\ l * x \in Int
      OBVIOUS
    <3> QED
      BY <1>1, <2>1, <3>1
  <2>4. MaxDrawdown * (top - m) <= 100 * (top - m)
    <3>1. \A l \in 1..100 : \A x \in Nat : l * x <= 100 * x
      OBVIOUS
    <3> QED
      BY <1>1, <2>1, <3>1
  <2>5. MaxDrawdown * (top - m) = MaxDrawdown * top - MaxDrawdown * m
    <3>1. \A l, x, y \in Int : l * (x - y) = l * x - l * y
      OBVIOUS
    <3> QED
      BY <1>1, <2>1, <3>1
  <2>6. 100 * (equity - m) > -MaxDrawdown * m
    BY <2>1, <2>2, <2>3, <2>4, <2>5
  <2> QED
    BY <2>6 DEF m
<1> QED
  BY <1>2, <1>3 DEF WithinLimits

LEMMA GuardedInit == Init => Guarded
<1> SUFFICES ASSUME Init
             PROVE  Guarded
  OBVIOUS
<1>1. view.events = << >> /\ saved.events = << >> /\ stage = "new"
  BY DEF Init, NoRows
<1>2. DOMAIN EquityCurve(<< >>) = {}
  BY NoEvents DEF EquityCurve
<1>3. FillsWithin(<< >>, closes)
  BY DEF FillsWithin
<1> QED
  BY <1>1, <1>2, <1>3 DEF Guarded

LEMMA NextBarGuarded ==
    ASSUME Sound, Truth, Records, Guarded, NEW c \in Closes, NextBar(c)
    PROVE  Guarded'
<1>1. /\ stage = "tick" /\ stage' = "trade" /\ closes' = Append(closes, c)
      /\ peak' = Larger(peak, Equity(account, c))
      /\ UNCHANGED <<account, view, saved>>
  BY DEF NextBar
<1>2. /\ view.events \in Seq(Events) /\ saved.events \in Seq(Events)
      /\ closes \in Seq(Closes)
  BY TruthTypes DEF Truth
<1>3. /\ FillsWithin(view.events, Append(closes, c))
      /\ FillsWithin(saved.events, Append(closes, c))
  BY <1>2, FillsWithinOnMoreBars DEF Guarded
<1>4. /\ peak \in Int /\ Equity(account, c) \in Int
      /\ peak' \in Int /\ peak <= peak' /\ Equity(account, c) <= peak'
  BY <1>1, EquityTyped DEF Sound, Typed, Larger
<1>5. \A k \in DOMAIN EquityCurve(view.events) : EquityCurve(view.events)[k] <= peak'
  <2>1. EquityCurve(view.events) \in Seq(Int)
    BY DEF Records, Recorded
  <2>2. \A k \in DOMAIN EquityCurve(view.events) :
          EquityCurve(view.events)[k] \in Int /\ EquityCurve(view.events)[k] <= peak
    <3>1. \A q \in Seq(Int) : \A k \in DOMAIN q : q[k] \in Int
      OBVIOUS
    <3> QED
      BY <1>1, <2>1, <3>1 DEF Guarded
  <2> QED
    BY <1>4, <2>2
<1>6. EquityNow' = Equity(account, c)
  <2>1. Close' = c
    BY <1>1, <1>2 DEF Close, Last
  <2> QED
    BY <1>1, <2>1 DEF EquityNow, Equity, Mark
<1> QED
  BY <1>1, <1>3, <1>4, <1>5, <1>6 DEF Guarded

LEMMA SubmitGuarded ==
    ASSUME Sound, Truth, Records, Guarded, NEW side \in Side, Submit(side)
    PROVE  Guarded'
<1>1. PICK f : /\ f = Fill(side, OrderQuantity(side), Close)
               /\ f \in FillRecords /\ f.type = "fill"
  BY SubmittedFill
<1>2. /\ stage = "trade" /\ stage' = "mark" /\ ~Halted(EquityNow, peak)
      /\ view' = [view EXCEPT !.events = Append(@, f)]
      /\ UNCHANGED <<closes, peak, saved>>
  BY <1>1 DEF Submit, Order
<1>3. /\ view.events \in Seq(Events) /\ f \in Events
      /\ view'.events = Append(view.events, f)
  BY <1>1, <1>2, TruthTypes DEF Truth, TypeOK, Rows, Events
<1>4. EquityNow \in Int /\ peak \in Int /\ EquityCurve(view.events) \in Seq(Int)
  BY CloseTyped, EquityTyped DEF Sound, Typed, EquityNow, Records, Recorded
<1>5. WithinLimits(EquityNow, EquityCurve(view.events))
  BY <1>2, <1>4, NotHaltedWithin DEF Guarded
<1>6. FillsWithin(Append(view.events, f), closes)
  <2> DEFINE t == Append(view.events, f)
             i == Len(view.events) + 1
  <2>1. SubSeq(t, 1, i - 1) = view.events
    BY <1>3
  <2>2. TradeBar(t, i) = Len(closes) /\ Len(closes) \in 1..Len(closes)
    <3>1. Len(closes) - Len(History) = Len(Marks(view.events)) + 1
      BY <1>2 DEF Truth, Replays, Tick
    <3>2. /\ Len(closes) \in Nat /\ Len(History) \in Nat
          /\ Len(Marks(view.events)) \in Nat
      BY TruthTypes DEF Truth
    <3>3. TradeBar(t, i) = Len(History) + Len(Marks(view.events)) + 1
      BY <2>1 DEF TradeBar
    <3> QED
      BY <3>1, <3>2, <3>3
  <2>3. EquityNow = Equity(Rebuilt(view.events), closes[Len(closes)])
    BY <1>2 DEF Truth, Replays, EquityNow, Close, Last
  <2> HIDE DEF t, i
  <2>4. FillWithin(t, closes, i)
    BY <1>5, <2>1, <2>2, <2>3 DEF FillWithin
  <2> QED
    BY <1>3, <2>4, EarlierFillsWithin DEF Guarded, t, i
<1>7. EquityCurve(view'.events) = EquityCurve(view.events)
  BY <1>1, <1>3, OneMoreMark
<1>8. EquityNow' <= peak
  <2>1. Equity(account', Close) <= EquityNow /\ Sound'
    BY SubmitKeepsSound
  <2>2. EquityNow' = Equity(account', Close)
    BY <1>2 DEF EquityNow, Equity, Mark, Close
  <2>3. EquityNow' \in Int
    <3>1. Close \in Closes /\ account' \in Accounts
      BY <2>1, CloseTyped DEF Sound, Typed
    <3> QED
      BY <2>2, <3>1, EquityTyped
  <2> QED
    BY <1>2, <1>4, <2>1, <2>2, <2>3 DEF Guarded
<1> QED
  BY <1>2, <1>3, <1>6, <1>7, <1>8 DEF Guarded

LEMMA MarkGuarded ==
    ASSUME Sound, Truth, Records, Guarded, MarkToMarket
    PROVE  Guarded'
<1>0. EquityNow \in Int /\ EquityCurve(view.events) \in Seq(Int)
  BY CloseTyped, EquityTyped DEF Sound, Typed, EquityNow, Records, Recorded
<1>1. PICK m : m = [type |-> "mark", equity |-> EquityNow]
  OBVIOUS
<1>2. m \in Events /\ m.type = "mark" /\ m.equity = EquityNow
  BY <1>0, <1>1 DEF Events, MarkRecords, Money
<1>3. /\ stage = "mark" /\ stage' = "commit"
      /\ UNCHANGED <<closes, account, peak, saved>>
      /\ view.events \in Seq(Events) /\ view'.events = Append(view.events, m)
  BY <1>1, TruthTypes DEF MarkToMarket, Truth, TypeOK, Rows
<1>4. FillsWithin(Append(view.events, m), closes)
  BY <1>2, <1>3, EarlierFillsWithin DEF Guarded
<1>5. EquityCurve(view'.events) = Append(EquityCurve(view.events), EquityNow)
  BY <1>2, <1>3, OneMoreMark
<1>6. \A k \in DOMAIN Append(EquityCurve(view.events), EquityNow) :
        Append(EquityCurve(view.events), EquityNow)[k] <= peak
  BY <1>0, <1>3 DEF Guarded
<1> QED
  BY <1>3, <1>4, <1>5, <1>6 DEF Guarded

LEMMA GuardedStep ==
    ASSUME Sound, Truth, Records, Guarded, [Next]_vars
    PROVE  Guarded'
<1>0. view \in Rows
  BY DEF Truth, TypeOK
<1>2. ASSUME closes' = closes, account' = account, peak' = peak,
             view'.events = view.events,
             saved' = saved \/ saved' = view,
             stage # "gone",
             stage' \in {"trade", "mark"} => stage \in {"trade", "mark"}
      PROVE  Guarded'
  <2>1. EquityNow' = EquityNow
    BY <1>2 DEF EquityNow, Equity, Mark, Close
  <2>2. FillsWithin(view.events, closes)' /\ FillsWithin(saved.events, closes)'
    BY <1>2 DEF Guarded
  <2> QED
    BY <1>2, <2>1, <2>2 DEF Guarded
<1>3. CASE StartEvaluation \/ Qualify
  BY <1>0, <1>2, <1>3 DEF StartEvaluation, Qualify, Rows
<1>4. ASSUME NEW c \in Closes, NextBar(c)
      PROVE  Guarded'
  BY <1>4, NextBarGuarded
<1>5. CASE NoSignal
  BY <1>2, <1>5 DEF NoSignal
<1>6. ASSUME NEW kind, NEW side, stage = "trade", Block(kind, side)
      PROVE  Guarded'
  BY <1>0, <1>2, <1>6 DEF Block, Rows
<1>7. CASE BlockedByGuardrail
  BY <1>6, <1>7 DEF BlockedByGuardrail
<1>8. ASSUME NEW side \in Side, BlockedByRisk(side)
      PROVE  Guarded'
  BY <1>6, <1>8 DEF BlockedByRisk, Order
<1>9. ASSUME NEW side \in Side, NothingToOrder(side)
      PROVE  Guarded'
  BY <1>2, <1>9 DEF NothingToOrder, Order
<1>10. ASSUME NEW side \in Side, Submit(side)
       PROVE  Guarded'
  BY <1>10, SubmitGuarded
<1>11. CASE MarkToMarket
  BY <1>11, MarkGuarded
<1>12. CASE CommitTick
  BY <1>2, <1>12 DEF CommitTick
<1>13. CASE CommitEnd
  BY <1>2, <1>13 DEF CommitEnd
<1>14. CASE Abort
  <2>1. stage' = "gone" /\ view' = saved /\ saved' = saved /\ closes' = closes
    BY <1>14 DEF Abort
  <2> QED
    BY <2>1 DEF Guarded
<1>15. CASE UNCHANGED vars
  <2>1. /\ stage' = stage /\ closes' = closes /\ account' = account
        /\ peak' = peak /\ view' = view /\ saved' = saved
    BY <1>15 DEF vars
  <2>2. EquityNow' = EquityNow
    BY <2>1 DEF EquityNow, Equity, Mark, Close
  <2>3. FillsWithin(view.events, closes)' /\ FillsWithin(saved.events, closes)'
    BY <2>1 DEF Guarded
  <2> QED
    BY <2>1, <2>2, <2>3 DEF Guarded
<1> QED
  BY <1>3, <1>4, <1>5, <1>7, <1>8, <1>9, <1>10, <1>11, <1>12, <1>13, <1>14,
     <1>15 DEF Next

LEMMA GuardedAlways == Spec => []Guarded
<1>1. Sound /\ Truth /\ Records /\ Guarded /\ [Next]_vars => Guarded'
  BY GuardedStep
<1> QED
  BY <1>1, GuardedInit, SoundAlways, TruthAlways, RecordsAlways, PTL DEF Spec

-----------------------------------------------------------------------------
(* The listing. *)

FeeFold == INSTANCE FoldFacts WITH Op <- AddFee

LEMMA FeesAreNatural ==
    ASSUME NEW s \in Seq(Events)
    PROVE  FeesPaid(s) \in Nat
<1> DEFINE Sum(q) == FoldLeft(AddFee, 0, q)
           S == {q \in Seq(FillRecords) : Sum(q) \in Nat}
<1>0. \A q : Sum(q) = FeeFold!Fold(0, q)
  BY DEF FeeFold!Fold, FoldLeft,
         FeeFold!MapThenFoldSet, MapThenFoldSet, FeeFold!Greatest, Max
<1> HIDE DEF Sum
<1>1. << >> \in S
  <2>1. << >> \in Seq(FillRecords)
    OBVIOUS
  <2> QED
    BY <1>0, <2>1, FeeFold!FoldEmpty
<1>2. ASSUME NEW q \in S, NEW f \in FillRecords
      PROVE  Append(q, f) \in S
  <2>1. q \in Seq(FillRecords) /\ Append(q, f) \in Seq(FillRecords) /\ Sum(q) \in Nat
    BY <1>2
  <2>2. Sum(Append(q, f)) = AddFee(Sum(q), f)
    BY <1>0, <2>1, FeeFold!FoldAppend
  <2>3. f.fee \in Nat
    BY DEF FillRecords
  <2> QED
    BY <2>1, <2>2, <2>3 DEF AddFee
<1> HIDE DEF S
<1>3. Seq(FillRecords) \subseteq S
  BY <1>1, <1>2, FeeFold!SequenceInduction
<1>4. Sum(Fills(s)) \in Nat
  BY <1>3, EventsSplit DEF S
<1> QED
  BY <1>4 DEF Sum, FeesPaid

\* The record of a stream clears the criteria that are about it.
Cleared(events) ==
    LET record == Record(events, StartingCash)
    IN  /\ record.num_trades >= MinTrades
        /\ record.max_drawdown_pct <= DrawdownCeiling
        /\ record.net_pnl > 0

\* A version is listed at the end of a run that cleared them.
Listing ==
    /\ saved.version = "listed" => stage = "over" /\ saved = view
    /\ view.version = "listed" => stage \in {"end", "over"} /\ Cleared(view.events)

LEMMA ListingInit == Init => Listing
BY DEF Init, NoRows, Listing

LEMMA ListingStep ==
    ASSUME Sound, Truth, Listing, [Next]_vars
    PROVE  Listing'
<1>0. view \in Rows /\ saved \in Rows
  BY DEF Truth, TypeOK
<1>1. \A e : Cleared(e)' <=> Cleared(e)
  BY DEF Cleared
<1>2. CASE Qualify
  <2> DEFINE record == Record(view.events, StartingCash)
  <2>1. PICK sharpeOk :
            view' = [view EXCEPT !.version =
                       IF Passes(record, EvalDays, sharpeOk)
                       THEN "listed" ELSE "delisted"]
    BY <1>2 DEF Qualify
  <2>2. stage = "tick" /\ stage' = "end" /\ saved' = saved
    BY <1>2 DEF Qualify
  <2>3. saved.version # "listed"
    BY <2>2 DEF Listing
  <2>4. view'.events = view.events
    BY <1>0, <2>1 DEF Rows
  <2>5. view'.version = "listed" => Passes(record, EvalDays, sharpeOk)
    BY <1>0, <2>1 DEF Rows
  <2>6. view'.version = "listed" => Cleared(view.events)
    BY <2>5 DEF Passes, Cleared
  <2> QED
    BY <1>1, <2>2, <2>3, <2>4, <2>6 DEF Listing
<1>3. CASE CommitEnd
  BY <1>1, <1>3 DEF CommitEnd, Listing
<1>4. CASE CommitTick
  BY <1>4 DEF CommitTick, Listing
<1>5. CASE Abort
  BY <1>5 DEF Abort, Live, Listing
<1>6. CASE UNCHANGED vars
  BY <1>1, <1>6 DEF vars, Listing
<1>7. ASSUME stage \in {"new", "tick", "trade", "mark"}, saved' = saved,
             view'.version # "listed"
      PROVE  Listing'
  BY <1>7 DEF Listing
<1>8. CASE StartEvaluation
  <2>1. view'.version = "evaluation"
    BY <1>0, <1>8 DEF StartEvaluation, Rows
  <2> QED
    BY <1>7, <1>8, <2>1 DEF StartEvaluation
<1>9. ASSUME stage \in {"new", "tick", "trade", "mark"}, saved' = saved,
             view'.version = view.version
      PROVE  Listing'
  BY <1>7, <1>9 DEF Listing
<1>10. ASSUME NEW kind, NEW side, stage = "trade", Block(kind, side)
       PROVE  Listing'
  BY <1>0, <1>9, <1>10 DEF Block, Rows
<1>11. ASSUME NEW side \in Side, Submit(side)
       PROVE  Listing'
  BY <1>0, <1>9, <1>11 DEF Submit, Order, Rows
<1>12. CASE MarkToMarket
  BY <1>0, <1>9, <1>12 DEF MarkToMarket, Rows
<1>13. CASE BlockedByGuardrail \/ \E side \in Side : BlockedByRisk(side)
  <2>1. \E kind, side : stage = "trade" /\ Block(kind, side)
    BY <1>13 DEF BlockedByGuardrail, BlockedByRisk, Order
  <2> QED
    BY <1>10, <2>1
<1>14. CASE NoSignal \/ \E c \in Closes : NextBar(c)
  BY <1>9, <1>14 DEF NoSignal, NextBar
<1>15. CASE \E side \in Side : NothingToOrder(side)
  BY <1>9, <1>15 DEF NothingToOrder, Order
<1> QED
  BY <1>2, <1>3, <1>4, <1>5, <1>6, <1>8, <1>11, <1>12, <1>13, <1>14, <1>15 DEF Next

LEMMA ListingAlways == Spec => []Listing
<1>1. Sound /\ Truth /\ Listing /\ [Next]_vars => Listing'
  BY ListingStep
<1> QED
  BY <1>1, ListingInit, SoundAlways, TruthAlways, PTL DEF Spec

\* A rounded share within a ceiling is below the next hundredth.
LEMMA RoundedWithin ==
    ASSUME NEW n \in Nat, NEW d \in Nat \ {0}, NEW ceiling \in Nat,
           RoundHalfEven(10000 * n, d) <= ceiling
    PROVE  10000 * n <= (ceiling + 1) * d
<1>1. PICK a \in Int : a = 10000 * n
  OBVIOUS
<1>2. /\ RoundHalfEven(a, d) \in {a \div d, a \div d + 1}
      /\ a \div d \in Int /\ (a % d) \in 0..(d - 1)
      /\ a = d * (a \div d) + (a % d)
  BY ONLY a \in Int, d \in Nat \ {0}, RoundTyped
<1>3. PICK q, r : q = a \div d /\ r = (a % d)
  OBVIOUS
<1>4. /\ q \in Int /\ r \in 0..(d - 1) /\ a = d * q + r
      /\ RoundHalfEven(a, d) \in {q, q + 1}
  BY ONLY <1>2, <1>3
<1>5. q <= ceiling
  <2>1. RoundHalfEven(a, d) <= ceiling
    BY <1>1
  <2> QED
    BY <1>4, <2>1
<1>6. q * d <= ceiling * d
  <2>1. q \in Int
    BY <1>4
  <2> QED
    BY ONLY <1>5, <2>1, ceiling \in Nat, d \in Nat \ {0}
<1>7. (ceiling + 1) * d = ceiling * d + d /\ d * q = q * d
      /\ q * d \in Int /\ ceiling * d \in Int
  <2>1. q \in Int
    BY <1>4
  <2> QED
    BY ONLY <2>1, ceiling \in Nat, d \in Nat \ {0}
<1> QED
  BY <1>1, <1>4, <1>6, <1>7

\* No fall of a curve exceeds the ceiling its drawdown is within.
LEMMA FallsWithin ==
    ASSUME NEW curve \in Seq(Nat), curve # << >>, NEW ceiling \in Nat,
           MaxDrawdownPct(curve) <= ceiling
    PROVE  \A i, j \in DOMAIN curve :
            i < j => 10000 * (curve[i] - curve[j]) <= (ceiling + 1) * curve[i]
<1>1. PICK n \in Nat, d \in Nat \ {0} :
        /\ MaxDrawdownPct(curve) = RoundHalfEven(10000 * n, d)
        /\ \A i, j \in DOMAIN curve :
            i < j => (curve[i] - curve[j]) * d <= n * curve[i]
  BY DrawdownOfCurve
<1>2. 10000 * n <= (ceiling + 1) * d
  BY <1>1, RoundedWithin
<1> SUFFICES ASSUME NEW i \in DOMAIN curve, NEW j \in DOMAIN curve, i < j
             PROVE  10000 * (curve[i] - curve[j]) <= (ceiling + 1) * curve[i]
  OBVIOUS
<1>3. PICK x \in Nat, y \in Int : x = curve[i] /\ y = curve[i] - curve[j]
  OBVIOUS
<1>4. y * d <= n * x
  BY <1>1, <1>3
<1>5. (10000 * y) * d <= (10000 * n) * x
  <2>1. y * d \in Int /\ n * x \in Int
    OBVIOUS
  <2>2. 10000 * (y * d) <= 10000 * (n * x)
    BY <1>4, <2>1
  <2>3. (10000 * y) * d = 10000 * (y * d) /\ (10000 * n) * x = 10000 * (n * x)
    OBVIOUS
  <2> QED
    BY <2>2, <2>3
<1>6. (10000 * n) * x <= ((ceiling + 1) * d) * x
  <2>1. PICK p \in Nat, q \in Nat : p = 10000 * n /\ q = (ceiling + 1) * d
    OBVIOUS
  <2>2. p <= q
    BY <1>2, <2>1
  <2>3. p * x <= q * x
    BY ONLY <2>2, p \in Nat, q \in Nat, x \in Nat
  <2> QED
    BY <2>1, <2>3
<1>7. PICK u \in Int, w \in Int : u = 10000 * y /\ w = (ceiling + 1) * x
  OBVIOUS
<1>8. ((ceiling + 1) * d) * x = w * d
  BY <1>7
<1>9. u * d <= w * d
  <2>1. u * d \in Int /\ w * d \in Int /\ (10000 * n) * x \in Int
    OBVIOUS
  <2> QED
    BY <1>5, <1>6, <1>7, <1>8, <2>1
<1>10. u <= w
  BY <1>9, TimesPositive
<1> QED
  BY <1>3, <1>7, <1>10
-----------------------------------------------------------------------------
(* The theorems. *)

\* However the market moves, a session that leaves room for costs is never
\* short and never in debt: submit has no check of its own for either.
THEOREM AccountStaysLongAndSolvent == Spec => []NeverShortNeverOwing
<1>1. Sound => NeverShortNeverOwing
  BY DEF Sound, NeverShortNeverOwing
<1> QED
  BY <1>1, SoundAlways, PTL

\* No trade raises the equity at the close it is made at, whatever the
\* spread, the slippage and the commission.
THEOREM FillsAreConservative == Spec => TradesCostEquity
<1> DEFINE Step == closes' = closes => Equity(account', Close) <= EquityNow
<1>1. Sound /\ [Next]_vars => [Step]_vars
  <2> SUFFICES ASSUME Sound, Next, closes' = closes
               PROVE  Equity(account', Close) <= EquityNow
    BY DEF Step
  <2>1. EquityNow \in Int
    BY CloseTyped, EquityTyped DEF Sound, Typed, EquityNow
  <2>2. ASSUME account' = account
        PROVE  Equity(account', Close) <= EquityNow
    BY <2>1, <2>2 DEF EquityNow
  <2>3. ASSUME NEW side \in Side, Submit(side)
        PROVE  Equity(account', Close) <= EquityNow
    BY <2>3, SubmitKeepsSound
  <2>4. (\E side \in Side : Submit(side)) \/ account' = account
    BY DEF Next, StartEvaluation, NextBar, NoSignal, BlockedByGuardrail, Block,
           NothingToOrder, BlockedByRisk, MarkToMarket, CommitTick, Qualify,
           CommitEnd, Abort
  <2> QED
    BY <2>2, <2>3, <2>4
<1> QED
  BY <1>1, SoundAlways, PTL DEF Spec, TradesCostEquity

\* Every trade of every session, at any await of it and on any feed, was made
\* within the loss limit and the drawdown limit (risk/guardrails.py 1-6), by
\* what the stream before it says of the account and of earlier equities.
THEOREM TradesAlwaysWithinLimits == Spec => []TradesWithinLimits
<1>1. Guarded => TradesWithinLimits
  BY DEF Guarded, FillsWithin, FillWithin, TradeBar, TradesWithinLimits
<1> QED
  BY <1>1, GuardedAlways, PTL

\* "The ledger is the source of truth" (execution/sandbox.py 4-5), at every
\* await of a session of any length on any feed: the stream replays to the
\* account in memory, every mark on it to the equity at its bar; what is
\* committed ends with a mark and is a prefix of the stream; and the client
\* has been told of the committed fills and at most one more.
THEOREM LedgerAlwaysTells == Spec => []LedgerIsTheTruth
<1>1. ASSUME Truth
      PROVE  LedgerIsTheTruth
  <2>1. LedgerRebuildsAccount
    BY <1>1 DEF LedgerRebuildsAccount, Live, Truth, Replays
  <2>2. MarksAreReproducible
    <3>1. /\ view.events \in Seq(Events) /\ saved.events \in Seq(Events)
          /\ \A f \in FillRecords : f \in Events
          /\ \A m \in MarkRecords : m \in Events
      BY <1>1, TruthTypes DEF Truth, Events
    <3>2. saved.events = SubSeq(view.events, 1, Len(saved.events))
      <4>1. \A s \in Seq(Events) : s = SubSeq(s, 1, Len(s))
        OBVIOUS
      <4>2. \A s \in Seq(Events) : \A e \in Events :
              s = SubSeq(Append(s, e), 1, Len(s))
        OBVIOUS
      <4>3. \A s \in Seq(Events) : \A d, e \in Events :
              s = SubSeq(Append(Append(s, d), e), 1, Len(s))
        OBVIOUS
      <4>4. Uncommitted
        BY <1>1 DEF Truth
      <4>5. CASE view.events = saved.events
        BY ONLY <3>1, <4>1, <4>5
      <4>6. CASE \E e \in Events : view.events = Append(saved.events, e)
        BY ONLY <3>1, <4>2, <4>6
      <4>7. CASE \E d, e \in Events :
                view.events = Append(Append(saved.events, d), e)
        BY ONLY <3>1, <4>3, <4>7
      <4>8. \/ view.events = saved.events
            \/ \E e \in Events : view.events = Append(saved.events, e)
            \/ \E d, e \in Events :
                view.events = Append(Append(saved.events, d), e)
        BY ONLY <3>1, <4>4 DEF Uncommitted
      <4> QED
        BY ONLY <4>5, <4>6, <4>7, <4>8
    <3>3. \A i \in DOMAIN view.events : view.events[i].type = "mark" =>
            view.events[i].equity =
                Equity(Rebuilt(SubSeq(view.events, 1, i)),
                       closes[Len(History) + Len(Marks(SubSeq(view.events, 1, i)))])
      BY <1>1 DEF Truth, MarksTell, MarkTells, Bar
    <3> QED
      BY <1>1, <3>2, <3>3 DEF MarksAreReproducible, Truth
  <2>3. CommitsWithinOneTick
    <3> DEFINE kept == Fills(saved.events)
    <3>1. kept \in Seq(FillRecords) /\ ToldOf(kept)
      BY <1>1, TruthTypes DEF Truth
    <3> HIDE DEF kept
    <3>2. CASE told = kept
      <4>1. Len(told) - Len(kept) = 0 /\ kept = SubSeq(told, 1, Len(kept))
        BY <3>1, <3>2
      <4> QED
        BY <4>1 DEF CommitsWithinOneTick, kept
    <3>3. ASSUME NEW f \in FillRecords, told = Append(kept, f)
          PROVE  CommitsWithinOneTick
      <4>1. Len(told) - Len(kept) = 1 /\ kept = SubSeq(told, 1, Len(kept))
        BY <3>1, <3>3
      <4> QED
        BY <4>1 DEF CommitsWithinOneTick, kept
    <3> QED
      BY <3>1, <3>2, <3>3 DEF ToldOf
  <2> QED
    BY <1>1, <2>1, <2>2, <2>3 DEF LedgerIsTheTruth, Truth
<1> QED
  BY <1>1, TruthAlways, PTL

\* "Drives the same components as the live sandbox" (backtest/service.py
\* 4-6): between ticks, the backtest of the closes so far has the session's
\* account, fills and equity curve, whatever strategy signals the averages
\* give, and though the session stops and marks at every await.
THEOREM BacktestAlwaysAgrees == Spec => []BacktestAgrees
<1>1. Backtests => BacktestAgrees
  <2>1. ASSUME Backtests, stage = "tick"
        PROVE  LET b == BacktestRun(closes, Len(History) + 1)
               IN  /\ b.account = account
                   /\ b.events = Fills(view.events)
                   /\ b.curve = EquityCurve(view.events)
    BY <2>1 DEF Backtests, SameRun, Backtested
  <2> QED
    BY <2>1 DEF BacktestAgrees
<1> QED
  BY <1>1, BacktestsAlways, PTL

\* The trades the record counts are the fills that close one, and with no
\* commission its wins are the round trips that left more cash than before
\* them, whatever the prices, the sizes and the length of the session.
THEOREM WinsAlwaysCashGains == Spec => []WinsAreCashGains
<1>1. ASSUME Truth, Records
      PROVE  WinsAreCashGains
  <2>1. PICK s : s = Fills(view.events)
    OBVIOUS
  <2>2. /\ Record(view.events, StartingCash).num_trades = TradesOf(s).closes
        /\ Record(view.events, StartingCash).wins = TradesOf(s).wins
    BY <2>1 DEF Record, Trades, TradesOf
  <2>3. RoundTrips(s)
    BY <1>1, <2>1 DEF Records, Recorded
  <2> QED
    BY <2>1, <2>2, <2>3 DEF WinsAreCashGains, RoundTrips, Gains, Gain, CashAfter
<1> QED
  BY <1>1, TruthAlways, RecordsAlways, PTL

\* With room for costs, the whole record is what the ledger shows: the
\* running peak finds the worst fall of the curve.
THEOREM RecordAlwaysShows == Spec => [](RoomForCosts => RecordShowsLedger)
<1>1. ASSUME Records, RoomForCosts
      PROVE  DrawdownIsWorstFall
  <2>1. PICK curve \in Seq(Nat) : curve = EquityCurve(view.events)
    BY <1>1 DEF Records, Recorded
  <2> QED
    BY <2>1, WorstFall DEF DrawdownIsWorstFall
<1>2. Records /\ WinsAreCashGains => (RoomForCosts => RecordShowsLedger)
  BY <1>1 DEF RecordShowsLedger
<1> QED
  BY <1>2, WinsAlwaysCashGains, RecordsAlways, PTL

\* With room for costs, a version is listed only on a committed ledger of the
\* whole run that shows a profit, enough closed trades and no fall beyond the
\* ceiling.
THEOREM ListedAlwaysOnLedger == Spec => [](RoomForCosts => ListedOnItsLedger)
<1>1. ASSUME Truth, Records, Listing, RoomForCosts, saved.version = "listed"
      PROVE  LET curve == EquityCurve(saved.events)
             IN  /\ Len(curve) = Tick
                 /\ Last(curve) > StartingCash
                 /\ \A i, j \in DOMAIN curve :
                     i < j => 10000 * (curve[i] - curve[j])
                                 <= (DrawdownCeiling + 1) * curve[i]
                 /\ Cardinality(Exits(Fills(saved.events))) >= MinTrades
  <2>1. stage = "over" /\ saved = view /\ Cleared(view.events)
    BY <1>1 DEF Listing
  <2>2. PICK events \in Seq(Events) : events = saved.events /\ events = view.events
    BY <1>1, <2>1, TruthTypes DEF Truth
  <2>3. PICK curve \in Seq(Nat) : curve = EquityCurve(events)
    BY <1>1, <2>2 DEF Records, Recorded
  <2>4. Len(curve) = Tick
    <3>1. Tick = Len(Marks(events))
      BY <1>1, <2>1, <2>2, TruthTypes DEF Truth, Replays
    <3>2. Marks(events) \in Seq(MarkRecords)
      BY EventsSplit
    <3>3. curve = [i \in DOMAIN Marks(events) |-> Marks(events)[i].equity]
      BY <2>3 DEF EquityCurve
    <3>4. DOMAIN curve = 1..Len(Marks(events)) /\ Len(Marks(events)) \in Nat
      BY <3>2, <3>3
    <3> QED
      BY <3>1, <3>4
  <2>5. /\ TradesOf(Fills(events)).closes >= MinTrades
        /\ MaxDrawdownPct(curve) <= DrawdownCeiling
        /\ (IF curve = << >> THEN -FeesPaid(events) ELSE Last(curve) - StartingCash) > 0
    BY <2>1, <2>2, <2>3 DEF Cleared, Record, Trades, TradesOf
  <2>6. curve # << >>
    BY <2>5, FeesAreNatural
  <2>7. Last(curve) > StartingCash
    <3>1. Last(curve) \in Nat /\ StartingCash \in Nat
      BY <2>6, TradingAssumption DEF Last
    <3> QED
      BY <2>5, <2>6, <3>1
  <2>8. DrawdownCeiling \in Nat
    BY PerformanceAssumption
  <2>9. \A i, j \in DOMAIN curve :
            i < j => 10000 * (curve[i] - curve[j]) <= (DrawdownCeiling + 1) * curve[i]
    BY <2>5, <2>6, <2>8, FallsWithin
  <2>10. Cardinality(Exits(Fills(events))) >= MinTrades
    BY <1>1, <2>2, <2>5 DEF Records, Recorded, RoundTrips
  <2> QED
    BY <2>2, <2>3, <2>4, <2>7, <2>9, <2>10
<1>2. Truth /\ Records /\ Listing => (RoomForCosts => ListedOnItsLedger)
  BY <1>1 DEF ListedOnItsLedger
<1> QED
  BY <1>2, TruthAlways, RecordsAlways, ListingAlways, PTL

-----------------------------------------------------------------------------
(* The portfolio: a leg, bar by bar. *)


\* The backtest of a leg, after any bars: long or flat, its fills in turn
\* and, with room for costs, its curve never negative.
IsLeg(b) ==
    /\ b.account \in Accounts /\ b.account.position >= 0
    /\ b.peak \in Int
    /\ b.events \in Seq(FillRecords)
    /\ \A n \in 1..Len(b.events) :
            b.events[n].side = IF n % 2 = 1 THEN "buy" ELSE "sell"
    /\ b.account.position > 0 <=> Len(b.events) % 2 = 1
    /\ b.curve \in Seq(Int)
    /\ RoomForCosts => b.account.cash >= 0 /\ b.curve \in Seq(Nat)

\* Every strategy buys only when flat, and sells only what is held.
Gated(side, position) ==
    /\ side = "buy" => position <= 0
    /\ side = "sell" => position > 0

LEMMA SignalsGated ==
    ASSUME NEW strategy \in {"sma_cross", "momentum", "agent"}, NEW c \in BOOLEAN,
           NEW cs, NEW position, NEW side \in Signals(strategy, c, cs, position)
    PROVE  Gated(side, position)
<1>1. Gated("none", position)
  BY DEF Gated
<1>2. Gated(SmaCross(cs, position), position)
  BY DEF Gated, SmaCross
<1>3. Gated(Momentum(cs, position), position)
  BY DEF Gated, Momentum
<1>4. CASE strategy = "sma_cross"
  BY <1>2, <1>4 DEF Signals
<1>5. CASE strategy = "momentum"
  BY <1>3, <1>5 DEF Signals
<1>6. CASE strategy = "agent"
  <2>1. \A v : Gated(Agent(cs, position, v), position)
    BY <1>1, <1>2 DEF Agent
  <2>2. \/ side = "none"
        \/ \E v : side = Agent(cs, position, v)
    <3>1. Signals(strategy, c, cs, position) =
            IF SmaCross(cs, position) = "none" THEN {"none"}
            ELSE {Agent(cs, position, v) :
                    v \in Verdicts(c, SmaCross(cs, position), cs)}
      BY <1>6 DEF Signals
    <3> QED
      BY <3>1
  <2> QED
    BY <1>1, <2>1, <2>2
<1> QED
  BY <1>4, <1>5, <1>6

LEMMA FlatStartIsLeg == IsLeg(FlatStart) /\ Len(FlatStart.curve) = 0
<1>1. /\ FlatStart.account = NewAccount /\ FlatStart.peak = StartingCash
      /\ FlatStart.events = << >> /\ FlatStart.curve = << >>
  BY DEF FlatStart
<1>2. /\ NewAccount \in Accounts /\ NewAccount.position = 0
      /\ NewAccount.cash >= 0 /\ StartingCash \in Int
  BY TradingAssumption DEF NewAccount, Accounts
<1>3. << >> \in Seq(FillRecords) /\ << >> \in Seq(Int) /\ << >> \in Seq(Nat) /\ Len(<< >>) = 0
  OBVIOUS
<1>4. 0 % 2 = 0
  OBVIOUS
<1> QED
  BY <1>1, <1>2, <1>3, <1>4 DEF IsLeg

\* The account after a fill made of it, as an entry or as an exit.
LEMMA FillKeepsAccount ==
    ASSUME NEW a \in Accounts, a.position >= 0, RoomForCosts => a.cash >= 0,
           NEW c \in Closes, NEW side \in Side, Gated(side, a.position),
           NEW qty, qty = Quantity(side, a, Equity(a, c), c), qty > 0
    PROVE  LET fill == Fill(side, qty, c)
               after == AfterFill(a, fill)
           IN  /\ fill \in FillRecords /\ fill.side = side
               /\ after \in Accounts /\ after.position >= 0
               /\ after.position > 0 <=> side = "buy"
               /\ RoomForCosts => after.cash >= 0
<1> DEFINE fill == Fill(side, qty, c)
           after == AfterFill(a, fill)
<1>1. Equity(a, c) \in Int /\ (a.position = 0 => Equity(a, c) = a.cash)
  BY EquityTyped
<1>2. a.position \in Int /\ a.cash \in Int
  BY DEF Accounts
<1>3. qty \in Nat \ {0} /\ (side = "sell" => qty = a.position)
  BY <1>1, QuantityTyped DEF Side
<1>4. side = "buy" => a.position = 0 /\ qty = Quantity("buy", a, a.cash, c)
  BY <1>1, <1>2 DEF Gated
<1>5. /\ FillPrice(side, c) \in Nat
      /\ FillPrice("buy", c) \in Nat /\ FillPrice("sell", c) \in Nat /\ Fee \in Nat
  BY PricesTyped, TradingAssumption DEF Side
<1>6. fill \in FillRecords /\ fill.side = side
  <2>1. Commission(qty) \in Nat
    BY <1>3, <1>5 DEF Commission
  <2> QED
    BY <1>3, <1>5, <2>1 DEF Fill, FillRecords
<1>7. /\ after \in Accounts
      /\ after.position = IF side = "buy" THEN a.position + qty ELSE a.position - qty
      /\ side = "buy" =>
            after.cash = a.cash - (FillPrice("buy", c) * qty + Fee * qty)
      /\ side = "sell" =>
            after.cash = a.cash + FillPrice("sell", c) * qty - Fee * qty
  BY <1>3, FillCosts
<1> HIDE DEF after, fill
<1>8. after.position >= 0 /\ (after.position > 0 <=> side = "buy")
  BY <1>2, <1>3, <1>4, <1>7 DEF Side
<1>9. ASSUME RoomForCosts
      PROVE  after.cash >= 0
  <2>1. CASE side = "buy"
    <3>1. FillPrice("buy", c) * qty + Fee * qty <= a.cash
      BY <1>2, <1>3, <1>4, <1>9, <2>1, EntryIsPaidFor
    <3>2. FillPrice("buy", c) * qty \in Nat /\ Fee * qty \in Nat
      BY <1>3, <1>5
    <3> QED
      BY <1>2, <1>7, <2>1, <3>1, <3>2
  <2>2. CASE side = "sell"
    <3>1. Fee <= FillPrice("sell", c)
      BY <1>9 DEF RoomForCosts
    <3>2. \A x, y, z \in Nat : x <= y => x * z <= y * z /\ x * z \in Nat /\ y * z \in Nat
      OBVIOUS
    <3>3. /\ Fee * qty <= FillPrice("sell", c) * qty
          /\ Fee * qty \in Nat /\ FillPrice("sell", c) * qty \in Nat
      BY <1>3, <1>5, <3>1, <3>2
    <3> QED
      BY <1>2, <1>7, <1>9, <2>2, <3>3
  <2> QED
    BY <2>1, <2>2 DEF Side
<1> QED
  BY <1>6, <1>7, <1>8, <1>9 DEF after, fill

\* One more fill, on the side the last one was not.
LEMMA InTurn ==
    ASSUME NEW es \in Seq(FillRecords), NEW e \in FillRecords,
           \A n \in 1..Len(es) : es[n].side = IF n % 2 = 1 THEN "buy" ELSE "sell",
           e.side = IF Len(es) % 2 = 1 THEN "sell" ELSE "buy"
    PROVE  /\ Append(es, e) \in Seq(FillRecords)
           /\ \A n \in 1..Len(Append(es, e)) :
                Append(es, e)[n].side = IF n % 2 = 1 THEN "buy" ELSE "sell"
           /\ Len(Append(es, e)) % 2 = 1 <=> Len(es) % 2 # 1
<1> DEFINE t == Append(es, e)
           k == Len(es)
<1>1. /\ t \in Seq(FillRecords) /\ Len(t) = k + 1 /\ k \in Nat
      /\ t[k + 1] = e /\ \A n \in 1..k : t[n] = es[n]
  OBVIOUS
<1> HIDE DEF t, k
<1>2. (k + 1) % 2 = 1 <=> k % 2 # 1
  <2>1. k \in Nat
    BY <1>1
  <2> QED
    BY ONLY <2>1
<1>3. ASSUME NEW n \in 1..Len(t)
      PROVE  t[n].side = IF n % 2 = 1 THEN "buy" ELSE "sell"
  <2>1. CASE n = k + 1
    BY <1>1, <1>2, <2>1 DEF k
  <2>2. CASE n # k + 1
    <3>1. n \in 1..k
      BY <1>1, <2>2
    <3> QED
      BY <1>1, <3>1 DEF k
  <2> QED
    BY <2>1, <2>2
<1> QED
  BY <1>1, <1>2, <1>3 DEF t, k

\* A bar of a backtest, whatever the strategy, if it is gated.
LEMMA BarKeepsLeg ==
    ASSUME NEW b, IsLeg(b), NEW cs \in Seq(Closes), cs # << >>,
           NEW side, Gated(side, b.account.position)
    PROVE  /\ IsLeg(BacktestBar(b, cs, side))
           /\ Len(BacktestBar(b, cs, side).curve) = Len(b.curve) + 1
<1> DEFINE c == cs[Len(cs)]
           equity == Equity(b.account, c)
           peak1 == Larger(b.peak, equity)
           qty == Quantity(side, b.account, equity, c)
           trades == /\ side \in Side /\ ~Halted(equity, peak1)
                     /\ qty > 0 /\ Approved(side, qty, b.account, equity, c)
           fill == Fill(side, qty, c)
           after == IF trades THEN AfterFill(b.account, fill) ELSE b.account
           events == IF trades THEN Append(b.events, fill) ELSE b.events
           curve == Append(b.curve, Equity(after, c))
<1>1. c \in Closes
  OBVIOUS
<1>2. BacktestBar(b, cs, side) =
        [account |-> after, peak |-> peak1, events |-> events, curve |-> curve]
  BY DEF BacktestBar, Last
<1>3. /\ b.account \in Accounts /\ b.account.position >= 0 /\ b.peak \in Int
      /\ b.events \in Seq(FillRecords)
      /\ b.curve \in Seq(Int) /\ b.account.position \in Int
  BY DEF IsLeg, Accounts
<1>4. equity \in Int
  BY <1>1, <1>3, EquityTyped
<1>5. peak1 \in Int
  BY <1>3, <1>4 DEF Larger
<1>6. /\ after \in Accounts /\ after.position >= 0
      /\ events \in Seq(FillRecords)
      /\ \A n \in 1..Len(events) :
            events[n].side = IF n % 2 = 1 THEN "buy" ELSE "sell"
      /\ after.position > 0 <=> Len(events) % 2 = 1
      /\ RoomForCosts => after.cash >= 0
  <2>1. CASE trades
    <3>1. /\ fill \in FillRecords /\ fill.side = side
          /\ AfterFill(b.account, fill) \in Accounts
          /\ AfterFill(b.account, fill).position >= 0
          /\ AfterFill(b.account, fill).position > 0 <=> side = "buy"
          /\ RoomForCosts => AfterFill(b.account, fill).cash >= 0
      <4>1. qty > 0 /\ side \in Side
        BY <2>1
      <4>2. RoomForCosts => b.account.cash >= 0
        BY DEF IsLeg
      <4> HIDE DEF c
      <4> QED
        BY <1>1, <1>3, <4>1, <4>2, FillKeepsAccount
    <3>2. side = IF Len(b.events) % 2 = 1 THEN "sell" ELSE "buy"
      <4>1. Gated(side, b.account.position) /\ side \in Side
        BY <2>1
      <4>2. /\ b.account.position > 0 <=> Len(b.events) % 2 = 1
            /\ b.account.position \in Int
        BY <1>3 DEF IsLeg
      <4> HIDE DEF trades
      <4>3. side = "buy" \/ side = "sell"
        BY <4>1 DEF Side
      <4>4. \A x \in Int : x <= 0 <=> ~(x > 0)
        OBVIOUS
      <4>5. side = "buy" => ~(b.account.position > 0)
        BY <4>1, <4>2, <4>4 DEF Gated
      <4>6. side = "sell" => b.account.position > 0
        BY <4>1 DEF Gated
      <4> QED
        BY <4>2, <4>3, <4>5, <4>6
    <3>3. /\ Append(b.events, fill) \in Seq(FillRecords)
          /\ \A n \in 1..Len(Append(b.events, fill)) :
                Append(b.events, fill)[n].side = IF n % 2 = 1 THEN "buy" ELSE "sell"
          /\ Len(Append(b.events, fill)) % 2 = 1 <=> Len(b.events) % 2 # 1
      BY <1>3, <3>1, <3>2, InTurn DEF IsLeg
    <3>4. after = AfterFill(b.account, fill) /\ events = Append(b.events, fill)
      BY <2>1
    <3> HIDE DEF fill, trades, qty, after, events
    <3>5. side = "buy" <=> Len(b.events) % 2 # 1
      BY <3>2
    <3> QED
      BY <3>1, <3>3, <3>4, <3>5
  <2>2. CASE ~trades
    <3>1. after = b.account /\ events = b.events
      BY <2>2
    <3> HIDE DEF after, events
    <3> QED
      BY <3>1 DEF IsLeg
  <2> HIDE DEF trades
  <2> QED
    BY <2>1, <2>2
<1> HIDE DEF after, events, peak1, equity
<1>7. Equity(after, c) \in Int
  BY <1>1, <1>6, EquityTyped
<1>8. RoomForCosts => Equity(after, c) \in Nat
  <2>1. Mark(c) \in Nat /\ after.cash \in Int /\ after.position \in Nat
    BY <1>1, <1>6, PricesTyped DEF Accounts
  <2>2. after.position * Mark(c) \in Nat
    BY <2>1
  <2> QED
    BY <1>6, <2>1, <2>2 DEF Equity
<1>9. curve \in Seq(Int) /\ Len(curve) = Len(b.curve) + 1
  BY <1>3, <1>7
<1>10. RoomForCosts => curve \in Seq(Nat)
  BY <1>8 DEF IsLeg
<1> HIDE DEF curve, c
<1>11. IsLeg([account |-> after, peak |-> peak1, events |-> events, curve |-> curve])
  BY <1>5, <1>6, <1>9, <1>10 DEF IsLeg
<1> QED
  BY <1>2, <1>9, <1>11

-----------------------------------------------------------------------------
(* Sums. *)

Plus(a, b) == a + b
SumFold == INSTANCE FoldFacts WITH Op <- Plus

LEMMA SumOfMore ==
    /\ SumOf(<< >>) = 0
    /\ \A s \in Seq(Int), e \in Int : SumOf(Append(s, e)) = SumOf(s) + e
<1>1. \A q : SumOf(q) = SumFold!Fold(0, q)
  BY DEF SumOf, Plus, SumFold!Fold, FoldLeft,
         SumFold!MapThenFoldSet, MapThenFoldSet, SumFold!Greatest, Max
<1>2. ASSUME NEW s \in Seq(Int), NEW e \in Int
      PROVE  SumOf(Append(s, e)) = SumOf(s) + e
  <2>1. SumFold!Fold(0, Append(s, e)) = Plus(SumFold!Fold(0, s), e)
    BY SumFold!FoldAppend
  <2> QED
    BY <1>1, <2>1 DEF Plus
<1> QED
  BY <1>1, <1>2, SumFold!FoldEmpty

LEMMA SumTyped ==
    ASSUME NEW s \in Seq(Int)
    PROVE  SumOf(s) \in Int
<1> DEFINE S == {q \in Seq(Int) : SumOf(q) \in Int}
<1>1. << >> \in S
  BY SumOfMore
<1>2. \A q \in S \cap Seq(Int) : \A e \in Int : Append(q, e) \in S
  BY SumOfMore
<1> HIDE DEF S
<1>3. Seq(Int) \subseteq S
  BY <1>1, <1>2, SumFold!SequenceInduction
<1> QED
  BY <1>3 DEF S

\* A sequence of n + 1 numbers is one of n with one more.
LEMMA Behead ==
    ASSUME NEW s \in Seq(Int), NEW n \in Nat, Len(s) = n + 1
    PROVE  \E r \in Seq(Int) : /\ Len(r) = n /\ s = Append(r, s[n + 1])
                               /\ \A i \in 1..n : r[i] = s[i]
<1> DEFINE r == SubSeq(s, 1, n)
<1>1. r \in Seq(Int) /\ Len(r) = n /\ s = Append(r, s[n + 1]) /\ \A i \in 1..n : r[i] = s[i]
  OBVIOUS
<1> QED
  BY <1>1

\* Sums of sequences, one below the other: equal only if these are.
LEMMA SumMonotone ==
    ASSUME NEW s \in Seq(Int), NEW t \in Seq(Int), Len(s) = Len(t),
           \A i \in 1..Len(s) : s[i] <= t[i]
    PROVE  /\ SumOf(s) <= SumOf(t)
           /\ SumOf(s) = SumOf(t) => \A i \in 1..Len(s) : s[i] = t[i]
<1> DEFINE Below(q, p) == Len(q) = Len(p) /\ \A i \in 1..Len(q) : q[i] <= p[i]
           Less(q, p) == /\ SumOf(q) <= SumOf(p)
                         /\ SumOf(q) = SumOf(p) => \A i \in 1..Len(q) : q[i] = p[i]
           S == {q \in Seq(Int) : \A p \in Seq(Int) : Below(q, p) => Less(q, p)}
<1>1. << >> \in S
  <2>1. \A p \in Seq(Int) : Len(p) = 0 => p = << >>
    OBVIOUS
  <2> QED
    BY <2>1, SumOfMore
<1>2. ASSUME NEW q \in S \cap Seq(Int), NEW e \in Int
      PROVE  Append(q, e) \in S
  <2> DEFINE u == Append(q, e)
             n == Len(q)
  <2>1. /\ u \in Seq(Int) /\ n \in Nat /\ Len(u) = n + 1
        /\ u[n + 1] = e /\ \A i \in 1..n : u[i] = q[i]
    OBVIOUS
  <2>2. SumOf(u) = SumOf(q) + e /\ SumOf(q) \in Int
    BY SumOfMore, SumTyped
  <2>3. ASSUME NEW p \in Seq(Int), Below(u, p)
        PROVE  Less(u, p)
    <3>1. PICK r \in Seq(Int) : /\ Len(r) = n /\ p = Append(r, p[n + 1])
                                /\ \A i \in 1..n : r[i] = p[i]
      <4>1. Len(p) = n + 1
        BY <2>1, <2>3
      <4> QED
        BY <2>1, <4>1, Behead
    <3>2. p[n + 1] \in Int /\ e <= p[n + 1]
      BY <2>1, <2>3
    <3>3. SumOf(p) = SumOf(r) + p[n + 1] /\ SumOf(r) \in Int
      BY <3>1, <3>2, SumOfMore, SumTyped
    <3>4. Below(q, r)
      BY <2>1, <2>3, <3>1
    <3>5. Less(q, r)
      BY <3>1, <3>4
    <3>6. SumOf(u) <= SumOf(p)
      BY <2>2, <3>2, <3>3, <3>5
    <3>7. ASSUME SumOf(u) = SumOf(p)
          PROVE  \A i \in 1..(n + 1) : u[i] = p[i]
      <4>1. SumOf(q) = SumOf(r) /\ e = p[n + 1]
        BY <2>2, <3>2, <3>3, <3>5, <3>7
      <4>2. \A i \in 1..n : u[i] = p[i]
        BY <2>1, <3>1, <3>5, <4>1
      <4> QED
        BY <2>1, <4>1, <4>2
    <3> QED
      BY <2>1, <3>6, <3>7
  <2> HIDE DEF u, Below, Less
  <2> QED
    BY <2>1, <2>3 DEF u
<1> HIDE DEF S
<1>3. Seq(Int) \subseteq S
  BY <1>1, <1>2, SumFold!SequenceInduction
<1> QED
  BY <1>3 DEF S

LEMMA SumLinear ==
    ASSUME NEW s \in Seq(Int), NEW t \in Seq(Int), Len(s) = Len(t),
           NEW h \in Int, NEW k \in Int
    PROVE  LET u == [i \in 1..Len(s) |-> h * s[i] + k * t[i]]
           IN  u \in Seq(Int) /\ Len(u) = Len(s) /\ SumOf(u) = h * SumOf(s) + k * SumOf(t)
<1> DEFINE Mix(q, p) == [i \in 1..Len(q) |-> h * q[i] + k * p[i]]
           Adds(q, p) == /\ Mix(q, p) \in Seq(Int) /\ Len(Mix(q, p)) = Len(q)
                         /\ SumOf(Mix(q, p)) = h * SumOf(q) + k * SumOf(p)
           S == {q \in Seq(Int) : \A p \in Seq(Int) : Len(q) = Len(p) => Adds(q, p)}
<1>1. << >> \in S
  <2>1. \A p \in Seq(Int) : Len(p) = 0 => p = << >>
    OBVIOUS
  <2>2. Adds(<< >>, << >>)
    <3>1. Mix(<< >>, << >>) = << >>
      OBVIOUS
    <3>2. h * 0 + k * 0 = 0 /\ << >> \in Seq(Int) /\ Len(<< >>) = 0
      OBVIOUS
    <3> HIDE DEF Mix
    <3> QED
      BY <3>1, <3>2, SumOfMore
  <2> QED
    BY <2>1, <2>2
<1>2. ASSUME NEW q \in S \cap Seq(Int), NEW e \in Int
      PROVE  Append(q, e) \in S
  <2> DEFINE u == Append(q, e)
             n == Len(q)
  <2>1. /\ u \in Seq(Int) /\ n \in Nat /\ Len(u) = n + 1
        /\ u[n + 1] = e /\ \A i \in 1..n : u[i] = q[i]
    OBVIOUS
  <2>2. SumOf(u) = SumOf(q) + e /\ SumOf(q) \in Int
    BY SumOfMore, SumTyped
  <2>3. ASSUME NEW p \in Seq(Int), Len(u) = Len(p)
        PROVE  Adds(u, p)
    <3>1. PICK r \in Seq(Int) : /\ Len(r) = n /\ p = Append(r, p[n + 1])
                                /\ \A i \in 1..n : r[i] = p[i]
      BY <2>1, <2>3, Behead
    <3>2. PICK f \in Int : f = p[n + 1]
      BY <2>1, <2>3
    <3>3. SumOf(p) = SumOf(r) + f /\ SumOf(r) \in Int
      <4>1. p = Append(r, f)
        BY ONLY <3>1, <3>2
      <4> QED
        BY ONLY <4>1, SumOfMore, SumTyped, r \in Seq(Int), f \in Int
    <3>4. Adds(q, r)
      BY <3>1
    <3>5. PICK x \in Int : x = h * e + k * f
      OBVIOUS
    <3>6. Mix(u, p) = Append(Mix(q, r), x)
      <4>1. /\ Mix(u, p) = [i \in 1..(n + 1) |-> h * u[i] + k * p[i]]
            /\ Mix(q, r) = [i \in 1..n |-> h * q[i] + k * r[i]]
        BY <2>1
      <4>2. /\ \A i \in 1..n : h * u[i] + k * p[i] = h * q[i] + k * r[i]
            /\ h * u[n + 1] + k * p[n + 1] = x
        BY <2>1, <3>1, <3>2, <3>5
      <4>3. PICK v : v = Mix(q, r)
        OBVIOUS
      <4>4. v \in Seq(Int) /\ Len(v) = n /\ \A i \in 1..n : v[i] = h * q[i] + k * r[i]
        BY <3>4, <4>1, <4>3
      <4>5. PICK y : y = Mix(u, p)
        OBVIOUS
      <4>6. PICK z : z = Append(v, x)
        OBVIOUS
      <4>7. /\ z \in Seq(Int) /\ Len(z) = n + 1 /\ z[n + 1] = x
            /\ \A i \in 1..n : z[i] = v[i]
        BY <2>1, <4>4, <4>6
      <4>8. \A i \in 1..(n + 1) : i = n + 1 \/ i \in 1..n
        BY <2>1
      <4>9. \A i \in 1..(n + 1) : z[i] = h * u[i] + k * p[i]
        BY <4>2, <4>4, <4>7, <4>8
      <4>10. z = [i \in 1..(n + 1) |-> z[i]]
        BY <2>1, <4>7
      <4> HIDE DEF Mix
      <4> QED
        BY <4>1, <4>3, <4>5, <4>6, <4>9, <4>10
    <3>7. SumOf(Append(Mix(q, r), x)) = SumOf(Mix(q, r)) + x
      BY <3>4, SumOfMore
    <3>8. SumOf(Mix(u, p)) = h * SumOf(u) + k * SumOf(p)
      <4>1. SumOf(Mix(u, p)) = h * SumOf(q) + k * SumOf(r) + (h * e + k * f)
        BY <3>4, <3>5, <3>6, <3>7
      <4>2. /\ h * (SumOf(q) + e) = h * SumOf(q) + h * e
            /\ k * (SumOf(r) + f) = k * SumOf(r) + k * f
        BY <2>2, <3>3
      <4>3. /\ h * SumOf(q) \in Int /\ h * e \in Int
            /\ k * SumOf(r) \in Int /\ k * f \in Int
        BY <2>2, <3>3
      <4>4. /\ h * SumOf(u) = h * SumOf(q) + h * e
            /\ k * SumOf(p) = k * SumOf(r) + k * f
        BY ONLY <2>2, <3>3, <4>2
      <4> HIDE DEF Mix, u
      <4> QED
        BY ONLY <4>1, <4>3, <4>4
    <3>9. Mix(u, p) \in Seq(Int) /\ Len(Mix(u, p)) = n + 1
      <4>1. PICK v : v = Mix(q, r)
        OBVIOUS
      <4>2. v \in Seq(Int) /\ Len(v) = n
        BY <3>4, <4>1
      <4>3. Append(v, x) \in Seq(Int) /\ Len(Append(v, x)) = n + 1
        BY <4>2
      <4> HIDE DEF Mix
      <4> QED
        BY <3>6, <4>1, <4>3
    <3> HIDE DEF Mix, u
    <3> QED
      BY <2>1, <3>8, <3>9
  <2> HIDE DEF u, Adds
  <2> QED
    BY <2>1, <2>3 DEF u
<1> HIDE DEF S
<1>3. Seq(Int) \subseteq S
  BY <1>1, <1>2, SumFold!SequenceInduction
<1>4. Adds(s, t)
  BY <1>3 DEF S
<1> QED
  BY <1>4

LEMMA SumOfOnes ==
    ASSUME NEW s \in Seq({1})
    PROVE  SumOf(s) = Len(s)
<1> DEFINE S == {q \in Seq({1}) : SumOf(q) = Len(q)}
<1>1. << >> \in S
  BY SumOfMore
<1>2. ASSUME NEW q \in S \cap Seq({1}), NEW e \in {1}
      PROVE  Append(q, e) \in S
  <2>1. q \in Seq(Int) /\ e \in Int /\ e = 1
    OBVIOUS
  <2>2. SumOf(Append(q, e)) = SumOf(q) + 1
    BY <2>1, SumOfMore
  <2>3. Append(q, e) \in Seq({1}) /\ Len(Append(q, e)) = Len(q) + 1
    OBVIOUS
  <2> QED
    BY <2>2, <2>3
<1> HIDE DEF S
<1>3. Seq({1}) \subseteq S
  BY <1>1, <1>2, SumFold!SequenceInduction
<1> QED
  BY <1>3 DEF S


-----------------------------------------------------------------------------
(* Weighted sums. *)

LEMMA SumOfMultiples ==
    ASSUME NEW s \in Seq(Int), NEW h \in Int
    PROVE  LET u == [i \in 1..Len(s) |-> h * s[i]]
           IN  u \in Seq(Int) /\ Len(u) = Len(s) /\ SumOf(u) = h * SumOf(s)
<1> DEFINE u == [i \in 1..Len(s) |-> h * s[i]]
           v == [i \in 1..Len(s) |-> h * s[i] + 0 * s[i]]
<1>1. \A i \in 1..Len(s) : h * s[i] + 0 * s[i] = h * s[i]
  OBVIOUS
<1>2. u = v
  BY <1>1
<1>3. v \in Seq(Int) /\ Len(v) = Len(s) /\ SumOf(v) = h * SumOf(s) + 0 * SumOf(s)
  <2>1. Len(s) = Len(s) /\ 0 \in Int
    OBVIOUS
  <2> QED
    BY ONLY <2>1, SumLinear, s \in Seq(Int), h \in Int
<1>4. h * SumOf(s) + 0 * SumOf(s) = h * SumOf(s)
  BY SumTyped
<1> HIDE DEF u, v
<1> QED
  BY <1>2, <1>3, <1>4 DEF u

Products(p, x) == [i \in 1..Len(p) |-> p[i] * x[i]]

LEMMA ProductsTyped ==
    ASSUME NEW p \in Seq(Nat), NEW x \in Seq(Int), Len(p) = Len(x)
    PROVE  /\ Products(p, x) \in Seq(Int) /\ Len(Products(p, x)) = Len(p)
           /\ \A i \in 1..Len(p) : Products(p, x)[i] = p[i] * x[i]
           /\ SumOf(Products(p, x)) \in Int
           /\ SumOf(p) \in Int /\ p \in Seq(Int)
<1>1. /\ Products(p, x) \in Seq(Int) /\ Len(Products(p, x)) = Len(p)
      /\ \A i \in 1..Len(p) : Products(p, x)[i] = p[i] * x[i]
  <2>1. \A i \in 1..Len(p) : p[i] \in Int /\ x[i] \in Int
    OBVIOUS
  <2>2. \A i \in 1..Len(p) : p[i] * x[i] \in Int
    BY <2>1
  <2> QED
    BY <2>2 DEF Products
<1>2. p \in Seq(Int)
  OBVIOUS
<1> QED
  BY <1>1, <1>2, SumTyped

\* A weighted sum is not above, nor below, every weighted number.
LEMMA WeightedMean ==
    ASSUME NEW p \in Seq(Nat), NEW x \in Seq(Int), Len(p) = Len(x), SumOf(p) > 0
    PROVE  LET total == SumOf(Products(p, x))
           IN  /\ \E i \in 1..Len(p) : p[i] > 0 /\ SumOf(p) * x[i] <= total
               /\ \E i \in 1..Len(p) : p[i] > 0 /\ total <= SumOf(p) * x[i]
<1> DEFINE m == Products(p, x)
           total == SumOf(m)
           whole == SumOf(p)
           n == Len(p)
           u == [i \in 1..n |-> whole * m[i]]
<1>1. /\ m \in Seq(Int) /\ Len(m) = n /\ n \in Nat
      /\ \A i \in 1..n : m[i] = p[i] * x[i] /\ p[i] \in Nat /\ x[i] \in Int
      /\ total \in Int /\ whole \in Int /\ whole > 0 /\ p \in Seq(Int)
  BY ProductsTyped
<1> HIDE DEF m, total, whole, n
<1>2. u \in Seq(Int) /\ Len(u) = n /\ SumOf(u) = whole * total
  <2>1. \A h \in Int : LET v == [i \in 1..Len(m) |-> h * m[i]]
                       IN  v \in Seq(Int) /\ Len(v) = Len(m) /\ SumOf(v) = h * SumOf(m)
    BY <1>1, SumOfMultiples
  <2> QED
    BY <1>1, <2>1 DEF total
<1>3. ASSUME NEW h \in Int
      PROVE  LET v == [i \in 1..n |-> h * p[i]]
             IN  v \in Seq(Int) /\ Len(v) = n /\ SumOf(v) = h * whole
  BY <1>1, SumOfMultiples DEF n, whole
<1>4. \A i \in 1..n : u[i] = whole * (p[i] * x[i])
  BY <1>1
<1> HIDE DEF u
<1>5. \A a \in Nat, b, c, w \in Int : b <= w * c => b * a <= w * (a * c)
  <2> SUFFICES ASSUME NEW a \in Nat, NEW b \in Int, NEW c \in Int, NEW w \in Int, b <= w * c
               PROVE  b * a <= w * (a * c)
    OBVIOUS
  <2>1. w * (a * c) = (w * c) * a
    OBVIOUS
  <2>2. PICK d \in Int : d = w * c
    OBVIOUS
  <2>3. b * a <= d * a
    BY <2>2
  <2> QED
    BY <2>1, <2>2, <2>3
<1>6. \A a \in Nat, b, c, w \in Int : w * c <= b => w * (a * c) <= b * a
  <2> SUFFICES ASSUME NEW a \in Nat, NEW b \in Int, NEW c \in Int, NEW w \in Int, w * c <= b
               PROVE  w * (a * c) <= b * a
    OBVIOUS
  <2>1. w * (a * c) = (w * c) * a
    OBVIOUS
  <2>2. PICK d \in Int : d = w * c
    OBVIOUS
  <2>3. d * a <= b * a
    BY <2>2
  <2> QED
    BY <2>1, <2>2, <2>3
<1>7. ASSUME \A i \in 1..n : p[i] > 0 => ~(whole * x[i] <= total)
      PROVE  FALSE
  <2>0. PICK h \in Int : h = total + 1
    BY <1>1
  <2> DEFINE v == [i \in 1..n |-> h * p[i]]
  <2>1. v \in Seq(Int) /\ Len(v) = n /\ SumOf(v) = h * whole
    BY <1>3
  <2>2. ASSUME NEW i \in 1..n
        PROVE  h * p[i] <= whole * (p[i] * x[i])
    <3>1. p[i] \in Nat /\ x[i] \in Int /\ whole * x[i] \in Int
      BY <1>1
    <3>2. CASE p[i] = 0
      <4>1. h * 0 = 0 /\ whole * (0 * x[i]) = 0
        BY <1>1, <3>1
      <4> QED
        BY <3>2, <4>1
    <3>3. CASE p[i] # 0
      <4>1. ~(whole * x[i] <= total)
        BY <1>7, <3>1, <3>3
      <4>2. h <= whole * x[i]
        BY ONLY <1>1, <2>0, <3>1, <4>1
      <4> QED
        BY <1>1, <1>5, <3>1, <4>2
    <3> QED
      BY <3>2, <3>3
  <2>3. \A i \in 1..n : v[i] <= u[i]
    BY <1>4, <2>2
  <2> HIDE DEF v
  <2>4. SumOf(v) <= SumOf(u)
    BY <1>2, <2>1, <2>3, SumMonotone
  <2>5. h * whole = whole * total + whole /\ whole * total \in Int
    BY <1>1, <2>0
  <2> QED
    BY <1>1, <1>2, <2>1, <2>4, <2>5
<1>8. ASSUME \A i \in 1..n : p[i] > 0 => ~(total <= whole * x[i])
      PROVE  FALSE
  <2>0. PICK h \in Int : h = total - 1
    BY <1>1
  <2> DEFINE v == [i \in 1..n |-> h * p[i]]
  <2>1. v \in Seq(Int) /\ Len(v) = n /\ SumOf(v) = h * whole
    BY <1>3
  <2>2. ASSUME NEW i \in 1..n
        PROVE  whole * (p[i] * x[i]) <= h * p[i]
    <3>1. p[i] \in Nat /\ x[i] \in Int /\ whole * x[i] \in Int
      BY <1>1
    <3>2. CASE p[i] = 0
      <4>1. h * 0 = 0 /\ whole * (0 * x[i]) = 0
        BY <1>1, <3>1
      <4> QED
        BY <3>2, <4>1
    <3>3. CASE p[i] # 0
      <4>1. ~(total <= whole * x[i])
        BY <1>8, <3>1, <3>3
      <4>2. whole * x[i] <= h
        BY ONLY <1>1, <2>0, <3>1, <4>1
      <4> QED
        BY <1>1, <1>6, <3>1, <4>2
    <3> QED
      BY <3>2, <3>3
  <2>3. \A i \in 1..n : u[i] <= v[i]
    BY <1>4, <2>2
  <2> HIDE DEF v
  <2>4. SumOf(u) <= SumOf(v)
    BY <1>2, <2>1, <2>3, SumMonotone
  <2>5. h * whole = whole * total - whole /\ whole * total \in Int
    BY <1>1, <2>0
  <2> QED
    BY <1>1, <1>2, <2>1, <2>4, <2>5
<1> QED
  BY <1>7, <1>8 DEF total, m, whole, n

\* When a weighted sum of numbers falls from a to b, one of them falls as
\* deep, relative to where it was.
LEMMA OneFallsAsDeep ==
    ASSUME NEW p \in Seq(Nat), NEW x \in Seq(Nat), NEW y \in Seq(Nat),
           Len(p) = Len(x), Len(p) = Len(y), SumOf(p) > 0,
           NEW a, a = SumOf(Products(p, x)), a > 0,
           NEW b, b = SumOf(Products(p, y))
    PROVE  \E i \in 1..Len(p) :
                p[i] > 0 /\ x[i] > 0 /\ (a - b) * x[i] <= (x[i] - y[i]) * a
<1> DEFINE n == Len(p)
           mx == Products(p, x)
           my == Products(p, y)
           u == [i \in 1..n |-> a * mx[i] + (-a) * my[i]]
           v == [i \in 1..n |-> (a - b) * mx[i]]
<1>1. x \in Seq(Int) /\ y \in Seq(Int) /\ n \in Nat
  OBVIOUS
<1>2. /\ mx \in Seq(Int) /\ Len(mx) = n /\ my \in Seq(Int) /\ Len(my) = n
      /\ a \in Int /\ b \in Int /\ SumOf(mx) = a /\ SumOf(my) = b
      /\ \A i \in 1..n : mx[i] = p[i] * x[i] /\ my[i] = p[i] * y[i]
  BY <1>1, ProductsTyped
<1>3. \A i \in 1..n : p[i] \in Nat /\ x[i] \in Nat /\ y[i] \in Nat
  <2>1. \A s \in Seq(Nat) : \A i \in 1..Len(s) : s[i] \in Nat
    OBVIOUS
  <2> QED
    BY <2>1
<1>4. PICK k \in 1..n : p[k] > 0 /\ x[k] > 0
  <2>1. PICK k \in 1..n : p[k] > 0 /\ a <= SumOf(p) * x[k]
    BY <1>1, WeightedMean
  <2>2. SumOf(p) \in Nat
    BY <1>1, ProductsTyped
  <2>3. x[k] # 0
    <3>1. x[k] = 0 => SumOf(p) * x[k] = 0
      BY <2>2
    <3>2. a \in Int
      BY <1>2
    <3> QED
      BY ONLY <2>1, <3>1, <3>2, a > 0
  <2> QED
    BY <1>3, <2>1, <2>3
<1> HIDE DEF mx, my, n
<1>5. u \in Seq(Int) /\ Len(u) = n /\ SumOf(u) = a * a + (-a) * b
  <2>1. PICK c \in Int : c = -a
    BY <1>2
  <2>2. PICK s \in Seq(Int), t \in Seq(Int) :
            s = mx /\ t = my /\ Len(s) = n /\ Len(t) = n /\ SumOf(s) = a /\ SumOf(t) = b
    BY ONLY <1>2
  <2>3. LET w == [i \in 1..Len(s) |-> a * s[i] + c * t[i]]
        IN  w \in Seq(Int) /\ Len(w) = Len(s)
            /\ SumOf(w) = a * SumOf(s) + c * SumOf(t)
    <3>1. Len(s) = Len(t) /\ a \in Int
      BY ONLY <1>2, <2>2
    <3> QED
      BY ONLY <3>1, SumLinear, s \in Seq(Int), t \in Seq(Int), c \in Int
  <2>4. u = [i \in 1..Len(s) |-> a * s[i] + c * t[i]]
    BY <2>1, <2>2
  <2> QED
    BY ONLY <2>1, <2>2, <2>3, <2>4
<1>6. v \in Seq(Int) /\ Len(v) = n /\ SumOf(v) = (a - b) * a
  <2>1. PICK c \in Int, s \in Seq(Int) :
            c = a - b /\ s = mx /\ Len(s) = n /\ SumOf(s) = a
    <3>1. a - b \in Int
      BY ONLY <1>2
    <3> QED
      BY ONLY <1>2, <3>1
  <2>2. LET w == [i \in 1..Len(s) |-> c * s[i]]
        IN  w \in Seq(Int) /\ Len(w) = Len(s) /\ SumOf(w) = c * SumOf(s)
    BY ONLY SumOfMultiples, s \in Seq(Int), c \in Int
  <2>3. v = [i \in 1..Len(s) |-> c * s[i]]
    BY <2>1
  <2> QED
    BY ONLY <2>1, <2>2, <2>3
<1>7. SumOf(u) = SumOf(v)
  <2>1. a * a + (-a) * b = (a - b) * a
    BY <1>2
  <2> QED
    BY <1>5, <1>6, <2>1
<1>8. ASSUME NEW i \in 1..n
      PROVE  /\ u[i] = p[i] * ((x[i] - y[i]) * a)
             /\ v[i] = p[i] * ((a - b) * x[i])
  <2>1. u[i] = a * (p[i] * x[i]) + (-a) * (p[i] * y[i]) /\ v[i] = (a - b) * (p[i] * x[i])
    BY <1>2
  <2>2. PICK q \in Int, c \in Int, d \in Int : q = p[i] /\ c = x[i] /\ d = y[i]
    BY <1>3
  <2>3. a * (q * c) + (-a) * (q * d) = q * ((c - d) * a)
    <3>1. a \in Int
      BY <1>2
    <3> QED
      BY ONLY <3>1, q \in Int, c \in Int, d \in Int
  <2>4. (a - b) * (q * c) = q * ((a - b) * c)
    <3>1. a \in Int /\ b \in Int
      BY <1>2
    <3> QED
      BY ONLY <3>1, q \in Int, c \in Int
  <2> HIDE DEF u, v
  <2> QED
    BY <2>1, <2>2, <2>3, <2>4
<1> HIDE DEF u, v
<1> SUFFICES ASSUME \A i \in 1..n : p[i] > 0 /\ x[i] > 0 =>
                        ~((a - b) * x[i] <= (x[i] - y[i]) * a)
             PROVE  FALSE
  BY DEF n
<1>9. \A q \in Nat, c, d \in Int : c <= d => q * c <= q * d
  OBVIOUS
<1>10. ASSUME NEW i \in 1..n
       PROVE  /\ (x[i] - y[i]) * a \in Int /\ (a - b) * x[i] \in Int
              /\ (x[i] - y[i]) * a <= (a - b) * x[i] \/ p[i] = 0
              /\ p[i] > 0 /\ x[i] > 0 => (x[i] - y[i]) * a < (a - b) * x[i]
  <2>1. PICK c \in Nat, d \in Nat : c = x[i] /\ d = y[i]
    BY <1>3
  <2>2. a \in Nat /\ b \in Int /\ p[i] \in Nat
    BY <1>2, <1>3
  <2>3. (c - d) * a \in Int /\ (a - b) * c \in Int
    BY <2>2
  <2>4. p[i] > 0 /\ c > 0 => (c - d) * a < (a - b) * c
    <3>1. p[i] > 0 /\ c > 0 => ~((a - b) * c <= (c - d) * a)
      BY <2>1
    <3> QED
      BY <2>3, <3>1
  <2>5. c = 0 => (c - d) * a <= (a - b) * c
    <3>1. d * a \in Nat /\ (0 - d) * a = -(d * a) /\ (a - b) * 0 = 0
      BY <2>2
    <3> QED
      BY <3>1
  <2>6. PICK e \in Int, f \in Int : e = (c - d) * a /\ f = (a - b) * c
    BY <2>3
  <2>7. e <= f \/ p[i] = 0
    <3>1. c = 0 => e <= f
      BY ONLY <2>5, <2>6
    <3>2. p[i] > 0 /\ c > 0 => e < f
      BY ONLY <2>4, <2>6
    <3> QED
      BY ONLY <2>2, <3>1, <3>2, e \in Int, f \in Int, c \in Nat
  <2>8. e = (x[i] - y[i]) * a /\ f = (a - b) * x[i]
    BY <2>1, <2>6
  <2>9. p[i] > 0 /\ x[i] > 0 => e < f
    BY <2>1, <2>4, <2>6
  <2> QED
    BY <2>7, <2>8, <2>9
<1>11. ASSUME NEW i \in 1..n
       PROVE  u[i] <= v[i]
  <2>1. CASE p[i] = 0
    <3>1. PICK c \in Int, d \in Int : c = (x[i] - y[i]) * a /\ d = (a - b) * x[i]
      BY <1>10
    <3>2. u[i] = 0 * c /\ v[i] = 0 * d
      BY <1>8, <2>1, <3>1
    <3> QED
      BY <3>2
  <2>2. CASE p[i] # 0
    BY <1>3, <1>8, <1>9, <1>10, <2>2
  <2> QED
    BY <2>1, <2>2
<1>12. \A i \in 1..n : u[i] = v[i]
  BY <1>5, <1>6, <1>7, <1>11, SumMonotone
<1>13. \A q \in Nat \ {0}, c, d \in Int : c < d => q * c < q * d
  OBVIOUS
<1>14. u[k] < v[k]
  <2>1. p[k] \in Nat \ {0}
    BY <1>3, <1>4
  <2> QED
    BY <1>4, <1>8, <1>10, <1>13, <2>1
<1>15. u[k] \in Int /\ v[k] \in Int
  BY <1>4, <1>5, <1>6
<1> QED
  BY <1>4, <1>12, <1>14, <1>15


\* The recorded drawdown of a curve is f of d; what no fall exceeds, and
\* what one of them is.
IsBound(curve, f, d) ==
    /\ MaxDrawdownPct(curve) = RoundHalfEven(10000 * f, d)
    /\ \A i, j \in DOMAIN curve :
        i < j => (curve[i] - curve[j]) * d <= f * curve[i]

IsFall(curve, f, d) ==
    /\ MaxDrawdownPct(curve) = RoundHalfEven(10000 * f, d)
    /\ \/ f = 0
       \/ \E i, j \in DOMAIN curve :
            i < j /\ curve[i] > 0 /\ f = curve[i] - curve[j] /\ d = curve[i]

LEMMA BoundOfCurve ==
    ASSUME NEW curve \in Seq(Nat), curve # << >>
    PROVE  \E f \in Nat, d \in Nat \ {0} : IsBound(curve, f, d)
<1>1. PICK n \in Nat, d \in Nat \ {0} :
        /\ MaxDrawdownPct(curve) = RoundHalfEven(10000 * n, d)
        /\ \A i, j \in DOMAIN curve :
            i < j => (curve[i] - curve[j]) * d <= n * curve[i]
  BY DrawdownOfCurve
<1>2. IsBound(curve, n, d)
  BY <1>1 DEF IsBound
<1> QED
  BY <1>2

LEMMA FallOfCurve ==
    ASSUME NEW curve \in Seq(Nat), curve # << >>
    PROVE  \E f \in Nat, d \in Nat \ {0} : IsFall(curve, f, d)
<1>1. PICK n \in Nat, d \in Nat \ {0} :
        /\ MaxDrawdownPct(curve) = RoundHalfEven(10000 * n, d)
        /\ \/ n = 0
           \/ \E i, j \in DOMAIN curve :
                i < j /\ curve[i] > 0 /\ n = curve[i] - curve[j] /\ d = curve[i]
  BY DrawdownOfCurve
<1>2. IsFall(curve, n, d)
  BY <1>1 DEF IsFall
<1> QED
  BY <1>2

\* The capital spread over curves falls no deeper than the deepest of those
\* it is spread over.
LEMMA SpreadFallsLess ==
    ASSUME NEW p \in Seq(Nat), SumOf(p) > 0, NEW cap \in Nat \ {0},
           NEW n \in Nat, NEW curve,
           \A i \in 1..Len(p) : curve[i] \in Seq(Nat) /\ Len(curve[i]) = n,
           NEW e, e = [t \in 1..n |-> cap * SumOf([i \in 1..Len(p) |-> p[i] * curve[i][t]])]
    PROVE  \E i \in 1..Len(p) :
                p[i] > 0 /\ MaxDrawdownPct(e) <= MaxDrawdownPct(curve[i])
<1> DEFINE k == Len(p)
           At(t) == [i \in 1..k |-> curve[i][t]]
           Sum(t) == SumOf(Products(p, At(t)))
<1>1. PICK held \in 1..k : p[held] > 0
  <2>1. p \in Seq(Int)
    OBVIOUS
  <2> QED
    BY <2>1, WeightedMean
<1>0. k \in Nat /\ \A i \in 1..k : curve[i] \in Seq(Nat) /\ Len(curve[i]) = n
  OBVIOUS
<1>a. \A s \in Seq(Nat) : \A j \in 1..Len(s) : s[j] \in Nat
  OBVIOUS
<1>b. \A i \in 1..k, t \in 1..n : curve[i][t] \in Nat
  BY <1>0, <1>a
<1>2. ASSUME NEW t \in 1..n
      PROVE  /\ At(t) \in Seq(Nat) /\ Len(At(t)) = k
             /\ \A i \in 1..k : At(t)[i] = curve[i][t]
  <2> HIDE DEF k
  <2> QED
    BY <1>0, <1>b
<1>3. ASSUME NEW t \in 1..n
      PROVE  Sum(t) \in Nat /\ e[t] = cap * Sum(t)
  <2>1. PICK x \in Seq(Nat) : x = At(t) /\ Len(x) = k
    BY <1>2
  <2>2. x \in Seq(Int)
    BY <2>1
  <2>3. /\ Products(p, x) \in Seq(Int) /\ Len(Products(p, x)) = k
        /\ \A i \in 1..k : Products(p, x)[i] = p[i] * x[i]
        /\ SumOf(Products(p, x)) \in Int
    BY <2>1, <2>2, ProductsTyped
  <2>4. SumOf(Products(p, x)) >= 0
    <3>1. PICK q \in 1..k : SumOf(p) * x[q] <= SumOf(Products(p, x))
      BY <2>1, <2>2, WeightedMean
    <3>2. x[q] \in Nat /\ SumOf(p) \in Nat
      <4>1. p \in Seq(Int)
        OBVIOUS
      <4>2. SumOf(p) \in Int
        BY <4>1, SumTyped
      <4> QED
        BY <2>1, <4>2
    <3>3. SumOf(p) * x[q] \in Nat
      BY <3>2
    <3> QED
      BY ONLY <2>3, <3>1, <3>3
  <2>5. Products(p, x) = [i \in 1..k |-> p[i] * curve[i][t]]
    <3>1. \A i \in 1..k : x[i] = curve[i][t]
      BY <1>2, <2>1
    <3> QED
      BY <3>1 DEF Products
  <2>6. e[t] = cap * SumOf([i \in 1..k |-> p[i] * curve[i][t]])
    OBVIOUS
  <2> QED
    BY <2>1, <2>3, <2>4, <2>5, <2>6
<1> HIDE DEF At, Sum
<1>4. e \in Seq(Nat) /\ Len(e) = n /\ DOMAIN e = 1..n
  <2>0. DOMAIN e = 1..n /\ e = [t \in 1..n |-> e[t]]
    OBVIOUS
  <2>1. ASSUME NEW t \in 1..n
        PROVE  e[t] \in Nat
    <3>1. PICK z \in Nat : e[t] = cap * z
      BY ONLY <1>3
    <3>2. cap * z \in Nat
      OBVIOUS
    <3> QED
      BY ONLY <3>1, <3>2
  <2>2. e \in [1..n -> Nat]
    BY ONLY <2>0, <2>1
  <2> QED
    BY ONLY <2>0, <2>2, n \in Nat
<1>c. \A i \in 1..k : MaxDrawdownPct(e) <= MaxDrawdownPct(curve[i]) /\ p[i] > 0 =>
        \E j \in 1..Len(p) : p[j] > 0 /\ MaxDrawdownPct(e) <= MaxDrawdownPct(curve[j])
  OBVIOUS
<1>d. \A x, y \in Seq(Nat) :
        Len(x) = k /\ Len(y) = k /\ SumOf(Products(p, x)) > 0 =>
            \E i \in 1..k : p[i] > 0 /\ x[i] > 0 /\
                (SumOf(Products(p, x)) - SumOf(Products(p, y))) * x[i]
                    <= (x[i] - y[i]) * SumOf(Products(p, x))
  BY OneFallsAsDeep
<1> SUFFICES \E i \in 1..k : p[i] > 0 /\ MaxDrawdownPct(e) <= MaxDrawdownPct(curve[i])
  OBVIOUS
<1> HIDE DEF k
<1>5. CASE n = 0
  <2>1. e = << >>
    BY ONLY <1>4, <1>5
  <2>2. curve[held] = << >>
    BY ONLY <1>0, <1>1, <1>5
  <2>3. MaxDrawdownPct(<< >>) <= MaxDrawdownPct(<< >>)
    BY DEF MaxDrawdownPct
  <2> QED
    BY ONLY <1>1, <2>1, <2>2, <2>3
<1>6. CASE n # 0
  <2>1. e # << >>
    BY ONLY <1>4, <1>6
  <2>2. PICK f \in Nat, d \in Nat \ {0} : IsFall(e, f, d)
    BY ONLY <1>4, <2>1, FallOfCurve
  <2>3. \A i \in 1..k : \E g \in Nat, h \in Nat \ {0} : IsBound(curve[i], g, h)
    <3>1. \A i \in 1..k : curve[i] \in Seq(Nat) /\ curve[i] # << >>
      BY ONLY <1>0, <1>6
    <3> QED
      BY ONLY <3>1, BoundOfCurve
  <2>4. ASSUME NEW i \in 1..k, NEW g \in Nat, NEW h \in Nat \ {0},
               IsBound(curve[i], g, h), f * h <= g * d
        PROVE  MaxDrawdownPct(e) <= MaxDrawdownPct(curve[i])
    <3>1. (10000 * f) * h <= (10000 * g) * d
      <4>1. PICK x \in Int, y \in Int : x = f * h /\ y = g * d
        BY ONLY f \in Nat, d \in Nat \ {0}, g \in Nat, h \in Nat \ {0}
      <4>2. (10000 * f) * h = 10000 * x /\ (10000 * g) * d = 10000 * y
        BY <4>1
      <4>3. x <= y
        BY ONLY <2>4, <4>1
      <4> QED
        BY ONLY <4>2, <4>3, x \in Int, y \in Int
    <3>2. 10000 * f \in Int /\ 10000 * g \in Int
      OBVIOUS
    <3>3. RoundHalfEven(10000 * f, d) <= RoundHalfEven(10000 * g, h)
      BY ONLY <3>1, <3>2, RoundMonotone, d \in Nat \ {0}, h \in Nat \ {0}
    <3>4. /\ MaxDrawdownPct(e) = RoundHalfEven(10000 * f, d)
          /\ MaxDrawdownPct(curve[i]) = RoundHalfEven(10000 * g, h)
      BY ONLY <2>2, <2>4 DEF IsFall, IsBound
    <3> QED
      BY ONLY <3>3, <3>4
  <2>5. CASE f = 0
    <3>1. PICK g \in Nat, h \in Nat \ {0} : IsBound(curve[held], g, h)
      BY ONLY <1>1, <2>3
    <3>2. f * h <= g * d
      BY ONLY <2>5, g \in Nat, h \in Nat \ {0}, d \in Nat \ {0}
    <3> QED
      BY ONLY <1>1, <2>4, <3>1, <3>2
  <2>6. CASE f # 0
    <3>1. PICK s \in 1..n, t \in 1..n :
            s < t /\ e[s] > 0 /\ f = e[s] - e[t] /\ d = e[s]
      BY ONLY <1>4, <2>2, <2>6 DEF IsFall
    <3>2. PICK a \in Nat, b \in Nat :
            /\ a = Sum(s) /\ b = Sum(t)
            /\ e[s] = cap * a /\ e[t] = cap * b
      BY ONLY <1>3
    <3>3. d = cap * a /\ f = cap * a - cap * b
      BY ONLY <3>1, <3>2
    <3>4. a > 0
      <4>1. a = 0 => cap * a = 0
        BY ONLY cap \in Nat \ {0}
      <4> QED
        BY ONLY <3>3, <4>1, a \in Nat, d \in Nat \ {0}
    <3>5. PICK x \in Seq(Nat), y \in Seq(Nat) :
            /\ x = At(s) /\ y = At(t) /\ Len(x) = k /\ Len(y) = k
            /\ \A i \in 1..k : x[i] = curve[i][s] /\ y[i] = curve[i][t]
      BY ONLY <1>2
    <3>6. PICK i \in 1..k :
            p[i] > 0 /\ x[i] > 0 /\ (a - b) * x[i] <= (x[i] - y[i]) * a
      <4>1. a = SumOf(Products(p, x)) /\ b = SumOf(Products(p, y))
        BY ONLY <3>2, <3>5 DEF Sum
      <4> QED
        BY ONLY <1>d, <3>4, <3>5, <4>1
    <3>7. PICK u \in Nat, v \in Nat :
            /\ u = x[i] /\ v = y[i]
            /\ u = curve[i][s] /\ v = curve[i][t]
      <4>1. x[i] \in Nat /\ y[i] \in Nat
        BY ONLY <3>5, <1>a
      <4> QED
        BY ONLY <3>5, <4>1
    <3>8. PICK g \in Nat, h \in Nat \ {0} : IsBound(curve[i], g, h)
      BY ONLY <2>3
    <3>11. (u - v) * h <= g * u
      <4>1. \A j, l \in DOMAIN curve[i] :
                j < l => (curve[i][j] - curve[i][l]) * h <= g * curve[i][j]
        BY ONLY <3>8 DEF IsBound
      <4>2. DOMAIN curve[i] = 1..n
        <5>1. PICK c \in Seq(Nat) : c = curve[i] /\ Len(c) = n
          BY ONLY <1>0
        <5>2. DOMAIN c = 1..Len(c)
          BY ONLY c \in Seq(Nat)
        <5> QED
          BY ONLY <5>1, <5>2
      <4> QED
        BY ONLY <3>1, <3>7, <4>1, <4>2
    <3>9. f * u <= (u - v) * d
      <4>1. u > 0 /\ (a - b) * u <= (u - v) * a
        BY ONLY <3>6, <3>7
      <4>2. PICK l \in Int, m \in Int : l = (a - b) * u /\ m = (u - v) * a
        BY ONLY a \in Nat, b \in Nat, u \in Nat, v \in Nat
      <4>3. cap * l <= cap * m
        BY ONLY <4>1, <4>2, cap \in Nat \ {0}
      <4>4. cap * ((a - b) * u) = (cap * a - cap * b) * u
        BY ONLY a \in Nat, b \in Nat, u \in Nat, cap \in Nat \ {0}
      <4>5. cap * ((u - v) * a) = (u - v) * (cap * a)
        BY ONLY a \in Nat, v \in Nat, u \in Nat, cap \in Nat \ {0}
      <4> QED
        BY ONLY <3>3, <4>2, <4>3, <4>4, <4>5
    <3>10. f * h <= g * d
      <4>1. u # 0
        BY ONLY <3>6, <3>7
      <4>2. PICK w \in Int : w = u - v
        BY ONLY u \in Nat, v \in Nat
      <4>3. /\ u \in Nat \ {0} /\ d \in Nat /\ h \in Nat /\ f \in Int /\ g \in Int
            /\ f * u <= w * d /\ w * h <= g * u
        BY ONLY <3>9, <3>11, <4>1, <4>2, u \in Nat, f \in Nat, g \in Nat,
                d \in Nat \ {0}, h \in Nat \ {0}
      <4> QED
        BY ONLY <4>3, FractionsCompose, w \in Int
    <3>12. MaxDrawdownPct(e) <= MaxDrawdownPct(curve[i])
      BY ONLY <2>4, <3>8, <3>10
    <3> QED
      BY ONLY <3>6, <3>12
  <2> QED
    BY ONLY <2>5, <2>6
<1> QED
  BY <1>5, <1>6

-----------------------------------------------------------------------------
(* The portfolio. *)

\* What the bars so far have made of the legs.
LegsBacktested ==
    /\ claude \in BOOLEAN /\ asked \in Asked
    /\ DOMAIN feed = Symbols
    /\ \A s \in Symbols :
            feed[s] \in Seq(Closes) /\ Len(feed[s]) = Len(Warmup) + BarCount
    /\ BarCount \in Nat
    /\ DOMAIN legs = Legs
    /\ \A i \in Legs : IsLeg(legs[i]) /\ Len(legs[i].curve) = BarCount

\* The result is of the legs as they are.
Combined ==
    /\ result.done \in BOOLEAN
    /\ result.done =>
        /\ result.weights = Weights(asked)
        /\ result.equity = [t \in 1..BarCount |-> ValueAt(result.weights.parts, t)]
        /\ result.max_drawdown_pct = MaxDrawdownPct(result.equity)

LEMMA LegsTyped ==
    /\ Legs = 1..Len(LegStrategy) /\ Len(LegStrategy) \in Nat \ {0} /\ 1 \in Legs
    /\ \A i \in Legs : /\ LegStrategy[i] \in {"sma_cross", "momentum", "agent"}
                       /\ LegSymbol[i] \in Symbols
<1>1. /\ LegStrategy \in Seq({"sma_cross", "momentum", "agent"})
      /\ LegStrategy # << >> /\ DOMAIN LegSymbol = Legs
  BY PortfolioAssumption
<1>2. Legs = 1..Len(LegStrategy) /\ Len(LegStrategy) \in Nat \ {0}
  BY <1>1 DEF Legs
<1>3. \A i \in Legs : LegStrategy[i] \in {"sma_cross", "momentum", "agent"}
  BY <1>1 DEF Legs
<1>4. \A i \in Legs : LegSymbol[i] \in Symbols
  BY <1>1 DEF Symbols, Range
<1> QED
  BY <1>2, <1>3, <1>4

LEMMA PortfolioInitially == PortfolioInit => LegsBacktested /\ Combined
<1> SUFFICES ASSUME PortfolioInit
             PROVE  LegsBacktested /\ Combined
  OBVIOUS
<1>1. Warmup \in Seq(Closes) /\ Len(Warmup) \in Nat
  BY PortfolioAssumption
<1>2. \A s \in Symbols : feed[s] = Warmup
  BY DEF PortfolioInit
<1>3. BarCount = 0
  BY <1>1, <1>2, LegsTyped DEF BarCount
<1>4. \A i \in Legs : IsLeg(legs[i]) /\ Len(legs[i].curve) = 0
  <2>1. \A i \in Legs : legs[i] = FlatStart
    BY DEF PortfolioInit
  <2> QED
    BY <2>1, FlatStartIsLeg
<1>5. LegsBacktested
  <2>1. Len(Warmup) = Len(Warmup) + 0
    BY <1>1
  <2>2. claude \in BOOLEAN /\ asked \in Asked /\ DOMAIN feed = Symbols /\ DOMAIN legs = Legs
    BY DEF PortfolioInit
  <2> QED
    BY <1>1, <1>2, <1>3, <1>4, <2>1, <2>2 DEF LegsBacktested
<1>6. Combined
  BY DEF Combined, PortfolioInit, NoResult
<1> QED
  BY <1>5, <1>6

LEMMA BarsKeepBacktested ==
    ASSUME LegsBacktested, NextBars
    PROVE  LegsBacktested'
<1>1. PICK c \in [Symbols -> Closes],
           side \in [Legs -> Side \cup {"none"}] :
        /\ feed' = [s \in Symbols |-> Append(feed[s], c[s])]
        /\ \A i \in Legs :
            side[i] \in Signals(LegStrategy[i], claude, feed'[LegSymbol[i]],
                                legs[i].account.position)
        /\ legs' = [i \in Legs |->
                        BacktestBar(legs[i], feed'[LegSymbol[i]], side[i])]
  BY DEF NextBars
<1>2. claude' = claude /\ asked' = asked
  BY DEF NextBars
<1>3. ASSUME NEW s \in Symbols
      PROVE  /\ feed'[s] \in Seq(Closes) /\ feed'[s] # << >>
             /\ Len(feed'[s]) = Len(Warmup) + (BarCount + 1)
  <2>1. PICK q \in Seq(Closes), e \in Closes : q = feed[s] /\ e = c[s]
    BY <1>1 DEF LegsBacktested
  <2>2. feed'[s] = Append(q, e)
    BY <1>1, <2>1
  <2>3. Len(q) = Len(Warmup) + BarCount /\ BarCount \in Nat
    BY <2>1 DEF LegsBacktested
  <2>4. Len(Warmup) \in Nat
    BY PortfolioAssumption
  <2>5. PICK k \in Nat, w \in Nat : k = BarCount /\ w = Len(Warmup)
    BY <2>3, <2>4
  <2>6. /\ Append(q, e) \in Seq(Closes) /\ Append(q, e) # << >>
        /\ Len(Append(q, e)) = Len(q) + 1
    BY <2>1
  <2>7. Len(q) = w + k => Len(q) + 1 = w + (k + 1)
    OBVIOUS
  <2> QED
    BY ONLY <2>2, <2>3, <2>5, <2>6, <2>7
<1>4. BarCount' = BarCount + 1 /\ BarCount \in Nat
  <2>1. Len(feed'[LegSymbol[1]]) = Len(Warmup) + (BarCount + 1)
    BY <1>3, LegsTyped
  <2>2. BarCount' = Len(feed'[LegSymbol[1]]) - Len(Warmup)
    BY DEF BarCount
  <2>3. BarCount \in Nat /\ Len(Warmup) \in Nat
    BY PortfolioAssumption DEF LegsBacktested
  <2> HIDE DEF BarCount
  <2> QED
    BY ONLY <2>1, <2>2, <2>3
<1>5. ASSUME NEW i \in Legs
      PROVE  IsLeg(legs'[i]) /\ Len(legs'[i].curve) = BarCount + 1
  <2>1. PICK b : b = legs[i]
    OBVIOUS
  <2>2. PICK cs \in Seq(Closes) : cs = feed'[LegSymbol[i]] /\ cs # << >>
    BY <1>3, LegsTyped
  <2>3. IsLeg(b) /\ Len(b.curve) = BarCount
    BY <2>1 DEF LegsBacktested
  <2>4. Gated(side[i], b.account.position)
    <3>1. side[i] \in Signals(LegStrategy[i], claude, cs, b.account.position)
      BY <1>1, <2>1, <2>2
    <3>2. LegStrategy[i] \in {"sma_cross", "momentum", "agent"} /\ claude \in BOOLEAN
      BY LegsTyped DEF LegsBacktested
    <3> QED
      BY ONLY <3>1, <3>2, SignalsGated
  <2>5. legs'[i] = BacktestBar(b, cs, side[i])
    BY <1>1, <2>1, <2>2
  <2>6. /\ IsLeg(BacktestBar(b, cs, side[i]))
        /\ Len(BacktestBar(b, cs, side[i]).curve) = Len(b.curve) + 1
    BY ONLY <2>2, <2>3, <2>4, BarKeepsLeg
  <2> QED
    BY ONLY <2>3, <2>5, <2>6
<1>6. DOMAIN feed' = Symbols /\ DOMAIN legs' = Legs
  BY <1>1
<1>7. \A i \in Legs : IsLeg(legs[i])' <=> IsLeg(legs'[i])
  BY DEF IsLeg, RoomForCosts, FillPrice, CrossSpread, Mark, FillRecords, Accounts, Side
<1> QED
  BY <1>2, <1>3, <1>4, <1>5, <1>6, <1>7 DEF LegsBacktested

LEMMA PortfolioStep ==
    LegsBacktested /\ Combined /\ [PortfolioNext]_portfolioVars => LegsBacktested' /\ Combined'
<1> SUFFICES ASSUME LegsBacktested, Combined, [PortfolioNext]_portfolioVars
             PROVE  LegsBacktested' /\ Combined'
  OBVIOUS
<1>1. CASE NextBars
  <2>1. ~result'.done /\ result'.done \in BOOLEAN
    BY <1>1 DEF NextBars, Combined
  <2> QED
    BY <1>1, <2>1, BarsKeepBacktested DEF Combined
<1>2. CASE Combine
  <2>1. UNCHANGED <<claude, asked, feed, legs>>
    BY <1>2 DEF Combine
  <2>2. LegsBacktested'
    BY <2>1 DEF LegsBacktested, BarCount, IsLeg
  <2>3. BarCount' = BarCount /\ \A parts, t : ValueAt(parts, t)' = ValueAt(parts, t)
    BY <2>1 DEF BarCount, ValueAt
  <2>4. /\ result'.done
        /\ result'.weights = Weights(asked)
        /\ result'.equity = [t \in 1..BarCount |-> ValueAt(Weights(asked).parts, t)]
        /\ result'.max_drawdown_pct = MaxDrawdownPct(result'.equity)
    BY <1>2 DEF Combine
  <2>5. Weights(asked)' = Weights(asked)
    BY <2>1
  <2> QED
    BY <2>2, <2>3, <2>4, <2>5 DEF Combined
<1>3. CASE UNCHANGED portfolioVars
  BY <1>3 DEF portfolioVars, LegsBacktested, Combined, BarCount, ValueAt, IsLeg
<1> QED
  BY <1>1, <1>2, <1>3 DEF PortfolioNext

THEOREM CombinedAlways == PortfolioSpec => [](LegsBacktested /\ Combined)
BY PortfolioInitially, PortfolioStep, PTL DEF PortfolioSpec

\* For every strategy, verdict of the agent's client, feed and parameter: a
\* leg has one entry at a time and leaves it whole.
THEOREM OneEntryAlways == PortfolioSpec => []OneEntryAtATime
<1>1. LegsBacktested => OneEntryAtATime
  <2> SUFFICES ASSUME LegsBacktested, NEW i \in Legs
               PROVE  /\ \A n \in DOMAIN legs[i].events :
                            legs[i].events[n].side = IF n % 2 = 1 THEN "buy" ELSE "sell"
                      /\ legs[i].account.position > 0 <=> Len(legs[i].events) % 2 = 1
    BY DEF OneEntryAtATime
  <2>1. IsLeg(legs[i])
    BY DEF LegsBacktested
  <2>2. DOMAIN legs[i].events = 1..Len(legs[i].events)
    BY <2>1 DEF IsLeg
  <2> QED
    BY <2>1, <2>2 DEF IsLeg
<1> QED
  BY <1>1, CombinedAlways, PTL

\* The shares of a whole: one for each leg, of a sum that is positive.
LEMMA SharesOfAWhole ==
    ASSUME NEW w \in Asked
    PROVE  LET p == Weights(w).parts
           IN  /\ p \in Seq(Int) /\ Len(p) = Len(LegStrategy)
               /\ SumOf(p) > 0 /\ Weights(w).whole = SumOf(p)
<1>1. /\ w \in [Legs -> Int] /\ Legs = 1..Len(LegStrategy)
      /\ Len(LegStrategy) \in Nat \ {0}
  BY LegsTyped, PortfolioAssumption
<1>2. w \in Seq(Int) /\ Len(w) = Len(LegStrategy)
  BY <1>1
<1>3. CASE SumOf(w) > 0
  <2>1. Weights(w) = [parts |-> w, whole |-> SumOf(w)]
    BY <1>3 DEF Weights
  <2> QED
    BY <1>2, <1>3, <2>1
<1>4. CASE ~(SumOf(w) > 0)
  <2>1. Weights(w) = [parts |-> [i \in Legs |-> 1], whole |-> Len(w)]
    BY <1>4 DEF Weights
  <2>2. PICK p : p = [i \in Legs |-> 1]
    OBVIOUS
  <2>3. p \in Seq({1}) /\ p \in Seq(Int) /\ Len(p) = Len(LegStrategy)
    BY <1>1, <2>2
  <2>4. SumOf(p) = Len(p)
    BY <2>3, SumOfOnes
  <2> QED
    BY <1>1, <1>2, <2>1, <2>2, <2>3, <2>4
<1> QED
  BY <1>3, <1>4

\* A bar of the portfolio is the capital times a weighted sum of the legs'.
LEMMA ValueBetweenLegs ==
    ASSUME LegsBacktested, NEW p \in Seq(Nat), Len(p) = Len(LegStrategy), SumOf(p) > 0,
           NEW t \in 1..BarCount
    PROVE  \E i, j \in Legs :
            /\ p[i] > 0 /\ p[j] > 0
            /\ Capital * SumOf(p) * legs[i].curve[t] <= ValueAt(p, t)
            /\ ValueAt(p, t) <= Capital * SumOf(p) * legs[j].curve[t]
<1>1. Legs = 1..Len(p)
  BY LegsTyped
<1>2. \A i \in Legs : legs[i].curve[t] \in Int
  <2>1. \A s \in Seq(Int) : \A n \in 1..Len(s) : s[n] \in Int
    OBVIOUS
  <2>2. \A i \in Legs : legs[i].curve \in Seq(Int) /\ Len(legs[i].curve) = BarCount
    BY DEF LegsBacktested, IsLeg
  <2> QED
    BY ONLY <2>1, <2>2, t \in 1..BarCount
<1>3. PICK x \in Seq(Int) : Len(x) = Len(p) /\ \A i \in Legs : x[i] = legs[i].curve[t]
  <2>1. PICK x : x = [i \in Legs |-> legs[i].curve[t]]
    OBVIOUS
  <2>2. Len(p) \in Nat
    OBVIOUS
  <2>3. x \in Seq(Int) /\ Len(x) = Len(p)
    BY ONLY <1>1, <1>2, <2>1, <2>2
  <2> QED
    BY ONLY <2>1, <2>3
<1>4. ValueAt(p, t) = Capital * SumOf(Products(p, x))
  <2>1. Products(p, x) = [i \in Legs |-> p[i] * legs[i].curve[t]]
    BY <1>1, <1>3 DEF Products
  <2> QED
    BY <2>1 DEF ValueAt
<1>5. PICK i \in 1..Len(p), j \in 1..Len(p) :
        /\ p[i] > 0 /\ SumOf(p) * x[i] <= SumOf(Products(p, x))
        /\ p[j] > 0 /\ SumOf(Products(p, x)) <= SumOf(p) * x[j]
  BY ONLY <1>3, WeightedMean, p \in Seq(Nat), x \in Seq(Int), SumOf(p) > 0
<1>6. SumOf(p) \in Int /\ SumOf(Products(p, x)) \in Int
  BY ONLY <1>3, ProductsTyped, p \in Seq(Nat), x \in Seq(Int)
<1>7. x[i] \in Int /\ x[j] \in Int
  BY ONLY <1>3, x \in Seq(Int), i \in 1..Len(p), j \in 1..Len(p)
<1>8. Capital \in Nat
  BY PortfolioAssumption
<1>9. \A h \in Nat, a, b, c \in Int :
        /\ a * b <= c => h * a * b <= h * c
        /\ c <= a * b => h * c <= h * a * b
  <2> SUFFICES ASSUME NEW h \in Nat, NEW a \in Int, NEW b \in Int, NEW c \in Int
               PROVE  /\ a * b <= c => h * a * b <= h * c
                      /\ c <= a * b => h * c <= h * a * b
    OBVIOUS
  <2>1. PICK d \in Int : d = a * b
    OBVIOUS
  <2>2. h * a * b = h * d
    BY <2>1
  <2>3. (d <= c => h * d <= h * c) /\ (c <= d => h * c <= h * d)
    OBVIOUS
  <2> QED
    BY ONLY <2>1, <2>2, <2>3
<1>10. /\ Capital * SumOf(p) * x[i] <= ValueAt(p, t)
       /\ ValueAt(p, t) <= Capital * SumOf(p) * x[j]
  BY ONLY <1>4, <1>5, <1>6, <1>7, <1>8, <1>9
<1> QED
  BY ONLY <1>1, <1>3, <1>5, <1>10

\* For every weighting without a negative weight, and every set of legs: the
\* value of the portfolio stays between its legs' and, with room for costs,
\* its drawdown is no deeper than the deepest of theirs.
THEOREM AlwaysBoundedByLegs == PortfolioSpec => [](RoomForCosts => BoundedByLegs)
<1>1. ASSUME LegsBacktested, Combined, RoomForCosts
      PROVE  BoundedByLegs
  <2> SUFFICES ASSUME result.done, \A i \in Legs : result.weights.parts[i] >= 0
               PROVE  LET w == result.weights
                          Held == {i \in Legs : w.parts[i] > 0}
                          Alone(i, t) == Capital * w.whole * legs[i].curve[t]
                      IN  /\ \A t \in DOMAIN result.equity : \E i, j \in Held :
                                /\ Alone(i, t) <= result.equity[t]
                                /\ result.equity[t] <= Alone(j, t)
                          /\ \E i \in Held :
                                result.max_drawdown_pct <= MaxDrawdownPct(legs[i].curve)
    BY DEF BoundedByLegs
  <2>1. PICK p : p = result.weights.parts
    OBVIOUS
  <2>2. /\ p \in Seq(Int) /\ Len(p) = Len(LegStrategy)
        /\ SumOf(p) > 0 /\ result.weights.whole = SumOf(p)
    BY <1>1, <2>1, SharesOfAWhole DEF LegsBacktested, Combined
  <2>3. p \in Seq(Nat)
    <3>1. \A i \in 1..Len(p) : p[i] \in Nat
      BY <2>1, <2>2, LegsTyped
    <3> QED
      BY ONLY <2>2, <3>1
  <2>4. /\ DOMAIN result.equity = 1..BarCount
        /\ \A t \in 1..BarCount : result.equity[t] = ValueAt(p, t)
        /\ result.equity = [t \in 1..BarCount |-> ValueAt(p, t)]
        /\ result.max_drawdown_pct = MaxDrawdownPct(result.equity)
    BY <1>1, <2>1 DEF Combined
  <2>5. ASSUME NEW t \in DOMAIN result.equity
        PROVE  \E i, j \in {i \in Legs : p[i] > 0} :
                /\ Capital * SumOf(p) * legs[i].curve[t] <= result.equity[t]
                /\ result.equity[t] <= Capital * SumOf(p) * legs[j].curve[t]
    <3>1. t \in 1..BarCount /\ result.equity[t] = ValueAt(p, t)
      BY <2>4
    <3>2. PICK i \in Legs, j \in Legs :
            /\ p[i] > 0 /\ p[j] > 0
            /\ Capital * SumOf(p) * legs[i].curve[t] <= ValueAt(p, t)
            /\ ValueAt(p, t) <= Capital * SumOf(p) * legs[j].curve[t]
      BY ONLY <1>1, <2>2, <2>3, <3>1, ValueBetweenLegs
    <3> QED
      BY ONLY <3>1, <3>2
  <2>6. \E i \in {i \in Legs : p[i] > 0} :
            result.max_drawdown_pct <= MaxDrawdownPct(legs[i].curve)
    <3>1. PICK curve : curve = [i \in Legs |-> legs[i].curve]
      OBVIOUS
    <3>2. Legs = 1..Len(p)
      BY <2>2, LegsTyped
    <3>3. \A i \in 1..Len(p) : /\ curve[i] = legs[i].curve
                               /\ curve[i] \in Seq(Nat) /\ Len(curve[i]) = BarCount
      BY <1>1, <3>1, <3>2 DEF LegsBacktested, IsLeg
    <3>4. ASSUME NEW t \in 1..BarCount
          PROVE  ValueAt(p, t) = Capital * SumOf([i \in 1..Len(p) |-> p[i] * curve[i][t]])
      <4>1. [i \in Legs |-> p[i] * legs[i].curve[t]]
              = [i \in 1..Len(p) |-> p[i] * curve[i][t]]
        BY ONLY <3>2, <3>3
      <4> QED
        BY ONLY <4>1 DEF ValueAt
    <3>5. PICK e : e = result.equity
      OBVIOUS
    <3>6. e = [t \in 1..BarCount |->
                Capital * SumOf([i \in 1..Len(p) |-> p[i] * curve[i][t]])]
      BY ONLY <2>4, <3>4, <3>5
    <3>7. Capital \in Nat \ {0} /\ BarCount \in Nat
      BY <1>1, PortfolioAssumption DEF LegsBacktested
    <3>8. PICK i \in 1..Len(p) :
            p[i] > 0 /\ MaxDrawdownPct(e) <= MaxDrawdownPct(curve[i])
      <4>1. PICK n \in Nat, cap \in Nat \ {0} : n = BarCount /\ cap = Capital
        BY ONLY <3>7
      <4>2. \A j \in 1..Len(p) : curve[j] \in Seq(Nat) /\ Len(curve[j]) = n
        BY ONLY <3>3, <4>1
      <4>3. e = [t \in 1..n |-> cap * SumOf([j \in 1..Len(p) |-> p[j] * curve[j][t]])]
        BY ONLY <3>6, <4>1
      <4> QED
        BY ONLY <2>2, <2>3, <4>2, <4>3, SpreadFallsLess, n \in Nat, cap \in Nat \ {0}
    <3> QED
      BY ONLY <2>4, <3>2, <3>3, <3>5, <3>8
  <2> QED
    BY ONLY <2>1, <2>2, <2>5, <2>6
<1>2. LegsBacktested /\ Combined => (RoomForCosts => BoundedByLegs)
  BY <1>1
<1> QED
  BY <1>2, CombinedAlways, PTL
=============================================================================
