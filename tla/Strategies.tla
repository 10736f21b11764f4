----------------------------- MODULE Strategies -----------------------------
(***************************************************************************)
(* The registered strategies (strategy/library/): a strategy reads the     *)
(* closes up to a bar and the position, and gives at most one signal.      *)
(* Averages and returns are compared by multiplying out.                   *)
(***************************************************************************)
EXTENDS Integers, Sequences, SequencesExt

CONSTANTS
    Fast, Slow,             \* SMA windows of sma_cross and agent
    Lookback, Threshold,    \* of momentum; the threshold in percent
    RsiLength               \* of agent

ASSUME StrategyAssumption ==
    /\ Fast \in Nat \ {0} /\ Slow \in Nat \ {0} /\ Fast < Slow
    /\ Lookback \in Nat \ {0} /\ Threshold \in Nat
    /\ RsiLength \in Nat \ {0, 1}

-----------------------------------------------------------------------------
(* sma_cross. *)

\* StrategyContext.sma, times n: the sum of n closes ending offset bars back.
SmaSum(cs, n, offset) ==
    FoldLeft(+, 0, SubSeq(cs, Len(cs) - offset - n + 1, Len(cs) - offset))

\* How far the fast average is above the slow one, offset bars back.
Gap(cs, offset) == SmaSum(cs, Fast, offset) * Slow - SmaSum(cs, Slow, offset) * Fast

\* SmaCrossStrategy.evaluate, "none" for no signal.
SmaCross(cs, position) ==
    IF Len(cs) <= Slow THEN "none"
    ELSE IF Gap(cs, 1) <= 0 /\ Gap(cs, 0) > 0 /\ position <= 0 THEN "buy"
    ELSE IF Gap(cs, 1) >= 0 /\ Gap(cs, 0) < 0 /\ position > 0 THEN "sell"
    ELSE "none"

-----------------------------------------------------------------------------
(* momentum. *)

\* Mutant: the level alone decides, whatever the position.
MomentumUngated(cs, position) ==
    IF Len(cs) <= Lookback \/ cs[Len(cs) - Lookback] = 0 THEN "none"
    ELSE LET past == cs[Len(cs) - Lookback]
             rise == 100 * (Last(cs) - past)
         IN  IF rise > Threshold * past THEN "buy"
             ELSE IF rise < -Threshold * past /\ position > 0 THEN "sell"
             ELSE "none"

\* MomentumStrategy.evaluate: the return over Lookback bars against the band.
Momentum(cs, position) ==
    IF Len(cs) <= Lookback \/ cs[Len(cs) - Lookback] = 0 THEN "none"
    ELSE LET past == cs[Len(cs) - Lookback]
             rise == 100 * (Last(cs) - past)
         IN  IF rise > Threshold * past /\ position <= 0 THEN "buy"
             ELSE IF rise < -Threshold * past /\ position > 0 THEN "sell"
             ELSE "none"

-----------------------------------------------------------------------------
(* agent: an SMA cross proposes, a client confirms or vetoes. *)

\* _rsi as gains and losses over the last RsiLength changes.
RsiSums(cs) ==
    LET changes == [i \in 1..RsiLength |->
                        cs[Len(cs) - i + 1] - cs[Len(cs) - i]]
    IN  [gain |-> FoldLeft(LAMBDA s, d : IF d >= 0 THEN s + d ELSE s, 0, changes),
         loss |-> FoldLeft(LAMBDA s, d : IF d < 0 THEN s - d ELSE s, 0, changes)]

\* StubLLMClient.decide: no purchase at an RSI of 70 and above, no sale at
\* one of 30 and below, if there are closes enough; without losses it is 100.
StubConfirms(candidate, cs) ==
    \/ Len(cs) <= RsiLength
    \/ LET r == RsiSums(cs)
       IN  IF candidate = "buy"
           THEN r.loss > 0 /\ 100 * r.gain < 70 * (r.gain + r.loss)
           ELSE r.loss = 0 \/ 100 * r.gain > 30 * (r.gain + r.loss)

\* AnthropicLLMClient.decide answers anything, or falls back to the stub.
Verdicts(claude, candidate, cs) ==
    IF claude THEN BOOLEAN ELSE {StubConfirms(candidate, cs)}

\* AgentStrategy.evaluate, given whether the client confirms a candidate.
Agent(cs, position, confirmed) ==
    IF confirmed THEN SmaCross(cs, position) ELSE "none"

-----------------------------------------------------------------------------
\* The signals a strategy may give (signals/engine.py); what the client says
\* is asked for at a candidate only.
Signals(strategy, claude, cs, position) ==
    CASE strategy = "sma_cross" -> {SmaCross(cs, position)}
      [] strategy = "momentum" -> {Momentum(cs, position)}
      [] strategy = "agent" ->
            LET candidate == SmaCross(cs, position)
            IN  IF candidate = "none" THEN {"none"}
                ELSE {Agent(cs, position, v) : v \in Verdicts(claude, candidate, cs)}
=============================================================================
