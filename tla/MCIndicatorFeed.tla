-------------------------- MODULE MCIndicatorFeed --------------------------
(* Instance of IndicatorFeed for TLC: a minute of two units, a day of four
   minutes, a week of two days; bars one or three minutes apart. *)
EXTENDS IndicatorFeed

MCDrifts == {-4, 0, 3}
=============================================================================
