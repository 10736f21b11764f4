------------------------------ MODULE MCChart ------------------------------
(* Instance of Chart for TLC: a minute of two units; the bars are off the
   minute, as the demo feed's are. *)
EXTENDS Chart

MCFeed == <<7, 9, 11>>
MCAllTime == <<0, 100>>
MCRanges == {MCAllTime, <<8, 12>>, <<10, 9>>}
MCSignalTimes == {11}
=============================================================================
