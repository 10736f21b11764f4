--------------------------- MODULE MCEventLedger ---------------------------
(* Instance of EventLedger for TLC; liveness is checked, so the sets of model
   values are not declared symmetric. *)
EXTENDS EventLedger
=============================================================================
