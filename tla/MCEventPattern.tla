--------------------------- MODULE MCEventPattern ----------------------------
(* EventPattern on small instances; the constants are set in the cfg file. *)
EXTENDS EventPattern
=============================================================================
