--------------------------- MODULE MCNamingService ---------------------------
(* NamingService on small instances; the constants are set in the cfg file. *)
EXTENDS NamingService
=============================================================================
