---------------------------- MODULE MCPushPattern ----------------------------
(* PushPattern on small instances; the constants are set in the cfg files. *)
EXTENDS PushPattern
=============================================================================
