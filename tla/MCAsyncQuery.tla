---------------------------- MODULE MCAsyncQuery ----------------------------
(* AsyncQuery on small instances; the constants are set in the cfg files.  *)
EXTENDS AsyncQuery

CONSTANTS t1, t2
=============================================================================
