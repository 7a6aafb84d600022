---------------------------- MODULE MCStateSlave ----------------------------
(* StateSlave on small instances; the constants are set in the cfg files.  *)
EXTENDS StateSlave, TLC

\* The local threads are interchangeable.
ThreadSymmetry == Permutations(Threads)
=============================================================================
