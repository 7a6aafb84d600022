------------------------ MODULE MCSubscriptionBuffer ------------------------
(* SubscriptionBuffer on small instances: two readers that make different  *)
(* calls. The other constants are set in the cfg files.                    *)
EXTENDS SubscriptionBuffer

CONSTANTS r1, r2

\* A plain event consumer beside one that moves about in the buffer and also reads
\* updates as a PushClient does.
MixedCalls ==
  [r \in Readers |->
     IF r = r1 THEN {"getEvent", "resetOverflow"}
     ELSE {"getEvent", "getNextEvent", "getLastAvailableData", "seek",
           "getUpdate", "getUpdateWait"}]
=============================================================================
