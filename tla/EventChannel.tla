---------------------------- MODULE EventChannel -----------------------------
(***************************************************************************)
(* What the event pattern promises to its activations. The statuses are    *)
(* numbered by the calls of put(); fired holds the ones whose test was     *)
(* true. A client is given statuses that fired, never an older one than    *)
(* before; statuses may be left out, and one may be given again. As soon   *)
(* as something fired, the client may also get the value 0 the variable is *)
(* created with, but not after a status.                                   *)
(***************************************************************************)
EXTENDS Integers

CONSTANTS
  Activations,
  MaxPuts       \* bound on the calls of put()

VARIABLES
  fired,    \* for every activation, the statuses that fired
  last      \* the status it was given last, -1: none

vars == <<fired, last>>

Init ==
  /\ fired = [a \in Activations |-> {}]
  /\ last = [a \in Activations |-> -1]

\* put() fires for a: its status is newer than those before it.
Fire(a, n) ==
  /\ \A m \in fired[a] : m < n
  /\ fired' = [fired EXCEPT ![a] = @ \cup {n}]
  /\ UNCHANGED last

\* The client is given a status.
Deliver(a, n) ==
  /\ fired[a] # {}
  /\ n \in fired[a] \cup {0}
  /\ last[a] <= n
  /\ last' = [last EXCEPT ![a] = n]
  /\ UNCHANGED fired

Next == \E a \in Activations : \E n \in 0 .. MaxPuts : (n # 0 /\ Fire(a, n)) \/ Deliver(a, n)

Spec == Init /\ [][Next]_vars
=============================================================================
