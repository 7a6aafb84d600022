------------------------------- MODULE MCWiring -------------------------------
(* Wiring with two components, one of which has two clients. *)
EXTENDS Wiring

CONSTANTS c1, c2, k1, k2, k3

Homes == [k \in Clients |-> IF k = k3 THEN c2 ELSE c1]

Command(command, port, server) == [command |-> command, port |-> port, server |-> server]

\* Every command for one port, and one for another.
SomeRequests ==
  {Command("connect", "p", c) : c \in Components}
    \cup {Command("disconnect", "p", c1), Command("connect", "q", c2), Command("other", "p", c1)}
=============================================================================
