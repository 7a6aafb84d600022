------------------------------ MODULE Lifecycle ------------------------------
(***************************************************************************)
(* What the life-cycle of a component promises to the threads that lock    *)
(* substates and to the masters that command main states.  Substates are   *)
(* defined before the component lives.  A change of the main state quits   *)
(* and enters exactly the substates it should, quits none that is locked   *)
(* when the change is through, and never leads out of Shutdown.  A master  *)
(* has one order at a time, which is answered once, and with OK only at a  *)
(* moment at which the component is in the main state it ordered.          *)
(* Queues, counters, waiting threads and postponed changes do not appear.  *)
(***************************************************************************)

CONSTANTS
  Threads,
  MainStates,
  SubStates,
  Deactivations,   \* the orders that end in Neutral with no substate
  Status,          \* the answers; "none": there is none yet
  MayWait          \* TRUE: a thread may wait for a lock and get it late

VARIABLES
  main,      \* the main state
  belongs,   \* the main states of every substate
  on,        \* the active substates
  holds,     \* the substates a thread has locked
  order      \* the order of a master and its answer

vars == <<main, belongs, on, holds, order>>

NoOrder == [given |-> FALSE, state |-> "Init", status |-> "none"]

Given(m, status) == [given |-> TRUE, state |-> m, status |-> status]

Init ==
  /\ main = "Init"
  /\ belongs \in [SubStates -> SUBSET MainStates]
  /\ on = {s \in SubStates : "Init" \in belongs[s]}
  /\ holds = [t \in Threads |-> {}]
  /\ order = NoOrder

Define ==
  /\ main = "Init"
  /\ belongs' \in [SubStates -> SUBSET MainStates]
  /\ \A s \in SubStates : belongs[s] \subseteq belongs'[s]
  /\ UNCHANGED <<main, on, holds, order>>

\* A change of the main state, maybe at the moment a lock is given back.
Change ==
  /\ main # "Shutdown"
  /\ main' \in MainStates
  /\ \/ on' = {s \in SubStates : main' \in belongs[s] /\ (main \in belongs[s] => s \in on)}
     \/ main' = "Neutral" /\ on' = {}
  /\ \A s \in on \ on' : \A t \in Threads : s \notin holds'[t]

Stay == UNCHANGED <<main, on>>

\* The order is answered, or not yet.
Answer ==
  \/ UNCHANGED order
  \/ /\ order.given
     /\ order.status = "none"
     /\ \E status \in Status \ {"none"} :
          /\ order' = Given(order.state, status)
          /\ status = "OK" =>
               main' = IF order.state \in Deactivations THEN "Neutral" ELSE order.state

Proceed == (Stay \/ Change) /\ Answer /\ UNCHANGED <<belongs, holds>>

\* An order is taken, or refused at once.
Command(m) ==
  /\ ~ order.given
  /\ \E status \in Status \ {"OK"} : order' = Given(m, status)
  /\ UNCHANGED <<main, belongs, on, holds>>

Forget ==
  /\ order.status # "none"
  /\ order' = NoOrder
  /\ UNCHANGED <<main, belongs, on, holds>>

\* What is locked without waiting is active.
Lock(t, s) ==
  /\ s \in on \/ MayWait
  /\ s \notin holds[t]
  /\ holds' = [holds EXCEPT ![t] = @ \cup {s}]
  /\ UNCHANGED <<main, belongs, on, order>>

Unlock(t, s) ==
  /\ s \in holds[t]
  /\ holds' = [holds EXCEPT ![t] = @ \ {s}]
  /\ Stay \/ Change
  /\ Answer
  /\ UNCHANGED belongs

Next ==
  \/ Define
  \/ Proceed
  \/ \E m \in MainStates : Command(m)
  \/ Forget
  \/ \E t \in Threads, s \in SubStates : Lock(t, s) \/ Unlock(t, s)

Spec == Init /\ [][Next]_vars
=============================================================================
