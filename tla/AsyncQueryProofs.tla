-------------------------- MODULE AsyncQueryProofs --------------------------
(***************************************************************************)
(* What AsyncQuery guarantees for any number of threads and requests.      *)
(*                                                                         *)
(* Inv is the inductive part that needs no discipline of the callers: the  *)
(* OPC UA mutex keeps creators and the client thread apart, and the flag   *)
(* hasAnswer is only ever set on a converted answer. ListInv is about the  *)
(* list of answers and blocking(): what foreach() has passed is up to date *)
(* and so is what enters the list behind it.                               *)
(***************************************************************************)
EXTENDS AsyncQuery, TLAPS

\* Answers are converted before they are announced.
AnswersConverted ==
  /\ \A i \in Answers : hasAnswer[i] => answer[i] # "none"
  /\ processing # 0 => answer[processing] # "none"

\* A creating thread has room for its answer and no other id; a waiting one has an id.
ThreadsHaveIds ==
  \A t \in Threads :
    /\ pc[t] = "creating" => id[t] = 0 /\ created < MaxQueries
    /\ pc[t] \in {"checking", "falling", "asleep", "deciding"} => id[t] # 0

Inv == TypeOK /\ MutexMatchesUse /\ AnswersConverted /\ ThreadsHaveIds /\ OkMeansAnswered

\* Ids are of listed answers, and every thread has its own.
IdsListed ==
  /\ \A i \in storage : i <= created
  /\ \A t \in Threads : id[t] # 0 => id[t] \in storage
  /\ \A t, u \in Threads : id[t] # 0 /\ id[t] = id[u] => t = u

\* Everything that foreach() will not come to any more has the value asked for.
FlagsCurrent ==
  /\ blockingEnabled = asked
  /\ \A t \in Threads : pc[t] = "creating" => enabled[created + 1] = asked
  /\ \A i \in storage : (cursor = -1 \/ i <= cursor) => enabled[i] = asked

ListInv == IdsListed /\ FlagsCurrent

USE QueryAssumption

LEMMA InitInv == Init => Inv /\ ListInv
BY DEF Init, Inv, TypeOK, MutexMatchesUse, AnswersConverted, ThreadsHaveIds, OkMeansAnswered,
       ListInv, IdsListed, FlagsCurrent, Answers

\* Between two creators there is the mutex.
LEMMA OneCreator ==
  ASSUME MutexMatchesUse, NEW t \in Threads, NEW u \in Threads,
         pc[t] = "creating", pc[u] = "creating"
  PROVE  t = u /\ processing = 0
BY DEF MutexMatchesUse

\* Every step keeps Inv.
LEMMA NextInv == Inv /\ [Next]_vars => Inv'
<1> SUFFICES ASSUME Inv, [Next]_vars PROVE Inv'
  OBVIOUS
<1> USE DEF Inv, TypeOK, MutexMatchesUse, AnswersConverted, ThreadsHaveIds, OkMeansAnswered,
            Answers, threadVars
<1>1. ASSUME NEW b \in BOOLEAN, Blocking(b) PROVE Inv'
  BY <1>1 DEF Blocking, SetBlocking
<1>2. CASE BlockingVisit
  BY <1>2 DEF BlockingVisit, Notify
<1>3. CASE BlockingReturn
  BY <1>3 DEF BlockingReturn
<1>4. CASE Connect
  BY <1>4 DEF Connect
<1>5. ASSUME NEW i \in Answers, NEW response \in {"good", "bad", "empty"}, Callback(i, response)
      PROVE Inv'
  <2>1. CASE response = "empty"
    BY <1>5, <2>1 DEF Callback
  <2>2. CASE response # "empty"
    BY <1>5, <2>2 DEF Callback, ProcessAnswer
  <2> QED BY <2>1, <2>2
<1>6. CASE SetHasAnswer
  BY <1>6 DEF SetHasAnswer, Notify
<1>7. ASSUME NEW t \in Threads, Thread(t) PROVE Inv'
  <2>1. CASE QueryRequest(t)
    BY <2>1 DEF QueryRequest
  <2>2. CASE AnswerConstructed(t)
    BY <2>2 DEF AnswerConstructed
  <2>3. CASE RequestThrows(t)
    BY <2>3 DEF RequestThrows
  <2>4. CASE DropId(t)
    BY <2>4 DEF DropId
  <2>5. CASE QueryReceive(t)
    <3> USE <2>5 DEF QueryReceive, receiveUnchanged
    <3>1. CASE \E status \in {"WRONGID", "NODATA", "EXCEPTION"} : Fails(t, status)
      BY <3>1 DEF Fails
    <3>2. CASE hasAnswer[id[t]] /\ answer[id[t]] # "error" /\ Returns(t)
      BY <3>2 DEF Returns
    <3> QED BY <3>1, <3>2
  <2>6. CASE QueryReceiveWait(t)
    <3> USE <2>6 DEF QueryReceiveWait, receiveUnchanged
    <3>1. CASE Fails(t, "WRONGID") /\ UNCHANGED pc
      BY <3>1 DEF Fails
    <3>2. CASE pc' = [pc EXCEPT ![t] = "checking"] /\ UNCHANGED <<ret, valid>>
      BY <3>2
    <3> QED BY <3>1, <3>2
  <2>7. CASE QueryDiscard(t)
    BY <2>7 DEF QueryDiscard, receiveUnchanged
  <2>8. CASE WaitEnds(t) \/ WaitGoesOn(t) \/ FallAsleep(t) \/ SpuriousWakeup(t)
    <3>1. /\ pc[t] \in {"checking", "falling", "asleep"}
          /\ \E where \in {"checking", "falling", "asleep", "deciding"} :
               pc' = [pc EXCEPT ![t] = where]
          /\ UNCHANGED <<ret, valid, receiveUnchanged>>
      BY <2>8 DEF WaitEnds, WaitGoesOn, FallAsleep, SpuriousWakeup
    <3> QED BY <3>1 DEF receiveUnchanged
  <2>9. CASE Decide(t)
    <3> USE <2>9 DEF Decide, receiveUnchanged
    <3>1. CASE \E status \in {"CANCELLED", "ERROR"} : Fails(t, status)
      BY <3>1 DEF Fails
    <3>2. CASE hasAnswer[id[t]] /\ answer[id[t]] # "error" /\ Returns(t)
      BY <3>2 DEF Returns
    <3> QED BY <3>1, <3>2
  <2> QED
    BY <1>7, <2>1, <2>2, <2>3, <2>4, <2>5, <2>6, <2>7, <2>8, <2>9 DEF Thread, ReceiveStep
<1>8. CASE UNCHANGED vars
  BY <1>8 DEF vars
<1> QED
  BY <1>1, <1>2, <1>3, <1>4, <1>5, <1>6, <1>7, <1>8 DEF Next

\* With disciplined callers the list keeps its invariant.
LEMMA NextListInv == Disciplined /\ Inv /\ ListInv /\ [Next]_vars => ListInv'
<1> SUFFICES ASSUME Disciplined, Inv, ListInv, [Next]_vars PROVE ListInv'
  OBVIOUS
<1> USE DEF ListInv, IdsListed, FlagsCurrent, Inv, TypeOK, Answers, threadVars
<1>1. ASSUME NEW b \in BOOLEAN, Blocking(b) PROVE ListInv'
  BY <1>1 DEF Blocking, SetBlocking
<1>2. CASE BlockingVisit
  BY <1>2 DEF BlockingVisit, Notify
<1>3. CASE BlockingReturn
  BY <1>3 DEF BlockingReturn
<1>4. CASE Connect
  BY <1>4 DEF Connect
<1>5. ASSUME NEW i \in Answers, NEW response \in {"good", "bad", "empty"}, Callback(i, response)
      PROVE ListInv'
  BY <1>5 DEF Callback
<1>6. CASE SetHasAnswer
  BY <1>6 DEF SetHasAnswer, Notify
<1>7. ASSUME NEW t \in Threads, Thread(t) PROVE ListInv'
  <2>1. CASE QueryRequest(t)
    BY <2>1, OneCreator DEF QueryRequest, MutexMatchesUse
  <2>2. CASE AnswerConstructed(t)
    BY <2>2, OneCreator DEF AnswerConstructed, ThreadsHaveIds
  <2>3. CASE RequestThrows(t)
    BY <2>3 DEF RequestThrows
  <2>4. CASE DropId(t)
    BY <2>4 DEF DropId
  <2>5. CASE QueryReceive(t)
    BY <2>5 DEF QueryReceive, receiveUnchanged
  <2>6. CASE QueryReceiveWait(t)
    BY <2>6 DEF QueryReceiveWait, receiveUnchanged
  <2>7. CASE QueryDiscard(t)
    BY <2>7 DEF QueryDiscard, receiveUnchanged
  <2>8. CASE WaitEnds(t) \/ WaitGoesOn(t) \/ FallAsleep(t) \/ SpuriousWakeup(t)
    <3>1. /\ \E where \in {"checking", "falling", "asleep", "deciding"} :
               pc' = [pc EXCEPT ![t] = where]
          /\ UNCHANGED receiveUnchanged
      BY <2>8 DEF WaitEnds, WaitGoesOn, FallAsleep, SpuriousWakeup
    <3>2. IdsListed'
      BY <3>1 DEF receiveUnchanged
    <3>3. \A u \in Threads : pc'[u] = "creating" => pc[u] = "creating"
      BY <3>1
    <3>4. FlagsCurrent'
      BY <3>1, <3>3 DEF receiveUnchanged
    <3> QED BY <3>2, <3>4
  <2>9. CASE Decide(t)
    BY <2>9 DEF Decide, receiveUnchanged
  <2> QED
    BY <1>7, <2>1, <2>2, <2>3, <2>4, <2>5, <2>6, <2>7, <2>8, <2>9 DEF Thread, ReceiveStep
<1>8. CASE UNCHANGED vars
  BY <1>8 DEF vars
<1> QED
  BY <1>1, <1>2, <1>3, <1>4, <1>5, <1>6, <1>7, <1>8 DEF Next

LEMMA SpecInv == Spec => []Inv
BY InitInv, NextInv, PTL DEF Spec

\* The answers, the list and the threads are well typed: a request finds room for its
\* answer, and a waiting thread has one.
THEOREM TypeCorrect == Spec => []TypeOK
<1> Inv => TypeOK
  BY DEF Inv
<1> QED BY SpecInv, PTL

\* The OPC UA mutex is held exactly by who creates a request or processes a response.
THEOREM MutexUse == Spec => []MutexMatchesUse
<1> Inv => MutexMatchesUse
  BY DEF Inv
<1> QED BY SpecInv, PTL

\* No receiving call hands out an answer that is not converted or is an error.
THEOREM OkAnswered == Spec => []OkMeansAnswered
<1> Inv => OkMeansAnswered
  BY DEF Inv
<1> QED BY SpecInv, PTL

\* blocking() reaches every answer, for callers that do not create requests across its
\* beginning and do not reconnect while blocking is disabled.
THEOREM BlockingReaches ==
  ASSUME Disciplined
  PROVE  Spec => []BlockingReachesAll
<1>1. Inv /\ ListInv /\ [Next]_vars => (Inv /\ ListInv)'
  BY NextInv, NextListInv
<1>2. ListInv => BlockingReachesAll
  BY DEF ListInv, IdsListed, FlagsCurrent, BlockingReachesAll
<1> QED BY InitInv, <1>1, <1>2, PTL DEF Spec
=============================================================================
