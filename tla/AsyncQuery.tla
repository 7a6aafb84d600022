------------------------------ MODULE AsyncQuery ------------------------------
(***************************************************************************)
(* The client side of a query (OPCUA/Client): QueryClient creates an       *)
(* answer object (AsyncAnswer...) for every request through a factory that *)
(* keeps the living ones in a list (InstanceStorage). The OPC UA client    *)
(* thread delivers the responses, client threads wait for them, and        *)
(* blocking(false) cancels the waits: it changes the flag of the factory   *)
(* and then, one after the other, the flag of every answer in the list.    *)
(*                                                                         *)
(* The n-th answer object is the number n, so that the order of the list   *)
(* is that of the numbers. The client thread and the creation of an answer *)
(* exclude each other by the OPC UA mutex; nothing protects the list (its  *)
(* locks are constructed without a mutex) and the wait has a mutex of its  *)
(* own, local to the call.                                                 *)
(*                                                                         *)
(* Answers are destroyed with their last id, whoever still uses them. What *)
(* is undefined in C++ is left out: ids live until their response has come *)
(* (the callback has a plain pointer to the answer), and are not dropped   *)
(* while blocking() walks the list or kept across connect().               *)
(***************************************************************************)
EXTENDS Integers

CONSTANTS
  Threads,      \* threads that make queries
  MaxQueries,   \* bound on the number of requests
  Reconnects,   \* TRUE: connect() is called again
  Disciplined   \* TRUE: nobody is creating a request when blocking() begins, and
                \* connect() is called again only while blocking is enabled

ASSUME QueryAssumption ==
  /\ MaxQueries \in Nat
  /\ Reconnects \in BOOLEAN
  /\ Disciplined \in BOOLEAN
  /\ "free" \notin Threads
  /\ "client" \notin Threads

Answers == 1 .. MaxQueries

VARIABLES
  asked,            \* the last argument of blocking(); TRUE before
  blockingEnabled,  \* m_blockingEnabled of the factory
  cursor,           \* the answer foreach() is at, 0 before the first, -1: blocking() is not running
  storage,          \* m_activeInstances
  created,          \* number of answer objects created
  enabled,          \* m_blockingEnabled of every answer
  answer,           \* what m_answer ("value") or m_error_msg ("error") of an answer holds
  hasAnswer,        \* m_hasAnswer
  valid,            \* isValid of the id of an answer
  inflight,         \* requests whose response has not come
  processing,       \* the answer whose callback the client thread is in, 0: none
  opcuaMutex,       \* who has the mutex of the OPC UA client
  pc,               \* where a thread is
  id,               \* the id a thread holds, 0: none
  ret               \* the status last returned to a thread, or the content of the
                    \* answer it got with SMART_OK

threadVars == <<pc, id, ret>>
vars == <<asked, blockingEnabled, cursor, storage, created, enabled, answer, hasAnswer, valid,
          inflight, processing, opcuaMutex, threadVars>>

-----------------------------------------------------------------------------
(* blocking().                                                             *)

\* Mutant of SetBlocking: the flag for new answers is left for the end.
SetBlockingLate(b) == asked' = b /\ UNCHANGED blockingEnabled

\* The flag of the factory is set before the list is worked off.
SetBlocking(b) == asked' = b /\ blockingEnabled' = b

\* enableBlocking(), disableBlocking() of the factory begin.
Blocking(b) ==
  /\ cursor = -1
  /\ Disciplined => \A t \in Threads : pc[t] # "creating"
  /\ SetBlocking(b)
  /\ cursor' = 0
  /\ UNCHANGED <<storage, created, enabled, answer, hasAnswer, valid, inflight, processing,
                 opcuaMutex, threadVars>>

\* The threads that sleep on the condition of answer i are notified.
Notify(i) == pc' = [t \in Threads |-> IF pc[t] = "asleep" /\ id[t] = i THEN "checking" ELSE pc[t]]

\* foreach() goes to the next answer in the list and changes its flag.
BlockingVisit ==
  /\ cursor # -1
  /\ \E i \in storage :
       /\ i > cursor
       /\ \A j \in storage : j > cursor => i <= j
       /\ cursor' = i
       /\ enabled' = [enabled EXCEPT ![i] = asked]
       /\ Notify(i)
  /\ UNCHANGED <<asked, blockingEnabled, storage, created, answer, hasAnswer, valid, inflight,
                 processing, opcuaMutex, id, ret>>

BlockingReturn ==
  /\ cursor # -1
  /\ \A j \in storage : j <= cursor
  /\ cursor' = -1
  /\ UNCHANGED <<asked, blockingEnabled, storage, created, enabled, answer, hasAnswer, valid,
                 inflight, processing, opcuaMutex, threadVars>>

\* connect(): a new factory, with an empty list and blocking enabled.
Connect ==
  /\ Reconnects
  /\ cursor = -1
  /\ \A t \in Threads : pc[t] = "idle"
  /\ storage = {}
  /\ Disciplined => asked
  /\ blockingEnabled' = TRUE
  /\ UNCHANGED <<asked, cursor, storage, created, enabled, answer, hasAnswer, valid, inflight, processing,
                 opcuaMutex, threadVars>>

-----------------------------------------------------------------------------
(* Requests.                                                               *)

\* queryRequest(): call() takes the OPC UA mutex and reads the flag for the new answer,
\* which will be the next one.
QueryRequest(t) ==
  /\ pc[t] = "idle"
  /\ id[t] = 0
  /\ created < MaxQueries
  /\ opcuaMutex = "free"
  /\ opcuaMutex' = t
  /\ enabled' = [enabled EXCEPT ![created + 1] = blockingEnabled]
  /\ pc' = [pc EXCEPT ![t] = "creating"]
  /\ UNCHANGED <<asked, blockingEnabled, cursor, storage, created, answer, hasAnswer, valid,
                 inflight, processing, id, ret>>

\* The answer is constructed: it enters the list and sends the request.
AnswerConstructed(t) ==
  /\ pc[t] = "creating"
  /\ created' = created + 1
  /\ storage' = storage \cup {created + 1}
  /\ valid' = [valid EXCEPT ![created + 1] = TRUE]
  /\ inflight' = inflight \cup {created + 1}
  /\ id' = [id EXCEPT ![t] = created + 1]
  /\ opcuaMutex' = "free"
  /\ pc' = [pc EXCEPT ![t] = "idle"]
  /\ ret' = [ret EXCEPT ![t] = "OK"]
  /\ UNCHANGED <<asked, blockingEnabled, cursor, enabled, answer, hasAnswer, processing>>

\* Mutant of RequestThrows: the mutex is not released on the way of the exception.
RequestThrowsLocked(t) ==
  /\ pc[t] = "creating"
  /\ pc' = [pc EXCEPT ![t] = "idle"]
  /\ ret' = [ret EXCEPT ![t] = "EXCEPTION"]
  /\ UNCHANGED <<asked, blockingEnabled, cursor, storage, created, enabled, answer, hasAnswer,
                 valid, inflight, processing, opcuaMutex, id>>

\* UA_Client_call_async fails: the constructor throws, the answer leaves the list again.
RequestThrows(t) ==
  /\ pc[t] = "creating"
  /\ opcuaMutex' = "free"
  /\ pc' = [pc EXCEPT ![t] = "idle"]
  /\ ret' = [ret EXCEPT ![t] = "EXCEPTION"]
  /\ UNCHANGED <<asked, blockingEnabled, cursor, storage, created, enabled, answer, hasAnswer,
                 valid, inflight, processing, id>>

\* The last reference to an id goes: the answer object leaves the list and is destroyed.
DropId(t) ==
  /\ pc[t] = "idle"
  /\ id[t] # 0
  /\ cursor = -1
  /\ id[t] \notin inflight
  /\ id[t] # processing
  /\ storage' = storage \ {id[t]}
  /\ id' = [id EXCEPT ![t] = 0]
  /\ UNCHANGED <<asked, blockingEnabled, cursor, created, enabled, answer, hasAnswer, valid,
                 inflight, processing, opcuaMutex, pc, ret>>

-----------------------------------------------------------------------------
(* Responses, in the OPC UA client thread.                                 *)

\* processAnswer(): what it leaves in the answer, the converted content or an error.
ProcessAnswer(response) == IF response = "good" THEN "value" ELSE "error"

\* Mutant of Callback: setHasAnswer() before the conversion.
CallbackFlagFirst(i, response) ==
  /\ i \in inflight
  /\ opcuaMutex = "free"
  /\ inflight' = inflight \ {i}
  /\ response # "empty"
  /\ hasAnswer' = [hasAnswer EXCEPT ![i] = TRUE]
  /\ processing' = i
  /\ opcuaMutex' = "client"
  /\ UNCHANGED <<asked, blockingEnabled, cursor, storage, created, enabled, answer, valid,
                 threadVars>>

\* The response of i comes. processAnswer() converts its content or notes the error; a
\* response without a result is not processed at all.
Callback(i, response) ==
  /\ i \in inflight
  /\ opcuaMutex = "free"
  /\ inflight' = inflight \ {i}
  /\ \/ /\ response = "empty"
        /\ UNCHANGED <<answer, processing, opcuaMutex>>
     \/ /\ response # "empty"
        /\ answer' = [answer EXCEPT ![i] = ProcessAnswer(response)]
        /\ processing' = i
        /\ opcuaMutex' = "client"
  /\ UNCHANGED <<asked, blockingEnabled, cursor, storage, created, enabled, hasAnswer, valid,
                 threadVars>>

\* setHasAnswer(): the flag and the notification.
SetHasAnswer ==
  /\ processing # 0
  /\ hasAnswer' = [hasAnswer EXCEPT ![processing] = TRUE]
  /\ Notify(processing)
  /\ processing' = 0
  /\ opcuaMutex' = "free"
  /\ UNCHANGED <<asked, blockingEnabled, cursor, storage, created, enabled, answer, valid,
                 inflight, id, ret>>

-----------------------------------------------------------------------------
(* Receiving.                                                              *)

\* t returns with a status other than SMART_OK.
Fails(t, status) ==
  /\ ret' = [ret EXCEPT ![t] = status]
  /\ UNCHANGED valid

\* t returns the content of its answer, whose id is discarded.
Returns(t) ==
  /\ ret' = [ret EXCEPT ![t] = answer[id[t]]]
  /\ valid' = [valid EXCEPT ![id[t]] = FALSE]

\* Variables no receiving call changes.
receiveUnchanged == <<asked, blockingEnabled, cursor, storage, created, enabled, answer,
                      hasAnswer, inflight, processing, opcuaMutex, id>>

\* queryReceive(): does not wait; the error of a result leaves it as an exception.
QueryReceive(t) ==
  /\ pc[t] = "idle"
  /\ id[t] # 0
  /\ \/ ~ valid[id[t]] /\ Fails(t, "WRONGID")
     \/ valid[id[t]] /\ ~ hasAnswer[id[t]] /\ Fails(t, "NODATA")
     \/ valid[id[t]] /\ hasAnswer[id[t]] /\ answer[id[t]] = "error" /\ Fails(t, "EXCEPTION")
     \/ valid[id[t]] /\ hasAnswer[id[t]] /\ answer[id[t]] # "error" /\ Returns(t)
  /\ UNCHANGED <<pc, receiveUnchanged>>

QueryDiscard(t) ==
  /\ pc[t] = "idle"
  /\ id[t] # 0
  /\ ret' = [ret EXCEPT ![t] = IF valid[id[t]] THEN "OK" ELSE "WRONGID"]
  /\ valid' = [valid EXCEPT ![id[t]] = FALSE]
  /\ UNCHANGED <<pc, receiveUnchanged>>

\* queryReceiveWait(): its timeout is ignored.
QueryReceiveWait(t) ==
  /\ pc[t] = "idle"
  /\ id[t] # 0
  /\ \/ ~ valid[id[t]] /\ Fails(t, "WRONGID") /\ UNCHANGED pc
     \/ /\ valid[id[t]]
        /\ pc' = [pc EXCEPT ![t] = "checking"]
        /\ UNCHANGED <<ret, valid>>
  /\ UNCHANGED receiveUnchanged

\* Mutant of WaitOver: the answer does not end the wait.
WaitOverOnlyCancelled(i) == ~ enabled[i]

\* The predicate of the wait.
WaitOver(i) == hasAnswer[i] \/ ~ enabled[i]

WaitEnds(t) ==
  /\ pc[t] = "checking"
  /\ WaitOver(id[t])
  /\ pc' = [pc EXCEPT ![t] = "deciding"]
  /\ UNCHANGED <<ret, valid, receiveUnchanged>>

WaitGoesOn(t) ==
  /\ pc[t] = "checking"
  /\ ~ WaitOver(id[t])
  /\ pc' = [pc EXCEPT ![t] = "falling"]
  /\ UNCHANGED <<ret, valid, receiveUnchanged>>

FallAsleep(t) ==
  /\ pc[t] = "falling"
  /\ pc' = [pc EXCEPT ![t] = "asleep"]
  /\ UNCHANGED <<ret, valid, receiveUnchanged>>

SpuriousWakeup(t) ==
  /\ pc[t] = "asleep"
  /\ pc' = [pc EXCEPT ![t] = "checking"]
  /\ UNCHANGED <<ret, valid, receiveUnchanged>>

\* After the wait the answer, not the reason for the end of the wait, decides.
Decide(t) ==
  /\ pc[t] = "deciding"
  /\ pc' = [pc EXCEPT ![t] = "idle"]
  /\ \/ ~ hasAnswer[id[t]] /\ Fails(t, "CANCELLED")
     \/ hasAnswer[id[t]] /\ answer[id[t]] = "error" /\ Fails(t, "ERROR")
     \/ hasAnswer[id[t]] /\ answer[id[t]] # "error" /\ Returns(t)
  /\ UNCHANGED receiveUnchanged

-----------------------------------------------------------------------------
Init ==
  /\ asked = TRUE
  /\ blockingEnabled = TRUE
  /\ cursor = -1
  /\ storage = {}
  /\ created = 0
  /\ enabled = [i \in Answers |-> TRUE]
  /\ answer = [i \in Answers |-> "none"]
  /\ hasAnswer = [i \in Answers |-> FALSE]
  /\ valid = [i \in Answers |-> FALSE]
  /\ inflight = {}
  /\ processing = 0
  /\ opcuaMutex = "free"
  /\ pc = [t \in Threads |-> "idle"]
  /\ id = [t \in Threads |-> 0]
  /\ ret = [t \in Threads |-> "OK"]

ReceiveStep(t) == WaitEnds(t) \/ WaitGoesOn(t) \/ FallAsleep(t) \/ Decide(t)

Thread(t) ==
  \/ QueryRequest(t)
  \/ AnswerConstructed(t)
  \/ RequestThrows(t)
  \/ DropId(t)
  \/ QueryReceive(t)
  \/ QueryReceiveWait(t)
  \/ QueryDiscard(t)
  \/ ReceiveStep(t)
  \/ SpuriousWakeup(t)

Next ==
  \/ \E b \in BOOLEAN : Blocking(b)
  \/ BlockingVisit
  \/ BlockingReturn
  \/ Connect
  \/ \E i \in Answers, response \in {"good", "bad", "empty"} : Callback(i, response)
  \/ SetHasAnswer
  \/ \E t \in Threads : Thread(t)

Spec == Init /\ [][Next]_vars

\* A thread in a call goes on; nothing is assumed about responses.
FairSpec == Spec /\ \A t \in Threads : WF_vars(ReceiveStep(t))

-----------------------------------------------------------------------------
(* Properties.                                                             *)

\* Type correctness of the answers, the list and the threads.
TypeOK ==
  /\ asked \in BOOLEAN
  /\ blockingEnabled \in BOOLEAN
  /\ cursor \in {-1, 0} \cup Answers
  /\ storage \in SUBSET Answers
  /\ created \in 0 .. MaxQueries
  /\ enabled \in [Answers -> BOOLEAN]
  /\ answer \in [Answers -> {"none", "value", "error"}]
  /\ hasAnswer \in [Answers -> BOOLEAN]
  /\ valid \in [Answers -> BOOLEAN]
  /\ inflight \in SUBSET Answers
  /\ processing \in {0} \cup Answers
  /\ opcuaMutex \in {"free", "client"} \cup Threads
  /\ pc \in [Threads -> {"idle", "creating", "checking", "falling", "asleep", "deciding"}]
  /\ id \in [Threads -> {0} \cup Answers]
  /\ ret \in [Threads -> {"OK", "EXCEPTION", "WRONGID", "NODATA", "CANCELLED", "ERROR",
                          "none", "value", "error"}]

\* The OPC UA mutex is held exactly by who uses the OPC UA client: the client thread in a
\* callback or the thread that creates a request, until it returns or throws.
MutexMatchesUse ==
  /\ processing # 0 <=> opcuaMutex = "client"
  /\ \A t \in Threads : pc[t] = "creating" <=> opcuaMutex = t

\* A receiving call that returns SMART_OK returns a completely converted answer and never
\* the content of a failed one, in whatever order callback, cancellation and call run.
OkMeansAnswered == \A t \in Threads : ret[t] \notin {"none", "error"}

\* When blocking(b) has returned, b is in force for every answer a thread can wait for,
\* those created while it ran included.
BlockingReachesAll ==
  cursor = -1 => \A t \in Threads : id[t] # 0 => enabled[id[t]] = asked

\* The answer of t is there, or t may not wait for it.
Overdue(t) == IF id[t] = 0 THEN FALSE ELSE hasAnswer[id[t]] \/ ~ enabled[id[t]]

\* A queryReceiveWait() that looks at its predicate when the answer is there or blocking is
\* disabled returns, unless blocking is enabled again first.
OverdueCallReturns ==
  \A t \in Threads : pc[t] = "checking" /\ Overdue(t) ~> pc[t] = "idle" \/ ~ Overdue(t)
=============================================================================
