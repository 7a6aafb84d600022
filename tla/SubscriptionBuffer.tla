-------------------------- MODULE SubscriptionBuffer --------------------------
(***************************************************************************)
(* The client side buffer of a subscription                                *)
(* (AsyncSubscriptionArrayBuffer.hpp), the reader on top of it             *)
(* (AsyncSubscriptionReader.hpp) and the calls of PushClient and           *)
(* EventClient that read from it.                                          *)
(*                                                                         *)
(* The OPC UA client thread adds data; the n-th datum ever added is        *)
(* modelled by the number n - 1, its position. Every reader is a thread    *)
(* with its own AsyncSubscriptionReader. The buffer lock makes addData and *)
(* the copying part of getData atomic. The wait in getData is not: it uses *)
(* a mutex of its own, local to the call, so that addData can notify       *)
(* between the evaluation of the predicate ("checking") and the moment the *)
(* thread sleeps ("falling").                                              *)
(***************************************************************************)
EXTENDS Integers

CONSTANTS
  Readers,      \* threads that read from the subscription
  BufferSize,   \* m_bufferSize; its default 8 and every power of two divide 2^64,
                \* so that % on an index is the one of the unsigned std::size_t
  MaxData,      \* bound on the number of data added
  Calls,        \* the calls every reader makes
  SeekOffsets   \* offsets passed to seek()

AllCalls == {"getEvent", "getNextEvent", "getLastAvailableData", "seek",
             "resetOverflow", "getUpdate", "getUpdateWait"}

ASSUME BufferAssumption ==
  /\ BufferSize \in Nat \ {0}
  /\ MaxData \in Nat
  /\ Calls \in [Readers -> SUBSET AllCalls]
  /\ SeekOffsets \subseteq Int

VARIABLES
  dataCounter,  \* number of data ever added
  dataBuffer,   \* the slots; -1 is a slot that was never written
  fetch,        \* m_dataFetchCounter of every reader
  overflow,     \* m_overflow of every reader
  pc,           \* where a reader is in getData
  call,         \* the call a reader is in
  request,      \* the position it asks getData for
  begun,        \* dataCounter when the call began
  got           \* the datum last returned, -1 before the first

readerVars == <<fetch, overflow, pc, call, request, begun, got>>
vars == <<dataCounter, dataBuffer, readerVars>>

Slots == 0 .. BufferSize - 1

\* The buffer is resized to m_bufferSize once, when it is built.
EmptyBuffer == [i \in Slots |-> -1]

-----------------------------------------------------------------------------
(* AsyncSubscriptionArrayBuffer.                                           *)

\* Mutant of HasData: one datum too few.
HasDataBeyond(c) == dataCounter > c + 1

HasData(c) == dataCounter > c

\* addData(): overwrite the oldest slot and notify every sleeping reader.
AddData ==
  /\ dataCounter < MaxData
  /\ dataBuffer' = [dataBuffer EXCEPT ![dataCounter % BufferSize] = dataCounter]
  /\ dataCounter' = dataCounter + 1
  /\ pc' = [r \in Readers |-> IF pc[r] = "asleep" THEN "checking" ELSE pc[r]]
  /\ UNCHANGED <<fetch, overflow, call, request, begun, got>>

\* Mutant of Overflow: notices the overflow one datum late.
OverflowLate(c) == dataCounter - c > BufferSize + 1

\* The datum at c has been overwritten.
Overflow(c) == dataCounter - c > BufferSize

\* readDataCounter: the position read for a request of c.
ReadPosition(c) == IF Overflow(c) THEN dataCounter - BufferSize ELSE c

\* Mutant of Advance: the reader is not moved to the next element.
AdvanceNot(r) ==
  /\ fetch' = [fetch EXCEPT ![r] = ReadPosition(request[r])]
  /\ overflow' = [overflow EXCEPT ![r] = @ \/ Overflow(request[r])]

\* AsyncSubscriptionReader::getData() after the read.
Advance(r) ==
  /\ fetch' = [fetch EXCEPT ![r] = ReadPosition(request[r]) + 1]
  /\ overflow' = [overflow EXCEPT ![r] = @ \/ Overflow(request[r])]

\* There is data: copy it under the lock and return. PushClient has no reader state.
Read(r) ==
  /\ pc[r] = "checking"
  /\ HasData(request[r])
  /\ got' = [got EXCEPT ![r] = dataBuffer[ReadPosition(request[r]) % BufferSize]]
  /\ \/ call[r] \in {"getUpdate", "getUpdateWait"} /\ UNCHANGED <<fetch, overflow>>
     \/ call[r] \notin {"getUpdate", "getUpdateWait"} /\ Advance(r)
  /\ pc' = [pc EXCEPT ![r] = "idle"]
  /\ UNCHANGED <<dataCounter, dataBuffer, call, request, begun>>

\* The predicate of the wait is false: the reader is going to sleep.
CheckFails(r) ==
  /\ pc[r] = "checking"
  /\ ~ HasData(request[r])
  /\ pc' = [pc EXCEPT ![r] = "falling"]
  /\ UNCHANGED <<dataCounter, dataBuffer, fetch, overflow, call, request, begun, got>>

\* It sleeps: only the next notification counts.
FallAsleep(r) ==
  /\ pc[r] = "falling"
  /\ pc' = [pc EXCEPT ![r] = "asleep"]
  /\ UNCHANGED <<dataCounter, dataBuffer, fetch, overflow, call, request, begun, got>>

\* std::condition_variable may wake a thread without a notification.
SpuriousWakeup(r) ==
  /\ pc[r] = "asleep"
  /\ pc' = [pc EXCEPT ![r] = "checking"]
  /\ UNCHANGED <<dataCounter, dataBuffer, fetch, overflow, call, request, begun, got>>

-----------------------------------------------------------------------------
(* The calls. The counter a call reads, before getData takes the lock, may *)
(* be stale by then.                                                       *)

\* r enters getData(c) in the call named name.
Enter(r, name, c) ==
  /\ pc[r] = "idle"
  /\ name \in Calls[r]
  /\ pc' = [pc EXCEPT ![r] = "checking"]
  /\ call' = [call EXCEPT ![r] = name]
  /\ request' = [request EXCEPT ![r] = c]
  /\ begun' = [begun EXCEPT ![r] = dataCounter]
  /\ UNCHANGED <<dataCounter, dataBuffer, overflow, got>>

\* seek(): the end is one after getDataCounter(); only what lies after it is refused.
EndCounter == dataCounter + 1
SeekTarget(r, offset, ref) ==
  CASE ref = "REF_FIRST" -> offset
    [] ref = "REF_CURRENT" -> fetch[r] + offset
    [] ref = "REF_END" -> EndCounter + offset
Sought(r, c) == IF c <= EndCounter THEN [fetch EXCEPT ![r] = c] ELSE fetch

Seek(r, offset, ref) ==
  /\ pc[r] = "idle"
  /\ "seek" \in Calls[r]
  /\ fetch' = Sought(r, SeekTarget(r, offset, ref))
  /\ UNCHANGED <<dataCounter, dataBuffer, overflow, pc, call, request, begun, got>>

ResetOverflow(r) ==
  /\ pc[r] = "idle"
  /\ "resetOverflow" \in Calls[r]
  /\ overflow' = [overflow EXCEPT ![r] = FALSE]
  /\ UNCHANGED <<dataCounter, dataBuffer, fetch, pc, call, request, begun, got>>

\* EventClient::getEvent(): the next unread event.
GetEvent(r) == Enter(r, "getEvent", fetch[r]) /\ UNCHANGED fetch

\* EventClient::getNextEvent(): seek(0, REF_END), then getData().
GetNextEvent(r) ==
  /\ fetch' = Sought(r, SeekTarget(r, 0, "REF_END"))
  /\ Enter(r, "getNextEvent", fetch'[r])

\* AsyncSubscriptionReader::getLastAvailableData(): seek(-1, REF_END), then getData().
\* An empty subscription throws and changes nothing.
GetLastAvailableData(r) ==
  /\ dataCounter # 0
  /\ fetch' = Sought(r, SeekTarget(r, -1, "REF_END"))
  /\ Enter(r, "getLastAvailableData", fetch'[r])

\* Mutant of GetUpdate: reads the last but one datum.
GetUpdateOlder(r) ==
  /\ dataCounter # 0
  /\ Enter(r, "getUpdate", dataCounter - 2)
  /\ UNCHANGED fetch

\* PushClient::getUpdate(): SMART_NODATA, without effect, if the subscription is empty.
GetUpdate(r) ==
  /\ dataCounter # 0
  /\ Enter(r, "getUpdate", dataCounter - 1)
  /\ UNCHANGED fetch

\* PushClient::getUpdateWait(): the first datum after the ones that are there.
GetUpdateWait(r) == Enter(r, "getUpdateWait", dataCounter) /\ UNCHANGED fetch

-----------------------------------------------------------------------------
Init ==
  /\ dataCounter = 0
  /\ dataBuffer = EmptyBuffer
  /\ fetch = [r \in Readers |-> 0]
  /\ overflow = [r \in Readers |-> FALSE]
  /\ pc = [r \in Readers |-> "idle"]
  /\ call = [r \in Readers |-> "seek"]
  /\ request = [r \in Readers |-> 0]
  /\ begun = [r \in Readers |-> 0]
  /\ got = [r \in Readers |-> -1]

WaitStep(r) == Read(r) \/ CheckFails(r) \/ FallAsleep(r)

Reader(r) ==
  \/ GetEvent(r)
  \/ GetNextEvent(r)
  \/ GetLastAvailableData(r)
  \/ GetUpdate(r)
  \/ GetUpdateWait(r)
  \/ \E offset \in SeekOffsets, ref \in {"REF_FIRST", "REF_CURRENT", "REF_END"} :
       Seek(r, offset, ref)
  \/ ResetOverflow(r)
  \/ WaitStep(r)
  \/ SpuriousWakeup(r)

Next == AddData \/ \E r \in Readers : Reader(r)

Spec == Init /\ [][Next]_vars

\* A reader that is not asleep goes on; nothing is assumed about the arrival of data.
FairSpec == Spec /\ \A r \in Readers : WF_vars(WaitStep(r))

-----------------------------------------------------------------------------
(* Properties.                                                             *)

\* Type correctness of the counters, the slots and the readers.
TypeOK ==
  /\ dataCounter \in Nat
  /\ dataBuffer \in [Slots -> Nat \cup {-1}]
  /\ fetch \in [Readers -> Int]
  /\ overflow \in [Readers -> BOOLEAN]
  /\ pc \in [Readers -> {"idle", "checking", "falling", "asleep"}]
  /\ call \in [Readers -> AllCalls]
  /\ request \in [Readers -> Int]
  /\ begun \in [Readers -> Nat]
  /\ got \in [Readers -> Nat \cup {-1}]

\* The ring holds exactly the newest BufferSize data, each in the slot getData() computes.
BufferHoldsNewest ==
  \A i \in 0 .. dataCounter - 1 :
    i >= dataCounter - BufferSize => dataBuffer[i % BufferSize] = i

\* The call of r returns in this step.
Returns(r) == pc[r] # "idle" /\ pc'[r] = "idle"

\* A reader that calls getEvent() and getNextEvent() never gets an event twice or in the
\* wrong order, also when the buffer overflows while it waits.
EventsInOrder ==
  [][\A r \in Readers :
       Returns(r) /\ Calls[r] \subseteq {"getEvent", "getNextEvent", "resetOverflow"}
         => got'[r] > got[r]]_vars

\* A reader that only calls getEvent() skips an event only with the overflow flag set: as
\* long as isOverflow() is false it has seen every event.
LossIsReported ==
  [][\A r \in Readers :
       Returns(r) /\ ~ overflow'[r] /\ Calls[r] \subseteq {"getEvent", "resetOverflow"}
         => got'[r] = got[r] + 1]_vars

\* getUpdate() returns the datum that was newest when it was called, or a newer one;
\* getUpdateWait() returns one that did not exist yet. The counter they read before they
\* take the lock may be stale, but not so that an older datum is returned.
UpdatesAreFresh ==
  [][\A r \in Readers : Returns(r) =>
       /\ call[r] = "getUpdate" => got'[r] >= begun[r] - 1
       /\ call[r] = "getUpdateWait" => got'[r] >= begun[r]]_vars

\* getUpdate() returns without waiting for new data.
GetUpdateReturns ==
  \A r \in Readers : pc[r] # "idle" /\ call[r] = "getUpdate" ~> pc[r] = "idle"

\* getData() returns data that was added, never the content of an unwritten slot.
ReadsAddedData == [][\A r \in Readers : Returns(r) => got'[r] \in 0 .. dataCounter - 1]_vars
=============================================================================
