----------------------- MODULE SubscriptionBufferProofs -----------------------
(***************************************************************************)
(* Theorems about SubscriptionBuffer, for every buffer size, every number  *)
(* of readers and every number of data. The heart is BufferHoldsNewest:    *)
(* two positions less than BufferSize apart never share a slot. With it a  *)
(* read returns the position it computes (ReadReturns), and the properties *)
(* of the calls follow from invariants about those positions.              *)
(***************************************************************************)
EXTENDS SubscriptionBuffer, TLAPS

\* The position a call of PushClient asks for is the one it computed when it began.
RequestsAreFresh ==
  \A r \in Readers : pc[r] # "idle" =>
    /\ call[r] = "getUpdate" => request[r] = begun[r] - 1 /\ begun[r] >= 1
    /\ call[r] = "getUpdateWait" => request[r] = begun[r]

\* A reader that only moves forward is past everything it returned.
ReadersMoveForward ==
  \A r \in Readers : Calls[r] \subseteq {"getEvent", "getNextEvent", "resetOverflow"} =>
    /\ got[r] < fetch[r]
    /\ fetch[r] <= EndCounter
    /\ pc[r] # "idle" => request[r] = fetch[r]

\* A reader that never seeks is exactly one past what it returned last.
ReadersMoveByOne ==
  \A r \in Readers : Calls[r] \subseteq {"getEvent", "resetOverflow"} =>
    /\ fetch[r] = got[r] + 1
    /\ pc[r] # "idle" => request[r] = fetch[r]

\* No reader is before the first datum.
PositionsAreNatural ==
  \A r \in Readers : fetch[r] >= 0 /\ (pc[r] # "idle" => request[r] >= 0)
-----------------------------------------------------------------------------
(* Slots.                                                                  *)

\* Division with remainder.
LEMMA DivMod ==
  ASSUME NEW B \in Nat \ {0}, NEW i \in Int
  PROVE  i % B \in 0 .. B - 1 /\ i = B * (i \div B) + (i % B) /\ i \div B \in Int
  OBVIOUS

\* Two multiples of B are not less than B apart.
LEMMA NoMultipleBetween ==
  ASSUME NEW B \in Nat \ {0}, NEW p \in Int, NEW q \in Int,
         B * p - B * q < B, B * p - B * q > 0
  PROVE  FALSE
<1>1. B * p - B * q = B * (p - q)
  OBVIOUS
<1>2. CASE p - q >= 1
  BY <1>1, <1>2
<1>3. CASE p - q <= 0
  BY <1>1, <1>3
<1>4. QED
  BY <1>2, <1>3

\* Positions less than B apart have different slots.
LEMMA SlotsDiffer ==
  ASSUME NEW B \in Nat \ {0}, NEW i \in Int, NEW j \in Int, i < j, j - i < B
  PROVE  i % B # j % B
<1> SUFFICES ASSUME i % B = j % B PROVE FALSE
  OBVIOUS
<1>1. /\ i = B * (i \div B) + (i % B) /\ i \div B \in Int /\ i % B \in Int
      /\ j = B * (j \div B) + (j % B) /\ j \div B \in Int /\ j % B \in Int
  BY DivMod
<1>2. PICK p \in Int, q \in Int, m \in Int : i = B * q + m /\ j = B * p + m
  BY <1>1
<1>3. B * p \in Int /\ B * q \in Int
  OBVIOUS
<1>4. B * p - B * q = j - i
  BY <1>2, <1>3
<1>5. QED
  BY <1>4, NoMultipleBetween

\* Every position has a slot.
LEMMA SlotOf == \A i \in Int : i % BufferSize \in Slots
  BY BufferAssumption, DivMod DEF Slots
-----------------------------------------------------------------------------
(* Types and the ring.                                                     *)

\* What a seek and the position of a read are, as integers.
LEMMA Positions ==
  ASSUME TypeOK
  PROVE  /\ \A c \in Int : ReadPosition(c) \in Int
         /\ \A r \in Readers, c \in Int : Sought(r, c) \in [Readers -> Int]
         /\ \A r \in Readers, o \in Int, ref \in {"REF_FIRST", "REF_CURRENT", "REF_END"} :
              SeekTarget(r, o, ref) \in Int
  BY BufferAssumption DEF TypeOK, ReadPosition, Sought, SeekTarget, EndCounter

\* The steps inside a call keep the types.
LEMMA WaitStepType ==
  ASSUME TypeOK, NEW r \in Readers, WaitStep(r) \/ SpuriousWakeup(r)
  PROVE  TypeOK'
<1>1. CASE Read(r)
  <2>1. ReadPosition(request[r]) \in Int
    BY Positions DEF TypeOK
  <2>2. dataBuffer[ReadPosition(request[r]) % BufferSize] \in Nat \cup {-1}
    BY <2>1, SlotOf DEF TypeOK
  <2>3. got' \in [Readers -> Nat \cup {-1}]
    BY <1>1, <2>2 DEF Read, TypeOK
  <2>4. CASE UNCHANGED <<fetch, overflow>>
    BY <1>1, <2>3, <2>4 DEF Read, TypeOK
  <2>5. CASE Advance(r)
    <3>1. fetch' \in [Readers -> Int]
      BY <2>1, <2>5 DEF Advance, TypeOK
    <3>2. (overflow[r] \/ Overflow(request[r])) \in BOOLEAN
      BY Zenon
    <3>3. overflow' \in [Readers -> BOOLEAN]
      BY <2>5, <3>2, Zenon DEF Advance, TypeOK
    <3>4. QED
      BY <1>1, <2>3, <3>1, <3>3 DEF Read, TypeOK
  <2>6. QED
    BY <1>1, <2>4, <2>5 DEF Read
<1>2. CASE CheckFails(r) \/ FallAsleep(r) \/ SpuriousWakeup(r)
  BY <1>2 DEF CheckFails, FallAsleep, SpuriousWakeup, TypeOK
<1>3. QED
  BY <1>1, <1>2 DEF WaitStep

\* Beginning a call keeps the types.
LEMMA EnterType ==
  ASSUME TypeOK, NEW r \in Readers, NEW name \in AllCalls, NEW c \in Int,
         Enter(r, name, c), fetch' \in [Readers -> Int]
  PROVE  TypeOK'
  BY DEF Enter, TypeOK

\* Every step keeps the types.
LEMMA TypeStep ==
  ASSUME TypeOK, [Next]_vars
  PROVE  TypeOK'
<1>1. CASE AddData
  <2>1. dataCounter % BufferSize \in Slots
    BY SlotOf DEF TypeOK
  <2>2. QED
    BY <1>1, <2>1 DEF AddData, TypeOK
<1>2. ASSUME NEW r \in Readers, Reader(r) PROVE TypeOK'
  <2> USE DEF AllCalls
  <2>1. CASE GetEvent(r)
    BY <2>1, EnterType DEF GetEvent, TypeOK
  <2>2. CASE GetNextEvent(r)
    <3>1. SeekTarget(r, 0, "REF_END") \in Int
      BY Positions
    <3>2. fetch' \in [Readers -> Int]
      BY <2>2, <3>1, Positions DEF GetNextEvent
    <3>3. QED
      BY <2>2, <3>2, EnterType DEF GetNextEvent
  <2>3. CASE GetLastAvailableData(r)
    <3>1. SeekTarget(r, -1, "REF_END") \in Int
      BY Positions
    <3>2. fetch' \in [Readers -> Int]
      BY <2>3, <3>1, Positions DEF GetLastAvailableData
    <3>3. QED
      BY <2>3, <3>2, EnterType DEF GetLastAvailableData
  <2>4. CASE GetUpdate(r)
    <3>1. dataCounter - 1 \in Int /\ fetch' \in [Readers -> Int]
      BY <2>4 DEF GetUpdate, TypeOK
    <3>2. QED
      BY <2>4, <3>1, EnterType DEF GetUpdate
  <2>5. CASE GetUpdateWait(r)
    <3>1. dataCounter \in Int /\ fetch' \in [Readers -> Int]
      BY <2>5 DEF GetUpdateWait, TypeOK
    <3>2. QED
      BY <2>5, <3>1, EnterType DEF GetUpdateWait
  <2>6. CASE \E o \in SeekOffsets, ref \in {"REF_FIRST", "REF_CURRENT", "REF_END"} :
               Seek(r, o, ref)
    <3>1. PICK o \in SeekOffsets, ref \in {"REF_FIRST", "REF_CURRENT", "REF_END"} :
            Seek(r, o, ref)
      BY <2>6
    <3>2. SeekTarget(r, o, ref) \in Int
      BY Positions, BufferAssumption
    <3>3. fetch' \in [Readers -> Int]
      BY <3>1, <3>2, Positions DEF Seek
    <3>4. QED
      BY <3>1, <3>3 DEF Seek, TypeOK
  <2>7. CASE ResetOverflow(r)
    BY <2>7 DEF ResetOverflow, TypeOK
  <2>8. QED
    BY <1>2, <2>1, <2>2, <2>3, <2>4, <2>5, <2>6, <2>7, WaitStepType DEF Reader
<1>3. CASE UNCHANGED vars
  BY <1>3 DEF vars, readerVars, TypeOK
<1>4. QED
  BY <1>1, <1>2, <1>3 DEF Next

\* TypeOK holds: in particular a slot is only ever read inside the ring.
THEOREM TypeCorrect == Spec => []TypeOK
<1>1. Init => TypeOK
  BY DEF Init, EmptyBuffer, TypeOK, AllCalls
<1>2. QED
  BY <1>1, TypeStep, PTL DEF Spec

\* Readers do not touch the ring.
LEMMA ReadersLeaveRing ==
  ASSUME NEW r \in Readers, Reader(r)
  PROVE  UNCHANGED <<dataCounter, dataBuffer>>
<1>1. CASE GetEvent(r) \/ GetNextEvent(r) \/ GetLastAvailableData(r) \/ GetUpdate(r)
           \/ GetUpdateWait(r)
  BY <1>1 DEF GetEvent, GetNextEvent, GetLastAvailableData, GetUpdate, GetUpdateWait, Enter
<1>2. CASE \E o \in SeekOffsets, ref \in {"REF_FIRST", "REF_CURRENT", "REF_END"} :
             Seek(r, o, ref)
  BY <1>2 DEF Seek
<1>3. CASE ResetOverflow(r)
  BY <1>3 DEF ResetOverflow
<1>4. CASE Read(r)
  BY <1>4 DEF Read
<1>5. CASE CheckFails(r) \/ FallAsleep(r) \/ SpuriousWakeup(r)
  BY <1>5 DEF CheckFails, FallAsleep, SpuriousWakeup
<1>6. QED
  BY <1>1, <1>2, <1>3, <1>4, <1>5 DEF Reader, WaitStep

\* addData() writes a slot that no position still in the buffer uses.
LEMMA RingStep ==
  ASSUME TypeOK, BufferHoldsNewest, [Next]_vars
  PROVE  BufferHoldsNewest'
<1>1. CASE AddData
  <2>1. /\ dataCounter \in Nat /\ dataCounter' - 1 = dataCounter
        /\ dataCounter' - BufferSize = dataCounter + 1 - BufferSize
        /\ dataBuffer' = [dataBuffer EXCEPT ![dataCounter % BufferSize] = dataCounter]
    BY <1>1, BufferAssumption DEF AddData, TypeOK
  <2>2. ASSUME NEW i \in 0 .. dataCounter, i >= dataCounter + 1 - BufferSize
        PROVE  dataBuffer'[i % BufferSize] = i
    <3>1. /\ i \in Int /\ dataCounter \in Int
          /\ i % BufferSize \in Slots /\ dataCounter % BufferSize \in Slots
      BY SlotOf DEF TypeOK
    <3>2. CASE i = dataCounter
      BY <2>1, <3>1, <3>2 DEF TypeOK
    <3>3. CASE i < dataCounter
      <4>1. dataCounter - i < BufferSize /\ i >= dataCounter - BufferSize
            /\ i \in 0 .. dataCounter - 1
        BY <2>2, <3>1, <3>3, BufferAssumption
      <4>2. i % BufferSize # dataCounter % BufferSize
        BY <3>1, <3>3, <4>1, SlotsDiffer, BufferAssumption
      <4>3. dataBuffer[i % BufferSize] = i
        BY <4>1 DEF BufferHoldsNewest
      <4>4. QED
        BY <2>1, <3>1, <4>2, <4>3 DEF TypeOK
    <3>4. QED
      BY <3>1, <3>2, <3>3
  <2>3. BufferHoldsNewest' = \A i \in 0 .. dataCounter :
          i >= dataCounter + 1 - BufferSize => dataBuffer'[i % BufferSize] = i
    BY <2>1, Zenon DEF BufferHoldsNewest
  <2>4. QED
    BY <2>2, <2>3
<1>2. CASE UNCHANGED <<dataCounter, dataBuffer>>
  BY <1>2 DEF BufferHoldsNewest
<1>3. QED
  BY <1>1, <1>2, ReadersLeaveRing DEF Next, vars

\* The ring holds the newest BufferSize data at the slots where getData() looks for them.
THEOREM RingHoldsNewest == Spec => []BufferHoldsNewest
<1>1. Init => BufferHoldsNewest
  BY DEF Init, BufferHoldsNewest
<1>2. QED
  BY <1>1, RingStep, TypeCorrect, PTL DEF Spec
-----------------------------------------------------------------------------
(* What a call returns.                                                    *)

\* A call returns by Read only.
LEMMA OnlyReadReturns ==
  ASSUME TypeOK, [Next]_vars, NEW r \in Readers, Returns(r)
  PROVE  Read(r)
<1>1. CASE AddData
  BY <1>1 DEF AddData, Returns, TypeOK
<1>2. ASSUME NEW s \in Readers, Reader(s) PROVE Read(r)
  <2>1. CASE GetEvent(s) \/ GetNextEvent(s) \/ GetLastAvailableData(s) \/ GetUpdate(s)
             \/ GetUpdateWait(s)
    BY <2>1 DEF GetEvent, GetNextEvent, GetLastAvailableData, GetUpdate, GetUpdateWait, Enter,
                Returns, TypeOK
  <2>2. CASE \E o \in SeekOffsets, ref \in {"REF_FIRST", "REF_CURRENT", "REF_END"} :
               Seek(s, o, ref)
    BY <2>2 DEF Seek, Returns
  <2>3. CASE ResetOverflow(s)
    BY <2>3 DEF ResetOverflow, Returns
  <2>4. CASE Read(s)
    BY <2>4 DEF Read, Returns, TypeOK
  <2>5. CASE CheckFails(s) \/ FallAsleep(s) \/ SpuriousWakeup(s)
    BY <2>5 DEF CheckFails, FallAsleep, SpuriousWakeup, Returns, TypeOK
  <2>6. QED
    BY <1>2, <2>1, <2>2, <2>3, <2>4, <2>5 DEF Reader, WaitStep
<1>3. CASE UNCHANGED vars
  BY <1>3 DEF vars, readerVars, Returns
<1>4. QED
  BY <1>1, <1>2, <1>3 DEF Next

\* getData() returns the datum at the position it was asked for, or, if that has been
\* overwritten, the oldest one still there.
LEMMA ReadReturns ==
  ASSUME TypeOK, BufferHoldsNewest, NEW r \in Readers, Read(r), request[r] >= 0
  PROVE  /\ got'[r] = ReadPosition(request[r])
         /\ got'[r] \in 0 .. dataCounter - 1
         /\ got'[r] >= request[r]
         /\ ~ Overflow(request[r]) => got'[r] = request[r]
<1> DEFINE p == ReadPosition(request[r])
<1>1. /\ p \in 0 .. dataCounter - 1 /\ p >= dataCounter - BufferSize /\ p >= request[r]
      /\ ~ Overflow(request[r]) => p = request[r]
  BY BufferAssumption DEF Read, HasData, ReadPosition, Overflow, TypeOK
<1>2. dataBuffer[p % BufferSize] = p
  BY <1>1 DEF BufferHoldsNewest
<1>3. got'[r] = dataBuffer[p % BufferSize]
  BY DEF Read, TypeOK
<1>4. QED
  BY <1>1, <1>2, <1>3

\* Where the readers are after one of them took the step of a call it is in.
LEMMA WaitStepMoves ==
  ASSUME TypeOK, NEW r \in Readers, WaitStep(r) \/ SpuriousWakeup(r), NEW s \in Readers
  PROVE  /\ UNCHANGED <<call, request, begun, dataCounter>>
         /\ \/ UNCHANGED <<fetch[s], got[s], overflow[s]>> /\ (pc[s] = "idle") = (pc'[s] = "idle")
            \/ s = r /\ Read(r) /\ pc'[s] = "idle"
<1>1. CASE Read(r)
  <2>1. CASE s = r
    BY <1>1, <2>1 DEF Read, TypeOK
  <2>2. CASE s # r
    BY <1>1, <2>2 DEF Read, Advance, TypeOK
  <2>3. QED
    BY <2>1, <2>2
<1>2. CASE CheckFails(r) \/ FallAsleep(r) \/ SpuriousWakeup(r)
  BY <1>2 DEF CheckFails, FallAsleep, SpuriousWakeup, TypeOK
<1>3. QED
  BY <1>1, <1>2 DEF WaitStep

\* Where the readers are after one of them began a call.
LEMMA EnterMoves ==
  ASSUME TypeOK, NEW r \in Readers, NEW name, NEW c, Enter(r, name, c), NEW s \in Readers
  PROVE  /\ UNCHANGED <<dataCounter, got, overflow>>
         /\ s = r => /\ call'[s] = name /\ request'[s] = c
                     /\ begun'[s] = dataCounter /\ pc'[s] = "checking"
         /\ s # r => UNCHANGED <<call[s], request[s], begun[s], pc[s]>>
  BY DEF Enter, TypeOK

\* addData() wakes readers, but moves none.
LEMMA AddDataMoves ==
  ASSUME TypeOK, AddData, NEW s \in Readers
  PROVE  /\ UNCHANGED <<fetch, overflow, call, request, begun, got>>
         /\ (pc[s] = "idle") = (pc'[s] = "idle")
         /\ dataCounter' = dataCounter + 1
  BY DEF AddData, TypeOK

\* Seeking changes the position of an idle reader only.
LEMMA SeekMoves ==
  ASSUME NEW r \in Readers, NEW o, NEW ref, Seek(r, o, ref)
  PROVE  /\ pc[r] = "idle" /\ fetch' = Sought(r, SeekTarget(r, o, ref))
         /\ UNCHANGED <<dataCounter, overflow, pc, call, request, begun, got>>
  BY DEF Seek
-----------------------------------------------------------------------------
(* PushClient.                                                             *)

\* No step changes the request of a call under way.
LEMMA FreshStep ==
  ASSUME TypeOK, RequestsAreFresh, [Next]_vars
  PROVE  RequestsAreFresh'
<1> SUFFICES ASSUME NEW s \in Readers, pc'[s] # "idle"
             PROVE  /\ call'[s] = "getUpdate" => request'[s] = begun'[s] - 1 /\ begun'[s] >= 1
                    /\ call'[s] = "getUpdateWait" => request'[s] = begun'[s]
  BY DEF RequestsAreFresh
<1>1. CASE UNCHANGED <<call[s], request[s], begun[s]>> /\ pc[s] # "idle"
  BY <1>1 DEF RequestsAreFresh
<1>2. CASE AddData
  <2>1. UNCHANGED <<call[s], request[s], begun[s]>> /\ pc[s] # "idle"
    BY <1>2, AddDataMoves
  <2>2. QED
    BY <1>1, <2>1
<1>3. ASSUME NEW r \in Readers, Reader(r)
      PROVE  \/ UNCHANGED <<call[s], request[s], begun[s]>> /\ pc[s] # "idle"
             \/ /\ call'[s] = "getUpdate" => request'[s] = begun'[s] - 1 /\ begun'[s] >= 1
                /\ call'[s] = "getUpdateWait" => request'[s] = begun'[s]
  <2>1. CASE GetEvent(r)
    BY <2>1, EnterMoves DEF GetEvent
  <2>2. CASE GetNextEvent(r)
    BY <2>2, EnterMoves DEF GetNextEvent
  <2>3. CASE GetLastAvailableData(r)
    BY <2>3, EnterMoves DEF GetLastAvailableData
  <2>4. CASE GetUpdate(r)
    <3>1. dataCounter >= 1
      BY <2>4 DEF GetUpdate, TypeOK
    <3>2. QED
      BY <2>4, <3>1, EnterMoves DEF GetUpdate
  <2>5. CASE GetUpdateWait(r)
    BY <2>5, EnterMoves DEF GetUpdateWait
  <2>6. CASE \E o \in SeekOffsets, ref \in {"REF_FIRST", "REF_CURRENT", "REF_END"} :
               Seek(r, o, ref)
    BY <2>6, SeekMoves
  <2>7. CASE ResetOverflow(r)
    BY <2>7 DEF ResetOverflow
  <2>8. CASE WaitStep(r) \/ SpuriousWakeup(r)
    BY <2>8, WaitStepMoves
  <2>9. QED
    BY <1>3, <2>1, <2>2, <2>3, <2>4, <2>5, <2>6, <2>7, <2>8 DEF Reader
<1>4. CASE UNCHANGED vars
  BY <1>1, <1>4 DEF vars, readerVars
<1>5. QED
  BY <1>1, <1>2, <1>3, <1>4 DEF Next

\* getUpdate() and getUpdateWait() never return an older datum than promised, however many
\* data arrive between the moment they read the counter and the moment they take the lock.
THEOREM UpdatesFresh == Spec => UpdatesAreFresh
<1>1. Init => RequestsAreFresh
  BY DEF Init, RequestsAreFresh
<1>2. ASSUME TypeOK, BufferHoldsNewest, RequestsAreFresh, [Next]_vars, NEW r \in Readers,
             Returns(r)
      PROVE  /\ call[r] = "getUpdate" => got'[r] >= begun[r] - 1
             /\ call[r] = "getUpdateWait" => got'[r] >= begun[r]
  <2>1. Read(r)
    BY <1>2, OnlyReadReturns
  <2>2. CASE call[r] = "getUpdate" \/ call[r] = "getUpdateWait"
    <3>1. request[r] >= 0
      BY <1>2, <2>2 DEF RequestsAreFresh, Returns, TypeOK
    <3>2. got'[r] >= request[r]
      BY <1>2, <2>1, <3>1, ReadReturns
    <3>3. QED
      BY <1>2, <3>2 DEF RequestsAreFresh, Returns, TypeOK
  <2>3. QED
    BY <2>2
<1>3. TypeOK /\ BufferHoldsNewest /\ RequestsAreFresh /\ [Next]_vars
        => [\A r \in Readers : Returns(r) =>
              /\ call[r] = "getUpdate" => got'[r] >= begun[r] - 1
              /\ call[r] = "getUpdateWait" => got'[r] >= begun[r]]_vars
  BY <1>2
<1>4. QED
  BY <1>1, <1>3, FreshStep, TypeCorrect, RingHoldsNewest, PTL DEF Spec, UpdatesAreFresh
-----------------------------------------------------------------------------
(* EventClient.                                                            *)

\* The position of a reader after a read.
LEMMA ReadAdvances ==
  ASSUME TypeOK, NEW r \in Readers, Read(r), call[r] \notin {"getUpdate", "getUpdateWait"}
  PROVE  /\ fetch'[r] = ReadPosition(request[r]) + 1
         /\ ~ overflow'[r] => ~ Overflow(request[r])
  BY DEF Read, Advance, TypeOK

\* The calls under way are calls the reader makes.
CallsAreMade == \A r \in Readers : pc[r] # "idle" => call[r] \in Calls[r]

\* A step of a reader leaves the others where they are.
LEMMA OthersStay ==
  ASSUME TypeOK, NEW r \in Readers, Reader(r), NEW s \in Readers, s # r
  PROVE  UNCHANGED <<fetch[s], got[s], request[s], call[s], dataCounter>>
         /\ (pc[s] = "idle") = (pc'[s] = "idle")
<1>1. ASSUME NEW c, fetch' = Sought(r, c) PROVE UNCHANGED fetch[s]
  BY <1>1 DEF Sought, TypeOK
<1>2. CASE GetEvent(r) \/ GetUpdate(r) \/ GetUpdateWait(r)
  BY <1>2, EnterMoves DEF GetEvent, GetUpdate, GetUpdateWait
<1>3. CASE GetNextEvent(r)
  BY <1>1, <1>3, EnterMoves DEF GetNextEvent
<1>4. CASE GetLastAvailableData(r)
  BY <1>1, <1>4, EnterMoves DEF GetLastAvailableData
<1>5. CASE \E o \in SeekOffsets, ref \in {"REF_FIRST", "REF_CURRENT", "REF_END"} :
             Seek(r, o, ref)
  BY <1>1, <1>5, SeekMoves
<1>6. CASE ResetOverflow(r)
  BY <1>6 DEF ResetOverflow
<1>7. CASE WaitStep(r) \/ SpuriousWakeup(r)
  BY <1>7, WaitStepMoves
<1>8. QED
  BY <1>2, <1>3, <1>4, <1>5, <1>6, <1>7 DEF Reader

\* A reader begins no other call.
LEMMA CallsStep ==
  ASSUME TypeOK, CallsAreMade, [Next]_vars
  PROVE  CallsAreMade'
<1> SUFFICES ASSUME NEW s \in Readers, pc'[s] # "idle" PROVE call'[s] \in Calls[s]
  BY DEF CallsAreMade
<1>1. CASE UNCHANGED call[s] /\ pc[s] # "idle"
  BY <1>1 DEF CallsAreMade
<1>2. CASE AddData
  BY <1>1, <1>2, AddDataMoves
<1>3. ASSUME NEW r \in Readers, Reader(r) PROVE call'[s] \in Calls[s]
  <2>1. CASE s # r
    BY <1>1, <1>3, <2>1, OthersStay
  <2>2. ASSUME s = r, NEW name, NEW c, Enter(r, name, c) PROVE call'[s] \in Calls[s]
    <3>1. name \in Calls[r]
      BY <2>2 DEF Enter
    <3>2. call'[r] = name
      BY <2>2, EnterMoves
    <3>3. QED
      BY <2>2, <3>1, <3>2
  <2>3. CASE \E o \in SeekOffsets, ref \in {"REF_FIRST", "REF_CURRENT", "REF_END"} :
               Seek(r, o, ref)
    BY <1>1, <2>3, SeekMoves
  <2>4. CASE ResetOverflow(r)
    BY <1>1, <2>4 DEF ResetOverflow
  <2>5. CASE WaitStep(r) \/ SpuriousWakeup(r)
    BY <1>1, <2>5, WaitStepMoves
  <2>6. QED
    BY <1>3, <2>1, <2>2, <2>3, <2>4, <2>5
       DEF Reader, GetEvent, GetNextEvent, GetLastAvailableData, GetUpdate, GetUpdateWait
<1>4. CASE UNCHANGED vars
  BY <1>1, <1>4 DEF vars, readerVars
<1>5. QED
  BY <1>2, <1>3, <1>4 DEF Next

\* A reader that only calls getEvent() and getNextEvent() only moves forward.
LEMMA ForwardStep ==
  ASSUME TypeOK, BufferHoldsNewest, CallsAreMade, ReadersMoveForward, [Next]_vars
  PROVE  ReadersMoveForward'
<1> USE DEF EndCounter
<1> SUFFICES ASSUME NEW s \in Readers,
                    Calls[s] \subseteq {"getEvent", "getNextEvent", "resetOverflow"}
             PROVE  /\ got'[s] < fetch'[s]
                    /\ fetch'[s] <= EndCounter'
                    /\ pc'[s] # "idle" => request'[s] = fetch'[s]
  BY DEF ReadersMoveForward
<1>0. /\ got[s] < fetch[s]
      /\ fetch[s] <= EndCounter
      /\ pc[s] # "idle" => request[s] = fetch[s]
  BY DEF ReadersMoveForward
<1>1. CASE /\ UNCHANGED <<fetch[s], got[s], request[s]>>
           /\ pc'[s] # "idle" => pc[s] # "idle"
           /\ dataCounter' \in {dataCounter, dataCounter + 1}
  BY <1>0, <1>1 DEF TypeOK
<1>2. CASE AddData
  BY <1>1, <1>2, AddDataMoves
<1>3. ASSUME NEW r \in Readers, Reader(r)
      PROVE  /\ got'[s] < fetch'[s]
             /\ fetch'[s] <= EndCounter'
             /\ pc'[s] # "idle" => request'[s] = fetch'[s]
  <2>0. CASE s # r
    BY <1>1, <1>3, <2>0, OthersStay
  <2>1. CASE s = r /\ GetEvent(r)
    BY <1>0, <2>1, EnterMoves DEF GetEvent
  <2>2. CASE s = r /\ GetNextEvent(r)
    <3>1. SeekTarget(r, 0, "REF_END") = dataCounter + 1
      BY DEF SeekTarget, TypeOK
    <3>2. fetch'[r] = dataCounter + 1
      BY <2>2, <3>1 DEF GetNextEvent, Sought, TypeOK
    <3>3. UNCHANGED <<got, dataCounter>> /\ request'[r] = fetch'[r]
      BY <2>2, EnterMoves DEF GetNextEvent
    <3>4. got[s] < dataCounter + 1
      BY <1>0 DEF TypeOK
    <3>5. QED
      BY <2>2, <3>2, <3>3, <3>4 DEF TypeOK
  <2>3. CASE ResetOverflow(r)
    BY <1>1, <2>3 DEF ResetOverflow
  <2>4. CASE WaitStep(r) \/ SpuriousWakeup(r)
    <3>1. CASE UNCHANGED <<fetch[s], got[s]>> /\ (pc[s] = "idle") = (pc'[s] = "idle")
      BY <1>1, <2>4, <3>1, WaitStepMoves
    <3>2. CASE s = r /\ Read(r) /\ pc'[s] = "idle"
      <4>1. call[r] \notin {"getUpdate", "getUpdateWait"}
        BY <3>2 DEF CallsAreMade, Read
      <4>2. request[r] = fetch[r] /\ request[r] >= 0
        BY <1>0, <3>2 DEF Read, TypeOK
      <4>3. got'[r] = ReadPosition(request[r]) /\ got'[r] \in 0 .. dataCounter - 1
        BY <3>2, <4>2, ReadReturns
      <4>4. fetch'[r] = ReadPosition(request[r]) + 1
        BY <3>2, <4>1, ReadAdvances
      <4>5. UNCHANGED dataCounter
        BY <3>2 DEF Read
      <4>6. QED
        BY <3>2, <4>3, <4>4, <4>5 DEF TypeOK
    <3>3. QED
      BY <2>4, <3>1, <3>2, WaitStepMoves
  <2>5. QED
    BY <1>3, <2>0, <2>1, <2>2, <2>3, <2>4
       DEF Reader, GetLastAvailableData, GetUpdate, GetUpdateWait, Enter, Seek
<1>4. CASE UNCHANGED vars
  BY <1>1, <1>4 DEF vars, readerVars
<1>5. QED
  BY <1>2, <1>3, <1>4 DEF Next

\* An event consumer that never seeks itself sees every event at most once and in order,
\* whatever the other readers of the subscription do.
THEOREM EventsOrdered == Spec => EventsInOrder
<1>1. Init => CallsAreMade /\ ReadersMoveForward
  BY DEF Init, CallsAreMade, ReadersMoveForward, EndCounter
<1>2. ASSUME TypeOK, BufferHoldsNewest, ReadersMoveForward, [Next]_vars, NEW r \in Readers,
             Returns(r), Calls[r] \subseteq {"getEvent", "getNextEvent", "resetOverflow"}
      PROVE  got'[r] > got[r]
  <2>1. Read(r)
    BY <1>2, OnlyReadReturns
  <2>2. request[r] = fetch[r] /\ request[r] > got[r] /\ request[r] >= 0
    BY <1>2 DEF ReadersMoveForward, Returns, TypeOK
  <2>3. got'[r] >= request[r] /\ got'[r] \in Int
    BY <1>2, <2>1, <2>2, ReadReturns
  <2>4. QED
    BY <1>2, <2>2, <2>3 DEF TypeOK
<1>3. TypeOK /\ BufferHoldsNewest /\ ReadersMoveForward /\ [Next]_vars
        => [\A r \in Readers :
              Returns(r) /\ Calls[r] \subseteq {"getEvent", "getNextEvent", "resetOverflow"}
                => got'[r] > got[r]]_vars
  BY <1>2
<1>4. QED
  BY <1>1, <1>3, CallsStep, ForwardStep, TypeCorrect, RingHoldsNewest, PTL
     DEF Spec, EventsInOrder

\* A reader that only calls getEvent() moves by one, unless it reports an overflow.
LEMMA ByOneStep ==
  ASSUME TypeOK, BufferHoldsNewest, CallsAreMade, ReadersMoveByOne, [Next]_vars
  PROVE  ReadersMoveByOne'
<1> SUFFICES ASSUME NEW s \in Readers, Calls[s] \subseteq {"getEvent", "resetOverflow"}
             PROVE  /\ fetch'[s] = got'[s] + 1
                    /\ pc'[s] # "idle" => request'[s] = fetch'[s]
  BY DEF ReadersMoveByOne
<1>0. /\ fetch[s] = got[s] + 1
      /\ pc[s] # "idle" => request[s] = fetch[s]
  BY DEF ReadersMoveByOne
<1>1. CASE /\ UNCHANGED <<fetch[s], got[s], request[s]>>
           /\ pc'[s] # "idle" => pc[s] # "idle"
  BY <1>0, <1>1
<1>2. CASE AddData
  BY <1>1, <1>2, AddDataMoves
<1>3. ASSUME NEW r \in Readers, Reader(r)
      PROVE  /\ fetch'[s] = got'[s] + 1
             /\ pc'[s] # "idle" => request'[s] = fetch'[s]
  <2>0. CASE s # r
    BY <1>1, <1>3, <2>0, OthersStay
  <2>1. CASE s = r /\ GetEvent(r)
    BY <1>0, <2>1, EnterMoves DEF GetEvent
  <2>2. CASE ResetOverflow(r)
    BY <1>1, <2>2 DEF ResetOverflow
  <2>3. CASE WaitStep(r) \/ SpuriousWakeup(r)
    <3>1. CASE UNCHANGED <<fetch[s], got[s]>> /\ (pc[s] = "idle") = (pc'[s] = "idle")
      BY <1>1, <2>3, <3>1, WaitStepMoves
    <3>2. CASE s = r /\ Read(r) /\ pc'[s] = "idle"
      <4>1. call[r] \notin {"getUpdate", "getUpdateWait"}
        BY <3>2 DEF CallsAreMade, Read
      <4>2. request[r] >= 0
        BY <1>0, <3>2 DEF Read, TypeOK
      <4>3. QED
        BY <3>2, <4>1, <4>2, ReadReturns, ReadAdvances
    <3>3. QED
      BY <2>3, <3>1, <3>2, WaitStepMoves
  <2>4. QED
    BY <1>3, <2>0, <2>1, <2>2, <2>3
       DEF Reader, GetNextEvent, GetLastAvailableData, GetUpdate, GetUpdateWait, Enter, Seek
<1>4. CASE UNCHANGED vars
  BY <1>1, <1>4 DEF vars, readerVars
<1>5. QED
  BY <1>2, <1>3, <1>4 DEF Next

\* An event consumer that only calls getEvent() misses an event only if isOverflow() says so.
THEOREM LossReported == Spec => LossIsReported
<1>1. Init => CallsAreMade /\ ReadersMoveByOne
  BY DEF Init, CallsAreMade, ReadersMoveByOne
<1>2. ASSUME TypeOK, BufferHoldsNewest, CallsAreMade, ReadersMoveByOne, [Next]_vars,
             NEW r \in Readers, Returns(r), ~ overflow'[r],
             Calls[r] \subseteq {"getEvent", "resetOverflow"}
      PROVE  got'[r] = got[r] + 1
  <2>1. Read(r)
    BY <1>2, OnlyReadReturns
  <2>2. request[r] = got[r] + 1 /\ request[r] >= 0
    BY <1>2 DEF ReadersMoveByOne, Returns, TypeOK
  <2>3. call[r] \notin {"getUpdate", "getUpdateWait"}
    BY <1>2 DEF CallsAreMade, Returns
  <2>4. ~ Overflow(request[r])
    BY <1>2, <2>1, <2>3, ReadAdvances
  <2>5. QED
    BY <1>2, <2>1, <2>2, <2>4, ReadReturns
<1>3. TypeOK /\ BufferHoldsNewest /\ CallsAreMade /\ ReadersMoveByOne /\ [Next]_vars
        => [\A r \in Readers :
              Returns(r) /\ ~ overflow'[r] /\ Calls[r] \subseteq {"getEvent", "resetOverflow"}
                => got'[r] = got[r] + 1]_vars
  BY <1>2
<1>4. QED
  BY <1>1, <1>3, CallsStep, ByOneStep, TypeCorrect, RingHoldsNewest, PTL
     DEF Spec, LossIsReported
-----------------------------------------------------------------------------
(* Seeking.                                                                *)

\* What a forward seek leads to.
LEMMA SoughtNatural ==
  ASSUME TypeOK, PositionsAreNatural, NEW r \in Readers, NEW c \in Int, c >= 0
  PROVE  \A s \in Readers : Sought(r, c)[s] >= 0
  BY DEF TypeOK, PositionsAreNatural, Sought

\* Without a backward seek no reader gets before the first datum.
LEMMA NaturalStep ==
  ASSUME SeekOffsets \subseteq Nat, TypeOK, PositionsAreNatural, [Next]_vars
  PROVE  PositionsAreNatural'
<1> SUFFICES ASSUME NEW s \in Readers
             PROVE  fetch'[s] >= 0 /\ (pc'[s] # "idle" => request'[s] >= 0)
  BY DEF PositionsAreNatural
<1>1. CASE /\ UNCHANGED <<fetch[s], request[s]>>
           /\ pc'[s] # "idle" => pc[s] # "idle"
  BY <1>1 DEF PositionsAreNatural
<1>2. CASE AddData
  BY <1>1, <1>2, AddDataMoves
<1>3. ASSUME NEW r \in Readers, Reader(r)
      PROVE  fetch'[s] >= 0 /\ (pc'[s] # "idle" => request'[s] >= 0)
  <2>1. ASSUME NEW name, NEW c, Enter(r, name, c), c >= 0
        PROVE  pc'[s] # "idle" => request'[s] >= 0
    BY <2>1, EnterMoves DEF PositionsAreNatural
  <2>2. CASE GetEvent(r)
    BY <2>1, <2>2 DEF GetEvent, PositionsAreNatural
  <2>3. CASE GetNextEvent(r)
    <3>1. SeekTarget(r, 0, "REF_END") \in Int /\ SeekTarget(r, 0, "REF_END") >= 0
      BY DEF SeekTarget, EndCounter, TypeOK
    <3>2. fetch'[s] >= 0 /\ fetch'[r] >= 0
      BY <2>3, <3>1, SoughtNatural DEF GetNextEvent
    <3>3. QED
      BY <2>1, <2>3, <3>2 DEF GetNextEvent
  <2>4. CASE GetLastAvailableData(r)
    <3>1. SeekTarget(r, -1, "REF_END") \in Int /\ SeekTarget(r, -1, "REF_END") >= 0
      BY DEF SeekTarget, EndCounter, TypeOK
    <3>2. fetch'[s] >= 0 /\ fetch'[r] >= 0
      BY <2>4, <3>1, SoughtNatural DEF GetLastAvailableData
    <3>3. QED
      BY <2>1, <2>4, <3>2 DEF GetLastAvailableData
  <2>5. CASE GetUpdate(r)
    <3>1. dataCounter - 1 >= 0
      BY <2>5 DEF GetUpdate, TypeOK
    <3>2. QED
      BY <2>1, <2>5, <3>1 DEF GetUpdate, PositionsAreNatural
  <2>6. CASE GetUpdateWait(r)
    <3>1. dataCounter >= 0
      BY DEF TypeOK
    <3>2. QED
      BY <2>1, <2>6, <3>1 DEF GetUpdateWait, PositionsAreNatural
  <2>7. CASE \E o \in SeekOffsets, ref \in {"REF_FIRST", "REF_CURRENT", "REF_END"} :
               Seek(r, o, ref)
    <3>1. PICK o \in SeekOffsets, ref \in {"REF_FIRST", "REF_CURRENT", "REF_END"} :
            Seek(r, o, ref)
      BY <2>7
    <3>2. SeekTarget(r, o, ref) \in Int /\ SeekTarget(r, o, ref) >= 0
      BY DEF SeekTarget, EndCounter, TypeOK, PositionsAreNatural
    <3>3. fetch'[s] >= 0
      BY <3>1, <3>2, SoughtNatural, SeekMoves
    <3>4. QED
      BY <3>1, <3>3, SeekMoves DEF PositionsAreNatural
  <2>8. CASE ResetOverflow(r)
    BY <1>1, <2>8 DEF ResetOverflow
  <2>9. CASE WaitStep(r) \/ SpuriousWakeup(r)
    <3>1. CASE UNCHANGED fetch[s] /\ (pc[s] = "idle") = (pc'[s] = "idle")
      BY <1>1, <2>9, <3>1, WaitStepMoves
    <3>2. CASE s = r /\ Read(r) /\ pc'[s] = "idle"
      <4>1. ReadPosition(request[r]) >= 0
        BY <3>2, BufferAssumption
           DEF Read, ReadPosition, Overflow, PositionsAreNatural, TypeOK
      <4>2. CASE UNCHANGED fetch
        BY <3>2, <4>2 DEF PositionsAreNatural
      <4>3. CASE Advance(r)
        BY <3>2, <4>1, <4>3, Positions DEF Advance, TypeOK
      <4>4. QED
        BY <3>2, <4>2, <4>3 DEF Read
    <3>3. QED
      BY <2>9, <3>1, <3>2, WaitStepMoves
  <2>10. QED
    BY <1>3, <2>2, <2>3, <2>4, <2>5, <2>6, <2>7, <2>8, <2>9 DEF Reader
<1>4. CASE UNCHANGED vars
  BY <1>1, <1>4 DEF vars, readerVars
<1>5. QED
  BY <1>2, <1>3, <1>4 DEF Next

\* As long as nobody seeks backwards, getData() returns added data only: the slot it copies
\* has been written. (With a backward seek this is false.)
THEOREM AddedDataRead ==
  ASSUME SeekOffsets \subseteq Nat
  PROVE  Spec => ReadsAddedData
<1>1. Init => PositionsAreNatural
  <2> SUFFICES ASSUME Init, NEW r \in Readers
               PROVE  fetch[r] >= 0 /\ (pc[r] # "idle" => request[r] >= 0)
    BY DEF PositionsAreNatural
  <2>1. fetch[r] = 0 /\ pc[r] = "idle"
    BY DEF Init
  <2>2. QED
    BY <2>1
<1>2. ASSUME TypeOK, BufferHoldsNewest, PositionsAreNatural, [Next]_vars, NEW r \in Readers,
             Returns(r)
      PROVE  got'[r] \in 0 .. dataCounter - 1
  <2>1. Read(r)
    BY <1>2, OnlyReadReturns
  <2>2. request[r] >= 0
    BY <1>2 DEF PositionsAreNatural, Returns
  <2>3. QED
    BY <1>2, <2>1, <2>2, ReadReturns
<1>3. TypeOK /\ BufferHoldsNewest /\ PositionsAreNatural /\ [Next]_vars
        => [\A r \in Readers : Returns(r) => got'[r] \in 0 .. dataCounter - 1]_vars
  BY <1>2
<1>4. QED
  BY <1>1, <1>3, NaturalStep, TypeCorrect, RingHoldsNewest, PTL DEF Spec, ReadsAddedData
=============================================================================
