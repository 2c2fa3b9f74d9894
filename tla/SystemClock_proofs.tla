------------------------- MODULE SystemClock_proofs -------------------------
(***************************************************************************)
(* Proofs about SystemClock, for every length of a second and all delays   *)
(* that together stay below it.                                            *)
(***************************************************************************)
EXTENDS SystemClock, TLAPS

(* The clock's inductive invariant holds initially. *)
LEMMA ClockInvInit == Init => ClockInv
<1> SUFFICES ASSUME Init PROVE ClockInv
  OBVIOUS
<1> USE ClockAssumption DEF Init
<1>1. TypeOK
  <2>1. of1 \in BOOLEAN /\ started \in BOOLEAN
    BY Zenon
  <2>2. QED
    BY <2>1 DEF TypeOK
<1>2. EverySecondIsCounted /\ ReadingOffByAtMostASecond /\ PendingIsRecent /\ WaitLastsASecond
  BY DEF EverySecondIsCounted, ReadingOffByAtMostASecond, PendingIsRecent, WaitLastsASecond
<1>3. AfterSeconds /\ AfterCount
  BY DEF AfterSeconds, AfterCount
<1>4. ValueIsNotFarAhead /\ FallsBackAtMostASecond
  BY DEF ValueIsNotFarAhead, FallsBackAtMostASecond, Value
<1>5. QED
  BY <1>1, <1>2, <1>3, <1>4 DEF ClockInv

(* Every step preserves it.  The two steps that complete a reading fix how *)
(* many seconds it lacks (<2>2), and the bounds on value follow.           *)
LEMMA ClockInvStep == ClockInv /\ [Next]_vars => ClockInv'
<1> SUFFICES ASSUME ClockInv, [Next]_vars PROVE ClockInv'
  OBVIOUS
<1> USE ClockAssumption DEF ClockInv, TypeOK, EverySecondIsCounted, ReadingOffByAtMostASecond,
        PendingIsRecent, AfterSeconds, AfterCount, ValueIsNotFarAhead, FallsBackAtMostASecond,
        WaitLastsASecond, RealTime, Value
<1>1. CASE Count
  BY <1>1 DEF Count, TimePasses, readerVars
<1>2. CASE Restart
  BY <1>2 DEF Restart, TimePasses, readerVars
<1>3. CASE GPT1_IRQHandler
  <2> USE <1>3 DEF GPT1_IRQHandler, readerVars
  <2>1. TypeOK' /\ EverySecondIsCounted'
    <3>1. of1' \in BOOLEAN /\ ~of1'
      BY Zenon
    <3>2. QED
      BY <3>1
  <2>2. ReadingOffByAtMostASecond' /\ PendingIsRecent' /\ WaitLastsASecond'
    OBVIOUS
  <2>3. AfterSeconds' /\ AfterCount'
    OBVIOUS
  <2>4. ValueIsNotFarAhead' /\ FallsBackAtMostASecond'
    OBVIOUS
  <2>5. QED
    BY <2>1, <2>2, <2>3, <2>4
<1>4. CASE SecondsFirst
  BY <1>4 DEF SecondsFirst, LoadSeconds, timerVars
<1>5. CASE CountFirst
  BY <1>5 DEF CountFirst, LoadCount, timerVars
<1>6. CASE CountSecond
  <2> USE <1>6 DEF CountSecond, LoadCount, Return, EndOfWait, timerVars
  <2>1. count' = cnt /\ countSecond' = rollovers /\ secs' = secs /\ value' = Value(secs, cnt)
    OBVIOUS
  <2>2. secs = rollovers \/ (secs = rollovers - 1 /\ rollovers = secs + 1 /\ secs \in Nat)
    OBVIOUS
  <2>3. TypeOK' /\ ReadingOffByAtMostASecond'
    BY <2>1, <2>2
  <2>4. WaitLastsASecond'
    BY <2>1, <2>2
  <2>5. ValueIsNotFarAhead' /\ FallsBackAtMostASecond'
    BY <2>1, <2>2
  <2>6. QED
    BY <2>3, <2>4, <2>5
<1>7. CASE SecondsSecond
  <2> USE <1>7 DEF SecondsSecond, LoadSeconds, Return, EndOfWait, timerVars
  <2>1. count' = count /\ secs' = systemSeconds /\ value' = Value(systemSeconds, count)
    OBVIOUS
  <2>2. systemSeconds = rollovers \/ (rollovers = systemSeconds + 1 /\ of1)
    OBVIOUS
  <2>3. TypeOK' /\ ReadingOffByAtMostASecond'
    BY <2>1, <2>2
  <2>4. WaitLastsASecond'
    BY <2>1, <2>2
  <2>5. ValueIsNotFarAhead' /\ FallsBackAtMostASecond'
    BY <2>1, <2>2
  <2>6. QED
    BY <2>3, <2>4, <2>5
<1>8. CASE UNCHANGED vars
  BY <1>8 DEF vars, timerVars, readerVars
<1>9. QED
  BY <1>1, <1>2, <1>3, <1>4, <1>5, <1>6, <1>7, <1>8 DEF Next, SystemTime

(* Types and the counting of seconds, a reading off by at most a second    *)
(* (the two loads of timeline.cpp:244 and :248), sign_entry's wait.        *)
THEOREM ClockSafety == Spec => []ClockInv
<1>1. Init => ClockInv
  BY ClockInvInit
<1>2. ClockInv /\ [Next]_vars => ClockInv'
  BY ClockInvStep
<1>3. QED
  BY <1>1, <1>2, PTL DEF Spec

(* A reading is never more than a second off the instant it loaded CNT     *)
(* (SystemTime, timeline.cpp:243-245).                                     *)
THEOREM ReadingsAreClose == Spec => []ReadingOffByAtMostASecond
<1>1. ClockInv => ReadingOffByAtMostASecond
  BY DEF ClockInv
<1>2. QED
  BY <1>1, ClockSafety, PTL

(* sign_entry's wait (sign.cpp:18) lasts until the timer has reached the   *)
(* end of its first second.                                                *)
THEOREM WaitIsNotShort == Spec => []WaitLastsASecond
<1>1. ClockInv => WaitLastsASecond
  BY DEF ClockInv
<1>2. QED
  BY <1>1, ClockSafety, PTL

(* A reading never falls back by more than a second behind one before it,  *)
(* however the loads, the restart and the interrupt interleave.            *)
THEOREM FallsBack == Spec => []FallsBackAtMostASecond
<1>1. ClockInv => FallsBackAtMostASecond
  BY DEF ClockInv
<1>2. QED
  BY <1>1, ClockSafety, PTL

(* The clock implements BoundedClock: its skew is a second and the time    *)
(* between the two loads.  A restart is a stuttering step of real time,    *)
(* since a count of OCR and the start of the next second read the same.    *)
THEOREM Refinement == Spec => ImplementsBoundedClock
<1> USE ClockAssumption
<1>1. Init => Abstract!ClockInit
  BY DEF Init, Abstract!ClockInit, RealTime, Value
<1>2. ClockInv /\ [Next]_vars => [Abstract!ClockNext]_(Abstract!clockVars)
  <2> SUFFICES ASSUME ClockInv, [Next]_vars
               PROVE  Abstract!Advance \/ Abstract!Read \/ UNCHANGED Abstract!clockVars
    BY DEF Abstract!ClockNext
  <2> USE DEF ClockInv, TypeOK, Value, RealTime, Abstract!Advance, Abstract!Read, Abstract!clockVars
  <2>1. CASE Count
    BY <2>1 DEF Count, TimePasses, readerVars
  <2>2. CASE Restart
    BY <2>2 DEF Restart, TimePasses, readerVars
  <2>3. CASE GPT1_IRQHandler
    BY <2>3 DEF GPT1_IRQHandler, readerVars
  <2>4. CASE SecondsFirst \/ CountFirst
    BY <2>4 DEF SecondsFirst, LoadSeconds, CountFirst, LoadCount, timerVars
  <2>5. CASE CountSecond
    BY <2>5 DEF CountSecond, LoadCount, Return, timerVars, AfterSeconds
  <2>6. CASE SecondsSecond
    BY <2>6 DEF SecondsSecond, LoadSeconds, Return, timerVars, AfterCount, EverySecondIsCounted
  <2>7. CASE UNCHANGED vars
    BY <2>7 DEF vars, timerVars, readerVars
  <2>8. QED
    BY <2>1, <2>2, <2>3, <2>4, <2>5, <2>6, <2>7 DEF Next, SystemTime
<1>3. QED
  BY <1>1, <1>2, ClockSafety, PTL DEF Spec, ImplementsBoundedClock, Abstract!ClockSpec

-----------------------------------------------------------------------------
(* Two readings that soon follow each other: a reading that lacks a second *)
(* is made just after a restart, one that is a second ahead spans one, and *)
(* between the two lies the rest of a second.                              *)
NoJump ==
  LET elapsed == RealTime - readAt
  IN  elapsed + ServiceDelay + 2 * ReadDelay < OCR
        => value' - value <= elapsed + ReadDelay + OCR

LEMMA LastReadingInit == Init => LastReading
BY ClockAssumption DEF Init, LastReading

LEMMA LastReadingStep ==
  ASSUME ClockInv, LastReading, [Next]_vars
  PROVE  LastReading' /\ [NoJump]_<<value, readAt>>
<1> USE ClockAssumption DEF ClockInv, TypeOK, LastReading, Value
<1>1. CASE Count
  BY <1>1 DEF Count, TimePasses, readerVars
<1>2. CASE Restart
  BY <1>2 DEF Restart, TimePasses, readerVars
<1>3. CASE GPT1_IRQHandler
  BY <1>3 DEF GPT1_IRQHandler, readerVars
<1>4. CASE SecondsFirst
  BY <1>4 DEF SecondsFirst, LoadSeconds, timerVars
<1>5. CASE CountFirst
  BY <1>5 DEF CountFirst, LoadCount, timerVars
<1>6. CASE CountSecond
  <2>1. /\ pc = "haveSeconds" /\ pc' = "idle" /\ value' = secs * OCR + cnt
        /\ readAt' = rollovers * OCR + cnt /\ rollovers' = rollovers
    BY <1>6 DEF CountSecond, LoadCount, Return, timerVars, RealTime
  <2>2. \/ secs = rollovers
        \/ secs = rollovers - 1 /\ cnt <= ServiceDelay + gap
    BY <2>1 DEF AfterSeconds
  <2>3. value' <= readAt' /\ value' >= readAt' - OCR
    BY <2>1, <2>2
  <2>4. LastReading'
    BY <2>1, <2>2
  <2>5. NoJump
    BY <2>1, <2>3 DEF NoJump, RealTime
  <2>6. QED
    BY <2>4, <2>5
<1>7. CASE SecondsSecond
  <2>1. /\ pc = "haveCount" /\ pc' = "idle" /\ value' = systemSeconds * OCR + count
        /\ readAt' = rollovers * OCR + cnt /\ rollovers' = rollovers
    BY <1>7 DEF SecondsSecond, LoadSeconds, Return, timerVars, RealTime
  <2>2. systemSeconds = IF of1 THEN rollovers - 1 ELSE rollovers
    BY DEF EverySecondIsCounted
  <2>3. of1 => cnt <= ServiceDelay
    BY DEF PendingIsRecent
  <2>4. CASE rollovers = countSecond /\ cnt = count + gap
    <3>1. value' <= readAt' /\ value' >= readAt' - ReadDelay - OCR
          /\ (~of1 => value' >= readAt' - ReadDelay)
      BY <2>1, <2>2, <2>4
    <3>2. LastReading'
      BY <2>1, <2>3, <3>1
    <3>3. NoJump
      BY <2>1, <3>1 DEF NoJump, RealTime
    <3>4. QED
      BY <3>2, <3>3
  <2>5. CASE rollovers = countSecond + 1 /\ cnt + OCR + 1 = count + gap
    <3>1. readAt' = countSecond * OCR + OCR + cnt
      BY <2>1, <2>5
    <3>2. value' >= readAt' - ReadDelay /\ value' <= readAt' + OCR
      BY <2>1, <2>2, <2>5, <3>1
    <3>3. LastReading'
      BY <3>2
    <3>4. NoJump
      <4>1. CASE value >= readAt - ReadDelay
        BY <2>1, <3>2, <4>1 DEF NoJump, RealTime
      <4>2. CASE readAt <= countSecond * OCR + ServiceDelay + ReadDelay
        BY <2>1, <3>1, <4>2 DEF NoJump, RealTime
      <4>3. QED
        BY <2>1, <4>1, <4>2
    <3>5. QED
      BY <3>3, <3>4
  <2>6. QED
    BY <2>1, <2>4, <2>5 DEF AfterCount
<1>8. CASE UNCHANGED vars
  BY <1>8 DEF vars, timerVars, readerVars
<1>9. QED
  BY <1>1, <1>2, <1>3, <1>4, <1>5, <1>6, <1>7, <1>8 DEF Next, SystemTime

(* Readings that soon follow each other (the two of a frame that Effects   *)
(* compares, effects.cpp:624, 628) are apart by no more than the time that *)
(* went by, the time of a reading and a second.                            *)
THEOREM JumpsAhead == Spec => JumpsAheadAtMostASecond
<1>1. ClockInv /\ LastReading /\ [Next]_vars => LastReading' /\ [NoJump]_<<value, readAt>>
  BY LastReadingStep
<1>2. Spec => [][NoJump]_<<value, readAt>>
  BY <1>1, LastReadingInit, ClockSafety, PTL DEF Spec
<1>3. QED
  BY <1>2 DEF JumpsAheadAtMostASecond, NoJump
=============================================================================
