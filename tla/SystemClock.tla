---------------------------- MODULE SystemClock -----------------------------
(***************************************************************************)
(* Timeline's clock (timeline.cpp).  GPT1 counts from 0 to OCR and         *)
(* restarts; on the restart it raises its flag, and GPT1_IRQHandler counts *)
(* a second.  SystemTime and FastSystemTime combine systemSeconds and CNT  *)
(* with two separate loads whose order C++ leaves to the compiler, so the  *)
(* restart and the interrupt can fall before, between and after them.      *)
(*                                                                         *)
(* systemSeconds (timeline.cpp:36) is not volatile.  The specification     *)
(* takes each call of SystemTime to load it: see the README.               *)
(*                                                                         *)
(* One tick of the model is one count of GPT1, and every time is in ticks: *)
(* SystemTime() is Value / OCR, FastSystemTime() is Value.                 *)
(***************************************************************************)
EXTENDS Integers

CONSTANTS
  OCR,           \* GPT1->OCR[0], the counts in a second
  ServiceDelay,  \* counts the interrupt may stay pending (masked, or behind another)
  ReadDelay,     \* counts between the two loads of one reading
  MaxRollovers   \* bound of the model: the timer restarts no more often

ASSUME ClockAssumption ==
  /\ OCR \in Nat /\ ServiceDelay \in Nat /\ ReadDelay \in Nat
  /\ MaxRollovers \in Nat
  /\ ServiceDelay + ReadDelay < OCR

VARIABLES
  cnt,            \* GPT1->CNT
  of1,            \* GPT1->SR.OF1, the pending interrupt
  systemSeconds,  \* the count the interrupt handler keeps
  rollovers,      \* history: how often the timer has restarted
  pc,             \* the reader: which of its two loads it has done
  secs,           \* the value of systemSeconds it loaded
  count,          \* the value of CNT it loaded
  countSecond,    \* history: rollovers when it loaded CNT
  gap,            \* history: ticks since its first load
  value,          \* what the last complete reading returned
  highest,        \* history: the greatest reading so far
  readAt,         \* history: the real time of the last reading
  started         \* sign_entry has left its one second wait

timerVars  == <<cnt, of1, systemSeconds, rollovers>>
readerVars == <<pc, secs, count, countSecond, value, highest, readAt, started>>
vars       == <<timerVars, readerVars, gap>>

(* Bug: FastSystemTime in an integer too narrow for it. *)
NarrowValue(s, c) == (s * OCR + c) % (2 * OCR)

Value(s, c) == s * OCR + c

(* The time a reading would give if it took no time and no interrupt were late. *)
RealTime == Value(rollovers, cnt)

Init ==
  /\ cnt = 0 /\ of1 = FALSE /\ systemSeconds = 0 /\ rollovers = 0
  /\ pc = "idle" /\ secs = 0 /\ count = 0 /\ countSecond = 0 /\ gap = 0
  /\ value = 0 /\ highest = 0 /\ readAt = 0 /\ started = FALSE

-----------------------------------------------------------------------------
(* The timer.  Time cannot pass a deadline: the interrupt is taken within  *)
(* ServiceDelay ticks of the restart, the second load follows the first    *)
(* within ReadDelay ticks.                                                 *)

TimePasses ==
  /\ of1 => cnt < ServiceDelay
  /\ pc # "idle" => gap < ReadDelay
  /\ gap' = IF pc = "idle" THEN 0 ELSE gap + 1
  /\ UNCHANGED <<systemSeconds, readerVars>>

Count ==
  /\ TimePasses
  /\ cnt < OCR
  /\ cnt' = cnt + 1
  /\ UNCHANGED <<of1, rollovers>>

Restart ==
  /\ TimePasses
  /\ cnt = OCR
  /\ rollovers < MaxRollovers
  /\ cnt' = 0
  /\ of1' = TRUE
  /\ rollovers' = rollovers + 1

(* Bug: the handler returns with the flag still set, which the __DSB()     *)
(* behind the write that clears it prevents.                               *)
HandlerLeavesFlag ==
  /\ of1
  /\ systemSeconds' = systemSeconds + 1
  /\ UNCHANGED <<of1, cnt, rollovers, readerVars, gap>>

(* Clears the flag and counts the second. *)
GPT1_IRQHandler ==
  /\ of1
  /\ of1' = FALSE
  /\ systemSeconds' = systemSeconds + 1
  /\ UNCHANGED <<cnt, rollovers, readerVars, gap>>

-----------------------------------------------------------------------------
(* The reader: sign_entry, first waiting for a second to pass, then the    *)
(* frames it processes for ever.                                           *)

LoadSeconds ==
  /\ secs' = systemSeconds
  /\ UNCHANGED <<timerVars, count, countSecond>>

LoadCount ==
  /\ count' = cnt
  /\ countSecond' = rollovers
  /\ UNCHANGED <<timerVars, secs>>

(* Bug: the wait ends half a second early. *)
EndOfHalfSecond(v) == started \/ v >= OCR \div 2

(* Bug: the wait compares counts with seconds. *)
EndOfCounts(v) == started \/ v >= OCR * OCR

(* for (;Timeline::SystemTime() < 1.0;) of sign_entry *)
EndOfWait(v) == started \/ v >= OCR

Return ==
  /\ pc' = "idle"
  /\ value' = Value(secs', count')
  /\ highest' = IF value' > highest THEN value' ELSE highest
  /\ readAt' = RealTime
  /\ started' = EndOfWait(value')
  /\ gap' = 0

SecondsFirst ==
  /\ pc = "idle"
  /\ LoadSeconds
  /\ pc' = "haveSeconds"
  /\ UNCHANGED <<gap, value, highest, readAt, started>>

CountFirst ==
  /\ pc = "idle"
  /\ LoadCount
  /\ pc' = "haveCount"
  /\ UNCHANGED <<gap, value, highest, readAt, started>>

CountSecond == pc = "haveSeconds" /\ LoadCount /\ Return

SecondsSecond == pc = "haveCount" /\ LoadSeconds /\ Return

SystemTime == SecondsFirst \/ CountFirst \/ CountSecond \/ SecondsSecond

-----------------------------------------------------------------------------
Next == Count \/ Restart \/ GPT1_IRQHandler \/ SystemTime

(* The timer runs, a pending interrupt is taken and the main loop keeps    *)
(* running: none of the three waits for another.                           *)
Fairness == WF_vars(Count \/ Restart) /\ WF_vars(GPT1_IRQHandler) /\ WF_vars(SystemTime)

Spec == Init /\ [][Next]_vars /\ Fairness

-----------------------------------------------------------------------------
TypeOK ==
  /\ cnt \in 0..OCR
  /\ of1 \in BOOLEAN
  /\ systemSeconds \in Nat
  /\ rollovers \in 0..MaxRollovers
  /\ pc \in {"idle", "haveSeconds", "haveCount"}
  /\ secs \in Nat
  /\ count \in 0..OCR
  /\ countSecond \in Nat
  /\ gap \in 0..ReadDelay
  /\ value \in Nat /\ highest \in Nat
  /\ readAt \in Nat
  /\ started \in BOOLEAN

(* How far, in seconds, a reading is from the instant it loaded CNT: the   *)
(* two loads straddle at most one restart and one interrupt, so it is      *)
(* right, a second behind (the interrupt still pending, or the seconds     *)
(* loaded first) or a second ahead (CNT loaded first).                     *)
ReadingOffByAtMostASecond ==
  pc = "idle" => secs - countSecond \in {-1, 0, 1}

(* Interrupts are late but never lost: systemSeconds lacks exactly the     *)
(* second whose interrupt is pending.                                      *)
EverySecondIsCounted ==
  systemSeconds = IF of1 THEN rollovers - 1 ELSE rollovers

(* SystemTime is not monotonic: a reading may be earlier than one before   *)
(* it, and callers (Timeline::Process, the blend of mainEffect) subtract   *)
(* readings.  It never falls back by more than a second.                   *)
FallsBackAtMostASecond == value >= highest - OCR

(* One reading may be a second behind and a later one a second ahead, but  *)
(* not two that soon follow each other, such as the two of a frame that    *)
(* Effects compares with a blend of two seconds: they are apart by the     *)
(* time that went by, the time of a reading and one second.                *)
JumpsAheadAtMostASecond ==
  [][ LET elapsed == RealTime - readAt
      IN  elapsed + ServiceDelay + 2 * ReadDelay < OCR
            => value' - value <= elapsed + ReadDelay + OCR ]_<<value, readAt>>

(* sign_entry's wait is not cut short by a reading that is ahead: when it  *)
(* ends the timer has reached the end of its first second.                 *)
WaitLastsASecond == started => rollovers >= 1 \/ cnt = OCR

(* The wait ends. *)
WaitEnds == <>started

(* The clock is a BoundedClock with a skew of a second and the time of a   *)
(* reading.                                                                *)
Abstract == INSTANCE BoundedClock
              WITH Skew <- OCR + ReadDelay, time <- RealTime, reading <- value

ImplementsBoundedClock == Abstract!ClockSpec

-----------------------------------------------------------------------------
(* The inductive invariant: what holds between the two loads of a reading. *)

(* The interrupt is still due within its deadline. *)
PendingIsRecent == of1 => cnt <= ServiceDelay /\ rollovers >= 1

(* systemSeconds was loaded: either nothing happened to it since, or it is *)
(* a second short, and then it is too early for another restart.           *)
AfterSeconds ==
  pc = "haveSeconds" =>
    \/ secs = rollovers
    \/ /\ secs = rollovers - 1
       /\ cnt <= ServiceDelay + gap
       /\ highest <= RealTime

(* CNT was loaded: gap says how far the timer has moved on, possibly       *)
(* through one restart.                                                    *)
AfterCount ==
  pc = "haveCount" =>
    /\ \/ rollovers = countSecond     /\ cnt = count + gap
       \/ rollovers = countSecond + 1 /\ cnt + OCR + 1 = count + gap
    /\ highest <= Value(countSecond, OCR)
    /\ rollovers = countSecond /\ of1 => highest <= Value(countSecond, count)

(* A reading can be ahead only until the second it is ahead of has begun.  *)
ValueIsNotFarAhead ==
  /\ highest <= Value(rollovers, OCR)
  /\ of1 => highest <= RealTime
  /\ pc = "idle" => gap = 0

ClockInv ==
  /\ TypeOK
  /\ EverySecondIsCounted
  /\ ReadingOffByAtMostASecond
  /\ PendingIsRecent
  /\ AfterSeconds
  /\ AfterCount
  /\ ValueIsNotFarAhead
  /\ FallsBackAtMostASecond
  /\ WaitLastsASecond

(* The last reading lacks no second, or it was made soon after a restart,  *)
(* and a reading that has loaded CNT since did so no earlier.              *)
LastReading ==
  \/ value >= readAt - ReadDelay
  \/ /\ value >= readAt - ReadDelay - OCR
     /\ readAt <= Value(rollovers, ServiceDelay + ReadDelay)
     /\ pc = "haveCount" => readAt <= Value(countSecond, ServiceDelay + ReadDelay)
=============================================================================
