----------------------------- MODULE FrameTiming ----------------------------
(***************************************************************************)
(* sign_entry's loop against the clock: GPT2 ticks every Period, a frame   *)
(* starts with transfer(), whose DMA is in flight for Flight, and takes    *)
(* the processor for up to Budget (the walks of the timeline, the colours, *)
(* convert).  The loop goes into WFI without looking at effectReady again, *)
(* so a tick is only noticed at the next interrupt if it came while the    *)
(* loop was working, or polling because of another interrupt.              *)
(*                                                                         *)
(* FramePacer has the steps of a poll, LedsPWMDMA those of transfer().     *)
(* flight is the time of one channel, any of the six; the interrupts of    *)
(* the five others, and of GPT1, are OtherIRQHandler's.                    *)
(***************************************************************************)
EXTENDS Integers

CONSTANTS
  Period,    \* between two GPT2 interrupts, 1/90 s
  Flight,    \* from transfer() to the interrupt of the channel, 9.92 ms
  Budget     \* longest time from transfer() to the end of Commit()

ASSUME TimingAssumption ==
  /\ Period \in Nat /\ Flight \in Nat \ {0} /\ Budget \in Nat \ {0}
  /\ Flight < Period

VARIABLES
  phase,        \* time since the last GPT2 interrupt
  effectReady,
  polling,      \* a poll was in vain in this unit of time, and WFI may not be reached yet
  work,         \* time the loop still needs for its frame
  flight,       \* time until the DMA in flight is done; 0: the channel is idle
  since,        \* history: time since the last transfer() began
  took,         \* history: what the work of that frame takes in all
  onGrid,       \* history: it began with a GPT2 interrupt
  overrun       \* history: it met the channel in flight

timing == <<phase, effectReady, polling, work, flight, since, took, onGrid, overrun>>

(* GPT2 has been running during the second sign_entry waits, so the first  *)
(* frame is due, and whatever interrupts first starts it.                  *)
Init ==
  /\ phase \in 0..Period - 1 /\ effectReady = TRUE /\ polling = FALSE
  /\ work = 0 /\ flight = 0
  /\ since = 0 /\ took = 0 /\ onGrid = FALSE /\ overrun = FALSE

(* Bug: effectReady is not cleared. *)
BeginFrameAgain(atTick, inFlight) ==
  /\ effectReady' = TRUE
  /\ work' \in 1..Budget
  /\ flight' = IF inFlight = 0 THEN Flight ELSE inFlight
  /\ since' = 0
  /\ took' = work'
  /\ onGrid' = atTick
  /\ overrun' = (inFlight # 0)

(* A frame: CheckEffectReadyAndClear, then transfer() and the rest.  A     *)
(* channel in flight starts over, but keeps its count (CITER).             *)
BeginFrame(atTick, inFlight) ==
  /\ effectReady' = FALSE
  /\ work' \in 1..Budget
  /\ flight' = IF inFlight = 0 THEN Flight ELSE inFlight
  /\ since' = 0
  /\ took' = work'
  /\ onGrid' = atTick
  /\ overrun' = (inFlight # 0)

Less(t) == IF t = 0 THEN 0 ELSE t - 1

(* Bug: GPT2 at half its rate. *)
SlowTick == phase = 2 * Period - 1

Tick == phase = Period - 1

(* The interrupt that ends a unit of time ends WFI, and finds the flag.    *)
Noticed == work = 0 /\ (Tick \/ flight = 1) /\ (effectReady \/ Tick)

(* The tick comes after a poll in vain, whose interrupt was the channel's  *)
(* or another's, and before WFI.                                           *)
Missed == Tick /\ ~effectReady /\ (polling \/ flight = 1)

(* One unit of time.  It may end with the interrupt of the timer or of the *)
(* channel; a loop that works works on.                                    *)
TimePasses ==
  /\ phase' = IF Tick THEN 0 ELSE phase + 1
  /\ polling' = FALSE
  /\ \/ /\ Noticed
        /\ BeginFrame(Tick, Less(flight))
     \/ /\ Noticed => Missed
        /\ effectReady' = (effectReady \/ Tick)
        /\ work' = Less(work)
        /\ flight' = Less(flight)
        /\ since' = since + 1
        /\ UNCHANGED <<took, onGrid, overrun>>

(* GPT1's interrupt or another channel's ends WFI, at any time: it starts  *)
(* the frame of a tick that was slept through, or the loop polls in vain.  *)
OtherIRQHandler ==
  /\ work = 0
  /\ \/ /\ effectReady
        /\ BeginFrame(FALSE, flight)
        /\ polling' = FALSE
     \/ /\ ~effectReady
        /\ polling' = TRUE
        /\ UNCHANGED <<effectReady, work, flight, since, took, onGrid, overrun>>
  /\ UNCHANGED phase

Next == TimePasses \/ OtherIRQHandler

Spec == Init /\ [][Next]_timing

-----------------------------------------------------------------------------
TypeOK ==
  /\ phase \in 0..Period - 1 /\ effectReady \in BOOLEAN /\ polling \in BOOLEAN
  /\ work \in 0..Budget /\ flight \in 0..Flight /\ since \in Nat /\ took \in 0..Budget
  /\ onGrid \in BOOLEAN /\ overrun \in BOOLEAN

(* A frame that began with a tick and whose work fits in a period is       *)
(* followed by one that begins with the next tick and finds the channel    *)
(* idle, unless another interrupt's poll was under way when that tick      *)
(* came; and in no case by one before.                                     *)
AlignedFramesKeepUp ==
  [][ onGrid /\ took < Period =>
        /\ Tick /\ phase' = 0 => (since' = 0 /\ ~overrun') \/ polling
        /\ since' = 0 => onGrid' \/ Period <= since ]_timing

(* However long its work takes, and although another interrupt may then    *)
(* start the next frame anywhere between two ticks, what a frame that      *)
(* began with a tick sends is never cut short by the next transfer().      *)
OnGridFramesLand == [][ onGrid /\ since' = 0 => ~overrun' ]_timing

(* However long frames take, the loop is back at work within a period of   *)
(* the end of the last one.  Only if a tick came between a poll in vain    *)
(* and WFI, and waits, it takes longer, and less than two.                 *)
FrameGapIsBounded ==
  work = 0 => since - took < IF effectReady THEN 2 * Period ELSE Period
=============================================================================
