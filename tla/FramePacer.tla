----------------------------- MODULE FramePacer -----------------------------
(***************************************************************************)
(* How sign_entry's loop paces itself (sign.cpp, timeline.cpp).  GPT2      *)
(* interrupts EffectRate times a second and its handler sets effectReady.  *)
(* The loop sleeps in WFI until any interrupt has been handled, then polls *)
(* the three flags.  A flag is tested and cleared in two accesses, so a    *)
(* tick can fall between them, and a tick handled while the loop is awake  *)
(* does not end the next WFI, also when it comes after effectReady was     *)
(* found FALSE: the flag is set, but the loop sleeps until another         *)
(* interrupt comes.                                                        *)
(*                                                                         *)
(* effectReady (timeline.cpp:44) is not volatile.  The specification takes *)
(* each call of CheckEffectReadyAndClear to load it: see the README.       *)
(***************************************************************************)
EXTENDS Integers

CONSTANTS
  EffectRate,      \* frames a second
  IdleRate,        \* idleRate, the factor of EffectRate between two idle ticks
  BackgroundRate,  \* background ticks a second
  Wrap             \* frameCount is a size_t and wraps to 0 here

(* frames between two idle ticks and between two background ticks *)
IdleEvery       == EffectRate * IdleRate
BackgroundEvery == EffectRate \div BackgroundRate

ASSUME PacerAssumption ==
  /\ EffectRate \in Nat /\ IdleRate \in Nat /\ BackgroundRate \in Nat \ {0}
  /\ IdleEvery \in Nat \ {0} /\ BackgroundEvery \in Nat \ {0}
  /\ Wrap \in Nat \ {0}

VARIABLES
  effectReady, idleReady, backgroundReady, frameCount,
  pc,                          \* where the loop is
  sinceIdle, sinceBackground   \* history: frames since the flag was last raised

flags   == <<effectReady, idleReady, backgroundReady>>
history == <<sinceIdle, sinceBackground>>
vars    == <<flags, frameCount, pc, history>>

(* GPT2 has been running during the second sign_entry waits. *)
Init ==
  /\ effectReady = TRUE /\ idleReady = FALSE /\ backgroundReady = FALSE
  /\ frameCount = 0
  /\ pc = "loop"
  /\ sinceIdle = 0 /\ sinceBackground = 0

-----------------------------------------------------------------------------
(* Interrupts are taken between any two accesses of the loop, and end WFI. *)

Woken == pc' = IF pc = "wfi" THEN "idle" ELSE pc

GPT2_IRQHandler ==
  /\ effectReady' = TRUE
  /\ Woken
  /\ UNCHANGED <<idleReady, backgroundReady, frameCount, history>>

(* GPT1 once a second, the six DMA channels once a frame: they leave the   *)
(* flags alone, but they wake the loop.                                    *)
OtherIRQHandler ==
  /\ Woken
  /\ UNCHANGED <<flags, frameCount, history>>

-----------------------------------------------------------------------------
(* The loop. *)

(* The next iteration: until WFI is executed, an interrupt cannot end it. *)
EnterWFI == pc = "loop" /\ pc' = "wfi" /\ UNCHANGED <<flags, frameCount, history>>

(* Bug: the flag is read and not cleared. *)
CheckIdleReady ==
  /\ pc = "idle"
  /\ pc' = "background"
  /\ UNCHANGED <<flags, frameCount, history>>

CheckIdleReadyAndClear ==
  /\ pc = "idle"
  /\ idleReady' = FALSE
  /\ pc' = "background"
  /\ UNCHANGED <<effectReady, backgroundReady, frameCount, history>>

(* Bug: a line copied from CheckEffectReadyAndClear clears effectReady too. *)
CheckBackgroundReadyClearBoth ==
  /\ pc = "background"
  /\ effectReady' = FALSE /\ backgroundReady' = FALSE
  /\ pc' = "effect"
  /\ UNCHANGED <<idleReady, frameCount, history>>

CheckBackgroundReadyAndClear ==
  /\ pc = "background"
  /\ backgroundReady' = FALSE
  /\ pc' = "effect"
  /\ UNCHANGED <<effectReady, idleReady, frameCount, history>>

TestEffectReady ==
  /\ pc = "effect"
  /\ pc' = IF effectReady THEN "clear" ELSE "loop"
  /\ UNCHANGED <<flags, frameCount, history>>

(* Bug: off by one. *)
IsLateTick(every) == frameCount % (every + 1) = 0

IsTick(every) == frameCount % every = 0

SizeT(n) == n % Wrap

ClearEffectReady ==
  /\ pc = "clear"
  /\ effectReady' = FALSE
  /\ idleReady' = IsTick(IdleEvery)
  /\ backgroundReady' = IsTick(BackgroundEvery)
  /\ frameCount' = SizeT(frameCount + 1)
  /\ pc' = "frame"
  /\ sinceIdle' = IF idleReady' THEN 1 ELSE sinceIdle + 1
  /\ sinceBackground' = IF backgroundReady' THEN 1 ELSE sinceBackground + 1

(* transfer(), ProcessInterval(), ProcessEffect(), Calc() and Commit() *)
Frame ==
  /\ pc = "frame"
  /\ pc' = "loop"
  /\ UNCHANGED <<flags, frameCount, history>>

Loop == \/ EnterWFI \/ CheckIdleReadyAndClear \/ CheckBackgroundReadyAndClear
        \/ TestEffectReady \/ ClearEffectReady \/ Frame

Next == GPT2_IRQHandler \/ OtherIRQHandler \/ Loop

(* GPT2 is periodic, and the handlers leave time for the loop. *)
Fairness == WF_vars(GPT2_IRQHandler) /\ WF_vars(Loop)

Spec == Init /\ [][Next]_vars /\ Fairness

-----------------------------------------------------------------------------
TypeOK ==
  /\ effectReady \in BOOLEAN /\ idleReady \in BOOLEAN /\ backgroundReady \in BOOLEAN
  /\ frameCount \in 0..Wrap - 1
  /\ pc \in {"loop", "wfi", "idle", "background", "effect", "clear", "frame"}
  /\ sinceIdle \in Nat /\ sinceBackground \in Nat

(* CheckEffectReadyAndClear recomputes idleReady and backgroundReady every *)
(* frame; a tick of theirs is never overwritten before the loop served it, *)
(* although it may have slept through several interrupts in between.       *)
NoTickIsOverwritten == pc = "clear" => ~idleReady /\ ~backgroundReady

OnTime(raised, since, every) ==
  IF raised THEN since = every \/ frameCount = 0 ELSE since < every

(* A frame raises the idle tick exactly IdleEvery frames after the last    *)
(* one, and so the background tick; when frameCount has wrapped they may   *)
(* come early, but no tick comes late.                                     *)
TicksAreRegular ==
  [][ pc = "clear" /\ pc' = "frame" =>
        /\ OnTime(idleReady', sinceIdle, IdleEvery)
        /\ OnTime(backgroundReady', sinceBackground, BackgroundEvery) ]_vars

(* Every tick of GPT2 is taken up by a frame that begins after it, or is   *)
(* cleared by the one that is just beginning: a tick that came during a    *)
(* frame, or between the loop's poll and its WFI, waits for the next       *)
(* interrupt and is served then.                                           *)
EveryTickIsServed == effectReady ~> pc = "clear"

(* timeline.h:51 says of idleRate: once a minute. *)
IdleOnceAMinute ==
  [][ pc = "clear" /\ frameCount # 0 /\ idleReady' => sinceIdle = EffectRate * 60 ]_vars

-----------------------------------------------------------------------------
(* The inductive invariant: what the loop has cleared on its way, and that *)
(* the frames since a flag was raised are what frameCount says, until      *)
(* frameCount wraps.                                                       *)
Cleared ==
  /\ pc \in {"background", "effect", "clear"} => ~idleReady
  /\ pc \in {"effect", "clear"} => ~backgroundReady

InRhythm(since, every, count) ==
  IF count = 0 THEN since <= every
  ELSE since = IF count % every = 0 THEN every ELSE count % every

PacerInv ==
  /\ TypeOK
  /\ Cleared
  /\ InRhythm(sinceIdle, IdleEvery, frameCount)
  /\ InRhythm(sinceBackground, BackgroundEvery, frameCount)
=============================================================================
