------------------------------- MODULE Effects -------------------------------
(***************************************************************************)
(* The effects behind the main span (effects.cpp).  effectSwitcher moves   *)
(* scheduled_effect on; mainEffect's calc callback notices, starts the new *)
(* effect, paints both for blend_duration, mixed by the time since the     *)
(* switch, and then ends the old one.  All of it is decided by readings of *)
(* SystemTime, which may be off and fall back by a second: the readings    *)
(* here are bounded by what SystemClock shows of them.                     *)
(*                                                                         *)
(* Time is in units of a fraction of a second; a frame is much shorter     *)
(* than a unit, and there is at least one in each.                         *)
(***************************************************************************)
EXTENDS Integers

CONSTANTS
  effectsN,
  blend_duration,  \* two seconds
  Skew,            \* a second
  interval,        \* of effectSwitcher, the least time between two switches
  MaxTime          \* bound of the model: time stops here

ASSUME EffectsAssumption ==
  /\ effectsN \in Nat \ {0}
  /\ blend_duration \in Nat /\ Skew \in Nat /\ interval \in Nat /\ MaxTime \in Nat
  /\ Skew < blend_duration /\ Skew <= MaxTime
  /\ blend_duration + 2 * Skew + 2 < interval

VARIABLES
  scheduled_effect, current_effect, previous_effect, switch_time,
  active,       \* Effect::active
  pc,           \* the walk that comes next, for intervals or for effects
  now,          \* real time
  elapsed,      \* since the last reading of the clock
  latest,       \* history: that reading
  highest,      \* history: the greatest reading so far
  switchedAt,   \* history: when effectSwitcher last started
  painted,      \* history: the effects whose calcFunc ran in the last frame
  weight        \* history: blend of that frame, in units of time

effect  == <<current_effect, previous_effect, switch_time, active>>
clock   == <<now, elapsed, latest, highest>>
picture == <<painted, weight>>
vars    == <<scheduled_effect, effect, pc, clock, switchedAt, picture>>

Effect == 0..effectsN - 1

(* The state when sign_entry has waited for a second. *)
Init ==
  /\ scheduled_effect = 0 /\ current_effect = 0 /\ previous_effect = 0 /\ switch_time = 0
  /\ active = {0}
  /\ pc = "interval"
  /\ now = Skew /\ elapsed = 0 /\ latest = Skew /\ highest = Skew
  /\ switchedAt = 0
  /\ painted = {} /\ weight = blend_duration

-----------------------------------------------------------------------------
TimePasses ==
  /\ now < MaxTime /\ elapsed = 0
  /\ now' = now + 1 /\ elapsed' = 1
  /\ UNCHANGED <<scheduled_effect, effect, pc, latest, highest, switchedAt, picture>>

(* What SystemTime may return: ReadingOffByAtMostASecond,                  *)
(* FallsBackAtMostASecond and JumpsAheadAtMostASecond of SystemClock.      *)
Readings == {r \in now - Skew .. now + Skew :
               highest - Skew <= r /\ r <= latest + elapsed + Skew}

Later(r) == IF r > highest THEN r ELSE highest

(* Bug: scheduled_effect is not wrapped. *)
FollowingUnwrapped(e) == e + 1

Following(e) == (e + 1) % effectsN

(* ProcessInterval: effectSwitcher starts when its time has come. *)
NextEffect ==
  /\ pc = "interval"
  /\ now - switchedAt >= interval
  /\ scheduled_effect' = Following(scheduled_effect)
  /\ switchedAt' = now
  /\ pc' = "effect"
  /\ UNCHANGED <<effect, clock, picture>>

NotYet ==
  /\ pc = "interval"
  /\ pc' = "effect"
  /\ UNCHANGED <<scheduled_effect, effect, clock, switchedAt, picture>>

-----------------------------------------------------------------------------
(* ProcessEffect, and the calc callback of mainEffect. *)

(* Bug: the new effect is not started. *)
BlendUnstarted(current, previous) ==
  /\ painted' = {previous, current}
  /\ UNCHANGED active

(* Bug: the old effect is not painted. *)
BlendFromNothing(current, previous) ==
  /\ active' = active \cup {current}
  /\ painted' = {current}

Blend(current, previous) ==
  /\ active' = active \cup {current}
  /\ painted' = {previous, current}

(* Bug: the old effect is not ended. *)
PlainUndone(current, previous) ==
  /\ painted' = {current}
  /\ UNCHANGED active

Plain(current, previous) ==
  /\ active' = IF previous # current THEN active \ {previous} ELSE active
  /\ painted' = {current}

Paint(current, previous, since) ==
  /\ IF since < blend_duration THEN Blend(current, previous) ELSE Plain(current, previous)
  /\ weight' = IF since < blend_duration THEN since ELSE blend_duration
  /\ pc' = "interval"
  /\ UNCHANGED <<scheduled_effect, now, switchedAt>>

ReadTime(r) == latest' = r /\ highest' = Later(r) /\ elapsed' = 0

(* The effect changes: the clock is read for switch_time and again for now.*)
CalcSwitch ==
  /\ pc = "effect"
  /\ current_effect # scheduled_effect
  /\ previous_effect' = current_effect
  /\ current_effect' = scheduled_effect
  /\ \E r \in Readings, s \in now - Skew .. now + Skew :
       /\ s <= r + Skew /\ s >= Later(r) - Skew
       /\ switch_time' = r
       /\ latest' = s
       /\ highest' = IF s > Later(r) THEN s ELSE Later(r)
       /\ elapsed' = 0
       /\ Paint(scheduled_effect, current_effect, s - r)

CalcStay ==
  /\ pc = "effect"
  /\ current_effect = scheduled_effect
  /\ \E r \in Readings : ReadTime(r) /\ Paint(current_effect, previous_effect, r - switch_time)
  /\ UNCHANGED <<current_effect, previous_effect, switch_time>>

Frame == NextEffect \/ NotYet \/ CalcSwitch \/ CalcStay

Next == TimePasses \/ Frame

(* Frames follow each other, time moves on. *)
Fairness == WF_vars(TimePasses) /\ WF_vars(Frame)

Spec == Init /\ [][Next]_vars /\ Fairness

-----------------------------------------------------------------------------
TypeOK ==
  /\ scheduled_effect \in Effect /\ current_effect \in Effect /\ previous_effect \in Effect
  /\ switch_time \in Int /\ active \subseteq Effect
  /\ pc \in {"interval", "effect"}
  /\ now \in 0..MaxTime /\ elapsed \in {0, 1} /\ latest \in Int /\ highest \in Int
  /\ switchedAt \in 0..MaxTime
  /\ painted \subseteq Effect /\ weight \in -Skew..blend_duration

(* calcFunc runs only between startFunc and doneFunc: the switch is always *)
(* seen early enough to start the new effect, and an effect that was ended *)
(* is painted again only if a reading was ahead and ended the blend early. *)
(* effects[0] counts as started: init makes it active (effects.cpp:576)    *)
(* without calling its startFunc, which only draws a random orientation.   *)
PaintedAreStarted ==
  \A e \in painted \ active :
    e = previous_effect /\ highest >= switch_time + blend_duration

(* What an effect contributes to the picture, out of blend_duration. *)
Share(e) ==
  IF e \notin painted THEN 0
  ELSE IF painted = {e} THEN blend_duration
  ELSE IF e = current_effect THEN weight ELSE blend_duration - weight

(* The picture does not jump: through switches, blends and their ends, no  *)
(* effect's share moves in a frame by more than the clock may, although a  *)
(* reading behind switch_time makes the blend overshoot.                   *)
Distance(a, b) == IF a < b THEN b - a ELSE a - b

SharesMoveSmoothly ==
  [][ painted # {} => \A e \in Effect : Distance(Share(e), Share(e)') <= Skew + 1 ]_picture

(* An effect that is neither current nor being blended away has been done. *)
NoEffectLeaks == active \subseteq {current_effect, previous_effect}

(* The previous effect is done once the blend is over. *)
PreviousIsDone ==
  \A e \in Effect :
    e \in active /\ e = previous_effect /\ e # current_effect /\ now >= switch_time + blend_duration + Skew
      ~> e \notin active
=============================================================================
