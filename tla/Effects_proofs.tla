--------------------------- MODULE Effects_proofs ---------------------------
(***************************************************************************)
(* For every number of effects, every blend longer than the clock is       *)
(* wrong, and switches far enough apart: what is painted has been started, *)
(* and what is no longer painted has been ended.                           *)
(***************************************************************************)
EXTENDS Effects, TLAPS

(* What the last reading can have been; switch_time was a reading. *)
ClockInv ==
  /\ latest <= highest /\ switch_time <= highest
  /\ now - elapsed - Skew <= latest
  /\ switchedAt <= now

(* The effect being painted has been started, and the one before it has    *)
(* been ended only by a reading behind the blend.                          *)
StartedInv ==
  /\ current_effect \in active
  /\ previous_effect \notin active => highest >= switch_time + blend_duration

(* A switch is noticed in the frame of its interval, at most a unit later; *)
(* by then the effect before has been ended, because a whole blend fits    *)
(* between two switches even as the clock counts.                          *)
SwitchInv ==
  /\ current_effect # scheduled_effect =>
       /\ pc = "effect" /\ now <= switchedAt + elapsed
       /\ active \subseteq {current_effect}
  /\ previous_effect \in active /\ previous_effect # current_effect =>
       /\ latest < switch_time + blend_duration
       /\ switch_time <= switchedAt + 1 + Skew

EffectsInv ==
  TypeOK /\ ClockInv /\ StartedInv /\ SwitchInv /\ NoEffectLeaks /\ PaintedAreStarted

LEMMA Constants ==
  /\ effectsN \in Nat /\ effectsN > 0 /\ 0 \in Effect
  /\ blend_duration \in Nat /\ Skew \in Nat /\ interval \in Nat /\ MaxTime \in Nat
  /\ Skew < blend_duration /\ Skew <= MaxTime
  /\ blend_duration + 2 * Skew + 2 < interval
BY EffectsAssumption DEF Effect

LEMMA FollowingIsEffect == ASSUME NEW e \in Effect PROVE Following(e) \in Effect
BY Constants DEF Following, Effect

LEMMA EffectsInit == Init => EffectsInv
<1> SUFFICES ASSUME Init PROVE EffectsInv  OBVIOUS
<1> USE Constants DEF Init
<1>1. TypeOK  BY DEF TypeOK
<1>2. ClockInv  BY DEF ClockInv
<1>3. StartedInv  BY DEF StartedInv
<1>4. SwitchInv  BY DEF SwitchInv
<1>5. NoEffectLeaks /\ PaintedAreStarted  BY DEF NoEffectLeaks, PaintedAreStarted
<1> QED  BY <1>1, <1>2, <1>3, <1>4, <1>5 DEF EffectsInv

-----------------------------------------------------------------------------
LEMMA TimeStep == ASSUME EffectsInv, TimePasses PROVE EffectsInv'
<1> USE Constants DEF TimePasses, effect, picture
<1>1. TypeOK'  BY DEF EffectsInv, TypeOK
<1>2. ClockInv'  BY DEF EffectsInv, TypeOK, ClockInv
<1>3. StartedInv'  BY DEF EffectsInv, StartedInv
<1>4. SwitchInv'  BY DEF EffectsInv, TypeOK, SwitchInv
<1>5. NoEffectLeaks' /\ PaintedAreStarted'
  BY DEF EffectsInv, NoEffectLeaks, PaintedAreStarted
<1> QED  BY <1>1, <1>2, <1>3, <1>4, <1>5 DEF EffectsInv

(* When a switch is due the blend of the last one is over and seen to be:  *)
(* every unit of time has its frame, and the reading in it is at most Skew *)
(* behind.                                                                 *)
LEMMA NextEffectStep == ASSUME EffectsInv, NextEffect PROVE EffectsInv'
<1> USE Constants DEF NextEffect, effect, clock, picture
<1>1. TypeOK'  BY FollowingIsEffect DEF EffectsInv, TypeOK
<1>2. ClockInv'  BY DEF EffectsInv, TypeOK, ClockInv
<1>3. StartedInv'  BY DEF EffectsInv, StartedInv
<1>4. ~(previous_effect \in active /\ previous_effect # current_effect)
  BY DEF EffectsInv, TypeOK, ClockInv, SwitchInv
<1>5. active \subseteq {current_effect}  BY <1>4 DEF EffectsInv, NoEffectLeaks
<1>6. SwitchInv'
  <2>1. now <= now + elapsed  BY DEF EffectsInv, TypeOK
  <2> QED  BY <1>4, <1>5, <2>1 DEF SwitchInv
<1>7. NoEffectLeaks' /\ PaintedAreStarted'
  BY DEF EffectsInv, NoEffectLeaks, PaintedAreStarted
<1> QED  BY <1>1, <1>2, <1>3, <1>6, <1>7 DEF EffectsInv

LEMMA NotYetStep == ASSUME EffectsInv, NotYet PROVE EffectsInv'
<1> USE Constants DEF NotYet, effect, clock, picture
<1>1. TypeOK'  BY DEF EffectsInv, TypeOK
<1>2. ClockInv' /\ StartedInv'  BY DEF EffectsInv, ClockInv, StartedInv
<1>3. SwitchInv'  BY DEF EffectsInv, SwitchInv
<1>4. NoEffectLeaks' /\ PaintedAreStarted'
  BY DEF EffectsInv, NoEffectLeaks, PaintedAreStarted
<1> QED  BY <1>1, <1>2, <1>3, <1>4 DEF EffectsInv

(* At a switch the two readings are less than a blend apart: both effects  *)
(* are painted, the old one still active, the new one made so.             *)
LEMMA CalcSwitchStep == ASSUME EffectsInv, CalcSwitch PROVE EffectsInv'
<1> USE Constants
<1>1. PICK r \in Readings, s \in now - Skew .. now + Skew :
        /\ s <= r + Skew /\ s >= Later(r) - Skew
        /\ switch_time' = r
        /\ latest' = s
        /\ highest' = IF s > Later(r) THEN s ELSE Later(r)
        /\ elapsed' = 0
        /\ Paint(scheduled_effect, current_effect, s - r)
  BY DEF CalcSwitch
<1>2. /\ pc = "effect" /\ current_effect # scheduled_effect
      /\ previous_effect' = current_effect /\ current_effect' = scheduled_effect
      /\ now <= switchedAt + elapsed /\ active \subseteq {current_effect}
      /\ current_effect \in active
  BY DEF CalcSwitch, EffectsInv, SwitchInv, StartedInv
<1>3. TypeOK  BY DEF EffectsInv
<1>4. /\ r \in Int /\ s \in Int /\ r <= now + Skew /\ s >= r - Skew /\ s < r + blend_duration
      /\ now - Skew <= s /\ Later(r) \in Int /\ Later(r) >= r /\ s <= r + Skew
  BY <1>1, <1>3 DEF TypeOK, Readings, Later
<1>5. s - r < blend_duration  BY <1>4
<1>6. /\ active' = active \cup {scheduled_effect}
      /\ painted' = {current_effect, scheduled_effect}
      /\ weight' = s - r /\ pc' = "interval"
      /\ scheduled_effect' = scheduled_effect /\ now' = now /\ switchedAt' = switchedAt
  BY <1>1, <1>5 DEF Paint, Blend
<1>7. highest' \in Int /\ highest' >= s /\ highest' >= r  BY <1>1, <1>4
<1>8. TypeOK'  BY <1>1, <1>2, <1>3, <1>4, <1>6, <1>7 DEF TypeOK
<1>9. ClockInv'  BY <1>1, <1>3, <1>4, <1>6, <1>7 DEF EffectsInv, TypeOK, ClockInv
<1>10. StartedInv'  BY <1>2, <1>6 DEF StartedInv
<1>11. SwitchInv'  BY <1>1, <1>2, <1>3, <1>4, <1>6 DEF TypeOK, SwitchInv
<1>12. NoEffectLeaks' /\ PaintedAreStarted'
  BY <1>2, <1>6 DEF NoEffectLeaks, PaintedAreStarted
<1> QED  BY <1>8, <1>9, <1>10, <1>11, <1>12 DEF EffectsInv

(* Between switches a frame blends on, or has read the time behind the     *)
(* blend and ends the previous effect.                                     *)
LEMMA CalcStayStep == ASSUME EffectsInv, CalcStay PROVE EffectsInv'
<1> USE Constants
<1>1. PICK r \in Readings :
        ReadTime(r) /\ Paint(current_effect, previous_effect, r - switch_time)
  BY DEF CalcStay
<1>2. /\ current_effect = scheduled_effect
      /\ current_effect' = current_effect /\ previous_effect' = previous_effect
      /\ switch_time' = switch_time
      /\ pc' = "interval" /\ scheduled_effect' = scheduled_effect
      /\ now' = now /\ switchedAt' = switchedAt
  BY <1>1 DEF CalcStay, Paint
<1>3. TypeOK  BY DEF EffectsInv
<1>4. /\ r \in Int /\ now - Skew <= r /\ highest - Skew <= r
      /\ latest' = r /\ elapsed' = 0 /\ highest' = Later(r)
      /\ Later(r) \in Int /\ Later(r) >= r /\ Later(r) >= highest
  BY <1>1, <1>3 DEF TypeOK, Readings, Later, ReadTime
<1>5. ClockInv'  BY <1>2, <1>3, <1>4 DEF EffectsInv, TypeOK, ClockInv
<1>6. switch_time <= highest /\ current_effect \in active /\ switch_time \in Int
  BY <1>3 DEF EffectsInv, ClockInv, StartedInv, TypeOK
<1>7. CASE r - switch_time < blend_duration
  <2>1. /\ active' = active \cup {current_effect}
        /\ painted' = {previous_effect, current_effect}
        /\ weight' = r - switch_time
    BY <1>1, <1>7 DEF Paint, Blend
  <2>2. active' = active  BY <1>6, <2>1
  <2>3. r - switch_time >= -Skew  BY <1>3, <1>4, <1>6 DEF TypeOK
  <2>4. TypeOK'  BY <1>2, <1>3, <1>4, <1>7, <2>1, <2>2, <2>3 DEF TypeOK
  <2>5. previous_effect \notin active => highest' >= switch_time + blend_duration
    BY <1>3, <1>4, <1>6 DEF EffectsInv, StartedInv, TypeOK
  <2>6. StartedInv'  BY <1>2, <1>6, <2>2, <2>5 DEF StartedInv
  <2>7. SwitchInv'
    BY <1>2, <1>3, <1>4, <1>6, <1>7, <2>2 DEF EffectsInv, TypeOK, SwitchInv
  <2>8. NoEffectLeaks' /\ PaintedAreStarted'
    BY <1>2, <1>6, <2>1, <2>2, <2>5 DEF EffectsInv, NoEffectLeaks, PaintedAreStarted
  <2> QED  BY <1>5, <2>4, <2>6, <2>7, <2>8 DEF EffectsInv
<1>8. CASE ~(r - switch_time < blend_duration)
  <2>1. /\ active' = IF previous_effect # current_effect
                     THEN active \ {previous_effect} ELSE active
        /\ painted' = {current_effect}
        /\ weight' = blend_duration
    BY <1>1, <1>8 DEF Paint, Plain
  <2>2. current_effect \in active' /\ active' \subseteq active  BY <1>6, <2>1
  <2>3. ~(previous_effect \in active' /\ previous_effect # current_effect)  BY <2>1
  <2>4. TypeOK'  BY <1>2, <1>3, <1>4, <2>1, <2>2 DEF TypeOK
  <2>5. highest' >= switch_time + blend_duration  BY <1>4, <1>6, <1>8
  <2>6. StartedInv'  BY <1>2, <2>2, <2>5 DEF StartedInv
  <2>7. SwitchInv'  BY <1>2, <2>3 DEF SwitchInv
  <2>8. NoEffectLeaks' /\ PaintedAreStarted'
    BY <1>2, <2>1, <2>2 DEF EffectsInv, NoEffectLeaks, PaintedAreStarted
  <2> QED  BY <1>5, <2>4, <2>6, <2>7, <2>8 DEF EffectsInv
<1> QED  BY <1>7, <1>8

-----------------------------------------------------------------------------
(* EffectsInv holds in every state. *)
LEMMA AlwaysInv == Spec => []EffectsInv
<1>1. EffectsInv /\ UNCHANGED vars => EffectsInv'
  BY DEF vars, effect, clock, picture, EffectsInv, TypeOK, ClockInv, StartedInv, SwitchInv,
         NoEffectLeaks, PaintedAreStarted
<1>2. EffectsInv /\ [Next]_vars => EffectsInv'
  BY <1>1, TimeStep, NextEffectStep, NotYetStep, CalcSwitchStep, CalcStayStep DEF Next, Frame
<1> QED  BY EffectsInit, <1>2, PTL DEF Spec

(* The variables keep their types; a blend never overshoots by more than   *)
(* the clock is wrong.                                                     *)
THEOREM TypeCorrect == Spec => []TypeOK
<1>1. EffectsInv => TypeOK  BY DEF EffectsInv
<1> QED  BY <1>1, AlwaysInv, PTL

(* An effect that is neither painted nor being blended away has been ended *)
(* (effects.cpp, mainEffect): a second switch never comes while the effect *)
(* of the one before the last is active.                                   *)
THEOREM NoLeaks == Spec => []NoEffectLeaks
<1>1. EffectsInv => NoEffectLeaks  BY DEF EffectsInv
<1> QED  BY <1>1, AlwaysInv, PTL

(* No effect is painted that has not been started. *)
THEOREM Started == Spec => []PaintedAreStarted
<1>1. EffectsInv => PaintedAreStarted  BY DEF EffectsInv
<1> QED  BY <1>1, AlwaysInv, PTL

-----------------------------------------------------------------------------
(* What the last frame has painted is decided by the last reading, and     *)
(* when a switch is noticed that reading was behind the blend before it.   *)
Blended == latest - switch_time >= blend_duration

SharesInv ==
  /\ painted # {} =>
       /\ painted = IF Blended THEN {current_effect} ELSE {previous_effect, current_effect}
       /\ weight = IF Blended THEN blend_duration ELSE latest - switch_time
  /\ previous_effect # current_effect => switch_time <= switchedAt + 1 + Skew
  /\ current_effect # scheduled_effect => previous_effect = current_effect \/ Blended

LEMMA SharesInit == Init => SharesInv
BY Constants DEF Init, SharesInv

LEMMA LaterBound ==
  ASSUME NEW a \in Int, NEW b \in Int, b >= a, NEW t \in Int, t <= a + 1 + Skew
  PROVE  t <= b + 1 + Skew
BY Constants

LEMMA SharesQuiet ==
  ASSUME EffectsInv, SharesInv, TimePasses \/ NotYet \/ NextEffect \/ UNCHANGED vars
  PROVE  SharesInv' /\ UNCHANGED picture
<1> USE Constants DEF SharesInv, Blended
<1>1. CASE TimePasses  BY <1>1 DEF TimePasses, effect, picture
<1>2. CASE NotYet  BY <1>2 DEF NotYet, effect, clock, picture
<1>3. CASE UNCHANGED vars  BY <1>3 DEF vars, effect, clock, picture
<1>4. CASE NextEffect
  <2>1. previous_effect = current_effect \/ Blended
    BY <1>4 DEF NextEffect, EffectsInv, TypeOK, ClockInv
  <2>2. switchedAt' >= switchedAt /\ switchedAt' \in Int /\ switchedAt \in Int
    BY <1>4 DEF NextEffect, EffectsInv, TypeOK, ClockInv
  <2>3. UNCHANGED <<painted, weight, latest, switch_time, previous_effect, current_effect>>
    BY <1>4 DEF NextEffect, effect, clock, picture
  <2>4. switch_time \in Int  BY DEF EffectsInv, TypeOK
  <2>5. previous_effect' # current_effect' => switch_time' <= switchedAt' + 1 + Skew
    <3>1. previous_effect # current_effect => switch_time <= switchedAt + 1 + Skew
      OBVIOUS
    <3>2. switch_time <= switchedAt + 1 + Skew => switch_time <= switchedAt' + 1 + Skew
      BY <2>2, <2>4, LaterBound, Zenon
    <3> QED  BY <2>3, <3>1, <3>2, Zenon
  <2> HIDE DEF Blended
  <2>6. Blended' = Blended  BY <2>3 DEF Blended
  <2> QED  BY <2>1, <2>3, <2>5, <2>6 DEF picture
<1> QED  BY <1>1, <1>2, <1>3, <1>4

(* The change of every share in one frame. *)
Smooth ==
  painted # {} => \A e \in Effect : Distance(Share(e), Share(e)') <= Skew + 1

LEMMA SharesSwitch ==
  ASSUME EffectsInv, SharesInv, CalcSwitch
  PROVE  SharesInv' /\ Smooth
<1> USE Constants
<1>1. PICK r \in Readings, s \in now - Skew .. now + Skew :
        /\ s <= r + Skew /\ s >= Later(r) - Skew
        /\ switch_time' = r
        /\ latest' = s
        /\ Paint(scheduled_effect, current_effect, s - r)
  BY DEF CalcSwitch
<1>2. /\ current_effect # scheduled_effect
      /\ previous_effect' = current_effect /\ current_effect' = scheduled_effect
      /\ now <= switchedAt + elapsed
      /\ previous_effect = current_effect \/ Blended
  BY DEF CalcSwitch, EffectsInv, SwitchInv, SharesInv
<1>3. TypeOK  BY DEF EffectsInv
<1>4. /\ r \in Int /\ s \in Int /\ r <= now + Skew /\ s - r >= -Skew
      /\ s - r <= Skew /\ s - r < blend_duration
  BY <1>1, <1>3 DEF TypeOK, Readings, Later
<1>5. /\ painted' = {current_effect, scheduled_effect}
      /\ weight' = s - r /\ scheduled_effect' = scheduled_effect /\ switchedAt' = switchedAt
  BY <1>1, <1>4 DEF Paint, Blend
<1>6. SharesInv'
  BY <1>1, <1>2, <1>3, <1>4, <1>5 DEF SharesInv, Blended, TypeOK
<1>7. Smooth
  <2> SUFFICES ASSUME painted # {}, NEW e \in Effect
               PROVE  Distance(Share(e), Share(e)') <= Skew + 1
    BY DEF Smooth
  <2>1. painted = {current_effect}  BY <1>2 DEF SharesInv
  <2>2. Share(e) = IF e = current_effect THEN blend_duration ELSE 0
    BY <2>1 DEF Share
  <2>3. Share(e)' = IF e = scheduled_effect THEN s - r
                    ELSE IF e = current_effect THEN blend_duration - (s - r) ELSE 0
    BY <1>2, <1>5 DEF Share
  <2>4. CASE e = scheduled_effect  BY <1>2, <1>4, <2>2, <2>3, <2>4 DEF Distance
  <2>5. CASE e = current_effect  BY <1>2, <1>4, <2>2, <2>3, <2>5 DEF Distance
  <2>6. CASE e # scheduled_effect /\ e # current_effect
    BY <1>4, <2>2, <2>3, <2>6 DEF Distance
  <2> QED  BY <2>4, <2>5, <2>6
<1> QED  BY <1>6, <1>7

LEMMA SharesStay ==
  ASSUME EffectsInv, SharesInv, CalcStay
  PROVE  SharesInv' /\ Smooth
<1> USE Constants
<1>1. PICK r \in Readings :
        ReadTime(r) /\ Paint(current_effect, previous_effect, r - switch_time)
  BY DEF CalcStay
<1>2. /\ current_effect = scheduled_effect
      /\ current_effect' = current_effect /\ previous_effect' = previous_effect
      /\ switch_time' = switch_time /\ scheduled_effect' = scheduled_effect
      /\ switchedAt' = switchedAt
  BY <1>1 DEF CalcStay, Paint
<1>3. TypeOK /\ latest <= highest  BY DEF EffectsInv, ClockInv
<1>4. /\ r \in Int /\ latest \in Int /\ switch_time \in Int /\ latest' = r
      /\ r <= latest + 1 + Skew /\ latest - Skew <= r
  BY <1>1, <1>3 DEF TypeOK, Readings, ReadTime
<1>5. /\ painted' = IF r - switch_time < blend_duration
                    THEN {previous_effect, current_effect} ELSE {current_effect}
      /\ weight' = IF r - switch_time < blend_duration THEN r - switch_time ELSE blend_duration
  BY <1>1 DEF Paint, Blend, Plain
<1>6. SharesInv'
  BY <1>2, <1>4, <1>5 DEF SharesInv, Blended
<1>7. Smooth
  <2> SUFFICES ASSUME painted # {}, NEW e \in Effect
               PROVE  Distance(Share(e), Share(e)') <= Skew + 1
    BY DEF Smooth
  <2> DEFINE w0 == IF Blended THEN blend_duration ELSE latest - switch_time
             w1 == IF r - switch_time < blend_duration THEN r - switch_time ELSE blend_duration
  <2>1. w0 \in Int /\ w1 \in Int /\ w0 - w1 <= Skew + 1 /\ w1 - w0 <= Skew + 1
    BY <1>4 DEF Blended
  <2>2. CASE previous_effect = current_effect
    <3>1. painted = {current_effect} /\ painted' = {current_effect}
      BY <1>5, <2>2 DEF SharesInv
    <3>2. Share(e) = IF e = current_effect THEN blend_duration ELSE 0
      BY <3>1 DEF Share
    <3>3. Share(e)' = IF e = current_effect THEN blend_duration ELSE 0
      BY <3>1, <1>2 DEF Share
    <3> QED  BY <3>2, <3>3 DEF Distance
  <2>3. CASE previous_effect # current_effect
    <3>1. painted = (IF Blended THEN {current_effect} ELSE {previous_effect, current_effect})
          /\ weight = w0
      BY DEF SharesInv
    <3>2. Share(e) = IF e = current_effect THEN w0
                     ELSE IF e = previous_effect THEN blend_duration - w0 ELSE 0
      BY <2>3, <3>1, <1>4 DEF Share, Blended
    <3>3. Share(e)' = IF e = current_effect THEN w1
                      ELSE IF e = previous_effect THEN blend_duration - w1 ELSE 0
      BY <2>3, <1>2, <1>4, <1>5 DEF Share
    <3> HIDE DEF w0, w1
    <3>4. CASE e = current_effect  BY <2>1, <3>2, <3>3, <3>4 DEF Distance
    <3>5. CASE e = previous_effect  BY <2>1, <2>3, <3>2, <3>3, <3>5 DEF Distance
    <3>6. CASE e # current_effect /\ e # previous_effect  BY <3>2, <3>3, <3>6 DEF Distance
    <3> QED  BY <3>4, <3>5, <3>6
  <2> QED  BY <2>2, <2>3
<1> QED  BY <1>6, <1>7

(* From one frame to the next no effect's share of the picture moves by    *)
(* more than the clock may: through every switch, blend and its end, for   *)
(* every number of effects and every error of the clock below a blend.     *)
THEOREM Smoothness == Spec => SharesMoveSmoothly
<1>1. EffectsInv /\ SharesInv /\ [Next]_vars => SharesInv' /\ [Smooth]_picture
  BY SharesQuiet, SharesSwitch, SharesStay DEF Next, Frame
<1>2. Spec => [][Smooth]_picture
  BY <1>1, SharesInit, AlwaysInv, PTL DEF Spec
<1> QED  BY <1>2 DEF SharesMoveSmoothly, Smooth
=============================================================================
