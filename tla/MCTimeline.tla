----------------------------- MODULE MCTimeline -----------------------------
(***************************************************************************)
(* Three instances of Timeline.                                            *)
(*   App: the four spans Effects::init schedules, the times scaled: a      *)
(*     second is two units, Effects::init runs half a second after GPT1's  *)
(*     start, the glow lasts a second and repeats after five or six units, *)
(*     the effects switch after seven.                                     *)
(*   Client: one effect of finite duration, one infinite and an interval,  *)
(*     which other code adds and removes between frames.                   *)
(*   Pair: two effects of finite duration, which the firmware does not     *)
(*     have.                                                               *)
(***************************************************************************)
EXTENDS Timeline, TLC

CONSTANTS mainEffect, effectSwitcher, glowRepeater, glowEffect

AppSpans      == {mainEffect, effectSwitcher, glowRepeater, glowEffect}
AppEffects    == {mainEffect, glowEffect}
AppDuration   == (mainEffect :> Forever) @@ (glowEffect :> 2) @@ [s \in AppSpans |-> 0]
AppPeriods    == (glowRepeater :> {5, 6}) @@ (effectSwitcher :> {7}) @@ [s \in AppSpans |-> {}]
AppSpawns     == (glowRepeater :> glowEffect) @@ [s \in AppSpans |-> NoSpan]
AppCallsBelow == {glowEffect}
AppFirstNext  == (glowRepeater :> effectSwitcher) @@ (effectSwitcher :> mainEffect)
                   @@ [s \in AppSpans |-> NoSpan]
AppFirstTime  == (mainEffect :> 1) @@ (glowRepeater :> 1 + 3) @@ (effectSwitcher :> 1 + 4)
                   @@ [s \in AppSpans |-> 0]

CONSTANTS flash, base, beat

ClientSpans     == {flash, base, beat}
ClientEffects   == {flash, base}
ClientDuration  == (base :> Forever) @@ (flash :> 1) @@ (beat :> 0)
ClientPeriods   == (beat :> {2}) @@ [s \in ClientSpans |-> {}]
ClientSpawns    == (beat :> flash) @@ [s \in ClientSpans |-> NoSpan]
ClientFirstNext == [s \in ClientSpans |-> NoSpan]
ClientFirstTime == [s \in ClientSpans |-> 0]

CONSTANT flash2

PairSpans     == {flash, flash2, base}
PairEffects   == PairSpans
PairDuration  == (base :> Forever) @@ [s \in PairSpans |-> 1]
PairPeriods   == [s \in PairSpans |-> {}]
PairSpawns    == [s \in PairSpans |-> NoSpan]
PairFirstNext == [s \in PairSpans |-> NoSpan]
PairFirstTime == [s \in PairSpans |-> 0]

(* What the theorems suppose of the spans holds of the firmware's, and of  *)
(* the client's as far as the list is concerned.                           *)
ASSUME TheoremsApply ==
  /\ Spans = AppSpans => OneEffectEnds /\ HasBackground /\ LikeTheFirmware
  /\ Spans = ClientSpans => OneEffectEnds
=============================================================================
