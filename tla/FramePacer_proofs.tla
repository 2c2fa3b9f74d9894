------------------------- MODULE FramePacer_proofs --------------------------
(***************************************************************************)
(* Proofs about FramePacer, for all rates and any width of frameCount.     *)
(***************************************************************************)
EXTENDS FramePacer, TLAPS

(* Remainders: a quotient is unique, and counting on counts them on.       *)
LEMMA NoQuotient ==
  ASSUME NEW b \in Int, b > 0, NEW d \in Int, NEW r1 \in 0..b - 1, NEW r2 \in 0..b - 1,
         b * d = r1 - r2
  PROVE  d = 0
<1>1. CASE d >= 1
  <2>1. b * d >= b
    BY <1>1
  <2>2. QED
    BY <2>1
<1>2. CASE d <= -1
  <2>1. b * d <= -b
    BY <1>2
  <2>2. QED
    BY <2>1
<1>3. QED
  BY <1>1, <1>2

LEMMA Division ==
  ASSUME NEW a \in Int, NEW b \in Int, b > 0
  PROVE  a \div b \in Int /\ a = b * (a \div b) + (a % b) /\ a % b \in 0..b - 1
<1>1. a = b * (a \div b) + (a % b)
  OBVIOUS
<1>2. a \div b \in Int
  OBVIOUS
<1>3. a % b \in 0..b - 1
  OBVIOUS
<1>4. QED
  BY <1>1, <1>2, <1>3

LEMMA Remainder ==
  ASSUME NEW a \in Int, NEW b \in Int, b > 0, NEW q \in Int, NEW r \in 0..b - 1, a = b * q + r
  PROVE  a % b = r
<1> DEFINE quot == a \div b
           rem  == a % b
<1> HIDE DEF quot, rem
<1>1. quot \in Int /\ rem \in 0..b - 1 /\ a = b * quot + rem
  BY Division DEF quot, rem
<1>2. b * (quot - q) = r - rem
  BY <1>1
<1>3. quot - q = 0
  BY <1>1, <1>2, NoQuotient
<1>4. b * (quot - q) = 0
  BY <1>3
<1>5. QED
  BY <1>1, <1>2, <1>4 DEF rem

LEMMA NextRemainder ==
  ASSUME NEW a \in Int, NEW b \in Int, b > 0
  PROVE  (a + 1) % b = IF a % b = b - 1 THEN 0 ELSE (a % b) + 1
<1> DEFINE quot == a \div b
           rem  == a % b
<1> HIDE DEF quot, rem
<1>1. quot \in Int /\ rem \in 0..b - 1 /\ a = b * quot + rem
  BY Division DEF quot, rem
<1>2. CASE rem = b - 1
  <2>1. a + 1 = b * (quot + 1) + 0
    BY <1>1, <1>2
  <2>2. (a + 1) % b = 0
    BY <1>1, <2>1, Remainder
  <2>3. QED
    BY <1>2, <2>2 DEF rem
<1>3. CASE rem # b - 1
  <2>1. a + 1 = b * quot + (rem + 1) /\ rem + 1 \in 0..b - 1
    BY <1>1, <1>3
  <2>2. (a + 1) % b = rem + 1
    BY <1>1, <2>1, Remainder
  <2>3. QED
    BY <1>3, <2>2 DEF rem
<1>4. QED
  BY <1>2, <1>3

(* frameCount counts on or wraps to 0.                                     *)
LEMMA CountOrWrap ==
  ASSUME NEW w \in Int, w > 0, NEW n \in 0..w - 1
  PROVE  (n + 1) % w = 0 \/ (n + 1) % w = n + 1
<1>1. n % w = n
  <2>1. n = w * 0 + n
    OBVIOUS
  <2>2. QED
    BY <2>1, Remainder
<1>2. QED
  BY <1>1, NextRemainder

(* A frame keeps a tick in its rhythm, and the tick comes at its distance. *)
LEMMA Rhythm ==
  ASSUME NEW every \in Int, every > 0, NEW n \in Nat, NEW m \in {0, n + 1}, NEW since \in Nat,
         InRhythm(since, every, n)
  PROVE  /\ InRhythm(IF n % every = 0 THEN 1 ELSE since + 1, every, m)
         /\ n % every = 0 => since = every \/ n = 0
         /\ n % every # 0 => since < every
<1> DEFINE rem == n % every
           rem2 == (n + 1) % every
<1> HIDE DEF rem, rem2
<1>1. rem \in 0..every - 1 /\ rem2 = IF rem = every - 1 THEN 0 ELSE rem + 1
  BY Division, NextRemainder DEF rem, rem2
<1>2. n = 0 => rem = 0
  <2>1. 0 = every * 0 + 0
    OBVIOUS
  <2>2. 0 % every = 0
    BY <2>1, Remainder
  <2>3. QED
    BY <2>2 DEF rem
<1>3. IF n = 0 THEN since <= every ELSE since = IF rem = 0 THEN every ELSE rem
  BY DEF InRhythm, rem
<1>4. LET s == IF rem = 0 THEN 1 ELSE since + 1
      IN  /\ s <= every
          /\ s = IF rem2 = 0 THEN every ELSE rem2
  BY <1>1, <1>2, <1>3
<1>5. InRhythm(IF rem = 0 THEN 1 ELSE since + 1, every, m)
  <2>1. CASE m = 0
    BY <1>4, <2>1 DEF InRhythm
  <2>2. CASE m = n + 1
    <3>1. m % every = rem2 /\ m # 0
      BY <2>2 DEF rem2
    <3>2. QED
      BY <1>4, <3>1 DEF InRhythm
  <2>3. QED
    BY <2>1, <2>2
<1>6. /\ rem = 0 => since = every \/ n = 0
      /\ rem # 0 => since < every
  BY <1>1, <1>2, <1>3
<1>7. QED
  BY <1>5, <1>6 DEF rem

-----------------------------------------------------------------------------
LEMMA Rates ==
  /\ IdleEvery \in Int /\ IdleEvery > 0
  /\ BackgroundEvery \in Int /\ BackgroundEvery > 0
  /\ Wrap \in Int /\ Wrap > 0
BY PacerAssumption DEF IdleEvery, BackgroundEvery

LEMMA PacerInvInit == Init => PacerInv
<1> SUFFICES ASSUME Init PROVE PacerInv
  OBVIOUS
<1>1. TypeOK
  <2>1. effectReady \in BOOLEAN /\ idleReady \in BOOLEAN /\ backgroundReady \in BOOLEAN
    BY Zenon DEF Init
  <2>2. QED
    BY <2>1, Rates DEF Init, TypeOK
<1>2. Cleared
  BY DEF Init, Cleared
<1>3. InRhythm(sinceIdle, IdleEvery, frameCount) /\ InRhythm(sinceBackground, BackgroundEvery, frameCount)
  BY Rates DEF Init, InRhythm
<1>4. QED
  BY <1>1, <1>2, <1>3 DEF PacerInv

(* The frame whose flag the loop has just cleared.                         *)
LEMMA FrameCounted ==
  ASSUME PacerInv, ClearEffectReady
  PROVE  /\ frameCount' \in 0..Wrap - 1
         /\ frameCount' \in {0, frameCount + 1}
         /\ sinceIdle' = IF frameCount % IdleEvery = 0 THEN 1 ELSE sinceIdle + 1
         /\ sinceBackground' = IF frameCount % BackgroundEvery = 0 THEN 1 ELSE sinceBackground + 1
<1>1. frameCount \in 0..Wrap - 1 /\ frameCount' = (frameCount + 1) % Wrap
  BY DEF PacerInv, TypeOK, ClearEffectReady, SizeT
<1>2. frameCount' \in 0..Wrap - 1
  BY <1>1, Rates, Division
<1>3. frameCount' \in {0, frameCount + 1}
  BY <1>1, Rates, CountOrWrap
<1>4. /\ sinceIdle' = IF frameCount % IdleEvery = 0 THEN 1 ELSE sinceIdle + 1
      /\ sinceBackground' = IF frameCount % BackgroundEvery = 0 THEN 1 ELSE sinceBackground + 1
  BY Zenon DEF ClearEffectReady, IsTick
<1>5. QED
  BY <1>2, <1>3, <1>4

LEMMA PacerInvStep == PacerInv /\ [Next]_vars => PacerInv'
<1> SUFFICES ASSUME PacerInv, [Next]_vars PROVE PacerInv'
  OBVIOUS
<1>1. CASE ClearEffectReady
  <2>1. TypeOK'
    <3>1. effectReady' \in BOOLEAN /\ idleReady' \in BOOLEAN /\ backgroundReady' \in BOOLEAN
      BY <1>1, Zenon DEF ClearEffectReady, IsTick
    <3>2. sinceIdle' \in Nat /\ sinceBackground' \in Nat
      BY <1>1, FrameCounted DEF PacerInv, TypeOK
    <3>3. pc' = "frame"
      BY <1>1 DEF ClearEffectReady
    <3>4. QED
      BY <1>1, <3>1, <3>2, <3>3, FrameCounted DEF TypeOK
  <2>2. Cleared'
    BY <1>1 DEF ClearEffectReady, Cleared
  <2>3. InRhythm(sinceIdle, IdleEvery, frameCount)'
    BY <1>1, FrameCounted, Rates, Rhythm DEF PacerInv, TypeOK
  <2>4. InRhythm(sinceBackground, BackgroundEvery, frameCount)'
    BY <1>1, FrameCounted, Rates, Rhythm DEF PacerInv, TypeOK
  <2>5. QED
    BY <2>1, <2>2, <2>3, <2>4 DEF PacerInv
<1>2. CASE ~ClearEffectReady
  <2>1. UNCHANGED <<frameCount, sinceIdle, sinceBackground>>
    BY <1>2 DEF Next, Loop, GPT2_IRQHandler, OtherIRQHandler, EnterWFI, CheckIdleReadyAndClear,
       CheckBackgroundReadyAndClear, TestEffectReady, Frame, vars, flags, history
  <2>2. effectReady' \in BOOLEAN /\ idleReady' \in BOOLEAN /\ backgroundReady' \in BOOLEAN
    BY <1>2, Zenon DEF PacerInv, TypeOK, Next, Loop, GPT2_IRQHandler, OtherIRQHandler,
       EnterWFI, CheckIdleReadyAndClear, CheckBackgroundReadyAndClear, TestEffectReady, Frame, vars, flags, history
  <2>3. pc' \in {"loop", "wfi", "idle", "background", "effect", "clear", "frame"} /\ Cleared'
    BY <1>2 DEF PacerInv, TypeOK, Cleared, Next, Loop, Woken, GPT2_IRQHandler, OtherIRQHandler,
       EnterWFI, CheckIdleReadyAndClear, CheckBackgroundReadyAndClear, TestEffectReady, Frame, vars, flags, history
  <2>4. TypeOK'
    BY <2>1, <2>2, <2>3 DEF PacerInv, TypeOK
  <2>5. QED
    BY <2>1, <2>3, <2>4 DEF PacerInv, InRhythm
<1>3. QED
  BY <1>1, <1>2

(* Types, the flags cleared on the way, and the rhythm of the ticks.       *)
THEOREM PacerSafety == Spec => []PacerInv
BY PacerInvInit, PacerInvStep, PTL DEF Spec

(* CheckEffectReadyAndClear (timeline.cpp:258-268) raises idleReady and    *)
(* backgroundReady only after the loop has cleared them.                   *)
THEOREM TicksAreServed == Spec => []NoTickIsOverwritten
<1>1. PacerInv => NoTickIsOverwritten
  BY DEF PacerInv, Cleared, NoTickIsOverwritten
<1>2. QED
  BY <1>1, PacerSafety, PTL

(* Ticks keep their distance, no tick is late, and none early until        *)
(* frameCount wraps.                                                       *)
THEOREM TicksRegular == Spec => TicksAreRegular
<1>1. PacerInv /\ [Next]_vars
        => [pc = "clear" /\ pc' = "frame" =>
              /\ OnTime(idleReady', sinceIdle, IdleEvery)
              /\ OnTime(backgroundReady', sinceBackground, BackgroundEvery)]_vars
  <2> SUFFICES ASSUME PacerInv, Next, pc = "clear", pc' = "frame"
               PROVE  /\ OnTime(idleReady', sinceIdle, IdleEvery)
                      /\ OnTime(backgroundReady', sinceBackground, BackgroundEvery)
    OBVIOUS
  <2>1. ClearEffectReady
    BY DEF Next, Loop, GPT2_IRQHandler, OtherIRQHandler, Woken, EnterWFI, CheckIdleReadyAndClear,
       CheckBackgroundReadyAndClear, TestEffectReady, Frame
  <2>2. idleReady' = (frameCount % IdleEvery = 0) /\ backgroundReady' = (frameCount % BackgroundEvery = 0)
    BY <2>1, Zenon DEF ClearEffectReady, IsTick
  <2>3. /\ frameCount % IdleEvery = 0 => sinceIdle = IdleEvery \/ frameCount = 0
        /\ frameCount % IdleEvery # 0 => sinceIdle < IdleEvery
        /\ frameCount % BackgroundEvery = 0 => sinceBackground = BackgroundEvery \/ frameCount = 0
        /\ frameCount % BackgroundEvery # 0 => sinceBackground < BackgroundEvery
    BY Rates, Rhythm DEF PacerInv, TypeOK
  <2>4. QED
    BY <2>2, <2>3, Zenon DEF OnTime
<1>2. QED
  BY <1>1, PacerSafety, PTL DEF Spec, TicksAreRegular
=============================================================================
