--------------------------- MODULE LedsPage_proofs --------------------------
(***************************************************************************)
(* Proofs about FrameTiming, for every period, flight and budget, and      *)
(* about LedsPage, which extends it, for any ports and lengths of rows.    *)
(***************************************************************************)
EXTENDS LedsPage, TLAPS

(* What a step does, spelled out: a unit of time without and with a new    *)
(* frame, and an interrupt that begins a frame or does not.                *)
Quiet ==
  /\ phase' = IF phase = Period - 1 THEN 0 ELSE phase + 1
  /\ polling' = FALSE
  /\ effectReady' = (effectReady \/ phase = Period - 1)
  /\ work' = IF work = 0 THEN 0 ELSE work - 1
  /\ flight' = IF flight = 0 THEN 0 ELSE flight - 1
  /\ since' = since + 1
  /\ took' = took /\ onGrid' = onGrid /\ overrun' = overrun
  /\ \/ work # 0
     \/ ~(phase = Period - 1 \/ flight = 1)
     \/ ~(effectReady \/ phase = Period - 1)
     \/ phase = Period - 1 /\ ~effectReady /\ (polling \/ flight = 1)

FrameInTime ==
  /\ phase' = IF phase = Period - 1 THEN 0 ELSE phase + 1
  /\ polling' = FALSE
  /\ effectReady' = FALSE
  /\ work' \in 1..Budget
  /\ flight' = IF flight <= 1 THEN Flight ELSE flight - 1
  /\ since' = 0
  /\ took' = work'
  /\ onGrid' = (phase = Period - 1)
  /\ overrun' = (flight > 1)
  /\ work = 0
  /\ phase = Period - 1 \/ flight = 1
  /\ effectReady \/ phase = Period - 1

FrameByOther ==
  /\ work = 0 /\ effectReady
  /\ phase' = phase
  /\ polling' = FALSE
  /\ effectReady' = FALSE
  /\ work' \in 1..Budget
  /\ flight' = IF flight = 0 THEN Flight ELSE flight
  /\ since' = 0
  /\ took' = work'
  /\ onGrid' = FALSE
  /\ overrun' = (flight # 0)

PollInVain ==
  /\ work = 0 /\ ~effectReady
  /\ polling' = TRUE
  /\ UNCHANGED <<phase, effectReady, work, flight, since, took, onGrid, overrun>>

LEMMA TimeSteps ==
  ASSUME TypeOK, TimePasses
  PROVE  Quiet \/ FrameInTime
<1> USE TimingAssumption
<1>1. CASE Noticed /\ BeginFrame(Tick, Less(flight))
  <2>1. flight \in Nat
    BY DEF TypeOK
  <2>2. /\ (IF Less(flight) = 0 THEN Flight ELSE Less(flight)) = IF flight <= 1 THEN Flight ELSE flight - 1
        /\ (Less(flight) # 0) = (flight > 1)
    <3>1. CASE flight <= 1
      BY <2>1, <3>1 DEF Less
    <3>2. CASE flight > 1
      <4>1. Less(flight) = flight - 1 /\ flight - 1 # 0 /\ ~(flight <= 1)
        BY <2>1, <3>2 DEF Less
      <4>2. QED
        BY <3>2, <4>1, Zenon
    <3>3. QED
      BY <2>1, <3>1, <3>2
  <2>3. QED
    BY <1>1, <2>2, Zenon DEF TimePasses, Noticed, BeginFrame, Tick, FrameInTime
<1>2. CASE ~(Noticed /\ BeginFrame(Tick, Less(flight)))
  BY <1>2, Zenon DEF TimePasses, Noticed, Missed, Tick, Less, Quiet
<1>3. QED
  BY <1>1, <1>2

LEMMA OtherSteps ==
  ASSUME OtherIRQHandler
  PROVE  FrameByOther \/ PollInVain
BY Zenon DEF OtherIRQHandler, BeginFrame, FrameByOther, PollInVain

(* Every step is one of these or stutters.                                 *)
LEMMA StepCases ==
  ASSUME TypeOK, [Next]_timing
  PROVE  Quiet \/ FrameInTime \/ FrameByOther \/ PollInVain \/ UNCHANGED timing
BY TimeSteps, OtherSteps, Zenon DEF Next

LEMMA TypeInvariant == Spec => []TypeOK
<1> USE TimingAssumption DEF TypeOK
<1>1. Init => TypeOK
  <2> SUFFICES ASSUME Init PROVE TypeOK
    OBVIOUS
  <2>1. effectReady \in BOOLEAN /\ polling \in BOOLEAN /\ onGrid \in BOOLEAN /\ overrun \in BOOLEAN
    BY Zenon DEF Init
  <2>2. QED
    BY <2>1 DEF Init
<1>2. TypeOK /\ [Next]_timing => TypeOK'
  <2> SUFFICES ASSUME TypeOK, [Next]_timing PROVE TypeOK'
    OBVIOUS
  <2>1. effectReady' \in BOOLEAN /\ polling' \in BOOLEAN /\ onGrid' \in BOOLEAN
    BY StepCases, Zenon DEF Quiet, FrameInTime, FrameByOther, PollInVain, timing
  <2>2. overrun' \in BOOLEAN
    <3>1. (flight > 1) \in BOOLEAN /\ (flight # 0) \in BOOLEAN
      OBVIOUS
    <3>2. QED
      BY <3>1, StepCases, Zenon DEF Quiet, FrameInTime, FrameByOther, PollInVain, timing
  <2>3. /\ phase' \in 0..Period - 1 /\ work' \in 0..Budget /\ flight' \in 0..Flight
        /\ since' \in Nat /\ took' \in 0..Budget
    <3>1. CASE Quiet
      BY <3>1 DEF Quiet
    <3>2. CASE FrameInTime
      BY <3>2 DEF FrameInTime
    <3>3. CASE FrameByOther
      BY <3>3 DEF FrameByOther
    <3>4. CASE PollInVain \/ UNCHANGED timing
      BY <3>4 DEF PollInVain, timing
    <3>5. QED
      BY <3>1, <3>2, <3>3, <3>4, StepCases
  <2>4. QED
    BY <2>1, <2>2, <2>3, Zenon
<1>3. QED
  BY <1>1, <1>2, PTL DEF Spec

-----------------------------------------------------------------------------
(* A frame on the grid has landed when a tick waits, which is a period     *)
(* after it began at the earliest; what is left of its flight and, if it   *)
(* fits, of its work, ends before the tick.                                *)
Landed ==
  onGrid => /\ phase <= since
            /\ effectReady => flight = 0 /\ Period <= since
            /\ flight > 0 => flight + phase <= Flight
            /\ work = 0 => since # 0

Punctual == onGrid /\ took < Period /\ work > 0 => ~effectReady /\ work + phase < Period

Aligned == Landed /\ Punctual

LEMMA AddNothing ==
  \A x \in Nat, z \in Nat : z = 0 => x + z = x /\ z + x = x /\ z <= x
OBVIOUS

LEMMA AlignedInit == Init => Aligned
BY Zenon DEF Init, Aligned, Landed, Punctual

LEMMA AlignedStep == TypeOK /\ Aligned /\ [Next]_timing => Aligned'
<1> USE TimingAssumption DEF TypeOK
<1> SUFFICES ASSUME TypeOK, Aligned, [Next]_timing PROVE Aligned'
  OBVIOUS
<1>1. CASE Quiet
  <2>1. ASSUME onGrid
        PROVE  /\ phase' <= since'
               /\ effectReady' => flight' = 0 /\ Period <= since'
               /\ flight' > 0 => flight' + phase' <= Flight
               /\ since' # 0
    <3>1. phase <= since /\ (effectReady => flight = 0 /\ Period <= since)
          /\ (flight > 0 => flight + phase <= Flight)
      BY <2>1, Zenon DEF Aligned, Landed
    <3>2. QED
      BY <1>1, <3>1 DEF Quiet
  <2>2. ASSUME onGrid, took < Period, work' > 0
        PROVE  ~effectReady' /\ work' + phase' < Period
    <3>1. work > 0 /\ work' = work - 1
      BY <1>1, <2>2 DEF Quiet
    <3>2. ~effectReady /\ work + phase < Period
      BY <2>2, <3>1, Zenon DEF Aligned, Punctual
    <3>3. QED
      BY <1>1, <3>1, <3>2 DEF Quiet
  <2>3. onGrid' = onGrid /\ took' = took
    BY <1>1 DEF Quiet
  <2>4. QED
    BY <2>1, <2>2, <2>3, Zenon DEF Aligned, Landed, Punctual
<1>2. CASE FrameInTime
  <2>1. ~effectReady' /\ (onGrid' => phase' = 0) /\ took' = work' /\ since' = 0
    BY <1>2 DEF FrameInTime
  <2>2. flight' <= Flight /\ flight' \in Nat
    BY <1>2 DEF FrameInTime
  <2>3. work' \in Nat /\ work' # 0
    BY <1>2 DEF FrameInTime
  <2>4. ASSUME onGrid', took' < Period
        PROVE  work' + phase' < Period
    <3>1. phase' = 0 /\ took' = work' /\ work' < Period
      BY <2>1, <2>4, Zenon
    <3>2. phase' \in Nat
      BY <3>1
    <3>3. QED
      BY <2>3, <3>1, <3>2, AddNothing, Zenon
  <2>5. ASSUME onGrid'
        PROVE  phase' <= since' /\ flight' + phase' <= Flight
    <3>1. phase' = 0 /\ since' = 0
      BY <2>1, <2>5, Zenon
    <3>2. phase' \in Nat /\ since' \in Nat
      BY <3>1
    <3>3. QED
      BY <2>2, <3>1, <3>2, AddNothing, Zenon
  <2>6. QED
    BY <2>1, <2>3, <2>4, <2>5, Zenon DEF Aligned, Landed, Punctual
<1>3. CASE FrameByOther
  BY <1>3, Zenon DEF FrameByOther, Aligned, Landed, Punctual
<1>4. CASE PollInVain \/ UNCHANGED timing
  <2>1. UNCHANGED <<phase, effectReady, work, flight, since, took, onGrid>>
    BY <1>4 DEF PollInVain, timing
  <2>2. QED
    BY <2>1 DEF Aligned, Landed, Punctual
<1>5. QED
  BY <1>1, <1>2, <1>3, <1>4, StepCases

LEMMA AlwaysAligned == Spec => [](TypeOK /\ Aligned)
<1>1. Spec => []Aligned
  BY AlignedInit, AlignedStep, TypeInvariant, PTL DEF Spec
<1>2. QED
  BY <1>1, TypeInvariant, PTL

(* Work that fits in a period keeps the frames on the ticks of GPT2, but   *)
(* for a tick that another interrupt's poll makes the loop sleep through.  *)
THEOREM FramesKeepUp == Spec => AlignedFramesKeepUp
<1> USE TimingAssumption DEF TypeOK
<1>1. TypeOK /\ Aligned /\ [Next]_timing
        => [onGrid /\ took < Period =>
              /\ Tick /\ phase' = 0 => (since' = 0 /\ ~overrun') \/ polling
              /\ since' = 0 => onGrid' \/ Period <= since]_timing
  <2> SUFFICES ASSUME TypeOK, Aligned, Next, onGrid, took < Period
               PROVE  /\ Tick /\ phase' = 0 => (since' = 0 /\ ~overrun') \/ polling
                      /\ since' = 0 => onGrid' \/ Period <= since
    OBVIOUS
  <2>1. Tick => flight = 0 /\ work = 0
    BY DEF Aligned, Landed, Punctual, Tick
  <2>2. effectReady => Period <= since
    BY DEF Aligned, Landed
  <2>3. CASE Quiet
    <3>1. since' # 0
      BY <2>3 DEF Quiet
    <3>2. Tick => polling
      BY <2>1, <2>3 DEF Quiet, Tick
    <3>3. QED
      BY <3>1, <3>2
  <2>4. CASE FrameInTime
    <3>1. since' = 0 /\ onGrid' = (phase = Period - 1) /\ (phase = Period - 1 \/ effectReady)
      BY <2>4, Zenon DEF FrameInTime
    <3>2. Tick => ~overrun'
      <4>1. Tick => ~(flight > 1)
        BY <2>1
      <4>2. QED
        BY <2>4, <4>1, Zenon DEF FrameInTime
    <3>3. QED
      BY <2>2, <3>1, <3>2, Zenon
  <2>5. CASE FrameByOther
    <3>1. Tick => phase' # 0
      BY <2>5 DEF FrameByOther, Tick
    <3>2. effectReady
      BY <2>5, Zenon DEF FrameByOther
    <3>3. QED
      BY <2>2, <3>1, <3>2, Zenon
  <2>6. CASE PollInVain
    <3>1. Tick => phase' # 0
      BY <2>6 DEF PollInVain, Tick
    <3>2. since' = since /\ onGrid'
      BY <2>6 DEF PollInVain
    <3>3. QED
      BY <3>1, <3>2, Zenon
  <2>7. CASE UNCHANGED timing
    <3>1. Tick => phase' # 0
      BY <2>7 DEF timing, Tick
    <3>2. onGrid'
      BY <2>7 DEF timing
    <3>3. QED
      BY <3>1, <3>2, Zenon
  <2>8. QED
    BY <2>3, <2>4, <2>5, <2>6, <2>7, StepCases
<1>2. QED
  BY <1>1, AlwaysAligned, PTL DEF Spec, AlignedFramesKeepUp

(* A transmission that began with a tick has ended before the next.        *)
THEOREM FramesLand == Spec => OnGridFramesLand
<1> USE TimingAssumption DEF TypeOK
<1>1. TypeOK /\ Aligned /\ [Next]_timing => [onGrid /\ since' = 0 => ~overrun']_timing
  <2> SUFFICES ASSUME TypeOK, Aligned, [Next]_timing, ~UNCHANGED timing, onGrid, since' = 0
               PROVE  ~overrun'
    BY DEF timing
  <2>1. CASE Quiet
    BY <2>1 DEF Quiet
  <2>2. CASE FrameInTime
    <3>1. ~(flight > 1)
      BY <2>2 DEF FrameInTime, Aligned, Landed
    <3>2. QED
      BY <2>2, <3>1, Zenon DEF FrameInTime
  <2>3. CASE FrameByOther
    BY <2>3, Zenon DEF FrameByOther, Aligned, Landed
  <2>4. CASE PollInVain
    <3>1. since = 0 /\ work = 0
      BY <2>4 DEF PollInVain
    <3>2. QED
      BY <3>1, Zenon DEF Aligned, Landed
  <2>5. QED
    BY <2>1, <2>2, <2>3, <2>4, StepCases
<1>2. QED
  BY <1>1, AlwaysAligned, PTL DEF Spec, OnGridFramesLand

-----------------------------------------------------------------------------
(* How much of the gap between two frames has gone by.                     *)
Gap ==
  /\ work > 0 => since + work = took
  /\ work = 0 => since < took + phase + (IF effectReady THEN Period ELSE 0)

(* A tick slept through in WFI costs no more than the rest of a period, or *)
(* a period more if a poll in vain was the cause.                          *)
THEOREM GapIsBounded == Spec => []FrameGapIsBounded
<1> USE TimingAssumption DEF TypeOK, Gap
<1>1. Init => Gap
  BY DEF Init
<1>2. TypeOK /\ Gap /\ [Next]_timing => Gap'
  <2> SUFFICES ASSUME TypeOK, Gap, [Next]_timing PROVE Gap'
    OBVIOUS
  <2>1. CASE Quiet
    <3>1. /\ phase' = IF phase = Period - 1 THEN 0 ELSE phase + 1
          /\ work' = IF work = 0 THEN 0 ELSE work - 1
          /\ since' = since + 1 /\ took' = took
      BY <2>1, Zenon DEF Quiet
    <3>2. (effectReady => effectReady') /\ (phase = Period - 1 => effectReady')
      BY <2>1, Zenon DEF Quiet
    <3>3. work > 0 => since + work = took
      OBVIOUS
    <3>4. work' > 0 => since' + work' = took'
      BY <3>1, <3>3
    <3>5. CASE work' = 0 /\ effectReady'
      <4> SUFFICES since' < (took' + phase') + Period
        BY <3>1, <3>4, <3>5
      <4>1. CASE work # 0
        <5>1. since' = took' /\ took' \in Nat /\ phase' \in Nat
          BY <3>1, <3>3, <3>5, <4>1
        <5>2. \A t \in Nat, p \in Nat : t < (t + p) + Period
          OBVIOUS
        <5>3. QED
          BY <5>1, <5>2, Zenon
      <4>2. CASE work = 0 /\ phase # Period - 1
        <5>1. since < (took + phase) + Period
          BY <4>2
        <5>2. QED
          BY <3>1, <4>2, <5>1
      <4>3. CASE work = 0 /\ phase = Period - 1
        <5>1. ~effectReady
          BY <2>1, <4>3, Zenon DEF Quiet
        <5>2. since < took + phase
          BY <4>3, <5>1
        <5>3. QED
          BY <3>1, <4>3, <5>2
      <4>4. QED
        BY <4>1, <4>2, <4>3
    <3>6. CASE work' = 0 /\ ~effectReady'
      <4>1. ~effectReady /\ phase # Period - 1
        BY <3>2, <3>6, Zenon
      <4>2. work = 0 => since < took + phase
        BY <4>1
      <4>3. since' < took' + phase'
        BY <3>1, <3>3, <3>6, <4>1, <4>2
      <4>4. QED
        BY <3>1, <3>4, <3>6, <4>3
    <3>7. QED
      BY <3>4, <3>5, <3>6
  <2>2. CASE FrameInTime \/ FrameByOther
    <3>1. work' \in 1..Budget /\ since' = 0 /\ took' = work'
      BY <2>2, Zenon DEF FrameInTime, FrameByOther
    <3>2. work' \in Nat /\ since' \in Nat /\ work' # 0
      BY <3>1
    <3>3. QED
      BY <3>1, <3>2, AddNothing, Zenon DEF Gap
  <2>3. CASE PollInVain \/ UNCHANGED timing
    <3>1. UNCHANGED <<phase, effectReady, work, since, took>>
      BY <2>3 DEF PollInVain, timing
    <3>2. QED
      BY <3>1, Zenon
  <2>4. QED
    BY <2>1, <2>2, <2>3, StepCases
<1>3. TypeOK /\ Gap => FrameGapIsBounded
  BY DEF FrameGapIsBounded
<1>4. QED
  BY <1>1, <1>2, <1>3, TypeInvariant, PTL DEF Spec

-----------------------------------------------------------------------------
(* The page that a frame is written to while another is on its way.        *)

(* The loop and its timing are those of FrameTiming.                       *)
LEMMA PageTiming == PageSpec => []TypeOK
<1>1. PageInit => Init
  BY DEF PageInit
<1>2. [PageNext]_pageVars => [Next]_timing
  BY DEF PageNext, ElementPasses, FrameByOtherIRQ, Next, pageVars
<1>3. PageSpec => Spec
  BY <1>1, <1>2, PTL DEF PageSpec, Spec
<1>4. QED
  BY <1>3, TypeInvariant, PTL

LEMMA RowsHaveElements ==
  ASSUME NEW c \in Ports
  PROVE  /\ Len[c] \in Nat /\ RowLen(c) \in Nat /\ 0 < RowLen(c) /\ RowLen(c) <= Flight
         /\ \A i \in Int : IsData(c, i) => i \in Elements /\ i < RowLen(c)
BY PageAssumption, TimingAssumption DEF RowLen, IsData, Elements

(* What is written stays written while convert() moves on.                 *)
LEMMA WritingGoesOn ==
  ASSUME NEW q \in 0..PortCount, NEW m \in Elements, NEW c \in Ports, NEW i \in Elements,
         PageTypeOK, ConvertIsDone, Progress(q, m), port <= q, Written(c, i, port, pos)
  PROVE  Written(c, i, q, m)
<1> USE PageAssumption, TimingAssumption DEF PageTypeOK, TypeOK, Ports, Elements
<1>1. CASE c < port
  BY <1>1 DEF Written
<1>2. CASE c = port /\ i < pos
  <2>1. CASE q = port
    BY <1>2, <2>1 DEF Written, Progress
  <2>2. CASE port < q
    <3>1. pos < RowLen(port) /\ RowLen(port) \in Nat
      BY <1>2, RowsHaveElements DEF ConvertIsDone
    <3>2. QED
      BY <1>2, <2>2, <3>1 DEF Written
  <2>3. QED
    BY <2>1, <2>2
<1>3. QED
  BY <1>1, <1>2 DEF Written

(* The rows after a unit of time, before transfer() turns them.            *)
LEMMA FilledRows ==
  ASSUME NEW q \in 0..PortCount, NEW m \in Elements,
         PageInv, Progress(q, m), port <= q
  PROVE  /\ Filled(q, m) \in [Ports -> [Elements -> 0..Oldest]]
         /\ \A c \in Ports : \A i \in Elements :
              IsData(c, i) => Filled(q, m)[c][i] = IF Written(c, i, q, m) THEN 0 ELSE 1
<1>1. page \in [Ports -> [Elements -> 0..Oldest]]
  BY DEF PageInv, PageTypeOK
<1>2. Filled(q, m) \in [Ports -> [Elements -> 0..Oldest]]
  BY <1>1 DEF Filled, Oldest
<1>3. ASSUME NEW c \in Ports, NEW i \in Elements, IsData(c, i)
      PROVE  Filled(q, m)[c][i] = IF Written(c, i, q, m) THEN 0 ELSE 1
  <2>1. Filled(q, m)[c][i] = IF Written(c, i, q, m) THEN 0 ELSE page[c][i]
    BY DEF Filled
  <2>2. page[c][i] = IF Written(c, i, port, pos) THEN 0 ELSE 1
    BY <1>3 DEF PageInv, PageIsFresh
  <2>3. Written(c, i, port, pos) => Written(c, i, q, m)
    BY WritingGoesOn DEF PageInv
  <2>4. QED
    BY <2>1, <2>2, <2>3
<1>4. QED
  BY <1>2, <1>3

(* What a channel sends: nothing older than the last picture, and, once it *)
(* has sent of the next, nothing of the last.                              *)
LEMMA SentData ==
  ASSUME NEW q \in 0..PortCount, NEW m \in Elements, NEW c \in Ports,
         PageInv, Progress(q, m), port <= q
  PROVE  /\ Sent(Filled(q, m))[c] \in 0..Oldest
         /\ Sent(Filled(q, m))[c] <= wire[c]
         /\ flight > 0 /\ IsData(c, since) => Sent(Filled(q, m))[c] <= 1
         /\ Sent(Filled(q, m))[c] = 0 => c < q \/ (c = q /\ 0 < m /\ since + 1 <= m)
<1> USE PageAssumption, TimingAssumption DEF PageTypeOK, TypeOK, Ports, Elements, Oldest
<1> DEFINE s == Sent(Filled(q, m))[c]
<1>1. wire[c] \in 0..Oldest /\ since \in Nat /\ port \in 0..PortCount /\ pos \in Elements
  BY DEF PageInv
<1>2. wire[c] = 0 => c < q \/ (c = q /\ 0 < m /\ since + 1 <= m)
  <2> SUFFICES ASSUME wire[c] = 0 PROVE c < q \/ (c = q /\ 0 < m /\ since + 1 <= m)
    OBVIOUS
  <2>1. c < port \/ (c = port /\ 0 < pos /\ since <= pos)
    BY DEF PageInv, ConvertIsAhead
  <2>2. CASE c < port
    BY <1>1, <2>2
  <2>3. CASE c = port /\ 0 < pos /\ since <= pos
    <3>1. work # 0
      BY <2>3 DEF PageInv, ConvertIsDone
    <3>2. QED
      BY <1>1, <2>3, <3>1 DEF Progress
  <2>4. QED
    BY <2>1, <2>2, <2>3
<1>3. CASE flight > 0 /\ IsData(c, since)
  <2>1. since \in Elements
    BY <1>1, <1>3, RowsHaveElements
  <2>2. s = IF Written(c, since, q, m) THEN 0 ELSE 1
    BY <1>3, <2>1, FilledRows DEF Sent
  <2>3. Written(c, since, q, m) => c < q \/ (c = q /\ 0 < m /\ since + 1 <= m)
    BY <1>1 DEF Written
  <2>4. wire[c] = 0 => Written(c, since, q, m)
    <3>1. since < RowLen(c) /\ RowLen(c) \in Nat
      BY <1>1, <1>3, RowsHaveElements
    <3>2. QED
      BY <1>1, <1>2, <3>1 DEF Written
  <2>5. QED
    BY <1>1, <2>2, <2>3, <2>4
<1>4. CASE ~(flight > 0 /\ IsData(c, since))
  <2>1. s = wire[c]
    BY <1>4 DEF Sent
  <2>2. QED
    BY <1>1, <1>2, <1>4, <2>1
<1>5. QED
  BY <1>3, <1>4
-----------------------------------------------------------------------------
(* A frame begins only when convert() of the last one is done.             *)
FrameBegins == FrameInTime \/ FrameByOther

LEMMA FrameFindsConvertDone ==
  ASSUME PageInv, FrameBegins
  PROVE  port = PortCount /\ pos = 0 /\ work' # 0
<1>1. work = 0 /\ work' \in 1..Budget
  BY Zenon DEF FrameBegins, FrameInTime, FrameByOther
<1>2. work' # 0
  BY <1>1, TimingAssumption
<1>3. QED
  BY <1>1, <1>2, Zenon DEF PageInv, ConvertIsDone

(* Which of them a step of the page is.                                    *)
LEMMA PageSteps ==
  ASSUME PageInv, PageNext
  PROVE  \/ ElementPasses /\ Quiet /\ since' # 0
         \/ ElementPasses /\ FrameInTime /\ since' = 0
         \/ FrameByOtherIRQ /\ FrameByOther /\ since' = 0 /\ Turn(page, wire)
         \/ PollInVain /\ UNCHANGED <<page, wire, port, pos>>
<1> USE DEF PageInv, PageTypeOK
<1>1. CASE ElementPasses
  <2>1. Quiet \/ FrameInTime
    BY <1>1, TimeSteps DEF ElementPasses
  <2>2. Quiet => since' # 0
    BY DEF Quiet, TypeOK
  <2>3. FrameInTime => since' = 0
    BY Zenon DEF FrameInTime
  <2>4. QED
    BY <1>1, <2>1, <2>2, <2>3
<1>2. CASE FrameByOtherIRQ
  <2>1. CASE FrameByOther
    <3>1. effectReady /\ since' = 0
      BY <2>1, Zenon DEF FrameByOther
    <3>2. QED
      BY <1>2, <2>1, <3>1 DEF FrameByOtherIRQ
  <2>2. CASE PollInVain
    <3>1. ~effectReady
      BY <2>2, Zenon DEF PollInVain
    <3>2. QED
      BY <1>2, <2>2, <3>1 DEF FrameByOtherIRQ
  <2>3. QED
    BY <1>2, <2>1, <2>2, OtherSteps DEF FrameByOtherIRQ
<1>3. QED
  BY <1>1, <1>2 DEF PageNext

(* The turn of the page.                                                   *)
LEMMA PageTurns ==
  ASSUME PageInv, FrameBegins, TypeOK',
         NEW rows \in [Ports -> [Elements -> 0..Oldest]], NEW sent \in [Ports -> 0..Oldest],
         \A c \in Ports : \A i \in Elements : IsData(c, i) => rows[c][i] = 0,
         Turn(rows, sent)
  PROVE  PageInv'
<1> USE DEF Oldest, Older
<1>1. /\ page' \in [Ports -> [Elements -> 0..Oldest]]
      /\ wire' \in [Ports -> 1..Oldest]
      /\ port' = 0 /\ pos' = 0
  BY DEF Turn
<1>2. PageTypeOK'
  BY <1>1, PageAssumption, TimingAssumption DEF PageTypeOK, Elements
<1>3. ConvertIsDone'
  <2>1. work' # 0
    BY FrameFindsConvertDone
  <2>2. 0 # PortCount /\ 0 < RowLen(0)
    BY PageAssumption, RowsHaveElements DEF Ports
  <2>3. QED
    BY <1>1, <2>1, <2>2 DEF ConvertIsDone
<1>4. PageIsFresh'
  <2> SUFFICES ASSUME NEW c \in Ports, NEW i \in Elements, IsData(c, i)
               PROVE  page'[c][i] = IF Written(c, i, port', pos') THEN 0 ELSE 1
    BY DEF PageIsFresh
  <2>1. page'[c][i] = 1
    BY DEF Turn
  <2>2. ~Written(c, i, port', pos')
    BY <1>1 DEF Written, Ports, Elements
  <2>3. QED
    BY <2>1, <2>2
<1>5. ConvertIsAhead'
  BY <1>1 DEF ConvertIsAhead
<1>6. QED
  BY <1>2, <1>3, <1>4, <1>5 DEF PageInv

LEMMA PageInvStep == PageInv /\ TypeOK' /\ [PageNext]_pageVars => PageInv'
<1> SUFFICES ASSUME PageInv, TypeOK', [PageNext]_pageVars PROVE PageInv'
  OBVIOUS
<1>1. CASE FrameByOther /\ Turn(page, wire)
  <2>1. FrameBegins
    BY <1>1, Zenon DEF FrameBegins
  <2>2. \A c \in Ports : \A i \in Elements : IsData(c, i) => page[c][i] = 0
    <3> SUFFICES ASSUME NEW c \in Ports, NEW i \in Elements, IsData(c, i) PROVE page[c][i] = 0
      OBVIOUS
    <3>1. port = PortCount
      BY <2>1, FrameFindsConvertDone
    <3>2. Written(c, i, port, pos)
      BY <3>1, PageAssumption, RowsHaveElements DEF Written, Ports, Elements
    <3>3. QED
      BY <3>2 DEF PageInv, PageIsFresh
  <2>3. page \in [Ports -> [Elements -> 0..Oldest]] /\ wire \in [Ports -> 0..Oldest]
    BY DEF PageInv, PageTypeOK
  <2>4. QED
    BY <1>1, <2>1, <2>2, <2>3, PageTurns
<1>2. CASE ElementPasses /\ ((Quiet /\ since' # 0) \/ (FrameInTime /\ since' = 0))
  <2>1. PICK q \in port..PortCount, m \in Elements :
          /\ Progress(q, m)
          /\ IF since' = 0
             THEN Turn(Filled(q, m), Sent(Filled(q, m)))
             ELSE page' = Filled(q, m) /\ wire' = Sent(Filled(q, m)) /\ port' = q /\ pos' = m
    BY <1>2 DEF ElementPasses
  <2>2. q \in 0..PortCount /\ port <= q
    BY DEF PageInv, PageTypeOK
  <2>3. Filled(q, m) \in [Ports -> [Elements -> 0..Oldest]]
    BY <2>1, <2>2, FilledRows
  <2>4. Sent(Filled(q, m)) \in [Ports -> 0..Oldest]
    <3>1. \A c \in Ports : Sent(Filled(q, m))[c] \in 0..Oldest
      BY <2>1, <2>2, SentData
    <3>2. QED
      BY <3>1 DEF Sent
  <2>5. CASE FrameInTime /\ since' = 0
    <3>1. work = 0 /\ port = PortCount /\ pos = 0 /\ FrameBegins
      BY <2>5, FrameFindsConvertDone, Zenon DEF FrameBegins, FrameInTime
    <3>2. q = PortCount /\ m = 0
      BY <2>1, <3>1 DEF Progress
    <3>3. ASSUME NEW c \in Ports, NEW i \in Elements, IsData(c, i)
          PROVE  Filled(q, m)[c][i] = 0
      <4>1. Written(c, i, q, m)
        BY <3>2, <3>3, RowsHaveElements DEF Written, Ports, Elements
      <4>2. QED
        BY <2>1, <2>2, <3>3, <4>1, FilledRows
    <3>4. QED
      BY <2>1, <2>3, <2>4, <2>5, <3>1, <3>3, PageTurns
  <2>6. CASE Quiet /\ since' # 0
    <3>2. since' = since + 1 /\ work' = IF work = 0 THEN 0 ELSE work - 1
      BY <2>6, Zenon DEF Quiet
    <3>3. page' = Filled(q, m) /\ wire' = Sent(Filled(q, m)) /\ port' = q /\ pos' = m
      BY <2>1, <2>6
    <3>4. PageTypeOK'
      BY <2>2, <2>3, <2>4, <3>3 DEF PageTypeOK
    <3>5. ConvertIsDone'
      <4>1. work \in Nat
        BY TimingAssumption DEF PageInv, PageTypeOK, TypeOK
      <4>2. work' = 0 => q = PortCount
        BY <2>1, <3>2, <4>1 DEF Progress, PageInv, ConvertIsDone
      <4>3. IF q = PortCount THEN m = 0 ELSE m < RowLen(q)
        BY <2>1 DEF Progress, PageInv, ConvertIsDone
      <4>4. QED
        BY <3>3, <4>2, <4>3 DEF ConvertIsDone
    <3>6. PageIsFresh'
      BY <2>1, <2>2, <3>3, FilledRows DEF PageIsFresh
    <3>7. ConvertIsAhead'
      BY <2>1, <2>2, <3>2, <3>3, SentData DEF ConvertIsAhead
    <3>8. QED
      BY <3>4, <3>5, <3>6, <3>7 DEF PageInv
  <2>7. QED
    BY <1>2, <2>5, <2>6
<1>3. CASE PollInVain /\ UNCHANGED <<page, wire, port, pos>>
  BY <1>3 DEF PollInVain, PageInv, PageTypeOK, TypeOK, ConvertIsDone, PageIsFresh, ConvertIsAhead
<1>4. CASE UNCHANGED pageVars
  BY <1>4 DEF pageVars, timing, PageInv, PageTypeOK, TypeOK, ConvertIsDone, PageIsFresh, ConvertIsAhead
<1>5. QED
  BY <1>1, <1>2, <1>3, <1>4, PageSteps

LEMMA PageInvInit == PageInit /\ TypeOK => PageInv
<1> SUFFICES ASSUME PageInit, TypeOK PROVE PageInv
  OBVIOUS
<1> USE PageAssumption, TimingAssumption DEF PageInit, Elements, Oldest, Ports
<1>1. PageTypeOK
  BY DEF PageTypeOK
<1>2. ConvertIsDone
  BY DEF ConvertIsDone
<1>3. PageIsFresh
  <2> SUFFICES ASSUME NEW c \in Ports, NEW i \in Elements, IsData(c, i)
               PROVE  page[c][i] = IF Written(c, i, port, pos) THEN 0 ELSE 1
    BY DEF PageIsFresh
  <2>1. Written(c, i, port, pos)
    BY RowsHaveElements DEF Written
  <2>2. QED
    BY <2>1
<1>4. ConvertIsAhead
  BY DEF ConvertIsAhead
<1>5. QED
  BY <1>1, <1>2, <1>3, <1>4 DEF PageInv

(* The page is as old as convert()'s progress says and convert() stays     *)
(* ahead of the channels, for any lengths and any pace of the work.        *)
THEOREM PageSafety == PageSpec => []PageInv
BY PageInvInit, PageInvStep, PageTiming, PTL DEF PageSpec

(* prepare() (ledpwm.cpp:114) in place of a second page costs at most one  *)
(* seam in a transmission, never a step back.                              *)
THEOREM PicturesInOrder == PageSpec => PicturesStayInOrder
<1>1. PageInv /\ [PageNext]_pageVars
        => [\A c \in Ports : wire'[c] <= IF since' = 0 THEN Older(wire[c]) ELSE wire[c]]_pageVars
  <2> SUFFICES ASSUME PageInv, PageNext, NEW c \in Ports
               PROVE  wire'[c] <= IF since' = 0 THEN Older(wire[c]) ELSE wire[c]
    OBVIOUS
  <2>1. wire[c] \in 0..Oldest
    BY DEF PageInv, PageTypeOK
  <2>2. CASE since' = 0 /\ Turn(page, wire)
    <3>1. since' = 0 /\ wire'[c] = Older(wire[c])
      BY <2>2 DEF Turn
    <3>2. QED
      BY <2>1, <3>1 DEF Older, Oldest
  <2>3. CASE ElementPasses
    <3>1. PICK q \in port..PortCount, m \in Elements :
            /\ Progress(q, m)
            /\ IF since' = 0
               THEN Turn(Filled(q, m), Sent(Filled(q, m)))
               ELSE wire' = Sent(Filled(q, m))
      BY <2>3 DEF ElementPasses
    <3>2. q \in 0..PortCount /\ port <= q
      BY DEF PageInv, PageTypeOK
    <3>3. Sent(Filled(q, m))[c] \in 0..Oldest /\ Sent(Filled(q, m))[c] <= wire[c]
      BY <3>1, <3>2, SentData
    <3>4. CASE since' = 0
      <4>1. wire'[c] = Older(Sent(Filled(q, m))[c])
        BY <3>1, <3>4 DEF Turn
      <4>2. QED
        BY <2>1, <3>3, <3>4, <4>1 DEF Older, Oldest
    <3>5. CASE since' # 0
      BY <3>1, <3>3, <3>5
    <3>6. QED
      BY <3>4, <3>5
  <2>4. CASE UNCHANGED wire
    BY <2>1, <2>4 DEF Older, Oldest
  <2>5. QED
    BY <2>2, <2>3, <2>4, PageSteps
<1>2. QED
  BY <1>1, PageSafety, PTL DEF PageSpec, PicturesStayInOrder

(* convert() rewrites all data of all ports between two transfers          *)
(* (leds.cpp:146), so nothing older than the last picture is sent.         *)
THEOREM NothingOld == PageSpec => NothingOldIsSent
<1>1. PageInv /\ [PageNext]_pageVars
        => [\A c \in Ports : flight > 0 /\ IsData(c, since) /\ phase' # phase
              => wire'[c] <= IF since' = 0 THEN Older(1) ELSE 1]_pageVars
  <2> SUFFICES ASSUME PageInv, PageNext, NEW c \in Ports, flight > 0, IsData(c, since), phase' # phase
               PROVE  wire'[c] <= IF since' = 0 THEN Older(1) ELSE 1
    OBVIOUS
  <2>1. ElementPasses
    BY DEF PageNext, FrameByOtherIRQ, OtherIRQHandler
  <2>2. PICK q \in port..PortCount, m \in Elements :
          /\ Progress(q, m)
          /\ IF since' = 0
             THEN Turn(Filled(q, m), Sent(Filled(q, m)))
             ELSE wire' = Sent(Filled(q, m))
    BY <2>1 DEF ElementPasses
  <2>3. q \in 0..PortCount /\ port <= q
    BY DEF PageInv, PageTypeOK
  <2>4. Sent(Filled(q, m))[c] \in 0..Oldest /\ Sent(Filled(q, m))[c] <= 1
    BY <2>2, <2>3, SentData
  <2>5. CASE since' = 0
    <3>1. wire'[c] = Older(Sent(Filled(q, m))[c])
      BY <2>2, <2>5 DEF Turn
    <3>2. QED
      BY <2>4, <2>5, <3>1 DEF Older, Oldest
  <2>6. CASE since' # 0
    BY <2>2, <2>4, <2>6
  <2>7. QED
    BY <2>5, <2>6
<1>2. QED
  BY <1>1, PageSafety, PTL DEF PageSpec, NothingOldIsSent
=============================================================================
