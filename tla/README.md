# A verification project for the airpusher sign

The repository is the firmware of an LED sign: an NXP i.MX RT1062 (Teensy 4)
drives five strips of WS2816 and a ring of WS2812 LEDs through six DMA-fed PWM
pins, ninety times a second. (A USB serial port is configured, but `main` never
starts it.)
The program proper is about 2 500 lines of C++ in `src/MCUXpresso/source`; the rest
is NXP's SDK, CMSIS and generated configuration.

This directory holds TLA+ models of that program, the TLC configurations that
check them on small instances, and TLAPS proofs for all values of the constants.
File names without a directory are files of `src/MCUXpresso/source`.

- [Inventory](#inventory)
- [Modules and what they stand for](#modules-and-what-they-stand-for)
- [Runs](#runs)
- [Fairness](#fairness)
- [Proofs](#proofs)
- [What was found](#what-was-found)
- [What is not modelled](#what-is-not-modelled)
- [Plan](#plan)

## Inventory

There is one thread, `sign_entry` (sign.cpp), and interrupts: GPT1 and GPT2 (the
timers of the timeline) and six DMA channels, one per LED port. Everything they
share is a plain global, of which none is declared volatile, or a register; they are read and
written without locks.

| part | state | operations | talks to |
|---|---|---|---|
| system clock, timeline.cpp 36-42, 243-253, 286-307 | GPT1's `CNT` and flag, `systemSeconds` | `GPT1_IRQHandler`, `SystemTime`, `FastSystemTime`, the wait of sign.cpp:18 | every caller of `SystemTime` |
| frame pacing, timeline.cpp 44-50, 258-284, 309-329, sign.cpp 21-39 | `effectReady`, `idleReady`, `backgroundReady`, `frameCount` | `GPT2_IRQHandler`, the three `Check...AndClear`, WFI | sign_entry's loop; every interrupt ends WFI |
| frame timing, sign.cpp 21-39, ledpwm.cpp 74-103 | time since the last tick and transfer, the DMA in flight | a frame, a tick | ties pacing and driver together |
| timeline, timeline.cpp 100-236, timeline.h | an intrusive list `head`/`next`; `time`, `active` of each span | `Add`, `Remove`, `ProcessInterval`, `ProcessEffect`, `TopEffect`, `Below` | calls the spans' start, calc, commit and done callbacks, which call back into it |
| effects, effects.cpp 522-745 | `scheduled_effect`, `current_effect`, `previous_effect`, `switch_time`, `active` of each effect | `effectSwitcher`, `mainEffect.calcFunc` with its blend, `glowRepeater`, `glowEffect` | the clock, the timeline, `Leds` |
| LED driver, ledpwm.cpp, ledpwm.h | pin mux, ERQ, SADDR, CITER, `MCTRL`, `currentPage`, `pwmBuffer` | `init`, `prepare`, `transfer`, `DMA_IRQHandler` | eDMA and FlexPWM; `Leds::convert` calls `prepare` |
| Leds, leds.cpp | the colours of up to 158 LEDs on each of six ports | `setCol`, `get`, `convert` | effects write it, `convert` fills the driver's page |
| colour, vector, easing, random | the gradients' tables, constant; random: four words | pure functions | effects |
| USB CDC, usb_device_interface_0_cic_vcom.c | attach and transaction flags, the receive and send buffers | generated; nothing calls `BOARD_InitPeripherals` or `USB_DeviceTasks`, so it never runs | |

What is hard about each, and what makes it correct:

- **Clock.** `SystemTime` is two loads; the compiler picks their order, and the
  timer's restart and its interrupt may fall anywhere around them. A reading must
  stay within a second, must not fall back further than that, and the callers, who
  subtract and compare readings, must live with it.
- **Pacing.** Flags are tested and cleared in two accesses; WFI is entered
  without a last look at the flag, so a tick handled during a frame, or after a poll
  in vain (sign.cpp:30) and before WFI (line 22), does not end it. No tick may be lost
  for ever, none of the slow ticks
  overwritten, and their rhythm must survive the wrap of `frameCount`.
- **Timing.** The DMA of a frame is in flight for 9.92 of the 11.11 ms
  between two ticks. A frame that starts late, on another interrupt, shortens the
  distance to the next: `transfer` must not rearm a channel in flight. What a tick
  that is slept through costs must be bounded.
- **Timeline.** A list is changed while it is walked, by the walk itself and by
  callbacks; decisions are taken by several readings of a clock that may fall back.
  No span may be lost or started twice, and every frame needs a background.
- **Effects.** An effect's start and end are decided by comparing the clock with
  `switch_time`. Nothing may be painted that was not started, nothing may stay
  started after it was replaced, and the picture should not jump.
- **Driver.** Until its interrupt is taken a channel goes on into its next
  loop, and `transfer` resets SADDR but not CITER; `MCTRL` is shared by the ports of
  a PWM module and changed by load and store around their interrupts. Each
  frame must go out whole and alone, and no armed channel may lose its clock.
- **Page.** `currentPage` is always 0, so `prepare` writes the rows the channels
  are sending. A frame may be torn; it must not go back to an older picture, nor be torn
  more than once.
- **Conversion.** The bytes of all ports go through one static array, and nothing
  checks the counts that the tables add up to against the sizes of array and row. Every
  LED must get its own colour, and nothing may be sent around the data.
- **Gradients.** The index behind the last entry is masked to the first. The colours
  must be those between the stops, without an edge where a position changes its sign
  or passes a whole number. The stops of effects.cpp lie between the entries, so that
  the table cuts their corners.

`PROJECT.json` lists the hazards at their lines.

## Modules and what they stand for

Constants keep the names of the code where it has them. Every module has an
`Init`, one action per handler or per access that another actor can fall between,
`Next`, `Spec` and its properties, with a type invariant where types can go wrong. The operators marked
`Bug:` are not part of the specification: each is the definition below it with
a plausible mistake, and putting it in that definition's place breaks the
property `PROJECT.json` names.

**SystemClock** has GPT1 (`Count`, `Restart`), its handler and a reading as two
actions in either order (`SecondsFirst`, `CountSecond`, and the reverse). Times are
in counts: `Value(s, c) = s * OCR + c` is `FastSystemTime`, and `SystemTime` times
`OCR`. Time may not pass a deadline: a pending interrupt is taken within
`ServiceDelay` counts and the second load follows within `ReadDelay`, and
`ServiceDelay + ReadDelay < OCR`. `started` is the end of sign_entry's wait.
`highest`, `readAt`, `countSecond` and `gap` are history.

**BoundedClock** is what callers are promised: real time moves on, and a reading is
within `Skew` of it. `SystemClock` implements it with the skew of a second plus the time
of a reading.

**FramePacer** has the loop as a program counter: the way to WFI (`EnterWFI`), WFI, the
three polls, test and clear of `effectReady` apart, and the frame. GPT2's handler and any
other handler may come before each of them. Only one that comes in WFI ends it: after
a frame and after a poll in vain the loop is before `EnterWFI`, and a tick handled there
sets the flag and is slept through. `sinceIdle` and `sinceBackground` are history.

**FrameTiming** puts the loop, GPT2 and the DMA on one clock: `TimePasses` is a
unit of time, which may end with an interrupt of GPT2 or of a channel, and
`OtherIRQHandler`, GPT1 or another of the six channels, ends WFI at any time. `work` is what
is left of the frame's processing, `flight` of the DMA of one channel, which may be any of them. A poll that finds nothing takes
less than a unit; `polling` says that there was one in this unit, so that a tick at its end
may come before WFI and be slept through (`Missed`), as it may if the channel's own
interrupt comes just before it. A tick that comes between test and clear of
`effectReady` is one tick with that which the frame serves, and is taken as such
here. Test and clear apart, and each access that polls, are FramePacer's.

**LedsPage** extends it with the page of `pwmBuffer`: a unit of time is an element of the
PWM, 1.25 us, in which each channel in flight sends the next element of its row (`Sent`)
and `convert` gets on by any number of elements and rows (`Progress`). The one thing
assumed of its speed is that inside `prepare` it writes an element in less time than
the PWM sends one, a handful of instructions of a 600 MHz core. Elements carry the age of
the picture they belong to: 0 for the frame under way, and `Turn`, the transfer of
the next, makes everything one older.

**Timeline** has the list as `head` and `next`, and `Process` as the code has it: its
locals `p`, `i`, `snapshot` and `collected`, one action for the start of a span and one
for its expiry, and `Collect` at the end. The three calls of `TopEffect` in
sign_entry are `Valid`, `Calc` and `Commit`, and each call that reads the clock picks its
own reading. `Chain` walks the pointers, so a lost or doubled span shows. A client
may add and remove spans between frames, as the interface invites. A frame's readings
are not below a second (`Readings`): sign_entry has waited for one to say so, and the
interrupt that counts the first second is taken before the first WFI can end. The times that `Effects::init` stores
(effects.cpp:576, 615) are readings too, but of the first second, in which init runs.

**Schedule** is the timeline without pointers: a set of scheduled spans, and those of them
that are started. `Timeline` implements it with `scheduled <- Scheduled`.

**Effects** has the switch, the blend and the plain painting of `mainEffect.calcFunc`, and
`effectSwitcher`. A reading may be what `SystemClock` shows it may be
(`Readings`): within a second of the truth, no more than a second behind the
highest, and no further ahead of the last than the time gone by and a second. The two
readings of the frame of the switch are apart.

**LedsPWMDMA** has a channel as `Element`, one minor loop of the eDMA; its
interrupt; and `transfer` access by access, `MCTRL |= RUN` as a load and a
store. `Element` also records what goes out on the wire: `sent` counts the elements of
data that went out in order since the port was armed, `junk` that anything else but
zeros did. `clean` says that the port was idle when it was armed. `init`'s outcome is
the initial state: everything armed at a buffer of zeros.

**LedsConvert** is the conversion without time: `ConvertPixel` puts the bytes of
the next LED into the static array, `Prepare` makes the row of the port from it,
`NextFrame` starts again with another picture. A byte is named by what it is, the
port, LED, picture, channel and position in the pixel, so that any mix-up shows. The
sizes are computed as the headers and `Leds::init` do.

**Gradient** has the table a gradient is made into at compile time (`Colors`), the three
look-ups with their mask, and an effect that colours LED after LED. Positions are
integers, `Steps` of them between two entries, and the arithmetic is exact. Stops may be at
any position, as those of effects.cpp are: 0.16 of 255 is four fifths of the way from entry 40
to entry 41. `Curve` and `Place` are the reference: the polygon through the stops,
repeated, mirrored or prolonged, without a table. `Corners` are the stops between two
neighbouring entries, where a mixture of the two leaves the polygon, and `Bend` how much
the slope changes there.

The `MC` modules give TLC its constants; the modules ending in `_proofs` hold the theorems
(those about `FrameTiming` are in `LedsPage_proofs`, which builds on them). `FrameTiming` has no run
of its own: `LedsPage` adds nothing to the conditions of its steps, and its properties are checked there. Time,
where a module has it, is bounded: `MaxRollovers`, `MaxTime`. In `FrameTiming`
it needs no bound.

One thing the models take for granted is not in the source. `systemSeconds`
(timeline.cpp:36) and `effectReady` (timeline.cpp:44) are shared with the interrupt handlers
and not volatile; `SystemClock` and `FramePacer` let every call of
`SystemTime` and `CheckEffectReadyAndClear` load them. Nothing obliges the compiler to. `__WFI`
(cmsis_gcc.h:909) is an `asm volatile` without a memory clobber, and the build is one of link-time
optimisation (CMakeLists.txt:11 and 39), in which a call into timeline.cpp is no barrier. A
loop that kept `effectReady` in a register would poll for ever in vain, one that kept
`systemSeconds` would never end its wait for the first second, and `EveryTickIsServed`, `WaitEnds`
and all that rests on them would be false. Whether the compiler does so has to be looked up in the
code it makes.

## Runs

| run | bounds | what it shows |
|---|---|---|
| `clock` | a second of 9 counts, delays of 2, three restarts | `ReadingOffByAtMostASecond`, `FallsBackAtMostASecond`: whatever falls between the loads. `JumpsAheadAtMostASecond`: two readings soon after each other are at most a second apart beyond the time gone by; only readings nearly a second apart can be a second behind and a second ahead. `ImplementsBoundedClock`. `WaitLastsASecond`, `WaitEnds` |
| `pacer` | 6 frames a second, an idle tick every 12, a background tick every 3, `frameCount` wraps at 31 | `NoTickIsOverwritten`, `TicksAreRegular`, and `EveryTickIsServed` |
| `pacer_idle` | `idleRate` as in the code | `IdleOnceAMinute`, an expected violation, see below |
| `timeline_app` | the firmware's spans; half seconds, up to 11 | `BackgroundIsPainted`, `NoFrameIsBlank`, `IntervalStartsOncePerTime`, `ExpiredEffectLeaves`, `DueIntervalStarts` |
| `timeline_client` | a finite effect, an infinite one, an interval that adds the former; any `Add` and `Remove` between frames, up to 4 | `ListIsSound`, `ImplementsSchedule` |
| `timeline_pair` | two finite effects, which the firmware does not have | `SpansAreLostOnlyByNeighbours`: a walk loses spans only when two neighbours expire in it |
| `driver` | two ports of one PWM module; one element of padding, of data and of tail; one late element | `WholeFrameIsSent`, `OnlyOwnDataIsSent`, `ArmedPortIsDriven`, `ChannelsFinish` |
| `page` | three ports of 6, 2 and 4 elements with a padding of 1, a period of 9, a flight of 8, work up to 19 | `AlignedFramesKeepUp`: after a frame that began on a tick and whose work fits in a period, the next begins on the next tick, with idle channels, unless a poll in vain was under way when the tick came. `OnGridFramesLand`: however long the work, what a frame on a tick sends is not cut short. `FrameGapIsBounded`: from the end of a frame's work the next is less than a period away; less than two if its tick was slept through after a poll in vain. `PicturesStayInOrder`: in a transmission the data changes from one picture to the next at most once. `NothingOldIsSent` |
| `convert` | the sign at an eighth of its size: strips of 17, 7 and 5 LEDs, a ring of 20, rows of 1040 elements; two pictures | `WritesStayInside`, `EveryLedGetsItsColour`, `NothingAroundTheLeds` |
| `convert_bytes` | as `convert` | `BytesAreAsDocumented`, an expected violation, see below |
| `gradient` | 8 entries, 4 positions apart, from three tables below zero to three above; four gradients shaped as those of effects.cpp, with stops mostly between the entries | `ColorIsNearTheCurve`: a look-up is on the polygon, or off it by no more than the corner the table cuts. `PictureHasNoEdges` |
| `effects` | three effects; half seconds: blend 4, skew 2, interval 11, up to 34 | `PaintedAreStarted`, `NoEffectLeaks`, `SharesMoveSmoothly`, `PreviousIsDone` |

`timeline_app` and `effects` also check their `TypeOK`; the other modules' type
invariants are proved. `timeline_app` and `effects` stop at `MaxTime` without deadlock: frames go on.

Why the bounds are enough. *clock:* what matters is the order of restart, interrupt and
loads, and two restarts cannot meet in one reading; a second of nine counts keeps
the delays well below it, and three restarts let readings of different seconds
follow each other. The bound ends time, it does not change a step. *pacer:* 31 is
no multiple of 12 or 3, as 2^32 is none of 2700. *page:* the flight
is shorter than the period by one, in the hardware by a tenth; work up to 19 covers frames that
miss no, one and two ticks, and overrun; the middle port is shorter than both others, so `convert` leaves
a row before and after its channel has, and three ports give a first, a middle and a last.
*gradient:* the mask, the ends and both signs are met several times; stops lie on entries, in the
middle between two and on either side of it, and as close as an entry apart; the size of the
table is a parameter of the same operators. *convert:* the array is rounded up and the
ports are long, short and full as in the sign, whose own table the MC module shows to satisfy
the assumption of the theorems; pictures are told apart modulo two, so that a row of the
last one shows.
*timeline:* the walk treats each span by its neighbours; three or four spans give each
its turn at head, middle and end. Time covers two starts of every interval and two glows.
*driver:* ports interact only through the `MCTRL` of their module, a read-modify-write
that needs two parties; the padding only has to be no shorter than the lateness,
and the lateness of more elements repeats that of one. *effects:* three switches
and their blends, and a third effect, which a leak would need; the firmware has two
(effects.h:79).

How the constants stand to the hardware. `MaxLate <= Front` and `MaxLate <= Tail` in
`LedsPWMDMA`: a row has 7936 elements of 1.25 us, 128 of them before the data
(160 us) and, behind the 134 LEDs of the longest strip, 1376 after it (1.7 ms); no
handler or masked section of this firmware comes near the former. `blend_duration + 2 * Skew + 2 < interval` in
`Effects`: two seconds, one second, and 120 seconds to the first switch and 1200
between later ones. `FrameTiming`'s
`Flight < Period`: 9.92 and 11.11 ms. `Gradient`'s stops at least an entry apart: the closest of
effects.cpp, 0.50 and 0.51 of `half_white_gradient`, are two and a half. That the work of a frame is below a period, which
`AlignedFramesKeepUp` has as its condition, is a property of the compiled code
that these models do not establish; the other properties hold without it.

## Fairness

- `SystemClock`: the timer counts, a pending interrupt is taken, the reader's two
  loads are executed. All three are hardware or straight-line code with interrupts
  enabled.
- `FramePacer`: GPT2 is periodic (its interrupt comes again and again), and the loop
  takes its steps once WFI has ended. No fairness of other interrupts is assumed:
  `EveryTickIsServed` does not need them.
- `Timeline`, `Effects`: frames follow each other, which `FramePacer` shows of the
  loop, and time passes, up to `MaxTime`. The leads-to properties name a condition
  that is reached before that bound; a frame runs after time has stopped too,
  so what is due by then is done. Nothing is assumed about clients.
- `LedsPWMDMA`: the PWM clocks a running channel, a pending interrupt is taken, and a
  `transfer` that has begun is finished. That a frame begins at all is not assumed.
- `FrameTiming`, `LedsPage`, `LedsConvert`, `Gradient` have safety properties only and no
  fairness.

## Proofs

Each is checked by TLAPS for every value of the constants that the named assumption
of its module allows.

**SystemClock_proofs** (`ClockAssumption`: the delays add up to less than a second).
`ClockInv` is the inductive invariant. "A reading is off by at most a second" is not
inductive: nothing in it says what a half-finished reading may still become.
`AfterSeconds` says that loaded seconds are either those of the timer or one short, and
then early in the new second; `AfterCount` that the loaded count and `gap` still determine the
timer's position, through at most one restart; `PendingIsRecent` that a pending
interrupt is within its deadline. For the fall-back, `ValueIsNotFarAhead` bounds the
highest reading by the end of the current second, and by the real time while the
interrupt is pending: a reading ahead of a second that has not been counted would
have needed it counted. The results are `ReadingsAreClose`, `FallsBack`,
`WaitIsNotShort`, and `Refinement`: each step of the clock is a step of `BoundedClock`
or leaves its two variables alone (a restart does, as a count of `OCR` and the
start of the next second are the same instant). `JumpsAhead` needs to know of the reading
before: `LastReading` says that it lacked no second, or was made so soon after a restart
that one which does not lack the second and follows soon enough is still within
the bound, and that a reading which has loaded `CNT` meanwhile is no older.

**FramePacer_proofs** (`PacerAssumption`: the rates are positive). `PacerInv` adds to the
types what the loop has cleared on its way (`Cleared`), and that the frames since a tick
are `frameCount` modulo its rate, until `frameCount` has wrapped (`InRhythm`). Three
lemmas on remainders carry it: `TicksAreServed` and `TicksRegular`, for any width of
`frameCount`.

**LedsPage_proofs** has two parts. *FrameTiming* (`TimingAssumption`: the flight is shorter than
the period). Two invariants: `Aligned` (`Landed`: when a frame that began on a tick may be
followed by another, its DMA is done, and while it is not it fits its phase; `Punctual`: if
its work fits, no tick waits while it works) for `FramesKeepUp` and `FramesLand`; `Gap` for
`GapIsBounded`: behind the work of a frame no more time has gone by than `phase` says, and a
period more if a tick waits. Work that took longer than a period leaves a tick waiting
too, but that began before the work ended, and the next interrupt serves it. *LedsPage* (`PageAssumption`: the rows fit the flight). `PageInv` says that
the data of the page is as old as `convert`'s position says (`PageIsFresh`), and that
`convert` is ahead of every channel that has sent something of the picture under way
(`ConvertIsAhead`). The second is what makes the order inductive: a channel may
overtake `convert` only before it has met it. `PageTiming` takes `FrameTiming`'s types
over, because the page refines it. Results: `PageSafety`, `PicturesInOrder`, `NothingOld`, for
any ports and lengths and any length of work.

**LedsConvert_proofs** (`LayoutAssumption`: no strip has more LEDs than a port may). `ConvertInv`
says where `convert` is and what that makes of `ptr`, what the array holds up to it, that the
rows before it are complete (`RowIsRight`), and that every row is free of pulses
around its own data (`RowIsClean`), which the next picture relies on, as
`prepare` does not touch the rest of a row. Results: `Conversion`, `StaysInside`,
`OwnColours`, `QuietAround`, for any layout that fits.

**LedsPWMDMA_proofs** (`DriverAssumption`). `DriverInv` says how far `transfer` is
with the port it arms (`PinIsTaken`), that only armed channels interrupt (`Requested`), and that
the `MCTRL` it has loaded still has the RUN bits of the ports in flight when it stores it
(`NoClockIsLost`): a handler between the two only clears the bit of a port that it
disarms. `PortsAreDriven` follows, for any number of ports and any assignment to modules
in which no two share a submodule, the condition the code asks for at ledpwm.cpp:55.
What goes out on the wire needs `DataInv`: a channel is at most `MaxLate` elements into its
next loop when it is disarmed (`LoopIsNearlyWhole`), a port that was idle is armed at the
start of its row (`ArmedFromTheStart`), and from there SADDR, CITER and what was sent move
together, also through the start of the next loop (`SendsInOrder`). `OwnDataOnly` and
`WholeFrames` follow, for any paddings and lateness with `MaxLate` below both.

**Effects_proofs** (`EffectsAssumption`: switches are further apart than a blend and twice
the error of the clock). `EffectsInv` bounds the last reading by the times gone by
(`ClockInv`), keeps the painted effect started, and the one before it until a reading has
passed the blend (`StartedInv`), and says that a switch is noticed within its frame and finds no
other effect started (`SwitchInv`). Results: `TypeCorrect`, `Started`, `NoLeaks`, and with an
invariant on the shares of a picture, `Smoothness`: all the safety of the module.

**Timeline_proofs** (`TimelineAssumption`; `FirstListAssumption`: the list that `Effects::init`
leaves has no cycle, and what is not on it is reset). It has five parts.

1. *Lists*, of pointers alone. `Chain` is a recursive function, and the prover has no
   induction over it; each fact is shown by the least number for which it would fail
   (`SmallestOf`, from the well-foundedness of the numbers). A function without
   cycles is one in which every set of spans has a member that leads out of it (`Acyclic`). From that:
   the walk ends within as many steps as there are spans (`WalkEnds`), what is on the list
   is the least set that has its head and is closed under its pointers (`OnListIsClosed`,
   `OnListIsLeast`), and every member but the first has one member before it (`OneSpanBefore`).
   Everything after speaks of that set, never of the steps of a walk again. `PushedList`
   and `UnlinkedList` say what adding a span and bridging one make of it.
2. *Types*, for any spans, and `IntervalsStartOnce` for spans `LikeTheFirmware`: no other code
   touches them, intervals move on by a positive time, and callbacks add effects only.
   `StartedForInv`: an interval is active from its start to its rescheduling, and while it is
   not, its time lies behind the one it started for last; a walk decides start and expiry by
   one reading, so what is over has been started.
3. *The walk*, for any spans, any number of effects that end, and clients. `WalkInv`: the
   pointers have no cycle, `p` is the span before `i` or none, and until two neighbours have been
   collected (`Lost`) both are on the list and nothing that was collected is. "`i` is on the list" alone is not inductive: a
   collected `p` may have been unlinked, and what is stored through it is lost.
   That happens only if `p`, collected, and `i`, being collected, were neighbours, and neighbours
   stay neighbours. Results: `WalksEnd`, `LostOnlyByNeighbours`.
4. *The list is sound*, if at most one effect ends (`OneEffectEnds`). Then nothing is lost,
   and `SoundInv` follows: what is off the list is reset except what waits for its done callback
   (`OffListIsReset`), and that, like a span about to expire, was started (`CollectedAreActive`,
   `DueHasStarted`). Results: `SoundList`, and `Refinement`: each step is a step of `Schedule`, in which
   there are no pointers, or a stutter. Without the hypothesis both are false: TLC
   refutes them for the spans of `timeline_pair`.
5. *No blanks*, if moreover an endless effect is on the list from the beginning, is no client's to
   remove, and effects that end call what is below them (`HasBackground`). That span stays, with a
   time that was read in the first second, so that it shows whatever the clock reads after it; `FirstOf` finds it or one before it
   (`FirstOfFound`). Results: `Background`, `NoBlanks`.

`LikeTheFirmware`, `OneEffectEnds` and `HasBackground` are defined in `Timeline`; `MCTimeline` has TLC
evaluate them (`TheoremsApply`): the four spans of the firmware satisfy all three, those of
`timeline_client` the second.

**Gradient_proofs** (`GradientAssumption`: the stops go from 0 to 1, up and at least an entry at a time, their
colours differ by whole numbers per position; the table's size is a power of two). A position may be in
two segments of the polygon, at a stop, and both give it the same colour (`LinesMeet`), so that it does not
matter which one the constructor finds (`FoundSegment`) or `Curve` chooses (`CurveIs`). Between an entry and the
next the polygon is straight or has one corner, as the stops are an entry apart (`TwoEntries`). In the one
case a mixture of their colours is on its line (`MixedOnLine`); in the other it misses it, on either
side of the corner, by the change of slope times `a * b / Steps` at most, where the corner is `a` behind the one entry and `b`
before the next (`MixedAtCorner`, from `CutBefore` and `CutBehind`), and four times `a * b` is no more than
`(a + b)` squared (`QuarterOfBend`). At the
very end, where the mask wraps, the weight of the wrong entry is zero. `RepeatPlace`, `ReflectPlace` and
`ClampPlace` show that truncation and sign give the place that `Place` describes without them; that needs the
uniqueness of quotient and rest (`DivUnique`). Results: `NearTheCurve`; and `NoEdges`: two neighbouring entries
differ by no more than the steepest segment does in an entry (`EntriesAreClose`), which a corner between them does not
change, and neighbouring positions come to neighbouring places, or to the two ends of a table that is seamless.

Only model-checked: liveness (`EveryTickIsServed`, `WaitEnds`, `ExpiredEffectLeaves`,
`DueIntervalStarts`, `ChannelsFinish`, `PreviousIsDone`), which is out of the prover's
reach. Every invariant and every action property that a run checks, and both refinements, are
proved.

## What was found

- **The idle tick comes twice a minute** (run `pacer_idle`). timeline.h:51 says
  `idleRate = 30.0; // once a minute`; timeline.cpp:262 makes it every 2700 frames, and at
  ninety frames a second that is every thirty seconds.
- **A WS2812 is sent three bytes, not four** (run `convert_bytes`). leds.h:49 says
  `WS2816 has 6 bytes, WS2812 has 4`; `convertPixel` writes green, red and blue (leds.cpp:135-140).
  Arrays and rows are made for six bytes per LED, so nothing overflows either way.

Beside this, properties that hold but are narrower than one might think; each
module states them as they are:

- `SystemTime` is not monotonic. It may fall back by a second, and two readings
  may be two seconds further apart than the time between them.
- A tick that is handled while the loop works is not seen by the WFI that follows. Another
  interrupt has to come, GPT2's at the latest.
- So it is with a tick that is handled when another interrupt has made the loop poll in vain
  and it is on its way back to WFI: a frame that is in time may then be followed by one that begins up
  to a period late.
- The idle tick's rhythm breaks once when `frameCount` wraps, after 1.5 years.
- After a late DMA interrupt the next frame's loop is short, and its channel ends by reading
  from before its row: other ports have the zeros of a neighbour there, port 0
  whatever precedes `pwmBuffer`. All of it is after the LED data.
- The table of a gradient cuts the corners of its curve: stops lie between the entries, and the
  peak of `glow_wipe_gradient`, at 127.5 of 255, is not reached. It misses no
  more than a quarter of the change of slope.
- A picture may be torn: a port changes from the last picture to the new one once in a
  transmission, possibly within an LED. Each port does so at a place of its own.
- Two neighbouring effects that expire in the same walk cost the list a span; the firmware
  has only one effect that expires.
- If a reading was ahead, the blend ends early and may start again: the old effect is then
  painted after its end. The effects of the firmware keep no resources, so
  it does not matter to them.

## What is not modelled

- The colours: colour spaces, vectors, easing, the coordinates of the LEDs are
  floating-point arithmetic without state or control. So is what is lost when times of days
  are rounded to floats (effects.cpp:553). The pseudo-random generator: where
  its outcome matters (the next time of the glow) it is a choice.
- The data cache. `prepare` cleans half of each row only (ledpwm.cpp:142); `pwmBuffer` is
  in memory that is written back but not allocated on a write, and nothing reads it, so that
  no line of it should ever be in the cache. A model would assume just that.
- `FastSystemTimeCmp`, `TopInterval`: read only. `attack`, `decay`, `release` of a span are
  never read.
- Eight effects of effects.cpp that nothing calls.
- USB: `main` calls neither `BOARD_InitPeripherals` nor `USB_DeviceTasks`; the generated
  device and NXP's stack never run.
- The register set-up of `init`, board and start-up code: straight lines, whose outcome is
  the initial state of the models.
- NXP's drivers, CMSIS and gcem are vendored. They and the register definitions are about
  98 per cent of the repository's lines; a share of the whole repository says little about
  how much of the program, the 2 500 lines of `source`, is covered.

## Plan

1. *Done.* The clock, the pacing, the timing, the timeline and its schedule, the driver, the
   effects.
2. *Done.* The page shared by `prepare` and the channels; the conversion; the gradients.
3. *Done.* Proofs of all safety properties, the timeline's list and the gradients last.
4. *Open.* A composition of timeline and pacing would add states, and no question
   that the modules do not ask of each other through their assumptions: `Timeline`'s frames
   follow each other because of `EveryTickIsServed`, its and `Effects`' readings are those
   `SystemClock` allows, `LedsPage` extends `FrameTiming`, and `FrameTiming`'s `Flight` is the
   row that `LedsConvert` fills and `LedsPWMDMA` sends.
