------------------------------ MODULE Timeline ------------------------------
(***************************************************************************)
(* The timeline (timeline.cpp): an intrusive singly linked list of spans,  *)
(* walked twice a frame by Process, and read by Top and Below, which pick  *)
(* the span a frame is painted by (sign.cpp).  A walk calls the start and  *)
(* done callbacks of the spans it visits, and a start callback may add a   *)
(* span to the list that is being walked (glowRepeater in effects.cpp).    *)
(*                                                                         *)
(* Time is in units of a fraction of a second.  SystemTime may be a second *)
(* (Skew) off, see SystemClock, and every call reads it anew.  sign_entry  *)
(* has waited for the first second, whose interrupt is taken before the    *)
(* first WFI ends, so that no reading in a frame is below it.              *)
(***************************************************************************)
EXTENDS Integers, FiniteSets

CONSTANTS
  Spans,       \* the Span objects
  NoSpan,      \* the null pointer, and the type None span Top returns
  Forever,     \* the infinite duration
  Effects,     \* spans of type Effect; the others are of type Interval
  Duration,    \* Span::duration, Forever or a number
  Periods,     \* per interval, the amounts dis(gen) or interval may add to its time
  Spawns,      \* per span, the span its start callback adds, or NoSpan
  CallsBelow,  \* the effects whose calc callback calls below.Calc()
  Clients,     \* spans that other code adds and removes at will
  FirstHead, FirstNext, FirstTime,  \* the list Effects::init leaves
  Skew,        \* a second, by which a reading of the clock may be off
  MaxTime      \* bound of the model: time stops here

Finite == {s \in Spans : Duration[s] # Forever}

ASSUME TimelineAssumption ==
  /\ NoSpan \notin Spans /\ IsFiniteSet(Spans)
  /\ Effects \subseteq Spans /\ CallsBelow \subseteq Effects /\ Clients \subseteq Spans
  /\ Forever \notin Nat /\ Duration \in [Spans -> Nat \cup {Forever}]
  /\ Periods \in [Spans -> SUBSET Nat]
  /\ Spawns \in [Spans -> Spans \cup {NoSpan}]
  /\ \A s \in Effects : Spawns[s] = NoSpan
  /\ FirstHead \in Spans \cup {NoSpan}
  /\ FirstNext \in [Spans -> Spans \cup {NoSpan}]
  /\ FirstTime \in [Spans -> Nat]
  /\ MaxTime \in Nat /\ Skew \in 0..MaxTime

VARIABLES
  head, next, active, time,  \* Timeline::head, Span::next, Span::active, Span::time
  now,                       \* real time
  pc,                        \* where the frame is
  type,                      \* the argument of Process
  snapshot,                  \* its local `time'
  p, i,                      \* its local pointers
  collected,                 \* its array of expired effects
  painted,                   \* history: the spans whose calc callback ran in this frame
  committed,                 \* history: this frame was committed
  startedFor                 \* history: the time each interval was last started for

list    == <<head, next>>
locals  == <<type, snapshot, p, i, collected>>
history == <<painted, committed, startedFor>>
vars    == <<list, active, time, now, pc, locals, history>>

Readings == {at \in {now - Skew, now, now + Skew} : Skew <= at}

-----------------------------------------------------------------------------
(* The list as the code walks it.                                          *)

Length == Cardinality(Spans)

(* The span k pointers behind the first one. *)
Pointers(first, behind) ==
  LET C[k \in 0..Length] ==
        IF k = 0 THEN first
        ELSE IF C[k - 1] = NoSpan THEN NoSpan ELSE behind[C[k - 1]]
  IN  C

OnList(first, behind) == {Pointers(first, behind)[k] : k \in 0..Length} \ {NoSpan}

Chain     == Pointers(head, next)
Scheduled == OnList(head, next)

(* Somewhere every set of spans is left by its pointers. *)
Acyclic(behind) == \A X \in SUBSET Spans : X # {} => \E s \in X : behind[s] \notin X

(* Effects::init adds its spans, one by one, to an empty list. *)
ASSUME FirstListAssumption ==
  /\ Acyclic(FirstNext)
  /\ \A s \in Spans \ OnList(FirstHead, FirstNext) : FirstNext[s] = NoSpan

(* Bug: the type of the span is not looked at. *)
AnyType(s, t) == TRUE

OfType(s, t) == (s \in Effects) = (t = "Effect")

(* The condition of Top and Below. *)
Shows(s, t, at) ==
  /\ OfType(s, t)
  /\ time[s] <= at
  /\ Duration[s] = Forever \/ time[s] + Duration[s] > at

FirstOf(t, at, except) ==
  LET showing == {k \in 0..Length : Chain[k] \notin {NoSpan, except} /\ Shows(Chain[k], t, at)}
  IN  IF showing = {} THEN NoSpan
      ELSE Chain[CHOOSE k \in showing : \A j \in showing : k <= j]

Top(t, at) == FirstOf(t, at, NoSpan)

(* Bug: the context is not skipped. *)
BelowOrContext(context, t, at) == Top(t, at)

Below(context, t, at) == FirstOf(t, at, context)

-----------------------------------------------------------------------------
Init ==
  /\ head = FirstHead /\ next = FirstNext /\ time = FirstTime
  /\ active = [s \in Spans |-> FALSE]
  /\ now = Skew     \* sign_entry has waited for a second
  /\ pc = "wait" /\ type = "Interval" /\ snapshot = 0
  /\ p = NoSpan /\ i = NoSpan /\ collected = {}
  /\ painted = {} /\ committed = FALSE /\ startedFor = [s \in Spans \ Effects |-> -1]

TimePasses ==
  /\ now < MaxTime
  /\ now' = now + 1
  /\ UNCHANGED <<list, active, time, pc, locals, history>>

-----------------------------------------------------------------------------
(* Add pushes a span that is not on the list at its head; its time is set  *)
(* by the caller.  Remove unlinks it wherever it is.                       *)

Push(s) == head' = s /\ next' = [next EXCEPT ![s] = head]

(* Bug: a span on the list is added again. *)
AddAgain(s) ==
  /\ Push(s)
  /\ \E at \in Readings : time' = [time EXCEPT ![s] = at]
  /\ UNCHANGED <<active, now, pc, locals, history>>

Add(s) ==
  /\ s \notin Scheduled
  /\ Push(s)
  /\ \E at \in Readings : time' = [time EXCEPT ![s] = at]
  /\ UNCHANGED <<active, now, pc, locals, history>>

(* Bug: head is not moved on. *)
UnlinkBehindHead(s, before) ==
  IF before # NoSpan
  THEN next' = [next EXCEPT ![before] = next[s]] /\ UNCHANGED head
  ELSE UNCHANGED list

Unlink(s, before) ==
  IF before # NoSpan
  THEN next' = [next EXCEPT ![before] = next[s]] /\ UNCHANGED head
  ELSE head' = next[s] /\ UNCHANGED next

Before(s) == IF head = s THEN NoSpan ELSE CHOOSE b \in Scheduled : next[b] = s

(* Bug: the span stays active. *)
RemoveActive(s) ==
  /\ s \in Scheduled
  /\ head' = IF head = s THEN next[s] ELSE head
  /\ next' = [b \in Spans |-> IF b = s THEN NoSpan
                              ELSE IF b = Before(s) THEN next[s] ELSE next[b]]
  /\ UNCHANGED <<active, time, now, pc, locals, history>>

Remove(s) ==
  /\ s \in Scheduled
  /\ head' = IF head = s THEN next[s] ELSE head
  /\ next' = [b \in Spans |-> IF b = s THEN NoSpan
                              ELSE IF b = Before(s) THEN next[s] ELSE next[b]]
  /\ active' = [active EXCEPT ![s] = FALSE]
  /\ UNCHANGED <<time, now, pc, locals, history>>

Client(s) == pc = "wait" /\ s \in Clients /\ (Add(s) \/ Remove(s))

-----------------------------------------------------------------------------
(* Process(type): ProcessInterval, then ProcessEffect.                     *)

BeginWalk(t) ==
  /\ type' = t
  /\ \E at \in Readings : snapshot' = at
  /\ p' = NoSpan /\ i' = head /\ collected' = {}
  /\ pc' = "start"
  /\ UNCHANGED <<list, active, time, now>>

ProcessInterval ==
  /\ pc = "wait"
  /\ BeginWalk("Interval")
  /\ committed' = FALSE
  /\ UNCHANGED <<painted, startedFor>>

(* The start callback of i: glowRepeater schedules glowEffect, now, unless *)
(* it is still on the list.                                                *)
StartCallback(s) ==
  LET n == Spawns[s]
  IN  IF n # NoSpan /\ n \notin Scheduled
      THEN Push(n) /\ \E at \in Readings : time' = [time EXCEPT ![n] = at]
      ELSE UNCHANGED <<list, time>>

(* Bug: a span starts at its time or not at all. *)
IsDueExactly(s) == time[s] = snapshot /\ ~active[s]

IsDue(s) == time[s] <= snapshot /\ ~active[s]

StartSpan ==
  /\ pc = "start" /\ i # NoSpan
  /\ IF OfType(i, type) /\ IsDue(i)
     THEN /\ active' = [active EXCEPT ![i] = TRUE]
          /\ startedFor' = [s \in Spans \ Effects |-> IF s = i THEN time[i] ELSE startedFor[s]]
          /\ StartCallback(i)
     ELSE UNCHANGED <<active, startedFor, list, time>>
  /\ pc' = "expire"
  /\ UNCHANGED <<now, locals, painted, committed>>

(* Bug: only intervals end. *)
IsOverAtOnce(s) == Duration[s] = 0 /\ time[s] < snapshot

IsOver(s) == Duration[s] # Forever /\ time[s] + Duration[s] < snapshot

(* Bug: the interval keeps its time. *)
RescheduleNow(s) == UNCHANGED time

(* dis(gen), or the interval without its fuzz. *)
Reschedule(s) == \E d \in Periods[s] : time' = [time EXCEPT ![s] = @ + d]

(* An expired effect is unlinked and collected, an expired interval gets   *)
(* its next time; p becomes i whatever became of i.                        *)
ExpireSpan ==
  /\ pc = "expire"
  /\ IF OfType(i, type) /\ IsOver(i)
     THEN IF type = "Effect"
          THEN /\ Unlink(i, p)
               /\ collected' = collected \cup {i}
               /\ UNCHANGED <<active, time>>
          ELSE /\ Reschedule(i)
               /\ active' = [active EXCEPT ![i] = FALSE]
               /\ UNCHANGED <<list, collected>>
     ELSE UNCHANGED <<list, active, time, collected>>
  /\ p' = i
  /\ i' = next'[i]
  /\ pc' = "start"
  /\ UNCHANGED <<now, type, snapshot, history>>

OutOfScope == type' = "Interval" /\ snapshot' = 0 /\ p' = NoSpan /\ i' = NoSpan /\ collected' = {}

(* The end of a walk: what was collected leaves the list for good. *)
Collect ==
  /\ pc = "start" /\ i = NoSpan
  /\ active' = [s \in Spans |-> active[s] /\ s \notin collected]
  /\ next' = [s \in Spans |-> IF s \in collected THEN NoSpan ELSE next[s]]
  /\ pc' = IF type = "Interval" THEN "effects" ELSE "valid"
  /\ OutOfScope
  /\ UNCHANGED <<head, time, now, history>>

ProcessEffect ==
  /\ pc = "effects"
  /\ BeginWalk("Effect")
  /\ UNCHANGED history

-----------------------------------------------------------------------------
(* if (TopEffect().Valid()) { TopEffect().Calc(); TopEffect().Commit(); }  *)
(* asks for the top three times.                                           *)

Valid ==
  /\ pc = "valid"
  /\ \E at \in Readings : pc' = IF Top("Effect", at) # NoSpan THEN "calc" ELSE "wait"
  /\ UNCHANGED <<list, active, time, now, locals, history>>

(* The calc callback of the top span and, if it asks for it, the one below. *)
Calc ==
  /\ pc = "calc"
  /\ \E at, below \in Readings :
       LET s == Top("Effect", at)
       IN  painted' = {s} \cup IF s \in CallsBelow THEN {Below(s, "Effect", below)} ELSE {}
  /\ pc' = "commit"
  /\ UNCHANGED <<list, active, time, now, locals, committed, startedFor>>

(* Every effect commits the frame the same way, by Leds::convert. *)
Commit ==
  /\ pc = "commit"
  /\ \E at \in Readings : committed' = (Top("Effect", at) # NoSpan)
  /\ pc' = "wait"
  /\ painted' = {}
  /\ UNCHANGED <<list, active, time, now, locals, startedFor>>

Frame == \/ ProcessInterval \/ StartSpan \/ ExpireSpan \/ Collect
         \/ ProcessEffect \/ Valid \/ Calc \/ Commit

Next == TimePasses \/ Frame \/ \E s \in Spans : Client(s)

(* Frames follow each other, see FramePacer, and time moves on. *)
Fairness == WF_vars(Frame) /\ WF_vars(TimePasses)

Spec == Init /\ [][Next]_vars /\ Fairness

-----------------------------------------------------------------------------
TypeOK ==
  /\ head \in Spans \cup {NoSpan} /\ next \in [Spans -> Spans \cup {NoSpan}]
  /\ active \in [Spans -> BOOLEAN]
  /\ time \in [Spans -> Nat]
  /\ now \in 0..MaxTime
  /\ pc \in {"wait", "start", "expire", "effects", "valid", "calc", "commit"}
  /\ type \in {"Effect", "Interval"}
  /\ snapshot \in Nat
  /\ p \in Spans \cup {NoSpan} /\ i \in Spans \cup {NoSpan}
  /\ collected \subseteq Finite \cap Effects
  /\ painted \subseteq Spans \cup {NoSpan}
  /\ committed \in BOOLEAN
  /\ startedFor \in [Spans \ Effects -> Nat \cup {-1}]

(* A walk ends: however spans were added and unlinked under it, the list   *)
(* has no cycle.  Between frames a span that is off the list is reset, so  *)
(* that it can be added and started again.                                 *)
ListIsSound ==
  /\ Chain[Length] = NoSpan
  /\ pc = "wait" => \A s \in Spans \ Scheduled : next[s] = NoSpan /\ ~active[s]

(* The pointers implement a set of spans: a walk never loses a span it did *)
(* not expire, nor keeps one it did.                                       *)
TheSchedule == INSTANCE Schedule
                 WITH scheduled <- Scheduled, active <- {s \in Spans : active[s]}

ImplementsSchedule == TheSchedule!ScheduleSpec

(* Process unlinks through p although the span at p may have been unlinked *)
(* by the same walk.  Spans are lost (or an expired one stays) only then:  *)
(* when two collected spans followed each other on the list.               *)
Neighbours(s, t) == s # t /\ next[s] = next[t]

SpansAreLostOnlyByNeighbours ==
  [][ pc = "start" /\ i = NoSpan /\ ~(\E s, t \in collected : Neighbours(s, t))
        => Scheduled' = Scheduled /\ Scheduled \cap collected = {} ]_vars

(* An interval starts exactly once for each of its times: never twice for  *)
(* one (the clock may fall back a second, a frame may be late), and it is  *)
(* not rescheduled past a time it did not start for.                       *)
IntervalStartsOncePerTime ==
  [][ \A s \in Spans \ Effects :
        /\ active'[s] /\ ~active[s] => startedFor[s] # time[s]
        /\ time'[s] # time[s] /\ s \in Scheduled => startedFor[s] = time[s] ]_vars

(* The tests of TopEffect in sign_entry hold every frame, although the top *)
(* may change between the three calls.                                     *)
NoFrameIsBlank ==
  [][ pc' # pc => (pc = "valid" => pc' = "calc") /\ (pc = "commit" => committed') ]_vars

(* Each frame repaints the picture from the effect of infinite duration,   *)
(* directly or as what glowEffect finds below it, never from the picture   *)
(* glowEffect left in the frame before.                                    *)
BackgroundIsPainted ==
  pc = "commit" => \E s \in painted : s # NoSpan /\ s \notin Finite

(* An effect does not outstay its duration. *)
ExpiredEffectLeaves ==
  \A s \in Effects \cap Finite :
    s \in Scheduled /\ time[s] + Duration[s] + Skew < now ~> s \notin Scheduled

(* An interval that is due starts. *)
DueIntervalStarts ==
  \A s \in Spans \ Effects :
    s \in Scheduled /\ time[s] + Skew <= now ~> startedFor[s] = time[s] \/ s \notin Scheduled

-----------------------------------------------------------------------------
(* What the firmware's spans have beyond TimelineAssumption; each theorem  *)
(* names what it needs of it.                                              *)

(* At most one effect is of finite duration: in the firmware, glowEffect   *)
(* (effects.cpp:698).  Two neighbours cannot expire then.                  *)
OneEffectEnds == \A s, t \in Effects \cap Finite : s = t

(* The firmware's spans below the glow: an endless effect is on the list   *)
(* from the beginning and no other code removes it (mainEffect,            *)
(* effects.cpp:671), its time was read in the first second, while          *)
(* Effects::init ran (effects.cpp:615), and the effect that ends calls     *)
(* what is below it (glowEffect, effects.cpp:707).                         *)
HasBackground ==
  /\ \E b \in Effects \ (Finite \cup Clients) :
       b \in OnList(FirstHead, FirstNext) /\ FirstTime[b] <= Skew
  /\ Effects \cap Finite \subseteq CallsBelow

(* What the firmware's spans are like: no other code touches them, an      *)
(* interval moves on by a positive time (effects.cpp:676, 691), and only   *)
(* effects are added by a callback.                                        *)
LikeTheFirmware ==
  /\ Clients = {}
  /\ \A s \in Spans \ Effects : Periods[s] \subseteq Nat \ {0}
  /\ \A s \in Spans : Spawns[s] \in Effects \cup {NoSpan}
=============================================================================
