------------------------------ MODULE Schedule ------------------------------
(***************************************************************************)
(* What Timeline promises the code that adds spans to it, without its      *)
(* list: a set of scheduled spans, some of them active.  Spans come and go *)
(* one at a time, and a span leaves on its own only when it is an effect   *)
(* of finite duration that has been started.                               *)
(***************************************************************************)
CONSTANTS Spans, Effects, Finite

VARIABLES scheduled,  \* the spans a walk of the timeline visits
          active      \* the spans started and not yet done

scheduleVars == <<scheduled, active>>

ScheduleInit == scheduled \subseteq Spans /\ active = {}

(* Add: by a client, or by the start callback of another span (Start). *)
Add(s) == /\ s \in Spans \ scheduled
          /\ scheduled' = scheduled \cup {s}
          /\ UNCHANGED active

(* Remove: at any time. *)
Remove(s) == /\ s \in scheduled
             /\ scheduled' = scheduled \ {s}
             /\ active' = active \ {s}

Start(s) == /\ s \in scheduled \ active
            /\ active' = active \cup {s}
            /\ \E n \in Spans : scheduled' \in {scheduled, scheduled \cup {n}}

(* An effect is taken off the list first and done at the end of the walk. *)
Expire(s) == /\ s \in scheduled \cap active \cap Effects \cap Finite
             /\ scheduled' = scheduled \ {s}
             /\ UNCHANGED active

Collect(done) == /\ done \subseteq active \ scheduled
                 /\ active' = active \ done
                 /\ UNCHANGED scheduled

Reschedule(s) == /\ s \in (scheduled \cap active) \ Effects
                 /\ active' = active \ {s}
                 /\ UNCHANGED scheduled

ScheduleNext ==
  \/ \E s \in Spans : Add(s) \/ Remove(s) \/ Start(s) \/ Expire(s) \/ Reschedule(s)
  \/ \E done \in SUBSET Spans : Collect(done)

ScheduleSpec == ScheduleInit /\ [][ScheduleNext]_scheduleVars
=============================================================================
