---------------------------- MODULE BoundedClock ----------------------------
(***************************************************************************)
(* What Timeline::SystemTime promises its callers: real time moves forward *)
(* and a reading differs from it by no more than Skew.  Time is counted in *)
(* ticks of the timer that drives the clock.                               *)
(***************************************************************************)
EXTENDS Integers

CONSTANT Skew

VARIABLES time,     \* real time
          reading   \* what the last call of SystemTime returned

clockVars == <<time, reading>>

ClockInit == time = 0 /\ reading = 0

Advance == /\ time' = time + 1
           /\ UNCHANGED reading

Read == /\ reading' \in time - Skew .. time + Skew
        /\ UNCHANGED time

ClockNext == Advance \/ Read

ClockSpec == ClockInit /\ [][ClockNext]_clockVars
=============================================================================
