--------------------------- MODULE MCLedsConvert ---------------------------
(* LedsConvert on the sign's layout at an eighth of its size, and with two     *)
(* of its five strips left out: a long strip, a short one and one of a single *)
(* segment, beside the ring, which alone has as many LEDs as a port may have. *)
EXTENDS LedsConvert, TLC

EighthOfTheSign == << <<4, 6, 7>>, <<3, 4>>, <<5>> >>

(* The table of leds.cpp:47-110, which is too large to step through, fits the *)
(* ports as LayoutAssumption asks, so that the theorems are about it too.     *)
Wing    == <<10, 14, 11, 11, 14, 17, 20, 17, 20>>
TheSign == << Wing, Wing, <<20, 9, 9, 10, 9>>, <<20, 9, 10, 9, 9>>, <<5, 5, 5, 5, 5, 5, 5, 5>> >>

ASSUME TheSignFits == \A n \in 1..Len(TheSign) : LedsOn(TheSign[n]) \in 0..158
=============================================================================
