--------------------------- MODULE MCSystemClock ----------------------------
(* SystemClock with a second of nine ticks. *)
EXTENDS SystemClock
=============================================================================
