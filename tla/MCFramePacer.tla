---------------------------- MODULE MCFramePacer ----------------------------
(* FramePacer with a few frames a second. *)
EXTENDS FramePacer
=============================================================================
