----------------------------- MODULE MCEffects ------------------------------
(* Effects with a second of two units, and three effects. *)
EXTENDS Effects
=============================================================================
