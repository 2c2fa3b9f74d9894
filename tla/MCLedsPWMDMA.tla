--------------------------- MODULE MCLedsPWMDMA ----------------------------
(* LedsPWMDMA with two ports of the same PWM module, as ports 0, 1 and 5   *)
(* are, and ports 2 and 3.                                                 *)
EXTENDS LedsPWMDMA, TLC

SharedModule == (0 :> "PWM4") @@ (1 :> "PWM4")
SharedSub    == (0 :> 0) @@ (1 :> 1)
=============================================================================
