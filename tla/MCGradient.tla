----------------------------- MODULE MCGradient -----------------------------
EXTENDS Gradient

(* With eight entries, four positions apart, in 28 positions: a channel of       *)
(* gradient_rainbow, with its proportions; the peak of glow_wipe_gradient, in    *)
(* the middle between two entries; half_white_gradient, with two stops as close  *)
(* as they may be; and a gradient with two different ends, as rainy_gradient.    *)
(* Most of the stops are between two entries, on each side of the middle.        *)
Stop(at, colour) == [w |-> at, v |-> colour]
MCGradients == {
    <<Stop(0, 20), Stop(5, 20), Stop(9, 0), Stop(14, 0), Stop(18, 0), Stop(23, 20), Stop(28, 20)>>,
    <<Stop(0, 0), Stop(9, 0), Stop(14, 20), Stop(19, 0), Stop(28, 0)>>,
    <<Stop(0, 0), Stop(14, 0), Stop(18, 20), Stop(28, 20)>>,
    <<Stop(0, 0), Stop(6, 12), Stop(11, 17), Stop(15, 29), Stop(28, 42)>>}
=============================================================================
