------------------------------ MODULE Gradient ------------------------------
(* The colour gradients of color.h and color.cpp: a table of colors_n colours  *)
(* made at compile time from a few stops, and the three ways to look a         *)
(* position up in it.  Every LED of every frame goes through one of them.      *)
(*                                                                            *)
(* A position is a number of units: Steps of them lead from one entry of the  *)
(* table to the next, so the whole table, the code's 1.0f, is One of them.    *)
(* The stops are positions as well and need not be at an entry: with 20 steps *)
(* between two of the 256 entries, a stop at 0.16f is at 816, four fifths of  *)
(* the way from entry 40 to entry 41.  A colour is one of its channels, in a  *)
(* unit so fine that it changes by a whole number from a position to the      *)
(* next.  A colour that was looked up is Steps times a channel, which keeps a *)
(* mixture of two entries exact.                                              *)
EXTENDS Integers, Sequences, FiniteSets, FiniteSetsExt

CONSTANTS
    colors_n,       \* entries of the table; colors_mul and colors_mask are one less
    Steps,          \* positions that are told apart between two entries
    Gradients,      \* sequences of stops: w is the position of a stop, v its colour
    MaxPosition     \* positions are looked up from -MaxPosition to MaxPosition

One == (colors_n - 1) * Steps

(* The stops of a gradient begin at 0.0f, end at 1.0f and go up in between, at  *)
(* least one entry at a time, as all of effects.cpp:39-172 do: the closest,     *)
(* 0.50f and 0.51f of half_white_gradient, are two and a half entries apart.    *)
ASSUME GradientAssumption ==
    /\ colors_n \in Nat \ {0, 1} /\ \E k \in 1 .. colors_n : colors_n = 2 ^ k
    /\ Steps \in Nat \ {0}
    /\ MaxPosition \in Nat
    /\ \A stops \in Gradients :
         /\ stops \in Seq([w : Nat, v : Int]) /\ Len(stops) > 1
         /\ stops[1].w = 0 /\ stops[Len(stops)].w = One
         /\ \A d \in 1 .. Len(stops) - 1 :
              /\ stops[d].w + Steps <= stops[d + 1].w
              /\ (stops[d + 1].v - stops[d].v) % (stops[d + 1].w - stops[d].w) = 0

VARIABLES
    stops,      \* the gradient
    lookUp,     \* the function that is called
    i,          \* its argument
    col         \* what it returned

vars == <<stops, lookUp, i, col>>

-----------------------------------------------------------------------------
(* The table *)

Slope(s, d) == (s[d + 1].v - s[d].v) \div (s[d + 1].w - s[d].w)

\* The colour at x on the line through stops d and d + 1.
OnLine(s, d, x) == s[d].v + Slope(s, d) * (x - s[d].w)

\* The last stop that is not behind position x, and never the last of all: the
\* constructor walks from N - 2 downwards and starts from the first.
StopBefore(s, x) == Max({1} \cup {d \in 1 .. Len(s) - 1 : x >= s[d].w})

Colors(s) == [c \in 0 .. colors_n - 1 |-> OnLine(s, StopBefore(s, c * Steps), c * Steps)]

-----------------------------------------------------------------------------
(* Looking up *)

\* Bug: as many steps as entries, as if colors_mul were colors_n.
LerpOfAllEntries(table, x) ==
    LET entry == (x * colors_n) \div One
        v == ((x * colors_n) % One) \div (colors_n - 1)
    IN  table[entry % colors_n] * (Steps - v) + table[(entry + 1) % colors_n] * v

\* The entry at or before a position and the one after it, mixed.
Lerp(table, x) ==
    LET entry == x \div Steps
        v == x % Steps
    IN  table[entry % colors_n] * (Steps - v) + table[(entry + 1) % colors_n] * v

Magnitude(x) == IF x < 0 THEN -x ELSE x

repeat(table, x) == Lerp(table, Magnitude(x) % One)

\* Bug: the fraction keeps the sign of the position.
reflectSigned(table, x) ==
    LET rest == x % One
    IN  Lerp(table, IF (Magnitude(x) \div One) % 2 = 0 THEN rest ELSE One - rest)

\* An odd number of tables away from zero the table is walked backwards.
reflect(table, x) ==
    LET rest == Magnitude(x) % One
    IN  Lerp(table, IF (Magnitude(x) \div One) % 2 = 0 THEN rest ELSE One - rest)

clamp(table, x) ==
    IF x <= 0 THEN table[0] * Steps
    ELSE IF x >= One THEN table[colors_n - 1] * Steps
    ELSE Lerp(table, x)

Color(s, method, x) ==
    CASE method = "repeat"  -> repeat(Colors(s), x)
      [] method = "reflect" -> reflect(Colors(s), x)
      [] method = "clamp"   -> clamp(Colors(s), x)

Init ==
    /\ stops \in Gradients
    /\ lookUp \in {"repeat", "reflect", "clamp"}
    /\ i = 0
    /\ col = Color(stops, lookUp, 0)

\* An effect colours its next LED, of this frame or of a later one.
ColorLed ==
    /\ i' \in -MaxPosition .. MaxPosition
    /\ col' = Color(stops, lookUp, i')
    /\ UNCHANGED <<stops, lookUp>>

Next == ColorLed

Spec == Init /\ [][Next]_vars

-----------------------------------------------------------------------------
(* What a gradient is: the polygon through its stops, without a table, entries *)
(* or masks.  It goes on for ever by being put side by side, by being mirrored *)
(* in its ends, or by keeping the colours of its ends.                         *)

Curve(s, x) ==
    OnLine(s, CHOOSE d \in 1 .. Len(s) - 1 : s[d].w <= x /\ x <= s[d + 1].w, x)

\* The place in the curve that a position stands for: how far it is past the
\* last whole number of curves, from the next mirror, or inside.
Tables == 0 .. MaxPosition \div One + 1
Place(method, x) ==
    CASE method = "repeat"  -> Min({Magnitude(x) - n * One : n \in {m \in Tables : m * One <= Magnitude(x)}})
      [] method = "reflect" -> Min({Magnitude(x - 2 * n * One) : n \in Tables \cup {-m : m \in Tables}})
      [] method = "clamp"   -> Max({0, Min({x, One})})

\* How much the curve bends between the two entries around a place.
Corners(s, x) ==
    {d \in 2 .. Len(s) - 1 : (x \div Steps) * Steps < s[d].w /\ s[d].w < (x \div Steps + 1) * Steps}
Bend(s, x) == Max({0} \cup {Magnitude(Slope(s, d) - Slope(s, d - 1)) : d \in Corners(s, x)})

(* A look-up is a point of the curve, for every position, but for the corners   *)
(* the table cuts: where a stop lies between two entries, as the peak of         *)
(* glow_wipe_gradient at 127.5 does, what is looked up there misses the curve    *)
(* by a quarter of the change of its slope at most.  Nowhere does the mask let   *)
(* the first colour of the table show through behind its last, nowhere is an     *)
(* entry one off (color.cpp:28-60, color.h:138-156).                             *)
ColorIsNearTheCurve ==
    LET place == Place(lookUp, i)
    IN  4 * Magnitude(col - Steps * Curve(stops, place)) <= Bend(stops, place) * (Steps * Steps)

Steepest(s) == Max({Magnitude(Slope(s, d)) : d \in 1 .. Len(s) - 1})

\* repeat() jumps from the end to the beginning unless they have one colour, as
\* those of gradient_rainbow have, the one the effects repeat.
IsSeamless == lookUp = "repeat" => stops[1].v = stops[Len(stops)].v

(* Neighbouring LEDs, and an LED in successive frames, get neighbouring        *)
(* colours: no edge shows where a position changes its sign, passes a whole    *)
(* number, or comes to the end of a clamped gradient (effects.cpp:549, 553,    *)
(* 716), and where the table cuts a corner.                                    *)
PictureHasNoEdges ==
    [][IsSeamless /\ Magnitude(i' - i) <= 1
         => Magnitude(col' - col) <= Steepest(stops) * Steps]_vars

=============================================================================
