-------------------------- MODULE Gradient_proofs ---------------------------
(***************************************************************************)
(* For any gradients, any size of their tables and any positions: what is  *)
(* looked up is a point of the curve but for the corners the table cuts,   *)
(* and the picture has no edges.                                           *)
(***************************************************************************)
EXTENDS Gradient, WellFoundedInduction, TLAPS

(* Integers.                                                               *)

LEMMA NoMultipleWithin ==
  ASSUME NEW n \in Nat, NEW k \in Int, -n < k * n, k * n < n
  PROVE  k = 0
<1>1. CASE k >= 1
  <2>1. k * n = n + (k - 1) * n  OBVIOUS
  <2>2. (k - 1) * n >= 0  BY <1>1
  <2> QED  BY <2>1, <2>2
<1>2. CASE k <= -1
  <2>1. k * n = -n + (k + 1) * n  OBVIOUS
  <2>2. (k + 1) * n <= 0  BY <1>2
  <2> QED  BY <2>1, <2>2
<1> QED  BY <1>1, <1>2

LEMMA Regroup ==
  ASSUME NEW a \in Int, NEW b \in Int, NEW c \in Int
  PROVE  /\ a * b \in Int /\ a * (b * c) = (a * b) * c
         /\ (a + b) * c = a * c + b * c /\ a * (b + c) = a * b + a * c
         /\ (a - b) * c = a * c - b * c /\ a * (b - c) = a * b - a * c
OBVIOUS

LEMMA TimesGrows ==
  ASSUME NEW a \in Int, NEW b \in Int, NEW k \in Nat, a <= b
  PROVE  a * k <= b * k
OBVIOUS

LEMMA DivMod ==
  ASSUME NEW a \in Int, NEW n \in Nat \ {0}
  PROVE  a \div n \in Int /\ a % n \in 0..n - 1 /\ a = (a \div n) * n + (a % n)
OBVIOUS

LEMMA DivUnique ==
  ASSUME NEW a \in Int, NEW n \in Nat \ {0}, NEW q \in Int, NEW r \in 0..n - 1, a = q * n + r
  PROVE  a \div n = q /\ a % n = r
<1>1. a \div n \in Int /\ a % n \in 0..n - 1 /\ a = (a \div n) * n + (a % n)  BY DivMod
<1>2. (q - a \div n) * n = (a % n) - r
  <2>1. (q - a \div n) * n = q * n - (a \div n) * n  BY <1>1
  <2> QED  BY <1>1, <2>1
<1>3. q - a \div n = 0
  <2>1. -n < (a % n) - r /\ (a % n) - r < n  BY <1>1
  <2> QED  BY <1>1, <1>2, <2>1, NoMultipleWithin
<1> QED  BY <1>1, <1>2, <1>3

(* The least and the greatest of what there is.                            *)
LEMMA SmallestOf ==
  ASSUME NEW T, T \subseteq Nat, T # {}
  PROVE  \E k \in T : \A j \in T : k <= j
<1>1. \E k \in T : \A j \in T : ~(<<j, k>> \in OpToRel(<, Nat))
  BY NatLessThanWellFounded, WFMin, Zenon
<1>2. PICK k \in T : \A j \in T : ~(<<j, k>> \in OpToRel(<, Nat))
  BY <1>1, Zenon
<1>3. ASSUME NEW j \in T PROVE k <= j
  <2>1. j \in Nat /\ k \in Nat  BY <1>2
  <2>2. ~(<<j, k>> \in OpToRel(<, Nat))  BY <1>2
  <2>3. ~(j < k)  BY <2>1, <2>2 DEF OpToRel
  <2> QED  BY <2>1, <2>3
<1> QED  BY <1>3

LEMMA MaxBelow ==
  ASSUME NEW T, T \subseteq Int, NEW x \in T, NEW n \in Int, \A j \in T : j <= n
  PROVE  Max(T) \in T /\ \A j \in T : j <= Max(T)
<1> DEFINE Gaps == {n - j : j \in T}
<1>1. Gaps \subseteq Nat /\ Gaps # {}  OBVIOUS
<1>2. PICK g \in Gaps : \A h \in Gaps : g <= h
  <2> HIDE DEF Gaps
  <2> QED  BY <1>1, SmallestOf
<1>3. PICK k \in T : g = n - k  BY <1>2
<1>4. \A j \in T : k >= j
  <2>1. ASSUME NEW j \in T PROVE k >= j
    <3>1. g <= n - j  BY <1>2
    <3> QED  BY <1>3, <3>1
  <2> QED  BY <2>1
<1>5. Max(T) \in T /\ \A j \in T : Max(T) >= j  BY <1>4, Zenon DEF Max
<1>6. \A j \in T : j <= Max(T)  BY <1>5
<1> QED  BY <1>5, <1>6

LEMMA MinIs ==
  ASSUME NEW T, T \subseteq Int, NEW x \in T, \A j \in T : x <= j
  PROVE  Min(T) = x
<1>1. Min(T) \in T /\ \A j \in T : Min(T) <= j  BY Zenon DEF Min
<1>2. Min(T) <= x /\ x <= Min(T)  BY <1>1
<1>3. Min(T) \in Int /\ x \in Int  BY <1>1
<1> QED  BY <1>2, <1>3

LEMMA MaxIs ==
  ASSUME NEW T, T \subseteq Int, NEW x \in T, \A j \in T : j <= x
  PROVE  Max(T) = x
<1>1. Max(T) \in T /\ \A j \in T : Max(T) >= j
  <2>1. \A j \in T : x >= j  OBVIOUS
  <2> QED  BY <2>1, Zenon DEF Max
<1>2. Max(T) >= x /\ Max(T) <= x  BY <1>1
<1>3. Max(T) \in Int /\ x \in Int  BY <1>1
<1> QED  BY <1>2, <1>3

(* Magnitudes.                                                             *)

LEMMA MagnitudeType ==
  ASSUME NEW x \in Int
  PROVE  Magnitude(x) \in Nat /\ Magnitude(-x) = Magnitude(x)
BY DEF Magnitude

LEMMA MagnitudeOfProduct ==
  ASSUME NEW x \in Int, NEW n \in Nat
  PROVE  Magnitude(x * n) = Magnitude(x) * n
<1>1. CASE x < 0
  <2>1. x * n <= 0 * n  BY <1>1, TimesGrows
  <2>2. (-x) * n = -(x * n) /\ x * n \in Int /\ 0 * n = 0  OBVIOUS
  <2>3. Magnitude(x) = -x  BY <1>1 DEF Magnitude
  <2>4. Magnitude(x * n) = -(x * n)
    <3> DEFINE p == x * n
    <3>1. p \in Int /\ p <= 0  BY <2>1, <2>2
    <3> HIDE DEF p
    <3>2. Magnitude(p) = -p  BY <3>1 DEF Magnitude
    <3> QED  BY <3>2 DEF p
  <2> QED  BY <2>2, <2>3, <2>4
<1>2. CASE x >= 0
  <2>1. 0 * n <= x * n  BY <1>2, TimesGrows
  <2>2. x * n \in Int /\ 0 * n = 0  OBVIOUS
  <2>3. Magnitude(x) = x  BY <1>2 DEF Magnitude
  <2> DEFINE p == x * n
  <2>4. p \in Int /\ p >= 0  BY <2>1, <2>2
  <2> HIDE DEF p
  <2>5. Magnitude(p) = p  BY <2>4 DEF Magnitude
  <2> QED  BY <2>3, <2>5 DEF p
<1> QED  BY <1>1, <1>2

LEMMA FourProducts ==
  ASSUME NEW a \in Nat, NEW b \in Nat
  PROVE  4 * (a * b) <= (a + b) * (a + b)
<1> DEFINE d == a - b
<1>1. d * d >= 0
  <2>1. d \in Int  OBVIOUS
  <2> HIDE DEF d
  <2>2. CASE d >= 0
    <3>1. d \in Nat  BY <2>1, <2>2
    <3>2. 0 * d <= d * d  BY <3>1, TimesGrows
    <3> QED  BY <3>1, <3>2
  <2>3. CASE d < 0
    <3>1. -d \in Nat  BY <2>1, <2>3
    <3>2. 0 * (-d) <= (-d) * (-d)  BY <3>1, TimesGrows
    <3>3. (-d) * (-d) = d * d  BY <2>1
    <3> QED  BY <3>1, <3>2, <3>3
  <2> QED  BY <2>1, <2>2, <2>3
<1>2. d * d = a * a - 2 * (a * b) + b * b
  <2>1. d * d = a * d - b * d  BY Regroup
  <2>2. a * d = a * a - a * b /\ b * d = b * a - b * b  BY Regroup
  <2>3. b * a = a * b  OBVIOUS
  <2>4. a * a \in Int /\ a * b \in Int /\ b * b \in Int  BY Regroup
  <2> HIDE DEF d
  <2> QED  BY <2>1, <2>2, <2>3, <2>4
<1>3. (a + b) * (a + b) = a * a + 2 * (a * b) + b * b
  <2>1. (a + b) * (a + b) = a * (a + b) + b * (a + b)  BY Regroup
  <2>2. a * (a + b) = a * a + a * b /\ b * (a + b) = b * a + b * b  BY Regroup
  <2>3. b * a = a * b  OBVIOUS
  <2>4. a * a \in Int /\ a * b \in Int /\ b * b \in Int  BY Regroup
  <2> QED  BY <2>1, <2>2, <2>3, <2>4
<1>4. a * a \in Int /\ a * b \in Int /\ b * b \in Int  BY Regroup
<1> HIDE DEF d
<1> QED  BY <1>1, <1>2, <1>3, <1>4

-----------------------------------------------------------------------------
(* The curve through the stops.                                            *)

IsGradient(s) ==
  /\ s \in Seq([w : Nat, v : Int]) /\ Len(s) > 1
  /\ s[1].w = 0 /\ s[Len(s)].w = One
  /\ \A d \in 1..Len(s) - 1 :
       /\ s[d].w + Steps <= s[d + 1].w
       /\ (s[d + 1].v - s[d].v) % (s[d + 1].w - s[d].w) = 0

Segments(s) == 1..Len(s) - 1

Within(s, d, x) == s[d].w <= x /\ x <= s[d + 1].w

LEMMA Sizes ==
  /\ colors_n \in Nat /\ colors_n > 1 /\ Steps \in Nat \ {0} /\ MaxPosition \in Nat
  /\ One \in Nat \ {0} /\ Steps <= One
  /\ \A s \in Gradients : IsGradient(s)
<1>1. colors_n \in Nat /\ Steps \in Nat \ {0} /\ MaxPosition \in Nat
  BY GradientAssumption
<1>2. colors_n > 1  BY GradientAssumption
<1>3. One \in Nat \ {0}  BY <1>1, <1>2 DEF One
<1>4. Steps <= One
  <2>1. 1 * Steps <= (colors_n - 1) * Steps  BY <1>1, <1>2, TimesGrows
  <2> QED  BY <1>1, <2>1 DEF One
<1>5. \A s \in Gradients : IsGradient(s)  BY GradientAssumption, Zenon DEF IsGradient
<1> QED  BY <1>1, <1>2, <1>3, <1>4, <1>5

LEMMA Stops ==
  ASSUME NEW s, IsGradient(s)
  PROVE  /\ Len(s) \in Nat /\ Len(s) > 1
         /\ \A d \in 1..Len(s) : s[d].w \in Nat /\ s[d].v \in Int
<1>1. s \in Seq([w : Nat, v : Int]) /\ Len(s) > 1  BY DEF IsGradient
<1> DEFINE Stop == [w : Nat, v : Int]
<1>2. \A d \in 1..Len(s) : s[d] \in Stop
  <2>1. s \in Seq(Stop)  BY <1>1
  <2> HIDE DEF Stop
  <2> QED  BY <2>1
<1> QED  BY <1>1, <1>2

LEMMA Slopes ==
  ASSUME NEW s, IsGradient(s), NEW d \in Segments(s)
  PROVE  /\ d \in 1..Len(s) /\ d + 1 \in 1..Len(s) /\ s[d].w + Steps <= s[d + 1].w
         /\ Slope(s, d) \in Int
         /\ s[d + 1].v = s[d].v + Slope(s, d) * (s[d + 1].w - s[d].w)
<1>1. d \in 1..Len(s) /\ d + 1 \in 1..Len(s)  BY Stops DEF Segments
<1>2. s[d].w + Steps <= s[d + 1].w /\ (s[d + 1].v - s[d].v) % (s[d + 1].w - s[d].w) = 0
  BY DEF IsGradient, Segments
<1> DEFINE a == s[d + 1].v - s[d].v
           n == s[d + 1].w - s[d].w
<1>3. a \in Int /\ n \in Nat \ {0}
  <2>1. /\ s[d].w \in Nat /\ s[d + 1].w \in Nat
        /\ s[d].v \in Int /\ s[d + 1].v \in Int
    BY <1>1, Stops
  <2>2. Steps \in Nat \ {0}  BY Sizes
  <2> QED  BY <1>2, <2>1, <2>2
<1>4. a \div n \in Int /\ a = (a \div n) * n + (a % n)
  <2> HIDE DEF a, n
  <2> QED  BY <1>3, DivMod
<1>5. Slope(s, d) = a \div n  BY DEF Slope
<1>6. a = Slope(s, d) * n  BY <1>2, <1>3, <1>4, <1>5
<1>7. s[d].v \in Int /\ s[d + 1].v \in Int  BY <1>1, Stops
<1>8. s[d + 1].v = s[d].v + Slope(s, d) * n
  <2> HIDE DEF n
  <2>1. Slope(s, d) * n \in Int  BY <1>3, <1>4, <1>5
  <2> QED  BY <1>6, <1>7, <2>1
<1> QED  BY <1>1, <1>2, <1>4, <1>5, <1>8

LEMMA StopsGoUp ==
  ASSUME NEW s, IsGradient(s), NEW d \in 1..Len(s), NEW e \in 1..Len(s), d < e
  PROVE  s[d].w < s[e].w
<1> DEFINE Wrong == {n \in 1..Len(s) : d < n /\ ~(s[d].w < s[n].w)}
<1>1. SUFFICES ASSUME Wrong # {} PROVE FALSE  OBVIOUS
<1>2. PICK n \in Wrong : \A m \in Wrong : n <= m
  <2>1. Wrong \subseteq Nat  BY Stops
  <2> HIDE DEF Wrong
  <2> QED  BY <1>1, <2>1, SmallestOf
<1>3. n - 1 \in Segments(s)  BY Stops DEF Segments
<1>4. s[n - 1].w < s[n].w /\ n - 1 \in 1..Len(s)
  <2>1. n - 1 + 1 = n  OBVIOUS
  <2>2. n - 1 \in 1..Len(s) /\ n \in 1..Len(s) /\ s[n - 1].w + Steps <= s[n].w
    BY <1>3, <2>1, Slopes
  <2> QED  BY <2>2, Stops, Sizes
<1>5. s[d].w <= s[n - 1].w
  <2>1. CASE n - 1 = d  BY <2>1, Stops
  <2>2. CASE n - 1 # d
    <3>1. d < n - 1 /\ n - 1 \notin Wrong  BY <1>2, <1>4, <2>2
    <3> QED  BY <1>4, <3>1, Stops
  <2> QED  BY <2>1, <2>2
<1> QED  BY <1>4, <1>5, Stops

(* Along a line the colour changes by the slope from position to position, *)
(* and both of its stops are on it.                                        *)
LEMMA LineGoesOn ==
  ASSUME NEW s, IsGradient(s), NEW d \in Segments(s), NEW x \in Int, NEW k \in Int
  PROVE  /\ OnLine(s, d, x) \in Int
         /\ OnLine(s, d, x + k) = OnLine(s, d, x) + Slope(s, d) * k
<1> DEFINE m == Slope(s, d)
           w == s[d].w
           v == s[d].v
<1>1. m \in Int /\ w \in Int /\ v \in Int
  <2>1. d \in 1..Len(s) /\ m \in Int  BY Slopes
  <2> QED  BY <2>1, Stops
<1>2. OnLine(s, d, x) = v + m * (x - w) /\ OnLine(s, d, x + k) = v + m * ((x + k) - w)
  BY DEF OnLine
<1> HIDE DEF m, w, v
<1>3. (x + k) - w = (x - w) + k  BY <1>1
<1>4. m * ((x - w) + k) = m * (x - w) + m * k /\ m * (x - w) \in Int /\ m * k \in Int
  BY <1>1, Regroup
<1>5. OnLine(s, d, x + k) = OnLine(s, d, x) + m * k  BY <1>1, <1>2, <1>3, <1>4
<1> QED  BY <1>1, <1>2, <1>4, <1>5 DEF m

LEMMA StopsAreOnLine ==
  ASSUME NEW s, IsGradient(s), NEW d \in Segments(s)
  PROVE  OnLine(s, d, s[d].w) = s[d].v /\ OnLine(s, d, s[d + 1].w) = s[d + 1].v
<1>1. /\ d \in 1..Len(s) /\ d + 1 \in 1..Len(s) /\ Slope(s, d) \in Int
      /\ s[d + 1].v = s[d].v + Slope(s, d) * (s[d + 1].w - s[d].w)
  BY Slopes
<1>2. s[d].w \in Int /\ s[d].v \in Int  BY <1>1, Stops
<1>3. s[d].w - s[d].w = 0 /\ Slope(s, d) * 0 = 0  BY <1>1, <1>2
<1> QED  BY <1>1, <1>2, <1>3 DEF OnLine

(* Where a position is in two segments it is at the stop between them.     *)
LEMMA LinesMeet ==
  ASSUME NEW s, IsGradient(s), NEW x \in Int,
         NEW d \in Segments(s), NEW e \in Segments(s), d < e,
         Within(s, d, x), Within(s, e, x)
  PROVE  OnLine(s, d, x) = OnLine(s, e, x)
<1>1. d \in 1..Len(s) /\ d + 1 \in 1..Len(s) /\ e \in 1..Len(s)  BY Slopes
<1>2. s[d + 1].w \in Nat /\ s[e].w \in Nat  BY <1>1, Stops
<1>3. s[e].w <= s[d + 1].w  BY <1>2 DEF Within
<1>4. d + 1 = e
  <2>1. SUFFICES ASSUME d + 1 < e PROVE FALSE  BY DEF Segments
  <2>2. s[d + 1].w < s[e].w  BY <1>1, <2>1, StopsGoUp
  <2> QED  BY <1>2, <1>3, <2>2
<1>5. x = s[e].w  BY <1>2, <1>4 DEF Within
<1>6. OnLine(s, e, s[e].w) = s[e].v /\ OnLine(s, d, s[d + 1].w) = s[d + 1].v
  BY StopsAreOnLine
<1> QED  BY <1>4, <1>5, <1>6

LEMMA SamePoint ==
  ASSUME NEW s, IsGradient(s), NEW x \in Int,
         NEW d \in Segments(s), NEW e \in Segments(s), Within(s, d, x), Within(s, e, x)
  PROVE  OnLine(s, d, x) = OnLine(s, e, x)
<1>1. CASE d = e  BY <1>1
<1>2. CASE d < e  BY <1>2, LinesMeet
<1>3. CASE e < d  BY <1>3, LinesMeet
<1> QED  BY <1>1, <1>2, <1>3, Stops DEF Segments

(* The constructor finds the segment of every position.                    *)
LEMMA FoundSegment ==
  ASSUME NEW s, IsGradient(s), NEW x \in 0..One
  PROVE  /\ StopBefore(s, x) \in Segments(s)
         /\ Within(s, StopBefore(s, x), x)
         /\ x < One => x < s[StopBefore(s, x) + 1].w
<1> DEFINE T == {1} \cup {d \in 1..Len(s) - 1 : x >= s[d].w}
           d == StopBefore(s, x)
<1>1. d = Max(T)  BY DEF StopBefore
<1>2. Max(T) \in T /\ \A j \in T : j <= Max(T)
  <2>1. T \subseteq Int /\ 1 \in T /\ \A j \in T : j <= Len(s) - 1  BY Stops
  <2>2. Len(s) - 1 \in Int  BY Stops
  <2> HIDE DEF T
  <2> QED  BY <2>1, <2>2, MaxBelow
<1>3. d \in Segments(s)  BY <1>1, <1>2, Stops DEF Segments
<1> HIDE DEF d
<1>4. d \in 1..Len(s) /\ d + 1 \in 1..Len(s)  BY <1>3, Slopes
<1>5. s[d].w \in Nat /\ s[d + 1].w \in Nat  BY <1>4, Stops
<1>6. s[d].w <= x
  <2>1. d = 1 \/ x >= s[d].w  BY <1>1, <1>2
  <2> QED  BY <1>5, <2>1, Sizes DEF IsGradient
<1>7. x <= s[d + 1].w /\ (x < One => x < s[d + 1].w)
  <2>1. CASE d + 1 = Len(s)  BY <2>1, Sizes DEF IsGradient
  <2>2. CASE d + 1 # Len(s)
    <3>1. d + 1 \in 1..Len(s) - 1  BY <1>4, <2>2, Stops
    <3>2. d + 1 \notin T  BY <1>1, <1>2, <1>3, <3>1 DEF Segments
    <3>3. ~(x >= s[d + 1].w)  BY <3>1, <3>2
    <3> QED  BY <1>5, <3>3, Sizes
  <2> QED  BY <2>1, <2>2
<1> QED  BY <1>3, <1>5, <1>6, <1>7 DEF Within, d

(* Any segment a position is in tells its point of the curve, and the      *)
(* colour of the table when the position is an entry's.                    *)
LEMMA CurveIs ==
  ASSUME NEW s, IsGradient(s), NEW x \in Int, NEW d \in Segments(s), Within(s, d, x)
  PROVE  Curve(s, x) = OnLine(s, d, x)
<1> DEFINE Segment(e) == s[e].w <= x /\ x <= s[e + 1].w
           e == CHOOSE e \in 1..Len(s) - 1 : Segment(e)
<1>1. d \in 1..Len(s) - 1 /\ Segment(d)  BY DEF Segments, Within
<1>2. e \in 1..Len(s) - 1 /\ Segment(e)
  <2> HIDE DEF Segment
  <2> QED  BY <1>1, Zenon
<1>3. e \in Segments(s) /\ Within(s, e, x)  BY <1>2 DEF Segments, Within
<1>4. Curve(s, x) = OnLine(s, e, x)  BY DEF Curve
<1> HIDE DEF e
<1>5. OnLine(s, d, x) = OnLine(s, e, x)  BY <1>3, SamePoint
<1> QED  BY <1>4, <1>5

LEMMA EntriesAreInside ==
  ASSUME NEW c \in 0..colors_n - 1
  PROVE  c * Steps \in 0..One
<1>1. 0 * Steps <= c * Steps /\ c * Steps <= (colors_n - 1) * Steps
  BY Sizes, TimesGrows
<1>2. c * Steps \in Int /\ 0 * Steps = 0  BY Sizes, Regroup
<1> QED  BY <1>1, <1>2, Sizes DEF One

LEMMA ColorsAre ==
  ASSUME NEW s, IsGradient(s), NEW c \in 0..colors_n - 1, NEW d \in Segments(s),
         Within(s, d, c * Steps)
  PROVE  Colors(s)[c] = OnLine(s, d, c * Steps) /\ Colors(s)[c] \in Int
<1> DEFINE x == c * Steps
           e == StopBefore(s, x)
<1>1. x \in 0..One /\ x \in Int  BY EntriesAreInside, Sizes
<1>2. Colors(s)[c] = OnLine(s, e, x)  BY DEF Colors
<1>3. Within(s, d, x)  OBVIOUS
<1>4. e \in Segments(s) /\ Within(s, e, x)
  <2> HIDE DEF x
  <2> QED  BY <1>1, FoundSegment
<1> HIDE DEF e, x
<1>5. OnLine(s, d, x) = OnLine(s, e, x)  BY <1>1, <1>3, <1>4, SamePoint
<1>6. 0 \in Int  OBVIOUS
<1>7. OnLine(s, d, x) \in Int  BY <1>1, <1>6, LineGoesOn
<1> QED  BY <1>2, <1>5, <1>7 DEF x

LEMMA ColorsType ==
  ASSUME NEW s, IsGradient(s), NEW c \in 0..colors_n - 1
  PROVE  Colors(s)[c] \in Int
<1>1. c * Steps \in 0..One  BY EntriesAreInside
<1>2. /\ StopBefore(s, c * Steps) \in Segments(s)
      /\ Within(s, StopBefore(s, c * Steps), c * Steps)
  BY <1>1, FoundSegment
<1> QED  BY <1>2, ColorsAre

(* The ends of the curve and of the table are the ends of the gradient.    *)
LEMMA Ends ==
  ASSUME NEW s, IsGradient(s)
  PROVE  /\ Colors(s)[0] = s[1].v /\ Curve(s, 0) = s[1].v
         /\ Colors(s)[colors_n - 1] = s[Len(s)].v /\ Curve(s, One) = s[Len(s)].v
<1> DEFINE l == Len(s) - 1
<1>1. 1 \in Segments(s) /\ l \in Segments(s) /\ l + 1 = Len(s)  BY Stops DEF Segments
<1>2. s[1].w = 0 /\ s[Len(s)].w = One  BY DEF IsGradient
<1> HIDE DEF l
<1>3. Within(s, 1, 0) /\ OnLine(s, 1, 0) = s[1].v
  <2>1. 1 + 1 \in 1..Len(s)  BY <1>1, Slopes
  <2>2. s[1 + 1].w \in Nat  BY <2>1, Stops
  <2>3. Within(s, 1, 0)  BY <1>2, <2>2 DEF Within
  <2>4. OnLine(s, 1, s[1].w) = s[1].v  BY <1>1, StopsAreOnLine
  <2> QED  BY <1>2, <2>3, <2>4
<1>4. Within(s, l, One) /\ OnLine(s, l, One) = s[Len(s)].v
  <2>1. l \in 1..Len(s) /\ s[l].w + Steps <= s[l + 1].w  BY <1>1, Slopes
  <2>2. s[l].w \in Nat  BY <2>1, Stops
  <2>3. Within(s, l, One)  BY <1>1, <1>2, <2>1, <2>2, Sizes DEF Within
  <2>4. OnLine(s, l, s[l + 1].w) = s[l + 1].v  BY <1>1, StopsAreOnLine
  <2> QED  BY <1>1, <1>2, <2>3, <2>4
<1>5. 0 \in 0..colors_n - 1 /\ 0 * Steps = 0  BY Sizes
<1>6. colors_n - 1 \in 0..colors_n - 1 /\ (colors_n - 1) * Steps = One  BY Sizes DEF One
<1>7. Colors(s)[0] = s[1].v  BY <1>1, <1>3, <1>5, ColorsAre
<1>8. Colors(s)[colors_n - 1] = s[Len(s)].v
  <2> DEFINE c == colors_n - 1
  <2>1. c \in 0..colors_n - 1 /\ c * Steps = One  BY <1>6
  <2> HIDE DEF c
  <2>2. Colors(s)[c] = s[Len(s)].v  BY <1>1, <1>4, <2>1, ColorsAre
  <2> QED  BY <2>2 DEF c
<1>9. Curve(s, 0) = s[1].v  BY <1>1, <1>3, CurveIs
<1>10. Curve(s, One) = s[Len(s)].v
  <2>1. One \in Int  BY Sizes
  <2> QED  BY <1>1, <1>4, <2>1, CurveIs
<1> QED  BY <1>7, <1>8, <1>9, <1>10

-----------------------------------------------------------------------------
(* How steep the curve is, and how much it bends.                          *)

LEMMA SlopesAreBounded ==
  ASSUME NEW s, IsGradient(s)
  PROVE  \E B \in Nat : \A d \in Segments(s) : Magnitude(Slope(s, d)) <= B
<1> DEFINE Bounded(n, B) == \A d \in Segments(s) : d <= n => Magnitude(Slope(s, d)) <= B
           Wrong == {n \in Nat : ~ \E B \in Nat : Bounded(n, B)}
<1>1. ASSUME Wrong # {} PROVE FALSE
  <2>1. PICK n \in Wrong : \A m \in Wrong : n <= m
    <3>1. Wrong \subseteq Nat  OBVIOUS
    <3> HIDE DEF Wrong
    <3> QED  BY <1>1, <3>1, SmallestOf
  <2>2. n \in Nat  OBVIOUS
  <2>3. n # 0
    <3>1. Bounded(0, 0)  BY Stops DEF Segments
    <3> QED  BY <3>1
  <2>4. n - 1 \in Nat /\ n - 1 \notin Wrong  BY <2>1, <2>2, <2>3
  <2>5. PICK B \in Nat : Bounded(n - 1, B)  BY <2>4
  <2>6. CASE n \in Segments(s)
    <3> DEFINE b == Magnitude(Slope(s, n))
    <3>1. b \in Nat  BY <2>6, Slopes, MagnitudeType
    <3>2. ASSUME NEW d \in Segments(s), d <= n PROVE Magnitude(Slope(s, d)) <= B + b
      <4>1. Magnitude(Slope(s, d)) \in Nat  BY Slopes, MagnitudeType
      <4>2. d \in Int  BY Stops DEF Segments
      <4>3. CASE d = n  BY <3>1, <4>3
      <4>4. CASE d # n
        <5>1. d <= n - 1  BY <2>2, <3>2, <4>2, <4>4
        <5> QED  BY <2>5, <3>1, <4>1, <5>1
      <4> QED  BY <4>3, <4>4
    <3>3. B + b \in Nat  BY <3>1
    <3> QED  BY <3>2, <3>3
  <2>7. CASE n \notin Segments(s)
    <3>1. Bounded(n, B)
      <4>1. ASSUME NEW d \in Segments(s), d <= n PROVE Magnitude(Slope(s, d)) <= B
        <5>1. d \in Int /\ d # n  BY <2>7, Stops DEF Segments
        <5>2. d <= n - 1  BY <2>2, <4>1, <5>1
        <5> QED  BY <2>5, <5>2
      <4> QED  BY <4>1
    <3> QED  BY <3>1
  <2> QED  BY <2>6, <2>7
<1>2. PICK B \in Nat : Bounded(Len(s) - 1, B)
  <2>1. Len(s) - 1 \in Nat  BY Stops
  <2> QED  BY <1>1, <2>1
<1>3. \A d \in Segments(s) : d <= Len(s) - 1  BY Stops DEF Segments
<1> QED  BY <1>2, <1>3

LEMMA SteepestIs ==
  ASSUME NEW s, IsGradient(s)
  PROVE  /\ Steepest(s) \in Nat
         /\ \A d \in Segments(s) : Magnitude(Slope(s, d)) <= Steepest(s)
<1> DEFINE T == {Magnitude(Slope(s, d)) : d \in Segments(s)}
<1>1. T \subseteq Nat  BY Slopes, MagnitudeType
<1>2. 1 \in Segments(s)  BY Stops DEF Segments
<1>3. PICK B \in Nat : \A j \in T : j <= B  BY SlopesAreBounded
<1>4. Max(T) \in T /\ \A j \in T : j <= Max(T)
  <2>1. Magnitude(Slope(s, 1)) \in T /\ T \subseteq Int /\ B \in Int  BY <1>1, <1>2
  <2> HIDE DEF T
  <2> QED  BY <1>3, <2>1, MaxBelow
<1>5. Steepest(s) = Max(T)  BY DEF Steepest, Slope, Segments
<1> HIDE DEF Steepest
<1> QED  BY <1>1, <1>4, <1>5

LEMMA BendIs ==
  ASSUME NEW s, IsGradient(s), NEW x \in Int
  PROVE  /\ Bend(s, x) \in Nat
         /\ \A d \in Corners(s, x) : Magnitude(Slope(s, d) - Slope(s, d - 1)) <= Bend(s, x)
<1> DEFINE T == {0} \cup {Magnitude(Slope(s, d) - Slope(s, d - 1)) : d \in Corners(s, x)}
           B == 2 * Steepest(s)
<1>1. B \in Nat  BY SteepestIs
<1>2. ASSUME NEW d \in Corners(s, x)
      PROVE  /\ Magnitude(Slope(s, d) - Slope(s, d - 1)) \in Nat
             /\ Magnitude(Slope(s, d) - Slope(s, d - 1)) <= B
  <2>1. d \in Segments(s) /\ d - 1 \in Segments(s)  BY Stops DEF Corners, Segments
  <2> DEFINE m == Slope(s, d)
             n == Slope(s, d - 1)
  <2>2. m \in Int /\ n \in Int  BY <2>1, Slopes
  <2>3. Magnitude(m) <= Steepest(s) /\ Magnitude(n) <= Steepest(s) /\ Steepest(s) \in Nat
    BY <2>1, SteepestIs
  <2> HIDE DEF m, n
  <2>4. Magnitude(m - n) \in Nat /\ Magnitude(m - n) <= B
    BY <2>2, <2>3 DEF Magnitude
  <2> QED  BY <2>4 DEF m, n
<1>3. T \subseteq Nat /\ 0 \in T /\ \A j \in T : j <= B  BY <1>1, <1>2
<1>4. Max(T) \in T /\ \A j \in T : j <= Max(T)
  <2>1. T \subseteq Int /\ B \in Int  BY <1>1, <1>3
  <2> HIDE DEF T, B
  <2> QED  BY <1>3, <2>1, MaxBelow
<1>5. Bend(s, x) = Max(T)  BY DEF Bend
<1> HIDE DEF Bend
<1> QED  BY <1>3, <1>4, <1>5

-----------------------------------------------------------------------------
(* Between two entries: the curve is straight, or it has one corner, since *)
(* stops are never closer than entries.                                    *)

Straight(s, d, e) == d \in Segments(s) /\ Within(s, d, e) /\ Within(s, d, e + Steps)

CornerAfter(s, d, e) ==
  /\ d \in Segments(s) /\ d + 1 \in Segments(s)
  /\ Within(s, d, e) /\ Within(s, d + 1, e + Steps)
  /\ e < s[d + 1].w /\ s[d + 1].w < e + Steps

LEMMA TwoEntries ==
  ASSUME NEW s, IsGradient(s), NEW e \in Nat, e + Steps <= One
  PROVE  \E d \in Segments(s) : Straight(s, d, e) \/ CornerAfter(s, d, e)
<1> DEFINE d == StopBefore(s, e)
<1>1. d \in Segments(s) /\ Within(s, d, e) /\ e < s[d + 1].w
  <2>1. e \in 0..One /\ e < One  BY Sizes
  <2> QED  BY <2>1, FoundSegment
<1> HIDE DEF d
<1>2. d \in 1..Len(s) /\ d + 1 \in 1..Len(s)  BY <1>1, Slopes
<1>3. s[d].w \in Nat /\ s[d + 1].w \in Nat  BY <1>2, Stops
<1>4. CASE e + Steps <= s[d + 1].w
  <2>1. Straight(s, d, e)  BY <1>1, <1>3, <1>4, Sizes DEF Straight, Within
  <2> QED  BY <1>1, <2>1
<1>5. CASE s[d + 1].w < e + Steps
  <2>1. d + 1 # Len(s)
    <3>1. s[Len(s)].w = One  BY DEF IsGradient
    <3>2. s[d + 1].w < One  BY <1>3, <1>5, Sizes
    <3> QED  BY <3>1, <3>2, Sizes
  <2>2. d + 1 \in Segments(s)  BY <1>2, <2>1, Stops DEF Segments
  <2>3. s[d + 1].w + Steps <= s[d + 1 + 1].w /\ d + 1 + 1 \in 1..Len(s)  BY <2>2, Slopes
  <2>4. s[d + 1 + 1].w \in Nat  BY <2>3, Stops
  <2>5. Within(s, d + 1, e + Steps)  BY <1>1, <1>3, <1>5, <2>3, <2>4, Sizes DEF Within
  <2>6. CornerAfter(s, d, e)  BY <1>1, <1>5, <2>2, <2>5 DEF CornerAfter
  <2> QED  BY <1>1, <2>6
<1> QED  BY <1>3, <1>4, <1>5, Sizes

(* The entry before a position.                                            *)
LEMMA Entry ==
  ASSUME NEW x \in 0..One - 1
  PROVE  /\ x \div Steps \in 0..colors_n - 2
         /\ x % Steps \in 0..Steps - 1
         /\ x = (x \div Steps) * Steps + (x % Steps)
         /\ (x \div Steps) * Steps \in Nat
         /\ (x \div Steps + 1) * Steps = (x \div Steps) * Steps + Steps
         /\ (x \div Steps) * Steps + Steps <= One
<1> DEFINE c == x \div Steps
           u == x % Steps
<1>1. c \in Int /\ u \in 0..Steps - 1 /\ x = c * Steps + u  BY Sizes, DivMod
<1> HIDE DEF c, u
<1>2. (c + 1) * Steps = c * Steps + Steps /\ c * Steps \in Int
  <2>1. (c + 1) * Steps = c * Steps + 1 * Steps /\ c * Steps \in Int  BY <1>1, Sizes, Regroup
  <2> QED  BY <2>1, Sizes
<1>3. c >= 0
  <2>1. SUFFICES ASSUME c + 1 <= 0 PROVE FALSE  BY <1>1
  <2>2. (c + 1) * Steps <= 0 * Steps  BY <1>1, <2>1, Sizes, TimesGrows
  <2> QED  BY <1>1, <1>2, <2>2, Sizes
<1>4. c <= colors_n - 2
  <2>1. SUFFICES ASSUME colors_n - 1 <= c PROVE FALSE  BY <1>1, Sizes
  <2>2. (colors_n - 1) * Steps <= c * Steps  BY <1>1, <2>1, Sizes, TimesGrows
  <2> QED  BY <1>1, <1>2, <2>2, Sizes DEF One
<1>5. c * Steps \in Nat /\ c * Steps + Steps <= One
  <2>1. 0 * Steps <= c * Steps  BY <1>1, <1>3, Sizes, TimesGrows
  <2>2. (c + 1) * Steps <= (colors_n - 1) * Steps  BY <1>1, <1>4, Sizes, TimesGrows
  <2> QED  BY <1>2, <2>1, <2>2, Sizes DEF One
<1>6. c \in 0..colors_n - 2  BY <1>1, <1>3, <1>4, Sizes
<1> QED  BY <1>1, <1>2, <1>5, <1>6 DEF c, u

(* What is looked up before the end of the table: the entry before and the *)
(* entry after, mixed.                                                     *)
LEMMA Mixed ==
  ASSUME NEW s, IsGradient(s), NEW x \in 0..One - 1
  PROVE  LET c == x \div Steps
             u == x % Steps
         IN  /\ Lerp(Colors(s), x) = Colors(s)[c] * (Steps - u) + Colors(s)[c + 1] * u
             /\ Colors(s)[c] \in Int /\ Colors(s)[c + 1] \in Int
<1> DEFINE c == x \div Steps
           u == x % Steps
<1>1. c \in 0..colors_n - 2  BY Entry
<1>2. Lerp(Colors(s), x)
        = Colors(s)[c % colors_n] * (Steps - u) + Colors(s)[(c + 1) % colors_n] * u
  BY DEF Lerp
<1> HIDE DEF c, u
<1>3. c % colors_n = c /\ (c + 1) % colors_n = c + 1
  <2>1. c = 0 * colors_n + c /\ c + 1 = 0 * colors_n + (c + 1)  BY <1>1, Sizes
  <2>2. c \in 0..colors_n - 1 /\ c + 1 \in 0..colors_n - 1  BY <1>1, Sizes
  <2> QED  BY <2>1, <2>2, DivUnique, Sizes
<1>4. c \in 0..colors_n - 1 /\ c + 1 \in 0..colors_n - 1  BY <1>1, Sizes
<1>5. Colors(s)[c] \in Int /\ Colors(s)[c + 1] \in Int  BY <1>4, ColorsType
<1> QED  BY <1>2, <1>3, <1>5 DEF c, u

(* What is looked up at an entry is its colour.                            *)
LEMMA AtEntry ==
  ASSUME NEW s, IsGradient(s), NEW c \in 0..colors_n - 1
  PROVE  Lerp(Colors(s), c * Steps) = Colors(s)[c] * Steps
<1> DEFINE x == c * Steps
<1>1. x \div Steps = c /\ x % Steps = 0
  <2>1. x \in Int /\ x = c * Steps + 0 /\ c \in Int /\ 0 \in 0..Steps - 1
    BY Sizes, Regroup
  <2> HIDE DEF x
  <2> QED  BY <2>1, DivUnique, Sizes
<1>2. Lerp(Colors(s), x)
        = Colors(s)[c % colors_n] * (Steps - 0) + Colors(s)[(c + 1) % colors_n] * 0
  BY <1>1 DEF Lerp
<1> HIDE DEF x
<1>3. c % colors_n = c /\ (c + 1) % colors_n \in 0..colors_n - 1
  <2>1. c = 0 * colors_n + c  BY Sizes
  <2>2. c % colors_n = c  BY <2>1, DivUnique, Sizes
  <2>3. c + 1 \in Int /\ colors_n \in Nat \ {0}  BY Sizes
  <2> QED  BY <2>2, <2>3, DivMod
<1>4. Colors(s)[c] \in Int /\ Colors(s)[(c + 1) % colors_n] \in Int
  BY <1>3, ColorsType
<1>5. Colors(s)[(c + 1) % colors_n] * 0 = 0 /\ Colors(s)[c] * (Steps - 0) = Colors(s)[c] * Steps
      /\ Colors(s)[c] * Steps \in Int
  BY <1>4, Sizes
<1> QED  BY <1>2, <1>3, <1>5 DEF x

(* The colours of two entries, one after the other.                        *)
LEMMA StraightColors ==
  ASSUME NEW s, IsGradient(s), NEW c \in 0..colors_n - 2, NEW d, Straight(s, d, c * Steps)
  PROVE  /\ Slope(s, d) \in Int
         /\ Colors(s)[c] = OnLine(s, d, c * Steps) /\ Colors(s)[c] \in Int
         /\ Colors(s)[c + 1] = Colors(s)[c] + Slope(s, d) * Steps
<1> DEFINE e == c * Steps
           f == (c + 1) * Steps
<1>1. c \in 0..colors_n - 1 /\ c + 1 \in 0..colors_n - 1  BY Sizes
<1>2. e \in Int /\ f = e + Steps /\ Steps \in Int
  <2>1. (c + 1) * Steps = c * Steps + 1 * Steps /\ c * Steps \in Int  BY Sizes, Regroup
  <2> QED  BY <2>1, Sizes
<1>3. d \in Segments(s) /\ Within(s, d, e) /\ Within(s, d, e + Steps)  BY DEF Straight
<1>4. Slope(s, d) \in Int  BY <1>3, Slopes
<1>5. Colors(s)[c] = OnLine(s, d, e) /\ Colors(s)[c] \in Int  BY <1>1, <1>3, ColorsAre
<1>6. Colors(s)[c + 1] = OnLine(s, d, f)
  <2> DEFINE g == c + 1
  <2>1. g \in 0..colors_n - 1 /\ f = g * Steps /\ Within(s, d, f)  BY <1>1, <1>2, <1>3
  <2> HIDE DEF f, g
  <2>2. Colors(s)[g] = OnLine(s, d, f)  BY <1>3, <2>1, ColorsAre
  <2> QED  BY <2>2 DEF g
<1> HIDE DEF e, f
<1>7. OnLine(s, d, e + Steps) = OnLine(s, d, e) + Slope(s, d) * Steps
  BY <1>2, <1>3, LineGoesOn
<1> QED  BY <1>2, <1>4, <1>5, <1>6, <1>7 DEF e

LEMMA CornerColors ==
  ASSUME NEW s, IsGradient(s), NEW c \in 0..colors_n - 2, NEW d, CornerAfter(s, d, c * Steps)
  PROVE  LET a == s[d + 1].w - c * Steps
             b == c * Steps + Steps - s[d + 1].w
         IN  /\ d \in Segments(s) /\ d + 1 \in Segments(s)
             /\ Slope(s, d) \in Int /\ Slope(s, d + 1) \in Int /\ s[d + 1].v \in Int
             /\ a \in Nat /\ b \in Nat /\ a + b = Steps
             /\ Colors(s)[c] = s[d + 1].v - Slope(s, d) * a
             /\ Colors(s)[c + 1] = s[d + 1].v + Slope(s, d + 1) * b
<1> DEFINE e == c * Steps
           f == (c + 1) * Steps
           a == s[d + 1].w - e
           b == e + Steps - s[d + 1].w
<1>1. c \in 0..colors_n - 1 /\ c + 1 \in 0..colors_n - 1  BY Sizes
<1>2. e \in Int /\ f = e + Steps /\ Steps \in Int
  <2>1. (c + 1) * Steps = c * Steps + 1 * Steps /\ c * Steps \in Int  BY Sizes, Regroup
  <2> QED  BY <2>1, Sizes
<1>3. /\ d \in Segments(s) /\ d + 1 \in Segments(s)
      /\ Within(s, d, e) /\ Within(s, d + 1, e + Steps)
      /\ e < s[d + 1].w /\ s[d + 1].w < e + Steps
  BY DEF CornerAfter
<1>4. Slope(s, d) \in Int /\ Slope(s, d + 1) \in Int /\ d + 1 \in 1..Len(s)  BY <1>3, Slopes
<1>5. s[d + 1].w \in Nat /\ s[d + 1].v \in Int  BY <1>4, Stops
<1>6. Colors(s)[c] = OnLine(s, d, e)  BY <1>1, <1>3, ColorsAre
<1>7. Colors(s)[c + 1] = OnLine(s, d + 1, f)
  <2> DEFINE g == c + 1
             h == d + 1
  <2>1. g \in 0..colors_n - 1 /\ f = g * Steps /\ h \in Segments(s) /\ Within(s, h, f)
    BY <1>1, <1>2, <1>3
  <2> HIDE DEF f, g, h
  <2>2. Colors(s)[g] = OnLine(s, h, f)  BY <2>1, ColorsAre
  <2> QED  BY <2>2 DEF g, h
<1> HIDE DEF e, f
<1>8. a \in Nat /\ b \in Nat /\ a + b = Steps  BY <1>2, <1>3, <1>5
<1>9. OnLine(s, d, e) = s[d + 1].v - Slope(s, d) * a
  <2>1. OnLine(s, d, e + a) = OnLine(s, d, e) + Slope(s, d) * a /\ OnLine(s, d, e) \in Int
    <3> HIDE DEF a
    <3>1. a \in Int  BY <1>8
    <3> QED  BY <1>2, <1>3, <3>1, LineGoesOn
  <2>2. e + a = s[d + 1].w  BY <1>2, <1>5
  <2>3. OnLine(s, d, s[d + 1].w) = s[d + 1].v  BY <1>3, StopsAreOnLine
  <2> HIDE DEF a
  <2>4. Slope(s, d) * a \in Int  BY <1>4, <1>8, Regroup
  <2> QED  BY <1>5, <2>1, <2>2, <2>3, <2>4
<1>10. OnLine(s, d + 1, f) = s[d + 1].v + Slope(s, d + 1) * b
  <2> DEFINE h == d + 1
  <2>1. h \in Segments(s) /\ s[h].w \in Int /\ s[h].v \in Int  BY <1>3, <1>5
  <2>2. f = s[h].w + b  BY <1>2, <1>5
  <2> HIDE DEF b, h
  <2>3. b \in Int  BY <1>8
  <2>4. OnLine(s, h, s[h].w + b) = OnLine(s, h, s[h].w) + Slope(s, h) * b
    BY <2>1, <2>3, LineGoesOn
  <2>5. OnLine(s, h, s[h].w) = s[h].v  BY <2>1, StopsAreOnLine
  <2>6. OnLine(s, h, f) = s[h].v + Slope(s, h) * b  BY <2>2, <2>4, <2>5
  <2> QED  BY <2>6 DEF h
<1> QED  BY <1>3, <1>4, <1>5, <1>6, <1>7, <1>8, <1>9, <1>10 DEF e

(* Between two entries of a line the mixture is a point of the line.       *)
LEMMA MixedOnLine ==
  ASSUME NEW s, IsGradient(s), NEW x \in 0..One - 1, NEW d,
         Straight(s, d, (x \div Steps) * Steps)
  PROVE  Lerp(Colors(s), x) = Steps * Curve(s, x) /\ Curve(s, x) \in Int
<1> DEFINE c == x \div Steps
           u == x % Steps
           e == c * Steps
           A == Colors(s)[c]
           B == Colors(s)[c + 1]
           m == Slope(s, d)
<1>1. /\ c \in 0..colors_n - 2 /\ u \in 0..Steps - 1 /\ x = e + u
      /\ e \in Nat /\ e + Steps <= One
  BY Entry
<1>2. Lerp(Colors(s), x) = A * (Steps - u) + B * u  BY Mixed
<1>3. /\ m \in Int /\ A = OnLine(s, d, e) /\ A \in Int /\ B = A + m * Steps
  <2>1. Straight(s, d, c * Steps)  OBVIOUS
  <2> HIDE DEF c
  <2> QED  BY <1>1, <2>1, StraightColors
<1> HIDE DEF c, u
<1>4. d \in Segments(s) /\ Within(s, d, e) /\ Within(s, d, e + Steps)  BY DEF Straight, c
<1> HIDE DEF e, A, B, m
<1>5. Curve(s, x) = A + m * u
  <2>1. d \in 1..Len(s) /\ d + 1 \in 1..Len(s)  BY <1>4, Slopes
  <2>2. s[d].w \in Nat /\ s[d + 1].w \in Nat  BY <2>1, Stops
  <2>3. Within(s, d, x)  BY <1>1, <1>4, <2>2, Sizes DEF Within
  <2>4. x \in Int /\ e \in Int /\ u \in Int  BY <1>1, Sizes
  <2>5. Curve(s, x) = OnLine(s, d, x)  BY <1>4, <2>3, <2>4, CurveIs
  <2>6. OnLine(s, d, e + u) = OnLine(s, d, e) + Slope(s, d) * u  BY <1>4, <2>4, LineGoesOn
  <2> QED  BY <1>1, <1>3, <2>5, <2>6 DEF m
<1>6. A * (Steps - u) + (A + m * Steps) * u = Steps * (A + m * u)
  <2>1. u \in Int /\ Steps \in Int /\ m * Steps \in Int /\ m * u \in Int
    BY <1>1, <1>3, Sizes, Regroup
  <2>2. A * (Steps - u) = A * Steps - A * u  BY <1>3, <2>1, Regroup
  <2>3. (A + m * Steps) * u = A * u + (m * Steps) * u  BY <1>3, <2>1, Regroup
  <2>4. Steps * (A + m * u) = Steps * A + Steps * (m * u)  BY <1>3, <2>1, Regroup
  <2>5. (m * Steps) * u = (Steps * m) * u /\ Steps * (m * u) = (Steps * m) * u
    BY <1>3, <2>1, Regroup
  <2>6. A * Steps \in Int /\ A * u \in Int /\ (m * Steps) * u \in Int /\ Steps * A = A * Steps
    BY <1>3, <2>1, Regroup
  <2> QED  BY <2>2, <2>3, <2>4, <2>5, <2>6
<1>7. A + m * u \in Int  BY <1>1, <1>3, Sizes, Regroup
<1> QED  BY <1>2, <1>3, <1>5, <1>6, <1>7

(* How far a mixture of V - m * a and V + n * b, with a + b = S, is from   *)
(* the corner at V between them: before it and behind it.                  *)
LEMMA CutBefore ==
  ASSUME NEW V \in Int, NEW m \in Int, NEW n \in Int, NEW a \in Nat, NEW b \in Nat,
         NEW u \in Nat
  PROVE  ((V - m * a) * ((a + b) - u) + (V + n * b) * u) - (a + b) * (V - m * (a - u))
           = (n - m) * (b * u)
<1> DEFINE S == a + b
           P == m * a
           Q == n * b
           R == m * (a - u)
<1>1. P \in Int /\ Q \in Int /\ R \in Int /\ S \in Int  BY Regroup
<1>2. R = P - m * u /\ m * u \in Int  BY Regroup
<1> HIDE DEF P, Q, R, S
<1>3. (V - P) * (S - u) = (V - P) * S - (V - P) * u  BY <1>1, Regroup
<1>4. (V - P) * S = V * S - P * S /\ (V - P) * u = V * u - P * u  BY <1>1, Regroup
<1>5. (V + Q) * u = V * u + Q * u  BY <1>1, Regroup
<1>6. S * (V - R) = S * V - S * R  BY <1>1, Regroup
<1>7. S * R = S * P - S * (m * u)  BY <1>1, <1>2, Regroup
<1>8. /\ V * S \in Int /\ P * S \in Int /\ V * u \in Int /\ P * u \in Int /\ Q * u \in Int
      /\ S * (m * u) \in Int /\ S * V = V * S /\ S * P = P * S
  BY <1>1, <1>2, Regroup
<1>9. ((V - P) * (S - u) + (V + Q) * u) - S * (V - R) = P * u + Q * u - S * (m * u)
  BY <1>1, <1>3, <1>4, <1>5, <1>6, <1>7, <1>8
<1>10. P * u + Q * u - S * (m * u) = (n - m) * (b * u)
  <2>1. P * u = m * (a * u) /\ Q * u = n * (b * u)  BY Regroup DEF P, Q
  <2>2. S * (m * u) = m * (S * u)
    <3>1. S * (m * u) = (S * m) * u /\ S * m = m * S /\ m * (S * u) = (m * S) * u
      BY <1>1, Regroup
    <3> QED  BY <3>1
  <2>3. S * u = a * u + b * u  BY Regroup DEF S
  <2>4. a * u \in Int /\ b * u \in Int  BY Regroup
  <2>5. m * (a * u + b * u) = m * (a * u) + m * (b * u)  BY <2>4, Regroup
  <2>6. (n - m) * (b * u) = n * (b * u) - m * (b * u)  BY <2>4, Regroup
  <2>7. m * (a * u) \in Int /\ m * (b * u) \in Int /\ n * (b * u) \in Int  BY <2>4, Regroup
  <2> QED  BY <2>1, <2>2, <2>3, <2>5, <2>6, <2>7
<1> QED  BY <1>9, <1>10 DEF P, Q, R, S

LEMMA CutBehind ==
  ASSUME NEW V \in Int, NEW m \in Int, NEW n \in Int, NEW a \in Nat, NEW b \in Nat,
         NEW u \in Nat
  PROVE  ((V - m * a) * ((a + b) - u) + (V + n * b) * u) - (a + b) * (V + n * (u - a))
           = (n - m) * (a * ((a + b) - u))
<1> DEFINE S == a + b
           z == S - u
           P == m * a
           Q == n * b
           R == n * (u - a)
<1>1. P \in Int /\ Q \in Int /\ R \in Int /\ S \in Int /\ z \in Int /\ u = S - z  BY Regroup
<1>2. R = Q - n * z
  <2>1. u - a = b - z  OBVIOUS
  <2>2. n * (b - z) = n * b - n * z  BY <1>1, Regroup
  <2> QED  BY <2>1, <2>2
<1>3. n * z \in Int  BY <1>1, Regroup
<1>4. S * z = a * z + b * z /\ a * z \in Int /\ b * z \in Int  BY <1>1, Regroup
<1>5. P * z = m * (a * z) /\ Q * z = n * (b * z)  BY <1>1, Regroup
<1> HIDE DEF P, Q, R, S, z
<1>6. (V + Q) * u = (V + Q) * S - (V + Q) * z  BY <1>1, Regroup
<1>7. (V - P) * z = V * z - P * z /\ (V + Q) * z = V * z + Q * z /\ (V + Q) * S = V * S + Q * S
  BY <1>1, Regroup
<1>8. S * (V + R) = S * V + S * R /\ S * R = S * Q - S * (n * z)
  BY <1>1, <1>2, <1>3, Regroup
<1>9. /\ V * S \in Int /\ Q * S \in Int /\ V * z \in Int /\ P * z \in Int /\ Q * z \in Int
      /\ S * (n * z) \in Int /\ S * V = V * S /\ S * Q = Q * S
  BY <1>1, <1>3, Regroup
<1>10. ((V - P) * z + (V + Q) * u) - S * (V + R) = S * (n * z) - P * z - Q * z
  BY <1>1, <1>6, <1>7, <1>8, <1>9
<1>11. S * (n * z) = n * (a * z) + n * (b * z)
  <2>1. S * (n * z) = (S * n) * z /\ S * n = n * S /\ n * (S * z) = (n * S) * z
    BY <1>1, Regroup
  <2>2. n * (a * z + b * z) = n * (a * z) + n * (b * z)  BY <1>4, Regroup
  <2> QED  BY <1>4, <2>1, <2>2
<1>12. (n - m) * (a * z) = n * (a * z) - m * (a * z)  BY <1>4, Regroup
<1>13. n * (a * z) \in Int /\ m * (a * z) \in Int /\ n * (b * z) \in Int  BY <1>4, Regroup
<1>14. ((V - P) * z + (V + Q) * u) - S * (V + R) = (n - m) * (a * z)
  BY <1>5, <1>10, <1>11, <1>12, <1>13
<1> QED  BY <1>14 DEF P, Q, R, S, z

(* Neither is more than a quarter of the bend.                             *)
LEMMA QuarterOfBend ==
  ASSUME NEW k \in Int, NEW a \in Nat, NEW b \in Nat, NEW n \in Nat, n <= a * b
  PROVE  4 * Magnitude(k * n) <= Magnitude(k) * ((a + b) * (a + b))
<1>1. Magnitude(k * n) = Magnitude(k) * n  BY MagnitudeOfProduct
<1> DEFINE K == Magnitude(k)
           Q == (a + b) * (a + b)
           p == a * b
<1>2. K \in Nat  BY MagnitudeType
<1>3. 4 * p <= Q  BY FourProducts
<1>4. p \in Int /\ Q \in Int  BY Regroup
<1> HIDE DEF K, Q, p
<1>5. 4 * n <= Q  BY <1>3, <1>4 DEF p
<1>6. (4 * n) * K <= Q * K  BY <1>2, <1>4, <1>5, TimesGrows
<1>7. (4 * n) * K = 4 * (K * n) /\ Q * K = K * Q
  <2>1. 4 * (n * K) = (4 * n) * K  BY <1>2, Regroup
  <2> QED  BY <1>2, <1>4, <2>1
<1> QED  BY <1>1, <1>6, <1>7 DEF K, Q

LEMMA MixedAtCorner ==
  ASSUME NEW s, IsGradient(s), NEW x \in 0..One - 1, NEW d,
         CornerAfter(s, d, (x \div Steps) * Steps)
  PROVE  4 * Magnitude(Lerp(Colors(s), x) - Steps * Curve(s, x)) <= Bend(s, x) * (Steps * Steps)
<1> DEFINE c == x \div Steps
           u == x % Steps
           e == c * Steps
           V == s[d + 1].v
           p == s[d + 1].w
           m == Slope(s, d)
           n == Slope(s, d + 1)
           a == p - e
           b == e + Steps - p
<1>1. /\ c \in 0..colors_n - 2 /\ u \in 0..Steps - 1 /\ x = e + u
      /\ e \in Nat /\ (c + 1) * Steps = e + Steps
  BY Entry
<1>2. Lerp(Colors(s), x) = Colors(s)[c] * (Steps - u) + Colors(s)[c + 1] * u  BY Mixed
<1>3. CornerAfter(s, d, c * Steps)  OBVIOUS
<1>4. d + 1 \in Corners(s, x) => Magnitude(n - m) <= Bend(s, x)
  <2>1. x \in Int  BY Sizes
  <2>2. ASSUME NEW f \in Corners(s, x) PROVE Magnitude(Slope(s, f) - Slope(s, f - 1)) <= Bend(s, x)
    BY <2>1, BendIs
  <2>3. SUFFICES ASSUME d + 1 \in Corners(s, x) PROVE Magnitude(n - m) <= Bend(s, x)
    OBVIOUS
  <2>4. d \in Int  BY DEF CornerAfter, Segments
  <2> DEFINE h == d + 1
  <2>5. h \in Corners(s, x) /\ h - 1 = d  BY <2>3, <2>4
  <2> HIDE DEF h
  <2>6. Magnitude(Slope(s, h) - Slope(s, h - 1)) <= Bend(s, x)  BY <2>2, <2>5
  <2> QED  BY <2>5, <2>6 DEF h
<1>5. d + 1 \in Corners(s, x)
  <2>1. d \in 1..Len(s) - 1 /\ d + 1 \in 1..Len(s) - 1 /\ e < p /\ p < e + Steps
    BY DEF CornerAfter, Segments
  <2>2. d + 1 \in 2..Len(s) - 1  BY <2>1, Stops
  <2>3. (x \div Steps) * Steps < s[d + 1].w /\ s[d + 1].w < (x \div Steps + 1) * Steps
    BY <1>1, <2>1
  <2> QED  BY <2>2, <2>3 DEF Corners
<1> HIDE DEF c, u
<1>6. /\ d \in Segments(s) /\ d + 1 \in Segments(s)
      /\ m \in Int /\ n \in Int /\ V \in Int
      /\ a \in Nat /\ b \in Nat /\ a + b = Steps
      /\ Colors(s)[c] = V - m * a /\ Colors(s)[c + 1] = V + n * b
  BY <1>1, <1>3, CornerColors
<1>7. p \in Nat
  <2>1. d + 1 \in 1..Len(s)  BY <1>6, Slopes
  <2> QED  BY <2>1, Stops
<1>8. Within(s, d, e) /\ Within(s, d + 1, e + Steps)  BY <1>3 DEF CornerAfter
<1>9. s[d].w \in Nat /\ s[d + 1 + 1].w \in Nat
  <2>1. d \in 1..Len(s) /\ d + 1 + 1 \in 1..Len(s)  BY <1>6, Slopes
  <2> QED  BY <2>1, Stops
<1> DEFINE k == n - m
           L == Lerp(Colors(s), x) - Steps * Curve(s, x)
<1>10. \E w \in Nat : w <= a * b /\ L = k * w
  <2>1. CASE u <= a
    <3>1. Within(s, d, x)  BY <1>1, <1>7, <1>8, <1>9, <2>1 DEF Within
    <3>2. Curve(s, x) = V - m * (a - u)
      <4>1. x \in Int /\ p \in Int /\ x = p + (u - a)  BY <1>1, <1>7, Sizes
      <4>2. Curve(s, x) = OnLine(s, d, x)  BY <1>6, <3>1, <4>1, CurveIs
      <4> DEFINE j == u - a
      <4>3. j \in Int  BY <1>1, <1>6, Sizes
      <4>4. OnLine(s, d, p + j) = OnLine(s, d, p) + m * j
        <5>1. m = Slope(s, d) /\ d \in Segments(s)  BY <1>6
        <5> HIDE DEF j, m, p, a, e, V
        <5>2. p \in Int  BY <4>1
        <5> QED  BY <4>3, <5>1, <5>2, LineGoesOn
      <4>5. OnLine(s, d, p) = V  BY <1>6, StopsAreOnLine
      <4>6. m * j = -(m * (a - u))
        <5> HIDE DEF m, a
        <5>1. m * (a - u) = m * a - m * u /\ m * (u - a) = m * u - m * a
              /\ m * a \in Int /\ m * u \in Int
          BY <1>1, <1>6, Sizes, Regroup
        <5> QED  BY <5>1
      <4>7. m * (a - u) \in Int
        <5> HIDE DEF m, a
        <5> QED  BY <1>1, <1>6, Sizes, Regroup
      <4> HIDE DEF m, a, V, j
      <4> QED  BY <1>6, <4>1, <4>2, <4>4, <4>5, <4>6, <4>7 DEF j
    <3> HIDE DEF m, n, a, b, V, e, p
    <3>3. u \in Nat  BY <1>1, Sizes
    <3>4. ((V - m * a) * ((a + b) - u) + (V + n * b) * u) - (a + b) * (V - m * (a - u))
            = (n - m) * (b * u)
      BY <1>6, <3>3, CutBefore
    <3>5. L = k * (b * u)  BY <1>2, <1>6, <3>2, <3>4
    <3>6. b * u \in Nat /\ b * u <= a * b
      <4>1. u * b <= a * b  BY <1>6, <2>1, <3>3, TimesGrows
      <4>2. b * u = u * b /\ b * u \in Nat  BY <1>6, <3>3
      <4> QED  BY <4>1, <4>2
    <3> QED  BY <3>5, <3>6
  <2>2. CASE a <= u
    <3>1. Within(s, d + 1, x)  BY <1>1, <1>7, <1>8, <1>9, <2>2, Sizes DEF Within
    <3>2. Curve(s, x) = V + n * (u - a)
      <4>1. x \in Int /\ p \in Int /\ x = p + (u - a)  BY <1>1, <1>7, Sizes
      <4>2. Curve(s, x) = OnLine(s, d + 1, x)  BY <1>6, <3>1, <4>1, CurveIs
      <4> DEFINE j == u - a
                 h == d + 1
      <4>3. j \in Int  BY <1>1, <1>6, Sizes
      <4>4. OnLine(s, h, p + j) = OnLine(s, h, p) + n * j
        <5>1. h \in Segments(s) /\ n = Slope(s, h)  BY <1>6
        <5> HIDE DEF j, h, n
        <5> QED  BY <4>1, <4>3, <5>1, LineGoesOn
      <4>5. OnLine(s, h, p) = V
        <5>1. h \in Segments(s) /\ p = s[h].w /\ V = s[h].v  BY <1>6
        <5> HIDE DEF h, p, V
        <5> QED  BY <5>1, StopsAreOnLine
      <4> HIDE DEF n, a, V
      <4> QED  BY <4>1, <4>2, <4>4, <4>5
    <3> HIDE DEF m, n, a, b, V, e, p
    <3>3. u \in Nat  BY <1>1, Sizes
    <3>4. ((V - m * a) * ((a + b) - u) + (V + n * b) * u) - (a + b) * (V + n * (u - a))
            = (n - m) * (a * ((a + b) - u))
      BY <1>6, <3>3, CutBehind
    <3> DEFINE z == Steps - u
    <3>5. L = k * (a * z)  BY <1>2, <1>6, <3>2, <3>4
    <3>6. z \in Nat /\ z <= b  BY <1>1, <1>6, <2>2, <3>3, Sizes
    <3>7. a * z \in Nat /\ a * z <= a * b
      <4> HIDE DEF z
      <4>1. z * a <= b * a  BY <1>6, <3>6, TimesGrows
      <4>2. z * a = a * z /\ b * a = a * b /\ a * z \in Nat  BY <1>6, <3>6
      <4> QED  BY <4>1, <4>2
    <3> QED  BY <3>5, <3>7
  <2> QED  BY <1>1, <1>6, <2>1, <2>2, Sizes
<1>11. PICK w \in Nat : w <= a * b /\ L = k * w  BY <1>10
<1>12. k \in Int  BY <1>6
<1>13. Magnitude(k) <= Bend(s, x)  BY <1>4, <1>5
<1> HIDE DEF a, b, k, L, m, n
<1>14. 4 * Magnitude(L) <= Magnitude(k) * (Steps * Steps)
  <2>1. 4 * Magnitude(k * w) <= Magnitude(k) * ((a + b) * (a + b))
    BY <1>6, <1>11, <1>12, QuarterOfBend
  <2> QED  BY <1>6, <1>11, <2>1
<1>15. Magnitude(k) * (Steps * Steps) <= Bend(s, x) * (Steps * Steps)
  <2> DEFINE Q == Steps * Steps
             B == Bend(s, x)
             K == Magnitude(k)
  <2>1. Q \in Nat  BY Sizes
  <2>2. K \in Int  BY <1>12, MagnitudeType
  <2>3. x \in Int  BY Sizes
  <2>4. B \in Int  BY <2>3, BendIs
  <2>5. K <= B  BY <1>13
  <2> HIDE DEF Q, B, K
  <2>6. K * Q <= B * Q  BY <2>1, <2>2, <2>4, <2>5, TimesGrows
  <2> QED  BY <2>6 DEF Q, B, K
<1>16. /\ Magnitude(k) * (Steps * Steps) \in Int /\ Bend(s, x) * (Steps * Steps) \in Int
       /\ Magnitude(L) \in Int
  <2>1. Magnitude(k) \in Int /\ Steps * Steps \in Int  BY <1>12, MagnitudeType, Sizes, Regroup
  <2>2. x \in Int  BY Sizes
  <2>3. Bend(s, x) \in Int  BY <2>2, BendIs
  <2>4. L \in Int  BY <1>11, <1>12, Regroup
  <2>5. Magnitude(L) \in Int  BY <2>4, MagnitudeType
  <2> QED  BY <2>1, <2>3, <2>5, Regroup
<1>17. 4 * Magnitude(L) <= Bend(s, x) * (Steps * Steps)  BY <1>14, <1>15, <1>16
<1> QED  BY <1>17 DEF L

(* Anywhere: the mixture is the curve's colour but for a quarter of what   *)
(* the curve bends there.                                                  *)
LEMMA LerpIsNearTheCurve ==
  ASSUME NEW s, IsGradient(s), NEW x \in 0..One
  PROVE  4 * Magnitude(Lerp(Colors(s), x) - Steps * Curve(s, x)) <= Bend(s, x) * (Steps * Steps)
<1>1. Bend(s, x) * (Steps * Steps) \in Nat
  <2>1. x \in Int  BY Sizes
  <2>2. Bend(s, x) \in Nat /\ Steps * Steps \in Nat  BY <2>1, BendIs, Sizes
  <2> DEFINE Q == Steps * Steps
             B == Bend(s, x)
  <2>3. B \in Nat /\ Q \in Nat  BY <2>2
  <2> HIDE DEF B, Q
  <2>4. B * Q \in Nat  BY <2>3
  <2> QED  BY <2>4 DEF B, Q
<1>2. ASSUME Lerp(Colors(s), x) = Steps * Curve(s, x), Steps * Curve(s, x) \in Int
      PROVE  4 * Magnitude(Lerp(Colors(s), x) - Steps * Curve(s, x)) <= Bend(s, x) * (Steps * Steps)
  <2>1. Lerp(Colors(s), x) - Steps * Curve(s, x) = 0  BY <1>2
  <2>2. Magnitude(0) = 0  BY DEF Magnitude
  <2> QED  BY <1>1, <2>1, <2>2
<1>3. CASE x = One
  <2>1. colors_n - 1 \in 0..colors_n - 1  BY Sizes
  <2>2. Lerp(Colors(s), (colors_n - 1) * Steps) = Colors(s)[colors_n - 1] * Steps
    BY <2>1, AtEntry
  <2>3. Colors(s)[colors_n - 1] = Curve(s, One) /\ Colors(s)[colors_n - 1] \in Int
    BY <2>1, Ends, ColorsType
  <2>4. Colors(s)[colors_n - 1] * Steps = Steps * Colors(s)[colors_n - 1]
        /\ Steps * Colors(s)[colors_n - 1] \in Int
    BY <2>3, Sizes
  <2> QED  BY <1>2, <1>3, <2>2, <2>3, <2>4 DEF One
<1>4. CASE x # One
  <2> DEFINE e == (x \div Steps) * Steps
  <2>1. x \in 0..One - 1  BY <1>4, Sizes
  <2>2. e \in Nat /\ e + Steps <= One  BY <2>1, Entry
  <2>3. PICK d \in Segments(s) : Straight(s, d, e) \/ CornerAfter(s, d, e)
    <3> HIDE DEF e
    <3> QED  BY <2>2, TwoEntries
  <2>4. CASE Straight(s, d, e)
    <3>1. Lerp(Colors(s), x) = Steps * Curve(s, x) /\ Curve(s, x) \in Int
      BY <2>1, <2>4, MixedOnLine
    <3> QED  BY <1>2, <3>1, Sizes, Regroup
  <2>5. CASE CornerAfter(s, d, e)  BY <2>1, <2>5, MixedAtCorner
  <2> QED  BY <2>3, <2>4, <2>5
<1> QED  BY <1>3, <1>4

(* Two entries, and so two neighbouring places, have neighbouring colours. *)
LEMMA EntriesAreClose ==
  ASSUME NEW s, IsGradient(s), NEW c \in 0..colors_n - 2
  PROVE  Magnitude(Colors(s)[c + 1] - Colors(s)[c]) <= Steepest(s) * Steps
<1> DEFINE e == c * Steps
           B == Steepest(s)
<1>1. e \in Nat /\ e + Steps <= One
  <2>1. c \in 0..colors_n - 1 /\ c + 1 \in 0..colors_n - 1  BY Sizes
  <2>2. e \in 0..One  BY <2>1, EntriesAreInside
  <2>3. (c + 1) * Steps \in 0..One
    <3> DEFINE g == c + 1
    <3> HIDE DEF g
    <3>1. g * Steps \in 0..One  BY <2>1, EntriesAreInside DEF g
    <3> QED  BY <3>1 DEF g
  <2>4. (c + 1) * Steps = c * Steps + 1 * Steps  BY Sizes, Regroup
  <2> QED  BY <2>2, <2>3, <2>4, Sizes
<1>2. PICK d \in Segments(s) : Straight(s, d, e) \/ CornerAfter(s, d, e)
  <2> HIDE DEF e
  <2> QED  BY <1>1, TwoEntries
<1>3. B \in Nat  BY SteepestIs
<1>4. CASE Straight(s, d, e)
  <2> DEFINE m == Slope(s, d)
  <2>1. m \in Int /\ Colors(s)[c] \in Int /\ Colors(s)[c + 1] = Colors(s)[c] + m * Steps
    BY <1>4, StraightColors
  <2>2. Magnitude(m) <= B  BY <1>2, SteepestIs
  <2> HIDE DEF m, B
  <2>3. m * Steps \in Int  BY <2>1, Sizes, Regroup
  <2>4. Colors(s)[c + 1] - Colors(s)[c] = m * Steps  BY <2>1, <2>3
  <2>5. Magnitude(m * Steps) = Magnitude(m) * Steps  BY <2>1, MagnitudeOfProduct, Sizes
  <2>6. Magnitude(m) * Steps <= B * Steps
    BY <1>3, <2>1, <2>2, MagnitudeType, TimesGrows, Sizes
  <2> QED  BY <2>4, <2>5, <2>6 DEF B
<1>5. CASE CornerAfter(s, d, e)
  <2> DEFINE m == Slope(s, d)
             n == Slope(s, d + 1)
             a == s[d + 1].w - e
             b == e + Steps - s[d + 1].w
             V == s[d + 1].v
  <2>1. /\ d + 1 \in Segments(s)
        /\ m \in Int /\ n \in Int /\ V \in Int
        /\ a \in Nat /\ b \in Nat /\ a + b = Steps
        /\ Colors(s)[c] = V - m * a /\ Colors(s)[c + 1] = V + n * b
    BY <1>5, CornerColors
  <2>2. Magnitude(m) <= B /\ Magnitude(n) <= B  BY <1>2, <2>1, SteepestIs
  <2> HIDE DEF m, n, a, b, V, B
  <2>3. m * a \in Int /\ n * b \in Int  BY <2>1, Regroup
  <2>4. Colors(s)[c + 1] - Colors(s)[c] = m * a + n * b  BY <2>1, <2>3
  <2>5. Magnitude(m * a) = Magnitude(m) * a /\ Magnitude(n * b) = Magnitude(n) * b
    BY <2>1, MagnitudeOfProduct
  <2>6. Magnitude(m) * a <= B * a /\ Magnitude(n) * b <= B * b
    BY <1>3, <2>1, <2>2, MagnitudeType, TimesGrows
  <2>7. B * Steps = B * a + B * b /\ B * a \in Int /\ B * b \in Int
    BY <1>3, <2>1, Regroup
  <2>8. Magnitude(m * a + n * b) <= Magnitude(m * a) + Magnitude(n * b)
    BY <2>3 DEF Magnitude
  <2>9. Magnitude(m * a) \in Int /\ Magnitude(n * b) \in Int /\ Magnitude(m * a + n * b) \in Int
    BY <2>3, MagnitudeType
  <2>10. Magnitude(m * a + n * b) <= B * Steps
    <3> DEFINE X == Magnitude(m * a)
               Y == Magnitude(n * b)
               Z == Magnitude(m * a + n * b)
               F == B * a
               G == B * b
    <3>1. X <= F /\ Y <= G  BY <2>5, <2>6
    <3>2. X \in Int /\ Y \in Int /\ Z \in Int /\ F \in Int /\ G \in Int /\ Z <= X + Y
      BY <2>7, <2>8, <2>9
    <3>3. B * Steps = F + G  BY <2>7
    <3> HIDE DEF X, Y, Z, F, G
    <3>4. Z <= B * Steps  BY <3>1, <3>2, <3>3
    <3> QED  BY <3>4 DEF Z
  <2> QED  BY <2>4, <2>10 DEF B
<1> QED  BY <1>2, <1>4, <1>5

LEMMA NextLookUp ==
  ASSUME NEW s, IsGradient(s), NEW x \in 0..One - 1
  PROVE  /\ Lerp(Colors(s), x) \in Int /\ Lerp(Colors(s), x + 1) \in Int
         /\ Magnitude(Lerp(Colors(s), x + 1) - Lerp(Colors(s), x)) <= Steepest(s) * Steps
<1> DEFINE c == x \div Steps
           u == x % Steps
           A == Colors(s)[c]
           B == Colors(s)[c + 1]
<1>1. /\ c \in 0..colors_n - 2 /\ u \in 0..Steps - 1 /\ x = c * Steps + u
      /\ (c + 1) * Steps = c * Steps + Steps /\ c * Steps \in Nat /\ c * Steps + Steps <= One
  BY Entry
<1>2. Lerp(Colors(s), x) = A * (Steps - u) + B * u /\ A \in Int /\ B \in Int  BY Mixed
<1> HIDE DEF c, u
<1>3. Magnitude(B - A) <= Steepest(s) * Steps  BY <1>1, EntriesAreClose
<1>4. Lerp(Colors(s), x + 1) = A * (Steps - u - 1) + B * (u + 1)
  <2>1. CASE u + 1 <= Steps - 1
    <3> DEFINE y == x + 1
    <3>1. y \in Int /\ y = c * Steps + (u + 1) /\ u + 1 \in 0..Steps - 1
      BY <1>1, <2>1, Sizes
    <3>2. y \div Steps = c /\ y % Steps = u + 1
      <4> DEFINE v == u + 1
      <4>1. v \in 0..Steps - 1 /\ y = c * Steps + v /\ c \in Int  BY <1>1, <3>1
      <4> HIDE DEF v, y
      <4>2. y \div Steps = c /\ y % Steps = v  BY <3>1, <4>1, DivUnique, Sizes
      <4> QED  BY <4>2 DEF v
    <3>3. y \in 0..One - 1  BY <1>1, <3>1, Sizes
    <3> HIDE DEF y
    <3>4. Lerp(Colors(s), y) = Colors(s)[c] * (Steps - (u + 1)) + Colors(s)[c + 1] * (u + 1)
      BY <3>2, <3>3, Mixed
    <3>5. Steps - (u + 1) = Steps - u - 1  BY <1>1, Sizes
    <3> QED  BY <3>4, <3>5 DEF y
  <2>2. CASE u = Steps - 1
    <3>1. x + 1 = (c + 1) * Steps  BY <1>1, <2>2, Sizes
    <3>2. c + 1 \in 0..colors_n - 1  BY <1>1, Sizes
    <3>3. Lerp(Colors(s), (c + 1) * Steps) = B * Steps
      <4> DEFINE g == c + 1
      <4>1. g \in 0..colors_n - 1  BY <3>2
      <4> HIDE DEF g
      <4>2. Lerp(Colors(s), g * Steps) = Colors(s)[g] * Steps  BY <4>1, AtEntry
      <4> QED  BY <4>2 DEF g
    <3>4. Steps - u - 1 = 0 /\ u + 1 = Steps /\ A * 0 = 0  BY <1>2, <2>2, Sizes
    <3>5. B * Steps \in Int  BY <1>2, Sizes, Regroup
    <3> QED  BY <3>1, <3>3, <3>4, <3>5
  <2> QED  BY <1>1, <2>1, <2>2, Sizes
<1> HIDE DEF A, B
<1>5. A * (Steps - u - 1) = A * (Steps - u) - A * 1 /\ A * (Steps - u) \in Int
  <2>1. Steps - u \in Int  BY <1>1, Sizes
  <2> QED  BY <1>2, <2>1, Regroup
<1>6. B * (u + 1) = B * u + B * 1 /\ B * u \in Int
  <2>1. u \in Int  BY <1>1, Sizes
  <2> QED  BY <1>2, <2>1, Regroup
<1>7. Lerp(Colors(s), x + 1) - Lerp(Colors(s), x) = B - A
  BY <1>2, <1>4, <1>5, <1>6
<1>8. Lerp(Colors(s), x) \in Int /\ Lerp(Colors(s), x + 1) \in Int
  BY <1>2, <1>4, <1>5, <1>6
<1> QED  BY <1>3, <1>7, <1>8

LEMMA NearLookUps ==
  ASSUME NEW s, IsGradient(s), NEW x \in 0..One, NEW y \in 0..One, Magnitude(y - x) <= 1
  PROVE  Magnitude(Lerp(Colors(s), y) - Lerp(Colors(s), x)) <= Steepest(s) * Steps
<1>1. x \in Int /\ y \in Int  BY Sizes
<1>2. y = x \/ y = x + 1 \/ x = y + 1  BY <1>1 DEF Magnitude
<1>3. CASE y = x
  <2>1. Lerp(Colors(s), x) \in Int
    <3>1. CASE x = One
      <4>1. One - 1 \in 0..One - 1 /\ One - 1 + 1 = One  BY Sizes
      <4>2. PICK z \in 0..One - 1 : z + 1 = One  BY <4>1
      <4> QED  BY <3>1, <4>2, NextLookUp
    <3>2. CASE x # One  BY <3>2, NextLookUp, Sizes
    <3> QED  BY <3>1, <3>2
  <2>2. Magnitude(Lerp(Colors(s), y) - Lerp(Colors(s), x)) = 0  BY <1>3, <2>1 DEF Magnitude
  <2>3. Steepest(s) * Steps \in Nat
    <3> DEFINE B == Steepest(s)
    <3>1. B \in Nat  BY SteepestIs
    <3> HIDE DEF B
    <3>2. B * Steps \in Nat  BY <3>1, Sizes
    <3> QED  BY <3>2 DEF B
  <2> QED  BY <2>2, <2>3
<1>4. CASE y = x + 1
  <2>1. x \in 0..One - 1  BY <1>1, <1>4, Sizes
  <2> QED  BY <1>4, <2>1, NextLookUp
<1>5. CASE x = y + 1
  <2>1. y \in 0..One - 1  BY <1>1, <1>5, Sizes
  <2>2. /\ Lerp(Colors(s), y) \in Int /\ Lerp(Colors(s), x) \in Int
        /\ Magnitude(Lerp(Colors(s), x) - Lerp(Colors(s), y)) <= Steepest(s) * Steps
    BY <1>5, <2>1, NextLookUp
  <2>3. Magnitude(Lerp(Colors(s), y) - Lerp(Colors(s), x))
          = Magnitude(Lerp(Colors(s), x) - Lerp(Colors(s), y))
    BY <2>2 DEF Magnitude
  <2> QED  BY <2>2, <2>3
<1> QED  BY <1>2, <1>3, <1>4, <1>5

-----------------------------------------------------------------------------
(* The places that positions stand for.                                    *)

Rest(x) == Magnitude(x) % One
Table(x) == Magnitude(x) \div One

(* The position in the table that a look-up comes to.                      *)
Inside(method, x) ==
  CASE method = "repeat"  -> Rest(x)
    [] method = "reflect" -> IF Table(x) % 2 = 0 THEN Rest(x) ELSE One - Rest(x)
    [] method = "clamp"   -> IF x <= 0 THEN 0 ELSE IF x >= One THEN One ELSE x

LEMMA RestAndTable ==
  ASSUME NEW x \in Int
  PROVE  /\ Magnitude(x) \in Nat /\ Rest(x) \in 0..One - 1 /\ Table(x) \in Nat
         /\ Magnitude(x) = Table(x) * One + Rest(x)
<1>1. Magnitude(x) \in Nat  BY DEF Magnitude
<1> DEFINE q == Table(x)
           r == Rest(x)
<1>2. q \in Int /\ r \in 0..One - 1 /\ Magnitude(x) = q * One + r
  <2> DEFINE m == Magnitude(x)
  <2>1. m \in Int  BY <1>1
  <2>2. q = m \div One /\ r = m % One  BY DEF Rest, Table
  <2> HIDE DEF m, q, r
  <2>3. m \div One \in Int /\ m % One \in 0..One - 1 /\ m = (m \div One) * One + (m % One)
    BY <2>1, DivMod, Sizes
  <2> QED  BY <2>2, <2>3 DEF m
<1>3. q >= 0
  <2> HIDE DEF q, r
  <2>1. SUFFICES ASSUME q + 1 <= 0 PROVE FALSE  BY <1>2
  <2>2. (q + 1) * One <= 0 * One  BY <1>2, <2>1, TimesGrows, Sizes
  <2>3. (q + 1) * One = q * One + 1 * One /\ q * One \in Int  BY <1>2, Regroup, Sizes
  <2> QED  BY <1>1, <1>2, <2>2, <2>3, Sizes
<1> QED  BY <1>1, <1>2, <1>3

LEMMA InsideType ==
  ASSUME NEW x \in Int, NEW method \in {"repeat", "reflect", "clamp"}
  PROVE  Inside(method, x) \in 0..One
<1>1. CASE method = "repeat"  BY <1>1, RestAndTable, Sizes DEF Inside
<1>2. CASE method = "reflect"  BY <1>2, RestAndTable, Sizes DEF Inside
<1>3. CASE method = "clamp"  BY <1>3, Sizes DEF Inside
<1> QED  BY <1>1, <1>2, <1>3

LEMMA ColorIs ==
  ASSUME NEW s, IsGradient(s), NEW x \in Int, NEW method \in {"repeat", "reflect", "clamp"}
  PROVE  Color(s, method, x) = Lerp(Colors(s), Inside(method, x))
<1>1. CASE method = "repeat"  BY <1>1 DEF Color, repeat, Inside, Rest
<1>2. CASE method = "reflect"  BY <1>2 DEF Color, reflect, Inside, Rest, Table
<1>3. CASE method = "clamp"
  <2>1. Color(s, method, x) = clamp(Colors(s), x)  BY <1>3 DEF Color
  <2>2. Lerp(Colors(s), 0) = Colors(s)[0] * Steps
    <3>1. 0 \in 0..colors_n - 1 /\ 0 * Steps = 0  BY Sizes
    <3>2. Lerp(Colors(s), 0 * Steps) = Colors(s)[0] * Steps  BY <3>1, AtEntry
    <3> QED  BY <3>1, <3>2
  <2>3. Lerp(Colors(s), One) = Colors(s)[colors_n - 1] * Steps
    <3>1. colors_n - 1 \in 0..colors_n - 1  BY Sizes
    <3> QED  BY <3>1, AtEntry DEF One
  <2> QED  BY <1>3, <2>1, <2>2, <2>3, Zenon DEF clamp, Inside
<1> QED  BY <1>1, <1>2, <1>3

(* How many whole tables can be between zero and a position.               *)
LEMMA TableIsCounted ==
  ASSUME NEW x \in -MaxPosition..MaxPosition
  PROVE  /\ MaxPosition \div One \in Nat
         /\ Table(x) <= MaxPosition \div One
<1> DEFINE m == MaxPosition \div One
           q == Table(x)
<1>1. MaxPosition \in Int /\ x \in Int /\ Magnitude(x) <= MaxPosition
  BY Sizes DEF Magnitude
<1>2. m \in Int /\ MaxPosition % One \in 0..One - 1 /\ MaxPosition = m * One + (MaxPosition % One)
  BY <1>1, DivMod, Sizes
<1>3. q \in Nat /\ Rest(x) \in 0..One - 1 /\ Magnitude(x) = q * One + Rest(x)
  BY <1>1, RestAndTable
<1>4. q <= m
  <2> HIDE DEF q, m
  <2>1. SUFFICES ASSUME m + 1 <= q PROVE FALSE  BY <1>2, <1>3
  <2>2. (m + 1) * One <= q * One  BY <1>2, <1>3, <2>1, TimesGrows, Sizes
  <2>3. (m + 1) * One = m * One + 1 * One /\ m * One \in Int /\ q * One \in Int
    BY <1>2, <1>3, Regroup, Sizes
  <2> QED  BY <1>1, <1>2, <1>3, <2>2, <2>3, Sizes
<1>5. m \in Nat  BY <1>2, <1>3, <1>4
<1> QED  BY <1>4, <1>5

LEMMA RepeatPlace ==
  ASSUME NEW x \in -MaxPosition..MaxPosition
  PROVE  Place("repeat", x) = Rest(x)
<1> DEFINE m == Magnitude(x)
           T == {m - n * One : n \in {k \in Tables : k * One <= m}}
           q == Table(x)
<1>1. x \in Int  OBVIOUS
<1>2. m \in Nat /\ Rest(x) \in 0..One - 1 /\ q \in Nat /\ m = q * One + Rest(x)
  BY <1>1, RestAndTable
<1>3. Place("repeat", x) = Min(T)  BY DEF Place
<1>4. q \in Tables  BY <1>2, TableIsCounted DEF Tables
<1>5. Rest(x) \in T
  <2> HIDE DEF q, m
  <2>1. q * One \in Int  BY <1>2, Sizes, Regroup
  <2> QED  BY <1>2, <1>4, <2>1, Sizes
<1>6. ASSUME NEW k \in Tables, k * One <= m PROVE m - k * One \in Int /\ Rest(x) <= m - k * One
  <2> HIDE DEF q, m
  <2>1. k \in Int  BY DEF Tables
  <2>2. k * One \in Int /\ q * One \in Int  BY <1>2, <2>1, Sizes, Regroup
  <2>3. k <= q
    <3>1. SUFFICES ASSUME q + 1 <= k PROVE FALSE  BY <1>2, <2>1
    <3>2. (q + 1) * One <= k * One  BY <1>2, <2>1, <3>1, TimesGrows, Sizes
    <3>3. (q + 1) * One = q * One + 1 * One  BY <1>2, Regroup, Sizes
    <3> QED  BY <1>2, <1>6, <2>2, <3>2, <3>3, Sizes
  <2>4. k * One <= q * One  BY <1>2, <2>1, <2>3, TimesGrows, Sizes
  <2> QED  BY <1>2, <2>2, <2>4, Sizes
<1>7. T \subseteq Int /\ \A j \in T : Rest(x) <= j  BY <1>6
<1> HIDE DEF T
<1> QED  BY <1>3, <1>5, <1>7, MinIs

LEMMA ReflectPlace ==
  ASSUME NEW x \in -MaxPosition..MaxPosition
  PROVE  Place("reflect", x) = Inside("reflect", x)
<1> DEFINE m == Magnitude(x)
           q == Table(x)
           r == Rest(x)
           t == IF q % 2 = 0 THEN r ELSE One - r
           h == q \div 2
           N == IF q % 2 = 0 THEN h ELSE h + 1
           Mirrors == Tables \cup {-k : k \in Tables}
           T == {Magnitude(x - 2 * n * One) : n \in Mirrors}
<1>1. x \in Int  OBVIOUS
<1>2. m \in Nat /\ r \in 0..One - 1 /\ q \in Nat /\ m = q * One + r
  BY <1>1, RestAndTable
<1>3. h \in Nat /\ q % 2 \in 0..1 /\ q = 2 * h + (q % 2)  BY <1>2
<1>4. Place("reflect", x) = Min(T) /\ Inside("reflect", x) = t  BY DEF Place, Inside
<1>5. Mirrors \subseteq Int  BY DEF Tables
<1>6. N \in Tables
  <2>1. q <= MaxPosition \div One /\ MaxPosition \div One \in Nat  BY TableIsCounted
  <2> HIDE DEF q, h
  <2> QED  BY <1>2, <1>3, <2>1 DEF Tables
<1>7. ASSUME NEW n \in Int
      PROVE  \E k \in Int : /\ k = (IF x >= 0 THEN n ELSE -n)
                           /\ Magnitude(x - 2 * n * One) = Magnitude(m - (2 * k) * One)
  <2> DEFINE k == IF x >= 0 THEN n ELSE -n
  <2>1. CASE x >= 0
    <3>1. m = x /\ k = n  BY <1>1, <2>1 DEF Magnitude
    <3> QED  BY <1>7, <3>1, <2>1
  <2>2. CASE ~(x >= 0)
    <3>1. m = -x /\ k = -n /\ k \in Int  BY <1>1, <1>7, <2>2 DEF Magnitude
    <3>2. (2 * k) * One = -((2 * n) * One) /\ (2 * n) * One \in Int  BY <1>7, <3>1, Sizes
    <3> HIDE DEF k, m
    <3>3. m - (2 * k) * One = -(x - (2 * n) * One)  BY <1>1, <3>1, <3>2
    <3>4. \A y \in Int : Magnitude(-y) = Magnitude(y)  BY DEF Magnitude
    <3>5. Magnitude(m - (2 * k) * One) = Magnitude(x - (2 * n) * One)  BY <1>1, <3>2, <3>3, <3>4
    <3> QED  BY <2>2, <3>1, <3>5 DEF k
  <2> QED  BY <2>1, <2>2
<1>8. Magnitude(m - (2 * N) * One) = t
  <2> HIDE DEF q, r, h, m
  <2>1. CASE q % 2 = 0
    <3>1. 2 * N = q  BY <1>3, <2>1
    <3>2. q * One \in Int  BY <1>2, Sizes, Regroup
    <3>3. m - (2 * N) * One = r  BY <1>2, <3>1, <3>2
    <3> QED  BY <1>2, <2>1, <3>3 DEF Magnitude
  <2>2. CASE q % 2 # 0
    <3>1. 2 * N = q + 1  BY <1>3, <2>2
    <3>2. q * One \in Int /\ (q + 1) * One = q * One + 1 * One  BY <1>2, Sizes, Regroup
    <3>3. m - (2 * N) * One = r - One  BY <1>2, <3>1, <3>2, Sizes
    <3> QED  BY <1>2, <2>2, <3>3, Sizes DEF Magnitude
  <2> QED  BY <2>1, <2>2
<1>9. ASSUME NEW k \in Int PROVE t <= Magnitude(m - (2 * k) * One)
  <2> HIDE DEF q, r, h, m
  <2> DEFINE j == 2 * k
  <2>1. j \in Int /\ j * One \in Int /\ q * One \in Int  BY <1>2, <1>9, Sizes, Regroup
  <2>2. j <= q - 1 \/ j = q \/ j >= q + 1  BY <1>2, <2>1
  <2>3. (j # q - 1 /\ j # q + 1) \/ q % 2 # 0  BY <1>3, <1>9
  <2>4. j # q \/ q % 2 = 0  BY <1>3, <1>9
  <2> HIDE DEF j
  <2>5. t \in 0..One  BY <1>2, <1>3, Sizes
  <2>6. CASE j = q
    <3>1. m - j * One = r  BY <1>2, <2>1, <2>6
    <3> QED  BY <1>2, <2>4, <2>6, <3>1 DEF Magnitude, j
  <2>7. CASE j <= q - 1
    <3>1. j * One <= (q - 1) * One  BY <1>2, <2>1, <2>7, TimesGrows, Sizes
    <3>2. (q - 1) * One = q * One - 1 * One  BY <1>2, Regroup, Sizes
    <3>3. m - j * One >= One  BY <1>2, <2>1, <3>1, <3>2, Sizes
    <3> QED  BY <1>2, <2>1, <2>5, <3>3, Sizes DEF Magnitude, j
  <2>8. CASE j >= q + 1
    <3>1. CASE q % 2 # 0
      <4>1. (q + 1) * One <= j * One  BY <1>2, <2>1, <2>8, TimesGrows, Sizes
      <4>2. (q + 1) * One = q * One + 1 * One  BY <1>2, Regroup, Sizes
      <4>3. j * One - m >= One - r  BY <1>2, <2>1, <4>1, <4>2, Sizes
      <4> QED  BY <1>2, <2>1, <3>1, <4>3, Sizes DEF Magnitude, j
    <3>2. CASE q % 2 = 0
      <4>0. j >= q + 2  BY <1>2, <2>1, <2>3, <2>8, <3>2
      <4>1. (q + 2) * One <= j * One  BY <1>2, <2>1, <4>0, TimesGrows, Sizes
      <4>2. (q + 2) * One = q * One + 2 * One  BY <1>2, Regroup, Sizes
      <4>3. j * One - m >= One  BY <1>2, <2>1, <4>1, <4>2, Sizes
      <4> QED  BY <1>2, <2>1, <2>5, <4>3, Sizes DEF Magnitude, j
    <3> QED  BY <3>1, <3>2
  <2> QED  BY <2>2, <2>6, <2>7, <2>8
<1>10. t \in T
  <2> DEFINE n == IF x >= 0 THEN N ELSE -N
  <2>1. n \in Mirrors /\ N \in Int  BY <1>6 DEF Tables
  <2>2. (IF x >= 0 THEN n ELSE -n) = N  BY <2>1
  <2> HIDE DEF n, Mirrors, N, t, m
  <2>3. Magnitude(x - 2 * n * One) = Magnitude(m - (2 * N) * One)
    BY <1>5, <1>7, <2>1, <2>2
  <2> QED  BY <1>8, <2>1, <2>3
<1>11. ASSUME NEW n \in Mirrors
       PROVE  Magnitude(x - 2 * n * One) \in Int /\ t <= Magnitude(x - 2 * n * One)
  <2> HIDE DEF Mirrors, t, m
  <2>1. PICK k \in Int : Magnitude(x - 2 * n * One) = Magnitude(m - (2 * k) * One)
    BY <1>5, <1>7
  <2>2. (2 * k) * One \in Int  BY Sizes
  <2>3. Magnitude(m - (2 * k) * One) \in Int  BY <1>2, <2>2 DEF Magnitude
  <2> QED  BY <1>9, <2>1, <2>3
<1>12. T \subseteq Int /\ \A j \in T : t <= j
  <2> HIDE DEF Mirrors, t
  <2> QED  BY <1>11
<1> HIDE DEF T, t
<1> QED  BY <1>4, <1>10, <1>12, MinIs

LEMMA ClampPlace ==
  ASSUME NEW x \in Int
  PROVE  Place("clamp", x) = Inside("clamp", x)
<1> DEFINE a == Min({x, One})
<1>1. Place("clamp", x) = Max({0, a})  BY DEF Place
<1>2. a = IF x <= One THEN x ELSE One
  <2> DEFINE T == {x, One}
  <2>1. T \subseteq Int  BY Sizes
  <2>2. CASE x <= One
    <3>1. x \in T /\ \A j \in T : x <= j  BY <2>2
    <3> HIDE DEF T
    <3>2. Min(T) = x  BY <2>1, <3>1, MinIs
    <3> QED  BY <2>2, <3>2 DEF T
  <2>3. CASE ~(x <= One)
    <3>1. One \in T /\ \A j \in T : One <= j  BY <2>3, Sizes
    <3> HIDE DEF T
    <3>2. Min(T) = One  BY <2>1, <3>1, MinIs
    <3> QED  BY <2>3, <3>2 DEF T
  <2> QED  BY <2>2, <2>3
<1> HIDE DEF a
<1>3. a \in Int  BY <1>2, Sizes
<1>4. Max({0, a}) = IF a <= 0 THEN 0 ELSE a
  <2> DEFINE T == {0, a}
  <2>1. T \subseteq Int  BY <1>3
  <2>2. CASE a <= 0
    <3>1. 0 \in T /\ \A j \in T : j <= 0  BY <2>2
    <3> HIDE DEF T
    <3>2. Max(T) = 0  BY <2>1, <3>1, MaxIs
    <3> QED  BY <2>2, <3>2 DEF T
  <2>3. CASE ~(a <= 0)
    <3>1. a \in T /\ \A j \in T : j <= a  BY <1>3, <2>3
    <3> HIDE DEF T
    <3>2. Max(T) = a  BY <2>1, <3>1, MaxIs
    <3> QED  BY <2>3, <3>2 DEF T
  <2> QED  BY <2>2, <2>3
<1>5. Inside("clamp", x) = IF x <= 0 THEN 0 ELSE IF x >= One THEN One ELSE x  BY DEF Inside
<1> QED  BY <1>1, <1>2, <1>4, <1>5, Sizes

LEMMA PlaceIs ==
  ASSUME NEW x \in -MaxPosition..MaxPosition, NEW method \in {"repeat", "reflect", "clamp"}
  PROVE  Place(method, x) = Inside(method, x)
<1>1. Inside("repeat", x) = Rest(x)  BY DEF Inside
<1>2. x \in Int  OBVIOUS
<1> QED  BY <1>1, <1>2, RepeatPlace, ReflectPlace, ClampPlace

-----------------------------------------------------------------------------
Inv ==
  /\ stops \in Gradients
  /\ lookUp \in {"repeat", "reflect", "clamp"}
  /\ i \in -MaxPosition..MaxPosition
  /\ col = Color(stops, lookUp, i)

LEMMA InvInit == Init => Inv
<1>1. 0 \in -MaxPosition..MaxPosition  BY Sizes
<1> QED  BY <1>1 DEF Init, Inv

LEMMA InvStep == Inv /\ [Next]_vars => Inv'
<1> SUFFICES ASSUME Inv, [Next]_vars PROVE Inv'  OBVIOUS
<1>1. CASE ColorLed  BY <1>1, Zenon DEF ColorLed, Inv
<1>2. CASE UNCHANGED vars  BY <1>2, Zenon DEF vars, Inv
<1> QED  BY <1>1, <1>2 DEF Next

LEMMA AlwaysInv == Spec => []Inv
BY InvInit, InvStep, PTL DEF Spec

(* Whatever the gradient and the function that is called, what is looked   *)
(* up at a position is a point of the curve the stops describe, but for a   *)
(* quarter of what the curve bends between the two entries around it       *)
(* (color.cpp:28-60, color.h:138-156).                                     *)
THEOREM NearTheCurve == Spec => []ColorIsNearTheCurve
<1>1. Inv => ColorIsNearTheCurve
  <2> SUFFICES ASSUME Inv PROVE ColorIsNearTheCurve  OBVIOUS
  <2> DEFINE x == Inside(lookUp, i)
  <2>1. IsGradient(stops) /\ i \in Int  BY Sizes DEF Inv
  <2>2. col = Lerp(Colors(stops), x)  BY <2>1, ColorIs DEF Inv
  <2>3. Place(lookUp, i) = x  BY PlaceIs DEF Inv
  <2>4. x \in 0..One  BY <2>1, InsideType DEF Inv
  <2> HIDE DEF x
  <2>5. 4 * Magnitude(Lerp(Colors(stops), x) - Steps * Curve(stops, x))
          <= Bend(stops, x) * (Steps * Steps)
    BY <2>1, <2>4, LerpIsNearTheCurve
  <2> QED  BY <2>2, <2>3, <2>5 DEF ColorIsNearTheCurve
<1> QED  BY <1>1, AlwaysInv, PTL

-----------------------------------------------------------------------------
(* Neighbouring positions.                                                 *)

(* One step away from zero: within a table, or over its end.               *)
LEMMA StepAway ==
  ASSUME NEW x \in Int, NEW y \in Int, Magnitude(y) = Magnitude(x) + 1
  PROVE  \/ Table(y) = Table(x) /\ Rest(y) = Rest(x) + 1
         \/ Table(y) = Table(x) + 1 /\ Rest(y) = 0 /\ Rest(x) = One - 1
<1> DEFINE m == Magnitude(y)
           q == Table(x)
           r == Rest(x)
<1>1. q \in Nat /\ r \in 0..One - 1 /\ Magnitude(x) = q * One + r  BY RestAndTable
<1>2. m \in Int /\ m = q * One + r + 1 /\ q * One \in Int
  BY <1>1, RestAndTable, Regroup, Sizes
<1>3. Table(y) = m \div One /\ Rest(y) = m % One  BY DEF Table, Rest
<1> HIDE DEF m, q, r
<1>4. CASE r + 1 <= One - 1
  <2>1. r + 1 \in 0..One - 1 /\ m = q * One + (r + 1)  BY <1>1, <1>2, <1>4, Sizes
  <2> DEFINE u == r + 1
  <2>2. u \in 0..One - 1 /\ m = q * One + u /\ q \in Int  BY <1>1, <2>1
  <2> HIDE DEF u
  <2>3. m \div One = q /\ m % One = u
    <3>1. m \in Int /\ One \in Nat \ {0}  BY <1>2, Sizes
    <3> QED  BY <2>2, <3>1, DivUnique
  <2> QED  BY <1>3, <2>3 DEF q, r, u
<1>5. CASE r = One - 1
  <2>1. (q + 1) * One = q * One + 1 * One  BY <1>1, Regroup, Sizes
  <2>2. 0 \in 0..One - 1 /\ m = (q + 1) * One + 0 /\ q + 1 \in Int
    BY <1>1, <1>2, <1>5, <2>1, Sizes
  <2>3. m \div One = q + 1 /\ m % One = 0
    <3> DEFINE u == q + 1
    <3>1. u \in Int /\ m = u * One + 0 /\ 0 \in 0..One - 1 /\ One \in Nat \ {0}  BY <2>2, Sizes
    <3> HIDE DEF u
    <3>2. m \div One = u /\ m % One = 0  BY <1>2, <3>1, DivUnique
    <3> QED  BY <3>2 DEF u
  <2> QED  BY <1>3, <1>5, <2>3 DEF q, r
<1> QED  BY <1>1, <1>4, <1>5, Sizes

LEMMA ReflectGoesOn ==
  ASSUME NEW x \in Int, NEW y \in Int, Magnitude(y) = Magnitude(x) + 1
  PROVE  Magnitude(Inside("reflect", y) - Inside("reflect", x)) <= 1
<1>1. Table(x) \in Nat /\ Rest(x) \in 0..One - 1  BY RestAndTable
<1>2. CASE Table(y) = Table(x) /\ Rest(y) = Rest(x) + 1
  BY <1>1, <1>2, Sizes DEF Inside, Magnitude
<1>3. CASE Table(y) = Table(x) + 1 /\ Rest(y) = 0 /\ Rest(x) = One - 1
  <2>1. Table(y) % 2 = 0 <=> Table(x) % 2 # 0  BY <1>1, <1>3
  <2> QED  BY <1>1, <1>3, <2>1, Sizes DEF Inside, Magnitude
<1> QED  BY <1>2, <1>3, StepAway

LEMMA RepeatGoesOn ==
  ASSUME NEW s, IsGradient(s), s[1].v = s[Len(s)].v,
         NEW x \in Int, NEW y \in Int, Magnitude(y) = Magnitude(x) + 1
  PROVE  Magnitude(Lerp(Colors(s), Rest(y)) - Lerp(Colors(s), Rest(x))) <= Steepest(s) * Steps
<1>1. Rest(x) \in 0..One /\ Rest(y) \in 0..One
  <2>1. Rest(x) \in 0..One - 1 /\ Rest(y) \in 0..One - 1  BY RestAndTable
  <2> QED  BY <2>1, Sizes
<1>2. CASE Rest(y) = Rest(x) + 1
  <2>1. Magnitude(Rest(y) - Rest(x)) <= 1  BY <1>1, <1>2, Sizes DEF Magnitude
  <2> QED  BY <1>1, <2>1, NearLookUps
<1>3. CASE Rest(y) = 0 /\ Rest(x) = One - 1
  <2>1. Lerp(Colors(s), Rest(y)) = Lerp(Colors(s), One)
    <3>1. 0 \in 0..colors_n - 1 /\ 0 * Steps = 0 /\ colors_n - 1 \in 0..colors_n - 1
      BY Sizes
    <3>2. Lerp(Colors(s), 0 * Steps) = Colors(s)[0] * Steps  BY <3>1, AtEntry
    <3>3. Lerp(Colors(s), One) = Colors(s)[colors_n - 1] * Steps  BY <3>1, AtEntry DEF One
    <3> QED  BY <1>3, <3>1, <3>2, <3>3, Ends
  <2>2. One \in 0..One /\ Magnitude(One - Rest(x)) <= 1  BY <1>3, Sizes DEF Magnitude
  <2> QED  BY <1>1, <2>1, <2>2, NearLookUps
<1> QED  BY <1>2, <1>3, StepAway

LEMMA ClampGoesOn ==
  ASSUME NEW x \in Int, NEW y \in Int, Magnitude(y - x) <= 1
  PROVE  Magnitude(Inside("clamp", y) - Inside("clamp", x)) <= 1
BY Sizes DEF Inside, Magnitude

LEMMA Neighbouring ==
  ASSUME NEW s, IsGradient(s), NEW method \in {"repeat", "reflect", "clamp"},
         method = "repeat" => s[1].v = s[Len(s)].v,
         NEW x \in Int, NEW y \in Int, Magnitude(y - x) <= 1
  PROVE  Magnitude(Lerp(Colors(s), Inside(method, y)) - Lerp(Colors(s), Inside(method, x)))
           <= Steepest(s) * Steps
<1> DEFINE X == Inside(method, x)
           Y == Inside(method, y)
<1>1. X \in 0..One /\ Y \in 0..One  BY InsideType
<1>2. \/ Magnitude(y) = Magnitude(x)
      \/ Magnitude(y) = Magnitude(x) + 1
      \/ Magnitude(x) = Magnitude(y) + 1
  BY DEF Magnitude
<1>3. SUFFICES ASSUME Magnitude(Y - X) > 1
               PROVE  Magnitude(Lerp(Colors(s), Y) - Lerp(Colors(s), X)) <= Steepest(s) * Steps
  <2>1. Magnitude(Y - X) <= 1 => Magnitude(Lerp(Colors(s), Y) - Lerp(Colors(s), X)) <= Steepest(s) * Steps
    <3> HIDE DEF X, Y
    <3> QED  BY <1>1, NearLookUps
  <2>2. Magnitude(Y - X) \in Nat  BY <1>1, Sizes DEF Magnitude
  <2>3. Magnitude(Y - X) <= 1 \/ Magnitude(Y - X) > 1  BY <2>2
  <2> QED  BY <1>3, <2>1, <2>3
<1>4. method # "clamp"
  <2>1. SUFFICES ASSUME method = "clamp" PROVE FALSE  OBVIOUS
  <2>2. Magnitude(Y - X) <= 1  BY <2>1, ClampGoesOn
  <2>3. Magnitude(Y - X) \in Nat  BY <1>1, Sizes DEF Magnitude
  <2> QED  BY <1>3, <2>2, <2>3
<1>5. Magnitude(y) # Magnitude(x)
  <2>1. SUFFICES ASSUME Magnitude(y) = Magnitude(x) PROVE FALSE  OBVIOUS
  <2>2. Y = X  BY <1>4, <2>1 DEF Inside, Rest, Table
  <2>3. Magnitude(Y - X) = 0  BY <1>1, <2>2, Sizes DEF Magnitude
  <2> QED  BY <1>3, <2>3
<1>6. method # "reflect"
  <2>1. SUFFICES ASSUME method = "reflect" PROVE FALSE  OBVIOUS
  <2>2. X \in Int /\ Y \in Int  BY <1>1, Sizes
  <2>3. Magnitude(Y - X) <= 1 \/ Magnitude(X - Y) <= 1
    BY <1>2, <1>5, <2>1, ReflectGoesOn
  <2> HIDE DEF X, Y
  <2> QED  BY <1>3, <2>2, <2>3 DEF Magnitude
<1>7. method = "repeat" /\ X = Rest(x) /\ Y = Rest(y)  BY <1>4, <1>6 DEF Inside
<1>8. \/ Magnitude(Lerp(Colors(s), Y) - Lerp(Colors(s), X)) <= Steepest(s) * Steps
      \/ Magnitude(Lerp(Colors(s), X) - Lerp(Colors(s), Y)) <= Steepest(s) * Steps
  BY <1>2, <1>5, <1>7, RepeatGoesOn
<1>9. Lerp(Colors(s), X) \in Int /\ Lerp(Colors(s), Y) \in Int
  <2>1. X \in 0..One - 1 /\ Y \in 0..One - 1  BY <1>7, RestAndTable
  <2> HIDE DEF X, Y
  <2> QED  BY <2>1, NextLookUp
<1> HIDE DEF X, Y
<1> QED  BY <1>8, <1>9 DEF Magnitude

(* Neighbouring positions have neighbouring colours, where a position      *)
(* changes its sign, passes a whole number or comes to the end of a        *)
(* clamped gradient as well (effects.cpp:549, 553, 716).                   *)
THEOREM NoEdges == Spec => PictureHasNoEdges
<1>1. Inv /\ Inv' /\ [Next]_vars
        => [IsSeamless /\ Magnitude(i' - i) <= 1 => Magnitude(col' - col) <= Steepest(stops) * Steps]_vars
  <2> SUFFICES ASSUME Inv, Inv', ColorLed, IsSeamless, Magnitude(i' - i) <= 1
               PROVE  Magnitude(col' - col) <= Steepest(stops) * Steps
    BY Zenon DEF Next, vars
  <2>1. stops' = stops /\ lookUp' = lookUp  BY DEF ColorLed
  <2>2. /\ IsGradient(stops) /\ lookUp \in {"repeat", "reflect", "clamp"}
        /\ i \in Int /\ i' \in Int
        /\ col = Color(stops, lookUp, i) /\ col' = Color(stops, lookUp, i')
    BY <2>1, Sizes DEF Inv
  <2>3. /\ col = Lerp(Colors(stops), Inside(lookUp, i))
        /\ col' = Lerp(Colors(stops), Inside(lookUp, i'))
    BY <2>2, ColorIs
  <2>4. lookUp = "repeat" => stops[1].v = stops[Len(stops)].v  BY DEF IsSeamless
  <2> QED  BY <2>2, <2>3, <2>4, Neighbouring
<1> QED  BY <1>1, AlwaysInv, PTL DEF Spec, PictureHasNoEdges

=============================================================================
