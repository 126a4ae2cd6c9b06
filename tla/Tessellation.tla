---------------------------- MODULE Tessellation ----------------------------
(***************************************************************************)
(* How finely a surface is cut, from where the camera is, and how one quad *)
(* domain is covered once its four sides are cut: src/core/tessellation    *)
(* and src/core/quad_tessellation.                                         *)
(*                                                                         *)
(* World space is the plane a camera looks along: a point is <<x, z>> in   *)
(* integers.  Lengths are kept squared, so that the comparisons the code   *)
(* makes between two square roots are exact here.  A view is               *)
(*   [valid, eye, clip, focal, parallel]                                   *)
(* where clip is a set of half planes <<a, b, c>> (empty when no           *)
(* projection was supplied), focal is the pixels a unit covers at distance *)
(* one divided by the pixels asked of an edge (zero for a frame of no      *)
(* pixels), and parallel is zero for a perspective view and otherwise the  *)
(* distance at which one would show what an orthographic view shows.       *)
(***************************************************************************)
EXTENDS Integers, Sequences, FiniteSets, SequencesExt

CONSTANT MaxRate    \* kMaxEdgeRate, 64 in the code: the most segments of a side

Powers == {2^k : k \in 0..6}
ASSUME MaxRateIsAPower == MaxRate \in Powers

\* Parts one after the other, and the sum of some numbers.
Concat(parts) ==
    LET upto[n \in 0..Len(parts)] == IF n = 0 THEN <<>> ELSE upto[n - 1] \o parts[n]
    IN  upto[Len(parts)]
Total(numbers) ==
    LET upto[n \in 0..Len(numbers)] == IF n = 0 THEN 0 ELSE upto[n - 1] + numbers[n]
    IN  upto[Len(numbers)]

Square(n) == n * n
Apart2(p, q) == Square(p[1] - q[1]) + Square(p[2] - q[2])

\* What a view's eye is outside of a box along one axis: zero when between.
Outside(eye, low, high) ==
    IF eye < low THEN low - eye ELSE IF eye > high THEN eye - high ELSE 0

\* DistanceToBounds, squared.
DistanceToBounds2(view, low, high) ==
      Square(Outside(view.eye[1], low[1], high[1]))
    + Square(Outside(view.eye[2], low[2], high[2]))

\* BoxIsOutside: the corner furthest along the plane's normal is outside it.
BoxIsOutside(plane, low, high) ==
    LET x == IF plane[1] >= 0 THEN high[1] ELSE low[1]
        z == IF plane[2] >= 0 THEN high[2] ELSE low[2]
    IN  plane[1] * x + plane[2] * z + plane[3] < 0

BoundsAreOffScreen(view, low, high) ==
    \E plane \in view.clip : BoxIsOutside(plane, low, high)

\* The squared distance PixelsPerWorldUnit divides by; zero when it has no
\* answer, which is a frame of no pixels or an eye on the thing itself.
ScreenDepth2(view, distance2) ==
    IF view.focal = 0 THEN 0
    ELSE IF view.parallel > 0 THEN Square(view.parallel)
    ELSE distance2

\* length pixels is no more than n edges of the target's length.
FitsIn(n, length2, depth2, view) ==
    Square(n) * depth2 >= length2 * Square(view.focal)

Rates == {r \in Powers : r =< MaxRate}
SmallestOf(S) == CHOOSE n \in S : \A m \in S : n =< m
GreatestOf(S) == CHOOSE n \in S : \A m \in S : m =< n
LeastOf(a, b) == IF a < b THEN a ELSE b
MostOf(a, b) == IF a > b THEN a ELSE b

EdgeTessellationRate(length2, depth2, view) ==
    SmallestOf({r \in Rates : FitsIn(r, length2, depth2, view)} \cup {MaxRate})

\* The code clamps the level far above the finest rate's, which is level six.
EdgeRateForLevel(level) == LeastOf(2^MostOf(LeastOf(level, 6), 0), MaxRate)

-----------------------------------------------------------------------------
\* One level for a whole mesh

RefinedFaceCount(faces, level) ==
    LET at[n \in 0..level] == IF n = 0 THEN faces ELSE 4 * at[n - 1] IN at[level]

\* ChooseTessellation.  The request says where the mesh is and the length of
\* its edges, squared and as a fraction edge2 / per2 of a whole number; limits
\* are the ceiling, the level of what is off screen and the face budget.
Describable(view, request) ==
    view.valid /\ request.edge2 > 0 /\ view.focal # 0

LevelAsked(view, request, limits) ==
    LET depth2 == ScreenDepth2(view, DistanceToBounds2(view, request.low, request.high))
        enough == {n \in 0..limits.ceiling :
                     Square(2^n) * depth2 * request.per2
                        >= request.edge2 * Square(view.focal)}
    IN  IF ~Describable(view, request) THEN limits.ceiling
        ELSE IF BoundsAreOffScreen(view, request.low, request.high)
               THEN LeastOf(limits.offScreen, limits.ceiling)
        ELSE IF depth2 = 0 THEN limits.ceiling
        ELSE SmallestOf(enough \cup {limits.ceiling})

ChooseTessellation(view, request, limits) ==
    LET asked == LevelAsked(view, request, limits)
        fits == {n \in 0..asked :
                   n = 0 \/ RefinedFaceCount(request.faces, n) =< limits.budget}
    IN  GreatestOf(fits)

-----------------------------------------------------------------------------
\* One quad domain.  A sample is <<u, v>> in 0..MaxRate, a triangle three
\* indices of samples, the first sample being 1.

Corner == <<<<0, 0>>, <<MaxRate, 0>>, <<MaxRate, MaxRate>>, <<0, MaxRate>>>>
Following(side) == (side % 4) + 1

OnSide(side, step, rate) ==
    LET from == Corner[side]
        to   == Corner[Following(side)]
    IN  [axis \in 1..2 |-> from[axis] + ((to[axis] - from[axis]) * step) \div rate]

InnerRate(rate) == SmallestOf({r \in Rates : \A side \in 1..4 : rate[side] =< r})

\* The first sample of a side in the walk round the boundary.
SideStart(rate, side) ==
    CASE side = 1 -> 1
      [] side = 2 -> 1 + rate[1]
      [] side = 3 -> 1 + rate[1] + rate[2]
      [] side = 4 -> 1 + rate[1] + rate[2] + rate[3]
BoundarySamples(rate) == rate[1] + rate[2] + rate[3] + rate[4]

\* A side's samples but its last, which is the next side's first.
SideRun(rate, side) == [step \in 1..rate[side] |-> OnSide(side, step - 1, rate[side])]
Boundary(rate) == Concat([side \in 1..4 |-> SideRun(rate, side)])

\* The boundary sample a side's walk has reached.
BoundaryAt(rate, side, step) ==
    ((SideStart(rate, side) - 1 + step) % BoundarySamples(rate)) + 1

\* The interior grid's sample in column i of row j, both from 0.
Inside(rate, i, j) == BoundarySamples(rate) + j * (InnerRate(rate) - 1) + i + 1

GridSamples(rate) ==
    LET span == InnerRate(rate) - 1
        cut  == MaxRate \div InnerRate(rate)
    IN  [n \in 1..span * span |->
            <<(((n - 1) % span) + 1) * cut, (((n - 1) \div span) + 1) * cut>>]

\* addTriangle: a triangle of no area is not one.
AddTriangle(a, b, c) == IF a = b \/ b = c \/ a = c THEN <<>> ELSE <<<<a, b, c>>>>

\* The two triangles of the cell whose lowest sample is (i, j).
Cell(rate, i, j) ==
    AddTriangle(Inside(rate, i, j), Inside(rate, i + 1, j), Inside(rate, i + 1, j + 1))
      \o AddTriangle(Inside(rate, i, j), Inside(rate, i + 1, j + 1), Inside(rate, i, j + 1))

GridTriangles(rate) ==
    LET cells == InnerRate(rate) - 2
    IN  Concat([n \in 1..cells * cells |-> Cell(rate, (n - 1) % cells, (n - 1) \div cells)])

\* Mutant: the far side's run is walked the way the near side's is.
Facing_forward(rate, side, k) ==
    LET last == InnerRate(rate) - 2
    IN  CASE side = 1 -> Inside(rate, k, 0)
          [] side = 2 -> Inside(rate, last, k)
          [] side = 3 -> Inside(rate, k, last)
          [] side = 4 -> Inside(rate, 0, last - k)

\* The interior border's sample k of the run that faces a side.
Facing(rate, side, k) ==
    LET last == InnerRate(rate) - 2
    IN  CASE side = 1 -> Inside(rate, k, 0)
          [] side = 2 -> Inside(rate, last, k)
          [] side = 3 -> Inside(rate, last - k, last)
          [] side = 4 -> Inside(rate, 0, last - k)

\* Whether the walk takes the side's next sample rather than the interior's.
AdvanceOuter(o, outerSteps, i, innerSteps) ==
    \/ i = innerSteps
    \/ o < outerSteps /\ o * innerSteps =< i * outerSteps

\* How far along a side and along the run that faces it the walk of both is
\* after n steps: the nearer next sample first.
Walk(outerSteps, innerSteps) ==
    LET at[n \in 0..outerSteps + innerSteps] ==
            IF n = 0 THEN <<0, 0>>
            ELSE LET w == at[n - 1]
                 IN  IF AdvanceOuter(w[1], outerSteps, w[2], innerSteps)
                     THEN <<w[1] + 1, w[2]>> ELSE <<w[1], w[2] + 1>>
    IN  at

\* The triangle between where the walk was and where it is next.
StitchTriangle(rate, side, from, to) ==
    AddTriangle(BoundaryAt(rate, side, from[1]),
                IF to[2] = from[2] THEN BoundaryAt(rate, side, to[1])
                                   ELSE Facing(rate, side, to[2]),
                Facing(rate, side, from[2]))

Stitch(rate, side) ==
    LET steps == rate[side] + InnerRate(rate) - 2
        at    == Walk(rate[side], InnerRate(rate) - 2)
    IN  Concat([n \in 1..steps |-> StitchTriangle(rate, side, at[n - 1], at[n])])

\* TessellateQuad.
TessellateQuad(rate) ==
    IF InnerRate(rate) < 2
    THEN [samples |-> Boundary(rate), triangles |-> <<<<1, 2, 3>>, <<1, 3, 4>>>>]
    ELSE [samples |-> Boundary(rate) \o GridSamples(rate),
          triangles |-> GridTriangles(rate)
                          \o Concat([side \in 1..4 |-> Stitch(rate, side)])]
=============================================================================
