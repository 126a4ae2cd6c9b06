---------------------------- MODULE MeshGeometry ----------------------------
(***************************************************************************)
(* What HdClaudeMesh::Sync makes of a control cage: refined per side of    *)
(* each face, uniformly, or not at all, within a budget, and dressed with  *)
(* the coordinates, normals and subsets that match what came out           *)
(* (src/hydra/mesh, src/hydra/subdivision).                                *)
(*                                                                         *)
(* A cage is [faces, points]: sequences of vertex numbers and of points,   *)
(* the points multiples of twelve so that a midpoint, a centre of three or *)
(* four vertices and a midpoint of those are integers.  A placement is     *)
(* <<scale, x, z>>.  OpenSubdiv and HdMeshUtil are external: a refiner may *)
(* be refused, uniform refinement makes the faces Catmull-Clark makes, and *)
(* the limit surface is a function of where a sample is on the cage, so a  *)
(* sample is named by the domain and the parameters it is evaluated at.    *)
(***************************************************************************)
EXTENDS Tessellation, Functions

CONSTANT Inputs     \* what the scene delegate and the render param say of a mesh

\* Whatever a scene says it says in these types: vertex numbers may be of no
\* point, and the render param clamps its levels and its budget to naturals.
ASSUME InputsAssumption == \A in \in Inputs :
    /\ in.cage.faces \in Seq(Seq(Int)) /\ in.cage.points \in Seq(Int \X Int)
    /\ in.placements \in Seq(Int \X Int \X Int)
    /\ {in.settings.level, in.settings.offScreen, in.settings.budget} \subseteq Nat

VARIABLES
    input,      \* [cage, scheme, settings, view, placements, uvs, normals, subsets]
    phase,      \* where the Sync is
    choice,     \* the level HdClaudeChooseMeshTessellation answered
    rates,      \* four rates per ptex face, or <<>>
    followsPlacement,   \* _refinementFollowsPlacement
    mesh        \* the arrays so far

meshVars == <<input, phase, choice, rates, followsPlacement, mesh>>

NoMesh == [route |-> "none", vertices |-> 0, coarse |-> <<>>, patches |-> <<>>,
           uvs |-> 0, uvsPerCorner |-> FALSE, normals |-> 0,
           normalsPerCorner |-> FALSE, triangleSubsets |-> <<>>]

-----------------------------------------------------------------------------
\* The cage: its edges, its ptex faces, and where their corners are

Next1(face, c) == face[(c % Len(face)) + 1]
Before1(face, c) == face[((c + Len(face) - 2) % Len(face)) + 1]

EdgesOf(face) == {{face[c], Next1(face, c)} : c \in DOMAIN face}
CoarseEdges(cage) ==
    UNION {EdgesOf(cage.faces[f]) : f \in {g \in DOMAIN cage.faces : Len(cage.faces[g]) > 2}}

FaceVertices(cage) == FoldLeft(LAMBDA n, face : n + Len(face), 0, cage.faces)
TopologyVertices(cage) ==
    LET named == UNION {Range(cage.faces[f]) : f \in DOMAIN cage.faces}
    IN  IF named = {} THEN 0 ELSE GreatestOf(named)

Vertex(v) == <<"vertex", {v}>>
EdgeMidpoint(a, b) == <<"midpoint", {a, b}>>
FaceCentre(f) == <<"centre", {f}>>

\* A quad is one domain, anything else one per corner, split at its centre.
FacePtex(f, face) ==
    IF Len(face) < 3 THEN <<>>
    ELSE IF Len(face) = 4
    THEN <<[coarse |-> f, corners |-> [c \in 1..4 |-> Vertex(face[c])]]>>
    ELSE [c \in DOMAIN face |->
            [coarse |-> f,
             corners |-> <<Vertex(face[c]), EdgeMidpoint(face[c], Next1(face, c)),
                           FaceCentre(f), EdgeMidpoint(Before1(face, c), face[c])>>]]

PtexFaces(cage) == Concat([f \in DOMAIN cage.faces |-> FacePtex(f, cage.faces[f])])

\* A vertex the points do not reach reads as the origin.
PointOf(cage, v) == IF v \in DOMAIN cage.points THEN cage.points[v] ELSE <<0, 0>>
Plus(p, q) == <<p[1] + q[1], p[2] + q[2]>>
Part(p, n) == <<p[1] \div n, p[2] \div n>>

SumOver(cage, named) ==
    LET upto[n \in 0..Len(named)] ==
            IF n = 0 THEN <<0, 0>> ELSE Plus(upto[n - 1], PointOf(cage, named[n]))
    IN  upto[Len(named)]

PtexCornerPosition(cage, corner) ==
    CASE corner[1] = "vertex" -> PointOf(cage, CHOOSE v \in corner[2] : TRUE)
      [] corner[1] = "midpoint" ->
            Part(Plus(PointOf(cage, SmallestOf(corner[2])),
                      PointOf(cage, GreatestOf(corner[2]))), 2)
      [] corner[1] = "centre" ->
            LET face == cage.faces[CHOOSE f \in corner[2] : TRUE]
            IN  Part(SumOver(cage, face), Len(face))

Placed(placement, p) ==
    <<placement[1] * p[1] + placement[2], placement[1] * p[2] + placement[3]>>

-----------------------------------------------------------------------------
\* The level of the whole mesh

\* A whole root when there is one, and the whole part of it otherwise.
Root(n) == CHOOSE r \in 0..n : Square(r) =< n /\ n < Square(r + 1)

\* Every edge of every face whose ends both have points, one that two faces
\* use counted twice: <<their summed length, how many>>.
EdgeLengths(cage) ==
    LET of(face) ==
            {c \in DOMAIN face : Len(face) > 1
                                 /\ {face[c], Next1(face, c)} \subseteq DOMAIN cage.points}
        add(sum, face) ==
            <<sum[1] + FoldLeft(LAMBDA n, c :
                           n + Root(Apart2(cage.points[face[c]], cage.points[Next1(face, c)])),
                         0, SetToSeq(of(face))),
              sum[2] + Cardinality(of(face))>>
    IN  FoldLeft(add, <<0, 0>>, cage.faces)

Axis(S, axis) == {p[axis] : p \in S}
LowOf(S) == <<SmallestOf(Axis(S, 1)), SmallestOf(Axis(S, 2))>>
HighOf(S) == <<GreatestOf(Axis(S, 1)), GreatestOf(Axis(S, 2))>>

\* The bounds of every placement of the cage, and the mean edge at the largest
\* scale any placement gives it.
RequestFor(cage, placements) ==
    LET local == {LowOf(Range(cage.points)), HighOf(Range(cage.points))}
        world == {Placed(t, p) : t \in Range(placements), p \in local}
        scale == HighOf({<<t[1], 0>> : t \in Range(placements)})[1]
        sum   == EdgeLengths(cage)
    IN  [low   |-> LowOf(world),
         high  |-> HighOf(world),
         edge2 |-> Square(sum[1] * scale),
         per2  |-> MostOf(Square(sum[2]), 1),
         faces |-> Len(cage.faces)]

\* HdClaudeChooseMeshTessellation: adaptive refinement that has sampled no
\* camera yet treats everything as off screen.
ChooseMeshTessellation(in) ==
    LET settings == in.settings
        view     == IF settings.adaptive THEN in.view ELSE [in.view EXCEPT !.valid = FALSE]
        ceiling  == IF settings.adaptive /\ ~in.view.valid
                    THEN LeastOf(settings.level, settings.offScreen) ELSE settings.level
    IN  ChooseTessellation(view, RequestFor(in.cage, in.placements),
            [ceiling |-> ceiling, offScreen |-> settings.offScreen,
             budget |-> settings.budget])

-----------------------------------------------------------------------------
\* A rate for every side of every ptex face

\* The first of the placements nearest the world's origin.
ChosenPlacement(placements) ==
    LET far(t) == Square(t[2]) + Square(t[3])
        nearest == {n \in DOMAIN placements :
                      \A m \in DOMAIN placements : far(placements[n]) =< far(placements[m])}
    IN  placements[SmallestOf(nearest)]

\* One side, measured from its two ends alone: its length, the depth of its
\* middle (doubled, to stay whole), and whether all of it is out of frame.
SideRate(settings, view, from, to) ==
    LET eye2   == <<2 * view.eye[1], 2 * view.eye[2]>>
        twice  == [view EXCEPT !.eye = eye2, !.parallel = 2 * @]
        depth2 == ScreenDepth2(twice, DistanceToBounds2(twice, Plus(from, to), Plus(from, to)))
        earned == IF depth2 = 0 THEN MaxRate
                  ELSE EdgeTessellationRate(4 * Apart2(from, to), depth2, view)
    IN  IF BoundsAreOffScreen(view, LowOf({from, to}), HighOf({from, to}))
        THEN LeastOf(earned, EdgeRateForLevel(settings.offScreen))
        ELSE earned

\* HdClaudePtexEdgeRates before its budget; <<>> when there is nothing to go on.
PtexEdgeRates(in) ==
    LET at(corner) == Placed(ChosenPlacement(in.placements), PtexCornerPosition(in.cage, corner))
        faces == PtexFaces(in.cage)
    IN  IF ~in.view.valid THEN <<>>
        ELSE [p \in DOMAIN faces |-> [side \in 1..4 |->
                SideRate(in.settings, in.view, at(faces[p].corners[side]),
                         at(faces[p].corners[Following(side)]))]]

\* Mutant: the ring that stitches a face to its sides is left out.
FaceEstimate_grid(rate) ==
    LET interior == MostOf(InnerRate(rate) - 2, 0) IN 2 * interior * interior

\* What the budget reckons one ptex face at.
FaceEstimate(rate) ==
    LET inner    == InnerRate(rate)
        interior == MostOf(inner - 2, 0)
    IN  2 * interior * interior + BoundarySamples(rate) + 4 * (inner - 1)

TriangleEstimate(of) == Total([p \in DOMAIN of |-> FaceEstimate(of[p])])

\* Mutant: only the faces that cost the most are made coarser.
HalveRates_costliest(of) ==
    LET costs == {FaceEstimate(of[p]) : p \in DOMAIN of}
    IN  [p \in DOMAIN of |->
            IF \A n \in costs : n =< FaceEstimate(of[p])
            THEN [side \in 1..4 |-> MostOf(of[p][side] \div 2, 1)] ELSE of[p]]

\* Every rate at once: one level coarser everywhere.
HalveRates(of) == [p \in DOMAIN of |-> [side \in 1..4 |-> MostOf(of[p][side] \div 2, 1)]]
AllSingle(of) == \A p \in DOMAIN of : \A side \in 1..4 : of[p][side] = 1

-----------------------------------------------------------------------------
\* What each route makes

\* OpenSubdiv numbers a topology's vertices; points of another count refuse it.
TopologyMatches(cage) == TopologyVertices(cage) = Len(cage.points)

\* A channel refines when its values are one per vertex or one per corner.
HasChannel(in) == in.uvs \in {"vertex", "faceVarying"}

PtexPatch(n, ptex, rate) == [coarse |-> ptex.coarse, corners |-> ptex.corners,
                             rate |-> rate, quad |-> TessellateQuad(rate)]

\* One more ptex face evaluated onto the end of what there is.
WithPatch(m, patch, channel) ==
    LET made == Len(patch.quad.triangles)
    IN  [m EXCEPT !.patches = Append(@, patch),
                  !.vertices = @ + Len(patch.quad.samples),
                  !.coarse = @ \o [t \in 1..made |-> patch.coarse],
                  !.uvs = @ + (IF channel THEN 3 * made ELSE 0),
                  !.uvsPerCorner = channel]

\* Catmull-Clark: a face becomes a quad per corner, and a quad four quads.
UniformCounts(cage, level) ==
    LET whole == {f \in DOMAIN cage.faces : Len(cage.faces[f]) > 2}
        at[n \in 0..level] ==
            IF n = 0
            THEN [v |-> Len(cage.points), e |-> Cardinality(CoarseEdges(cage)),
                  f |-> Cardinality(whole), c |-> FaceVertices(cage)]
            ELSE LET was == at[n - 1]
                 IN  [v |-> was.v + was.e + was.f, e |-> 2 * was.e + was.c,
                      f |-> was.c, c |-> 4 * was.c]
    IN  at[level]

UniformFaces(cage, f, level) == RefinedFaceCount(Len(cage.faces[f]), level - 1)

\* HdClaudeSubdivide, each refined quad fanned into two triangles that keep
\* the coarse face they descend from.
UniformMesh(in, level) ==
    LET coarse == Concat([f \in DOMAIN in.cage.faces |->
                    [t \in 1..2 * UniformFaces(in.cage, f, level) |-> f]])
        vertices == UniformCounts(in.cage, level).v
    IN  [NoMesh EXCEPT
           !.route = "uniform", !.vertices = vertices, !.coarse = coarse,
           !.uvs = CASE in.uvs = "faceVarying" -> 3 * Len(coarse)
                     [] in.uvs = "vertex" -> vertices
                     [] OTHER -> 0,
           !.uvsPerCorner = in.uvs = "faceVarying"]

\* HdMeshUtil's fans, with the coarse face it records for each triangle.
CageMesh(in) ==
    [NoMesh EXCEPT
       !.route = "cage", !.vertices = Len(in.cage.points),
       !.coarse = Concat([f \in DOMAIN in.cage.faces |->
                     [t \in 1..MostOf(Len(in.cage.faces[f]) - 2, 0) |-> f]])]

Subdivided(m) == m.route \in {"perFace", "uniform"}

-----------------------------------------------------------------------------
\* What is hung on the triangles afterwards

\* A face named by two subsets takes the last; 0 is the mesh's own material.
TriangleSubsets(in, m) ==
    LET naming(f) == {s \in DOMAIN in.subsets : f \in in.subsets[s]}
    IN  IF in.subsets = <<>> THEN <<>>
        ELSE [t \in DOMAIN m.coarse |->
                IF naming(m.coarse[t]) = {} THEN 0 ELSE GreatestOf(naming(m.coarse[t]))]

\* Authored normals belong to the cage; a set that does not describe it, or a
\* refined mesh, has its normals generated.
NormalsOf(in, m) ==
    IF ~Subdivided(m) /\ in.normals \in {"faceVarying", "uniform"}
    THEN <<3 * Len(m.coarse), TRUE>> ELSE <<m.vertices, FALSE>>

\* Mutant: the authored coordinates are read again after refinement.
UvsOf_reread(in, m) ==
    CASE in.uvs = "faceVarying" /\ ~Subdivided(m) -> <<3 * Len(m.coarse), TRUE>>
      [] in.uvs = "vertex" /\ Len(in.cage.points) = m.vertices -> <<m.vertices, FALSE>>
      [] OTHER -> <<0, FALSE>>

\* A refined mesh keeps what refinement carried; the cage takes what was
\* authored if it is of the right length.
UvsOf(in, m) ==
    IF Subdivided(m) THEN <<m.uvs, m.uvsPerCorner>>
    ELSE CASE in.uvs = "faceVarying" -> <<3 * Len(m.coarse), TRUE>>
           [] in.uvs = "vertex" -> <<m.vertices, FALSE>>
           [] OTHER -> <<0, FALSE>>

Dressed(in, m) ==
    [m EXCEPT !.triangleSubsets = TriangleSubsets(in, m),
              !.normals = NormalsOf(in, m)[1], !.normalsPerCorner = NormalsOf(in, m)[2],
              !.uvs = UvsOf(in, m)[1], !.uvsPerCorner = UvsOf(in, m)[2]]

-----------------------------------------------------------------------------
MeshInit ==
    /\ input \in Inputs
    /\ phase = "placing"
    /\ choice = 0
    /\ rates = <<>>
    /\ followsPlacement = FALSE
    /\ mesh = NoMesh

\* No points, or an instancer that places it nowhere: nothing is drawn.
RemoveUnplaced ==
    /\ phase = "placing"
    /\ input.cage.points = <<>> \/ input.placements = <<>>
    /\ phase' = "removed"
    /\ UNCHANGED <<input, choice, rates, followsPlacement, mesh>>

SubdivisionWanted == input.scheme # "none"
PerFace == input.settings.perFace /\ SubdivisionWanted /\ input.settings.level > 0

Choose ==
    /\ phase = "placing"
    /\ input.cage.points # <<>> /\ input.placements # <<>>
    /\ choice' = ChooseMeshTessellation(input)
    /\ followsPlacement' = (SubdivisionWanted /\ (input.settings.adaptive \/ PerFace))
    /\ phase' = IF PerFace THEN "rating"
                ELSE IF choice' > 0 /\ SubdivisionWanted THEN "uniform" ELSE "cage"
    /\ UNCHANGED <<input, rates, mesh>>

\* Where refinement goes when per-face refinement makes nothing.
Fallback == IF choice > 0 THEN "uniform" ELSE "cage"

Rate ==
    /\ phase = "rating"
    /\ rates' = PtexEdgeRates(input)
    /\ phase' = IF rates' = <<>> THEN Fallback ELSE "budget"
    /\ UNCHANGED <<input, choice, followsPlacement, mesh>>

OverBudget == TriangleEstimate(rates) > input.settings.budget

Halve ==
    /\ phase = "budget"
    /\ OverBudget /\ ~AllSingle(rates)
    /\ rates' = HalveRates(rates)
    /\ UNCHANGED <<input, phase, choice, followsPlacement, mesh>>

BeginPatches ==
    /\ phase = "budget"
    /\ ~OverBudget \/ AllSingle(rates)
    /\ phase' = "evaluating"
    /\ UNCHANGED <<input, choice, rates, followsPlacement, mesh>>

\* The refiner or its patch table is refused, or counts other vertices.
RefusePatches ==
    /\ phase = "evaluating"
    /\ mesh.patches = <<>>
    /\ phase' = Fallback
    /\ UNCHANGED <<input, choice, rates, followsPlacement, mesh>>

Evaluate ==
    /\ phase = "evaluating"
    /\ TopologyMatches(input.cage)
    /\ LET faces == PtexFaces(input.cage)
           next  == Len(mesh.patches) + 1
       IN  /\ mesh' = [WithPatch(mesh, PtexPatch(next, faces[next], rates[next]), HasChannel(input))
                         EXCEPT !.route = "perFace"]
           /\ phase' = IF next = Len(faces) THEN "dressing" ELSE phase
    /\ UNCHANGED <<input, choice, rates, followsPlacement>>

RefineUniformly ==
    /\ phase = "uniform"
    /\ \/ /\ TopologyMatches(input.cage)
          /\ mesh' = UniformMesh(input, choice)
          /\ phase' = "dressing"
       \/ mesh' = mesh /\ phase' = "cage"      \* refused
    /\ UNCHANGED <<input, choice, rates, followsPlacement>>

RenderTheCage ==
    /\ phase = "cage"
    /\ mesh' = CageMesh(input)
    /\ phase' = IF mesh'.coarse = <<>> THEN "removed" ELSE "dressing"
    /\ UNCHANGED <<input, choice, rates, followsPlacement>>

Dress ==
    /\ phase = "dressing"
    /\ mesh' = Dressed(input, mesh)
    /\ phase' = "published"
    /\ UNCHANGED <<input, choice, rates, followsPlacement>>

MeshNext ==
    \/ RemoveUnplaced \/ Choose \/ Rate \/ Halve \/ BeginPatches
    \/ RefusePatches \/ Evaluate \/ RefineUniformly \/ RenderTheCage \/ Dress

MeshSpec == MeshInit /\ [][MeshNext]_meshVars
-----------------------------------------------------------------------------
\* What a refined mesh owes the cage it came from

TriangleSamples(quad) == UNION {Range(quad.triangles[t]) : t \in DOMAIN quad.triangles}

OnLine(p, side) ==
    CASE side = 1 -> p[2] = 0
      [] side = 2 -> p[1] = MaxRate
      [] side = 3 -> p[2] = MaxRate
      [] side = 4 -> p[1] = 0

Along(p, side) ==
    LET away == Apart2(p, Corner[side]) IN CHOOSE n \in 0..MaxRate : Square(n) = away

\* How far along a side of a patch its triangles put samples, from its start.
SideSamples(patch, side) ==
    {Along(patch.quad.samples[n], side) :
        n \in {m \in TriangleSamples(patch.quad) : OnLine(patch.quad.samples[m], side)}}

Ends(patch, side) == <<patch.corners[side], patch.corners[Following(side)]>>
Backwards(S) == {MaxRate - n : n \in S}

(* Two domains that share a side put the same samples on it, whichever way *)
(* each walks it: a sample one of them has and the other has not is a      *)
(* T-junction, which the measured seam gap cannot see because it compares  *)
(* samples of equal rates only.                                            *)
SidesAgree ==
    \A p, q \in Range(mesh.patches) : \A s, t \in 1..4 :
        /\ Ends(p, s) = Ends(q, t) => SideSamples(p, s) = SideSamples(q, t)
        /\ Ends(p, s) = <<Ends(q, t)[2], Ends(q, t)[1]>>
             => SideSamples(p, s) = Backwards(SideSamples(q, t))

\* Twice the area of a triangle of a domain, positive as the domain turns.
Area2(quad, t) ==
    LET a == quad.samples[t[1]]
        b == quad.samples[t[2]]
        c == quad.samples[t[3]]
    IN  (b[1] - a[1]) * (c[2] - a[2]) - (c[1] - a[1]) * (b[2] - a[2])

DirectedEdges(t) == {<<t[1], t[2]>>, <<t[2], t[3]>>, <<t[3], t[1]>>}

(* The triangles of a domain face the way it does, meet edge to edge       *)
(* inside it, and cover all of it once, whatever its four rates.           *)
DomainsCoveredOnce ==
    \A patch \in Range(mesh.patches) :
        LET quad  == patch.quad
            made  == Range(quad.triangles)
            edges == UNION {DirectedEdges(t) : t \in made}
            outer == {e \in edges : <<e[2], e[1]>> \notin edges}
        IN  /\ \A t \in made : Area2(quad, t) > 0
            /\ Total([k \in DOMAIN quad.triangles |-> Area2(quad, quad.triangles[k])])
                  = 2 * Square(MaxRate)
            /\ Cardinality(edges) = 3 * Len(quad.triangles)
            /\ \A e \in outer : \E side \in 1..4 :
                 OnLine(quad.samples[e[1]], side) /\ OnLine(quad.samples[e[2]], side)

(* The face budget has the last word on either route.  What per-face       *)
(* refinement reckons is never less than what it then makes, and it stops  *)
(* halving only under the budget or at one segment a side; uniform         *)
(* refinement of faces of up to four corners stays under it too.           *)
BudgetHolds ==
    /\ mesh.route = "perFace" =>
         Len(mesh.coarse) =< input.settings.budget \/ AllSingle(rates)
    /\ mesh.route = "uniform" /\ (\A f \in DOMAIN input.cage.faces : Len(input.cage.faces[f]) =< 4)
         => Len(mesh.coarse) =< 2 * input.settings.budget

(* A published mesh's coordinates and normals are one per vertex or one    *)
(* per corner of what is published, as they say, never of the cage it was  *)
(* refined from, and its subsets name every triangle.  A mesh that was     *)
(* given coordinates of the right length still has them.                   *)
ArraysDescribeTheMesh ==
    phase = "published" =>
        LET corners == 3 * Len(mesh.coarse)
            count(perCorner) == IF perCorner THEN corners ELSE mesh.vertices
        IN  /\ mesh.uvs = (IF HasChannel(input) THEN count(mesh.uvsPerCorner) ELSE 0)
            /\ mesh.normals = count(mesh.normalsPerCorner)
            /\ input.subsets # <<>> => DOMAIN mesh.triangleSubsets = DOMAIN mesh.coarse
            /\ \A f \in DOMAIN input.cage.faces :
                 Len(input.cage.faces[f]) > 2 => f \in Range(mesh.coarse)

\* Where a coarse face samples one of its coarse edges, in halves of a
\* segment of the finest rate, from the edge's lower vertex.
EdgeSamples(f, edge) ==
    LET low == SmallestOf(edge)
        high == CHOOSE v \in edge : v # low
        sides(a, b) == {at \in Range(mesh.patches) \X (1..4) :
                          at[1].coarse = f /\ Ends(at[1], at[2]) = <<a, b>>}
        of(a, b, scaled) == UNION {
            {scaled[n] : n \in SideSamples(at[1], at[2])} : at \in sides(a, b)}
        mid == EdgeMidpoint(low, high)
    IN  UNION {of(Vertex(low), Vertex(high), [n \in 0..MaxRate |-> 2 * n]),
               of(Vertex(high), Vertex(low), [n \in 0..MaxRate |-> 2 * (MaxRate - n)]),
               of(Vertex(low), mid, [n \in 0..MaxRate |-> n]),
               of(mid, Vertex(low), [n \in 0..MaxRate |-> MaxRate - n]),
               of(mid, Vertex(high), [n \in 0..MaxRate |-> MaxRate + n]),
               of(Vertex(high), mid, [n \in 0..MaxRate |-> 2 * MaxRate - n])}

(* quad_tessellation.h says the two faces that share an edge compute the   *)
(* same rate for it, so that neither has a sample the other has not.  A    *)
(* quad beside a face that is not one computes a rate for the whole edge   *)
(* where its neighbour computes one for each half.                         *)
SharedEdgesMatch ==
    mesh.route = "perFace" /\ phase # "evaluating" =>
        \A f, g \in DOMAIN input.cage.faces :
            \A edge \in EdgesOf(input.cage.faces[f]) \cap EdgesOf(input.cage.faces[g]) :
                Len(input.cage.faces[f]) > 2 /\ Len(input.cage.faces[g]) > 2 =>
                    EdgeSamples(f, edge) = EdgeSamples(g, edge)
=============================================================================
