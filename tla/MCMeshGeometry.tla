--------------------------- MODULE MCMeshGeometry ---------------------------
EXTENDS MeshGeometry

\* Two quads running away from the camera, and an edge that is no face.
Strip == [faces  |-> <<<<1, 2, 3, 4>>, <<4, 3, 6, 5>>, <<1, 2>>>>,
          points |-> <<<<0, 0>>, <<24, 0>>, <<24, 24>>, <<0, 24>>, <<0, 72>>, <<24, 72>>>>]
\* Two triangles of sides three, four and five.
Triangles == [faces  |-> <<<<1, 2, 3>>, <<3, 2, 4>>>>,
              points |-> <<<<0, 0>>, <<48, 0>>, <<0, 36>>, <<48, 36>>>>]
Pentagon == [faces  |-> <<<<1, 2, 3, 4, 5>>>>,
             points |-> <<<<0, 0>>, <<120, 0>>, <<120, 60>>, <<60, 140>>, <<0, 60>>>>]
\* A quad and a triangle that share an edge.
House == [faces  |-> <<<<1, 2, 3, 4>>, <<4, 3, 5>>>>,
          points |-> <<<<0, 0>>, <<48, 0>>, <<48, 48>>, <<0, 48>>, <<0, 84>>>>]
\* The topology of one frame and the points of another.
Stale == [faces  |-> <<<<1, 2, 3, 4>>, <<4, 3, 6, 5>>>>,
          points |-> <<<<0, 0>>, <<24, 0>>, <<24, 24>>, <<0, 24>>>>]
Empty == [faces |-> <<>>, points |-> <<<<0, 0>>>>]
Bare == [faces |-> <<<<1, 2, 3>>>>, points |-> <<>>]

Perspective == [valid |-> TRUE, eye |-> <<12, -12>>, clip |-> {}, focal |-> 2, parallel |-> 0]
Views == {Perspective,
          [Perspective EXCEPT !.eye = <<12, 24>>, !.focal = 6],
          [Perspective EXCEPT !.clip = {<<0, -1, 30>>, <<1, 0, 6>>}, !.focal = 8],
          [Perspective EXCEPT !.parallel = 12],
          [Perspective EXCEPT !.valid = FALSE]}

Level(n) == [level |-> n, offScreen |-> 1, budget |-> 1000, adaptive |-> TRUE, perFace |-> TRUE]
AdaptiveSettings == {Level(2), [Level(2) EXCEPT !.budget = 40, !.offScreen = 0],
                     [Level(2) EXCEPT !.budget = 5],
                     [Level(2) EXCEPT !.perFace = FALSE, !.budget = 20]}
UniformSettings == {[Level(1) EXCEPT !.adaptive = FALSE],
                    [Level(2) EXCEPT !.adaptive = FALSE, !.perFace = FALSE, !.budget = 8],
                    [Level(0) EXCEPT !.adaptive = FALSE]}

Here == <<<<1, 0, 0>>>>
Placements == {Here, <<<<1, 36, 12>>, <<2, 0, 24>>>>}

\* Coordinates, normals and subsets by turns rather than by every product.
Dressings == {<<"none", "none", <<>>>>, <<"vertex", "vertex", <<{1}, {2}>>>>,
              <<"faceVarying", "faceVarying", <<{1, 2}, {1}>>>>,
              <<"short", "uniform", <<{1}>>>>, <<"faceVarying", "constant", <<>>>>}
Plain == {<<"vertex", "none", <<{2}>>>>, <<"none", "uniform", <<>>>>}

Mesh(cage, scheme, settings, view, placements, dressing) ==
    [cage |-> cage, scheme |-> scheme, settings |-> settings, view |-> view,
     placements |-> placements, uvs |-> dressing[1], normals |-> dressing[2],
     subsets |-> dressing[3]]

Unseen == [Perspective EXCEPT !.valid = FALSE]
ManyInputs ==
    {Mesh(c, "catmullClark", s, v, p, d) :
        c \in {Strip, Triangles, Pentagon, House}, s \in AdaptiveSettings, v \in Views,
        p \in Placements, d \in Plain}
    \cup {Mesh(c, k, s, Unseen, Here, d) :
        c \in {Strip, House, Stale, Empty, Bare}, k \in {"none", "catmullClark"},
        s \in UniformSettings, d \in Dressings}
    \cup {Mesh(Stale, "catmullClark", s, Perspective, p, d) :
        s \in AdaptiveSettings, p \in Placements, d \in Dressings}
    \cup {Mesh(Strip, "catmullClark", Level(1), Perspective, <<>>, d) : d \in Plain}

MixedInputs == {Mesh(House, "catmullClark", Level(2), v, Here, d) : v \in Views, d \in Dressings}
=============================================================================
