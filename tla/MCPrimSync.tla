------------------------------ MODULE MCPrimSync ------------------------------
EXTENDS PrimSync, TLC

CONSTANTS mesh, ball, hair, cloud, lamp, cull, inner, outer

PrimsDef == {mesh, ball, hair, cloud, lamp, cull}
InstancersDef == {inner, outer}
MovesDef == {"moved", "row", "left", "right", "half", "double", "up", "half turn", "quarter turn",
             "skew", "ring"}
KindDef == mesh :> "mesh" @@ ball :> "sphere" @@ hair :> "curves" @@ cloud :> "splats"
           @@ lamp :> "light" @@ cull :> "volume"
ParentDef == mesh :> inner @@ ball :> Nowhere @@ hair :> outer @@ cloud :> Nowhere
             @@ lamp :> Nowhere @@ cull :> Nowhere @@ inner :> outer @@ outer :> Nowhere

Plain(shape) == [shape |-> shape, at |-> <<>>, visible |-> TRUE, links |-> {}, material |-> "grey"]

Meshes == {Plain("subdivided"), [Plain("subdivided") EXCEPT !.at = <<"moved">>],
           [Plain("subdivided") EXCEPT !.material = "red", !.links = {"key"}],
           Plain("cage"), Plain("none"), Absent}
Balls == {Plain("small"), Plain("large"), [Plain("small") EXCEPT !.at = <<"moved">>], Absent}
Hairs == {Plain("cubic"), Plain("pinned"), [Plain("linear") EXCEPT !.visible = FALSE], Absent}
Clouds == {Plain("cloud"), Plain("none"), Absent}
Lamps == {Plain("lit"), [Plain("lit") EXCEPT !.visible = FALSE], Plain("unsupported"), Absent}
Culls == {Plain("cube"), Plain("wedge"), Absent}

Bare == [visible |-> TRUE, primvars |-> <<>>, indices |-> <<1>>, at |-> <<>>,
         links |-> {}, perInstance |-> <<>>]
Row == [Bare EXCEPT !.indices = <<1, 2>>, !.at = <<"row">>, !.links = {"row"},
                    !.perInstance = <<{"first"}>>,
                    !.primvars = [translations |-> <<"left", "right">>, scales |-> <<"half", "double">>]]
Rows == {Row, [Row EXCEPT !.primvars = [translations |-> <<"left", "right">>]],
         [Row EXCEPT !.primvars = [translations |-> <<"up">>, scales |-> Blocked],
                     !.indices = <<1, 1>>],
         [Row EXCEPT !.indices = <<>>]}
Ring == [Bare EXCEPT !.indices = <<2, 1>>,
                     !.primvars = [rotations |-> <<"half turn", "quarter turn">>,
                                   transforms |-> <<"skew">>]]
Rings == {Ring, [Ring EXCEPT !.visible = FALSE], [Ring EXCEPT !.at = <<"ring">>]}

AuthoredDef == mesh :> Meshes @@ ball :> Balls @@ hair :> Hairs @@ cloud :> Clouds
               @@ lamp :> Lamps @@ cull :> Culls @@ inner :> Rows @@ outer :> Rings

\* One or two prims to begin with; the host adds the others.
Holding(prims) == [p \in PrimsDef |-> IF p \in DOMAIN prims THEN prims[p] ELSE Absent]
                  @@ inner :> Row @@ outer :> Ring
Uniform == [adaptive |-> FALSE, perFace |-> FALSE, level |-> 2, offScreen |-> 1, follow |-> FALSE,
            retessellate |-> 0, implicit |-> TRUE, sides |-> 6, samples |-> 1]
AskedForDef == {Uniform, [Uniform EXCEPT !.level = 30, !.offScreen = -1],
                [Uniform EXCEPT !.adaptive = TRUE],
                [Uniform EXCEPT !.adaptive = TRUE, !.retessellate = 1],
                [Uniform EXCEPT !.perFace = TRUE, !.level = 1, !.offScreen = 3, !.follow = TRUE],
                [Uniform EXCEPT !.implicit = FALSE, !.sides = 2, !.samples = 40]}

Divided(radial, axial) == [radial |-> radial, axial |-> axial]
DivisionsDef == {Divided(10, 10), Divided(2, 10), Divided(10, 1)}

Opening(prims, geometry) ==
    [stage |-> Holding(prims), asked |-> [geometry |-> geometry, divisions |-> Divided(10, 10)],
     camera |-> 1]
OpeningsDef ==
    {Opening(mesh :> Plain("subdivided"), g) : g \in {Uniform, [Uniform EXCEPT !.adaptive = TRUE]}}
    \cup {Opening(ball :> Plain("small") @@ hair :> Plain("cubic"), Uniform),
          Opening(cloud :> Plain("cloud") @@ lamp :> Plain("lit") @@ cull :> Plain("cube"), Uniform)}
=============================================================================
