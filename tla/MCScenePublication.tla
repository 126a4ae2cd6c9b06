------------------------- MODULE MCScenePublication -------------------------
(* Instances of ScenePublication: a handful of scenes, each against the     *)
(* others.                                                                  *)
EXTENDS ScenePublication, TLC

CONSTANTS sheet, bent, hair, blown, mist, bark, snow, sky, dusk, push, pull, cutout,
          wood, ice

AllMeshes == {sheet, bent, hair, blown}
AllTopologies == [m \in AllMeshes |-> IF m \in {hair, blown} THEN "strands" ELSE "grid"]
AllPrograms == [m \in {wood, ice} |-> IF m = wood THEN push ELSE pull]
AllSlots == [m \in {wood, ice} |-> <<1>>]

Proto(m, D) == [mesh |-> m, displacers |-> D]

\* At rest, with a dome, a cut-out material and a displaced sheet; the second
\* prototype and the first cloud have nothing in them, but placements.
Still == [textures |-> <<bark, sky>>, dome |-> 2, library |-> cutout,
          displacers |-> {wood}, prototypes |-> <<Proto(sheet, {wood}), None, Proto(hair, {})>>,
          placements |-> <<1, 2, 3, 1>>, clouds |-> <<None, mist>>, splats |-> <<1, 2>>]
\* An animation later, with no dome, no splats, another sky, and no material that displaces
\* or is cut out.
Moving == [Still EXCEPT !.prototypes = <<Proto(bent, {}), Proto(sheet, {wood}), Proto(blown, {})>>,
                        !.displacers = {}, !.library = None, !.dome = 0,
                        !.textures = <<bark, dusk>>, !.clouds = <<None>>]
\* Another order and no curves, another dome, a texture that did not decode, and a
\* sheet that two materials displace, which is then not displaced.
Sorted == [Still EXCEPT !.prototypes = <<Proto(bent, {wood, ice}), Proto(sheet, {wood}),
                                         Proto(bent, {})>>,
                        !.displacers = {wood, ice}, !.placements = <<2, 1, 3>>,
                        !.textures = <<bark, None, dusk>>, !.dome = 3,
                        !.clouds = <<mist, mist>>]
\* The first texture decoded again.
Rough == [Still EXCEPT !.textures = <<snow, sky>>]

AllScenes == {Still, Moving, Sorted, Rough}
Interchangeable == Permutations(Addresses)

\* Where a throw leaves every key true.
KeyedFaults == {"extend", "displace", "refit", "rebuild", "mesh", "cloud", "top", "table",
                "dome", "shade"}
=============================================================================
