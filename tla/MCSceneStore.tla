---------------------------- MODULE MCSceneStore ----------------------------
(* Instances of SceneStore: one per question, because the store's maps do   *)
(* not interact except through the snapshot.                                *)
EXTENDS SceneStore

One == <<"a">>
Moved == <<"b">>
Two == <<"a", "b">>
MCTransforms == {One, Moved, Two}

Prim(t, v, m, s) ==
  [geometry |-> TRUE, transforms |-> t, visible |-> v, material |-> m, subset |-> s]

MCNetworks == {"oak", "oakCopy", "broken"}
MCPrograms == {"wood", "grey"}
MCCompilation == [n \in MCNetworks |-> IF n = "broken" THEN None ELSE "wood"]
NoNetworks == {"oak"}
NoCompilation == [n \in NoNetworks |-> "grey"]
OneProgram == {"grey"}

Authored(n) == [network |-> n, pending |-> TRUE, program |-> None, shared |-> FALSE]
Immediate(p) == [network |-> None, pending |-> FALSE, program |-> p, shared |-> FALSE]

Volume(v, p, k, every, link, shape) ==
  [visible |-> v, purpose |-> p, kinds |-> k, linksEverything |-> every,
   cullLink |-> link, shape |-> shape]

Dome(c, m, l) == [dome |-> TRUE, color |-> c, map |-> m, links |-> l]
Emitter(c, l) == [dome |-> FALSE, color |-> c, map |-> None, links |-> l]

NoneAtAll == {}
AllPrims == [sel \in Selections |-> Prims]
HidesFirst == [sel \in Selections |-> IF sel = "all" THEN Prims
                                      ELSE {p \in Prims : \E q \in Prims : q < p}]
AllPurposes == [sel \in Selections |-> {"default", "guide"}]
NoGuides == [sel \in Selections |-> IF sel = "all" THEN {"default", "guide"} ELSE {"default"}]

\* The scene a snapshot shows, less its materials.
SceneMeshes == {Prim(One, TRUE, None, None), Prim(Moved, FALSE, None, None)}
SceneSplats == {Prim(Two, TRUE, None, None)}
SceneLights == {Dome("blue", "sky.exr", "linked"), Emitter("white", None)}

\* Materials, compilation and subsets.
MaterialMeshes == {Prim(One, TRUE, 1, 2), Prim(One, TRUE, 2, None), Prim(One, FALSE, 1, None),
                   Prim(One, TRUE, 3, 1)}
MaterialMaterials == {Authored("oak"), Authored("oakCopy"), Authored("broken"),
                      Immediate("grey"), Immediate(None)}

\* Cull volumes, one more than the table holds.
CullVolumeEntries == {
  Volume(TRUE, "default", {"primary"}, TRUE, {}, "cube"),
  Volume(TRUE, "default", {"primary"}, TRUE, {}, "sphere"),
  Volume(TRUE, "default", {"secondary"}, TRUE, {}, "cube"),
  Volume(TRUE, "default", {"secondary"}, FALSE, {1}, "cube"),
  Volume(FALSE, "default", {"primary"}, TRUE, {}, "cube"),
  Volume(TRUE, "guide", {"primary", "secondary"}, FALSE, {}, "none")}
=============================================================================
