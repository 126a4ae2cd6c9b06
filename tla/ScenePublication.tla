-------------------------- MODULE ScenePublication --------------------------
(***************************************************************************)
(* PathTracer::SetScene, over and over: the resources it keeps             *)
(* (SceneResources) and the structures (SceneAccelerator), for any         *)
(* sequence of scenes, each publication finished or thrown out of.         *)
(***************************************************************************)
EXTENDS SceneAccelerator

CONSTANT Faults   \* the places a publication may throw

\* Where SetScene can throw: a pipeline, an upload, a dispatch, a build.
Throwing == {"extend", "shadow", "textures", "displace", "refit", "rebuild", "mesh",
             "cloud", "top", "table", "dome", "domeUpload", "distribution", "copy", "shade"}
ASSUME FaultsAreThrown == Faults \subseteq Throwing

vars == <<at, next, scene, resources, accelerator>>

Init == ResourcesInit /\ AcceleratorInit

\* A step that does nothing that can throw does not.
CanThrow ==
  CASE at = "textures"   -> SlotUploads
    [] at = "displace"   -> Dispatches
    [] at = "mesh"       -> NewMesh
    [] at = "cloud"      -> NewCloud
    [] at = "refit"      -> Refits(Mesh)
    [] at = "domeUpload" -> DomeImage # None
    [] OTHER             -> TRUE

\* A build with no memory left for it throws.
Exhausted == Free = {} /\ (at = "rebuild" \/ NewMesh \/ NewCloud)

Throw ==
  /\ at \in Throwing
  /\ (at \in Faults /\ CanThrow) \/ Exhausted
  /\ AbandonResources
  /\ AbandonAccelerator

Step == (ResourceStep /\ UNCHANGED accelerator) \/ AcceleratorStep

Next ==
  \/ \E s \in Scenes : Publish(s) /\ UNCHANGED accelerator
  \/ Step
  \/ Throw

Spec == Init /\ [][Next]_vars

-----------------------------------------------------------------------------
(* Types.                                                                   *)

Structure == [of : Contents \union Clouds \union {None}, updatable : BOOLEAN]

\* The locals of a publication are empty between publications; the pool and its
\* keys agree in length but for the one being made.
TypeOK ==
  /\ at \in Rest \union Throwing \union {"release"}
  /\ next \in Nat
  /\ scene \in Scenes \union {None}
  /\ fromScene \in BOOLEAN /\ {extend, shadow} \subseteq Libraries \union {None}
  /\ pool \in Seq(Images \union {None}) /\ uploaded \in Seq(Images \union {None})
  /\ fresh \in Seq(Images \union {None})
  /\ Image(displaced) \union Image(used) \subseteq Contents
  /\ meshes \in Seq(Contents \union {None})
  /\ {dome, uploadedDome, distribution.shape} \subseteq Images \union {None}
  /\ memory \in [Addresses -> Structure]
  /\ DOMAIN held \union DOMAIN retained \subseteq Contents
  /\ candidates \subseteq DOMAIN held
  /\ taken \in Addresses \union {None}
  /\ \A e \in top : e.index \in Nat /\ e.structure \in Addresses
  /\ at \in Rest => fresh = <<>> /\ used = Empty /\ retained = Empty /\ retainedClouds = Empty
                    /\ taken = None

-----------------------------------------------------------------------------
(* Safety.                                                                  *)

\* Reuse by fingerprint is sound: whatever was kept, refitted, rebuilt or lost
\* to a throw, the structure held for a geometry is over that geometry.
HeldIsItsGeometry ==
  /\ \A f \in DOMAIN held : f # None /\ memory[held[f]].of = f
  /\ \A f \in DOMAIN retained : f # None /\ memory[retained[f]].of = f
  /\ \A c \in DOMAIN clouds : c # None /\ memory[clouds[c]].of = c
  /\ \A c \in DOMAIN retainedClouds : c # None /\ memory[retainedClouds[c]].of = c

Owners == <<held, retained, clouds, retainedClouds>>

\* No structure is freed twice, leaked, or refitted under someone else: each has
\* exactly one owner.
EachStructureHasOneOwner ==
  \A a \in Addresses :
    LET owners == (UNION {{<<k, x>> : x \in {y \in DOMAIN Owners[k] : Owners[k][y] = a}} :
                            k \in DOMAIN Owners})
                  \union (IF taken = a THEN {<<0, a>>} ELSE {})
    IN IF memory[a].of = None THEN owners = {} ELSE Cardinality(owners) = 1

Content(index) ==
  IF index <= Len(scene.placements)
    THEN LET p == scene.placements[index] IN IF p \in DOMAIN meshes THEN meshes[p] ELSE None
    ELSE LET p == scene.splats[index - Len(scene.placements)]
         IN IF p \in DOMAIN scene.clouds THEN scene.clouds[p] ELSE None

\* A ray that hits an instance finds, under its custom index, that placement's
\* geometry in the instance table; and every placement with geometry is there,
\* once, whichever others have none.
HitFindsItsGeometry ==
  at = "published" =>
    /\ \A e \in top :
         /\ e.index \in DOMAIN table
         /\ table[e.index] = e.structure
         /\ memory[e.structure].of = Content(e.index)
    /\ \A index \in 1 .. Count :
         Content(index) # None => Cardinality({e \in top : e.index = index}) = 1

Stored == {memory[a].of : a \in Addresses}

\* A scene that gave way and its successor are not on the device together.  What the
\* build of a mesh finds there is a mesh whose topology is wanted, or a cloud of the
\* last publication: Update releases stale meshes before it builds anything, and stale
\* clouds only when every mesh is built, though its comment says that everything else
\* goes first.  What the build of a cloud or of the instances finds is this scene's.
BuildsBesideWantedOnly ==
  /\ at \in {"mesh", "refit", "rebuild"} =>
       \A f \in Stored \ {None} :
         IF f \in Clouds THEN f \in DOMAIN clouds
         ELSE \E w \in Wanted : Topology(w) = Topology(f)
  /\ at \in {"cloud", "top"} => Stored \ {None} \subseteq Wanted \union Image(scene.clouds)

Updating == {"release", "mesh", "refit", "rebuild"}

\* A step of an update that is not thrown out of leaves alone what the scene wants.
LeavesWanted ==
  at' # "failed" =>
    \A a \in Addresses :
      memory[a].of \in Wanted => memory'[a] = memory[a]

\* A publication of geometries that are all held, in whatever order, builds,
\* refits and releases none of them.
ReorderBuildsNothing ==
  [][Wanted \subseteq Stored /\ at \in Updating => LeavesWanted]_vars

\* A slot that compares equal to its key holds the key's image or nothing, so
\* reuse never binds another texture, whatever throws.
PoolHoldsItsKey ==
  \A slot \in DOMAIN pool \intersect DOMAIN uploaded : pool[slot] \in {uploaded[slot], None}

\* What a publication leaves in the pool is the scene's textures.
TexturesArePublished == at = "published" => pool = scene.textures

\* The dome's map and its distribution are the scene's dome.
EnvironmentIsPublished ==
  at = "published" =>
    /\ dome = DomeImage
    /\ distribution = [buffer |-> dome, shape |-> dome]

\* Camera and shadow rays are answered by the scene's kernels, or the defaults.
KernelsArePublished == at = "published" => extend = scene.library /\ shadow = scene.library

\* What is traced where a prototype was, but for the texels a displacement read.
DisplacedByItsProgram ==
  at = "published" =>
    \A k \in DOMAIN scene.prototypes :
      LET p == scene.prototypes[k]
      IN \/ meshes[k] = Plain(p)
         \/ /\ Displaceable(p)
            /\ [meshes[k] EXCEPT !.sampled = <<>>] = [Displace(p) EXCEPT !.sampled = <<>>]

\* What was kept is what a tracer with nothing to keep would have made.
PublishesWhatItWasGiven ==
  TexturesArePublished /\ EnvironmentIsPublished /\ KernelsArePublished /\ DisplacedByItsProgram
=============================================================================
