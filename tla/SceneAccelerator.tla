-------------------------- MODULE SceneAccelerator --------------------------
(***************************************************************************)
(* SceneAccelerator::Update (src/gpu/acceleration_structure.cpp): the      *)
(* structures over a scene's prototypes, kept from one publication to the  *)
(* next by what they were built over, and the one over its placements.     *)
(*                                                                         *)
(* A structure owns its device memory, so it is identified by where that   *)
(* is, and it is one map's or one local's at a time: moving out of a map   *)
(* and throwing destroys it.  A fingerprint is the content it hashes; a    *)
(* topology fingerprint is what a deformation keeps.                       *)
(***************************************************************************)
EXTENDS SceneResources

CONSTANTS
  Addresses,   \* where structures can be built: the device's memory
  TopologyOf   \* a mesh's indices, counts and formats

ASSUME TopologiesAreTotal == DOMAIN TopologyOf = Meshes
ASSUME NoneIsNowhere == None \notin Addresses
\* Meshes and splats are kept in maps of their own: a cloud is no mesh's content.
ASSUME CloudsAreApart == \A c \in Clouds \union {None} : c \notin Contents

VARIABLES
  memory,      \* what the structure at an address is over (None if there is none),
               \* and whether it can be refitted
  held,        \* _byFingerprint
  retained,    \* local: retained
  candidates,  \* local: byTopology
  taken,       \* local: the structure a deformed prototype takes over
  clouds,      \* _bySplatFingerprint
  retainedClouds, \* local: retainedSplats
  top,         \* _tlas: custom index and structure of each instance
  table        \* PathTracer::_instanceTable: the structure each entry points into

accelerator == <<memory, held, retained, candidates, taken, clouds, retainedClouds,
                 top, table>>
resources == <<kernels, textures, displacement, environment>>

Vacant == [of |-> None, updatable |-> FALSE]

AcceleratorInit ==
  /\ memory = [a \in Addresses |-> Vacant]
  /\ held = Empty /\ retained = Empty /\ candidates = {} /\ taken = None
  /\ clouds = Empty /\ retainedClouds = Empty
  /\ top = {} /\ table = <<>>

Only(f, S) == [x \in DOMAIN f \intersect S |-> f[x]]
Image(f) == {f[x] : x \in DOMAIN f}
Topology(f) == TopologyOf[f.mesh]

\* Built at a: over f, updatable or not.
Built(a, f, updatable) ==
  memory' = [memory EXCEPT ![a] = [of |-> f, updatable |-> updatable]]
Freed(A) == memory' = [a \in Addresses |-> IF a \in A THEN Vacant ELSE memory[a]]
Free == {a \in Addresses : memory[a].of = None}

-----------------------------------------------------------------------------
(* Mesh prototypes.                                                         *)

Wanted == {meshes[k] : k \in DOMAIN meshes} \ {None}

\* Mutant: nothing goes until its successor is built.
Kept_all == DOMAIN held

\* Geometry asked for again, and topology a deformation may take over.
Kept == {f \in DOMAIN held : f \in Wanted \/ \E w \in Wanted : Topology(w) = Topology(f)}

\* Everything else is released before anything is built.
Release ==
  /\ at = "release"
  /\ held' = Only(held, Kept)
  /\ Freed({held[f] : f \in DOMAIN held \ Kept})
  /\ candidates' = Kept
  /\ at' = "mesh"
  /\ next' = 1
  /\ UNCHANGED <<scene, resources, retained, taken, clouds, retainedClouds, top, table>>

Mesh == meshes[next]
AtMesh == at = "mesh" /\ next <= Len(meshes)

ShareMesh ==
  /\ AtMesh
  /\ Mesh = None \/ Mesh \in DOMAIN retained
  /\ next' = next + 1
  /\ UNCHANGED <<at, scene, resources, accelerator>>

\* Mutant: a deformation is looked for first.
Novel_always(f) == f # None /\ f \notin DOMAIN retained
Novel(f) == f # None /\ f \notin DOMAIN retained \union DOMAIN held

\* EraseTopology: the entry that names this structure.
Erased(f) == candidates \ {f}

KeepMesh ==
  /\ AtMesh /\ Mesh \in DOMAIN held \ DOMAIN retained
  /\ retained' = With(retained, Mesh, held[Mesh])
  /\ held' = Only(held, DOMAIN held \ {Mesh})
  /\ candidates' = Erased(Mesh)
  /\ next' = next + 1
  /\ UNCHANGED <<at, scene, resources, memory, taken, clouds, retainedClouds, top, table>>

Deformable(f) == {c \in candidates : Topology(c) = Topology(f)}

\* The same mesh at another moment: its structure is taken out of the map, where
\* it still is (TypeOK: every candidate is held).
TakeMesh ==
  /\ AtMesh /\ Novel(Mesh)
  /\ \E c \in Deformable(Mesh) :
       /\ candidates' = candidates \ {c}
       /\ taken' = held[c]
       /\ held' = Only(held, DOMAIN held \ {c})
  /\ at' = "refit"
  /\ UNCHANGED <<next, scene, resources, memory, retained, clouds, retainedClouds, top, table>>

\* Mutant: curves are refitted too.
Refits_curves(f) == memory[taken].updatable
Refits(f) == memory[taken].updatable /\ f.mesh \notin Curves

\* An update rewrites vertices, not the segments and boxes of a curve.
Refit ==
  /\ at = "refit" /\ Refits(Mesh)
  /\ Built(taken, IF Mesh.mesh \in Curves THEN memory[taken].of ELSE Mesh, TRUE)
  /\ retained' = With(retained, Mesh, taken)
  /\ taken' = None
  /\ at' = "mesh"
  /\ next' = next + 1
  /\ UNCHANGED <<scene, resources, held, candidates, clouds, retainedClouds, top, table>>

\* It cannot be: it is released, and the geometry rebuilt so that it can.
Discard ==
  /\ at = "refit" /\ ~Refits(Mesh)
  /\ Freed({taken})
  /\ taken' = None
  /\ at' = "rebuild"
  /\ UNCHANGED <<next, scene, resources, held, retained, candidates, clouds, retainedClouds,
                 top, table>>

BuildMesh(updatable) ==
  /\ \E a \in Free : Built(a, Mesh, updatable) /\ retained' = With(retained, Mesh, a)
  /\ at' = "mesh"
  /\ next' = next + 1
  /\ UNCHANGED <<scene, resources, held, candidates, taken, clouds, retainedClouds, top, table>>

NewMesh == AtMesh /\ Novel(Mesh) /\ Deformable(Mesh) = {}
Rebuild == at = "rebuild" /\ BuildMesh(TRUE)
Build == NewMesh /\ BuildMesh(FALSE)

-----------------------------------------------------------------------------
(* Splat clouds: the same, with nothing to deform.                          *)

\* Mutant: what no prototype took stays on the device.
Leftover_leaked == {}
Leftover == Image(held)

FinishMeshes ==
  /\ at = "mesh" /\ next > Len(meshes)
  /\ held' = retained
  /\ retained' = Empty
  /\ candidates' = {}
  /\ LET wanted == {scene.clouds[k] : k \in DOMAIN scene.clouds}
     IN /\ clouds' = Only(clouds, wanted)
        /\ Freed(Leftover \union {clouds[c] : c \in DOMAIN clouds \ wanted})
  /\ at' = "cloud"
  /\ next' = 1
  /\ UNCHANGED <<scene, resources, taken, retainedClouds, top, table>>

Cloud == scene.clouds[next]
AtCloud == at = "cloud" /\ next <= Len(scene.clouds)

ShareCloud ==
  /\ AtCloud
  /\ Cloud = None \/ Cloud \in DOMAIN retainedClouds
  /\ next' = next + 1
  /\ UNCHANGED <<at, scene, resources, accelerator>>

KeepCloud ==
  /\ AtCloud /\ Cloud \in DOMAIN clouds \ (DOMAIN retainedClouds \union {None})
  /\ retainedClouds' = With(retainedClouds, Cloud, clouds[Cloud])
  /\ clouds' = Only(clouds, DOMAIN clouds \ {Cloud})
  /\ next' = next + 1
  /\ UNCHANGED <<at, scene, resources, memory, held, retained, candidates, taken, top, table>>

NewCloud == AtCloud /\ Cloud # None /\ Cloud \notin DOMAIN clouds \union DOMAIN retainedClouds

BuildCloud ==
  /\ NewCloud
  /\ \E a \in Free :
       /\ Built(a, Cloud, FALSE)
       /\ retainedClouds' = With(retainedClouds, Cloud, a)
  /\ next' = next + 1
  /\ UNCHANGED <<at, scene, resources, held, retained, candidates, taken, clouds, top, table>>

FinishClouds ==
  /\ at = "cloud" /\ next > Len(scene.clouds)
  /\ clouds' = retainedClouds
  /\ retainedClouds' = Empty
  /\ Freed(Image(clouds))
  /\ at' = "top"
  /\ UNCHANGED <<next, scene, resources, held, retained, candidates, taken, top, table>>

-----------------------------------------------------------------------------
(* Placements.                                                              *)

\* The structure over a prototype, None if it has none: Blas and SplatBlas.
Blas(p) ==
  IF p \in DOMAIN meshes /\ meshes[p] \in DOMAIN held THEN held[meshes[p]] ELSE None
SplatBlas(p) ==
  IF p \in DOMAIN scene.clouds /\ scene.clouds[p] \in DOMAIN clouds
    THEN clouds[scene.clouds[p]] ELSE None

Count == Len(scene.placements) + Len(scene.splats)
Placed(index) ==
  IF index <= Len(scene.placements) THEN Blas(scene.placements[index])
  ELSE SplatBlas(scene.splats[index - Len(scene.placements)])

\* Mutant: a splat's custom index follows the last mesh placement that is drawn.
SplatIndex_appended(k) ==
  Cardinality({j \in DOMAIN scene.placements : Blas(scene.placements[j]) # None}) + k
SplatIndex(k) == Len(scene.placements) + k

\* One instance a placement whose prototype has a structure, numbered by the
\* placement; splats after meshes.
BuildTop ==
  /\ at = "top"
  /\ top' = {[index |-> j, structure |-> Blas(scene.placements[j])] :
               j \in {k \in DOMAIN scene.placements : Blas(scene.placements[k]) # None}}
            \union
            {[index |-> SplatIndex(k), structure |-> SplatBlas(scene.splats[k])] :
               k \in {j \in DOMAIN scene.splats : SplatBlas(scene.splats[j]) # None}}
  /\ at' = "table"
  /\ UNCHANGED <<next, scene, resources, memory, held, retained, candidates, taken, clouds,
                 retainedClouds, table>>

\* The instance table is written by index; an entry nothing is drawn for is zero,
\* and a table of none is not uploaded.
FillTable ==
  /\ at = "table"
  /\ table' = IF Count = 0 THEN table ELSE [index \in 1 .. Count |-> Placed(index)]
  /\ at' = "dome"
  /\ UNCHANGED <<next, scene, resources, memory, held, retained, candidates, taken, clouds,
                 retainedClouds, top>>

AcceleratorStep ==
  \/ Release
  \/ ShareMesh \/ KeepMesh \/ TakeMesh \/ Refit \/ Discard \/ Rebuild \/ Build
  \/ FinishMeshes \/ ShareCloud \/ KeepCloud \/ BuildCloud \/ FinishClouds
  \/ BuildTop \/ FillTable

\* A throw destroys what the locals own.
AbandonAccelerator ==
  /\ retained' = Empty /\ candidates' = {} /\ taken' = None /\ retainedClouds' = Empty
  /\ Freed(Image(retained) \union {taken} \union Image(retainedClouds))
  /\ UNCHANGED <<held, clouds, top, table>>
=============================================================================
