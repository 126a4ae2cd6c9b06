--------------------------- MODULE SceneResources ---------------------------
(***************************************************************************)
(* What PathTracer::SetScene (src/gpu/path_tracer.cpp) keeps from one      *)
(* publication to the next, its structures aside: the traversal kernels,   *)
(* the texture pool, the displaced positions, the dome's map and its       *)
(* sampling distribution.  Each is kept when a key held beside it says     *)
(* that it is what is asked for again; what a publication rebuilds         *)
(* whatever it held is not here.                                           *)
(*                                                                         *)
(* An upload, a dispatch or a pipeline can throw, and SetScene undoes      *)
(* nothing: locals go, members stay as they are.  A step below does what   *)
(* happens between two such points.  A hash is its arguments.              *)
(***************************************************************************)
EXTENDS Integers, Sequences, FiniteSets

CONSTANTS
  Meshes,       \* undisplaced mesh prototypes, by content, with a normal a vertex
  Curves,       \* those that are curves
  Clouds,       \* splat clouds, by content
  Images,       \* decoded images, by identity
  Programs,     \* displacement programs
  Libraries,    \* traversal programs a scene can bring
  Displacers,   \* materials that displace
  ProgramOf,    \* a displacer's program
  SlotsOf,      \* and the texture slots it samples
  Scenes,       \* what can be published
  None          \* no image, no program, no library; the default kernels

Bare(mesh) == [mesh |-> mesh, program |-> None, sampled |-> <<>>]
Contents == [mesh : Meshes, program : Programs \union {None},
             sampled : Seq(Images \union {None})]

\* A scene: its textures (None where one failed to decode), the slot of the
\* dome's (0 for none), its traversal library, its displacing materials, its
\* prototypes (None for one with no primitives, and each with the displacing
\* materials bound to it), and which prototype each placement is of.
Scene == [textures : Seq(Images \union {None}), dome : Nat,
          library : Libraries \union {None},
          displacers : SUBSET Displacers,
          prototypes : Seq([mesh : Meshes, displacers : SUBSET Displacers] \union {None}),
          placements : Seq(Nat \ {0}),
          clouds : Seq(Clouds \union {None}), splats : Seq(Nat \ {0})]

ASSUME ScenesAreTyped ==
  /\ Curves \subseteq Meshes
  /\ Scenes \subseteq Scene
  /\ ProgramOf \in [Displacers -> Programs]
  /\ SlotsOf \in [Displacers -> Seq(Nat \ {0})]

ASSUME NoneIsNothing ==
  None \notin Images \union Programs \union Libraries \union Clouds

VARIABLES
  at,            \* where SetScene is; at rest in Rest
  next,          \* the loop index there
  scene,         \* the scene being published, or just published
  extend, shadow, fromScene,  \* the traversal kernels and _traversalFromScene
  pool,          \* _texturePool: None where an image is not valid
  uploaded,      \* _uploadedTextures
  fresh,         \* local: the pool being made
  displaced,     \* _displacedPositions
  used,          \* local: stillUsed
  meshes,        \* local: the scene's prototypes, as displaced
  dome,          \* _domeTexture
  uploadedDome,  \* _uploadedDome
  distribution   \* _environmentDistribution: its buffer and its shape

kernels == <<extend, shadow, fromScene>>
textures == <<pool, uploaded, fresh>>
displacement == <<displaced, used, meshes>>
environment == <<dome, uploadedDome, distribution>>

Rest == {"idle", "published", "failed"}
Empty == [x \in {} |-> None]

ResourcesInit ==
  /\ at = "idle"
  /\ next = 0
  /\ scene = None
  /\ extend = None /\ shadow = None /\ fromScene = FALSE
  /\ pool = <<>> /\ uploaded = <<>> /\ fresh = <<>>
  /\ displaced = Empty /\ used = Empty /\ meshes = <<>>
  /\ dome = None /\ uploadedDome = None
  /\ distribution = [buffer |-> "null", shape |-> None]

-----------------------------------------------------------------------------
(* The traversal kernels: the scene's, or the defaults when a scene that    *)
(* had its own gives way to one that has none.                              *)

KernelsStale(s) == s.library # None \/ fromScene

Publish(s) ==
  /\ at \in Rest
  /\ scene' = s
  /\ at' = IF KernelsStale(s) THEN "extend" ELSE "textures"
  /\ next' = 1
  /\ meshes' = <<>>
  /\ UNCHANGED <<kernels, textures, displaced, used, environment>>

Extend ==
  /\ at = "extend"
  /\ extend' = scene.library
  /\ at' = "shadow"
  /\ UNCHANGED <<next, scene, shadow, fromScene, textures, displacement, environment>>

Shadow ==
  /\ at = "shadow"
  /\ shadow' = scene.library
  /\ fromScene' = (scene.library # None)
  /\ at' = "textures"
  /\ UNCHANGED <<next, scene, extend, textures, displacement, environment>>

-----------------------------------------------------------------------------
(* UploadTextures, a slot at a time into a pool of its own.                 *)

\* Mutant: a slot that held an image keeps it, whichever it was.
SlotKept_anyImage(slot) ==
  /\ slot <= Len(uploaded) /\ slot <= Len(pool)
  /\ (scene.textures[slot] = None) = (uploaded[slot] = None)

\* A slot keeps its image when it names the one it was uploaded from.
SlotKept(slot) ==
  /\ slot <= Len(uploaded) /\ slot <= Len(pool)
  /\ scene.textures[slot] = uploaded[slot]

SlotUploads == next <= Len(scene.textures) /\ ~SlotKept(next) /\ scene.textures[next] # None

\* The image moves to the new pool: the slot it leaves is not valid.
KeepSlot ==
  /\ at = "textures" /\ next <= Len(scene.textures) /\ SlotKept(next)
  /\ fresh' = Append(fresh, pool[next])
  /\ pool' = [pool EXCEPT ![next] = None]
  /\ next' = next + 1
  /\ UNCHANGED <<at, scene, uploaded, kernels, displacement, environment>>

\* An image is uploaded; one that did not decode keeps its slot, with nothing in it.
UploadSlot ==
  /\ at = "textures" /\ next <= Len(scene.textures) /\ ~SlotKept(next)
  /\ fresh' = Append(fresh, scene.textures[next])
  /\ next' = next + 1
  /\ UNCHANGED <<at, scene, pool, uploaded, kernels, displacement, environment>>

FinishTextures ==
  /\ at = "textures" /\ next > Len(scene.textures)
  /\ pool' = fresh
  /\ uploaded' = scene.textures
  /\ fresh' = <<>>
  /\ at' = "displace"
  /\ next' = 1
  /\ UNCHANGED <<scene, displacement, kernels, environment>>

-----------------------------------------------------------------------------
(* ApplyDisplacement, a prototype at a time.                                *)

\* What a binding reads: the pool's image, the placeholder where there is none.
Bound(slot) == IF slot <= Len(pool) THEN pool[slot] ELSE None
Sampled(m) == [k \in DOMAIN SlotsOf[m] |-> Bound(SlotsOf[m][k])]

\* The materials bound to a prototype that displace it: one, or it is not displaced.
Asked(p) == IF p = None THEN {} ELSE p.displacers \intersect scene.displacers
Displaceable(p) == Cardinality(Asked(p)) = 1 /\ p.mesh \notin Curves
Displacer(p) == CHOOSE m \in Asked(p) : TRUE

\* The mesh, the program, and the slots it samples.
Key(p) == [mesh |-> p.mesh, program |-> ProgramOf[Displacer(p)],
           slots |-> SlotsOf[Displacer(p)]]

Displace(p) == [mesh |-> p.mesh, program |-> ProgramOf[Displacer(p)],
                sampled |-> Sampled(Displacer(p))]
Plain(p) == IF p = None THEN None ELSE Bare(p.mesh)

With(f, k, v) == [x \in DOMAIN f \union {k} |-> IF x = k THEN v ELSE f[x]]

Current == scene.prototypes[next]
Displacing == at = "displace" /\ scene.displacers # {} /\ next <= Len(scene.prototypes)
Dispatches == Displacing /\ Displaceable(Current) /\ Key(Current) \notin DOMAIN displaced

\* A scene none of whose materials displaces drops what was kept.
SkipDisplacement ==
  /\ at = "displace" /\ scene.displacers = {}
  /\ meshes' = [k \in DOMAIN scene.prototypes |-> Plain(scene.prototypes[k])]
  /\ displaced' = Empty
  /\ at' = "release"
  /\ UNCHANGED <<next, scene, used, kernels, textures, environment>>

Displaced(content) == meshes' = Append(meshes, content)

\* Not displaced: nothing asks, two materials do, it is a curve, or the
\* program made no pipeline or no positions.
LeavePlain ==
  /\ Displacing
  /\ ~Displaceable(Current) \/ Dispatches
  /\ Displaced(Plain(Current))
  /\ next' = next + 1
  /\ UNCHANGED <<at, scene, displaced, used, kernels, textures, environment>>

ReuseDisplaced ==
  /\ Displacing /\ Displaceable(Current) /\ Key(Current) \in DOMAIN displaced
  /\ Displaced(displaced[Key(Current)])
  /\ used' = With(used, Key(Current), displaced[Key(Current)])
  /\ next' = next + 1
  /\ UNCHANGED <<at, scene, displaced, kernels, textures, environment>>

DispatchDisplacement ==
  /\ Dispatches
  /\ Displaced(Displace(Current))
  /\ used' = With(used, Key(Current), Displace(Current))
  /\ next' = next + 1
  /\ UNCHANGED <<at, scene, displaced, kernels, textures, environment>>

\* Only what this scene used is kept.
FinishDisplacement ==
  /\ at = "displace" /\ scene.displacers # {} /\ next > Len(scene.prototypes)
  /\ displaced' = used
  /\ used' = Empty
  /\ at' = "release"
  /\ UNCHANGED <<next, scene, meshes, kernels, textures, environment>>

-----------------------------------------------------------------------------
(* The dome's map, and the distribution that samples it.                    *)

DomeImage ==
  IF scene.dome \in DOMAIN scene.textures THEN scene.textures[scene.dome] ELSE None

\* Mutant: a distribution is made once.
DistributionStale_once(changed) == distribution.buffer = "null"
DistributionStale(changed) == changed \/ distribution.buffer = "null"

\* A kept map and a valid distribution stay; a changed map is dropped before its
\* successor is uploaded.
CompareDome ==
  /\ at = "dome"
  /\ LET changed == DomeImage # uploadedDome
     IN IF changed
          THEN dome' = None /\ at' = "domeUpload"
          ELSE dome' = dome /\ at' = IF DistributionStale(FALSE) THEN "distribution" ELSE "shade"
  /\ UNCHANGED <<next, scene, uploadedDome, distribution, kernels, textures, displacement>>

UploadDome ==
  /\ at = "domeUpload"
  /\ dome' = DomeImage
  /\ uploadedDome' = DomeImage
  /\ at' = IF DistributionStale(TRUE) THEN "distribution" ELSE "shade"
  /\ UNCHANGED <<next, scene, distribution, kernels, textures, displacement>>

\* The buffer is replaced, then filled, and its shape remembered last.
AllocateDistribution ==
  /\ at = "distribution"
  /\ distribution' = [distribution EXCEPT !.buffer = "unwritten"]
  /\ at' = "copy"
  /\ UNCHANGED <<next, scene, dome, uploadedDome, kernels, textures, displacement>>

CopyDistribution ==
  /\ at = "copy"
  /\ distribution' = [buffer |-> dome, shape |-> dome]
  /\ at' = "shade"
  /\ UNCHANGED <<next, scene, dome, uploadedDome, kernels, textures, displacement>>

\* What is rebuilt whatever was held: the pipelines, the sort's tables, and the
\* generation that announces them.
Shade ==
  /\ at = "shade"
  /\ at' = "published"
  /\ UNCHANGED <<next, scene, kernels, textures, displacement, environment>>

ResourceStep ==
  \/ Extend \/ Shadow
  \/ KeepSlot \/ UploadSlot \/ FinishTextures
  \/ SkipDisplacement \/ LeavePlain \/ ReuseDisplaced \/ DispatchDisplacement
  \/ FinishDisplacement
  \/ CompareDome \/ UploadDome \/ AllocateDistribution \/ CopyDistribution
  \/ Shade

\* A throw: the argument and the locals are dropped.
AbandonResources ==
  /\ at' = "failed"
  /\ next' = 1 /\ scene' = None
  /\ fresh' = <<>> /\ used' = Empty /\ meshes' = <<>>
  /\ UNCHANGED <<kernels, pool, uploaded, displaced, environment>>
=============================================================================
