---------------------- MODULE ScenePublication_proofs -----------------------
(***************************************************************************)
(* Theorems about ScenePublication: what is kept by key is what the key    *)
(* says, for any scenes, any memory, and throws anywhere.                  *)
(***************************************************************************)
EXTENDS ScenePublication, FiniteSetTheorems, TLAPS

Slots == Seq(Images \union {None})

\* Before the pool, and after it.
Earlier == {"extend", "shadow"}
Accelerating == {"release", "mesh", "refit", "rebuild", "cloud", "top", "table"}

-----------------------------------------------------------------------------
(* The pool.                                                                *)

\* The pool being made holds, slot by slot, the scene's image or nothing.
FreshIsTheScene ==
  at = "textures" =>
    /\ next \in Nat \ {0}
    /\ Len(fresh) = next - 1
    /\ next - 1 <= Len(scene.textures)
    /\ \A slot \in 1 .. next - 1 : fresh[slot] \in {scene.textures[slot], None}

PoolInv ==
  /\ pool \in Slots /\ uploaded \in Slots /\ fresh \in Slots
  /\ at \notin Rest => scene \in Scenes
  /\ at \in Earlier => next = 1
  /\ at # "textures" => fresh = <<>>
  /\ FreshIsTheScene
  /\ PoolHoldsItsKey

LEMMA SceneTextures ==
  ASSUME NEW s \in Scenes
  PROVE  s.textures \in Slots
BY ScenesAreTyped DEF Scene, Slots

LEMMA PoolInit == Init => PoolInv
BY DEF Init, ResourcesInit, PoolInv, Slots, Rest, Earlier, FreshIsTheScene, PoolHoldsItsKey

\* What the accelerator's steps leave alone.
LEMMA AcceleratorLeavesResources ==
  ASSUME AcceleratorStep
  PROVE  /\ UNCHANGED <<scene, resources>>
         /\ at \in Accelerating
         /\ at' \in Accelerating \union {"dome"}
<1> USE DEF Accelerating
<1>1. CASE Release BY <1>1 DEF Release
<1>2. CASE ShareMesh BY <1>2 DEF ShareMesh, AtMesh
<1>3. CASE KeepMesh BY <1>3 DEF KeepMesh, AtMesh
<1>4. CASE TakeMesh BY <1>4 DEF TakeMesh, AtMesh
<1>5. CASE Refit BY <1>5 DEF Refit
<1>6. CASE Discard BY <1>6 DEF Discard
<1>7. CASE Rebuild BY <1>7 DEF Rebuild, BuildMesh
<1>8. CASE Build BY <1>8 DEF Build, BuildMesh, NewMesh, AtMesh
<1>9. CASE FinishMeshes BY <1>9 DEF FinishMeshes
<1>10. CASE ShareCloud BY <1>10 DEF ShareCloud, AtCloud
<1>11. CASE KeepCloud BY <1>11 DEF KeepCloud, AtCloud
<1>12. CASE BuildCloud BY <1>12 DEF BuildCloud, NewCloud, AtCloud
<1>13. CASE FinishClouds BY <1>13 DEF FinishClouds
<1>14. CASE BuildTop BY <1>14 DEF BuildTop
<1>15. CASE FillTable BY <1>15 DEF FillTable
<1> QED BY <1>1, <1>2, <1>3, <1>4, <1>5, <1>6, <1>7, <1>8, <1>9, <1>10, <1>11, <1>12,
           <1>13, <1>14, <1>15 DEF AcceleratorStep

\* A step that is not the pool's changes nothing of it.
LEMMA LaterLeavesPool ==
  ASSUME PoolInv, UNCHANGED <<pool, uploaded, fresh, scene>>,
         at \notin Rest \union Earlier \union {"textures"},
         at' \notin Earlier \union {"textures"}
  PROVE  PoolInv'
BY DEF PoolInv, FreshIsTheScene, PoolHoldsItsKey

LEMMA KeepSlotKeepsPool ==
  ASSUME PoolInv, KeepSlot
  PROVE  PoolInv'
<1> USE DEF KeepSlot, SlotKept, Slots
<1>1. /\ scene \in Scenes /\ scene' = scene
      /\ at = "textures" /\ at' = "textures"
      /\ next \in 1 .. Len(pool) /\ next <= Len(uploaded) /\ next <= Len(scene.textures)
      /\ scene.textures \in Slots
  BY SceneTextures DEF PoolInv, FreshIsTheScene, Rest
<1>2. pool[next] \in {scene.textures[next], None}
  BY <1>1 DEF PoolInv, PoolHoldsItsKey
<1>3. pool' \in Slots /\ DOMAIN pool' = DOMAIN pool /\ uploaded' = uploaded
  BY <1>1 DEF PoolInv
<1>4. fresh' \in Slots
  BY <1>1 DEF PoolInv
<1>5. FreshIsTheScene'
  <2>1. Len(fresh') = next /\ next' = next + 1 /\ next \in Nat \ {0}
    BY <1>1 DEF PoolInv, FreshIsTheScene
  <2>2. ASSUME NEW slot \in 1 .. next
        PROVE  fresh'[slot] \in {scene.textures[slot], None}
    <3>1. CASE slot = next BY <1>1, <1>2, <2>1, <3>1 DEF PoolInv, FreshIsTheScene
    <3>2. CASE slot # next
      <4>1. slot \in 1 .. next - 1 BY <2>1, <3>2
      <4>2. fresh'[slot] = fresh[slot] BY <1>1, <4>1 DEF PoolInv, FreshIsTheScene
      <4> QED BY <1>1, <4>1, <4>2 DEF PoolInv, FreshIsTheScene
    <3> QED BY <3>1, <3>2
  <2> QED BY <1>1, <2>1, <2>2 DEF FreshIsTheScene
<1>6. PoolHoldsItsKey'
  BY <1>1, <1>3 DEF PoolInv, PoolHoldsItsKey
<1> QED BY <1>1, <1>3, <1>4, <1>5, <1>6 DEF PoolInv, Rest, Earlier

LEMMA UploadSlotKeepsPool ==
  ASSUME PoolInv, UploadSlot
  PROVE  PoolInv'
<1> USE DEF UploadSlot, Slots
<1>1. /\ scene \in Scenes /\ scene' = scene
      /\ at = "textures" /\ at' = "textures"
      /\ next \in Nat \ {0} /\ next <= Len(scene.textures)
      /\ scene.textures \in Slots
  BY SceneTextures DEF PoolInv, FreshIsTheScene, Rest
<1>2. fresh' \in Slots
  BY <1>1 DEF PoolInv
<1>3. FreshIsTheScene'
  <2>1. Len(fresh') = next /\ next' = next + 1
    BY <1>1 DEF PoolInv, FreshIsTheScene
  <2>2. ASSUME NEW slot \in 1 .. next
        PROVE  fresh'[slot] \in {scene.textures[slot], None}
    <3>1. CASE slot = next BY <1>1, <2>1, <3>1 DEF PoolInv, FreshIsTheScene
    <3>2. CASE slot # next
      <4>1. slot \in 1 .. next - 1 BY <1>1, <3>2
      <4>2. fresh'[slot] = fresh[slot] BY <1>1, <4>1 DEF PoolInv, FreshIsTheScene
      <4> QED BY <1>1, <4>1, <4>2 DEF PoolInv, FreshIsTheScene
    <3> QED BY <3>1, <3>2
  <2> QED BY <1>1, <2>1, <2>2 DEF FreshIsTheScene
<1> QED BY <1>1, <1>2, <1>3 DEF PoolInv, Rest, Earlier, PoolHoldsItsKey

LEMMA FinishTexturesKeepsPool ==
  ASSUME PoolInv, FinishTextures
  PROVE  PoolInv'
<1> USE DEF FinishTextures, Slots
<1>1. /\ scene \in Scenes /\ scene' = scene
      /\ at = "textures" /\ at' = "displace"
      /\ scene.textures \in Slots
  BY SceneTextures DEF PoolInv, Rest
<1>2. next - 1 = Len(scene.textures) /\ Len(fresh) = Len(scene.textures)
  BY <1>1 DEF PoolInv, FreshIsTheScene
<1>3. PoolHoldsItsKey'
  BY <1>1, <1>2 DEF PoolInv, FreshIsTheScene, PoolHoldsItsKey
<1> QED BY <1>1, <1>2, <1>3 DEF PoolInv, Rest, Earlier, FreshIsTheScene

LEMMA ResourceStepKeepsPool ==
  ASSUME PoolInv, ResourceStep
  PROVE  PoolInv'
<1> USE DEF textures, Rest, Earlier
<1>1. CASE Extend
  BY <1>1 DEF Extend, PoolInv, FreshIsTheScene, PoolHoldsItsKey
<1>2. CASE Shadow
  <2>1. scene.textures \in Slots BY <1>2, SceneTextures DEF Shadow, PoolInv
  <2> QED BY <1>2, <2>1 DEF Shadow, PoolInv, FreshIsTheScene, PoolHoldsItsKey, Slots
<1>3. CASE KeepSlot BY <1>3, KeepSlotKeepsPool
<1>4. CASE UploadSlot BY <1>4, UploadSlotKeepsPool
<1>5. CASE FinishTextures BY <1>5, FinishTexturesKeepsPool
<1>6. CASE SkipDisplacement BY <1>6, LaterLeavesPool DEF SkipDisplacement
<1>7. CASE LeavePlain BY <1>7, LaterLeavesPool DEF LeavePlain, Displacing
<1>8. CASE ReuseDisplaced BY <1>8, LaterLeavesPool DEF ReuseDisplaced, Displacing
<1>9. CASE DispatchDisplacement
  BY <1>9, LaterLeavesPool DEF DispatchDisplacement, Dispatches, Displacing
<1>10. CASE FinishDisplacement BY <1>10, LaterLeavesPool DEF FinishDisplacement
<1>11. CASE CompareDome BY <1>11, LaterLeavesPool DEF CompareDome
<1>12. CASE UploadDome BY <1>12, LaterLeavesPool DEF UploadDome
<1>13. CASE AllocateDistribution BY <1>13, LaterLeavesPool DEF AllocateDistribution
<1>14. CASE CopyDistribution BY <1>14, LaterLeavesPool DEF CopyDistribution
<1>15. CASE Shade BY <1>15, LaterLeavesPool DEF Shade
<1> QED BY <1>1, <1>2, <1>3, <1>4, <1>5, <1>6, <1>7, <1>8, <1>9, <1>10, <1>11, <1>12,
           <1>13, <1>14, <1>15 DEF ResourceStep

LEMMA NextKeepsPool ==
  ASSUME PoolInv, [Next]_vars
  PROVE  PoolInv'
<1>1. CASE \E s \in Scenes : Publish(s) /\ UNCHANGED accelerator
  <2> PICK s \in Scenes : Publish(s) BY <1>1
  <2>1. s.textures \in Slots BY SceneTextures
  <2> QED
    BY <2>1 DEF Publish, textures, Rest, Earlier, PoolInv, FreshIsTheScene,
                PoolHoldsItsKey, Slots
<1>2. CASE ResourceStep /\ UNCHANGED accelerator
  BY <1>2, ResourceStepKeepsPool
<1>3. CASE AcceleratorStep
  BY <1>3, AcceleratorLeavesResources, LaterLeavesPool
     DEF resources, textures, Accelerating, Rest, Earlier
<1>4. CASE Throw
  BY <1>4 DEF Throw, AbandonResources, PoolInv, Slots, Rest, Earlier, FreshIsTheScene,
              PoolHoldsItsKey
<1>5. CASE UNCHANGED vars
  BY <1>5 DEF vars, resources, textures, PoolInv, FreshIsTheScene, PoolHoldsItsKey
<1> QED BY <1>1, <1>2, <1>3, <1>4, <1>5 DEF Next, Step

\* A texture slot that compares equal to its key holds the key's image or none,
\* whichever upload throws (PathTracer::UploadTextures).
THEOREM PoolIsKeyed == Spec => []PoolHoldsItsKey
<1>1. PoolInv => PoolHoldsItsKey BY DEF PoolInv
<1> QED BY PoolInit, NextKeepsPool, <1>1, PTL DEF Spec

-----------------------------------------------------------------------------
(* What a publication puts in its prototypes' place is a content.           *)

ContentInv ==
  /\ next \in Nat
  /\ at # "idle" => next # 0
  /\ Image(displaced) \subseteq Contents /\ Image(used) \subseteq Contents
  /\ meshes \in Seq(Contents \union {None})

LEMMA ImageOfWith ==
  ASSUME NEW f, NEW k, NEW v
  PROVE  Image(With(f, k, v)) \subseteq Image(f) \union {v}
BY DEF Image, With

LEMMA PrototypesAreTyped ==
  ASSUME NEW s \in Scenes
  PROVE  /\ s.prototypes \in Seq([mesh : Meshes, displacers : SUBSET Displacers] \union {None})
         /\ s.displacers \in SUBSET Displacers
         /\ s.clouds \in Seq(Clouds \union {None})
BY ScenesAreTyped DEF Scene

LEMMA PlainIsContent ==
  ASSUME NEW p \in [mesh : Meshes, displacers : SUBSET Displacers] \union {None}
  PROVE  Plain(p) \in Contents \union {None}
BY DEF Plain, Bare, Contents

LEMMA DisplaceIsContent ==
  ASSUME scene \in Scenes, pool \in Slots,
         NEW p \in [mesh : Meshes, displacers : SUBSET Displacers] \union {None},
         Displaceable(p)
  PROVE  Displace(p) \in Contents
<1>1. Asked(p) # {} BY FS_EmptySet DEF Displaceable
<1>2. p \in [mesh : Meshes, displacers : SUBSET Displacers] BY <1>1 DEF Asked
<1>3. Displacer(p) \in Displacers
  <2>1. Displacer(p) \in Asked(p) BY <1>1 DEF Displacer
  <2>2. scene.displacers \subseteq Displacers BY PrototypesAreTyped
  <2> QED BY <2>1, <2>2 DEF Asked
<1> DEFINE m == Displacer(p)
<1>4. SlotsOf[m] \in Seq(Nat \ {0}) /\ ProgramOf[m] \in Programs
  BY <1>3, ScenesAreTyped
<1> HIDE DEF m
<1>5. Sampled(m) \in Seq(Images \union {None})
  <2>1. \A slot \in Nat \ {0} : Bound(slot) \in Images \union {None}
    BY DEF Bound, Slots
  <2> QED BY <1>4, <2>1 DEF Sampled
<1> QED BY <1>2, <1>4, <1>5 DEF Displace, Contents, m

LEMMA ContentInit == Init => ContentInv
BY DEF Init, ResourcesInit, ContentInv, Image, Empty

\* What the accelerator's steps leave alone, and its counting.
LEMMA AcceleratorKeepsContent ==
  ASSUME ContentInv, AcceleratorStep
  PROVE  ContentInv'
<1> USE DEF resources, displacement, ContentInv
<1>1. CASE Release BY <1>1 DEF Release
<1>2. CASE ShareMesh BY <1>2 DEF ShareMesh, AtMesh
<1>3. CASE KeepMesh BY <1>3 DEF KeepMesh, AtMesh
<1>4. CASE TakeMesh BY <1>4 DEF TakeMesh, AtMesh
<1>5. CASE Refit BY <1>5 DEF Refit
<1>6. CASE Discard BY <1>6 DEF Discard
<1>7. CASE Rebuild BY <1>7 DEF Rebuild, BuildMesh
<1>8. CASE Build BY <1>8 DEF Build, BuildMesh, NewMesh, AtMesh
<1>9. CASE FinishMeshes BY <1>9 DEF FinishMeshes
<1>10. CASE ShareCloud BY <1>10 DEF ShareCloud, AtCloud
<1>11. CASE KeepCloud BY <1>11 DEF KeepCloud, AtCloud
<1>12. CASE BuildCloud BY <1>12 DEF BuildCloud, NewCloud, AtCloud
<1>13. CASE FinishClouds BY <1>13 DEF FinishClouds
<1>14. CASE BuildTop BY <1>14 DEF BuildTop
<1>15. CASE FillTable BY <1>15 DEF FillTable
<1> QED BY <1>1, <1>2, <1>3, <1>4, <1>5, <1>6, <1>7, <1>8, <1>9, <1>10, <1>11, <1>12,
           <1>13, <1>14, <1>15 DEF AcceleratorStep

\* A prototype of the displacement loop is one of the scene's.
LEMMA CurrentIsTyped ==
  ASSUME PoolInv, ContentInv, Displacing
  PROVE  /\ scene \in Scenes /\ pool \in Slots
         /\ Current \in [mesh : Meshes, displacers : SUBSET Displacers] \union {None}
<1>1. scene \in Scenes /\ pool \in Slots BY DEF PoolInv, Displacing, Rest
<1>2. next \in 1 .. Len(scene.prototypes)
  BY <1>1, PrototypesAreTyped DEF ContentInv, Displacing
<1>3. scene.prototypes \in Seq([mesh : Meshes, displacers : SUBSET Displacers] \union {None})
  BY <1>1, PrototypesAreTyped
<1> QED BY <1>1, <1>2, <1>3 DEF Current

LEMMA ResourceStepKeepsContent ==
  ASSUME PoolInv, ContentInv, ResourceStep
  PROVE  ContentInv'
<1> USE DEF displacement, ContentInv
<1>1. CASE Extend BY <1>1 DEF Extend
<1>2. CASE Shadow BY <1>2 DEF Shadow
<1>3. CASE KeepSlot BY <1>3 DEF KeepSlot
<1>4. CASE UploadSlot BY <1>4 DEF UploadSlot
<1>5. CASE FinishTextures BY <1>5 DEF FinishTextures
<1>6. CASE SkipDisplacement
  <2>1. scene \in Scenes BY <1>6 DEF SkipDisplacement, PoolInv, Rest
  <2>2. scene.prototypes \in Seq([mesh : Meshes, displacers : SUBSET Displacers] \union {None})
    BY <2>1, PrototypesAreTyped
  <2>3. meshes' \in Seq(Contents \union {None})
    BY <1>6, <2>2, PlainIsContent DEF SkipDisplacement
  <2> QED BY <1>6, <2>3 DEF SkipDisplacement, Image, Empty
<1>7. CASE LeavePlain
  <2>1. Plain(Current) \in Contents \union {None}
    BY <1>7, CurrentIsTyped, PlainIsContent DEF LeavePlain
  <2> QED BY <1>7, <2>1 DEF LeavePlain, Displacing, Displaced
<1>8. CASE ReuseDisplaced
  <2>1. displaced[Key(Current)] \in Contents BY <1>8 DEF ReuseDisplaced, Image
  <2>2. Image(used') \subseteq Contents
    BY <1>8, <2>1, ImageOfWith DEF ReuseDisplaced
  <2> QED BY <1>8, <2>1, <2>2 DEF ReuseDisplaced, Displacing, Displaced
<1>9. CASE DispatchDisplacement
  <2>1. Displace(Current) \in Contents
    BY <1>9, CurrentIsTyped, DisplaceIsContent DEF DispatchDisplacement, Dispatches
  <2>2. Image(used') \subseteq Contents
    BY <1>9, <2>1, ImageOfWith DEF DispatchDisplacement
  <2> QED BY <1>9, <2>1, <2>2 DEF DispatchDisplacement, Dispatches, Displacing, Displaced
<1>10. CASE FinishDisplacement BY <1>10 DEF FinishDisplacement, Image, Empty
<1>11. CASE CompareDome BY <1>11 DEF CompareDome
<1>12. CASE UploadDome BY <1>12 DEF UploadDome
<1>13. CASE AllocateDistribution BY <1>13 DEF AllocateDistribution
<1>14. CASE CopyDistribution BY <1>14 DEF CopyDistribution
<1>15. CASE Shade BY <1>15 DEF Shade
<1> QED BY <1>1, <1>2, <1>3, <1>4, <1>5, <1>6, <1>7, <1>8, <1>9, <1>10, <1>11, <1>12,
           <1>13, <1>14, <1>15 DEF ResourceStep

LEMMA NextKeepsContent ==
  ASSUME PoolInv, ContentInv, [Next]_vars
  PROVE  ContentInv'
<1>1. CASE \E s \in Scenes : Publish(s) /\ UNCHANGED accelerator
  BY <1>1 DEF Publish, ContentInv
<1>2. CASE ResourceStep /\ UNCHANGED accelerator BY <1>2, ResourceStepKeepsContent
<1>3. CASE AcceleratorStep BY <1>3, AcceleratorKeepsContent
<1>4. CASE Throw BY <1>4 DEF Throw, AbandonResources, ContentInv, Image, Empty
<1>5. CASE UNCHANGED vars BY <1>5 DEF vars, resources, displacement, ContentInv
<1> QED BY <1>1, <1>2, <1>3, <1>4, <1>5 DEF Next, Step

-----------------------------------------------------------------------------
(* Maps of structures.                                                      *)

\* A map is sound over a memory when each of its structures is over its key.
\* Then no two entries share a structure.
Sound(mem, f) == \A k \in DOMAIN f : k # None /\ f[k] \in Addresses /\ mem[f[k]].of = k

\* What is freed, or built at, is none of a map's structures when it is over
\* something the map has no key for.
LEMMA FreedElsewhere ==
  ASSUME NEW f, NEW A, Sound(memory, f), Freed(A),
         \A a \in A \intersect Addresses : memory[a].of \notin DOMAIN f
  PROVE  Sound(memory', f)
BY DEF Sound, Freed

LEMMA BuiltElsewhere ==
  ASSUME NEW f, NEW a \in Addresses, NEW g, NEW u,
         DOMAIN memory = Addresses,
         Sound(memory, f), Built(a, g, u), memory[a].of \notin DOMAIN f
  PROVE  Sound(memory', f) /\ memory'[a].of = g
BY DEF Sound, Built

-----------------------------------------------------------------------------
(* The structures.                                                          *)

\* Sound maps, of meshes and of clouds, no key in both of a pair.
MapsInv ==
  /\ memory \in [Addresses -> Structure]
  /\ Sound(memory, held) /\ Sound(memory, retained)
  /\ Sound(memory, clouds) /\ Sound(memory, retainedClouds)
  /\ DOMAIN held \subseteq Contents /\ DOMAIN retained \subseteq Contents
  /\ DOMAIN clouds \subseteq Clouds /\ DOMAIN retainedClouds \subseteq Clouds
  /\ DOMAIN held \intersect DOMAIN retained = {}
  /\ DOMAIN clouds \intersect DOMAIN retainedClouds = {}

\* A structure that was taken out of its map is over what no map has a key for.
TakenInv ==
  /\ at = "refit" => /\ taken \in Addresses
                     /\ memory[taken].of \in Contents
                     /\ memory[taken].of \notin DOMAIN held \union DOMAIN retained
  /\ at # "refit" => taken = None
  /\ at \in {"refit", "rebuild"} => next <= Len(meshes) /\ Novel(Mesh)

StructureInv == MapsInv /\ TakenInv /\ candidates \subseteq DOMAIN held

LEMMA StructureInit == Init => StructureInv
<1> SUFFICES ASSUME Init PROVE StructureInv OBVIOUS
<1> USE DEF Init, ResourcesInit, AcceleratorInit
<1>1. memory \in [Addresses -> Structure] BY DEF Structure, Vacant
<1>2. DOMAIN Empty = {} BY DEF Empty
<1> QED BY <1>1, <1>2 DEF StructureInv, MapsInv, TakenInv, Sound

LEMMA FreedIsTyped ==
  ASSUME NEW A, memory \in [Addresses -> Structure], Freed(A)
  PROVE  memory' \in [Addresses -> Structure]
BY DEF Freed, Structure, Vacant

LEMMA BuiltIsTyped ==
  ASSUME NEW a \in Addresses, NEW f \in Contents \union Clouds, NEW u \in BOOLEAN,
         memory \in [Addresses -> Structure], Built(a, f, u)
  PROVE  memory' \in [Addresses -> Structure]
BY DEF Built, Structure

LEMMA ReleaseKeepsStructures ==
  ASSUME StructureInv, Release
  PROVE  StructureInv'
<1> USE DEF Release, StructureInv, MapsInv
<1> DEFINE A == {held[f] : f \in DOMAIN held \ Kept}
<1>1. \A a \in A : memory[a].of \in DOMAIN held \ Kept BY DEF Sound
<1>2. Sound(memory, held') /\ DOMAIN held' = DOMAIN held \intersect Kept BY DEF Sound, Only
<1>3. Freed(A) OBVIOUS
<1> HIDE DEF A
<1>4. Sound(memory', held') BY <1>1, <1>2, <1>3, FreedElsewhere
<1>5. Sound(memory', retained) BY <1>1, <1>3, FreedElsewhere
<1>6. Sound(memory', clouds) BY <1>1, <1>3, FreedElsewhere, CloudsAreApart
<1>7. Sound(memory', retainedClouds) BY <1>1, <1>3, FreedElsewhere, CloudsAreApart
<1>8. memory' \in [Addresses -> Structure] BY <1>3, FreedIsTyped
<1>9. Kept \subseteq DOMAIN held BY DEF Kept
<1> QED BY <1>2, <1>4, <1>5, <1>6, <1>7, <1>8, <1>9 DEF TakenInv

LEMMA KeepMeshKeepsStructures ==
  ASSUME StructureInv, KeepMesh
  PROVE  StructureInv'
<1> USE DEF KeepMesh, AtMesh, StructureInv, MapsInv
<1>1. Mesh # None /\ held[Mesh] \in Addresses /\ memory[held[Mesh]].of = Mesh BY DEF Sound
<1>2. Sound(memory, retained') /\ DOMAIN retained' = DOMAIN retained \union {Mesh}
  BY <1>1 DEF Sound, With
<1>3. Sound(memory, held') /\ DOMAIN held' = DOMAIN held \ {Mesh} BY DEF Sound, Only
<1>4. candidates' \subseteq DOMAIN held' BY <1>3 DEF Erased
<1> QED BY <1>2, <1>3, <1>4 DEF TakenInv

LEMMA TakeMeshKeepsStructures ==
  ASSUME StructureInv, TakeMesh
  PROVE  StructureInv'
<1> USE DEF TakeMesh, AtMesh, StructureInv, MapsInv
<1> PICK c \in Deformable(Mesh) :
           /\ candidates' = candidates \ {c}
           /\ taken' = held[c]
           /\ held' = Only(held, DOMAIN held \ {c})
  OBVIOUS
<1>1. c \in DOMAIN held BY DEF Deformable
<1>2. Sound(memory, held') /\ DOMAIN held' = DOMAIN held \ {c} BY DEF Sound, Only
<1>3. taken' \in Addresses /\ memory[taken'].of = c BY <1>1 DEF Sound
<1>4. Mesh' = Mesh BY DEF Mesh, resources, displacement
<1>5. meshes' = meshes BY DEF resources, displacement
<1>6. TakenInv' BY <1>1, <1>2, <1>3, <1>4, <1>5 DEF TakenInv, Novel
<1> QED BY <1>1, <1>2, <1>6

\* A geometry no map has a key for is retained at a structure no map has.
LEMMA RetainKeepsMaps ==
  ASSUME MapsInv, NEW a \in Addresses, NEW f \in Contents, NEW u \in BOOLEAN,
         f # None, f \notin DOMAIN held \union DOMAIN retained,
         Built(a, f, u), retained' = With(retained, f, a),
         memory[a].of \notin DOMAIN held \union DOMAIN retained \union Clouds,
         UNCHANGED <<held, clouds, retainedClouds>>
  PROVE  MapsInv'
<1> USE DEF MapsInv
<1>1. memory' \in [Addresses -> Structure] BY BuiltIsTyped
<1>2. Sound(memory', held) BY BuiltElsewhere
<1>3. Sound(memory', retained) /\ memory'[a].of = f BY BuiltElsewhere
<1>4. Sound(memory', clouds) BY BuiltElsewhere
<1>5. Sound(memory', retainedClouds) BY BuiltElsewhere
<1>6. Sound(memory', retained') /\ DOMAIN retained' = DOMAIN retained \union {f}
  BY <1>3 DEF Sound, With
<1> QED BY <1>1, <1>2, <1>4, <1>5, <1>6

\* The prototype of the mesh loop is a content or nothing.
LEMMA MeshIsTyped ==
  ASSUME ContentInv, at # "idle", next <= Len(meshes)
  PROVE  Mesh \in Contents \union {None}
BY DEF ContentInv, Mesh

LEMMA RefitKeepsStructures ==
  ASSUME ContentInv, StructureInv, Refit
  PROVE  StructureInv'
<1> USE DEF Refit, StructureInv
<1>1. taken \in Addresses /\ Novel(Mesh) /\ next <= Len(meshes)
  BY DEF TakenInv
<1>2. Mesh \in Contents BY <1>1, MeshIsTyped DEF Novel
<1>3. Built(taken, Mesh, TRUE) BY DEF Refits
<1>4. memory[taken].of \notin DOMAIN held \union DOMAIN retained \union Clouds
  BY CloudsAreApart DEF TakenInv
<1>5. MapsInv' BY <1>1, <1>2, <1>3, <1>4, RetainKeepsMaps DEF Novel
<1> QED BY <1>5 DEF TakenInv

LEMMA DiscardKeepsStructures ==
  ASSUME StructureInv, Discard
  PROVE  StructureInv'
<1> USE DEF Discard, StructureInv, MapsInv
<1>1. memory[taken].of \notin DOMAIN held \union DOMAIN retained \union Clouds
  BY CloudsAreApart DEF TakenInv
<1>2. Sound(memory', held) BY <1>1, FreedElsewhere
<1>3. Sound(memory', retained) BY <1>1, FreedElsewhere
<1>4. Sound(memory', clouds) BY <1>1, FreedElsewhere
<1>5. Sound(memory', retainedClouds) BY <1>1, FreedElsewhere
<1>6. memory' \in [Addresses -> Structure] BY FreedIsTyped
<1>7. Mesh' = Mesh /\ meshes' = meshes BY DEF Mesh, resources, displacement
<1> QED BY <1>2, <1>3, <1>4, <1>5, <1>6, <1>7 DEF TakenInv, Novel

\* A free address is over nothing, which is no map's key.
LEMMA FreeIsElsewhere ==
  ASSUME MapsInv, None \notin Clouds, NEW a \in Free
  PROVE  /\ a \in Addresses
         /\ memory[a].of \notin DOMAIN held \union DOMAIN retained \union Clouds
BY DEF Free, MapsInv, Sound

LEMMA BuildMeshKeepsStructures ==
  ASSUME ContentInv, StructureInv, NEW u \in BOOLEAN, BuildMesh(u),
         at \in {"mesh", "rebuild"}, next <= Len(meshes), Novel(Mesh)
  PROVE  StructureInv'
<1> USE DEF BuildMesh, StructureInv
<1> PICK a \in Free : Built(a, Mesh, u) /\ retained' = With(retained, Mesh, a)
  OBVIOUS
<1>1. Mesh \in Contents BY MeshIsTyped DEF Novel
<1>2. MapsInv' BY <1>1, FreeIsElsewhere, NoneIsNothing, RetainKeepsMaps DEF Novel
<1> QED BY <1>2 DEF TakenInv

LEMMA FinishMeshesKeepsStructures ==
  ASSUME StructureInv, FinishMeshes
  PROVE  StructureInv'
<1> USE DEF FinishMeshes, StructureInv, MapsInv
<1> DEFINE wanted == {scene.clouds[k] : k \in DOMAIN scene.clouds}
           gone == {clouds[c] : c \in DOMAIN clouds \ wanted}
           A == Leftover \union gone
<1>1. Freed(A) /\ clouds' = Only(clouds, wanted) OBVIOUS
<1>2. \A a \in Leftover : memory[a].of \in DOMAIN held BY DEF Leftover, Image, Sound
<1>3. \A a \in gone : memory[a].of \in DOMAIN clouds \ wanted BY DEF Sound
<1>4. DOMAIN clouds' = DOMAIN clouds \intersect wanted /\ Sound(memory, clouds')
  BY <1>1 DEF Sound, Only
<1> HIDE DEF wanted, gone
<1>5. \A a \in A : memory[a].of \notin DOMAIN retained \union DOMAIN clouds' \union DOMAIN retainedClouds
  BY <1>2, <1>3, <1>4, CloudsAreApart
<1> HIDE DEF A
<1>6. Sound(memory', retained) BY <1>1, <1>5, FreedElsewhere
<1>7. Sound(memory', clouds') BY <1>1, <1>4, <1>5, FreedElsewhere
<1>8. Sound(memory', retainedClouds) BY <1>1, <1>5, FreedElsewhere
<1>9. memory' \in [Addresses -> Structure] BY <1>1, FreedIsTyped
<1>10. DOMAIN retained' = {} /\ candidates' = {} /\ held' = retained BY DEF Empty
<1>11. Sound(memory', retained') BY <1>10 DEF Sound
<1> QED BY <1>4, <1>6, <1>7, <1>8, <1>9, <1>10, <1>11 DEF TakenInv

LEMMA KeepCloudKeepsStructures ==
  ASSUME StructureInv, KeepCloud
  PROVE  StructureInv'
<1> USE DEF KeepCloud, AtCloud, StructureInv, MapsInv
<1>1. Cloud # None /\ clouds[Cloud] \in Addresses /\ memory[clouds[Cloud]].of = Cloud BY DEF Sound
<1>2. Sound(memory, retainedClouds') /\ DOMAIN retainedClouds' = DOMAIN retainedClouds \union {Cloud}
  BY <1>1 DEF Sound, With
<1>3. Sound(memory, clouds') /\ DOMAIN clouds' = DOMAIN clouds \ {Cloud} BY DEF Sound, Only
<1> QED BY <1>2, <1>3 DEF TakenInv

LEMMA BuildCloudKeepsStructures ==
  ASSUME PoolInv, ContentInv, StructureInv, BuildCloud
  PROVE  StructureInv'
<1> USE DEF BuildCloud, NewCloud, AtCloud, StructureInv, MapsInv
<1> PICK a \in Free : /\ Built(a, Cloud, FALSE)
                       /\ retainedClouds' = With(retainedClouds, Cloud, a)
  OBVIOUS
<1>1. Cloud \in Clouds
  <2>1. scene \in Scenes BY DEF PoolInv, Rest
  <2>2. scene.clouds \in Seq(Clouds \union {None}) BY <2>1, PrototypesAreTyped
  <2>3. next \in 1 .. Len(scene.clouds) BY <2>2 DEF ContentInv
  <2> QED BY <2>2, <2>3 DEF Cloud
<1>2. a \in Addresses /\ memory[a].of \notin DOMAIN held \union DOMAIN retained \union Clouds
  BY FreeIsElsewhere, NoneIsNothing
<1>3. memory' \in [Addresses -> Structure] BY <1>1, <1>2, BuiltIsTyped
<1>4. Sound(memory', held) BY <1>2, BuiltElsewhere
<1>5. Sound(memory', retained) BY <1>2, BuiltElsewhere
<1>6. Sound(memory', clouds) BY <1>2, BuiltElsewhere
<1>7. Sound(memory', retainedClouds) /\ memory'[a].of = Cloud BY <1>2, BuiltElsewhere
<1>8. /\ Sound(memory', retainedClouds')
      /\ DOMAIN retainedClouds' = DOMAIN retainedClouds \union {Cloud}
  BY <1>2, <1>7 DEF Sound, With
<1> QED BY <1>1, <1>3, <1>4, <1>5, <1>6, <1>8 DEF TakenInv

LEMMA FinishCloudsKeepsStructures ==
  ASSUME StructureInv, FinishClouds
  PROVE  StructureInv'
<1> USE DEF FinishClouds, StructureInv, MapsInv
<1>1. \A a \in Image(clouds) :
        memory[a].of \notin DOMAIN held \union DOMAIN retained \union DOMAIN retainedClouds
  BY CloudsAreApart DEF Image, Sound
<1>2. Sound(memory', held) BY <1>1, FreedElsewhere
<1>3. Sound(memory', retained) BY <1>1, FreedElsewhere
<1>4. Sound(memory', retainedClouds) BY <1>1, FreedElsewhere
<1>5. memory' \in [Addresses -> Structure] BY FreedIsTyped
<1>6. DOMAIN retainedClouds' = {} BY DEF Empty
<1>7. Sound(memory', retainedClouds') BY <1>6 DEF Sound
<1> QED BY <1>2, <1>3, <1>4, <1>5, <1>6, <1>7 DEF TakenInv

LEMMA AcceleratorStepKeepsStructures ==
  ASSUME PoolInv, ContentInv, StructureInv, AcceleratorStep
  PROVE  StructureInv'
<1>1. CASE Release BY <1>1, ReleaseKeepsStructures
<1>2. CASE ShareMesh
  BY <1>2 DEF ShareMesh, AtMesh, accelerator, StructureInv, MapsInv, TakenInv
<1>3. CASE KeepMesh BY <1>3, KeepMeshKeepsStructures
<1>4. CASE TakeMesh BY <1>4, TakeMeshKeepsStructures
<1>5. CASE Refit BY <1>5, RefitKeepsStructures
<1>6. CASE Discard BY <1>6, DiscardKeepsStructures
<1>7. CASE Rebuild
  BY <1>7, BuildMeshKeepsStructures DEF Rebuild, StructureInv, TakenInv
<1>8. CASE Build
  BY <1>8, BuildMeshKeepsStructures DEF Build, NewMesh, AtMesh
<1>9. CASE FinishMeshes BY <1>9, FinishMeshesKeepsStructures
<1>10. CASE ShareCloud
  BY <1>10 DEF ShareCloud, AtCloud, accelerator, StructureInv, MapsInv, TakenInv
<1>11. CASE KeepCloud BY <1>11, KeepCloudKeepsStructures
<1>12. CASE BuildCloud BY <1>12, BuildCloudKeepsStructures
<1>13. CASE FinishClouds BY <1>13, FinishCloudsKeepsStructures
<1>14. CASE BuildTop BY <1>14 DEF BuildTop, StructureInv, MapsInv, TakenInv
<1>15. CASE FillTable BY <1>15 DEF FillTable, StructureInv, MapsInv, TakenInv
<1> QED BY <1>1, <1>2, <1>3, <1>4, <1>5, <1>6, <1>7, <1>8, <1>9, <1>10, <1>11, <1>12,
           <1>13, <1>14, <1>15 DEF AcceleratorStep

\* A resource's step is neither a refit's nor a rebuild's.
LEMMA ResourceStepIsElsewhere ==
  ASSUME ResourceStep
  PROVE  at # "refit" /\ at' \notin {"refit", "rebuild"}
<1>1. CASE Extend BY <1>1 DEF Extend
<1>2. CASE Shadow BY <1>2 DEF Shadow
<1>3. CASE KeepSlot BY <1>3 DEF KeepSlot
<1>4. CASE UploadSlot BY <1>4 DEF UploadSlot
<1>5. CASE FinishTextures BY <1>5 DEF FinishTextures
<1>6. CASE SkipDisplacement BY <1>6 DEF SkipDisplacement
<1>7. CASE LeavePlain BY <1>7 DEF LeavePlain, Displacing
<1>8. CASE ReuseDisplaced BY <1>8 DEF ReuseDisplaced, Displacing
<1>9. CASE DispatchDisplacement BY <1>9 DEF DispatchDisplacement, Dispatches, Displacing
<1>10. CASE FinishDisplacement BY <1>10 DEF FinishDisplacement
<1>11. CASE CompareDome BY <1>11 DEF CompareDome
<1>12. CASE UploadDome BY <1>12 DEF UploadDome
<1>13. CASE AllocateDistribution BY <1>13 DEF AllocateDistribution
<1>14. CASE CopyDistribution BY <1>14 DEF CopyDistribution
<1>15. CASE Shade BY <1>15 DEF Shade
<1> QED BY <1>1, <1>2, <1>3, <1>4, <1>5, <1>6, <1>7, <1>8, <1>9, <1>10, <1>11, <1>12,
           <1>13, <1>14, <1>15 DEF ResourceStep

LEMMA ThrowKeepsStructures ==
  ASSUME StructureInv, Throw
  PROVE  StructureInv'
<1> USE DEF Throw, AbandonResources, AbandonAccelerator, StructureInv, MapsInv
<1> DEFINE A == Image(retained) \union {taken} \union Image(retainedClouds)
<1>1. Freed(A) OBVIOUS
<1>2. \A a \in A \intersect Addresses : memory[a].of \notin DOMAIN held \union DOMAIN clouds
  BY CloudsAreApart, NoneIsNowhere DEF Image, Sound, TakenInv
<1> HIDE DEF A
<1>3. Sound(memory', held) BY <1>1, <1>2, FreedElsewhere
<1>4. Sound(memory', clouds) BY <1>1, <1>2, FreedElsewhere
<1>5. memory' \in [Addresses -> Structure] BY <1>1, FreedIsTyped
<1>6. DOMAIN retained' = {} /\ DOMAIN retainedClouds' = {} BY DEF Empty
<1>7. Sound(memory', retained') /\ Sound(memory', retainedClouds') BY <1>6 DEF Sound
<1> QED BY <1>3, <1>4, <1>5, <1>6, <1>7 DEF TakenInv

LEMMA NextKeepsStructures ==
  ASSUME PoolInv, ContentInv, StructureInv, [Next]_vars
  PROVE  StructureInv'
<1>1. CASE \E s \in Scenes : Publish(s) /\ UNCHANGED accelerator
  BY <1>1 DEF Publish, Rest, accelerator, StructureInv, MapsInv, TakenInv
<1>2. CASE ResourceStep /\ UNCHANGED accelerator
  BY <1>2, ResourceStepIsElsewhere DEF accelerator, StructureInv, MapsInv, TakenInv
<1>3. CASE AcceleratorStep BY <1>3, AcceleratorStepKeepsStructures
<1>4. CASE Throw BY <1>4, ThrowKeepsStructures
<1>5. CASE UNCHANGED vars
  BY <1>5 DEF vars, resources, displacement, accelerator, StructureInv, MapsInv, TakenInv,
              Novel, Mesh
<1> QED BY <1>1, <1>2, <1>3, <1>4, <1>5 DEF Next, Step

\* The structure held for a geometry is over that geometry, for any scenes and any
\* memory, whatever was kept, refitted, rebuilt or lost to a throw
\* (SceneAccelerator::Update).
THEOREM HeldIsSound == Spec => []HeldIsItsGeometry
<1> DEFINE IInv == PoolInv /\ ContentInv /\ StructureInv
<1>1. Init => IInv BY PoolInit, ContentInit, StructureInit
<1>2. IInv /\ [Next]_vars => IInv'
  BY NextKeepsPool, NextKeepsContent, NextKeepsStructures
<1>3. IInv => HeldIsItsGeometry BY DEF StructureInv, MapsInv, Sound, HeldIsItsGeometry
<1> HIDE DEF IInv
<1> QED BY <1>1, <1>2, <1>3, PTL DEF Spec

-----------------------------------------------------------------------------
(* No structure is lost.                                                    *)

\* A map owns a when it has it under what it is over; somebody owns every structure.
Owns(f, a) == memory[a].of \in DOMAIN f /\ f[memory[a].of] = a
Owned(a) == Owns(held, a) \/ Owns(retained, a) \/ Owns(clouds, a) \/ Owns(retainedClouds, a)
            \/ taken = a
OwnedInv == \A a \in Addresses : memory[a].of # None => Owned(a)

LEMMA OwnedInit == Init => OwnedInv
BY DEF Init, AcceleratorInit, OwnedInv, Vacant

\* What is not freed stays as it was, and was not freed.
LEMMA FreedOrNot ==
  ASSUME NEW A, Freed(A), NEW a \in Addresses, memory'[a].of # None
  PROVE  a \notin A /\ memory'[a] = memory[a]
BY DEF Freed, Vacant

LEMMA ReleaseKeepsOwned ==
  ASSUME StructureInv, OwnedInv, Release
  PROVE  OwnedInv'
<1> SUFFICES ASSUME NEW a \in Addresses, memory'[a].of # None PROVE Owned(a)'
  BY DEF OwnedInv
<1> DEFINE A == {held[f] : f \in DOMAIN held \ Kept}
<1>1. a \notin A /\ memory'[a] = memory[a] BY FreedOrNot DEF Release
<1>2. Owned(a) BY <1>1 DEF OwnedInv
<1>3. CASE Owns(held, a) BY <1>1, <1>3 DEF Release, Owned, Owns, Only
<1>4. CASE ~Owns(held, a) BY <1>1, <1>2, <1>4 DEF Release, Owned, Owns
<1> QED BY <1>3, <1>4

LEMMA KeepMeshKeepsOwned ==
  ASSUME StructureInv, OwnedInv, KeepMesh
  PROVE  OwnedInv'
<1> SUFFICES ASSUME NEW a \in Addresses, memory'[a].of # None PROVE Owned(a)'
  BY DEF OwnedInv
<1>1. Owned(a) /\ memory' = memory BY DEF OwnedInv, KeepMesh
<1>2. CASE Owns(held, a) BY <1>1, <1>2 DEF KeepMesh, Owned, Owns, Only, With
<1>3. CASE Owns(retained, a)
  BY <1>1, <1>3 DEF KeepMesh, Owned, Owns, With
<1>4. CASE ~Owns(held, a) /\ ~Owns(retained, a)
  BY <1>1, <1>4 DEF KeepMesh, Owned, Owns
<1> QED BY <1>2, <1>3, <1>4

LEMMA TakeMeshKeepsOwned ==
  ASSUME StructureInv, OwnedInv, TakeMesh
  PROVE  OwnedInv'
<1> SUFFICES ASSUME NEW a \in Addresses, memory'[a].of # None PROVE Owned(a)'
  BY DEF OwnedInv
<1>1. Owned(a) /\ memory' = memory /\ taken = None
  BY DEF OwnedInv, TakeMesh, AtMesh, StructureInv, TakenInv
<1>2. PICK c \in Deformable(Mesh) :
           taken' = held[c] /\ held' = Only(held, DOMAIN held \ {c})
  BY DEF TakeMesh
<1>3. CASE Owns(held, a) BY <1>1, <1>2, <1>3 DEF Owned, Owns, Only
<1>4. CASE ~Owns(held, a) BY <1>1, <1>4, NoneIsNowhere DEF TakeMesh, Owned, Owns
<1> QED BY <1>3, <1>4

\* A build or a refit gives its structure to retained; the others keep theirs.
LEMMA RetainKeepsOwned ==
  ASSUME MapsInv, OwnedInv, NEW b \in Addresses, NEW f, NEW u,
         Built(b, f, u), retained' = With(retained, f, b), f \notin DOMAIN retained,
         UNCHANGED <<held, clouds, retainedClouds>>, taken \in {b, None}
  PROVE  OwnedInv'
<1> SUFFICES ASSUME NEW a \in Addresses, memory'[a].of # None PROVE Owned(a)'
  BY DEF OwnedInv
<1>1. CASE a = b
  <2>1. memory'[b].of = f BY DEF Built, MapsInv
  <2> QED BY <1>1, <2>1 DEF Owned, Owns, With
<1>2. CASE a # b
  <2>1. memory'[a] = memory[a] BY <1>2 DEF Built, MapsInv
  <2>2. Owned(a) /\ taken # a BY <1>2, <2>1, NoneIsNowhere DEF OwnedInv
  <2>3. CASE Owns(retained, a) BY <2>1, <2>3 DEF Owned, Owns, With
  <2>4. CASE ~Owns(retained, a) BY <2>1, <2>2, <2>4 DEF Owned, Owns
  <2> QED BY <2>3, <2>4
<1> QED BY <1>1, <1>2

LEMMA DiscardKeepsOwned ==
  ASSUME StructureInv, OwnedInv, Discard
  PROVE  OwnedInv'
<1> SUFFICES ASSUME NEW a \in Addresses, memory'[a].of # None PROVE Owned(a)'
  BY DEF OwnedInv
<1>1. a # taken /\ memory'[a] = memory[a] BY FreedOrNot DEF Discard
<1> QED BY <1>1 DEF Discard, OwnedInv, Owned, Owns

LEMMA BuildMeshKeepsOwned ==
  ASSUME StructureInv, OwnedInv, NEW u \in BOOLEAN, BuildMesh(u), Novel(Mesh), at # "refit"
  PROVE  OwnedInv'
<1> PICK a \in Free : Built(a, Mesh, u) /\ retained' = With(retained, Mesh, a)
  BY DEF BuildMesh
<1>1. a \in Addresses BY DEF Free
<1> QED BY <1>1, RetainKeepsOwned DEF BuildMesh, StructureInv, TakenInv, Novel

LEMMA FinishMeshesKeepsOwned ==
  ASSUME StructureInv, OwnedInv, FinishMeshes
  PROVE  OwnedInv'
<1> SUFFICES ASSUME NEW a \in Addresses, memory'[a].of # None PROVE Owned(a)'
  BY DEF OwnedInv
<1> DEFINE wanted == {scene.clouds[k] : k \in DOMAIN scene.clouds}
           gone == {clouds[c] : c \in DOMAIN clouds \ wanted}
<1>1. Freed(Leftover \union gone) BY DEF FinishMeshes
<1>2. a \notin Leftover /\ a \notin gone /\ memory'[a] = memory[a] BY <1>1, FreedOrNot
<1>3. Owned(a) BY <1>2 DEF OwnedInv
<1>4. ~Owns(held, a) BY <1>2 DEF Leftover, Image, Owns
<1>5. CASE Owns(clouds, a) BY <1>2, <1>5 DEF FinishMeshes, Owned, Owns, Only
<1>6. CASE Owns(retained, a) BY <1>2, <1>6 DEF FinishMeshes, Owned, Owns
<1>7. CASE ~Owns(clouds, a) /\ ~Owns(retained, a)
  BY <1>2, <1>3, <1>4, <1>7 DEF FinishMeshes, Owned, Owns
<1> QED BY <1>5, <1>6, <1>7

LEMMA KeepCloudKeepsOwned ==
  ASSUME StructureInv, OwnedInv, KeepCloud
  PROVE  OwnedInv'
<1> SUFFICES ASSUME NEW a \in Addresses, memory'[a].of # None PROVE Owned(a)'
  BY DEF OwnedInv
<1>1. Owned(a) /\ memory' = memory BY DEF OwnedInv, KeepCloud
<1>2. CASE Owns(clouds, a) BY <1>1, <1>2 DEF KeepCloud, Owned, Owns, Only, With
<1>3. CASE Owns(retainedClouds, a) BY <1>1, <1>3 DEF KeepCloud, Owned, Owns, With
<1>4. CASE ~Owns(clouds, a) /\ ~Owns(retainedClouds, a)
  BY <1>1, <1>4 DEF KeepCloud, Owned, Owns
<1> QED BY <1>2, <1>3, <1>4

LEMMA BuildCloudKeepsOwned ==
  ASSUME StructureInv, OwnedInv, BuildCloud
  PROVE  OwnedInv'
<1> SUFFICES ASSUME NEW a \in Addresses, memory'[a].of # None PROVE Owned(a)'
  BY DEF OwnedInv
<1> PICK b \in Free : /\ Built(b, Cloud, FALSE)
                       /\ retainedClouds' = With(retainedClouds, Cloud, b)
  BY DEF BuildCloud
<1>1. b \in Addresses BY DEF Free
<1>2. CASE a = b
  <2>1. memory'[b].of = Cloud BY <1>1 DEF Built, StructureInv, MapsInv
  <2> QED BY <1>2, <2>1 DEF Owned, Owns, With
<1>3. CASE a # b
  <2>1. memory'[a] = memory[a] BY <1>1, <1>3 DEF Built, StructureInv, MapsInv
  <2>2. Owned(a) BY <2>1 DEF OwnedInv
  <2>3. CASE Owns(retainedClouds, a)
    BY <2>1, <2>3 DEF BuildCloud, NewCloud, Owned, Owns, With
  <2>4. CASE ~Owns(retainedClouds, a)
    BY <2>1, <2>2, <2>4 DEF BuildCloud, Owned, Owns
  <2> QED BY <2>3, <2>4
<1> QED BY <1>2, <1>3

LEMMA FinishCloudsKeepsOwned ==
  ASSUME StructureInv, OwnedInv, FinishClouds
  PROVE  OwnedInv'
<1> SUFFICES ASSUME NEW a \in Addresses, memory'[a].of # None PROVE Owned(a)'
  BY DEF OwnedInv
<1>1. a \notin Image(clouds) /\ memory'[a] = memory[a] BY FreedOrNot DEF FinishClouds
<1>2. ~Owns(clouds, a) BY <1>1 DEF Image, Owns
<1>3. Owned(a) BY <1>1 DEF OwnedInv
<1> QED BY <1>1, <1>2, <1>3 DEF FinishClouds, Owned, Owns

LEMMA ThrowKeepsOwned ==
  ASSUME StructureInv, OwnedInv, Throw
  PROVE  OwnedInv'
<1> SUFFICES ASSUME NEW a \in Addresses, memory'[a].of # None PROVE Owned(a)'
  BY DEF OwnedInv
<1>1. Freed(Image(retained) \union {taken} \union Image(retainedClouds))
  BY DEF Throw, AbandonAccelerator
<1>2. /\ a \notin Image(retained) /\ a # taken /\ a \notin Image(retainedClouds)
      /\ memory'[a] = memory[a]
  BY <1>1, FreedOrNot
<1>3. ~Owns(retained, a) /\ ~Owns(retainedClouds, a) BY <1>2 DEF Image, Owns
<1>4. Owned(a) BY <1>2 DEF OwnedInv
<1> QED BY <1>2, <1>3, <1>4 DEF Throw, AbandonAccelerator, Owned, Owns

LEMMA AcceleratorStepKeepsOwned ==
  ASSUME StructureInv, OwnedInv, AcceleratorStep
  PROVE  OwnedInv'
<1> USE DEF accelerator
<1>1. CASE Release BY <1>1, ReleaseKeepsOwned
<1>2. CASE ShareMesh BY <1>2 DEF ShareMesh, OwnedInv, Owned, Owns
<1>3. CASE KeepMesh BY <1>3, KeepMeshKeepsOwned
<1>4. CASE TakeMesh BY <1>4, TakeMeshKeepsOwned
<1>5. CASE Refit
  <2>1. taken \in Addresses /\ Novel(Mesh) BY <1>5 DEF Refit, StructureInv, TakenInv
  <2>2. Built(taken, Mesh, TRUE) BY <1>5 DEF Refit, Refits
  <2> QED BY <1>5, <2>1, <2>2, RetainKeepsOwned DEF Refit, StructureInv, Novel
<1>6. CASE Discard BY <1>6, DiscardKeepsOwned
<1>7. CASE Rebuild BY <1>7, BuildMeshKeepsOwned DEF Rebuild, StructureInv, TakenInv
<1>8. CASE Build BY <1>8, BuildMeshKeepsOwned DEF Build, NewMesh, AtMesh
<1>9. CASE FinishMeshes BY <1>9, FinishMeshesKeepsOwned
<1>10. CASE ShareCloud BY <1>10 DEF ShareCloud, OwnedInv, Owned, Owns
<1>11. CASE KeepCloud BY <1>11, KeepCloudKeepsOwned
<1>12. CASE BuildCloud BY <1>12, BuildCloudKeepsOwned
<1>13. CASE FinishClouds BY <1>13, FinishCloudsKeepsOwned
<1>14. CASE BuildTop BY <1>14 DEF BuildTop, OwnedInv, Owned, Owns
<1>15. CASE FillTable BY <1>15 DEF FillTable, OwnedInv, Owned, Owns
<1> QED BY <1>1, <1>2, <1>3, <1>4, <1>5, <1>6, <1>7, <1>8, <1>9, <1>10, <1>11, <1>12,
           <1>13, <1>14, <1>15 DEF AcceleratorStep

LEMMA NextKeepsOwned ==
  ASSUME StructureInv, OwnedInv, [Next]_vars
  PROVE  OwnedInv'
<1>1. CASE UNCHANGED accelerator BY <1>1 DEF accelerator, OwnedInv, Owned, Owns
<1>2. CASE AcceleratorStep BY <1>2, AcceleratorStepKeepsOwned
<1>3. CASE Throw BY <1>3, ThrowKeepsOwned
<1> QED BY <1>1, <1>2, <1>3 DEF Next, Step, vars

\* The owners of a structure, as EachStructureHasOneOwner counts them: by soundness
\* each is the map and the key it is over, or nobody's but the refit's.
LEMMA OneOwner ==
  ASSUME StructureInv, OwnedInv
  PROVE  EachStructureHasOneOwner
<1> SUFFICES ASSUME NEW a \in Addresses
             PROVE  LET owners == (UNION {{<<k, x>> : x \in {y \in DOMAIN Owners[k] : Owners[k][y] = a}} :
                                            k \in DOMAIN Owners})
                                  \union (IF taken = a THEN {<<0, a>>} ELSE {})
                    IN IF memory[a].of = None THEN owners = {} ELSE Cardinality(owners) = 1
  BY DEF EachStructureHasOneOwner
<1> DEFINE Of(k) == {<<k, x>> : x \in {y \in DOMAIN Owners[k] : Owners[k][y] = a}}
           kept == UNION {Of(k) : k \in DOMAIN Owners}
           owners == kept \union (IF taken = a THEN {<<0, a>>} ELSE {})
           f == memory[a].of
           By(k) == f \in DOMAIN Owners[k] /\ Owners[k][f] = a
<1> USE DEF StructureInv, MapsInv
<1>1. /\ DOMAIN Owners = 1 .. 4
      /\ Owners[1] = held /\ Owners[2] = retained
      /\ Owners[3] = clouds /\ Owners[4] = retainedClouds
  BY DEF Owners
<1>2. \A k \in 1 .. 4 : \A x \in DOMAIN Owners[k] : Owners[k][x] = a => x = f /\ f # None
  BY <1>1 DEF Sound
<1>3. ASSUME NEW k \in 1 .. 4, By(k)
      PROVE  taken # a /\ \A j \in 1 .. 4 : By(j) => j = k
  <2>1. taken = a => /\ f \in Contents
                     /\ f \notin DOMAIN held \union DOMAIN retained
    BY NoneIsNowhere DEF TakenInv
  <2> QED BY <1>1, <1>3, <2>1, CloudsAreApart
<1>4. ASSUME NEW k \in 1 .. 4
      PROVE  /\ By(k) => Of(k) = {<<k, f>>}
             /\ ~By(k) => Of(k) = {}
  BY <1>1, <1>2
<1>5. Owned(a) => (\E k \in 1 .. 4 : By(k)) \/ taken = a
  BY <1>1 DEF Owned, Owns
<1>6. f = None => taken # a /\ \A k \in 1 .. 4 : ~By(k)
  BY <1>1, <1>2, CloudsAreApart, NoneIsNowhere DEF TakenInv
<1>7. f # None => Owned(a) BY DEF OwnedInv
<1> HIDE DEF By, Of, f
<1>8. CASE f = None
  <2>1. owners = {} BY <1>1, <1>4, <1>6, <1>8
  <2> QED BY <1>8, <2>1 DEF f, Of
<1>9. CASE f # None
  <2>1. \E w : owners = {w}
    <3>1. CASE taken = a
      <4>1. \A k \in 1 .. 4 : Of(k) = {} BY <1>3, <1>4, <3>1
      <4>2. kept = {} BY <1>1, <4>1
      <4> HIDE DEF kept
      <4>3. owners = {<<0, a>>} BY <3>1, <4>2
      <4> QED BY <4>3
    <3>2. CASE taken # a
      <4>1. PICK k \in 1 .. 4 : By(k) BY <1>5, <1>7, <1>9, <3>2
      <4>2. Of(k) = {<<k, f>>} BY <1>4, <4>1
      <4>3. \A j \in 1 .. 4 : j # k => Of(j) = {} BY <1>3, <1>4, <4>1
      <4>4. owners = UNION {Of(j) : j \in 1 .. 4} BY <1>1, <3>2
      <4>5. \A e \in owners : e = <<k, f>>
        <5>1. TAKE e \in owners
        <5>2. PICK j \in 1 .. 4 : e \in Of(j) BY <4>4
        <5> QED BY <4>2, <4>3, <5>2
      <4>6. <<k, f>> \in owners BY <4>2, <4>4
      <4> HIDE DEF owners
      <4>7. owners = {<<k, f>>} BY <4>5, <4>6
      <4> QED BY <4>7
    <3> QED BY <3>1, <3>2
  <2> HIDE DEF owners
  <2>2. Cardinality(owners) = 1 BY <2>1, FS_Singleton
  <2> QED BY <1>9, <2>2 DEF owners, f, Of
<1> QED BY <1>8, <1>9

\* Every structure on the device has exactly one owner, for any scenes and any memory,
\* wherever a publication is or was thrown out of.
THEOREM OwnershipIsExclusive == Spec => []EachStructureHasOneOwner
<1> DEFINE IInv == PoolInv /\ ContentInv /\ StructureInv /\ OwnedInv
<1>1. Init => IInv BY PoolInit, ContentInit, StructureInit, OwnedInit
<1>2. IInv /\ [Next]_vars => IInv'
  BY NextKeepsPool, NextKeepsContent, NextKeepsStructures, NextKeepsOwned
<1>3. IInv => EachStructureHasOneOwner BY OneOwner
<1> HIDE DEF IInv
<1> QED BY <1>1, <1>2, <1>3, PTL DEF Spec

-----------------------------------------------------------------------------
(* Types.                                                                   *)

\* A local is empty outside the loop that fills it: the displacement's runs only
\* for a scene that displaces.
LocalsInv ==
  /\ ~(at = "displace" /\ scene.displacers # {}) => used = Empty
  /\ at \notin {"mesh", "refit", "rebuild"} => retained = Empty
  /\ at # "cloud" => retainedClouds = Empty

RestInv ==
  /\ at \in Rest \union Throwing \union {"release"}
  /\ scene \in Scenes \union {None}
  /\ fromScene \in BOOLEAN /\ {extend, shadow} \subseteq Libraries \union {None}
  /\ {dome, uploadedDome, distribution.shape} \subseteq Images \union {None}
  /\ \A e \in top : e.index \in Nat /\ e.structure \in Addresses
  /\ LocalsInv

LEMMA RestInit == Init => RestInv
<1> SUFFICES ASSUME Init PROVE RestInv OBVIOUS
<1>1. at = "idle" /\ at \in Rest BY DEF Init, ResourcesInit, Rest
<1>2. scene = None /\ fromScene \in BOOLEAN /\ extend = None /\ shadow = None
  BY DEF Init, ResourcesInit
<1>3. dome = None /\ uploadedDome = None /\ distribution.shape = None
  BY DEF Init, ResourcesInit
<1>4. top = {} /\ retained = Empty /\ retainedClouds = Empty
  BY DEF Init, AcceleratorInit
<1>5. used = Empty BY DEF Init, ResourcesInit
<1> QED BY <1>1, <1>2, <1>3, <1>4, <1>5 DEF RestInv, LocalsInv

LEMMA SceneIsTyped ==
  ASSUME NEW s \in Scenes
  PROVE  /\ s.library \in Libraries \union {None}
         /\ s.textures \in Seq(Images \union {None})
         /\ s.placements \in Seq(Nat \ {0})
         /\ s.splats \in Seq(Nat \ {0})
BY ScenesAreTyped DEF Scene

LEMMA ResourceStepKeepsRest ==
  ASSUME PoolInv, RestInv, ResourceStep, UNCHANGED accelerator
  PROVE  RestInv'
<1> USE DEF accelerator, kernels, environment, displacement, RestInv, LocalsInv, Rest, Throwing
<1>1. CASE Extend
  <2>1. scene \in Scenes BY <1>1 DEF Extend, PoolInv
  <2> QED BY <1>1, <2>1, SceneIsTyped DEF Extend
<1>2. CASE Shadow
  <2>1. scene \in Scenes BY <1>2 DEF Shadow, PoolInv
  <2> QED BY <1>2, <2>1, SceneIsTyped DEF Shadow
<1>3. CASE KeepSlot BY <1>3 DEF KeepSlot
<1>4. CASE UploadSlot BY <1>4 DEF UploadSlot
<1>5. CASE FinishTextures BY <1>5 DEF FinishTextures
<1>6. CASE SkipDisplacement
  BY <1>6 DEF SkipDisplacement
<1>7. CASE LeavePlain BY <1>7 DEF LeavePlain, Displacing
<1>8. CASE ReuseDisplaced BY <1>8 DEF ReuseDisplaced, Displacing
<1>9. CASE DispatchDisplacement BY <1>9 DEF DispatchDisplacement, Dispatches, Displacing
<1>10. CASE FinishDisplacement BY <1>10 DEF FinishDisplacement
<1>11. CASE CompareDome BY <1>11 DEF CompareDome
<1>12. CASE UploadDome
  <2>1. scene \in Scenes BY <1>12 DEF UploadDome, PoolInv
  <2>2. DomeImage \in Images \union {None} BY <2>1, SceneIsTyped DEF DomeImage
  <2> QED BY <1>12, <2>2 DEF UploadDome
<1>13. CASE AllocateDistribution BY <1>13 DEF AllocateDistribution
<1>14. CASE CopyDistribution BY <1>14 DEF CopyDistribution
<1>15. CASE Shade BY <1>15 DEF Shade
<1> QED BY <1>1, <1>2, <1>3, <1>4, <1>5, <1>6, <1>7, <1>8, <1>9, <1>10, <1>11, <1>12,
           <1>13, <1>14, <1>15 DEF ResourceStep

\* What an instance names is a structure.
LEMMA BuiltTopIsTyped ==
  ASSUME PoolInv, StructureInv, BuildTop
  PROVE  \A e \in top' : e.index \in Nat /\ e.structure \in Addresses
<1>1. scene \in Scenes BY DEF BuildTop, PoolInv, Rest
<1>2. scene.placements \in Seq(Nat \ {0}) /\ scene.splats \in Seq(Nat \ {0})
  BY <1>1, SceneIsTyped
<1>3. \A p : Blas(p) \in Addresses \union {None} BY DEF Blas, StructureInv, MapsInv, Sound
<1>4. \A p : SplatBlas(p) \in Addresses \union {None}
  BY DEF SplatBlas, StructureInv, MapsInv, Sound
<1>5. \A k \in DOMAIN scene.splats : SplatIndex(k) \in Nat BY <1>2 DEF SplatIndex
<1> QED BY <1>2, <1>3, <1>4, <1>5 DEF BuildTop

LEMMA AcceleratorStepKeepsRest ==
  ASSUME PoolInv, StructureInv, RestInv, AcceleratorStep
  PROVE  RestInv'
<1> USE DEF accelerator, resources, kernels, environment, displacement, RestInv, LocalsInv,
            Rest, Throwing
<1>1. CASE Release BY <1>1 DEF Release
<1>2. CASE ShareMesh BY <1>2 DEF ShareMesh, AtMesh
<1>3. CASE KeepMesh BY <1>3 DEF KeepMesh, AtMesh
<1>4. CASE TakeMesh BY <1>4 DEF TakeMesh, AtMesh
<1>5. CASE Refit BY <1>5 DEF Refit
<1>6. CASE Discard BY <1>6 DEF Discard
<1>7. CASE Rebuild BY <1>7 DEF Rebuild, BuildMesh
<1>8. CASE Build BY <1>8 DEF Build, BuildMesh, NewMesh, AtMesh
<1>9. CASE FinishMeshes BY <1>9 DEF FinishMeshes
<1>10. CASE ShareCloud BY <1>10 DEF ShareCloud, AtCloud
<1>11. CASE KeepCloud BY <1>11 DEF KeepCloud, AtCloud
<1>12. CASE BuildCloud BY <1>12 DEF BuildCloud, NewCloud, AtCloud
<1>13. CASE FinishClouds BY <1>13 DEF FinishClouds
<1>14. CASE BuildTop BY <1>14, BuiltTopIsTyped DEF BuildTop
<1>15. CASE FillTable BY <1>15 DEF FillTable
<1> QED BY <1>1, <1>2, <1>3, <1>4, <1>5, <1>6, <1>7, <1>8, <1>9, <1>10, <1>11, <1>12,
           <1>13, <1>14, <1>15 DEF AcceleratorStep

LEMMA NextKeepsRest ==
  ASSUME PoolInv, StructureInv, RestInv, [Next]_vars
  PROVE  RestInv'
<1>1. CASE \E s \in Scenes : Publish(s) /\ UNCHANGED accelerator
  BY <1>1 DEF Publish, accelerator, kernels, environment, RestInv, LocalsInv, Rest, Throwing
<1>2. CASE ResourceStep /\ UNCHANGED accelerator BY <1>2, ResourceStepKeepsRest
<1>3. CASE AcceleratorStep BY <1>3, AcceleratorStepKeepsRest
<1>4. CASE Throw
  BY <1>4 DEF Throw, AbandonResources, AbandonAccelerator, kernels, environment, RestInv,
              LocalsInv, Rest
<1>5. CASE UNCHANGED vars
  BY <1>5 DEF vars, accelerator, resources, kernels, environment, displacement, RestInv,
              LocalsInv
<1> QED BY <1>1, <1>2, <1>3, <1>4, <1>5 DEF Next, Step

\* The state of a publication keeps its types, and its locals are gone between two.
THEOREM TypeCorrect == Spec => []TypeOK
<1> DEFINE IInv == PoolInv /\ ContentInv /\ StructureInv /\ RestInv
<1>1. Init => IInv BY PoolInit, ContentInit, StructureInit, RestInit
<1>2. IInv /\ [Next]_vars => IInv'
  BY NextKeepsPool, NextKeepsContent, NextKeepsStructures, NextKeepsRest
<1>3. IInv => TypeOK
  BY DEF PoolInv, Slots, ContentInv, StructureInv, MapsInv, TakenInv, RestInv, LocalsInv,
         Rest, TypeOK
<1> HIDE DEF IInv
<1> QED BY <1>1, <1>2, <1>3, PTL DEF Spec

-----------------------------------------------------------------------------
(* What the loops of an update have done so far, and what they leave.       *)

Drawn == {"table", "dome", "domeUpload", "distribution", "copy", "shade", "published"}
AfterClouds == {"top"} \union Drawn
AfterMeshes == {"cloud"} \union AfterClouds
Looping == {"mesh", "refit", "rebuild"}

\* The scene wants something of this topology.
Wants(f) == \E w \in Wanted : Topology(w) = Topology(f)

\* The prototypes passed are retained; what is on the device is wanted, or a wanted
\* one may take it over; and what a refit takes over is another geometry.
MeshLoopInv ==
  at \in Looping =>
    /\ next - 1 <= Len(meshes)
    /\ \A k \in 1 .. next - 1 : meshes[k] # None => meshes[k] \in DOMAIN retained
    /\ DOMAIN retained \subseteq Wanted
    /\ \A f \in DOMAIN held : Wants(f)
    /\ at = "refit" => Wants(memory[taken].of) /\ memory[taken].of # Mesh

CloudLoopInv ==
  at = "cloud" =>
    /\ next - 1 <= Len(scene.clouds)
    /\ \A k \in 1 .. next - 1 :
         scene.clouds[k] # None => scene.clouds[k] \in DOMAIN retainedClouds

\* After its loop a prototype's structure is in its map.
FoundInv ==
  /\ at \in AfterMeshes =>
       \A k \in DOMAIN meshes : meshes[k] # None => meshes[k] \in DOMAIN held
  /\ at \in AfterClouds =>
       \A k \in DOMAIN scene.clouds : scene.clouds[k] # None => scene.clouds[k] \in DOMAIN clouds

\* When the meshes are built, what the maps have is the scene's.
OnlyThisScene ==
  /\ at \in {"cloud", "top"} => DOMAIN held \subseteq Wanted /\ DOMAIN clouds \subseteq Image(scene.clouds)
  /\ at = "cloud" => DOMAIN retainedClouds \subseteq Image(scene.clouds)

\* One instance a placement with a structure, and the table by the same numbers.
Instances ==
  {[index |-> j, structure |-> Blas(scene.placements[j])] :
     j \in {k \in DOMAIN scene.placements : Blas(scene.placements[k]) # None}}
  \union
  {[index |-> SplatIndex(k), structure |-> SplatBlas(scene.splats[k])] :
     k \in {j \in DOMAIN scene.splats : SplatBlas(scene.splats[j]) # None}}

PlacedInv ==
  /\ at \in Drawn => scene \in Scenes /\ top = Instances
  /\ at \in Drawn \ {"table"} =>
       Count = 0 \/ table = [index \in 1 .. Count |-> Placed(index)]

UpdateInv == MeshLoopInv /\ CloudLoopInv /\ FoundInv /\ PlacedInv

LEMMA UpdateInit == Init => UpdateInv
BY DEF Init, ResourcesInit, UpdateInv, MeshLoopInv, CloudLoopInv, FoundInv, PlacedInv, Looping,
       Drawn, AfterClouds, AfterMeshes

\* Elsewhere the loops claim nothing.
LEMMA ElsewhereKeepsUpdate ==
  ASSUME at' \notin Looping \union AfterMeshes
  PROVE  UpdateInv'
BY DEF UpdateInv, MeshLoopInv, CloudLoopInv, FoundInv, PlacedInv, Looping, Drawn, AfterClouds,
       AfterMeshes

LEMMA ReleaseKeepsUpdate ==
  ASSUME RestInv, ContentInv, StructureInv, Release, UNCHANGED <<scene, meshes>>
  PROVE  UpdateInv'
<1>1. at = "release" /\ at' = "mesh" /\ next' = 1 BY DEF Release
<1>2. retained' = retained /\ DOMAIN retained = {}
  BY <1>1 DEF Release, RestInv, LocalsInv, Empty
<1>3. DOMAIN held' \subseteq Kept BY DEF Release, Only
<1>4. \A f \in Kept : Wants(f) BY DEF Kept, Wants
<1>5. Wanted' = Wanted BY DEF Wanted
<1>6. \A f \in DOMAIN held' : Wants(f)' BY <1>3, <1>4, <1>5 DEF Wants, Topology
<1>7. Len(meshes') \in Nat BY DEF ContentInv
<1>8. MeshLoopInv' BY <1>1, <1>2, <1>6, <1>7 DEF MeshLoopInv
<1> QED BY <1>1, <1>8 DEF UpdateInv, CloudLoopInv, FoundInv, PlacedInv, Drawn, AfterClouds,
                          AfterMeshes

\* A step of the mesh loop that passes a prototype, or none, and keeps what it says.
LEMMA LoopKeepsUpdate ==
  ASSUME MeshLoopInv', at' \in Looping
  PROVE  UpdateInv'
BY DEF UpdateInv, CloudLoopInv, FoundInv, PlacedInv, Looping, Drawn, AfterClouds, AfterMeshes

\* The prototype at hand is wanted.
LEMMA MeshIsWanted ==
  ASSUME ContentInv, at \in Looping, next <= Len(meshes), Mesh # None
  PROVE  Mesh \in Wanted
BY DEF ContentInv, Mesh, Wanted, Looping

\* Passing the prototype at hand, once it is retained or nothing.
LEMMA PassKeepsLoop ==
  ASSUME ContentInv, MeshLoopInv, at \in Looping, next <= Len(meshes),
         at' = "mesh", next' = next + 1, UNCHANGED meshes,
         DOMAIN retained \subseteq DOMAIN retained', DOMAIN retained' \subseteq Wanted,
         Mesh = None \/ Mesh \in DOMAIN retained',
         DOMAIN held' \subseteq DOMAIN held
  PROVE  MeshLoopInv'
<1>1. next \in Nat /\ next # 0 /\ Len(meshes) \in Nat BY DEF ContentInv, Looping
<1>2. ASSUME NEW k \in 1 .. next, meshes[k] # None
      PROVE  meshes[k] \in DOMAIN retained'
  <2>1. CASE k = next BY <1>2, <2>1 DEF Mesh
  <2>2. CASE k # next
    <3>1. k \in 1 .. next - 1 BY <1>1, <2>2
    <3> QED BY <1>2, <3>1 DEF MeshLoopInv
  <2> QED BY <2>1, <2>2
<1>3. Wanted' = Wanted BY DEF Wanted
<1>4. \A f \in DOMAIN held' : Wants(f)' BY <1>3 DEF MeshLoopInv, Wants, Topology
<1>5. next' - 1 = next BY <1>1
<1> QED BY <1>1, <1>2, <1>3, <1>4, <1>5 DEF MeshLoopInv

LEMMA ShareMeshKeepsUpdate ==
  ASSUME ContentInv, UpdateInv, ShareMesh, UNCHANGED <<scene, meshes>>
  PROVE  UpdateInv'
<1>1. /\ at = "mesh" /\ next <= Len(meshes) /\ at' = "mesh" /\ next' = next + 1
      /\ retained' = retained /\ held' = held
      /\ Mesh = None \/ Mesh \in DOMAIN retained
  BY DEF ShareMesh, AtMesh, accelerator
<1>2. DOMAIN retained \subseteq Wanted BY <1>1 DEF UpdateInv, MeshLoopInv, Looping
<1>3. MeshLoopInv' BY <1>1, <1>2, PassKeepsLoop DEF UpdateInv, Looping
<1> QED BY <1>1, <1>3, LoopKeepsUpdate DEF Looping

\* A prototype that is retained from here on.
LEMMA RetainKeepsUpdate ==
  ASSUME ContentInv, UpdateInv, at \in Looping, next <= Len(meshes), Mesh # None,
         at' = "mesh", next' = next + 1, UNCHANGED <<scene, meshes>>,
         NEW a, retained' = With(retained, Mesh, a), DOMAIN held' \subseteq DOMAIN held
  PROVE  UpdateInv'
<1>1. Mesh \in Wanted BY MeshIsWanted
<1>2. DOMAIN retained' = DOMAIN retained \union {Mesh} BY DEF With
<1>3. DOMAIN retained \subseteq Wanted BY DEF UpdateInv, MeshLoopInv
<1>4. MeshLoopInv' BY <1>1, <1>2, <1>3, PassKeepsLoop DEF UpdateInv
<1> QED BY <1>4, LoopKeepsUpdate DEF Looping

LEMMA KeepMeshKeepsUpdate ==
  ASSUME ContentInv, StructureInv, UpdateInv, KeepMesh, UNCHANGED <<scene, meshes>>
  PROVE  UpdateInv'
<1>1. Mesh # None BY DEF KeepMesh, StructureInv, MapsInv, Sound
<1>2. DOMAIN held' \subseteq DOMAIN held BY DEF KeepMesh, Only
<1> QED BY <1>1, <1>2, RetainKeepsUpdate DEF KeepMesh, AtMesh, Looping

LEMMA TakeMeshKeepsUpdate ==
  ASSUME ContentInv, StructureInv, UpdateInv, TakeMesh, UNCHANGED <<scene, meshes>>
  PROVE  UpdateInv'
<1>1. PICK c \in Deformable(Mesh) :
           taken' = held[c] /\ held' = Only(held, DOMAIN held \ {c})
  BY DEF TakeMesh
<1>2. /\ at = "mesh" /\ at' = "refit" /\ next' = next /\ next <= Len(meshes)
      /\ Novel(Mesh) /\ memory' = memory /\ retained' = retained
  BY DEF TakeMesh, AtMesh
<1>3. c \in DOMAIN held BY <1>1 DEF Deformable, StructureInv
<1>4. memory'[taken'].of = c BY <1>1, <1>2, <1>3 DEF StructureInv, MapsInv, Sound
<1>5. Wants(c) /\ c # Mesh BY <1>2, <1>3 DEF UpdateInv, MeshLoopInv, Looping, Novel
<1>6. Mesh' = Mesh /\ Wanted' = Wanted BY <1>2 DEF Mesh, Wanted
<1>7. DOMAIN held' \subseteq DOMAIN held BY <1>1 DEF Only
<1>8. \A f : Wants(f)' <=> Wants(f) BY <1>6 DEF Wants, Topology
<1>9. MeshLoopInv'
  <2>1. \A f \in DOMAIN held' : Wants(f)'
    BY <1>2, <1>7, <1>8 DEF UpdateInv, MeshLoopInv, Looping
  <2>2. Wants(memory[taken].of)' BY <1>4, <1>5, <1>8
  <2>3. memory'[taken'].of # Mesh' BY <1>4, <1>5, <1>6
  <2> QED BY <1>2, <1>6, <2>1, <2>2, <2>3 DEF UpdateInv, MeshLoopInv, Looping
<1> QED BY <1>2, <1>9, LoopKeepsUpdate DEF Looping

LEMMA RefitKeepsUpdate ==
  ASSUME ContentInv, StructureInv, UpdateInv, Refit, UNCHANGED <<scene, meshes>>
  PROVE  UpdateInv'
<1>1. next <= Len(meshes) /\ Mesh # None BY DEF Refit, StructureInv, TakenInv, Novel
<1> QED BY <1>1, RetainKeepsUpdate DEF Refit, Looping

LEMMA DiscardKeepsUpdate ==
  ASSUME UpdateInv, Discard, UNCHANGED <<scene, meshes>>
  PROVE  UpdateInv'
<1>1. /\ at = "refit" /\ at' = "rebuild" /\ next' = next /\ held' = held
      /\ retained' = retained
  BY DEF Discard
<1>2. Wanted' = Wanted BY DEF Wanted
<1>3. \A f : Wants(f)' <=> Wants(f) BY <1>2 DEF Wants, Topology
<1>4. MeshLoopInv'
  <2>1. \A f \in DOMAIN held' : Wants(f)'
    BY <1>1, <1>3 DEF UpdateInv, MeshLoopInv, Looping
  <2> QED BY <1>1, <1>2, <2>1 DEF UpdateInv, MeshLoopInv, Looping
<1> QED BY <1>1, <1>4, LoopKeepsUpdate DEF Looping

LEMMA BuildMeshKeepsUpdate ==
  ASSUME ContentInv, UpdateInv, NEW u \in BOOLEAN, BuildMesh(u), UNCHANGED <<scene, meshes>>,
         at \in Looping, next <= Len(meshes), Novel(Mesh)
  PROVE  UpdateInv'
<1>1. PICK a \in Free : retained' = With(retained, Mesh, a) BY DEF BuildMesh
<1> QED BY <1>1, RetainKeepsUpdate DEF BuildMesh, Novel

LEMMA FinishMeshesKeepsUpdate ==
  ASSUME ContentInv, PoolInv, UpdateInv, FinishMeshes, UNCHANGED <<scene, meshes>>
  PROVE  UpdateInv'
<1>1. /\ at = "mesh" /\ at' = "cloud" /\ next' = 1 /\ held' = retained
      /\ next > Len(meshes)
  BY DEF FinishMeshes
<1>2. DOMAIN meshes \subseteq 1 .. next - 1 BY <1>1 DEF ContentInv
<1>3. \A k \in DOMAIN meshes' : meshes'[k] # None => meshes'[k] \in DOMAIN held'
  BY <1>1, <1>2 DEF UpdateInv, MeshLoopInv, Looping
<1>4. scene \in Scenes BY <1>1 DEF PoolInv, Rest
<1>5. Len(scene'.clouds) \in Nat BY <1>4, PrototypesAreTyped
<1> QED BY <1>1, <1>3, <1>5 DEF UpdateInv, MeshLoopInv, CloudLoopInv, FoundInv, PlacedInv,
          Looping, Drawn, AfterClouds, AfterMeshes

\* Passing the cloud at hand, once it is retained or nothing.
LEMMA PassCloudKeepsUpdate ==
  ASSUME ContentInv, PoolInv, UpdateInv, AtCloud, at' = "cloud", next' = next + 1,
         UNCHANGED <<scene, meshes, held>>,
         DOMAIN retainedClouds \subseteq DOMAIN retainedClouds',
         Cloud = None \/ Cloud \in DOMAIN retainedClouds'
  PROVE  UpdateInv'
<1>1. at = "cloud" /\ next <= Len(scene.clouds) /\ next \in Nat /\ next # 0
  BY DEF AtCloud, ContentInv
<1>2. Len(scene.clouds) \in Nat
  <2>1. scene \in Scenes BY <1>1 DEF PoolInv, Rest
  <2> QED BY <2>1, PrototypesAreTyped
<1>3. ASSUME NEW k \in 1 .. next, scene.clouds[k] # None
      PROVE  scene.clouds[k] \in DOMAIN retainedClouds'
  <2>1. CASE k = next BY <1>3, <2>1 DEF Cloud
  <2>2. CASE k # next
    <3>1. k \in 1 .. next - 1 BY <1>1, <2>2
    <3> QED BY <1>1, <1>3, <3>1 DEF UpdateInv, CloudLoopInv
  <2> QED BY <2>1, <2>2
<1>4. next' - 1 = next BY <1>1
<1>5. CloudLoopInv' BY <1>1, <1>3, <1>4 DEF CloudLoopInv
<1>6. FoundInv' BY <1>1 DEF UpdateInv, FoundInv, Drawn, AfterClouds, AfterMeshes
<1> QED BY <1>1, <1>5, <1>6 DEF UpdateInv, MeshLoopInv, PlacedInv, Looping, Drawn

LEMMA KeepCloudKeepsUpdate ==
  ASSUME ContentInv, PoolInv, UpdateInv, KeepCloud, UNCHANGED <<scene, meshes>>
  PROVE  UpdateInv'
<1>1. DOMAIN retainedClouds' = DOMAIN retainedClouds \union {Cloud} BY DEF KeepCloud, With
<1> QED BY <1>1, PassCloudKeepsUpdate DEF KeepCloud, AtCloud

LEMMA BuildCloudKeepsUpdate ==
  ASSUME ContentInv, PoolInv, UpdateInv, BuildCloud, UNCHANGED <<scene, meshes>>
  PROVE  UpdateInv'
<1>1. PICK a \in Free : retainedClouds' = With(retainedClouds, Cloud, a) BY DEF BuildCloud
<1>2. DOMAIN retainedClouds' = DOMAIN retainedClouds \union {Cloud} BY <1>1 DEF With
<1> QED BY <1>2, PassCloudKeepsUpdate DEF BuildCloud, NewCloud, AtCloud

LEMMA FinishCloudsKeepsUpdate ==
  ASSUME ContentInv, PoolInv, UpdateInv, FinishClouds, UNCHANGED <<scene, meshes>>
  PROVE  UpdateInv'
<1>1. /\ at = "cloud" /\ at' = "top" /\ clouds' = retainedClouds /\ held' = held
      /\ next > Len(scene.clouds)
  BY DEF FinishClouds
<1>2. scene \in Scenes BY <1>1 DEF PoolInv, Rest
<1>3. DOMAIN scene.clouds \subseteq 1 .. next - 1
  BY <1>1, <1>2, PrototypesAreTyped DEF ContentInv
<1>4. \A k \in DOMAIN scene.clouds : scene.clouds[k] # None => scene.clouds[k] \in DOMAIN clouds'
  BY <1>1, <1>3 DEF UpdateInv, CloudLoopInv
<1>5. FoundInv' BY <1>1, <1>4 DEF UpdateInv, FoundInv, Drawn, AfterClouds, AfterMeshes
<1> QED BY <1>1, <1>5 DEF UpdateInv, MeshLoopInv, CloudLoopInv, PlacedInv, Looping, Drawn

\* Where the placements are, for a scene and maps that stay.
LEMMA PlacementsStay ==
  ASSUME UNCHANGED <<scene, meshes, held, clouds>>
  PROVE  /\ Instances' = Instances /\ Count' = Count
         /\ [index \in 1 .. Count |-> Placed(index)]' = [index \in 1 .. Count |-> Placed(index)]
<1>1. \A p : Blas(p)' = Blas(p) BY DEF Blas
<1>2. \A p : SplatBlas(p)' = SplatBlas(p) BY DEF SplatBlas
<1>3. Count' = Count BY DEF Count
<1>4. \A index : Placed(index)' = Placed(index) BY <1>1, <1>2 DEF Placed
<1>5. \A k : SplatIndex(k)' = SplatIndex(k) BY DEF SplatIndex
<1>6. Instances' = Instances BY <1>1, <1>2, <1>5 DEF Instances
<1> QED BY <1>3, <1>4, <1>6

LEMMA BuildTopKeepsUpdate ==
  ASSUME PoolInv, UpdateInv, BuildTop, UNCHANGED <<scene, meshes>>
  PROVE  UpdateInv'
<1>1. /\ at = "top" /\ at' = "table" /\ UNCHANGED <<held, clouds>> /\ top' = Instances
      /\ scene \in Scenes
  BY DEF BuildTop, Instances, PoolInv, Rest
<1>2. PlacedInv' BY <1>1, PlacementsStay DEF PlacedInv
<1>3. FoundInv' BY <1>1 DEF UpdateInv, FoundInv, Drawn, AfterClouds, AfterMeshes
<1> QED BY <1>1, <1>2, <1>3 DEF UpdateInv, MeshLoopInv, CloudLoopInv, Looping

LEMMA FillTableKeepsUpdate ==
  ASSUME UpdateInv, FillTable, UNCHANGED <<scene, meshes>>
  PROVE  UpdateInv'
<1>1. /\ at = "table" /\ at' = "dome" /\ UNCHANGED <<held, clouds, top>>
      /\ Count = 0 \/ table' = [index \in 1 .. Count |-> Placed(index)]
  BY DEF FillTable
<1>2. scene \in Scenes /\ top = Instances BY <1>1 DEF UpdateInv, PlacedInv, Drawn
<1>3. PlacedInv' BY <1>1, <1>2, PlacementsStay DEF PlacedInv
<1>4. FoundInv' BY <1>1 DEF UpdateInv, FoundInv, Drawn, AfterClouds, AfterMeshes
<1> QED BY <1>1, <1>3, <1>4 DEF UpdateInv, MeshLoopInv, CloudLoopInv, Looping

LEMMA AcceleratorStepKeepsUpdate ==
  ASSUME PoolInv, ContentInv, StructureInv, RestInv, UpdateInv, AcceleratorStep
  PROVE  UpdateInv'
<1> UNCHANGED <<scene, meshes>>
  BY AcceleratorLeavesResources DEF resources, displacement
<1> USE DEF Looping
<1>1. CASE Release BY <1>1, ReleaseKeepsUpdate
<1>2. CASE ShareMesh BY <1>2, ShareMeshKeepsUpdate
<1>3. CASE KeepMesh BY <1>3, KeepMeshKeepsUpdate
<1>4. CASE TakeMesh BY <1>4, TakeMeshKeepsUpdate
<1>5. CASE Refit BY <1>5, RefitKeepsUpdate
<1>6. CASE Discard BY <1>6, DiscardKeepsUpdate
<1>7. CASE Rebuild BY <1>7, BuildMeshKeepsUpdate DEF Rebuild, StructureInv, TakenInv
<1>8. CASE Build BY <1>8, BuildMeshKeepsUpdate DEF Build, NewMesh, AtMesh
<1>9. CASE FinishMeshes BY <1>9, FinishMeshesKeepsUpdate
<1>10. CASE ShareCloud
  BY <1>10, PassCloudKeepsUpdate DEF ShareCloud, AtCloud, accelerator
<1>11. CASE KeepCloud BY <1>11, KeepCloudKeepsUpdate
<1>12. CASE BuildCloud BY <1>12, BuildCloudKeepsUpdate
<1>13. CASE FinishClouds BY <1>13, FinishCloudsKeepsUpdate
<1>14. CASE BuildTop BY <1>14, BuildTopKeepsUpdate
<1>15. CASE FillTable BY <1>15, FillTableKeepsUpdate
<1> QED BY <1>1, <1>2, <1>3, <1>4, <1>5, <1>6, <1>7, <1>8, <1>9, <1>10, <1>11, <1>12,
           <1>13, <1>14, <1>15 DEF AcceleratorStep

\* After the table nothing of the structures, the prototypes or the scene changes.
LEMMA LateKeepsUpdate ==
  ASSUME UpdateInv, at \in Drawn \ {"table"}, at' \in Drawn \ {"table"},
         UNCHANGED <<scene, meshes, accelerator>>
  PROVE  UpdateInv'
<1>1. UNCHANGED <<held, clouds, top, table>> BY DEF accelerator
<1>2. PlacedInv'
  <2>1. /\ scene \in Scenes /\ top = Instances
        /\ Count = 0 \/ table = [index \in 1 .. Count |-> Placed(index)]
    BY DEF UpdateInv, PlacedInv
  <2> QED BY <1>1, <2>1, PlacementsStay DEF PlacedInv
<1>3. FoundInv' BY <1>1 DEF UpdateInv, FoundInv, AfterClouds, AfterMeshes
<1> QED BY <1>2, <1>3 DEF UpdateInv, MeshLoopInv, CloudLoopInv, Looping, Drawn

LEMMA ResourceStepKeepsUpdate ==
  ASSUME UpdateInv, ResourceStep, UNCHANGED accelerator
  PROVE  UpdateInv'
<1> USE DEF displacement, Looping, Drawn, AfterClouds, AfterMeshes
<1>1. CASE Extend BY <1>1, ElsewhereKeepsUpdate DEF Extend
<1>2. CASE Shadow BY <1>2, ElsewhereKeepsUpdate DEF Shadow
<1>3. CASE KeepSlot BY <1>3, ElsewhereKeepsUpdate DEF KeepSlot
<1>4. CASE UploadSlot BY <1>4, ElsewhereKeepsUpdate DEF UploadSlot
<1>5. CASE FinishTextures BY <1>5, ElsewhereKeepsUpdate DEF FinishTextures
<1>6. CASE SkipDisplacement BY <1>6, ElsewhereKeepsUpdate DEF SkipDisplacement
<1>7. CASE LeavePlain BY <1>7, ElsewhereKeepsUpdate DEF LeavePlain, Displacing
<1>8. CASE ReuseDisplaced BY <1>8, ElsewhereKeepsUpdate DEF ReuseDisplaced, Displacing
<1>9. CASE DispatchDisplacement
  BY <1>9, ElsewhereKeepsUpdate DEF DispatchDisplacement, Dispatches, Displacing
<1>10. CASE FinishDisplacement BY <1>10, ElsewhereKeepsUpdate DEF FinishDisplacement
<1>11. CASE CompareDome BY <1>11, LateKeepsUpdate DEF CompareDome
<1>12. CASE UploadDome BY <1>12, LateKeepsUpdate DEF UploadDome
<1>13. CASE AllocateDistribution BY <1>13, LateKeepsUpdate DEF AllocateDistribution
<1>14. CASE CopyDistribution BY <1>14, LateKeepsUpdate DEF CopyDistribution
<1>15. CASE Shade BY <1>15, LateKeepsUpdate DEF Shade
<1> QED BY <1>1, <1>2, <1>3, <1>4, <1>5, <1>6, <1>7, <1>8, <1>9, <1>10, <1>11, <1>12,
           <1>13, <1>14, <1>15 DEF ResourceStep

LEMMA NextKeepsUpdate ==
  ASSUME PoolInv, ContentInv, StructureInv, RestInv, UpdateInv, [Next]_vars
  PROVE  UpdateInv'
<1>1. CASE \E s \in Scenes : Publish(s) /\ UNCHANGED accelerator
  BY <1>1, ElsewhereKeepsUpdate DEF Publish, Looping, Drawn, AfterClouds, AfterMeshes
<1>2. CASE ResourceStep /\ UNCHANGED accelerator BY <1>2, ResourceStepKeepsUpdate
<1>3. CASE AcceleratorStep BY <1>3, AcceleratorStepKeepsUpdate
<1>4. CASE Throw
  BY <1>4, ElsewhereKeepsUpdate
     DEF Throw, AbandonResources, Looping, Drawn, AfterClouds, AfterMeshes
<1>5. CASE UNCHANGED vars
  <2>1. /\ UNCHANGED <<at, next, scene, meshes, memory, held, retained, taken, clouds,
                       retainedClouds, top, table>>
        /\ Mesh' = Mesh /\ Wanted' = Wanted
    BY <1>5 DEF vars, resources, displacement, accelerator, Mesh, Wanted
  <2>2. \A f : Wants(f)' <=> Wants(f) BY <2>1 DEF Wants, Topology
  <2>3. MeshLoopInv' BY <2>1, <2>2 DEF UpdateInv, MeshLoopInv
  <2>4. PlacedInv' BY <2>1, PlacementsStay DEF UpdateInv, PlacedInv
  <2> QED BY <2>1, <2>3, <2>4 DEF UpdateInv, CloudLoopInv, FoundInv
<1> QED BY <1>1, <1>2, <1>3, <1>4, <1>5 DEF Next, Step

LEMMA OnlyThisSceneInit == Init => OnlyThisScene
BY DEF Init, ResourcesInit, OnlyThisScene

LEMMA NextKeepsOnlyThisScene ==
  ASSUME PoolInv, ContentInv, RestInv, UpdateInv, OnlyThisScene, [Next]_vars
  PROVE  OnlyThisScene'
<1>1. CASE at' \notin {"cloud", "top"} BY <1>1 DEF OnlyThisScene
<1>2. CASE at' \in {"cloud", "top"} /\ AcceleratorStep
  <2>1. Wanted' = Wanted /\ scene' = scene
    BY <1>2, AcceleratorLeavesResources DEF resources, displacement, Wanted
  <2>2. CASE FinishMeshes
    <3>1. at = "mesh" /\ at' = "cloud" /\ held' = retained /\ UNCHANGED retainedClouds
          /\ DOMAIN clouds' \subseteq Image(scene.clouds)
      BY <2>2 DEF FinishMeshes, Only, Image
    <3>2. DOMAIN retained \subseteq Wanted BY <3>1 DEF UpdateInv, MeshLoopInv, Looping
    <3>3. DOMAIN retainedClouds = {} BY <3>1 DEF RestInv, LocalsInv, Empty
    <3> QED BY <2>1, <3>1, <3>2, <3>3 DEF OnlyThisScene
  <2>3. CASE ShareCloud
    BY <2>1, <2>3 DEF ShareCloud, AtCloud, accelerator, OnlyThisScene
  <2>4. ASSUME AtCloud, at' = "cloud", UNCHANGED held, DOMAIN clouds' \subseteq DOMAIN clouds,
               DOMAIN retainedClouds' = DOMAIN retainedClouds \union {Cloud}
        PROVE  OnlyThisScene'
    <3>1. scene \in Scenes BY <2>4 DEF AtCloud, PoolInv, Rest
    <3>2. next \in DOMAIN scene.clouds
      BY <2>4, <3>1, PrototypesAreTyped DEF AtCloud, ContentInv
    <3>3. Cloud \in Image(scene.clouds) BY <3>2 DEF Cloud, Image
    <3> QED BY <2>1, <2>4, <3>3 DEF AtCloud, OnlyThisScene
  <2>5. CASE KeepCloud BY <2>4, <2>5 DEF KeepCloud, AtCloud, With, Only
  <2>6. CASE BuildCloud
    <3>1. PICK a \in Free : retainedClouds' = With(retainedClouds, Cloud, a)
      BY <2>6 DEF BuildCloud
    <3> QED BY <2>4, <2>6, <3>1 DEF BuildCloud, NewCloud, AtCloud, With
  <2>7. CASE FinishClouds BY <2>1, <2>7 DEF FinishClouds, OnlyThisScene
  <2> QED
    BY <1>2, <2>2, <2>3, <2>5, <2>6, <2>7
       DEF AcceleratorStep, Release, ShareMesh, KeepMesh, TakeMesh, Refit, Discard, Rebuild, Build,
           BuildMesh, NewMesh, AtMesh, BuildTop, FillTable
<1>3. CASE at' \in {"cloud", "top"} /\ ResourceStep
  BY <1>3 DEF ResourceStep, Extend, Shadow, KeepSlot, UploadSlot, FinishTextures,
              SkipDisplacement, LeavePlain, ReuseDisplaced, DispatchDisplacement, Dispatches,
              Displacing, FinishDisplacement, CompareDome, UploadDome, AllocateDistribution,
              CopyDistribution, Shade
<1>4. CASE UNCHANGED vars
  BY <1>4 DEF vars, resources, displacement, accelerator, OnlyThisScene, Wanted
<1>5. (\E s \in Scenes : Publish(s)) \/ Throw => at' \notin {"cloud", "top"}
  BY DEF Publish, Throw, AbandonResources
<1> QED BY <1>1, <1>2, <1>3, <1>4, <1>5 DEF Next, Step

AcceleratorInv ==
  PoolInv /\ ContentInv /\ StructureInv /\ OwnedInv /\ RestInv /\ UpdateInv /\ OnlyThisScene

LEMMA AcceleratorInvInit == Init => AcceleratorInv
BY PoolInit, ContentInit, StructureInit, OwnedInit, RestInit, UpdateInit, OnlyThisSceneInit
   DEF AcceleratorInv

LEMMA NextKeepsAccelerator ==
  ASSUME AcceleratorInv, [Next]_vars
  PROVE  AcceleratorInv'
BY NextKeepsPool, NextKeepsContent, NextKeepsStructures, NextKeepsOwned, NextKeepsRest,
   NextKeepsUpdate, NextKeepsOnlyThisScene DEF AcceleratorInv

\* What is on the device during the mesh loop is owned by a map, or by the refit: a
\* map of meshes and the refit say that it is wanted, and of the clouds' maps only the
\* last publication's has anything.
LEMMA BesideMeshes ==
  ASSUME AcceleratorInv, at \in Looping, NEW a \in Addresses, memory[a].of # None
  PROVE  IF memory[a].of \in Clouds THEN memory[a].of \in DOMAIN clouds ELSE Wants(memory[a].of)
<1> USE DEF AcceleratorInv, StructureInv, MapsInv
<1>1. Owned(a) BY DEF OwnedInv
<1>2. CASE Owns(held, a)
  <2>1. Wants(memory[a].of) BY <1>2 DEF Owns, UpdateInv, MeshLoopInv
  <2> QED BY <1>2, <2>1, CloudsAreApart DEF Owns
<1>3. CASE Owns(retained, a)
  <2>1. memory[a].of \in Wanted BY <1>3 DEF Owns, UpdateInv, MeshLoopInv
  <2> QED BY <1>3, <2>1, CloudsAreApart DEF Owns, Wants
<1>4. CASE Owns(clouds, a) BY <1>4 DEF Owns
<1>5. CASE Owns(retainedClouds, a) BY <1>5 DEF Owns, RestInv, LocalsInv, Looping, Empty
<1>6. CASE taken = a
  <2>1. at = "refit" BY <1>6, NoneIsNowhere DEF TakenInv
  <2>2. Wants(memory[a].of) BY <1>6, <2>1 DEF UpdateInv, MeshLoopInv
  <2> QED BY <1>6, <2>1, <2>2, CloudsAreApart DEF TakenInv
<1> QED BY <1>1, <1>2, <1>3, <1>4, <1>5, <1>6 DEF Owned

LEMMA BesideClouds ==
  ASSUME AcceleratorInv, at \in {"cloud", "top"}, NEW a \in Addresses, memory[a].of # None
  PROVE  memory[a].of \in Wanted \union Image(scene.clouds)
<1> USE DEF AcceleratorInv, StructureInv
<1>1. Owned(a) BY DEF OwnedInv
<1>2. ~Owns(retained, a) BY DEF Owns, RestInv, LocalsInv, Empty
<1>3. taken # a BY NoneIsNowhere DEF TakenInv
<1>4. at = "top" => ~Owns(retainedClouds, a) BY DEF Owns, RestInv, LocalsInv, Empty
<1> QED BY <1>1, <1>2, <1>3, <1>4 DEF Owned, Owns, OnlyThisScene

LEMMA BuildsBeside ==
  ASSUME AcceleratorInv
  PROVE  BuildsBesideWantedOnly
<1>1. ASSUME at \in Looping, NEW f \in Stored \ {None}
      PROVE  IF f \in Clouds THEN f \in DOMAIN clouds ELSE Wants(f)
  BY <1>1, BesideMeshes DEF Stored
<1>2. at \in {"cloud", "top"} => Stored \ {None} \subseteq Wanted \union Image(scene.clouds)
  BY BesideClouds DEF Stored
<1> QED BY <1>1, <1>2 DEF BuildsBesideWantedOnly, Wants, Looping

\* A scene that gave way and its successor are not on the device together but for its
\* clouds: during the mesh loop a mesh there shares its topology with what is wanted and
\* a cloud is the last publication's, and past it all there is is this scene's, for any
\* scenes and any memory (SceneAccelerator::Update).
THEOREM ReleasedBeforeBuilt == Spec => []BuildsBesideWantedOnly
<1>1. AcceleratorInv => BuildsBesideWantedOnly BY BuildsBeside
<1> QED BY AcceleratorInvInit, NextKeepsAccelerator, <1>1, PTL DEF Spec

-----------------------------------------------------------------------------
(* Hits.                                                                    *)

\* Past its loop a prototype has a structure exactly when it has geometry, and it is
\* over that geometry.
LEMMA BlasIsOfTheMesh ==
  ASSUME MapsInv, FoundInv, at = "published", NEW p
  PROVE  /\ Blas(p) # None => /\ p \in DOMAIN meshes /\ meshes[p] # None
                              /\ memory[Blas(p)].of = meshes[p]
         /\ p \in DOMAIN meshes /\ meshes[p] # None => Blas(p) # None
BY NoneIsNowhere DEF Blas, MapsInv, Sound, FoundInv, AfterMeshes, AfterClouds, Drawn

LEMMA SplatBlasIsOfTheCloud ==
  ASSUME MapsInv, FoundInv, at = "published", NEW p
  PROVE  /\ SplatBlas(p) # None => /\ p \in DOMAIN scene.clouds /\ scene.clouds[p] # None
                                   /\ memory[SplatBlas(p)].of = scene.clouds[p]
         /\ p \in DOMAIN scene.clouds /\ scene.clouds[p] # None => SplatBlas(p) # None
BY NoneIsNowhere DEF SplatBlas, MapsInv, Sound, FoundInv, AfterClouds, Drawn

\* So has a placement, under its number.
LEMMA PlacedIsItsContent ==
  ASSUME MapsInv, FoundInv, at = "published", NEW index
  PROVE  /\ Placed(index) # None => memory[Placed(index)].of = Content(index)
         /\ Content(index) # None => Placed(index) # None
<1>1. CASE index <= Len(scene.placements)
  <2> DEFINE p == scene.placements[index]
  <2>1. Placed(index) = Blas(p) BY <1>1 DEF Placed
  <2>2. Content(index) = IF p \in DOMAIN meshes THEN meshes[p] ELSE None BY <1>1 DEF Content
  <2> HIDE DEF p
  <2> QED BY <2>1, <2>2, BlasIsOfTheMesh
<1>2. CASE ~(index <= Len(scene.placements))
  <2> DEFINE p == scene.splats[index - Len(scene.placements)]
  <2>1. Placed(index) = SplatBlas(p) BY <1>2 DEF Placed
  <2>2. Content(index) = IF p \in DOMAIN scene.clouds THEN scene.clouds[p] ELSE None
    BY <1>2 DEF Content
  <2> HIDE DEF p
  <2> QED BY <2>1, <2>2, SplatBlasIsOfTheCloud
<1> QED BY <1>1, <1>2

\* The instances are the numbered placements that have a structure.
LEMMA InstancesAreNumbered ==
  ASSUME scene \in Scenes
  PROVE  /\ Count \in Nat
         /\ \A e \in Instances :
              /\ e.index \in 1 .. Count
              /\ Placed(e.index) # None
              /\ e = [index |-> e.index, structure |-> Placed(e.index)]
         /\ \A index \in 1 .. Count :
              Placed(index) # None => [index |-> index, structure |-> Placed(index)] \in Instances
<1> DEFINE n == Len(scene.placements)
           k == Len(scene.splats)
<1>1. /\ n \in Nat /\ k \in Nat
      /\ DOMAIN scene.placements = 1 .. n /\ DOMAIN scene.splats = 1 .. k
  BY SceneIsTyped
<1>2. Count = n + k BY DEF Count
<1>3. \A j \in 1 .. n : Placed(j) = Blas(scene.placements[j]) BY <1>1 DEF Placed
<1>4. \A j \in 1 .. k : /\ SplatIndex(j) = n + j
                        /\ Placed(n + j) = SplatBlas(scene.splats[j])
  BY <1>1 DEF Placed, SplatIndex
<1> HIDE DEF n, k
<1>5. ASSUME NEW e \in Instances
      PROVE  /\ e.index \in 1 .. Count
             /\ Placed(e.index) # None
             /\ e = [index |-> e.index, structure |-> Placed(e.index)]
  <2>1. CASE \E j \in 1 .. n : /\ Blas(scene.placements[j]) # None
                               /\ e = [index |-> j, structure |-> Blas(scene.placements[j])]
    <3> PICK j \in 1 .. n : /\ Blas(scene.placements[j]) # None
                            /\ e = [index |-> j, structure |-> Blas(scene.placements[j])]
      BY <2>1
    <3>1. e.index = j /\ j \in 1 .. Count BY <1>1, <1>2
    <3> QED BY <1>3, <3>1
  <2>2. CASE \E j \in 1 .. k :
               /\ SplatBlas(scene.splats[j]) # None
               /\ e = [index |-> SplatIndex(j), structure |-> SplatBlas(scene.splats[j])]
    <3> PICK j \in 1 .. k :
               /\ SplatBlas(scene.splats[j]) # None
               /\ e = [index |-> SplatIndex(j), structure |-> SplatBlas(scene.splats[j])]
      BY <2>2
    <3>1. e.index = n + j /\ n + j \in 1 .. Count BY <1>1, <1>2, <1>4
    <3> QED BY <1>4, <3>1
  <2> QED BY <1>1, <2>1, <2>2 DEF Instances
<1>6. ASSUME NEW index \in 1 .. Count, Placed(index) # None
      PROVE  [index |-> index, structure |-> Placed(index)] \in Instances
  <2>1. CASE index <= n
    <3>1. index \in 1 .. n BY <1>1, <1>2, <2>1
    <3> QED BY <1>1, <1>3, <1>6, <3>1 DEF Instances
  <2>2. CASE ~(index <= n)
    <3> DEFINE j == index - n
    <3>1. j \in 1 .. k /\ index = n + j BY <1>1, <1>2, <2>2
    <3> HIDE DEF j
    <3>2. /\ SplatIndex(j) = index /\ Placed(index) = SplatBlas(scene.splats[j])
      BY <1>4, <3>1
    <3> QED BY <1>1, <1>6, <3>1, <3>2 DEF Instances
  <2> QED BY <2>1, <2>2
<1>7. Count \in Nat BY <1>1, <1>2
<1> QED BY <1>5, <1>6, <1>7

LEMMA HitsAreFound ==
  ASSUME AcceleratorInv
  PROVE  HitFindsItsGeometry
<1> SUFFICES ASSUME at = "published"
             PROVE  /\ \A e \in top :
                         /\ e.index \in DOMAIN table
                         /\ table[e.index] = e.structure
                         /\ memory[e.structure].of = Content(e.index)
                    /\ \A index \in 1 .. Count :
                         Content(index) # None => Cardinality({e \in top : e.index = index}) = 1
  BY DEF HitFindsItsGeometry
<1>1. MapsInv /\ FoundInv BY DEF AcceleratorInv, StructureInv, UpdateInv
<1>2. /\ scene \in Scenes /\ top = Instances
      /\ Count = 0 \/ table = [index \in 1 .. Count |-> Placed(index)]
  BY DEF AcceleratorInv, UpdateInv, PlacedInv, Drawn
<1>3. ASSUME NEW e \in top
      PROVE  /\ e.index \in DOMAIN table
             /\ table[e.index] = e.structure
             /\ memory[e.structure].of = Content(e.index)
  <2>1. /\ Count \in Nat /\ e.index \in 1 .. Count /\ Placed(e.index) # None
        /\ e.structure = Placed(e.index)
    BY <1>2, <1>3, InstancesAreNumbered
  <2>2. table = [index \in 1 .. Count |-> Placed(index)] BY <1>2, <2>1
  <2>3. memory[Placed(e.index)].of = Content(e.index) BY <1>1, <2>1, PlacedIsItsContent
  <2> QED BY <2>1, <2>2, <2>3
<1>4. ASSUME NEW index \in 1 .. Count, Content(index) # None
      PROVE  Cardinality({e \in top : e.index = index}) = 1
  <2> DEFINE e0 == [index |-> index, structure |-> Placed(index)]
             S == {e \in top : e.index = index}
  <2>1. Placed(index) # None BY <1>1, <1>4, PlacedIsItsContent
  <2>2. e0 \in S BY <1>2, <2>1, InstancesAreNumbered
  <2>3. \A e \in S : e = e0 BY <1>2, InstancesAreNumbered
  <2> HIDE DEF e0, S
  <2>4. S = {e0} BY <2>2, <2>3
  <2>5. Cardinality(S) = 1 BY <2>4, FS_Singleton
  <2> QED BY <2>5 DEF S
<1> QED BY <1>3, <1>4

\* A ray that hits an instance finds that placement's geometry under its custom index,
\* and every placement with geometry is drawn once, whichever others have none, for any
\* scenes, any memory and throws anywhere (SceneAccelerator::Update, UploadGeometry).
THEOREM HitsFindTheirGeometry == Spec => []HitFindsItsGeometry
<1>1. AcceleratorInv => HitFindsItsGeometry BY HitsAreFound
<1> QED BY AcceleratorInvInit, NextKeepsAccelerator, <1>1, PTL DEF Spec

-----------------------------------------------------------------------------
(* A publication of what is held.                                           *)

\* What is wanted is a content, and what is wanted and on the device is a map's, or is
\* what a refit took.
LEMMA StoredIsOwned ==
  ASSUME AcceleratorInv, NEW f \in Wanted, Wanted \subseteq Stored
  PROVE  /\ f \in Contents /\ f # None /\ f \notin Clouds
         /\ f \in DOMAIN held \union DOMAIN retained \/ (at = "refit" /\ memory[taken].of = f)
<1> USE DEF AcceleratorInv, StructureInv, MapsInv
<1>1. f \in Contents /\ f # None BY DEF Wanted, ContentInv
<1>2. f \notin Clouds BY <1>1, CloudsAreApart
<1>3. PICK a \in Addresses : memory[a].of = f BY DEF Stored
<1>4. Owned(a) BY <1>1, <1>3 DEF OwnedInv
<1>5. taken = a => at = "refit" BY NoneIsNowhere DEF TakenInv
<1> QED BY <1>1, <1>2, <1>3, <1>4, <1>5 DEF Owned, Owns

\* So nothing is refitted or built, and what is freed is not wanted.
LEMMA HeldIsLeftAlone ==
  ASSUME AcceleratorInv, Wanted \subseteq Stored, at \in Updating, [Next]_vars
  PROVE  LeavesWanted
<1> SUFFICES ASSUME at' # "failed", NEW a \in Addresses, memory[a].of \in Wanted
             PROVE  memory'[a] = memory[a]
  BY DEF LeavesWanted
<1> USE DEF AcceleratorInv, StructureInv, MapsInv
<1>1. ASSUME at \in Looping, next <= Len(meshes) PROVE ~Novel(Mesh)
  <2>1. CASE Mesh = None BY <2>1 DEF Novel
  <2>2. CASE Mesh # None
    <3>1. Mesh \in Wanted BY <1>1, <2>2, MeshIsWanted
    <3>2. ~(at = "refit" /\ memory[taken].of = Mesh) BY DEF UpdateInv, MeshLoopInv, Looping
    <3> QED BY <3>1, <3>2, StoredIsOwned DEF Novel
  <2> QED BY <2>1, <2>2
<1>2. at \notin {"refit", "rebuild"} BY <1>1 DEF TakenInv, Looping
<1>3. ~NewMesh BY <1>1 DEF NewMesh, AtMesh, Looping
<1>4. memory[a].of \in Contents \ (Clouds \union {None}) BY StoredIsOwned
<1>5. CASE Release
  <2>1. a \notin {held[f] : f \in DOMAIN held \ Kept} BY DEF Kept, Sound
  <2> QED BY <1>5, <2>1 DEF Release, Freed
<1>6. CASE FinishMeshes
  <2>1. DOMAIN meshes \subseteq 1 .. next - 1 BY <1>6 DEF FinishMeshes, ContentInv
  <2>2. memory[a].of \in DOMAIN retained
    BY <1>6, <2>1 DEF FinishMeshes, UpdateInv, MeshLoopInv, Looping, Wanted
  <2>3. a \notin Leftover BY <2>2 DEF Leftover, Image, Sound
  <2>4. \A c \in DOMAIN clouds : clouds[c] # a BY <1>4 DEF Sound
  <2> QED BY <1>6, <2>3, <2>4 DEF FinishMeshes, Freed
<1>7. CASE UNCHANGED memory BY <1>7
<1>8. CASE AcceleratorStep
  <2>1. ShareMesh => UNCHANGED memory BY DEF ShareMesh, accelerator
  <2>2. KeepMesh => UNCHANGED memory BY DEF KeepMesh
  <2>3. TakeMesh => UNCHANGED memory BY DEF TakeMesh
  <2>4. ~Refit /\ ~Discard /\ ~Rebuild /\ ~Build BY <1>2, <1>3 DEF Refit, Discard, Rebuild, Build
  <2>5. ~ShareCloud /\ ~KeepCloud /\ ~BuildCloud /\ ~FinishClouds /\ ~BuildTop /\ ~FillTable
    BY DEF Updating, ShareCloud, KeepCloud, BuildCloud, NewCloud, AtCloud, FinishClouds,
           BuildTop, FillTable
  <2> QED BY <1>5, <1>6, <1>7, <1>8, <2>1, <2>2, <2>3, <2>4, <2>5 DEF AcceleratorStep
<1>9. CASE Throw BY <1>9 DEF Throw, AbandonResources
<1> QED BY <1>7, <1>8, <1>9 DEF Next, Step, accelerator, vars

\* A publication of geometries that are all on the device, in whatever order, builds,
\* refits and releases none of them (SceneAccelerator::Update).
THEOREM ReorderIsFree == Spec => ReorderBuildsNothing
<1>1. AcceleratorInv /\ [Next]_vars => [Wanted \subseteq Stored /\ at \in Updating => LeavesWanted]_vars
  BY HeldIsLeftAlone
<1> QED BY AcceleratorInvInit, NextKeepsAccelerator, <1>1, PTL DEF Spec, ReorderBuildsNothing

-----------------------------------------------------------------------------
(* What is traced where a prototype was.                                    *)

\* Where a publication still has the argument it was called with.
Given == Accelerating \union {"dome", "domeUpload", "distribution", "copy", "shade", "published"}

\* What may stand in a prototype's place, but for the texels a displacement read.
AsAsked(content, p) ==
  \/ content = Plain(p)
  \/ /\ Displaceable(p)
     /\ content \in Contents
     /\ content.mesh = p.mesh /\ content.program = ProgramOf[Displacer(p)]

\* Positions kept under a key are that mesh's, by that program.
Keyed(f) == \A key \in DOMAIN f : f[key].mesh = key.mesh /\ f[key].program = key.program

DisplacedInv ==
  /\ Keyed(displaced) /\ Keyed(used)
  /\ at \in Earlier \union {"textures"} => meshes = <<>>
  /\ at = "displace" =>
       /\ Len(meshes) = next - 1
       /\ \A k \in 1 .. next - 1 : AsAsked(meshes[k], scene.prototypes[k])
  /\ at \in Given =>
       \A k \in DOMAIN scene.prototypes : AsAsked(meshes[k], scene.prototypes[k])

LEMMA DisplacedInit == Init => DisplacedInv
BY DEF Init, ResourcesInit, DisplacedInv, Keyed, Empty, Earlier, Given, Accelerating

\* What a scene asks for is the scene's.
LEMMA AsAskedStays ==
  ASSUME UNCHANGED scene
  PROVE  \A content, p : AsAsked(content, p)' <=> AsAsked(content, p)
<1>1. \A p : Asked(p)' = Asked(p) BY DEF Asked
<1>2. \A p : Displacer(p)' = Displacer(p) BY <1>1 DEF Displacer
<1>3. \A p : Displaceable(p)' <=> Displaceable(p) BY <1>1 DEF Displaceable
<1>4. \A p : Plain(p)' = Plain(p) BY DEF Plain
<1> QED BY <1>2, <1>3, <1>4 DEF AsAsked

\* After the displacement, until the scene is gone.
LEMMA LaterKeepsDisplaced ==
  ASSUME DisplacedInv, at \in Given, at' \in Given, UNCHANGED <<scene, displaced, used, meshes>>
  PROVE  DisplacedInv'
BY AsAskedStays DEF DisplacedInv, Keyed, Given, Accelerating, Earlier

\* One more prototype of the displacement loop.
LEMMA DisplaceOneKeepsDisplaced ==
  ASSUME ContentInv, DisplacedInv, at = "displace", at' = "displace", next' = next + 1,
         UNCHANGED <<scene, displaced>>, Keyed(used'),
         NEW content, Displaced(content), AsAsked(content, Current)
  PROVE  DisplacedInv'
<1>1. next \in Nat \ {0} /\ Len(meshes) = next - 1 /\ meshes \in Seq(Contents \union {None})
  BY DEF ContentInv, DisplacedInv
<1>2. meshes' = Append(meshes, content) /\ Len(meshes') = next
  BY <1>1 DEF Displaced
<1>3. ASSUME NEW k \in 1 .. next
      PROVE  AsAsked(meshes'[k], scene.prototypes[k])
  <2>1. CASE k = next
    <3>1. meshes'[k] = content BY <1>1, <1>2, <2>1
    <3> QED BY <2>1, <3>1 DEF Current
  <2>2. CASE k # next
    <3>1. k \in 1 .. next - 1 BY <1>1, <2>2
    <3>2. meshes'[k] = meshes[k] BY <1>1, <1>2, <3>1
    <3> QED BY <3>1, <3>2 DEF DisplacedInv
  <2> QED BY <2>1, <2>2
<1>4. next' - 1 = next BY <1>1
<1>5. (\A k \in 1 .. next - 1 : AsAsked(meshes[k], scene.prototypes[k]))'
  BY <1>3, <1>4, AsAskedStays
<1>6. Keyed(displaced') BY DEF DisplacedInv
<1> QED BY <1>2, <1>4, <1>5, <1>6 DEF DisplacedInv, Keyed, Earlier, Given, Accelerating

LEMMA SkipKeepsDisplaced ==
  ASSUME PoolInv, DisplacedInv, SkipDisplacement
  PROVE  DisplacedInv'
<1>1. at' = "release" /\ UNCHANGED <<scene, used>> /\ DOMAIN displaced' = {}
  BY DEF SkipDisplacement, Empty
<1>2. meshes' = [k \in DOMAIN scene.prototypes |-> Plain(scene.prototypes[k])]
  BY DEF SkipDisplacement
<1>3. \A k \in DOMAIN scene.prototypes : AsAsked(meshes'[k], scene.prototypes[k])
  BY <1>2 DEF AsAsked
<1> QED BY <1>1, <1>3, AsAskedStays DEF DisplacedInv, Keyed, Given, Accelerating, Earlier

LEMMA ReuseKeepsDisplaced ==
  ASSUME PoolInv, ContentInv, DisplacedInv, ReuseDisplaced
  PROVE  DisplacedInv'
<1> DEFINE key == Key(Current)
           content == displaced[key]
<1>1. key \in DOMAIN displaced /\ Displaceable(Current) BY DEF ReuseDisplaced
<1>2. content.mesh = key.mesh /\ content.program = key.program
  BY <1>1 DEF DisplacedInv, Keyed
<1>3. content \in Contents BY <1>1 DEF ContentInv, Image
<1>4. AsAsked(content, Current) BY <1>1, <1>2, <1>3 DEF AsAsked, Key
<1>5. used' = With(used, key, content) BY DEF ReuseDisplaced
<1> HIDE DEF key
<1>6. Keyed(used') BY <1>2, <1>5 DEF DisplacedInv, Keyed, With
<1> QED BY <1>4, <1>6, DisplaceOneKeepsDisplaced DEF ReuseDisplaced, Displacing, key

LEMMA DispatchKeepsDisplaced ==
  ASSUME PoolInv, ContentInv, DisplacedInv, DispatchDisplacement
  PROVE  DisplacedInv'
<1> DEFINE key == Key(Current)
           content == Displace(Current)
<1>1. Displaceable(Current) /\ Displacing BY DEF DispatchDisplacement, Dispatches
<1>2. content \in Contents BY <1>1, CurrentIsTyped, DisplaceIsContent
<1>3. content.mesh = key.mesh /\ content.program = key.program BY DEF Displace, Key
<1>4. AsAsked(content, Current) BY <1>1, <1>2 DEF AsAsked, Displace
<1>5. used' = With(used, key, content) BY DEF DispatchDisplacement
<1> HIDE DEF key, content
<1>6. Keyed(used') BY <1>3, <1>5 DEF DisplacedInv, Keyed, With
<1>7. Displaced(content) BY DEF DispatchDisplacement, content
<1> QED BY <1>1, <1>4, <1>6, <1>7, DisplaceOneKeepsDisplaced DEF DispatchDisplacement, Displacing

LEMMA FinishDisplacementKeepsDisplaced ==
  ASSUME PoolInv, ContentInv, DisplacedInv, FinishDisplacement
  PROVE  DisplacedInv'
<1>1. /\ at = "displace" /\ at' = "release" /\ next > Len(scene.prototypes)
      /\ displaced' = used /\ DOMAIN used' = {} /\ UNCHANGED <<scene, meshes>>
  BY DEF FinishDisplacement, Empty
<1>2. scene \in Scenes BY <1>1 DEF PoolInv, Rest
<1>3. DOMAIN scene.prototypes \subseteq 1 .. next - 1
  BY <1>1, <1>2, PrototypesAreTyped DEF ContentInv
<1> QED BY <1>1, <1>3, AsAskedStays DEF DisplacedInv, Keyed, Given, Accelerating, Earlier

LEMMA ResourceStepKeepsDisplaced ==
  ASSUME PoolInv, ContentInv, DisplacedInv, ResourceStep
  PROVE  DisplacedInv'
<1> USE DEF displacement
<1>1. CASE Extend
  BY <1>1 DEF Extend, DisplacedInv, Keyed, Earlier, Given, Accelerating
<1>2. CASE Shadow
  BY <1>2 DEF Shadow, DisplacedInv, Keyed, Earlier, Given, Accelerating
<1>3. CASE KeepSlot
  BY <1>3 DEF KeepSlot, DisplacedInv, Keyed, Earlier, Given, Accelerating
<1>4. CASE UploadSlot
  BY <1>4 DEF UploadSlot, DisplacedInv, Keyed, Earlier, Given, Accelerating
<1>5. CASE FinishTextures
  BY <1>5 DEF FinishTextures, DisplacedInv, Keyed, Earlier, Given, Accelerating
<1>6. CASE SkipDisplacement BY <1>6, SkipKeepsDisplaced
<1>7. CASE LeavePlain
  <2>1. AsAsked(Plain(Current), Current) BY DEF AsAsked
  <2> QED BY <1>7, <2>1, DisplaceOneKeepsDisplaced DEF LeavePlain, Displacing, DisplacedInv
<1>8. CASE ReuseDisplaced BY <1>8, ReuseKeepsDisplaced
<1>9. CASE DispatchDisplacement BY <1>9, DispatchKeepsDisplaced
<1>10. CASE FinishDisplacement BY <1>10, FinishDisplacementKeepsDisplaced
<1> USE DEF Given, Accelerating
<1>11. CASE CompareDome BY <1>11, LaterKeepsDisplaced DEF CompareDome
<1>12. CASE UploadDome BY <1>12, LaterKeepsDisplaced DEF UploadDome
<1>13. CASE AllocateDistribution BY <1>13, LaterKeepsDisplaced DEF AllocateDistribution
<1>14. CASE CopyDistribution BY <1>14, LaterKeepsDisplaced DEF CopyDistribution
<1>15. CASE Shade BY <1>15, LaterKeepsDisplaced DEF Shade
<1> QED BY <1>1, <1>2, <1>3, <1>4, <1>5, <1>6, <1>7, <1>8, <1>9, <1>10, <1>11, <1>12,
           <1>13, <1>14, <1>15 DEF ResourceStep

LEMMA NextKeepsDisplaced ==
  ASSUME PoolInv, ContentInv, DisplacedInv, [Next]_vars
  PROVE  DisplacedInv'
<1>1. CASE \E s \in Scenes : Publish(s) /\ UNCHANGED accelerator
  BY <1>1 DEF Publish, DisplacedInv, Keyed, Earlier, Given, Accelerating
<1>2. CASE ResourceStep /\ UNCHANGED accelerator BY <1>2, ResourceStepKeepsDisplaced
<1>3. CASE AcceleratorStep
  BY <1>3, AcceleratorLeavesResources, LaterKeepsDisplaced DEF resources, displacement, Given
<1>4. CASE Throw
  BY <1>4 DEF Throw, AbandonResources, DisplacedInv, Keyed, Empty, Earlier, Given, Accelerating
<1>5. CASE UNCHANGED vars
  BY <1>5, AsAskedStays DEF vars, resources, displacement, DisplacedInv, Keyed
<1> QED BY <1>1, <1>2, <1>3, <1>4, <1>5 DEF Next, Step

\* What is traced where a prototype was is that mesh, or that mesh displaced by the one
\* material bound to it that displaces, whatever was reused and wherever a publication
\* was thrown out of (PathTracer::ApplyDisplacement).
THEOREM DisplacedAsAsked == Spec => []DisplacedByItsProgram
<1> DEFINE IInv == PoolInv /\ ContentInv /\ DisplacedInv
<1>1. Init => IInv BY PoolInit, ContentInit, DisplacedInit
<1>2. IInv /\ [Next]_vars => IInv'
  BY NextKeepsPool, NextKeepsContent, NextKeepsDisplaced
<1>3. IInv => DisplacedByItsProgram
  <2> SUFFICES ASSUME IInv, at = "published", NEW k \in DOMAIN scene.prototypes
               PROVE  LET p == scene.prototypes[k]
                      IN \/ meshes[k] = Plain(p)
                         \/ /\ Displaceable(p)
                            /\ [meshes[k] EXCEPT !.sampled = <<>>] =
                                 [Displace(p) EXCEPT !.sampled = <<>>]
    BY DEF DisplacedByItsProgram
  <2> DEFINE p == scene.prototypes[k]
  <2>1. AsAsked(meshes[k], p) BY DEF DisplacedInv, Given
  <2>2. ASSUME meshes[k] \in Contents, meshes[k].mesh = p.mesh,
               meshes[k].program = ProgramOf[Displacer(p)]
        PROVE  [meshes[k] EXCEPT !.sampled = <<>>] = [Displace(p) EXCEPT !.sampled = <<>>]
    <3>1. [meshes[k] EXCEPT !.sampled = <<>>] =
            [mesh |-> meshes[k].mesh, program |-> meshes[k].program, sampled |-> <<>>]
      BY <2>2 DEF Contents
    <3>2. [Displace(p) EXCEPT !.sampled = <<>>] =
            [mesh |-> p.mesh, program |-> ProgramOf[Displacer(p)], sampled |-> <<>>]
      BY DEF Displace
    <3> QED BY <2>2, <3>1, <3>2
  <2> HIDE DEF p
  <2>3. \/ meshes[k] = Plain(p)
        \/ /\ Displaceable(p)
           /\ [meshes[k] EXCEPT !.sampled = <<>>] = [Displace(p) EXCEPT !.sampled = <<>>]
    BY <2>1, <2>2 DEF AsAsked
  <2> QED BY <2>3 DEF p
<1> HIDE DEF IInv
<1> QED BY <1>1, <1>2, <1>3, PTL DEF Spec

-----------------------------------------------------------------------------
(* What is kept by key is what a tracer with nothing to keep would make.    *)

\* A throw in any other place leaves every key beside what it is the key of.  In these
\* the code has replaced one and not the other.
KeysStayTrue == Faults \intersect {"shadow", "textures", "domeUpload", "distribution", "copy"} = {}

KernelsInv ==
  /\ at # "shadow" => extend = shadow
  /\ at # "shadow" /\ ~fromScene => extend = None
  /\ at = "shadow" => extend = scene.library
  /\ at \notin {"idle", "failed", "extend"} => extend = scene.library

\* The pool being made is the scene's so far, and what is left of the old one is its key's.
TexturesInv ==
  /\ at # "textures" => pool = uploaded
  /\ at = "textures" =>
       /\ Len(pool) = Len(uploaded)
       /\ \A slot \in 1 .. next - 1 : fresh[slot] = scene.textures[slot]
       /\ \A slot \in DOMAIN pool : slot >= next => pool[slot] = uploaded[slot]
  /\ at \in Given \union {"displace"} => pool = scene.textures

DomeInv ==
  /\ at # "domeUpload" => dome = uploadedDome
  /\ at \notin {"domeUpload", "distribution", "copy"} =>
       \/ distribution.buffer = "null"
       \/ distribution = [buffer |-> dome, shape |-> dome]
  /\ at \in {"distribution", "copy", "shade", "published"} => dome = DomeImage
  /\ at \in {"shade", "published"} => distribution = [buffer |-> dome, shape |-> dome]

LEMMA KeptInit == Init => KernelsInv /\ TexturesInv /\ DomeInv
BY DEF Init, ResourcesInit, KernelsInv, TexturesInv, DomeInv, Given, Accelerating

\* A publication's own resources, and the order they come in.
LEMMA PublishKeepsKept ==
  ASSUME KernelsInv, TexturesInv, DomeInv, NEW s \in Scenes, Publish(s)
  PROVE  KernelsInv' /\ TexturesInv' /\ DomeInv'
<1> USE DEF Publish, Rest
<1>1. KernelsInv' BY DEF KernelsInv, KernelsStale, kernels
<1>2. TexturesInv' BY DEF TexturesInv, textures, Given, Accelerating
<1>3. DomeInv' BY DEF DomeInv, environment
<1> QED BY <1>1, <1>2, <1>3

LEMMA ResourceStepKeepsKernels ==
  ASSUME KernelsInv, ResourceStep
  PROVE  KernelsInv'
<1> USE DEF KernelsInv, kernels
<1>1. CASE Extend BY <1>1 DEF Extend
<1>2. CASE Shadow BY <1>2 DEF Shadow
<1>3. CASE KeepSlot BY <1>3 DEF KeepSlot
<1>4. CASE UploadSlot BY <1>4 DEF UploadSlot
<1>5. CASE FinishTextures BY <1>5 DEF FinishTextures
<1>6. CASE SkipDisplacement BY <1>6 DEF SkipDisplacement
<1>7. CASE LeavePlain BY <1>7 DEF LeavePlain, Displacing
<1>8. CASE ReuseDisplaced BY <1>8 DEF ReuseDisplaced, Displacing
<1>9. CASE DispatchDisplacement BY <1>9 DEF DispatchDisplacement, Dispatches, Displacing
<1>10. CASE FinishDisplacement BY <1>10 DEF FinishDisplacement
<1>11. CASE CompareDome BY <1>11 DEF CompareDome
<1>12. CASE UploadDome BY <1>12 DEF UploadDome
<1>13. CASE AllocateDistribution BY <1>13 DEF AllocateDistribution
<1>14. CASE CopyDistribution BY <1>14 DEF CopyDistribution
<1>15. CASE Shade BY <1>15 DEF Shade
<1> QED BY <1>1, <1>2, <1>3, <1>4, <1>5, <1>6, <1>7, <1>8, <1>9, <1>10, <1>11, <1>12,
           <1>13, <1>14, <1>15 DEF ResourceStep

LEMMA KeepSlotKeepsTextures ==
  ASSUME PoolInv, TexturesInv, KeepSlot
  PROVE  TexturesInv'
<1> USE DEF KeepSlot, SlotKept, Slots
<1>1. /\ at = "textures" /\ at' = "textures" /\ UNCHANGED <<scene, uploaded>>
      /\ next \in Nat \ {0} /\ Len(fresh) = next - 1 /\ next' = next + 1
      /\ next \in 1 .. Len(pool) /\ next <= Len(uploaded)
      /\ fresh \in Slots /\ pool \in Slots /\ uploaded \in Slots
      /\ fresh' = Append(fresh, pool[next]) /\ pool' = [pool EXCEPT ![next] = None]
  BY DEF PoolInv, FreshIsTheScene
<1>2. pool[next] = scene.textures[next] BY <1>1 DEF TexturesInv
<1>3. /\ Len(pool') = Len(pool) /\ DOMAIN pool' = DOMAIN pool
      /\ \A slot \in DOMAIN pool : slot # next => pool'[slot] = pool[slot]
  BY <1>1
<1>4. ASSUME NEW slot \in 1 .. next PROVE fresh'[slot] = scene.textures[slot]
  <2>1. CASE slot = next BY <1>1, <1>2, <2>1
  <2>2. CASE slot # next
    <3>1. slot \in 1 .. next - 1 BY <1>1, <2>2
    <3>2. fresh'[slot] = fresh[slot] BY <1>1, <3>1
    <3> QED BY <1>1, <3>1, <3>2 DEF TexturesInv
  <2> QED BY <2>1, <2>2
<1>5. ASSUME NEW slot \in DOMAIN pool, slot >= next + 1 PROVE pool'[slot] = uploaded[slot]
  <2>1. slot \in Nat /\ slot # next /\ slot >= next BY <1>1, <1>5
  <2> QED BY <1>1, <1>3, <2>1 DEF TexturesInv
<1>6. next' - 1 = next BY <1>1
<1> QED BY <1>1, <1>3, <1>4, <1>5, <1>6 DEF TexturesInv, Given, Accelerating

LEMMA UploadSlotKeepsTextures ==
  ASSUME PoolInv, TexturesInv, UploadSlot
  PROVE  TexturesInv'
<1> USE DEF UploadSlot, Slots
<1>1. /\ at = "textures" /\ at' = "textures" /\ UNCHANGED <<scene, uploaded, pool>>
      /\ next \in Nat \ {0} /\ Len(fresh) = next - 1 /\ next' = next + 1
      /\ fresh \in Slots /\ pool \in Slots
      /\ fresh' = Append(fresh, scene.textures[next])
  BY DEF PoolInv, FreshIsTheScene
<1>2. ASSUME NEW slot \in 1 .. next PROVE fresh'[slot] = scene.textures[slot]
  <2>1. CASE slot = next BY <1>1, <2>1
  <2>2. CASE slot # next
    <3>1. slot \in 1 .. next - 1 BY <1>1, <2>2
    <3>2. fresh'[slot] = fresh[slot] BY <1>1, <3>1
    <3> QED BY <1>1, <3>1, <3>2 DEF TexturesInv
  <2> QED BY <2>1, <2>2
<1>3. ASSUME NEW slot \in DOMAIN pool, slot >= next + 1 PROVE pool[slot] = uploaded[slot]
  BY <1>1, <1>3 DEF TexturesInv
<1>4. next' - 1 = next BY <1>1
<1> QED BY <1>1, <1>2, <1>3, <1>4 DEF TexturesInv, Given, Accelerating

LEMMA FinishTexturesKeepsTextures ==
  ASSUME PoolInv, TexturesInv, FinishTextures
  PROVE  TexturesInv'
<1>1. /\ at = "textures" /\ at' = "displace" /\ next > Len(scene.textures)
      /\ pool' = fresh /\ uploaded' = scene.textures /\ scene' = scene
  BY DEF FinishTextures
<1>2. scene.textures \in Slots /\ fresh \in Slots
  BY <1>1, SceneTextures DEF PoolInv, Rest
<1>3. Len(fresh) = next - 1 /\ next - 1 = Len(scene.textures)
  BY <1>1, <1>2 DEF PoolInv, FreshIsTheScene, Slots
<1>4. \A slot \in 1 .. Len(fresh) : fresh[slot] = scene.textures[slot]
  BY <1>1, <1>3 DEF TexturesInv
<1>5. fresh = scene.textures BY <1>2, <1>3, <1>4 DEF Slots
<1> QED BY <1>1, <1>5 DEF TexturesInv

\* A step that is not the pool's.
LEMMA LaterKeepsTextures ==
  ASSUME TexturesInv, UNCHANGED <<scene, pool, uploaded>>,
         at \in Given \union {"displace"}, at' \in Given \union {"displace"}
  PROVE  TexturesInv'
BY DEF TexturesInv, Given, Accelerating

LEMMA ResourceStepKeepsTextures ==
  ASSUME PoolInv, TexturesInv, ResourceStep
  PROVE  TexturesInv'
<1> USE DEF textures, Given, Accelerating
<1>1. CASE Extend BY <1>1 DEF Extend, TexturesInv
<1>2. CASE Shadow BY <1>2 DEF Shadow, TexturesInv, PoolInv, Earlier
<1>3. CASE KeepSlot BY <1>3, KeepSlotKeepsTextures
<1>4. CASE UploadSlot BY <1>4, UploadSlotKeepsTextures
<1>5. CASE FinishTextures BY <1>5, FinishTexturesKeepsTextures
<1>6. CASE SkipDisplacement BY <1>6, LaterKeepsTextures DEF SkipDisplacement
<1>7. CASE LeavePlain BY <1>7, LaterKeepsTextures DEF LeavePlain, Displacing
<1>8. CASE ReuseDisplaced BY <1>8, LaterKeepsTextures DEF ReuseDisplaced, Displacing
<1>9. CASE DispatchDisplacement
  BY <1>9, LaterKeepsTextures DEF DispatchDisplacement, Dispatches, Displacing
<1>10. CASE FinishDisplacement BY <1>10, LaterKeepsTextures DEF FinishDisplacement
<1>11. CASE CompareDome BY <1>11, LaterKeepsTextures DEF CompareDome
<1>12. CASE UploadDome BY <1>12, LaterKeepsTextures DEF UploadDome
<1>13. CASE AllocateDistribution BY <1>13, LaterKeepsTextures DEF AllocateDistribution
<1>14. CASE CopyDistribution BY <1>14, LaterKeepsTextures DEF CopyDistribution
<1>15. CASE Shade BY <1>15, LaterKeepsTextures DEF Shade
<1> QED BY <1>1, <1>2, <1>3, <1>4, <1>5, <1>6, <1>7, <1>8, <1>9, <1>10, <1>11, <1>12,
           <1>13, <1>14, <1>15 DEF ResourceStep

LEMMA ResourceStepKeepsDome ==
  ASSUME DomeInv, ResourceStep
  PROVE  DomeInv'
<1> USE DEF DomeInv, DomeImage, environment
<1>1. CASE Extend BY <1>1 DEF Extend
<1>2. CASE Shadow BY <1>2 DEF Shadow
<1>3. CASE KeepSlot BY <1>3 DEF KeepSlot
<1>4. CASE UploadSlot BY <1>4 DEF UploadSlot
<1>5. CASE FinishTextures BY <1>5 DEF FinishTextures
<1>6. CASE SkipDisplacement BY <1>6 DEF SkipDisplacement
<1>7. CASE LeavePlain BY <1>7 DEF LeavePlain, Displacing
<1>8. CASE ReuseDisplaced BY <1>8 DEF ReuseDisplaced, Displacing
<1>9. CASE DispatchDisplacement BY <1>9 DEF DispatchDisplacement, Dispatches, Displacing
<1>10. CASE FinishDisplacement BY <1>10 DEF FinishDisplacement
<1>11. CASE CompareDome BY <1>11 DEF CompareDome, DistributionStale
<1>12. CASE UploadDome BY <1>12 DEF UploadDome, DistributionStale
<1>13. CASE AllocateDistribution BY <1>13 DEF AllocateDistribution
<1>14. CASE CopyDistribution BY <1>14 DEF CopyDistribution
<1>15. CASE Shade BY <1>15 DEF Shade
<1> QED BY <1>1, <1>2, <1>3, <1>4, <1>5, <1>6, <1>7, <1>8, <1>9, <1>10, <1>11, <1>12,
           <1>13, <1>14, <1>15 DEF ResourceStep

\* No throw comes between a resource and its key.
LEMMA ThrowKeepsKept ==
  ASSUME KeysStayTrue, KernelsInv, TexturesInv, DomeInv, Throw
  PROVE  KernelsInv' /\ TexturesInv' /\ DomeInv'
<1>1. at \notin {"shadow", "textures", "domeUpload", "distribution", "copy"}
  BY DEF Throw, KeysStayTrue, Exhausted, NewMesh, AtMesh, NewCloud, AtCloud
<1>2. at' = "failed" /\ UNCHANGED <<kernels, pool, uploaded, environment>>
  BY DEF Throw, AbandonResources
<1>3. KernelsInv' BY <1>1, <1>2 DEF KernelsInv, kernels
<1>4. TexturesInv' BY <1>1, <1>2 DEF TexturesInv, Given, Accelerating
<1>5. DomeInv' BY <1>1, <1>2 DEF DomeInv, environment
<1> QED BY <1>3, <1>4, <1>5

LEMMA NextKeepsKept ==
  ASSUME KeysStayTrue, PoolInv, KernelsInv, TexturesInv, DomeInv, [Next]_vars
  PROVE  KernelsInv' /\ TexturesInv' /\ DomeInv'
<1>1. CASE \E s \in Scenes : Publish(s) /\ UNCHANGED accelerator
  BY <1>1, PublishKeepsKept
<1>2. CASE ResourceStep /\ UNCHANGED accelerator
  BY <1>2, ResourceStepKeepsKernels, ResourceStepKeepsTextures, ResourceStepKeepsDome
<1>3. CASE AcceleratorStep
  <2>1. /\ UNCHANGED <<scene, kernels, pool, uploaded, environment>>
        /\ at \in Accelerating /\ at' \in Accelerating \union {"dome"}
    BY <1>3, AcceleratorLeavesResources DEF resources, textures
  <2>2. KernelsInv' BY <2>1 DEF KernelsInv, kernels, Accelerating
  <2>3. TexturesInv' BY <2>1, LaterKeepsTextures DEF Given
  <2>4. DomeInv' BY <2>1 DEF DomeInv, DomeImage, environment, Accelerating
  <2> QED BY <2>2, <2>3, <2>4
<1>4. CASE Throw BY <1>4, ThrowKeepsKept
<1>5. CASE UNCHANGED vars
  <2>1. UNCHANGED <<at, next, scene, kernels, textures, environment>>
    BY <1>5 DEF vars, resources
  <2> QED BY <2>1 DEF kernels, textures, environment, KernelsInv, TexturesInv, DomeInv, DomeImage
<1> QED BY <1>1, <1>2, <1>3, <1>4, <1>5 DEF Next, Step

\* A publication leaves the scene's textures, dome, distribution, kernels and displaced
\* prototypes, whatever was reused to get there, when no earlier one was thrown out of
\* between a resource and its key (PathTracer::SetScene).
THEOREM PublishesItsScene ==
  ASSUME KeysStayTrue
  PROVE  Spec => []PublishesWhatItWasGiven
<1> DEFINE IInv == PoolInv /\ KernelsInv /\ TexturesInv /\ DomeInv
<1>1. Init => IInv BY PoolInit, KeptInit
<1>2. IInv /\ [Next]_vars => IInv' BY NextKeepsPool, NextKeepsKept
<1>3. IInv /\ DisplacedByItsProgram => PublishesWhatItWasGiven
  BY DEF KernelsInv, TexturesInv, DomeInv, Given, PublishesWhatItWasGiven,
         TexturesArePublished, EnvironmentIsPublished, KernelsArePublished
<1> HIDE DEF IInv
<1> QED BY <1>1, <1>2, <1>3, DisplacedAsAsked, PTL DEF Spec
=============================================================================
