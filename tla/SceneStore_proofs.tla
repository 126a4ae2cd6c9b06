--------------------------- MODULE SceneStore_proofs ---------------------------
(***************************************************************************)
(* Theorems about the scene store, for any paths, entries and selections.  *)
(*                                                                         *)
(* The types need one fact more than TypeOK: a material marked pending has *)
(* a network to compile.  NoStaleCompile needs the generations: none held  *)
(* or in flight exceeds the counter, so a publication's is new, and no two *)
(* requests in flight are for one material.  The revision theorems need    *)
(* that a store with cull volumes has its scene index.  MasksNameTheTable  *)
(* needs what the revisions are for: what the pass holds is what it would  *)
(* read again.                                                             *)
(***************************************************************************)
EXTENDS SceneStore, FiniteSetTheorems, WellFoundedInduction, TLAPS

PendingHasNetwork ==
  \A p \in Materials :
    materials[p] # None /\ materials[p].pending => materials[p].network \in Networks

TypeInv == StoreTypeOK /\ PendingHasNetwork

GenerationsIssued ==
  /\ \A p \in Materials : materials[p] # None => materials[p].generation <= materialGeneration
  /\ \A r \in compiling : r.generation <= materialGeneration

OneRequestEach == \A q, r \in compiling : q.id = r.id => q = r

CompileInv == GenerationsIssued /\ OneRequestEach /\ NoStaleCompile

VolumesHaveIndex == \A v \in Volumes : volumes[v] # None => sceneIndex

-----------------------------------------------------------------------------
(* Types.                                                                  *)

\* What the compile copies out is well formed: a path, its network, its generation.
LEMMA RequestsAreTyped ==
  ASSUME TypeInv
  PROVE  BoundPendingMaterials \subseteq [id : Materials, network : Networks, generation : Nat]
BY DEF TypeInv, StoreTypeOK, PendingHasNetwork, BoundPendingMaterials, Domain, HeldMaterial

\* A publication stores an entry of the right type, with its generation.
LEMMA GeneratedIsHeld ==
  ASSUME NEW e \in MaterialEntries, NEW g \in Nat
  PROVE  /\ Generated(e, g) \in HeldMaterial
         /\ Generated(e, g).pending => Generated(e, g).network \in Networks
         /\ Generated(e, g).generation = g
BY EntriesAreTyped DEF Generated, HeldMaterial, MaterialEntry

\* So does a completion.
LEMMA CompiledIsHeld ==
  ASSUME NEW r \in [id : Materials, network : Networks, generation : Nat]
  PROVE  /\ CompiledForm(r) \in HeldMaterial
         /\ ~CompiledForm(r).pending
         /\ CompiledForm(r).generation = r.generation
BY EntriesAreTyped DEF CompiledForm, HeldMaterial

LEMMA InitTypes == Init => TypeInv
<1> SUFFICES ASSUME Init PROVE TypeInv
    OBVIOUS
<1>1. StoreTypeOK
    BY DEF Init, StoreTypeOK
<1>2. PendingHasNetwork
    BY DEF Init, PendingHasNetwork
<1> QED
    BY <1>1, <1>2 DEF TypeInv

LEMMA NextTypes == TypeInv /\ [Next]_vars => TypeInv'
<1> SUFFICES ASSUME TypeInv, [Next]_vars PROVE TypeInv'
    OBVIOUS
<1> USE DEF TypeInv, StoreTypeOK, PendingHasNetwork
<1>1. ASSUME NEW m \in Meshes, NEW e \in MeshEntries, PublishMesh(m, e) PROVE TypeInv'
    BY <1>1, EntriesAreTyped DEF PublishMesh, Bump, history, Prims
<1>2. ASSUME NEW m \in Meshes, NEW e \in MeshEntries, UpdateMeshPlacement(m, e) PROVE TypeInv'
  <2>1. prims[m] \in PrimEntry /\ e \in PrimEntry /\ m \in Prims
      BY <1>2, EntriesAreTyped DEF UpdateMeshPlacement, Prims
  <2>2. prims'[m] \in PrimEntry
      BY <1>2, <2>1 DEF UpdateMeshPlacement, PrimEntry
  <2>3. prims' \in [Prims -> PrimEntry \union {None}]
      BY <1>2, <2>1, <2>2 DEF UpdateMeshPlacement
  <2> QED
      BY <1>2, <2>3 DEF UpdateMeshPlacement, Bump, history
<1>3. ASSUME NEW s \in Splats, NEW e \in SplatEntries, PublishSplats(s, e) PROVE TypeInv'
    BY <1>3, EntriesAreTyped DEF PublishSplats, Bump, history, Prims
<1>4. ASSUME NEW p \in Prims, RemovePrim(p) PROVE TypeInv'
    BY <1>4 DEF RemovePrim, Bump, history
<1>5. ASSUME NEW p \in Materials, NEW e \in MaterialEntries, PublishMaterial(p, e) PROVE TypeInv'
  <2>1. materialGeneration' \in Nat
      BY <1>5 DEF PublishMaterial
  <2> QED
      BY <1>5, <2>1, GeneratedIsHeld DEF PublishMaterial, Bump, history
<1>6. ASSUME NEW p \in Materials, RemoveMaterial(p) PROVE TypeInv'
    BY <1>6 DEF RemoveMaterial, Bump, history
<1>7. ASSUME NEW l \in Lights, NEW e \in LightEntries \union {None}, SetLight(l, e) PROVE TypeInv'
    BY <1>7 DEF SetLight, Bump, history
<1>8. ASSUME NEW v \in Volumes, NEW e \in VolumeEntries, PublishCullVolume(v, e) PROVE TypeInv'
    BY <1>8 DEF PublishCullVolume, history
<1>9. ASSUME NEW v \in Volumes, RemoveCullVolume(v) PROVE TypeInv'
    BY <1>9 DEF RemoveCullVolume, Bump, history
<1>10. ASSUME NEW on \in BOOLEAN, SetCullVolumesEnabled(on) PROVE TypeInv'
    BY <1>10 DEF SetCullVolumesEnabled, Bump, history
<1>11. ASSUME NEW f \in Programs, SetFallbackMaterial(f) PROVE TypeInv'
    BY <1>11 DEF SetFallbackMaterial, Bump, history
<1>12. ASSUME CompileBoundMaterials PROVE TypeInv'
    BY <1>12, RequestsAreTyped DEF CompileBoundMaterials, published, history
<1>13. ASSUME NEW r \in compiling, CompletePendingMaterial(r) PROVE TypeInv'
    BY <1>13, CompiledIsHeld DEF CompletePendingMaterial, Bump, history
<1>14. ASSUME NEW sel \in Selections, Snapshot(sel) PROVE TypeInv'
    BY <1>14 DEF Snapshot, published, PrimEntry
<1>15. ASSUME CommitHistory PROVE TypeInv'
    BY <1>15 DEF CommitHistory, published
<1>16. ASSUME UploadCullVolumes PROVE TypeInv'
    BY <1>16 DEF UploadCullVolumes, published, history
<1>17. CASE UNCHANGED vars
    BY <1>17 DEF vars, published, history
<1> QED
    BY <1>1, <1>2, <1>3, <1>4, <1>5, <1>6, <1>7, <1>8, <1>9, <1>10, <1>11, <1>12,
       <1>13, <1>14, <1>15, <1>16, <1>17
    DEF Next, Publish, SyncMesh, SyncSplats, SyncMaterial, SyncLight, SyncCullVolume, Settings,
        Compile, Consume, CompleteNext, PublishLight, RemoveLight, Prims

\* Every map of the store holds what its Sync may publish, or nothing, and every
\* counter is a number, whatever is published in whatever order.
THEOREM TypeCorrect == Spec => []TypeOK
<1> DEFINE HeldTypes == /\ masks # None => masks.selection \in Selections
                        /\ table # None => masks # None
<1>1. TypeInv /\ HeldTypes => TypeOK
    BY DEF TypeInv, TypeOK
<1>2. Init => HeldTypes
    BY DEF Init
<1>3. HeldTypes /\ [Next]_vars => HeldTypes'
    BY DEF Next, Supersede, Consume, Snapshot, Masks, UploadCullVolumes, CommitHistory, vars, held
<1> QED
    BY <1>1, <1>2, <1>3, InitTypes, NextTypes, PTL DEF Spec

-----------------------------------------------------------------------------
(* Compilation outside the lock.                                           *)

LEMMA InitCompiles == Init => CompileInv
BY DEF Init, CompileInv, GenerationsIssued, OneRequestEach, NoStaleCompile

\* What is copied out is each pending material once, as it is now.
LEMMA RequestsAreFresh ==
  ASSUME TypeInv, GenerationsIssued
  PROVE  /\ \A q, r \in BoundPendingMaterials : q.id = r.id => q = r
         /\ \A r \in BoundPendingMaterials :
              /\ materials[r.id].pending
              /\ materials[r.id].network = r.network
              /\ r.generation <= materialGeneration
<1> SUFFICES ASSUME NEW q \in BoundPendingMaterials, NEW r \in BoundPendingMaterials
             PROVE  /\ q.id = r.id => q = r
                    /\ materials[r.id].pending
                    /\ materials[r.id].network = r.network
                    /\ r.generation <= materialGeneration
    OBVIOUS
<1> DEFINE Request(p) == [id |-> p, network |-> materials[p].network,
                          generation |-> materials[p].generation]
<1>1. PICK p \in Domain(materials) : materials[p].pending /\ q = Request(p)
    BY DEF BoundPendingMaterials
<1>2. PICK t \in Domain(materials) : materials[t].pending /\ r = Request(t)
    BY DEF BoundPendingMaterials
<1>3. q.id = p /\ r.id = t
    BY <1>1, <1>2
<1>4. t \in Materials /\ materials[t] # None
    BY DEF Domain, TypeInv, StoreTypeOK
<1> QED
    BY <1>1, <1>2, <1>3, <1>4 DEF GenerationsIssued

LEMMA NextCompiles == TypeInv /\ CompileInv /\ [Next]_vars => CompileInv'
<1> SUFFICES ASSUME TypeInv, CompileInv, [Next]_vars PROVE CompileInv'
    OBVIOUS
<1> USE DEF CompileInv, GenerationsIssued, OneRequestEach, NoStaleCompile, IsCurrent
<1>1. ASSUME UNCHANGED <<materials, materialGeneration, compiling>> PROVE CompileInv'
    BY <1>1
<1>2. ASSUME NEW p \in Materials, NEW e \in MaterialEntries, PublishMaterial(p, e) PROVE CompileInv'
  <2>1. /\ materialGeneration \in Nat
        /\ materialGeneration' = materialGeneration + 1
        /\ materials \in [Materials -> HeldMaterial \union {None}]
        /\ compiling' = compiling
        /\ compiling \subseteq [id : Materials, network : Networks, generation : Nat]
      BY <1>2 DEF PublishMaterial, TypeInv, StoreTypeOK
  <2>2. /\ materials'[p].generation = materialGeneration'
        /\ \A q \in Materials \ {p} : materials'[q] = materials[q]
      BY <1>2, <2>1, GeneratedIsHeld DEF PublishMaterial
  <2>3. \A q \in Materials : materials[q] # None => materials[q].generation \in Nat
      BY <2>1 DEF HeldMaterial
  <2> QED
      BY <2>1, <2>2, <2>3
<1>3. ASSUME NEW p \in Materials, RemoveMaterial(p) PROVE CompileInv'
    BY <1>3 DEF RemoveMaterial, TypeInv, StoreTypeOK
<1>4. ASSUME CompileBoundMaterials PROVE CompileInv'
  <2>1. /\ compiling' = BoundPendingMaterials
        /\ materials' = materials /\ materialGeneration' = materialGeneration
      BY <1>4 DEF CompileBoundMaterials, published
  <2> QED
      BY <2>1, RequestsAreFresh
<1>5. ASSUME NEW r \in compiling, CompletePendingMaterial(r) PROVE CompileInv'
  <2>1. /\ r \in [id : Materials, network : Networks, generation : Nat]
        /\ materials \in [Materials -> HeldMaterial \union {None}]
        /\ materialGeneration' = materialGeneration
        /\ compiling' = compiling \ {r}
      BY <1>5 DEF CompletePendingMaterial, TypeInv, StoreTypeOK
  <2>2. /\ \A p \in Materials \ {r.id} : materials'[p] = materials[p]
        /\ materials'[r.id] # materials[r.id] => materials'[r.id].generation = r.generation
      BY <1>5, <2>1, CompiledIsHeld DEF CompletePendingMaterial
  <2>3. \A q \in compiling' : q.id \in Materials /\ q.id # r.id
      BY <2>1 DEF TypeInv, StoreTypeOK
  <2>4. NoStaleCompile'
      BY <2>1, <2>2, <2>3
  <2>5. GenerationsIssued'
      BY <2>1, <2>2
  <2> QED
      BY <2>1, <2>4, <2>5
<1>6. CASE UNCHANGED vars
    BY <1>1, <1>6 DEF vars, published
<1> QED
    BY <1>1, <1>2, <1>3, <1>4, <1>5, <1>6
    DEF Next, Publish, SyncMesh, SyncSplats, SyncMaterial, SyncLight, SyncCullVolume, Settings,
        Compile, Consume, CompleteNext, PublishMesh, UpdateMeshPlacement, PublishSplats,
        RemovePrim, PublishLight, RemoveLight, SetLight, PublishCullVolume,
        RemoveCullVolume, SetCullVolumesEnabled, SetFallbackMaterial, Snapshot, UploadCullVolumes,
        CommitHistory, published

\* A compilation that would still be accepted is of the network published now,
\* however often its material was edited, removed and published while it ran.
THEOREM CompileIsFresh == Spec => []NoStaleCompile
<1>1. CompileInv => NoStaleCompile
    BY DEF CompileInv
<1> QED
    BY <1>1, InitTypes, NextTypes, InitCompiles, NextCompiles, PTL DEF Spec

\* Whatever the selection, a mesh it draws has every pending material it binds
\* among those the compile copies out.
THEOREM DrawnMeshesCompile == Spec => []DrawnIsCompiled
<1>1. ASSUME TypeInv PROVE DrawnIsCompiled
  <2> SUFFICES ASSUME NEW sel \in Selections, NEW m \in Drawn(sel) \intersect Meshes,
                      NEW p \in BoundBy(m) \intersect Domain(materials), materials[p].pending
               PROVE  \E r \in BoundPendingMaterials : r.id = p
      BY DEF DrawnIsCompiled
  <2>1. p \in Bound
      BY DEF Drawn, Bound
  <2> DEFINE request == [id |-> p, network |-> materials[p].network,
                         generation |-> materials[p].generation]
  <2>2. request \in BoundPendingMaterials
      BY <2>1 DEF BoundPendingMaterials
  <2> QED
      BY <2>2
<1> QED
    BY <1>1, InitTypes, NextTypes, PTL DEF Spec

-----------------------------------------------------------------------------
(* Revisions.                                                              *)

LEMMA InitIndexes == Init => VolumesHaveIndex
BY DEF Init, VolumesHaveIndex

LEMMA NextIndexes == TypeInv /\ VolumesHaveIndex /\ [Next]_vars => VolumesHaveIndex'
<1> SUFFICES ASSUME TypeInv, VolumesHaveIndex, [Next]_vars PROVE VolumesHaveIndex'
    OBVIOUS
<1> USE DEF VolumesHaveIndex
<1>1. ASSUME UNCHANGED <<volumes, sceneIndex>> PROVE VolumesHaveIndex'
    BY <1>1
<1>2. ASSUME NEW v \in Volumes, NEW e \in VolumeEntries, PublishCullVolume(v, e) PROVE VolumesHaveIndex'
    BY <1>2 DEF PublishCullVolume
<1>3. ASSUME NEW v \in Volumes, RemoveCullVolume(v) PROVE VolumesHaveIndex'
    BY <1>3 DEF RemoveCullVolume, TypeInv, StoreTypeOK
<1>4. CASE UNCHANGED vars
    BY <1>1, <1>4 DEF vars, published
<1> QED
    BY <1>1, <1>2, <1>3, <1>4
    DEF Next, Publish, SyncMesh, SyncSplats, SyncMaterial, SyncLight, SyncCullVolume, Settings,
        Compile, Consume, CompleteNext, PublishMesh, UpdateMeshPlacement, PublishSplats,
        RemovePrim, PublishMaterial, RemoveMaterial, PublishLight, RemoveLight, SetLight,
        SetCullVolumesEnabled, SetFallbackMaterial, CompileBoundMaterials,
        CompletePendingMaterial, Snapshot, UploadCullVolumes, CommitHistory, published

\* What a volume's shape alone can change is the table: the same volumes are
\* active, in the same places, of the same kinds and with the same links.
SameVolumes ==
  /\ \A v \in Volumes : (volumes'[v] = None) <=> (volumes[v] = None)
  /\ \A v \in Volumes : volumes[v] # None =>
       /\ volumes'[v].visible = volumes[v].visible
       /\ volumes'[v].purpose = volumes[v].purpose
       /\ volumes'[v].kinds = volumes[v].kinds
       /\ volumes'[v].linksEverything = volumes[v].linksEverything
       /\ volumes'[v].cullLink = volumes[v].cullLink
       /\ sceneIndex' = sceneIndex

\* A step that leaves the revision leaves everything a snapshot reads, but for
\* the shapes of cull volumes.
LEMMA SameRevision ==
  ASSUME TypeInv, VolumesHaveIndex, [Next]_vars, ~(revision' > revision)
  PROVE  /\ UNCHANGED <<prims, materials, lights, cullEnabled, fallback>>
         /\ DOMAIN volumes' = DOMAIN volumes /\ DOMAIN volumes = Volumes
         /\ SameVolumes
<1> DEFINE Quiet == /\ UNCHANGED <<prims, materials, lights, cullEnabled, fallback>>
                    /\ DOMAIN volumes' = DOMAIN volumes /\ DOMAIN volumes = Volumes
                    /\ SameVolumes
<1>1. revision \in Nat /\ volumes \in [Volumes -> VolumeEntries \union {None}] /\ ~Bump
    BY DEF TypeInv, StoreTypeOK, Bump
<1>2. ASSUME UNCHANGED <<published, sceneIndex>> PROVE Quiet
    BY <1>1, <1>2 DEF published, SameVolumes
<1>3. ASSUME NEW v \in Volumes, NEW e \in VolumeEntries, PublishCullVolume(v, e) PROVE Quiet
  <2>1. ~Structural(v, e)
      BY <1>1, <1>3 DEF PublishCullVolume
  <2>2. /\ volumes[v] # None
        /\ volumes' = [volumes EXCEPT ![v] = e]
        /\ e # None
        /\ sceneIndex' = TRUE /\ sceneIndex = TRUE
      BY <1>3, <2>1, NoneIsAbsence DEF PublishCullVolume, Structural, VolumesHaveIndex, TypeInv, StoreTypeOK
  <2>3. SameVolumes
      BY <1>1, <2>1, <2>2 DEF SameVolumes, Structural
  <2> QED
      BY <1>1, <1>3, <2>2, <2>3 DEF PublishCullVolume
<1>4. ASSUME NEW r \in compiling, CompletePendingMaterial(r) PROVE Quiet
    BY <1>1, <1>2, <1>4 DEF CompletePendingMaterial, published
<1>5. CASE UNCHANGED vars
    BY <1>2, <1>5 DEF vars
<1> QED
    BY <1>1, <1>2, <1>3, <1>4, <1>5
    DEF Next, Publish, SyncMesh, SyncSplats, SyncMaterial, SyncLight, SyncCullVolume, Settings,
        Compile, Consume, CompleteNext, PublishMesh, UpdateMeshPlacement, PublishSplats,
        RemovePrim, PublishMaterial, RemoveMaterial, PublishLight, RemoveLight, SetLight,
        RemoveCullVolume, SetCullVolumesEnabled, SetFallbackMaterial, CompileBoundMaterials,
        Snapshot, UploadCullVolumes, CommitHistory

\* The active volumes of any selection are then the same.
LEMMA SameActive ==
  ASSUME UNCHANGED cullEnabled, DOMAIN volumes' = DOMAIN volumes, DOMAIN volumes = Volumes,
         SameVolumes, NEW sel \in Selections
  PROVE  ActiveCullVolumes(sel)' = ActiveCullVolumes(sel)
<1>1. Eligible(sel)' = Eligible(sel)
    BY DEF Eligible, Domain, SameVolumes
<1>2. \A v : Rank(Eligible(sel)', v) = Rank(Eligible(sel), v)
    BY <1>1
<1> QED
    BY <1>1, <1>2 DEF ActiveCullVolumes

\* The number a cull volume has, and so the bit every published instance names it
\* by, changes only with a publication.
THEOREM NumberingIsPublished == Spec => NumberingNeedsRevision
<1>1. ASSUME TypeInv, VolumesHaveIndex, [Next]_vars
      PROVE  ~(revision' > revision)
               => \A sel \in Selections : ActiveCullVolumes(sel)' = ActiveCullVolumes(sel)
    BY <1>1, SameRevision, SameActive
<1>2. TypeInv /\ VolumesHaveIndex /\ [Next]_vars
        => [~(revision' > revision)
              => \A sel \in Selections : ActiveCullVolumes(sel)' = ActiveCullVolumes(sel)]_vars
    BY <1>1
<1> QED
    BY <1>2, InitTypes, NextTypes, InitIndexes, NextIndexes, PTL DEF Spec, NumberingNeedsRevision
\* Their bits, kinds and links too, so every mask a snapshot publishes.
LEMMA SameMasks ==
  ASSUME UNCHANGED cullEnabled, DOMAIN volumes' = DOMAIN volumes, DOMAIN volumes = Volumes,
         SameVolumes, NEW sel \in Selections
  PROVE  /\ \A p : CullLinksOf(sel, p)' = CullLinksOf(sel, p)
         /\ \A kind : CullKind(sel, kind)' = CullKind(sel, kind)
<1> DEFINE active == ActiveCullVolumes(sel)
<1>1. active' = active
    BY SameActive
<1>2. \A v : MaskBit(sel, v)' = MaskBit(sel, v)
    BY <1>1 DEF MaskBit, Rank
<1>3. \A v \in active : v \in Volumes /\ volumes[v] # None
    BY DEF ActiveCullVolumes, Eligible, Domain
<1>4. \A p : \A v \in active : Links(v, p)' = Links(v, p)
    BY <1>3 DEF Links, SameVolumes
<1>5. \A p : {v \in active : Links(v, p)}' = {v \in active : Links(v, p)}
    BY <1>1, <1>4
<1>6. \A kind : {v \in active : kind \in volumes[v].kinds}' = {v \in active : kind \in volumes[v].kinds}
    BY <1>1, <1>3 DEF SameVolumes
<1>7. ASSUME NEW p PROVE CullLinksOf(sel, p)' = CullLinksOf(sel, p)
    BY <1>2, <1>5 DEF CullLinksOf, Linking
<1>8. ASSUME NEW kind PROVE CullKind(sel, kind)' = CullKind(sel, kind)
    BY <1>2, <1>6 DEF CullKind, Affecting
<1> QED
    BY <1>7, <1>8

\* The material table and every resolution in it are read off the materials.
LEMMA SameMaterials ==
  ASSUME UNCHANGED <<materials, fallback>>
  PROVE  MaterialTable' = MaterialTable /\ \A p : Resolve(p)' = Resolve(p)
<1>1. Compiled' = Compiled
    BY DEF Compiled, Domain
<1>2. \A p, q : Alike(p, q)' = Alike(p, q)
    BY DEF Alike
<1>3. Representatives' = Representatives
    BY <1>1, <1>2 DEF Representatives
<1>4. \A p : MaterialIndex(p)' = MaterialIndex(p)
    BY <1>2, <1>3 DEF MaterialIndex, Rank
<1>5. MaterialTable' = MaterialTable
  <2> DEFINE Named(i) == CHOOSE p \in Representatives : MaterialIndex(p) = i
             Shown(i) == IF i = 0 THEN fallback ELSE materials[Named(i)].program
             indices == 0 .. Cardinality(Representatives)
  <2>1. \A i : Named(i)' = Named(i)
      BY <1>3, <1>4
  <2>2. ASSUME NEW i PROVE Shown(i)' = Shown(i)
    <3> HIDE DEF Named
    <3>1. materials'[Named(i)'] = materials[Named(i)]
        BY <2>1
    <3> QED
        BY <3>1
  <2>3. indices' = indices
      BY <1>3
  <2> HIDE DEF Shown, indices
  <2>4. [i \in indices |-> Shown(i)]' = [i \in indices |-> Shown(i)]
      BY <2>2, <2>3
  <2> QED
      BY <2>4 DEF MaterialTable, Shown, indices
<1>6. \A p : Resolve(p)' = Resolve(p)
    BY <1>1, <1>4 DEF Resolve
<1> QED
    BY <1>5, <1>6

\* The lights and the environment are read off the lights.
LEMMA SameLights ==
  ASSUME UNCHANGED lights
  PROVE  Environment' = Environment /\ Emitters' = Emitters
<1>1. Domes' = Domes /\ Domain(lights)' = Domain(lights)
    BY DEF Domes, Domain
<1>2. Textured' = Textured
    BY <1>1 DEF Textured
<1>3. First(Textured)' = First(Textured) /\ First(Domes)' = First(Domes)
    BY <1>1, <1>2 DEF First
<1> QED
    BY <1>1, <1>2, <1>3 DEF Environment, Emitters

\* No step that leaves the revision changes anything a snapshot would return.
LEMMA SameContent ==
  ASSUME UNCHANGED <<prims, materials, lights, cullEnabled, fallback>>,
         DOMAIN volumes' = DOMAIN volumes, DOMAIN volumes = Volumes,
         SameVolumes, NEW sel \in Selections
  PROVE  Content(sel)' = Content(sel)
<1>1. ActiveCullVolumes(sel)' = ActiveCullVolumes(sel)
    BY SameActive
<1>2. Drawn(sel)' = Drawn(sel)
    BY DEF Drawn, Domain
<1>3. \A p : Draw(sel, p)' = Draw(sel, p)
    BY SameMasks, SameMaterials DEF Draw
<1>4. [p \in Drawn(sel) |-> Draw(sel, p)]' = [p \in Drawn(sel) |-> Draw(sel, p)]
    BY <1>2, <1>3
<1> QED
    BY <1>1, <1>4, SameMasks, SameMaterials, SameLights DEF Content

\* The render pass publishes again exactly when the revision moved, and that is
\* enough: prims, materials as they compile, lights and cull volume masks.
THEOREM RevisionIsEnough == Spec => RevisionCoversContent
<1>1. ASSUME TypeInv, VolumesHaveIndex, [Next]_vars
      PROVE  ~(revision' > revision) => \A sel \in Selections : Content(sel)' = Content(sel)
    BY <1>1, SameRevision, SameContent
<1>2. TypeInv /\ VolumesHaveIndex /\ [Next]_vars
        => [~(revision' > revision) => \A sel \in Selections : Content(sel)' = Content(sel)]_vars
    BY <1>1
<1> QED
    BY <1>2, InitTypes, NextTypes, InitIndexes, NextIndexes, PTL DEF Spec, RevisionCoversContent

\* A step that leaves the cull volumes' own revision leaves the volumes.
LEMMA SameCullRevision ==
  ASSUME TypeInv, [Next]_vars, ~(cullRevision' > cullRevision)
  PROVE  UNCHANGED <<volumes, cullEnabled>>
<1>1. cullRevision' # cullRevision + 1
    BY DEF TypeInv, StoreTypeOK
<1>2. CASE UNCHANGED vars
    BY <1>2 DEF vars, published
<1> QED
    BY <1>1, <1>2
    DEF Next, Publish, SyncMesh, SyncSplats, SyncMaterial, SyncLight, SyncCullVolume, Settings,
        Compile, Consume, CompleteNext, PublishMesh, UpdateMeshPlacement, PublishSplats,
        RemovePrim, PublishMaterial, RemoveMaterial, PublishLight, RemoveLight, SetLight,
        PublishCullVolume, RemoveCullVolume, SetCullVolumesEnabled, SetFallbackMaterial,
        CompileBoundMaterials, CompletePendingMaterial, Snapshot, UploadCullVolumes, CommitHistory, published

\* The table is read off the volumes, and so are the numbers in it.
LEMMA SameTable ==
  ASSUME UNCHANGED <<volumes, cullEnabled>>, NEW sel \in Selections
  PROVE  CullTable(sel)' = CullTable(sel)
<1>1. Eligible(sel)' = Eligible(sel)
    BY DEF Eligible, Domain
<1>2. ActiveCullVolumes(sel)' = ActiveCullVolumes(sel)
    BY <1>1 DEF ActiveCullVolumes, Rank
<1> DEFINE active == ActiveCullVolumes(sel)
           At(bit) == CHOOSE v \in active : Rank(active, v) = bit
           Entry(bit) == [volume |-> At(bit), shape |-> volumes[At(bit)].shape]
           bits == 0 .. (Cardinality(active) - 1)
<1>3. \A bit : At(bit)' = At(bit)
    BY <1>2 DEF Rank
<1>4. ASSUME NEW bit PROVE Entry(bit)' = Entry(bit)
  <2> HIDE DEF At
  <2> QED
      BY <1>3
<1>5. bits' = bits
    BY <1>2
<1> HIDE DEF Entry, bits
<1>6. [bit \in bits |-> Entry(bit)]' = [bit \in bits |-> Entry(bit)]
    BY <1>4, <1>5
<1> QED
    BY <1>6 DEF CullTable, Entry, bits

\* The table on the device, uploaded apart from the scene, is told of every change
\* to a volume, to the numbering and to the setting that turns them off.
THEOREM CullRevisionIsEnough == Spec => CullRevisionCoversTable
<1>1. TypeInv /\ [Next]_vars
        => [~(cullRevision' > cullRevision)
              => \A sel \in Selections : CullTable(sel)' = CullTable(sel)]_vars
    BY SameTable, SameCullRevision
<1> QED
    BY <1>1, InitTypes, NextTypes, PTL DEF Spec, CullRevisionCoversTable

-----------------------------------------------------------------------------
(* Places in an ordered map: a volume's bit, a material's index.           *)

LEMMA HasLeast ==
  ASSUME NEW S \in SUBSET Nat, S # {}
  PROVE  \E x \in S : \A y \in S : x <= y
<1>1. PICK x \in S : \A y \in S : ~(<<y, x>> \in OpToRel(<, Nat))
    BY NatLessThanWellFounded, WFMin
<1>2. ASSUME NEW y \in S PROVE x <= y
  <2>1. ~(y < x)
      BY <1>1 DEF OpToRel
  <2> QED
      BY <2>1
<1> QED
    BY <1>2

\* A member's rank is a number below the size, and grows with the member.
LEMMA RankCounts ==
  ASSUME NEW S \in SUBSET Nat, IsFiniteSet(S), NEW x \in S
  PROVE  /\ Rank(S, x) \in Nat /\ Rank(S, x) < Cardinality(S)
         /\ \A y \in S : x < y => Rank(S, x) < Rank(S, y)
<1> DEFINE below(z) == {y \in S : y < z}
<1>1. \A T \in SUBSET S : IsFiniteSet(T) /\ Cardinality(T) \in Nat /\ Cardinality(S) \in Nat
    BY FS_Subset, FS_CardinalityType
<1>2. below(x) \subseteq S /\ x \notin below(x)
    OBVIOUS
<1>3. Cardinality(below(x)) < Cardinality(S)
  <2>1. Cardinality(below(x)) <= Cardinality(S) /\ Cardinality(below(x)) # Cardinality(S)
      BY <1>2, FS_Subset
  <2> QED
      BY <1>1, <1>2, <2>1
<1>4. ASSUME NEW y \in S, x < y PROVE Cardinality(below(x)) < Cardinality(below(y))
  <2>1. below(x) \subseteq below(y) /\ x \in below(y) /\ below(y) \subseteq S
    <3>1. \A z \in S : z \in Nat
        OBVIOUS
    <3>2. \A z \in S : z < x => z < y
        BY <1>4, <3>1
    <3> QED
        BY <1>4, <3>2
  <2>2. Cardinality(below(x)) <= Cardinality(below(y)) /\ Cardinality(below(x)) # Cardinality(below(y))
      BY <1>1, <1>2, <2>1, FS_Subset
  <2> QED
      BY <1>1, <1>2, <2>1, <2>2
<1> QED
    BY <1>1, <1>2, <1>3, <1>4 DEF Rank

LEMMA NumbersBelow ==
  ASSUME NEW n \in Nat
  PROVE  IsFiniteSet(0 .. (n - 1)) /\ Cardinality(0 .. (n - 1)) = n
<1>1. /\ IsFiniteSet(0 .. (n - 1))
      /\ Cardinality(0 .. (n - 1)) = IF 0 > n - 1 THEN 0 ELSE (n - 1) - 0 + 1
  <2>1. 0 \in Int /\ n - 1 \in Int
      OBVIOUS
  <2> QED
      BY <2>1, FS_Interval, Zenon
<1> QED
    BY <1>1

\* Different members have different ranks, and the ranks are all the numbers below the size.
LEMMA RanksAreDense ==
  ASSUME NEW S \in SUBSET Nat, IsFiniteSet(S)
  PROVE  /\ \A x, y \in S : Rank(S, x) = Rank(S, y) => x = y
         /\ {Rank(S, x) : x \in S} = 0 .. (Cardinality(S) - 1)
<1> DEFINE n == Cardinality(S)
           rank == [x \in S |-> Rank(S, x)]
<1>1. \A x \in S : Rank(S, x) \in Nat /\ Rank(S, x) < n
    BY RankCounts
<1>2. \A x, y \in S : Rank(S, x) = Rank(S, y) => x = y
  <2>1. ASSUME NEW x \in S, NEW y \in S, x < y PROVE Rank(S, x) # Rank(S, y)
      BY <2>1, <1>1, RankCounts
  <2>2. \A x, y \in S : x < y \/ y < x \/ x = y
      OBVIOUS
  <2> QED
      BY <2>1, <2>2
<1>3. n \in Nat
    BY FS_CardinalityType
<1>4. rank \in Injection(S, 0 .. (n - 1))
    BY <1>1, <1>2, <1>3 DEF Injection, IsInjective
<1>5. IsFiniteSet(0 .. (n - 1)) /\ Cardinality(0 .. (n - 1)) = n
    BY <1>3, NumbersBelow
<1>6. rank \in Surjection(S, 0 .. (n - 1))
    BY <1>4, <1>5, FS_Injection
<1>7. {Rank(S, x) : x \in S} = 0 .. (n - 1)
  <2>1. \A i \in 0 .. (n - 1) : \E x \in S : Rank(S, x) = i
      BY <1>6 DEF Surjection
  <2> QED
      BY <1>1, <1>3, <2>1
<1> QED
    BY <1>2, <1>7

\* A member of what is cut off an ordered set after so many members has the rank it had.
LEMMA FirstMembers ==
  ASSUME NEW S \in SUBSET Nat, IsFiniteSet(S), NEW n \in Nat,
         NEW T, T = {x \in S : Rank(S, x) < n}
  PROVE  IsFiniteSet(T) /\ Cardinality(T) <= n
<1>1. IsFiniteSet(T)
    BY FS_Subset
<1>2. [x \in T |-> Rank(S, x)] \in Injection(T, 0 .. (n - 1))
  <2>1. \A x \in T : x \in S /\ Rank(S, x) \in 0 .. (n - 1)
      BY RankCounts
  <2>2. \A x, y \in T : Rank(S, x) = Rank(S, y) => x = y
      BY RanksAreDense
  <2> QED
      BY <2>1, <2>2 DEF Injection, IsInjective
<1>3. IsFiniteSet(0 .. (n - 1)) /\ Cardinality(0 .. (n - 1)) = n
    BY NumbersBelow
<1> QED
    BY <1>1, <1>2, <1>3, FS_Injection

-----------------------------------------------------------------------------
(* The masks held and the table they are bits of.                          *)

LEMMA ActiveVolumes ==
  ASSUME TypeInv, NEW sel \in Selections
  PROVE  LET active == ActiveCullVolumes(sel)
         IN  /\ active \in SUBSET Nat /\ IsFiniteSet(active)
             /\ Cardinality(active) \in Nat /\ Cardinality(active) <= MaxCullVolumes
<1> DEFINE active == ActiveCullVolumes(sel)
<1>1. Eligible(sel) \in SUBSET Nat /\ IsFiniteSet(Eligible(sel))
  <2>1. Eligible(sel) \subseteq Volumes
      BY DEF TypeInv, StoreTypeOK, Eligible, Domain
  <2> QED
      BY <2>1, PathsAreOrdered, FS_Subset
<1>2. active \in SUBSET Nat /\ IsFiniteSet(active) /\ Cardinality(active) <= MaxCullVolumes
  <2>1. CASE cullEnabled
    <3>1. active = {v \in Eligible(sel) : Rank(Eligible(sel), v) < MaxCullVolumes}
        BY <2>1 DEF ActiveCullVolumes
    <3> QED
        BY <1>1, <3>1, FirstMembers, BoundsAreNatural
  <2>2. CASE ~cullEnabled
      BY <2>2, FS_EmptySet, BoundsAreNatural DEF ActiveCullVolumes
  <2> QED
      BY <2>1, <2>2
<1> QED
    BY <1>2, FS_CardinalityType

\* The two numberings agree: the entry of the table at an active volume's bit is
\* that volume's.
LEMMA BitsNameVolumes ==
  ASSUME TypeInv, NEW sel \in Selections
  PROVE  /\ DOMAIN CullTable(sel) \subseteq 0 .. (MaxCullVolumes - 1)
         /\ \A v \in ActiveCullVolumes(sel) :
              /\ MaskBit(sel, v) \in DOMAIN CullTable(sel)
              /\ CullTable(sel)[MaskBit(sel, v)].volume = v
         /\ \A bit \in DOMAIN CullTable(sel) :
              CullTable(sel)[bit].shape = volumes[CullTable(sel)[bit].volume].shape
<1> DEFINE active == ActiveCullVolumes(sel)
           n == Cardinality(active)
           At(bit) == CHOOSE v \in active : Rank(active, v) = bit
<1>1. /\ active \in SUBSET Nat /\ IsFiniteSet(active)
      /\ n \in Nat /\ n <= MaxCullVolumes
    BY ActiveVolumes
<1>2. /\ DOMAIN CullTable(sel) = 0 .. (n - 1)
      /\ \A bit \in 0 .. (n - 1) :
           CullTable(sel)[bit] = [volume |-> At(bit), shape |-> volumes[At(bit)].shape]
    BY DEF CullTable
<1>3. ASSUME NEW v \in active
      PROVE  Rank(active, v) \in 0 .. (n - 1) /\ At(Rank(active, v)) = v
  <2>1. Rank(active, v) \in Nat /\ Rank(active, v) < n
      BY <1>1, RankCounts
  <2>2. \A w \in active : Rank(active, w) = Rank(active, v) => w = v
      BY <1>1, RanksAreDense
  <2> QED
      BY <1>1, <2>1, <2>2
<1>4. DOMAIN CullTable(sel) \subseteq 0 .. (MaxCullVolumes - 1)
    BY <1>1, <1>2, BoundsAreNatural
<1> HIDE DEF At
<1> QED
    BY <1>2, <1>3, <1>4 DEF MaskBit

\* So bits counted for some of the active volumes name those volumes.
LEMMA NamedAre ==
  ASSUME TypeInv, NEW sel \in Selections, NEW S \in SUBSET ActiveCullVolumes(sel)
  PROVE  LET bits == {MaskBit(sel, v) : v \in S}
         IN  /\ bits \subseteq DOMAIN CullTable(sel)
             /\ {CullTable(sel)[bit].volume : bit \in bits} = S
BY BitsNameVolumes

HeldInv ==
  /\ masks # None => masks.selection \in Selections /\ masks = Masks(masks.selection)
  /\ table # None => masks # None /\ table = CullTable(masks.selection)

\* The masks of a snapshot taken again at the same revision would be the same.
LEMMA MasksStay ==
  ASSUME UNCHANGED <<prims, materials, lights, cullEnabled, fallback>>,
         DOMAIN volumes' = DOMAIN volumes, DOMAIN volumes = Volumes,
         SameVolumes, NEW sel \in Selections
  PROVE  Masks(sel)' = Masks(sel)
<1>1. Drawn(sel)' = Drawn(sel)
    BY DEF Drawn, Domain
<1>2. \A p : Draw(sel, p)' = Draw(sel, p)
    BY SameMasks, SameMaterials DEF Draw
<1>3. [p \in Drawn(sel) |-> Draw(sel, p).cullLinks]' = [p \in Drawn(sel) |-> Draw(sel, p).cullLinks]
    BY <1>1, <1>2
<1> QED
    BY <1>3, SameMasks DEF Masks

\* A step that publishes nothing leaves what would be read.
LEMMA NothingRead ==
  ASSUME TypeInv, UNCHANGED <<published, sceneIndex>>, NEW sel \in Selections
  PROVE  Masks(sel)' = Masks(sel) /\ CullTable(sel)' = CullTable(sel)
<1>1. /\ UNCHANGED <<prims, materials, lights, cullEnabled, fallback, volumes>>
      /\ DOMAIN volumes' = DOMAIN volumes /\ DOMAIN volumes = Volumes /\ SameVolumes
    BY DEF published, SameVolumes, TypeInv, StoreTypeOK
<1> QED
    BY <1>1, MasksStay, SameTable

LEMMA InitHeld == Init => HeldInv
BY DEF Init, HeldInv

LEMMA NextHeld == TypeInv /\ VolumesHaveIndex /\ HeldInv /\ [Next]_vars => HeldInv'
<1> SUFFICES ASSUME TypeInv, VolumesHaveIndex, HeldInv, [Next]_vars PROVE HeldInv'
    OBVIOUS
<1>1. ASSUME Supersede PROVE HeldInv'
  <2>1. CASE revision' = revision
    <3>1. ~(revision' > revision)
        BY <2>1 DEF TypeInv, StoreTypeOK
    <3>2. masks' = masks /\ \A sel \in Selections : Masks(sel)' = Masks(sel)
        BY <1>1, <2>1, <3>1, SameRevision, MasksStay DEF Supersede
    <3>3. CASE cullRevision' = cullRevision
      <4>1. ~(cullRevision' > cullRevision)
          BY <3>3 DEF TypeInv, StoreTypeOK
      <4>2. table' = table /\ \A sel \in Selections : CullTable(sel)' = CullTable(sel)
          BY <1>1, <2>1, <3>3, <4>1, SameCullRevision, SameTable DEF Supersede
      <4> QED
          BY <3>2, <4>2 DEF HeldInv
    <3>4. CASE cullRevision' # cullRevision
        BY <1>1, <3>2, <3>4 DEF HeldInv, Supersede
    <3> QED
        BY <3>3, <3>4
  <2>2. CASE revision' # revision
      BY <1>1, <2>2 DEF HeldInv, Supersede
  <2> QED
      BY <2>1, <2>2
<1>2. ASSUME NEW sel \in Selections, Snapshot(sel) PROVE HeldInv'
  <2>1. /\ masks' = Masks(sel) /\ table' = None
        /\ UNCHANGED <<published, sceneIndex>>
      BY <1>2 DEF Snapshot
  <2>2. Masks(sel)' = Masks(sel)
      BY <2>1, NothingRead
  <2>3. Masks(sel).selection = sel
      BY DEF Masks
  <2> QED
      BY <2>1, <2>2, <2>3 DEF HeldInv
<1>3. ASSUME UploadCullVolumes PROVE HeldInv'
  <2>1. /\ masks # None /\ masks' = masks /\ table' = CullTable(masks.selection)
        /\ UNCHANGED <<published, sceneIndex>>
      BY <1>3 DEF UploadCullVolumes
  <2> QED
      BY <2>1, NothingRead DEF HeldInv
<1>4. ASSUME UNCHANGED <<published, sceneIndex, held>> PROVE HeldInv'
    BY <1>4, NothingRead DEF HeldInv, held
<1>5. CASE CommitHistory
    BY <1>4, <1>5 DEF CommitHistory
<1>6. CASE UNCHANGED vars
    BY <1>4, <1>6 DEF vars
<1> QED
    BY <1>1, <1>2, <1>3, <1>5, <1>6 DEF Next, Consume

\* Whatever volumes come, go, hide, move or change what they link between the
\* snapshot and the upload and after both, and however many there are: as long as
\* no revision the pass compares has moved, the bits of the masks it holds are
\* bits of the table it holds and name the volumes that link the prim now.
THEOREM MasksAreOfTheTable == Spec => []MasksNameTheTable
<1>1. TypeInv /\ HeldInv => MasksNameTheTable
  <2> SUFFICES ASSUME TypeInv, HeldInv, masks # None, table # None
               PROVE  MasksNameTheTable
      BY DEF MasksNameTheTable
  <2> DEFINE sel == masks.selection
             Named(bits) == {table[bit].volume : bit \in bits}
  <2>1. sel \in Selections /\ masks = Masks(sel) /\ table = CullTable(sel)
      BY DEF HeldInv
  <2>2. /\ masks.primary = CullKind(sel, "primary")
        /\ masks.secondary = CullKind(sel, "secondary")
        /\ \A p \in DOMAIN masks.links : masks.links[p] = CullLinksOf(sel, p)
      BY <2>1 DEF Masks, Draw
  <2> HIDE DEF sel
  <2>3. ASSUME NEW S \in SUBSET ActiveCullVolumes(sel), NEW bits, bits = {MaskBit(sel, v) : v \in S}
        PROVE  bits \subseteq DOMAIN table /\ Named(bits) = S
    <3>1. /\ bits \subseteq DOMAIN CullTable(sel)
          /\ {CullTable(sel)[bit].volume : bit \in bits} = S
        BY <2>1, <2>3, NamedAre
    <3> QED
        BY <2>1, <3>1
  <2> HIDE DEF Named
  <2>4. ASSUME NEW kind
        PROVE  CullKind(sel, kind) \subseteq DOMAIN table /\ Named(CullKind(sel, kind)) = Affecting(sel, kind)
    <3>1. Affecting(sel, kind) \in SUBSET ActiveCullVolumes(sel)
        BY DEF Affecting
    <3> QED
        BY <2>3, <3>1 DEF CullKind
  <2>6. ASSUME NEW p
        PROVE  CullLinksOf(sel, p) \subseteq DOMAIN table /\ Named(CullLinksOf(sel, p)) = Linking(sel, p)
    <3>1. Linking(sel, p) \in SUBSET ActiveCullVolumes(sel)
        BY DEF Linking
    <3> QED
        BY <2>3, <3>1 DEF CullLinksOf
  <2>5. /\ DOMAIN table \subseteq 0 .. (MaxCullVolumes - 1)
        /\ \A bit \in DOMAIN table : table[bit].shape = volumes[table[bit].volume].shape
      BY <2>1, BitsNameVolumes
  <2> QED
      BY <2>2, <2>4, <2>5, <2>6 DEF MasksNameTheTable, Named, sel
<1> QED
    BY <1>1, InitTypes, NextTypes, InitIndexes, NextIndexes, InitHeld, NextHeld, PTL DEF Spec

-----------------------------------------------------------------------------
(* Materials that share an index.                                          *)

\* Of the materials that compiled to one program, one stands in the table.
LEMMA OneRepresentative ==
  ASSUME TypeInv, NEW p \in Compiled
  PROVE  /\ \E q \in Representatives : Alike(p, q)
         /\ \A q, r \in Representatives : Alike(p, q) /\ Alike(p, r) => q = r
<1>1. Compiled \subseteq Materials /\ Compiled \subseteq Nat
    BY PathsAreOrdered DEF TypeInv, StoreTypeOK, Compiled, Domain
<1>2. \A q, r, s \in Compiled : Alike(q, r) /\ Alike(q, s) => Alike(r, s)
    BY DEF Alike
<1>3. Alike(p, p)
    BY DEF Alike
<1>4. PICK q \in {r \in Compiled : Alike(p, r)} : \A r \in {s \in Compiled : Alike(p, s)} : q <= r
  <2>1. {r \in Compiled : Alike(p, r)} \in SUBSET Nat /\ p \in {r \in Compiled : Alike(p, r)}
      BY <1>1, <1>3
  <2> QED
      BY <2>1, HasLeast
<1>5. q \in Representatives
  <2>1. ASSUME NEW r \in Compiled, r < q, Alike(q, r) PROVE FALSE
    <3>1. Alike(p, r)
        BY <1>2, <1>4, <2>1 DEF Alike
    <3>2. q <= r
        BY <1>4, <3>1
    <3> QED
        BY <1>1, <1>4, <2>1, <3>2
  <2> QED
      BY <1>4, <2>1 DEF Representatives, Alike
<1>6. ASSUME NEW r \in Representatives, NEW s \in Representatives, Alike(p, r), Alike(p, s)
      PROVE  r = s
  <2>1. Alike(r, s) /\ Alike(s, r) /\ r \in Nat /\ s \in Nat
      BY <1>1, <1>2, <1>6 DEF Representatives
  <2>2. ~(r < s) /\ ~(s < r)
      BY <2>1 DEF Representatives
  <2> QED
      BY <2>1, <2>2
<1> QED
    BY <1>4, <1>5, <1>6

\* The table holds, at a material's index, what its own network compiled to, whichever
\* materials share programs and whichever came or went: for any number of them.
THEOREM ResolutionIsOwn == Spec => []ResolvesToItsProgram
<1>1. TypeInv => ResolvesToItsProgram
  <2> SUFFICES ASSUME TypeInv, NEW p \in Materials \union {None}
               PROVE  /\ Resolve(p) \in DOMAIN MaterialTable
                      /\ MaterialTable[Resolve(p)] =
                           IF p \in Compiled THEN materials[p].program ELSE fallback
      BY DEF ResolvesToItsProgram
  <2> DEFINE reps == Representatives
             n == Cardinality(reps)
  <2>1. reps \subseteq Compiled /\ reps \in SUBSET Nat /\ IsFiniteSet(reps) /\ n \in Nat
    <3>1. reps \subseteq Compiled /\ Compiled \subseteq Materials
        BY DEF TypeInv, StoreTypeOK, Representatives, Compiled, Domain
    <3>2. IsFiniteSet(reps)
        BY <3>1, PathsAreOrdered, FS_Subset
    <3> QED
        BY <3>1, <3>2, PathsAreOrdered, FS_CardinalityType
  <2>2. DOMAIN MaterialTable = 0 .. n /\ MaterialTable[0] = fallback
      BY <2>1 DEF MaterialTable
  <2>3. CASE p \notin Compiled
      BY <2>1, <2>2, <2>3 DEF Resolve
  <2>4. CASE p \in Compiled
    <3> DEFINE r == CHOOSE q \in reps : Alike(p, q)
    <3>1. r \in reps /\ Alike(p, r)
        BY <2>4, OneRepresentative
    <3>2. MaterialIndex(p) = 1 + Rank(reps, r) /\ Rank(reps, r) \in Nat /\ Rank(reps, r) < n
        BY <2>1, <3>1, RankCounts DEF MaterialIndex
    <3>3. \A q \in reps : MaterialIndex(q) = 1 + Rank(reps, q)
      <4> SUFFICES ASSUME NEW q \in reps PROVE (CHOOSE s \in reps : Alike(q, s)) = q
          BY DEF MaterialIndex
      <4>1. Alike(q, q) /\ q \in Compiled
          BY <2>1 DEF Alike
      <4> QED
          BY <4>1, OneRepresentative
    <3>4. (CHOOSE q \in reps : MaterialIndex(q) = MaterialIndex(p)) = r
      <4>1. MaterialIndex(r) = MaterialIndex(p)
          BY <3>1, <3>2, <3>3
      <4>2. \A q \in reps : MaterialIndex(q) = MaterialIndex(p) => q = r
        <5>1. ASSUME NEW q \in reps, MaterialIndex(q) = MaterialIndex(p) PROVE q = r
          <6>1. Rank(reps, q) \in Nat /\ Rank(reps, q) = Rank(reps, r)
              BY <2>1, <3>2, <3>3, <5>1, RankCounts
          <6> QED
              BY <2>1, <3>1, <6>1, RanksAreDense
        <5> QED
            BY <5>1
      <4> QED
          BY <3>1, <4>1, <4>2
    <3>5. MaterialIndex(p) \in 0 .. n /\ MaterialIndex(p) # 0
        BY <2>1, <3>2
    <3>6. MaterialTable[MaterialIndex(p)] = materials[r].program
        BY <3>4, <3>5 DEF MaterialTable
    <3> QED
        BY <2>2, <2>4, <3>1, <3>5, <3>6 DEF Resolve, Alike
  <2> QED
      BY <2>3, <2>4
<1> QED
    BY <1>1, InitTypes, NextTypes, PTL DEF Spec
=============================================================================
