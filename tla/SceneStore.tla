----------------------------- MODULE SceneStore -----------------------------
(***************************************************************************)
(* The scene store (src/hydra/scene_store.cpp): what every Hydra prim      *)
(* publishes into and what the render pass snapshots from.  Every method   *)
(* takes the store's one mutex, so every method is one action.             *)
(*                                                                         *)
(* Paths are natural numbers, because the store's maps are ordered by path *)
(* and three things it computes depend on that order: the bit a cull       *)
(* volume gets, the index a material gets, and which dome is "first".      *)
(***************************************************************************)
EXTENDS Integers, FiniteSets, Sequences

CONSTANTS
  Meshes, Splats,      \* rprim paths: meshes and curves; splat clouds
  Materials,           \* material paths
  Lights, Volumes,     \* light and cull volume paths
  Transforms,          \* placements: one transform per instance
  Networks, Programs,  \* authored material networks; what they compile to
  Compilation,         \* the program of a network, None if it has no SPIR-V
  MeshEntries,         \* what a mesh Sync can publish
  SplatEntries,        \* what a particle field Sync can publish
  MaterialEntries,     \* what a material Sync can publish
  LightEntries,        \* what a light Sync can publish
  VolumeEntries,       \* what a cull volume Sync can publish
  Selections,          \* what a render pass can draw (HdClaudeDrawSelection)
  IncludesRprim,       \* the rprims a selection includes
  IncludesPurpose,     \* the cull volume purposes a selection includes
  MaxCullVolumes,      \* kMaxCullVolumes
  None,                \* an absent entry, path, program, network or history
  MaxRevision          \* a bound: publications stop when it is reached

Prims == Meshes \union Splats
Domain(f) == {x \in DOMAIN f : f[x] # None}

PrimEntry == [geometry : BOOLEAN, transforms : Transforms, visible : BOOLEAN,
              material : Materials \union {None}, subset : Materials \union {None}]
MaterialEntry == [network : Networks \union {None}, pending : BOOLEAN,
                  program : Programs \union {None}, shared : BOOLEAN]
HeldMaterial == [network : Networks \union {None}, pending : BOOLEAN,
                 program : Programs \union {None}, shared : BOOLEAN,
                 generation : Nat]

ASSUME PathsAreOrdered ==
  /\ Materials \subseteq Nat /\ Lights \subseteq Nat /\ Volumes \subseteq Nat
  /\ IsFiniteSet(Materials) /\ IsFiniteSet(Volumes)
  /\ Meshes \intersect Splats = {}

ASSUME EntriesAreTyped ==
  /\ MeshEntries \subseteq PrimEntry /\ SplatEntries \subseteq PrimEntry
  /\ MaterialEntries \subseteq MaterialEntry
  /\ \A e \in MaterialEntries : e.pending => e.network \in Networks
  /\ Compilation \in [Networks -> Programs \union {None}]

ASSUME NoneIsAbsence ==
  /\ None \notin PrimEntry /\ None \notin HeldMaterial
  /\ None \notin LightEntries /\ None \notin VolumeEntries
  /\ None \notin Materials /\ None \notin Networks /\ None \notin Programs

ASSUME BoundsAreNatural == MaxCullVolumes \in Nat /\ MaxRevision \in Nat

VARIABLES
  prims,              \* _meshes and _splats
  materials,          \* _materials
  lights,             \* _lights
  volumes,            \* _cullVolumes
  cullEnabled,        \* _cullVolumesEnabled
  sceneIndex,         \* whether _sceneIndex is set
  fallback,           \* _fallback
  revision,           \* _revision
  cullRevision,       \* _cullRevision
  materialGeneration, \* _materialGeneration
  compiling,          \* pending materials copied out and not yet completed
  previous,           \* _previousTransforms, _previousSplatTransforms
  pending,            \* _pendingTransforms, _pendingSplatTransforms
  historyPending,     \* _historyPending
  masks,              \* the cull masks the pass would trace with, None if it
                      \* would take a snapshot first
  table               \* the volumes they are bits of, None if not uploaded

published == <<prims, materials, lights, volumes, cullEnabled, fallback>>
history == <<previous, pending, historyPending>>
held == <<masks, table>>
vars == <<published, sceneIndex, revision, cullRevision, materialGeneration,
          compiling, history, held>>

Init ==
  /\ prims = [p \in Prims |-> None]
  /\ materials = [p \in Materials |-> None]
  /\ lights = [p \in Lights |-> None]
  /\ volumes = [p \in Volumes |-> None]
  /\ cullEnabled = TRUE
  /\ sceneIndex = FALSE
  /\ fallback = None
  /\ revision = 1
  /\ cullRevision = 1
  /\ materialGeneration = 0
  /\ compiling = {}
  /\ previous = [p \in Prims |-> None]
  /\ pending = [p \in Prims |-> None]
  /\ historyPending = FALSE
  /\ masks = None
  /\ table = None

-----------------------------------------------------------------------------
(* What a snapshot is made of.                                             *)

\* The active volumes: visible and of an included purpose, and the first
\* MaxCullVolumes of those by path.
Eligible(sel) ==
  {v \in Domain(volumes) : volumes[v].visible /\ volumes[v].purpose \in IncludesPurpose[sel]}

Rank(S, x) == Cardinality({y \in S : y < x})

ActiveCullVolumes(sel) ==
  LET eligible == Eligible(sel)
  IN  IF cullEnabled THEN {v \in eligible : Rank(eligible, v) < MaxCullVolumes} ELSE {}

\* Mutant: a bit counted among all the volumes, those hidden included.
MaskBit_unfiltered(sel, v) == Rank(Domain(volumes), v)

\* A volume's bit in the masks of a snapshot, counted by the snapshot's loop.
MaskBit(sel, v) == Rank(ActiveCullVolumes(sel), v)

\* CullVolumes(), called later and apart from the snapshot: the volumes in the
\* order pushed, bit by bit.  The path is not in the entry the code pushes; it
\* is there to say whose entry it is.
CullTable(sel) ==
  LET active == ActiveCullVolumes(sel)
      At(bit) == CHOOSE v \in active : Rank(active, v) = bit
  IN  [bit \in 0 .. (Cardinality(active) - 1) |->
         [volume |-> At(bit), shape |-> volumes[At(bit)].shape]]

Links(v, p) == \/ volumes[v].linksEverything
               \/ sceneIndex /\ p \in volumes[v].cullLink

Linking(sel, p) == {v \in ActiveCullVolumes(sel) : Links(v, p)}
Affecting(sel, kind) == {v \in ActiveCullVolumes(sel) : kind \in volumes[v].kinds}

CullLinksOf(sel, p) == {MaskBit(sel, v) : v \in Linking(sel, p)}
CullKind(sel, kind) == {MaskBit(sel, v) : v \in Affecting(sel, kind)}

\* The material table: compiled materials by path, those that share a content
\* key once, after the fallback at index 0.
Compiled == {p \in Domain(materials) : materials[p].program # None}

Alike(p, q) == \/ p = q
               \/ /\ materials[p].shared /\ materials[q].shared
                  /\ materials[p].program = materials[q].program

Representatives == {p \in Compiled : ~\E q \in Compiled : q < p /\ Alike(p, q)}

MaterialIndex(p) ==
  1 + Rank(Representatives, CHOOSE q \in Representatives : Alike(p, q))

MaterialTable ==
  [i \in 0 .. Cardinality(Representatives) |->
     IF i = 0 THEN fallback
     ELSE materials[CHOOSE p \in Representatives : MaterialIndex(p) = i].program]

\* Mutant: sharing forgotten, the index taken among all that compiled.
Resolve_unshared(p) == IF p \in Compiled THEN 1 + Rank(Compiled, p) ELSE 0
Resolve(p) == IF p \in Compiled THEN MaterialIndex(p) ELSE 0

\* The prims a snapshot draws.
Drawn(sel) ==
  {p \in Domain(prims) : prims[p].geometry /\ prims[p].visible /\ p \in IncludesRprim[sel]}

Draw(sel, p) ==
  [transforms |-> prims[p].transforms,
   material   |-> IF p \in Meshes THEN Resolve(prims[p].material) ELSE 0,
   subset     |-> IF p \in Meshes /\ prims[p].subset # None
                    THEN Resolve(prims[p].subset) ELSE None,
   cullLinks  |-> CullLinksOf(sel, p)]

\* Lights, and the environment the domes make: the first textured dome
\* supplies the map, the first dome the links, and the stand-in sky is used
\* only by a stage with neither a dome nor an emitter.
Domes == {l \in Domain(lights) : lights[l].dome}
First(S) == CHOOSE x \in S : \A y \in S : x <= y
Textured == {l \in Domes : lights[l].map # None}

Environment ==
  [domes |-> [l \in Domes |-> lights[l].color],
   map   |-> IF Textured = {} THEN None ELSE lights[First(Textured)].map,
   links |-> IF Domes = {} THEN None ELSE lights[First(Domes)].links,
   sky   |-> Domain(lights) = {}]

Emitters == [l \in Domain(lights) \ Domes |-> lights[l]]

\* What Snapshot returns, without the history and the revision it stamps.
Content(sel) ==
  [drawn       |-> [p \in Drawn(sel) |-> Draw(sel, p)],
   materials   |-> MaterialTable,
   cullCount   |-> Cardinality(ActiveCullVolumes(sel)),
   primary     |-> CullKind(sel, "primary"),
   secondary   |-> CullKind(sel, "secondary"),
   environment |-> Environment,
   emitters    |-> Emitters]

-----------------------------------------------------------------------------
(* Publication, from prim Sync and Finalize.                               *)

Bump == revision' = revision + 1
CanPublish == revision < MaxRevision /\ cullRevision < MaxRevision

PublishMesh(m, e) ==
  /\ CanPublish
  /\ prims' = [prims EXCEPT ![m] = e]
  /\ Bump
  /\ UNCHANGED <<materials, lights, volumes, cullEnabled, fallback, sceneIndex,
                 cullRevision, materialGeneration, compiling, history>>

UpdateMeshPlacement(m, e) ==
  /\ CanPublish
  /\ prims[m] # None
  /\ prims' = [prims EXCEPT ![m].transforms = e.transforms,
                            ![m].visible = e.visible,
                            ![m].material = e.material]
  /\ Bump
  /\ UNCHANGED <<materials, lights, volumes, cullEnabled, fallback, sceneIndex,
                 cullRevision, materialGeneration, compiling, history>>

PublishSplats(s, e) ==
  /\ CanPublish
  /\ prims' = [prims EXCEPT ![s] = e]
  /\ Bump
  /\ UNCHANGED <<materials, lights, volumes, cullEnabled, fallback, sceneIndex,
                 cullRevision, materialGeneration, compiling, history>>

\* RemoveMesh and RemoveSplats: the entry goes, its history stays.
RemovePrim(p) ==
  /\ CanPublish
  /\ prims[p] # None
  /\ prims' = [prims EXCEPT ![p] = None]
  /\ Bump
  /\ UNCHANGED <<materials, lights, volumes, cullEnabled, fallback, sceneIndex,
                 cullRevision, materialGeneration, compiling, history>>

\* A stored material is what Sync published and the generation it was given.
Generated(e, g) ==
  [network |-> e.network, pending |-> e.pending, program |-> e.program,
   shared |-> e.shared, generation |-> g]

\* Mutant: generations counted by path, from one again after a removal.
PublishMaterial_countedByPath(p, e) ==
  /\ CanPublish
  /\ materials' = [materials EXCEPT ![p] =
       Generated(e, IF materials[p] = None THEN 1 ELSE materials[p].generation + 1)]
  /\ Bump
  /\ UNCHANGED <<prims, lights, volumes, cullEnabled, fallback, sceneIndex,
                 cullRevision, materialGeneration, compiling, history>>

PublishMaterial(p, e) ==
  /\ CanPublish
  /\ materialGeneration' = materialGeneration + 1
  /\ materials' = [materials EXCEPT ![p] = Generated(e, materialGeneration')]
  /\ Bump
  /\ UNCHANGED <<prims, lights, volumes, cullEnabled, fallback, sceneIndex,
                 cullRevision, compiling, history>>

RemoveMaterial(p) ==
  /\ CanPublish
  /\ materials[p] # None
  /\ materials' = [materials EXCEPT ![p] = None]
  /\ Bump
  /\ UNCHANGED <<prims, lights, volumes, cullEnabled, fallback, sceneIndex,
                 cullRevision, materialGeneration, compiling, history>>

SetLight(l, e) ==
  /\ CanPublish
  /\ lights' = [lights EXCEPT ![l] = e]
  /\ Bump
  /\ UNCHANGED <<prims, materials, volumes, cullEnabled, fallback, sceneIndex,
                 cullRevision, materialGeneration, compiling, history>>

PublishLight(l, e) == SetLight(l, e)
RemoveLight(l) == lights[l] # None /\ SetLight(l, None)

\* Mutants: a field the masks depend on is not compared.
Structural_ignoresKinds(v, e) ==
  \/ volumes[v] = None
  \/ volumes[v].visible # e.visible
  \/ volumes[v].purpose # e.purpose
  \/ volumes[v].linksEverything # e.linksEverything
  \/ volumes[v].cullLink # e.cullLink
Structural_ignoresVisible(v, e) ==
  \/ volumes[v] = None
  \/ volumes[v].purpose # e.purpose
  \/ volumes[v].kinds # e.kinds
  \/ volumes[v].linksEverything # e.linksEverything
  \/ volumes[v].cullLink # e.cullLink

\* Whether a published volume decides instance masks differently.
Structural(v, e) ==
  \/ volumes[v] = None
  \/ volumes[v].visible # e.visible
  \/ volumes[v].purpose # e.purpose
  \/ volumes[v].kinds # e.kinds
  \/ volumes[v].linksEverything # e.linksEverything
  \/ volumes[v].cullLink # e.cullLink

\* Mutant: the table's own revision moves only when the masks' does.
PublishCullVolume_oneRevision(v, e) ==
  /\ CanPublish
  /\ sceneIndex' = TRUE
  /\ volumes' = [volumes EXCEPT ![v] = e]
  /\ revision' = IF Structural(v, e) THEN revision + 1 ELSE revision
  /\ cullRevision' = IF Structural(v, e) THEN cullRevision + 1 ELSE cullRevision
  /\ UNCHANGED <<prims, materials, lights, cullEnabled, fallback,
                 materialGeneration, compiling, history>>

\* HdClaudeCullVolume::Sync: the scene index, then the volume.
PublishCullVolume(v, e) ==
  /\ CanPublish
  /\ sceneIndex' = TRUE
  /\ volumes' = [volumes EXCEPT ![v] = e]
  /\ revision' = IF Structural(v, e) THEN revision + 1 ELSE revision
  /\ cullRevision' = cullRevision + 1
  /\ UNCHANGED <<prims, materials, lights, cullEnabled, fallback,
                 materialGeneration, compiling, history>>

RemoveCullVolume(v) ==
  /\ CanPublish
  /\ volumes[v] # None
  /\ volumes' = [volumes EXCEPT ![v] = None]
  /\ Bump
  /\ cullRevision' = cullRevision + 1
  /\ UNCHANGED <<prims, materials, lights, cullEnabled, fallback, sceneIndex,
                 materialGeneration, compiling, history>>

SetCullVolumesEnabled(enabled) ==
  /\ CanPublish
  /\ enabled # cullEnabled
  /\ cullEnabled' = enabled
  /\ Bump
  /\ cullRevision' = cullRevision + 1
  /\ UNCHANGED <<prims, materials, lights, volumes, fallback, sceneIndex,
                 materialGeneration, compiling, history>>

SetFallbackMaterial(program) ==
  /\ CanPublish
  /\ fallback' = program
  /\ Bump
  /\ UNCHANGED <<prims, materials, lights, volumes, cullEnabled, sceneIndex,
                 cullRevision, materialGeneration, compiling, history>>

-----------------------------------------------------------------------------
(* The lazy compile (HdClaudeCompileBoundMaterials): the bound pending     *)
(* networks are copied out, compiled without the lock, and completed one   *)
(* by one.  Any publication can come in between.                           *)

BoundBy(m) == {prims[m].material, prims[m].subset}

\* Mutant: a material only a subset binds is not looked for.
Bound_meshOnly == {prims[m].material : m \in {n \in Domain(prims) \intersect Meshes :
                                         prims[n].geometry /\ prims[n].visible}}

\* Every visible mesh with geometry binds, whatever the pass selects.
Bound == UNION {BoundBy(m) : m \in {n \in Domain(prims) \intersect Meshes :
                                      prims[n].geometry /\ prims[n].visible}}

BoundPendingMaterials ==
  {[id |-> p, network |-> materials[p].network, generation |-> materials[p].generation] :
     p \in {q \in Domain(materials) : materials[q].pending /\ q \in Bound}}

CompileBoundMaterials ==
  /\ compiling = {}
  /\ BoundPendingMaterials # {}
  /\ compiling' = BoundPendingMaterials
  /\ UNCHANGED <<published, sceneIndex, revision, cullRevision,
                 materialGeneration, history>>

\* The compiled form of one request, network dropped.
CompiledForm(r) ==
  [network |-> None, pending |-> FALSE, program |-> Compilation[r.network],
   shared |-> TRUE, generation |-> r.generation]

IsCurrent(r) ==
  materials[r.id] # None /\ materials[r.id].generation = r.generation

\* Mutant: a network that does not compile is left pending.
CompletePendingMaterial_onlyCompiled(r) ==
  /\ compiling' = compiling \ {r}
  /\ IF IsCurrent(r) /\ Compilation[r.network] # None
       THEN /\ materials' = [materials EXCEPT ![r.id] = CompiledForm(r)]
            /\ Bump
       ELSE UNCHANGED <<materials, revision>>
  /\ UNCHANGED <<prims, lights, volumes, cullEnabled, fallback, sceneIndex,
                 cullRevision, materialGeneration, history>>

CompletePendingMaterial(r) ==
  /\ compiling' = compiling \ {r}
  /\ IF IsCurrent(r)
       THEN /\ materials' = [materials EXCEPT ![r.id] = CompiledForm(r)]
            /\ Bump
       ELSE UNCHANGED <<materials, revision>>
  /\ UNCHANGED <<prims, lights, volumes, cullEnabled, fallback, sceneIndex,
                 cullRevision, materialGeneration, history>>

\* The loop completes them in path order.
CompleteNext ==
  \E r \in compiling : /\ \A q \in compiling : r.id <= q.id
                       /\ CompletePendingMaterial(r)

-----------------------------------------------------------------------------
(* Consumption, from the render pass.                                      *)

\* The cull masks among what Snapshot returns.
Masks(sel) ==
  [selection |-> sel,
   links     |-> [p \in Drawn(sel) |-> Draw(sel, p).cullLinks],
   primary   |-> CullKind(sel, "primary"),
   secondary |-> CullKind(sel, "secondary")]

\* Snapshot returns Content(sel), a prim paired with previous where it has as
\* many instances as then, and remembers the placements of every prim held.
\* Published, its masks are what the pass traces with, and the pass forgets
\* the revision of its table (_uploadedCullRevision = 0).
Snapshot(sel) ==
  /\ pending' = [p \in Prims |->
                   IF prims[p] = None THEN None ELSE prims[p].transforms]
  /\ historyPending' = TRUE
  /\ masks' = Masks(sel)
  /\ table' = None
  /\ UNCHANGED <<published, sceneIndex, revision, cullRevision,
                 materialGeneration, compiling, previous>>

\* CullVolumes, for the selection that was published.
UploadCullVolumes ==
  /\ masks # None
  /\ table = None
  /\ table' = CullTable(masks.selection)
  /\ UNCHANGED <<published, sceneIndex, revision, cullRevision,
                 materialGeneration, compiling, history, masks>>

CommitHistory ==
  /\ historyPending
  /\ previous' = pending
  /\ pending' = [p \in Prims |-> None]
  /\ historyPending' = FALSE
  /\ UNCHANGED <<published, sceneIndex, revision, cullRevision,
                 materialGeneration, compiling, held>>

\* Beside every publication: what the pass holds of an older revision it does
\* not trace with again, a snapshot by the store's revision and a table by the
\* volumes' own.
Supersede ==
  /\ masks' = IF revision' = revision THEN masks ELSE None
  /\ table' = IF revision' = revision /\ cullRevision' = cullRevision THEN table ELSE None

-----------------------------------------------------------------------------
SyncMesh == \E m \in Meshes : \/ \E e \in MeshEntries : PublishMesh(m, e) \/ UpdateMeshPlacement(m, e)
                              \/ RemovePrim(m)
SyncSplats == \E s \in Splats : (\E e \in SplatEntries : PublishSplats(s, e)) \/ RemovePrim(s)
SyncMaterial == \E p \in Materials : (\E e \in MaterialEntries : PublishMaterial(p, e)) \/ RemoveMaterial(p)
SyncLight == \E l \in Lights : (\E e \in LightEntries : PublishLight(l, e)) \/ RemoveLight(l)
SyncCullVolume == \E v \in Volumes : (\E e \in VolumeEntries : PublishCullVolume(v, e)) \/ RemoveCullVolume(v)
Settings == \/ \E on \in BOOLEAN : SetCullVolumesEnabled(on)
            \/ \E f \in Programs : SetFallbackMaterial(f)
Compile == CompileBoundMaterials \/ CompleteNext
Publish == SyncMesh \/ SyncSplats \/ SyncMaterial \/ SyncLight \/ SyncCullVolume
             \/ Settings \/ Compile
Consume == (\E sel \in Selections : Snapshot(sel)) \/ UploadCullVolumes \/ CommitHistory

Next == \/ Publish /\ Supersede
        \/ Consume

Spec == Init /\ [][Next]_vars

\* The render pass runs the compile in every Execute, and each loop ends.
FairSpec == Spec /\ WF_vars(CompileBoundMaterials /\ Supersede)
                 /\ WF_vars(CompleteNext /\ Supersede)

-----------------------------------------------------------------------------
(* Properties.                                                             *)

\* Types: every map holds entries or nothing, every counter is a number.
StoreTypeOK ==
  /\ prims \in [Prims -> PrimEntry \union {None}]
  /\ materials \in [Materials -> HeldMaterial \union {None}]
  /\ lights \in [Lights -> LightEntries \union {None}]
  /\ volumes \in [Volumes -> VolumeEntries \union {None}]
  /\ cullEnabled \in BOOLEAN /\ sceneIndex \in BOOLEAN
  /\ fallback \in Programs \union {None}
  /\ revision \in Nat /\ cullRevision \in Nat /\ materialGeneration \in Nat
  /\ compiling \subseteq [id : Materials, network : Networks, generation : Nat]
  /\ previous \in [Prims -> Transforms \union {None}]
  /\ pending \in [Prims -> Transforms \union {None}]
  /\ historyPending \in BOOLEAN

TypeOK ==
  /\ StoreTypeOK
  /\ masks # None => masks.selection \in Selections
  /\ table # None => masks # None

\* A compilation that would still be accepted is of the network published now:
\* an edit, or a removal and a new publication, while it ran makes it stale.
NoStaleCompile ==
  \A r \in compiling : IsCurrent(r) =>
    /\ materials[r.id].pending
    /\ materials[r.id].network = r.network

\* Whatever the sharing of indices, the program at a binding's index is the one
\* its own material compiled to, or the fallback when it has none.
ResolvesToItsProgram ==
  \A p \in Materials \union {None} :
    /\ Resolve(p) \in DOMAIN MaterialTable
    /\ MaterialTable[Resolve(p)] =
         IF p \in Compiled THEN materials[p].program ELSE fallback

\* Two filters written apart agree: no snapshot, under any selection, draws a
\* mesh whose pending material the compile would pass over.
DrawnIsCompiled ==
  \A sel \in Selections : \A m \in Drawn(sel) \intersect Meshes :
    \A p \in BoundBy(m) \intersect Domain(materials) :
      materials[p].pending => \E r \in BoundPendingMaterials : r.id = p

\* The masks are made by one call and the table they index by another, later
\* one, and volumes come, go, hide and move in between and after.  As long as the
\* pass would trace with both, each bit of a mask is one of the table's and the
\* bits name the volumes that link the prim, or affect the kind of ray, now.
MasksNameTheTable ==
  LET Named(bits) == {table[bit].volume : bit \in bits}
      sel == masks.selection
  IN  masks # None /\ table # None =>
        /\ DOMAIN table \subseteq 0 .. (MaxCullVolumes - 1)
        /\ \A bit \in DOMAIN table : table[bit].shape = volumes[table[bit].volume].shape
        /\ \A p \in DOMAIN masks.links :
             /\ masks.links[p] \subseteq DOMAIN table
             /\ Named(masks.links[p]) = Linking(sel, p)
        /\ masks.primary \union masks.secondary \subseteq DOMAIN table
        /\ Named(masks.primary) = Affecting(sel, "primary")
        /\ Named(masks.secondary) = Affecting(sel, "secondary")

\* The one comparison the render pass makes is enough: nothing a snapshot would
\* return changes without the revision changing, compiles included.
RevisionCoversContent ==
  [][~(revision' > revision) => \A sel \in Selections : Content(sel)' = Content(sel)]_vars

\* The separate upload is told of every change to the volume table.
CullRevisionCoversTable ==
  [][~(cullRevision' > cullRevision)
       => \A sel \in Selections : CullTable(sel)' = CullTable(sel)]_vars

\* A volume moved on its own keeps its bit: the numbering the published
\* instances' links were made with changes only with the revision.
NumberingNeedsRevision ==
  [][~(revision' > revision)
       => \A sel \in Selections : ActiveCullVolumes(sel)' = ActiveCullVolumes(sel)]_vars

\* Once publications stop, nothing bound stays pending.
BoundIsCompiled == <>[](BoundPendingMaterials = {})
=============================================================================
