# hdClaude: formal specifications

hdClaude is a Hydra render delegate: a host (usdview, Solaris, `usdrecord`) syncs
a USD stage into it, and it path-traces the stage on a Vulkan device, one
`Execute` at a time, into the host's render buffers. This directory holds TLA+
models of the state the renderer keeps between those calls, the TLC instances
that check them, and proofs of what matters most about the scene store, the render pass
over the path tracer, what a publication keeps, reconstruction, the device session, the
caches on disk, the syncs of prims and the materials.

The source is cited by path from the repository's root, as in `PROJECT.json`,
whose `map` names the lines every definition stands for.

## 1. The system

| Part | Source | State it keeps | Operations |
|---|---|---|---|
| Scene store | `src/hydra/scene_store.*` | maps of meshes, splats, materials, lights, cull volumes; two revisions; a material generation; two generations of placements | publish, update, remove, snapshot, commit history |
| Deferred compile | `src/hydra/material.cpp` | the requests copied out of the store | copy out, compile, complete |
| Render pass | `src/hydra/render_pass.*` | framing, uploaded revision and selection, uploaded cull revision, sample count, failure count, convergence, the frame shown | `_Execute`, `IsConverged` |
| Render buffers | `src/hydra/render_buffer.*` | an image, whether one was written, convergence, a mapping count | allocate, clear, write, map |
| Path tracer | `src/gpu/path_tracer.*` | the published scene's resources, film, two frame slots and their descriptor sets, what the next frame is compared with, the reconstruction's resolution | `SetScene`, `SetCullVolumes`, `BeginFrame`, `EndFrame` |
| Reconstruction backend | `src/gpu/ngx_support.cpp` | a feature for one resolution, its temporal history | query sizing, evaluate |
| Acceleration structures | `src/gpu/acceleration_structure.cpp` | a cache of prototypes, the instance structure | build, compact, update |
| Vulkan context | `src/gpu/vulkan_context.cpp` | the device-lost latch, queues | submit, wait, check |
| Pipelines, caches on disk | `src/gpu/compute_pipeline.cpp`, `src/gpu/glsl_compiler.cpp`, `src/core/shader_cache.cpp`, `src/gpu/vulkan_context.cpp` | compiled modules by digest and the driver's pipeline cache, in files shared with other sessions | find, compile, store, save |
| Material compiler | `src/hydra/material_compiler.*`, `src/materialx/` | compiled materials by content key | compile |
| Textures | `src/hydra/texture_loader.*`, `dds_image.*` | a pool of slots by path and role, a maximum edge | acquire, set maximum edge |
| Prims | `src/hydra/{mesh,basis_curves,particle_field,light,cull_volume,instancer}.cpp` | retained geometry, dirty bits | sync, finalize |
| Scene index filters | `src/hydra/*scene_index*` | replaced prims, observers | notices, resync |
| Delegate | `src/hydra/render_delegate.cpp` | settings and their version, statistics | create, settings, commit |
| Core algorithms | `src/core/`, `shaders/` | none | tessellation, spectra, masks; the wavefront |

How they meet:

* Hydra **syncs** prims, in parallel and in any order, into the scene store; every
  store method takes one mutex. The store only accumulates.
* The render pass **pulls**: each `Execute` compiles the bound pending materials,
  compares the store's revision and the draw selection with what it uploaded,
  snapshots and calls `SetScene` if they differ, uploads the cull volumes if their
  own revision differs, then asks for one frame. The framing, which is everything
  whose change must restart the film, is compared separately.
* The path tracer **throws**: any allocation or submit inside `SetScene`,
  `SetCullVolumes` or `BeginFrame` can fail, the pass catches it, and nothing is
  rolled back. The next `Execute` runs over whatever was left.
* A delivered frame **commits**: the store's pending placements become the previous
  ones, and the tracer's camera and instance table become its own past. Motion
  vectors are the difference between the two.
* The host may edit the stage, rebind, reallocate and resize **between** Executes.

* Compiles run on several threads, of every session on the machine, over one **disk
  cache** without a lock.

Apart from that cache, what is hard here is not parallelism, which the store's mutex ends
at its door, but
**long sequences with failures in them**: publications that stop half-way, retries
of what was half done, caches and versions compared with something that has moved
since, and two histories (of placements, of cameras) advanced at different moments.
`PROJECT.json` lists each hazard at its line.

### What makes each part correct

* *Scene store*: one comparison of the revision is enough to know that a snapshot
  would return the same; the cull table's own revision likewise for the table; a
  compile done outside the lock never overwrites a newer publication; bits, indices
  and links in one snapshot agree with each other.
* *Render pass*: an image is of one framing and comes to every buffer at once; the sample
  count is what the film holds; converged means that every bound buffer holds the finished image; it always
  ends converged.
* *Path tracer*: a frame uses live resources of one resolution; motion is measured
  from the frame returned last; a backend's history is of the scene it is used for, as far as its revision tells.
* *Caches (textures, prototypes, materials, pipelines)*: a hit is the content asked
  for, also after a failure; a slot is not reused while something names it.
* *Disk caches*: a file is absent or whole under its name, whoever dies or writes at once;
  an answer is what compiling would give.
* *Meshes*: domains of one patch layout that meet agree on their side's rate; the budget is
  kept; arrays describe the mesh published.
* *Prims*: what the store holds of a clean prim is what a sync from nothing would publish.
* *Device session*: every handle has one owner and is destroyed before its parent, wherever a
  session fails; the device probed is the device chosen.

## 2. Modules

| Module | Models | Composes |
|---|---|---|
| `SceneStore` | `HdClaudeSceneStore` and the compile loop that runs outside its lock | |
| `SceneStore_proofs` | theorems about it | `SceneStore` |
| `PathTracer` | the tracer's calls, each with the point at which it stops | |
| `Viewport` | what `_Execute` promises the host: an abstract specification | |
| `RenderPass` | `_Execute` and the host around it, which implement it | `PathTracer`, `Viewport` |
| `RenderPass_proofs` | theorems about all three | `RenderPass` |
| `SceneResources` | what `SetScene` keeps by key: kernels, textures, displaced positions, the dome | |
| `SceneAccelerator` | `SceneAccelerator::Update` and the instance table | `SceneResources` |
| `ScenePublication` | publication after publication, each finished or thrown out of | both |
| `ScenePublication_proofs` | theorems about it | `ScenePublication` |
| `Reconstruction` | a frame's way through the tracer's reconstruction resources and `NgxBackend` | |
| `Reconstruction_proofs` | theorems about it | `Reconstruction` |
| `Device` | settings and environment, the probe and choice of a device, who owns each Vulkan handle | |
| `Device_proofs` | theorems about it | `Device` |
| `CompileMemo` | what `CompileCached` promises: an abstract specification | |
| `DiskCaches` | the shader cache and the pipeline cache file, which implement it | `CompileMemo` |
| `DiskCaches_proofs` | theorems about them | `DiskCaches` |
| `Tessellation` | pure: how finely a side is cut, and the triangles of one domain | |
| `MeshGeometry` | what a mesh's `Sync` makes of a cage | `Tessellation` |
| `PrimSync` | dirty bits, syncs, instancers, scene index filters and the frames that ask for geometry | |
| `Prims_proofs` | theorems about it and about `MeshGeometry` | `PrimSync`, `MeshGeometry` |
| `Materials` | networks, programs by content, texture slots, the traversal library | |
| `Materials_proofs` | theorems about it | `Materials` |
| `MC...` | the instances TLC checks | the module each is named after |

### SceneStore

One variable per map of the class, one action per method (`PublishMesh`,
`UpdateMeshPlacement`, `RemovePrim` for `RemoveMesh` and `RemoveSplats`, ...), because
every method holds the mutex from its first line to its last. `CompileBoundMaterials`
and `CompletePendingMaterial` are `material.cpp`'s loop: the requests are copied under
the lock, compiled without it, and completed one at a time in path order, with any
publication in between. `compiling` holds the requests in flight.

`Snapshot` changes only the pending history of the store; what it *returns* is the operator
`Content(sel)`: the prims drawn under a selection with their resolved material
indices and cull links, the material table with shared content once, the cull
masks, the environment the domes make, the other lights. Paths are numbers because
three things depend on the maps' order: a cull volume's bit, a material's index, and
which dome comes first. Geometry, transforms, colours and programs are opaque.

A volume's bit is computed twice, as in the code: `MaskBit` counts in `Snapshot`'s loop, `CullTable`
fills what `CullVolumes` returns. The render pass asks for the two in different calls, with edits
between. `masks` and `table` are what it then holds of each, `Snapshot` and
`UploadCullVolumes` fill them, and `Supersede`, part of every step, forgets them when the revision
the pass compares has moved: what is left is what a frame may still trace with.

### PathTracer

`SetScene(c, h, k)` replaces its resources in the order of `Stages` and stops after
stage `k`; only a complete one moves the descriptor generation (`Bumped`).
`Frame(d, fault, n, declined)` is `BeginFrame` and `EndFrame` of the description `d`,
stopped at `fault`, a member of `Steps`, after `n` of its samples; a step takes effect
when it precedes the fault (`Done`). `Meets` excludes faults of work that frame does not
do. The film is the set of estimates added to it, each tagged with the scene, cull
table, camera and sample it was made of, so that mixing shows. `written` and `dangling`
separate what the generations *say* of a slot's descriptor sets from what they
*name*. `backend` is the image a reconstruction's history holds. `owed` is auxiliary: that a frame
which threw had been remembered, or its plan had, before its backend was told of a reset, or moved the
camera motion starts from (`Owe`); a later frame that resets makes up for it. A frame returned
carries what the properties are about: whether its resources were live, where its
motion was measured from, which history the backend used.

### RenderPass and Viewport

`Begin`, `Publish` or `AlreadyPublished`, `UploadCullVolumes` or `CullVolumesCurrent`,
then `Finish` or `Trace` are one `Execute`, in the order of the code; each early return
goes back to `idle`. The store appears as its revision, its cull revision and its two
generations of placements. A settings change is a new settings version, as in the
code; `SetTextureQuality` changes the texture pool, which makes `SetMaxEdge` return true
once and forces a publication. Each buffer holds the image last written to it, `None` as
allocated, and its convergence flag. Guides are the AOVs in the traced grid, withheld
when that is not the output's.

An `Execute` here is split into its steps so that failures fall between them; the host
acts only when the phase is `idle`, as Hydra does.

`Viewport` is what is left of this for the host: `Ask` between two Executes, then `Start`, and
`Show`, `Complete` or `Fail` at its end. It knows no scene, no upload and no tracer.
`Abstract == INSTANCE Viewport WITH asked <- Framing, working <- phase # "idle", buffers <- aovs,
latest <- shown, count <- samples`: `Begin` is a `Start`, a frame delivered a `Show`, `Finish` a
`Complete`, every failure a `Fail`, and the rest of an Execute a stutter. An image is opaque there;
of what it is made is the business of the other properties.

### SceneResources, SceneAccelerator, ScenePublication

`PathTracer` sees a publication as stages that are replaced; these three look inside the
stages that *keep* something. `at` is where `SetScene` is and `next` its loop index; the
steps lie between the points at which the code can throw. Each cache is its key beside
its value, as in the code: `uploaded` beside `pool`, `uploadedDome` beside `dome`,
`fromScene` beside the kernels, the key of `displaced`, the fingerprints of `held` and
`clouds`. A hash is what it hashes, so a hit that should not be one is a key that leaves
something out and never a collision; `Contents` is a prototype's content, with the texels
its displacement read, and `TopologyOf` the part of it that a deformation keeps.

Structures are addresses in `memory`, because they own device memory and move: out of
`held` into `retained`, through `taken` while one is refitted. `Throw` does what unwinding
does, destroys the locals and what they own and leaves the members; `Exhausted` is a build
with no address left. `LeavePlain` is also a displacement whose program made no pipeline
or no positions.

The two meet at the render pass: `PathTracer!SetScene` says which stages were replaced and
that a generation announces them, `ScenePublication` that what a complete publication kept
is what it was asked for. They are not composed.

### Reconstruction

What `PathTracer` takes in one step, `Plan` and `Reconstruct`, opened up: `call` is the
frame under way, which goes through `Begin` (the plan of `PlanReconstruction`, the sizing
NGX answers, the invalidation), `Trace`, `Ensure` (`EnsureReconstructionImages`: kernels,
images one by one, descriptor sets, the record of what was built), `Build` (`NgxBackend::Resize`)
and `Evaluate`. Each may be declined or throw, as `Faults` allows. `kernels` are the pipelines
assigned and `sets` those of them whose descriptor set was allocated after it: a throw between the
two (`FailSet`) leaves a kernel that passes for ready. `parameters` is the NGX
parameter block, which outlives every feature built from it, and a feature's `history` is
the frame it was left with. `lost` is auxiliary: what an exception left inconsistent, so that
the properties say exactly what they do not cover: `resources` between the steps that make
them, `reset` for a history whose restart was asked of a frame that did not come back, `set` for
a kernel that will have no set. A scene is its revision here.

### Device

A session of one delegate after another. `Initialize` pushes the settings into the
environment overrides and probes the machine once per process; `BuildContext`,
`BuildAllocator` and `Construct` of each member of the tracer follow in the constructor's order, each
with its calls that may fail inside it. `held` is what each owner would destroy and `live` what
exists. `Release` puts what is held in the nine groups a tear-down destroys one after another;
`Destroy` takes the first that is not empty. A refused call unwinds
what C++ unwinds: members built so far, and no destructor body of what was not finished. `stranded`
collects by name what the code leaves without an owner. `latched` is the device-lost latch: every
entry point that checks it (`RequireLive`) throws at once. A device is the preferences its name
contains (`answers`), whether it traces and is recent enough, and its memory; `Select` scores as
the constructor does, with the weights in proportion.

### CompileMemo and DiskCaches

`DiskCaches` has a step per system call of `ShaderCache::Find` and `Store` and of
`CreatePipelineCache` and `SavePipelineCache`, in any interleaving of threads and processes, with
`Kill` at any point, processes that come back under the same id, disk faults, and `Damage` that a
disk does to a finished entry. A digest is the request less nothing: what the key leaves out
shows, a collision is not modelled. `Memo == INSTANCE CompileMemo WITH asked <- Asked` maps the
pending request of each thread; every step is an `Ask`, an `Answer`, a `Forget` or a stutter.

### Tessellation and MeshGeometry

`Tessellation` is pure: distances and rates of a side from a view, and `TessellateQuad`'s
triangles over integer parameters. Lengths are squared integers, so that the code's comparisons of square
roots are exact. `MeshGeometry` takes one mesh through `Sync`: the level, the patch faces and the
rates of their sides, the budget, the refinement (per face, uniform or refused), and the arrays
that dress the result (`MeshSpec`; `phase` is where the `Sync` is). OpenSubdiv's limit surface is
external; a sample is where on the cage it was taken. The code's loops over faces, cells and
sides are `Concat` and `Total`, and the walk that stitches a strip is `Walk`: recursive
functions over `0 .. n`, which a proof can unfold one step at a time. `MaxRateIsAPower` says what
the finest rate may be (a power of two up to the code's 64, since rates are halved down to one), and
`InputsAssumption` the types of what the scene delegate and the render param hand over, and
no more: a face may name vertices that no point has.

### PrimSync

The host edits any prim or instancer; `Sync` of any dirty prim then publishes through the same
decisions as the code, by prim kind: a placement-only sync that keeps its prototype, an instancer
that keeps primvars between syncs, filters that answer a change of settings or view with dirty
notices. `Execute` is the part of the render pass that compares settings and view and asks for geometry.
Transforms are sequences of what a point goes through, so a product in the wrong order shows.
`Chain` is a prim's instancers from its own outwards, a recursive function over `Parent`; `Nested`
counts up through it from the outermost, as `ComputeInstanceTransforms` returns from its recursion. `Moves` are the
elementary transforms. A choice of instances (`Paths`) is of positions in each `indices`, because an index
may be there twice and then places twice. The change tracker is Hydra's and is external;
`AuthoredAssumption` names the fields it hands over.

### Materials

A network is its four programs, each with the images it reads in document order. `Compile`
goes through the cache by content key, `AcquireTextures` requests one batch for all the
materials compiled in a frame and deals the slots back in order, `Publish` makes the material
table and the traversal library, which has a key and images of its own. An image in the pool is
the texels of its file at the quality it was decoded at. `SetMaxEdge` decodes every image again
into its slot. `Concat` and `Chosen` are the two loops everything here is built by: one list after
another, and what of a list passes a test. The library's key is empty until there is one, as
`_traversalKey` is.

## 3. Runs

| Run | Question | Bounds |
|---|---|---|
| `store_scene` | Does every change a snapshot, or the cull table, would show move the revision that announces it, and do the bits of a snapshot's masks name, in the table uploaded after it, the volumes that cull? | 1 mesh, 1 splat cloud, 1 light, 3 cull volumes for a table of 2, 2 selections, revision up to 5 |
| `store_materials` | Does a compile outside the lock ever land on a newer publication, miss a drawn material, never end; do shared indices resolve right? | 1 mesh with a binding and a subset, 3 materials, 3 networks of which two share a program and one does not compile, revision up to 5 |
| `pass_reference` | Is what is shown of one framing, traced with live resources, and does the pass always end? | 3 edits of scene, cull volumes, texture quality and bindings; publications stopping at two places, uploads failing, frames failing at a bind, a clear or between samples |
| `pass_interactive` | Is the backend's history of this revision, motion from the last frame, the count the film's, convergence of what the host has, and is the pass to the host an abstract viewport? | 3 edits of mode (none, native, upscaling), camera, scene, extent, selection, buffers; a backend that declines, and refuses one extent; a resize that fails whole, a clear that fails |
| `publication_scenes` | Is what a publication keeps, refits, rebuilds or releases always what the scene asks for, owned once, and found by a ray that hits it? | 4 scenes, 3 addresses; throws at the extend kernel, a displacement, a refit, a build, the instances, their table, before the dome, the shading pipelines |
| `disk_shared` | Are files on disk whole whoever writes or dies, and do the caches implement a memo, liveness included? | 2 processes, 3 threads, 2 builds, 2 sources of which one does not compile, 2 requests, 1 ended process, 1 damaged entry |
| `reconstruction_backend` | Is what is evaluated what was planned, through the preset asked for, from the history of the frame before? | 1 output, 2 models and render extents, 2 presets, 2 scenes; all eleven kinds of fault |
| `device_session` | Is each handle owned and destroyed in order from every point of failure, and is the device probed the one chosen? | 2 delegates, 3 machines, 2 environments, 3 hosts; refused calls and a lost device |
| `mesh_refinement` | Do sides that meet agree, are domains covered once, is the budget kept, do arrays match the mesh? | 7 cages, 5 views, 7 settings, rates up to 8 |
| `prim_sync` | Is what is published what a sync from nothing would publish, placed where the stage says, and do frames stop asking? | 6 prims, one of each kind, 2 nested instancers, 2 edits between any frames and syncs, 6 geometry settings, 2 cameras |
| `material_programs` | Does every program, and the traversal library, read at each index the file its own network means? | 2 materials, 6 networks, 1 dome map, 2 qualities, 4 edits, a pool of 4 for the library |
| `mesh_seams` | Do faces that share an edge sample it at the same points? (no) | a quad beside a triangle |

The bounds are enough for the cases the properties are about: one more cull volume
than the table has bits; two materials that share an index below a third; an edit, a
removal and a publication while a request is in flight; a target that is not a
multiple of the batch (3 samples, 2 at a time); three consecutive failures, the limit;
both frame slots. Three edits are the shortest way back to an earlier framing with one
more change after it. `MaxRevision`, `MaxEdits`, `MaxAsks`, `MaxEnds`, `MaxDamage`, `MaxDelegates`
and the number of `Ids` are the only bounds the models add to the code; all stop the
environment, never the renderer. `MaxRate` (64 in the code, 8 here) and `Capacity` are
constants of the code made small so that they are met.

The four scenes of `publication_scenes` are each the others' hard case: an animation (a
mesh refitted or rebuilt, curves that never refit), a change of order, a prototype and a
cloud with nothing in them before ones that have, shared geometry, a displacement gained,
lost and contested, a dome gone and replaced, a texture changed or not decoded, a library
come and gone. Three addresses are what the largest scene wants, so what is kept in vain
makes a build fail for want of memory. The addresses are symmetric. Its throws are those
after which every key is still true; the others, at the shadow kernel, a texture, the
dome's map and its distribution, break `PublishesWhatItWasGiven` and are hazards of
`PROJECT.json`. With a texture fault added `PoolHoldsItsKey` still
holds, as section 4 proves: a lost image is missing, never another.

The cages of `mesh_refinement` are quads in a row, triangles, a pentagon (five domains), a quad
beside a triangle, a topology of another frame than its points, none, and one without points;
the views are near, far, clipped, parallel and none. The networks of `material_programs` are two
copies of one asset whose relative path resolves to different files, a tile set that is also
a cut-out, a fog with an image of its own, cut-outs by a constant and by more images than a
library may hold, one whose displacement does not compile, and one that is not MaterialX. The
instancers of `prim_sync` lose primvars, block them, repeat and reorder indices, and are
hidden.

`CHECK_DEADLOCK FALSE` is set where the environment does stop: at the bound of
publications a store with nothing pending, and no snapshot taken, has nothing to do; a
mesh is synced once; a process ends.

**Fairness.** `SceneStore!FairSpec` has weak fairness of the copy-out and of the
completion: the render pass runs the loop in every `Execute`, and each loop runs to its
end. `RenderPass!FairSpec` has weak fairness of `Execute` alone: a viewer calls it until
the pass converges; nothing makes it edit. No fairness is given to success: faults may
recur for ever, and `Converges` holds because the failure count gives up.
`DiskCaches!FairSpec` has weak fairness of each thread's work: a compile is stopped by
nothing but the end of its process. `PrimSync!Spec` has weak fairness of `Execute` and of
the sync of each dirty prim, written as `[]<>(dirty[p] = {})`: Hydra syncs what its tracker
says is dirty before it executes.

Every property of a passing run has a mutant, an operator named after the definition it
replaces (`Bumped_never`, `PlacementOnly_any`), written before it in its module and
listed in `PROJECT.json`.

### Disagreements with the code's own words

`mesh_seams` is checked. `quad_tessellation.h` says a rate is a property of an edge, so that
two faces sharing it have nothing to disagree about; but a quad is one domain with the whole
edge as a side, and any other face is split at its centre with half of the edge on each of
two domains. A quad and a triangle take the rates of their common edge from different
endpoints and sample the limit curve at different points. Within one kind of face, `SidesAgree` holds.

The following were met while modelling. No run keeps them; the last column names what shows each
one in the models, the constant that has to allow it where one does.

| Where | What the code says of itself | What it does | In the model |
|---|---|---|---|
| `scene_store.cpp:612` | a mesh that has gone leaves no history for a later one at its path | `RemoveMesh` leaves `_previousTransforms`, so a mesh published there before the next commit gets its motion from the one that left | `previous` after `RemovePrim`, `PublishMesh` |
| `render_pass.cpp:949`, `docs/architecture.md:252` | a failed scene revision is retried, not committed | the versions of the last upload survive a publication that failed part-way; when the selection returns to the one uploaded there is nothing to publish, and the mixture is traced through sets that name replaced resources | `ShownIsOneFraming` with `Edits = {"selection"}`, two selections |
| `render_pass.cpp:1199` | a transient failure is retried rather than baked into a frame | samples enter the film as they finish and the count only when the frame is delivered, so the retry repeats them | `FilmHoldsWhatWasCounted` with a `trace` fault |
| `path_tracer.cpp:2098` | a changed scene leaves nothing to reproject from | `InvalidateFor` remembers a frame before it is traced, so the retry of one that failed asks for no reset | `owed`, without which `BackendHistoryMatches` fails under the fault `clear` |
| `path_tracer.cpp:2099`, `path_tracer.h:135`, `docs/dlss-integration.md:238` | a changed scene, or changed settings, restart the history | `InvalidateFor` compares revisions. Another draw selection is published at the same one, as are another texture quality and an edited cull volume; nothing sets `resetHistory`, and the backend goes on reprojecting the other picture | `Select` and `HistoryReset`; `BackendHistoryMatches` says revision |
| `path_tracer.cpp:2241`, `2275`, `compute_pipeline.cpp:225` | | the pipeline is assigned before `AllocateSet`, which throws when the pool is out of memory; from then on the pipeline is `Valid`, nothing allocates the set again, and every later frame binds a null one | `FailSet`; `set` in `lost` |
| `acceleration_structure.cpp:994` | everything that is not coming back goes before anything is built | stale clouds are released at 1098, after every mesh is built. On a device whose room they take, a mesh's build fails, and so does every retry of that scene | `BuildsBesideWantedOnly`, first conjunct; `Exhausted` with a stale cloud in `memory` |
| `path_tracer.cpp:959` | a displacement is keyed on what it reads | the key names the texture slots, not the images in them; a quality change reuses positions made from the old image | `meshes[k].sampled` of a kept displacement |
| `path_tracer.cpp:823` | a slot holding the image it held keeps its copy | a kept image is moved into a local before the last upload is known to succeed; a throw destroys it and its key remains | `PublishesWhatItWasGiven` with the fault `textures` |
| `path_tracer.cpp:1117`, `1652` | | a throw between a pair of resources leaves the key of the pair ahead of one of them | `PublishesWhatItWasGiven` with `shadow`, `domeUpload`, `distribution` or `copy` |
| `path_tracer.cpp:2717` | a backend that fails leaves the frame as it was traced | `Evaluate` returns nothing: a refusal is read back and returned as reconstructed, from an image nothing wrote | `Refused` |
| `vulkan_context.cpp:944` | every child has been destroyed before `vkDestroyDevice` | the sampler of a tracer whose constructor throws, and the fence of a submission the device was lost in, are not | `stranded` |
| `render_pass.cpp:969` | the traversal library's images are already in the pool | a fog volume's own program samples nothing, so its images are first decoded while the scene is published | `pool` across `Publish` |
| `docs/architecture.md` 6 rule 4 | convergence stays false after a failure | three failures in a row are reported converged | `NoteFailure`; properties exempt `GaveUp` |
| `path_tracer.cpp:1783` | | a resize that stops between the frame slots leaves them at two extents until the next resize | the fault `resize1` |
| `render_pass.cpp:455` | | the failure count outlives its framing, so a new one may be given up after a single failure | `failures` |
| `render_pass.cpp:1078` | | a buffer unbound while a frame was traced and bound again after it keeps its older image and is reported converged | `Finish` with `bind` edits |
| `docs/dlss-integration.md:372` | one setting puts the auto exposure flag back | `reconstructionAutoExposure` (render_pass.cpp:1156) never reaches the plan's resolution, and `unchanged` (path_tracer.cpp:2190) leaves exposure out | `autoExposure` in `Begin` |
| `vulkan_context.cpp:332` | the probe has the constructor's preference | the probe takes the last device whose name contains the preference, or the first that traces, without the version test or the score, so with several it can name one the constructor does not choose | `Probe` and `Select`; `ChoosesWhatWasProbed` says where they agree |
| `render_delegate.cpp:1009` | | a second delegate of a process inherits the flags the first host stated, where it states none | `overrides` |
| `subdivision.h:43` | a level of refinement multiplies the faces by four | a face of n sides gives n, then four of each | the estimates of `MeshGeometry` |
| `acceleration_structure.cpp:1067` | unchanged prototypes keep their structures | a deforming prototype listed first takes the structure of one of the same topology | `ReorderBuildsNothing` excludes new geometry |

## 4. Proofs

`SceneStore_proofs` proves, for any sets of paths, entries, selections and any bound:

| Theorem | Statement |
|---|---|
| `TypeCorrect` | `Spec => []TypeOK` |
| `CompileIsFresh` | `Spec => []NoStaleCompile` |
| `DrawnMeshesCompile` | `Spec => []DrawnIsCompiled` |
| `RevisionIsEnough` | `Spec => RevisionCoversContent` |
| `NumberingIsPublished` | `Spec => NumberingNeedsRevision` |
| `CullRevisionIsEnough` | `Spec => CullRevisionCoversTable` |
| `MasksAreOfTheTable` | `Spec => []MasksNameTheTable` |
| `ResolutionIsOwn` | `Spec => []ResolvesToItsProgram` |

They assume the constants' own assumptions: that entries are typed, a pending entry has
a network, and `None` is none of them.

* *Types.* `TypeOK` is not inductive: a request is typed only if a pending material has a
  network. `TypeInv` adds `PendingHasNetwork`.
* *Stale compiles.* `NoStaleCompile` alone says nothing of a generation not yet given.
  `CompileInv` adds that no generation, stored or in flight, exceeds the counter, so a
  publication's is new and makes every request for its path stale, and that no two
  requests are for one material, so a completion outdates none that remains.
* *Revisions.* `SameRevision` lists what a step that leaves the revision can change: a
  completion that came late, nothing; a cull volume's publication, shapes alone. The
  latter needs `VolumesHaveIndex`: a first cull volume would otherwise switch the scene
  index on, and every link with it, without a publication. `SameActive`, `SameMasks`,
  `SameMaterials` and `SameLights` then carry equality up to `Content`.
* *Masks and table.* `HeldInv`: masks still in use are what a snapshot of the same selection would return now,
  and a table in use is what `CullVolumes` would. A step either moves a revision, and the pass forgets
  (`Supersede`), or leaves what they are made of (`MasksStay`, `SameTable`): the one place this could go wrong
  is a cull volume's publication that moves the table's revision alone, which `VolumesHaveIndex` and
  `SameRevision` rule out. That the two functions number alike is `BitsNameVolumes`: the bits that the
  snapshot's loop gives any set of active volumes are in the table's, and name that set.
* *Ranks.* A bit and an index are the number of smaller members. `RankCounts` and `RanksAreDense`
  show by cardinality, without induction, that ranks are a bijection onto `0 .. n - 1`, and `HasLeast` finds
  the smallest material of those that share a program, whose index all of them have.

`ScenePublication_proofs` proves, for any scenes, textures, addresses and contents, and for
any set of faults, those the run leaves out included:

| Theorem | Statement |
|---|---|
| `TypeCorrect` | `Spec => []TypeOK` |
| `PoolIsKeyed` | `Spec => []PoolHoldsItsKey` |
| `HeldIsSound` | `Spec => []HeldIsItsGeometry` |
| `OwnershipIsExclusive` | `Spec => []EachStructureHasOneOwner` |
| `ReleasedBeforeBuilt` | `Spec => []BuildsBesideWantedOnly` |
| `HitsFindTheirGeometry` | `Spec => []HitFindsItsGeometry` |
| `ReorderIsFree` | `Spec => ReorderBuildsNothing` |
| `DisplacedAsAsked` | `Spec => []DisplacedByItsProgram` |
| `PublishesItsScene` | `Spec => []PublishesWhatItWasGiven`, supposing `KeysStayTrue` |

They assume that scenes are typed, that `None` is nothing else (`NoneIsNothing`), and that a
cloud's fingerprint is no prototype's (`CloudsAreApart`). The last one supposes `KeysStayTrue`: that no
publication is thrown out of at the shadow kernel, a texture, the dome's map, its distribution
or the copy of that, the five places where the code has changed a resource or its key and not
yet the other (section 3 lists each with its line). Any other throw may happen, any number
of times. The invariant has these parts, each proved over the ones before it:

* `PoolInv`: the pool being made holds, slot by slot, the scene's image or nothing. That,
  and not the pool's own key, is what makes the pool that replaces it agree with the key
  that replaces the old one; and a kept image leaves nothing behind, so a throw between
  the two leaves holes and no mismatch.
* `ContentInv`: a displacement's results are contents, so what `held` may be keyed by is.
* `StructureInv`: every map from fingerprints to structures is sound (`Sound`: the structure
  under a fingerprint is over that geometry); the one taken for a refit is over a geometry
  that neither `held` nor `retained` names; the candidates are held. Soundness makes
  each map injective, which is why a build or refit of one address disturbs no other
  entry.
* `OwnedInv`: every structure is owned, and with `StructureInv` by one map under one key, its
  own content, or by the refit. The owners counted by `EachStructureHasOneOwner` are then
  a singleton.
* `RestInv`: where a publication may be, and which locals are empty there; `used` is filled
  only for a scene that displaces, which `SkipDisplacement` relies on.
* `UpdateInv`: what the loops of an update have done by the prototype they are at. The ones
  passed are retained, and what `held` still has is wanted, or of the topology of something that
  is; after the loops every content of the scene is in its map; the instances are the placements
  with a structure (`Instances`), and the table is filled by the same rule. `HitFindsItsGeometry`
  is then that the two numberings agree, and that an index has one instance. `OnlyThisScene` adds that
  past the meshes the maps have nothing but the scene's, which with `OwnedInv` is the second half of
  `BuildsBesideWantedOnly`; the first half leaves the clouds of the last publication where the code does.
  `ReorderBuildsNothing` needs the other direction: with everything wanted stored, what is
  stored has an owner (`OwnedInv`), so no prototype is novel, nothing is refitted or built and
  nothing wanted is released.
* `DisplacedInv`: positions in `displaced` and `used` are of the mesh and program of their key, so
  what stands in a prototype's place is itself or its own displacement.
* `KernelsInv`, `TexturesInv` and `DomeInv`: under `KeysStayTrue`, each resource is its key's wherever
  the publication is, but in the one step between the two.

`DiskCaches_proofs` proves, for any processes, threads, builds, requests and bounds:

| Theorem | Statement |
|---|---|
| `SavedWhole` | `Spec => []SavedIsOneSession` |
| `EntriesWhole` | `Spec => []EntriesAreWhole` |
| `CachesImplementMemo` | `Spec => MemoSafety` |

They assume that every thread has a process, that invalid sources are sources and that `None`
and `Failed` are neither requests nor programs.

* `SaveInv`: a session renames the pipeline cache only when what it wrote is whole, and the
  temporary it writes carries its process id.
* `EntryInv`: each thread's place in a lookup or a store is matched by what it holds; a
  writer's temporary has a name below its process's counter, two writers' names differ, and
  the temporary is in the state its writer's place says. The counter is what makes a name new,
  and the process id what keeps it apart from those of others, and from what a killed one left.
* *Refinement.* A step of a thread that ends its request gives what `Compiled` gives: a file
  read is whole and of the digest asked for, and the digest names everything the compiler
  reads. An ask is an `Ask`, an end or a kill is a `Forget`, everything else a stutter.

`Reconstruction_proofs` proves, for any settings, extents, scenes and faults:

| Theorem | Statement |
|---|---|
| `ReconstructionInvariant` | `Spec => [](IInv /\ SetsInv)` |
| `EvaluationIsAsPlanned` | `Spec => []EvaluatesWhatWasPlanned` |
| `HistoryIsTheFrameBefore` | `Spec => []KeepsOnlyTheFrameBefore` |

They assume only that `None` is no record the variables hold.

* `BegunInv`: a frame's plan is the one its own settings and extent make, so two frames of one
  resolution have one plan; the comparison of `Unchanged`, which leaves the exposure out, is
  then equality.
* `BuiltInv`: the record of what was built is empty, or images, sets and feature agree with it,
  or an exception came between (`lost`). While a build is under way the images agree with the
  plan under way and not with the record.
* `HistoryInv`: while nothing was lost and no restart is owed, the feature's history is the frame
  remembered, if that had the plan recorded. A frame that was declined, or had no backend, leaves
  a plan that differs from the record, and the build this asks for restarts.
* `SetsInv`: whatever was built was built with every kernel, and each kernel assigned has its set unless
  allocating one threw. `Ensure` returns for a resolution already built, so what it once
  looked at stays what every later frame has.

`RenderPass_proofs` proves, for any cameras, extents, selections, buffers, number of edits, sample
counts, batches and faults that a theorem does not name:

| Theorem | Statement | Supposing |
|---|---|---|
| `ImageIsOneFraming` | `Spec => []ShownIsOneFraming` | `SelectionSafe` |
| `FramesTraceLiveResources` | `Spec => []TracesLiveResources` | `SelectionSafe`; no fault `resize1` |
| `MotionSpansReturnedFrames` | `Spec => []MotionFromLastFrame` | `SelectionSafe`; no fault `advance`, `reconstruct` |
| `FilmIsWhatWasCounted` | `Spec => []FilmHoldsWhatWasCounted` | no fault `trace`, `resolve`, `advance`, `reconstruct` |
| `HistoryIsOfThisRevision` | `Spec => []BackendHistoryMatches` | |
| `ConvergedIsFinished` | `Spec => ConvergedIsCurrent` | no `bind` edit |
| `ImplementsViewport` | `Spec => ViewportSpec` | no `bind` edit |

Each supposition leaves out a behaviour of the code that breaks the property, listed in section 3 with
the line: the selection that returns after a publication that stopped (`SelectionSafe` says that
none stops or none changes), the resize between the slots, the frame that fails after its
first sample or once it advances what motion starts from, the buffer unbound. What is left is larger than the
runs: every other fault, in any number and order. `HistoryIsOfThisRevision` supposes nothing away;
the reset that a failed frame took with it is in its statement, as `owed`.

* `BaseInv` is common to all. `Types`; `FramingInv`, that an `Execute` under way is of the framing
  the host has, and that an image counted is of a settings version that fixes its texture quality;
  and `UploadInv`, the heart of it: the versions the pass keeps may be behind what the tracer
  holds, but *where they are current they are true*. A publication that stops leaves the
  version at an older revision, and the store's only grows, so the mixture it left is not
  taken for a scene until a whole publication replaced it.
* `FilmInv` gives the film only estimates of the framing counted: a frame is traced when
  `UploadInv` makes the scene whole and `uploadedCull` makes the table current, and a changed
  framing restarts the count, which clears the film.
* `LiveInv`: written sets dangle only while the upload is not current; both slots have the film's
  extent.
* `MotionInv`: the camera, the instance table and the store's committed placements are those of the
  last frame returned. Between a publication and the frame that commits it, the store's pending
  placements are the scene's.
* `CountInv`: of a reference film, what was shown is what the film holds. That the backend did not
  clear it needs the frame remembered to be of this framing.
* `BackendInv`: a backend that was built, and is owed no reset, is left with the image of the frame
  remembered, every stage of its revision, if the plan remembered was to reconstruct. That a frame traced has every
  stage of one revision is `RevisionInv`, which holds of torn publications too: they can mix
  selections, never revisions.
* `ShownInv`: with every buffer bound, a buffer holds the image shown last or none, or is a guide
  that was withheld; so what `Finish` writes is what is missing. The sample count never passes
  the target, whatever the batch.
* *Refinement.* With `BaseInv` and `ShownInv` each step is one of `Viewport`'s: `MarkedIsMark` reads
  the flags off, `BeginIsStart` needs that what is counted was shown (a framing the pass has left
  and come back to has no samples), `FinishIsComplete` that the image shown last is of the
  framing asked for, so that the code's comparison of sizes never refuses it, and
  `TraceIsShowOrFail` that a batch stops at the target. It holds under every fault,
  those that `ShownIsOneFraming` and `FilmHoldsWhatWasCounted` do not survive included: they spoil
  what is in an image, never which image is delivered or when.

`Device_proofs` proves, for any machines, hosts, settings, members of the tracer, number of
delegates and faults:

| Theorem | Statement |
|---|---|
| `OneOwner` | `Spec => []EveryHandleHasOneOwner` |
| `TornDownInOrder` | `Spec => []ParentsOutliveChildren` |
| `ChosenIsProbed` | `Spec => []ChoosesWhatWasProbed` |

They assume that the tracer's pipelines, images and buffers are apart and none is another owner's
name (`MembersAssumption`), and that a machine is a sequence of devices (`MachinesAssumption`).

* `HandleInv`: an owner holds its own kinds, of the present delegate (`HeldInPlace`); no handle is
  of a later one, so a new context's are new; what a phase presupposes is held
  (`WhatTheTracerNeeds`); a view lies beside its image. An identity is given once while it
  lives (`Fresh`), so what is created is nobody's yet.
* *Order.* `ParentKinds` and `GroupsAreByKind`: what a handle was created from is of the same group of
  `Release` or a later one. So when a group goes, what was created from its members is gone
  already or goes with it (`ChildrenGoFirst`).
* `ChoiceInv`: the device chosen is `Select` of the machine and of what the environment says. That the
  best score is that of a device the preference names, where one is usable, is an argument
  about a largest element, for the weights the code has.

`Prims_proofs` proves of `PrimSync`, for any prims, instancers, nesting, stages, settings and edits:

| Theorem | Statement |
|---|---|
| `PublishedAsOfNow` | `Spec => []PublishedIsCurrent` |
| `PlacedWhereTheStageSays` | `Spec => []PlacementsFollowTheStage` |

They assume that a prim's instancers are a sequence of instancers, that prims and instancers are apart,
and the fields of what the host hands over, transforms being sequences of moves.

* `PublishedInv` adds to the first property what the objects keep: an
  instancer agrees with the stage about each thing it is not dirty for (`Agrees`), and a prim whose next
  sync may be of its placement alone (`Keeps`) has the prototype it would be given now, or follows
  the view and is refined again. A sync of a prim syncs its instancers first, so nothing is
  needed of a prim's dirty bits and an instancer's together.
* *Placements.* With the instancers current, where a prim is placed is a fact about their nesting. It is
  shown by counting up: `NestedPlaces` says that what the n outermost instancers place is one instance for
  each choice of an instance of each (`PathsArePicks`), through all of them and with the links of all, and
  `NestPlaces` takes one instancer more, by the arithmetic of rows (`InRows`, `RowsApart`). That no two
  choices share a place makes the count the product, repeated indices included.

And of `MeshGeometry`, for any cages, views, placements, settings and channels, and any finest rate:

| Theorem | Statement |
|---|---|
| `MeshInvHolds` | `MeshSpec => []MeshInv` |
| `ArraysDescribed` | `MeshSpec => []ArraysDescribeTheMesh` |
| `BudgetHeld` | `MeshSpec => []BudgetHolds` |
| `NoTJunctions` | `MeshSpec => []SidesAgree` |
| `DomainsCovered` | `MeshSpec => []DomainsCoveredOnce` |

They assume `MaxRateIsAPower` and `InputsAssumption`. Most of it is about what `TessellateQuad` makes of four
rates, any four the program has (1 to 64, each a power of two), and none of that is about a state.

* *Counting up.* `CountsUp` is the one place an induction is made: what holds at 0 and is passed on from n to
  n + 1 holds up to N. From it come the length, the elements and the order of a concatenation
  (`ConcatIs`, `FollowsEach`), the parts of a sum (`Upto`), the boundary's samples
  (`BoundaryAtIs`, `SamplesAre`), and where the walk of a strip is after n steps (`WalkIs`).
* `MeshInv`: what is patched so far is the first of the ptex faces, each at its settled rates, and a mesh
  made by any other route is what that route makes. `Rated`: two sides with the same ends, walked either
  way, have one rate. A rate is made of its side's two ends alone (`SideRateIs`), and halving all
  of them keeps it (`HalvedAreOneToASide`), which is why the budget halves every side and not the
  faces that cost most.
* *Budget.* `EstimateCovers`: a face is reckoned at no fewer triangles than it is given. The invariant adds
  up what is made and what was reckoned, face by face.
* *Sides.* `SideSamplesAre`: what the triangles put on a side is one sample for each part of its rate and no
  other, so sides of one rate agree, and turned round where they are walked opposite ways.
* *Coverage.* A domain is its interior grid and four strips. Cells have no directed edge in common
  (`CellsApart`), by where an edge starts and which way it goes; a strip's steps have none, because the
  two walks of a strip only go forward (`WalkGrows`, `SpokesApart`, `StepsApart`); and a strip's edges
  are not a cell's, nor another strip's (`CellsAndStitchesApart`). Every edge is turned round in another
  triangle or lies on the boundary (`CellTurns`, `StepTurns`, `SegmentOnSide`). Every triangle is
  positive, and with w the inner rate less 1 and c the finest rate over the inner, twice the areas come to
  2 (w - 1)^2 c^2 for the grid and 4 * 2wc^2 for the strips: 2 (w + 1)^2 c^2, twice the domain.
  One segment a side is a case of its own (`SingleCovered`).

`Materials_proofs` proves, for any materials, networks, tile sets, unreadable files, dome maps, qualities,
capacity and edits:

| Theorem | Statement |
|---|---|
| `ProgramsReadTheirOwn` | `Spec => []ReadsItsOwnImages` |
| `TraversalIsOfTheTable` | `Spec => []TraversalMatchesTheTable` |

They assume that the materials' paths are a sequence and none is the dome's (`IdsAssumption`); that a network
has its four terminals, an image its fields, a program one uniform of a name, and that only a file that is
named is resolved (`NetworksAssumption`); and that a set's tiles are a sequence without repetition (`TilesAssumption`).

* *Lists.* `ConcatUnfolds` and `ConcatIs` count up through the parts of a concatenation, and give its length,
  its elements and, with `Follows`, where each part lies in it. From these, place by place: what a program samples and
  each sample's path (`OrderIs`, `PathsAre`, `SampleIsOf`), what a batch requests
  (`RequestsAre`), and that the run of slots dealt to a material is of that material's requests
  (`DealtHolds`), whatever the materials before it asked for.
* *The pool.* `PoolIs`: an image is its source's, at the cap in force. An acquisition only appends, so a slot
  that was of a request stays of it (`StillHolds`); a quality change leaves the sources.
* *Content.* `SameContent`: networks of one key have images that differ at most in how a path is written, and
  what is named and read alike (`Alike`) has the same samples and paths. So a program made of one network
  reads for every other of its key, which is what lets `Made` name any network at all.
* `MaterialsInv` has `CacheInv` (a cached result is `Made` of its key); `EntryInv` (what has nothing to sync
  is pending with the stage's network, or `Settled`: made of the stage's key, its slots held); `BatchInv`
  (what was compiled this frame is the first of what is pending, in order); `PhaseInv` (past `idle` nothing is
  dirty and the pool is at the quality stated); `DomeInv`; `LibraryInv` (a library kept is a function
  of its key and nothing else); and `PublishedInv` (until something is stale, the
  scene published is of the table, the pool and the dome slot as they are).
* *The library.* `MembersTogether`: its document has one member of an index, each some material's, and every
  asker's. Prefixes keep the members' uniforms apart (`DocumentIs`), so an index of the table and a uniform
  name one image, which is read as its material's own; and the samples are as many as the
  materials ask for, each once (`LibraryCounted`, by a bijection), so a library refused for its size is one
  that the texture array has no room for.

Model-checked only, and why:

* *Liveness*: `BoundIsCompiled`, `Converges`, `Settles` and the fairness of `MemoSpec`. TLAPS does not
  reach it; what is proved of `CompileMemo` is `MemoSafety`.
* What `EdgeLengths` and `FaceVertices`, folds of the community modules, come to: the provers cannot
  instantiate the library's induction theorems, which take an operator. No theorem above needs
  their values, only that the level chosen is one the budget allows.
* `SharedEdgesMatch`, which is false.

## 5. Not modelled

Radiometry, sampling, the shaders' arithmetic and the generated GLSL are numerical or
textual and have no state between calls. Decoding and the Vulkan driver are
I/O; their failures appear as faults of the calls that use them. Statistics, logs,
environment-variable diagnostics (`HDCLAUDE_REPUBLISH_AT`, `HDCLAUDE_REPEAT_RENDERS`) and
exposure are left out of `_Execute`. `ReportFallbacks` only warns.

Also left out, of modelled parts: the fallback of `PrimSync`'s requests that marks every rprim
dirty when no scene index answers; the mapping count of a render buffer, which `Allocate`
zeroes under a host that holds a map (`render_buffer.cpp:54`); files that change on disk while
the pool holds them, its slots that are never freed, and several passes over one pool; two
contexts of one process, which would share a `.partial` name; a remainder of the pipeline cache that the
stream writes only when it is closed, whose failure nothing looks at (`vulkan_context.cpp:922-932`); what the
driver does with a null descriptor set; damage inside an entry of the
right length, which no check of the cache can see; limit positions and curve geometry.

## 6. Plan

In order of weight; each with its abstract promise where it has one.

1. `SceneStore` and `RenderPass` composed through the snapshot.
2. Compose `PathTracer` with `ScenePublication`: which torn publications are traced.
3. `Wavefront`: queue counters, compaction and material sort as pure algorithms against
   a multiset reference.
4. Several passes over one pool; the render buffer's mapping count; the light, fog and pick tables.
