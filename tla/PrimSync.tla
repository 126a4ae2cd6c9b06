----------------------------- MODULE PrimSync -----------------------------
(***************************************************************************)
(* How an edited stage reaches the scene store.  The host edits prims and  *)
(* instancers, states the settings geometry is built by, moves the camera  *)
(* and calls Execute; Hydra marks what it edited dirty and syncs the dirty *)
(* prims its render tags include, at any later time.  Every prim publishes *)
(* an entry or withdraws it.  An instancer keeps its visibility and its    *)
(* primvars from one sync to the next; a mesh moved by its placement alone *)
(* keeps its prototype; the settings, the view the levels were derived     *)
(* from and the divisions of a sphere are held between frames.             *)
(*                                                                         *)
(* A transform is the sequence of what a point goes through, first to      *)
(* last, so composing is concatenating, and the order of it shows.  A      *)
(* prototype is what it was made of.  Hydra's change tracker is external:  *)
(* it marks a prim with a bit for each thing edited, and all that an       *)
(* instancer places with DirtyInstancer.                                   *)
(***************************************************************************)
EXTENDS Integers, Sequences, SequencesExt, FiniteSets

CONSTANTS
    Prims,        \* the prims a stage may hold
    Instancers,   \* its instancers
    Kind,         \* [Prims -> kind]
    Parent,       \* the instancer that places a prim or an instancer, or Nowhere
    Authored,     \* the states the host gives each prim and each instancer
    Openings,     \* the stage, settings and camera a render begins with
    AskedFor,     \* the geometry settings the host states
    Divisions,    \* the divisions it states for spheres: [radial, axial]
    Cameras,
    Moves,        \* the elementary transforms a point may go through
    MaxEdits,     \* bounds the edits of a behaviour
    Nowhere, Absent, Nothing, Unseen, Blocked

VARIABLES
    stage,      \* what the host authored, of prims and instancers
    dirty,      \* their dirty bits
    instancer,  \* HdClaudeInstancer's _visible and _primvars
    follows,    \* HdClaudeMesh's _refinementFollowsPlacement
    store,      \* the scene store's entry of each prim
    asked,      \* the render settings: geometry and sphere divisions
    settings,   \* HdClaudeRenderParam's geometry settings
    view,       \* the sampled view, or Unseen
    divisions,  \* HdClaudeSphereSceneIndex's _radial and _axial
    camera,
    edits

vars == <<stage, dirty, instancer, follows, store, asked, settings, view, divisions, camera, edits>>

PlacementBits == {"at", "visible", "instancer", "links", "material"}
InitialBits == PlacementBits \cup {"shape"}

Rprims == {p \in Prims : Kind[p] \notin {"light", "volume"}}

\* The instancers above a prim or an instancer, from the innermost out.
Chain[x \in Prims \cup Instancers] ==
    IF Parent[x] = Nowhere THEN <<>> ELSE <<Parent[x]>> \o Chain[Parent[x]]

ASSUME PrimSyncAssumption ==
    /\ Prims \cap Instancers = {}
    /\ \A x \in Prims \cup Instancers : Chain[x] \in Seq(Instancers)

\* The host's states: a prim has these fields, an instancer at least what places it, and a
\* transform is a sequence of elementary ones.
ASSUME AuthoredAssumption ==
    /\ \A p \in Prims : \A s \in Authored[p] \ {Absent} :
          s = [shape |-> s.shape, at |-> s.at, visible |-> s.visible, links |-> s.links,
               material |-> s.material] /\ s.at \in Seq(Moves)
    /\ \A i \in Instancers : \A s \in Authored[i] :
          /\ s # Absent /\ {"visible", "primvars"} \subseteq DOMAIN s
          /\ s.visible \in BOOLEAN
          /\ s.at \in Seq(Moves) /\ s.indices \in Seq(Nat)
          /\ \A name \in DOMAIN s.primvars :
                s.primvars[name] = Blocked \/ s.primvars[name] \in Seq(Moves)
    /\ \A o \in Openings : /\ DOMAIN o.stage = Prims \cup Instancers
                           /\ \A x \in Prims \cup Instancers : o.stage[x] \in Authored[x]

\* The change tracker: everything below an instancer learns that it changed.
Below(i) == {x \in Prims \cup Instancers : i \in Range(Chain[x])}

----------------------------------------------------------------------------
\* Settings.

MaxLevel == 10
Clamp(low, x, high) == IF x < low THEN low ELSE IF x > high THEN high ELSE x

HdClaudeClampTessellation(s) ==
    LET level == Clamp(0, s.level, MaxLevel) IN
    [s EXCEPT !.level = level, !.offScreen = Clamp(0, s.offScreen, level)]

ReadSettings(s) ==
    HdClaudeClampTessellation(
        [s EXCEPT !.adaptive = s.adaptive \/ s.perFace,
                  !.sides = Clamp(3, s.sides, 64), !.samples = Clamp(1, s.samples, 32)])

SettingsDiffer(s, t) == s # t

\* The fewest divisions round a sphere and from pole to pole that it can have.
kMinSphereRadial == 3
kMinSphereAxial == 2
ClampDivisions(d) ==
    [radial |-> Clamp(kMinSphereRadial, d.radial, d.radial),
     axial  |-> Clamp(kMinSphereAxial, d.axial, d.axial)]

\* SetTessellationCamera's answer: whether the sample moved the view.
\* Mutant: every sample is taken for a move.
ViewMoved_always(held, sampled) == TRUE
ViewMoved(held, sampled) == held # sampled

ShouldSampleView(adaptive, haveView, settingsChanged, followCamera) ==
    adaptive /\ (~haveView \/ settingsChanged \/ followCamera)

----------------------------------------------------------------------------
\* Placements.

\* What one primvar does to an instance; nothing, when it has none or is too short.
Step(primvars, name, index) ==
    IF name \in DOMAIN primvars /\ index \in DOMAIN primvars[name]
    THEN <<primvars[name][index]>> ELSE <<>>

\* Row vectors: each step read is put before what there is.
InstanceTransform(primvars, own, index) ==
    Step(primvars, "transforms", index) \o Step(primvars, "scales", index)
        \o Step(primvars, "rotations", index) \o Step(primvars, "translations", index) \o own

\* Each of `inner` once for each of `outer`.
Nest(inner, outer) ==
    [k \in 1..(Len(inner) * Len(outer)) |->
        LET own == inner[((k - 1) % Len(inner)) + 1]
            above == outer[((k - 1) \div Len(inner)) + 1]
        IN  [at |-> own.at \o above.at, links |-> own.links \cup above.links]]

PerInstance(authored, index) ==
    IF index \in DOMAIN authored.perInstance THEN authored.perInstance[index] ELSE {}

\* ComputeInstanceTransforms and ComputeInstanceCategories walk the same instances: of one
\* instancer, with what it holds; none where it is hidden.
Level(authored, held) ==
    IF ~held.visible THEN <<>>
    ELSE [n \in DOMAIN authored.indices |->
             [at    |-> InstanceTransform(held.primvars, authored.at, authored.indices[n]),
              links |-> authored.links \cup PerInstance(authored, authored.indices[n])]]

\* An instancer's instances, each once for each of its parent's: of no instancer at first,
\* then of the n outermost.
Nested(levels) ==
    LET Outermost[n \in 0..Len(levels)] ==
            IF n = 0 THEN <<[at |-> <<>>, links |-> {}]>>
            ELSE Nest(levels[Len(levels) + 1 - n], Outermost[n - 1])
    IN  Outermost[Len(levels)]

\* The prim's own transform first, and its own links.
Placements(held, p) ==
    LET instances == Nested([k \in DOMAIN Chain[p] |-> Level(stage[Chain[p][k]], held[Chain[p][k]])])
    IN  [n \in DOMAIN instances |-> [at    |-> stage[p].at \o instances[n].at,
                                     links |-> stage[p].links \cup instances[n].links]]

----------------------------------------------------------------------------
\* What each kind of prim publishes.

WantsSubdivision(p) == Kind[p] = "sphere" \/ (Kind[p] = "mesh" /\ stage[p].shape = "subdivided")

\* What the refinement of a mesh is derived from.
Refinement(placements) ==
    IF settings.adaptive
    THEN <<settings.level, settings.offScreen, settings.perFace, view,
           [n \in DOMAIN placements |-> placements[n].at]>>
    ELSE <<settings.level>>

Drawable(p) ==
    CASE Kind[p] \in {"mesh", "splats"} -> stage[p].shape # "none"
      [] Kind[p] = "curves" -> stage[p].shape \in {"linear", "cubic"}
      [] OTHER -> TRUE

Prototype(p, placements) ==
    LET shape == stage[p].shape IN
    CASE Kind[p] = "mesh" /\ WantsSubdivision(p) -> <<shape, Refinement(placements)>>
      [] Kind[p] = "sphere" -> <<shape, divisions, Refinement(placements)>>
      [] Kind[p] = "curves" -> <<shape, IF shape = "cubic" THEN settings.samples ELSE 1,
                                 IF settings.implicit THEN 0 ELSE settings.sides>>
      [] OTHER -> <<shape>>

Entry(prototype, p, placements) ==
    [prototype |-> prototype, placements |-> placements,
     visible |-> stage[p].visible, material |-> stage[p].material]

\* The entry a full sync publishes.
FullSync(p, placements) ==
    IF ~Drawable(p) \/ placements = <<>> THEN Nothing
    ELSE Entry(Prototype(p, placements), p, placements)

LightSync(p) ==
    IF ~stage[p].visible \/ stage[p].shape = "unsupported" THEN Nothing
    ELSE Entry(<<stage[p].shape>>, p, <<>>)

\* A volume that cannot be read is published as one that takes no part.
VolumeSync(p) ==
    Entry(IF stage[p].shape \in {"cube", "sphere", "plane"} THEN <<stage[p].shape>> ELSE <<"None">>,
          p, <<>>)

----------------------------------------------------------------------------
\* Sync.

Valued(primvars) == {name \in DOMAIN primvars : primvars[name] # Blocked}

\* Mutant: a primvar the instancer no longer has is kept.
SyncPrimvars_keeps(held, authored) ==
    [name \in Valued(authored) \cup (DOMAIN held \ DOMAIN authored) |->
        IF name \in DOMAIN authored THEN authored[name] ELSE held[name]]
\* What it no longer has is forgotten, and so is what it holds no value of.
SyncPrimvars(held, authored) == [name \in Valued(authored) |-> authored[name]]

SyncInstancer(i) ==
    [visible  |-> IF "visible" \in dirty[i] THEN stage[i].visible ELSE instancer[i].visible,
     primvars |-> IF "primvars" \in dirty[i]
                  THEN SyncPrimvars(instancer[i].primvars, stage[i].primvars)
                  ELSE instancer[i].primvars]

\* _SyncInstancerAndParents: the dirty ones of the chain.
SyncedInstancers(p) ==
    [i \in Instancers |-> IF i \in Range(Chain[p]) THEN SyncInstancer(i) ELSE instancer[i]]

\* Mutant: a mesh refined by where it is placed keeps its prototype as it moves.
PlacementOnly_any(p) == Kind[p] \in {"mesh", "sphere"} /\ dirty[p] \subseteq PlacementBits
PlacementOnly(p) ==
    /\ Kind[p] \in {"mesh", "sphere"}
    /\ dirty[p] \subseteq PlacementBits
    /\ ~follows[p]

Published(p, placements) ==
    CASE Kind[p] = "light" -> LightSync(p)
      [] Kind[p] = "volume" -> VolumeSync(p)
      [] p \in Rprims /\ PlacementOnly(p) /\ (placements = <<>> \/ store[p] # Nothing) ->
             IF placements = <<>> THEN Nothing
             ELSE Entry(store[p].prototype, p, placements)
      [] OTHER -> FullSync(p, placements)

\* Whether a mesh's sync gets as far as choosing how to refine it.
Refines(p, placements) ==
    /\ Kind[p] \in {"mesh", "sphere"}
    /\ ~(PlacementOnly(p) /\ store[p] # Nothing)
    /\ Drawable(p) /\ placements # <<>>

Sync(p) ==
    /\ stage[p] # Absent
    /\ dirty[p] # {}
    /\ instancer' = SyncedInstancers(p)
    /\ \E placements \in {Placements(SyncedInstancers(p), p)} :
          /\ store' = [store EXCEPT ![p] = Published(p, placements)]
          /\ follows' = [follows EXCEPT ![p] = IF Refines(p, placements)
                                               THEN WantsSubdivision(p) /\ settings.adaptive ELSE @]
    /\ dirty' = [x \in DOMAIN dirty |-> IF x = p \/ x \in Range(Chain[p]) THEN {} ELSE dirty[x]]
    /\ UNCHANGED <<stage, asked, settings, view, divisions, camera, edits>>

----------------------------------------------------------------------------
\* The render pass.

\* The prims the retessellation scene index and the sphere scene index declare dirty.
DirtyGeometry == {p \in Rprims : stage[p] # Absent /\ Kind[p] \in {"mesh", "sphere", "curves"}}
DirtySpheres == {p \in Rprims : stage[p] # Absent /\ Kind[p] = "sphere"}

\* A sphere's divisions and the geometry settings, read every frame; the view, sampled when
\* there is none, when a setting changed and when it follows the camera.
Execute ==
    LET read == ReadSettings(asked.geometry)
        changed == SettingsDiffer(settings, read)
        sample == ShouldSampleView(read.adaptive, view # Unseen, changed, read.follow)
        resync == changed \/ (sample /\ ViewMoved(view, camera))
        redivide == divisions # ClampDivisions(asked.divisions)
        again == (IF resync THEN DirtyGeometry ELSE {}) \cup (IF redivide THEN DirtySpheres ELSE {})
    IN  /\ settings' = read
        /\ divisions' = ClampDivisions(asked.divisions)
        /\ view' = IF sample THEN camera ELSE IF read.adaptive THEN view ELSE Unseen
        /\ dirty' = [x \in DOMAIN dirty |-> IF x \in again THEN InitialBits ELSE dirty[x]]
        /\ UNCHANGED <<stage, instancer, follows, store, asked, camera, edits>>

----------------------------------------------------------------------------
\* The host.

Edit == edits < MaxEdits /\ edits' = edits + 1

\* A radius is a sphere's until the scene index turns it into points.
DirtiedAs(p, field) == {field}

Change(p) == \E s \in Authored[p] :
    /\ Edit
    /\ Absent \notin {stage[p], s} /\ stage[p] # s
    /\ stage' = [stage EXCEPT ![p] = s]
    /\ dirty' = [dirty EXCEPT ![p] = @ \cup
                    UNION {DirtiedAs(p, f) : f \in {f \in DOMAIN s : s[f] # stage[p][f]}}]
    /\ UNCHANGED <<instancer, follows, store, asked, settings, view, divisions, camera>>

ChangeInstancer(i) == \E s \in Authored[i] :
    /\ Edit
    /\ stage[i] # s
    /\ stage' = [stage EXCEPT ![i] = s]
    /\ dirty' = [x \in DOMAIN dirty |->
                    IF x = i THEN dirty[x] \cup {f \in DOMAIN s : s[f] # stage[i][f]}
                    ELSE IF x \in Below(i) /\ stage[x] # Absent THEN dirty[x] \cup {"instancer"}
                    ELSE dirty[x]]
    /\ UNCHANGED <<instancer, follows, store, asked, settings, view, divisions, camera>>

\* A new prim, and a new HdClaude object for it.
AddPrim(p) == \E s \in Authored[p] \ {Absent} :
    /\ Edit
    /\ stage[p] = Absent
    /\ stage' = [stage EXCEPT ![p] = s]
    /\ dirty' = [dirty EXCEPT ![p] = InitialBits]
    /\ follows' = [follows EXCEPT ![p] = FALSE]
    /\ UNCHANGED <<instancer, store, asked, settings, view, divisions, camera>>

Finalize(p) == Nothing

RemovePrim(p) ==
    /\ Edit
    /\ Absent \in Authored[p] /\ stage[p] # Absent
    /\ stage' = [stage EXCEPT ![p] = Absent]
    /\ dirty' = [dirty EXCEPT ![p] = {}]
    /\ store' = [store EXCEPT ![p] = Finalize(p)]
    /\ UNCHANGED <<instancer, follows, asked, settings, view, divisions, camera>>

StateSettings == \E g \in AskedFor, n \in Divisions :
    /\ Edit
    /\ asked' = [geometry |-> g, divisions |-> n]
    /\ UNCHANGED <<stage, dirty, instancer, follows, store, settings, view, divisions, camera>>

MoveCamera == \E c \in Cameras \ {camera} :
    /\ Edit
    /\ camera' = c
    /\ UNCHANGED <<stage, dirty, instancer, follows, store, asked, settings, view, divisions>>

----------------------------------------------------------------------------
Init ==
    /\ \E opening \in Openings : /\ stage = opening.stage
                                 /\ asked = opening.asked
                                 /\ camera = opening.camera
    /\ settings = ReadSettings(asked.geometry)
    /\ divisions = ClampDivisions(asked.divisions)
    /\ dirty = [x \in Prims \cup Instancers |->
                   IF stage[x] = Absent THEN {} ELSE IF x \in Prims THEN InitialBits
                   ELSE {"visible", "primvars"}]
    /\ instancer = [i \in Instancers |-> [visible |-> TRUE, primvars |-> <<>>]]
    /\ follows = [p \in Prims |-> FALSE]
    /\ store = [p \in Prims |-> Nothing]
    /\ view = Unseen
    /\ edits = 0

Next == \/ \E p \in Prims : Sync(p) \/ Change(p) \/ AddPrim(p) \/ RemovePrim(p)
        \/ \E i \in Instancers : ChangeInstancer(i)
        \/ Execute \/ StateSettings \/ MoveCamera

\* The host keeps rendering, and Hydra keeps syncing what is dirty.  A prim's Sync is enabled
\* while the prim is dirty and ends with it clean, so this is its weak fairness.
Fairness == WF_vars(Execute) /\ \A p \in Prims : []<>(dirty[p] = {})

Spec == Init /\ [][Next]_vars /\ Fairness

----------------------------------------------------------------------------
\* The instancers as they would be had they read everything just now.
Fresh == [i \in Instancers |->
             [visible  |-> stage[i].visible,
              primvars |-> [name \in Valued(stage[i].primvars) |-> stage[i].primvars[name]]]]

\* Whatever the order of edits, syncs, frames and settings, a prim that is not dirty is
\* published as a sync that kept nothing would publish it, from the stage, the settings
\* and the view of now, and a prim that is gone is not published: no placement-only sync
\* keeps a prototype that moved with its placement, no instancer a primvar it lost, and
\* no setting changes without the prims it shapes being asked for again.
PublishedIsCurrent == \A p \in Prims :
    dirty[p] = {} =>
        store[p] = IF stage[p] = Absent THEN Nothing
                   ELSE IF Kind[p] = "light" THEN LightSync(p)
                   ELSE IF Kind[p] = "volume" THEN VolumeSync(p)
                   ELSE FullSync(p, Placements(Fresh, p))

\* The choices of one instance of each instancer above a prim; none under a hidden one.
Paths(p) ==
    LET chain == Chain[p] IN
    {path \in [DOMAIN chain -> UNION {DOMAIN stage[i].indices : i \in Range(chain)}] :
        \A k \in DOMAIN chain : stage[chain[k]].visible /\ path[k] \in DOMAIN stage[chain[k]].indices}

\* What a point goes through in one instance of an instancer.
Way(i, index) ==
    LET Along(name) == IF name \in Valued(stage[i].primvars) /\ index \in DOMAIN stage[i].primvars[name]
                       THEN <<stage[i].primvars[name][index]>> ELSE <<>>
    IN  Along("transforms") \o Along("scales") \o Along("rotations") \o Along("translations")
            \o stage[i].at

Through(p, path) ==
    LET chain == Chain[p]
        Up[k \in 0..Len(chain)] ==
            IF k = 0 THEN stage[p].at
            ELSE Up[k - 1] \o Way(chain[k], stage[chain[k]].indices[path[k]])
    IN  Up[Len(chain)]

Links(p, path) ==
    LET chain == Chain[p] IN
    stage[p].links \cup UNION {stage[chain[k]].links
                                 \cup PerInstance(stage[chain[k]], stage[chain[k]].indices[path[k]]) :
                                 k \in DOMAIN chain}

\* A published prim is placed once for each choice of an instance of each instancer above
\* it, where the stage says: a point goes through the prim's own transform, then through
\* each instancer's primvars and transform from the innermost out, and the placement is
\* in the light links of everything it went through.
PlacementsFollowTheStage == \A p \in Rprims :
    dirty[p] = {} /\ store[p] # Nothing =>
        LET placed == store[p].placements IN
        /\ Len(placed) = Cardinality(Paths(p))
        /\ Range(placed) = {[at |-> Through(p, path), links |-> Links(p, path)] : path \in Paths(p)}

\* Once the host stops editing, the frames stop asking for geometry: every prim comes to be
\* clean and stays so, at the settings asked for, however they were out of range, and seen
\* from the camera where refinement follows it.
Settles == <>[](/\ \A p \in Prims : dirty[p] = {}
               /\ settings = ReadSettings(asked.geometry)
               /\ (settings.adaptive => view # Unseen)
               /\ (settings.adaptive /\ settings.follow => view = camera))
=============================================================================
