---------------------------- MODULE Prims_proofs ----------------------------
(***************************************************************************)
(* Theorems about the prims: how an edited stage reaches the scene store   *)
(* (PrimSync), for any prims, instancers, stages, settings and edits, and  *)
(* what a mesh's Sync makes of its cage (MeshGeometry), for any cages,     *)
(* views and settings and any finest rate.                                 *)
(*                                                                         *)
(* PublishedIsCurrent is inductive with what the objects that keep         *)
(* something keep: an instancer agrees with the stage about each thing it  *)
(* is not dirty for, and the prototype of a mesh whose next sync may be of *)
(* its placement alone is the one it would be given now, wherever it is    *)
(* placed.  Nothing is needed of an instancer's dirty bits and a prim's    *)
(* together: a prim is published from instancers synced with it.           *)
(*                                                                         *)
(* What it is published with is then a fact about nested instances alone,  *)
(* by counting up through the instancers: each instance that the n         *)
(* outermost ones place is of one choice of an instance of each, no two of *)
(* the same and none left out, and what a point goes through on its way up *)
(* is what it has gone through before the innermost of the n, then what    *)
(* the instance is placed by.                                              *)
(*                                                                         *)
(* Of a mesh, what TessellateQuad makes is worked out for every four rates *)
(* the program has, from the walk round the boundary to the last stitch;   *)
(* what is left for the state machine is then which rates they are.        *)
(***************************************************************************)
EXTENDS PrimSync, MeshGeometry, SequenceTheorems, FiniteSetTheorems, WellFoundedInduction, TLAPS

Nodes == Prims \cup Instancers

\* The instancer as it would be had it read everything just now.
Agrees(i) ==
  /\ "visible" \notin dirty[i] => instancer[i].visible = Fresh[i].visible
  /\ "primvars" \notin dirty[i] => instancer[i].primvars = Fresh[i].primvars

\* What a placement-only sync would keep.
Keeps(p) ==
  /\ Kind[p] \in {"mesh", "sphere"} /\ stage[p] # Absent
  /\ dirty[p] \subseteq PlacementBits /\ store[p] # Nothing

KeptIsCurrent(p) ==
  /\ Drawable(p)
  /\ follows[p] <=> (WantsSubdivision(p) /\ settings.adaptive)
  /\ ~follows[p] => store[p].prototype = Prototype(p, <<>>)

PublishedInv ==
  /\ DOMAIN stage = Nodes /\ DOMAIN dirty = Nodes
  /\ DOMAIN store = Prims /\ DOMAIN follows = Prims
  /\ \A x \in Nodes : stage[x] \in Authored[x]
  /\ \A i \in Instancers : Agrees(i)
  /\ \A p \in Prims : Keeps(p) => KeptIsCurrent(p)
  /\ PublishedIsCurrent

\* What a sync that kept nothing would publish now.
Current(p) ==
  IF stage[p] = Absent THEN Nothing
  ELSE IF Kind[p] = "light" THEN LightSync(p)
  ELSE IF Kind[p] = "volume" THEN VolumeSync(p)
  ELSE FullSync(p, Placements(Fresh, p))

LEMMA CurrentIsPublished ==
  PublishedIsCurrent <=> \A p \in Prims : dirty[p] = {} => store[p] = Current(p)
BY DEF PublishedIsCurrent, Current

-----------------------------------------------------------------------------
(* Placements.                                                              *)

\* What a sync finds in an instancer it has just synced is what the stage says.
LEMMA SyncedIsFresh ==
  ASSUME NEW i \in Instancers, Agrees(i)
  PROVE  SyncInstancer(i) = Fresh[i]
<1>1. Fresh[i] = [visible |-> stage[i].visible, primvars |-> SyncPrimvars(<<>>, stage[i].primvars)]
    BY DEF Fresh, SyncPrimvars
<1>2. SyncPrimvars(instancer[i].primvars, stage[i].primvars) = SyncPrimvars(<<>>, stage[i].primvars)
    BY DEF SyncPrimvars
<1>3. (IF "visible" \in dirty[i] THEN stage[i].visible ELSE instancer[i].visible) = stage[i].visible
    BY <1>1 DEF Agrees
<1>4. (IF "primvars" \in dirty[i]
       THEN SyncPrimvars(instancer[i].primvars, stage[i].primvars) ELSE instancer[i].primvars)
      = SyncPrimvars(<<>>, stage[i].primvars)
    BY <1>1, <1>2 DEF Agrees
<1> QED
    BY <1>1, <1>3, <1>4 DEF SyncInstancer

LEMMA ChainOfInstancers ==
  ASSUME NEW p \in Prims
  PROVE  \A k \in DOMAIN Chain[p] : Chain[p][k] \in Instancers /\ Chain[p][k] \in Range(Chain[p])
<1>1. Chain[p] \in Seq(Instancers)
    BY PrimSyncAssumption
<1> HIDE DEF Chain
<1> QED
    BY <1>1 DEF Range

\* A prim is placed by what its instancers are, whatever they kept.
LEMMA SyncedPlacements ==
  ASSUME NEW p \in Prims, \A i \in Instancers : Agrees(i)
  PROVE  Placements(SyncedInstancers(p), p) = Placements(Fresh, p)
<1>1. \A k \in DOMAIN Chain[p] : SyncedInstancers(p)[Chain[p][k]] = Fresh[Chain[p][k]]
    BY ChainOfInstancers, SyncedIsFresh DEF SyncedInstancers
<1> QED
    BY <1>1 DEF Placements

\* Only the stage's states of a prim and of the instancers above it place it.
LEMMA PlacementsStay ==
  ASSUME NEW p \in Prims, stage'[p] = stage[p],
         \A i \in Instancers : i \in Range(Chain[p]) => stage'[i] = stage[i]
  PROVE  Placements(Fresh, p)' = Placements(Fresh, p)
<1>1. \A k \in DOMAIN Chain[p] : stage'[Chain[p][k]] = stage[Chain[p][k]]
    BY ChainOfInstancers
<1>2. \A k \in DOMAIN Chain[p] : Fresh'[Chain[p][k]] = Fresh[Chain[p][k]]
    BY <1>1, ChainOfInstancers DEF Fresh
<1> QED
    BY <1>1, <1>2 DEF Placements

-----------------------------------------------------------------------------
(* Prototypes.                                                              *)

\* Where refinement does not follow the placement, no placement changes a prototype.
LEMMA PrototypeOfNoPlace ==
  ASSUME NEW p, NEW placements, Kind[p] \in {"mesh", "sphere"},
         ~(WantsSubdivision(p) /\ settings.adaptive)
  PROVE  Prototype(p, placements) = Prototype(p, <<>>)
<1>1. CASE Kind[p] = "mesh" /\ WantsSubdivision(p)
    BY <1>1 DEF Prototype, Refinement
<1>2. CASE Kind[p] = "mesh" /\ ~WantsSubdivision(p)
    BY <1>2 DEF Prototype
<1>3. CASE Kind[p] = "sphere"
    BY <1>3 DEF Prototype, Refinement, WantsSubdivision
<1> QED
    BY <1>1, <1>2, <1>3

\* What a full sync publishes is an entry of its prototype, or nothing.
LEMMA FullSyncEntry ==
  ASSUME NEW p, NEW placements
  PROVE  \/ FullSync(p, placements) = Nothing
         \/ /\ Drawable(p) /\ placements # <<>>
            /\ FullSync(p, placements) = Entry(Prototype(p, placements), p, placements)
BY DEF FullSync

LEMMA EntryPrototype ==
  ASSUME NEW prototype, NEW p, NEW placements
  PROVE  Entry(prototype, p, placements).prototype = prototype
BY DEF Entry

\* Only the stage above a prim, the settings, the view and the divisions shape it.
LEMMA CurrentStays ==
  ASSUME NEW p \in Prims, stage'[p] = stage[p], UNCHANGED <<settings, view, divisions>>,
         \A i \in Instancers : i \in Range(Chain[p]) => stage'[i] = stage[i]
  PROVE  Current(p)' = Current(p)
<1>1. Placements(Fresh, p)' = Placements(Fresh, p)
    BY PlacementsStay
<1>2. LightSync(p)' = LightSync(p) /\ VolumeSync(p)' = VolumeSync(p)
    BY DEF LightSync, VolumeSync, Entry
<1>3. Drawable(p)' <=> Drawable(p)
    BY DEF Drawable
<1>4. FullSync(p, Placements(Fresh, p))' = FullSync(p, Placements(Fresh, p))
  <2> DEFINE places == Placements(Fresh, p)
  <2>1. places' = places
      BY <1>1
  <2> HIDE DEF places
  <2>2. Prototype(p, places)' = Prototype(p, places)
      BY <2>1 DEF Prototype, Refinement, WantsSubdivision
  <2>3. FullSync(p, places)' = FullSync(p, places)
      BY <1>3, <2>1, <2>2 DEF FullSync, Entry
  <2> QED
      BY <2>3 DEF places
<1> QED
    BY <1>2, <1>4 DEF Current

\* What is kept is a matter of the prim alone, the settings and the divisions.
LEMMA KeptStays ==
  ASSUME NEW p \in Prims, stage'[p] # Absent, stage'[p].shape = stage[p].shape,
         follows'[p] = follows[p], store'[p] = store[p],
         settings' = settings, Kind[p] = "sphere" => divisions' = divisions,
         Kind[p] \in {"mesh", "sphere"}, KeptIsCurrent(p)
  PROVE  KeptIsCurrent(p)'
<1>1. Drawable(p)'
    BY DEF KeptIsCurrent, Drawable
<1>2. WantsSubdivision(p)' <=> WantsSubdivision(p)
    BY DEF WantsSubdivision
<1>3. ASSUME ~follows[p] PROVE Prototype(p, <<>>)' = Prototype(p, <<>>)
  <2>1. ~(WantsSubdivision(p) /\ settings.adaptive)
      BY <1>3 DEF KeptIsCurrent
  <2>2. CASE Kind[p] = "mesh" /\ WantsSubdivision(p)
      BY <1>2, <2>1, <2>2 DEF Prototype, Refinement
  <2>3. CASE Kind[p] = "mesh" /\ ~WantsSubdivision(p)
      BY <1>2, <2>3 DEF Prototype
  <2>4. CASE Kind[p] = "sphere"
      BY <2>1, <2>4 DEF Prototype, Refinement, WantsSubdivision
  <2> QED
      BY <2>2, <2>3, <2>4
<1>4. follows'[p] <=> (WantsSubdivision(p)' /\ settings'.adaptive)
    BY <1>2 DEF KeptIsCurrent
<1>5. ~follows'[p] => store'[p].prototype = Prototype(p, <<>>)'
    BY <1>3 DEF KeptIsCurrent
<1> QED
    BY <1>1, <1>4, <1>5 DEF KeptIsCurrent

\* A sync publishes what one that kept nothing would.
LEMMA PublishesCurrent ==
  ASSUME NEW p \in Prims, stage[p] # Absent, Keeps(p) => KeptIsCurrent(p), NEW placements
  PROVE  Published(p, placements) =
           IF Kind[p] = "light" THEN LightSync(p)
           ELSE IF Kind[p] = "volume" THEN VolumeSync(p)
           ELSE FullSync(p, placements)
<1>1. CASE Kind[p] = "light"
    BY <1>1 DEF Published, Rprims
<1>2. CASE Kind[p] = "volume"
    BY <1>2 DEF Published, Rprims
<1> DEFINE Moved == p \in Rprims /\ PlacementOnly(p) /\ (placements = <<>> \/ store[p] # Nothing)
<1>3. CASE Kind[p] \notin {"light", "volume"} /\ Moved
  <2>1. Published(p, placements) = IF placements = <<>> THEN Nothing
                                   ELSE Entry(store[p].prototype, p, placements)
      BY <1>3 DEF Published
  <2>2. CASE placements = <<>>
      BY <1>3, <2>1, <2>2 DEF FullSync
  <2>3. CASE placements # <<>>
    <3>1. Keeps(p) /\ ~follows[p]
        BY <1>3, <2>3 DEF Keeps, PlacementOnly
    <3>2. Drawable(p) /\ store[p].prototype = Prototype(p, <<>>)
        BY <3>1 DEF KeptIsCurrent
    <3>3. Prototype(p, placements) = Prototype(p, <<>>)
      <4>1. Kind[p] \in {"mesh", "sphere"} /\ ~(WantsSubdivision(p) /\ settings.adaptive)
          BY <3>1 DEF Keeps, KeptIsCurrent
      <4> QED
          BY <4>1, PrototypeOfNoPlace
    <3> QED
        BY <1>3, <2>1, <2>3, <3>2, <3>3 DEF FullSync
  <2> QED
      BY <2>2, <2>3
<1>4. CASE Kind[p] \notin {"light", "volume"} /\ ~Moved
    BY <1>4 DEF Published
<1> QED
    BY <1>1, <1>2, <1>3, <1>4

LEMMA InitPublishes == Init => PublishedInv
<1> SUFFICES ASSUME Init PROVE PublishedInv
    OBVIOUS
<1>1. PICK o \in Openings : stage = o.stage
    BY DEF Init
<1>2. DOMAIN stage = Nodes /\ \A x \in Nodes : stage[x] \in Authored[x]
    BY <1>1, AuthoredAssumption DEF Nodes
<1>3. DOMAIN dirty = Nodes /\ DOMAIN store = Prims /\ DOMAIN follows = Prims
    BY DEF Init, Nodes
<1>4. \A i \in Instancers : Agrees(i)
  <2>1. SUFFICES ASSUME NEW i \in Instancers PROVE {"visible", "primvars"} \subseteq dirty[i]
      BY DEF Agrees
  <2>2. i \in Nodes /\ i \notin Prims /\ stage[i] # Absent
      BY <1>2, AuthoredAssumption, PrimSyncAssumption DEF Nodes
  <2> QED
      BY <2>2 DEF Init, Nodes
<1>5. \A p \in Prims : ~Keeps(p)
    BY DEF Init, Keeps
<1>6. PublishedIsCurrent
  <2>1. ASSUME NEW p \in Prims, dirty[p] = {} PROVE store[p] = Current(p)
    <3>1. stage[p] = Absent
        BY <2>1 DEF Init, InitialBits
    <3> QED
        BY <3>1 DEF Init, Current
  <2> QED
      BY <2>1, CurrentIsPublished
<1> QED
    BY <1>2, <1>3, <1>4, <1>5, <1>6 DEF PublishedInv

-----------------------------------------------------------------------------
(* The steps.                                                               *)

LEMMA NodesApart ==
  /\ \A p \in Prims : p \in Nodes /\ p \notin Instancers /\ p \notin Range(Chain[p])
  /\ \A i \in Instancers : i \in Nodes /\ i \notin Prims
  /\ \A p \in Prims : Range(Chain[p]) \subseteq Instancers
<1>1. \A p \in Prims : Range(Chain[p]) \subseteq Instancers
  <2>1. SUFFICES ASSUME NEW p \in Prims, NEW i \in Range(Chain[p]) PROVE i \in Instancers
      OBVIOUS
  <2>2. PICK k \in DOMAIN Chain[p] : i = Chain[p][k]
      BY DEF Range
  <2> QED
      BY <2>2, ChainOfInstancers
<1> QED
    BY <1>1, PrimSyncAssumption DEF Nodes

\* A prim nothing touched is as current as it was.
LEMMA UntouchedStays ==
  ASSUME PublishedInv, NEW p \in Prims, stage'[p] = stage[p], dirty'[p] = dirty[p],
         store'[p] = store[p], follows'[p] = follows[p], settings' = settings,
         Kind[p] = "sphere" => divisions' = divisions
  PROVE  Keeps(p)' => KeptIsCurrent(p)'
<1>1. Keeps(p)' => Keeps(p)
    BY DEF Keeps
<1>2. Keeps(p) => KeptIsCurrent(p)
    BY DEF PublishedInv
<1>3. Keeps(p)' => stage'[p] # Absent /\ Kind[p] \in {"mesh", "sphere"}
    BY DEF Keeps
<1> QED
    BY <1>1, <1>2, <1>3, KeptStays

LEMMA SyncKeeps ==
  ASSUME PublishedInv, NEW p \in Prims, Sync(p) PROVE PublishedInv'
<1> USE DEF PublishedInv
<1> DEFINE places == Placements(Fresh, p)
<1>1. /\ stage[p] # Absent /\ UNCHANGED <<stage, settings, view, divisions>>
      /\ instancer' = SyncedInstancers(p)
      /\ dirty' = [x \in DOMAIN dirty |-> IF x = p \/ x \in Range(Chain[p]) THEN {} ELSE dirty[x]]
    BY DEF Sync
<1>2. /\ store' = [store EXCEPT ![p] = Published(p, places)]
      /\ follows' = [follows EXCEPT ![p] = IF Refines(p, places)
                                           THEN WantsSubdivision(p) /\ settings.adaptive ELSE @]
  <2>1. Placements(SyncedInstancers(p), p) = places
      BY SyncedPlacements
  <2> QED
      BY <2>1 DEF Sync
<1>3. /\ DOMAIN stage' = Nodes /\ DOMAIN dirty' = Nodes
      /\ DOMAIN store' = Prims /\ DOMAIN follows' = Prims
      /\ \A x \in Nodes : stage'[x] \in Authored[x]
    BY <1>1, <1>2
<1>4. ASSUME NEW i \in Instancers PROVE Agrees(i)'
  <2>1. Fresh' = Fresh
      BY <1>1 DEF Fresh
  <2>2. CASE i \in Range(Chain[p])
    <3>1. instancer'[i] = Fresh[i]
        BY <1>1, <2>2, SyncedIsFresh DEF SyncedInstancers
    <3> QED
        BY <2>1, <3>1 DEF Agrees
  <2>3. CASE i \notin Range(Chain[p])
    <3>1. instancer'[i] = instancer[i] /\ dirty'[i] = dirty[i]
        BY <1>1, <2>3, NodesApart DEF SyncedInstancers
    <3>2. Agrees(i)
        OBVIOUS
    <3> QED
        BY <2>1, <3>1, <3>2 DEF Agrees
  <2> QED
      BY <2>2, <2>3
<1>5. ASSUME NEW q \in Prims, q # p
      PROVE  store'[q] = store[q] /\ follows'[q] = follows[q] /\ dirty'[q] = dirty[q]
    BY <1>1, <1>2, <1>5, NodesApart
<1>6. store'[p] = Current(p) /\ dirty'[p] = {}
  <2>1. Published(p, places) = Current(p)
    <3>1. Keeps(p) => KeptIsCurrent(p)
        OBVIOUS
    <3> QED
        BY <1>1, <3>1, PublishesCurrent DEF Current
  <2> QED
      BY <1>1, <1>2, <2>1, NodesApart
<1>7. ASSUME NEW q \in Prims PROVE Keeps(q)' => KeptIsCurrent(q)'
  <2>1. CASE q # p
      BY <1>1, <1>5, <2>1, UntouchedStays
  <2>2. CASE q = p
    <3>1. SUFFICES ASSUME Keeps(p)' PROVE KeptIsCurrent(p)'
        BY <2>2
    <3>2. Kind[p] \in {"mesh", "sphere"} /\ store'[p] # Nothing
        BY <3>1 DEF Keeps
    <3>3. store'[p] = FullSync(p, places)
        BY <1>1, <1>6, <3>2 DEF Current
    <3>4. /\ Drawable(p) /\ places # <<>>
          /\ store'[p].prototype = Prototype(p, places)
        BY <3>2, <3>3, FullSyncEntry, EntryPrototype
    <3>5. follows'[p] <=> (WantsSubdivision(p) /\ settings.adaptive)
      <4>1. CASE Refines(p, places)
          BY <1>2, <4>1
      <4>2. CASE ~Refines(p, places)
        <5>1. PlacementOnly(p) /\ store[p] # Nothing
            BY <3>2, <3>4, <4>2 DEF Refines
        <5>2. Keeps(p)
            BY <1>1, <5>1 DEF Keeps, PlacementOnly
        <5> QED
            BY <1>2, <4>2, <5>2 DEF KeptIsCurrent
      <4> QED
          BY <4>1, <4>2
    <3>6. ~follows'[p] => Prototype(p, places) = Prototype(p, <<>>)
        BY <3>2, <3>5, PrototypeOfNoPlace
    <3>7. Drawable(p)' /\ (follows'[p] <=> (WantsSubdivision(p)' /\ settings'.adaptive))
        BY <1>1, <3>4, <3>5 DEF Drawable, WantsSubdivision
    <3>8. Prototype(p, <<>>)' = Prototype(p, <<>>)
        BY <1>1 DEF Prototype, Refinement, WantsSubdivision
    <3> QED
        BY <3>4, <3>6, <3>7, <3>8 DEF KeptIsCurrent
  <2> QED
      BY <2>1, <2>2
<1>8. PublishedIsCurrent'
  <2>1. ASSUME NEW q \in Prims, dirty'[q] = {} PROVE store'[q] = Current(q)'
    <3>1. Current(q)' = Current(q)
        BY <1>1, CurrentStays
    <3>2. CASE q # p
        BY <1>5, <2>1, <3>1, <3>2, CurrentIsPublished
    <3> QED
        BY <1>6, <3>1, <3>2
  <2> QED
      BY <2>1 DEF PublishedIsCurrent, Current
<1> QED
    BY <1>3, <1>4, <1>7, <1>8

\* A frame asks again for every prim that what it changed shapes.
LEMMA ExecuteKeeps == PublishedInv /\ Execute => PublishedInv'
<1> SUFFICES ASSUME PublishedInv, Execute PROVE PublishedInv'
    OBVIOUS
<1> USE DEF PublishedInv
<1> DEFINE read == ReadSettings(asked.geometry)
           changed == SettingsDiffer(settings, read)
           sample == ShouldSampleView(read.adaptive, view # Unseen, changed, read.follow)
           resync == changed \/ (sample /\ ViewMoved(view, camera))
           redivide == divisions # ClampDivisions(asked.divisions)
           again == (IF resync THEN DirtyGeometry ELSE {}) \cup (IF redivide THEN DirtySpheres ELSE {})
<1>1. /\ settings' = read /\ divisions' = ClampDivisions(asked.divisions)
      /\ view' = IF sample THEN camera ELSE IF read.adaptive THEN view ELSE Unseen
      /\ dirty' = [x \in DOMAIN dirty |-> IF x \in again THEN InitialBits ELSE dirty[x]]
      /\ UNCHANGED <<stage, instancer, follows, store>>
    BY DEF Execute
<1>2. again \subseteq Prims
    BY DEF DirtyGeometry, DirtySpheres, Rprims
<1>3. /\ ~resync => settings' = settings
      /\ ~resync /\ settings.adaptive => view' = view
      /\ ~redivide => divisions' = divisions
  <2>1. ~resync => settings' = settings
      BY <1>1 DEF SettingsDiffer
  <2>2. ~resync /\ sample => view' = view
      BY <1>1 DEF ViewMoved
  <2>3. ~resync /\ settings.adaptive => view' = view
      BY <1>1, <2>1, <2>2
  <2> QED
      BY <1>1, <2>1, <2>3
<1>4. ASSUME NEW p \in Prims, p \notin again, stage[p] # Absent, Kind[p] \in {"mesh", "sphere", "curves"}
      PROVE  ~resync /\ (Kind[p] = "sphere" => ~redivide)
    BY <1>4 DEF DirtyGeometry, DirtySpheres, Rprims
<1> HIDE DEF read, changed, sample, resync, redivide, again
<1>5. \A x \in Nodes : dirty'[x] = IF x \in again THEN InitialBits ELSE dirty[x]
    BY <1>1
<1>6. ASSUME NEW i \in Instancers PROVE Agrees(i)'
  <2>1. Agrees(i) /\ dirty'[i] = dirty[i] /\ Fresh' = Fresh
      BY <1>1, <1>2, <1>5, NodesApart DEF Fresh
  <2> QED
      BY <1>1, <2>1 DEF Agrees
<1>7. ASSUME NEW p \in Prims PROVE Keeps(p)' => KeptIsCurrent(p)'
  <2>1. CASE p \in again
      BY <1>5, <2>1, NodesApart DEF Keeps, InitialBits, PlacementBits
  <2>2. CASE p \notin again
    <3>1. SUFFICES ASSUME Keeps(p)' PROVE KeptIsCurrent(p)'
        OBVIOUS
    <3>2. Kind[p] \in {"mesh", "sphere"} /\ stage[p] # Absent
        BY <1>1, <3>1 DEF Keeps
    <3>3. settings' = settings /\ (Kind[p] = "sphere" => divisions' = divisions)
        BY <1>3, <1>4, <2>2, <3>2
    <3> QED
        BY <1>1, <1>5, <2>2, <3>1, <3>3, NodesApart, UntouchedStays
  <2> QED
      BY <2>1, <2>2
<1>8. ASSUME NEW p \in Prims, dirty'[p] = {} PROVE store'[p] = Current(p)'
  <2>1. p \notin again /\ dirty[p] = {}
      BY <1>5, <1>8, NodesApart DEF InitialBits, PlacementBits
  <2>2. store'[p] = Current(p)
      BY <1>1, <2>1, CurrentIsPublished
  <2>3. Placements(Fresh, p)' = Placements(Fresh, p)
      BY <1>1, PlacementsStay
  <2>4. ASSUME stage[p] # Absent, Kind[p] \notin {"light", "volume"}
        PROVE  FullSync(p, Placements(Fresh, p))' = FullSync(p, Placements(Fresh, p))
    <3> DEFINE places == Placements(Fresh, p)
    <3>1. places' = places
        BY <2>3
    <3> HIDE DEF places
    <3>2. Prototype(p, places)' = Prototype(p, places)
      <4>1. WantsSubdivision(p)' <=> WantsSubdivision(p)
          BY <1>1 DEF WantsSubdivision
      <4>2. CASE Kind[p] \in {"mesh", "sphere"}
        <5>1. settings' = settings /\ (Kind[p] = "sphere" => divisions' = divisions)
            BY <1>3, <1>4, <2>1, <2>4, <4>2
        <5>2. settings.adaptive => view' = view
            BY <1>3, <1>4, <2>1, <2>4, <4>2
        <5>3. Refinement(places)' = Refinement(places)
            BY <3>1, <5>1, <5>2 DEF Refinement
        <5>4. CASE Kind[p] = "mesh" /\ WantsSubdivision(p)
            BY <1>1, <4>1, <5>3, <5>4 DEF Prototype
        <5>5. CASE Kind[p] = "mesh" /\ ~WantsSubdivision(p)
            BY <1>1, <4>1, <5>5 DEF Prototype
        <5>6. CASE Kind[p] = "sphere"
            BY <1>1, <5>1, <5>3, <5>6 DEF Prototype
        <5> QED
            BY <4>2, <5>4, <5>5, <5>6
      <4>3. CASE Kind[p] = "curves"
        <5>1. settings' = settings
            BY <1>3, <1>4, <2>1, <2>4, <4>3
        <5> QED
            BY <1>1, <4>3, <5>1 DEF Prototype
      <4>4. CASE Kind[p] \notin {"mesh", "sphere", "curves"}
          BY <1>1, <4>4 DEF Prototype
      <4> QED
          BY <4>2, <4>3, <4>4
    <3>3. Drawable(p)' <=> Drawable(p)
        BY <1>1 DEF Drawable
    <3>4. FullSync(p, places)' = FullSync(p, places)
        BY <1>1, <3>1, <3>2, <3>3 DEF FullSync, Entry
    <3> QED
        BY <3>4 DEF places
  <2>5. LightSync(p)' = LightSync(p) /\ VolumeSync(p)' = VolumeSync(p)
      BY <1>1 DEF LightSync, VolumeSync, Entry
  <2>6. Current(p)' = Current(p)
      BY <1>1, <2>4, <2>5 DEF Current
  <2> QED
      BY <2>2, <2>6
<1>9. PublishedIsCurrent'
    BY <1>8 DEF PublishedIsCurrent, Current
<1> QED
    BY <1>1, <1>6, <1>7, <1>9

\* An edited prim is dirty, and for its shape only where its shape was edited.
LEMMA ChangeKeeps ==
  ASSUME PublishedInv, NEW p \in Prims, Change(p) PROVE PublishedInv'
<1> USE DEF PublishedInv
<1>1. PICK s \in Authored[p] :
        /\ Absent \notin {stage[p], s} /\ stage[p] # s
        /\ stage' = [stage EXCEPT ![p] = s]
        /\ dirty' = [dirty EXCEPT ![p] = @ \cup
                        UNION {DirtiedAs(p, f) : f \in {f \in DOMAIN s : s[f] # stage[p][f]}}]
    BY DEF Change
<1>2. UNCHANGED <<instancer, follows, store, settings, view, divisions>>
    BY DEF Change
<1> DEFINE differs == {f \in DOMAIN s : s[f] # stage[p][f]}
<1>3. dirty'[p] = dirty[p] \cup differs /\ stage'[p] = s
  <2>1. UNION {DirtiedAs(p, f) : f \in differs} = differs
      BY DEF DirtiedAs
  <2> QED
      BY <1>1, <2>1, NodesApart
<1>4. \A x \in Nodes \ {p} : dirty'[x] = dirty[x] /\ stage'[x] = stage[x]
    BY <1>1
<1>5. differs # {} /\ ("shape" \notin differs => s.shape = stage[p].shape)
  <2> DEFINE fields(r) == [shape |-> r.shape, at |-> r.at, visible |-> r.visible,
                           links |-> r.links, material |-> r.material]
  <2>1. s = fields(s) /\ stage[p] = fields(stage[p])
      BY <1>1, AuthoredAssumption, NodesApart
  <2>2. DOMAIN s = {"shape", "at", "visible", "links", "material"}
      BY <2>1
  <2>3. differs = {} => fields(s) = fields(stage[p])
      BY <2>2
  <2> QED
      BY <1>1, <2>1, <2>2, <2>3
<1> HIDE DEF differs
<1>6. ASSUME NEW i \in Instancers PROVE Agrees(i)'
  <2>1. stage'[i] = stage[i] /\ dirty'[i] = dirty[i] /\ Agrees(i)
      BY <1>4, NodesApart
  <2>2. Fresh'[i] = Fresh[i]
      BY <2>1 DEF Fresh
  <2> QED
      BY <1>2, <2>1, <2>2 DEF Agrees
<1>7. ASSUME NEW q \in Prims PROVE Keeps(q)' => KeptIsCurrent(q)'
  <2>1. CASE q # p
      BY <1>2, <1>4, <2>1, NodesApart, UntouchedStays
  <2>2. CASE q = p
    <3>1. SUFFICES ASSUME Keeps(p)' PROVE KeptIsCurrent(p)'
        BY <2>2
    <3>2. Kind[p] \in {"mesh", "sphere"} /\ dirty'[p] \subseteq PlacementBits /\ store[p] # Nothing
        BY <1>2, <3>1 DEF Keeps
    <3>3. KeptIsCurrent(p)
        BY <1>1, <1>3, <3>2 DEF Keeps
    <3>4. stage'[p] # Absent /\ stage'[p].shape = stage[p].shape
        BY <1>1, <1>3, <1>5, <3>2 DEF PlacementBits
    <3> QED
        BY <1>2, <3>2, <3>3, <3>4, KeptStays
  <2> QED
      BY <2>1, <2>2
<1>8. ASSUME NEW q \in Prims, dirty'[q] = {} PROVE store'[q] = Current(q)'
  <2>1. q # p
      BY <1>3, <1>5, <1>8
  <2>2. stage'[q] = stage[q] /\ dirty[q] = {}
      BY <1>4, <1>8, <2>1, NodesApart
  <2>3. Current(q)' = Current(q)
    <3>1. \A i \in Instancers : stage'[i] = stage[i]
        BY <1>4, NodesApart
    <3> QED
        BY <1>2, <2>2, <3>1, CurrentStays
  <2> QED
      BY <1>2, <2>2, <2>3, CurrentIsPublished
<1>9. PublishedIsCurrent'
    BY <1>8 DEF PublishedIsCurrent, Current
<1>10. /\ DOMAIN stage' = Nodes /\ DOMAIN dirty' = Nodes
       /\ DOMAIN store' = Prims /\ DOMAIN follows' = Prims
       /\ \A x \in Nodes : stage'[x] \in Authored[x]
    BY <1>1, <1>2
<1> QED
    BY <1>6, <1>7, <1>9, <1>10

\* All that an edited instancer places is dirty.
LEMMA ChangeInstancerKeeps ==
  ASSUME PublishedInv, NEW i \in Instancers, ChangeInstancer(i) PROVE PublishedInv'
<1> USE DEF PublishedInv
<1>1. PICK s \in Authored[i] :
        /\ stage' = [stage EXCEPT ![i] = s]
        /\ dirty' = [x \in DOMAIN dirty |->
                        IF x = i THEN dirty[x] \cup {f \in DOMAIN s : s[f] # stage[i][f]}
                        ELSE IF x \in Below(i) /\ stage[x] # Absent THEN dirty[x] \cup {"instancer"}
                        ELSE dirty[x]]
    BY DEF ChangeInstancer
<1>2. UNCHANGED <<instancer, follows, store, settings, view, divisions>>
    BY DEF ChangeInstancer
<1>3. \A x \in Nodes \ {i} : /\ stage'[x] = stage[x]
                             /\ dirty'[x] = dirty[x] \/ dirty'[x] = dirty[x] \cup {"instancer"}
    BY <1>1
<1>4. /\ stage'[i] = s /\ dirty'[i] = dirty[i] \cup {f \in DOMAIN s : s[f] # stage[i][f]}
      /\ {"visible", "primvars"} \subseteq DOMAIN s
    BY <1>1, NodesApart, AuthoredAssumption
<1>5. ASSUME NEW j \in Instancers PROVE Agrees(j)'
  <2>1. Agrees(j)
      OBVIOUS
  <2>2. ("visible" \notin dirty'[j] => "visible" \notin dirty[j])
        /\ ("primvars" \notin dirty'[j] => "primvars" \notin dirty[j])
      BY <1>3, <1>4, NodesApart
  <2>3. CASE j = i
    <3>1. "visible" \notin dirty'[i] => s.visible = stage[i].visible
        BY <1>4
    <3>2. "primvars" \notin dirty'[i] => s.primvars = stage[i].primvars
        BY <1>4
    <3>3. "visible" \notin dirty'[i] => Fresh'[i].visible = Fresh[i].visible
        BY <1>4, <3>1 DEF Fresh
    <3>4. "primvars" \notin dirty'[i] => Fresh'[i].primvars = Fresh[i].primvars
        BY <1>4, <3>2 DEF Fresh
    <3> QED
        BY <1>2, <2>1, <2>2, <2>3, <3>3, <3>4 DEF Agrees
  <2>4. CASE j # i
    <3>1. stage'[j] = stage[j]
        BY <1>3, <2>4, NodesApart
    <3>2. Fresh'[j] = Fresh[j]
        BY <3>1 DEF Fresh
    <3> QED
        BY <1>2, <2>1, <2>2, <3>2 DEF Agrees
  <2> QED
      BY <2>3, <2>4
<1>6. ASSUME NEW p \in Prims PROVE Keeps(p)' => KeptIsCurrent(p)'
  <2>1. p \in Nodes \ {i}
      BY NodesApart
  <2>2. stage'[p] = stage[p] /\ (Keeps(p)' => Keeps(p))
      BY <1>2, <1>3, <2>1 DEF Keeps
  <2>3. Keeps(p)' => stage'[p] # Absent /\ Kind[p] \in {"mesh", "sphere"} /\ KeptIsCurrent(p)
      BY <2>2 DEF Keeps
  <2> QED
      BY <1>2, <2>2, <2>3, KeptStays
<1>7. ASSUME NEW p \in Prims, dirty'[p] = {} PROVE store'[p] = Current(p)'
  <2>1. p \in Nodes \ {i}
      BY NodesApart
  <2>2. stage'[p] = stage[p] /\ dirty[p] = {}
      BY <1>3, <1>7, <2>1
  <2>3. CASE stage[p] = Absent
      BY <1>2, <2>2, <2>3, CurrentIsPublished DEF Current
  <2>4. CASE stage[p] # Absent
    <3>1. i \notin Range(Chain[p])
      <4>1. p \notin Below(i)
          BY <1>1, <1>7, <2>1, <2>4
      <4> QED
          BY <2>1, <4>1 DEF Below, Nodes
    <3>2. \A j \in Instancers : j \in Range(Chain[p]) => stage'[j] = stage[j]
        BY <1>3, <3>1, NodesApart
    <3>3. Current(p)' = Current(p)
        BY <1>2, <2>2, <3>2, CurrentStays
    <3> QED
        BY <1>2, <2>2, <3>3, CurrentIsPublished
  <2> QED
      BY <2>3, <2>4
<1>8. PublishedIsCurrent'
    BY <1>7 DEF PublishedIsCurrent, Current
<1>9. /\ DOMAIN stage' = Nodes /\ DOMAIN dirty' = Nodes
      /\ DOMAIN store' = Prims /\ DOMAIN follows' = Prims
      /\ \A x \in Nodes : stage'[x] \in Authored[x]
    BY <1>1, <1>2
<1> QED
    BY <1>5, <1>6, <1>8, <1>9

\* A prim that comes is dirty for its shape; one that goes leaves nothing.
LEMMA AddOrRemoveKeeps ==
  ASSUME PublishedInv, NEW p \in Prims, AddPrim(p) \/ RemovePrim(p) PROVE PublishedInv'
<1> USE DEF PublishedInv
<1>1. PICK s \in Authored[p] : stage' = [stage EXCEPT ![p] = s]
    BY DEF AddPrim, RemovePrim
<1>2. UNCHANGED <<instancer, settings, view, divisions>>
    BY DEF AddPrim, RemovePrim
<1>3. /\ \A x \in Nodes \ {p} : stage'[x] = stage[x] /\ dirty'[x] = dirty[x]
      /\ \A q \in Prims \ {p} : store'[q] = store[q] /\ follows'[q] = follows[q]
    BY DEF AddPrim, RemovePrim
<1>4. \/ dirty'[p] = InitialBits
      \/ stage'[p] = Absent /\ store'[p] = Nothing
    BY NodesApart DEF AddPrim, RemovePrim, Finalize
<1>5. ASSUME NEW i \in Instancers PROVE Agrees(i)'
  <2>1. stage'[i] = stage[i] /\ dirty'[i] = dirty[i] /\ Agrees(i)
      BY <1>3, NodesApart
  <2>2. Fresh'[i] = Fresh[i]
      BY <2>1 DEF Fresh
  <2> QED
      BY <1>2, <2>1, <2>2 DEF Agrees
<1>6. ASSUME NEW q \in Prims PROVE Keeps(q)' => KeptIsCurrent(q)'
  <2>1. CASE q # p
      BY <1>2, <1>3, <2>1, NodesApart, UntouchedStays
  <2>2. CASE q = p
      BY <1>4, <2>2 DEF Keeps, InitialBits, PlacementBits
  <2> QED
      BY <2>1, <2>2
<1>7. ASSUME NEW q \in Prims, dirty'[q] = {} PROVE store'[q] = Current(q)'
  <2>1. CASE q = p
      BY <1>4, <1>7, <2>1 DEF InitialBits, Current
  <2>2. CASE q # p
    <3>1. stage'[q] = stage[q] /\ dirty[q] = {} /\ store'[q] = store[q]
        BY <1>3, <1>7, <2>2, NodesApart
    <3>2. \A i \in Instancers : stage'[i] = stage[i]
        BY <1>3, NodesApart
    <3>3. Current(q)' = Current(q)
        BY <1>2, <3>1, <3>2, CurrentStays
    <3> QED
        BY <3>1, <3>3, CurrentIsPublished
  <2> QED
      BY <2>1, <2>2
<1>8. PublishedIsCurrent'
    BY <1>7 DEF PublishedIsCurrent, Current
<1>9. /\ DOMAIN stage' = Nodes /\ DOMAIN dirty' = Nodes
      /\ DOMAIN store' = Prims /\ DOMAIN follows' = Prims
      /\ \A x \in Nodes : stage'[x] \in Authored[x]
    BY <1>1 DEF AddPrim, RemovePrim
<1> QED
    BY <1>5, <1>6, <1>8, <1>9

LEMMA NextPublishes == PublishedInv /\ [Next]_vars => PublishedInv'
<1> SUFFICES ASSUME PublishedInv, [Next]_vars PROVE PublishedInv'
    OBVIOUS
<1>1. ASSUME NEW p \in Prims, Sync(p) PROVE PublishedInv'
    BY <1>1, SyncKeeps
<1>2. ASSUME NEW p \in Prims, Change(p) PROVE PublishedInv'
    BY <1>2, ChangeKeeps
<1>3. ASSUME NEW p \in Prims, AddPrim(p) \/ RemovePrim(p) PROVE PublishedInv'
    BY <1>3, AddOrRemoveKeeps
<1>4. ASSUME NEW i \in Instancers, ChangeInstancer(i) PROVE PublishedInv'
    BY <1>4, ChangeInstancerKeeps
<1>5. CASE Execute
    BY <1>5, ExecuteKeeps
<1>6. CASE StateSettings \/ MoveCamera \/ UNCHANGED vars
  <2>1. UNCHANGED <<stage, dirty, instancer, follows, store, settings, view, divisions>>
      BY <1>6 DEF StateSettings, MoveCamera, vars
  <2>2. ASSUME NEW i \in Instancers PROVE Agrees(i)'
      BY <2>1 DEF PublishedInv, Agrees, Fresh
  <2>3. ASSUME NEW p \in Prims PROVE Keeps(p)' => KeptIsCurrent(p)'
      BY <2>1, UntouchedStays
  <2>4. ASSUME NEW p \in Prims, dirty'[p] = {} PROVE store'[p] = Current(p)'
    <3>1. Current(p)' = Current(p)
        BY <2>1, CurrentStays
    <3> QED
        BY <2>1, <2>4, <3>1, CurrentIsPublished DEF PublishedInv
  <2>5. PublishedIsCurrent'
      BY <2>4 DEF PublishedIsCurrent, Current
  <2> QED
      BY <2>1, <2>2, <2>3, <2>5 DEF PublishedInv
<1> QED
    BY <1>1, <1>2, <1>3, <1>4, <1>5, <1>6 DEF Next

\* A prim that is not dirty is published as a sync that kept nothing would publish it,
\* from the stage, settings and view of now, and a prim that is gone is not published:
\* for any stage, and any order of edits, syncs, frames and settings.
THEOREM PublishedAsOfNow == Spec => []PublishedIsCurrent
<1>1. PublishedInv => PublishedIsCurrent
    BY DEF PublishedInv
<1> QED
    BY <1>1, InitPublishes, NextPublishes, PTL DEF Spec

LEMMA HasLeast ==
  ASSUME NEW S \in SUBSET Nat, S # {}
  PROVE  \E x \in S : \A y \in S : x <= y
<1>1. PICK x \in S : \A y \in S : ~(<<y, x>> \in OpToRel(<, Nat))
    BY NatLessThanWellFounded, WFMin
<1>2. ASSUME NEW y \in S PROVE x <= y
  <2>1. ~(y < x)
      BY <1>1 DEF OpToRel
  <2> QED
      BY <2>1
<1> QED
    BY <1>2

LEMMA CountsUp ==
  ASSUME NEW N \in Nat, NEW P \in SUBSET (0 .. N), 0 \in P,
         \A n \in P : n < N => n + 1 \in P
  PROVE  P = 0 .. N
<1> DEFINE missing == (0 .. N) \ P
<1>1. SUFFICES ASSUME missing # {} PROVE FALSE
    OBVIOUS
<1>2. missing \in SUBSET Nat
    OBVIOUS
<1>3. PICK d \in missing : \A e \in missing : d <= e
    BY <1>1, <1>2, HasLeast
<1>4. d \in 0 .. N /\ d \notin P /\ d # 0
    OBVIOUS
<1>5. d - 1 \in 0 .. N /\ d - 1 \notin missing
    BY <1>3, <1>4
<1>6. d - 1 \in P /\ d - 1 < N /\ (d - 1) + 1 = d
    BY <1>4, <1>5
<1> QED
    BY <1>4, <1>6

\* Counting in rows of m.
LEMMA InRows ==
  ASSUME NEW m \in Nat, NEW n \in Nat, NEW k \in 1 .. (m * n)
  PROVE  /\ m > 0
         /\ ((k - 1) % m) + 1 \in 1 .. m
         /\ ((k - 1) \div m) + 1 \in 1 .. n
         /\ k = ((k - 1) \div m) * m + (((k - 1) % m) + 1)
<1>1. m # 0
  <2>1. m * n > 0
      OBVIOUS
  <2> QED
      BY <2>1
<1>2. (k - 1) % m \in 0 .. (m - 1) /\ (k - 1) \div m \in Int
    BY <1>1
<1>3. k - 1 = m * ((k - 1) \div m) + ((k - 1) % m)
    BY <1>1
<1>4. PICK q \in Int : q = (k - 1) \div m
    BY <1>2
<1>5. PICK r \in 0 .. (m - 1) : r = (k - 1) % m
    BY <1>2
<1>6. k - 1 = m * q + r
    BY <1>3, <1>4, <1>5
<1>7. q >= 0
  <2>1. SUFFICES ASSUME q <= -1 PROVE FALSE
      OBVIOUS
  <2>2. m * q <= m * (-1)
      BY <1>1, <2>1
  <2> QED
      BY <1>6, <2>2
<1>8. q <= n - 1
  <2>1. SUFFICES ASSUME q >= n PROVE FALSE
      OBVIOUS
  <2>2. m * q >= m * n
      BY <1>1, <2>1
  <2>3. m * q <= m * n - 1 /\ m * q \in Int /\ m * n \in Int
      BY <1>6
  <2> QED
      BY <2>2, <2>3
<1>9. q * m = m * q
    OBVIOUS
<1> QED
    BY <1>1, <1>4, <1>5, <1>6, <1>7, <1>8, <1>9

LEMMA RowsApart ==
  ASSUME NEW m \in Nat, NEW n \in Nat, NEW i \in 1 .. m, NEW j \in 1 .. n
  PROVE  /\ (j - 1) * m + i \in 1 .. (m * n)
         /\ ((((j - 1) * m + i) - 1) % m) + 1 = i
         /\ ((((j - 1) * m + i) - 1) \div m) + 1 = j
<1>1. (j - 1) * m \in Nat /\ (j - 1) * m + m = j * m /\ j * m <= n * m /\ n * m = m * n
  <2>1. (j - 1) * m \in Nat
      OBVIOUS
  <2>2. (j - 1) * m + m = j * m
      OBVIOUS
  <2>3. j * m <= n * m
      OBVIOUS
  <2> QED
      BY <2>1, <2>2, <2>3
<1>2. PICK a \in Nat : a = (j - 1) * m
    BY <1>1
<1>3. PICK b \in Nat : b = m * n
    OBVIOUS
<1>4. a + m <= b
    BY <1>1, <1>2, <1>3
<1>5. a + i \in 1 .. b
    BY <1>4
<1>6. (((j - 1) * m + i) - 1) % m = i - 1 /\ (((j - 1) * m + i) - 1) \div m = j - 1
    OBVIOUS
<1> QED
    BY <1>2, <1>3, <1>5, <1>6

-----------------------------------------------------------------------------
(* Nested instances.                                                        *)

\* Instances of one instancer after another, the innermost first.
Ladder(levels) ==
  /\ Len(levels) \in Nat
  /\ \A k \in 1 .. Len(levels) :
        /\ Len(levels[k]) \in Nat
        /\ \A j \in 1 .. Len(levels[k]) : levels[k][j].at \in Seq(Moves)

\* The n outermost levels, and the choices of one instance of each.
Outer(levels, n) == (Len(levels) + 1 - n) .. Len(levels)
Picks(levels, n) ==
  {c \in [Outer(levels, n) -> Nat] : \A k \in Outer(levels, n) : c[k] \in 1 .. Len(levels[k])}

\* What a point has gone through on each level, of the instances c.
Climbs(levels, up, c) ==
  /\ up \in [0 .. Len(levels) -> Seq(Moves)]
  /\ \A k \in 1 .. Len(levels) : up[k] = up[k - 1] \o levels[k][c[k]].at

\* f is the choice that each instance placed by the n outermost levels is of.
PlacesOutermost(levels, placed, n, f) ==
  /\ Len(placed) \in Nat /\ DOMAIN placed = 1 .. Len(placed)
  /\ f \in [1 .. Len(placed) -> Picks(levels, n)]
  /\ \A i, j \in 1 .. Len(placed) : f[i] = f[j] => i = j
  /\ \A c \in Picks(levels, n) : \E i \in 1 .. Len(placed) : f[i] = c
  /\ \A i \in 1 .. Len(placed) :
        /\ placed[i].at \in Seq(Moves)
        /\ placed[i].links = UNION {levels[k][f[i][k]].links : k \in Outer(levels, n)}
        /\ \A c \in Picks(levels, Len(levels)) : \A up :
              Climbs(levels, up, c) /\ (\A k \in Outer(levels, n) : c[k] = f[i][k])
                => up[Len(levels)] = up[Len(levels) - n] \o placed[i].at

LEMMA Composed ==
  /\ \A s, t \in Seq(Moves) : s \o t \in Seq(Moves)
  /\ \A s, t, u \in Seq(Moves) : (s \o t) \o u = s \o (t \o u)
BY ConcatProperties, ConcatAssociative

LEMMA NestIsOfBoth ==
  ASSUME NEW inner, NEW outer, Len(inner) \in Nat, Len(outer) \in Nat
  PROVE  /\ Len(Nest(inner, outer)) = Len(inner) * Len(outer)
         /\ DOMAIN Nest(inner, outer) = 1 .. (Len(inner) * Len(outer))
         /\ \A k \in 1 .. (Len(inner) * Len(outer)) :
               LET i == ((k - 1) % Len(inner)) + 1
                   j == ((k - 1) \div Len(inner)) + 1
               IN  /\ Nest(inner, outer)[k].at = inner[i].at \o outer[j].at
                   /\ Nest(inner, outer)[k].links = inner[i].links \cup outer[j].links
<1> DEFINE made(k) == LET own == inner[((k - 1) % Len(inner)) + 1]
                          above == outer[((k - 1) \div Len(inner)) + 1]
                      IN  [at |-> own.at \o above.at, links |-> own.links \cup above.links]
           N == Len(inner) * Len(outer)
           T == {made(k) : k \in 1 .. N}
<1>1. N \in Nat
    OBVIOUS
<1>2. Nest(inner, outer) = [k \in 1 .. N |-> made(k)]
    BY DEF Nest
<1>3. [k \in 1 .. N |-> made(k)] \in [1 .. N -> T]
    OBVIOUS
<1>4. Len(Nest(inner, outer)) = N
  <2> HIDE DEF made, N, T
  <2>1. [k \in 1 .. N |-> made(k)] \in Seq(T)
      BY <1>1, <1>3
  <2>2. DOMAIN [k \in 1 .. N |-> made(k)] = 1 .. N
      OBVIOUS
  <2> QED
      BY <1>1, <1>2, <2>1, <2>2, LenProperties
<1>5. \A k \in 1 .. N : Nest(inner, outer)[k] = made(k)
  <2> HIDE DEF made, N
  <2> QED
      BY <1>2
<1>6. \A k \in 1 .. N : LET i == ((k - 1) % Len(inner)) + 1
                            j == ((k - 1) \div Len(inner)) + 1
                        IN  /\ made(k).at = inner[i].at \o outer[j].at
                            /\ made(k).links = inner[i].links \cup outer[j].links
    OBVIOUS
<1> HIDE DEF made
<1>7. DOMAIN Nest(inner, outer) = 1 .. N
    BY <1>2
<1> QED
    BY <1>4, <1>5, <1>6, <1>7

LEMMA NestPlaces ==
  ASSUME NEW levels, Ladder(levels), NEW n \in Nat, n < Len(levels),
         NEW placed, NEW f, PlacesOutermost(levels, placed, n, f)
  PROVE  \E g : PlacesOutermost(levels, Nest(levels[Len(levels) - n], placed), n + 1, g)
<1> DEFINE N == Len(levels)
           t == N - n
           m == Len(levels[t])
           w == Len(placed)
           all == Nest(levels[t], placed)
           lo(k) == ((k - 1) % m) + 1
           hi(k) == ((k - 1) \div m) + 1
           g == [k \in 1 .. (m * w) |-> [x \in t .. N |-> IF x = t THEN lo(k) ELSE f[hi(k)][x]]]
<1>1. N \in Nat /\ t \in 1 .. N /\ m \in Nat /\ w \in Nat
    BY DEF Ladder, PlacesOutermost
<1>2. Outer(levels, n) = (t + 1) .. N /\ Outer(levels, n + 1) = t .. N
    BY <1>1 DEF Outer
<1>3. /\ Len(all) = m * w /\ DOMAIN all = 1 .. (m * w)
      /\ \A k \in 1 .. (m * w) : /\ all[k].at = levels[t][lo(k)].at \o placed[hi(k)].at
                                 /\ all[k].links = levels[t][lo(k)].links \cup placed[hi(k)].links
    BY <1>1, NestIsOfBoth
<1>4. \A k \in 1 .. (m * w) : /\ lo(k) \in 1 .. m /\ hi(k) \in 1 .. w
                              /\ k = (hi(k) - 1) * m + lo(k)
  <2>1. ASSUME NEW k \in 1 .. (m * w)
        PROVE  lo(k) \in 1 .. m /\ hi(k) \in 1 .. w /\ k = (hi(k) - 1) * m + lo(k)
    <3> HIDE DEF m, w
    <3>1. /\ ((k - 1) % m) + 1 \in 1 .. m
          /\ ((k - 1) \div m) + 1 \in 1 .. w
          /\ k = ((k - 1) \div m) * m + (((k - 1) % m) + 1)
        BY <1>1, InRows
    <3>2. (k - 1) \div m \in Int
        BY <3>1, <1>1
    <3> QED
        BY <3>1, <3>2
  <2> QED
      BY <2>1
<1>5. \A i \in 1 .. m, j \in 1 .. w : /\ (j - 1) * m + i \in 1 .. (m * w)
                                      /\ lo((j - 1) * m + i) = i /\ hi((j - 1) * m + i) = j
  <2> HIDE DEF m, w
  <2> QED
      BY <1>1, RowsApart
<1> HIDE DEF m, w, all, lo, hi, t
<1>6. \A i \in 1 .. w : /\ f[i] \in [(t + 1) .. N -> Nat]
                        /\ \A x \in (t + 1) .. N : f[i][x] \in 1 .. Len(levels[x])
    BY <1>2 DEF PlacesOutermost, Picks, w
<1>7. \A k \in 1 .. (m * w) : /\ g[k] \in [t .. N -> Nat] /\ g[k][t] = lo(k)
                              /\ \A x \in (t + 1) .. N : g[k][x] = f[hi(k)][x]
  <2>1. ASSUME NEW k \in 1 .. (m * w)
        PROVE  /\ g[k] \in [t .. N -> Nat] /\ g[k][t] = lo(k)
               /\ \A x \in (t + 1) .. N : g[k][x] = f[hi(k)][x]
    <3>1. g[k] = [x \in t .. N |-> IF x = t THEN lo(k) ELSE f[hi(k)][x]]
        OBVIOUS
    <3>2. lo(k) \in Nat /\ hi(k) \in 1 .. w
        BY <1>1, <1>4, <2>1
    <3>3. \A x \in t .. N : x # t => f[hi(k)][x] \in Nat
        BY <1>1, <1>6, <3>2
    <3> HIDE DEF g
    <3> QED
        BY <1>1, <3>1, <3>2, <3>3
  <2> QED
      BY <2>1
<1>8. g \in [1 .. Len(all) -> Picks(levels, n + 1)]
  <2>1. ASSUME NEW k \in 1 .. (m * w) PROVE g[k] \in Picks(levels, n + 1)
    <3>1. \A x \in t .. N : g[k][x] \in 1 .. Len(levels[x])
      <4>1. g[k][t] \in 1 .. Len(levels[t])
          BY <1>4, <1>7, <2>1 DEF m
      <4>2. \A x \in (t + 1) .. N : g[k][x] \in 1 .. Len(levels[x])
          BY <1>4, <1>6, <1>7, <2>1
      <4> HIDE DEF g
      <4> QED
          BY <1>1, <4>1, <4>2
    <3> HIDE DEF g
    <3> QED
        BY <1>2, <1>7, <2>1, <3>1 DEF Picks
  <2>2. DOMAIN g = 1 .. (m * w) /\ g = [k \in 1 .. (m * w) |-> g[k]]
      OBVIOUS
  <2> HIDE DEF g
  <2> QED
      BY <1>3, <2>1, <2>2
<1> HIDE DEF g
<1>9. \A i, j \in 1 .. Len(all) : g[i] = g[j] => i = j
  <2>1. SUFFICES ASSUME NEW i \in 1 .. (m * w), NEW j \in 1 .. (m * w), g[i] = g[j]
                 PROVE  i = j
      BY <1>3
  <2>2. lo(i) = lo(j)
      BY <1>7, <2>1
  <2>3. f[hi(i)] = f[hi(j)]
    <3>1. hi(i) \in 1 .. w /\ hi(j) \in 1 .. w
        BY <1>4
    <3>2. \A x \in (t + 1) .. N : f[hi(i)][x] = f[hi(j)][x]
        BY <1>7, <2>1
    <3>3. PICK D : D = (t + 1) .. N
        OBVIOUS
    <3>4. PICK a \in [D -> Nat] : a = f[hi(i)]
        BY <1>6, <3>1, <3>3
    <3>5. PICK b \in [D -> Nat] : b = f[hi(j)]
        BY <1>6, <3>1, <3>3
    <3>6. \A x \in D : a[x] = b[x]
        BY <3>2, <3>3, <3>4, <3>5
    <3> QED
        BY ONLY <3>4, <3>5, <3>6
  <2>4. hi(i) = hi(j)
      BY <1>4, <2>3 DEF PlacesOutermost, w
  <2> QED
      BY <1>4, <2>2, <2>4
<1>10. \A c \in Picks(levels, n + 1) : \E k \in 1 .. Len(all) : g[k] = c
  <2>1. SUFFICES ASSUME NEW c \in Picks(levels, n + 1)
                 PROVE  \E k \in 1 .. (m * w) : g[k] = c
      BY <1>3
  <2> DEFINE d == [x \in (t + 1) .. N |-> c[x]]
  <2>2. /\ c \in [t .. N -> Nat] /\ c[t] \in 1 .. m
        /\ \A x \in (t + 1) .. N : c[x] \in 1 .. Len(levels[x])
      BY <1>1, <1>2, <2>1 DEF Picks, m
  <2>3. d \in Picks(levels, n)
      BY <1>1, <1>2, <2>2 DEF Picks
  <2>4. PICK j \in 1 .. w : f[j] = d
      BY <2>3 DEF PlacesOutermost, w
  <2>5. PICK k \in 1 .. (m * w) : lo(k) = c[t] /\ hi(k) = j
      BY <1>5, <2>2, <2>4
  <2>6. \A x \in t .. N : g[k][x] = c[x]
    <3>1. \A x \in (t + 1) .. N : g[k][x] = c[x]
        BY <1>7, <2>4, <2>5
    <3> QED
        BY <1>1, <1>7, <2>5, <3>1
  <2>7. g[k] = c
    <3>1. PICK D : D = t .. N
        OBVIOUS
    <3>2. PICK a \in [D -> Nat] : a = g[k]
        BY <1>7, <3>1
    <3>3. PICK b \in [D -> Nat] : b = c
        BY <2>2, <3>1
    <3>4. \A x \in D : a[x] = b[x]
        BY <2>6, <3>1, <3>2, <3>3
    <3> QED
        BY ONLY <3>2, <3>3, <3>4
  <2> QED
      BY <2>7
<1>11. ASSUME NEW k \in 1 .. (m * w)
       PROVE  /\ all[k].at \in Seq(Moves)
              /\ all[k].links = UNION {levels[x][g[k][x]].links : x \in Outer(levels, n + 1)}
              /\ \A c \in Picks(levels, N) : \A up :
                    Climbs(levels, up, c) /\ (\A x \in Outer(levels, n + 1) : c[x] = g[k][x])
                      => up[N] = up[N - (n + 1)] \o all[k].at
  <2>1. /\ levels[t][lo(k)].at \in Seq(Moves) /\ placed[hi(k)].at \in Seq(Moves)
        /\ hi(k) \in 1 .. w
    <3>1. levels[t][lo(k)].at \in Seq(Moves)
        BY <1>1, <1>4, <1>11 DEF Ladder, m
    <3>2. hi(k) \in 1 .. w /\ placed[hi(k)].at \in Seq(Moves)
        BY <1>4, <1>11 DEF PlacesOutermost, w
    <3> QED
        BY <3>1, <3>2
  <2>2. all[k].at \in Seq(Moves)
    <3>1. PICK s \in Seq(Moves) : s = levels[t][lo(k)].at
        BY <2>1
    <3>2. PICK u \in Seq(Moves) : u = placed[hi(k)].at
        BY <2>1
    <3>3. all[k].at = s \o u
        BY <1>3, <1>11, <3>1, <3>2
    <3>4. s \o u \in Seq(Moves)
        BY ONLY s \in Seq(Moves), u \in Seq(Moves), Composed
    <3> QED
        BY <3>3, <3>4
  <2>3. all[k].links = UNION {levels[x][g[k][x]].links : x \in Outer(levels, n + 1)}
    <3>1. placed[hi(k)].links = UNION {levels[x][g[k][x]].links : x \in (t + 1) .. N}
      <4>1. placed[hi(k)].links = UNION {levels[x][f[hi(k)][x]].links : x \in (t + 1) .. N}
          BY <1>2, <2>1 DEF PlacesOutermost, w
      <4> QED
          BY <1>7, <1>11, <4>1
    <3>2. all[k].links = levels[t][g[k][t]].links \cup placed[hi(k)].links
        BY <1>3, <1>7, <1>11
    <3>3. t .. N = {t} \cup ((t + 1) .. N)
        BY <1>1
    <3> QED
        BY <1>2, <3>1, <3>2, <3>3
  <2>4. ASSUME NEW c \in Picks(levels, N), NEW up, Climbs(levels, up, c),
               \A x \in Outer(levels, n + 1) : c[x] = g[k][x]
        PROVE  up[N] = up[N - (n + 1)] \o all[k].at
    <3>1. up[N] = up[t] \o placed[hi(k)].at
      <4>1. \A x \in Outer(levels, n) : c[x] = f[hi(k)][x]
          BY <1>1, <1>2, <1>7, <1>11, <2>4
      <4> QED
          BY <2>1, <2>4, <4>1 DEF PlacesOutermost, w, t
    <3>2. up[t] = up[t - 1] \o levels[t][lo(k)].at
      <4>1. c[t] = lo(k)
          BY <1>1, <1>2, <1>7, <1>11, <2>4
      <4> QED
          BY <1>1, <2>4, <4>1 DEF Climbs
    <3>3. up[t - 1] \in Seq(Moves)
        BY <1>1, <2>4 DEF Climbs
    <3>4. up[N] = up[t - 1] \o (levels[t][lo(k)].at \o placed[hi(k)].at)
      <4>1. PICK s \in Seq(Moves) : s = up[t - 1]
          BY <3>3
      <4>2. PICK v \in Seq(Moves) : v = levels[t][lo(k)].at
          BY <2>1
      <4>3. PICK u \in Seq(Moves) : u = placed[hi(k)].at
          BY <2>1
      <4>4. (s \o v) \o u = s \o (v \o u)
          BY ONLY s \in Seq(Moves), v \in Seq(Moves), u \in Seq(Moves), Composed
      <4> QED
          BY <3>1, <3>2, <4>1, <4>2, <4>3, <4>4
    <3>5. t - 1 = N - (n + 1)
        BY <1>1 DEF t
    <3> QED
        BY <1>3, <1>11, <3>4, <3>5
  <2> QED
      BY <2>2, <2>3, <2>4
<1>12. PlacesOutermost(levels, all, n + 1, g)
  <2>1. Len(all) \in Nat /\ DOMAIN all = 1 .. Len(all)
      BY <1>1, <1>3
  <2> QED
      BY <1>3, <1>8, <1>9, <1>10, <1>11, <2>1 DEF PlacesOutermost
<1> QED
    BY <1>12 DEF all, t

\* The first instances are placed by nothing, then by the n outermost levels.
Base == <<[at |-> <<>>, links |-> {}]>>
NestedUpTo(levels, n, g) ==
  g = [m \in 0 .. n |-> IF m = 0 THEN Base ELSE Nest(levels[Len(levels) + 1 - m], g[m - 1])]

LEMMA NestedUnfolds ==
  ASSUME NEW levels, Len(levels) \in Nat
  PROVE  \E g : NestedUpTo(levels, Len(levels), g) /\ Nested(levels) = g[Len(levels)]
<1> DEFINE N == Len(levels)
           P == {n \in 0 .. N : \E g : NestedUpTo(levels, n, g)}
<1>1. 0 \in P
  <2> DEFINE g == [m \in 0 .. 0 |-> Base]
  <2>1. NestedUpTo(levels, 0, g)
    <3>1. [m \in 0 .. 0 |-> IF m = 0 THEN Base ELSE Nest(levels[Len(levels) + 1 - m], g[m - 1])] = g
        OBVIOUS
    <3> QED
        BY <3>1 DEF NestedUpTo
  <2> QED
      BY <2>1
<1>2. ASSUME NEW n \in P, n < N PROVE n + 1 \in P
  <2>1. PICK g : NestedUpTo(levels, n, g)
      OBVIOUS
  <2> DEFINE next(m) == IF m = 0 THEN Base ELSE Nest(levels[Len(levels) + 1 - m], g[m - 1])
             h == [m \in 0 .. (n + 1) |-> IF m <= n THEN g[m] ELSE next(m)]
  <2>2. n \in Nat /\ n + 1 \in 0 .. N
      BY <1>2
  <2>3. \A m \in 0 .. n : g[m] = next(m)
    <3>1. g = [m \in 0 .. n |-> next(m)]
        BY <2>1 DEF NestedUpTo
    <3> HIDE DEF next
    <3> QED
        BY <3>1
  <2>4. \A m \in 0 .. (n + 1) : h[m] = next(m)
    <3> HIDE DEF next
    <3> QED
        BY <2>2, <2>3
  <2>5. \A m \in 0 .. n : h[m] = g[m]
    <3> HIDE DEF next
    <3> QED
        BY <2>2
  <2>6. \A m \in 0 .. (n + 1) :
           h[m] = IF m = 0 THEN Base ELSE Nest(levels[Len(levels) + 1 - m], h[m - 1])
    <3>1. SUFFICES ASSUME NEW m \in 0 .. (n + 1), m # 0 PROVE h[m - 1] = g[m - 1]
      <4> HIDE DEF h
      <4> QED
          BY <2>4
    <3>2. m - 1 \in 0 .. n
        BY <2>2, <3>1
    <3> HIDE DEF h
    <3> QED
        BY <2>5, <3>2
  <2>7. h = [m \in 0 .. (n + 1) |-> h[m]]
      OBVIOUS
  <2> HIDE DEF h
  <2>8. NestedUpTo(levels, n + 1, h)
      BY <2>6, <2>7 DEF NestedUpTo
  <2> QED
      BY <2>2, <2>8
<1>3. P = 0 .. N
  <2> HIDE DEF P
  <2>1. P \in SUBSET (0 .. N)
      BY DEF P
  <2> QED
      BY <1>1, <1>2, <2>1, CountsUp
<1>4. \E g : NestedUpTo(levels, N, g)
    BY <1>3
<1> DEFINE g == CHOOSE g : g = [m \in 0 .. Len(levels) |->
                                  IF m = 0 THEN <<[at |-> <<>>, links |-> {}]>>
                                  ELSE Nest(levels[Len(levels) + 1 - m], g[m - 1])]
<1>5. NestedUpTo(levels, N, g)
    BY <1>4 DEF NestedUpTo, Base
<1>6. Nested(levels) = g[N]
    BY Zenon DEF Nested
<1> HIDE DEF g
<1> QED
    BY <1>5, <1>6

\* An instance for each choice, through the transforms and in the links of its own.
LEMMA NestedPlaces ==
  ASSUME NEW levels, Ladder(levels)
  PROVE  \E f : PlacesOutermost(levels, Nested(levels), Len(levels), f)
<1> DEFINE N == Len(levels)
<1>1. N \in Nat
    BY DEF Ladder
<1>2. PICK g : NestedUpTo(levels, N, g) /\ Nested(levels) = g[N]
    BY <1>1, NestedUnfolds
<1>3. /\ g[0] = Base
      /\ \A n \in 0 .. N : n < N => g[n + 1] = Nest(levels[N - n], g[n])
  <2> DEFINE next(m) == IF m = 0 THEN Base ELSE Nest(levels[N + 1 - m], g[m - 1])
  <2>1. \A m \in 0 .. N : g[m] = next(m)
    <3>1. g = [m \in 0 .. N |-> next(m)]
        BY <1>2 DEF NestedUpTo
    <3> HIDE DEF next
    <3> QED
        BY <3>1
  <2>2. g[0] = Base
      BY <1>1, <2>1
  <2>3. ASSUME NEW n \in 0 .. N, n < N PROVE g[n + 1] = Nest(levels[N - n], g[n])
    <3>1. n + 1 \in 0 .. N /\ n + 1 # 0 /\ N + 1 - (n + 1) = N - n /\ (n + 1) - 1 = n
        BY <1>1, <2>3
    <3> QED
        BY <2>1, <3>1
  <2> QED
      BY <2>2, <2>3
<1> DEFINE P == {n \in 0 .. N : \E f : PlacesOutermost(levels, g[n], n, f)}
<1>4. 0 \in P
  <2> DEFINE none == [x \in {} |-> 0]
             f == [i \in 1 .. 1 |-> none]
  <2>1. Outer(levels, 0) = {}
      BY <1>1 DEF Outer
  <2>2. Picks(levels, 0) = {none}
    <3>1. Picks(levels, 0) = [{} -> Nat]
        BY <2>1 DEF Picks
    <3>2. none \in [{} -> Nat] /\ \A c \in [{} -> Nat] : c = none
        OBVIOUS
    <3> HIDE DEF none
    <3> QED
        BY <3>1, <3>2
  <2>3. Len(Base) = 1 /\ Base[1].at = <<>> /\ Base[1].links = {}
      BY DEF Base
  <2>4. f \in [1 .. Len(Base) -> Picks(levels, 0)] /\ f[1] = none
      BY <2>2, <2>3
  <2>5. <<>> \in Seq(Moves) /\ \A s \in Seq(Moves) : s \o <<>> = s
      BY ConcatEmptySeq
  <2> HIDE DEF f, none
  <2>6. PlacesOutermost(levels, Base, 0, f)
    <3>1. \A i \in 1 .. Len(Base) : i = 1
        BY <2>3
    <3>2. \A c \in Picks(levels, 0) : \E i \in 1 .. Len(Base) : f[i] = c
        BY <2>2, <2>3, <2>4
    <3>3. Base[1].links = UNION {levels[k][f[1][k]].links : k \in Outer(levels, 0)}
        BY <2>1, <2>3
    <3>4. ASSUME NEW c \in Picks(levels, Len(levels)), NEW up, Climbs(levels, up, c)
          PROVE  up[Len(levels)] = up[Len(levels) - 0] \o Base[1].at
      <4>1. up[N] \in Seq(Moves) /\ N - 0 = N
          BY <1>1, <3>4 DEF Climbs
      <4> QED
          BY <2>3, <2>5, <4>1
    <3>5. ASSUME NEW i \in 1 .. Len(Base)
          PROVE  /\ Base[i].at \in Seq(Moves)
                 /\ Base[i].links = UNION {levels[k][f[i][k]].links : k \in Outer(levels, 0)}
                 /\ \A c \in Picks(levels, Len(levels)) : \A up :
                       Climbs(levels, up, c) /\ (\A k \in Outer(levels, 0) : c[k] = f[i][k])
                         => up[Len(levels)] = up[Len(levels) - 0] \o Base[i].at
      <4>1. i = 1
          BY <3>1, <3>5
      <4>2. Base[i].at \in Seq(Moves)
          BY <2>3, <2>5, <4>1
      <4>3. Base[i].links = UNION {levels[k][f[i][k]].links : k \in Outer(levels, 0)}
          BY <3>3, <4>1, Zenon
      <4>4. \A c \in Picks(levels, Len(levels)) : \A up :
               Climbs(levels, up, c) => up[Len(levels)] = up[Len(levels) - 0] \o Base[i].at
          BY <3>4, <4>1, Zenon
      <4> QED
          BY <4>2, <4>3, <4>4, Zenon
    <3>6. \A i, j \in 1 .. Len(Base) : f[i] = f[j] => i = j
        BY <3>1
    <3>7. Len(Base) \in Nat /\ DOMAIN Base = 1 .. Len(Base)
        BY <2>3 DEF Base
    <3> QED
        BY <2>4, <3>2, <3>5, <3>6, <3>7 DEF PlacesOutermost
  <2> QED
      BY <1>1, <1>3, <2>6
<1>5. ASSUME NEW n \in P, n < N PROVE n + 1 \in P
  <2>1. n \in 0 .. N /\ n \in Nat /\ n + 1 \in 0 .. N
      BY <1>1, <1>5
  <2>2. PICK f : PlacesOutermost(levels, g[n], n, f)
      OBVIOUS
  <2>3. \E h : PlacesOutermost(levels, Nest(levels[Len(levels) - n], g[n]), n + 1, h)
      BY <1>5, <2>1, <2>2, NestPlaces
  <2> QED
      BY <1>3, <1>5, <2>1, <2>3
<1>6. P = 0 .. N
  <2> HIDE DEF P
  <2>1. P \in SUBSET (0 .. N)
      BY DEF P
  <2> QED
      BY <1>1, <1>4, <1>5, <2>1, CountsUp
<1> QED
    BY <1>1, <1>2, <1>6

-----------------------------------------------------------------------------
(* The instances of a stage.                                                *)

LEMMA ChainIsASequence ==
  ASSUME NEW p \in Prims
  PROVE  /\ Len(Chain[p]) \in Nat /\ DOMAIN Chain[p] = 1 .. Len(Chain[p])
         /\ \A k \in 1 .. Len(Chain[p]) : Chain[p][k] \in Instancers /\ Chain[p][k] \in Range(Chain[p])
<1>1. Chain[p] \in Seq(Instancers)
    BY PrimSyncAssumption
<1> HIDE DEF Chain
<1>2. Len(Chain[p]) \in Nat /\ DOMAIN Chain[p] = 1 .. Len(Chain[p])
    BY <1>1, LenProperties
<1> QED
    BY <1>2, ChainOfInstancers

\* What the primvars of an instancer that reads the stage do is what the stage says.
LEMMA StepsAlongTheWay ==
  ASSUME NEW i \in Instancers, stage[i] \in Authored[i], NEW index
  PROVE  /\ InstanceTransform(Fresh[i].primvars, stage[i].at, index) = Way(i, index)
         /\ Way(i, index) \in Seq(Moves)
<1> DEFINE Stepping(name) == IF name \in Valued(stage[i].primvars) /\ index \in DOMAIN stage[i].primvars[name]
                          THEN <<stage[i].primvars[name][index]>> ELSE <<>>
           held == [name \in Valued(stage[i].primvars) |-> stage[i].primvars[name]]
<1>1. Fresh[i].primvars = held
    BY DEF Fresh
<1>2. ASSUME NEW name PROVE Step(held, name, index) = Stepping(name) /\ Stepping(name) \in Seq(Moves)
  <2>1. Step(held, name, index) = Stepping(name)
      BY DEF Step
  <2>2. Stepping(name) \in Seq(Moves)
    <3>1. CASE name \in Valued(stage[i].primvars) /\ index \in DOMAIN stage[i].primvars[name]
      <4>1. stage[i].primvars[name] \in Seq(Moves)
          BY <3>1, AuthoredAssumption DEF Valued
      <4>2. PICK s \in Seq(Moves) : s = stage[i].primvars[name]
          BY <4>1
      <4>3. s[index] \in Moves
          BY <3>1, <4>2, ElementOfSeq
      <4> QED
          BY <3>1, <4>2, <4>3
    <3>2. CASE ~(name \in Valued(stage[i].primvars) /\ index \in DOMAIN stage[i].primvars[name])
        BY <3>2
    <3> QED
        BY <3>1, <3>2
  <2> QED
      BY <2>1, <2>2
<1>3. stage[i].at \in Seq(Moves)
    BY AuthoredAssumption
<1>4. Way(i, index) = Stepping("transforms") \o Stepping("scales") \o Stepping("rotations")
                        \o Stepping("translations") \o stage[i].at
    BY DEF Way
<1> HIDE DEF Stepping, held
<1>5. Way(i, index) \in Seq(Moves)
    BY <1>2, <1>3, <1>4, Composed
<1>6. InstanceTransform(held, stage[i].at, index) = Way(i, index)
  <2>1. /\ Step(held, "transforms", index) = Stepping("transforms")
        /\ Step(held, "scales", index) = Stepping("scales")
        /\ Step(held, "rotations", index) = Stepping("rotations")
        /\ Step(held, "translations", index) = Stepping("translations")
      BY <1>2
  <2> QED
      BY <1>4, <2>1, Zenon DEF InstanceTransform
<1> QED
    BY <1>1, <1>5, <1>6

\* The instances of the instancers above a prim.
LevelsOf(p) == [k \in DOMAIN Chain[p] |-> Level(stage[Chain[p][k]], Fresh[Chain[p][k]])]

LEMMA LevelOfTheStage ==
  ASSUME NEW i \in Instancers, stage[i] \in Authored[i]
  PROVE  LET level == Level(stage[i], Fresh[i]) IN
         /\ Len(level) \in Nat
         /\ ~stage[i].visible => Len(level) = 0
         /\ stage[i].visible => 1 .. Len(level) = DOMAIN stage[i].indices
         /\ \A n \in 1 .. Len(level) :
               LET index == stage[i].indices[n] IN
               /\ level[n].at = Way(i, index) /\ level[n].at \in Seq(Moves)
               /\ level[n].links = stage[i].links \cup PerInstance(stage[i], index)
<1>1. stage[i].indices \in Seq(Nat) /\ Fresh[i].visible = stage[i].visible
    BY AuthoredAssumption DEF Fresh
<1>2. CASE ~stage[i].visible
  <2>1. Level(stage[i], Fresh[i]) = <<>>
      BY <1>1, <1>2 DEF Level
  <2> QED
      BY <1>2, <2>1
<1>3. CASE stage[i].visible
  <2> DEFINE indices == stage[i].indices
             made(n) == [at    |-> InstanceTransform(Fresh[i].primvars, stage[i].at, indices[n]),
                         links |-> stage[i].links \cup PerInstance(stage[i], indices[n])]
             T == {made(n) : n \in DOMAIN indices}
  <2>1. Level(stage[i], Fresh[i]) = [n \in DOMAIN indices |-> made(n)]
      BY <1>1, <1>3 DEF Level
  <2>2. Len(indices) \in Nat /\ DOMAIN indices = 1 .. Len(indices)
      BY <1>1, LenProperties
  <2>3. \A n : /\ made(n).at = InstanceTransform(Fresh[i].primvars, stage[i].at, indices[n])
               /\ made(n).links = stage[i].links \cup PerInstance(stage[i], indices[n])
      OBVIOUS
  <2>4. \A n \in DOMAIN indices : made(n) \in T
      OBVIOUS
  <2> HIDE DEF made, T, indices
  <2>5. Level(stage[i], Fresh[i]) \in Seq(T)
      BY <2>1, <2>2, <2>4
  <2>6. Len(Level(stage[i], Fresh[i])) = Len(indices)
      BY <2>1, <2>2, <2>5, LenProperties
  <2>7. \A n \in 1 .. Len(indices) : Level(stage[i], Fresh[i])[n] = made(n)
      BY <2>1, <2>2
  <2> QED
      BY <1>3, <2>2, <2>3, <2>6, <2>7, StepsAlongTheWay DEF indices
<1> QED
    BY <1>2, <1>3

LEMMA LevelsAreALadder ==
  ASSUME NEW p \in Prims, \A i \in Instancers : stage[i] \in Authored[i]
  PROVE  /\ Ladder(LevelsOf(p)) /\ Len(LevelsOf(p)) = Len(Chain[p])
         /\ \A k \in 1 .. Len(Chain[p]) :
               LevelsOf(p)[k] = Level(stage[Chain[p][k]], Fresh[Chain[p][k]])
<1> DEFINE N == Len(Chain[p])
           made(k) == Level(stage[Chain[p][k]], Fresh[Chain[p][k]])
           T == {made(k) : k \in 1 .. N}
<1>1. /\ N \in Nat /\ DOMAIN Chain[p] = 1 .. N
      /\ \A k \in 1 .. N : Chain[p][k] \in Instancers
    BY ChainIsASequence
<1> HIDE DEF Chain
<1>2. LevelsOf(p) = [k \in 1 .. N |-> made(k)]
    BY <1>1 DEF LevelsOf
<1>3. \A k \in 1 .. N : made(k) \in T
    OBVIOUS
<1>4. \A k \in 1 .. N : /\ Len(made(k)) \in Nat
                        /\ \A j \in 1 .. Len(made(k)) : made(k)[j].at \in Seq(Moves)
    BY <1>1, LevelOfTheStage
<1> HIDE DEF made, T, N
<1>5. LevelsOf(p) \in Seq(T)
    BY <1>1, <1>2, <1>3
<1>6. Len(LevelsOf(p)) = N
    BY <1>1, <1>2, <1>5, LenProperties
<1>7. \A k \in 1 .. N : LevelsOf(p)[k] = made(k)
    BY <1>2
<1>8. Ladder(LevelsOf(p))
    BY <1>1, <1>4, <1>6, <1>7 DEF Ladder
<1> QED
    BY <1>6, <1>7, <1>8 DEF N, made

\* A choice of one instance of each instancer is one of each level.
LEMMA PathsArePicks ==
  ASSUME NEW p \in Prims, \A i \in Instancers : stage[i] \in Authored[i]
  PROVE  Paths(p) = Picks(LevelsOf(p), Len(LevelsOf(p)))
<1> DEFINE N == Len(Chain[p])
           levels == LevelsOf(p)
           D == UNION {DOMAIN stage[i].indices : i \in Range(Chain[p])}
<1>1. /\ N \in Nat /\ DOMAIN Chain[p] = 1 .. N
      /\ \A k \in 1 .. N : Chain[p][k] \in Instancers /\ Chain[p][k] \in Range(Chain[p])
    BY ChainIsASequence
<1> HIDE DEF Chain
<1>2. /\ Len(levels) = N
      /\ \A k \in 1 .. N : levels[k] = Level(stage[Chain[p][k]], Fresh[Chain[p][k]])
    BY LevelsAreALadder
<1> HIDE DEF levels
<1>3. ASSUME NEW k \in 1 .. N
      PROVE  /\ stage[Chain[p][k]].visible => 1 .. Len(levels[k]) = DOMAIN stage[Chain[p][k]].indices
             /\ ~stage[Chain[p][k]].visible => 1 .. Len(levels[k]) = {}
  <2>1. PICK i \in Instancers : i = Chain[p][k]
      BY <1>1
  <2>2. levels[k] = Level(stage[i], Fresh[i])
      BY <1>2, <2>1
  <2>3. /\ ~stage[i].visible => Len(levels[k]) = 0
        /\ stage[i].visible => 1 .. Len(levels[k]) = DOMAIN stage[i].indices
      BY <2>2, LevelOfTheStage
  <2>4. Len(levels[k]) = 0 => 1 .. Len(levels[k]) = {}
      OBVIOUS
  <2> QED
      BY <2>1, <2>3, <2>4
<1>4. Paths(p) = {path \in [1 .. N -> D] :
                    \A k \in 1 .. N : /\ stage[Chain[p][k]].visible
                                      /\ path[k] \in DOMAIN stage[Chain[p][k]].indices}
    BY <1>1 DEF Paths
<1>5. Picks(levels, N) = {c \in [1 .. N -> Nat] : \A k \in 1 .. N : c[k] \in 1 .. Len(levels[k])}
  <2>1. Outer(levels, N) = 1 .. N
      BY <1>1, <1>2 DEF Outer
  <2> QED
      BY <2>1 DEF Picks
<1>6. \A k \in 1 .. N : DOMAIN stage[Chain[p][k]].indices \subseteq D
    BY <1>1
<1> HIDE DEF D, N
<1>7. ASSUME NEW path \in Paths(p) PROVE path \in Picks(levels, N)
  <2>1. /\ path \in [1 .. N -> D]
        /\ \A k \in 1 .. N : stage[Chain[p][k]].visible /\ path[k] \in DOMAIN stage[Chain[p][k]].indices
      BY <1>4, <1>7
  <2>2. \A k \in 1 .. N : path[k] \in 1 .. Len(levels[k])
      BY <1>3, <2>1
  <2>3. \A k \in 1 .. N : path[k] \in Nat
      BY <2>2
  <2>4. path \in [1 .. N -> Nat]
      BY <2>1, <2>3
  <2> QED
      BY <1>5, <2>2, <2>4
<1>8. ASSUME NEW c \in Picks(levels, N) PROVE c \in Paths(p)
  <2>1. c \in [1 .. N -> Nat] /\ \A k \in 1 .. N : c[k] \in 1 .. Len(levels[k])
      BY <1>5, <1>8
  <2>2. \A k \in 1 .. N : stage[Chain[p][k]].visible /\ c[k] \in DOMAIN stage[Chain[p][k]].indices
    <3>1. ASSUME NEW k \in 1 .. N
          PROVE  stage[Chain[p][k]].visible /\ c[k] \in DOMAIN stage[Chain[p][k]].indices
      <4>1. PICK x : x = c[k] /\ x \in 1 .. Len(levels[k])
          BY <2>1
      <4> QED
          BY <1>3, <4>1
    <3> QED
        BY <3>1
  <2>3. \A k \in 1 .. N : c[k] \in D
      BY <1>6, <2>2
  <2>4. c \in [1 .. N -> D]
      BY <2>1, <2>3
  <2> QED
      BY <1>4, <2>2, <2>4
<1>9. Paths(p) = Picks(levels, N)
    BY <1>7, <1>8
<1> QED
    BY <1>2, <1>9 DEF levels

\* What a point has gone through after the n innermost instancers.
GoneThrough(p, path, n, up) ==
  up = [k \in 0 .. n |->
          IF k = 0 THEN stage[p].at
          ELSE up[k - 1] \o Way(Chain[p][k], stage[Chain[p][k]].indices[path[k]])]

LEMMA ThroughUnfolds ==
  ASSUME NEW p \in Prims, NEW path
  PROVE  \E up : /\ GoneThrough(p, path, Len(Chain[p]), up)
                 /\ Through(p, path) = up[Len(Chain[p])]
<1> DEFINE N == Len(Chain[p])
           way(k) == Way(Chain[p][k], stage[Chain[p][k]].indices[path[k]])
           P == {n \in 0 .. N : \E up : GoneThrough(p, path, n, up)}
<1>0. N \in Nat
    BY ChainIsASequence
<1> HIDE DEF Chain
<1>1. 0 \in P
  <2> DEFINE up == [k \in 0 .. 0 |-> stage[p].at]
  <2>1. [k \in 0 .. 0 |-> IF k = 0 THEN stage[p].at ELSE up[k - 1] \o way(k)] = up
    <3> HIDE DEF way
    <3> QED
        OBVIOUS
  <2>2. GoneThrough(p, path, 0, up)
      BY <2>1 DEF GoneThrough
  <2> QED
      BY <1>0, <2>2
<1>2. ASSUME NEW n \in P, n < N PROVE n + 1 \in P
  <2>1. PICK up : GoneThrough(p, path, n, up)
      OBVIOUS
  <2> DEFINE next(k) == IF k = 0 THEN stage[p].at ELSE up[k - 1] \o way(k)
             h == [k \in 0 .. (n + 1) |-> IF k <= n THEN up[k] ELSE next(k)]
  <2>2. n \in Nat /\ n + 1 \in 0 .. N
      BY <1>0, <1>2
  <2>3. \A k \in 0 .. n : up[k] = next(k)
    <3>1. up = [k \in 0 .. n |-> next(k)]
        BY <2>1 DEF GoneThrough
    <3> HIDE DEF next
    <3> QED
        BY <3>1
  <2>4. \A k \in 0 .. (n + 1) : h[k] = next(k)
    <3> HIDE DEF next
    <3> QED
        BY <2>2, <2>3
  <2>5. \A k \in 0 .. n : h[k] = up[k]
    <3> HIDE DEF next
    <3> QED
        BY <2>2
  <2>6. h = [k \in 0 .. (n + 1) |-> h[k]]
      OBVIOUS
  <2> HIDE DEF h
  <2>7. \A k \in 0 .. (n + 1) : h[k] = IF k = 0 THEN stage[p].at ELSE h[k - 1] \o way(k)
    <3>1. SUFFICES ASSUME NEW k \in 0 .. (n + 1), k # 0 PROVE h[k - 1] = up[k - 1]
      <4> HIDE DEF way
      <4> QED
          BY <2>4
    <3>2. k - 1 \in 0 .. n
        BY <2>2, <3>1
    <3> QED
        BY <2>5, <3>2
  <2>8. GoneThrough(p, path, n + 1, h)
    <3>1. h = [k \in 0 .. (n + 1) |-> IF k = 0 THEN stage[p].at ELSE h[k - 1] \o way(k)]
      <4> HIDE DEF way
      <4> QED
          BY <2>6, <2>7
    <3> QED
        BY <3>1 DEF GoneThrough
  <2> QED
      BY <2>2, <2>8
<1>3. P = 0 .. N
  <2> HIDE DEF P
  <2>1. P \in SUBSET (0 .. N)
      BY DEF P
  <2> QED
      BY <1>0, <1>1, <1>2, <2>1, CountsUp
<1>4. \E up : GoneThrough(p, path, N, up)
    BY <1>0, <1>3
<1> DEFINE g == CHOOSE g : g = [k \in 0 .. Len(Chain[p]) |->
                  IF k = 0 THEN stage[p].at
                  ELSE g[k - 1] \o Way(Chain[p][k], stage[Chain[p][k]].indices[path[k]])]
<1>5. GoneThrough(p, path, N, g)
    BY <1>4 DEF GoneThrough
<1>6. Through(p, path) = g[N]
    BY Zenon DEF Through
<1> HIDE DEF g
<1> QED
    BY <1>5, <1>6

LEMMA PathClimbs ==
  ASSUME NEW p \in Prims, stage[p] \in Authored[p] \ {Absent},
         \A i \in Instancers : stage[i] \in Authored[i],
         NEW path \in Paths(p)
  PROVE  \E up : /\ Climbs(LevelsOf(p), up, path)
                 /\ up[0] = stage[p].at /\ up[Len(LevelsOf(p))] = Through(p, path)
<1> DEFINE N == Len(Chain[p])
           levels == LevelsOf(p)
           way(k) == Way(Chain[p][k], stage[Chain[p][k]].indices[path[k]])
<1>1. N \in Nat /\ \A k \in 1 .. N : Chain[p][k] \in Instancers
    BY ChainIsASequence
<1> HIDE DEF Chain
<1>2. /\ Len(levels) = N
      /\ \A k \in 1 .. N : levels[k] = Level(stage[Chain[p][k]], Fresh[Chain[p][k]])
    BY LevelsAreALadder
<1>3. \A k \in 1 .. N : path[k] \in 1 .. Len(levels[k])
  <2>1. path \in Picks(levels, N)
      BY <1>2, PathsArePicks
  <2>2. Outer(levels, N) = 1 .. N
      BY <1>1, <1>2 DEF Outer
  <2> HIDE DEF levels, N
  <2> QED
      BY <2>1, <2>2 DEF Picks
<1>4. \A k \in 1 .. N : way(k) = levels[k][path[k]].at /\ way(k) \in Seq(Moves)
  <2>1. ASSUME NEW k \in 1 .. N PROVE way(k) = levels[k][path[k]].at /\ way(k) \in Seq(Moves)
    <3>1. PICK i \in Instancers : i = Chain[p][k]
        BY <1>1
    <3>2. PICK level : level = Level(stage[i], Fresh[i])
        OBVIOUS
    <3>3. levels[k] = level /\ path[k] \in 1 .. Len(level)
        BY <1>2, <1>3, <3>1, <3>2
    <3>4. level[path[k]].at = Way(i, stage[i].indices[path[k]]) /\ level[path[k]].at \in Seq(Moves)
        BY <3>2, <3>3, LevelOfTheStage
    <3> QED
        BY <3>1, <3>3, <3>4
  <2> QED
      BY <2>1
<1>5. PICK up : GoneThrough(p, path, N, up) /\ Through(p, path) = up[N]
    BY ThroughUnfolds
<1> HIDE DEF way, levels, N
<1>6. /\ DOMAIN up = 0 .. N /\ up[0] = stage[p].at
      /\ \A k \in 1 .. N : up[k] = up[k - 1] \o way(k)
  <2> DEFINE next(k) == IF k = 0 THEN stage[p].at ELSE up[k - 1] \o way(k)
  <2>1. up = [k \in 0 .. N |-> next(k)]
      BY <1>5 DEF GoneThrough, way
  <2>2. DOMAIN up = 0 .. N /\ \A k \in 0 .. N : up[k] = next(k)
    <3> HIDE DEF next
    <3> QED
        BY <2>1
  <2> QED
      BY <1>1, <2>2
<1> DEFINE P == {n \in 0 .. N : up[n] \in Seq(Moves)}
<1>7. P = 0 .. N
  <2>1. 0 \in P
    <3>1. stage[p].at \in Seq(Moves)
        BY AuthoredAssumption
    <3> QED
        BY <1>1, <1>6, <3>1
  <2>2. ASSUME NEW n \in P, n < N PROVE n + 1 \in P
    <3>1. n + 1 \in 1 .. N /\ (n + 1) - 1 = n /\ n \in 0 .. N
        BY <1>1, <2>2
    <3>2. up[n + 1] = up[n] \o way(n + 1)
        BY <1>6, <3>1
    <3>3. PICK s \in Seq(Moves) : s = up[n]
        BY <2>2
    <3>4. PICK t \in Seq(Moves) : t = way(n + 1)
        BY <1>4, <3>1
    <3>5. s \o t \in Seq(Moves)
        BY ONLY s \in Seq(Moves), t \in Seq(Moves), Composed
    <3>6. up[n + 1] \in Seq(Moves)
        BY <3>2, <3>3, <3>4, <3>5
    <3>7. n + 1 \in 0 .. N
        BY <1>1, <3>1
    <3> QED
        BY <3>6, <3>7
  <2>3. P \in SUBSET (0 .. N)
      OBVIOUS
  <2> HIDE DEF P
  <2> QED
      BY <1>1, <2>1, <2>2, <2>3, CountsUp
<1>8. up \in [0 .. N -> Seq(Moves)]
  <2>1. \A k \in 0 .. N : up[k] \in Seq(Moves)
      BY <1>7
  <2>2. up = [k \in 0 .. N |-> up[k]]
    <3>1. up = [k \in 0 .. N |-> IF k = 0 THEN stage[p].at ELSE up[k - 1] \o way(k)]
        BY <1>5 DEF GoneThrough, way
    <3> QED
        BY <3>1
  <2> QED
      BY <2>1, <2>2
<1>9. Climbs(levels, up, path)
    BY <1>2, <1>4, <1>6, <1>8 DEF Climbs
<1> QED
    BY <1>2, <1>5, <1>6, <1>9 DEF levels

LEMMA PlacedByTheStage ==
  ASSUME NEW p \in Prims, stage[p] \in Authored[p] \ {Absent},
         \A i \in Instancers : stage[i] \in Authored[i]
  PROVE  LET placed == Placements(Fresh, p) IN
         /\ Len(placed) = Cardinality(Paths(p))
         /\ Range(placed) = {[at |-> Through(p, path), links |-> Links(p, path)] : path \in Paths(p)}
<1> DEFINE levels == LevelsOf(p)
           N == Len(Chain[p])
           instances == Nested(levels)
           M == Len(instances)
           made(n) == [at    |-> stage[p].at \o instances[n].at,
                       links |-> stage[p].links \cup instances[n].links]
           of(path) == [at |-> Through(p, path), links |-> Links(p, path)]
           placed == Placements(Fresh, p)
<1>1. /\ N \in Nat /\ DOMAIN Chain[p] = 1 .. N
      /\ \A k \in 1 .. N : Chain[p][k] \in Instancers
    BY ChainIsASequence
<1> HIDE DEF Chain
<1>2. /\ Ladder(levels) /\ Len(levels) = N
      /\ \A k \in 1 .. N : levels[k] = Level(stage[Chain[p][k]], Fresh[Chain[p][k]])
    BY LevelsAreALadder
<1>3. PICK f : PlacesOutermost(levels, instances, N, f)
    BY <1>2, NestedPlaces
<1>4. Paths(p) = Picks(levels, N) /\ Outer(levels, N) = 1 .. N
    BY <1>1, <1>2, PathsArePicks DEF Outer
<1>5. /\ M \in Nat /\ DOMAIN instances = 1 .. M
      /\ f \in [1 .. M -> Paths(p)]
      /\ \A i, j \in 1 .. M : f[i] = f[j] => i = j
      /\ \A c \in Paths(p) : \E i \in 1 .. M : f[i] = c
    BY <1>3, <1>4 DEF PlacesOutermost
<1>6. placed = [n \in 1 .. M |-> made(n)]
    BY <1>5 DEF Placements, LevelsOf
<1>7. ASSUME NEW n \in 1 .. M PROVE made(n) = of(f[n])
  <2>1. f[n] \in Paths(p) /\ f[n] \in Picks(levels, N)
      BY <1>4, <1>5, <1>7
  <2>2. stage[p].at \o instances[n].at = Through(p, f[n])
    <3>1. PICK up : /\ Climbs(levels, up, f[n])
                    /\ up[0] = stage[p].at /\ up[N] = Through(p, f[n])
        BY <1>2, <2>1, PathClimbs
    <3>2. up[N] = up[N - N] \o instances[n].at
        BY <1>2, <1>3, <1>7, <2>1, <3>1 DEF PlacesOutermost
    <3>3. N - N = 0
        BY <1>1
    <3> QED
        BY <3>1, <3>2, <3>3
  <2>3. stage[p].links \cup instances[n].links = Links(p, f[n])
    <3> DEFINE each(k) == stage[Chain[p][k]].links
                            \cup PerInstance(stage[Chain[p][k]], stage[Chain[p][k]].indices[f[n][k]])
    <3>1. instances[n].links = UNION {levels[k][f[n][k]].links : k \in 1 .. N}
        BY <1>3, <1>4, <1>7 DEF PlacesOutermost
    <3>2. \A k \in 1 .. N : levels[k][f[n][k]].links = each(k)
      <4>1. ASSUME NEW k \in 1 .. N PROVE levels[k][f[n][k]].links = each(k)
        <5>1. PICK i \in Instancers : i = Chain[p][k]
            BY <1>1
        <5>2. PICK level : level = Level(stage[i], Fresh[i])
            OBVIOUS
        <5>3. levels[k] = level
            BY <1>2, <5>1, <5>2
        <5>4. f[n][k] \in 1 .. Len(level)
          <6>1. f[n][k] \in 1 .. Len(levels[k])
            <7> HIDE DEF levels, N
            <7> QED
                BY <1>4, <2>1 DEF Picks
          <6> QED
              BY <5>3, <6>1
        <5>5. level[f[n][k]].links
                = stage[i].links \cup PerInstance(stage[i], stage[i].indices[f[n][k]])
            BY <5>2, <5>4, LevelOfTheStage
        <5> QED
            BY <5>1, <5>3, <5>5
      <4> QED
          BY <4>1
    <3>3. Links(p, f[n]) = stage[p].links \cup UNION {each(k) : k \in 1 .. N}
        BY <1>1 DEF Links
    <3> HIDE DEF each, levels, N, instances
    <3> QED
        BY <3>1, <3>2, <3>3
  <2> QED
      BY <2>2, <2>3
<1> HIDE DEF levels, N, instances, M, made, of, placed
<1>8. Len(placed) = M
  <2> DEFINE T == {made(n) : n \in 1 .. M}
  <2>1. \A n \in 1 .. M : made(n) \in T
      OBVIOUS
  <2> HIDE DEF T
  <2>2. placed \in Seq(T)
      BY <1>5, <1>6, <2>1
  <2> QED
      BY <1>5, <1>6, <2>2, LenProperties
<1>9. Cardinality(Paths(p)) = M
  <2>1. f \in Bijection(1 .. M, Paths(p))
      BY <1>5 DEF Bijection, Injection, Surjection, IsInjective
  <2> QED
      BY <1>5, <2>1, FS_CountingElements DEF ExistsBijection
<1>10. Range(placed) = {of(path) : path \in Paths(p)}
  <2>1. ASSUME NEW x \in Range(placed) PROVE \E path \in Paths(p) : x = of(path)
    <3>1. PICK n \in 1 .. M : x = made(n)
        BY <1>6, <2>1 DEF Range
    <3> QED
        BY <1>5, <1>7, <3>1
  <2>2. ASSUME NEW path \in Paths(p) PROVE of(path) \in Range(placed)
    <3>1. PICK n \in 1 .. M : f[n] = path
        BY <1>5
    <3>2. placed[n] = of(path)
        BY <1>6, <1>7, <3>1
    <3> QED
        BY <1>6, <3>2 DEF Range
  <2> QED
      BY <2>1, <2>2
<1> QED
    BY <1>8, <1>9, <1>10 DEF placed, of

LEMMA PublishedFollows == PublishedInv => PlacementsFollowTheStage
<1> SUFFICES ASSUME PublishedInv, NEW p \in Rprims, dirty[p] = {}, store[p] # Nothing
             PROVE  LET placed == store[p].placements IN
                    /\ Len(placed) = Cardinality(Paths(p))
                    /\ Range(placed) = {[at |-> Through(p, path), links |-> Links(p, path)] :
                                           path \in Paths(p)}
    BY DEF PlacementsFollowTheStage
<1>1. p \in Prims /\ Kind[p] # "light" /\ Kind[p] # "volume"
    BY DEF Rprims
<1>2. store[p] = Current(p)
    BY <1>1, CurrentIsPublished DEF PublishedInv
<1>3. stage[p] # Absent /\ store[p] = FullSync(p, Placements(Fresh, p))
    BY <1>1, <1>2 DEF Current
<1>4. store[p] = Entry(Prototype(p, Placements(Fresh, p)), p, Placements(Fresh, p))
    BY <1>3, FullSyncEntry
<1>5. store[p].placements = Placements(Fresh, p)
    BY <1>4 DEF Entry
<1>6. stage[p] \in Authored[p] \ {Absent} /\ \A i \in Instancers : stage[i] \in Authored[i]
    BY <1>1, <1>3 DEF PublishedInv, Nodes
<1> QED
    BY <1>1, <1>5, <1>6, PlacedByTheStage

\* PlacementsFollowTheStage (instancer.cpp 126): whatever the order of edits, syncs and
\* frames, and however deep the instancers nest, a prim that is clean is placed once for
\* each choice of an instance of each instancer above it, through their transforms from the
\* innermost out, and in the light links of all it went through.
THEOREM PlacedWhereTheStageSays == Spec => []PlacementsFollowTheStage
<1>1. PublishedInv /\ [Next]_vars => PublishedInv'
    BY NextPublishes
<1> QED
    BY <1>1, InitPublishes, PublishedFollows, PTL DEF Spec

-----------------------------------------------------------------------------
(* What a mesh's Sync makes of its cage (MeshGeometry, Tessellation).       *)

\* What is a sequence, of whatever it is of.
IsSeq(s) == Len(s) \in Nat /\ s = [i \in 1 .. Len(s) |-> s[i]]

\* Every sequence of anything is one.
LEMMA SeqIsSeq ==
  ASSUME NEW S, NEW s \in Seq(S)
  PROVE  IsSeq(s)
<1>1. Len(s) \in Nat /\ s \in [1 .. Len(s) -> S]
    BY LenProperties
<1> QED
    BY <1>1 DEF IsSeq

\* A sequence is one of the things it holds.
LEMMA IsSeqOfItsOwn ==
  ASSUME NEW s, IsSeq(s)
  PROVE  /\ Len(s) \in Nat /\ DOMAIN s = 1 .. Len(s)
         /\ s \in Seq(Range(s))
         /\ \A i \in 1 .. Len(s) : s[i] \in Range(s)
         /\ \A x \in Range(s) : \E i \in 1 .. Len(s) : s[i] = x
<1>1. Len(s) \in Nat /\ DOMAIN s = 1 .. Len(s)
    BY DEF IsSeq
<1>2. \A i \in 1 .. Len(s) : s[i] \in Range(s)
    BY <1>1 DEF Range
<1>3. s \in [1 .. Len(s) -> Range(s)]
    BY <1>2 DEF IsSeq
<1>4. s \in Seq(Range(s))
    BY <1>1, <1>3
<1> QED
    BY <1>1, <1>2, <1>4 DEF Range

\* What is listed from 1 to N is a sequence of N.
LEMMA ListIsSeq ==
  ASSUME NEW N \in Nat, NEW s, s = [i \in 1 .. N |-> s[i]]
  PROVE  IsSeq(s) /\ Len(s) = N
<1> DEFINE T == {s[i] : i \in 1 .. N}
<1>1. DOMAIN s = 1 .. N
    OBVIOUS
<1>2. s \in [1 .. N -> T]
    OBVIOUS
<1> HIDE DEF T
<1>3. s \in Seq(T)
    BY <1>2
<1>4. Len(s) = N
    BY <1>1, <1>3, LenProperties
<1> QED
    BY <1>4 DEF IsSeq

\* The empty sequence holds nothing.
LEMMA Empty == IsSeq(<<>>) /\ Len(<<>>) = 0 /\ Range(<<>>) = {}
BY DEF IsSeq, Range

\* A sequence of one thing holds it.
LEMMA One ==
  ASSUME NEW x
  PROVE  IsSeq(<<x>>) /\ Len(<<x>>) = 1 /\ <<x>>[1] = x /\ Range(<<x>>) = {x}
BY DEF IsSeq, Range

\* Two sequences joined hold what each held, the second after the first.
LEMMA Joined ==
  ASSUME NEW s, NEW t, IsSeq(s), IsSeq(t)
  PROVE  /\ IsSeq(s \o t) /\ Len(s \o t) = Len(s) + Len(t)
         /\ \A i \in 1 .. Len(s) : (s \o t)[i] = s[i]
         /\ \A i \in 1 .. Len(t) : (s \o t)[Len(s) + i] = t[i]
         /\ Range(s \o t) = Range(s) \union Range(t)
<1> DEFINE S == Range(s) \union Range(t)
<1>1. s \in Seq(S) /\ t \in Seq(S)
  <2>1. s \in Seq(Range(s)) /\ t \in Seq(Range(t))
      BY IsSeqOfItsOwn
  <2> HIDE DEF S
  <2>2. Range(s) \subseteq S /\ Range(t) \subseteq S
      BY DEF S
  <2> QED
      BY <2>1, <2>2, SeqMonotonic
<1>2. Len(s) \in Nat /\ Len(t) \in Nat /\ DOMAIN s = 1 .. Len(s) /\ DOMAIN t = 1 .. Len(t)
    BY IsSeqOfItsOwn
<1> HIDE DEF S
<1>3. /\ s \o t \in Seq(S) /\ Len(s \o t) = Len(s) + Len(t)
      /\ \A i \in 1 .. Len(s) + Len(t) : (s \o t)[i] = IF i <= Len(s) THEN s[i] ELSE t[i - Len(s)]
    BY <1>1, ConcatProperties
<1>4. IsSeq(s \o t)
    BY <1>3, SeqIsSeq
<1>5. \A i \in 1 .. Len(s) : (s \o t)[i] = s[i]
    BY <1>2, <1>3
<1>6. \A i \in 1 .. Len(t) : (s \o t)[Len(s) + i] = t[i]
    BY <1>2, <1>3
<1>7. Range(s \o t) \subseteq Range(s) \union Range(t)
  <2>1. ASSUME NEW x \in Range(s \o t) PROVE x \in S
    <3>1. PICK i \in 1 .. Len(s) + Len(t) : x = (s \o t)[i]
        BY <1>3, <1>4, <2>1, IsSeqOfItsOwn
    <3>2. CASE i <= Len(s)
      <4>1. x = s[i] /\ i \in 1 .. Len(s)
          BY <1>2, <1>3, <3>1, <3>2
      <4> QED
          BY <4>1, IsSeqOfItsOwn DEF S
    <3>3. CASE ~(i <= Len(s))
      <4>1. x = t[i - Len(s)] /\ i - Len(s) \in 1 .. Len(t)
          BY <1>2, <1>3, <3>1, <3>3
      <4> QED
          BY <4>1, IsSeqOfItsOwn DEF S
    <3> QED
        BY <3>2, <3>3
  <2> QED
      BY <2>1 DEF S
<1>8. ASSUME NEW x \in Range(s) \union Range(t) PROVE x \in Range(s \o t)
  <2>1. CASE x \in Range(s)
    <3>1. PICK i \in 1 .. Len(s) : x = s[i]
        BY <2>1, IsSeqOfItsOwn
    <3>2. i \in 1 .. Len(s \o t) /\ (s \o t)[i] = x
        BY <1>2, <1>3, <1>5, <3>1
    <3> QED
        BY <1>4, <3>2, IsSeqOfItsOwn
  <2>2. CASE x \in Range(t)
    <3>1. PICK i \in 1 .. Len(t) : x = t[i]
        BY <2>2, IsSeqOfItsOwn
    <3>2. Len(s) + i \in 1 .. Len(s \o t) /\ (s \o t)[Len(s) + i] = x
        BY <1>2, <1>3, <1>6, <3>1
    <3> QED
        BY <1>4, <3>2, IsSeqOfItsOwn
  <2> QED
      BY <1>8, <2>1, <2>2
<1> QED
    BY <1>3, <1>4, <1>5, <1>6, <1>7, <1>8

Follows(parts, n, g) == g = [m \in 0 .. n |-> IF m = 0 THEN <<>> ELSE g[m - 1] \o parts[m]]

\* Joining parts is joining one more each time.
LEMMA ConcatUnfolds ==
  ASSUME NEW parts, Len(parts) \in Nat
  PROVE  \E g : Follows(parts, Len(parts), g) /\ Concat(parts) = g[Len(parts)]
<1> DEFINE N == Len(parts)
           P == {n \in 0 .. N : \E g : Follows(parts, n, g)}
<1>1. 0 \in P
  <2> DEFINE g == [m \in 0 .. 0 |-> <<>>]
  <2>1. Follows(parts, 0, g)
    <3>1. [m \in 0 .. 0 |-> IF m = 0 THEN <<>> ELSE g[m - 1] \o parts[m]] = g
        OBVIOUS
    <3> QED
        BY <3>1 DEF Follows
  <2> QED
      BY <2>1
<1>2. ASSUME NEW n \in P, n < N PROVE n + 1 \in P
  <2>1. PICK g : Follows(parts, n, g)
      OBVIOUS
  <2> DEFINE next(m) == IF m = 0 THEN <<>> ELSE g[m - 1] \o parts[m]
             h == [m \in 0 .. (n + 1) |-> IF m <= n THEN g[m] ELSE next(m)]
  <2>2. n \in Nat /\ n + 1 \in 0 .. N
      BY <1>2
  <2>3. \A m \in 0 .. n : g[m] = next(m)
    <3>1. g = [m \in 0 .. n |-> next(m)]
        BY <2>1 DEF Follows
    <3> HIDE DEF next
    <3> QED
        BY <3>1
  <2>4. \A m \in 0 .. (n + 1) : h[m] = next(m)
    <3> HIDE DEF next
    <3> QED
        BY <2>2, <2>3
  <2>5. \A m \in 0 .. n : h[m] = g[m]
    <3> HIDE DEF next
    <3> QED
        BY <2>2
  <2>6. \A m \in 0 .. (n + 1) : h[m] = IF m = 0 THEN <<>> ELSE h[m - 1] \o parts[m]
    <3>1. SUFFICES ASSUME NEW m \in 0 .. (n + 1), m # 0 PROVE h[m - 1] = g[m - 1]
      <4> HIDE DEF h
      <4> QED
          BY <2>4
    <3>2. m - 1 \in 0 .. n
        BY <2>2, <3>1
    <3> HIDE DEF h
    <3> QED
        BY <2>5, <3>2
  <2>7. h = [m \in 0 .. (n + 1) |-> h[m]]
      OBVIOUS
  <2> HIDE DEF h
  <2>8. Follows(parts, n + 1, h)
      BY <2>6, <2>7 DEF Follows
  <2> QED
      BY <2>2, <2>8
<1>3. P = 0 .. N
  <2> HIDE DEF P
  <2>1. P \in SUBSET (0 .. N)
      BY DEF P
  <2> QED
      BY <1>1, <1>2, <2>1, CountsUp
<1>4. \E g : Follows(parts, N, g)
    BY <1>3
<1> DEFINE g == CHOOSE g : g = [m \in 0 .. Len(parts) |-> IF m = 0 THEN <<>> ELSE g[m - 1] \o parts[m]]
<1>5. Follows(parts, N, g)
    BY <1>4 DEF Follows
<1>6. Concat(parts) = g[N]
    BY Zenon DEF Concat
<1> HIDE DEF g
<1> QED
    BY <1>5, <1>6

\* What has been joined after each part.
LEMMA FollowsEach ==
  ASSUME NEW parts, NEW n \in Nat, NEW g, Follows(parts, n, g)
  PROVE  g[0] = <<>> /\ \A m \in 1 .. n : g[m] = g[m - 1] \o parts[m]
<1> DEFINE next(m) == IF m = 0 THEN <<>> ELSE g[m - 1] \o parts[m]
<1>1. g = [m \in 0 .. n |-> next(m)]
    BY DEF Follows
<1>2. \A m \in 0 .. n : g[m] = next(m)
  <2> HIDE DEF next
  <2> QED
      BY <1>1
<1>3. 0 \in 0 .. n /\ \A m \in 1 .. n : m \in 0 .. n /\ m # 0
    OBVIOUS
<1> QED
    BY <1>2, <1>3

Parts(parts) == IsSeq(parts) /\ \A k \in 1 .. Len(parts) : IsSeq(parts[k])

-----------------------------------------------------------------------------
(* Counting up, step by step.                                               *)

\* What is worked out from what came before it, N times over.
Steps(step, N, X) == \A m \in 1 .. N : \A x \in X : step[m][x] \in X
Unfolds(f, base, step, N) == f[0] = base /\ \A m \in 1 .. N : f[m] = step[m][f[m - 1]]

\* Something is worked out by any such steps.
LEMMA StepByStep ==
  ASSUME NEW N \in Nat, NEW X, NEW base \in X, NEW step, Steps(step, N, X)
  PROVE  \E f \in [0 .. N -> X] : Unfolds(f, base, step, N)
<1> DEFINE Good(n, f) == f[0] = base /\ \A m \in 1 .. n : f[m] = step[m][f[m - 1]]
           P == {n \in 0 .. N : \E f \in [0 .. n -> X] : Good(n, f)}
<1>1. 0 \in P
  <2> DEFINE f == [m \in 0 .. 0 |-> base]
  <2>1. f \in [0 .. 0 -> X] /\ f[0] = base
      OBVIOUS
  <2>2. 1 .. 0 = {}
      OBVIOUS
  <2> HIDE DEF f
  <2>3. Good(0, f)
      BY <2>1, <2>2
  <2> QED
      BY <2>1, <2>3
<1>2. ASSUME NEW n \in P, n < N PROVE n + 1 \in P
  <2>1. PICK f \in [0 .. n -> X] : Good(n, f)
      OBVIOUS
  <2>2. n \in Nat /\ n + 1 \in 1 .. N /\ n + 1 \in 0 .. N /\ f[n] \in X
      BY <1>2
  <2> DEFINE g == [m \in 0 .. n + 1 |-> IF m = n + 1 THEN step[n + 1][f[n]] ELSE f[m]]
  <2>3. step[n + 1][f[n]] \in X
      BY <2>2 DEF Steps
  <2>4. g \in [0 .. n + 1 -> X]
    <3>1. ASSUME NEW m \in 0 .. n + 1, m # n + 1 PROVE f[m] \in X
        BY <2>2, <3>1
    <3> QED
        BY <2>3, <3>1
  <2>5. g[n + 1] = step[n + 1][f[n]] /\ \A m \in 0 .. n : g[m] = f[m]
      BY <2>2
  <2> HIDE DEF g
  <2>6. ASSUME NEW m \in 1 .. n + 1 PROVE g[m] = step[m][g[m - 1]]
    <3>1. CASE m = n + 1
      <4>1. m - 1 = n /\ n \in 0 .. n
          BY <2>2, <3>1
      <4> QED
          BY <2>5, <3>1, <4>1
    <3>2. CASE m # n + 1
      <4>1. m \in 1 .. n /\ m \in 0 .. n /\ m - 1 \in 0 .. n
          BY <2>2, <3>2
      <4>2. g[m] = f[m] /\ g[m - 1] = f[m - 1] /\ f[m] = step[m][f[m - 1]]
          BY <2>1, <2>5, <4>1
      <4> QED
          BY <4>2
    <3> QED
        BY <3>1, <3>2
  <2>7. Good(n + 1, g)
    <3>1. g[0] = base
        BY <2>1, <2>2, <2>5
    <3> QED
        BY <2>6, <3>1
  <2> QED
      BY <2>2, <2>4, <2>7
<1>3. P = 0 .. N
  <2> HIDE DEF P
  <2>1. P \in SUBSET (0 .. N)
      BY DEF P
  <2> QED
      BY <1>1, <1>2, <2>1, CountsUp
<1>4. N \in P
  <2> HIDE DEF P
  <2> QED
      BY <1>3
<1> QED
    BY <1>4 DEF Unfolds

\* The sum of some whole numbers, one at a time.
LEMMA TotalUnfolds ==
  ASSUME NEW numbers, Len(numbers) \in Nat, \A k \in 1 .. Len(numbers) : numbers[k] \in Int
  PROVE  \E f \in [0 .. Len(numbers) -> Int] :
            /\ f[0] = 0 /\ \A m \in 1 .. Len(numbers) : f[m] = f[m - 1] + numbers[m]
            /\ Total(numbers) = f[Len(numbers)]
<1> DEFINE N == Len(numbers)
           step == [m \in 1 .. N |-> [x \in Int |-> x + numbers[m]]]
<1>1. Steps(step, N, Int)
    BY DEF Steps
<1>2. \A m \in 1 .. N, x \in Int : step[m][x] = x + numbers[m]
    OBVIOUS
<1> HIDE DEF step
<1>3. PICK f \in [0 .. N -> Int] : f[0] = 0 /\ \A m \in 1 .. N : f[m] = step[m][f[m - 1]]
  <2>1. \E f \in [0 .. N -> Int] : Unfolds(f, 0, step, N)
    <3> DEFINE X == Int
               zero == 0
    <3>1. N \in Nat /\ zero \in X /\ Steps(step, N, X)
        BY <1>1
    <3>2. X = Int /\ zero = 0
        OBVIOUS
    <3> HIDE DEF N, X, zero
    <3>3. \E f \in [0 .. N -> X] : Unfolds(f, zero, step, N)
        BY <3>1, StepByStep
    <3> QED
        BY <3>2, <3>3
  <2> QED
      BY <2>1 DEF Unfolds
<1>4. ASSUME NEW m \in 1 .. N PROVE f[m] = f[m - 1] + numbers[m]
  <2>1. m - 1 \in 0 .. N
      OBVIOUS
  <2> QED
      BY <1>2, <1>3, <2>1
<1>5. \A m \in 0 .. N : f[m] = IF m = 0 THEN 0 ELSE f[m - 1] + numbers[m]
    BY <1>3, <1>4
<1>6. f = [m \in 0 .. N |-> IF m = 0 THEN 0 ELSE f[m - 1] + numbers[m]]
    BY <1>5
<1> DEFINE g == CHOOSE g : g = [m \in 0 .. Len(numbers) |-> IF m = 0 THEN 0 ELSE g[m - 1] + numbers[m]]
<1>7. g = [m \in 0 .. N |-> IF m = 0 THEN 0 ELSE g[m - 1] + numbers[m]]
    BY <1>6
<1>8. Total(numbers) = g[N]
    BY Zenon DEF Total
<1> HIDE DEF g
<1> DEFINE P == {n \in 0 .. N : f[n] = g[n]}
           next(m) == IF m = 0 THEN 0 ELSE g[m - 1] + numbers[m]
<1>9. \A m \in 0 .. N : g[m] = IF m = 0 THEN 0 ELSE g[m - 1] + numbers[m]
  <2>1. g = [m \in 0 .. N |-> next(m)]
      BY <1>7
  <2>2. \A m \in 0 .. N : g[m] = next(m)
    <3> HIDE DEF next
    <3> QED
        BY <2>1
  <2> QED
      BY <2>2
<1>10. P = 0 .. N
  <2>1. 0 \in P
      BY <1>5, <1>9
  <2>2. ASSUME NEW n \in P, n < N PROVE n + 1 \in P
    <3>1. n + 1 \in 0 .. N /\ n + 1 # 0 /\ (n + 1) - 1 = n /\ f[n] = g[n]
        BY <2>2
    <3> QED
        BY <1>5, <1>9, <3>1
  <2>3. P \in SUBSET (0 .. N)
      OBVIOUS
  <2> HIDE DEF P
  <2> QED
      BY <2>1, <2>2, <2>3, CountsUp
<1>11. f[N] = g[N]
  <2>1. N \in P
      BY <1>10
  <2> QED
      BY <2>1
<1> QED
    BY <1>3, <1>4, <1>8, <1>11

\* The sum of the first k numbers.
FirstOf(numbers, k) == [i \in 1 .. k |-> numbers[i]]
Upto(numbers, k) == Total(FirstOf(numbers, k))

\* The first k of anything are a sequence of k.
LEMMA FirstOfIs ==
  ASSUME NEW numbers, NEW k \in Nat
  PROVE  /\ Len(FirstOf(numbers, k)) = k /\ IsSeq(FirstOf(numbers, k))
         /\ \A i \in 1 .. k : FirstOf(numbers, k)[i] = numbers[i]
<1> DEFINE s == FirstOf(numbers, k)
<1>1. \A i \in 1 .. k : s[i] = numbers[i]
    BY DEF FirstOf
<1>2. s = [i \in 1 .. k |-> s[i]]
    BY DEF FirstOf
<1> HIDE DEF s
<1>3. IsSeq(s) /\ Len(s) = k
    BY <1>2, ListIsSeq
<1> QED
    BY <1>1, <1>3 DEF s

\* A sum grows by the number it is given next.
LEMMA UptoIs ==
  ASSUME NEW numbers, NEW n \in Nat, \A i \in 1 .. n : numbers[i] \in Int
  PROVE  \A k \in 0 .. n :
            /\ Upto(numbers, k) \in Int
            /\ k = 0 => Upto(numbers, k) = 0
            /\ k < n => Upto(numbers, k + 1) = Upto(numbers, k) + numbers[k + 1]
<1> DEFINE IsSum(f, k) == /\ f \in [0 .. k -> Int] /\ f[0] = 0
                          /\ \A m \in 1 .. k : f[m] = f[m - 1] + numbers[m]
                          /\ Upto(numbers, k) = f[k]
<1>1. ASSUME NEW k \in 0 .. n PROVE \E f : IsSum(f, k)
  <2> DEFINE s == FirstOf(numbers, k)
  <2>1. k \in Nat /\ \A i \in 1 .. k : i \in 1 .. n
      OBVIOUS
  <2>2. Len(s) = k /\ \A i \in 1 .. k : s[i] = numbers[i]
      BY <2>1, FirstOfIs
  <2>3. Len(s) \in Nat /\ \A i \in 1 .. Len(s) : s[i] \in Int
      BY <2>1, <2>2
  <2> HIDE DEF s
  <2>4. PICK f \in [0 .. Len(s) -> Int] :
            /\ f[0] = 0 /\ \A m \in 1 .. Len(s) : f[m] = f[m - 1] + s[m]
            /\ Total(s) = f[Len(s)]
      BY <2>3, TotalUnfolds
  <2>5. IsSum(f, k)
      BY <2>2, <2>4 DEF Upto, s
  <2> QED
      BY <2>5
<1>2. ASSUME NEW k \in 0 .. n, NEW f, IsSum(f, k), NEW j \in 0 .. n, NEW g, IsSum(g, j), k =< j
      PROVE  f[k] = g[k]
  <2> DEFINE P == {m \in 0 .. k : f[m] = g[m]}
  <2>1. 0 \in P
      BY <1>2
  <2>2. ASSUME NEW m \in P, m < k PROVE m + 1 \in P
    <3>1. m + 1 \in 1 .. k /\ m + 1 \in 1 .. j /\ (m + 1) - 1 = m /\ f[m] = g[m] /\ m + 1 \in 0 .. k
        BY <1>2, <2>2
    <3>2. f[m + 1] = f[m] + numbers[m + 1] /\ g[m + 1] = g[m] + numbers[m + 1]
      <4>1. f[m + 1] = f[(m + 1) - 1] + numbers[m + 1] /\ g[m + 1] = g[(m + 1) - 1] + numbers[m + 1]
          BY <1>2, <3>1
      <4> QED
          BY <3>1, <4>1
    <3> QED
        BY <3>1, <3>2
  <2>3. P \in SUBSET (0 .. k) /\ k \in Nat
      OBVIOUS
  <2> HIDE DEF P
  <2>4. P = 0 .. k
      BY <2>1, <2>2, <2>3, CountsUp
  <2>5. k \in P
      BY <2>3, <2>4
  <2> QED
      BY <2>5 DEF P
<1>3. SUFFICES ASSUME NEW k \in 0 .. n
      PROVE /\ Upto(numbers, k) \in Int
            /\ k = 0 => Upto(numbers, k) = 0
            /\ k < n => Upto(numbers, k + 1) = Upto(numbers, k) + numbers[k + 1]
    OBVIOUS
<1>4. PICK f : IsSum(f, k)
    BY <1>1
<1>5. Upto(numbers, k) \in Int /\ (k = 0 => Upto(numbers, k) = 0)
    BY <1>4
<1>6. ASSUME k < n PROVE Upto(numbers, k + 1) = Upto(numbers, k) + numbers[k + 1]
  <2>1. k + 1 \in 0 .. n /\ k + 1 \in 1 .. k + 1 /\ (k + 1) - 1 = k /\ k =< k + 1
      BY <1>6
  <2>2. PICK g : IsSum(g, k + 1)
      BY <1>1, <2>1
  <2>3. f[k] = g[k]
    <3> HIDE DEF IsSum
    <3> QED
        BY <1>2, <1>4, <2>1, <2>2
  <2>4. g[k + 1] = g[(k + 1) - 1] + numbers[k + 1] /\ Upto(numbers, k + 1) = g[k + 1]
      BY <2>1, <2>2
  <2>5. Upto(numbers, k) = f[k]
      BY <1>4
  <2> QED
      BY <2>1, <2>3, <2>4, <2>5
<1> QED
    BY <1>5, <1>6

\* A sum is of the numbers to the last.
LEMMA TotalIsUpto ==
  ASSUME NEW numbers, IsSeq(numbers)
  PROVE  Total(numbers) = Upto(numbers, Len(numbers))
BY DEF IsSeq, Upto, FirstOf

\* Sums of naturals only grow.
LEMMA UptoGrows ==
  ASSUME NEW numbers, NEW n \in Nat, \A i \in 1 .. n : numbers[i] \in Nat
  PROVE  \A k \in 0 .. n : Upto(numbers, k) \in Nat /\ Upto(numbers, k) =< Upto(numbers, n)
<1>1. \A i \in 1 .. n : numbers[i] \in Int
    OBVIOUS
<1>2. \A k \in 0 .. n :
            /\ Upto(numbers, k) \in Int
            /\ k = 0 => Upto(numbers, k) = 0
            /\ k < n => Upto(numbers, k + 1) = Upto(numbers, k) + numbers[k + 1]
    BY <1>1, UptoIs
<1> DEFINE P == {k \in 0 .. n : Upto(numbers, k) \in Nat}
           Q == {k \in 0 .. n : Upto(numbers, n - k) =< Upto(numbers, n)}
<1>3. P = 0 .. n
  <2>1. 0 \in P
      BY <1>2
  <2>2. ASSUME NEW k \in P, k < n PROVE k + 1 \in P
    <3>1. k + 1 \in 1 .. n /\ k \in 0 .. n
        BY <2>2
    <3>2. numbers[k + 1] \in Nat /\ Upto(numbers, k) \in Nat
        BY <3>1
    <3>3. Upto(numbers, k + 1) = Upto(numbers, k) + numbers[k + 1]
        BY <1>2, <2>2, <3>1
    <3>4. Upto(numbers, k + 1) \in Nat
        BY <3>2, <3>3
    <3> QED
        BY <3>1, <3>4
  <2>3. P \in SUBSET (0 .. n)
      OBVIOUS
  <2> HIDE DEF P
  <2> QED
      BY <2>1, <2>2, <2>3, CountsUp
<1>4. Q = 0 .. n
  <2>1. 0 \in Q
    <3>1. n - 0 = n /\ n \in 0 .. n
        OBVIOUS
    <3>2. Upto(numbers, n) \in Int
        BY <1>2, <3>1
    <3> QED
        BY <3>1, <3>2
  <2>2. ASSUME NEW k \in Q, k < n PROVE k + 1 \in Q
    <3>1. PICK d \in Nat : d = n - (k + 1)
        BY <2>2
    <3>2. d \in 0 .. n /\ d < n /\ n - k = d + 1 /\ d + 1 \in 1 .. n /\ n \in 0 .. n /\ d + 1 \in 0 .. n
        BY <2>2, <3>1
    <3>3. numbers[d + 1] \in Nat /\ Upto(numbers, d) \in Int /\ Upto(numbers, n) \in Int
        BY <1>2, <3>2
    <3>4. Upto(numbers, d + 1) = Upto(numbers, d) + numbers[d + 1]
        BY <1>2, <3>2
    <3>5. Upto(numbers, d + 1) =< Upto(numbers, n)
        BY <2>2, <3>2
    <3>6. Upto(numbers, d) =< Upto(numbers, n)
        BY <3>3, <3>4, <3>5
    <3> QED
        BY <2>2, <3>1, <3>2, <3>6
  <2>3. Q \in SUBSET (0 .. n)
      OBVIOUS
  <2> HIDE DEF Q
  <2> QED
      BY <2>1, <2>2, <2>3, CountsUp
<1>5. ASSUME NEW k \in 0 .. n PROVE Upto(numbers, k) \in Nat /\ Upto(numbers, k) =< Upto(numbers, n)
  <2>1. k \in P /\ n - k \in Q /\ n - (n - k) = k
    <3> HIDE DEF P, Q
    <3> QED
        BY <1>3, <1>4
  <2> QED
      BY <2>1
<1> QED
    BY <1>5

\* The sum of numbers joined is the sum of their sums.
LEMMA TotalOfMore ==
  ASSUME NEW s, NEW t, IsSeq(s), IsSeq(t),
         \A i \in 1 .. Len(s) : s[i] \in Int, \A i \in 1 .. Len(t) : t[i] \in Int
  PROVE  /\ Total(s) \in Int /\ Total(t) \in Int
         /\ Total(s \o t) = Total(s) + Total(t)
<1>1. /\ IsSeq(s \o t) /\ Len(s \o t) = Len(s) + Len(t) /\ Len(s) \in Nat /\ Len(t) \in Nat
      /\ \A i \in 1 .. Len(s) : (s \o t)[i] = s[i]
      /\ \A i \in 1 .. Len(t) : (s \o t)[Len(s) + i] = t[i]
    BY Joined, IsSeqOfItsOwn
<1>2. PICK m \in Nat : m = Len(s)
    BY <1>1
<1>3. PICK n \in Nat : n = Len(t)
    BY <1>1
<1> DEFINE all == s \o t
<1>4. /\ Total(all) = Upto(all, m + n) /\ Total(s) = Upto(s, m) /\ Total(t) = Upto(t, n)
    BY <1>1, <1>2, <1>3, TotalIsUpto
<1>5. /\ \A i \in 1 .. m : all[i] = s[i] /\ s[i] \in Int
      /\ \A i \in 1 .. n : all[m + i] = t[i] /\ t[i] \in Int
    BY <1>1, <1>2, <1>3
<1> HIDE DEF all
<1>6. \A i \in 1 .. m + n : all[i] \in Int
  <2>1. ASSUME NEW i \in 1 .. m + n PROVE all[i] \in Int
    <3>1. CASE i =< m
      <4>1. i \in 1 .. m
          BY <3>1
      <4> QED
          BY <1>5, <4>1
    <3>2. CASE ~(i =< m)
      <4>1. PICK j \in 1 .. n : i = m + j
        <5>1. i - m \in 1 .. n /\ i = m + (i - m)
            BY <3>2
        <5> QED
            BY <5>1
      <4> QED
          BY <1>5, <4>1
    <3> QED
        BY <3>1, <3>2
  <2> QED
      BY <2>1
<1>7. \A k \in 0 .. m + n : /\ Upto(all, k) \in Int /\ (k = 0 => Upto(all, k) = 0)
                            /\ (k < m + n => Upto(all, k + 1) = Upto(all, k) + all[k + 1])
    BY <1>6, UptoIs, m + n \in Nat
<1>8. \A k \in 0 .. m : /\ Upto(s, k) \in Int /\ (k = 0 => Upto(s, k) = 0)
                        /\ (k < m => Upto(s, k + 1) = Upto(s, k) + s[k + 1])
    BY <1>5, UptoIs
<1>9. \A k \in 0 .. n : /\ Upto(t, k) \in Int /\ (k = 0 => Upto(t, k) = 0)
                        /\ (k < n => Upto(t, k + 1) = Upto(t, k) + t[k + 1])
    BY <1>5, UptoIs
<1> DEFINE P == {k \in 0 .. m : Upto(all, k) = Upto(s, k)}
           Q == {k \in 0 .. n : Upto(all, m + k) = Upto(s, m) + Upto(t, k)}
<1>10. P = 0 .. m
  <2>1. 0 \in P
      BY <1>7, <1>8
  <2>2. ASSUME NEW k \in P, k < m PROVE k + 1 \in P
    <3>1. k \in 0 .. m /\ k + 1 \in 1 .. m /\ k \in 0 .. m + n /\ k < m + n /\ k + 1 \in 0 .. m
        BY <2>2
    <3>2. all[k + 1] = s[k + 1]
        BY <1>5, <3>1
    <3>3. Upto(all, k) = Upto(s, k)
        OBVIOUS
    <3>4. Upto(all, k + 1) = Upto(s, k + 1)
        BY <1>7, <1>8, <2>2, <3>1, <3>2, <3>3
    <3> QED
        BY <3>1, <3>4
  <2>3. P \in SUBSET (0 .. m)
      OBVIOUS
  <2> HIDE DEF P
  <2> QED
      BY <2>1, <2>2, <2>3, CountsUp
<1>11. Upto(all, m) = Upto(s, m) /\ Upto(s, m) \in Int
  <2>1. m \in P /\ m \in 0 .. m
    <3> HIDE DEF P
    <3> QED
        BY <1>10
  <2> QED
      BY <1>8, <2>1
<1>12. Q = 0 .. n
  <2>1. 0 \in Q
    <3>1. 0 \in 0 .. n /\ m + 0 = m
        OBVIOUS
    <3> QED
        BY <1>9, <1>11, <3>1
  <2>2. ASSUME NEW k \in Q, k < n PROVE k + 1 \in Q
    <3>1. /\ k \in 0 .. n /\ k + 1 \in 1 .. n /\ m + k \in 0 .. m + n /\ m + k < m + n
          /\ k + 1 \in 0 .. n /\ (m + k) + 1 = m + (k + 1)
        BY <2>2
    <3>2. all[(m + k) + 1] = t[k + 1]
        BY <1>5, <3>1
    <3>3. Upto(all, (m + k) + 1) = Upto(all, m + k) + t[k + 1]
        BY <1>7, <3>1, <3>2
    <3>4. Upto(t, k + 1) = Upto(t, k) + t[k + 1]
        BY <1>9, <2>2, <3>1
    <3>5. Upto(all, m + k) = Upto(s, m) + Upto(t, k)
        OBVIOUS
    <3>6. Upto(t, k) \in Int /\ t[k + 1] \in Int
        BY <1>5, <1>9, <3>1
    <3>7. Upto(all, m + (k + 1)) = Upto(s, m) + Upto(t, k + 1)
        BY <1>11, <3>1, <3>3, <3>4, <3>5, <3>6
    <3> QED
        BY <3>1, <3>7
  <2>3. Q \in SUBSET (0 .. n)
      OBVIOUS
  <2> HIDE DEF Q
  <2> QED
      BY <2>1, <2>2, <2>3, CountsUp
<1>13. n \in Q /\ n \in 0 .. n
  <2> HIDE DEF Q
  <2> QED
      BY <1>12
<1> QED
    BY <1>4, <1>9, <1>11, <1>13 DEF all

\* The total of nothing, and of one number.
LEMMA TotalOfOne ==
  Total(<<>>) = 0 /\ \A x \in Int : Total(<<x>>) = x
<1>1. Total(<<>>) = 0
  <2>1. Total(<<>>) = Upto(<<>>, 0)
      BY Empty, TotalIsUpto
  <2>2. \A i \in 1 .. 0 : <<>>[i] \in Int
      OBVIOUS
  <2>3. 0 \in Nat /\ 0 \in 0 .. 0
      OBVIOUS
  <2>4. Upto(<<>>, 0) = 0
      BY <2>2, <2>3, UptoIs
  <2> QED
      BY <2>1, <2>4
<1>2. ASSUME NEW x \in Int PROVE Total(<<x>>) = x
  <2> DEFINE s == <<x>>
  <2>1. IsSeq(s) /\ Len(s) = 1 /\ s[1] = x
      BY One
  <2> HIDE DEF s
  <2>2. Total(s) = Upto(s, 1)
      BY <2>1, TotalIsUpto
  <2>3. \A i \in 1 .. 1 : s[i] \in Int
      BY <2>1
  <2>4. 1 \in Nat /\ 0 \in 0 .. 1 /\ 0 < 1 /\ 0 + 1 = 1
      OBVIOUS
  <2>5. Upto(s, 0) = 0 /\ Upto(s, 0 + 1) = Upto(s, 0) + s[0 + 1]
      BY <2>3, <2>4, UptoIs
  <2> QED
      BY <2>1, <2>2, <2>4, <2>5 DEF s
<1> QED
    BY <1>1, <1>2

\* The first k parts, one after the other.
FirstParts(parts, k) == Concat(FirstOf(parts, k))

\* What the first parts make is what was made before, and the next part.
LEMMA FirstPartsAre ==
  ASSUME NEW parts, NEW n \in Nat, \A i \in 1 .. n : IsSeq(parts[i])
  PROVE  \A k \in 0 .. n :
            /\ IsSeq(FirstParts(parts, k))
            /\ k = 0 => FirstParts(parts, k) = <<>>
            /\ k < n => FirstParts(parts, k + 1) = FirstParts(parts, k) \o parts[k + 1]
<1> DEFINE IsJoin(f, k) == /\ f[0] = <<>> /\ \A m \in 1 .. k : f[m] = f[m - 1] \o parts[m]
                           /\ FirstParts(parts, k) = f[k]
<1>1. ASSUME NEW k \in 0 .. n PROVE \E f : IsJoin(f, k)
  <2> DEFINE s == FirstOf(parts, k)
  <2>1. k \in Nat /\ \A i \in 1 .. k : i \in 1 .. n
      OBVIOUS
  <2>2. Len(s) = k /\ \A i \in 1 .. k : s[i] = parts[i]
      BY <2>1, FirstOfIs
  <2> HIDE DEF s
  <2>3. PICK f : Follows(s, Len(s), f) /\ Concat(s) = f[Len(s)]
      BY <2>1, <2>2, ConcatUnfolds
  <2>4. f[0] = <<>> /\ \A m \in 1 .. k : f[m] = f[m - 1] \o s[m]
      BY <2>1, <2>2, <2>3, FollowsEach
  <2>5. FirstParts(parts, k) = f[k]
      BY <2>2, <2>3 DEF FirstParts, s
  <2>6. IsJoin(f, k)
      BY <2>2, <2>4, <2>5
  <2> QED
      BY <2>6
<1>2. ASSUME NEW k \in 0 .. n, NEW f, IsJoin(f, k), NEW j \in 0 .. n, NEW g, IsJoin(g, j), k =< j
      PROVE  f[k] = g[k]
  <2> DEFINE P == {m \in 0 .. k : f[m] = g[m]}
  <2>1. 0 \in P
      BY <1>2
  <2>2. ASSUME NEW m \in P, m < k PROVE m + 1 \in P
    <3>1. m + 1 \in 1 .. k /\ m + 1 \in 1 .. j /\ (m + 1) - 1 = m /\ f[m] = g[m] /\ m + 1 \in 0 .. k
        BY <1>2, <2>2
    <3>2. f[m + 1] = f[(m + 1) - 1] \o parts[m + 1] /\ g[m + 1] = g[(m + 1) - 1] \o parts[m + 1]
        BY <1>2, <3>1
    <3> QED
        BY <3>1, <3>2
  <2>3. P \in SUBSET (0 .. k) /\ k \in Nat
      OBVIOUS
  <2> HIDE DEF P
  <2>4. P = 0 .. k
      BY <2>1, <2>2, <2>3, CountsUp
  <2>5. k \in P
      BY <2>3, <2>4
  <2> QED
      BY <2>5 DEF P
<1>3. ASSUME NEW k \in 0 .. n, k < n PROVE FirstParts(parts, k + 1) = FirstParts(parts, k) \o parts[k + 1]
  <2>1. k + 1 \in 0 .. n /\ k + 1 \in 1 .. k + 1 /\ (k + 1) - 1 = k /\ k =< k + 1
      BY <1>3
  <2>2. PICK f : IsJoin(f, k)
      BY <1>1
  <2>3. PICK g : IsJoin(g, k + 1)
      BY <1>1, <2>1
  <2>4. f[k] = g[k]
    <3> HIDE DEF IsJoin
    <3> QED
        BY <1>2, <2>1, <2>2, <2>3
  <2>5. g[k + 1] = g[(k + 1) - 1] \o parts[k + 1] /\ FirstParts(parts, k + 1) = g[k + 1]
      BY <2>1, <2>3
  <2>6. FirstParts(parts, k) = f[k]
      BY <2>2
  <2> QED
      BY <2>1, <2>4, <2>5, <2>6
<1>4. FirstParts(parts, 0) = <<>>
  <2>1. 0 \in 0 .. n
      OBVIOUS
  <2>2. PICK f : IsJoin(f, 0)
      BY <1>1, <2>1
  <2> QED
      BY <2>2
<1> DEFINE Q == {k \in 0 .. n : IsSeq(FirstParts(parts, k))}
<1>5. Q = 0 .. n
  <2>1. 0 \in Q
      BY <1>4, Empty
  <2>2. ASSUME NEW k \in Q, k < n PROVE k + 1 \in Q
    <3>1. k \in 0 .. n /\ k + 1 \in 1 .. n /\ k + 1 \in 0 .. n
        BY <2>2
    <3>2. IsSeq(FirstParts(parts, k)) /\ IsSeq(parts[k + 1])
        BY <3>1
    <3>3. FirstParts(parts, k + 1) = FirstParts(parts, k) \o parts[k + 1]
        BY <1>3, <2>2, <3>1
    <3>4. IsSeq(FirstParts(parts, k + 1))
      <4>1. IsSeq(FirstParts(parts, k) \o parts[k + 1])
          BY <3>2, Joined
      <4> QED
          BY <3>3, <4>1
    <3> QED
        BY <3>1, <3>4
  <2>3. Q \in SUBSET (0 .. n)
      OBVIOUS
  <2> HIDE DEF Q
  <2> QED
      BY <2>1, <2>2, <2>3, CountsUp
<1>6. \A k \in 0 .. n : IsSeq(FirstParts(parts, k))
  <2>1. \A k \in 0 .. n : k \in Q
    <3> HIDE DEF Q
    <3> QED
        BY <1>5
  <2> QED
      BY <2>1
<1> QED
    BY <1>3, <1>4, <1>6

\* All the parts joined are the first of them to the last.
LEMMA ConcatIsFirst ==
  ASSUME NEW parts, IsSeq(parts)
  PROVE  Concat(parts) = FirstParts(parts, Len(parts))
BY DEF IsSeq, FirstParts, FirstOf

\* Nothing but the parts is in them joined, and all of each.
LEMMA ConcatIs ==
  ASSUME NEW parts, Parts(parts)
  PROVE  /\ IsSeq(Concat(parts))
         /\ Range(Concat(parts)) = UNION {Range(parts[k]) : k \in 1 .. Len(parts)}
<1>1. PICK n \in Nat : n = Len(parts)
    BY DEF Parts, IsSeq
<1>2. \A i \in 1 .. n : IsSeq(parts[i])
    BY <1>1 DEF Parts
<1>3. \A k \in 0 .. n : /\ IsSeq(FirstParts(parts, k)) /\ (k = 0 => FirstParts(parts, k) = <<>>)
                        /\ (k < n => FirstParts(parts, k + 1) = FirstParts(parts, k) \o parts[k + 1])
    BY <1>2, FirstPartsAre
<1> DEFINE P == {k \in 0 .. n : Range(FirstParts(parts, k)) = UNION {Range(parts[i]) : i \in 1 .. k}}
<1>4. P = 0 .. n
  <2>1. 0 \in P
    <3>1. FirstParts(parts, 0) = <<>> /\ 1 .. 0 = {}
        BY <1>3
    <3>2. Range(<<>>) = {}
        BY Empty
    <3>3. UNION {Range(parts[i]) : i \in 1 .. 0} = {}
        BY <3>1
    <3> QED
        BY <3>1, <3>2, <3>3
  <2>2. ASSUME NEW k \in P, k < n PROVE k + 1 \in P
    <3>1. k \in 0 .. n /\ k + 1 \in 1 .. n /\ k + 1 \in 0 .. n /\ 1 .. (k + 1) = (1 .. k) \union {k + 1}
        BY <2>2
    <3>2. IsSeq(FirstParts(parts, k)) /\ IsSeq(parts[k + 1]) /\ FirstParts(parts, k + 1) = FirstParts(parts, k) \o parts[k + 1]
        BY <1>2, <1>3, <2>2, <3>1
    <3>3. Range(FirstParts(parts, k + 1)) = Range(FirstParts(parts, k)) \union Range(parts[k + 1])
        BY <3>2, Joined
    <3>4. UNION {Range(parts[i]) : i \in 1 .. (k + 1)} = (UNION {Range(parts[i]) : i \in 1 .. k}) \union Range(parts[k + 1])
      <4> DEFINE R(i) == Range(parts[i])
      <4>1. UNION {R(i) : i \in 1 .. (k + 1)} = (UNION {R(i) : i \in 1 .. k}) \union R(k + 1)
        <5> HIDE DEF R
        <5> QED
            BY <3>1
      <4> QED
          BY <4>1
    <3>5. Range(FirstParts(parts, k)) = UNION {Range(parts[i]) : i \in 1 .. k}
        OBVIOUS
    <3>6. Range(FirstParts(parts, k + 1)) = UNION {Range(parts[i]) : i \in 1 .. (k + 1)}
        BY <3>3, <3>4, <3>5
    <3> QED
        BY <3>1, <3>6
  <2>3. P \in SUBSET (0 .. n)
      OBVIOUS
  <2> HIDE DEF P
  <2> QED
      BY <2>1, <2>2, <2>3, CountsUp
<1>5. n \in P
  <2> HIDE DEF P
  <2> QED
      BY <1>4
<1>6. IsSeq(parts) /\ n \in 0 .. n
    BY DEF Parts
<1> QED
    BY <1>1, <1>3, <1>5, <1>6, ConcatIsFirst

\* Parts no longer than a bound are, joined, no longer than that many times it.
LEMMA ConcatIsShort ==
  ASSUME NEW parts, Parts(parts), NEW b \in Nat, \A k \in 1 .. Len(parts) : Len(parts[k]) =< b
  PROVE  Len(Concat(parts)) \in Nat /\ Len(Concat(parts)) =< Len(parts) * b
<1>1. PICK n \in Nat : n = Len(parts)
    BY DEF Parts, IsSeq
<1>2. \A i \in 1 .. n : IsSeq(parts[i]) /\ Len(parts[i]) =< b
    BY <1>1 DEF Parts
<1>3. \A k \in 0 .. n : /\ IsSeq(FirstParts(parts, k)) /\ (k = 0 => FirstParts(parts, k) = <<>>)
                        /\ (k < n => FirstParts(parts, k + 1) = FirstParts(parts, k) \o parts[k + 1])
    BY <1>2, FirstPartsAre
<1> DEFINE P == {k \in 0 .. n : Len(FirstParts(parts, k)) =< k * b}
<1>4. P = 0 .. n
  <2>1. 0 \in P
    <3>1. Len(FirstParts(parts, 0)) = 0
        BY <1>3, Empty
    <3> QED
        BY <3>1
  <2>2. ASSUME NEW k \in P, k < n PROVE k + 1 \in P
    <3>1. k \in 0 .. n /\ k + 1 \in 1 .. n /\ k + 1 \in 0 .. n /\ k \in Nat
        BY <2>2
    <3>2. IsSeq(FirstParts(parts, k)) /\ IsSeq(parts[k + 1]) /\ FirstParts(parts, k + 1) = FirstParts(parts, k) \o parts[k + 1]
        BY <1>2, <1>3, <2>2, <3>1
    <3>3. Len(FirstParts(parts, k + 1)) = Len(FirstParts(parts, k)) + Len(parts[k + 1])
        BY <3>2, Joined
    <3>4. PICK x \in Nat : x = Len(FirstParts(parts, k))
        BY <3>2, IsSeqOfItsOwn
    <3>5. PICK y \in Nat : y = Len(parts[k + 1])
        BY <3>2, IsSeqOfItsOwn
    <3>6. PICK z \in Nat : z = k * b
        BY <3>1
    <3>7. x =< z /\ y =< b
        BY <1>2, <3>1, <3>4, <3>5, <3>6
    <3>8. x + y =< z + b
        BY <3>7
    <3>9. (k + 1) * b = z + b
        BY <3>1, <3>6
    <3>10. Len(FirstParts(parts, k + 1)) =< (k + 1) * b
        BY <3>3, <3>4, <3>5, <3>8, <3>9
    <3> QED
        BY <3>1, <3>10
  <2>3. P \in SUBSET (0 .. n)
      OBVIOUS
  <2> HIDE DEF P
  <2> QED
      BY <2>1, <2>2, <2>3, CountsUp
<1>5. n \in P
  <2> HIDE DEF P
  <2> QED
      BY <1>4
<1>6. IsSeq(parts) /\ n \in 0 .. n
    BY DEF Parts
<1> QED
    BY <1>1, <1>3, <1>5, <1>6, ConcatIsFirst, IsSeqOfItsOwn

-----------------------------------------------------------------------------
(* Rates.                                                                   *)

\* A set of naturals has a smallest, and SmallestOf is it.
LEMMA SmallestIs ==
  ASSUME NEW S \in SUBSET Nat, S # {}
  PROVE  SmallestOf(S) \in S /\ \A m \in S : SmallestOf(S) =< m
<1>1. \E n \in S : \A m \in S : n =< m
    BY HasLeast
<1> QED
    BY <1>1 DEF SmallestOf

\* A set of naturals with a bound has a greatest, and GreatestOf is it.
LEMMA GreatestIs ==
  ASSUME NEW N \in Nat, NEW S \in SUBSET (0 .. N), S # {}
  PROVE  GreatestOf(S) \in S /\ \A m \in S : m =< GreatestOf(S)
<1> DEFINE T == {N - n : n \in S}
<1>1. T \in SUBSET Nat /\ T # {}
  <2>1. \A n \in S : n \in 0 .. N /\ N - n \in Nat
      OBVIOUS
  <2>2. PICK n \in S : TRUE
      OBVIOUS
  <2>3. N - n \in T
      OBVIOUS
  <2> QED
      BY <2>1, <2>3
<1>2. PICK d \in T : \A e \in T : d =< e
    BY <1>1, HasLeast
<1>3. PICK n \in S : d = N - n
    OBVIOUS
<1>4. \A m \in S : m =< n
  <2>1. ASSUME NEW m \in S PROVE m =< n
    <3>1. N - m \in T /\ m \in 0 .. N /\ n \in 0 .. N
        OBVIOUS
    <3>2. d =< N - m
        BY <1>2, <3>1
    <3> QED
        BY <1>3, <3>1, <3>2
  <2> QED
      BY <2>1
<1> HIDE DEF T
<1> QED
    BY <1>4 DEF GreatestOf

\* The rates there could be, one by one.
LEMMA PowersAre == Powers = {1, 2, 4, 8, 16, 32, 64}
<1>1. 2^0 = 1 /\ 2^1 = 2 /\ 2^2 = 4 /\ 2^3 = 8 /\ 2^4 = 16 /\ 2^5 = 32 /\ 2^6 = 64
    OBVIOUS
<1>2. 0 .. 6 = {0, 1, 2, 3, 4, 5, 6}
    OBVIOUS
<1>3. Powers = {2^k : k \in {0, 1, 2, 3, 4, 5, 6}}
    BY <1>2 DEF Powers
<1>4. {2^k : k \in {0, 1, 2, 3, 4, 5, 6}} = {2^0, 2^1, 2^2, 2^3, 2^4, 2^5, 2^6}
    OBVIOUS
<1> QED
    BY <1>1, <1>3, <1>4

\* Every rate divides the finest, and half of one is one.
LEMMA RatesAre ==
  /\ MaxRate \in Rates /\ 1 \in Rates /\ MaxRate \in Nat
  /\ \A r \in Rates : /\ r \in Nat /\ 0 < r /\ r =< MaxRate
                      /\ r = 1 \/ 2 =< r
                      /\ MaxRate \div r \in Nat /\ 0 < MaxRate \div r
                      /\ r * (MaxRate \div r) = MaxRate
                      /\ MostOf(r \div 2, 1) \in Rates
<1>1. MaxRate \in {1, 2, 4, 8, 16, 32, 64}
    BY MaxRateIsAPower, PowersAre
<1>2. Rates = {r \in {1, 2, 4, 8, 16, 32, 64} : r =< MaxRate}
    BY PowersAre DEF Rates
<1>3. ASSUME NEW r \in Rates
      PROVE  /\ r \in Nat /\ 0 < r /\ r =< MaxRate /\ (r = 1 \/ 2 =< r)
             /\ MaxRate \div r \in Nat /\ 0 < MaxRate \div r
             /\ r * (MaxRate \div r) = MaxRate
  <2>1. r \in {1, 2, 4, 8, 16, 32, 64} /\ r =< MaxRate
      BY <1>2
  <2>2. CASE r = 1
      BY <1>1, <2>1, <2>2
  <2>3. CASE r = 2
      BY <1>1, <2>1, <2>3
  <2>4. CASE r = 4
      BY <1>1, <2>1, <2>4
  <2>5. CASE r = 8
      BY <1>1, <2>1, <2>5
  <2>6. CASE r = 16
      BY <1>1, <2>1, <2>6
  <2>7. CASE r = 32
      BY <1>1, <2>1, <2>7
  <2>8. CASE r = 64
      BY <1>1, <2>1, <2>8
  <2> QED
      BY <2>1, <2>2, <2>3, <2>4, <2>5, <2>6, <2>7, <2>8
<1>4. ASSUME NEW r \in Rates PROVE MostOf(r \div 2, 1) \in Rates
  <2>1. r \in {1, 2, 4, 8, 16, 32, 64} /\ r =< MaxRate
      BY <1>2
  <2>2. MostOf(r \div 2, 1) \in {1, 2, 4, 8, 16, 32, 64} /\ MostOf(r \div 2, 1) =< r
      BY <2>1 DEF MostOf
  <2>3. MostOf(r \div 2, 1) =< MaxRate
      BY <1>1, <2>1, <2>2
  <2> QED
      BY <1>2, <2>2, <2>3
<1>5. MaxRate \in Rates /\ 1 \in Rates /\ MaxRate \in Nat
    BY <1>1, <1>2
<1> QED
    BY <1>3, <1>4, <1>5

\* A side's rate is a rate, whatever it is measured from.
LEMMA EdgeRateIs ==
  ASSUME NEW length2, NEW depth2, NEW seen
  PROVE  EdgeTessellationRate(length2, depth2, seen) \in Rates
<1> DEFINE S == {r \in Rates : FitsIn(r, length2, depth2, seen)} \cup {MaxRate}
<1>1. S \subseteq Rates /\ S # {} /\ S \in SUBSET Nat
    BY RatesAre
<1>2. SmallestOf(S) \in S
    BY <1>1, SmallestIs
<1> QED
    BY <1>1, <1>2 DEF EdgeTessellationRate

\* What a level stands for is a rate.
LEMMA LevelRateIs ==
  ASSUME NEW level \in Nat
  PROVE  EdgeRateForLevel(level) \in Rates
<1> DEFINE k == MostOf(LeastOf(level, 6), 0)
<1>1. k \in 0 .. 6
    BY DEF MostOf, LeastOf
<1> HIDE DEF k
<1>2. 2^k \in Powers
    BY <1>1 DEF Powers
<1>3. 2^k \in {1, 2, 4, 8, 16, 32, 64} /\ MaxRate \in {1, 2, 4, 8, 16, 32, 64}
    BY <1>2, PowersAre, MaxRateIsAPower
<1>4. LeastOf(2^k, MaxRate) \in Rates
  <2>1. PICK p \in {1, 2, 4, 8, 16, 32, 64} : p = 2^k
      BY <1>3
  <2>2. LeastOf(p, MaxRate) \in Powers /\ LeastOf(p, MaxRate) =< MaxRate
      BY <1>3, PowersAre DEF LeastOf
  <2> QED
      BY <2>1, <2>2 DEF Rates
<1> QED
    BY <1>4 DEF EdgeRateForLevel, k

\* The interior of a domain is cut as finely as its finest side.
LEMMA InnerIs ==
  ASSUME NEW rate \in [1 .. 4 -> Rates]
  PROVE  /\ InnerRate(rate) \in Rates
         /\ \A side \in 1 .. 4 : rate[side] \in Rates /\ rate[side] =< InnerRate(rate)
<1> DEFINE S == {r \in Rates : \A side \in 1 .. 4 : rate[side] =< r}
<1>1. \A side \in 1 .. 4 : rate[side] \in Rates /\ rate[side] =< MaxRate
    BY RatesAre
<1>2. MaxRate \in S
    BY <1>1, RatesAre
<1>3. S \in SUBSET Nat /\ S # {}
    BY <1>2, RatesAre
<1>4. SmallestOf(S) \in S
    BY <1>3, SmallestIs
<1> QED
    BY <1>1, <1>4 DEF InnerRate

\* Each level makes four faces of one, whatever the faces.
LEMMA RefinedUnfolds ==
  ASSUME NEW faces \in Nat, NEW level \in Nat
  PROVE  \E f \in [0 .. level -> Nat] :
            /\ f[0] = faces /\ \A m \in 1 .. level : f[m] = 4 * f[m - 1]
            /\ RefinedFaceCount(faces, level) = f[level]
<1> DEFINE step == [m \in 1 .. level |-> [x \in Nat |-> 4 * x]]
<1>1. Steps(step, level, Nat) /\ \A m \in 1 .. level, x \in Nat : step[m][x] = 4 * x
    BY DEF Steps
<1> HIDE DEF step
<1>2. PICK f \in [0 .. level -> Nat] : f[0] = faces /\ \A m \in 1 .. level : f[m] = step[m][f[m - 1]]
  <2> DEFINE X == Nat
  <2>1. faces \in X /\ Steps(step, level, X) /\ X = Nat
      BY <1>1
  <2> HIDE DEF X
  <2>2. \E f \in [0 .. level -> X] : Unfolds(f, faces, step, level)
      BY <2>1, StepByStep
  <2> QED
      BY <2>1, <2>2 DEF Unfolds
<1>3. ASSUME NEW m \in 1 .. level PROVE f[m] = 4 * f[m - 1]
  <2>1. m - 1 \in 0 .. level
      OBVIOUS
  <2> QED
      BY <1>1, <1>2, <2>1
<1>4. \A m \in 0 .. level : f[m] = IF m = 0 THEN faces ELSE 4 * f[m - 1]
    BY <1>2, <1>3
<1>5. f = [m \in 0 .. level |-> IF m = 0 THEN faces ELSE 4 * f[m - 1]]
    BY <1>4
<1> DEFINE g == CHOOSE g : g = [n \in 0 .. level |-> IF n = 0 THEN faces ELSE 4 * g[n - 1]]
<1>6. g = [m \in 0 .. level |-> IF m = 0 THEN faces ELSE 4 * g[m - 1]]
    BY <1>5
<1>7. RefinedFaceCount(faces, level) = g[level]
    BY Zenon DEF RefinedFaceCount
<1> HIDE DEF g
<1> DEFINE P == {n \in 0 .. level : f[n] = g[n]}
           next(m) == IF m = 0 THEN faces ELSE 4 * g[m - 1]
<1>8. \A m \in 0 .. level : g[m] = IF m = 0 THEN faces ELSE 4 * g[m - 1]
  <2>1. g = [m \in 0 .. level |-> next(m)]
      BY <1>6
  <2>2. \A m \in 0 .. level : g[m] = next(m)
    <3> HIDE DEF next
    <3> QED
        BY <2>1
  <2> QED
      BY <2>2
<1>9. P = 0 .. level
  <2>1. 0 \in P
      BY <1>4, <1>8
  <2>2. ASSUME NEW n \in P, n < level PROVE n + 1 \in P
    <3>1. n + 1 \in 0 .. level /\ n + 1 # 0 /\ (n + 1) - 1 = n /\ f[n] = g[n]
        BY <2>2
    <3> QED
        BY <1>4, <1>8, <3>1
  <2>3. P \in SUBSET (0 .. level)
      OBVIOUS
  <2> HIDE DEF P
  <2> QED
      BY <2>1, <2>2, <2>3, CountsUp
<1>10. level \in P
  <2> HIDE DEF P
  <2> QED
      BY <1>9
<1> QED
    BY <1>2, <1>3, <1>7, <1>10

\* Refined faces are so many of what one face becomes.
LEMMA RefinedIs ==
  ASSUME NEW faces \in Nat, NEW level \in Nat
  PROVE  /\ RefinedFaceCount(faces, level) \in Nat
         /\ RefinedFaceCount(1, level) \in Nat /\ 0 < RefinedFaceCount(1, level)
         /\ RefinedFaceCount(faces, level) = faces * RefinedFaceCount(1, level)
<1>1. PICK f \in [0 .. level -> Nat] :
            /\ f[0] = faces /\ \A m \in 1 .. level : f[m] = 4 * f[m - 1]
            /\ RefinedFaceCount(faces, level) = f[level]
    BY RefinedUnfolds
<1>2. PICK g \in [0 .. level -> Nat] :
            /\ g[0] = 1 /\ \A m \in 1 .. level : g[m] = 4 * g[m - 1]
            /\ RefinedFaceCount(1, level) = g[level]
  <2>1. 1 \in Nat
      OBVIOUS
  <2> QED
      BY <2>1, RefinedUnfolds
<1> DEFINE P == {n \in 0 .. level : 0 < g[n] /\ f[n] = faces * g[n]}
<1>3. P = 0 .. level
  <2>1. 0 \in P
    <3>1. 0 \in 0 .. level /\ 0 < 1 /\ faces * 1 = faces
        OBVIOUS
    <3> QED
        BY <1>1, <1>2, <3>1
  <2>2. ASSUME NEW n \in P, n < level PROVE n + 1 \in P
    <3>1. n + 1 \in 1 .. level /\ n + 1 \in 0 .. level /\ (n + 1) - 1 = n /\ n \in 0 .. level
        BY <2>2
    <3>2. f[n + 1] = 4 * f[n] /\ g[n + 1] = 4 * g[n]
        BY <1>1, <1>2, <3>1
    <3>3. PICK x \in Nat : x = g[n]
        BY <3>1
    <3>4. 0 < x /\ f[n] = faces * x
        BY <3>3
    <3>5. 4 * (faces * x) = faces * (4 * x) /\ 0 < 4 * x
        BY <3>4
    <3> QED
        BY <3>1, <3>2, <3>3, <3>4, <3>5
  <2>3. P \in SUBSET (0 .. level)
      OBVIOUS
  <2> HIDE DEF P
  <2> QED
      BY <2>1, <2>2, <2>3, CountsUp
<1>4. level \in P
  <2> HIDE DEF P
  <2> QED
      BY <1>3
<1> QED
    BY <1>1, <1>2, <1>4

\* A level more is four times as many.
LEMMA RefinedOnceMore ==
  ASSUME NEW level \in Nat, 0 < level
  PROVE  RefinedFaceCount(1, level) = 4 * RefinedFaceCount(1, level - 1)
<1>1. level - 1 \in Nat /\ 1 \in Nat
    OBVIOUS
<1>2. PICK f \in [0 .. level -> Nat] :
            /\ f[0] = 1 /\ \A m \in 1 .. level : f[m] = 4 * f[m - 1]
            /\ RefinedFaceCount(1, level) = f[level]
    BY <1>1, RefinedUnfolds
<1>3. PICK g \in [0 .. level - 1 -> Nat] :
            /\ g[0] = 1 /\ \A m \in 1 .. level - 1 : g[m] = 4 * g[m - 1]
            /\ RefinedFaceCount(1, level - 1) = g[level - 1]
    BY <1>1, RefinedUnfolds
<1> DEFINE P == {n \in 0 .. level - 1 : f[n] = g[n]}
<1>4. P = 0 .. level - 1
  <2>1. 0 \in P
    <3>1. 0 \in 0 .. level - 1
        BY <1>1
    <3> QED
        BY <1>2, <1>3, <3>1
  <2>2. ASSUME NEW n \in P, n < level - 1 PROVE n + 1 \in P
    <3>1. n + 1 \in 1 .. level /\ n + 1 \in 1 .. level - 1 /\ n + 1 \in 0 .. level - 1 /\ (n + 1) - 1 = n
        BY <2>2
    <3>2. f[n + 1] = 4 * f[n] /\ g[n + 1] = 4 * g[n]
        BY <1>2, <1>3, <3>1
    <3>3. f[n] = g[n]
        OBVIOUS
    <3> QED
        BY <3>1, <3>2, <3>3
  <2>3. P \in SUBSET (0 .. level - 1)
      OBVIOUS
  <2> HIDE DEF P
  <2> QED
      BY <1>1, <2>1, <2>2, <2>3, CountsUp
<1>5. level - 1 \in P
  <2> HIDE DEF P
  <2> QED
      BY <1>1, <1>4
<1>6. level \in 1 .. level
    OBVIOUS
<1> QED
    BY <1>2, <1>3, <1>5, <1>6

-----------------------------------------------------------------------------
(* One domain.                                                              *)

\* What a segment of a side, and of the interior, is long.

\* Dividing by what was multiplied by.
LEMMA ExactPart ==
  ASSUME NEW r \in Nat, 0 < r, NEW x \in Int
  PROVE  (r * x) \div r = x
OBVIOUS

\* The samples of a side are a segment apart, from its corner round.
LEMMA OnSideIs ==
  ASSUME NEW side \in 1 .. 4, NEW r \in Rates, NEW k \in 0 .. r, NEW c, c = MaxRate \div r
  PROVE  /\ c \in Nat /\ 0 < c /\ r * c = MaxRate /\ k * c \in 0 .. MaxRate
         /\ side = 1 => OnSide(side, k, r) = <<k * c, 0>>
         /\ side = 2 => OnSide(side, k, r) = <<MaxRate, k * c>>
         /\ side = 3 => OnSide(side, k, r) = <<MaxRate - k * c, MaxRate>>
         /\ side = 4 => OnSide(side, k, r) = <<0, MaxRate - k * c>>
<1>1. c \in Nat /\ 0 < c /\ r * c = MaxRate /\ r \in Nat /\ 0 < r /\ MaxRate \in Nat /\ k \in Nat
    BY RatesAre
<1>2. PICK d \in Nat : d = k * c
    BY <1>1
<1>3. d =< MaxRate
  <2>1. k * c =< r * c
      BY <1>1
  <2> QED
      BY <1>1, <1>2, <2>1
<1>4. (MaxRate * k) \div r = d
  <2>1. MaxRate * k = r * d
    <3>1. (r * c) * k = r * (k * c)
        BY <1>1
    <3> QED
        BY <1>1, <1>2, <3>1
  <2> QED
      BY <1>1, <1>2, <2>1, ExactPart
<1>5. ((0 - MaxRate) * k) \div r = 0 - d
  <2>1. (0 - MaxRate) * k = r * (0 - d)
    <3>1. (0 - (r * c)) * k = r * (0 - (k * c))
        BY <1>1
    <3> QED
        BY <1>1, <1>2, <3>1
  <2>2. 0 - d \in Int
      BY <1>2
  <2> QED
      BY <1>1, <2>1, <2>2, ExactPart
<1>6. (0 * k) \div r = 0
    BY <1>1
<1>7. MaxRate - 0 = MaxRate /\ MaxRate - MaxRate = 0 /\ 0 - 0 = 0
    BY <1>1
<1> DEFINE a == Corner[side]
           b == Corner[Following(side)]
           along(axis) == ((b[axis] - a[axis]) * k) \div r
<1>12. OnSide(side, k, r) = <<a[1] + along(1), a[2] + along(2)>>
    BY DEF OnSide
<1>8. CASE side = 1
    BY <1>1, <1>2, <1>3, <1>4, <1>6, <1>7, <1>8 DEF OnSide, Corner, Following
<1>9. CASE side = 2
    BY <1>1, <1>2, <1>3, <1>4, <1>6, <1>7, <1>9 DEF OnSide, Corner, Following
<1>10. CASE side = 3
  <2>1. a[1] = MaxRate /\ a[2] = MaxRate /\ b[1] = 0 /\ b[2] = MaxRate
      BY <1>10 DEF Corner, Following
  <2> HIDE DEF a, b
  <2>2. along(1) = 0 - d /\ along(2) = 0
      BY <1>5, <1>6, <1>7, <2>1
  <2> HIDE DEF along
  <2>3. MaxRate + (0 - d) = MaxRate - d /\ MaxRate + 0 = MaxRate
      BY <1>1
  <2>4. OnSide(side, k, r) = <<MaxRate - d, MaxRate>>
      BY <1>12, <2>1, <2>2, <2>3
  <2> QED
      BY <1>1, <1>2, <1>3, <1>10, <2>4
<1>11. CASE side = 4
  <2>1. a[1] = 0 /\ a[2] = MaxRate /\ b[1] = 0 /\ b[2] = 0
      BY <1>11 DEF Corner, Following
  <2> HIDE DEF a, b
  <2>2. along(1) = 0 /\ along(2) = 0 - d
      BY <1>5, <1>6, <1>7, <2>1
  <2> HIDE DEF along
  <2>3. MaxRate + (0 - d) = MaxRate - d /\ 0 + 0 = 0
      BY <1>1
  <2>4. OnSide(side, k, r) = <<0, MaxRate - d>>
      BY <1>12, <2>1, <2>2, <2>3
  <2> QED
      BY <1>1, <1>2, <1>3, <1>11, <2>4
<1> QED
    BY <1>1, <1>2, <1>3, <1>8, <1>9, <1>10, <1>11

\* Where a side's run ends: where the next one starts.
RunEnd(rate, k) == IF k = 0 THEN 0 ELSE SideStart(rate, k) - 1 + rate[k]

\* The runs of the four sides follow one another and fill the boundary.
LEMMA StartsAre ==
  ASSUME NEW rate \in [1 .. 4 -> Rates]
  PROVE  /\ BoundarySamples(rate) \in Nat /\ 4 =< BoundarySamples(rate)
         /\ RunEnd(rate, 0) = 0 /\ RunEnd(rate, 4) = BoundarySamples(rate)
         /\ \A side \in 1 .. 4 :
              /\ rate[side] \in Rates /\ rate[side] \in Nat /\ 1 =< rate[side]
              /\ RunEnd(rate, side - 1) \in Nat /\ RunEnd(rate, side) \in Nat
              /\ SideStart(rate, side) = RunEnd(rate, side - 1) + 1
              /\ RunEnd(rate, side) = RunEnd(rate, side - 1) + rate[side]
              /\ \A s \in 1 .. 4 : s =< side => RunEnd(rate, s) =< RunEnd(rate, side)
<1>0. \A side \in 1 .. 4 : rate[side] \in Rates
    OBVIOUS
<1>1. \A side \in 1 .. 4 : rate[side] \in Rates /\ rate[side] \in Nat /\ 1 =< rate[side]
  <2>1. ASSUME NEW r \in Rates PROVE r \in Nat /\ 1 =< r
    <3>1. r \in Nat /\ 0 < r
        BY RatesAre
    <3> QED
        BY <3>1
  <2> QED
      BY <1>0, <2>1
<1>2. PICK a \in Nat : a = rate[1] /\ 1 =< a
    BY <1>1
<1>3. PICK b \in Nat : b = rate[2] /\ 1 =< b
    BY <1>1
<1>4. PICK c \in Nat : c = rate[3] /\ 1 =< c
    BY <1>1
<1>5. PICK d \in Nat : d = rate[4] /\ 1 =< d
    BY <1>1
<1>6. BoundarySamples(rate) = a + b + c + d
    BY <1>2, <1>3, <1>4, <1>5 DEF BoundarySamples
<1>7. /\ SideStart(rate, 1) = 1 /\ SideStart(rate, 2) = 1 + a
      /\ SideStart(rate, 3) = 1 + a + b /\ SideStart(rate, 4) = 1 + a + b + c
    BY <1>2, <1>3, <1>4 DEF SideStart
<1>8. /\ RunEnd(rate, 0) = 0 /\ RunEnd(rate, 1) = a /\ RunEnd(rate, 2) = a + b
      /\ RunEnd(rate, 3) = a + b + c /\ RunEnd(rate, 4) = a + b + c + d
    BY <1>2, <1>3, <1>4, <1>5, <1>7 DEF RunEnd
<1>9. BoundarySamples(rate) \in Nat /\ 4 =< BoundarySamples(rate) /\ RunEnd(rate, 4) = BoundarySamples(rate)
    BY <1>2, <1>3, <1>4, <1>5, <1>6, <1>8
<1>10. ASSUME NEW side \in 1 .. 4, NEW s \in 1 .. 4, s =< side PROVE RunEnd(rate, s) =< RunEnd(rate, side)
    BY <1>2, <1>3, <1>4, <1>5, <1>8, <1>10
<1>11. ASSUME NEW side \in 1 .. 4
      PROVE /\ RunEnd(rate, side - 1) \in Nat /\ RunEnd(rate, side) \in Nat
            /\ SideStart(rate, side) = RunEnd(rate, side - 1) + 1
            /\ RunEnd(rate, side) = RunEnd(rate, side - 1) + rate[side]
  <2>1. CASE side = 1
      BY <1>2, <1>3, <1>4, <1>5, <1>7, <1>8, <2>1
  <2>2. CASE side = 2
      BY <1>2, <1>3, <1>4, <1>5, <1>7, <1>8, <2>2
  <2>3. CASE side = 3
      BY <1>2, <1>3, <1>4, <1>5, <1>7, <1>8, <2>3
  <2>4. CASE side = 4
      BY <1>2, <1>3, <1>4, <1>5, <1>7, <1>8, <2>4
  <2> QED
      BY <2>1, <2>2, <2>3, <2>4
<1> QED
    BY <1>1, <1>8, <1>9, <1>10, <1>11

\* A side's run is its samples but the last.
LEMMA RunIs ==
  ASSUME NEW rate \in [1 .. 4 -> Rates], NEW side \in 1 .. 4
  PROVE  /\ IsSeq(SideRun(rate, side)) /\ Len(SideRun(rate, side)) = rate[side]
         /\ \A k \in 1 .. rate[side] : SideRun(rate, side)[k] = OnSide(side, k - 1, rate[side])
<1> DEFINE s == SideRun(rate, side)
<1>1. rate[side] \in Nat
    BY StartsAre
<1>2. s = [k \in 1 .. rate[side] |-> s[k]] /\ \A k \in 1 .. rate[side] : s[k] = OnSide(side, k - 1, rate[side])
  <2> HIDE DEF OnSide
  <2> QED
      BY DEF SideRun
<1> HIDE DEF s
<1>3. IsSeq(s) /\ Len(s) = rate[side]
    BY <1>1, <1>2, ListIsSeq
<1> QED
    BY <1>2, <1>3 DEF s

\* The boundary is the four runs, each from where the one before it ends.
LEMMA BoundaryIs ==
  ASSUME NEW rate \in [1 .. 4 -> Rates]
  PROVE  /\ IsSeq(Boundary(rate)) /\ Len(Boundary(rate)) = BoundarySamples(rate)
         /\ \A side \in 1 .. 4 : \A k \in 1 .. rate[side] :
              Boundary(rate)[RunEnd(rate, side - 1) + k] = OnSide(side, k - 1, rate[side])
<1> DEFINE parts == [side \in 1 .. 4 |-> SideRun(rate, side)]
           F(k) == FirstParts(parts, k)
           Holds(n, side) == \A k \in 1 .. rate[side] :
                               F(n)[RunEnd(rate, side - 1) + k] = OnSide(side, k - 1, rate[side])
           P == {n \in 0 .. 4 : /\ Len(F(n)) = RunEnd(rate, n)
                                /\ \A side \in 1 .. 4 : side =< n => Holds(n, side)}
<1>1. \A side \in 1 .. 4 : parts[side] = SideRun(rate, side)
    OBVIOUS
<1>2. IsSeq(parts) /\ Len(parts) = 4
  <2>1. parts = [side \in 1 .. 4 |-> parts[side]]
    <3> HIDE DEF SideRun
    <3> QED
        OBVIOUS
  <2> HIDE DEF parts
  <2> QED
      BY <2>1, ListIsSeq
<1>3. Boundary(rate) = Concat(parts)
    BY DEF Boundary
<1> HIDE DEF parts
<1>4. Boundary(rate) = F(4)
    BY <1>2, <1>3, ConcatIsFirst
<1>5. \A i \in 1 .. 4 : IsSeq(parts[i])
    BY <1>1, RunIs
<1>6. \A k \in 0 .. 4 : /\ IsSeq(F(k)) /\ (k = 0 => F(k) = <<>>)
                        /\ (k < 4 => F(k + 1) = F(k) \o parts[k + 1])
    BY <1>5, FirstPartsAre
<1> HIDE DEF F
<1>7. P = 0 .. 4
  <2>1. 0 \in P
    <3>1. Len(F(0)) = 0 /\ RunEnd(rate, 0) = 0 /\ 0 \in 0 .. 4
        BY <1>6, Empty, StartsAre
    <3>2. \A side \in 1 .. 4 : ~(side =< 0)
        OBVIOUS
    <3> HIDE DEF Holds
    <3> QED
        BY <3>1, <3>2
  <2>2. ASSUME NEW n \in 0 .. 4, Len(F(n)) = RunEnd(rate, n), \A side \in 1 .. 4 : side =< n => Holds(n, side), n < 4
        PROVE  Len(F(n + 1)) = RunEnd(rate, n + 1) /\ \A side \in 1 .. 4 : side =< n + 1 => Holds(n + 1, side)
    <3> HIDE DEF P, Holds
    <3>1. n + 1 \in 1 .. 4 /\ (n + 1) - 1 = n
        BY <2>2
    <3>2. IsSeq(F(n)) /\ IsSeq(parts[n + 1]) /\ F(n + 1) = F(n) \o parts[n + 1]
        BY <1>5, <1>6, <2>2, <3>1
    <3>3. /\ Len(F(n) \o parts[n + 1]) = Len(F(n)) + Len(parts[n + 1])
          /\ \A i \in 1 .. Len(F(n)) : (F(n) \o parts[n + 1])[i] = F(n)[i]
          /\ \A i \in 1 .. Len(parts[n + 1]) : (F(n) \o parts[n + 1])[Len(F(n)) + i] = parts[n + 1][i]
        BY <3>2, Joined
    <3>4. Len(F(n)) = RunEnd(rate, n) /\ Len(parts[n + 1]) = rate[n + 1]
        BY <1>1, <2>2, <3>1, RunIs
    <3>5. RunEnd(rate, n + 1) = RunEnd(rate, n) + rate[n + 1] /\ RunEnd(rate, n) \in Nat /\ rate[n + 1] \in Nat
      <4>1. /\ RunEnd(rate, (n + 1) - 1) \in Nat /\ rate[n + 1] \in Nat
            /\ RunEnd(rate, n + 1) = RunEnd(rate, (n + 1) - 1) + rate[n + 1]
          BY <3>1, StartsAre
      <4> QED
          BY <3>1, <4>1
    <3>6. Len(F(n + 1)) = RunEnd(rate, n + 1)
        BY <3>2, <3>3, <3>4, <3>5
    <3>7. \A i \in 1 .. RunEnd(rate, n) : F(n + 1)[i] = F(n)[i]
        BY <3>2, <3>3, <3>4
    <3>8. \A i \in 1 .. rate[n + 1] : F(n + 1)[RunEnd(rate, n) + i] = SideRun(rate, n + 1)[i]
        BY <1>1, <3>1, <3>2, <3>3, <3>4
    <3>9. ASSUME NEW side \in 1 .. 4, side =< n + 1 PROVE Holds(n + 1, side)
      <4>1. CASE side = n + 1
        <5>1. \A k \in 1 .. rate[n + 1] : SideRun(rate, n + 1)[k] = OnSide(n + 1, k - 1, rate[n + 1])
            BY <3>1, RunIs
        <5> QED
            BY <3>1, <3>8, <4>1, <5>1 DEF Holds
      <4>2. CASE side =< n
        <5>1. Holds(n, side) /\ n \in 1 .. 4
            BY <2>2, <4>2
        <5>2. /\ RunEnd(rate, side - 1) \in Nat /\ rate[side] \in Nat /\ RunEnd(rate, side) \in Nat
              /\ RunEnd(rate, side) = RunEnd(rate, side - 1) + rate[side]
            BY StartsAre
        <5>3. RunEnd(rate, side) =< RunEnd(rate, n)
            BY <4>2, <5>1, StartsAre
        <5>4. ASSUME NEW k \in 1 .. rate[side] PROVE RunEnd(rate, side - 1) + k \in 1 .. RunEnd(rate, n)
            BY <3>5, <5>2, <5>3
        <5> QED
            BY <3>7, <5>1, <5>4 DEF Holds
      <4> QED
          BY <2>2, <3>9, <4>1, <4>2
    <3> QED
        BY <3>6, <3>9
  <2>4. \A n \in P : n < 4 => n + 1 \in P
    <3> HIDE DEF Holds
    <3> QED
        BY <2>2
  <2>3. P \in SUBSET (0 .. 4)
      OBVIOUS
  <2> HIDE DEF P
  <2> QED
      BY <2>1, <2>3, <2>4, CountsUp
<1>8. 4 \in P
  <2> HIDE DEF P
  <2> QED
      BY <1>7
<1>9. Len(F(4)) = RunEnd(rate, 4) /\ \A side \in 1 .. 4 : Holds(4, side)
    BY <1>8
<1>10. IsSeq(F(4))
    BY <1>6
<1> QED
    BY <1>4, <1>9, <1>10, StartsAre

\* A side's last sample is the next side's first.
LEMMA BoundaryAtIs ==
  ASSUME NEW rate \in [1 .. 4 -> Rates], NEW side \in 1 .. 4, NEW k \in 0 .. rate[side]
  PROVE  /\ BoundaryAt(rate, side, k) \in 1 .. BoundarySamples(rate)
         /\ k < rate[side] => BoundaryAt(rate, side, k) = RunEnd(rate, side - 1) + 1 + k
         /\ k = rate[side] => /\ BoundaryAt(rate, side, k) = BoundaryAt(rate, Following(side), 0)
                              /\ BoundaryAt(rate, side, k) = IF side = 4 THEN 1 ELSE RunEnd(rate, side) + 1
         /\ Boundary(rate)[BoundaryAt(rate, side, k)] = OnSide(side, k, rate[side])
<1> DEFINE B == BoundarySamples(rate)
           at(s) == RunEnd(rate, s - 1)
<1>1. B \in Nat /\ 4 =< B /\ RunEnd(rate, 4) = B /\ RunEnd(rate, 0) = 0
    BY StartsAre
<1>2. \A s \in 1 .. 4 : /\ rate[s] \in Rates /\ rate[s] \in Nat /\ 1 =< rate[s]
                        /\ at(s) \in Nat /\ RunEnd(rate, s) \in Nat
                        /\ SideStart(rate, s) = at(s) + 1
                        /\ RunEnd(rate, s) = at(s) + rate[s] /\ RunEnd(rate, s) =< B
  <2>1. ASSUME NEW s \in 1 .. 4
        PROVE  /\ rate[s] \in Rates /\ rate[s] \in Nat /\ 1 =< rate[s]
               /\ at(s) \in Nat /\ RunEnd(rate, s) \in Nat
               /\ SideStart(rate, s) = at(s) + 1 /\ RunEnd(rate, s) = at(s) + rate[s]
      BY StartsAre
  <2>2. ASSUME NEW s \in 1 .. 4 PROVE RunEnd(rate, s) =< RunEnd(rate, 4)
    <3>1. 4 \in 1 .. 4 /\ s =< 4
        OBVIOUS
    <3> QED
        BY <3>1, StartsAre
  <2> QED
      BY <1>1, <2>1, <2>2
<1> HIDE DEF B
<1>3. \A s \in 1 .. 4 : \A n \in 0 .. rate[s] : BoundaryAt(rate, s, n) = ((at(s) + n) % B) + 1
  <2>1. ASSUME NEW s \in 1 .. 4, NEW n \in 0 .. rate[s]
        PROVE BoundaryAt(rate, s, n) = ((at(s) + n) % B) + 1
    <3>1. SideStart(rate, s) - 1 + n = at(s) + n
        BY <1>2
    <3> QED
        BY <3>1 DEF BoundaryAt, B
  <2> QED
      BY <2>1
<1>4. \A s \in 1 .. 4 : \A n \in 0 .. rate[s] : n < rate[s] => BoundaryAt(rate, s, n) = at(s) + 1 + n
  <2>1. ASSUME NEW s \in 1 .. 4, NEW n \in 0 .. rate[s], n < rate[s]
        PROVE BoundaryAt(rate, s, n) = at(s) + 1 + n
    <3>1. at(s) + n \in 0 .. B - 1
        BY <1>1, <1>2, <2>1
    <3>2. (at(s) + n) % B = at(s) + n
        BY <1>1, <3>1
    <3> QED
        BY <1>2, <1>3, <3>2
  <2> QED
      BY <2>1
<1>5. CASE k < rate[side]
  <2>1. BoundaryAt(rate, side, k) = at(side) + 1 + k
      BY <1>4, <1>5
  <2>2. k + 1 \in 1 .. rate[side] /\ at(side) + (k + 1) = at(side) + 1 + k /\ (k + 1) - 1 = k
      BY <1>2, <1>5
  <2>3. Boundary(rate)[at(side) + (k + 1)] = OnSide(side, (k + 1) - 1, rate[side])
      BY <2>2, BoundaryIs
  <2>4. at(side) + 1 + k \in 1 .. B
      BY <1>1, <1>2, <1>5
  <2> QED
      BY <1>2, <1>5, <2>1, <2>2, <2>3, <2>4 DEF B
<1>6. CASE k = rate[side]
  <2> DEFINE next == Following(side)
             R == RunEnd(rate, side)
  <2>1. /\ next \in 1 .. 4 /\ (side = 4 => next = 1) /\ (side # 4 => next = side + 1) /\ 0 \in 0 .. rate[next]
        /\ at(side) + k = R /\ 0 < rate[next]
    <3>1. next \in 1 .. 4 /\ (side = 4 => next = 1) /\ (side # 4 => next = side + 1)
        BY DEF Following
    <3>2. rate[next] \in Nat /\ 1 =< rate[next]
        BY <1>2, <3>1
    <3> QED
        BY <1>2, <1>6, <3>1, <3>2
  <2>2. BoundaryAt(rate, side, k) = (R % B) + 1
      BY <1>3, <2>1
  <2>3. BoundaryAt(rate, next, 0) = at(next) + 1
    <3>1. BoundaryAt(rate, next, 0) = at(next) + 1 + 0 /\ at(next) \in Nat
        BY <1>2, <1>4, <2>1
    <3> QED
        BY <3>1
  <2>4. ASSUME side = 4
        PROVE  BoundaryAt(rate, side, k) = BoundaryAt(rate, next, 0) /\ BoundaryAt(rate, side, k) = 1
    <3>1. R = B /\ at(next) = 0
        BY <1>1, <2>1, <2>4
    <3>2. B % B = 0
        BY <1>1
    <3> QED
        BY <1>1, <2>2, <2>3, <2>4, <3>1, <3>2
  <2>5. ASSUME side # 4
        PROVE  BoundaryAt(rate, side, k) = BoundaryAt(rate, next, 0) /\ BoundaryAt(rate, side, k) = R + 1
    <3>1. R = at(next) /\ next - 1 = side
        BY <2>1, <2>5
    <3>2. R < B
      <4>1. RunEnd(rate, next) = at(next) + rate[next] /\ RunEnd(rate, next) =< B /\ 1 =< rate[next] /\ rate[next] \in Nat /\ at(next) \in Nat
          BY <1>2, <2>1
      <4> QED
          BY <1>1, <3>1, <4>1
    <3>3. R % B = R
        BY <1>1, <1>2, <3>2
    <3> QED
        BY <2>2, <2>3, <2>5, <3>1, <3>3
  <2>6. /\ BoundaryAt(rate, side, k) = BoundaryAt(rate, next, 0)
        /\ BoundaryAt(rate, side, k) = IF side = 4 THEN 1 ELSE R + 1
      BY <2>4, <2>5
  <2>7. BoundaryAt(rate, next, 0) \in 1 .. B
    <3>1. RunEnd(rate, next) = at(next) + rate[next] /\ RunEnd(rate, next) =< B /\ 1 =< rate[next] /\ rate[next] \in Nat /\ at(next) \in Nat
        BY <1>2, <2>1
    <3> QED
        BY <1>1, <2>3, <3>1
  <2>8. Boundary(rate)[BoundaryAt(rate, next, 0)] = OnSide(next, 0, rate[next])
    <3>1. 1 \in 1 .. rate[next] /\ 1 - 1 = 0
        BY <1>2, <2>1
    <3>2. Boundary(rate)[at(next) + 1] = OnSide(next, 1 - 1, rate[next])
        BY <2>1, <3>1, BoundaryIs
    <3> QED
        BY <2>3, <3>1, <3>2
  <2>9. OnSide(next, 0, rate[next]) = OnSide(side, k, rate[side])
    <3> DEFINE c == MaxRate \div rate[side]
               d == MaxRate \div rate[next]
    <3>1. rate[side] \in Rates /\ rate[next] \in Rates /\ 0 \in 0 .. rate[next] /\ k \in 0 .. rate[side]
        BY <1>2, <2>1
    <3>2. /\ c \in Nat /\ k * c = MaxRate
          /\ side = 1 => OnSide(side, k, rate[side]) = <<k * c, 0>>
          /\ side = 2 => OnSide(side, k, rate[side]) = <<MaxRate, k * c>>
          /\ side = 3 => OnSide(side, k, rate[side]) = <<MaxRate - k * c, MaxRate>>
          /\ side = 4 => OnSide(side, k, rate[side]) = <<0, MaxRate - k * c>>
        BY <1>6, <3>1, OnSideIs
    <3>3. /\ d \in Nat
          /\ next = 1 => OnSide(next, 0, rate[next]) = <<0 * d, 0>>
          /\ next = 2 => OnSide(next, 0, rate[next]) = <<MaxRate, 0 * d>>
          /\ next = 3 => OnSide(next, 0, rate[next]) = <<MaxRate - 0 * d, MaxRate>>
          /\ next = 4 => OnSide(next, 0, rate[next]) = <<0, MaxRate - 0 * d>>
        BY <2>1, <3>1, OnSideIs
    <3> HIDE DEF c, d
    <3>4. 0 * d = 0 /\ MaxRate \in Nat /\ MaxRate - 0 = MaxRate /\ MaxRate - MaxRate = 0
        BY <3>3, RatesAre
    <3>5. side \in {1, 2, 3, 4}
        OBVIOUS
    <3> HIDE DEF next
    <3> QED
        BY <2>1, <3>2, <3>3, <3>4, <3>5
  <2> QED
      BY <1>2, <1>6, <2>6, <2>7, <2>8, <2>9 DEF B
<1> QED
  <2>1. k < rate[side] \/ k = rate[side]
      BY <1>2
  <2> QED
      BY <1>5, <1>6, <2>1

\* No two of the boundary's samples are the same.
LEMMA BoundaryApart ==
  ASSUME NEW rate \in [1 .. 4 -> Rates], NEW side \in 1 .. 4, NEW s \in 1 .. 4,
         NEW k \in 0 .. rate[side] - 1, NEW n \in 0 .. rate[s] - 1,
         BoundaryAt(rate, side, k) = BoundaryAt(rate, s, n)
  PROVE  side = s /\ k = n
<1>1. \A a \in 1 .. 4 : /\ rate[a] \in Nat /\ RunEnd(rate, a - 1) \in Nat /\ RunEnd(rate, a) \in Nat
                        /\ RunEnd(rate, a) = RunEnd(rate, a - 1) + rate[a]
    BY StartsAre
<1>2. ASSUME NEW a \in 1 .. 4, NEW b \in 1 .. 4, a < b PROVE RunEnd(rate, a) =< RunEnd(rate, b - 1)
  <2>1. b - 1 \in 1 .. 4 /\ a =< b - 1
      BY <1>2
  <2> QED
      BY <2>1, StartsAre
<1>3. /\ BoundaryAt(rate, side, k) = RunEnd(rate, side - 1) + 1 + k
      /\ BoundaryAt(rate, s, n) = RunEnd(rate, s - 1) + 1 + n
  <2>1. k \in 0 .. rate[side] /\ k < rate[side] /\ n \in 0 .. rate[s] /\ n < rate[s]
      BY <1>1
  <2> QED
      BY <2>1, BoundaryAtIs
<1>4. PICK a \in Nat : a = RunEnd(rate, side - 1)
    BY <1>1
<1>5. PICK b \in Nat : b = RunEnd(rate, s - 1)
    BY <1>1
<1>6. PICK p \in Nat : p = rate[side]
    BY <1>1
<1>7. PICK q \in Nat : q = rate[s]
    BY <1>1
<1>8. k \in 0 .. p - 1 /\ n \in 0 .. q - 1 /\ a + 1 + k = b + 1 + n
    BY <1>3, <1>4, <1>5, <1>6, <1>7
<1>9. ~(side < s)
  <2>1. SUFFICES ASSUME side < s PROVE FALSE
      OBVIOUS
  <2>2. RunEnd(rate, side) =< b /\ RunEnd(rate, side) = a + p
      BY <1>1, <1>2, <1>4, <1>5, <1>6, <2>1
  <2> QED
      BY <1>8, <2>2
<1>10. ~(s < side)
  <2>1. SUFFICES ASSUME s < side PROVE FALSE
      OBVIOUS
  <2>2. RunEnd(rate, s) =< a /\ RunEnd(rate, s) = b + q
      BY <1>1, <1>2, <1>4, <1>5, <1>7, <2>1
  <2> QED
      BY <1>8, <2>2
<1>11. side = s
    BY <1>9, <1>10
<1>12. a = b
    BY <1>4, <1>5, <1>11
<1> QED
    BY <1>8, <1>11, <1>12

\* How many samples the interior grid has a side, and how far apart.
Span(rate) == InnerRate(rate) - 1
Cut(rate) == MaxRate \div InnerRate(rate)

\* The grid is a square of samples as far apart as the finest rate cuts.
LEMMA GridIs ==
  ASSUME NEW rate \in [1 .. 4 -> Rates], 2 =< InnerRate(rate)
  PROVE  /\ InnerRate(rate) \in Nat /\ Span(rate) \in Nat /\ 1 =< Span(rate)
         /\ InnerRate(rate) = Span(rate) + 1
         /\ Cut(rate) \in Nat /\ 0 < Cut(rate) /\ InnerRate(rate) * Cut(rate) = MaxRate
         /\ IsSeq(GridSamples(rate)) /\ Len(GridSamples(rate)) = Span(rate) * Span(rate)
         /\ \A i, j \in 0 .. Span(rate) - 1 :
              /\ j * Span(rate) + i + 1 \in 1 .. Span(rate) * Span(rate)
              /\ GridSamples(rate)[j * Span(rate) + i + 1] = <<(i + 1) * Cut(rate), (j + 1) * Cut(rate)>>
<1>1. InnerRate(rate) \in Rates
    BY InnerIs
<1>2. /\ InnerRate(rate) \in Nat
      /\ Cut(rate) \in Nat /\ 0 < Cut(rate) /\ InnerRate(rate) * Cut(rate) = MaxRate
    BY <1>1, RatesAre DEF Cut
<1>3. Span(rate) \in Nat /\ 1 =< Span(rate) /\ InnerRate(rate) = Span(rate) + 1
    BY <1>2 DEF Span
<1>4. PICK w \in Nat : w = Span(rate)
    BY <1>3
<1>5. PICK c \in Nat : c = Cut(rate)
    BY <1>2
<1> DEFINE at(n) == <<(((n - 1) % w) + 1) * c, (((n - 1) \div w) + 1) * c>>
<1>6. GridSamples(rate) = [n \in 1 .. w * w |-> at(n)]
    BY <1>4, <1>5, Zenon DEF GridSamples, Span, Cut
<1>7. w * w \in Nat
    OBVIOUS
<1>8. IsSeq(GridSamples(rate)) /\ Len(GridSamples(rate)) = w * w
  <2> DEFINE N == w * w
             g == GridSamples(rate)
  <2>1. N \in Nat /\ g = [n \in 1 .. N |-> at(n)]
      BY <1>6, <1>7
  <2> HIDE DEF N, at, g
  <2>2. \A n \in 1 .. N : g[n] = at(n)
      BY <2>1
  <2>3. [n \in 1 .. N |-> at(n)] = [n \in 1 .. N |-> g[n]]
      BY <2>2
  <2>4. g = [n \in 1 .. N |-> g[n]]
      BY <2>1, <2>3, Zenon
  <2>5. IsSeq(g) /\ Len(g) = N
      BY <2>1, <2>4, ListIsSeq
  <2> QED
      BY <2>5 DEF N, g
<1>9. ASSUME NEW i \in 0 .. w - 1, NEW j \in 0 .. w - 1
      PROVE  /\ j * w + i + 1 \in 1 .. w * w
             /\ GridSamples(rate)[j * w + i + 1] = <<(i + 1) * c, (j + 1) * c>>
  <2> DEFINE n == ((j + 1) - 1) * w + (i + 1)
  <2>1. i + 1 \in 1 .. w /\ j + 1 \in 1 .. w
      BY <1>9
  <2>2. n \in 1 .. w * w /\ ((n - 1) % w) + 1 = i + 1 /\ ((n - 1) \div w) + 1 = j + 1
      BY <2>1, RowsApart
  <2>3. n = j * w + i + 1
    <3>1. (j + 1) - 1 = j /\ j * w \in Nat
        BY <1>9
    <3> QED
        BY <1>9, <3>1
  <2> HIDE DEF n
  <2>4. GridSamples(rate)[n] = at(n)
      BY <1>6, <2>2
  <2>5. at(n) = <<(i + 1) * c, (j + 1) * c>>
      BY <2>2, Zenon
  <2> QED
      BY <2>2, <2>3, <2>4, <2>5
<1> HIDE DEF at
<1> QED
    BY <1>2, <1>3, <1>4, <1>5, <1>8, <1>9

\* Where in the samples a grid's is: after the boundary's, row by row.
LEMMA InsideIs ==
  ASSUME NEW rate \in [1 .. 4 -> Rates], 2 =< InnerRate(rate),
         NEW i \in 0 .. Span(rate) - 1, NEW j \in 0 .. Span(rate) - 1
  PROVE  /\ Inside(rate, i, j) = BoundarySamples(rate) + (j * Span(rate) + i + 1)
         /\ Inside(rate, i, j) \in Nat
         /\ BoundarySamples(rate) < Inside(rate, i, j)
         /\ Inside(rate, i, j) =< BoundarySamples(rate) + Span(rate) * Span(rate)
<1>1. PICK w \in Nat : w = Span(rate)
    BY GridIs
<1>2. PICK b \in Nat : b = BoundarySamples(rate)
    BY StartsAre
<1>3. Inside(rate, i, j) = b + j * w + i + 1
    BY <1>1, <1>2 DEF Inside, Span
<1>4. j * w + i + 1 \in 1 .. w * w
    BY <1>1, GridIs
<1>5. j * w \in Nat /\ i \in Nat /\ w * w \in Nat
    BY <1>1
<1> QED
    BY <1>1, <1>2, <1>3, <1>4, <1>5

\* Two places in the grid are two samples.
LEMMA InsideApart ==
  ASSUME NEW rate \in [1 .. 4 -> Rates], 2 =< InnerRate(rate),
         NEW i \in 0 .. Span(rate) - 1, NEW j \in 0 .. Span(rate) - 1,
         NEW p \in 0 .. Span(rate) - 1, NEW q \in 0 .. Span(rate) - 1,
         Inside(rate, i, j) = Inside(rate, p, q)
  PROVE  i = p /\ j = q
<1>1. PICK w \in Nat : w = Span(rate)
    BY GridIs
<1>2. PICK b \in Nat : b = BoundarySamples(rate)
    BY StartsAre
<1>3. i \in 0 .. w - 1 /\ j \in 0 .. w - 1 /\ p \in 0 .. w - 1 /\ q \in 0 .. w - 1
    BY <1>1
<1>4. j * w \in Nat /\ q * w \in Nat
    BY <1>3
<1>5. b + (j * w + i + 1) = b + (q * w + p + 1)
    BY <1>1, <1>2, InsideIs
<1>6. j * w + i + 1 = q * w + p + 1
    BY <1>3, <1>4, <1>5
<1> DEFINE m == ((j + 1) - 1) * w + (i + 1)
           n == ((q + 1) - 1) * w + (p + 1)
<1>7. i + 1 \in 1 .. w /\ j + 1 \in 1 .. w /\ p + 1 \in 1 .. w /\ q + 1 \in 1 .. w
    BY <1>3
<1>8. m = n
  <2>1. (j + 1) - 1 = j /\ (q + 1) - 1 = q
      BY <1>3
  <2> QED
      BY <1>3, <1>4, <1>6, <2>1
<1>9. ASSUME NEW x \in 1 .. w, NEW y \in 1 .. w
      PROVE  /\ ((((y - 1) * w + x) - 1) % w) + 1 = x
             /\ ((((y - 1) * w + x) - 1) \div w) + 1 = y
    BY <1>9, RowsApart
<1>10. /\ ((m - 1) % w) + 1 = i + 1 /\ ((m - 1) \div w) + 1 = j + 1
       /\ ((n - 1) % w) + 1 = p + 1 /\ ((n - 1) \div w) + 1 = q + 1
    BY <1>7, <1>9, Zenon
<1> HIDE DEF m, n
<1>11. i + 1 = p + 1 /\ j + 1 = q + 1
    BY <1>8, <1>10
<1> QED
    BY <1>3, <1>11

\* What a quad cut finer than once samples: round it, then inside it.
LEMMA SamplesAre ==
  ASSUME NEW rate \in [1 .. 4 -> Rates], 2 =< InnerRate(rate)
  PROVE  /\ IsSeq(TessellateQuad(rate).samples)
         /\ Len(TessellateQuad(rate).samples) = BoundarySamples(rate) + Span(rate) * Span(rate)
         /\ \A side \in 1 .. 4 : \A k \in 0 .. rate[side] :
              TessellateQuad(rate).samples[BoundaryAt(rate, side, k)] = OnSide(side, k, rate[side])
         /\ \A i, j \in 0 .. Span(rate) - 1 :
              TessellateQuad(rate).samples[Inside(rate, i, j)] = <<(i + 1) * Cut(rate), (j + 1) * Cut(rate)>>
<1>1. TessellateQuad(rate).samples = Boundary(rate) \o GridSamples(rate)
  <2>1. InnerRate(rate) \in Nat /\ ~(InnerRate(rate) < 2)
      BY GridIs
  <2> QED
      BY <2>1 DEF TessellateQuad
<1>2. IsSeq(Boundary(rate)) /\ Len(Boundary(rate)) = BoundarySamples(rate)
    BY BoundaryIs
<1>3. IsSeq(GridSamples(rate)) /\ Len(GridSamples(rate)) = Span(rate) * Span(rate)
    BY GridIs
<1> DEFINE s == Boundary(rate)
           t == GridSamples(rate)
<1> HIDE DEF s, t
<1>4. /\ IsSeq(s \o t) /\ Len(s \o t) = Len(s) + Len(t)
      /\ \A i \in 1 .. Len(s) : (s \o t)[i] = s[i]
      /\ \A i \in 1 .. Len(t) : (s \o t)[Len(s) + i] = t[i]
    BY <1>2, <1>3, Joined DEF s, t
<1>5. ASSUME NEW side \in 1 .. 4, NEW k \in 0 .. rate[side]
      PROVE  TessellateQuad(rate).samples[BoundaryAt(rate, side, k)] = OnSide(side, k, rate[side])
  <2>1. /\ BoundaryAt(rate, side, k) \in 1 .. BoundarySamples(rate)
        /\ Boundary(rate)[BoundaryAt(rate, side, k)] = OnSide(side, k, rate[side])
      BY BoundaryAtIs
  <2> QED
      BY <1>1, <1>2, <1>4, <2>1 DEF s, t
<1>6. ASSUME NEW i \in 0 .. Span(rate) - 1, NEW j \in 0 .. Span(rate) - 1
      PROVE  TessellateQuad(rate).samples[Inside(rate, i, j)] = <<(i + 1) * Cut(rate), (j + 1) * Cut(rate)>>
  <2> DEFINE n == j * Span(rate) + i + 1
  <2>1. n \in 1 .. Span(rate) * Span(rate) /\ t[n] = <<(i + 1) * Cut(rate), (j + 1) * Cut(rate)>>
      BY GridIs DEF t
  <2>2. Inside(rate, i, j) = BoundarySamples(rate) + n
      BY InsideIs
  <2> HIDE DEF n
  <2>3. (s \o t)[Len(s) + n] = t[n]
      BY <1>3, <1>4, <2>1 DEF t
  <2> QED
      BY <1>1, <1>2, <2>1, <2>2, <2>3 DEF s, t
<1> QED
    BY <1>1, <1>2, <1>3, <1>4, <1>5, <1>6 DEF s, t

\* One step of the walk of a side and of the run that faces it.
Stepped(outer, inner, w) ==
    IF AdvanceOuter(w[1], outer, w[2], inner) THEN <<w[1] + 1, w[2]>> ELSE <<w[1], w[2] + 1>>

\* A walk is one step after another.
LEMMA WalkSteps ==
  ASSUME NEW outer \in Nat, NEW inner \in Nat
  PROVE  /\ Walk(outer, inner)[0] = <<0, 0>>
         /\ \A n \in 1 .. outer + inner :
              Walk(outer, inner)[n] = Stepped(outer, inner, Walk(outer, inner)[n - 1])
<1> DEFINE N == outer + inner
           go(w) == Stepped(outer, inner, w)
           X == Nat \X Nat
           start == <<0, 0>>
           step == [m \in 1 .. N |-> [w \in X |-> go(w)]]
<1>1. N \in Nat /\ start \in X
    OBVIOUS
<1>2. \A w \in X : go(w) \in X
    BY DEF Stepped
<1> HIDE DEF go
<1>3. Steps(step, N, X) /\ \A m \in 1 .. N, w \in X : step[m][w] = go(w)
    BY <1>2 DEF Steps
<1> HIDE DEF step, X, N, start
<1>4. PICK f \in [0 .. N -> X] : Unfolds(f, start, step, N)
    BY <1>1, <1>3, StepByStep
<1>5. f[0] = start /\ \A m \in 1 .. N : f[m] = go(f[m - 1])
  <2>1. ASSUME NEW m \in 1 .. N PROVE f[m - 1] \in X
    <3>1. m - 1 \in 0 .. N
        BY <1>1
    <3> QED
        BY <3>1
  <2> QED
      BY <1>3, <1>4, <2>1 DEF Unfolds
<1> DEFINE next(h, n) == IF n = 0 THEN start ELSE go(h[n - 1])
<1>6. f = [n \in 0 .. N |-> next(f, n)]
  <2>1. \A n \in 0 .. N : f[n] = next(f, n)
      BY <1>1, <1>5
  <2> HIDE DEF next
  <2> QED
      BY <2>1
<1> DEFINE g == CHOOSE h : h = [n \in 0 .. N |-> next(h, n)]
<1>7. g = [n \in 0 .. N |-> next(g, n)]
  <2> HIDE DEF next
  <2> QED
      BY <1>6
<1>8. Walk(outer, inner) = g
    BY Zenon DEF Walk, N, start, go, Stepped
<1> HIDE DEF g
<1>9. \A n \in 0 .. N : g[n] = next(g, n)
  <2> HIDE DEF next
  <2> QED
      BY <1>7
<1>10. g[0] = start /\ \A n \in 1 .. N : g[n] = go(g[n - 1])
    BY <1>1, <1>9
<1> QED
    BY <1>8, <1>10 DEF start, go, N

\* Where the walk is after n steps: n along the two together, past neither end.
Standing(outer, inner, n, w) ==
    /\ w = <<w[1], w[2]>>
    /\ w[1] \in 0 .. outer /\ w[2] \in 0 .. inner /\ w[1] + w[2] = n

\* A step goes on by one, along the side or along the run.
LEMMA SteppedIs ==
  ASSUME NEW outer \in Nat, NEW inner \in Nat, NEW n \in 0 .. (outer + inner) - 1,
         NEW w, Standing(outer, inner, n, w)
  PROVE  /\ Standing(outer, inner, n + 1, Stepped(outer, inner, w))
         /\ \/ Stepped(outer, inner, w) = <<w[1] + 1, w[2]>>
            \/ Stepped(outer, inner, w) = <<w[1], w[2] + 1>>
<1>1. w[1] \in 0 .. outer /\ w[2] \in 0 .. inner /\ w[1] + w[2] = n
    BY DEF Standing
<1>2. PICK o \in 0 .. outer : o = w[1]
    BY <1>1
<1>3. PICK i \in 0 .. inner : i = w[2]
    BY <1>1
<1>4. CASE AdvanceOuter(o, outer, i, inner)
  <2>1. o < outer
    <3>1. o < outer \/ i = inner
        BY <1>4 DEF AdvanceOuter
    <3> QED
        BY <1>1, <1>2, <1>3, <3>1
  <2>2. Stepped(outer, inner, w) = <<o + 1, i>>
      BY <1>2, <1>3, <1>4 DEF Stepped
  <2>3. Standing(outer, inner, n + 1, <<o + 1, i>>)
      BY <1>1, <1>2, <1>3, <2>1 DEF Standing
  <2> QED
      BY <1>2, <1>3, <2>2, <2>3
<1>5. CASE ~AdvanceOuter(o, outer, i, inner)
  <2>1. i < inner
      BY <1>5 DEF AdvanceOuter
  <2>2. Stepped(outer, inner, w) = <<o, i + 1>>
      BY <1>2, <1>3, <1>5 DEF Stepped
  <2>3. Standing(outer, inner, n + 1, <<o, i + 1>>)
      BY <1>1, <1>2, <1>3, <2>1 DEF Standing
  <2> QED
      BY <1>2, <1>3, <2>2, <2>3
<1> QED
    BY <1>4, <1>5

\* A walk goes from the start of both to the end of both, by one each step.
LEMMA WalkIs ==
  ASSUME NEW outer \in Nat, NEW inner \in Nat
  PROVE  /\ Walk(outer, inner)[0] = <<0, 0>>
         /\ Walk(outer, inner)[outer + inner] = <<outer, inner>>
         /\ \A n \in 0 .. outer + inner : Standing(outer, inner, n, Walk(outer, inner)[n])
         /\ \A n \in 1 .. outer + inner :
              \/ Walk(outer, inner)[n] = <<Walk(outer, inner)[n - 1][1] + 1, Walk(outer, inner)[n - 1][2]>>
              \/ Walk(outer, inner)[n] = <<Walk(outer, inner)[n - 1][1], Walk(outer, inner)[n - 1][2] + 1>>
<1> DEFINE N == outer + inner
           g == Walk(outer, inner)
           P == {n \in 0 .. N : Standing(outer, inner, n, g[n])}
<1>1. N \in Nat
    OBVIOUS
<1>2. g[0] = <<0, 0>> /\ \A n \in 1 .. N : g[n] = Stepped(outer, inner, g[n - 1])
    BY WalkSteps
<1> HIDE DEF g
<1>3. 0 \in P
  <2>1. Standing(outer, inner, 0, <<0, 0>>)
      BY DEF Standing
  <2> QED
      BY <1>1, <1>2, <2>1
<1>4. ASSUME NEW n \in 0 .. N, Standing(outer, inner, n, g[n]), n < N
      PROVE  /\ Standing(outer, inner, n + 1, g[n + 1])
             /\ g[n + 1] = <<g[n][1] + 1, g[n][2]>> \/ g[n + 1] = <<g[n][1], g[n][2] + 1>>
  <2>1. n \in 0 .. N - 1 /\ n + 1 \in 1 .. N /\ (n + 1) - 1 = n
      BY <1>1, <1>4
  <2>2. g[n + 1] = Stepped(outer, inner, g[n])
    <3>1. g[n + 1] = Stepped(outer, inner, g[(n + 1) - 1])
        BY <1>2, <2>1
    <3> QED
        BY <2>1, <3>1
  <2>3. PICK w : w = g[n]
      OBVIOUS
  <2>4. Standing(outer, inner, n, w) /\ n \in 0 .. (outer + inner) - 1
      BY <1>4, <2>1, <2>3
  <2>5. /\ Standing(outer, inner, n + 1, Stepped(outer, inner, w))
        /\ \/ Stepped(outer, inner, w) = <<w[1] + 1, w[2]>>
           \/ Stepped(outer, inner, w) = <<w[1], w[2] + 1>>
      BY <2>4, SteppedIs
  <2> QED
      BY <2>2, <2>3, <2>5
<1>5. P = 0 .. N
  <2>1. \A n \in P : n < N => n + 1 \in P
    <3>1. ASSUME NEW n \in P, n < N PROVE n + 1 \in P
      <4>1. n \in 0 .. N /\ Standing(outer, inner, n, g[n])
          OBVIOUS
      <4>2. Standing(outer, inner, n + 1, g[n + 1]) /\ n + 1 \in 0 .. N
          BY <1>1, <1>4, <3>1, <4>1
      <4> QED
          BY <4>2
    <3> QED
        BY <3>1
  <2>2. P \in SUBSET (0 .. N)
      OBVIOUS
  <2> HIDE DEF P, N
  <2> QED
      BY <1>1, <1>3, <2>1, <2>2, CountsUp
<1>6. \A n \in 0 .. N : Standing(outer, inner, n, g[n])
  <2>1. \A n \in 0 .. N : n \in P
    <3> HIDE DEF P
    <3> QED
        BY <1>5
  <2> QED
      BY <2>1
<1>7. ASSUME NEW n \in 1 .. N
      PROVE  g[n] = <<g[n - 1][1] + 1, g[n - 1][2]>> \/ g[n] = <<g[n - 1][1], g[n - 1][2] + 1>>
  <2>1. n - 1 \in 0 .. N /\ n - 1 < N /\ (n - 1) + 1 = n
      BY <1>1, <1>7
  <2>2. Standing(outer, inner, n - 1, g[n - 1])
      BY <1>6, <2>1
  <2>3. g[(n - 1) + 1] = <<g[n - 1][1] + 1, g[n - 1][2]>> \/ g[(n - 1) + 1] = <<g[n - 1][1], g[n - 1][2] + 1>>
      BY <1>4, <2>1, <2>2
  <2> QED
      BY <2>1, <2>3
<1>8. g[N] = <<outer, inner>>
  <2>1. Standing(outer, inner, N, g[N])
      BY <1>1, <1>6
  <2>2. PICK o \in 0 .. outer : o = g[N][1]
      BY <2>1 DEF Standing
  <2>3. PICK i \in 0 .. inner : i = g[N][2]
      BY <2>1 DEF Standing
  <2>4. o + i = outer + inner
      BY <2>1, <2>2, <2>3 DEF Standing
  <2>5. o = outer /\ i = inner
      BY <2>4
  <2> QED
      BY <2>1, <2>2, <2>3, <2>5 DEF Standing
<1> QED
    BY <1>2, <1>6, <1>7, <1>8 DEF g

\* Where in the grid the run that faces a side is at its sample k.
FacingColumn(rate, side, k) ==
    CASE side = 1 -> k [] side = 2 -> Span(rate) - 1 [] side = 3 -> Span(rate) - 1 - k [] side = 4 -> 0
FacingRow(rate, side, k) ==
    CASE side = 1 -> 0 [] side = 2 -> k [] side = 3 -> Span(rate) - 1 [] side = 4 -> Span(rate) - 1 - k

\* What faces a side is the border of the grid there.
LEMMA FacingIs ==
  ASSUME NEW rate \in [1 .. 4 -> Rates], 2 =< InnerRate(rate),
         NEW side \in 1 .. 4, NEW k \in 0 .. Span(rate) - 1
  PROVE  /\ FacingColumn(rate, side, k) \in 0 .. Span(rate) - 1
         /\ FacingRow(rate, side, k) \in 0 .. Span(rate) - 1
         /\ Facing(rate, side, k) = Inside(rate, FacingColumn(rate, side, k), FacingRow(rate, side, k))
         /\ Facing(rate, side, k) \in Nat
         /\ BoundarySamples(rate) < Facing(rate, side, k)
         /\ Facing(rate, side, k) =< BoundarySamples(rate) + Span(rate) * Span(rate)
<1>1. PICK w \in Nat : w = Span(rate)
    BY GridIs
<1>2. InnerRate(rate) - 2 = w - 1 /\ 1 =< w
    BY <1>1, GridIs
<1>3. side \in {1, 2, 3, 4}
    OBVIOUS
<1>4. /\ FacingColumn(rate, side, k) \in 0 .. w - 1 /\ FacingRow(rate, side, k) \in 0 .. w - 1
    BY <1>1, <1>2, <1>3 DEF FacingColumn, FacingRow
<1>5. Facing(rate, side, k) = Inside(rate, FacingColumn(rate, side, k), FacingRow(rate, side, k))
    BY <1>1, <1>2, <1>3 DEF Facing, FacingColumn, FacingRow
<1> QED
    BY <1>1, <1>4, <1>5, InsideIs

\* No sample faces a side twice.
LEMMA FacingApart ==
  ASSUME NEW rate \in [1 .. 4 -> Rates], 2 =< InnerRate(rate),
         NEW side \in 1 .. 4, NEW k \in 0 .. Span(rate) - 1, NEW n \in 0 .. Span(rate) - 1,
         Facing(rate, side, k) = Facing(rate, side, n)
  PROVE  k = n
<1>1. PICK w \in Nat : w = Span(rate)
    BY GridIs
<1> DEFINE i == FacingColumn(rate, side, k)
           j == FacingRow(rate, side, k)
           p == FacingColumn(rate, side, n)
           q == FacingRow(rate, side, n)
<1>2. /\ i \in 0 .. Span(rate) - 1 /\ j \in 0 .. Span(rate) - 1
      /\ p \in 0 .. Span(rate) - 1 /\ q \in 0 .. Span(rate) - 1
      /\ Inside(rate, i, j) = Inside(rate, p, q)
  <2>1. /\ i \in 0 .. Span(rate) - 1 /\ j \in 0 .. Span(rate) - 1
        /\ Facing(rate, side, k) = Inside(rate, i, j)
      BY FacingIs
  <2>2. /\ p \in 0 .. Span(rate) - 1 /\ q \in 0 .. Span(rate) - 1
        /\ Facing(rate, side, n) = Inside(rate, p, q)
      BY FacingIs
  <2> HIDE DEF i, j, p, q
  <2> QED
      BY <2>1, <2>2
<1>3. /\ side = 1 => i = k /\ p = n
      /\ side = 2 => j = k /\ q = n
      /\ side = 3 => i = w - 1 - k /\ p = w - 1 - n
      /\ side = 4 => j = w - 1 - k /\ q = w - 1 - n
    BY <1>1 DEF FacingColumn, FacingRow
<1> HIDE DEF i, j, p, q
<1>4. i = p /\ j = q
    BY <1>2, InsideApart
<1>5. side \in {1, 2, 3, 4} /\ k \in Nat /\ n \in Nat
    BY <1>1
<1> QED
    BY <1>1, <1>3, <1>4, <1>5

\* A step along a side is to another sample.
LEMMA BoundaryTurns ==
  ASSUME NEW rate \in [1 .. 4 -> Rates], NEW side \in 1 .. 4, NEW k \in 0 .. rate[side] - 1
  PROVE  /\ k \in 0 .. rate[side] /\ k + 1 \in 0 .. rate[side]
         /\ BoundaryAt(rate, side, k) # BoundaryAt(rate, side, k + 1)
<1>1. rate[side] \in Nat /\ k + 1 \in Nat /\ k \in 0 .. rate[side] /\ k + 1 \in 0 .. rate[side]
    BY StartsAre
<1>2. CASE k + 1 < rate[side]
  <2>1. k + 1 \in 0 .. rate[side] - 1 /\ k # k + 1
      BY <1>1, <1>2
  <2> QED
      BY <1>1, <2>1, BoundaryApart
<1>3. CASE k + 1 = rate[side]
  <2> DEFINE next == Following(side)
  <2>1. next \in 1 .. 4 /\ next # side
      BY DEF Following
  <2>2. 0 \in 0 .. rate[next] - 1
      BY <2>1, StartsAre
  <2>3. BoundaryAt(rate, side, k + 1) = BoundaryAt(rate, next, 0)
      BY <1>1, <1>3, BoundaryAtIs
  <2> HIDE DEF next
  <2> QED
      BY <1>1, <2>1, <2>2, <2>3, BoundaryApart
<1> QED
    BY <1>1, <1>2, <1>3

\* What a step of the stitching adds: one triangle, on the side or on the run.
OutwardTriangle(rate, side, o, i) ==
    <<BoundaryAt(rate, side, o), BoundaryAt(rate, side, o + 1), Facing(rate, side, i)>>
InwardTriangle(rate, side, o, i) ==
    <<BoundaryAt(rate, side, o), Facing(rate, side, i + 1), Facing(rate, side, i)>>

\* A step makes the triangle it is meant to make.
LEMMA StitchTriangleIs ==
  ASSUME NEW rate \in [1 .. 4 -> Rates], 2 =< InnerRate(rate), NEW side \in 1 .. 4,
         NEW o \in 0 .. rate[side], NEW i \in 0 .. Span(rate) - 1
  PROVE  /\ o < rate[side] => StitchTriangle(rate, side, <<o, i>>, <<o + 1, i>>)
                                = <<OutwardTriangle(rate, side, o, i)>>
         /\ i < Span(rate) - 1 => StitchTriangle(rate, side, <<o, i>>, <<o, i + 1>>)
                                    = <<InwardTriangle(rate, side, o, i)>>
<1>1. PICK w \in Nat : w = Span(rate)
    BY GridIs
<1>2. /\ BoundaryAt(rate, side, o) \in Nat /\ BoundaryAt(rate, side, o) =< BoundarySamples(rate)
      /\ BoundarySamples(rate) \in Nat /\ rate[side] \in Nat
    BY BoundaryAtIs, StartsAre
<1>3. /\ Facing(rate, side, i) \in Nat /\ BoundarySamples(rate) < Facing(rate, side, i)
    BY FacingIs
<1>4. ASSUME o < rate[side]
      PROVE  StitchTriangle(rate, side, <<o, i>>, <<o + 1, i>>) = <<OutwardTriangle(rate, side, o, i)>>
  <2> DEFINE a == BoundaryAt(rate, side, o)
             b == BoundaryAt(rate, side, o + 1)
             c == Facing(rate, side, i)
  <2>1. o \in 0 .. rate[side] - 1 /\ o + 1 \in 0 .. rate[side]
      BY <1>2, <1>4
  <2>2. a # b
      BY <2>1, BoundaryTurns
  <2>3. b \in Nat /\ b =< BoundarySamples(rate)
      BY <1>2, <2>1, BoundaryAtIs
  <2>4. a # c /\ b # c
      BY <1>2, <1>3, <2>3
  <2>5. StitchTriangle(rate, side, <<o, i>>, <<o + 1, i>>) = AddTriangle(a, b, c)
      BY DEF StitchTriangle
  <2> HIDE DEF a, b, c
  <2>6. AddTriangle(a, b, c) = <<<<a, b, c>>>>
      BY <2>2, <2>4 DEF AddTriangle
  <2> QED
      BY <2>5, <2>6 DEF OutwardTriangle, a, b, c
<1>5. ASSUME i < Span(rate) - 1
      PROVE  StitchTriangle(rate, side, <<o, i>>, <<o, i + 1>>) = <<InwardTriangle(rate, side, o, i)>>
  <2> DEFINE a == BoundaryAt(rate, side, o)
             b == Facing(rate, side, i + 1)
             c == Facing(rate, side, i)
  <2>1. i + 1 \in 0 .. Span(rate) - 1 /\ i # i + 1
      BY <1>1, <1>5
  <2>2. b # c
      BY <2>1, FacingApart
  <2>3. b \in Nat /\ BoundarySamples(rate) < b
      BY <2>1, FacingIs
  <2>4. a # c /\ b # a
      BY <1>2, <1>3, <2>3
  <2>5. StitchTriangle(rate, side, <<o, i>>, <<o, i + 1>>) = AddTriangle(a, b, c)
      BY <2>1 DEF StitchTriangle
  <2> HIDE DEF a, b, c
  <2>6. AddTriangle(a, b, c) = <<<<a, b, c>>>>
      BY <2>2, <2>4 DEF AddTriangle
  <2> QED
      BY <2>5, <2>6 DEF InwardTriangle, a, b, c
<1> QED
    BY <1>4, <1>5

\* The walk of a side, and the triangle each of its steps makes.
Outing(rate, side) == Walk(rate[side], Span(rate) - 1)
LastStep(rate, side) == rate[side] + (Span(rate) - 1)

\* The stitching of a side is a triangle for each step of its walk.
LEMMA StitchIs ==
  ASSUME NEW rate \in [1 .. 4 -> Rates], 2 =< InnerRate(rate), NEW side \in 1 .. 4
  PROVE  /\ LastStep(rate, side) \in Nat
         /\ Stitch(rate, side) = Concat([n \in 1 .. LastStep(rate, side) |->
                StitchTriangle(rate, side, Outing(rate, side)[n - 1], Outing(rate, side)[n])])
         /\ \A n \in 1 .. LastStep(rate, side) :
              \E o \in 0 .. rate[side], i \in 0 .. Span(rate) - 1 :
                /\ Outing(rate, side)[n - 1] = <<o, i>> /\ o + i = n - 1
                /\ \/ /\ o < rate[side] /\ Outing(rate, side)[n] = <<o + 1, i>>
                      /\ StitchTriangle(rate, side, Outing(rate, side)[n - 1], Outing(rate, side)[n])
                           = <<OutwardTriangle(rate, side, o, i)>>
                   \/ /\ i < Span(rate) - 1 /\ Outing(rate, side)[n] = <<o, i + 1>>
                      /\ StitchTriangle(rate, side, Outing(rate, side)[n - 1], Outing(rate, side)[n])
                           = <<InwardTriangle(rate, side, o, i)>>
<1>1. /\ rate[side] \in Nat /\ Span(rate) - 1 \in Nat /\ InnerRate(rate) \in Nat
      /\ InnerRate(rate) = Span(rate) + 1 /\ Span(rate) \in Nat
  <2>1. rate[side] \in Nat
      BY StartsAre
  <2>2. InnerRate(rate) \in Nat /\ Span(rate) \in Nat /\ 1 =< Span(rate) /\ InnerRate(rate) = Span(rate) + 1
      BY GridIs
  <2> QED
      BY <2>1, <2>2
<1>2. PICK outer \in Nat : outer = rate[side]
    BY <1>1
<1>3. PICK inner \in Nat : inner = Span(rate) - 1
    BY <1>1
<1>4. LastStep(rate, side) = outer + inner /\ rate[side] + InnerRate(rate) - 2 = outer + inner
      /\ InnerRate(rate) - 2 = inner
    BY <1>1, <1>2, <1>3 DEF LastStep
<1> DEFINE g == Outing(rate, side)
           triangle(n) == StitchTriangle(rate, side, g[n - 1], g[n])
<1>5. g = Walk(outer, inner)
    BY <1>2, <1>3 DEF Outing
<1>6. Stitch(rate, side) = Concat([n \in 1 .. outer + inner |-> triangle(n)])
  <2>1. g = Walk(rate[side], InnerRate(rate) - 2)
      BY <1>2, <1>4, <1>5
  <2> QED
      BY <1>4, <2>1 DEF Stitch
<1> HIDE DEF g
<1>7. ASSUME NEW n \in 1 .. outer + inner
      PROVE  \E o \in 0 .. outer, i \in 0 .. inner :
                /\ g[n - 1] = <<o, i>> /\ o + i = n - 1
                /\ \/ /\ o < outer /\ g[n] = <<o + 1, i>>
                      /\ triangle(n) = <<OutwardTriangle(rate, side, o, i)>>
                   \/ /\ i < inner /\ g[n] = <<o, i + 1>>
                      /\ triangle(n) = <<InwardTriangle(rate, side, o, i)>>
  <2>1. n - 1 \in 0 .. outer + inner /\ n \in 0 .. outer + inner
      BY <1>7
  <2>2. Standing(outer, inner, n - 1, g[n - 1]) /\ Standing(outer, inner, n, g[n])
      BY <1>5, <2>1, WalkIs
  <2>3. PICK o \in 0 .. outer : o = g[n - 1][1]
      BY <2>2 DEF Standing
  <2>4. PICK i \in 0 .. inner : i = g[n - 1][2]
      BY <2>2 DEF Standing
  <2>5. g[n - 1] = <<o, i>> /\ o + i = n - 1
      BY <2>2, <2>3, <2>4 DEF Standing
  <2>6. g[n] = <<o + 1, i>> \/ g[n] = <<o, i + 1>>
      BY <1>5, <2>3, <2>4, WalkIs
  <2>7. o \in 0 .. rate[side] /\ i \in 0 .. Span(rate) - 1
      BY <1>2, <1>3
  <2>8. CASE g[n] = <<o + 1, i>>
    <3>1. o < outer
        BY <2>2, <2>8 DEF Standing
    <3>2. StitchTriangle(rate, side, <<o, i>>, <<o + 1, i>>) = <<OutwardTriangle(rate, side, o, i)>>
        BY <1>2, <2>7, <3>1, StitchTriangleIs
    <3>3. triangle(n) = <<OutwardTriangle(rate, side, o, i)>>
        BY <2>5, <2>8, <3>2
    <3> QED
        BY <2>5, <2>8, <3>1, <3>3
  <2>9. CASE g[n] = <<o, i + 1>>
    <3>1. i < inner
        BY <2>2, <2>9 DEF Standing
    <3>2. StitchTriangle(rate, side, <<o, i>>, <<o, i + 1>>) = <<InwardTriangle(rate, side, o, i)>>
        BY <1>3, <2>7, <3>1, StitchTriangleIs
    <3>3. triangle(n) = <<InwardTriangle(rate, side, o, i)>>
        BY <2>5, <2>9, <3>2
    <3> QED
        BY <2>5, <2>9, <3>1, <3>3
  <2> QED
      BY <2>6, <2>8, <2>9
<1>8. LastStep(rate, side) \in Nat
    BY <1>4
<1>9. Stitch(rate, side) = Concat([n \in 1 .. LastStep(rate, side) |->
                StitchTriangle(rate, side, Outing(rate, side)[n - 1], Outing(rate, side)[n])])
    BY <1>4, <1>6 DEF g
<1>10. \A n \in 1 .. LastStep(rate, side) :
          \E o \in 0 .. rate[side], i \in 0 .. Span(rate) - 1 :
                /\ g[n - 1] = <<o, i>> /\ o + i = n - 1
                /\ \/ /\ o < rate[side] /\ g[n] = <<o + 1, i>>
                      /\ triangle(n) = <<OutwardTriangle(rate, side, o, i)>>
                   \/ /\ i < Span(rate) - 1 /\ g[n] = <<o, i + 1>>
                      /\ triangle(n) = <<InwardTriangle(rate, side, o, i)>>
  <2> HIDE DEF triangle
  <2>1. LastStep(rate, side) = outer + inner
      BY <1>4
  <2>2. ASSUME NEW n \in 1 .. LastStep(rate, side)
        PROVE  \E o \in 0 .. rate[side], i \in 0 .. Span(rate) - 1 :
                /\ g[n - 1] = <<o, i>> /\ o + i = n - 1
                /\ \/ /\ o < rate[side] /\ g[n] = <<o + 1, i>>
                      /\ triangle(n) = <<OutwardTriangle(rate, side, o, i)>>
                   \/ /\ i < Span(rate) - 1 /\ g[n] = <<o, i + 1>>
                      /\ triangle(n) = <<InwardTriangle(rate, side, o, i)>>
    <3>1. n \in 1 .. outer + inner
        BY <2>1
    <3>2. 0 .. outer = 0 .. rate[side] /\ 0 .. inner = 0 .. Span(rate) - 1
        BY <1>2, <1>3
    <3>3. PICK o \in 0 .. outer, i \in 0 .. inner :
                /\ g[n - 1] = <<o, i>> /\ o + i = n - 1
                /\ \/ /\ o < outer /\ g[n] = <<o + 1, i>>
                      /\ triangle(n) = <<OutwardTriangle(rate, side, o, i)>>
                   \/ /\ i < inner /\ g[n] = <<o, i + 1>>
                      /\ triangle(n) = <<InwardTriangle(rate, side, o, i)>>
        BY <1>7, <3>1
    <3>4. o \in 0 .. rate[side] /\ i \in 0 .. Span(rate) - 1
        BY <3>2
    <3>5. (o < outer <=> o < rate[side]) /\ (i < inner <=> i < Span(rate) - 1)
        BY <1>2, <1>3
    <3> QED
        BY <3>3, <3>4, <3>5, Zenon
  <2> QED
      BY <2>2
<1> QED
    BY <1>8, <1>9, <1>10 DEF g

\* The two triangles of a cell of the grid.
LowTriangle(rate, i, j) == <<Inside(rate, i, j), Inside(rate, i + 1, j), Inside(rate, i + 1, j + 1)>>
HighTriangle(rate, i, j) == <<Inside(rate, i, j), Inside(rate, i + 1, j + 1), Inside(rate, i, j + 1)>>

\* A cell of the grid is two triangles.
LEMMA CellIs ==
  ASSUME NEW rate \in [1 .. 4 -> Rates], 2 =< InnerRate(rate),
         NEW i \in 0 .. Span(rate) - 2, NEW j \in 0 .. Span(rate) - 2
  PROVE  Cell(rate, i, j) = <<LowTriangle(rate, i, j)>> \o <<HighTriangle(rate, i, j)>>
<1>1. PICK w \in Nat : w = Span(rate)
    BY GridIs
<1>2. /\ i \in 0 .. Span(rate) - 1 /\ i + 1 \in 0 .. Span(rate) - 1 /\ i # i + 1
      /\ j \in 0 .. Span(rate) - 1 /\ j + 1 \in 0 .. Span(rate) - 1 /\ j # j + 1
    BY <1>1
<1> DEFINE a == Inside(rate, i, j)
           b == Inside(rate, i + 1, j)
           c == Inside(rate, i + 1, j + 1)
           d == Inside(rate, i, j + 1)
<1>3. a # b
    BY <1>2, InsideApart
<1>4. b # c
    BY <1>2, InsideApart
<1>5. a # c
    BY <1>2, InsideApart
<1>6. c # d
    BY <1>2, InsideApart
<1>7. a # d
    BY <1>2, InsideApart
<1>8. Cell(rate, i, j) = AddTriangle(a, b, c) \o AddTriangle(a, c, d)
    BY DEF Cell
<1> HIDE DEF a, b, c, d
<1>9. AddTriangle(a, b, c) = <<<<a, b, c>>>> /\ AddTriangle(a, c, d) = <<<<a, c, d>>>>
    BY <1>3, <1>4, <1>5, <1>6, <1>7 DEF AddTriangle
<1> QED
    BY <1>8, <1>9 DEF LowTriangle, HighTriangle, a, b, c, d

\* Parts of one length are, joined, that many times as long as there are parts.
LEMMA ConcatIsLong ==
  ASSUME NEW parts, Parts(parts), NEW b \in Nat, \A k \in 1 .. Len(parts) : Len(parts[k]) = b
  PROVE  Len(Concat(parts)) = Len(parts) * b
<1>1. PICK n \in Nat : n = Len(parts)
    BY DEF Parts, IsSeq
<1>2. \A i \in 1 .. n : IsSeq(parts[i]) /\ Len(parts[i]) = b
    BY <1>1 DEF Parts
<1>3. \A k \in 0 .. n : /\ IsSeq(FirstParts(parts, k)) /\ (k = 0 => FirstParts(parts, k) = <<>>)
                        /\ (k < n => FirstParts(parts, k + 1) = FirstParts(parts, k) \o parts[k + 1])
    BY <1>2, FirstPartsAre
<1> DEFINE P == {k \in 0 .. n : Len(FirstParts(parts, k)) = k * b}
<1>4. P = 0 .. n
  <2>1. 0 \in P
    <3>1. Len(FirstParts(parts, 0)) = 0
        BY <1>3, Empty
    <3> QED
        BY <3>1
  <2>2. ASSUME NEW k \in P, k < n PROVE k + 1 \in P
    <3>1. k \in 0 .. n /\ k + 1 \in 1 .. n /\ k + 1 \in 0 .. n /\ k \in Nat
        BY <2>2
    <3>2. IsSeq(FirstParts(parts, k)) /\ IsSeq(parts[k + 1]) /\ FirstParts(parts, k + 1) = FirstParts(parts, k) \o parts[k + 1]
        BY <1>2, <1>3, <2>2, <3>1
    <3>3. Len(FirstParts(parts, k + 1)) = Len(FirstParts(parts, k)) + Len(parts[k + 1])
        BY <3>2, Joined
    <3>4. Len(FirstParts(parts, k)) = k * b /\ Len(parts[k + 1]) = b
        BY <1>2, <3>1
    <3>5. (k + 1) * b = k * b + b
        BY <3>1
    <3>6. Len(FirstParts(parts, k + 1)) = (k + 1) * b
        BY <3>3, <3>4, <3>5
    <3> QED
        BY <3>1, <3>6
  <2>3. P \in SUBSET (0 .. n)
      OBVIOUS
  <2> HIDE DEF P
  <2> QED
      BY <2>1, <2>2, <2>3, CountsUp
<1>5. n \in P
  <2> HIDE DEF P
  <2> QED
      BY <1>4
<1>6. IsSeq(parts) /\ n \in 0 .. n
    BY DEF Parts
<1> QED
    BY <1>1, <1>5, <1>6, ConcatIsFirst

\* A list of n lists, given one by one.
LEMMA PartsIs ==
  ASSUME NEW n \in Nat, NEW parts, parts = [k \in 1 .. n |-> parts[k]],
         \A k \in 1 .. n : IsSeq(parts[k])
  PROVE  Parts(parts) /\ Len(parts) = n
BY ListIsSeq DEF Parts

\* The grid's triangles are its cells'.
LEMMA GridTrianglesAre ==
  ASSUME NEW rate \in [1 .. 4 -> Rates], 2 =< InnerRate(rate)
  PROVE  /\ IsSeq(GridTriangles(rate))
         /\ Len(GridTriangles(rate)) = 2 * ((Span(rate) - 1) * (Span(rate) - 1))
         /\ \A t : t \in Range(GridTriangles(rate)) <=>
                \E i \in 0 .. Span(rate) - 2, j \in 0 .. Span(rate) - 2 :
                    t = LowTriangle(rate, i, j) \/ t = HighTriangle(rate, i, j)
<1>1. Span(rate) \in Nat /\ 1 =< Span(rate) /\ InnerRate(rate) \in Nat /\ InnerRate(rate) = Span(rate) + 1
    BY GridIs
<1>2. PICK m \in Nat : m = Span(rate) - 1
    BY <1>1
<1>3. InnerRate(rate) - 2 = m /\ Span(rate) - 2 = m - 1
    BY <1>1, <1>2
<1> DEFINE cell(n) == Cell(rate, (n - 1) % m, (n - 1) \div m)
           N == m * m
           parts == [n \in 1 .. N |-> cell(n)]
<1>4. N \in Nat
    OBVIOUS
<1>5. GridTriangles(rate) = Concat(parts)
    BY <1>3 DEF GridTriangles
<1>6. ASSUME NEW i \in 0 .. m - 1, NEW j \in 0 .. m - 1
      PROVE  /\ IsSeq(Cell(rate, i, j)) /\ Len(Cell(rate, i, j)) = 2
             /\ Range(Cell(rate, i, j)) = {LowTriangle(rate, i, j), HighTriangle(rate, i, j)}
  <2>1. Cell(rate, i, j) = <<LowTriangle(rate, i, j)>> \o <<HighTriangle(rate, i, j)>>
      BY <1>3, CellIs
  <2> DEFINE s == <<LowTriangle(rate, i, j)>>
             t == <<HighTriangle(rate, i, j)>>
  <2>2. IsSeq(s) /\ IsSeq(t) /\ Len(s) = 1 /\ Len(t) = 1 /\ Range(s) = {LowTriangle(rate, i, j)} /\ Range(t) = {HighTriangle(rate, i, j)}
      BY One
  <2>3. Cell(rate, i, j) = s \o t
      BY <2>1
  <2> HIDE DEF s, t
  <2>4. IsSeq(s \o t) /\ Len(s \o t) = Len(s) + Len(t) /\ Range(s \o t) = Range(s) \union Range(t)
      BY <2>2, Joined
  <2> QED
      BY <2>2, <2>3, <2>4
<1>7. ASSUME NEW n \in 1 .. N
      PROVE  (n - 1) % m \in 0 .. m - 1 /\ (n - 1) \div m \in 0 .. m - 1
  <2>1. ((n - 1) % m) + 1 \in 1 .. m /\ ((n - 1) \div m) + 1 \in 1 .. m /\ m > 0
      BY InRows
  <2>2. (n - 1) % m \in Int /\ (n - 1) \div m \in Int
      BY <2>1
  <2> QED
      BY <2>1, <2>2
<1>8. ASSUME NEW i \in 0 .. m - 1, NEW j \in 0 .. m - 1
      PROVE  \E n \in 1 .. N : (n - 1) % m = i /\ (n - 1) \div m = j
  <2> DEFINE n == ((j + 1) - 1) * m + (i + 1)
  <2>1. i + 1 \in 1 .. m /\ j + 1 \in 1 .. m /\ m > 0
      BY <1>8
  <2>2. n \in 1 .. m * m /\ ((n - 1) % m) + 1 = i + 1 /\ ((n - 1) \div m) + 1 = j + 1
      BY <2>1, RowsApart
  <2> HIDE DEF n
  <2>3. (n - 1) % m \in Int /\ (n - 1) \div m \in Int
      BY <2>1, <2>2
  <2> QED
      BY <2>1, <2>2, <2>3
<1> HIDE DEF N, cell
<1>9. parts = [n \in 1 .. N |-> parts[n]] /\ \A n \in 1 .. N : parts[n] = cell(n)
    OBVIOUS
<1> HIDE DEF parts
<1>10. \A n \in 1 .. N : IsSeq(parts[n]) /\ Len(parts[n]) = 2
    BY <1>6, <1>7, <1>9 DEF cell
<1>11. Parts(parts) /\ Len(parts) = N
    BY <1>4, <1>9, <1>10, PartsIs
<1>12. /\ IsSeq(Concat(parts))
       /\ Range(Concat(parts)) = UNION {Range(parts[n]) : n \in 1 .. N}
    BY <1>11, ConcatIs
<1>13. Len(Concat(parts)) = N * 2
    BY <1>10, <1>11, ConcatIsLong
<1>14. Len(GridTriangles(rate)) = 2 * ((Span(rate) - 1) * (Span(rate) - 1))
    BY <1>2, <1>4, <1>5, <1>13 DEF N
<1>15. ASSUME NEW t, t \in Range(Concat(parts))
       PROVE \E i \in 0 .. m - 1, j \in 0 .. m - 1 : t = LowTriangle(rate, i, j) \/ t = HighTriangle(rate, i, j)
  <2>1. PICK n \in 1 .. N : t \in Range(parts[n])
      BY <1>12, <1>15
  <2>2. t \in Range(Cell(rate, (n - 1) % m, (n - 1) \div m))
      BY <1>9, <2>1 DEF cell
  <2> QED
      BY <1>6, <1>7, <2>2
<1>16. ASSUME NEW t, NEW i \in 0 .. m - 1, NEW j \in 0 .. m - 1, t = LowTriangle(rate, i, j) \/ t = HighTriangle(rate, i, j)
       PROVE t \in Range(Concat(parts))
  <2>1. PICK n \in 1 .. N : (n - 1) % m = i /\ (n - 1) \div m = j
      BY <1>8
  <2>2. parts[n] = Cell(rate, i, j)
      BY <1>9, <2>1 DEF cell
  <2>3. t \in Range(parts[n])
      BY <1>6, <1>16, <2>2
  <2> QED
      BY <1>12, <2>3
<1> QED
    BY <1>2, <1>3, <1>5, <1>12, <1>14, <1>15, <1>16

\* A side's stitches are one triangle a step.
StepTriangle(rate, side, n) ==
    StitchTriangle(rate, side, Outing(rate, side)[n - 1], Outing(rate, side)[n])[1]

\* The stitches of a side, one by one.
LEMMA StitchesAre ==
  ASSUME NEW rate \in [1 .. 4 -> Rates], 2 =< InnerRate(rate), NEW side \in 1 .. 4
  PROVE  /\ IsSeq(Stitch(rate, side))
         /\ Len(Stitch(rate, side)) = LastStep(rate, side)
         /\ \A t : t \in Range(Stitch(rate, side)) <=>
                \E n \in 1 .. LastStep(rate, side) : t = StepTriangle(rate, side, n)
<1> DEFINE N == LastStep(rate, side)
           g == Outing(rate, side)
           part(n) == StitchTriangle(rate, side, g[n - 1], g[n])
           parts == [n \in 1 .. N |-> part(n)]
<1>1. N \in Nat /\ Stitch(rate, side) = Concat(parts)
    BY StitchIs
<1>2. ASSUME NEW n \in 1 .. N
      PROVE  part(n) = <<StepTriangle(rate, side, n)>>
  <2>1. PICK t : part(n) = <<t>>
      BY StitchIs
  <2>2. StepTriangle(rate, side, n) = t
      BY <2>1 DEF StepTriangle
  <2> QED
      BY <2>1, <2>2
<1> HIDE DEF N, part
<1>3. parts = [n \in 1 .. N |-> parts[n]] /\ \A n \in 1 .. N : parts[n] = part(n)
    OBVIOUS
<1> HIDE DEF parts
<1>4. \A n \in 1 .. N : IsSeq(parts[n]) /\ Len(parts[n]) = 1 /\ Range(parts[n]) = {StepTriangle(rate, side, n)}
    BY <1>2, <1>3, One
<1>5. Parts(parts) /\ Len(parts) = N
    BY <1>1, <1>3, <1>4, PartsIs
<1>6. /\ IsSeq(Concat(parts))
      /\ Range(Concat(parts)) = UNION {Range(parts[n]) : n \in 1 .. N}
    BY <1>5, ConcatIs
<1>7. Len(Concat(parts)) = N
  <2> DEFINE one == 1
  <2>1. one \in Nat /\ \A k \in 1 .. Len(parts) : Len(parts[k]) = one
      BY <1>4, <1>5
  <2>2. N * one = N
      BY <1>1
  <2> HIDE DEF one
  <2>3. Len(Concat(parts)) = Len(parts) * one
      BY <1>5, <2>1, ConcatIsLong
  <2> QED
      BY <1>5, <2>2, <2>3
<1>8. ASSUME NEW t
      PROVE  t \in Range(Concat(parts)) <=> \E n \in 1 .. N : t = StepTriangle(rate, side, n)
    BY <1>4, <1>6
<1> QED
    BY <1>1, <1>6, <1>7, <1>8 DEF N

\* Four parts joined.
LEMMA FourJoined ==
  ASSUME NEW parts, parts = [k \in 1 .. 4 |-> parts[k]], \A k \in 1 .. 4 : IsSeq(parts[k])
  PROVE  /\ IsSeq(Concat(parts))
         /\ Len(Concat(parts)) = Len(parts[1]) + Len(parts[2]) + Len(parts[3]) + Len(parts[4])
         /\ Concat(parts) = ((parts[1] \o parts[2]) \o parts[3]) \o parts[4]
         /\ \A x : x \in Range(Concat(parts)) <=> \E k \in 1 .. 4 : x \in Range(parts[k])
<1>1. 4 \in Nat /\ Parts(parts) /\ Len(parts) = 4
    BY PartsIs
<1>2. IsSeq(Concat(parts)) /\ Range(Concat(parts)) = UNION {Range(parts[k]) : k \in 1 .. 4}
    BY <1>1, ConcatIs
<1>3. Concat(parts) = FirstParts(parts, 4)
    BY <1>1, ConcatIsFirst DEF Parts
<1>4. \A k \in 0 .. 4 : /\ IsSeq(FirstParts(parts, k))
                        /\ k = 0 => FirstParts(parts, k) = <<>>
                        /\ k < 4 => FirstParts(parts, k + 1) = FirstParts(parts, k) \o parts[k + 1]
    BY <1>1, FirstPartsAre
<1>5. FirstParts(parts, 0) = <<>> /\ FirstParts(parts, 1) = <<>> \o parts[1]
  <2>1. FirstParts(parts, 0) = <<>>
      BY <1>4
  <2>2. FirstParts(parts, 0 + 1) = FirstParts(parts, 0) \o parts[0 + 1]
      BY <1>4
  <2>3. 0 + 1 = 1
      OBVIOUS
  <2> QED
      BY <2>1, <2>2, <2>3, Zenon
<1>6. FirstParts(parts, 2) = FirstParts(parts, 1) \o parts[2]
    BY <1>4
<1>7. FirstParts(parts, 3) = FirstParts(parts, 2) \o parts[3]
    BY <1>4
<1>8. FirstParts(parts, 4) = FirstParts(parts, 3) \o parts[4]
    BY <1>4
<1> DEFINE a == parts[1]
           b == parts[2]
           c == parts[3]
           d == parts[4]
<1>9. IsSeq(a) /\ IsSeq(b) /\ IsSeq(c) /\ IsSeq(d)
    OBVIOUS
<1>10. FirstParts(parts, 1) = a
  <2> HIDE DEF a
  <2>1. a \in Seq(Range(a))
      BY <1>9, IsSeqOfItsOwn
  <2>2. <<>> \o a = a
      BY <2>1
  <2> QED
      BY <1>5, <2>2 DEF a
<1>11. Concat(parts) = ((a \o b) \o c) \o d
    BY <1>3, <1>6, <1>7, <1>8, <1>10
<1>12. Len(Concat(parts)) = Len(a) + Len(b) + Len(c) + Len(d)
  <2> HIDE DEF a, b, c, d
  <2>1. IsSeq(a \o b) /\ Len(a \o b) = Len(a) + Len(b)
      BY <1>9, Joined
  <2>2. IsSeq((a \o b) \o c) /\ Len((a \o b) \o c) = Len(a \o b) + Len(c)
      BY <1>9, <2>1, Joined
  <2>3. Len(((a \o b) \o c) \o d) = Len((a \o b) \o c) + Len(d)
      BY <1>9, <2>2, Joined
  <2> QED
      BY <1>11, <2>1, <2>2, <2>3
<1>13. ASSUME NEW x PROVE x \in Range(Concat(parts)) <=> \E k \in 1 .. 4 : x \in Range(parts[k])
    BY <1>2
<1> QED
    BY <1>2, <1>11, <1>12, <1>13

\* The triangles of a quad cut finer than once.
LEMMA TrianglesAre ==
  ASSUME NEW rate \in [1 .. 4 -> Rates], 2 =< InnerRate(rate)
  PROVE  /\ TessellateQuad(rate).triangles
              = GridTriangles(rate) \o Concat([side \in 1 .. 4 |-> Stitch(rate, side)])
         /\ IsSeq(Concat([side \in 1 .. 4 |-> Stitch(rate, side)]))
         /\ IsSeq(TessellateQuad(rate).triangles)
         /\ Len(TessellateQuad(rate).triangles)
              = 2 * ((Span(rate) - 1) * (Span(rate) - 1))
                  + (LastStep(rate, 1) + LastStep(rate, 2) + LastStep(rate, 3) + LastStep(rate, 4))
         /\ \A t : t \in Range(TessellateQuad(rate).triangles) <=>
                \/ t \in Range(GridTriangles(rate))
                \/ \E side \in 1 .. 4 : t \in Range(Stitch(rate, side))
<1> DEFINE parts == [side \in 1 .. 4 |-> Stitch(rate, side)]
<1>1. TessellateQuad(rate).triangles = GridTriangles(rate) \o Concat(parts)
  <2>1. InnerRate(rate) \in Nat /\ ~(InnerRate(rate) < 2)
      BY GridIs
  <2> QED
      BY <2>1 DEF TessellateQuad
<1>2. \A side \in 1 .. 4 : IsSeq(Stitch(rate, side)) /\ Len(Stitch(rate, side)) = LastStep(rate, side)
    BY StitchesAre
<1>3. parts = [k \in 1 .. 4 |-> parts[k]] /\ \A k \in 1 .. 4 : parts[k] = Stitch(rate, k)
    OBVIOUS
<1> HIDE DEF parts
<1>4. \A k \in 1 .. 4 : IsSeq(parts[k])
    BY <1>2, <1>3
<1>5. /\ IsSeq(Concat(parts))
      /\ Len(Concat(parts)) = Len(parts[1]) + Len(parts[2]) + Len(parts[3]) + Len(parts[4])
      /\ \A x : x \in Range(Concat(parts)) <=> \E k \in 1 .. 4 : x \in Range(parts[k])
    BY <1>3, <1>4, FourJoined
<1>6. IsSeq(GridTriangles(rate)) /\ Len(GridTriangles(rate)) = 2 * ((Span(rate) - 1) * (Span(rate) - 1))
    BY GridTrianglesAre
<1> DEFINE s == GridTriangles(rate)
           t == Concat(parts)
<1>7. IsSeq(s \o t) /\ Len(s \o t) = Len(s) + Len(t) /\ Range(s \o t) = Range(s) \union Range(t)
  <2> HIDE DEF s, t
  <2> QED
      BY <1>5, <1>6, Joined DEF s, t
<1>8. Len(t) = LastStep(rate, 1) + LastStep(rate, 2) + LastStep(rate, 3) + LastStep(rate, 4)
    BY <1>2, <1>3, <1>5
<1> HIDE DEF s, t
<1>9. ASSUME NEW x PROVE x \in Range(t) <=> \E side \in 1 .. 4 : x \in Range(Stitch(rate, side))
    BY <1>3, <1>5 DEF t
<1> QED
    BY <1>1, <1>5, <1>6, <1>7, <1>8, <1>9 DEF s, t, parts

\* A triangle holds its three corners.
LEMMA Three ==
  ASSUME NEW a, NEW b, NEW c
  PROVE  Range(<<a, b, c>>) = {a, b, c}
BY DEF Range

\* Quads that are cut once a side.
LEMMA SinglesAre ==
  ASSUME NEW rate \in [1 .. 4 -> Rates], ~(2 =< InnerRate(rate))
  PROVE  /\ InnerRate(rate) = 1 /\ \A side \in 1 .. 4 : rate[side] = 1
         /\ BoundarySamples(rate) = 4
         /\ TessellateQuad(rate).samples = Boundary(rate)
         /\ TessellateQuad(rate).triangles = <<<<1, 2, 3>>, <<1, 3, 4>>>>
<1>1. InnerRate(rate) \in Nat /\ 0 < InnerRate(rate)
    BY InnerIs, RatesAre
<1>2. InnerRate(rate) = 1
    BY <1>1
<1>3. \A side \in 1 .. 4 : rate[side] = 1
  <2>1. ASSUME NEW side \in 1 .. 4 PROVE rate[side] = 1
    <3>1. rate[side] \in Nat /\ 1 =< rate[side] /\ rate[side] =< InnerRate(rate)
        BY InnerIs, StartsAre
    <3> QED
        BY <1>2, <3>1
  <2> QED
      BY <2>1
<1>4. BoundarySamples(rate) = 4
    BY <1>3 DEF BoundarySamples
<1> QED
    BY <1>2, <1>3, <1>4 DEF TessellateQuad

\* What the budget reckons a face at is never less than what it makes.
LEMMA EstimateCovers ==
  ASSUME NEW rate \in [1 .. 4 -> Rates]
  PROVE  /\ FaceEstimate(rate) \in Nat
         /\ IsSeq(TessellateQuad(rate).triangles)
         /\ Len(TessellateQuad(rate).triangles) \in Nat
         /\ 0 < Len(TessellateQuad(rate).triangles)
         /\ Len(TessellateQuad(rate).triangles) =< FaceEstimate(rate)
<1>1. PICK b \in Nat : b = BoundarySamples(rate) /\ 4 =< b
    BY StartsAre
<1>2. CASE ~(2 =< InnerRate(rate))
  <2>1. InnerRate(rate) = 1
      BY <1>2, SinglesAre
  <2>2. FaceEstimate(rate) = b
      BY <1>1, <2>1 DEF FaceEstimate, MostOf
  <2>3. IsSeq(<<<<1, 2, 3>>, <<1, 3, 4>>>>) /\ Len(<<<<1, 2, 3>>, <<1, 3, 4>>>>) = 2
      BY DEF IsSeq
  <2>4. TessellateQuad(rate).triangles = <<<<1, 2, 3>>, <<1, 3, 4>>>>
      BY <1>2, SinglesAre
  <2> QED
      BY <1>1, <2>2, <2>3, <2>4
<1>3. CASE 2 =< InnerRate(rate)
  <2>1. /\ Span(rate) \in Nat /\ 1 =< Span(rate) /\ InnerRate(rate) = Span(rate) + 1
      BY <1>3, GridIs
  <2>2. PICK m \in Nat : m = Span(rate) - 1
      BY <2>1
  <2>3. InnerRate(rate) = m + 2
      BY <2>1, <2>2
  <2>4. MostOf(InnerRate(rate) - 2, 0) = m
      BY <2>3 DEF MostOf
  <2>5. FaceEstimate(rate) = 2 * m * m + b + 4 * (m + 1)
      BY <1>1, <2>3, <2>4 DEF FaceEstimate
  <2>6. \A side \in 1 .. 4 : LastStep(rate, side) = rate[side] + m /\ rate[side] \in Nat
      BY <2>2, StartsAre DEF LastStep
  <2>7. LastStep(rate, 1) + LastStep(rate, 2) + LastStep(rate, 3) + LastStep(rate, 4) = b + 4 * m
    <3>1. b = rate[1] + rate[2] + rate[3] + rate[4]
        BY <1>1 DEF BoundarySamples
    <3> QED
        BY <2>6, <3>1
  <2>8. Len(TessellateQuad(rate).triangles) = 2 * (m * m) + (b + 4 * m)
      BY <1>3, <2>2, <2>7, TrianglesAre
  <2>9. PICK q \in Nat : q = m * m
      OBVIOUS
  <2>10. 2 * m * m = 2 * q
      BY <2>9
  <2>11. FaceEstimate(rate) = 2 * q + b + 4 * (m + 1) /\ Len(TessellateQuad(rate).triangles) = 2 * q + (b + 4 * m)
      BY <2>5, <2>8, <2>9, <2>10
  <2>12. IsSeq(TessellateQuad(rate).triangles)
      BY <1>3, TrianglesAre
  <2> QED
      BY <1>1, <2>11, <2>12
<1> QED
    BY <1>2, <1>3

\* Every sample of the boundary is one of a side's, its last left out.
LEMMA SomeSide ==
  ASSUME NEW rate \in [1 .. 4 -> Rates], NEW b \in 1 .. BoundarySamples(rate)
  PROVE  \E s \in 1 .. 4 : \E k \in 0 .. rate[s] - 1 : b = BoundaryAt(rate, s, k)
<1>1. \A s \in 1 .. 4 : /\ rate[s] \in Nat /\ RunEnd(rate, s - 1) \in Nat /\ RunEnd(rate, s) \in Nat
                        /\ RunEnd(rate, s) = RunEnd(rate, s - 1) + rate[s]
    BY StartsAre
<1>2. RunEnd(rate, 0) = 0 /\ RunEnd(rate, 4) = BoundarySamples(rate) /\ BoundarySamples(rate) \in Nat
    BY StartsAre
<1>3. \E s \in 1 .. 4 : RunEnd(rate, s - 1) < b /\ b =< RunEnd(rate, s)
  <2> DEFINE e(s) == RunEnd(rate, s)
  <2>1. e(1) \in Nat /\ e(2) \in Nat /\ e(3) \in Nat /\ e(4) \in Nat /\ e(0) = 0
      BY <1>1, <1>2
  <2>2. 1 - 1 = 0 /\ 2 - 1 = 1 /\ 3 - 1 = 2 /\ 4 - 1 = 3
      OBVIOUS
  <2>3. 0 < b /\ b =< e(4)
      BY <1>2
  <2> HIDE DEF e
  <2>4. \/ (e(1 - 1) < b /\ b =< e(1)) \/ (e(2 - 1) < b /\ b =< e(2))
        \/ (e(3 - 1) < b /\ b =< e(3)) \/ (e(4 - 1) < b /\ b =< e(4))
      BY <1>2, <2>1, <2>2, <2>3
  <2>5. 1 \in 1 .. 4 /\ 2 \in 1 .. 4 /\ 3 \in 1 .. 4 /\ 4 \in 1 .. 4
      OBVIOUS
  <2>6. \E s \in 1 .. 4 : e(s - 1) < b /\ b =< e(s)
      BY <2>4, <2>5, Zenon
  <2> QED
      BY <2>6 DEF e
<1>4. PICK s \in 1 .. 4 : RunEnd(rate, s - 1) < b /\ b =< RunEnd(rate, s)
    BY <1>3
<1>5. PICK a \in Nat : a = RunEnd(rate, s - 1)
    BY <1>1
<1>6. PICK r \in Nat : r = rate[s]
    BY <1>1
<1>7. a < b /\ b =< a + r
    BY <1>1, <1>4, <1>5, <1>6
<1> DEFINE k == b - a - 1
<1>8. k \in 0 .. rate[s] - 1 /\ k \in 0 .. rate[s] /\ k < rate[s] /\ a + 1 + k = b
    BY <1>6, <1>7
<1> HIDE DEF k
<1>9. BoundaryAt(rate, s, k) = a + 1 + k
    BY <1>5, <1>8, BoundaryAtIs
<1> QED
    BY <1>8, <1>9

\* Where a sample is along a side, from how far it is from the side's corner.
LEMMA AlongIs ==
  ASSUME NEW p, NEW side \in 1 .. 4, NEW d \in 0 .. MaxRate, Apart2(p, Corner[side]) = d * d
  PROVE  Along(p, side) = d
<1>1. MaxRate \in Nat
    BY RatesAre
<1>2. ASSUME NEW n \in 0 .. MaxRate, n * n = d * d PROVE n = d
  <2>1. n \in Nat /\ d \in Nat
      BY <1>1
  <2>2. ASSUME NEW x \in Nat, NEW y \in Nat, x < y PROVE x * x # y * y
    <3>1. PICK z \in Nat : y = x + z /\ 0 < z
      <4>1. y - x \in Nat /\ y = x + (y - x) /\ 0 < y - x
          BY <2>2
      <4> QED
          BY <4>1
    <3>2. y * y = x * x + (x * z + x * z + z * z)
        BY <3>1
    <3>3. x * z \in Nat /\ 0 < z * z /\ z * z \in Nat /\ x * x \in Nat
        BY <3>1
    <3> QED
        BY <3>2, <3>3
  <2> QED
      BY <1>2, <2>1, <2>2
<1>3. Square(d) = d * d
    BY DEF Square
<1>4. \A n \in 0 .. MaxRate : Square(n) = Apart2(p, Corner[side]) <=> n = d
    BY <1>2, <1>3 DEF Square
<1> QED
    BY <1>4, Zenon DEF Along

\* The corners, one by one.
LEMMA CornersAre ==
  Corner[1] = <<0, 0>> /\ Corner[2] = <<MaxRate, 0>> /\ Corner[3] = <<MaxRate, MaxRate>> /\ Corner[4] = <<0, MaxRate>>
BY DEF Corner

\* A side's own samples are on its line, a segment apart.
LEMMA OnItsLine ==
  ASSUME NEW side \in 1 .. 4, NEW r \in Rates, NEW k \in 0 .. r
  PROVE  /\ OnLine(OnSide(side, k, r), side)
         /\ Along(OnSide(side, k, r), side) = k * (MaxRate \div r)
<1>1. PICK c \in Nat : c = MaxRate \div r
    BY RatesAre
<1>2. PICK M \in Nat : M = MaxRate
    BY RatesAre
<1> DEFINE d == k * c
           p == OnSide(side, k, r)
<1>3. /\ d \in 0 .. M
      /\ side = 1 => p = <<d, 0>>
      /\ side = 2 => p = <<M, d>>
      /\ side = 3 => p = <<M - d, M>>
      /\ side = 4 => p = <<0, M - d>>
    BY <1>1, <1>2, OnSideIs
<1> HIDE DEF d, p
<1>4. side \in {1, 2, 3, 4}
    OBVIOUS
<1>5. Apart2(p, Corner[side]) = d * d
  <2>1. CASE side = 1
    <3>1. p = <<d, 0>> /\ Corner[side] = <<0, 0>>
        BY <1>3, <2>1, CornersAre
    <3> QED
        BY <1>3, <3>1 DEF Apart2, Square
  <2>2. CASE side = 2
    <3>1. p = <<M, d>> /\ Corner[side] = <<M, 0>>
        BY <1>2, <1>3, <2>2, CornersAre
    <3> QED
        BY <1>3, <3>1 DEF Apart2, Square
  <2>3. CASE side = 3
    <3>1. p = <<M - d, M>> /\ Corner[side] = <<M, M>>
        BY <1>2, <1>3, <2>3, CornersAre
    <3>2. (M - d) - M = 0 - d /\ (0 - d) * (0 - d) = d * d /\ M - M = 0
        BY <1>3
    <3> QED
        BY <1>3, <3>1, <3>2 DEF Apart2, Square
  <2>4. CASE side = 4
    <3>1. p = <<0, M - d>> /\ Corner[side] = <<0, M>>
        BY <1>2, <1>3, <2>4, CornersAre
    <3>2. (M - d) - M = 0 - d /\ (0 - d) * (0 - d) = d * d
        BY <1>3
    <3> QED
        BY <1>3, <3>1, <3>2 DEF Apart2, Square
  <2> QED
      BY <1>4, <2>1, <2>2, <2>3, <2>4
<1>6. Along(p, side) = d
    BY <1>2, <1>3, <1>5, AlongIs
<1>7. OnLine(p, side)
  <2>1. CASE side = 1
      BY <1>3, <2>1 DEF OnLine
  <2>2. CASE side = 2
      BY <1>2, <1>3, <2>2 DEF OnLine
  <2>3. CASE side = 3
      BY <1>2, <1>3, <2>3 DEF OnLine
  <2>4. CASE side = 4
      BY <1>3, <2>4 DEF OnLine
  <2> QED
      BY <1>4, <2>1, <2>2, <2>3, <2>4
<1> QED
    BY <1>1, <1>6, <1>7 DEF d, p

\* Of the other sides' samples, their last left out, only the first of the next is on it.
LEMMA OffItsLine ==
  ASSUME NEW side \in 1 .. 4, NEW s \in 1 .. 4, s # side, NEW r \in Rates, NEW k \in 0 .. r - 1,
         OnLine(OnSide(s, k, r), side)
  PROVE  s = Following(side) /\ k = 0
<1>1. PICK c \in Nat : c = MaxRate \div r
    BY RatesAre
<1>2. PICK M \in Nat : M = MaxRate
    BY RatesAre
<1> DEFINE d == k * c
           p == OnSide(s, k, r)
<1>3. r \in Nat /\ k \in 0 .. r /\ k \in Nat /\ k < r
    BY RatesAre
<1>4. /\ d \in 0 .. M /\ r * c = M /\ 0 < c
      /\ s = 1 => p = <<d, 0>>
      /\ s = 2 => p = <<M, d>>
      /\ s = 3 => p = <<M - d, M>>
      /\ s = 4 => p = <<0, M - d>>
    BY <1>1, <1>2, <1>3, OnSideIs
<1>5. d < M
  <2>1. k * c + c =< r * c
    <3>1. (k + 1) * c =< r * c
        BY <1>3
    <3>2. (k + 1) * c = k * c + c
        BY <1>3
    <3> QED
        BY <3>1, <3>2
  <2> QED
      BY <1>4, <2>1
<1>6. d = 0 => k = 0
  <2>1. SUFFICES ASSUME k # 0 PROVE d # 0
      OBVIOUS
  <2>2. 1 * c =< k * c
      BY <1>3, <2>1
  <2> QED
      BY <1>4, <2>2
<1> HIDE DEF d, p
<1>7. 0 < M
    BY <1>4, <1>5
<1>8. s \in {1, 2, 3, 4}
    OBVIOUS
<1>9. CASE side = 1
  <2>1. p[2] = 0
      BY <1>9 DEF OnLine, p
  <2>2. s = 2 /\ d = 0
      BY <1>4, <1>5, <1>7, <1>8, <1>9, <2>1
  <2> QED
      BY <1>6, <1>9, <2>2 DEF Following
<1>10. CASE side = 2
  <2>1. p[1] = M
      BY <1>2, <1>10 DEF OnLine, p
  <2>2. s = 3 /\ d = 0
      BY <1>4, <1>5, <1>7, <1>8, <1>10, <2>1
  <2> QED
      BY <1>6, <1>10, <2>2 DEF Following
<1>11. CASE side = 3
  <2>1. p[2] = M
      BY <1>2, <1>11 DEF OnLine, p
  <2>2. s = 4 /\ d = 0
      BY <1>4, <1>5, <1>7, <1>8, <1>11, <2>1
  <2> QED
      BY <1>6, <1>11, <2>2 DEF Following
<1>12. CASE side = 4
  <2>1. p[1] = 0
      BY <1>12 DEF OnLine, p
  <2>2. s = 1 /\ d = 0
      BY <1>4, <1>5, <1>7, <1>8, <1>12, <2>1
  <2> QED
      BY <1>6, <1>12, <2>2 DEF Following
<1> QED
    BY <1>9, <1>10, <1>11, <1>12

\* The corner a side ends in is the whole of it along.
LEMMA EndOfSide ==
  ASSUME NEW side \in 1 .. 4, NEW r \in Rates
  PROVE  Along(OnSide(Following(side), 0, r), side) = MaxRate
<1>1. PICK c \in Nat : c = MaxRate \div r
    BY RatesAre
<1>2. PICK M \in Nat : M = MaxRate
    BY RatesAre
<1>3. 0 \in 0 .. r
    BY RatesAre
<1> DEFINE next == Following(side)
           d == 0 * c
           p == OnSide(next, 0, r)
<1>4. next \in 1 .. 4
    BY DEF Following
<1>5. /\ d = 0
      /\ next = 1 => p = <<d, 0>>
      /\ next = 2 => p = <<M, d>>
      /\ next = 3 => p = <<M - d, M>>
      /\ next = 4 => p = <<0, M - d>>
    BY <1>1, <1>2, <1>3, <1>4, OnSideIs
<1> HIDE DEF d, p
<1>7. /\ side = 1 => p = <<M, 0>> /\ Corner[side] = <<0, 0>>
      /\ side = 2 => p = <<M, M>> /\ Corner[side] = <<M, 0>>
      /\ side = 3 => p = <<0, M>> /\ Corner[side] = <<M, M>>
      /\ side = 4 => p = <<0, 0>> /\ Corner[side] = <<0, M>>
  <2>1. /\ side = 1 => next = 2
        /\ side = 2 => next = 3
        /\ side = 3 => next = 4
        /\ side = 4 => next = 1
      BY DEF Following
  <2>2. M - 0 = M
      OBVIOUS
  <2> HIDE DEF next
  <2> QED
      BY <1>2, <1>5, <2>1, <2>2, CornersAre
<1>8. side \in {1, 2, 3, 4}
    OBVIOUS
<1>9. Apart2(p, Corner[side]) = M * M
  <2>2. (0 - M) * (0 - M) = M * M /\ M - M = 0 /\ M - 0 = M /\ 0 * 0 = 0 /\ M * M \in Nat
      OBVIOUS
  <2>3. CASE side = 1
    <3>1. Apart2(<<M, 0>>, <<0, 0>>) = M * M
        BY <2>2 DEF Apart2, Square
    <3> QED
        BY <1>7, <2>3, <3>1
  <2>4. CASE side = 2
    <3>1. Apart2(<<M, M>>, <<M, 0>>) = M * M
        BY <2>2 DEF Apart2, Square
    <3> QED
        BY <1>7, <2>4, <3>1
  <2>5. CASE side = 3
    <3>1. Apart2(<<0, M>>, <<M, M>>) = M * M
        BY <2>2 DEF Apart2, Square
    <3> QED
        BY <1>7, <2>5, <3>1
  <2>6. CASE side = 4
    <3>1. Apart2(<<0, 0>>, <<0, M>>) = M * M
        BY <2>2 DEF Apart2, Square
    <3> QED
        BY <1>7, <2>6, <3>1
  <2> QED
      BY <1>8, <2>3, <2>4, <2>5, <2>6
<1>10. M \in 0 .. MaxRate
    BY <1>2
<1>11. Along(p, side) = M
    BY <1>9, <1>10, AlongIs
<1> QED
    BY <1>2, <1>11 DEF p

\* Every number of segments along a side is where its walk once stands.
LEMMA WalkPasses ==
  ASSUME NEW outer \in Nat, NEW inner \in Nat, NEW o \in 0 .. outer
  PROVE  \E n \in 0 .. outer + inner : Walk(outer, inner)[n][1] = o
<1> DEFINE N == outer + inner
           g == Walk(outer, inner)
           P == {n \in 0 .. N : \A x \in 0 .. g[n][1] : \E m \in 0 .. N : g[m][1] = x}
<1>1. N \in Nat /\ g[0] = <<0, 0>> /\ g[N] = <<outer, inner>>
  <2>1. N \in Nat
      OBVIOUS
  <2>2. g[0] = <<0, 0>> /\ g[N] = <<outer, inner>>
    <3> HIDE DEF g
    <3> QED
        BY WalkIs DEF g
  <2> QED
      BY <2>1, <2>2
<1>2. \A n \in 0 .. N : g[n][1] \in Nat
  <2>1. \A n \in 0 .. N : Standing(outer, inner, n, g[n])
      BY WalkIs
  <2> HIDE DEF g, N
  <2> QED
      BY <2>1 DEF Standing
<1>3. \A n \in 1 .. N : g[n][1] = g[n - 1][1] + 1 \/ g[n][1] = g[n - 1][1]
  <2>1. \A n \in 1 .. N : g[n] = <<g[n - 1][1] + 1, g[n - 1][2]>> \/ g[n] = <<g[n - 1][1], g[n - 1][2] + 1>>
      BY WalkIs
  <2> HIDE DEF g, N
  <2> QED
      BY <2>1
<1> HIDE DEF g, N
<1>4. 0 \in P
  <2>1. ASSUME NEW x \in 0 .. g[0][1] PROVE \E m \in 0 .. N : g[m][1] = x
      BY <1>1
  <2> QED
      BY <1>1, <2>1
<1>5. ASSUME NEW n \in 0 .. N, \A x \in 0 .. g[n][1] : \E m \in 0 .. N : g[m][1] = x, n < N
      PROVE  n + 1 \in 0 .. N /\ \A x \in 0 .. g[n + 1][1] : \E m \in 0 .. N : g[m][1] = x
  <2>1. n + 1 \in 0 .. N /\ n + 1 \in 1 .. N /\ (n + 1) - 1 = n
      BY <1>1, <1>5
  <2>2. g[n + 1][1] = g[n][1] + 1 \/ g[n + 1][1] = g[n][1]
    <3>1. g[n + 1][1] = g[(n + 1) - 1][1] + 1 \/ g[n + 1][1] = g[(n + 1) - 1][1]
        BY <1>3, <2>1
    <3> QED
        BY <2>1, <3>1
  <2>3. g[n][1] \in Nat /\ g[n + 1][1] \in Nat
      BY <1>2, <2>1
  <2>4. ASSUME NEW x \in 0 .. g[n + 1][1] PROVE \E m \in 0 .. N : g[m][1] = x
    <3>1. x \in 0 .. g[n][1] \/ x = g[n + 1][1]
        BY <2>2, <2>3
    <3> QED
        BY <1>5, <2>1, <3>1
  <2> QED
      BY <2>1, <2>4
<1>6. P = 0 .. N
  <2>1. \A n \in P : n < N => n + 1 \in P
      BY <1>5
  <2>2. P \in SUBSET (0 .. N)
      OBVIOUS
  <2> HIDE DEF P
  <2> QED
      BY <1>1, <1>4, <2>1, <2>2, CountsUp
<1>7. N \in P
  <2> HIDE DEF P
  <2> QED
      BY <1>1, <1>6
<1>8. o \in 0 .. g[N][1]
    BY <1>1
<1> QED
    BY <1>7, <1>8 DEF g, N

\* The first sample of each triangle of a stitch is the side's the step left from.
LEMMA StitchMeets ==
  ASSUME NEW rate \in [1 .. 4 -> Rates], 2 =< InnerRate(rate), NEW side \in 1 .. 4,
         NEW k \in 0 .. rate[side] - 1
  PROVE  \E t \in Range(Stitch(rate, side)) : t[1] = BoundaryAt(rate, side, k) /\ t = <<t[1], t[2], t[3]>>
<1> DEFINE g == Outing(rate, side)
           N == LastStep(rate, side)
<1>1. rate[side] \in Nat /\ Span(rate) - 1 \in Nat
  <2>1. rate[side] \in Nat
      BY StartsAre
  <2>2. Span(rate) \in Nat /\ 1 =< Span(rate)
      BY GridIs
  <2> QED
      BY <2>1, <2>2
<1>2. PICK outer \in Nat : outer = rate[side]
    BY <1>1
<1>3. PICK inner \in Nat : inner = Span(rate) - 1
    BY <1>1
<1>4. g = Walk(outer, inner) /\ N = outer + inner /\ k \in 0 .. outer
    BY <1>2, <1>3 DEF Outing, LastStep
<1> HIDE DEF g, N
<1>5. PICK m \in 0 .. N : g[m][1] = k
    BY <1>4, WalkPasses
<1>6. g[N] = <<outer, inner>>
    BY <1>4, WalkIs
<1>7. m # N
    BY <1>2, <1>5, <1>6
<1>8. m + 1 \in 1 .. N /\ (m + 1) - 1 = m
    BY <1>4, <1>5, <1>7
<1>9. PICK o \in 0 .. rate[side], i \in 0 .. Span(rate) - 1 :
         /\ g[(m + 1) - 1] = <<o, i>>
         /\ \/ StitchTriangle(rate, side, g[(m + 1) - 1], g[m + 1]) = <<OutwardTriangle(rate, side, o, i)>>
            \/ StitchTriangle(rate, side, g[(m + 1) - 1], g[m + 1]) = <<InwardTriangle(rate, side, o, i)>>
    BY <1>8, StitchIs DEF g, N
<1>10. o = k
    BY <1>5, <1>8, <1>9
<1> DEFINE t == StepTriangle(rate, side, m + 1)
<1>11. t = OutwardTriangle(rate, side, k, i) \/ t = InwardTriangle(rate, side, k, i)
    BY <1>9, <1>10 DEF StepTriangle, g
<1>12. t \in Range(Stitch(rate, side))
    BY <1>8, StitchesAre DEF N
<1> HIDE DEF t
<1>13. t[1] = BoundaryAt(rate, side, k) /\ t = <<t[1], t[2], t[3]>>
  <2>1. CASE t = OutwardTriangle(rate, side, k, i)
      BY <2>1 DEF OutwardTriangle
  <2>2. CASE t = InwardTriangle(rate, side, k, i)
      BY <2>2 DEF InwardTriangle
  <2> QED
      BY <1>11, <2>1, <2>2
<1> QED
    BY <1>12, <1>13

\* A triangle joins three of the samples.
Joins(t, rate) ==
    /\ t = <<t[1], t[2], t[3]>>
    /\ \A n \in {1, 2, 3} : t[n] \in 1 .. (BoundarySamples(rate) + Span(rate) * Span(rate))

\* Every triangle joins three samples there are.
LEMMA AllJoin ==
  ASSUME NEW rate \in [1 .. 4 -> Rates], 2 =< InnerRate(rate),
         NEW t \in Range(TessellateQuad(rate).triangles)
  PROVE  Joins(t, rate)
<1>1. PICK w \in Nat : w = Span(rate)
    BY GridIs
<1>2. PICK b \in Nat : b = BoundarySamples(rate)
    BY StartsAre
<1>3. w * w \in Nat
    OBVIOUS
<1> DEFINE S == 1 .. (b + w * w)
<1>4. \A i, j \in 0 .. w - 1 : Inside(rate, i, j) \in S
  <2>1. ASSUME NEW i \in 0 .. w - 1, NEW j \in 0 .. w - 1 PROVE Inside(rate, i, j) \in S
    <3>1. i \in 0 .. Span(rate) - 1 /\ j \in 0 .. Span(rate) - 1
        BY <1>1
    <3>2. Inside(rate, i, j) \in Nat /\ b < Inside(rate, i, j) /\ Inside(rate, i, j) =< b + w * w
        BY <1>1, <1>2, <3>1, InsideIs
    <3> QED
        BY <1>3, <3>2
  <2> QED
      BY <2>1
<1>5. \A side \in 1 .. 4, k \in 0 .. w - 1 : Facing(rate, side, k) \in S
  <2>1. ASSUME NEW side \in 1 .. 4, NEW k \in 0 .. w - 1 PROVE Facing(rate, side, k) \in S
    <3>1. k \in 0 .. Span(rate) - 1
        BY <1>1
    <3>2. Facing(rate, side, k) \in Nat /\ b < Facing(rate, side, k) /\ Facing(rate, side, k) =< b + w * w
        BY <1>1, <1>2, <3>1, FacingIs
    <3> QED
        BY <1>3, <3>2
  <2> QED
      BY <2>1
<1>6. \A side \in 1 .. 4 : \A k \in 0 .. rate[side] : BoundaryAt(rate, side, k) \in S
  <2>1. ASSUME NEW side \in 1 .. 4, NEW k \in 0 .. rate[side] PROVE BoundaryAt(rate, side, k) \in S
    <3>1. BoundaryAt(rate, side, k) \in 1 .. b
        BY <1>2, BoundaryAtIs
    <3> QED
        BY <1>3, <3>1
  <2> QED
      BY <2>1
<1> HIDE DEF S
<1>7. ASSUME NEW x \in S, NEW y \in S, NEW z \in S, t = <<x, y, z>> PROVE Joins(t, rate)
    BY <1>1, <1>2, <1>7 DEF Joins, S
<1>8. CASE t \in Range(GridTriangles(rate))
  <2>1. PICK i \in 0 .. Span(rate) - 2, j \in 0 .. Span(rate) - 2 :
          t = LowTriangle(rate, i, j) \/ t = HighTriangle(rate, i, j)
      BY <1>8, GridTrianglesAre
  <2>2. i \in 0 .. w - 1 /\ i + 1 \in 0 .. w - 1 /\ j \in 0 .. w - 1 /\ j + 1 \in 0 .. w - 1
      BY <1>1
  <2> QED
      BY <1>4, <1>7, <2>1, <2>2 DEF LowTriangle, HighTriangle
<1>9. CASE \E side \in 1 .. 4 : t \in Range(Stitch(rate, side))
  <2>1. PICK side \in 1 .. 4 : t \in Range(Stitch(rate, side))
      BY <1>9
  <2>2. PICK n \in 1 .. LastStep(rate, side) : t = StepTriangle(rate, side, n)
      BY <2>1, StitchesAre
  <2>3. PICK o \in 0 .. rate[side], i \in 0 .. Span(rate) - 1 :
          \/ /\ o < rate[side]
             /\ StitchTriangle(rate, side, Outing(rate, side)[n - 1], Outing(rate, side)[n])
                   = <<OutwardTriangle(rate, side, o, i)>>
          \/ /\ i < Span(rate) - 1
             /\ StitchTriangle(rate, side, Outing(rate, side)[n - 1], Outing(rate, side)[n])
                   = <<InwardTriangle(rate, side, o, i)>>
      BY StitchIs
  <2>4. \/ o < rate[side] /\ t = OutwardTriangle(rate, side, o, i)
        \/ i < Span(rate) - 1 /\ t = InwardTriangle(rate, side, o, i)
      BY <2>2, <2>3 DEF StepTriangle
  <2>5. i \in 0 .. w - 1 /\ rate[side] \in Nat
      BY <1>1, StartsAre
  <2>6. CASE o < rate[side] /\ t = OutwardTriangle(rate, side, o, i)
    <3>1. o + 1 \in 0 .. rate[side]
        BY <2>5, <2>6
    <3> QED
        BY <1>5, <1>6, <1>7, <2>5, <2>6, <3>1 DEF OutwardTriangle
  <2>7. CASE i < Span(rate) - 1 /\ t = InwardTriangle(rate, side, o, i)
    <3>1. i + 1 \in 0 .. w - 1
        BY <1>1, <2>7
    <3> QED
        BY <1>5, <1>6, <1>7, <2>5, <2>7, <3>1 DEF InwardTriangle
  <2> QED
      BY <2>4, <2>6, <2>7
<1> QED
    BY <1>8, <1>9, TrianglesAre

\* The triangles name nothing but samples, and every one of the boundary's.
LEMMA TriangleSamplesAre ==
  ASSUME NEW rate \in [1 .. 4 -> Rates]
  PROVE  /\ TriangleSamples(TessellateQuad(rate)) \subseteq 1 .. Len(TessellateQuad(rate).samples)
         /\ 1 .. BoundarySamples(rate) \subseteq TriangleSamples(TessellateQuad(rate))
<1> DEFINE q == TessellateQuad(rate)
<1>1. IsSeq(q.triangles)
    BY EstimateCovers
<1>2. \A m : m \in TriangleSamples(q) <=> \E t \in Range(q.triangles) : m \in Range(t)
  <2>1. DOMAIN q.triangles = 1 .. Len(q.triangles)
      BY <1>1, IsSeqOfItsOwn
  <2>2. ASSUME NEW m, m \in TriangleSamples(q) PROVE \E t \in Range(q.triangles) : m \in Range(t)
    <3>1. PICK n \in DOMAIN q.triangles : m \in Range(q.triangles[n])
        BY <2>2 DEF TriangleSamples
    <3>2. q.triangles[n] \in Range(q.triangles)
        BY <1>1, <2>1, <3>1, IsSeqOfItsOwn
    <3> QED
        BY <3>1, <3>2
  <2>3. ASSUME NEW m, NEW t \in Range(q.triangles), m \in Range(t) PROVE m \in TriangleSamples(q)
    <3>1. PICK n \in 1 .. Len(q.triangles) : q.triangles[n] = t
        BY <1>1, IsSeqOfItsOwn
    <3>2. n \in DOMAIN q.triangles /\ m \in Range(q.triangles[n])
        BY <2>1, <2>3, <3>1
    <3> QED
        BY <3>2 DEF TriangleSamples
  <2> QED
      BY <2>2, <2>3
<1>3. CASE ~(2 =< InnerRate(rate))
  <2>1. /\ BoundarySamples(rate) = 4 /\ q.samples = Boundary(rate)
        /\ q.triangles = <<<<1, 2, 3>>, <<1, 3, 4>>>>
      BY <1>3, SinglesAre
  <2>2. Range(<<<<1, 2, 3>>, <<1, 3, 4>>>>) = {<<1, 2, 3>>, <<1, 3, 4>>}
      BY DEF Range
  <2>3. Range(<<1, 2, 3>>) = {1, 2, 3} /\ Range(<<1, 3, 4>>) = {1, 3, 4}
      BY Three
  <2>4. Len(q.samples) = 4
      BY <2>1, BoundaryIs
  <2>5. \A m : m \in TriangleSamples(q) <=> m \in {1, 2, 3, 4}
      BY <1>2, <2>1, <2>2, <2>3
  <2> QED
      BY <2>1, <2>4, <2>5
<1>4. CASE 2 =< InnerRate(rate)
  <2>1. Len(q.samples) = BoundarySamples(rate) + Span(rate) * Span(rate)
      BY <1>4, SamplesAre
  <2>2. ASSUME NEW m \in TriangleSamples(q) PROVE m \in 1 .. Len(q.samples)
    <3>1. PICK t \in Range(q.triangles) : m \in Range(t)
        BY <1>2
    <3>2. Joins(t, rate)
        BY <1>4, AllJoin
    <3>3. Range(t) = {t[1], t[2], t[3]}
      <4>1. Range(<<t[1], t[2], t[3]>>) = {t[1], t[2], t[3]}
          BY Three
      <4> QED
          BY <3>2, <4>1 DEF Joins
    <3> QED
        BY <2>1, <3>1, <3>2, <3>3 DEF Joins
  <2>3. ASSUME NEW m \in 1 .. BoundarySamples(rate) PROVE m \in TriangleSamples(q)
    <3>1. PICK s \in 1 .. 4 : \E k \in 0 .. rate[s] - 1 : m = BoundaryAt(rate, s, k)
        BY SomeSide
    <3>2. PICK k \in 0 .. rate[s] - 1 : m = BoundaryAt(rate, s, k)
        BY <3>1
    <3>3. PICK t \in Range(Stitch(rate, s)) : t[1] = m /\ t = <<t[1], t[2], t[3]>>
        BY <1>4, <3>2, StitchMeets
    <3>4. t \in Range(q.triangles)
        BY <1>4, TrianglesAre
    <3>5. Range(<<t[1], t[2], t[3]>>) = {t[1], t[2], t[3]}
        BY Three
    <3>6. m \in Range(t)
        BY <3>3, <3>5
    <3> QED
        BY <1>2, <3>4, <3>6
  <2> QED
      BY <2>2, <2>3
<1> QED
    BY <1>3, <1>4

\* A side's samples: one a segment, the corner it ends in among them.
SegmentsOf(r) == {k * (MaxRate \div r) : k \in 0 .. r}

\* The grid is strictly inside: none of its samples is on a side.
LEMMA GridIsInside ==
  ASSUME NEW rate \in [1 .. 4 -> Rates], 2 =< InnerRate(rate), NEW side \in 1 .. 4,
         NEW m \in Nat, BoundarySamples(rate) < m, m =< BoundarySamples(rate) + Span(rate) * Span(rate)
  PROVE  ~OnLine(TessellateQuad(rate).samples[m], side)
<1>1. PICK w \in Nat : w = Span(rate) /\ 1 =< w
    BY GridIs
<1>2. PICK b \in Nat : b = BoundarySamples(rate)
    BY StartsAre
<1>3. PICK c \in Nat : c = Cut(rate) /\ 0 < c /\ (w + 1) * c = MaxRate
    BY <1>1, GridIs
<1>4. w * w \in Nat
    OBVIOUS
<1> DEFINE n == m - b
           i == (n - 1) % w
           j == (n - 1) \div w
<1>5. n \in 1 .. w * w /\ m = b + n
    BY <1>1, <1>2, <1>4
<1> HIDE DEF n
<1>6. i + 1 \in 1 .. w /\ j + 1 \in 1 .. w /\ n = j * w + (i + 1)
    BY <1>5, InRows
<1>7. i \in 0 .. w - 1 /\ j \in 0 .. w - 1
  <2>1. i \in Int /\ j \in Int
      BY <1>1, <1>5
  <2> QED
      BY <1>6, <2>1
<1> HIDE DEF i, j
<1>8. m = Inside(rate, i, j)
  <2>1. Inside(rate, i, j) = b + (j * w + i + 1)
      BY <1>1, <1>2, <1>7, InsideIs
  <2>2. j * w \in Nat
      BY <1>7
  <2> QED
      BY <1>5, <1>6, <1>7, <2>1, <2>2
<1>9. TessellateQuad(rate).samples[m] = <<(i + 1) * c, (j + 1) * c>>
    BY <1>1, <1>3, <1>7, <1>8, SamplesAre
<1>10. ASSUME NEW k \in 1 .. w PROVE 0 < k * c /\ k * c < MaxRate /\ k * c \in Nat
  <2>1. k * c >= 1 * c
      BY <1>3
  <2>2. (w + 1) * c = w * c + c
      BY <1>3
  <2>3. k * c =< w * c
      BY <1>3
  <2> QED
      BY <1>3, <2>1, <2>2, <2>3
<1>11. PICK x \in Nat : x = (i + 1) * c /\ 0 < x /\ x < MaxRate
    BY <1>6, <1>10
<1>12. PICK y \in Nat : y = (j + 1) * c /\ 0 < y /\ y < MaxRate
    BY <1>6, <1>10
<1>13. TessellateQuad(rate).samples[m] = <<x, y>>
    BY <1>9, <1>11, <1>12
<1>14. MaxRate \in Nat
    BY RatesAre
<1>15. PICK p : p = TessellateQuad(rate).samples[m]
    OBVIOUS
<1>16. p[1] = x /\ p[2] = y /\ side \in {1, 2, 3, 4}
    BY <1>13, <1>15
<1>17. x # 0 /\ y # 0 /\ x # MaxRate /\ y # MaxRate
    BY <1>11, <1>12, <1>14
<1>18. ~OnLine(p, side)
    BY <1>16, <1>17, Zenon DEF OnLine
<1> QED
    BY <1>15, <1>18

\* A side of a face has the samples of its own rate, and no others.
LEMMA SideSamplesAre ==
  ASSUME NEW rate \in [1 .. 4 -> Rates], NEW patch, patch.quad = TessellateQuad(rate), NEW side \in 1 .. 4
  PROVE  SideSamples(patch, side) = SegmentsOf(rate[side])
<1> DEFINE q == TessellateQuad(rate)
           r == rate[side]
<1>1. r \in Rates /\ r \in Nat /\ 1 =< r
    BY StartsAre
<1>2. PICK b \in Nat : b = BoundarySamples(rate)
    BY StartsAre
<1>3. \A s \in 1 .. 4 : \A k \in 0 .. rate[s] :
         BoundaryAt(rate, s, k) \in 1 .. b /\ q.samples[BoundaryAt(rate, s, k)] = OnSide(s, k, rate[s])
  <2>1. ASSUME NEW s \in 1 .. 4, NEW k \in 0 .. rate[s]
        PROVE BoundaryAt(rate, s, k) \in 1 .. b /\ q.samples[BoundaryAt(rate, s, k)] = OnSide(s, k, rate[s])
    <3>1. /\ BoundaryAt(rate, s, k) \in 1 .. b
          /\ Boundary(rate)[BoundaryAt(rate, s, k)] = OnSide(s, k, rate[s])
        BY <1>2, BoundaryAtIs
    <3>2. CASE 2 =< InnerRate(rate)
        BY <3>1, <3>2, SamplesAre
    <3>3. CASE ~(2 =< InnerRate(rate))
        BY <3>1, <3>3, SinglesAre
    <3> QED
        BY <3>1, <3>2, <3>3
  <2> QED
      BY <2>1
<1>4. \A x : x \in SideSamples(patch, side) <=>
               \E m \in TriangleSamples(q) : OnLine(q.samples[m], side) /\ x = Along(q.samples[m], side)
  <2> HIDE DEF q
  <2>1. patch.quad = q
      BY DEF q
  <2> QED
      BY <2>1 DEF SideSamples
<1>5. TriangleSamples(q) \subseteq 1 .. Len(q.samples) /\ 1 .. b \subseteq TriangleSamples(q)
    BY <1>2, TriangleSamplesAre
<1>6. ASSUME NEW k \in 0 .. r PROVE k * (MaxRate \div r) \in SideSamples(patch, side)
  <2> DEFINE m == BoundaryAt(rate, side, k)
  <2>1. m \in TriangleSamples(q) /\ q.samples[m] = OnSide(side, k, r)
      BY <1>3, <1>5
  <2>2. OnLine(OnSide(side, k, r), side) /\ Along(OnSide(side, k, r), side) = k * (MaxRate \div r)
      BY <1>1, OnItsLine
  <2> HIDE DEF q, m
  <2> QED
      BY <1>4, <2>1, <2>2
<1>7. ASSUME NEW m \in TriangleSamples(q), OnLine(q.samples[m], side)
      PROVE  Along(q.samples[m], side) \in SegmentsOf(r)
  <2>1. m \in 1 .. b
    <3>1. m \in 1 .. Len(q.samples)
        BY <1>5
    <3>2. CASE 2 =< InnerRate(rate)
      <4>1. Len(q.samples) = b + Span(rate) * Span(rate)
          BY <1>2, <3>2, SamplesAre
      <4>2. Span(rate) * Span(rate) \in Nat
        <5>1. Span(rate) \in Nat
            BY <3>2, GridIs
        <5> QED
            BY <5>1
      <4>3. m \in Nat /\ m =< b + Span(rate) * Span(rate)
          BY <3>1, <4>1, <4>2
      <4>4. ~(b < m)
          BY <1>2, <1>7, <3>2, <4>3, GridIsInside
      <4> QED
          BY <3>1, <4>3, <4>4
    <3>3. CASE ~(2 =< InnerRate(rate))
      <4>1. Len(q.samples) = b
          BY <1>2, <3>3, SinglesAre, BoundaryIs
      <4> QED
          BY <3>1, <4>1
    <3> QED
        BY <3>2, <3>3
  <2>2. PICK s \in 1 .. 4 : \E k \in 0 .. rate[s] - 1 : m = BoundaryAt(rate, s, k)
      BY <1>2, <2>1, SomeSide
  <2>3. PICK k \in 0 .. rate[s] - 1 : m = BoundaryAt(rate, s, k)
      BY <2>2
  <2>4. rate[s] \in Rates /\ rate[s] \in Nat /\ k \in 0 .. rate[s]
      BY <2>3, StartsAre
  <2>5. q.samples[m] = OnSide(s, k, rate[s])
      BY <1>3, <2>3, <2>4
  <2>6. CASE s = side
    <3>1. Along(q.samples[m], side) = k * (MaxRate \div r) /\ k \in 0 .. r
        BY <1>1, <2>4, <2>5, <2>6, OnItsLine
    <3> QED
        BY <3>1 DEF SegmentsOf
  <2>7. CASE s # side
    <3>1. s = Following(side) /\ k = 0
        BY <1>7, <2>3, <2>4, <2>5, <2>7, OffItsLine
    <3>2. Along(q.samples[m], side) = MaxRate
        BY <2>4, <2>5, <3>1, EndOfSide
    <3>3. r * (MaxRate \div r) = MaxRate /\ r \in 0 .. r
        BY <1>1, RatesAre
    <3> QED
        BY <3>2, <3>3 DEF SegmentsOf
  <2> QED
      BY <2>6, <2>7
<1> HIDE DEF q, r
<1>8. ASSUME NEW x \in SideSamples(patch, side) PROVE x \in SegmentsOf(r)
    BY <1>4, <1>7, <1>8
<1>9. ASSUME NEW x \in SegmentsOf(r) PROVE x \in SideSamples(patch, side)
    BY <1>6, <1>9 DEF SegmentsOf
<1> QED
    BY <1>8, <1>9 DEF r

\* Walked the other way a side has the same samples.
LEMMA SegmentsTurn ==
  ASSUME NEW r \in Rates
  PROVE  SegmentsOf(r) = Backwards(SegmentsOf(r))
<1>1. PICK c \in Nat : c = MaxRate \div r /\ r * c = MaxRate
    BY RatesAre
<1>2. r \in Nat
    BY RatesAre
<1>3. \A k \in 0 .. r : r - k \in 0 .. r /\ MaxRate - k * c = (r - k) * c /\ (r - k) * c \in Nat
  <2>1. ASSUME NEW k \in 0 .. r PROVE r - k \in 0 .. r /\ MaxRate - k * c = (r - k) * c /\ (r - k) * c \in Nat
    <3>1. (r - k) * c = r * c - k * c
        BY <1>2
    <3>2. r - k \in 0 .. r /\ (r - k) * c \in Nat
        BY <1>2
    <3> QED
        BY <1>1, <3>1, <3>2
  <2> QED
      BY <2>1
<1>4. ASSUME NEW x \in SegmentsOf(r) PROVE x \in Backwards(SegmentsOf(r))
  <2>1. PICK k \in 0 .. r : x = k * c
      BY <1>1 DEF SegmentsOf
  <2>2. r - (r - k) = k
      BY <1>2
  <2>3. (r - k) * c \in SegmentsOf(r) /\ x = MaxRate - (r - k) * c
      BY <1>1, <1>3, <2>1, <2>2 DEF SegmentsOf
  <2> QED
      BY <2>3 DEF Backwards
<1>5. ASSUME NEW x \in Backwards(SegmentsOf(r)) PROVE x \in SegmentsOf(r)
  <2>1. PICK y \in SegmentsOf(r) : x = MaxRate - y
      BY DEF Backwards
  <2>2. PICK k \in 0 .. r : y = k * c
      BY <1>1 DEF SegmentsOf
  <2> QED
      BY <1>1, <1>3, <2>1, <2>2 DEF SegmentsOf
<1> QED
    BY <1>4, <1>5

\* A cage of vertex numbers and of points.
IsCage(cage) == cage.faces \in Seq(Seq(Int)) /\ cage.points \in Seq(Int \X Int)

\* A vertex has a position, even one the points do not reach.
LEMMA PointIs ==
  ASSUME NEW cage, IsCage(cage), NEW v
  PROVE  PointOf(cage, v) \in Int \X Int
<1>1. cage.points \in [1 .. Len(cage.points) -> Int \X Int] /\ DOMAIN cage.points = 1 .. Len(cage.points)
    BY DEF IsCage
<1>2. v \in DOMAIN cage.points => cage.points[v] \in Int \X Int
    BY <1>1
<1>3. <<0, 0>> \in Int \X Int
    OBVIOUS
<1> QED
    BY <1>2, <1>3 DEF PointOf

\* Positions are added in any order.
LEMMA PlusIs ==
  ASSUME NEW p \in Int \X Int, NEW q \in Int \X Int
  PROVE  Plus(p, q) \in Int \X Int /\ Plus(p, q) = Plus(q, p)
BY DEF Plus

\* A part of a position is one.
LEMMA PartIs ==
  ASSUME NEW p \in Int \X Int, NEW n \in Nat, 0 < n
  PROVE  Part(p, n) \in Int \X Int
<1>1. p[1] \in Int /\ p[2] \in Int
    OBVIOUS
<1>2. p[1] \div n \in Int /\ p[2] \div n \in Int
    BY <1>1
<1> QED
    BY <1>2 DEF Part

\* The points some vertices name, summed one at a time.
LEMMA SumIs ==
  ASSUME NEW cage, IsCage(cage), NEW named, Len(named) \in Nat
  PROVE  SumOver(cage, named) \in Int \X Int
<1> DEFINE N == Len(named)
           X == Int \X Int
           start == <<0, 0>>
           point(n) == PointOf(cage, named[n])
           step == [m \in 1 .. N |-> [p \in X |-> Plus(p, point(m))]]
<1>1. N \in Nat /\ start \in X
    OBVIOUS
<1>2. \A m \in 1 .. N : point(m) \in X
    BY PointIs
<1> HIDE DEF point
<1>3. \A m \in 1 .. N : \A p \in X : Plus(p, point(m)) \in X
    BY <1>2, PlusIs
<1> HIDE DEF X
<1>4. Steps(step, N, X) /\ \A m \in 1 .. N : \A p \in X : step[m][p] = Plus(p, point(m))
    BY <1>3 DEF Steps
<1> HIDE DEF step, N, start
<1>5. PICK f \in [0 .. N -> X] : Unfolds(f, start, step, N)
    BY <1>1, <1>4, StepByStep
<1>6. f[0] = start /\ \A m \in 1 .. N : f[m] = Plus(f[m - 1], point(m))
  <2>1. ASSUME NEW m \in 1 .. N PROVE f[m - 1] \in X
    <3>1. m - 1 \in 0 .. N
        BY <1>1
    <3> QED
        BY <3>1
  <2> QED
      BY <1>4, <1>5, <2>1 DEF Unfolds
<1> DEFINE next(h, n) == IF n = 0 THEN start ELSE Plus(h[n - 1], point(n))
<1>7. f = [n \in 0 .. N |-> next(f, n)]
  <2>1. \A n \in 0 .. N : f[n] = next(f, n)
      BY <1>1, <1>6
  <2> HIDE DEF next
  <2> QED
      BY <2>1
<1> DEFINE g == CHOOSE h : h = [n \in 0 .. N |-> next(h, n)]
<1>8. g = [n \in 0 .. N |-> next(g, n)]
  <2> HIDE DEF next
  <2> QED
      BY <1>7
<1>9. SumOver(cage, named) = g[N]
    BY Zenon DEF SumOver, N, start, point
<1> HIDE DEF g
<1>10. \A n \in 0 .. N : g[n] = next(g, n)
  <2> HIDE DEF next
  <2> QED
      BY <1>8
<1> DEFINE P == {n \in 0 .. N : g[n] \in X}
<1>11. P = 0 .. N
  <2>1. 0 \in P
      BY <1>1, <1>10
  <2>2. ASSUME NEW n \in P, n < N PROVE n + 1 \in P
    <3>1. n + 1 \in 0 .. N /\ n + 1 \in 1 .. N /\ n + 1 # 0 /\ (n + 1) - 1 = n /\ g[n] \in X
        BY <1>1, <2>2
    <3>2. g[n + 1] = Plus(g[n], point(n + 1))
        BY <1>10, <3>1
    <3> QED
        BY <1>3, <3>1, <3>2
  <2>3. P \in SUBSET (0 .. N)
      OBVIOUS
  <2> HIDE DEF P
  <2> QED
      BY <1>1, <2>1, <2>2, <2>3, CountsUp
<1>12. N \in P
  <2> HIDE DEF P
  <2> QED
      BY <1>1, <1>11
<1> QED
    BY <1>9, <1>12 DEF X

\* What the corner of a ptex face can be.
IsCorner(cage, corner) ==
    \/ \E v : corner = Vertex(v)
    \/ \E a, b : corner = EdgeMidpoint(a, b)
    \/ \E f \in DOMAIN cage.faces : corner = FaceCentre(f) /\ 2 < Len(cage.faces[f])

\* A corner of a ptex face has a position.
LEMMA CornerIsPlaced ==
  ASSUME NEW cage, IsCage(cage), NEW corner, IsCorner(cage, corner)
  PROVE  PtexCornerPosition(cage, corner) \in Int \X Int
<1>1. CASE \E v : corner = Vertex(v)
  <2>1. corner[1] = "vertex"
      BY <1>1 DEF Vertex
  <2>2. PtexCornerPosition(cage, corner) = PointOf(cage, CHOOSE v \in corner[2] : TRUE)
      BY <2>1 DEF PtexCornerPosition
  <2> QED
      BY <2>2, PointIs
<1>2. CASE \E a, b : corner = EdgeMidpoint(a, b)
  <2> DEFINE p == PointOf(cage, SmallestOf(corner[2]))
             q == PointOf(cage, GreatestOf(corner[2]))
  <2>1. corner[1] = "midpoint"
      BY <1>2 DEF EdgeMidpoint
  <2>2. PtexCornerPosition(cage, corner) = Part(Plus(p, q), 2)
      BY <2>1 DEF PtexCornerPosition
  <2>3. p \in Int \X Int /\ q \in Int \X Int
      BY PointIs
  <2> HIDE DEF p, q
  <2>4. Plus(p, q) \in Int \X Int
      BY <2>3, PlusIs
  <2> DEFINE two == 2
  <2>5. two \in Nat /\ 0 < two
      OBVIOUS
  <2> HIDE DEF two
  <2>6. Part(Plus(p, q), two) \in Int \X Int
      BY <2>4, <2>5, PartIs
  <2> QED
      BY <2>2, <2>6 DEF two
<1>3. CASE \E f \in DOMAIN cage.faces : corner = FaceCentre(f) /\ 2 < Len(cage.faces[f])
  <2>1. PICK f \in DOMAIN cage.faces : corner = FaceCentre(f) /\ 2 < Len(cage.faces[f])
      BY <1>3
  <2>2. corner[1] = "centre" /\ corner[2] = {f}
      BY <2>1 DEF FaceCentre
  <2>3. (CHOOSE g \in corner[2] : TRUE) = f
      BY <2>2
  <2> DEFINE face == cage.faces[f]
  <2>4. PtexCornerPosition(cage, corner) = Part(SumOver(cage, face), Len(face))
    <3>1. PtexCornerPosition(cage, corner)
            = Part(SumOver(cage, cage.faces[CHOOSE g \in corner[2] : TRUE]), Len(cage.faces[CHOOSE g \in corner[2] : TRUE]))
        BY <2>2 DEF PtexCornerPosition
    <3> QED
        BY <2>3, <3>1, Zenon
  <2>5. Len(face) \in Nat /\ 0 < Len(face)
    <3>1. cage.faces \in [1 .. Len(cage.faces) -> Seq(Int)]
        BY DEF IsCage
    <3>2. face \in Seq(Int)
        BY <3>1
    <3>3. Len(face) \in Nat
        BY <3>2
    <3> QED
        BY <2>1, <3>3
  <2> HIDE DEF face
  <2>6. SumOver(cage, face) \in Int \X Int
      BY <2>5, SumIs
  <2> QED
      BY <2>4, <2>5, <2>6, PartIs
<1> QED
    BY <1>1, <1>2, <1>3 DEF IsCorner

\* One ptex face of a coarse face f.
PtexOf(cage, f, ptex) ==
    /\ ptex.coarse = f /\ 2 < Len(cage.faces[f])
    /\ \A side \in 1 .. 4 : IsCorner(cage, ptex.corners[side])

\* A face of three corners or more is at least one ptex face, of its own corners.
LEMMA FacePtexIs ==
  ASSUME NEW cage, IsCage(cage), NEW f \in DOMAIN cage.faces
  PROVE  /\ IsSeq(FacePtex(f, cage.faces[f]))
         /\ \A ptex \in Range(FacePtex(f, cage.faces[f])) : PtexOf(cage, f, ptex)
         /\ 2 < Len(cage.faces[f]) => Range(FacePtex(f, cage.faces[f])) # {}
<1> DEFINE face == cage.faces[f]
<1>1. face \in Seq(Int)
  <2>1. cage.faces \in [1 .. Len(cage.faces) -> Seq(Int)]
      BY DEF IsCage
  <2> QED
      BY <2>1
<1> HIDE DEF face
<1>2. Len(face) \in Nat /\ DOMAIN face = 1 .. Len(face)
    BY <1>1
<1>3. CASE Len(face) < 3
  <2>1. FacePtex(f, face) = <<>> /\ ~(2 < Len(face))
      BY <1>2, <1>3 DEF FacePtex
  <2> QED
      BY <2>1, Empty DEF face
<1>4. CASE Len(face) = 4
  <2> DEFINE ptex == [coarse |-> f, corners |-> [c \in 1 .. 4 |-> Vertex(face[c])]]
  <2>1. FacePtex(f, face) = <<ptex>>
      BY <1>4 DEF FacePtex
  <2>2. PtexOf(cage, f, ptex)
      BY <1>4 DEF PtexOf, IsCorner, face
  <2> HIDE DEF ptex
  <2>3. IsSeq(<<ptex>>) /\ Range(<<ptex>>) = {ptex}
      BY One
  <2> QED
      BY <2>1, <2>2, <2>3 DEF face
<1>5. CASE ~(Len(face) < 3) /\ Len(face) # 4
  <2> DEFINE at(c) == [coarse |-> f,
                       corners |-> <<Vertex(face[c]), EdgeMidpoint(face[c], Next1(face, c)),
                                     FaceCentre(f), EdgeMidpoint(Before1(face, c), face[c])>>]
             N == Len(face)
             s == FacePtex(f, face)
  <2>1. s = [c \in 1 .. N |-> at(c)]
      BY <1>2, <1>5 DEF FacePtex
  <2>2. ASSUME NEW c \in 1 .. N PROVE PtexOf(cage, f, at(c))
    <3> DEFINE four == at(c).corners
    <3>1. /\ four[1] = Vertex(face[c]) /\ four[2] = EdgeMidpoint(face[c], Next1(face, c))
          /\ four[3] = FaceCentre(f) /\ four[4] = EdgeMidpoint(Before1(face, c), face[c])
        OBVIOUS
    <3>2. 2 < Len(cage.faces[f])
        BY <1>2, <1>5 DEF face
    <3> HIDE DEF four
    <3>3. IsCorner(cage, four[1]) /\ IsCorner(cage, four[2]) /\ IsCorner(cage, four[3]) /\ IsCorner(cage, four[4])
        BY <3>1, <3>2 DEF IsCorner
    <3>4. \A side \in 1 .. 4 : side = 1 \/ side = 2 \/ side = 3 \/ side = 4
        OBVIOUS
    <3>5. \A side \in 1 .. 4 : IsCorner(cage, four[side])
        BY <3>3, <3>4
    <3>6. at(c).coarse = f
        OBVIOUS
    <3> QED
        BY <3>2, <3>5, <3>6 DEF PtexOf, four
  <2> HIDE DEF at, s
  <2>3. s = [c \in 1 .. N |-> s[c]] /\ \A c \in 1 .. N : s[c] = at(c)
    <3>1. \A c \in 1 .. N : s[c] = at(c)
        BY <2>1
    <3>2. [c \in 1 .. N |-> s[c]] = [c \in 1 .. N |-> at(c)]
        BY <3>1
    <3> QED
        BY <2>1, <3>1, <3>2
  <2>4. IsSeq(s) /\ Len(s) = N
      BY <1>2, <2>3, ListIsSeq
  <2>5. \A ptex \in Range(s) : \E c \in 1 .. N : s[c] = ptex
      BY <2>4, IsSeqOfItsOwn
  <2>6. \A ptex \in Range(s) : PtexOf(cage, f, ptex)
      BY <2>2, <2>3, <2>5
  <2>7. 1 \in 1 .. N
      BY <1>2, <1>5
  <2>8. s[1] \in Range(s)
      BY <2>4, <2>7, IsSeqOfItsOwn
  <2> QED
      BY <2>4, <2>6, <2>8 DEF s, face
<1> QED
    BY <1>3, <1>4, <1>5

\* The ptex faces of a cage, and that no face of three corners is without.
LEMMA PtexFacesAre ==
  ASSUME NEW cage, IsCage(cage)
  PROVE  /\ IsSeq(PtexFaces(cage))
         /\ \A k \in 1 .. Len(PtexFaces(cage)) :
              \E f \in DOMAIN cage.faces : PtexOf(cage, f, PtexFaces(cage)[k])
         /\ \A f \in DOMAIN cage.faces : 2 < Len(cage.faces[f]) =>
              \E k \in 1 .. Len(PtexFaces(cage)) : PtexFaces(cage)[k].coarse = f
<1> DEFINE N == Len(cage.faces)
           part(f) == FacePtex(f, cage.faces[f])
           parts == [f \in 1 .. N |-> part(f)]
           all == PtexFaces(cage)
<1>1. N \in Nat /\ DOMAIN cage.faces = 1 .. N
    BY DEF IsCage
<1>2. all = Concat(parts)
    BY <1>1 DEF PtexFaces
<1>3. \A f \in 1 .. N : /\ IsSeq(part(f)) /\ \A ptex \in Range(part(f)) : PtexOf(cage, f, ptex)
                        /\ 2 < Len(cage.faces[f]) => Range(part(f)) # {}
    BY <1>1, FacePtexIs
<1> HIDE DEF part, N, all
<1>4. parts = [f \in 1 .. N |-> parts[f]] /\ \A f \in 1 .. N : parts[f] = part(f)
    OBVIOUS
<1> HIDE DEF parts
<1>5. \A f \in 1 .. N : IsSeq(parts[f])
    BY <1>3, <1>4
<1>6. Parts(parts) /\ Len(parts) = N
    BY <1>1, <1>4, <1>5, PartsIs
<1>7. IsSeq(all) /\ Range(all) = UNION {Range(parts[f]) : f \in 1 .. N}
    BY <1>2, <1>6, ConcatIs
<1>8. ASSUME NEW k \in 1 .. Len(all) PROVE \E f \in DOMAIN cage.faces : PtexOf(cage, f, all[k])
  <2>1. all[k] \in Range(all)
      BY <1>7, IsSeqOfItsOwn
  <2>2. PICK f \in 1 .. N : all[k] \in Range(parts[f])
      BY <1>7, <2>1
  <2> QED
      BY <1>1, <1>3, <1>4, <2>2
<1>9. ASSUME NEW f \in DOMAIN cage.faces, 2 < Len(cage.faces[f])
      PROVE  \E k \in 1 .. Len(all) : all[k].coarse = f
  <2>1. PICK ptex : ptex \in Range(parts[f])
      BY <1>1, <1>3, <1>4, <1>9
  <2>2. ptex \in Range(all) /\ PtexOf(cage, f, ptex)
      BY <1>1, <1>3, <1>4, <1>7, <2>1
  <2>3. PICK k \in 1 .. Len(all) : all[k] = ptex
      BY <1>7, <2>2, IsSeqOfItsOwn
  <2> QED
      BY <2>2, <2>3 DEF PtexOf
<1> QED
    BY <1>7, <1>8, <1>9 DEF all

\* Two sides with the same two ends, whichever way each is walked.
SameSide(p, s, q, t) == Ends(p, s) = Ends(q, t) \/ Ends(p, s) = <<Ends(q, t)[2], Ends(q, t)[1]>>

\* A rate of the program's for every side of every ptex face, one to a side.
Rated(in, rs) ==
    /\ rs \in [1 .. Len(PtexFaces(in.cage)) -> [1 .. 4 -> Rates]]
    /\ \A p, q \in 1 .. Len(PtexFaces(in.cage)) : \A s, t \in 1 .. 4 :
         SameSide(PtexFaces(in.cage)[p], s, PtexFaces(in.cage)[q], t) => rs[p][s] = rs[q][t]

Settled == ~OverBudget \/ AllSingle(rates)
Estimates(rs) == [p \in DOMAIN rs |-> FaceEstimate(rs[p])]

Phases == {"placing", "removed", "rating", "budget", "evaluating", "uniform", "cage",
           "dressing", "published"}

\* The level is one the budget allows, and no route but the uniform one asks it.
LevelInv ==
    /\ input \in Inputs /\ phase \in Phases /\ choice \in Nat
    /\ choice = 0 \/ RefinedFaceCount(Len(input.cage.faces), choice) =< input.settings.budget
    /\ phase = "uniform" => 0 < choice
    /\ phase \notin {"placing", "removed"} => input.placements # <<>>

\* What is patched is the first of the ptex faces, each at its settled rates.
PatchInv ==
    /\ phase \in {"budget", "evaluating"} => Rated(input, rates) /\ rates # <<>>
    /\ phase = "evaluating" => Settled
    /\ mesh.route = "perFace" =>
         /\ Rated(input, rates) /\ Settled
         /\ IsSeq(mesh.patches) /\ IsSeq(mesh.coarse)
         /\ Len(mesh.patches) \in 1 .. Len(PtexFaces(input.cage))
         /\ \A k \in 1 .. Len(mesh.patches) :
              /\ mesh.patches[k] = PtexPatch(k, PtexFaces(input.cage)[k], rates[k])
              /\ PtexFaces(input.cage)[k].coarse \in Range(mesh.coarse)
         /\ Len(mesh.coarse) =< Upto(Estimates(rates), Len(mesh.patches))

\* What there is of a mesh where the Sync is.
Fields == {"route", "vertices", "coarse", "patches", "uvs", "uvsPerCorner", "normals",
           "normalsPerCorner", "triangleSubsets"}
Patched ==
    /\ mesh.route = "perFace"
    /\ mesh.uvs = IF HasChannel(input) THEN 3 * Len(mesh.coarse) ELSE 0
    /\ mesh.uvsPerCorner = HasChannel(input)
RouteInv ==
    /\ DOMAIN mesh = Fields
    /\ mesh.route # "perFace" => mesh.patches = <<>>
    /\ mesh.route = "uniform" => 0 < choice /\ mesh.coarse = UniformMesh(input, choice).coarse
    /\ phase \in {"placing", "rating", "budget", "uniform", "cage"} => mesh = NoMesh
    /\ phase = "evaluating" =>
         mesh = NoMesh \/ (Patched /\ Len(mesh.patches) < Len(PtexFaces(input.cage)))
    /\ phase = "dressing" =>
         \/ (Patched /\ Len(mesh.patches) = Len(PtexFaces(input.cage)))
         \/ (0 < choice /\ mesh = UniformMesh(input, choice))
         \/ mesh = CageMesh(input)

MeshInv == LevelInv /\ PatchInv /\ RouteInv /\ ArraysDescribeTheMesh

\* What is asked of the scene delegate has the types it has.
LEMMA InputsAre ==
  ASSUME NEW in \in Inputs
  PROVE  /\ IsCage(in.cage) /\ in.placements \in Seq(Int \X Int \X Int)
         /\ in.settings.level \in Nat /\ in.settings.offScreen \in Nat /\ in.settings.budget \in Nat
BY InputsAssumption DEF IsCage

\* The placement a face's rates are measured at is one of them.
LEMMA ChosenIs ==
  ASSUME NEW placements \in Seq(Int \X Int \X Int), placements # <<>>
  PROVE  ChosenPlacement(placements) \in Int \X Int \X Int
<1> DEFINE N == Len(placements)
           far(t) == Square(t[2]) + Square(t[3])
           S == {far(placements[n]) : n \in DOMAIN placements}
           nearest == {n \in DOMAIN placements :
                         \A m \in DOMAIN placements : far(placements[n]) =< far(placements[m])}
<1>1. N \in Nat /\ 0 < N /\ DOMAIN placements = 1 .. N /\ \A n \in 1 .. N : placements[n] \in Int \X Int \X Int
    BY EmptySeq
<1>2. \A x \in Int : x * x \in Nat
  <2>1. ASSUME NEW x \in Int PROVE x * x \in Nat
    <3>1. CASE 0 =< x
        BY <3>1
    <3>2. CASE x < 0
      <4>1. 0 - x \in Nat /\ x * x = (0 - x) * (0 - x)
          BY <3>2
      <4>2. (0 - x) * (0 - x) \in Nat
          BY <4>1
      <4> QED
          BY <4>1, <4>2
    <3> QED
        BY <3>1, <3>2
  <2> QED
      BY <2>1
<1>3. \A n \in 1 .. N : far(placements[n]) \in Nat
  <2>1. ASSUME NEW n \in 1 .. N PROVE far(placements[n]) \in Nat
    <3>1. PICK t \in Int \X Int \X Int : t = placements[n]
        BY <1>1
    <3>2. t[2] \in Int /\ t[3] \in Int
        BY <3>1
    <3>3. t[2] * t[2] \in Nat /\ t[3] * t[3] \in Nat
        BY <1>2, <3>2
    <3> QED
        BY <3>1, <3>3 DEF Square
  <2> QED
      BY <2>1
<1> HIDE DEF far
<1>4. S \in SUBSET Nat /\ S # {}
  <2>1. S \in SUBSET Nat
      BY <1>1, <1>3
  <2>2. 1 \in 1 .. N
      BY <1>1
  <2>3. far(placements[1]) \in S
      BY <1>1, <2>2
  <2> QED
      BY <2>1, <2>3
<1>5. PICK x \in S : \A y \in S : x =< y
  <2> HIDE DEF S
  <2> QED
      BY <1>4, HasLeast
<1>6. nearest # {} /\ nearest \in SUBSET Nat /\ nearest \subseteq 1 .. N
    BY <1>1, <1>5
<1>7. SmallestOf(nearest) \in nearest
  <2> HIDE DEF nearest
  <2> QED
      BY <1>6, SmallestIs
<1>8. ChosenPlacement(placements) = placements[SmallestOf(nearest)]
    BY DEF ChosenPlacement, far
<1> QED
    BY <1>1, <1>6, <1>7, <1>8

\* A placed position is one.
LEMMA PlacedIs ==
  ASSUME NEW placement \in Int \X Int \X Int, NEW p \in Int \X Int
  PROVE  Placed(placement, p) \in Int \X Int
BY DEF Placed

\* A side's rate is of its two ends, whichever is first.
LEMMA SideRateIs ==
  ASSUME NEW wanted, wanted.offScreen \in Nat, NEW seen,
         NEW p \in Int \X Int, NEW q \in Int \X Int
  PROVE  /\ SideRate(wanted, seen, p, q) \in Rates
         /\ SideRate(wanted, seen, p, q) = SideRate(wanted, seen, q, p)
<1>1. Plus(p, q) = Plus(q, p)
    BY PlusIs
<1>2. Apart2(p, q) = Apart2(q, p)
  <2>1. ASSUME NEW x \in Int, NEW y \in Int PROVE (x - y) * (x - y) = (y - x) * (y - x)
      OBVIOUS
  <2>2. p[1] \in Int /\ p[2] \in Int /\ q[1] \in Int /\ q[2] \in Int
      OBVIOUS
  <2>3. (p[1] - q[1]) * (p[1] - q[1]) = (q[1] - p[1]) * (q[1] - p[1])
      BY <2>1, <2>2
  <2>4. (p[2] - q[2]) * (p[2] - q[2]) = (q[2] - p[2]) * (q[2] - p[2])
      BY <2>1, <2>2
  <2> QED
      BY <2>3, <2>4, Zenon DEF Apart2, Square
<1>3. {p, q} = {q, p}
    OBVIOUS
<1>4. SideRate(wanted, seen, p, q) = SideRate(wanted, seen, q, p)
    BY <1>1, <1>2, <1>3, Zenon DEF SideRate
<1>5. SideRate(wanted, seen, p, q) \in Rates
  <2>1. \A depth2 : EdgeTessellationRate(4 * Apart2(p, q), depth2, seen) \in Rates
      BY EdgeRateIs
  <2>2. MaxRate \in Rates /\ EdgeRateForLevel(wanted.offScreen) \in Rates
      BY RatesAre, LevelRateIs
  <2>3. \A a, b : a \in Rates /\ b \in Rates => LeastOf(a, b) \in Rates
      BY DEF LeastOf
  <2> QED
      BY <2>1, <2>2, <2>3, Zenon DEF SideRate
<1> QED
    BY <1>4, <1>5

\* The rates measured are one to a side.
LEMMA RatesAreOneToASide ==
  ASSUME NEW in \in Inputs, in.placements # <<>>, PtexEdgeRates(in) # <<>>
  PROVE  Rated(in, PtexEdgeRates(in))
<1> DEFINE faces == PtexFaces(in.cage)
           N == Len(faces)
           at(corner) == Placed(ChosenPlacement(in.placements), PtexCornerPosition(in.cage, corner))
           rate(a, b) == SideRate(in.settings, in.view, a, b)
           rs == PtexEdgeRates(in)
<1>1. IsCage(in.cage) /\ in.settings.offScreen \in Nat
    BY InputsAre
<1>2. IsSeq(faces) /\ DOMAIN faces = 1 .. N /\ N \in Nat
    BY <1>1, PtexFacesAre, IsSeqOfItsOwn
<1>3. rs = [p \in 1 .. N |-> [side \in 1 .. 4 |->
               rate(at(faces[p].corners[side]), at(faces[p].corners[Following(side)]))]]
  <2>1. in.view.valid
      BY DEF PtexEdgeRates
  <2>2. rs = [p \in DOMAIN faces |-> [side \in 1 .. 4 |->
               rate(at(faces[p].corners[side]), at(faces[p].corners[Following(side)]))]]
      BY <2>1, Zenon DEF PtexEdgeRates
  <2> QED
      BY <1>2, <2>2
<1>4. ASSUME NEW p \in 1 .. N, NEW side \in 1 .. 4
      PROVE  at(faces[p].corners[side]) \in Int \X Int
  <2>1. PICK f \in DOMAIN in.cage.faces : PtexOf(in.cage, f, faces[p])
      BY <1>1, PtexFacesAre
  <2>2. IsCorner(in.cage, faces[p].corners[side])
      BY <2>1 DEF PtexOf
  <2>3. PtexCornerPosition(in.cage, faces[p].corners[side]) \in Int \X Int
      BY <1>1, <2>2, CornerIsPlaced
  <2>4. ChosenPlacement(in.placements) \in Int \X Int \X Int
      BY InputsAre, ChosenIs
  <2> QED
      BY <2>3, <2>4, PlacedIs
<1>5. \A side \in 1 .. 4 : Following(side) \in 1 .. 4
    BY DEF Following
<1>6. \A x, y \in Int \X Int : rate(x, y) \in Rates /\ rate(x, y) = rate(y, x)
    BY <1>1, SideRateIs
<1> HIDE DEF faces, rate, rs
<1>7. \A p \in 1 .. N : \A side \in 1 .. 4 :
         rs[p][side] = rate(at(faces[p].corners[side]), at(faces[p].corners[Following(side)]))
  <2> HIDE DEF at
  <2> QED
      BY <1>3
<1>8. rs \in [1 .. N -> [1 .. 4 -> Rates]]
  <2> DEFINE cell(p, side) == rate(at(faces[p].corners[side]), at(faces[p].corners[Following(side)]))
  <2>1. \A p \in 1 .. N : \A side \in 1 .. 4 : cell(p, side) \in Rates
    <3>1. ASSUME NEW p \in 1 .. N, NEW side \in 1 .. 4 PROVE cell(p, side) \in Rates
      <4>1. at(faces[p].corners[side]) \in Int \X Int /\ at(faces[p].corners[Following(side)]) \in Int \X Int
          BY <1>4, <1>5
      <4> HIDE DEF at
      <4> QED
          BY <1>6, <4>1
    <3> QED
        BY <3>1
  <2>2. rs = [p \in 1 .. N |-> [side \in 1 .. 4 |-> cell(p, side)]]
      BY <1>3
  <2> HIDE DEF cell
  <2> QED
      BY <2>1, <2>2
<1>9. ASSUME NEW p \in 1 .. N, NEW q \in 1 .. N, NEW s \in 1 .. 4, NEW t \in 1 .. 4,
             SameSide(faces[p], s, faces[q], t)
      PROVE  rs[p][s] = rs[q][t]
  <2> DEFINE a == faces[p].corners[s]
             b == faces[p].corners[Following(s)]
             c == faces[q].corners[t]
             d == faces[q].corners[Following(t)]
  <2>1. rs[p][s] = rate(at(a), at(b)) /\ rs[q][t] = rate(at(c), at(d))
      BY <1>7
  <2>2. (a = c /\ b = d) \/ (a = d /\ b = c)
      BY <1>9 DEF SameSide, Ends
  <2>3. at(c) \in Int \X Int /\ at(d) \in Int \X Int
      BY <1>4, <1>5
  <2> HIDE DEF a, b, c, d, at
  <2> QED
      BY <1>6, <2>1, <2>2, <2>3
<1> QED
    BY <1>8, <1>9 DEF Rated, faces, rs

\* Halved, they still are.
LEMMA HalvedAreOneToASide ==
  ASSUME NEW in, NEW rs, Rated(in, rs), Len(PtexFaces(in.cage)) \in Nat
  PROVE  Rated(in, HalveRates(rs)) /\ (rs # <<>> => HalveRates(rs) # <<>>)
<1> DEFINE N == Len(PtexFaces(in.cage))
           hs == HalveRates(rs)
           half(r) == MostOf(r \div 2, 1)
<1>1. rs \in [1 .. N -> [1 .. 4 -> Rates]]
    BY DEF Rated
<1>2. hs = [p \in 1 .. N |-> [side \in 1 .. 4 |-> half(rs[p][side])]]
    BY <1>1 DEF HalveRates
<1>3. \A r \in Rates : half(r) \in Rates
    BY RatesAre
<1> HIDE DEF half, hs
<1>4. hs \in [1 .. N -> [1 .. 4 -> Rates]] /\ \A p \in 1 .. N : \A s \in 1 .. 4 : hs[p][s] = half(rs[p][s])
    BY <1>1, <1>2, <1>3
<1>5. Rated(in, hs)
    BY <1>4 DEF Rated
<1>6. rs # <<>> => hs # <<>>
  <2>1. SUFFICES ASSUME hs = <<>> PROVE rs = <<>>
      OBVIOUS
  <2>2. DOMAIN hs = 1 .. N /\ DOMAIN <<>> = {}
      BY <1>2
  <2>3. 1 .. N = {}
      BY <2>1, <2>2
  <2>4. DOMAIN rs = {}
      BY <1>1, <2>3
  <2> QED
      BY <1>1, <2>3, <2>4
<1> QED
    BY <1>5, <1>6 DEF hs

\* The level chosen is the cage's own or one the budget allows.
LEMMA ChoiceFits ==
  ASSUME NEW in \in Inputs
  PROVE  /\ ChooseMeshTessellation(in) \in Nat
         /\ \/ ChooseMeshTessellation(in) = 0
            \/ RefinedFaceCount(Len(in.cage.faces), ChooseMeshTessellation(in)) =< in.settings.budget
<1> DEFINE wanted == in.settings
           seen == IF wanted.adaptive THEN in.view ELSE [in.view EXCEPT !.valid = FALSE]
           ceiling == IF wanted.adaptive /\ ~in.view.valid
                      THEN LeastOf(wanted.level, wanted.offScreen) ELSE wanted.level
           limits == [ceiling |-> ceiling, offScreen |-> wanted.offScreen, budget |-> wanted.budget]
           request == RequestFor(in.cage, in.placements)
           earned == LevelAsked(seen, request, limits)
           fits == {n \in 0 .. earned : n = 0 \/ RefinedFaceCount(request.faces, n) =< limits.budget}
<1>1. in.settings.level \in Nat /\ in.settings.offScreen \in Nat
    BY InputsAre
<1>2. limits.ceiling \in Nat /\ limits.offScreen \in Nat /\ limits.budget = in.settings.budget
  <2>1. limits.ceiling = ceiling /\ limits.offScreen = in.settings.offScreen /\ limits.budget = in.settings.budget
      OBVIOUS
  <2>2. ceiling \in Nat
      BY <1>1 DEF LeastOf
  <2> HIDE DEF limits
  <2> QED
      BY <1>1, <2>1, <2>2
<1>3. request.faces = Len(in.cage.faces)
    BY DEF RequestFor
<1>4. ChooseMeshTessellation(in) = GreatestOf(fits)
    BY Zenon DEF ChooseMeshTessellation, ChooseTessellation
<1> HIDE DEF limits, request, seen
<1>5. earned \in Nat
  <2> DEFINE depth2 == ScreenDepth2(seen, DistanceToBounds2(seen, request.low, request.high))
             enough == {n \in 0 .. limits.ceiling :
                     Square(2^n) * depth2 * request.per2
                        >= request.edge2 * Square(seen.focal)}
  <2>1. enough \union {limits.ceiling} \in SUBSET Nat /\ enough \union {limits.ceiling} # {}
      BY <1>2
  <2>2. SmallestOf(enough \union {limits.ceiling}) \in Nat
    <3> HIDE DEF enough
    <3>1. SmallestOf(enough \union {limits.ceiling}) \in enough \union {limits.ceiling}
        BY <2>1, SmallestIs
    <3> QED
        BY <2>1, <3>1
  <2>3. LeastOf(limits.offScreen, limits.ceiling) \in Nat
      BY <1>2 DEF LeastOf
  <2>4. \/ earned = limits.ceiling \/ earned = LeastOf(limits.offScreen, limits.ceiling)
        \/ earned = SmallestOf(enough \union {limits.ceiling})
      BY Zenon DEF LevelAsked
  <2> QED
      BY <1>2, <2>2, <2>3, <2>4
<1> HIDE DEF earned
<1>6. fits \in SUBSET (0 .. earned) /\ 0 \in fits
    BY <1>5
<1>7. GreatestOf(fits) \in fits
  <2> HIDE DEF fits
  <2>1. fits # {}
      BY <1>6
  <2> QED
      BY <1>5, <1>6, <2>1, GreatestIs
<1> QED
    BY <1>2, <1>3, <1>4, <1>5, <1>7

\* What there is before anything is made.
LEMMA NoMeshIs ==
  /\ DOMAIN NoMesh = Fields /\ NoMesh.route = "none" /\ NoMesh.patches = <<>>
  /\ NoMesh.coarse = <<>> /\ NoMesh.uvs = 0
BY DEF NoMesh, Fields

\* Dressing changes what is hung on the triangles and nothing else.
LEMMA DressedIs ==
  ASSUME NEW in, NEW m, DOMAIN m = Fields
  PROVE  /\ DOMAIN Dressed(in, m) = Fields
         /\ Dressed(in, m).route = m.route /\ Dressed(in, m).patches = m.patches
         /\ Dressed(in, m).coarse = m.coarse /\ Dressed(in, m).vertices = m.vertices
         /\ Dressed(in, m).triangleSubsets = TriangleSubsets(in, m)
         /\ Dressed(in, m).normals = NormalsOf(in, m)[1]
         /\ Dressed(in, m).normalsPerCorner = NormalsOf(in, m)[2]
         /\ Dressed(in, m).uvs = UvsOf(in, m)[1]
         /\ Dressed(in, m).uvsPerCorner = UvsOf(in, m)[2]
<1> DEFINE a == TriangleSubsets(in, m)
           b == NormalsOf(in, m)[1]
           c == NormalsOf(in, m)[2]
           d == UvsOf(in, m)[1]
           e == UvsOf(in, m)[2]
<1>1. Dressed(in, m) = [m EXCEPT !.triangleSubsets = a, !.normals = b, !.normalsPerCorner = c,
                                 !.uvs = d, !.uvsPerCorner = e]
    BY Zenon DEF Dressed
<1> HIDE DEF a, b, c, d, e
<1>2. \A f \in Fields : f \in DOMAIN m
    OBVIOUS
<1> QED
    BY <1>1, <1>2 DEF Fields, a, b, c, d, e

\* n is m with one more patch.
Grown(m, patch, channel, n) ==
    /\ DOMAIN n = Fields /\ n.route = "perFace"
    /\ n.patches = Append(m.patches, patch)
    /\ n.coarse = m.coarse \o [t \in 1 .. Len(patch.quad.triangles) |-> patch.coarse]
    /\ n.uvs = m.uvs + (IF channel THEN 3 * Len(patch.quad.triangles) ELSE 0)
    /\ n.uvsPerCorner = channel

\* What a patch adds.
LEMMA WithPatchIs ==
  ASSUME NEW m, DOMAIN m = Fields, NEW patch, NEW channel
  PROVE  Grown(m, patch, channel, [WithPatch(m, patch, channel) EXCEPT !.route = "perFace"])
<1> DEFINE made == Len(patch.quad.triangles)
           a == Append(m.patches, patch)
           b == m.vertices + Len(patch.quad.samples)
           c == m.coarse \o [t \in 1 .. made |-> patch.coarse]
           d == m.uvs + (IF channel THEN 3 * made ELSE 0)
           w == WithPatch(m, patch, channel)
<1>1. w = [m EXCEPT !.patches = a, !.vertices = b, !.coarse = c, !.uvs = d, !.uvsPerCorner = channel]
    BY Zenon DEF WithPatch
<1> HIDE DEF a, b, c, d, w
<1>2. /\ DOMAIN w = Fields /\ w.patches = a /\ w.coarse = c /\ w.uvs = d /\ w.uvsPerCorner = channel
    BY <1>1 DEF Fields
<1> DEFINE n == [w EXCEPT !.route = "perFace"]
<1>3. /\ DOMAIN n = Fields /\ n.route = "perFace" /\ n.patches = w.patches /\ n.coarse = w.coarse
      /\ n.uvs = w.uvs /\ n.uvsPerCorner = w.uvsPerCorner
    BY <1>2 DEF Fields
<1> QED
    BY <1>2, <1>3 DEF a, c, d, w, Grown

\* A list of so many copies.
LEMMA CopiesAre ==
  ASSUME NEW n \in Nat, NEW x
  PROVE  /\ IsSeq([t \in 1 .. n |-> x]) /\ Len([t \in 1 .. n |-> x]) = n
         /\ 0 < n => x \in Range([t \in 1 .. n |-> x])
<1> DEFINE s == [t \in 1 .. n |-> x]
<1>1. s = [t \in 1 .. n |-> s[t]] /\ \A t \in 1 .. n : s[t] = x
    OBVIOUS
<1> HIDE DEF s
<1>2. IsSeq(s) /\ Len(s) = n
    BY <1>1, ListIsSeq
<1>3. 0 < n => x \in Range(s)
  <2>1. SUFFICES ASSUME 0 < n PROVE x \in Range(s)
      OBVIOUS
  <2>2. 1 \in 1 .. Len(s)
      BY <1>2, <2>1
  <2>3. s[1] \in Range(s) /\ s[1] = x
      BY <1>1, <1>2, <2>2, IsSeqOfItsOwn
  <2> QED
      BY <2>3
<1> QED
    BY <1>2, <1>3 DEF s

\* So many triangles of each face.
Fans(faces, count) == Concat([f \in DOMAIN faces |-> [t \in 1 .. count[f] |-> f]])

\* Of so many triangles a face there are no more than the most of a face allows.
LEMMA FansAre ==
  ASSUME NEW faces \in Seq(Seq(Int)), NEW count, \A f \in DOMAIN faces : count[f] \in Nat
  PROVE  /\ IsSeq(Fans(faces, count))
         /\ \A f \in DOMAIN faces : 0 < count[f] => f \in Range(Fans(faces, count))
         /\ \A b \in Nat : (\A f \in DOMAIN faces : count[f] =< b)
               => Len(Fans(faces, count)) \in Nat /\ Len(Fans(faces, count)) =< Len(faces) * b
<1> DEFINE N == Len(faces)
           part(f) == [t \in 1 .. count[f] |-> f]
           parts == [f \in 1 .. N |-> part(f)]
<1>1. N \in Nat /\ DOMAIN faces = 1 .. N
    OBVIOUS
<1>2. Fans(faces, count) = Concat(parts)
    BY <1>1 DEF Fans
<1>3. \A f \in 1 .. N : IsSeq(part(f)) /\ Len(part(f)) = count[f] /\ (0 < count[f] => f \in Range(part(f)))
    BY <1>1, CopiesAre
<1> HIDE DEF part, N
<1>4. parts = [f \in 1 .. N |-> parts[f]] /\ \A f \in 1 .. N : parts[f] = part(f)
    OBVIOUS
<1> HIDE DEF parts
<1>5. \A f \in 1 .. N : IsSeq(parts[f])
    BY <1>3, <1>4
<1>6. Parts(parts) /\ Len(parts) = N
    BY <1>1, <1>4, <1>5, PartsIs
<1>7. IsSeq(Concat(parts)) /\ Range(Concat(parts)) = UNION {Range(parts[f]) : f \in 1 .. N}
    BY <1>6, ConcatIs
<1>8. ASSUME NEW f \in 1 .. N, 0 < count[f] PROVE f \in Range(Concat(parts))
  <2>1. f \in Range(parts[f])
      BY <1>3, <1>4, <1>8
  <2> QED
      BY <1>7, <2>1
<1>9. ASSUME NEW b \in Nat, \A f \in 1 .. N : count[f] =< b
      PROVE  Len(Concat(parts)) \in Nat /\ Len(Concat(parts)) =< N * b
  <2>1. \A f \in 1 .. N : Len(parts[f]) =< b
      BY <1>3, <1>4, <1>9
  <2> QED
      BY <1>6, <2>1, ConcatIsShort
<1> QED
    BY <1>1, <1>2, <1>7, <1>8, <1>9 DEF N

\* Uniform refinement: each face's descendants, and no more than the level makes.
LEMMA UniformIs ==
  ASSUME NEW in \in Inputs, NEW level \in Nat, 0 < level
  PROVE  LET m == UniformMesh(in, level)
         IN  /\ DOMAIN m = Fields /\ m.route = "uniform" /\ m.patches = <<>>
             /\ m.uvs = (CASE in.uvs = "faceVarying" -> 3 * Len(m.coarse)
                           [] in.uvs = "vertex" -> m.vertices
                           [] OTHER -> 0)
             /\ m.uvsPerCorner = (in.uvs = "faceVarying")
             /\ \A f \in DOMAIN in.cage.faces : 2 < Len(in.cage.faces[f]) => f \in Range(m.coarse)
             /\ (\A f \in DOMAIN in.cage.faces : Len(in.cage.faces[f]) =< 4) =>
                  Len(m.coarse) \in Nat /\ Len(m.coarse) =< 2 * RefinedFaceCount(Len(in.cage.faces), level)
<1> DEFINE faces == in.cage.faces
           count == [f \in DOMAIN faces |-> 2 * UniformFaces(in.cage, f, level)]
           m == UniformMesh(in, level)
           one == RefinedFaceCount(1, level - 1)
<1>1. faces \in Seq(Seq(Int)) /\ level - 1 \in Nat
    BY InputsAre DEF IsCage
<1>2. one \in Nat /\ 0 < one
    BY <1>1, RefinedIs
<1>3. \A f \in DOMAIN faces : Len(faces[f]) \in Nat
  <2>1. \A f \in DOMAIN faces : faces[f] \in Seq(Int)
      BY <1>1
  <2> QED
      BY <2>1
<1>4. \A f \in DOMAIN faces : UniformFaces(in.cage, f, level) = Len(faces[f]) * one
    BY <1>1, <1>3, RefinedIs DEF UniformFaces
<1>5. m.coarse = Concat([f \in DOMAIN faces |-> [t \in 1 .. 2 * UniformFaces(in.cage, f, level) |-> f]])
    BY DEF UniformMesh, NoMesh
<1>6. /\ DOMAIN m = Fields /\ m.route = "uniform" /\ m.patches = <<>>
      /\ m.uvsPerCorner = (in.uvs = "faceVarying")
    BY DEF UniformMesh, NoMesh, Fields
<1>7. m.uvs = (CASE in.uvs = "faceVarying" -> 3 * Len(m.coarse)
                 [] in.uvs = "vertex" -> m.vertices
                 [] OTHER -> 0)
    BY DEF UniformMesh, NoMesh
<1>8. \A f \in DOMAIN faces : count[f] = 2 * (Len(faces[f]) * one)
    BY <1>4
<1>9. m.coarse = Fans(faces, count)
  <2>1. \A f \in DOMAIN faces : [t \in 1 .. 2 * UniformFaces(in.cage, f, level) |-> f] = [t \in 1 .. count[f] |-> f]
      OBVIOUS
  <2>2. [f \in DOMAIN faces |-> [t \in 1 .. 2 * UniformFaces(in.cage, f, level) |-> f]]
          = [f \in DOMAIN faces |-> [t \in 1 .. count[f] |-> f]]
      BY <2>1
  <2> QED
      BY <1>5, <2>2, Zenon DEF Fans
<1> HIDE DEF faces, count, m, one
<1>10. \A f \in DOMAIN faces : count[f] \in Nat /\ (2 < Len(faces[f]) => 0 < count[f])
  <2>1. ASSUME NEW f \in DOMAIN faces PROVE count[f] \in Nat /\ (2 < Len(faces[f]) => 0 < count[f])
    <3>1. PICK l \in Nat : l = Len(faces[f])
        BY <1>3
    <3>2. count[f] = 2 * (l * one) /\ l * one \in Nat
        BY <1>2, <1>8, <3>1
    <3>3. 2 < l => 0 < l * one
      <4>1. SUFFICES ASSUME 2 < l PROVE 0 < l * one
          OBVIOUS
      <4>2. 1 * one =< l * one
          BY <1>2, <4>1
      <4> QED
          BY <1>2, <3>2, <4>2
    <3> QED
        BY <3>1, <3>2, <3>3
  <2> QED
      BY <2>1
<1>11. \A f \in DOMAIN faces : 2 < Len(faces[f]) => f \in Range(m.coarse)
    BY <1>1, <1>9, <1>10, FansAre
<1>12. ASSUME \A f \in DOMAIN faces : Len(faces[f]) =< 4
       PROVE  Len(m.coarse) \in Nat /\ Len(m.coarse) =< 2 * RefinedFaceCount(Len(faces), level)
  <2> DEFINE all == RefinedFaceCount(1, level)
             b == 2 * all
  <2>1. all \in Nat /\ all = 4 * one
      BY <1>2, RefinedOnceMore DEF one
  <2>2. \A f \in DOMAIN faces : count[f] =< b
    <3>1. ASSUME NEW f \in DOMAIN faces PROVE count[f] =< b
      <4>1. PICK l \in Nat : l = Len(faces[f]) /\ l =< 4
          BY <1>3, <1>12
      <4>2. l * one =< 4 * one
          BY <1>2, <4>1
      <4>3. l * one \in Nat /\ count[f] = 2 * (l * one)
          BY <1>2, <1>8, <4>1
      <4> QED
          BY <2>1, <4>2, <4>3
    <3> QED
        BY <3>1
  <2>3. Len(faces) \in Nat /\ b \in Nat
      BY <1>1, <2>1
  <2> HIDE DEF b, all
  <2>4. Len(m.coarse) \in Nat /\ Len(m.coarse) =< Len(faces) * b
      BY <1>1, <1>9, <1>10, <2>2, <2>3, FansAre
  <2>5. RefinedFaceCount(Len(faces), level) = Len(faces) * all
      BY <2>3, RefinedIs DEF all
  <2>6. Len(faces) * b = 2 * (Len(faces) * all)
      BY <2>1, <2>3 DEF b
  <2> QED
      BY <2>4, <2>5, <2>6
<1> QED
    BY <1>6, <1>7, <1>11, <1>12 DEF m, faces

\* The cage: a fan of every face that has three corners.
LEMMA CageIs ==
  ASSUME NEW in \in Inputs
  PROVE  LET m == CageMesh(in)
         IN  /\ DOMAIN m = Fields /\ m.route = "cage" /\ m.patches = <<>>
             /\ \A f \in DOMAIN in.cage.faces : 2 < Len(in.cage.faces[f]) => f \in Range(m.coarse)
<1> DEFINE faces == in.cage.faces
           count == [f \in DOMAIN faces |-> MostOf(Len(faces[f]) - 2, 0)]
           m == CageMesh(in)
<1>1. faces \in Seq(Seq(Int))
    BY InputsAre DEF IsCage
<1>2. /\ DOMAIN m = Fields /\ m.route = "cage" /\ m.patches = <<>>
      /\ m.coarse = Concat([f \in DOMAIN faces |-> [t \in 1 .. MostOf(Len(faces[f]) - 2, 0) |-> f]])
    BY DEF CageMesh, NoMesh, Fields
<1>3. m.coarse = Fans(faces, count)
  <2>1. \A f \in DOMAIN faces : [t \in 1 .. MostOf(Len(faces[f]) - 2, 0) |-> f] = [t \in 1 .. count[f] |-> f]
      OBVIOUS
  <2>2. [f \in DOMAIN faces |-> [t \in 1 .. MostOf(Len(faces[f]) - 2, 0) |-> f]]
          = [f \in DOMAIN faces |-> [t \in 1 .. count[f] |-> f]]
      BY <2>1
  <2> QED
      BY <1>2, <2>2, Zenon DEF Fans
<1>4. \A f \in DOMAIN faces : count[f] \in Nat /\ (2 < Len(faces[f]) => 0 < count[f])
  <2>1. ASSUME NEW f \in DOMAIN faces PROVE count[f] \in Nat /\ (2 < Len(faces[f]) => 0 < count[f])
    <3>1. faces[f] \in Seq(Int)
        BY <1>1
    <3>2. PICK l \in Nat : l = Len(faces[f])
        BY <3>1
    <3>3. count[f] = MostOf(l - 2, 0)
        BY <3>2
    <3> QED
        BY <3>2, <3>3 DEF MostOf
  <2> QED
      BY <2>1
<1> HIDE DEF faces, count, m
<1>5. \A f \in DOMAIN faces : 2 < Len(faces[f]) => f \in Range(m.coarse)
    BY <1>1, <1>3, <1>4, FansAre
<1> QED
    BY <1>2, <1>5 DEF faces, m

\* One thing more at the end of a sequence.
LEMMA AppendIs ==
  ASSUME NEW s, IsSeq(s), NEW x
  PROVE  /\ IsSeq(Append(s, x)) /\ Len(Append(s, x)) = Len(s) + 1
         /\ \A i \in 1 .. Len(s) : Append(s, x)[i] = s[i]
         /\ Append(s, x)[Len(s) + 1] = x
<1> DEFINE S == Range(s) \union {x}
<1>1. s \in Seq(S) /\ x \in S
  <2>1. s \in Seq(Range(s))
      BY IsSeqOfItsOwn
  <2> HIDE DEF S
  <2>2. Range(s) \subseteq S /\ x \in S
      BY DEF S
  <2> QED
      BY <2>1, <2>2, SeqMonotonic
<1> HIDE DEF S
<1>2. /\ Append(s, x) \in Seq(S) /\ Len(Append(s, x)) = Len(s) + 1
      /\ \A i \in 1 .. Len(s) : Append(s, x)[i] = s[i]
      /\ Append(s, x)[Len(s) + 1] = x
    BY <1>1, AppendProperties
<1> QED
    BY <1>2, SeqIsSeq

\* It holds before anything is made.
LEMMA MeshInvAtFirst == MeshInit => MeshInv
<1> SUFFICES ASSUME MeshInit PROVE MeshInv
    OBVIOUS
<1>1. LevelInv
    BY DEF MeshInit, LevelInv, Phases
<1>2. PatchInv
    BY NoMeshIs DEF MeshInit, PatchInv
<1>3. RouteInv
    BY NoMeshIs DEF MeshInit, RouteInv
<1>4. ArraysDescribeTheMesh
    BY DEF MeshInit, ArraysDescribeTheMesh
<1> QED
    BY <1>1, <1>2, <1>3, <1>4 DEF MeshInv

\* A step that leaves the mesh, and does not publish it, as it was.
LEMMA MeshInvStill ==
  ASSUME MeshInv, mesh = NoMesh, mesh' = mesh, LevelInv', phase' # "published", phase' # "dressing",
         phase' \in {"budget", "evaluating"} => Rated(input', rates') /\ rates' # <<>>,
         phase' = "evaluating" => Settled'
  PROVE  MeshInv'
<1>1. PatchInv'
    BY NoMeshIs DEF PatchInv
<1>2. RouteInv'
    BY NoMeshIs DEF RouteInv
<1>3. ArraysDescribeTheMesh'
    BY DEF ArraysDescribeTheMesh
<1> QED
    BY <1>1, <1>2, <1>3 DEF MeshInv

\* It holds after the level is chosen, or nothing is to be drawn.
LEMMA MeshInvChosen == ASSUME MeshInv, RemoveUnplaced \/ Choose PROVE MeshInv'
<1>1. mesh = NoMesh /\ mesh' = mesh
    BY DEF MeshInv, RouteInv, RemoveUnplaced, Choose
<1>2. CASE RemoveUnplaced
  <2>1. LevelInv'
      BY <1>2 DEF RemoveUnplaced, MeshInv, LevelInv, Phases
  <2> QED
      BY <1>1, <1>2, <2>1, MeshInvStill DEF RemoveUnplaced
<1>3. CASE Choose
  <2>1. input \in Inputs /\ input' = input /\ rates' = rates /\ choice' = ChooseMeshTessellation(input)
        /\ phase' \in {"rating", "uniform", "cage"} /\ input.placements # <<>>
        /\ (phase' = "uniform" => choice' > 0)
      BY <1>3 DEF Choose, MeshInv, LevelInv
  <2>2. /\ choice' \in Nat
        /\ choice' = 0 \/ RefinedFaceCount(Len(input.cage.faces), choice') =< input.settings.budget
      BY <2>1, ChoiceFits
  <2>3. LevelInv'
    <3>1. phase' \in Phases /\ (phase' = "uniform" => 0 < choice')
        BY <2>1, <2>2 DEF Phases
    <3> QED
        BY <2>1, <2>2, <3>1 DEF LevelInv
  <2> QED
      BY <1>1, <2>1, <2>3, MeshInvStill
<1> QED
    BY <1>2, <1>3

\* Uniform refinement is fallen back on for a level there is.
LEMMA FallbackIs ==
  ASSUME MeshInv PROVE Fallback \in {"uniform", "cage"} /\ (Fallback = "uniform" => 0 < choice)
BY DEF MeshInv, LevelInv, Fallback

\* It holds through measuring the rates, halving them and settling for them.
LEMMA MeshInvRated == ASSUME MeshInv, Rate \/ Halve \/ BeginPatches PROVE MeshInv'
<1>1. mesh = NoMesh /\ mesh' = mesh /\ input' = input /\ choice' = choice
    BY DEF MeshInv, RouteInv, Rate, Halve, BeginPatches
<1>2. input \in Inputs /\ input.placements # <<>>
    BY DEF MeshInv, LevelInv, Rate, Halve, BeginPatches
<1>3. CASE Rate
  <2>1. rates' = PtexEdgeRates(input) /\ phase' = IF rates' = <<>> THEN Fallback ELSE "budget"
      BY <1>3 DEF Rate
  <2>2. LevelInv'
    <3>1. phase' \in {"uniform", "cage", "budget"} /\ (phase' = "uniform" => 0 < choice)
        BY <2>1, FallbackIs
    <3> QED
        BY <1>1, <1>2, <3>1 DEF MeshInv, LevelInv, Phases
  <2>3. phase' = "budget" => Rated(input', rates') /\ rates' # <<>>
    <3>1. SUFFICES ASSUME phase' = "budget" PROVE Rated(input', rates') /\ rates' # <<>>
        OBVIOUS
    <3>2. PtexEdgeRates(input) # <<>>
        BY <2>1, <3>1, FallbackIs
    <3> QED
        BY <1>1, <1>2, <2>1, <3>2, RatesAreOneToASide
  <2>4. phase' # "published" /\ phase' # "dressing" /\ phase' # "evaluating"
      BY <2>1, FallbackIs
  <2> QED
      BY <1>1, <2>2, <2>3, <2>4, MeshInvStill
<1>4. CASE Halve
  <2>1. rates' = HalveRates(rates) /\ phase' = "budget" /\ phase = "budget"
      BY <1>4 DEF Halve
  <2>2. Rated(input, rates) /\ rates # <<>>
      BY <2>1 DEF MeshInv, PatchInv
  <2>3. Len(PtexFaces(input.cage)) \in Nat
      BY <1>2, InputsAre, PtexFacesAre, IsSeqOfItsOwn
  <2>4. Rated(input', rates') /\ rates' # <<>>
      BY <1>1, <2>1, <2>2, <2>3, HalvedAreOneToASide
  <2>5. LevelInv'
      BY <1>1, <1>2, <2>1 DEF MeshInv, LevelInv, Phases
  <2> QED
      BY <1>1, <2>1, <2>4, <2>5, MeshInvStill
<1>5. CASE BeginPatches
  <2>1. rates' = rates /\ phase' = "evaluating" /\ phase = "budget" /\ (~OverBudget \/ AllSingle(rates))
      BY <1>5 DEF BeginPatches
  <2>2. Rated(input, rates) /\ rates # <<>>
      BY <2>1 DEF MeshInv, PatchInv
  <2>3. Settled'
      BY <1>1, <2>1 DEF Settled, OverBudget
  <2>4. LevelInv'
      BY <1>1, <1>2, <2>1 DEF MeshInv, LevelInv, Phases
  <2> QED
      BY <1>1, <2>1, <2>2, <2>3, <2>4, MeshInvStill
<1> QED
    BY <1>3, <1>4, <1>5

\* It holds when the patches are refused.
LEMMA MeshInvRefused == ASSUME MeshInv, RefusePatches PROVE MeshInv'
<1>1. /\ phase = "evaluating" /\ mesh.patches = <<>> /\ phase' = Fallback
      /\ input' = input /\ choice' = choice /\ rates' = rates /\ mesh' = mesh
    BY DEF RefusePatches
<1>2. mesh = NoMesh
  <2>1. SUFFICES ASSUME mesh.route = "perFace" PROVE FALSE
      BY <1>1 DEF MeshInv, RouteInv, Patched
  <2>2. Len(mesh.patches) \in 1 .. Len(PtexFaces(input.cage))
      BY <2>1 DEF MeshInv, PatchInv
  <2>3. Len(mesh.patches) = 0
      BY <1>1, Empty
  <2> QED
      BY <2>2, <2>3
<1>3. phase' \in {"uniform", "cage"} /\ (phase' = "uniform" => 0 < choice)
    BY <1>1, FallbackIs
<1>4. LevelInv'
    BY <1>1, <1>3 DEF MeshInv, LevelInv, Phases
<1> QED
    BY <1>1, <1>2, <1>3, <1>4, MeshInvStill

\* What the budget reckons all the faces at, face by face.
LEMMA EstimatesAre ==
  ASSUME NEW in, NEW rs, Rated(in, rs), Len(PtexFaces(in.cage)) \in Nat
  PROVE  /\ \A k \in 1 .. Len(PtexFaces(in.cage)) :
              Estimates(rs)[k] = FaceEstimate(rs[k]) /\ Estimates(rs)[k] \in Nat /\ rs[k] \in [1 .. 4 -> Rates]
         /\ IsSeq(Estimates(rs)) /\ Len(Estimates(rs)) = Len(PtexFaces(in.cage))
         /\ TriangleEstimate(rs) = Upto(Estimates(rs), Len(PtexFaces(in.cage)))
<1> DEFINE N == Len(PtexFaces(in.cage))
           e == Estimates(rs)
<1>1. rs \in [1 .. N -> [1 .. 4 -> Rates]]
    BY DEF Rated
<1>2. \A k \in 1 .. N : e[k] = FaceEstimate(rs[k]) /\ rs[k] \in [1 .. 4 -> Rates]
    BY <1>1 DEF Estimates
<1>3. \A k \in 1 .. N : e[k] \in Nat
    BY <1>2, EstimateCovers
<1>4. e = [k \in 1 .. N |-> e[k]]
  <2>1. DOMAIN rs = 1 .. N
      BY <1>1
  <2> QED
      BY <2>1 DEF Estimates
<1>5. TriangleEstimate(rs) = Total(e)
    BY DEF TriangleEstimate, Estimates
<1> HIDE DEF e
<1>6. IsSeq(e) /\ Len(e) = N
    BY <1>4, ListIsSeq
<1>7. Total(e) = Upto(e, N)
    BY <1>6, TotalIsUpto
<1> QED
    BY <1>2, <1>3, <1>5, <1>6, <1>7 DEF e

\* It holds with one more face evaluated.
LEMMA MeshInvEvaluated == ASSUME MeshInv, Evaluate PROVE MeshInv'
<1> DEFINE faces == PtexFaces(input.cage)
           N == Len(faces)
           n == Len(mesh.patches)
           patch == PtexPatch(n + 1, faces[n + 1], rates[n + 1])
           made == Len(patch.quad.triangles)
           channel == HasChannel(input)
<1>1. /\ phase = "evaluating" /\ input' = input /\ choice' = choice /\ rates' = rates
      /\ mesh' = [WithPatch(mesh, patch, channel) EXCEPT !.route = "perFace"]
      /\ phase' = IF n + 1 = N THEN "dressing" ELSE phase
    BY Zenon DEF Evaluate
<1>2. input \in Inputs /\ Rated(input, rates) /\ rates # <<>> /\ Settled
    BY <1>1 DEF MeshInv, LevelInv, PatchInv
<1>3. IsSeq(faces) /\ N \in Nat
    BY <1>2, InputsAre, PtexFacesAre, IsSeqOfItsOwn
<1>4. rates \in [1 .. N -> [1 .. 4 -> Rates]] /\ 0 < N
  <2>1. rates \in [1 .. N -> [1 .. 4 -> Rates]]
      BY <1>2 DEF Rated
  <2>2. N # 0
    <3>1. SUFFICES ASSUME N = 0 PROVE FALSE
        OBVIOUS
    <3>2. 1 .. N = {}
        BY <3>1
    <3>3. rates = <<>>
        BY <2>1, <3>2
    <3> QED
        BY <1>2, <3>3
  <2> QED
      BY <1>3, <2>1, <2>2
<1>5. DOMAIN mesh = Fields /\ (mesh = NoMesh \/ (Patched /\ n < N))
    BY <1>1 DEF MeshInv, RouteInv
<1> DEFINE Have(m, k) ==
        /\ IsSeq(m.patches) /\ IsSeq(m.coarse) /\ Len(m.patches) = k
        /\ \A i \in 1 .. k : /\ m.patches[i] = PtexPatch(i, faces[i], rates[i])
                             /\ faces[i].coarse \in Range(m.coarse)
        /\ Len(m.coarse) =< Upto(Estimates(rates), k)
        /\ m.uvs = IF channel THEN 3 * Len(m.coarse) ELSE 0
<1>6. \A k \in 0 .. N : /\ Upto(Estimates(rates), k) \in Int
                        /\ k = 0 => Upto(Estimates(rates), k) = 0
                        /\ k < N => Upto(Estimates(rates), k + 1) = Upto(Estimates(rates), k) + Estimates(rates)[k + 1]
  <2>1. \A i \in 1 .. N : Estimates(rates)[i] \in Int
      BY <1>2, <1>3, EstimatesAre
  <2> HIDE DEF N
  <2> QED
      BY <1>3, <2>1, UptoIs
<1>7. n \in 0 .. N - 1 /\ Have(mesh, n)
  <2>1. CASE mesh = NoMesh
    <3>1. mesh.patches = <<>> /\ mesh.coarse = <<>> /\ mesh.uvs = 0
        BY <2>1, NoMeshIs
    <3>2. n = 0 /\ IsSeq(<<>>) /\ Len(<<>>) = 0
        BY <3>1, Empty
    <3>3. Upto(Estimates(rates), 0) = 0
        BY <1>3, <1>6
    <3>4. 0 \in 0 .. N - 1 /\ 1 .. 0 = {}
        BY <1>3, <1>4
    <3> HIDE DEF faces, N, channel
    <3>5. Have(mesh, 0)
        BY <3>1, <3>2, <3>3, <3>4
    <3> HIDE DEF Have
    <3> QED
        BY <3>2, <3>4, <3>5
  <2>2. CASE Patched /\ n < N
    <3>1. /\ IsSeq(mesh.patches) /\ IsSeq(mesh.coarse) /\ n \in 1 .. N
          /\ \A k \in 1 .. n : /\ mesh.patches[k] = PtexPatch(k, faces[k], rates[k])
                               /\ faces[k].coarse \in Range(mesh.coarse)
          /\ Len(mesh.coarse) =< Upto(Estimates(rates), n)
        BY <2>2 DEF MeshInv, PatchInv, Patched
    <3>2. mesh.uvs = IF channel THEN 3 * Len(mesh.coarse) ELSE 0
        BY <2>2 DEF Patched
    <3>3. n \in 0 .. N - 1
        BY <1>3, <2>2, <3>1
    <3> HIDE DEF faces, N, channel
    <3> QED
        BY <3>1, <3>2, <3>3
  <2> QED
      BY <1>5, <2>1, <2>2
<1>8. n + 1 \in 1 .. N /\ n \in 0 .. N /\ n < N /\ n \in Nat
    BY <1>3, <1>7
<1>9. rates[n + 1] \in [1 .. 4 -> Rates]
    BY <1>4, <1>8
<1>10. patch.quad = TessellateQuad(rates[n + 1]) /\ patch.coarse = faces[n + 1].coarse
    BY DEF PtexPatch
<1>11. made \in Nat /\ 0 < made /\ made =< Estimates(rates)[n + 1] /\ Estimates(rates)[n + 1] \in Nat
  <2>1. Estimates(rates)[n + 1] = FaceEstimate(rates[n + 1]) /\ Estimates(rates)[n + 1] \in Nat
      BY <1>2, <1>3, <1>8, EstimatesAre
  <2>2. /\ Len(TessellateQuad(rates[n + 1]).triangles) \in Nat
        /\ 0 < Len(TessellateQuad(rates[n + 1]).triangles)
        /\ Len(TessellateQuad(rates[n + 1]).triangles) =< FaceEstimate(rates[n + 1])
      BY <1>9, EstimateCovers
  <2> QED
      BY <1>10, <2>1, <2>2
<1>12. /\ DOMAIN mesh' = Fields /\ mesh'.route = "perFace"
       /\ mesh'.patches = Append(mesh.patches, patch)
       /\ mesh'.coarse = mesh.coarse \o [t \in 1 .. made |-> patch.coarse]
       /\ mesh'.uvs = mesh.uvs + (IF channel THEN 3 * made ELSE 0)
       /\ mesh'.uvsPerCorner = channel
  <2> HIDE DEF patch, channel, made
  <2>1. DOMAIN mesh = Fields /\ mesh' = [WithPatch(mesh, patch, channel) EXCEPT !.route = "perFace"]
      BY <1>1, <1>5
  <2>2. Grown(mesh, patch, channel, mesh')
      BY <2>1, WithPatchIs, Zenon
  <2> QED
      BY <2>2, Zenon DEF Grown, made
<1> HIDE DEF patch, made, channel
<1>13. Have(mesh', n + 1)
  <2> DEFINE new == [t \in 1 .. made |-> patch.coarse]
             old == mesh.coarse
  <2>1. IsSeq(new) /\ Len(new) = made /\ patch.coarse \in Range(new)
      BY <1>11, CopiesAre
  <2>2. IsSeq(old)
      BY <1>7
  <2>3. mesh'.coarse = old \o new
      BY <1>12
  <2> HIDE DEF new, old
  <2>4. IsSeq(old \o new) /\ Len(old \o new) = Len(old) + Len(new) /\ Range(old \o new) = Range(old) \union Range(new)
      BY <2>1, <2>2, Joined
  <2>5. /\ IsSeq(mesh'.patches) /\ Len(mesh'.patches) = n + 1
        /\ \A i \in 1 .. n : mesh'.patches[i] = mesh.patches[i]
        /\ mesh'.patches[n + 1] = patch
      BY <1>7, <1>12, AppendIs
  <2>6. ASSUME NEW i \in 1 .. n + 1
        PROVE  /\ mesh'.patches[i] = PtexPatch(i, faces[i], rates[i])
               /\ faces[i].coarse \in Range(mesh'.coarse)
    <3>1. CASE i = n + 1
      <4>1. mesh'.patches[i] = PtexPatch(i, faces[i], rates[i])
          BY <2>5, <3>1 DEF patch
      <4>2. faces[i].coarse \in Range(new)
          BY <1>10, <2>1, <3>1
      <4> QED
          BY <2>3, <2>4, <4>1, <4>2
    <3>2. CASE i # n + 1
      <4>1. i \in 1 .. n
          BY <1>8, <3>2
      <4>2. mesh.patches[i] = PtexPatch(i, faces[i], rates[i]) /\ faces[i].coarse \in Range(old)
          BY <1>7, <4>1 DEF old
      <4> QED
          BY <2>3, <2>4, <2>5, <4>1, <4>2
    <3> QED
        BY <3>1, <3>2
  <2>7. Len(mesh'.coarse) = Len(old) + made
      BY <2>1, <2>3, <2>4
  <2>8. Len(old) \in Nat /\ Len(old) =< Upto(Estimates(rates), n) /\ Upto(Estimates(rates), n) \in Int
        /\ Upto(Estimates(rates), n + 1) = Upto(Estimates(rates), n) + Estimates(rates)[n + 1]
      BY <1>6, <1>7, <1>8, <2>2, IsSeqOfItsOwn DEF old
  <2>9. Len(mesh'.coarse) =< Upto(Estimates(rates), n + 1)
      BY <1>11, <2>7, <2>8
  <2>10. mesh'.uvs = IF channel THEN 3 * Len(mesh'.coarse) ELSE 0
    <3>1. mesh.uvs = IF channel THEN 3 * Len(old) ELSE 0
        BY <1>7 DEF old
    <3>2. CASE channel
      <4>1. mesh'.uvs = 3 * Len(old) + 3 * made
          BY <1>12, <3>1, <3>2
      <4> QED
          BY <1>11, <2>7, <2>8, <3>2, <4>1
    <3>3. CASE ~channel
        BY <1>12, <3>1, <3>3
    <3> QED
        BY <3>2, <3>3
  <2>11. IsSeq(mesh'.coarse)
      BY <2>3, <2>4
  <2> HIDE DEF N
  <2> QED
      BY <2>5, <2>6, <2>9, <2>10, <2>11
<1>14. phase' = "evaluating" => n + 1 < N
    BY <1>1, <1>3, <1>8
<1>15. phase' \in {"evaluating", "dressing"}
    BY <1>1
<1>16. Len(mesh'.patches) = n + 1
    BY <1>13
<1>17. LevelInv'
    BY <1>1, <1>15 DEF MeshInv, LevelInv, Phases
<1>18. PatchInv'
  <2>1. Settled'
      BY <1>1, <1>2 DEF Settled, OverBudget
  <2>2. Rated(input', rates') /\ rates' # <<>>
      BY <1>1, <1>2
  <2>3. Len(mesh'.patches) \in 1 .. N
      BY <1>8, <1>16
  <2>4. faces = PtexFaces(input'.cage)
      BY <1>1
  <2> DEFINE M == mesh'
  <2>5. Have(M, n + 1) /\ Len(M.patches) = n + 1 /\ Len(M.patches) \in 1 .. N
      BY <1>13, <1>16, <2>3
  <2> HIDE DEF M, n
  <2>6. /\ IsSeq(M.patches) /\ IsSeq(M.coarse) /\ Len(M.patches) \in 1 .. N
        /\ \A k \in 1 .. Len(M.patches) : /\ M.patches[k] = PtexPatch(k, faces[k], rates[k])
                                          /\ faces[k].coarse \in Range(M.coarse)
        /\ Len(M.coarse) =< Upto(Estimates(rates), Len(M.patches))
      BY <2>5
  <2> QED
      BY <1>1, <2>1, <2>2, <2>4, <2>6 DEF PatchInv, M
<1>19. RouteInv'
  <2>1. mesh'.uvs = IF channel THEN 3 * Len(mesh'.coarse) ELSE 0
      BY <1>13
  <2>2. Patched'
      BY <1>1, <1>12, <2>1 DEF Patched, channel
  <2>3. phase' = "evaluating" => Len(mesh'.patches) < N
      BY <1>14, <1>16
  <2>4. phase' = "dressing" => Len(mesh'.patches) = N
    <3>1. phase' = "dressing" => n + 1 = N
        BY <1>1
    <3> QED
        BY <1>16, <3>1
  <2>5. faces = PtexFaces(input'.cage)
      BY <1>1
  <2> HIDE DEF Have
  <2> QED
      BY <1>12, <1>15, <2>2, <2>3, <2>4, <2>5 DEF RouteInv
<1>20. ArraysDescribeTheMesh'
    BY <1>15 DEF ArraysDescribeTheMesh
<1> QED
    BY <1>17, <1>18, <1>19, <1>20 DEF MeshInv

\* It holds after uniform refinement, made or refused.
LEMMA MeshInvUniform == ASSUME MeshInv, RefineUniformly PROVE MeshInv'
<1>1. /\ phase = "uniform" /\ mesh = NoMesh /\ input' = input /\ choice' = choice /\ rates' = rates
      /\ input \in Inputs /\ choice \in Nat /\ 0 < choice
    BY DEF MeshInv, RouteInv, LevelInv, RefineUniformly
<1>2. CASE mesh' = mesh /\ phase' = "cage"
  <2>1. LevelInv'
      BY <1>1, <1>2 DEF MeshInv, LevelInv, Phases
  <2> QED
      BY <1>1, <1>2, <2>1, MeshInvStill
<1>3. CASE mesh' = UniformMesh(input, choice) /\ phase' = "dressing"
  <2>1. LevelInv'
      BY <1>1, <1>3 DEF MeshInv, LevelInv, Phases
  <2>2. DOMAIN mesh' = Fields /\ mesh'.route = "uniform" /\ mesh'.patches = <<>>
      BY <1>1, <1>3, UniformIs
  <2>3. PatchInv'
      BY <1>3, <2>2 DEF PatchInv
  <2>4. RouteInv'
      BY <1>1, <1>3, <2>2 DEF RouteInv
  <2>5. ArraysDescribeTheMesh'
      BY <1>3 DEF ArraysDescribeTheMesh
  <2> QED
      BY <2>1, <2>3, <2>4, <2>5 DEF MeshInv
<1> QED
    BY <1>2, <1>3 DEF RefineUniformly

\* It holds after the cage is fanned.
LEMMA MeshInvCage == ASSUME MeshInv, RenderTheCage PROVE MeshInv'
<1>1. /\ phase = "cage" /\ input' = input /\ choice' = choice /\ rates' = rates
      /\ input \in Inputs /\ mesh' = CageMesh(input) /\ phase' \in {"removed", "dressing"}
    BY DEF MeshInv, LevelInv, RenderTheCage
<1>2. LevelInv'
    BY <1>1 DEF MeshInv, LevelInv, Phases
<1>3. DOMAIN mesh' = Fields /\ mesh'.route = "cage" /\ mesh'.patches = <<>>
    BY <1>1, CageIs
<1>4. PatchInv'
    BY <1>1, <1>3 DEF PatchInv
<1>5. RouteInv'
    BY <1>1, <1>3 DEF RouteInv
<1>6. ArraysDescribeTheMesh'
    BY <1>1 DEF ArraysDescribeTheMesh
<1> QED
    BY <1>2, <1>4, <1>5, <1>6 DEF MeshInv

\* What waits to be dressed has a triangle of every face of three corners.
LEMMA UndressedCovers ==
  ASSUME MeshInv, phase = "dressing"
  PROVE  \A f \in DOMAIN input.cage.faces :
            Len(input.cage.faces[f]) > 2 => f \in Range(mesh.coarse)
<1> DEFINE faces == PtexFaces(input.cage)
           N == Len(faces)
<1>1. input \in Inputs /\ IsCage(input.cage) /\ choice \in Nat
    BY InputsAre DEF MeshInv, LevelInv
<1>2. CASE Patched /\ Len(mesh.patches) = N
  <2>1. \A k \in 1 .. N : faces[k].coarse \in Range(mesh.coarse)
      BY <1>2 DEF MeshInv, PatchInv, Patched
  <2>2. IsSeq(faces) /\ DOMAIN faces = 1 .. N
      BY <1>1, PtexFacesAre, IsSeqOfItsOwn
  <2>3. \A f \in DOMAIN input.cage.faces :
            Len(input.cage.faces[f]) > 2 => \E k \in 1 .. N : faces[k].coarse = f
      BY <1>1, <2>2, PtexFacesAre
  <2> HIDE DEF faces
  <2> QED
      BY <2>1, <2>3
<1>3. CASE 0 < choice /\ mesh = UniformMesh(input, choice)
    BY <1>1, <1>3, UniformIs
<1>4. CASE mesh = CageMesh(input)
    BY <1>1, <1>4, CageIs
<1> QED
    BY <1>2, <1>3, <1>4 DEF MeshInv, RouteInv

\* It holds of what is published.
LEMMA MeshInvDressed == ASSUME MeshInv, Dress PROVE MeshInv'
<1>1. /\ phase = "dressing" /\ input' = input /\ choice' = choice /\ rates' = rates
      /\ phase' = "published" /\ mesh' = Dressed(input, mesh) /\ DOMAIN mesh = Fields
      /\ input \in Inputs /\ choice \in Nat
    BY DEF MeshInv, LevelInv, RouteInv, Dress
<1>2. /\ DOMAIN mesh' = Fields
      /\ mesh'.route = mesh.route /\ mesh'.patches = mesh.patches
      /\ mesh'.coarse = mesh.coarse /\ mesh'.vertices = mesh.vertices
      /\ mesh'.triangleSubsets = TriangleSubsets(input, mesh)
      /\ mesh'.normals = NormalsOf(input, mesh)[1]
      /\ mesh'.normalsPerCorner = NormalsOf(input, mesh)[2]
      /\ mesh'.uvs = UvsOf(input, mesh)[1]
      /\ mesh'.uvsPerCorner = UvsOf(input, mesh)[2]
    BY <1>1, DressedIs
<1>3. LevelInv'
    BY <1>1 DEF MeshInv, LevelInv, Phases
<1>4. PatchInv'
    BY <1>1, <1>2 DEF MeshInv, PatchInv, Settled, OverBudget
<1>5. RouteInv'
    BY <1>1, <1>2 DEF MeshInv, RouteInv
<1> DEFINE corners == 3 * Len(mesh.coarse)
           count(perCorner) == IF perCorner THEN corners ELSE mesh.vertices
<1>6. mesh'.uvs = (IF HasChannel(input) THEN count(mesh'.uvsPerCorner) ELSE 0)
  <2> HIDE DEF corners
  <2>1. CASE Patched
    <3>1. mesh.uvs = (IF HasChannel(input) THEN corners ELSE 0) /\ mesh.uvsPerCorner = HasChannel(input)
          /\ mesh.route = "perFace"
        BY <2>1 DEF Patched, corners
    <3>2. mesh'.uvs = mesh.uvs /\ mesh'.uvsPerCorner = mesh.uvsPerCorner
        BY <1>2, <3>1 DEF UvsOf, Subdivided
    <3> QED
        BY <3>1, <3>2
  <2>2. CASE 0 < choice /\ mesh = UniformMesh(input, choice)
    <3>1. /\ mesh.route = "uniform"
          /\ mesh.uvs = (CASE input.uvs = "faceVarying" -> corners
                           [] input.uvs = "vertex" -> mesh.vertices
                           [] OTHER -> 0)
          /\ mesh.uvsPerCorner = (input.uvs = "faceVarying")
        BY <1>1, <2>2, UniformIs DEF corners
    <3>2. mesh'.uvs = mesh.uvs /\ mesh'.uvsPerCorner = mesh.uvsPerCorner
        BY <1>2, <3>1 DEF UvsOf, Subdivided
    <3> QED
        BY <3>1, <3>2 DEF HasChannel
  <2>3. CASE mesh = CageMesh(input)
    <3>1. mesh.route = "cage"
        BY <1>1, <2>3, CageIs
    <3>2. UvsOf(input, mesh) = CASE input.uvs = "faceVarying" -> <<corners, TRUE>>
           [] input.uvs = "vertex" -> <<mesh.vertices, FALSE>>
           [] OTHER -> <<0, FALSE>>
        BY <3>1 DEF UvsOf, Subdivided, corners
    <3> QED
        BY <1>2, <3>2 DEF HasChannel
  <2> QED
      BY <1>1, <2>1, <2>2, <2>3 DEF MeshInv, RouteInv
<1>7. mesh'.normals = count(mesh'.normalsPerCorner)
  <2> HIDE DEF corners
  <2>1. CASE NormalsOf(input, mesh) = <<corners, TRUE>>
    <3>1. mesh'.normals = corners /\ mesh'.normalsPerCorner = TRUE
        BY <1>2, <2>1
    <3> QED
        BY <3>1
  <2>2. CASE NormalsOf(input, mesh) = <<mesh.vertices, FALSE>>
    <3>1. mesh'.normals = mesh.vertices /\ mesh'.normalsPerCorner = FALSE
        BY <1>2, <2>2
    <3> QED
        BY <3>1
  <2> QED
      BY <2>1, <2>2, Zenon DEF NormalsOf, corners
<1>8. input.subsets # <<>> => DOMAIN mesh'.triangleSubsets = DOMAIN mesh.coarse
    BY <1>2 DEF TriangleSubsets
<1>9. \A f \in DOMAIN input.cage.faces :
            Len(input.cage.faces[f]) > 2 => f \in Range(mesh.coarse)
    BY <1>1, UndressedCovers
<1>10. ArraysDescribeTheMesh'
    BY <1>1, <1>2, <1>6, <1>7, <1>8, <1>9, Zenon DEF ArraysDescribeTheMesh
<1> QED
    BY <1>3, <1>4, <1>5, <1>10 DEF MeshInv

\* The inductive invariant of a mesh's Sync, for any inputs and any finest rate
\* of the program's: what is patched so far is the first of the ptex faces, each
\* at its settled rate, and every other route made what that route makes.
THEOREM MeshInvHolds == MeshSpec => []MeshInv
<1>1. ASSUME MeshInv, [MeshNext]_meshVars PROVE MeshInv'
  <2>1. CASE RemoveUnplaced \/ Choose
      BY <1>1, <2>1, MeshInvChosen
  <2>2. CASE Rate \/ Halve \/ BeginPatches
      BY <1>1, <2>2, MeshInvRated
  <2>3. CASE RefusePatches
      BY <1>1, <2>3, MeshInvRefused
  <2>4. CASE Evaluate
      BY <1>1, <2>4, MeshInvEvaluated
  <2>5. CASE RefineUniformly
      BY <1>1, <2>5, MeshInvUniform
  <2>6. CASE RenderTheCage
      BY <1>1, <2>6, MeshInvCage
  <2>7. CASE Dress
      BY <1>1, <2>7, MeshInvDressed
  <2>8. CASE UNCHANGED meshVars
      BY <1>1, <2>8 DEF meshVars, MeshInv, LevelInv, PatchInv, RouteInv, Patched, Settled, OverBudget,
                        ArraysDescribeTheMesh
  <2> QED
      BY <1>1, <2>1, <2>2, <2>3, <2>4, <2>5, <2>6, <2>7, <2>8 DEF MeshNext
<1> QED
    BY <1>1, MeshInvAtFirst, PTL DEF MeshSpec

\* Whatever is published describes itself (HdClaudeMesh::Sync): coordinates and
\* normals one per vertex or per corner, a subset for every triangle, and a
\* triangle of every coarse face that has three corners.
THEOREM ArraysDescribed == MeshSpec => []ArraysDescribeTheMesh
<1>1. MeshInv => ArraysDescribeTheMesh
    BY DEF MeshInv
<1> QED
    BY <1>1, MeshInvHolds, PTL

\* What the invariant says of the rates is enough for the budget.
LEMMA BudgetIsHeld == MeshInv => BudgetHolds
<1> SUFFICES ASSUME MeshInv PROVE BudgetHolds
    OBVIOUS
<1> DEFINE N == Len(PtexFaces(input.cage))
<1>1. input \in Inputs /\ IsCage(input.cage) /\ choice \in Nat /\ input.settings.budget \in Nat
    BY InputsAre DEF MeshInv, LevelInv
<1>2. N \in Nat
    BY <1>1, PtexFacesAre, IsSeqOfItsOwn
<1>3. ASSUME mesh.route = "perFace", ~AllSingle(rates)
      PROVE  Len(mesh.coarse) =< input.settings.budget
  <2>1. /\ Rated(input, rates) /\ Settled /\ IsSeq(mesh.coarse)
        /\ Len(mesh.patches) \in 1 .. N
        /\ Len(mesh.coarse) =< Upto(Estimates(rates), Len(mesh.patches))
      BY <1>3 DEF MeshInv, PatchInv
  <2>2. ~(TriangleEstimate(rates) > input.settings.budget)
      BY <1>3, <2>1 DEF Settled, OverBudget
  <2>3. /\ \A k \in 1 .. N : Estimates(rates)[k] \in Nat
        /\ TriangleEstimate(rates) = Upto(Estimates(rates), N)
      BY <1>2, <2>1, EstimatesAre
  <2> HIDE DEF N
  <2>4. /\ \A k \in 0 .. N : Upto(Estimates(rates), k) \in Nat
                             /\ Upto(Estimates(rates), k) =< Upto(Estimates(rates), N)
      BY <1>2, <2>3, UptoGrows
  <2>5. Len(mesh.coarse) \in Nat
      BY <2>1, IsSeqOfItsOwn
  <2>6. PICK n \in Nat : n = Len(mesh.patches) /\ n \in 0 .. N
      BY <1>2, <2>1
  <2>7. PICK a \in Nat : a = Upto(Estimates(rates), n) /\ a =< Upto(Estimates(rates), N)
      BY <2>4, <2>6
  <2>8. Upto(Estimates(rates), N) \in Nat
      BY <1>2, <2>4
  <2> QED
      BY <1>1, <2>1, <2>2, <2>3, <2>5, <2>6, <2>7, <2>8
<1>4. ASSUME mesh.route = "uniform", \A f \in DOMAIN input.cage.faces : Len(input.cage.faces[f]) =< 4
      PROVE  Len(mesh.coarse) =< 2 * input.settings.budget
  <2>1. 0 < choice /\ mesh.coarse = UniformMesh(input, choice).coarse
      BY <1>4 DEF MeshInv, RouteInv
  <2>2. RefinedFaceCount(Len(input.cage.faces), choice) =< input.settings.budget
      BY <1>1, <2>1 DEF MeshInv, LevelInv
  <2>3. Len(mesh.coarse) \in Nat
        /\ Len(mesh.coarse) =< 2 * RefinedFaceCount(Len(input.cage.faces), choice)
      BY <1>1, <1>4, <2>1, UniformIs
  <2>4. RefinedFaceCount(Len(input.cage.faces), choice) \in Nat
    <3>1. Len(input.cage.faces) \in Nat
        BY <1>1 DEF IsCage
    <3> QED
        BY <1>1, <3>1, RefinedIs
  <2> QED
      BY <1>1, <2>2, <2>3, <2>4
<1> QED
    BY <1>3, <1>4 DEF BudgetHolds

\* The face budget has the last word (HdClaudePtexEdgeRates and
\* ChooseTessellation): a face never makes more triangles than it was reckoned
\* at, so no mesh is over the budget unless every side is one segment already.
THEOREM BudgetHeld == MeshSpec => []BudgetHolds
    BY MeshInvHolds, BudgetIsHeld, PTL

\* The patches there are, each of its own ptex face at its own rates.
LEMMA PatchIs ==
  ASSUME MeshInv, NEW patch \in Range(mesh.patches)
  PROVE  \E k \in 1 .. Len(PtexFaces(input.cage)) :
            /\ patch = PtexPatch(k, PtexFaces(input.cage)[k], rates[k])
            /\ rates[k] \in [1 .. 4 -> Rates] /\ Rated(input, rates)
<1>1. mesh.route = "perFace"
  <2>1. SUFFICES ASSUME mesh.route # "perFace" PROVE FALSE
      OBVIOUS
  <2>2. mesh.patches = <<>>
      BY <2>1 DEF MeshInv, RouteInv
  <2> QED
      BY <2>2 DEF Range
<1>2. /\ Rated(input, rates) /\ IsSeq(mesh.patches)
      /\ Len(mesh.patches) \in 1 .. Len(PtexFaces(input.cage))
      /\ \A k \in 1 .. Len(mesh.patches) : mesh.patches[k] = PtexPatch(k, PtexFaces(input.cage)[k], rates[k])
    BY <1>1 DEF MeshInv, PatchInv
<1>3. PICK k \in 1 .. Len(mesh.patches) : patch = mesh.patches[k]
  <2>1. DOMAIN mesh.patches = 1 .. Len(mesh.patches)
      BY <1>2, IsSeqOfItsOwn
  <2> QED
      BY <2>1 DEF Range
<1>4. k \in 1 .. Len(PtexFaces(input.cage))
  <2>1. Len(PtexFaces(input.cage)) \in Nat
      BY InputsAre, PtexFacesAre, IsSeqOfItsOwn DEF MeshInv, LevelInv
  <2> QED
      BY <1>2, <1>3, <2>1
<1>5. rates[k] \in [1 .. 4 -> Rates]
    BY <1>2, <1>4 DEF Rated
<1> QED
    BY <1>2, <1>3, <1>4, <1>5

\* What the invariant says of the rates is enough for the sides.
LEMMA SidesDoAgree == MeshInv => SidesAgree
<1> SUFFICES ASSUME MeshInv, NEW p \in Range(mesh.patches), NEW q \in Range(mesh.patches),
                    NEW s \in 1 .. 4, NEW t \in 1 .. 4
             PROVE  /\ Ends(p, s) = Ends(q, t) => SideSamples(p, s) = SideSamples(q, t)
                    /\ Ends(p, s) = <<Ends(q, t)[2], Ends(q, t)[1]>>
                         => SideSamples(p, s) = Backwards(SideSamples(q, t))
    BY DEF SidesAgree
<1> DEFINE faces == PtexFaces(input.cage)
<1>1. PICK k \in 1 .. Len(faces) : /\ p = PtexPatch(k, faces[k], rates[k])
                                   /\ rates[k] \in [1 .. 4 -> Rates] /\ Rated(input, rates)
    BY PatchIs
<1>2. PICK l \in 1 .. Len(faces) : /\ q = PtexPatch(l, faces[l], rates[l])
                                   /\ rates[l] \in [1 .. 4 -> Rates]
    BY PatchIs
<1>3. SideSamples(p, s) = SegmentsOf(rates[k][s])
  <2>1. p.quad = TessellateQuad(rates[k])
      BY <1>1 DEF PtexPatch
  <2> QED
      BY <1>1, <2>1, SideSamplesAre
<1>4. SideSamples(q, t) = SegmentsOf(rates[l][t])
  <2>1. q.quad = TessellateQuad(rates[l])
      BY <1>2 DEF PtexPatch
  <2> QED
      BY <1>2, <2>1, SideSamplesAre
<1>5. Ends(p, s) = Ends(faces[k], s) /\ Ends(q, t) = Ends(faces[l], t)
    BY <1>1, <1>2 DEF Ends, PtexPatch
<1>6. SameSide(faces[k], s, faces[l], t) => rates[k][s] = rates[l][t]
    BY <1>1 DEF Rated
<1>7. rates[l][t] \in Rates
    BY <1>2
<1>8. SegmentsOf(rates[l][t]) = Backwards(SegmentsOf(rates[l][t]))
    BY <1>7, SegmentsTurn
<1> HIDE DEF faces
<1>9. ASSUME Ends(p, s) = Ends(q, t) PROVE SideSamples(p, s) = SideSamples(q, t)
    BY <1>3, <1>4, <1>5, <1>6, <1>9 DEF SameSide
<1>10. ASSUME Ends(p, s) = <<Ends(q, t)[2], Ends(q, t)[1]>>
       PROVE  SideSamples(p, s) = Backwards(SideSamples(q, t))
    BY <1>3, <1>4, <1>5, <1>6, <1>8, <1>10 DEF SameSide
<1> QED
    BY <1>9, <1>10

\* Two domains that share a side put the same samples on it (TessellateQuad and
\* HdClaudePtexEdgeRates): a rate is of its two ends alone, halving keeps it so,
\* and a face samples a side at that side's rate whatever its other three are.
THEOREM NoTJunctions == MeshSpec => []SidesAgree
    BY MeshInvHolds, SidesDoAgree, PTL

-----------------------------------------------------------------------------
(* Triangles that share no directed edge, and what they weigh.              *)

\* The directed edges of some triangles; each has its own three.
Rim(s) == UNION {DirectedEdges(t) : t \in Range(s)}
Neat(s) == IsSeq(s) /\ IsFiniteSet(Rim(s)) /\ Cardinality(Rim(s)) = 3 * Len(s)

\* Triangles that share no edge with others share none together.
LEMMA NeatJoined ==
  ASSUME NEW s, NEW t, Neat(s), Neat(t), Rim(s) \cap Rim(t) = {}
  PROVE  Neat(s \o t) /\ Rim(s \o t) = Rim(s) \union Rim(t)
<1>1. /\ IsSeq(s \o t) /\ Len(s \o t) = Len(s) + Len(t) /\ Len(s) \in Nat /\ Len(t) \in Nat
      /\ Range(s \o t) = Range(s) \union Range(t)
    BY Joined, IsSeqOfItsOwn DEF Neat
<1>2. Rim(s \o t) = Rim(s) \union Rim(t)
    BY <1>1 DEF Rim
<1>3. /\ IsFiniteSet(Rim(s)) /\ Cardinality(Rim(s)) = 3 * Len(s)
      /\ IsFiniteSet(Rim(t)) /\ Cardinality(Rim(t)) = 3 * Len(t)
    BY DEF Neat
<1> DEFINE A == Rim(s)
           B == Rim(t)
<1> HIDE DEF A, B
<1>4. IsFiniteSet(A) /\ IsFiniteSet(B) /\ A \cap B = {}
    BY <1>3 DEF A, B
<1>5. /\ IsFiniteSet(A \cup B)
      /\ Cardinality(A \cup B) = Cardinality(A) + Cardinality(B) - Cardinality(A \cap B)
    BY <1>4, FS_Union
<1>6. Cardinality(A \cap B) = 0
    BY <1>4, FS_EmptySet
<1>7. IsFiniteSet(A \cup B) /\ Cardinality(A \cup B) = 3 * (Len(s) + Len(t))
    BY <1>1, <1>3, <1>5, <1>6 DEF A, B
<1> QED
    BY <1>1, <1>2, <1>7 DEF Neat, A, B

\* Parts that share no edge with one another share none together.
LEMMA NeatConcat ==
  ASSUME NEW parts, Parts(parts), \A k \in 1 .. Len(parts) : Neat(parts[k]),
         \A k, m \in 1 .. Len(parts) : k # m => Rim(parts[k]) \cap Rim(parts[m]) = {}
  PROVE  /\ Neat(Concat(parts))
         /\ Rim(Concat(parts)) = UNION {Rim(parts[k]) : k \in 1 .. Len(parts)}
<1>1. PICK n \in Nat : n = Len(parts)
    BY IsSeqOfItsOwn DEF Parts
<1> DEFINE first(k) == FirstParts(parts, k)
           rim(k) == UNION {Rim(parts[i]) : i \in 1 .. k}
           P == {k \in 0 .. n : Neat(first(k)) /\ Rim(first(k)) = rim(k)}
<1>2. \A i \in 1 .. n : IsSeq(parts[i])
    BY <1>1 DEF Parts
<1>3. \A k \in 0 .. n :
            /\ k = 0 => first(k) = <<>>
            /\ k < n => first(k + 1) = first(k) \o parts[k + 1]
    BY <1>2, FirstPartsAre
<1>4. Concat(parts) = first(n)
    BY <1>1, ConcatIsFirst DEF Parts
<1> HIDE DEF first
<1>5. 0 \in P
  <2>1. first(0) = <<>> /\ 0 \in 0 .. n
      BY <1>3
  <2>2. Rim(<<>>) = {}
      BY Empty DEF Rim
  <2>3. Neat(<<>>)
      BY <2>2, Empty, FS_EmptySet DEF Neat
  <2>4. rim(0) = {}
      OBVIOUS
  <2> QED
      BY <2>1, <2>2, <2>3, <2>4
<1>6. ASSUME NEW k \in P, k < n PROVE k + 1 \in P
  <2>1. k \in 0 .. n /\ Neat(first(k)) /\ Rim(first(k)) = rim(k) /\ k + 1 \in 1 .. n
      BY <1>6
  <2>2. first(k + 1) = first(k) \o parts[k + 1]
      BY <1>3, <1>6, <2>1
  <2>3. Neat(parts[k + 1])
      BY <1>1, <2>1
  <2>4. rim(k) \cap Rim(parts[k + 1]) = {}
    <3>1. \A i \in 1 .. k : i \in 1 .. n /\ i # k + 1
        BY <2>1
    <3>2. \A i \in 1 .. k : Rim(parts[i]) \cap Rim(parts[k + 1]) = {}
        BY <1>1, <2>1, <3>1
    <3> QED
        BY <3>2
  <2>5. rim(k + 1) = rim(k) \union Rim(parts[k + 1])
    <3>1. \A i : i \in 1 .. (k + 1) <=> i \in 1 .. k \/ i = k + 1
        BY <2>1
    <3> QED
        BY <3>1
  <2> HIDE DEF rim
  <2>6. Neat(first(k) \o parts[k + 1]) /\ Rim(first(k) \o parts[k + 1]) = rim(k) \union Rim(parts[k + 1])
      BY <2>1, <2>3, <2>4, NeatJoined
  <2>7. k + 1 \in 0 .. n
      BY <2>1
  <2> QED
      BY <2>1, <2>2, <2>5, <2>6, <2>7
<1>7. P = 0 .. n
  <2> HIDE DEF P
  <2>1. P \in SUBSET (0 .. n)
      BY DEF P
  <2> QED
      BY <1>5, <1>6, <2>1, CountsUp
<1>8. n \in P
    BY <1>7
<1> QED
    BY <1>1, <1>4, <1>8

\* One triangle of three different samples.
LEMMA NeatTriangle ==
  ASSUME NEW a, NEW b, NEW c, a # b, b # c, a # c
  PROVE  /\ Neat(<<<<a, b, c>>>>)
         /\ Rim(<<<<a, b, c>>>>) = {<<a, b>>, <<b, c>>, <<c, a>>}
<1> DEFINE t == <<a, b, c>>
           p == <<a, b>>
           q == <<b, c>>
           r == <<c, a>>
<1>1. p # q /\ q # r /\ p # r
    OBVIOUS
<1>2. DirectedEdges(t) = {p, q, r}
    BY DEF DirectedEdges
<1> HIDE DEF t, p, q, r
<1>3. IsSeq(<<t>>) /\ Len(<<t>>) = 1 /\ Range(<<t>>) = {t}
    BY One
<1>4. Rim(<<t>>) = {p, q, r}
    BY <1>2, <1>3 DEF Rim
<1>5. IsFiniteSet({p}) /\ Cardinality({p}) = 1
    BY FS_Singleton
<1>6. IsFiniteSet({p} \cup {q}) /\ Cardinality({p} \cup {q}) = 2
  <2>1. q \notin {p}
      BY <1>1
  <2> QED
      BY <1>5, <2>1, FS_AddElement
<1>7. IsFiniteSet(({p} \cup {q}) \cup {r}) /\ Cardinality(({p} \cup {q}) \cup {r}) = 3
  <2>1. r \notin {p} \cup {q}
      BY <1>1
  <2> DEFINE S == {p} \cup {q}
  <2> HIDE DEF S
  <2>2. IsFiniteSet(S) /\ Cardinality(S) = 2 /\ r \notin S
      BY <1>6, <2>1 DEF S
  <2>3. IsFiniteSet(S \cup {r}) /\ Cardinality(S \cup {r}) = 3
      BY <2>2, FS_AddElement
  <2> QED
      BY <2>3 DEF S
<1>8. ({p} \cup {q}) \cup {r} = {p, q, r}
    OBVIOUS
<1> QED
    BY <1>3, <1>4, <1>7, <1>8 DEF Neat, t, p, q, r

\* Triangles that all turn as their domain does, and twice their area.
Upright(q, s) == IsSeq(s) /\ \A t \in Range(s) : Area2(q, t) \in Nat /\ 0 < Area2(q, t)
Weigh(q, s) == Total([k \in DOMAIN s |-> Area2(q, s[k])])

\* The areas of upright triangles.
LEMMA AreasAre ==
  ASSUME NEW q, NEW s, Upright(q, s)
  PROVE  LET areas == [k \in DOMAIN s |-> Area2(q, s[k])]
         IN  /\ IsSeq(areas) /\ Len(areas) = Len(s)
             /\ \A k \in 1 .. Len(s) : areas[k] = Area2(q, s[k]) /\ areas[k] \in Int
<1> DEFINE areas == [k \in DOMAIN s |-> Area2(q, s[k])]
           N == Len(s)
<1>1. IsSeq(s) /\ N \in Nat /\ DOMAIN s = 1 .. N /\ \A k \in 1 .. N : s[k] \in Range(s)
    BY IsSeqOfItsOwn DEF Upright
<1>2. \A k \in 1 .. N : areas[k] = Area2(q, s[k])
    BY <1>1
<1>3. \A k \in 1 .. N : areas[k] \in Int
    BY <1>1, <1>2 DEF Upright
<1>4. areas = [k \in 1 .. N |-> areas[k]]
    BY <1>1
<1> HIDE DEF areas, N
<1>5. IsSeq(areas) /\ Len(areas) = N
    BY <1>1, <1>4, ListIsSeq
<1> QED
    BY <1>2, <1>3, <1>5 DEF areas, N

\* Together they weigh what they weigh.
LEMMA WeighJoined ==
  ASSUME NEW q, NEW s, NEW t, Upright(q, s), Upright(q, t)
  PROVE  /\ Upright(q, s \o t) /\ Weigh(q, s) \in Int /\ Weigh(q, t) \in Int
         /\ Weigh(q, s \o t) = Weigh(q, s) + Weigh(q, t)
<1>1. /\ IsSeq(s) /\ IsSeq(t) /\ IsSeq(s \o t) /\ Len(s \o t) = Len(s) + Len(t)
      /\ Len(s) \in Nat /\ Len(t) \in Nat
      /\ Range(s \o t) = Range(s) \union Range(t)
      /\ \A i \in 1 .. Len(s) : (s \o t)[i] = s[i]
      /\ \A i \in 1 .. Len(t) : (s \o t)[Len(s) + i] = t[i]
    BY Joined, IsSeqOfItsOwn DEF Upright
<1>2. Upright(q, s \o t)
    BY <1>1 DEF Upright
<1> DEFINE areas(x) == [k \in DOMAIN x |-> Area2(q, x[k])]
<1>3. \A x : Upright(q, x) =>
          /\ IsSeq(areas(x)) /\ Len(areas(x)) = Len(x)
          /\ \A k \in 1 .. Len(x) : areas(x)[k] = Area2(q, x[k]) /\ areas(x)[k] \in Int
    BY AreasAre
<1>4. \A x : Weigh(q, x) = Total(areas(x))
    BY DEF Weigh
<1> HIDE DEF areas
<1> DEFINE a == areas(s)
           b == areas(t)
           c == areas(s \o t)
<1>5. /\ IsSeq(a) /\ Len(a) = Len(s) /\ \A k \in 1 .. Len(s) : a[k] = Area2(q, s[k]) /\ a[k] \in Int
      /\ IsSeq(b) /\ Len(b) = Len(t) /\ \A k \in 1 .. Len(t) : b[k] = Area2(q, t[k]) /\ b[k] \in Int
      /\ IsSeq(c) /\ Len(c) = Len(s) + Len(t)
    BY <1>1, <1>2, <1>3
<1>6. \A k \in 1 .. Len(s) + Len(t) : c[k] = Area2(q, (s \o t)[k])
    BY <1>1, <1>2, <1>3
<1>7. /\ IsSeq(a \o b) /\ Len(a \o b) = Len(s) + Len(t)
      /\ \A i \in 1 .. Len(s) : (a \o b)[i] = a[i]
      /\ \A i \in 1 .. Len(t) : (a \o b)[Len(s) + i] = b[i]
  <2>1. IsSeq(a) /\ IsSeq(b) /\ Len(a) = Len(s) /\ Len(b) = Len(t)
      BY <1>5
  <2> HIDE DEF a, b
  <2> QED
      BY <2>1, Joined
<1>8. c = a \o b
  <2> DEFINE d == a \o b
  <2>1. ASSUME NEW k \in 1 .. Len(s) + Len(t) PROVE c[k] = d[k]
    <3>1. CASE k \in 1 .. Len(s)
        BY <1>1, <1>5, <1>6, <1>7, <3>1
    <3>2. CASE k \notin 1 .. Len(s)
      <4>1. PICK i \in 1 .. Len(t) : k = Len(s) + i
        <5>1. k - Len(s) \in 1 .. Len(t) /\ k = Len(s) + (k - Len(s))
            BY <1>1, <3>2
        <5> QED
            BY <5>1
      <4>2. c[k] = Area2(q, t[i])
          BY <1>1, <1>6, <4>1
      <4>3. d[k] = b[i] /\ b[i] = Area2(q, t[i])
          BY <1>5, <1>7, <4>1
      <4> QED
          BY <4>2, <4>3
    <3> QED
        BY <3>1, <3>2
  <2>2. IsSeq(d) /\ Len(d) = Len(s) + Len(t)
      BY <1>7
  <2> HIDE DEF c, d
  <2>3. c = [k \in 1 .. Len(s) + Len(t) |-> c[k]] /\ d = [k \in 1 .. Len(s) + Len(t) |-> d[k]]
      BY <1>5, <2>2 DEF IsSeq
  <2>4. c = d
      BY <2>1, <2>3
  <2> QED
      BY <2>4 DEF d
<1>9. /\ Total(a) \in Int /\ Total(b) \in Int
      /\ Total(a \o b) = Total(a) + Total(b)
  <2> HIDE DEF a, b
  <2> QED
      BY <1>5, TotalOfMore
<1>10. Weigh(q, s) = Total(a) /\ Weigh(q, t) = Total(b) /\ Weigh(q, s \o t) = Total(a \o b)
    BY <1>4, <1>8
<1> QED
    BY <1>2, <1>9, <1>10

\* Parts weigh what is added up part by part.
LEMMA WeighConcat ==
  ASSUME NEW q, NEW parts, Parts(parts), \A k \in 1 .. Len(parts) : Upright(q, parts[k]),
         NEW sum, sum[0] = 0,
         \A k \in 1 .. Len(parts) : sum[k] = sum[k - 1] + Weigh(q, parts[k])
  PROVE  Upright(q, Concat(parts)) /\ Weigh(q, Concat(parts)) = sum[Len(parts)]
<1>1. PICK n \in Nat : n = Len(parts)
    BY IsSeqOfItsOwn DEF Parts
<1> DEFINE first(k) == FirstParts(parts, k)
           P == {k \in 0 .. n : Upright(q, first(k)) /\ Weigh(q, first(k)) = sum[k]}
<1>2. \A i \in 1 .. n : IsSeq(parts[i])
    BY <1>1 DEF Parts
<1>3. \A k \in 0 .. n :
            /\ k = 0 => first(k) = <<>>
            /\ k < n => first(k + 1) = first(k) \o parts[k + 1]
    BY <1>2, FirstPartsAre
<1>4. Concat(parts) = first(n)
    BY <1>1, ConcatIsFirst DEF Parts
<1> HIDE DEF first
<1>5. 0 \in P
  <2>1. first(0) = <<>> /\ 0 \in 0 .. n
      BY <1>3
  <2>2. Upright(q, <<>>)
      BY Empty DEF Upright
  <2>3. Weigh(q, <<>>) = 0
    <3> DEFINE none == [k \in DOMAIN <<>> |-> Area2(q, <<>>[k])]
    <3>1. none = <<>>
        OBVIOUS
    <3>2. Weigh(q, <<>>) = Total(none)
        BY DEF Weigh
    <3> HIDE DEF none
    <3> QED
        BY <3>1, <3>2, TotalOfOne
  <2> QED
      BY <2>1, <2>2, <2>3
<1>6. ASSUME NEW k \in P, k < n PROVE k + 1 \in P
  <2>1. k \in 0 .. n /\ Upright(q, first(k)) /\ Weigh(q, first(k)) = sum[k] /\ k + 1 \in 1 .. n /\ (k + 1) - 1 = k
      BY <1>6
  <2>2. first(k + 1) = first(k) \o parts[k + 1]
      BY <1>3, <1>6, <2>1
  <2>3. Upright(q, parts[k + 1])
      BY <1>1, <2>1
  <2>4. Upright(q, first(k) \o parts[k + 1])
        /\ Weigh(q, first(k) \o parts[k + 1]) = Weigh(q, first(k)) + Weigh(q, parts[k + 1])
      BY <2>1, <2>3, WeighJoined
  <2>5. sum[k + 1] = sum[(k + 1) - 1] + Weigh(q, parts[k + 1])
      BY <1>1, <2>1
  <2>6. Weigh(q, first(k + 1)) = sum[k + 1]
      BY <2>1, <2>2, <2>4, <2>5, Zenon
  <2>7. k + 1 \in 0 .. n
      BY <2>1
  <2> QED
      BY <2>2, <2>4, <2>6, <2>7
<1>7. P = 0 .. n
  <2> HIDE DEF P
  <2>1. P \in SUBSET (0 .. n)
      BY DEF P
  <2> QED
      BY <1>5, <1>6, <2>1, CountsUp
<1>8. n \in P
    BY <1>7
<1> QED
    BY <1>1, <1>4, <1>8

\* One triangle weighs its own area.
LEMMA WeighTriangle ==
  ASSUME NEW q, NEW t, Area2(q, t) \in Nat, 0 < Area2(q, t)
  PROVE  Upright(q, <<t>>) /\ Weigh(q, <<t>>) = Area2(q, t)
<1>1. IsSeq(<<t>>) /\ Len(<<t>>) = 1 /\ <<t>>[1] = t /\ Range(<<t>>) = {t}
    BY One
<1>2. Upright(q, <<t>>)
    BY <1>1 DEF Upright
<1> DEFINE areas == [k \in DOMAIN <<t>> |-> Area2(q, <<t>>[k])]
<1>3. areas = <<Area2(q, t)>>
    OBVIOUS
<1>4. Weigh(q, <<t>>) = Total(areas)
    BY DEF Weigh
<1> HIDE DEF areas
<1> QED
    BY <1>2, <1>3, <1>4, TotalOfOne

\* Twice the area of a triangle of samples that are where they are.
LEMMA AreaIs ==
  ASSUME NEW q, NEW a, NEW b, NEW c, NEW ax, NEW ay, NEW bx, NEW by, NEW cx, NEW cy,
         q.samples[a] = <<ax, ay>>, q.samples[b] = <<bx, by>>, q.samples[c] = <<cx, cy>>
  PROVE  Area2(q, <<a, b, c>>) = (bx - ax) * (cy - ay) - (cx - ax) * (by - ay)
BY DEF Area2

\* The two triangles of a cell are half of it each.
LEMMA CellAreas ==
  ASSUME NEW rate \in [1 .. 4 -> Rates], 2 =< InnerRate(rate),
         NEW i \in 0 .. Span(rate) - 2, NEW j \in 0 .. Span(rate) - 2
  PROVE  /\ Area2(TessellateQuad(rate), LowTriangle(rate, i, j)) = Cut(rate) * Cut(rate)
         /\ Area2(TessellateQuad(rate), HighTriangle(rate, i, j)) = Cut(rate) * Cut(rate)
<1>1. PICK w \in Nat : w = Span(rate)
    BY GridIs
<1>2. PICK c \in Nat : c = Cut(rate)
    BY GridIs
<1>3. i \in Nat /\ j \in Nat /\ i \in 0 .. w - 1 /\ j \in 0 .. w - 1 /\ i + 1 \in 0 .. w - 1 /\ j + 1 \in 0 .. w - 1
    BY <1>1
<1>4. PICK x \in Nat : x = (i + 1) * c
    BY <1>2, <1>3
<1>5. PICK y \in Nat : y = (j + 1) * c
    BY <1>2, <1>3
<1>6. ((i + 1) + 1) * c = x + c /\ ((j + 1) + 1) * c = y + c
    BY <1>2, <1>3, <1>4, <1>5
<1> DEFINE q == TessellateQuad(rate)
<1>7. \A k, m \in 0 .. w - 1 : q.samples[Inside(rate, k, m)] = <<(k + 1) * c, (m + 1) * c>>
    BY <1>1, <1>2, SamplesAre
<1> HIDE DEF q
<1>8. /\ q.samples[Inside(rate, i, j)] = <<x, y>>
      /\ q.samples[Inside(rate, i + 1, j)] = <<x + c, y>>
      /\ q.samples[Inside(rate, i + 1, j + 1)] = <<x + c, y + c>>
      /\ q.samples[Inside(rate, i, j + 1)] = <<x, y + c>>
    BY <1>3, <1>4, <1>5, <1>6, <1>7
<1>9. Area2(q, LowTriangle(rate, i, j)) = ((x + c) - x) * ((y + c) - y) - ((x + c) - x) * (y - y)
    BY <1>8, AreaIs DEF LowTriangle
<1>10. Area2(q, HighTriangle(rate, i, j)) = ((x + c) - x) * ((y + c) - y) - (x - x) * ((y + c) - y)
    BY <1>8, AreaIs DEF HighTriangle
<1>11. (x + c) - x = c /\ (y + c) - y = c /\ y - y = 0 /\ x - x = 0
    OBVIOUS
<1>12. c * c - c * 0 = c * c /\ c * c - 0 * c = c * c
    BY <1>2
<1> QED
    BY <1>2, <1>9, <1>10, <1>11, <1>12 DEF q

\* Where the samples of a stitch are, by side.
LEMMA StitchPlaces ==
  ASSUME NEW rate \in [1 .. 4 -> Rates], 2 =< InnerRate(rate), NEW side \in 1 .. 4,
         NEW i \in 0 .. Span(rate) - 1
  PROVE  LET q == TessellateQuad(rate)
             c == Cut(rate)
             at == q.samples[Facing(rate, side, i)]
         IN  /\ side = 1 => at = <<(i + 1) * c, c>>
             /\ side = 2 => at = <<MaxRate - c, (i + 1) * c>>
             /\ side = 3 => at = <<MaxRate - (i + 1) * c, MaxRate - c>>
             /\ side = 4 => at = <<c, MaxRate - (i + 1) * c>>
<1> DEFINE q == TessellateQuad(rate)
           at == q.samples[Facing(rate, side, i)]
           k == FacingColumn(rate, side, i)
           m == FacingRow(rate, side, i)
<1>1. PICK w \in Nat : w = Span(rate) /\ 1 =< w
    BY GridIs
<1>2. PICK c \in Nat : c = Cut(rate) /\ (w + 1) * c = MaxRate
    BY <1>1, GridIs
<1>3. k \in 0 .. w - 1 /\ m \in 0 .. w - 1 /\ Facing(rate, side, i) = Inside(rate, k, m)
    BY <1>1, FacingIs
<1> HIDE DEF k, m
<1>4. at = <<(k + 1) * c, (m + 1) * c>>
    BY <1>1, <1>2, <1>3, SamplesAre
<1> HIDE DEF at
<1>5. i \in Nat /\ i \in 0 .. w - 1 /\ MaxRate \in Nat
    BY <1>1, RatesAre
<1>6. w * c = MaxRate - c
    BY <1>1, <1>2
<1>7. (w - i) * c = MaxRate - (i + 1) * c
  <2>1. (w - i) * c = w * c - i * c /\ (i + 1) * c = i * c + c /\ i * c \in Int /\ w * c \in Int
      BY <1>1, <1>2, <1>5
  <2> QED
      BY <1>2, <1>5, <1>6, <2>1
<1>8. (0 + 1) * c = c
    BY <1>2
<1>9. ((w - 1) + 1) = w /\ ((w - 1 - i) + 1) = w - i
    BY <1>1, <1>5
<1>10. CASE side = 1
  <2>1. k = i /\ m = 0
      BY <1>10 DEF k, m, FacingColumn, FacingRow
  <2> QED
      BY <1>2, <1>4, <1>8, <1>10, <2>1 DEF at
<1>11. CASE side = 2
  <2>1. k = w - 1 /\ m = i
      BY <1>1, <1>11 DEF k, m, FacingColumn, FacingRow
  <2> QED
      BY <1>2, <1>4, <1>6, <1>9, <1>11, <2>1 DEF at
<1>12. CASE side = 3
  <2>1. k = w - 1 - i /\ m = w - 1
      BY <1>1, <1>12 DEF k, m, FacingColumn, FacingRow
  <2> QED
      BY <1>2, <1>4, <1>6, <1>7, <1>9, <1>12, <2>1 DEF at
<1>13. CASE side = 4
  <2>1. k = 0 /\ m = w - 1 - i
      BY <1>1, <1>13 DEF k, m, FacingColumn, FacingRow
  <2> QED
      BY <1>2, <1>4, <1>7, <1>8, <1>9, <1>13, <2>1 DEF at
<1> QED
    BY <1>10, <1>11, <1>12, <1>13

\* A step along a side spans a segment of it and the depth of the border; a
\* step along the run spans a cell's.
LEMMA StitchAreas ==
  ASSUME NEW rate \in [1 .. 4 -> Rates], 2 =< InnerRate(rate), NEW side \in 1 .. 4,
         NEW o \in 0 .. rate[side], NEW i \in 0 .. Span(rate) - 1
  PROVE  /\ o < rate[side] => Area2(TessellateQuad(rate), OutwardTriangle(rate, side, o, i))
                                = (MaxRate \div rate[side]) * Cut(rate)
         /\ i < Span(rate) - 1 => Area2(TessellateQuad(rate), InwardTriangle(rate, side, o, i))
                                    = Cut(rate) * Cut(rate)
<1> DEFINE q == TessellateQuad(rate)
           r == rate[side]
           A(k) == q.samples[BoundaryAt(rate, side, k)]
           F(k) == q.samples[Facing(rate, side, k)]
<1>1. PICK w \in Nat : w = Span(rate) /\ 1 =< w
    BY GridIs
<1>2. PICK c \in Nat : c = Cut(rate)
    BY GridIs
<1>3. r \in Rates /\ r \in Nat /\ MaxRate \in Nat
    BY StartsAre, RatesAre
<1>4. PICK s \in Nat : s = MaxRate \div r
    BY <1>3, RatesAre
<1>5. o \in Nat /\ i \in Nat /\ o \in 0 .. r
    BY <1>3
<1>6. PICK x \in Nat : x = o * s
    BY <1>4, <1>5
<1>7. PICK p \in Nat : p = (i + 1) * c
    BY <1>2, <1>5
<1>8. (o + 1) * s = x + s /\ ((i + 1) + 1) * c = p + c
    BY <1>2, <1>4, <1>5, <1>6, <1>7
<1>9. \A k \in 0 .. r :
         /\ side = 1 => A(k) = <<k * s, 0>>
         /\ side = 2 => A(k) = <<MaxRate, k * s>>
         /\ side = 3 => A(k) = <<MaxRate - k * s, MaxRate>>
         /\ side = 4 => A(k) = <<0, MaxRate - k * s>>
  <2>1. ASSUME NEW k \in 0 .. r
        PROVE  /\ side = 1 => A(k) = <<k * s, 0>>
               /\ side = 2 => A(k) = <<MaxRate, k * s>>
               /\ side = 3 => A(k) = <<MaxRate - k * s, MaxRate>>
               /\ side = 4 => A(k) = <<0, MaxRate - k * s>>
    <3>1. A(k) = OnSide(side, k, r)
        BY SamplesAre
    <3> HIDE DEF r, A
    <3>2. /\ side = 1 => OnSide(side, k, r) = <<k * s, 0>>
          /\ side = 2 => OnSide(side, k, r) = <<MaxRate, k * s>>
          /\ side = 3 => OnSide(side, k, r) = <<MaxRate - k * s, MaxRate>>
          /\ side = 4 => OnSide(side, k, r) = <<0, MaxRate - k * s>>
        BY <1>3, <1>4, OnSideIs
    <3> QED
        BY <3>1, <3>2
  <2> QED
      BY <2>1
<1>10. \A k \in 0 .. w - 1 :
         /\ side = 1 => F(k) = <<(k + 1) * c, c>>
         /\ side = 2 => F(k) = <<MaxRate - c, (k + 1) * c>>
         /\ side = 3 => F(k) = <<MaxRate - (k + 1) * c, MaxRate - c>>
         /\ side = 4 => F(k) = <<c, MaxRate - (k + 1) * c>>
    BY <1>1, <1>2, StitchPlaces
<1> HIDE DEF q
<1>11. /\ \A k : A(k) = q.samples[BoundaryAt(rate, side, k)]
       /\ \A k : F(k) = q.samples[Facing(rate, side, k)]
    OBVIOUS
<1> HIDE DEF A, F
<1>12. /\ side = 1 => A(o) = <<x, 0>> /\ F(i) = <<p, c>>
       /\ side = 2 => A(o) = <<MaxRate, x>> /\ F(i) = <<MaxRate - c, p>>
       /\ side = 3 => A(o) = <<MaxRate - x, MaxRate>> /\ F(i) = <<MaxRate - p, MaxRate - c>>
       /\ side = 4 => A(o) = <<0, MaxRate - x>> /\ F(i) = <<c, MaxRate - p>>
    BY <1>1, <1>5, <1>6, <1>7, <1>9, <1>10
<1>13. ASSUME o < r PROVE Area2(q, OutwardTriangle(rate, side, o, i)) = s * c
  <2>1. o + 1 \in 0 .. r
      BY <1>3, <1>5, <1>13
  <2>2. /\ side = 1 => A(o + 1) = <<x + s, 0>>
        /\ side = 2 => A(o + 1) = <<MaxRate, x + s>>
        /\ side = 3 => A(o + 1) = <<MaxRate - (x + s), MaxRate>>
        /\ side = 4 => A(o + 1) = <<0, MaxRate - (x + s)>>
      BY <1>8, <1>9, <2>1
  <2>4. CASE side = 1
    <3>0. /\ q.samples[BoundaryAt(rate, side, o)] = <<x, 0>>
          /\ q.samples[BoundaryAt(rate, side, o + 1)] = <<x + s, 0>>
          /\ q.samples[Facing(rate, side, i)] = <<p, c>>
        BY <1>11, <1>12, <2>2, <2>4
    <3>1. Area2(q, OutwardTriangle(rate, side, o, i)) = ((x + s) - x) * (c - 0) - (p - x) * (0 - 0)
        BY <3>0, AreaIs DEF OutwardTriangle
    <3>2. (x + s) - x = s /\ c - 0 = c /\ 0 - 0 = 0 /\ p - x \in Int
        OBVIOUS
    <3> QED
        BY <1>2, <1>4, <3>1, <3>2
  <2>5. CASE side = 2
    <3>0. /\ q.samples[BoundaryAt(rate, side, o)] = <<MaxRate, x>>
          /\ q.samples[BoundaryAt(rate, side, o + 1)] = <<MaxRate, x + s>>
          /\ q.samples[Facing(rate, side, i)] = <<MaxRate - c, p>>
        BY <1>11, <1>12, <2>2, <2>5
    <3>1. Area2(q, OutwardTriangle(rate, side, o, i))
            = (MaxRate - MaxRate) * (p - x) - ((MaxRate - c) - MaxRate) * ((x + s) - x)
        BY <3>0, AreaIs DEF OutwardTriangle
    <3>2. (x + s) - x = s /\ (MaxRate - c) - MaxRate = 0 - c /\ MaxRate - MaxRate = 0 /\ p - x \in Int
        BY <1>3
    <3>3. 0 * (p - x) - (0 - c) * s = s * c
        BY <1>2, <1>4, <3>2
    <3> QED
        BY <3>1, <3>2, <3>3
  <2>6. CASE side = 3
    <3>0. /\ q.samples[BoundaryAt(rate, side, o)] = <<MaxRate - x, MaxRate>>
          /\ q.samples[BoundaryAt(rate, side, o + 1)] = <<MaxRate - (x + s), MaxRate>>
          /\ q.samples[Facing(rate, side, i)] = <<MaxRate - p, MaxRate - c>>
        BY <1>11, <1>12, <2>2, <2>6
    <3>1. Area2(q, OutwardTriangle(rate, side, o, i))
            = ((MaxRate - (x + s)) - (MaxRate - x)) * ((MaxRate - c) - MaxRate)
                - ((MaxRate - p) - (MaxRate - x)) * (MaxRate - MaxRate)
        BY <3>0, AreaIs DEF OutwardTriangle
    <3>2. /\ (MaxRate - (x + s)) - (MaxRate - x) = 0 - s /\ (MaxRate - c) - MaxRate = 0 - c
          /\ MaxRate - MaxRate = 0 /\ (MaxRate - p) - (MaxRate - x) = x - p /\ x - p \in Int
        BY <1>3
    <3>3. (0 - s) * (0 - c) - (x - p) * 0 = s * c
        BY <1>2, <1>4, <3>2
    <3> QED
        BY <3>1, <3>2, <3>3
  <2>7. CASE side = 4
    <3>0. /\ q.samples[BoundaryAt(rate, side, o)] = <<0, MaxRate - x>>
          /\ q.samples[BoundaryAt(rate, side, o + 1)] = <<0, MaxRate - (x + s)>>
          /\ q.samples[Facing(rate, side, i)] = <<c, MaxRate - p>>
        BY <1>11, <1>12, <2>2, <2>7
    <3>1. Area2(q, OutwardTriangle(rate, side, o, i))
            = (0 - 0) * ((MaxRate - p) - (MaxRate - x))
                - (c - 0) * ((MaxRate - (x + s)) - (MaxRate - x))
        BY <3>0, AreaIs DEF OutwardTriangle
    <3>2. /\ (MaxRate - (x + s)) - (MaxRate - x) = 0 - s /\ c - 0 = c
          /\ 0 - 0 = 0 /\ (MaxRate - p) - (MaxRate - x) = x - p /\ x - p \in Int
        BY <1>3
    <3>3. 0 * (x - p) - c * (0 - s) = s * c
        BY <1>2, <1>4, <3>2
    <3> QED
        BY <3>1, <3>2, <3>3
  <2> QED
      BY <2>4, <2>5, <2>6, <2>7
<1>14. ASSUME i < w - 1 PROVE Area2(q, InwardTriangle(rate, side, o, i)) = c * c
  <2>1. i + 1 \in 0 .. w - 1
      BY <1>1, <1>5, <1>14
  <2>2. /\ side = 1 => F(i + 1) = <<p + c, c>>
        /\ side = 2 => F(i + 1) = <<MaxRate - c, p + c>>
        /\ side = 3 => F(i + 1) = <<MaxRate - (p + c), MaxRate - c>>
        /\ side = 4 => F(i + 1) = <<c, MaxRate - (p + c)>>
      BY <1>8, <1>10, <2>1
  <2>8. \A u \in Int, v \in Int : u - v = c => /\ u * c - v * c = c * c
                                              /\ u * (0 - c) - v * (0 - c) = 0 - (c * c)
                                              /\ c * u - c * v = c * c
                                              /\ (0 - c) * u - (0 - c) * v = 0 - (c * c)
    <3>1. ASSUME NEW u \in Int, NEW v \in Int, u - v = c
          PROVE /\ u * c - v * c = c * c
                /\ u * (0 - c) - v * (0 - c) = 0 - (c * c)
                /\ c * u - c * v = c * c
                /\ (0 - c) * u - (0 - c) * v = 0 - (c * c)
      <4>1. u = v + c
          BY <1>2, <3>1
      <4> QED
          BY <1>2, <4>1
    <3> QED
        BY <3>1
  <2>4. CASE side = 1
    <3>0. /\ q.samples[BoundaryAt(rate, side, o)] = <<x, 0>>
          /\ q.samples[Facing(rate, side, i + 1)] = <<p + c, c>>
          /\ q.samples[Facing(rate, side, i)] = <<p, c>>
        BY <1>11, <1>12, <2>2, <2>4
    <3>1. Area2(q, InwardTriangle(rate, side, o, i)) = ((p + c) - x) * (c - 0) - (p - x) * (c - 0)
        BY <3>0, AreaIs DEF InwardTriangle
    <3>2. c - 0 = c /\ (p + c) - x \in Int /\ p - x \in Int /\ ((p + c) - x) - (p - x) = c
        OBVIOUS
    <3> QED
        BY <2>8, <3>1, <3>2
  <2>5. CASE side = 2
    <3>0. /\ q.samples[BoundaryAt(rate, side, o)] = <<MaxRate, x>>
          /\ q.samples[Facing(rate, side, i + 1)] = <<MaxRate - c, p + c>>
          /\ q.samples[Facing(rate, side, i)] = <<MaxRate - c, p>>
        BY <1>11, <1>12, <2>2, <2>5
    <3>1. Area2(q, InwardTriangle(rate, side, o, i))
            = ((MaxRate - c) - MaxRate) * (p - x) - ((MaxRate - c) - MaxRate) * ((p + c) - x)
        BY <3>0, AreaIs DEF InwardTriangle
    <3>2. (MaxRate - c) - MaxRate = 0 - c /\ (p + c) - x \in Int /\ p - x \in Int /\ ((p + c) - x) - (p - x) = c
        BY <1>3
    <3>3. (0 - c) * ((p + c) - x) - (0 - c) * (p - x) = 0 - (c * c)
        BY <2>8, <3>2
    <3>4. \A u, v, z \in Int : u - v = 0 - z => v - u = z
        OBVIOUS
    <3>5. (0 - c) * ((p + c) - x) \in Int /\ (0 - c) * (p - x) \in Int /\ c * c \in Int
        BY <1>2, <3>2
    <3>6. (0 - c) * (p - x) - (0 - c) * ((p + c) - x) = c * c
        BY <3>3, <3>4, <3>5
    <3> QED
        BY <3>1, <3>2, <3>6
  <2>6. CASE side = 3
    <3>0. /\ q.samples[BoundaryAt(rate, side, o)] = <<MaxRate - x, MaxRate>>
          /\ q.samples[Facing(rate, side, i + 1)] = <<MaxRate - (p + c), MaxRate - c>>
          /\ q.samples[Facing(rate, side, i)] = <<MaxRate - p, MaxRate - c>>
        BY <1>11, <1>12, <2>2, <2>6
    <3>1. Area2(q, InwardTriangle(rate, side, o, i))
            = ((MaxRate - (p + c)) - (MaxRate - x)) * ((MaxRate - c) - MaxRate)
                - ((MaxRate - p) - (MaxRate - x)) * ((MaxRate - c) - MaxRate)
        BY <3>0, AreaIs DEF InwardTriangle
    <3>2. /\ (MaxRate - c) - MaxRate = 0 - c
          /\ (MaxRate - (p + c)) - (MaxRate - x) = x - (p + c) /\ (MaxRate - p) - (MaxRate - x) = x - p
          /\ x - p \in Int /\ x - (p + c) \in Int /\ (x - p) - (x - (p + c)) = c
        BY <1>3
    <3>3. (x - p) * (0 - c) - (x - (p + c)) * (0 - c) = 0 - (c * c)
        BY <2>8, <3>2
    <3>4. \A u, v, z \in Int : u - v = 0 - z => v - u = z
        OBVIOUS
    <3>5. (x - p) * (0 - c) \in Int /\ (x - (p + c)) * (0 - c) \in Int /\ c * c \in Int
        BY <1>2, <3>2
    <3>6. (x - (p + c)) * (0 - c) - (x - p) * (0 - c) = c * c
        BY <3>3, <3>4, <3>5
    <3> QED
        BY <3>1, <3>2, <3>6
  <2>7. CASE side = 4
    <3>0. /\ q.samples[BoundaryAt(rate, side, o)] = <<0, MaxRate - x>>
          /\ q.samples[Facing(rate, side, i + 1)] = <<c, MaxRate - (p + c)>>
          /\ q.samples[Facing(rate, side, i)] = <<c, MaxRate - p>>
        BY <1>11, <1>12, <2>2, <2>7
    <3>1. Area2(q, InwardTriangle(rate, side, o, i))
            = (c - 0) * ((MaxRate - p) - (MaxRate - x)) - (c - 0) * ((MaxRate - (p + c)) - (MaxRate - x))
        BY <3>0, AreaIs DEF InwardTriangle
    <3>2. /\ c - 0 = c
          /\ (MaxRate - (p + c)) - (MaxRate - x) = x - (p + c) /\ (MaxRate - p) - (MaxRate - x) = x - p
          /\ x - p \in Int /\ x - (p + c) \in Int /\ (x - p) - (x - (p + c)) = c
        BY <1>3
    <3> QED
        BY <2>8, <3>1, <3>2
  <2> QED
      BY <2>4, <2>5, <2>6, <2>7
<1> QED
    BY <1>1, <1>2, <1>4, <1>13, <1>14 DEF q

\* The column and the row of the interior grid a sample stands at.
Spot(rate, x) ==
    CHOOSE p \in (0 .. Span(rate) - 1) \X (0 .. Span(rate) - 1) : Inside(rate, p[1], p[2]) = x

\* No other place of the grid has that sample.
LEMMA SpotIs ==
  ASSUME NEW rate \in [1 .. 4 -> Rates], 2 =< InnerRate(rate),
         NEW i \in 0 .. Span(rate) - 1, NEW j \in 0 .. Span(rate) - 1
  PROVE  Spot(rate, Inside(rate, i, j)) = <<i, j>>
<1> DEFINE S == (0 .. Span(rate) - 1) \X (0 .. Span(rate) - 1)
           x == Inside(rate, i, j)
           p == Spot(rate, x)
<1>1. <<i, j>> \in S /\ Inside(rate, <<i, j>>[1], <<i, j>>[2]) = x
    OBVIOUS
<1>2. p \in S /\ Inside(rate, p[1], p[2]) = x
    BY <1>1 DEF Spot
<1>3. p[1] \in 0 .. Span(rate) - 1 /\ p[2] \in 0 .. Span(rate) - 1 /\ p = <<p[1], p[2]>>
    BY <1>2
<1> HIDE DEF p
<1>4. p[1] = i /\ p[2] = j
    BY <1>2, <1>3, InsideApart
<1> QED
    BY <1>3, <1>4 DEF p, x

\* From (a, b) of the grid to (u, v) of it.
Hop(rate, e, a, b, u, v) ==
    e[1] = Inside(rate, a, b) /\ e[2] = Inside(rate, u, v) /\ Spot(rate, e[1]) = <<a, b>> /\ Spot(rate, e[2]) = <<u, v>>

\* The six edges of the two triangles of a cell.
CellRim(rate, i, j) ==
    { <<Inside(rate, i, j), Inside(rate, i + 1, j)>>,
      <<Inside(rate, i + 1, j), Inside(rate, i + 1, j + 1)>>,
      <<Inside(rate, i + 1, j + 1), Inside(rate, i, j)>> }
    \cup
    { <<Inside(rate, i, j), Inside(rate, i + 1, j + 1)>>,
      <<Inside(rate, i + 1, j + 1), Inside(rate, i, j + 1)>>,
      <<Inside(rate, i, j + 1), Inside(rate, i, j)>> }

CellHop(rate, e, i, j) ==
    \/ Hop(rate, e, i, j, i + 1, j)
    \/ Hop(rate, e, i + 1, j, i + 1, j + 1)
    \/ Hop(rate, e, i + 1, j + 1, i, j)
    \/ Hop(rate, e, i, j, i + 1, j + 1)
    \/ Hop(rate, e, i + 1, j + 1, i, j + 1)
    \/ Hop(rate, e, i, j + 1, i, j)

\* The hop an edge of a cell is.
LEMMA CellHops ==
  ASSUME NEW rate \in [1 .. 4 -> Rates], 2 =< InnerRate(rate),
         NEW i \in 0 .. Span(rate) - 2, NEW j \in 0 .. Span(rate) - 2, NEW e \in CellRim(rate, i, j)
  PROVE  CellHop(rate, e, i, j)
<1>1. PICK w \in Nat : w = Span(rate)
    BY GridIs
<1>2. i \in 0 .. Span(rate) - 1 /\ i + 1 \in 0 .. Span(rate) - 1 /\ j \in 0 .. Span(rate) - 1 /\ j + 1 \in 0 .. Span(rate) - 1
    BY <1>1
<1>3. /\ Spot(rate, Inside(rate, i, j)) = <<i, j>>
      /\ Spot(rate, Inside(rate, i + 1, j)) = <<i + 1, j>>
      /\ Spot(rate, Inside(rate, i + 1, j + 1)) = <<i + 1, j + 1>>
      /\ Spot(rate, Inside(rate, i, j + 1)) = <<i, j + 1>>
    BY <1>2, SpotIs
<1> QED
    BY <1>3 DEF CellRim, CellHop, Hop

\* No edge is of two cells.
LEMMA CellsApart ==
  ASSUME NEW rate, NEW e, NEW i \in Nat, NEW j \in Nat, NEW p \in Nat, NEW r \in Nat,
         CellHop(rate, e, i, j), CellHop(rate, e, p, r)
  PROVE  i = p /\ j = r
<1>1. PICK a \in Nat, b \in Nat, u \in Nat, v \in Nat :
          /\ Spot(rate, e[1]) = <<a, b>> /\ Spot(rate, e[2]) = <<u, v>>
          /\ \/ a = i /\ b = j /\ u = i + 1 /\ v = j
             \/ a = i + 1 /\ b = j /\ u = i + 1 /\ v = j + 1
             \/ a = i + 1 /\ b = j + 1 /\ u = i /\ v = j
             \/ a = i /\ b = j /\ u = i + 1 /\ v = j + 1
             \/ a = i + 1 /\ b = j + 1 /\ u = i /\ v = j + 1
             \/ a = i /\ b = j + 1 /\ u = i /\ v = j
    BY DEF CellHop, Hop
<1>2. \/ a = p /\ b = r /\ u = p + 1 /\ v = r
      \/ a = p + 1 /\ b = r /\ u = p + 1 /\ v = r + 1
      \/ a = p + 1 /\ b = r + 1 /\ u = p /\ v = r
      \/ a = p /\ b = r /\ u = p + 1 /\ v = r + 1
      \/ a = p + 1 /\ b = r + 1 /\ u = p /\ v = r + 1
      \/ a = p /\ b = r + 1 /\ u = p /\ v = r
    BY <1>1 DEF CellHop, Hop
<1> QED
    BY <1>1, <1>2

\* The two triangles of a cell: six edges, and the area of the cell.
LEMMA CellIsNeat ==
  ASSUME NEW rate \in [1 .. 4 -> Rates], 2 =< InnerRate(rate),
         NEW i \in 0 .. Span(rate) - 2, NEW j \in 0 .. Span(rate) - 2
  PROVE  /\ Neat(Cell(rate, i, j)) /\ Rim(Cell(rate, i, j)) = CellRim(rate, i, j)
         /\ Upright(TessellateQuad(rate), Cell(rate, i, j))
         /\ Weigh(TessellateQuad(rate), Cell(rate, i, j)) = 2 * (Cut(rate) * Cut(rate))
<1>1. PICK w \in Nat : w = Span(rate)
    BY GridIs
<1>2. PICK c \in Nat : c = Cut(rate) /\ 0 < c
    BY GridIs
<1>3. i \in 0 .. Span(rate) - 1 /\ i + 1 \in 0 .. Span(rate) - 1 /\ j \in 0 .. Span(rate) - 1 /\ j + 1 \in 0 .. Span(rate) - 1
      /\ i # i + 1 /\ j # j + 1
    BY <1>1
<1> DEFINE A == Inside(rate, i, j)
           B == Inside(rate, i + 1, j)
           C == Inside(rate, i + 1, j + 1)
           D == Inside(rate, i, j + 1)
           q == TessellateQuad(rate)
           low == <<<<A, B, C>>>>
           high == <<<<A, C, D>>>>
<1>4. /\ Spot(rate, A) = <<i, j>> /\ Spot(rate, B) = <<i + 1, j>>
      /\ Spot(rate, C) = <<i + 1, j + 1>> /\ Spot(rate, D) = <<i, j + 1>>
    BY <1>3, SpotIs
<1>5. Cell(rate, i, j) = low \o high
    BY CellIs DEF LowTriangle, HighTriangle
<1>6. CellRim(rate, i, j) = {<<A, B>>, <<B, C>>, <<C, A>>} \cup {<<A, C>>, <<C, D>>, <<D, A>>}
    BY DEF CellRim
<1>7. Area2(q, <<A, B, C>>) = c * c /\ Area2(q, <<A, C, D>>) = c * c
    BY <1>2, CellAreas DEF LowTriangle, HighTriangle
<1> HIDE DEF A, B, C, D, q
<1>8. A # B /\ B # C /\ A # C /\ C # D /\ A # D /\ B # D
    BY <1>3, <1>4
<1>9. Neat(low) /\ Rim(low) = {<<A, B>>, <<B, C>>, <<C, A>>}
    BY <1>8, NeatTriangle
<1>10. Neat(high) /\ Rim(high) = {<<A, C>>, <<C, D>>, <<D, A>>}
    BY <1>8, NeatTriangle
<1>11. Rim(low) \cap Rim(high) = {}
    BY <1>8, <1>9, <1>10
<1>12. c * c \in Nat /\ 0 < c * c
    BY <1>2
<1>13. Upright(q, low) /\ Weigh(q, low) = c * c /\ Upright(q, high) /\ Weigh(q, high) = c * c
    BY <1>7, <1>12, WeighTriangle
<1> HIDE DEF low, high
<1>14. Neat(low \o high) /\ Rim(low \o high) = Rim(low) \union Rim(high)
    BY <1>9, <1>10, <1>11, NeatJoined
<1>15. Upright(q, low \o high) /\ Weigh(q, low \o high) = Weigh(q, low) + Weigh(q, high)
    BY <1>13, WeighJoined
<1>16. Weigh(q, low \o high) = 2 * (c * c)
    BY <1>12, <1>13, <1>15
<1> QED
    BY <1>2, <1>5, <1>6, <1>9, <1>10, <1>14, <1>15, <1>16 DEF q

\* The grid's triangles share no directed edge, and cover its cells.
LEMMA GridIsNeat ==
  ASSUME NEW rate \in [1 .. 4 -> Rates], 2 =< InnerRate(rate)
  PROVE  /\ Neat(GridTriangles(rate))
         /\ \A e : e \in Rim(GridTriangles(rate)) <=>
                \E i \in 0 .. Span(rate) - 2, j \in 0 .. Span(rate) - 2 : e \in CellRim(rate, i, j)
         /\ Upright(TessellateQuad(rate), GridTriangles(rate))
         /\ Weigh(TessellateQuad(rate), GridTriangles(rate))
              = ((Span(rate) - 1) * (Span(rate) - 1)) * (2 * (Cut(rate) * Cut(rate)))
<1>1. Span(rate) \in Nat /\ 1 =< Span(rate) /\ InnerRate(rate) \in Nat /\ InnerRate(rate) = Span(rate) + 1
    BY GridIs
<1>2. PICK m \in Nat : m = Span(rate) - 1
    BY <1>1
<1>3. InnerRate(rate) - 2 = m /\ Span(rate) - 2 = m - 1
    BY <1>1, <1>2
<1> DEFINE col(n) == (n - 1) % m
           row(n) == (n - 1) \div m
           N == m * m
           parts == [n \in 1 .. N |-> Cell(rate, col(n), row(n))]
           q == TessellateQuad(rate)
           W == 2 * (Cut(rate) * Cut(rate))
<1>4. N \in Nat
    OBVIOUS
<1>5. GridTriangles(rate) = Concat(parts)
    BY <1>3 DEF GridTriangles
<1>6. ASSUME NEW n \in 1 .. N
      PROVE  col(n) \in 0 .. m - 1 /\ row(n) \in 0 .. m - 1 /\ n = row(n) * m + (col(n) + 1)
  <2>1. /\ ((n - 1) % m) + 1 \in 1 .. m /\ ((n - 1) \div m) + 1 \in 1 .. m /\ m > 0
        /\ n = ((n - 1) \div m) * m + (((n - 1) % m) + 1)
      BY InRows
  <2>2. (n - 1) % m \in Int /\ (n - 1) \div m \in Int
      BY <2>1
  <2> QED
      BY <2>1, <2>2
<1>7. ASSUME NEW i \in 0 .. m - 1, NEW j \in 0 .. m - 1
      PROVE  \E n \in 1 .. N : col(n) = i /\ row(n) = j
  <2> DEFINE n == ((j + 1) - 1) * m + (i + 1)
  <2>1. i + 1 \in 1 .. m /\ j + 1 \in 1 .. m /\ m > 0
      BY <1>7
  <2>2. n \in 1 .. m * m /\ ((n - 1) % m) + 1 = i + 1 /\ ((n - 1) \div m) + 1 = j + 1
      BY <2>1, RowsApart
  <2> HIDE DEF n
  <2>3. (n - 1) % m \in Int /\ (n - 1) \div m \in Int
      BY <2>1, <2>2
  <2> QED
      BY <2>1, <2>2, <2>3
<1> HIDE DEF N, col, row
<1>8. parts = [n \in 1 .. N |-> parts[n]] /\ \A n \in 1 .. N : parts[n] = Cell(rate, col(n), row(n))
    OBVIOUS
<1> HIDE DEF parts, q, W
<1>9. ASSUME NEW n \in 1 .. N
      PROVE  /\ Neat(parts[n]) /\ Rim(parts[n]) = CellRim(rate, col(n), row(n))
             /\ Upright(q, parts[n]) /\ Weigh(q, parts[n]) = W
  <2>1. col(n) \in 0 .. Span(rate) - 2 /\ row(n) \in 0 .. Span(rate) - 2 /\ parts[n] = Cell(rate, col(n), row(n))
      BY <1>3, <1>6, <1>8
  <2> QED
      BY <2>1, CellIsNeat DEF q, W
<1>10. \A n \in 1 .. N : IsSeq(parts[n])
    BY <1>9 DEF Neat
<1>11. Parts(parts) /\ Len(parts) = N
    BY <1>4, <1>8, <1>10, PartsIs
<1>12. ASSUME NEW k \in 1 .. N, NEW n \in 1 .. N, k # n
       PROVE  Rim(parts[k]) \cap Rim(parts[n]) = {}
  <2>1. SUFFICES ASSUME NEW e \in Rim(parts[k]) \cap Rim(parts[n]) PROVE FALSE
      OBVIOUS
  <2>2. e \in CellRim(rate, col(k), row(k)) /\ e \in CellRim(rate, col(n), row(n))
      BY <1>9
  <2>3. /\ col(k) \in 0 .. m - 1 /\ row(k) \in 0 .. m - 1 /\ k = row(k) * m + (col(k) + 1)
        /\ col(n) \in 0 .. m - 1 /\ row(n) \in 0 .. m - 1 /\ n = row(n) * m + (col(n) + 1)
      BY <1>6
  <2>4. /\ col(k) \in 0 .. Span(rate) - 2 /\ row(k) \in 0 .. Span(rate) - 2
        /\ col(n) \in 0 .. Span(rate) - 2 /\ row(n) \in 0 .. Span(rate) - 2
      BY <1>3, <2>3
  <2>5. CellHop(rate, e, col(k), row(k))
      BY <2>2, <2>4, CellHops
  <2>6. CellHop(rate, e, col(n), row(n))
      BY <2>2, <2>4, CellHops
  <2>7. col(k) \in Nat /\ row(k) \in Nat /\ col(n) \in Nat /\ row(n) \in Nat
      BY <2>3
  <2>8. col(k) = col(n) /\ row(k) = row(n)
      BY <2>5, <2>6, <2>7, CellsApart
  <2> QED
      BY <1>12, <2>3, <2>8
<1>13. Neat(Concat(parts)) /\ Rim(Concat(parts)) = UNION {Rim(parts[k]) : k \in 1 .. N}
    BY <1>9, <1>11, <1>12, NeatConcat
<1>14. W \in Nat
  <2>1. PICK c \in Nat : c = Cut(rate)
      BY GridIs
  <2>2. 2 * (c * c) \in Nat
      OBVIOUS
  <2> QED
      BY <2>1, <2>2 DEF W
<1> DEFINE sum == [n \in 0 .. N |-> n * W]
<1>15. \A n \in 1 .. N : n \in 0 .. N /\ n - 1 \in 0 .. N /\ n * W = (n - 1) * W + W
    BY <1>4, <1>14
<1>16. 0 * W = 0 /\ 0 \in 0 .. N /\ N \in 0 .. N
    BY <1>4, <1>14
<1>17. sum[0] = 0 /\ sum[N] = N * W /\ \A n \in 1 .. N : sum[n] = sum[n - 1] + W
    BY <1>15, <1>16
<1> HIDE DEF sum
<1>18. Upright(q, Concat(parts)) /\ Weigh(q, Concat(parts)) = N * W
    BY <1>9, <1>11, <1>17, WeighConcat
<1>19. N = (Span(rate) - 1) * (Span(rate) - 1)
    BY <1>2 DEF N
<1>20. ASSUME NEW e, e \in Rim(Concat(parts))
       PROVE \E i \in 0 .. m - 1, j \in 0 .. m - 1 : e \in CellRim(rate, i, j)
    BY <1>6, <1>9, <1>13, <1>20
<1>21. ASSUME NEW e, NEW i \in 0 .. m - 1, NEW j \in 0 .. m - 1, e \in CellRim(rate, i, j)
       PROVE  e \in Rim(Concat(parts))
  <2>1. PICK n \in 1 .. N : col(n) = i /\ row(n) = j
      BY <1>7
  <2>2. e \in Rim(parts[n])
      BY <1>9, <1>21, <2>1
  <2> QED
      BY <1>13, <2>2
<1>22. \A e : e \in Rim(GridTriangles(rate)) <=>
                \E i \in 0 .. Span(rate) - 2, j \in 0 .. Span(rate) - 2 : e \in CellRim(rate, i, j)
    BY <1>3, <1>5, <1>20, <1>21
<1> QED
    BY <1>5, <1>13, <1>18, <1>19, <1>22 DEF q, W

\* The edge from a side to the run that faces it that a step leaves behind.
Spoke(rate, side, n) ==
    <<BoundaryAt(rate, side, Outing(rate, side)[n][1]), Facing(rate, side, Outing(rate, side)[n][2])>>
Turned(e) == <<e[2], e[1]>>

\* Where the walk of a side stands after n steps, and what the next step does.
StandsAt(rate, side, n, o, i) ==
    /\ o \in 0 .. rate[side] /\ i \in 0 .. Span(rate) - 1 /\ o + i = n
    /\ Outing(rate, side)[n] = <<o, i>>
GoesOut(rate, side, n, o, i) ==
    /\ StandsAt(rate, side, n, o, i) /\ o < rate[side] /\ StandsAt(rate, side, n + 1, o + 1, i)
GoesIn(rate, side, n, o, i) ==
    /\ StandsAt(rate, side, n, o, i) /\ i < Span(rate) - 1 /\ StandsAt(rate, side, n + 1, o, i + 1)

\* The numbers a walk has, as naturals.
LEMMA SideIs ==
  ASSUME NEW rate \in [1 .. 4 -> Rates], 2 =< InnerRate(rate), NEW side \in 1 .. 4
  PROVE  /\ rate[side] \in Nat /\ 1 =< rate[side]
         /\ Span(rate) \in Nat /\ 1 =< Span(rate)
         /\ LastStep(rate, side) \in Nat /\ 1 =< LastStep(rate, side)
         /\ LastStep(rate, side) = rate[side] + (Span(rate) - 1)
<1>1. rate[side] \in Nat /\ 1 =< rate[side] /\ Span(rate) \in Nat /\ 1 =< Span(rate)
    BY StartsAre, GridIs
<1> QED
    BY <1>1 DEF LastStep

\* Each step of the walk is one of the two.
LEMMA OutingIs ==
  ASSUME NEW rate \in [1 .. 4 -> Rates], 2 =< InnerRate(rate), NEW side \in 1 .. 4
  PROVE  /\ StandsAt(rate, side, 0, 0, 0)
         /\ StandsAt(rate, side, LastStep(rate, side), rate[side], Span(rate) - 1)
         /\ \A n \in 0 .. LastStep(rate, side) :
              \E o \in 0 .. rate[side], i \in 0 .. Span(rate) - 1 : StandsAt(rate, side, n, o, i)
         /\ \A n \in 0 .. LastStep(rate, side) - 1 :
              \E o \in 0 .. rate[side], i \in 0 .. Span(rate) - 1 :
                 GoesOut(rate, side, n, o, i) \/ GoesIn(rate, side, n, o, i)
<1>1. PICK outer \in Nat, inner \in Nat :
          /\ outer = rate[side] /\ inner = Span(rate) - 1 /\ LastStep(rate, side) = outer + inner
    BY SideIs
<1> DEFINE g == Outing(rate, side)
<1>2. g = Walk(outer, inner)
    BY <1>1 DEF Outing
<1> HIDE DEF g
<1>3. /\ g[0] = <<0, 0>> /\ g[outer + inner] = <<outer, inner>>
      /\ \A n \in 0 .. outer + inner : Standing(outer, inner, n, g[n])
      /\ \A n \in 1 .. outer + inner :
            g[n] = <<g[n - 1][1] + 1, g[n - 1][2]>> \/ g[n] = <<g[n - 1][1], g[n - 1][2] + 1>>
    BY <1>2, WalkIs
<1>4. \A n, o, i : StandsAt(rate, side, n, o, i) <=>
          o \in 0 .. outer /\ i \in 0 .. inner /\ o + i = n /\ g[n] = <<o, i>>
    BY <1>1 DEF StandsAt, g
<1>5. StandsAt(rate, side, 0, 0, 0)
    BY <1>3, <1>4
<1>6. StandsAt(rate, side, outer + inner, outer, inner)
    BY <1>3, <1>4
<1>7. ASSUME NEW n \in 0 .. outer + inner
      PROVE  \E o \in 0 .. outer, i \in 0 .. inner : StandsAt(rate, side, n, o, i)
  <2>1. g[n] = <<g[n][1], g[n][2]>> /\ g[n][1] \in 0 .. outer /\ g[n][2] \in 0 .. inner /\ g[n][1] + g[n][2] = n
      BY <1>3 DEF Standing
  <2> QED
      BY <1>4, <2>1
<1>8. ASSUME NEW n \in 0 .. outer + inner - 1
      PROVE  \E o \in 0 .. outer, i \in 0 .. inner :
                 \/ StandsAt(rate, side, n, o, i) /\ o < outer /\ StandsAt(rate, side, n + 1, o + 1, i)
                 \/ StandsAt(rate, side, n, o, i) /\ i < inner /\ StandsAt(rate, side, n + 1, o, i + 1)
  <2>1. n \in 0 .. outer + inner /\ n + 1 \in 1 .. outer + inner /\ n + 1 \in 0 .. outer + inner /\ (n + 1) - 1 = n
      OBVIOUS
  <2>2. PICK o \in 0 .. outer, i \in 0 .. inner : StandsAt(rate, side, n, o, i)
      BY <1>7, <2>1
  <2>3. PICK u \in 0 .. outer, v \in 0 .. inner : StandsAt(rate, side, n + 1, u, v)
      BY <1>7, <2>1
  <2>4. g[n] = <<o, i>> /\ g[n + 1] = <<u, v>>
      BY <1>4, <2>2, <2>3
  <2>5. g[n + 1] = <<o + 1, i>> \/ g[n + 1] = <<o, i + 1>>
      BY <1>3, <2>1, <2>4
  <2>6. (u = o + 1 /\ v = i) \/ (u = o /\ v = i + 1)
      BY <2>4, <2>5
  <2>7. CASE u = o + 1 /\ v = i
    <3>1. o < outer
        BY <2>7
    <3> QED
        BY <2>2, <2>3, <2>7, <3>1
  <2>8. CASE u = o /\ v = i + 1
    <3>1. i < inner
        BY <2>8
    <3> QED
        BY <2>2, <2>3, <2>8, <3>1
  <2> QED
      BY <2>6, <2>7, <2>8
<1>9. \A n \in 0 .. LastStep(rate, side) :
              \E o \in 0 .. rate[side], i \in 0 .. Span(rate) - 1 : StandsAt(rate, side, n, o, i)
    BY <1>1, <1>7
<1>10. \A n \in 0 .. LastStep(rate, side) - 1 :
              \E o \in 0 .. rate[side], i \in 0 .. Span(rate) - 1 :
                 GoesOut(rate, side, n, o, i) \/ GoesIn(rate, side, n, o, i)
    BY <1>1, <1>8 DEF GoesOut, GoesIn
<1> QED
    BY <1>1, <1>5, <1>6, <1>9, <1>10

\* A walk stands at one place after n steps.
LEMMA OnePlace ==
  ASSUME NEW rate, NEW side, NEW n, NEW o, NEW i, NEW u, NEW v,
         StandsAt(rate, side, n, o, i), StandsAt(rate, side, n, u, v)
  PROVE  o = u /\ i = v
BY DEF StandsAt

\* The run that faces a side is crossed step by step.
LEMMA WalkCrosses ==
  ASSUME NEW rate \in [1 .. 4 -> Rates], 2 =< InnerRate(rate), NEW side \in 1 .. 4,
         NEW i \in Nat, i < Span(rate) - 1
  PROVE  \E n \in 0 .. LastStep(rate, side) - 1 : \E o \in 0 .. rate[side] : GoesIn(rate, side, n, o, i)
<1>1. PICK L \in Nat : L = LastStep(rate, side) /\ 1 =< L
    BY SideIs
<1> DEFINE P == {n \in 0 .. L : \E o \in 0 .. rate[side], k \in 0 .. Span(rate) - 1 :
                                    StandsAt(rate, side, n, o, k) /\ k =< i}
<1>2. P \in SUBSET (0 .. L)
    OBVIOUS
<1>3. 0 \in P
  <2>1. StandsAt(rate, side, 0, 0, 0) /\ 0 =< i
      BY OutingIs
  <2> QED
      BY <2>1, <1>1 DEF StandsAt
<1>4. L \notin P
  <2>1. SUFFICES ASSUME L \in P PROVE FALSE
      OBVIOUS
  <2>2. PICK o, k : StandsAt(rate, side, L, o, k) /\ k =< i
      BY <2>1
  <2>3. StandsAt(rate, side, L, rate[side], Span(rate) - 1)
      BY <1>1, OutingIs
  <2>4. k = Span(rate) - 1
      BY <2>2, <2>3, OnePlace
  <2> QED
      BY <2>2, <2>4, SideIs
<1>5. \A n \in P : n \in 0 .. L /\ \E o \in 0 .. rate[side], k \in 0 .. Span(rate) - 1 :
                                    StandsAt(rate, side, n, o, k) /\ k =< i
    OBVIOUS
<1>6. \A n \in 0 .. L : \A o \in 0 .. rate[side], k \in 0 .. Span(rate) - 1 :
          StandsAt(rate, side, n, o, k) /\ k =< i => n \in P
    OBVIOUS
<1> HIDE DEF P
<1>7. PICK n \in P : n < L /\ n + 1 \notin P
  <2>1. P # 0 .. L
      BY <1>1, <1>4
  <2> QED
      BY <1>1, <1>2, <1>3, <2>1, CountsUp
<1>8. n \in 0 .. L - 1 /\ n + 1 \in 0 .. L
    BY <1>1, <1>5, <1>7
<1>9. PICK o \in 0 .. rate[side], k \in 0 .. Span(rate) - 1 :
          GoesOut(rate, side, n, o, k) \/ GoesIn(rate, side, n, o, k)
    BY <1>1, <1>8, OutingIs
<1>10. StandsAt(rate, side, n, o, k)
    BY <1>9 DEF GoesOut, GoesIn
<1>11. k =< i
    BY <1>5, <1>7, <1>10, OnePlace
<1>12. ~GoesOut(rate, side, n, o, k)
  <2>1. SUFFICES ASSUME GoesOut(rate, side, n, o, k) PROVE FALSE
      OBVIOUS
  <2>2. StandsAt(rate, side, n + 1, o + 1, k) /\ o + 1 \in 0 .. rate[side]
      BY <2>1 DEF GoesOut, StandsAt
  <2> QED
      BY <1>6, <1>7, <1>8, <1>11, <2>2
<1>13. GoesIn(rate, side, n, o, k)
    BY <1>9, <1>12
<1>14. StandsAt(rate, side, n + 1, o, k + 1) /\ k + 1 \in 0 .. Span(rate) - 1
    BY <1>13 DEF GoesIn, StandsAt
<1>15. ~(k + 1 =< i)
    BY <1>6, <1>7, <1>8, <1>14
<1>16. k = i
    BY <1>11, <1>15
<1> QED
    BY <1>1, <1>8, <1>13, <1>16

\* What a step's triangle is: the spoke it makes, the one it had turned round,
\* and a segment of the side or of the run.
ThirdEdge(rate, side, n, e) ==
    \/ \E o \in 0 .. rate[side], i \in 0 .. Span(rate) - 1 :
          GoesOut(rate, side, n, o, i) /\ e = <<BoundaryAt(rate, side, o), BoundaryAt(rate, side, o + 1)>>
    \/ \E o \in 0 .. rate[side], i \in 0 .. Span(rate) - 1 :
          GoesIn(rate, side, n, o, i) /\ e = <<Facing(rate, side, i + 1), Facing(rate, side, i)>>

StepPart(rate, side, n) ==
    StitchTriangle(rate, side, Outing(rate, side)[n - 1], Outing(rate, side)[n])

\* Its three edges are those and no more.
LEMMA StepIsNeat ==
  ASSUME NEW rate \in [1 .. 4 -> Rates], 2 =< InnerRate(rate), NEW side \in 1 .. 4,
         NEW n \in 0 .. LastStep(rate, side) - 1
  PROVE  /\ Neat(StepPart(rate, side, n + 1))
         /\ \E e : /\ ThirdEdge(rate, side, n, e)
                   /\ Rim(StepPart(rate, side, n + 1))
                        = {Spoke(rate, side, n + 1), Turned(Spoke(rate, side, n)), e}
<1>1. PICK o \in 0 .. rate[side], i \in 0 .. Span(rate) - 1 :
          GoesOut(rate, side, n, o, i) \/ GoesIn(rate, side, n, o, i)
    BY OutingIs
<1>2. PICK m \in Nat : m = BoundarySamples(rate) /\ m \in Nat
    BY StartsAre
<1>3. PICK L \in Nat : L = LastStep(rate, side)
    BY SideIs
<1>4. (n + 1) - 1 = n
    BY <1>3
<1> DEFINE A == BoundaryAt(rate, side, o)
           F == Facing(rate, side, i)
           part == StepPart(rate, side, n + 1)
<1>5. Outing(rate, side)[n] = <<o, i>> /\ Spoke(rate, side, n) = <<A, F>>
    BY <1>1 DEF GoesOut, GoesIn, StandsAt, Spoke
<1>6. A \in 1 .. m /\ F \in Nat /\ m < F
    BY <1>2, BoundaryAtIs, FacingIs
<1>7. CASE GoesOut(rate, side, n, o, i)
  <2> DEFINE B == BoundaryAt(rate, side, o + 1)
  <2>1. /\ o < rate[side] /\ o + 1 \in 0 .. rate[side] /\ o \in 0 .. rate[side] - 1
        /\ Outing(rate, side)[n + 1] = <<o + 1, i>> /\ Spoke(rate, side, n + 1) = <<B, F>>
    <3>1. /\ o < rate[side] /\ o + 1 \in 0 .. rate[side]
          /\ Outing(rate, side)[n + 1] = <<o + 1, i>> /\ Spoke(rate, side, n + 1) = <<B, F>>
        BY <1>7 DEF GoesOut, StandsAt, Spoke
    <3>2. rate[side] \in Nat
        BY SideIs
    <3> QED
        BY <3>1, <3>2
  <2>2. part = <<OutwardTriangle(rate, side, o, i)>>
      BY <1>4, <1>5, <2>1, StitchTriangleIs DEF StepPart
  <2>3. part = <<<<A, B, F>>>>
      BY <2>2 DEF OutwardTriangle
  <2>4. A # B
      BY <2>1, BoundaryTurns
  <2>5. B \in 1 .. m
      BY <1>2, <2>1, BoundaryAtIs
  <2>6. ThirdEdge(rate, side, n, <<A, B>>)
      BY <1>7 DEF ThirdEdge
  <2> HIDE DEF A, B, F, part
  <2>7. A # F /\ B # F
      BY <1>6, <2>5
  <2>8. Neat(<<<<A, B, F>>>>) /\ Rim(<<<<A, B, F>>>>) = {<<A, B>>, <<B, F>>, <<F, A>>}
      BY <2>4, <2>7, NeatTriangle
  <2>9. Turned(Spoke(rate, side, n)) = <<F, A>>
      BY <1>5 DEF Turned
  <2>10. Neat(part) /\ Rim(part) = {Spoke(rate, side, n + 1), Turned(Spoke(rate, side, n)), <<A, B>>}
      BY <2>1, <2>3, <2>8, <2>9
  <2> QED
      BY <2>6, <2>10 DEF part
<1>8. CASE GoesIn(rate, side, n, o, i)
  <2> DEFINE G == Facing(rate, side, i + 1)
  <2>1. /\ i < Span(rate) - 1 /\ i + 1 \in 0 .. Span(rate) - 1
        /\ Outing(rate, side)[n + 1] = <<o, i + 1>> /\ Spoke(rate, side, n + 1) = <<A, G>>
      BY <1>8 DEF GoesIn, StandsAt, Spoke
  <2>2. part = <<InwardTriangle(rate, side, o, i)>>
      BY <1>4, <1>5, <2>1, StitchTriangleIs DEF StepPart
  <2>3. part = <<<<A, G, F>>>>
      BY <2>2 DEF InwardTriangle
  <2>4. G # F
    <3>1. i # i + 1
        BY SideIs
    <3> QED
        BY <2>1, <3>1, FacingApart
  <2>5. G \in Nat /\ m < G
      BY <1>2, <2>1, FacingIs
  <2>6. ThirdEdge(rate, side, n, <<G, F>>)
      BY <1>8 DEF ThirdEdge
  <2> HIDE DEF A, G, F, part
  <2>7. A # F /\ A # G
      BY <1>6, <2>5
  <2>8. Neat(<<<<A, G, F>>>>) /\ Rim(<<<<A, G, F>>>>) = {<<A, G>>, <<G, F>>, <<F, A>>}
      BY <2>4, <2>7, NeatTriangle
  <2>9. Turned(Spoke(rate, side, n)) = <<F, A>>
      BY <1>5 DEF Turned
  <2>10. Neat(part) /\ Rim(part) = {Spoke(rate, side, n + 1), Turned(Spoke(rate, side, n)), <<G, F>>}
      BY <2>1, <2>3, <2>8, <2>9
  <2> QED
      BY <2>6, <2>10 DEF part
<1> QED
    BY <1>1, <1>7, <1>8

\* Where the samples of the run that faces a side stand in the grid.
LEMMA FacingSpot ==
  ASSUME NEW rate \in [1 .. 4 -> Rates], 2 =< InnerRate(rate), NEW side \in 1 .. 4,
         NEW i \in 0 .. Span(rate) - 1
  PROVE  /\ side = 1 => Spot(rate, Facing(rate, side, i)) = <<i, 0>>
         /\ side = 2 => Spot(rate, Facing(rate, side, i)) = <<Span(rate) - 1, i>>
         /\ side = 3 => Spot(rate, Facing(rate, side, i)) = <<(Span(rate) - 1) - i, Span(rate) - 1>>
         /\ side = 4 => Spot(rate, Facing(rate, side, i)) = <<0, (Span(rate) - 1) - i>>
<1> DEFINE k == FacingColumn(rate, side, i)
           m == FacingRow(rate, side, i)
<1>1. k \in 0 .. Span(rate) - 1 /\ m \in 0 .. Span(rate) - 1 /\ Facing(rate, side, i) = Inside(rate, k, m)
    BY FacingIs
<1>2. /\ side = 1 => k = i /\ m = 0
      /\ side = 2 => k = Span(rate) - 1 /\ m = i
      /\ side = 3 => k = Span(rate) - 1 - i /\ m = Span(rate) - 1
      /\ side = 4 => k = 0 /\ m = Span(rate) - 1 - i
  <2>1. CASE side = 1
      BY <2>1 DEF FacingColumn, FacingRow
  <2>2. CASE side = 2
      BY <2>2 DEF FacingColumn, FacingRow
  <2>3. CASE side = 3
      BY <2>3 DEF FacingColumn, FacingRow
  <2>4. CASE side = 4
      BY <2>4 DEF FacingColumn, FacingRow
  <2> QED
      BY <2>1, <2>2, <2>3, <2>4
<1> HIDE DEF k, m
<1>3. Spot(rate, Facing(rate, side, i)) = <<k, m>>
    BY <1>1, SpotIs
<1> QED
    BY <1>2, <1>3

\* The runs of two sides meet at the corner between them.
LEMMA FacingsMeet ==
  ASSUME NEW rate \in [1 .. 4 -> Rates], 2 =< InnerRate(rate), NEW side \in 1 .. 4
  PROVE  /\ Facing(rate, side, Span(rate) - 1) = Facing(rate, Following(side), 0)
         /\ \A i, v \in 0 .. Span(rate) - 1 :
              Facing(rate, side, i) = Facing(rate, Following(side), v) => i = Span(rate) - 1 /\ v = 0
<1>1. PICK last \in Nat : last = Span(rate) - 1
    BY GridIs
<1>2. /\ side = 1 => Following(side) = 2
      /\ side = 2 => Following(side) = 3
      /\ side = 3 => Following(side) = 4
      /\ side = 4 => Following(side) = 1
      /\ Following(side) \in 1 .. 4
    BY DEF Following
<1>3. last \in 0 .. last /\ 0 \in 0 .. last /\ last - last = 0 /\ last - 0 = last
    OBVIOUS
<1>4. Facing(rate, side, last) = Facing(rate, Following(side), 0)
  <2>1. CASE side = 1
    <3>1. Following(side) = 2
        BY <1>2, <2>1
    <3>2. Facing(rate, 1, last) = Inside(rate, last, 0) /\ Facing(rate, 2, 0) = Inside(rate, last, 0)
        BY <1>1, <1>3, FacingIs DEF FacingColumn, FacingRow
    <3> QED
        BY <2>1, <3>1, <3>2
  <2>2. CASE side = 2
    <3>1. Following(side) = 3
        BY <1>2, <2>2
    <3>2. Facing(rate, 2, last) = Inside(rate, last, last) /\ Facing(rate, 3, 0) = Inside(rate, last, last)
        BY <1>1, <1>3, FacingIs DEF FacingColumn, FacingRow
    <3> QED
        BY <2>2, <3>1, <3>2
  <2>3. CASE side = 3
    <3>1. Following(side) = 4
        BY <1>2, <2>3
    <3>2. Facing(rate, 3, last) = Inside(rate, 0, last) /\ Facing(rate, 4, 0) = Inside(rate, 0, last)
        BY <1>1, <1>3, FacingIs DEF FacingColumn, FacingRow
    <3> QED
        BY <2>3, <3>1, <3>2
  <2>4. CASE side = 4
    <3>1. Following(side) = 1
        BY <1>2, <2>4
    <3>2. Facing(rate, 4, last) = Inside(rate, 0, 0) /\ Facing(rate, 1, 0) = Inside(rate, 0, 0)
        BY <1>1, <1>3, FacingIs DEF FacingColumn, FacingRow
    <3> QED
        BY <2>4, <3>1, <3>2
  <2> QED
      BY <2>1, <2>2, <2>3, <2>4
<1>5. ASSUME NEW i \in 0 .. last, NEW v \in 0 .. last, Facing(rate, side, i) = Facing(rate, Following(side), v)
      PROVE  i = last /\ v = 0
  <2> DEFINE p == Spot(rate, Facing(rate, side, i))
             r == Spot(rate, Facing(rate, Following(side), v))
             next == Following(side)
  <2>1. p = r
      BY <1>5
  <2>2. /\ side = 1 => p = <<i, 0>>
        /\ side = 2 => p = <<last, i>>
        /\ side = 3 => p = <<last - i, last>>
        /\ side = 4 => p = <<0, last - i>>
      BY <1>1, FacingSpot
  <2>3. /\ next = 1 => r = <<v, 0>>
        /\ next = 2 => r = <<last, v>>
        /\ next = 3 => r = <<last - v, last>>
        /\ next = 4 => r = <<0, last - v>>
      BY <1>1, <1>2, FacingSpot
  <2> HIDE DEF p, r, next
  <2>4. /\ side = 1 => next = 2
        /\ side = 2 => next = 3
        /\ side = 3 => next = 4
        /\ side = 4 => next = 1
      BY <1>2 DEF next
  <2> QED
      BY <2>1, <2>2, <2>3, <2>4
<1> QED
    BY <1>1, <1>4, <1>5

\* A walk only goes forward.
LEMMA WalkGrows ==
  ASSUME NEW rate \in [1 .. 4 -> Rates], 2 =< InnerRate(rate), NEW side \in 1 .. 4,
         NEW n \in 0 .. LastStep(rate, side), NEW o, NEW i, StandsAt(rate, side, n, o, i)
  PROVE  \A m \in n .. LastStep(rate, side) : \A u, v : StandsAt(rate, side, m, u, v) => o =< u /\ i =< v
<1>1. PICK L \in Nat : L = LastStep(rate, side)
    BY SideIs
<1>2. n \in Nat /\ n =< L
    BY <1>1
<1> DEFINE P == {k \in 0 .. L - n : \A u, v : StandsAt(rate, side, n + k, u, v) => o =< u /\ i =< v}
<1>3. L - n \in Nat /\ P \in SUBSET (0 .. L - n)
    BY <1>2
<1>4. 0 \in P
  <2>1. ASSUME NEW u, NEW v, StandsAt(rate, side, n + 0, u, v) PROVE o =< u /\ i =< v
    <3>1. u = o /\ v = i
        BY <1>2, <2>1, OnePlace
    <3>2. o \in Nat /\ i \in Nat
        BY SideIs DEF StandsAt
    <3> QED
        BY <3>1, <3>2
  <2> QED
      BY <1>3, <2>1
<1>5. ASSUME NEW k \in P, k < L - n PROVE k + 1 \in P
  <2>1. k \in Nat /\ k + 1 \in 0 .. L - n /\ n + k \in 0 .. L - 1 /\ n + (k + 1) = (n + k) + 1
      BY <1>2, <1>5
  <2>2. PICK a \in 0 .. rate[side], b \in 0 .. Span(rate) - 1 :
          GoesOut(rate, side, n + k, a, b) \/ GoesIn(rate, side, n + k, a, b)
      BY <1>1, <2>1, OutingIs
  <2>3. StandsAt(rate, side, n + k, a, b)
      BY <2>2 DEF GoesOut, GoesIn
  <2>4. o =< a /\ i =< b
      BY <2>3
  <2>5. o \in Nat /\ i \in Nat /\ a \in Nat /\ b \in Nat
      BY <2>3, SideIs DEF StandsAt
  <2>6. StandsAt(rate, side, n + (k + 1), a + 1, b) \/ StandsAt(rate, side, n + (k + 1), a, b + 1)
      BY <2>1, <2>2 DEF GoesOut, GoesIn
  <2>7. ASSUME NEW u, NEW v, StandsAt(rate, side, n + (k + 1), u, v) PROVE o =< u /\ i =< v
    <3>1. (u = a + 1 /\ v = b) \/ (u = a /\ v = b + 1)
        BY <2>6, <2>7, OnePlace
    <3> QED
        BY <2>4, <2>5, <3>1
  <2> QED
      BY <2>1, <2>7
<1> HIDE DEF P
<1>6. P = 0 .. L - n
    BY <1>3, <1>4, <1>5, CountsUp
<1>7. ASSUME NEW m \in n .. L, NEW u, NEW v, StandsAt(rate, side, m, u, v) PROVE o =< u /\ i =< v
  <2>1. m - n \in 0 .. L - n /\ n + (m - n) = m
      BY <1>2
  <2>2. m - n \in P
      BY <1>6, <2>1
  <2> QED
      BY <1>7, <2>1, <2>2 DEF P
<1> QED
    BY <1>1, <1>7

\* So no segment of the side and none of the run is walked twice.
LEMMA StepsOnce ==
  ASSUME NEW rate \in [1 .. 4 -> Rates], 2 =< InnerRate(rate), NEW side \in 1 .. 4,
         NEW n \in 0 .. LastStep(rate, side) - 1, NEW m \in 0 .. LastStep(rate, side) - 1,
         NEW o, NEW i, NEW u, NEW v,
         \/ GoesOut(rate, side, n, o, i) /\ GoesOut(rate, side, m, u, v) /\ o = u
         \/ GoesIn(rate, side, n, o, i) /\ GoesIn(rate, side, m, u, v) /\ i = v
  PROVE  n = m
<1>1. PICK L \in Nat : L = LastStep(rate, side)
    BY SideIs
<1>2. ASSUME NEW a \in 0 .. L - 1, NEW b \in 0 .. L - 1, a < b,
             NEW c, NEW d, NEW e, NEW f, StandsAt(rate, side, b, e, f),
             \/ StandsAt(rate, side, a + 1, c + 1, d) /\ c = e /\ e \in Nat
             \/ StandsAt(rate, side, a + 1, c, d + 1) /\ d = f /\ f \in Nat
      PROVE FALSE
  <2>1. a + 1 \in 0 .. L /\ b \in a + 1 .. L
      BY <1>2
  <2>2. ASSUME NEW x, NEW y, StandsAt(rate, side, a + 1, x, y) PROVE x =< e /\ y =< f
      BY <1>1, <1>2, <2>1, <2>2, WalkGrows
  <2>3. CASE StandsAt(rate, side, a + 1, c + 1, d) /\ c = e /\ e \in Nat
    <3>1. c + 1 =< e
        BY <2>2, <2>3
    <3> QED
        BY <2>3, <3>1
  <2>4. CASE StandsAt(rate, side, a + 1, c, d + 1) /\ d = f /\ f \in Nat
    <3>1. d + 1 =< f
        BY <2>2, <2>4
    <3> QED
        BY <2>4, <3>1
  <2> QED
      BY <1>2, <2>3, <2>4
<1>3. /\ StandsAt(rate, side, n, o, i) /\ StandsAt(rate, side, m, u, v)
      /\ o \in Nat /\ i \in Nat /\ u \in Nat /\ v \in Nat
  <2>1. StandsAt(rate, side, n, o, i) /\ StandsAt(rate, side, m, u, v)
      BY DEF GoesOut, GoesIn
  <2> QED
      BY <2>1, SideIs DEF StandsAt
<1>4. /\ \/ StandsAt(rate, side, n + 1, o + 1, i) /\ o = u
         \/ StandsAt(rate, side, n + 1, o, i + 1) /\ i = v
      /\ \/ StandsAt(rate, side, m + 1, u + 1, v) /\ u = o
         \/ StandsAt(rate, side, m + 1, u, v + 1) /\ v = i
    BY DEF GoesOut, GoesIn
<1>5. ~(n < m)
    BY <1>1, <1>2, <1>3, <1>4
<1>6. ~(m < n)
    BY <1>1, <1>2, <1>3, <1>4
<1> QED
    BY <1>1, <1>5, <1>6

\* The two spokes of a corner of the domain are one.
LEMMA SpokesMeet ==
  ASSUME NEW rate \in [1 .. 4 -> Rates], 2 =< InnerRate(rate), NEW side \in 1 .. 4
  PROVE  Spoke(rate, side, LastStep(rate, side)) = Spoke(rate, Following(side), 0)
<1>1. Following(side) \in 1 .. 4
    BY DEF Following
<1>2. /\ Outing(rate, side)[LastStep(rate, side)] = <<rate[side], Span(rate) - 1>>
      /\ Outing(rate, Following(side))[0] = <<0, 0>>
    BY <1>1, OutingIs DEF StandsAt
<1>3. BoundaryAt(rate, side, rate[side]) = BoundaryAt(rate, Following(side), 0)
  <2>1. rate[side] \in 0 .. rate[side]
      BY SideIs
  <2> QED
      BY <2>1, BoundaryAtIs
<1>4. Facing(rate, side, Span(rate) - 1) = Facing(rate, Following(side), 0)
    BY FacingsMeet
<1> QED
    BY <1>2, <1>3, <1>4 DEF Spoke

\* The end of one side and a sample of another are one only at the corner.
LEMMA SpokeTurns ==
  ASSUME NEW rate \in [1 .. 4 -> Rates], 2 =< InnerRate(rate), NEW side \in 1 .. 4, NEW s \in 1 .. 4,
         NEW n, NEW m, NEW o, NEW i, NEW u, NEW v,
         StandsAt(rate, side, n, o, i), StandsAt(rate, s, m, u, v), o = rate[side], u < rate[s],
         BoundaryAt(rate, side, o) = BoundaryAt(rate, s, u), Facing(rate, side, i) = Facing(rate, s, v)
  PROVE  s = Following(side) /\ n = LastStep(rate, side) /\ m = 0
<1> DEFINE next == Following(side)
<1>1. next \in 1 .. 4
    BY DEF Following
<1>2. /\ rate[side] \in Nat /\ 1 =< rate[side] /\ rate[s] \in Nat /\ 1 =< rate[s]
      /\ rate[next] \in Nat /\ 1 =< rate[next]
      /\ LastStep(rate, side) = rate[side] + (Span(rate) - 1)
    BY <1>1, SideIs
<1>3. o \in 0 .. rate[side] /\ u \in 0 .. rate[s] - 1 /\ 0 \in 0 .. rate[next] - 1 /\ o + i = n /\ u + v = m
      /\ i \in 0 .. Span(rate) - 1 /\ v \in 0 .. Span(rate) - 1
    BY <1>2 DEF StandsAt
<1>4. BoundaryAt(rate, side, o) = BoundaryAt(rate, next, 0)
    BY <1>3, BoundaryAtIs
<1>5. s = next /\ u = 0
  <2>1. BoundaryAt(rate, s, u) = BoundaryAt(rate, next, 0)
      BY <1>4
  <2> HIDE DEF next
  <2> QED
      BY <1>1, <1>3, <2>1, BoundaryApart
<1>6. i = Span(rate) - 1 /\ v = 0
    BY <1>3, <1>5, FacingsMeet
<1>7. Span(rate) \in Nat
    BY SideIs
<1> QED
    BY <1>2, <1>3, <1>5, <1>6, <1>7

\* No spoke is made twice, but for the one of each corner.
LEMMA SpokesApart ==
  ASSUME NEW rate \in [1 .. 4 -> Rates], 2 =< InnerRate(rate), NEW side \in 1 .. 4, NEW s \in 1 .. 4,
         NEW n \in 0 .. LastStep(rate, side), NEW m \in 0 .. LastStep(rate, s),
         Spoke(rate, side, n) = Spoke(rate, s, m)
  PROVE  \/ side = s /\ n = m
         \/ n = LastStep(rate, side) /\ m = 0
         \/ m = LastStep(rate, s) /\ n = 0
<1>1. PICK o, i : StandsAt(rate, side, n, o, i)
    BY OutingIs
<1>2. PICK u, v : StandsAt(rate, s, m, u, v)
    BY OutingIs
<1>3. /\ Spoke(rate, side, n) = <<BoundaryAt(rate, side, o), Facing(rate, side, i)>>
      /\ Spoke(rate, s, m) = <<BoundaryAt(rate, s, u), Facing(rate, s, v)>>
    BY <1>1, <1>2 DEF Spoke, StandsAt
<1>4. BoundaryAt(rate, side, o) = BoundaryAt(rate, s, u) /\ Facing(rate, side, i) = Facing(rate, s, v)
  <2>1. \A a, b, c, d : <<a, b>> = <<c, d>> => a = c /\ b = d
      OBVIOUS
  <2>2. <<BoundaryAt(rate, side, o), Facing(rate, side, i)>> = <<BoundaryAt(rate, s, u), Facing(rate, s, v)>>
      BY <1>3, Zenon
  <2> QED
      BY <2>1, <2>2, Zenon
<1>5. /\ rate[side] \in Nat /\ rate[s] \in Nat /\ o \in 0 .. rate[side] /\ u \in 0 .. rate[s]
      /\ i \in 0 .. Span(rate) - 1 /\ v \in 0 .. Span(rate) - 1 /\ o + i = n /\ u + v = m
    BY <1>1, <1>2, SideIs DEF StandsAt
<1>6. CASE o < rate[side] /\ u < rate[s]
  <2>1. o \in 0 .. rate[side] - 1 /\ u \in 0 .. rate[s] - 1
      BY <1>5, <1>6
  <2>2. side = s /\ o = u
      BY <1>4, <2>1, BoundaryApart
  <2>3. i = v
      BY <1>4, <1>5, <2>2, FacingApart
  <2> QED
      BY <1>5, <2>2, <2>3
<1>7. CASE o = rate[side] /\ u < rate[s]
    BY <1>1, <1>2, <1>4, <1>7, SpokeTurns
<1>8. CASE o < rate[side] /\ u = rate[s]
    BY <1>1, <1>2, <1>4, <1>8, SpokeTurns
<1>9. CASE o = rate[side] /\ u = rate[s]
  <2>1. Following(side) \in 1 .. 4 /\ Following(s) \in 1 .. 4
      BY DEF Following
  <2>2. BoundaryAt(rate, Following(side), 0) = BoundaryAt(rate, Following(s), 0)
      BY <1>4, <1>5, <1>9, BoundaryAtIs
  <2>3. 0 \in 0 .. rate[Following(side)] - 1 /\ 0 \in 0 .. rate[Following(s)] - 1
    <3>1. \A x \in 1 .. 4 : 0 \in 0 .. rate[x] - 1
        BY SideIs
    <3> QED
        BY <2>1, <3>1
  <2>4. Following(side) = Following(s)
      BY <2>1, <2>2, <2>3, BoundaryApart
  <2>5. side = s
      BY <2>4 DEF Following
  <2>6. o = u
      BY <1>9, <2>5
  <2>7. i = v
      BY <1>4, <1>5, <2>5, FacingApart
  <2> QED
      BY <1>5, <2>5, <2>6, <2>7
<1> QED
    BY <1>5, <1>6, <1>7, <1>8, <1>9

\* On the boundary, and inside it.
OnRim(rate, x) == x \in 1 .. BoundarySamples(rate)
Within(rate, x) == x \in Nat /\ BoundarySamples(rate) < x

\* Never both.
LEMMA NotBoth ==
  ASSUME NEW rate \in [1 .. 4 -> Rates], NEW x
  PROVE  ~(OnRim(rate, x) /\ Within(rate, x))
BY StartsAre DEF OnRim, Within

\* Which ends of a step's edges are inside.
LEMMA EdgeKinds ==
  ASSUME NEW rate \in [1 .. 4 -> Rates], 2 =< InnerRate(rate), NEW side \in 1 .. 4,
         NEW n \in 0 .. LastStep(rate, side)
  PROVE  /\ OnRim(rate, Spoke(rate, side, n)[1]) /\ Within(rate, Spoke(rate, side, n)[2])
         /\ \A e : ThirdEdge(rate, side, n, e) =>
              \/ OnRim(rate, e[1]) /\ OnRim(rate, e[2])
              \/ Within(rate, e[1]) /\ Within(rate, e[2])
<1>1. \A o \in 0 .. rate[side] : OnRim(rate, BoundaryAt(rate, side, o))
    BY BoundaryAtIs DEF OnRim
<1>2. \A i \in 0 .. Span(rate) - 1 : Within(rate, Facing(rate, side, i))
    BY FacingIs DEF Within
<1>3. PICK o, i : StandsAt(rate, side, n, o, i)
    BY OutingIs
<1>4. Spoke(rate, side, n) = <<BoundaryAt(rate, side, o), Facing(rate, side, i)>> /\ o \in 0 .. rate[side] /\ i \in 0 .. Span(rate) - 1
    BY <1>3 DEF Spoke, StandsAt
<1>5. ASSUME NEW e, ThirdEdge(rate, side, n, e)
      PROVE  \/ OnRim(rate, e[1]) /\ OnRim(rate, e[2])
             \/ Within(rate, e[1]) /\ Within(rate, e[2])
  <2>1. CASE \E u \in 0 .. rate[side], v \in 0 .. Span(rate) - 1 :
          GoesOut(rate, side, n, u, v) /\ e = <<BoundaryAt(rate, side, u), BoundaryAt(rate, side, u + 1)>>
    <3>1. PICK u \in 0 .. rate[side], v \in 0 .. Span(rate) - 1 :
          GoesOut(rate, side, n, u, v) /\ e = <<BoundaryAt(rate, side, u), BoundaryAt(rate, side, u + 1)>>
        BY <2>1
    <3>2. u + 1 \in 0 .. rate[side]
        BY <3>1 DEF GoesOut, StandsAt
    <3> QED
        BY <1>1, <3>1, <3>2
  <2>2. CASE \E u \in 0 .. rate[side], v \in 0 .. Span(rate) - 1 :
          GoesIn(rate, side, n, u, v) /\ e = <<Facing(rate, side, v + 1), Facing(rate, side, v)>>
    <3>1. PICK u \in 0 .. rate[side], v \in 0 .. Span(rate) - 1 :
          GoesIn(rate, side, n, u, v) /\ e = <<Facing(rate, side, v + 1), Facing(rate, side, v)>>
        BY <2>2
    <3>2. v + 1 \in 0 .. Span(rate) - 1
        BY <3>1 DEF GoesIn, StandsAt
    <3> QED
        BY <1>2, <3>1, <3>2
  <2> QED
      BY <1>5, <2>1, <2>2 DEF ThirdEdge
<1> QED
    BY <1>1, <1>2, <1>4, <1>5

\* From one sample of a run to the one before it, as a hop of the grid.
RunHop(rate, e, side, i) ==
    /\ side = 1 => Spot(rate, e[1]) = <<i + 1, 0>> /\ Spot(rate, e[2]) = <<i, 0>>
    /\ side = 2 => Spot(rate, e[1]) = <<Span(rate) - 1, i + 1>> /\ Spot(rate, e[2]) = <<Span(rate) - 1, i>>
    /\ side = 3 => /\ Spot(rate, e[1]) = <<(Span(rate) - 1) - (i + 1), Span(rate) - 1>>
                   /\ Spot(rate, e[2]) = <<(Span(rate) - 1) - i, Span(rate) - 1>>
    /\ side = 4 => /\ Spot(rate, e[1]) = <<0, (Span(rate) - 1) - (i + 1)>>
                   /\ Spot(rate, e[2]) = <<0, (Span(rate) - 1) - i>>

\* A segment of a run is that hop.
LEMMA RunHops ==
  ASSUME NEW rate \in [1 .. 4 -> Rates], 2 =< InnerRate(rate), NEW side \in 1 .. 4,
         NEW i \in 0 .. Span(rate) - 1, i + 1 \in 0 .. Span(rate) - 1, NEW e,
         e = <<Facing(rate, side, i + 1), Facing(rate, side, i)>>
  PROVE  RunHop(rate, e, side, i)
<1>1. e[1] = Facing(rate, side, i + 1) /\ e[2] = Facing(rate, side, i)
    OBVIOUS
<1> DEFINE a == Spot(rate, e[1])
           b == Spot(rate, e[2])
<1>2. /\ side = 1 => b = <<i, 0>>
      /\ side = 2 => b = <<Span(rate) - 1, i>>
      /\ side = 3 => b = <<(Span(rate) - 1) - i, Span(rate) - 1>>
      /\ side = 4 => b = <<0, (Span(rate) - 1) - i>>
    BY <1>1, FacingSpot
<1>3. /\ side = 1 => a = <<i + 1, 0>>
      /\ side = 2 => a = <<Span(rate) - 1, i + 1>>
      /\ side = 3 => a = <<(Span(rate) - 1) - (i + 1), Span(rate) - 1>>
      /\ side = 4 => a = <<0, (Span(rate) - 1) - (i + 1)>>
    BY <1>1, FacingSpot
<1> QED
    BY <1>2, <1>3, Zenon DEF RunHop

\* No segment of a run is one of another, nor another one of its own.
LEMMA RunsApart ==
  ASSUME NEW rate, Span(rate) \in Nat, NEW e, NEW side \in 1 .. 4, NEW s \in 1 .. 4, NEW i \in Nat, NEW v \in Nat,
         RunHop(rate, e, side, i), RunHop(rate, e, s, v)
  PROVE  side = s /\ i = v
<1>1. PICK last \in Int : last = Span(rate) - 1
    OBVIOUS
<1> DEFINE a == Spot(rate, e[1])
           b == Spot(rate, e[2])
<1>2. /\ side = 1 => a = <<i + 1, 0>> /\ b = <<i, 0>>
      /\ side = 2 => a = <<last, i + 1>> /\ b = <<last, i>>
      /\ side = 3 => a = <<last - (i + 1), last>> /\ b = <<last - i, last>>
      /\ side = 4 => a = <<0, last - (i + 1)>> /\ b = <<0, last - i>>
    BY <1>1 DEF RunHop
<1>3. /\ s = 1 => a = <<v + 1, 0>> /\ b = <<v, 0>>
      /\ s = 2 => a = <<last, v + 1>> /\ b = <<last, v>>
      /\ s = 3 => a = <<last - (v + 1), last>> /\ b = <<last - v, last>>
      /\ s = 4 => a = <<0, last - (v + 1)>> /\ b = <<0, last - v>>
    BY <1>1 DEF RunHop
<1> HIDE DEF a, b
<1>4. side \in {1, 2, 3, 4} /\ s \in {1, 2, 3, 4}
    OBVIOUS
<1> QED
    BY <1>2, <1>3, <1>4

\* The edges of the triangle of a step.
EdgeOf(rate, side, n, e) ==
    \/ e = Spoke(rate, side, n + 1)
    \/ e = Turned(Spoke(rate, side, n))
    \/ ThirdEdge(rate, side, n, e)

\* A step has one third edge.
LEMMA ThirdIsOne ==
  ASSUME NEW rate \in [1 .. 4 -> Rates], 2 =< InnerRate(rate), NEW side \in 1 .. 4,
         NEW n, NEW e, NEW f, ThirdEdge(rate, side, n, e), ThirdEdge(rate, side, n, f)
  PROVE  e = f
<1>1. PICK o, i : \/ GoesOut(rate, side, n, o, i) /\ e = <<BoundaryAt(rate, side, o), BoundaryAt(rate, side, o + 1)>>
                  \/ GoesIn(rate, side, n, o, i) /\ e = <<Facing(rate, side, i + 1), Facing(rate, side, i)>>
    BY DEF ThirdEdge
<1>2. PICK u, v : \/ GoesOut(rate, side, n, u, v) /\ f = <<BoundaryAt(rate, side, u), BoundaryAt(rate, side, u + 1)>>
                  \/ GoesIn(rate, side, n, u, v) /\ f = <<Facing(rate, side, v + 1), Facing(rate, side, v)>>
    BY DEF ThirdEdge
<1>3. StandsAt(rate, side, n, o, i) /\ StandsAt(rate, side, n, u, v)
    BY <1>1, <1>2 DEF GoesOut, GoesIn
<1>4. o = u /\ i = v
    BY <1>3, OnePlace
<1>5. ~(GoesOut(rate, side, n, o, i) /\ GoesIn(rate, side, n, o, i))
  <2>1. SUFFICES ASSUME GoesOut(rate, side, n, o, i), GoesIn(rate, side, n, o, i) PROVE FALSE
      OBVIOUS
  <2>2. StandsAt(rate, side, n + 1, o + 1, i) /\ StandsAt(rate, side, n + 1, o, i + 1)
      BY <2>1 DEF GoesOut, GoesIn
  <2>3. o + 1 = o
      BY <2>2, OnePlace
  <2>4. o \in Nat
      BY <1>3, SideIs DEF StandsAt
  <2> QED
      BY <2>3, <2>4
<1> QED
    BY <1>1, <1>2, <1>4, <1>5, Zenon

\* The edges of a step's triangle, and that they are its own three.
LEMMA StepEdges ==
  ASSUME NEW rate \in [1 .. 4 -> Rates], 2 =< InnerRate(rate), NEW side \in 1 .. 4,
         NEW n \in 0 .. LastStep(rate, side) - 1
  PROVE  /\ Neat(StepPart(rate, side, n + 1))
         /\ \A e : e \in Rim(StepPart(rate, side, n + 1)) <=> EdgeOf(rate, side, n, e)
<1>1. PICK f : /\ ThirdEdge(rate, side, n, f)
               /\ Rim(StepPart(rate, side, n + 1))
                        = {Spoke(rate, side, n + 1), Turned(Spoke(rate, side, n)), f}
    BY StepIsNeat
<1>2. \A e : ThirdEdge(rate, side, n, e) <=> e = f
    BY <1>1, ThirdIsOne
<1>3. Neat(StepPart(rate, side, n + 1))
    BY StepIsNeat
<1> QED
    BY <1>1, <1>2, <1>3 DEF EdgeOf

\* A third edge is of one step of one side.
LEMMA ThirdsApart ==
  ASSUME NEW rate \in [1 .. 4 -> Rates], 2 =< InnerRate(rate), NEW side \in 1 .. 4, NEW s \in 1 .. 4,
         NEW n \in 0 .. LastStep(rate, side) - 1, NEW m \in 0 .. LastStep(rate, s) - 1,
         NEW e, ThirdEdge(rate, side, n, e), ThirdEdge(rate, s, m, e)
  PROVE  side = s /\ n = m
<1>1. PICK o, i : \/ GoesOut(rate, side, n, o, i) /\ e = <<BoundaryAt(rate, side, o), BoundaryAt(rate, side, o + 1)>>
                  \/ GoesIn(rate, side, n, o, i) /\ e = <<Facing(rate, side, i + 1), Facing(rate, side, i)>>
    BY DEF ThirdEdge
<1>2. PICK u, v : \/ GoesOut(rate, s, m, u, v) /\ e = <<BoundaryAt(rate, s, u), BoundaryAt(rate, s, u + 1)>>
                  \/ GoesIn(rate, s, m, u, v) /\ e = <<Facing(rate, s, v + 1), Facing(rate, s, v)>>
    BY DEF ThirdEdge
<1>3. /\ o \in 0 .. rate[side] /\ i \in 0 .. Span(rate) - 1 /\ u \in 0 .. rate[s] /\ v \in 0 .. Span(rate) - 1
      /\ rate[side] \in Nat /\ rate[s] \in Nat /\ Span(rate) \in Nat
    BY <1>1, <1>2, SideIs DEF GoesOut, GoesIn, StandsAt
<1>4. OnRim(rate, BoundaryAt(rate, side, o)) /\ OnRim(rate, BoundaryAt(rate, s, u))
    BY <1>3, BoundaryAtIs DEF OnRim
<1>5. Within(rate, Facing(rate, side, i)) /\ Within(rate, Facing(rate, s, v))
    BY <1>3, FacingIs DEF Within
<1>6. CASE GoesOut(rate, side, n, o, i) /\ e = <<BoundaryAt(rate, side, o), BoundaryAt(rate, side, o + 1)>>
  <2>1. OnRim(rate, e[1])
      BY <1>4, <1>6
  <2>2. CASE GoesOut(rate, s, m, u, v) /\ e = <<BoundaryAt(rate, s, u), BoundaryAt(rate, s, u + 1)>>
    <3>1. e[1] = BoundaryAt(rate, side, o)
        BY <1>6
    <3>2. e[1] = BoundaryAt(rate, s, u)
        BY <2>2
    <3>3. o \in 0 .. rate[side] - 1 /\ u \in 0 .. rate[s] - 1
        BY <1>3, <1>6, <2>2 DEF GoesOut
    <3>4. side = s /\ o = u
      <4>1. BoundaryAt(rate, side, o) = BoundaryAt(rate, s, u)
          BY <3>1, <3>2, Zenon
      <4> QED
          BY <3>3, <4>1, BoundaryApart
    <3>5. n = m
        BY <1>6, <2>2, <3>4, StepsOnce
    <3> QED
        BY <3>4, <3>5
  <2>3. CASE GoesIn(rate, s, m, u, v) /\ e = <<Facing(rate, s, v + 1), Facing(rate, s, v)>>
    <3>1. v + 1 \in 0 .. Span(rate) - 1
        BY <2>3 DEF GoesIn, StandsAt
    <3>2. Within(rate, Facing(rate, s, v + 1))
        BY <3>1, FacingIs DEF Within
    <3>3. Within(rate, e[1])
        BY <2>3, <3>2
    <3> QED
        BY <2>1, <3>3, NotBoth
  <2> QED
      BY <1>2, <2>2, <2>3
<1>7. CASE GoesIn(rate, side, n, o, i) /\ e = <<Facing(rate, side, i + 1), Facing(rate, side, i)>>
  <2>1. e[2] = Facing(rate, side, i) /\ Within(rate, e[2])
      BY <1>5, <1>7
  <2>2. CASE GoesOut(rate, s, m, u, v) /\ e = <<BoundaryAt(rate, s, u), BoundaryAt(rate, s, u + 1)>>
    <3>1. u + 1 \in 0 .. rate[s]
        BY <2>2 DEF GoesOut, StandsAt
    <3>2. OnRim(rate, BoundaryAt(rate, s, u + 1))
        BY <3>1, BoundaryAtIs DEF OnRim
    <3>3. OnRim(rate, e[2])
        BY <2>2, <3>2
    <3> QED
        BY <2>1, <3>3, NotBoth
  <2>3. CASE GoesIn(rate, s, m, u, v) /\ e = <<Facing(rate, s, v + 1), Facing(rate, s, v)>>
    <3>1. i + 1 \in 0 .. Span(rate) - 1 /\ v + 1 \in 0 .. Span(rate) - 1
        BY <1>7, <2>3 DEF GoesIn, StandsAt
    <3>2. RunHop(rate, e, side, i)
        BY <1>3, <1>7, <3>1, RunHops
    <3>3. RunHop(rate, e, s, v)
        BY <1>3, <2>3, <3>1, RunHops
    <3>4. i \in Nat /\ v \in Nat
        BY <1>3
    <3>5. side = s /\ i = v
        BY <1>3, <3>2, <3>3, <3>4, RunsApart
    <3>6. n = m
        BY <1>7, <2>3, <3>5, StepsOnce
    <3> QED
        BY <3>5, <3>6
  <2> QED
      BY <1>2, <2>2, <2>3
<1> QED
    BY <1>1, <1>6, <1>7

\* No two steps share a directed edge, of one side or of two.
LEMMA StepsApart ==
  ASSUME NEW rate \in [1 .. 4 -> Rates], 2 =< InnerRate(rate), NEW side \in 1 .. 4, NEW s \in 1 .. 4,
         NEW n \in 0 .. LastStep(rate, side) - 1, NEW m \in 0 .. LastStep(rate, s) - 1,
         NEW e, EdgeOf(rate, side, n, e), EdgeOf(rate, s, m, e)
  PROVE  side = s /\ n = m
<1> DEFINE a == Spoke(rate, side, n + 1)
           b == Spoke(rate, side, n)
           c == Spoke(rate, s, m + 1)
           d == Spoke(rate, s, m)
<1>1. PICK L \in Nat, K \in Nat : L = LastStep(rate, side) /\ K = LastStep(rate, s) /\ 1 =< L /\ 1 =< K
    BY SideIs
<1>2. n + 1 \in 0 .. L /\ n \in 0 .. L /\ m + 1 \in 0 .. K /\ m \in 0 .. K
    BY <1>1
<1>3. /\ OnRim(rate, a[1]) /\ Within(rate, a[2]) /\ OnRim(rate, b[1]) /\ Within(rate, b[2])
      /\ OnRim(rate, c[1]) /\ Within(rate, c[2]) /\ OnRim(rate, d[1]) /\ Within(rate, d[2])
    BY <1>1, <1>2, EdgeKinds
<1>4. /\ ThirdEdge(rate, side, n, e) => \/ OnRim(rate, e[1]) /\ OnRim(rate, e[2])
                                        \/ Within(rate, e[1]) /\ Within(rate, e[2])
      /\ ThirdEdge(rate, s, m, e) => \/ OnRim(rate, e[1]) /\ OnRim(rate, e[2])
                                     \/ Within(rate, e[1]) /\ Within(rate, e[2])
    BY <1>1, <1>2, EdgeKinds
<1>5. /\ a = <<a[1], a[2]>> /\ b = <<b[1], b[2]>> /\ c = <<c[1], c[2]>> /\ d = <<d[1], d[2]>>
    BY DEF Spoke
<1>6. /\ e = a \/ e = Turned(b) \/ ThirdEdge(rate, side, n, e)
      /\ e = c \/ e = Turned(d) \/ ThirdEdge(rate, s, m, e)
    BY DEF EdgeOf
<1> HIDE DEF a, b, c, d
<1>7. \A x : ~(OnRim(rate, x) /\ Within(rate, x))
    BY NotBoth
<1>8. /\ Turned(b)[1] = b[2] /\ Turned(b)[2] = b[1] /\ Turned(d)[1] = d[2] /\ Turned(d)[2] = d[1]
      /\ b = Turned(Turned(b)) /\ d = Turned(Turned(d))
    BY <1>5 DEF Turned
<1>9. \/ a = c
      \/ b = d
      \/ ThirdEdge(rate, side, n, e) /\ ThirdEdge(rate, s, m, e)
  <2>1. CASE e = a
    <3>1. OnRim(rate, e[1]) /\ Within(rate, e[2])
        BY <1>3, <2>1
    <3>2. e # Turned(d)
        BY <1>3, <1>7, <1>8, <3>1
    <3>3. ~ThirdEdge(rate, s, m, e)
        BY <1>4, <1>7, <3>1
    <3> QED
        BY <1>6, <2>1, <3>2, <3>3
  <2>2. CASE e = Turned(b)
    <3>1. Within(rate, e[1]) /\ OnRim(rate, e[2])
        BY <1>3, <1>8, <2>2
    <3>2. e # c
        BY <1>3, <1>7, <3>1
    <3>3. ~ThirdEdge(rate, s, m, e)
        BY <1>4, <1>7, <3>1
    <3> QED
        BY <1>6, <1>8, <2>2, <3>2, <3>3
  <2>3. CASE ThirdEdge(rate, side, n, e)
    <3>1. ~(OnRim(rate, e[1]) /\ Within(rate, e[2])) /\ ~(Within(rate, e[1]) /\ OnRim(rate, e[2]))
        BY <1>4, <1>7, <2>3
    <3>2. e # c /\ e # Turned(d)
        BY <1>3, <1>8, <3>1
    <3> QED
        BY <1>6, <2>3, <3>2
  <2> QED
      BY <1>6, <2>1, <2>2, <2>3
<1>10. ASSUME a = c PROVE side = s /\ n = m
  <2>1. \/ side = s /\ n + 1 = m + 1
        \/ n + 1 = LastStep(rate, side) /\ m + 1 = 0
        \/ m + 1 = LastStep(rate, s) /\ n + 1 = 0
      BY <1>1, <1>2, <1>10, SpokesApart DEF a, c
  <2> QED
      BY <1>1, <1>2, <2>1
<1>11. ASSUME b = d PROVE side = s /\ n = m
  <2>1. \/ side = s /\ n = m
        \/ n = LastStep(rate, side) /\ m = 0
        \/ m = LastStep(rate, s) /\ n = 0
      BY <1>1, <1>2, <1>11, SpokesApart DEF b, d
  <2> QED
      BY <1>1, <1>2, <2>1
<1> QED
    BY <1>9, <1>10, <1>11, ThirdsApart

\* A step adds what the walk's progress says it does.
LEMMA StepWeighs ==
  ASSUME NEW rate \in [1 .. 4 -> Rates], 2 =< InnerRate(rate), NEW side \in 1 .. 4,
         NEW n \in 0 .. LastStep(rate, side) - 1,
         NEW a \in Nat, NEW b \in Nat, a = (MaxRate \div rate[side]) * Cut(rate), b = Cut(rate) * Cut(rate)
  PROVE  /\ Upright(TessellateQuad(rate), StepPart(rate, side, n + 1))
         /\ \E o \in Nat, i \in Nat :
              /\ StandsAt(rate, side, n, o, i)
              /\ \/ /\ StandsAt(rate, side, n + 1, o + 1, i)
                    /\ Weigh(TessellateQuad(rate), StepPart(rate, side, n + 1)) = a
                 \/ /\ StandsAt(rate, side, n + 1, o, i + 1)
                    /\ Weigh(TessellateQuad(rate), StepPart(rate, side, n + 1)) = b
<1>1. PICK o \in 0 .. rate[side], i \in 0 .. Span(rate) - 1 :
          GoesOut(rate, side, n, o, i) \/ GoesIn(rate, side, n, o, i)
    BY OutingIs
<1>2. /\ StandsAt(rate, side, n, o, i) /\ Outing(rate, side)[n] = <<o, i>> /\ o \in Nat /\ i \in Nat
      /\ (n + 1) - 1 = n
  <2>1. StandsAt(rate, side, n, o, i)
      BY <1>1 DEF GoesOut, GoesIn
  <2> QED
      BY <2>1, SideIs DEF StandsAt
<1> DEFINE q == TessellateQuad(rate)
           part == StepPart(rate, side, n + 1)
<1>3. 0 < a /\ 0 < b
  <2>1. PICK c \in Nat : c = Cut(rate) /\ 0 < c
      BY GridIs
  <2>2. PICK s \in Nat : s = MaxRate \div rate[side] /\ 0 < s
      BY StartsAre, RatesAre
  <2>3. 0 < s * c /\ 0 < c * c
      BY <2>1, <2>2
  <2> QED
      BY <2>1, <2>2, <2>3
<1>4. CASE GoesOut(rate, side, n, o, i)
  <2> DEFINE t == OutwardTriangle(rate, side, o, i)
  <2>1. o < rate[side] /\ StandsAt(rate, side, n + 1, o + 1, i) /\ Outing(rate, side)[n + 1] = <<o + 1, i>>
      BY <1>4 DEF GoesOut, StandsAt
  <2>2. part = <<t>>
      BY <1>2, <2>1, StitchTriangleIs DEF StepPart
  <2>3. Area2(q, t) = a
      BY <2>1, StitchAreas
  <2> HIDE DEF t, q, part
  <2>4. Upright(q, <<t>>) /\ Weigh(q, <<t>>) = a
      BY <1>3, <2>3, WeighTriangle
  <2>5. Upright(q, part) /\ Weigh(q, part) = a
      BY <2>2, <2>4
  <2> QED
      BY <1>2, <2>1, <2>5 DEF q, part
<1>5. CASE GoesIn(rate, side, n, o, i)
  <2> DEFINE t == InwardTriangle(rate, side, o, i)
  <2>1. i < Span(rate) - 1 /\ StandsAt(rate, side, n + 1, o, i + 1) /\ Outing(rate, side)[n + 1] = <<o, i + 1>>
      BY <1>5 DEF GoesIn, StandsAt
  <2>2. part = <<t>>
      BY <1>2, <2>1, StitchTriangleIs DEF StepPart
  <2>3. Area2(q, t) = b
      BY <2>1, StitchAreas
  <2> HIDE DEF t, q, part
  <2>4. Upright(q, <<t>>) /\ Weigh(q, <<t>>) = b
      BY <1>3, <2>3, WeighTriangle
  <2>5. Upright(q, part) /\ Weigh(q, part) = b
      BY <2>2, <2>4
  <2> QED
      BY <1>2, <2>1, <2>5 DEF q, part
<1> QED
    BY <1>1, <1>4, <1>5

\* A side's stitches share no directed edge and cover the border along it.
LEMMA StitchIsNeat ==
  ASSUME NEW rate \in [1 .. 4 -> Rates], 2 =< InnerRate(rate), NEW side \in 1 .. 4
  PROVE  /\ Neat(Stitch(rate, side))
         /\ \A e : e \in Rim(Stitch(rate, side)) <=>
                \E n \in 0 .. LastStep(rate, side) - 1 : EdgeOf(rate, side, n, e)
         /\ Upright(TessellateQuad(rate), Stitch(rate, side))
         /\ Weigh(TessellateQuad(rate), Stitch(rate, side)) = 2 * (Span(rate) * (Cut(rate) * Cut(rate)))
<1>1. PICK L \in Nat : L = LastStep(rate, side) /\ 1 =< L
    BY SideIs
<1> DEFINE parts == [n \in 1 .. L |-> StepPart(rate, side, n)]
           q == TessellateQuad(rate)
<1>2. Stitch(rate, side) = Concat(parts)
    BY <1>1, StitchIs DEF StepPart
<1>3. parts = [n \in 1 .. L |-> parts[n]] /\ \A n \in 1 .. L : parts[n] = StepPart(rate, side, n)
    OBVIOUS
<1> HIDE DEF parts, q
<1>4. ASSUME NEW n \in 1 .. L PROVE n - 1 \in 0 .. LastStep(rate, side) - 1 /\ (n - 1) + 1 = n
    BY <1>1
<1>5. ASSUME NEW n \in 1 .. L
      PROVE  Neat(parts[n]) /\ \A e : e \in Rim(parts[n]) <=> EdgeOf(rate, side, n - 1, e)
  <2>1. parts[n] = StepPart(rate, side, (n - 1) + 1) /\ n - 1 \in 0 .. LastStep(rate, side) - 1
      BY <1>3, <1>4
  <2> QED
      BY <2>1, StepEdges
<1>6. \A n \in 1 .. L : IsSeq(parts[n])
    BY <1>5 DEF Neat
<1>7. Parts(parts) /\ Len(parts) = L
    BY <1>3, <1>6, PartsIs
<1>8. ASSUME NEW k \in 1 .. L, NEW n \in 1 .. L, k # n
      PROVE  Rim(parts[k]) \cap Rim(parts[n]) = {}
  <2>1. SUFFICES ASSUME NEW e \in Rim(parts[k]) \cap Rim(parts[n]) PROVE FALSE
      OBVIOUS
  <2>2. EdgeOf(rate, side, k - 1, e) /\ EdgeOf(rate, side, n - 1, e)
      BY <1>5
  <2>3. k - 1 \in 0 .. LastStep(rate, side) - 1 /\ n - 1 \in 0 .. LastStep(rate, side) - 1
      BY <1>4
  <2>4. k - 1 = n - 1
      BY <2>2, <2>3, StepsApart
  <2> QED
      BY <1>8, <2>4
<1>9. Neat(Concat(parts)) /\ Rim(Concat(parts)) = UNION {Rim(parts[k]) : k \in 1 .. L}
    BY <1>5, <1>7, <1>8, NeatConcat
<1>10. PICK a \in Nat, b \in Nat : a = (MaxRate \div rate[side]) * Cut(rate) /\ b = Cut(rate) * Cut(rate)
  <2>1. PICK c \in Nat : c = Cut(rate)
      BY GridIs
  <2>2. PICK s \in Nat : s = MaxRate \div rate[side]
      BY StartsAre, RatesAre
  <2>3. s * c \in Nat /\ c * c \in Nat
      OBVIOUS
  <2> QED
      BY <2>1, <2>2, <2>3
<1> DEFINE sum == [n \in 0 .. L |-> Outing(rate, side)[n][1] * a + Outing(rate, side)[n][2] * b]
<1>11. ASSUME NEW n \in 0 .. L, NEW o, NEW i, StandsAt(rate, side, n, o, i)
       PROVE  sum[n] = o * a + i * b
    BY <1>11 DEF StandsAt
<1> HIDE DEF sum
<1>12. sum[0] = 0
  <2>1. sum[0] = 0 * a + 0 * b
      BY <1>1, <1>11, OutingIs
  <2> QED
      BY <2>1
<1>13. ASSUME NEW n \in 1 .. L
       PROVE  Upright(q, parts[n]) /\ sum[n] = sum[n - 1] + Weigh(q, parts[n])
  <2>1. parts[n] = StepPart(rate, side, (n - 1) + 1) /\ n - 1 \in 0 .. LastStep(rate, side) - 1
        /\ n - 1 \in 0 .. L /\ (n - 1) + 1 = n
      BY <1>1, <1>3, <1>4
  <2> DEFINE W == Weigh(q, StepPart(rate, side, (n - 1) + 1))
  <2>2. /\ Upright(q, StepPart(rate, side, (n - 1) + 1))
        /\ \E o \in Nat, i \in Nat :
              /\ StandsAt(rate, side, n - 1, o, i)
              /\ \/ StandsAt(rate, side, (n - 1) + 1, o + 1, i) /\ W = a
                 \/ StandsAt(rate, side, (n - 1) + 1, o, i + 1) /\ W = b
      BY <1>10, <2>1, StepWeighs DEF q
  <2>3. W = Weigh(q, parts[n])
      BY <2>1
  <2> HIDE DEF W
  <2>4. PICK o \in Nat, i \in Nat :
              /\ StandsAt(rate, side, n - 1, o, i)
              /\ \/ StandsAt(rate, side, n, o + 1, i) /\ W = a
                 \/ StandsAt(rate, side, n, o, i + 1) /\ W = b
      BY <2>1, <2>2
  <2>5. sum[n - 1] = o * a + i * b
      BY <1>11, <2>1, <2>4
  <2>6. n \in 0 .. L
      BY <2>1
  <2>7. CASE StandsAt(rate, side, n, o + 1, i) /\ W = a
    <3>1. sum[n] = (o + 1) * a + i * b
        BY <1>11, <2>6, <2>7
    <3>2. (o + 1) * a + i * b = (o * a + i * b) + a
        OBVIOUS
    <3>3. sum[n] = sum[n - 1] + Weigh(q, parts[n])
        BY <2>3, <2>5, <2>7, <3>1, <3>2, Zenon
    <3> QED
        BY <2>1, <2>2, <3>3
  <2>8. CASE StandsAt(rate, side, n, o, i + 1) /\ W = b
    <3>1. sum[n] = o * a + (i + 1) * b
        BY <1>11, <2>6, <2>8
    <3>2. o * a + (i + 1) * b = (o * a + i * b) + b
        OBVIOUS
    <3>3. sum[n] = sum[n - 1] + Weigh(q, parts[n])
        BY <2>3, <2>5, <2>8, <3>1, <3>2, Zenon
    <3> QED
        BY <2>1, <2>2, <3>3
  <2> QED
      BY <2>4, <2>7, <2>8
<1>14. Upright(q, Concat(parts)) /\ Weigh(q, Concat(parts)) = sum[L]
    BY <1>7, <1>12, <1>13, WeighConcat
<1>15. sum[L] = 2 * (Span(rate) * (Cut(rate) * Cut(rate)))
  <2>1. PICK w \in Nat : w = Span(rate) /\ 1 =< w
      BY SideIs
  <2>2. sum[L] = rate[side] * a + (w - 1) * b
    <3>1. L \in 0 .. L
        OBVIOUS
    <3>2. StandsAt(rate, side, L, rate[side], w - 1)
        BY <1>1, <2>1, OutingIs, Zenon
    <3> QED
        BY <1>11, <3>1, <3>2, Zenon
  <2>3. PICK c \in Nat : c = Cut(rate) /\ (w + 1) * c = MaxRate
      BY <2>1, GridIs
  <2>4. PICK s \in Nat, r \in Nat : s = MaxRate \div rate[side] /\ r = rate[side] /\ r * s = MaxRate
      BY StartsAre, RatesAre
  <2>5. a = s * c /\ b = c * c
      BY <1>10, <2>3, <2>4
  <2>6. r * s = (w + 1) * c
      BY <2>3, <2>4
  <2>7. r * (s * c) = (r * s) * c
      OBVIOUS
  <2>8. ((w + 1) * c) * c + (w - 1) * (c * c) = 2 * (w * (c * c))
      OBVIOUS
  <2>9. r * (s * c) + (w - 1) * (c * c) = 2 * (w * (c * c))
      BY <2>6, <2>7, <2>8, Zenon
  <2> QED
      BY <2>1, <2>2, <2>3, <2>4, <2>5, <2>9, Zenon
<1>16. ASSUME NEW e
       PROVE  e \in Rim(Concat(parts)) <=> \E n \in 0 .. LastStep(rate, side) - 1 : EdgeOf(rate, side, n, e)
  <2>1. ASSUME e \in Rim(Concat(parts)) PROVE \E n \in 0 .. LastStep(rate, side) - 1 : EdgeOf(rate, side, n, e)
      BY <1>4, <1>5, <1>9, <2>1
  <2>2. ASSUME NEW n \in 0 .. LastStep(rate, side) - 1, EdgeOf(rate, side, n, e) PROVE e \in Rim(Concat(parts))
    <3>1. n + 1 \in 1 .. L /\ (n + 1) - 1 = n
        BY <1>1
    <3>2. e \in Rim(parts[n + 1])
        BY <1>5, <2>2, <3>1
    <3> QED
        BY <1>9, <3>1, <3>2
  <2> QED
      BY <2>1, <2>2
<1> QED
    BY <1>2, <1>9, <1>14, <1>15, <1>16 DEF q

\* What the run that faces a side is of the grid.
LEMMA FacingAt ==
  ASSUME NEW rate \in [1 .. 4 -> Rates], 2 =< InnerRate(rate), NEW side \in 1 .. 4,
         NEW last \in Nat, last = Span(rate) - 1, NEW i \in 0 .. last
  PROVE  /\ side = 1 => Facing(rate, side, i) = Inside(rate, i, 0)
         /\ side = 2 => Facing(rate, side, i) = Inside(rate, last, i)
         /\ side = 3 => Facing(rate, side, i) = Inside(rate, last - i, last)
         /\ side = 4 => Facing(rate, side, i) = Inside(rate, 0, last - i)
<1> DEFINE k == FacingColumn(rate, side, i)
           m == FacingRow(rate, side, i)
<1>1. Facing(rate, side, i) = Inside(rate, k, m)
    BY FacingIs
<1>2. /\ side = 1 => k = i /\ m = 0
      /\ side = 2 => k = last /\ m = i
      /\ side = 3 => k = last - i /\ m = last
      /\ side = 4 => k = 0 /\ m = last - i
  <2>1. CASE side = 1
      BY <2>1 DEF FacingColumn, FacingRow
  <2>2. CASE side = 2
      BY <2>2 DEF FacingColumn, FacingRow
  <2>3. CASE side = 3
      BY <2>3 DEF FacingColumn, FacingRow
  <2>4. CASE side = 4
      BY <2>4 DEF FacingColumn, FacingRow
  <2> QED
      BY <2>1, <2>2, <2>3, <2>4
<1> HIDE DEF k, m
<1> QED
    BY <1>1, <1>2, Zenon

\* No cell has an edge of a stitch.
LEMMA CellsAndStitchesApart ==
  ASSUME NEW rate \in [1 .. 4 -> Rates], 2 =< InnerRate(rate),
         NEW i \in 0 .. Span(rate) - 2, NEW j \in 0 .. Span(rate) - 2,
         NEW side \in 1 .. 4, NEW n \in 0 .. LastStep(rate, side) - 1,
         NEW e \in CellRim(rate, i, j), EdgeOf(rate, side, n, e)
  PROVE  FALSE
<1>1. PICK last \in Nat : last = Span(rate) - 1 /\ Span(rate) \in Nat
    BY SideIs
<1>2. CellHop(rate, e, i, j)
    BY CellHops
<1>3. Within(rate, e[1]) /\ Within(rate, e[2])
  <2>1. i \in 0 .. Span(rate) - 1 /\ i + 1 \in 0 .. Span(rate) - 1 /\ j \in 0 .. Span(rate) - 1 /\ j + 1 \in 0 .. Span(rate) - 1
      BY <1>1
  <2>2. \A a, b \in 0 .. Span(rate) - 1 : Within(rate, Inside(rate, a, b))
      BY InsideIs DEF Within
  <2> QED
      BY <1>2, <2>1, <2>2 DEF CellHop, Hop
<1>4. n \in 0 .. LastStep(rate, side) /\ n + 1 \in 0 .. LastStep(rate, side)
    BY SideIs
<1>5. ThirdEdge(rate, side, n, e)
  <2>1. e # Spoke(rate, side, n + 1)
      BY <1>3, <1>4, EdgeKinds, NotBoth
  <2>2. e # Turned(Spoke(rate, side, n))
    <3>1. OnRim(rate, Spoke(rate, side, n)[1])
        BY <1>4, EdgeKinds
    <3>2. Turned(Spoke(rate, side, n))[2] = Spoke(rate, side, n)[1]
        BY DEF Turned
    <3> QED
        BY <1>3, <3>1, <3>2, NotBoth
  <2> QED
      BY <2>1, <2>2 DEF EdgeOf
<1>6. PICK o, k : \/ GoesOut(rate, side, n, o, k) /\ e = <<BoundaryAt(rate, side, o), BoundaryAt(rate, side, o + 1)>>
                  \/ GoesIn(rate, side, n, o, k) /\ e = <<Facing(rate, side, k + 1), Facing(rate, side, k)>>
    BY <1>5 DEF ThirdEdge
<1>7. ~(GoesOut(rate, side, n, o, k) /\ e = <<BoundaryAt(rate, side, o), BoundaryAt(rate, side, o + 1)>>)
  <2>1. SUFFICES ASSUME GoesOut(rate, side, n, o, k), e = <<BoundaryAt(rate, side, o), BoundaryAt(rate, side, o + 1)>> PROVE FALSE
      OBVIOUS
  <2>2. o \in 0 .. rate[side] /\ e[1] = BoundaryAt(rate, side, o)
      BY <2>1 DEF GoesOut, StandsAt
  <2>3. OnRim(rate, e[1])
      BY <2>2, BoundaryAtIs DEF OnRim
  <2> QED
      BY <1>3, <2>3, NotBoth
<1>8. GoesIn(rate, side, n, o, k) /\ e = <<Facing(rate, side, k + 1), Facing(rate, side, k)>>
    BY <1>6, <1>7
<1>9. k \in 0 .. Span(rate) - 1 /\ k + 1 \in 0 .. Span(rate) - 1 /\ k \in 0 .. last /\ k + 1 =< last
  <2>1. k \in 0 .. Span(rate) - 1 /\ k + 1 \in 0 .. Span(rate) - 1
      BY <1>8 DEF GoesIn, StandsAt
  <2> QED
      BY <1>1, <2>1
<1>10. RunHop(rate, e, side, k)
    BY <1>8, <1>9, RunHops
<1> DEFINE a == Spot(rate, e[1])
           b == Spot(rate, e[2])
<1>11. /\ side = 1 => a = <<k + 1, 0>> /\ b = <<k, 0>>
       /\ side = 2 => a = <<last, k + 1>> /\ b = <<last, k>>
       /\ side = 3 => a = <<last - (k + 1), last>> /\ b = <<last - k, last>>
       /\ side = 4 => a = <<0, last - (k + 1)>> /\ b = <<0, last - k>>
    BY <1>1, <1>10 DEF RunHop
<1>12. \/ a = <<i, j>> /\ b = <<i + 1, j>>
       \/ a = <<i + 1, j>> /\ b = <<i + 1, j + 1>>
       \/ a = <<i + 1, j + 1>> /\ b = <<i, j>>
       \/ a = <<i, j>> /\ b = <<i + 1, j + 1>>
       \/ a = <<i + 1, j + 1>> /\ b = <<i, j + 1>>
       \/ a = <<i, j + 1>> /\ b = <<i, j>>
    BY <1>2 DEF CellHop, Hop
<1>13. i \in Nat /\ j \in Nat /\ i < last /\ j < last
    BY <1>1
<1> HIDE DEF a, b
<1>14. side \in {1, 2, 3, 4}
    OBVIOUS
<1> QED
    BY <1>9, <1>11, <1>12, <1>13, <1>14

\* The directed edges of a whole domain.
LEMMA DomainIsNeat ==
  ASSUME NEW rate \in [1 .. 4 -> Rates], 2 =< InnerRate(rate)
  PROVE  /\ Neat(TessellateQuad(rate).triangles)
         /\ \A e : e \in Rim(TessellateQuad(rate).triangles) <=>
                \/ \E i \in 0 .. Span(rate) - 2, j \in 0 .. Span(rate) - 2 : e \in CellRim(rate, i, j)
                \/ \E side \in 1 .. 4 : \E n \in 0 .. LastStep(rate, side) - 1 : EdgeOf(rate, side, n, e)
         /\ Upright(TessellateQuad(rate), TessellateQuad(rate).triangles)
         /\ Weigh(TessellateQuad(rate), TessellateQuad(rate).triangles) = 2 * Square(MaxRate)
<1> DEFINE q == TessellateQuad(rate)
           grid == GridTriangles(rate)
           parts == [side \in 1 .. 4 |-> Stitch(rate, side)]
           border == Concat(parts)
           W == 2 * (Span(rate) * (Cut(rate) * Cut(rate)))
<1>1. q.triangles = grid \o border
    BY TrianglesAre
<1>2. /\ Neat(grid) /\ Upright(q, grid)
      /\ \A e : e \in Rim(grid) <=>
                \E i \in 0 .. Span(rate) - 2, j \in 0 .. Span(rate) - 2 : e \in CellRim(rate, i, j)
      /\ Weigh(q, grid) = ((Span(rate) - 1) * (Span(rate) - 1)) * (2 * (Cut(rate) * Cut(rate)))
    BY GridIsNeat
<1>3. parts = [k \in 1 .. 4 |-> parts[k]] /\ \A k \in 1 .. 4 : parts[k] = Stitch(rate, k)
    OBVIOUS
<1> HIDE DEF parts, q, grid, W
<1>4. ASSUME NEW k \in 1 .. 4
      PROVE  /\ Neat(parts[k]) /\ Upright(q, parts[k]) /\ Weigh(q, parts[k]) = W
             /\ \A e : e \in Rim(parts[k]) <=> \E n \in 0 .. LastStep(rate, k) - 1 : EdgeOf(rate, k, n, e)
    BY <1>3, StitchIsNeat DEF q, W
<1>5. \A k \in 1 .. 4 : IsSeq(parts[k])
    BY <1>4 DEF Neat
<1>6. Parts(parts) /\ Len(parts) = 4
  <2>1. 4 \in Nat
      OBVIOUS
  <2> QED
      BY <1>3, <1>5, <2>1, PartsIs
<1>7. ASSUME NEW k \in 1 .. 4, NEW n \in 1 .. 4, k # n
      PROVE  Rim(parts[k]) \cap Rim(parts[n]) = {}
  <2>1. SUFFICES ASSUME NEW e \in Rim(parts[k]) \cap Rim(parts[n]) PROVE FALSE
      OBVIOUS
  <2>2. PICK a \in 0 .. LastStep(rate, k) - 1 : EdgeOf(rate, k, a, e)
      BY <1>4
  <2>3. PICK b \in 0 .. LastStep(rate, n) - 1 : EdgeOf(rate, n, b, e)
      BY <1>4
  <2> QED
      BY <1>7, <2>2, <2>3, StepsApart
<1>8. Neat(border) /\ Rim(border) = UNION {Rim(parts[k]) : k \in 1 .. 4}
    BY <1>4, <1>6, <1>7, NeatConcat
<1>9. \A e : e \in Rim(border) <=>
          \E side \in 1 .. 4 : \E n \in 0 .. LastStep(rate, side) - 1 : EdgeOf(rate, side, n, e)
    BY <1>4, <1>8
<1>10. PICK w \in Nat, c \in Nat : w = Span(rate) /\ c = Cut(rate) /\ 1 =< w /\ (w + 1) * c = MaxRate
    BY GridIs
<1>11. W = 2 * (w * (c * c)) /\ W \in Nat
  <2>1. 2 * (w * (c * c)) \in Nat
      OBVIOUS
  <2> QED
      BY <1>10, <2>1 DEF W
<1> DEFINE sum == [n \in 0 .. 4 |-> n * W]
<1>12. 0 * W = 0 /\ \A n \in 1 .. 4 : n * W = (n - 1) * W + W
    BY <1>11
<1>13. sum[0] = 0 /\ sum[4] = 4 * W /\ \A n \in 1 .. 4 : sum[n] = sum[n - 1] + W
    BY <1>12
<1> HIDE DEF sum
<1>14. Upright(q, border) /\ Weigh(q, border) = 4 * W
  <2>1. \A k \in 1 .. Len(parts) : Upright(q, parts[k]) /\ sum[k] = sum[k - 1] + Weigh(q, parts[k])
      BY <1>4, <1>6, <1>13
  <2>2. Upright(q, Concat(parts)) /\ Weigh(q, Concat(parts)) = sum[Len(parts)]
      BY <1>6, <1>13, <2>1, WeighConcat
  <2> QED
      BY <1>6, <1>13, <2>2
<1>15. Rim(grid) \cap Rim(border) = {}
  <2>1. SUFFICES ASSUME NEW e \in Rim(grid) \cap Rim(border) PROVE FALSE
      OBVIOUS
  <2>2. PICK i \in 0 .. Span(rate) - 2, j \in 0 .. Span(rate) - 2 : e \in CellRim(rate, i, j)
      BY <1>2
  <2>3. PICK side \in 1 .. 4 : \E n \in 0 .. LastStep(rate, side) - 1 : EdgeOf(rate, side, n, e)
      BY <1>9
  <2>4. PICK n \in 0 .. LastStep(rate, side) - 1 : EdgeOf(rate, side, n, e)
      BY <2>3
  <2> QED
      BY <2>2, <2>4, CellsAndStitchesApart
<1> HIDE DEF border
<1>16. Neat(grid \o border) /\ Rim(grid \o border) = Rim(grid) \union Rim(border)
    BY <1>2, <1>8, <1>15, NeatJoined
<1>17. Upright(q, grid \o border) /\ Weigh(q, grid \o border) = Weigh(q, grid) + Weigh(q, border)
    BY <1>2, <1>14, WeighJoined
<1>18. Weigh(q, grid) + Weigh(q, border) = 2 * Square(MaxRate)
  <2>1. Weigh(q, grid) = ((w - 1) * (w - 1)) * (2 * (c * c))
      BY <1>2, <1>10
  <2>2. ((w - 1) * (w - 1)) * (2 * (c * c)) + 4 * (2 * (w * (c * c))) = 2 * (((w + 1) * c) * ((w + 1) * c))
      OBVIOUS
  <2>3. Weigh(q, border) = 4 * (2 * (w * (c * c)))
      BY <1>11, <1>14
  <2> QED
      BY <1>10, <2>1, <2>2, <2>3, Zenon DEF Square
<1>19. \A e : e \in Rim(q.triangles) <=> e \in Rim(grid) \/ e \in Rim(border)
    BY <1>1, <1>16
<1>20. Neat(q.triangles) /\ Upright(q, q.triangles) /\ Weigh(q, q.triangles) = 2 * Square(MaxRate)
    BY <1>1, <1>16, <1>17, <1>18
<1>21. \A e : e \in Rim(q.triangles) <=>
                \/ \E i \in 0 .. Span(rate) - 2, j \in 0 .. Span(rate) - 2 : e \in CellRim(rate, i, j)
                \/ \E side \in 1 .. 4 : \E n \in 0 .. LastStep(rate, side) - 1 : EdgeOf(rate, side, n, e)
    BY <1>2, <1>9, <1>19, Zenon
<1> QED
    BY <1>20, <1>21 DEF q

\* An edge of what covers a domain.
Covers(rate, e) ==
    \/ \E i \in 0 .. Span(rate) - 2, j \in 0 .. Span(rate) - 2 : e \in CellRim(rate, i, j)
    \/ \E side \in 1 .. 4 : \E n \in 0 .. LastStep(rate, side) - 1 : EdgeOf(rate, side, n, e)

\* Every segment of a run is an edge of a stitch.
LEMMA RunCovered ==
  ASSUME NEW rate \in [1 .. 4 -> Rates], 2 =< InnerRate(rate), NEW side \in 1 .. 4,
         NEW k \in Nat, k < Span(rate) - 1, NEW e, e = <<Facing(rate, side, k + 1), Facing(rate, side, k)>>
  PROVE  Covers(rate, e)
<1>1. PICK n \in 0 .. LastStep(rate, side) - 1 : \E o \in 0 .. rate[side] : GoesIn(rate, side, n, o, k)
    BY WalkCrosses
<1>2. k \in 0 .. Span(rate) - 1
    BY SideIs
<1>3. ThirdEdge(rate, side, n, e)
    BY <1>1, <1>2 DEF ThirdEdge
<1> QED
    BY <1>3 DEF Covers, EdgeOf

\* What a cell has an edge of, another triangle has turned round.
LEMMA CellTurns ==
  ASSUME NEW rate \in [1 .. 4 -> Rates], 2 =< InnerRate(rate),
         NEW i \in 0 .. Span(rate) - 2, NEW j \in 0 .. Span(rate) - 2, NEW e \in CellRim(rate, i, j)
  PROVE  Covers(rate, Turned(e))
<1>1. PICK last \in Nat : last = Span(rate) - 1 /\ Span(rate) \in Nat
    BY SideIs
<1>2. i \in Nat /\ j \in Nat /\ i < last /\ j < last /\ i + 1 =< last /\ j + 1 =< last
    BY <1>1
<1>3. \A a, b \in Nat : a < last /\ b < last => a \in 0 .. Span(rate) - 2 /\ b \in 0 .. Span(rate) - 2
    BY <1>1
<1>4. ASSUME NEW a \in Nat, NEW b \in Nat, a < last, b < last, Turned(e) \in CellRim(rate, a, b)
      PROVE  Covers(rate, Turned(e))
    BY <1>3, <1>4 DEF Covers
<1>5. ASSUME NEW side \in 1 .. 4, NEW k \in Nat, k < last,
             Turned(e) = <<Facing(rate, side, k + 1), Facing(rate, side, k)>>
      PROVE  Covers(rate, Turned(e))
    BY <1>1, <1>5, RunCovered
<1>6. CASE e = <<Inside(rate, i, j), Inside(rate, i + 1, j)>>
  <2>1. Turned(e) = <<Inside(rate, i + 1, j), Inside(rate, i, j)>>
      BY <1>6 DEF Turned
  <2>2. CASE j = 0
    <3>1. i \in 0 .. last /\ i + 1 \in 0 .. last
        BY <1>2
    <3>2. Facing(rate, 1, i) = Inside(rate, i, 0) /\ Facing(rate, 1, i + 1) = Inside(rate, i + 1, 0)
        BY <1>1, <3>1, FacingAt
    <3> QED
        BY <1>2, <1>5, <2>1, <2>2, <3>2
  <2>3. CASE j # 0
    <3>1. j - 1 \in Nat /\ j - 1 < last /\ (j - 1) + 1 = j
        BY <1>2, <2>3
    <3>2. Turned(e) \in CellRim(rate, i, j - 1)
        BY <2>1, <3>1 DEF CellRim
    <3> QED
        BY <1>2, <1>4, <3>1, <3>2
  <2> QED
      BY <2>2, <2>3
<1>7. CASE e = <<Inside(rate, i + 1, j), Inside(rate, i + 1, j + 1)>>
  <2>1. Turned(e) = <<Inside(rate, i + 1, j + 1), Inside(rate, i + 1, j)>>
      BY <1>7 DEF Turned
  <2>2. CASE i + 1 = last
    <3>1. j \in 0 .. last /\ j + 1 \in 0 .. last
        BY <1>2
    <3>2. Facing(rate, 2, j) = Inside(rate, last, j) /\ Facing(rate, 2, j + 1) = Inside(rate, last, j + 1)
        BY <1>1, <3>1, FacingAt
    <3> QED
        BY <1>2, <1>5, <2>1, <2>2, <3>2
  <2>3. CASE i + 1 # last
    <3>1. i + 1 \in Nat /\ i + 1 < last
        BY <1>2, <2>3
    <3>2. Turned(e) \in CellRim(rate, i + 1, j)
        BY <2>1 DEF CellRim
    <3> QED
        BY <1>2, <1>4, <3>1, <3>2
  <2> QED
      BY <2>2, <2>3
<1>8. CASE e = <<Inside(rate, i + 1, j + 1), Inside(rate, i, j)>> \/ e = <<Inside(rate, i, j), Inside(rate, i + 1, j + 1)>>
  <2>1. Turned(e) \in CellRim(rate, i, j)
      BY <1>8 DEF Turned, CellRim
  <2> QED
      BY <1>2, <1>4, <2>1
<1>9. CASE e = <<Inside(rate, i + 1, j + 1), Inside(rate, i, j + 1)>>
  <2>1. Turned(e) = <<Inside(rate, i, j + 1), Inside(rate, i + 1, j + 1)>>
      BY <1>9 DEF Turned
  <2>2. CASE j + 1 = last
    <3> DEFINE k == last - (i + 1)
    <3>1. k \in 0 .. last /\ k + 1 \in 0 .. last /\ last - k = i + 1 /\ last - (k + 1) = i /\ k \in Nat /\ k < last
        BY <1>2
    <3> HIDE DEF k
    <3>2. Facing(rate, 3, k) = Inside(rate, last - k, last) /\ Facing(rate, 3, k + 1) = Inside(rate, last - (k + 1), last)
        BY <1>1, <3>1, FacingAt
    <3> QED
        BY <1>5, <2>1, <2>2, <3>1, <3>2
  <2>3. CASE j + 1 # last
    <3>1. j + 1 \in Nat /\ j + 1 < last
        BY <1>2, <2>3
    <3>2. Turned(e) \in CellRim(rate, i, j + 1)
        BY <2>1 DEF CellRim
    <3> QED
        BY <1>2, <1>4, <3>1, <3>2
  <2> QED
      BY <2>2, <2>3
<1>10. CASE e = <<Inside(rate, i, j + 1), Inside(rate, i, j)>>
  <2>1. Turned(e) = <<Inside(rate, i, j), Inside(rate, i, j + 1)>>
      BY <1>10 DEF Turned
  <2>2. CASE i = 0
    <3> DEFINE k == last - (j + 1)
    <3>1. k \in 0 .. last /\ k + 1 \in 0 .. last /\ last - k = j + 1 /\ last - (k + 1) = j /\ k \in Nat /\ k < last
        BY <1>2
    <3> HIDE DEF k
    <3>2. Facing(rate, 4, k) = Inside(rate, 0, last - k) /\ Facing(rate, 4, k + 1) = Inside(rate, 0, last - (k + 1))
        BY <1>1, <3>1, FacingAt
    <3> QED
        BY <1>5, <2>1, <2>2, <3>1, <3>2
  <2>3. CASE i # 0
    <3>1. i - 1 \in Nat /\ i - 1 < last /\ (i - 1) + 1 = i
        BY <1>2, <2>3
    <3>2. Turned(e) \in CellRim(rate, i - 1, j)
        BY <2>1, <3>1 DEF CellRim
    <3> QED
        BY <1>2, <1>4, <3>1, <3>2
  <2> QED
      BY <2>2, <2>3
<1> QED
    BY <1>6, <1>7, <1>8, <1>9, <1>10 DEF CellRim

\* A segment of a side.
SideSegment(rate, e) ==
    \E side \in 1 .. 4 : \E o \in 0 .. rate[side] - 1 :
        e = <<BoundaryAt(rate, side, o), BoundaryAt(rate, side, o + 1)>>

\* What a step has an edge of, another triangle has turned round, but for the
\* segments of the sides.
LEMMA StepTurns ==
  ASSUME NEW rate \in [1 .. 4 -> Rates], 2 =< InnerRate(rate), NEW side \in 1 .. 4,
         NEW n \in 0 .. LastStep(rate, side) - 1, NEW e, EdgeOf(rate, side, n, e)
  PROVE  SideSegment(rate, e) \/ Covers(rate, Turned(e))
<1>1. PICK last \in Nat : last = Span(rate) - 1 /\ Span(rate) \in Nat
    BY SideIs
<1>2. PICK L \in Nat : L = LastStep(rate, side) /\ 1 =< L
    BY SideIs
<1>3. \A s \in 1 .. 4 : \A m : Turned(Turned(Spoke(rate, s, m))) = Spoke(rate, s, m)
    BY DEF Turned, Spoke
<1>4. CASE e = Spoke(rate, side, n + 1)
  <2>1. CASE n + 1 = L
    <3> DEFINE next == Following(side)
    <3>1. next \in 1 .. 4
        BY DEF Following
    <3>2. Spoke(rate, side, n + 1) = Spoke(rate, next, 0)
        BY <1>2, <2>1, SpokesMeet
    <3> HIDE DEF next
    <3>3. 0 \in 0 .. LastStep(rate, next) - 1
        BY <3>1, SideIs
    <3>4. EdgeOf(rate, next, 0, Turned(e))
        BY <1>4, <3>2 DEF EdgeOf
    <3> QED
        BY <3>1, <3>3, <3>4 DEF Covers
  <2>2. CASE n + 1 # L
    <3>1. n + 1 \in 0 .. LastStep(rate, side) - 1
        BY <1>2, <2>2
    <3>2. EdgeOf(rate, side, n + 1, Turned(e))
        BY <1>4 DEF EdgeOf
    <3> QED
        BY <3>1, <3>2 DEF Covers
  <2> QED
      BY <2>1, <2>2
<1>5. CASE e = Turned(Spoke(rate, side, n))
  <2>1. Turned(e) = Spoke(rate, side, n)
      BY <1>3, <1>5
  <2>2. CASE n = 0
    <3>1. PICK s \in 1 .. 4 : Following(s) = side
      <4>1. Following(1) = 2 /\ Following(2) = 3 /\ Following(3) = 4 /\ Following(4) = 1
          BY DEF Following
      <4> QED
          BY <4>1
    <3>2. PICK K \in Nat : K = LastStep(rate, s) /\ 1 =< K
        BY SideIs
    <3>3. Spoke(rate, s, K) = Spoke(rate, side, 0)
        BY <3>1, <3>2, SpokesMeet
    <3>4. K - 1 \in 0 .. LastStep(rate, s) - 1 /\ (K - 1) + 1 = K
        BY <3>2
    <3>5. EdgeOf(rate, s, K - 1, Turned(e))
        BY <2>1, <2>2, <3>3, <3>4 DEF EdgeOf
    <3> QED
        BY <3>4, <3>5 DEF Covers
  <2>3. CASE n # 0
    <3>1. n - 1 \in 0 .. LastStep(rate, side) - 1 /\ (n - 1) + 1 = n
        BY <1>2, <2>3
    <3>2. EdgeOf(rate, side, n - 1, Turned(e))
        BY <2>1, <3>1 DEF EdgeOf
    <3> QED
        BY <3>1, <3>2 DEF Covers
  <2> QED
      BY <2>2, <2>3
<1>6. CASE ThirdEdge(rate, side, n, e)
  <2>1. PICK o, k : \/ GoesOut(rate, side, n, o, k) /\ e = <<BoundaryAt(rate, side, o), BoundaryAt(rate, side, o + 1)>>
                    \/ GoesIn(rate, side, n, o, k) /\ e = <<Facing(rate, side, k + 1), Facing(rate, side, k)>>
      BY <1>6 DEF ThirdEdge
  <2>2. CASE GoesOut(rate, side, n, o, k) /\ e = <<BoundaryAt(rate, side, o), BoundaryAt(rate, side, o + 1)>>
    <3>1. o \in 0 .. rate[side] /\ o < rate[side] /\ rate[side] \in Nat
        BY <2>2, SideIs DEF GoesOut, StandsAt
    <3>2. o \in 0 .. rate[side] - 1
        BY <3>1
    <3> QED
        BY <2>2, <3>2 DEF SideSegment
  <2>3. CASE GoesIn(rate, side, n, o, k) /\ e = <<Facing(rate, side, k + 1), Facing(rate, side, k)>>
    <3>1. k \in Nat /\ k < last /\ k \in 0 .. last /\ k + 1 \in 0 .. last /\ last - (k + 1) \in Nat
          /\ last - (k + 1) < last /\ (last - (k + 1)) + 1 = last - k /\ last - 1 \in Nat /\ (last - 1) + 1 = last
          /\ 0 < last /\ last - 1 < last /\ 0 \in Nat
      <4>1. k \in 0 .. Span(rate) - 1 /\ k < Span(rate) - 1
          BY <2>3 DEF GoesIn, StandsAt
      <4> QED
          BY <1>1, <4>1
    <3>2. Turned(e) = <<Facing(rate, side, k), Facing(rate, side, k + 1)>>
        BY <2>3 DEF Turned
    <3>3. ASSUME NEW a \in Nat, NEW b \in Nat, a < last, b < last, Turned(e) \in CellRim(rate, a, b)
          PROVE  Covers(rate, Turned(e))
      <4>1. a \in 0 .. Span(rate) - 2 /\ b \in 0 .. Span(rate) - 2
          BY <1>1, <3>3
      <4> QED
          BY <3>3, <4>1 DEF Covers
    <3>4. CASE side = 1
      <4>1. Facing(rate, side, k) = Inside(rate, k, 0) /\ Facing(rate, side, k + 1) = Inside(rate, k + 1, 0)
          BY <1>1, <3>1, <3>4, FacingAt
      <4>2. Turned(e) \in CellRim(rate, k, 0)
          BY <3>2, <4>1 DEF CellRim
      <4> QED
          BY <3>1, <3>3, <4>2
    <3>5. CASE side = 2
      <4>1. Facing(rate, side, k) = Inside(rate, last, k) /\ Facing(rate, side, k + 1) = Inside(rate, last, k + 1)
          BY <1>1, <3>1, <3>5, FacingAt
      <4>2. Turned(e) \in CellRim(rate, last - 1, k)
          BY <3>1, <3>2, <4>1 DEF CellRim
      <4> QED
          BY <3>1, <3>3, <4>2
    <3>6. CASE side = 3
      <4>1. Facing(rate, side, k) = Inside(rate, last - k, last) /\ Facing(rate, side, k + 1) = Inside(rate, last - (k + 1), last)
          BY <1>1, <3>1, <3>6, FacingAt
      <4>2. Turned(e) \in CellRim(rate, last - (k + 1), last - 1)
          BY <3>1, <3>2, <4>1 DEF CellRim
      <4> QED
          BY <3>1, <3>3, <4>2
    <3>7. CASE side = 4
      <4>1. Facing(rate, side, k) = Inside(rate, 0, last - k) /\ Facing(rate, side, k + 1) = Inside(rate, 0, last - (k + 1))
          BY <1>1, <3>1, <3>7, FacingAt
      <4>2. Turned(e) \in CellRim(rate, 0, last - (k + 1))
          BY <3>1, <3>2, <4>1 DEF CellRim
      <4> QED
          BY <3>1, <3>3, <4>2
    <3> QED
        BY <3>4, <3>5, <3>6, <3>7
  <2> QED
      BY <2>1, <2>2, <2>3
<1> QED
    BY <1>4, <1>5, <1>6 DEF EdgeOf

\* What is asked of one domain.
Covered(quad) ==
    LET made  == Range(quad.triangles)
        edges == UNION {DirectedEdges(t) : t \in made}
        outer == {e \in edges : <<e[2], e[1]>> \notin edges}
    IN  /\ \A t \in made : Area2(quad, t) > 0
        /\ Total([k \in DOMAIN quad.triangles |-> Area2(quad, quad.triangles[k])]) = 2 * Square(MaxRate)
        /\ Cardinality(edges) = 3 * Len(quad.triangles)
        /\ \A e \in outer : \E side \in 1..4 :
             OnLine(quad.samples[e[1]], side) /\ OnLine(quad.samples[e[2]], side)

\* It is what triangles that share no directed edge and turn the right way give.
LEMMA CoveredIs ==
  ASSUME NEW quad, Neat(quad.triangles), Upright(quad, quad.triangles),
         Weigh(quad, quad.triangles) = 2 * Square(MaxRate),
         \A e \in Rim(quad.triangles) :
            \/ Turned(e) \in Rim(quad.triangles)
            \/ \E side \in 1..4 : OnLine(quad.samples[e[1]], side) /\ OnLine(quad.samples[e[2]], side)
  PROVE  Covered(quad)
<1> DEFINE edges == UNION {DirectedEdges(t) : t \in Range(quad.triangles)}
<1>1. edges = Rim(quad.triangles)
    BY DEF Rim
<1> HIDE DEF edges
<1>2. \A t \in Range(quad.triangles) : Area2(quad, t) > 0
    BY DEF Upright
<1>3. Total([k \in DOMAIN quad.triangles |-> Area2(quad, quad.triangles[k])]) = 2 * Square(MaxRate)
    BY DEF Weigh
<1>4. Cardinality(edges) = 3 * Len(quad.triangles)
    BY <1>1 DEF Neat
<1>5. ASSUME NEW e \in edges, <<e[2], e[1]>> \notin edges
      PROVE  \E side \in 1..4 : OnLine(quad.samples[e[1]], side) /\ OnLine(quad.samples[e[2]], side)
  <2>1. Turned(e) \notin Rim(quad.triangles)
      BY <1>1, <1>5 DEF Turned
  <2> QED
      BY <1>1, <2>1, Zenon
<1>6. \A e \in {e \in edges : <<e[2], e[1]>> \notin edges} :
          \E side \in 1..4 : OnLine(quad.samples[e[1]], side) /\ OnLine(quad.samples[e[2]], side)
    BY <1>5, Zenon
<1> QED
    BY <1>2, <1>3, <1>4, <1>6, Zenon DEF Covered, edges

\* The samples of a segment of a side lie on it.
LEMMA SegmentOnSide ==
  ASSUME NEW rate \in [1 .. 4 -> Rates], NEW quad,
         \A side \in 1 .. 4 : \A k \in 0 .. rate[side] :
            quad.samples[BoundaryAt(rate, side, k)] = OnSide(side, k, rate[side]),
         NEW e, SideSegment(rate, e)
  PROVE  \E side \in 1..4 : OnLine(quad.samples[e[1]], side) /\ OnLine(quad.samples[e[2]], side)
<1>1. PICK side \in 1 .. 4 : \E o \in 0 .. rate[side] - 1 :
          e = <<BoundaryAt(rate, side, o), BoundaryAt(rate, side, o + 1)>>
    BY DEF SideSegment
<1>2. PICK o \in 0 .. rate[side] - 1 : e = <<BoundaryAt(rate, side, o), BoundaryAt(rate, side, o + 1)>>
    BY <1>1
<1>3. rate[side] \in Rates /\ o \in 0 .. rate[side] /\ o + 1 \in 0 .. rate[side]
    BY StartsAre
<1>4. e[1] = BoundaryAt(rate, side, o) /\ e[2] = BoundaryAt(rate, side, o + 1)
    BY <1>2
<1>5. OnLine(OnSide(side, o, rate[side]), side)
    BY <1>3, OnItsLine
<1>6. OnLine(OnSide(side, o + 1, rate[side]), side)
    BY <1>3, OnItsLine
<1> QED
    BY <1>3, <1>4, <1>5, <1>6

\* A domain one segment to a side: two triangles.
LEMMA SingleCovered ==
  ASSUME NEW rate \in [1 .. 4 -> Rates], ~(2 =< InnerRate(rate))
  PROVE  Covered(TessellateQuad(rate))
<1> DEFINE q == TessellateQuad(rate)
           low == <<<<1, 2, 3>>>>
           high == <<<<1, 3, 4>>>>
<1>1. \A side \in 1 .. 4 : rate[side] = 1
    BY SinglesAre
<1>2. q.samples = Boundary(rate) /\ q.triangles = <<<<1, 2, 3>>, <<1, 3, 4>>>>
    BY SinglesAre
<1>3. q.triangles = low \o high
    BY <1>2
<1> HIDE DEF q
<1>4. MaxRate \in Nat /\ 0 < MaxRate /\ MaxRate \div 1 = MaxRate /\ 1 \in Rates
    BY RatesAre
<1>5. \A side \in 1 .. 4 : \A k \in 0 .. rate[side] :
          q.samples[BoundaryAt(rate, side, k)] = OnSide(side, k, rate[side])
    BY <1>2, BoundaryAtIs
<1>6. RunEnd(rate, 0) = 0 /\ RunEnd(rate, 1) = 1 /\ RunEnd(rate, 2) = 2 /\ RunEnd(rate, 3) = 3
  <2>1. \A side \in 1 .. 4 : RunEnd(rate, side) = RunEnd(rate, side - 1) + 1
      BY <1>1, StartsAre
  <2>2. RunEnd(rate, 0) = 0
      BY StartsAre
  <2>3. 1 - 1 = 0 /\ 2 - 1 = 1 /\ 3 - 1 = 2
      OBVIOUS
  <2>4. RunEnd(rate, 1) = RunEnd(rate, 0) + 1 /\ RunEnd(rate, 2) = RunEnd(rate, 1) + 1 /\ RunEnd(rate, 3) = RunEnd(rate, 2) + 1
      BY <2>1, <2>3
  <2> QED
      BY <2>2, <2>4
<1>7. \A side \in 1 .. 4 : 0 \in 0 .. rate[side] /\ 0 < rate[side] /\ 1 \in 0 .. rate[side]
    BY <1>1
<1>8. \A side \in 1 .. 4 : BoundaryAt(rate, side, 0) = RunEnd(rate, side - 1) + 1
  <2>1. ASSUME NEW side \in 1 .. 4 PROVE BoundaryAt(rate, side, 0) = RunEnd(rate, side - 1) + 1
    <3>1. BoundaryAt(rate, side, 0) = RunEnd(rate, side - 1) + 1 + 0
        BY <1>7, BoundaryAtIs
    <3>2. RunEnd(rate, side - 1) \in Nat
        BY StartsAre
    <3> QED
        BY <3>1, <3>2
  <2> QED
      BY <2>1
<1>9. /\ BoundaryAt(rate, 1, 0) = 1 /\ BoundaryAt(rate, 2, 0) = 2 /\ BoundaryAt(rate, 3, 0) = 3 /\ BoundaryAt(rate, 4, 0) = 4
  <2>1. 1 - 1 = 0 /\ 2 - 1 = 1 /\ 3 - 1 = 2 /\ 4 - 1 = 3
      OBVIOUS
  <2> QED
      BY <1>6, <1>8, <2>1
<1>10. \A side \in 1 .. 4 : BoundaryAt(rate, side, 1) = BoundaryAt(rate, Following(side), 0)
    BY <1>1, <1>7, BoundaryAtIs
<1>11. Following(1) = 2 /\ Following(2) = 3 /\ Following(3) = 4 /\ Following(4) = 1
    BY DEF Following
<1>12. q.samples[1] = <<0, 0>> /\ q.samples[2] = <<MaxRate, 0>> /\ q.samples[3] = <<MaxRate, MaxRate>> /\ q.samples[4] = <<0, MaxRate>>
  <2>1. \A side \in 1 .. 4 : q.samples[BoundaryAt(rate, side, 0)] = OnSide(side, 0, 1)
      BY <1>1, <1>5, <1>7
  <2>2. /\ OnSide(1, 0, 1) = <<0 * MaxRate, 0>> /\ OnSide(2, 0, 1) = <<MaxRate, 0 * MaxRate>>
        /\ OnSide(3, 0, 1) = <<MaxRate - 0 * MaxRate, MaxRate>> /\ OnSide(4, 0, 1) = <<0, MaxRate - 0 * MaxRate>>
    <3>1. 0 \in 0 .. 1
        OBVIOUS
    <3> QED
        BY <1>4, <3>1, OnSideIs
  <2>3. 0 * MaxRate = 0 /\ MaxRate - 0 = MaxRate
      BY <1>4
  <2> QED
      BY <1>9, <2>1, <2>2, <2>3
<1>13. Area2(q, <<1, 2, 3>>) = MaxRate * MaxRate
  <2>1. Area2(q, <<1, 2, 3>>) = (MaxRate - 0) * (MaxRate - 0) - (MaxRate - 0) * (0 - 0)
      BY <1>12, AreaIs
  <2> QED
      BY <1>4, <2>1
<1>14. Area2(q, <<1, 3, 4>>) = MaxRate * MaxRate
  <2>1. Area2(q, <<1, 3, 4>>) = (MaxRate - 0) * (MaxRate - 0) - (0 - 0) * (MaxRate - 0)
      BY <1>12, AreaIs
  <2> QED
      BY <1>4, <2>1
<1>15. MaxRate * MaxRate \in Nat /\ 0 < MaxRate * MaxRate
    BY <1>4
<1>16. Upright(q, low) /\ Weigh(q, low) = MaxRate * MaxRate /\ Upright(q, high) /\ Weigh(q, high) = MaxRate * MaxRate
    BY <1>13, <1>14, <1>15, WeighTriangle
<1>17. Neat(low) /\ Rim(low) = {<<1, 2>>, <<2, 3>>, <<3, 1>>}
    BY NeatTriangle
<1>18. Neat(high) /\ Rim(high) = {<<1, 3>>, <<3, 4>>, <<4, 1>>}
    BY NeatTriangle
<1>19. Rim(low) \cap Rim(high) = {}
    BY <1>17, <1>18
<1> HIDE DEF low, high
<1>20. Neat(low \o high) /\ Rim(low \o high) = Rim(low) \union Rim(high)
    BY <1>17, <1>18, <1>19, NeatJoined
<1>21. Upright(q, low \o high) /\ Weigh(q, low \o high) = Weigh(q, low) + Weigh(q, high)
    BY <1>16, WeighJoined
<1>22. Weigh(q, q.triangles) = 2 * Square(MaxRate)
    BY <1>3, <1>15, <1>16, <1>21 DEF Square
<1>23. /\ SideSegment(rate, <<1, 2>>) /\ SideSegment(rate, <<2, 3>>)
       /\ SideSegment(rate, <<3, 4>>) /\ SideSegment(rate, <<4, 1>>)
  <2>1. \A side \in 1 .. 4 : SideSegment(rate, <<BoundaryAt(rate, side, 0), BoundaryAt(rate, side, 1)>>)
    <3>1. 0 + 1 = 1 /\ \A side \in 1 .. 4 : 0 \in 0 .. rate[side] - 1
        BY <1>1
    <3> QED
        BY <3>1 DEF SideSegment
  <2>2. /\ BoundaryAt(rate, 1, 1) = 2 /\ BoundaryAt(rate, 2, 1) = 3
        /\ BoundaryAt(rate, 3, 1) = 4 /\ BoundaryAt(rate, 4, 1) = 1
      BY <1>9, <1>10, <1>11
  <2> QED
      BY <1>9, <2>1, <2>2
<1>24. ASSUME NEW e \in Rim(q.triangles)
       PROVE  \/ Turned(e) \in Rim(q.triangles)
              \/ \E side \in 1..4 : OnLine(q.samples[e[1]], side) /\ OnLine(q.samples[e[2]], side)
  <2>1. Rim(q.triangles) = {<<1, 2>>, <<2, 3>>, <<3, 1>>} \cup {<<1, 3>>, <<3, 4>>, <<4, 1>>}
      BY <1>3, <1>17, <1>18, <1>20
  <2>2. Turned(<<1, 3>>) = <<3, 1>> /\ Turned(<<3, 1>>) = <<1, 3>>
      BY DEF Turned
  <2>3. Turned(e) \in Rim(q.triangles) \/ SideSegment(rate, e)
      BY <1>23, <2>1, <2>2
  <2> QED
      BY <1>5, <2>3, SegmentOnSide
<1>25. Neat(q.triangles) /\ Upright(q, q.triangles)
    BY <1>3, <1>20, <1>21
<1>26. Covered(q)
    BY <1>22, <1>24, <1>25, CoveredIs
<1> QED
    BY <1>26 DEF q

\* Whatever the four rates, a domain is covered once.
LEMMA QuadCovered ==
  ASSUME NEW rate \in [1 .. 4 -> Rates]
  PROVE  Covered(TessellateQuad(rate))
<1>1. CASE ~(2 =< InnerRate(rate))
    BY <1>1, SingleCovered
<1>2. CASE 2 =< InnerRate(rate)
  <2> DEFINE q == TessellateQuad(rate)
  <2>1. /\ Neat(q.triangles) /\ Upright(q, q.triangles) /\ Weigh(q, q.triangles) = 2 * Square(MaxRate)
        /\ \A e : e \in Rim(q.triangles) <=> Covers(rate, e)
      BY <1>2, DomainIsNeat DEF Covers
  <2>2. \A side \in 1 .. 4 : \A k \in 0 .. rate[side] :
            q.samples[BoundaryAt(rate, side, k)] = OnSide(side, k, rate[side])
      BY <1>2, SamplesAre
  <2> HIDE DEF q
  <2>3. ASSUME NEW e \in Rim(q.triangles)
        PROVE  \/ Turned(e) \in Rim(q.triangles)
               \/ \E side \in 1..4 : OnLine(q.samples[e[1]], side) /\ OnLine(q.samples[e[2]], side)
    <3>1. Covers(rate, e)
        BY <2>1
    <3>2. Covers(rate, Turned(e)) \/ SideSegment(rate, e)
        BY <1>2, <3>1, CellTurns, StepTurns DEF Covers
    <3>3. CASE Covers(rate, Turned(e))
        BY <2>1, <3>3
    <3>4. CASE SideSegment(rate, e)
        BY <2>2, <3>4, SegmentOnSide
    <3> QED
        BY <3>2, <3>3, <3>4
  <2>4. Covered(q)
      BY <2>1, <2>3, CoveredIs
  <2> QED
      BY <2>4 DEF q
<1> QED
    BY <1>1, <1>2

\* Every patch of every mesh that is refined face by face (TessellateQuad): its
\* triangles turn as the domain does, share no directed edge, have its area
\* between them, and leave open only what lies on a side.
THEOREM DomainsCovered == MeshSpec => []DomainsCoveredOnce
<1>1. ASSUME MeshInv PROVE DomainsCoveredOnce
  <2>1. ASSUME NEW patch \in Range(mesh.patches) PROVE Covered(patch.quad)
    <3>1. PICK k \in 1 .. Len(PtexFaces(input.cage)) :
              /\ patch = PtexPatch(k, PtexFaces(input.cage)[k], rates[k])
              /\ rates[k] \in [1 .. 4 -> Rates]
        BY <1>1, PatchIs
    <3>2. patch.quad = TessellateQuad(rates[k])
        BY <3>1 DEF PtexPatch
    <3> QED
        BY <3>1, <3>2, QuadCovered
  <2> QED
      BY <2>1 DEF DomainsCoveredOnce, Covered
<1> QED
    BY <1>1, MeshInvHolds, PTL
=============================================================================
