--------------------------- MODULE RenderPass_proofs ---------------------------
(***************************************************************************)
(* Theorems about the render pass over the path tracer, for any stage      *)
(* edits, cameras, extents, sample counts and failures they do not name.   *)
(*                                                                         *)
(* What is traced is the scene the pass says it uploaded, because a        *)
(* publication that stops part-way leaves a version the store has left     *)
(* behind; the one way back to it is a selection that returns, so the      *)
(* theorems suppose that no publication stops or no selection changes.     *)
(* What a host sees needs neither: the last part proves that the pass      *)
(* implements Viewport whatever stops, as long as buffers stay bound.      *)
(***************************************************************************)
EXTENDS RenderPass, TLAPS

-----------------------------------------------------------------------------
(* The steps of a frame.                                                   *)

LEMMA StepIndex ==
  /\ StepOf("resize0") = 1 /\ StepOf("resize1") = 2 /\ StepOf("bind0") = 3
  /\ StepOf("bind1") = 4 /\ StepOf("clear") = 5 /\ StepOf("trace") = 6
  /\ StepOf("resolve") = 7 /\ StepOf("advance") = 8 /\ StepOf("reconstruct") = 9
  /\ StepOf("none") = 10
<1>1. DOMAIN Steps = 1 .. 10
    BY DEF Steps
<1>2. /\ Steps[1] = "resize0" /\ Steps[2] = "resize1" /\ Steps[3] = "bind0"
      /\ Steps[4] = "bind1" /\ Steps[5] = "clear" /\ Steps[6] = "trace"
      /\ Steps[7] = "resolve" /\ Steps[8] = "advance" /\ Steps[9] = "reconstruct"
      /\ Steps[10] = "none"
    BY DEF Steps
<1>3. \A k \in 1 .. 10 : k = 1 \/ k = 2 \/ k = 3 \/ k = 4 \/ k = 5 \/ k = 6 \/ k = 7
                         \/ k = 8 \/ k = 9 \/ k = 10
    OBVIOUS
<1> QED
    BY <1>1, <1>2, <1>3 DEF StepOf

LEMMA FaultIndex ==
  ASSUME NEW fault \in Faults \union {"none"}
  PROVE  /\ StepOf(fault) \in 1 .. 10
         /\ StepOf(fault) = 1 <=> fault = "resize0"
         /\ StepOf(fault) = 2 <=> fault = "resize1"
         /\ StepOf(fault) = 6 <=> fault = "trace"
         /\ StepOf(fault) = 7 <=> fault = "resolve"
         /\ StepOf(fault) = 8 <=> fault = "advance"
         /\ StepOf(fault) = 9 <=> fault = "reconstruct"
         /\ StepOf(fault) = 10 <=> fault = "none"
<1>1. Len(Steps) = 10
    BY DEF Steps
<1>2. PICK k \in 1 .. 10 : fault = Steps[k]
    BY <1>1, TracerConstants DEF Steps
<1>3. fault \in {"resize0", "resize1", "bind0", "bind1", "clear", "trace", "resolve",
               "advance", "reconstruct", "none"}
    BY <1>2 DEF Steps
<1> QED
    BY <1>3, StepIndex

-----------------------------------------------------------------------------
(* The invariant.                                                          *)

\* No publication stops part-way, or no selection can return to the one uploaded before.
SelectionSafe == Interrupts = {} \/ "selection" \notin Edits

Revisions == Nat \ {0}
Hosts == [camera : Cameras, extent : Extents, mode : Modes, selection : Selections,
          quality : Qualities, version : Revisions]
Stores == [revision : Revisions, cullRevision : Revisions,
           previous : Revisions \union {None}, pending : Revisions \union {None}]
Framings == [camera : Cameras, extent : Extents, mode : Modes, revision : Revisions,
             cullRevision : Revisions, version : Revisions, selection : Selections]
Uploads == [valid : BOOLEAN, revision : Nat, selection : Selections \union {None}]

Types ==
  /\ host \in Hosts
  /\ store \in Stores
  /\ pool \in Qualities
  /\ phase \in {"idle", "publish", "cull", "trace"}
  /\ uploaded \in Uploads
  /\ uploadedCull \in Nat
  /\ samples \in Nat
  /\ framing \in Framings \union {None}

\* A framing that samples are counted of is one the host had, and versions only grow.
FramingInv ==
  /\ phase # "idle" => framing = Framing /\ pool = host.quality
  /\ samples > 0 =>
       /\ framing \in Framings
       /\ framing.version <= host.version
       /\ framing.version = host.version => pool = host.quality
  /\ phase \in {"cull", "trace"} => IsUploaded
  /\ phase = "trace" => uploadedCull = store.cullRevision

\* The pass's versions of the scene are current.
Truthful == uploaded.valid /\ uploaded.revision = store.revision

SceneIs(revision, selection, quality) ==
  scene = [k \in DOMAIN Stages |->
             [revision |-> revision, selection |-> selection, quality |-> quality]]

\* Where the versions the pass keeps are current they are true, unless a selection can
\* return to one uploaded before a publication that stopped.
UploadInv == SelectionSafe =>
  /\ uploaded.revision <= store.revision
  /\ "selection" \notin Edits /\ uploaded.valid => uploaded.selection = host.selection
  /\ Truthful => SceneIs(uploaded.revision, uploaded.selection, pool)
  /\ Truthful => IF store.pending = None THEN store.previous = store.revision
                 ELSE store.pending = store.revision
  /\ uploadedCull <= store.cullRevision
  /\ uploadedCull # 0 => cull.table = [cullRevision |-> uploadedCull,
                                       selection |-> uploaded.selection]
  /\ uploadedCull = store.cullRevision => cull.valid = cull.table
  /\ cull = [table |-> cull.table, valid |-> cull.valid]

BaseInv == Types /\ FramingInv /\ UploadInv

\* The film holds nothing but estimates of the framing that is counted.
FilmInv ==
  /\ samples > 0 => \A e \in film.estimates : IsEstimateOf(e, framing, pool)
  /\ samples > 0 => size = Traced(framing)
  /\ ShownIsOneFraming

\* The slots have the film's extent, and the sets that are written are of what lives.
LiveInv ==
  /\ slot \in Slots
  /\ \A s \in Slots : slotSize[s] = size
  /\ Truthful => written \intersect dangling = {}
  /\ TracesLiveResources

\* What the next frame takes for its past is the last frame that was returned.
MotionInv ==
  /\ seen # None =>
       /\ seen \in [camera : Cameras, revision : Revisions]
       /\ clip = seen.camera
       /\ past = seen.revision
       /\ store.previous = seen.revision
  /\ MotionFromLastFrame

\* What was counted was delivered, and the tracer remembers this framing.
CountInv ==
  /\ samples > 0 => size = Traced(framing)
  /\ samples > 0 /\ framing.mode = "reference" =>
       /\ shown.film.estimates = film.estimates
       /\ shown.film.repeated <=> film.repeated
       /\ previous = [mode |-> framing.mode, revision |-> framing.revision,
                      camera |-> framing.camera]
       /\ previousPlan = PlanOf(framing)
  /\ FilmHoldsWhatWasCounted

\* Where the versions are current every stage is of the store's revision, even if a
\* publication of it stopped between them: it can have mixed selections, not revisions.
RevisionInv ==
  /\ uploaded.revision <= store.revision
  /\ Truthful => \A k \in DOMAIN Stages : scene[k].revision = store.revision

\* A backend that was built, and is owed no reset, is left with the image of the last
\* frame, if the plan of that was to reconstruct.
BackendInv ==
  /\ previous # None => previous \in [mode : Modes, revision : Revisions, camera : Cameras]
  /\ built # None => previous # None
  /\ owed \in BOOLEAN
  /\ ~owed /\ built # None /\ previousPlan # None =>
       /\ clip \in Cameras
       /\ backend.camera = clip
       /\ \A k \in DOMAIN Stages : backend.scene[k].revision = previous.revision
  /\ BackendHistoryMatches

\* What is counted was shown, and no buffer holds another image but a guide withheld.
ShownInv ==
  /\ bound = Aovs
  /\ aovs = [a \in Aovs |-> [image |-> aovs[a].image, converged |-> aovs[a].converged]]
  /\ samples > 0 =>
       /\ samples <= TargetSamples
       /\ shown.of = framing
       /\ \A a \in Aovs : (a \in Guides => shown.rendered = framing.extent) =>
                            aovs[a].image \in {None, shown}

-----------------------------------------------------------------------------
(* What is uploaded.                                                       *)

LEMMA BaseInit == Init => BaseInv
<1> SUFFICES ASSUME Init PROVE BaseInv
    OBVIOUS
<1>1. /\ SomeOf(Cameras) \in Cameras /\ SomeOf(Extents) \in Extents
      /\ SomeOf(Selections) \in Selections /\ SomeOf(Qualities) \in Qualities
    BY PassConstants DEF SomeOf
<1>2. Types
    BY <1>1, TracerConstants DEF Init, Types, Hosts, Stores, Uploads, Revisions
<1>3. cull = [table |-> cull.table, valid |-> cull.valid]
    BY DEF Init, TracerInit
<1> QED
    BY <1>2, <1>3, PassConstants DEF Init, BaseInv, FramingInv, UploadInv, Truthful

\* Between Executes versions only grow, and what they are the versions of changes
\* with them.
LEMMA HostMoves ==
  ASSUME Types, HostNext
  PROVE  /\ phase = "idle"
         /\ host' \in Hosts /\ store' \in Stores
         /\ host'.version >= host.version
         /\ host'.version = host.version => host'.quality = host.quality
         /\ "selection" \notin Edits => host'.selection = host.selection
         /\ store'.revision >= store.revision /\ store'.cullRevision >= store.cullRevision
         /\ store'.previous = store.previous /\ store'.pending = store.pending
         /\ UNCHANGED <<pool, passVars, tracer>>
<1> USE DEF Types, Hosts, Stores, Revisions, Edit
<1>1. CASE Publication
    BY <1>1 DEF Publication
<1>2. CASE MoveCullVolume
    BY <1>2 DEF MoveCullVolume
<1>3. CASE MoveCamera
    BY <1>3 DEF MoveCamera
<1>4. CASE ResizeViewport
    BY <1>4 DEF ResizeViewport
<1>5. CASE Select
    BY <1>5 DEF Select
<1>6. CASE SetMode
  <2>1. PICK x \in Modes : host' = [host EXCEPT !.mode = x, !.version = host.version + 1]
      BY <1>6 DEF SetMode
  <2>2. host.version \in Nat /\ host.version + 1 \in Nat \ {0}
      OBVIOUS
  <2>3. host' \in Hosts /\ host'.version = host.version + 1 /\ host'.selection = host.selection
      BY <2>1, <2>2
  <2> QED
      BY <1>6, <2>2, <2>3 DEF SetMode
<1>7. CASE SetTextureQuality
  <2>1. PICK x \in Qualities : host' = [host EXCEPT !.quality = x, !.version = host.version + 1]
      BY <1>7 DEF SetTextureQuality
  <2>2. host.version \in Nat /\ host.version + 1 \in Nat \ {0}
      OBVIOUS
  <2>3. host' \in Hosts /\ host'.version = host.version + 1 /\ host'.selection = host.selection
      BY <2>1, <2>2
  <2> QED
      BY <1>7, <2>2, <2>3 DEF SetTextureQuality
<1>8. CASE Bind
    BY <1>8 DEF Bind
<1>9. CASE Reallocate
    BY <1>9 DEF Reallocate
<1> QED
    BY <1>1, <1>2, <1>3, <1>4, <1>5, <1>6, <1>7, <1>8, <1>9 DEF HostNext

LEMMA BaseHost == ASSUME BaseInv, HostNext PROVE BaseInv'
<1>1. Types
    BY DEF BaseInv
<1>2. /\ phase = "idle"
      /\ host' \in Hosts /\ store' \in Stores
      /\ host'.version >= host.version
      /\ host'.version = host.version => host'.quality = host.quality
      /\ "selection" \notin Edits => host'.selection = host.selection
      /\ store'.revision >= store.revision /\ store'.cullRevision >= store.cullRevision
      /\ store'.previous = store.previous /\ store'.pending = store.pending
      /\ UNCHANGED <<pool, phase, framing, uploaded, uploadedCull, samples, scene, cull>>
    BY <1>1, HostMoves DEF passVars, tracer
<1>3. Types'
    BY <1>1, <1>2 DEF Types
<1>4. FramingInv'
    BY <1>1, <1>2 DEF BaseInv, FramingInv, Types, Hosts, Framings, Revisions
<1>5. UploadInv'
    BY <1>1, <1>2 DEF BaseInv, UploadInv, Truthful, SceneIs, Types, Stores, Uploads, Revisions
<1> QED
    BY <1>3, <1>4, <1>5 DEF BaseInv

\* A quality applied takes the upload's validity with it.
LEMMA BaseBegin == ASSUME BaseInv, Begin PROVE BaseInv'
<1>1. Types
    BY DEF BaseInv
<1>2. /\ phase' = "publish" /\ pool' = host.quality /\ framing' = Framing
      /\ uploaded' = IF pool # host.quality THEN [uploaded EXCEPT !.valid = FALSE] ELSE uploaded
      /\ samples' = 0 \/ (framing = Framing /\ samples' = samples)
      /\ UNCHANGED <<host, store, uploadedCull, scene, cull>>
    BY DEF Begin, tracer
<1>3. Framing \in Framings
    BY <1>1 DEF Types, Framing, Framings, Hosts, Stores
<1>4. Types'
  <2>1. uploaded' \in Uploads /\ pool' \in Qualities
      BY <1>1, <1>2 DEF Types, Hosts, Uploads
  <2>2. samples' \in Nat
      BY <1>1, <1>2 DEF Types
  <2> QED
      BY <1>1, <1>2, <1>3, <2>1, <2>2 DEF Types
<1>5. FramingInv'
    BY <1>1, <1>2, <1>3 DEF FramingInv, Framing, Types, Hosts, Revisions
<1>6. UploadInv'
    BY <1>1, <1>2 DEF BaseInv, UploadInv, Truthful, SceneIs, Types, Uploads
<1> QED
    BY <1>4, <1>5, <1>6 DEF BaseInv

LEMMA PublishedScene ==
  ASSUME NEW c, NEW h, SetScene(c, h, Complete)
  PROVE  scene' = [k \in DOMAIN Stages |-> c]
<1>1. Complete = 7 /\ DOMAIN Stages = 1 .. 7
    BY DEF Complete, Stages
<1> QED
    BY <1>1 DEF SetScene

\* A publication that stops was of a revision, or a selection, the pass does not
\* take for uploaded.
LEMMA BasePublish == ASSUME BaseInv, Publish PROVE BaseInv'
<1>1. Types
    BY DEF BaseInv
<1>2. /\ phase = "publish" /\ framing = Framing /\ pool = host.quality /\ ~IsUploaded
      /\ store' = [store EXCEPT !.pending = store.revision]
      /\ UNCHANGED <<host, pool, framing, samples>>
    BY DEF Publish, BaseInv, FramingInv
<1>3. store' \in Stores /\ store'.revision = store.revision
      /\ store'.cullRevision = store.cullRevision
      /\ store'.previous = store.previous /\ store'.pending = store.revision
    BY <1>1, <1>2 DEF Types, Stores
<1>4. /\ framing \in Framings /\ framing.revision = store.revision
      /\ framing.selection = host.selection
      /\ store.revision # None
    BY <1>1, <1>2, PassConstants DEF Framing, Types, Framings, Hosts, Stores, Revisions
<1>5. PICK k \in Interrupts \union {Complete} :
        /\ SetScene(Content, store.previous, k)
        /\ IF k = Complete
             THEN /\ uploaded' = [valid |-> TRUE, revision |-> framing.revision,
                                  selection |-> framing.selection]
                  /\ uploadedCull' = 0
                  /\ phase' = "cull"
             ELSE NoteFailure /\ UNCHANGED <<uploaded, uploadedCull>>
    BY DEF Publish
<1>6. CASE k = Complete
  <2>1. /\ scene' = [i \in DOMAIN Stages |-> Content] /\ UNCHANGED cull
        /\ uploaded' = [valid |-> TRUE, revision |-> framing.revision,
                        selection |-> framing.selection]
        /\ uploadedCull' = 0 /\ phase' = "cull"
      BY <1>5, <1>6, PublishedScene DEF SetScene
  <2>2. uploaded' \in Uploads
      BY <2>1, <1>4 DEF Uploads, Framings, Revisions
  <2>3. Types'
      BY <1>1, <1>2, <1>3, <2>1, <2>2 DEF Types
  <2>4. FramingInv'
      BY <1>1, <1>2, <1>3, <1>4, <2>1 DEF BaseInv, FramingInv, Framing, IsUploaded
  <2>5. UploadInv'
      BY <1>1, <1>2, <1>3, <1>4, <2>1
      DEF BaseInv, UploadInv, Truthful, SceneIs, Content, Types, Stores, Revisions
  <2> QED
      BY <2>3, <2>4, <2>5 DEF BaseInv
<1>7. CASE k # Complete
  <2>1. UNCHANGED <<uploaded, uploadedCull, cull>> /\ phase' = "idle"
      BY <1>5, <1>7 DEF NoteFailure, SetScene
  <2>2. SelectionSafe => ~Truthful /\ "selection" \notin Edits
    <3>1. SelectionSafe => "selection" \notin Edits
        BY <1>5, <1>7 DEF SelectionSafe
    <3> QED
      BY <3>1, <1>2, <1>4, <2>1 DEF Truthful, IsUploaded, BaseInv, UploadInv
  <2>3. Types'
      BY <1>1, <1>2, <1>3, <2>1 DEF Types
  <2>4. FramingInv'
      BY <1>1, <1>2, <2>1 DEF BaseInv, FramingInv
  <2>5. UploadInv'
      BY <1>1, <1>2, <1>3, <2>1, <2>2 DEF BaseInv, UploadInv, Truthful
  <2> QED
      BY <2>3, <2>4, <2>5 DEF BaseInv
<1> QED
    BY <1>6, <1>7

LEMMA BaseAlreadyPublished == ASSUME BaseInv, AlreadyPublished PROVE BaseInv'
BY DEF AlreadyPublished, hostVars, tracer, BaseInv, Types, FramingInv, UploadInv, Truthful, SceneIs,
       IsUploaded, Framing

\* A cull table that is not copied is older than the store's, and tried again.
LEMMA BaseUploadCull == ASSUME BaseInv, UploadCullVolumes PROVE BaseInv'
<1>1. Types
    BY DEF BaseInv
<1>2. /\ phase = "cull" /\ framing = Framing /\ pool = host.quality /\ IsUploaded
      /\ UNCHANGED <<host, store, pool, framing, uploaded, samples>>
      /\ framing.cullRevision = store.cullRevision
      /\ uploadedCull # store.cullRevision
    BY DEF UploadCullVolumes, BaseInv, FramingInv, Framing
<1>3. PICK copied \in BOOLEAN :
        /\ SetCullVolumes(CullTable, copied)
        /\ IF copied
             THEN uploadedCull' = framing.cullRevision /\ phase' = "trace"
             ELSE phase' = "idle" /\ UNCHANGED uploadedCull
    BY DEF UploadCullVolumes, NoteFailure
<1>4. /\ scene' = scene
      /\ cull' = [table |-> IF copied THEN CullTable ELSE cull.table, valid |-> CullTable]
    BY <1>3 DEF SetCullVolumes
<1>5. Types'
    BY <1>1, <1>2, <1>3 DEF Types, Stores, Revisions
<1>6. FramingInv'
    BY <1>1, <1>2, <1>3 DEF BaseInv, FramingInv, IsUploaded, Framing
<1>7. UploadInv'
  <2>1. CASE copied
      BY <1>1, <1>2, <1>3, <1>4, <2>1
      DEF BaseInv, UploadInv, Truthful, SceneIs, CullTable, IsUploaded, Framing, Types, Stores,
          Revisions
  <2>2. CASE ~copied
      BY <1>1, <1>2, <1>3, <1>4, <2>2 DEF BaseInv, UploadInv, Truthful, SceneIs
  <2> QED
      BY <2>1, <2>2
<1> QED
    BY <1>5, <1>6, <1>7 DEF BaseInv

LEMMA BaseCullCurrent == ASSUME BaseInv, CullVolumesCurrent PROVE BaseInv'
BY DEF CullVolumesCurrent, hostVars, tracer, BaseInv, Types, FramingInv, UploadInv, Truthful, SceneIs,
       IsUploaded, Framing

LEMMA BaseFinish == ASSUME BaseInv, Finish PROVE BaseInv'
BY DEF Finish, tracer, BaseInv, Types, FramingInv, UploadInv, Truthful, SceneIs, IsUploaded, Framing

-----------------------------------------------------------------------------
(* A frame.                                                                *)

\* A frame that throws changes nothing the pass keeps but its failures; one that
\* is returned at another extent is not delivered.
LEMMA FrameCases ==
  ASSUME Trace
  PROVE  \E fault \in Faults \union {"none"}, n \in 0 .. Description.count, declined \in BOOLEAN :
           /\ Frame(Description, fault, n, declined)
           /\ frame'.returned <=> fault = "none"
           /\ fault # "none" => phase' = "idle" /\ UNCHANGED <<store, samples, shown>>
           /\ fault = "none" =>
                /\ CommitHistory
                /\ phase' = "idle"
                /\ frame' = Result(Description, declined)
                /\ \/ frame'.extent = framing.extent /\ Deliver
                   \/ frame'.extent # framing.extent /\ UNCHANGED <<samples, shown>>
<1>1. PICK fault \in Faults \union {"none"}, n \in 0 .. Description.count, declined \in BOOLEAN :
        Frame(Description, fault, n, declined)
    BY DEF Trace, FrameOutcome
<1>2. /\ fault = "none" => frame' = Result(Description, declined)
      /\ fault # "none" => frame' = NoFrame
    BY <1>1 DEF Frame
<1>3. frame'.returned <=> fault = "none"
    BY <1>2 DEF Result, NoFrame
<1>4. IF ~frame'.returned
        THEN NoteFailure /\ UNCHANGED <<store, samples, shown>>
        ELSE /\ CommitHistory
             /\ IF frame'.extent # framing.extent
                  THEN NoteFailure /\ UNCHANGED <<samples, shown>>
                  ELSE Deliver
    BY DEF Trace
<1>5. \/ NoteFailure => phase' = "idle"
    BY DEF NoteFailure
<1>6. Deliver => phase' = "idle"
    BY DEF Deliver
<1> QED
    BY <1>1, <1>2, <1>3, <1>4, <1>5, <1>6

LEMMA DescriptionTyped ==
  ASSUME Types, Trace
  PROVE  /\ samples < TargetSamples
         /\ Description.count \in Nat \ {0}
         /\ samples + Description.count \in Nat \ {0}
         /\ Description.camera = framing.camera /\ Description.extent = framing.extent
         /\ Description.mode = framing.mode /\ Description.revision = framing.revision
         /\ Description.first = samples
         /\ Description.reset <=> samples = 0
<1>1. /\ TargetSamples \in Nat \ {0} /\ SamplesPerFrame \in Nat \ {0} /\ samples \in Nat
      /\ samples < TargetSamples
    BY PassConstants DEF Types, Trace
<1> DEFINE count == IF SamplesPerFrame < TargetSamples - samples THEN SamplesPerFrame
                    ELSE TargetSamples - samples
<1>2. count \in Nat \ {0} /\ samples + count \in Nat \ {0}
    BY <1>1
<1>3. Description.count = count
    BY DEF Description
<1> HIDE DEF count
<1>4. /\ Description.camera = framing.camera /\ Description.extent = framing.extent
      /\ Description.mode = framing.mode /\ Description.revision = framing.revision
      /\ Description.first = samples
      /\ Description.reset = (samples = 0)
    BY DEF Description
<1> QED
    BY <1>1, <1>2, <1>3, <1>4

LEMMA BaseTrace == ASSUME BaseInv, Trace PROVE BaseInv'
<1>1. Types
    BY DEF BaseInv
<1>2. PICK fault \in Faults \union {"none"}, n \in 0 .. Description.count, declined \in BOOLEAN :
        /\ Frame(Description, fault, n, declined)
        /\ fault # "none" => UNCHANGED <<store, samples>>
        /\ fault = "none" => CommitHistory /\ (Deliver \/ UNCHANGED samples)
        /\ phase' = "idle"
    BY FrameCases
<1>3. /\ phase = "trace" /\ framing = Framing /\ pool = host.quality /\ framing \in Framings
      /\ UNCHANGED <<host, pool, framing, uploaded, uploadedCull, scene, cull>>
    BY <1>1, <1>2 DEF Trace, Frame, BaseInv, FramingInv, Types, Framing, Framings, Hosts, Stores
<1>4. samples' \in Nat
    BY <1>1, <1>2, DescriptionTyped DEF Types, Deliver
<1>5. /\ store' \in Stores
      /\ store'.revision = store.revision /\ store'.cullRevision = store.cullRevision
      /\ \/ store'.pending = store.pending /\ store'.previous = store.previous
         \/ store.pending # None /\ store'.pending = None /\ store'.previous = store.pending
  <2>1. CASE UNCHANGED store
      BY <1>1, <2>1 DEF Types
  <2>2. CASE store.pending # None /\ store' = [store EXCEPT !.previous = store.pending, !.pending = None]
      BY <1>1, <2>2 DEF Types, Stores
  <2> QED
      BY <1>2, <2>1, <2>2 DEF CommitHistory
<1>6. Types'
    BY <1>1, <1>2, <1>3, <1>4, <1>5 DEF Types
<1>7. FramingInv'
    BY <1>1, <1>2, <1>3, <1>5 DEF FramingInv, Framing, Framings, Types, Hosts, Revisions
<1>8. UploadInv'
    BY <1>1, <1>3, <1>5 DEF BaseInv, UploadInv, Truthful, SceneIs
<1> QED
    BY <1>6, <1>7, <1>8 DEF BaseInv

LEMMA BaseStep == ASSUME BaseInv, [Next]_vars PROVE BaseInv'
<1>1. CASE UNCHANGED vars
    BY <1>1 DEF vars, hostVars, passVars, tracer, BaseInv, Types, FramingInv, UploadInv, Truthful,
                SceneIs, IsUploaded, Framing
<1> QED
    BY <1>1, BaseHost, BaseBegin, BasePublish, BaseAlreadyPublished, BaseUploadCull,
       BaseCullCurrent, BaseFinish, BaseTrace
    DEF Next, Execute

\* A frame is traced of the scene and the cull table of the framing it is of.
LEMMA TracedIsCurrent ==
  ASSUME SelectionSafe, BaseInv, phase = "trace"
  PROVE  /\ framing = Framing /\ Truthful /\ pool = host.quality
         /\ scene = WholeScene(framing, pool)
         /\ cull = WholeCull(framing)
         /\ framing.revision = store.revision
<1>1. framing = Framing /\ IsUploaded /\ uploadedCull = store.cullRevision /\ pool = host.quality
    BY DEF BaseInv, FramingInv
<1>2. /\ framing.revision = store.revision /\ framing.selection = host.selection
      /\ framing.cullRevision = store.cullRevision
    BY <1>1 DEF Framing
<1>3. Truthful /\ uploaded.revision = framing.revision /\ uploaded.selection = framing.selection
    BY <1>1, <1>2 DEF Truthful, IsUploaded
<1>4. store.cullRevision # 0
    BY DEF BaseInv, Types, Stores, Revisions
<1> QED
    BY <1>1, <1>2, <1>3, <1>4 DEF BaseInv, UploadInv, SceneIs, WholeScene, WholeCull

-----------------------------------------------------------------------------
(* The film.                                                               *)

\* The estimates a frame adds are of the scene, the table and the camera traced.
LEMMA EstimatesTyped ==
  ASSUME NEW d, NEW n, NEW e \in Estimates(d, n)
  PROVE  e.scene = scene /\ e.cull = cull /\ e.camera = d.camera
BY DEF Estimates

\* A resize is whole, or leaves the film's extent.
LEMMA SizeAfter ==
  ASSUME NEW d, NEW fault, NEW n, NEW declined, Frame(d, fault, n, declined)
  PROVE  /\ size' = Traced(d) \/ size' = size
         /\ fault = "none" => size' = Traced(d)
<1>1. /\ <<"resize0", "resize1">>[0 + 1] = "resize0"
      /\ <<"resize0", "resize1">>[1 + 1] = "resize1"
    OBVIOUS
<1>2. Done("resize0", "none") /\ Done("resize1", "none")
    BY StepIndex DEF Done
<1>3. fault = "none" => {s \in Slots : Done(<<"resize0", "resize1">>[s + 1], fault)} = Slots
    BY <1>1, <1>2 DEF Slots
<1> QED
    BY <1>3 DEF Frame, Resize, Resized

LEMMA FilmKept ==
  ASSUME Types, FilmInv, UNCHANGED <<film, size, shown>>,
         samples' = 0 \/ UNCHANGED <<samples, framing, pool>>
  PROVE  FilmInv'
<1>1. ShownIsOneFraming'
    BY DEF FilmInv, ShownIsOneFraming
<1>2. CASE samples' = 0
    BY <1>1, <1>2 DEF FilmInv
<1>3. CASE UNCHANGED <<samples, framing, pool>>
    BY <1>1, <1>3 DEF FilmInv
<1> QED
    BY <1>2, <1>3

\* A film that goes on is of this framing; a count of none starts another.
LEMMA FilmTrace == ASSUME SelectionSafe, BaseInv, FilmInv, Trace PROVE FilmInv'
<1>1. Types
    BY DEF BaseInv
<1>2. /\ scene = WholeScene(framing, pool) /\ cull = WholeCull(framing)
      /\ UNCHANGED <<framing, pool>> /\ pool \in Qualities
    BY <1>1, TracedIsCurrent DEF Trace, Types
<1> DEFINE d == Description
<1>3. /\ d.camera = framing.camera /\ d.extent = framing.extent /\ d.mode = framing.mode
      /\ d.reset <=> samples = 0
    BY <1>1, DescriptionTyped
<1>4. Traced(d) = Traced(framing)
    BY <1>3 DEF Traced, Active, Plan
<1>5. PICK fault \in Faults \union {"none"}, n \in 0 .. d.count, declined \in BOOLEAN :
        /\ Frame(d, fault, n, declined)
        /\ fault # "none" => UNCHANGED <<samples, shown>>
        /\ fault = "none" =>
             /\ frame' = Result(d, declined)
             /\ Deliver \/ UNCHANGED <<samples, shown>>
    BY FrameCases
<1> HIDE DEF d
<1>6. \A e \in Estimates(d, n) : IsEstimateOf(e, framing, pool)
    BY <1>2, <1>3, EstimatesTyped DEF IsEstimateOf
<1>7. (samples > 0 \/ fault = "none") =>
        \A e \in film'.estimates : IsEstimateOf(e, framing, pool)
  <2> DEFINE allocated == IF Resized(d) /\ Done("resize1", fault) THEN Uninitialised ELSE film
             started == IF AccumulationReset(d) /\ Done("clear", fault) THEN NoFilm ELSE allocated
  <2>1. film'.estimates = started.estimates \union Estimates(d, n)
      BY <1>5 DEF Frame, Accumulate
  <2>2. CASE samples > 0
    <3>1. ~Resized(d)
        BY <1>4, <2>2 DEF Resized, FilmInv
    <3>2. started = NoFilm \/ started = film
        BY <3>1
    <3> QED
        BY <1>6, <2>1, <2>2, <3>2 DEF NoFilm, FilmInv
  <2>3. CASE samples = 0 /\ fault = "none"
    <3>1. AccumulationReset(d) /\ Done("clear", fault)
        BY <1>3, <2>3, StepIndex DEF AccumulationReset, Done
    <3> QED
        BY <1>6, <2>1, <3>1 DEF NoFilm
  <2> QED
      BY <1>1, <2>2, <2>3 DEF Types
<1>8. (samples > 0 \/ fault = "none") => size' = Traced(framing)
    BY <1>4, <1>5, SizeAfter DEF FilmInv
<1>9. CASE UNCHANGED <<samples, shown>>
  <2>1. ShownIsOneFraming'
      BY <1>9 DEF FilmInv, ShownIsOneFraming
  <2> QED
      BY <1>2, <1>7, <1>8, <1>9, <2>1 DEF FilmInv
<1>10. CASE fault = "none" /\ Deliver /\ frame' = Result(d, declined)
  <2>1. shown'.of = framing /\ shown'.film = film'
      BY <1>10 DEF Deliver, Result
  <2>2. ShownIsOneFraming'
      BY <1>2, <1>7, <1>10, <2>1 DEF ShownIsOneFraming
  <2> QED
      BY <1>2, <1>7, <1>8, <1>10, <2>2 DEF FilmInv
<1> QED
    BY <1>5, <1>9, <1>10

LEMMA FilmStep == ASSUME SelectionSafe, BaseInv, FilmInv, [Next]_vars PROVE FilmInv'
<1>1. Types
    BY DEF BaseInv
<1>2. CASE HostNext
    BY <1>1, <1>2, HostMoves, FilmKept DEF passVars, tracer
<1>3. CASE Begin
  <2>1. UNCHANGED <<film, size, shown>>
      BY <1>3 DEF Begin, tracer
  <2>2. samples' = 0 \/ UNCHANGED <<samples, framing, pool>>
    <3> SUFFICES ASSUME samples' # 0, samples = samples', framing = Framing
                 PROVE  pool = host.quality
        BY <1>3 DEF Begin
    <3>1. samples > 0
        BY <1>1 DEF Types
    <3> QED
        BY <3>1 DEF BaseInv, FramingInv, Framing
  <2> QED
      BY <1>1, <2>1, <2>2, FilmKept
<1>4. CASE Publish
    BY <1>1, <1>4, FilmKept DEF Publish, SetScene
<1>5. CASE AlreadyPublished \/ CullVolumesCurrent \/ Finish
    BY <1>1, <1>5, FilmKept DEF AlreadyPublished, CullVolumesCurrent, Finish, hostVars, tracer
<1>6. CASE UploadCullVolumes
    BY <1>1, <1>6, FilmKept DEF UploadCullVolumes, SetCullVolumes
<1>7. CASE UNCHANGED vars
    BY <1>1, <1>7, FilmKept DEF vars, hostVars, passVars, tracer
<1> QED
    BY <1>2, <1>3, <1>4, <1>5, <1>6, <1>7, FilmTrace DEF Next, Execute

\* Whatever image is shown, every estimate in it is of its framing, of one whole
\* publication and its own cull table: whichever frames failed, and where, and
\* however often a publication stopped, if no selection can return to the one
\* uploaded before it did.
THEOREM ImageIsOneFraming ==
  ASSUME SelectionSafe
  PROVE  Spec => []ShownIsOneFraming
<1>1. Init => BaseInv /\ FilmInv
    BY BaseInit DEF Init, FilmInv, ShownIsOneFraming
<1>2. BaseInv /\ FilmInv /\ [Next]_vars => (BaseInv /\ FilmInv)'
    BY BaseStep, FilmStep
<1>3. FilmInv => ShownIsOneFraming
    BY DEF FilmInv
<1> QED
    BY <1>1, <1>2, <1>3, PTL DEF Spec

-----------------------------------------------------------------------------
(* The frame slots.                                                        *)

\* A resize that does not stop between the slots leaves them alike.
LEMMA SlotsAfter ==
  ASSUME NEW d, NEW fault \in Faults \union {"none"}, fault # "resize1",
         NEW n, NEW declined, Frame(d, fault, n, declined),
         slot \in Slots, \A s \in Slots : slotSize[s] = size
  PROVE  /\ \A s \in Slots : slotSize'[s] = size'
         /\ \/ dangling' = {}
            \/ written' = written /\ dangling' = dangling
         /\ fault = "none" => Owner \in written'
<1> DEFINE swapped == IF Resized(d) THEN {s \in Slots : Done(<<"resize0", "resize1">>[s + 1], fault)}
                      ELSE {}
<1>1. /\ slotSize' = [s \in Slots |-> IF s \in swapped THEN Traced(d) ELSE slotSize[s]]
      /\ size' = IF swapped = Slots THEN Traced(d) ELSE size
      /\ IF Stale(d) /\ Done("resize1", fault)
           THEN /\ written' = CASE fault = "bind0" -> {}
                                [] fault = "bind1" -> {0}
                                [] OTHER -> Slots
                /\ dangling' = {}
           ELSE /\ written' = written
                /\ dangling' = dangling \union swapped
      /\ slot' = Owner
    BY DEF Frame, Resize
<1>2. /\ <<"resize0", "resize1">>[0 + 1] = "resize0"
      /\ <<"resize0", "resize1">>[1 + 1] = "resize1"
    OBVIOUS
<1>3. /\ StepOf(fault) \in 1 .. 10 /\ StepOf(fault) # 2
      /\ fault = "none" <=> StepOf(fault) = 10
    BY FaultIndex
<1>4. /\ Done("resize0", fault) <=> StepOf(fault) > 2
      /\ Done("resize1", fault) <=> StepOf(fault) > 2
    BY <1>3, StepIndex DEF Done
<1>5. swapped = IF Resized(d) /\ StepOf(fault) > 2 THEN Slots ELSE {}
    BY <1>2, <1>4 DEF Slots
<1> HIDE DEF swapped
<1>6. Slots # {}
    BY DEF Slots
<1>7. \A s \in Slots : slotSize'[s] = size'
    BY <1>1, <1>5, <1>6
<1>8. CASE Stale(d) /\ Done("resize1", fault)
  <2>1. dangling' = {} /\ (fault = "none" => written' = Slots)
      BY <1>1, <1>8
  <2>2. Owner \in Slots
      BY DEF Owner, Slots
  <2> QED
      BY <1>7, <2>1, <2>2
<1>9. CASE ~(Stale(d) /\ Done("resize1", fault))
  <2>1. swapped = {}
      BY <1>4, <1>5, <1>9 DEF Stale
  <2>2. fault = "none" => Owner \in written
      BY <1>3, <1>4, <1>9 DEF Stale
  <2> QED
      BY <1>1, <1>7, <1>9, <2>1, <2>2
<1> QED
    BY <1>8, <1>9

LEMMA LiveTrace ==
  ASSUME SelectionSafe, "resize1" \notin Faults, BaseInv, LiveInv, Trace
  PROVE  LiveInv'
<1>1. Truthful
    BY TracedIsCurrent DEF Trace
<1>2. PICK fault \in Faults \union {"none"}, n \in 0 .. Description.count, declined \in BOOLEAN :
        /\ Frame(Description, fault, n, declined)
        /\ frame'.returned <=> fault = "none"
        /\ fault = "none" => frame' = Result(Description, declined)
    BY FrameCases
<1>3. Owner \in Slots /\ slot' = Owner
    BY <1>2 DEF LiveInv, Owner, Slots, Frame
<1>4. /\ \A s \in Slots : slotSize'[s] = size'
      /\ dangling' = {} \/ (written' = written /\ dangling' = dangling)
      /\ fault = "none" => Owner \in written'
    BY <1>2, SlotsAfter DEF LiveInv
<1>5. written' \intersect dangling' = {}
    BY <1>1, <1>4 DEF LiveInv
<1>6. frame'.returned => frame'.live
    BY <1>2, <1>3, <1>4, <1>5 DEF Result
<1> QED
    BY <1>3, <1>4, <1>5, <1>6 DEF LiveInv, TracesLiveResources

LEMMA LiveKept ==
  ASSUME LiveInv, UNCHANGED <<slot, slotSize, size, frame>>,
         Truthful' => \/ written' = {}
                      \/ Truthful /\ UNCHANGED <<written, dangling>>
  PROVE  LiveInv'
BY DEF LiveInv, TracesLiveResources

\* A publication that is complete asks for every slot's sets again; one that is
\* not leaves the pass's versions behind the store's.
LEMMA LivePublish == ASSUME SelectionSafe, BaseInv, LiveInv, Publish PROVE LiveInv'
<1>1. framing = Framing /\ ~IsUploaded /\ store' = [store EXCEPT !.pending = store.revision]
      /\ host' = host /\ framing' = framing
    BY DEF Publish, BaseInv, FramingInv
<1>2. store'.revision = store.revision /\ framing.revision = store.revision
      /\ framing.selection = host.selection
    BY <1>1 DEF BaseInv, Types, Stores, Framing
<1>3. PICK k \in Interrupts \union {Complete} :
        /\ SetScene(Content, store.previous, k)
        /\ k # Complete => uploaded' = uploaded
    BY DEF Publish
<1>4. CASE k = Complete
    BY <1>3, <1>4, LiveKept DEF SetScene, Bumped
<1>5. CASE k # Complete
  <2>1. "selection" \notin Edits /\ uploaded' = uploaded
      BY <1>3, <1>5 DEF SelectionSafe
  <2>2. ~Truthful'
      BY <1>1, <1>2, <2>1 DEF Truthful, IsUploaded, BaseInv, UploadInv
  <2> QED
      BY <1>3, <2>2, LiveKept DEF SetScene
<1> QED
    BY <1>4, <1>5

LEMMA LiveStep ==
  ASSUME SelectionSafe, "resize1" \notin Faults, BaseInv, LiveInv, [Next]_vars
  PROVE  LiveInv'
<1>1. Types
    BY DEF BaseInv
<1>2. CASE HostNext
  <2>1. Truthful' => Truthful
      BY <1>1, <1>2, HostMoves DEF passVars, Truthful, BaseInv, UploadInv, Types, Stores, Uploads,
                                   Revisions
  <2> QED
      BY <1>1, <1>2, <2>1, HostMoves, LiveKept DEF tracer
<1>3. CASE Begin
  <2>1. Truthful' => Truthful
      BY <1>1, <1>3 DEF Begin, Truthful, Types, Uploads
  <2> QED
      BY <1>3, <2>1, LiveKept DEF Begin, tracer
<1>4. CASE AlreadyPublished \/ CullVolumesCurrent \/ Finish
    BY <1>4, LiveKept DEF AlreadyPublished, CullVolumesCurrent, Finish, hostVars, tracer, Truthful
<1>5. CASE UploadCullVolumes
    BY <1>5, LiveKept DEF UploadCullVolumes, SetCullVolumes, Truthful
<1>6. CASE UNCHANGED vars
    BY <1>6, LiveKept DEF vars, hostVars, passVars, tracer, Truthful
<1> QED
    BY <1>2, <1>3, <1>4, <1>5, <1>6, LivePublish, LiveTrace DEF Next, Execute

\* Every frame returned was traced with sets that name nothing that was replaced,
\* and buffers of the film's extent, whatever failed before it, if no resize stops
\* between the frame slots.
THEOREM FramesTraceLiveResources ==
  ASSUME SelectionSafe, "resize1" \notin Faults
  PROVE  Spec => []TracesLiveResources
<1>1. Init => BaseInv /\ LiveInv
    BY BaseInit DEF Init, TracerInit, NoFrame, LiveInv, TracesLiveResources, Slots
<1>2. BaseInv /\ LiveInv /\ [Next]_vars => (BaseInv /\ LiveInv)'
    BY BaseStep, LiveStep
<1>3. LiveInv => TracesLiveResources
    BY DEF LiveInv
<1> QED
    BY <1>1, <1>2, <1>3, PTL DEF Spec

-----------------------------------------------------------------------------
(* Motion.                                                                 *)

LEMMA MotionKept ==
  ASSUME MotionInv, UNCHANGED <<seen, clip, past, frame>>, store'.previous = store.previous
  PROVE  MotionInv'
BY DEF MotionInv, MotionFromLastFrame

\* A publication's past is what the last frame returned was placed by.
LEMMA MotionPublish == ASSUME BaseInv, MotionInv, Publish PROVE MotionInv'
<1>1. store'.previous = store.previous
    BY DEF Publish, BaseInv, Types, Stores
<1>2. PICK k : SetScene(Content, store.previous, k)
    BY DEF Publish
<1>3. /\ past' \in {past, IF store.previous = None THEN Content.revision ELSE store.previous}
      /\ UNCHANGED <<seen, clip, frame>>
    BY <1>2 DEF SetScene
<1>4. seen # None => past' = seen.revision
    BY <1>3, PassConstants DEF MotionInv, Revisions
<1> QED
    BY <1>1, <1>3, <1>4 DEF MotionInv, MotionFromLastFrame

\* The camera, the placements and the store's history advance with the same frames.
LEMMA MotionTrace ==
  ASSUME SelectionSafe, {"advance", "reconstruct"} \intersect Faults = {}, BaseInv, MotionInv, Trace
  PROVE  MotionInv'
<1> DEFINE d == Description
<1>1. Types
    BY DEF BaseInv
<1>2. /\ d.camera = framing.camera /\ d.revision = framing.revision
      /\ framing = Framing /\ framing.revision = store.revision
      /\ scene = WholeScene(framing, pool) /\ Truthful
    BY <1>1, DescriptionTyped, TracedIsCurrent DEF Trace
<1>3. /\ framing.camera \in Cameras /\ framing.revision \in Revisions
      /\ framing.camera # None /\ framing.revision # None
    BY <1>1, <1>2, PassConstants DEF Types, Framing, Hosts, Stores, Revisions
<1>4. scene[StageOf("instances")].revision = framing.revision
  <2>1. DOMAIN Stages = 1 .. 7 /\ Stages[4] = "instances"
      BY DEF Stages
  <2>2. StageOf("instances") \in DOMAIN Stages
      BY <2>1 DEF StageOf
  <2> QED
      BY <1>2, <2>2 DEF WholeScene
<1>5. PICK fault \in Faults \union {"none"}, n \in 0 .. d.count, declined \in BOOLEAN :
        /\ Frame(d, fault, n, declined)
        /\ frame'.returned <=> fault = "none"
        /\ fault # "none" => UNCHANGED store
        /\ fault = "none" => CommitHistory /\ frame' = Result(d, declined)
    BY FrameCases
<1> HIDE DEF d
<1>6. /\ clip' = IF Done("resolve", fault) THEN d.camera ELSE clip
      /\ past' = IF Done("advance", fault) THEN scene[StageOf("instances")].revision ELSE past
      /\ seen' = IF fault = "none" THEN [camera |-> d.camera, revision |-> d.revision] ELSE seen
    BY <1>5 DEF Frame, Advance
<1>7. CASE fault = "none"
  <2>1. Done("resolve", fault) /\ Done("advance", fault)
      BY <1>7, StepIndex DEF Done
  <2>2. /\ clip' = framing.camera /\ past' = framing.revision
        /\ seen' = [camera |-> framing.camera, revision |-> framing.revision]
      BY <1>2, <1>4, <1>6, <1>7, <2>1
  <2>3. store'.previous = framing.revision
    <3>1. CASE store.pending = None
        BY <1>2, <1>5, <1>7, <3>1 DEF CommitHistory, BaseInv, UploadInv
    <3>2. CASE store.pending # None
      <4>1. store.pending = store.revision
          BY <1>2, <3>2 DEF BaseInv, UploadInv
      <4>2. store' = [store EXCEPT !.previous = store.pending, !.pending = None]
          BY <1>5, <1>7, <3>2 DEF CommitHistory
      <4> QED
          BY <1>1, <1>2, <4>1, <4>2 DEF Types, Stores
    <3> QED
        BY <3>1, <3>2
  <2>4. frame'.since = seen
        /\ frame'.movedFrom = [camera |-> IF clip = None THEN d.camera ELSE clip, revision |-> past]
      BY <1>5, <1>7 DEF Result
  <2>5. seen # None => frame'.movedFrom = seen
    <3> SUFFICES ASSUME seen # None PROVE frame'.movedFrom = seen
        OBVIOUS
    <3>1. /\ seen \in [camera : Cameras, revision : Revisions]
          /\ clip = seen.camera /\ past = seen.revision /\ clip # None
        BY PassConstants DEF MotionInv
    <3>2. frame'.movedFrom = [camera |-> seen.camera, revision |-> seen.revision]
        BY <2>4, <3>1
    <3> QED
        BY <3>1, <3>2
  <2>6. MotionFromLastFrame'
      BY <2>4, <2>5 DEF MotionFromLastFrame
  <2>7. seen' \in [camera : Cameras, revision : Revisions]
      BY <1>3, <2>2
  <2> QED
      BY <2>2, <2>3, <2>6, <2>7 DEF MotionInv
<1>8. CASE fault # "none"
  <2>1. ~Done("resolve", fault) /\ ~Done("advance", fault)
      BY <1>8, StepIndex, FaultIndex DEF Done
  <2>2. UNCHANGED <<clip, past, seen, store>> /\ ~frame'.returned
      BY <1>5, <1>6, <1>8, <2>1
  <2> QED
      BY <2>2 DEF MotionInv, MotionFromLastFrame
<1> QED
    BY <1>7, <1>8

LEMMA MotionStep ==
  ASSUME SelectionSafe, {"advance", "reconstruct"} \intersect Faults = {}, BaseInv, MotionInv, [Next]_vars
  PROVE  MotionInv'
<1>1. CASE HostNext
    BY <1>1, HostMoves, MotionKept DEF BaseInv, tracer
<1>2. CASE Begin
    BY <1>2, MotionKept DEF Begin, tracer
<1>3. CASE AlreadyPublished \/ CullVolumesCurrent \/ Finish
    BY <1>3, MotionKept DEF AlreadyPublished, CullVolumesCurrent, Finish, hostVars, tracer
<1>4. CASE UploadCullVolumes
    BY <1>4, MotionKept DEF UploadCullVolumes, SetCullVolumes
<1>5. CASE UNCHANGED vars
    BY <1>5, MotionKept DEF vars, hostVars, tracer
<1> QED
    BY <1>1, <1>2, <1>3, <1>4, <1>5, MotionPublish, MotionTrace DEF Next, Execute

\* The motion of a frame is measured from the last frame that was returned, camera
\* and placements both, whatever publications stopped and frames failed in between,
\* if none fails once the placements it was traced with are being advanced.
THEOREM MotionSpansReturnedFrames ==
  ASSUME SelectionSafe, {"advance", "reconstruct"} \intersect Faults = {}
  PROVE  Spec => []MotionFromLastFrame
<1>1. Init => BaseInv /\ MotionInv
    BY BaseInit DEF Init, TracerInit, NoFrame, MotionInv, MotionFromLastFrame
<1>2. BaseInv /\ MotionInv /\ [Next]_vars => (BaseInv /\ MotionInv)'
    BY BaseStep, MotionStep
<1>3. MotionInv => MotionFromLastFrame
    BY DEF MotionInv
<1> QED
    BY <1>1, <1>2, <1>3, PTL DEF Spec

-----------------------------------------------------------------------------
(* The count.                                                              *)

LEMMA CountKept ==
  ASSUME CountInv, UNCHANGED <<film, size, shown, previous, previousPlan>>,
         samples' = 0 \/ UNCHANGED <<samples, framing>>
  PROVE  CountInv'
<1>1. CASE samples' = 0
    BY <1>1 DEF CountInv, FilmHoldsWhatWasCounted
<1>2. CASE UNCHANGED <<samples, framing>>
    BY <1>2 DEF CountInv, FilmHoldsWhatWasCounted
<1> QED
    BY <1>1, <1>2

\* The samples of the estimates a frame adds.
LEMMA EstimatesSamples ==
  ASSUME NEW d, NEW n \in Nat, d.first \in Nat
  PROVE  {e.sample : e \in Estimates(d, n)} = d.first .. (d.first + n - 1)
<1> DEFINE added(i) == [scene |-> scene, cull |-> cull, camera |-> d.camera, sample |-> i]
<1>1. Estimates(d, n) = {added(i) : i \in d.first .. (d.first + n - 1)}
    BY DEF Estimates
<1>2. \A i : added(i).sample = i
    OBVIOUS
<1> HIDE DEF added
<1>3. ASSUME NEW i \in d.first .. (d.first + n - 1) PROVE i \in {e.sample : e \in Estimates(d, n)}
    BY <1>1, <1>2
<1>4. ASSUME NEW e \in Estimates(d, n) PROVE e.sample \in d.first .. (d.first + n - 1)
    BY <1>1, <1>2
<1> QED
    BY <1>3, <1>4

\* A reference frame whose framing was counted resets nothing.
LEMMA NothingReset ==
  ASSUME NEW d, samples > 0, CountInv, framing.mode = "reference",
         d.camera = framing.camera, d.extent = framing.extent, d.mode = framing.mode,
         d.revision = framing.revision, ~d.reset
  PROVE  ~Resized(d) /\ ~AccumulationReset(d)
<1>1. Traced(d) = Traced(framing) /\ PlanOf(d) = PlanOf(framing)
    BY DEF Traced, PlanOf, Active, Plan
<1>2. ~Resized(d) /\ ~ReconstructionChanged(d)
    BY <1>1 DEF CountInv, Resized, ReconstructionChanged
<1>3. /\ previous.mode = d.mode /\ previous.revision = d.revision
      /\ previous.camera = d.camera
    BY DEF CountInv
<1> QED
    BY <1>2, <1>3 DEF AccumulationReset, HistoryReset, Interactive

\* A frame that is delivered adds its samples once, after those there are.
LEMMA CountTrace ==
  ASSUME {"trace", "resolve", "advance", "reconstruct"} \intersect Faults = {},
         BaseInv, CountInv, Trace
  PROVE  CountInv'
<1> DEFINE d == Description
<1>1. Types
    BY DEF BaseInv
<1>2. /\ d.camera = framing.camera /\ d.extent = framing.extent /\ d.mode = framing.mode
      /\ d.revision = framing.revision /\ d.first = samples
      /\ d.reset <=> samples = 0
      /\ d.count \in Nat \ {0} /\ samples \in Nat /\ framing' = framing
    BY <1>1, DescriptionTyped DEF Types, Trace
<1>3. Traced(d) = Traced(framing) /\ PlanOf(d) = PlanOf(framing)
    BY <1>2 DEF Traced, PlanOf, Active, Plan
<1>4. framing.extent \in Extents
    BY <1>1 DEF Trace, BaseInv, FramingInv, Framing, Types, Hosts
<1>5. PICK fault \in Faults \union {"none"}, n \in 0 .. d.count, declined \in BOOLEAN :
        /\ Frame(d, fault, n, declined)
        /\ fault # "none" => UNCHANGED <<samples, shown>>
        /\ fault = "none" =>
             /\ frame' = Result(d, declined)
             /\ \/ frame'.extent = framing.extent /\ Deliver
                \/ frame'.extent # framing.extent /\ UNCHANGED <<samples, shown>>
    BY FrameCases
<1>6. Deliver => samples' = samples + d.count
    BY DEF Deliver
<1> HIDE DEF d
<1>7. samples > 0 \/ fault = "none" => size' = Traced(framing)
    BY <1>3, <1>5, SizeAfter DEF CountInv
<1> DEFINE allocated == IF Resized(d) /\ Done("resize1", fault) THEN Uninitialised ELSE film
           started == IF AccumulationReset(d) /\ Done("clear", fault) THEN NoFilm ELSE allocated
<1>8. /\ film'.estimates = started.estimates \union Estimates(d, n)
      /\ film'.repeated <=>
           started.repeated \/ Estimates(d, n) \intersect started.estimates # {}
    BY <1>5 DEF Frame, Accumulate
<1>9. /\ previousPlan' = PlanOf(framing)
      /\ previous' = IF Done("resize1", fault)
                       THEN [mode |-> framing.mode, revision |-> framing.revision,
                             camera |-> framing.camera]
                       ELSE previous
    BY <1>2, <1>3, <1>5 DEF Frame, Remember
<1>10. samples > 0 /\ framing.mode = "reference" => started = film
    BY <1>2, NothingReset
<1>11. {e.sample : e \in Estimates(d, n)} = samples .. (samples + n - 1)
    BY <1>2, EstimatesSamples
<1>12. CASE fault # "none"
  <2>1. StepOf(fault) \in 1 .. 5
      BY <1>12, FaultIndex
  <2>2. n = 0
      BY <1>5, <2>1, StepIndex DEF Frame, Done
  <2>3. Estimates(d, n) = {}
      BY <1>2, <2>2 DEF Estimates
  <2>4. UNCHANGED <<samples, shown>>
      BY <1>5, <1>12
  <2>5. samples > 0 /\ framing.mode = "reference" =>
          /\ film'.estimates = film.estimates
          /\ film'.repeated <=> film.repeated
          /\ previous' = previous
      BY <1>8, <1>9, <1>10, <2>3 DEF CountInv
  <2> QED
      BY <1>2, <1>7, <1>9, <2>4, <2>5 DEF CountInv, FilmHoldsWhatWasCounted
<1>13. CASE fault = "none" /\ framing.mode # "reference"
    BY <1>2, <1>7, <1>13 DEF CountInv, FilmHoldsWhatWasCounted
<1>14. CASE fault = "none" /\ framing.mode = "reference"
  <2>1. ~Active(d)
      BY <1>2, <1>4, <1>14, TracerConstants, PassConstants DEF Active, Plan
  <2>2. frame'.extent = framing.extent /\ frame'.film = film'
      BY <1>2, <1>5, <1>14, <2>1 DEF Result
  <2>3. samples' = samples + d.count /\ shown'.of = framing /\ shown'.film = film'
      BY <1>5, <1>6, <1>14, <2>2 DEF Deliver
  <2>4. Done("resize1", fault) /\ Done("clear", fault) /\ n = d.count
      BY <1>5, <1>14, StepIndex DEF Frame, Done
  <2>5. /\ {e.sample : e \in started.estimates} = 0 .. (samples - 1)
        /\ ~started.repeated
    <3>1. CASE samples = 0
      <4>1. started = NoFilm
          BY <1>2, <2>4, <3>1 DEF AccumulationReset
      <4> QED
          BY <3>1, <4>1 DEF NoFilm
    <3>2. CASE samples > 0
        BY <1>10, <1>14, <3>2 DEF CountInv, FilmHoldsWhatWasCounted
    <3> QED
        BY <1>2, <3>1, <3>2
  <2> HIDE DEF started
  <2>6. {e.sample : e \in film'.estimates} = 0 .. (samples' - 1)
    <3>1. {e.sample : e \in film'.estimates} =
            {e.sample : e \in started.estimates} \union {e.sample : e \in Estimates(d, n)}
        BY <1>8
    <3>2. @ = (0 .. (samples - 1)) \union (samples .. (samples + n - 1))
        BY <1>11, <2>5
    <3>3. \A a, b \in Nat : (0 .. (a - 1)) \union (a .. (a + b - 1)) = 0 .. (a + b - 1)
        OBVIOUS
    <3>4. samples \in Nat /\ n \in Nat /\ samples' = samples + n
        BY <1>2, <2>3, <2>4
    <3>5. (0 .. (samples - 1)) \union (samples .. (samples + n - 1)) = 0 .. (samples + n - 1)
        BY <3>3, <3>4
    <3> QED
        BY <3>1, <3>2, <3>4, <3>5
  <2>7. Estimates(d, n) \intersect started.estimates = {}
    <3> SUFFICES ASSUME NEW e \in Estimates(d, n), e \in started.estimates PROVE FALSE
        OBVIOUS
    <3>1. e.sample \in samples .. (samples + n - 1)
        BY <1>11
    <3>2. e.sample \in 0 .. (samples - 1)
        BY <2>5
    <3> QED
        BY <1>2, <3>1, <3>2
  <2>8. ~film'.repeated
      BY <1>8, <2>5, <2>7
  <2> QED
      BY <1>2, <1>7, <1>9, <1>14, <2>3, <2>4, <2>6, <2>8 DEF CountInv, FilmHoldsWhatWasCounted
<1> QED
    BY <1>12, <1>13, <1>14

LEMMA CountStep ==
  ASSUME {"trace", "resolve", "advance", "reconstruct"} \intersect Faults = {},
         BaseInv, CountInv, [Next]_vars
  PROVE  CountInv'
<1>1. CASE HostNext
    BY <1>1, HostMoves, CountKept DEF BaseInv, passVars, tracer
<1>2. CASE Begin
  <2>1. samples' = 0 \/ UNCHANGED <<samples, framing>>
      BY <1>2 DEF Begin
  <2> QED
      BY <1>2, <2>1, CountKept DEF Begin, tracer
<1>3. CASE Publish
    BY <1>3, CountKept DEF Publish, SetScene
<1>4. CASE AlreadyPublished \/ CullVolumesCurrent \/ Finish
    BY <1>4, CountKept DEF AlreadyPublished, CullVolumesCurrent, Finish, hostVars, tracer
<1>5. CASE UploadCullVolumes
    BY <1>5, CountKept DEF UploadCullVolumes, SetCullVolumes
<1>6. CASE UNCHANGED vars
    BY <1>6, CountKept DEF vars, hostVars, passVars, tracer
<1> QED
    BY <1>1, <1>2, <1>3, <1>4, <1>5, <1>6, CountTrace DEF Next, Execute

\* The count the pass keeps of a reference film is what the film shown holds, each
\* sample once, whatever frames failed before their first sample and whatever
\* uploads did.
THEOREM FilmIsWhatWasCounted ==
  ASSUME {"trace", "resolve", "advance", "reconstruct"} \intersect Faults = {}
  PROVE  Spec => []FilmHoldsWhatWasCounted
<1>1. Init => BaseInv /\ CountInv
    BY BaseInit DEF Init, CountInv, FilmHoldsWhatWasCounted
<1>2. BaseInv /\ CountInv /\ [Next]_vars => (BaseInv /\ CountInv)'
    BY BaseStep, CountStep
<1>3. CountInv => FilmHoldsWhatWasCounted
    BY DEF CountInv
<1> QED
    BY <1>1, <1>2, <1>3, PTL DEF Spec

-----------------------------------------------------------------------------
(* The backend's history.                                                  *)

LEMMA RevisionStep == ASSUME BaseInv, RevisionInv, [Next]_vars PROVE RevisionInv'
<1>1. Types
    BY DEF BaseInv
<1>2. store \in Stores /\ uploaded \in Uploads
    BY <1>1 DEF Types
<1>3. ASSUME store'.revision = store.revision, scene' = scene,
             uploaded' \in {uploaded, [uploaded EXCEPT !.valid = FALSE]}
      PROVE  RevisionInv'
    BY <1>2, <1>3 DEF RevisionInv, Truthful, Uploads
<1>4. CASE HostNext
  <2>1. store'.revision >= store.revision /\ store' \in Stores /\ UNCHANGED <<uploaded, scene>>
      BY <1>1, <1>4, HostMoves DEF passVars, tracer
  <2> QED
      BY <1>2, <2>1 DEF RevisionInv, Truthful, Stores, Uploads, Revisions
<1>5. CASE Begin
    BY <1>3, <1>5 DEF Begin, tracer
<1>6. CASE Publish
  <2>1. PICK k \in Interrupts \union {Complete} :
          /\ SetScene(Content, store.previous, k)
          /\ IF k = Complete
               THEN uploaded' = [valid |-> TRUE, revision |-> framing.revision,
                                 selection |-> framing.selection]
               ELSE UNCHANGED uploaded
      BY <1>6 DEF Publish
  <2>2. /\ store'.revision = store.revision /\ framing = Framing
        /\ framing.revision = store.revision
      BY <1>2, <1>6 DEF Publish, BaseInv, FramingInv, Framing, Stores
  <2>3. \A i \in DOMAIN Stages :
          scene'[i] = IF i <= k THEN Content ELSE scene[i]
      BY <2>1 DEF SetScene
  <2>4. Content.revision = store.revision
      BY DEF Content
  <2>5. CASE k = Complete
    <3>1. \A i \in DOMAIN Stages : i <= k
        BY <2>5 DEF Complete, Stages
    <3> QED
        BY <1>2, <2>1, <2>2, <2>3, <2>4, <2>5, <3>1 DEF RevisionInv, Truthful, Stores, Revisions
  <2>6. CASE k # Complete
      BY <2>1, <2>2, <2>3, <2>4, <2>6 DEF RevisionInv, Truthful
  <2> QED
      BY <2>5, <2>6
<1>7. CASE AlreadyPublished \/ CullVolumesCurrent \/ Finish
    BY <1>3, <1>7 DEF AlreadyPublished, CullVolumesCurrent, Finish, hostVars, tracer
<1>8. CASE UploadCullVolumes
    BY <1>3, <1>8 DEF UploadCullVolumes, SetCullVolumes
<1>9. CASE Trace
  <2>1. store' = store \/ CommitHistory
      BY <1>9, FrameCases
  <2>2. store'.revision = store.revision
      BY <1>2, <2>1 DEF CommitHistory, Stores
  <2>3. scene' = scene /\ uploaded' = uploaded
      BY <1>9 DEF Trace, FrameOutcome, Frame
  <2> QED
      BY <1>3, <2>2, <2>3
<1>10. CASE UNCHANGED vars
    BY <1>3, <1>10 DEF vars, hostVars, passVars, tracer
<1> QED
    BY <1>4, <1>5, <1>6, <1>7, <1>8, <1>9, <1>10 DEF Next, Execute

\* A frame that throws owes its backend the reset it was to have, or changed nothing
\* the backend's history is of.
LEMMA BackendTrace ==
  ASSUME BaseInv, RevisionInv, BackendInv, Trace
  PROVE  BackendInv'
<1> DEFINE d == Description
<1>1. Types
    BY DEF BaseInv
<1>2. /\ d.camera \in Cameras /\ d.extent \in Extents /\ d.mode \in Modes
      /\ d.revision \in Revisions
    BY <1>1, DescriptionTyped DEF Trace, BaseInv, FramingInv, Framing, Types, Hosts, Stores
<1>3. PICK fault \in Faults \union {"none"}, n \in 0 .. d.count, declined \in BOOLEAN :
        /\ Frame(d, fault, n, declined)
        /\ frame'.returned <=> fault = "none"
        /\ fault = "none" => frame' = Result(d, declined)
    BY FrameCases
<1>4. \A k \in DOMAIN Stages : scene[k].revision = d.revision
  <2>1. phase = "trace" /\ IsUploaded /\ framing = Framing
      BY DEF Trace, BaseInv, FramingInv
  <2>2. d.revision = store.revision /\ Truthful
      BY <2>1 DEF IsUploaded, Framing, Truthful, Description
  <2> QED
      BY <2>2 DEF RevisionInv
<1> HIDE DEF d
<1>5. CASE fault # "none"
  <2>1. UNCHANGED <<backend, built>> /\ ~frame'.returned /\ owed \in BOOLEAN
      BY <1>3, <1>5 DEF Frame, Reconstruct, BackendInv
  <2>2. owed' = \/ owed
                \/ ReconstructionChanged(d)
                \/ Done("resize1", fault) /\ HistoryReset(d)
                \/ Done("resolve", fault)
      BY <1>3, <1>5 DEF Frame, Owe
  <2>3. previous' = IF Done("resize1", fault)
                      THEN [mode |-> d.mode, revision |-> d.revision, camera |-> d.camera]
                      ELSE previous
      BY <1>3 DEF Frame, Remember
  <2>4. clip' = IF Done("resolve", fault) THEN d.camera ELSE clip
      BY <1>3 DEF Frame, Advance
  <2>5. /\ previous' # None => previous' \in [mode : Modes, revision : Revisions, camera : Cameras]
        /\ built' # None => previous' # None
      BY <1>2, <2>1, <2>3, PassConstants DEF BackendInv, Revisions
  <2>6. ASSUME ~owed', built' # None, previousPlan' # None
        PROVE  /\ clip' \in Cameras /\ backend'.camera = clip'
               /\ \A k \in DOMAIN Stages : backend'.scene[k].revision = previous'.revision
    <3>1. /\ ~owed /\ clip' = clip /\ ~ReconstructionChanged(d)
          /\ ~(Done("resize1", fault) /\ HistoryReset(d))
        BY <2>2, <2>4, <2>6
    <3>2. built # None /\ previous # None
        BY <2>1, <2>6 DEF BackendInv
    <3>3. previous'.revision = previous.revision
        BY <2>3, <3>1, <3>2 DEF HistoryReset
    <3>4. previousPlan # None
        BY <1>3, <2>6, <3>1, <3>2 DEF Frame, Remember, ReconstructionChanged
    <3> QED
        BY <2>1, <3>1, <3>2, <3>3, <3>4 DEF BackendInv
  <2>7. owed' \in BOOLEAN
      BY <2>1, <2>2 DEF Done
  <2> QED
      BY <2>1, <2>5, <2>6, <2>7 DEF BackendInv, BackendHistoryMatches
<1>6. CASE fault = "none"
  <2>1. Done("resize1", fault) /\ Done("resolve", fault)
      BY <1>6, StepIndex DEF Done
  <2>2. /\ previous' = [mode |-> d.mode, revision |-> d.revision, camera |-> d.camera]
        /\ clip' = d.camera
      BY <1>3, <1>6, <2>1 DEF Frame, Remember, Advance
  <2>3. previous' \in [mode : Modes, revision : Revisions, camera : Cameras] /\ previous' # None
      BY <1>2, <2>2, PassConstants DEF Revisions
  <2>4. /\ previousPlan' # None => Active(d)
        /\ Active(d) => PlanOf(d) # None
      BY <1>2, <1>3, PassConstants DEF Frame, Remember, PlanOf
  <2>5. IF ~Active(d) THEN UNCHANGED <<backend, built>>
        ELSE IF declined THEN built' = None /\ UNCHANGED backend
        ELSE backend' = [scene |-> scene, camera |-> d.camera]
      BY <1>3, <1>6 DEF Frame, Reconstruct
  <2>6. built' # None /\ previousPlan' # None =>
          /\ clip' \in Cameras /\ backend'.camera = clip'
          /\ \A k \in DOMAIN Stages : backend'.scene[k].revision = previous'.revision
      BY <1>2, <1>4, <2>2, <2>4, <2>5
  <2>7. ASSUME frame'.history # None, ~frame'.owed
        PROVE  /\ \A k \in DOMAIN Stages : frame'.history.scene[k].revision = frame'.scene[k].revision
               /\ frame'.history.camera = frame'.movedFrom.camera
    <3>1. /\ frame'.history = IF Active(d) /\ ~declined THEN Used(d) ELSE None
          /\ frame'.scene = scene
          /\ frame'.owed = owed
          /\ frame'.movedFrom.camera = IF clip = None THEN d.camera ELSE clip
        BY <1>3, <1>6 DEF Result
    <3>2. /\ Active(d) /\ ~HistoryReset(d) /\ built = Resolution(d)
          /\ frame'.history = backend
        BY <2>7, <3>1 DEF Used
    <3>3. built # None
        BY <1>2, <3>2, PassConstants DEF Resolution, Traced, Plan
    <3>4. previous # None /\ previous \in [mode : Modes, revision : Revisions, camera : Cameras]
        BY <3>3 DEF BackendInv
    <3>5. d.revision = previous.revision /\ previousPlan # None
        BY <2>4, <3>2, <3>4 DEF HistoryReset, ReconstructionChanged
    <3>6. /\ clip \in Cameras /\ clip # None /\ backend.camera = clip
          /\ \A k \in DOMAIN Stages : backend.scene[k].revision = previous.revision
        BY <2>7, <3>1, <3>3, <3>5, PassConstants DEF BackendInv
    <3> QED
        BY <1>4, <3>1, <3>2, <3>5, <3>6
  <2>8. owed' \in BOOLEAN
      BY <1>3, <1>6 DEF Frame, Owe, BackendInv
  <2> QED
      BY <2>3, <2>6, <2>7, <2>8 DEF BackendInv, BackendHistoryMatches
<1> QED
    BY <1>5, <1>6

LEMMA BackendKept ==
  ASSUME BackendInv, UNCHANGED <<previous, previousPlan, clip, backend, built, owed, frame>>
  PROVE  BackendInv'
BY DEF BackendInv, BackendHistoryMatches

LEMMA BackendStep ==
  ASSUME BaseInv, RevisionInv, BackendInv, [Next]_vars
  PROVE  BackendInv'
<1>1. CASE HostNext
    BY <1>1, HostMoves, BackendKept DEF BaseInv, tracer
<1>2. CASE Begin
    BY <1>2, BackendKept DEF Begin, tracer
<1>3. CASE Publish
    BY <1>3, BackendKept DEF Publish, SetScene
<1>4. CASE AlreadyPublished \/ CullVolumesCurrent \/ Finish
    BY <1>4, BackendKept DEF AlreadyPublished, CullVolumesCurrent, Finish, hostVars, tracer
<1>5. CASE UploadCullVolumes
    BY <1>5, BackendKept DEF UploadCullVolumes, SetCullVolumes
<1>6. CASE UNCHANGED vars
    BY <1>6, BackendKept DEF vars, tracer
<1> QED
    BY <1>1, <1>2, <1>3, <1>4, <1>5, <1>6, BackendTrace DEF Next, Execute

\* A backend that keeps its history was left with an image of this revision of the
\* scene, whole, from the camera the motion vectors point back to, over any edits,
\* publications that stop, frames that fail anywhere and however often it declines:
\* unless a frame that failed took a reset with it that no frame has made up for.
THEOREM HistoryIsOfThisRevision == Spec => []BackendHistoryMatches
<1>1. Init => BaseInv /\ RevisionInv /\ BackendInv
  <2> SUFFICES ASSUME Init PROVE BaseInv /\ RevisionInv /\ BackendInv
      OBVIOUS
  <2>1. RevisionInv
    <3>1. uploaded.valid = FALSE /\ uploaded.revision = 0 /\ store.revision = 1
        BY DEF Init
    <3> QED
        BY <3>1 DEF RevisionInv, Truthful
  <2>2. BackendInv
      BY DEF Init, TracerInit, NoFrame, BackendInv, BackendHistoryMatches
  <2> QED
      BY <2>1, <2>2, BaseInit
<1>2. BaseInv /\ RevisionInv /\ BackendInv /\ [Next]_vars
        => (BaseInv /\ RevisionInv /\ BackendInv)'
    BY BaseStep, RevisionStep, BackendStep
<1>3. BackendInv => BackendHistoryMatches
    BY DEF BackendInv
<1> QED
    BY <1>1, <1>2, <1>3, PTL DEF Spec

-----------------------------------------------------------------------------
(* Convergence.                                                            *)

\* Nothing but a reallocation or a frame changes what a buffer holds.
LEMMA ShownKept ==
  ASSUME ShownInv, bound' = bound,
         aovs' = [a \in Aovs |-> [image |-> aovs'[a].image, converged |-> aovs'[a].converged]],
         \A a \in Aovs : aovs'[a].image \in {None, aovs[a].image},
         shown' = shown, samples' = 0 \/ UNCHANGED <<samples, framing>>
  PROVE  ShownInv'
<1>1. CASE samples' = 0
    BY <1>1 DEF ShownInv
<1>2. CASE UNCHANGED <<samples, framing>>
    BY <1>2 DEF ShownInv
<1> QED
    BY <1>1, <1>2

LEMMA Marked ==
  ASSUME ShownInv, NEW c,
         aovs' = [a \in Aovs |-> IF a \in bound THEN [aovs[a] EXCEPT !.converged = c] ELSE aovs[a]]
  PROVE  /\ aovs' = [a \in Aovs |-> [image |-> aovs'[a].image, converged |-> aovs'[a].converged]]
         /\ \A a \in Aovs : aovs'[a].image = aovs[a].image /\ aovs'[a].converged = c
<1>1. \A a \in Aovs : aovs[a] = [image |-> aovs[a].image, converged |-> aovs[a].converged]
    BY DEF ShownInv
<1>2. \A a \in Aovs : aovs'[a] = [image |-> aovs[a].image, converged |-> c]
    BY <1>1 DEF ShownInv
<1>3. \A a \in Aovs : aovs'[a].image = aovs[a].image /\ aovs'[a].converged = c
  <2>1. ASSUME NEW a \in Aovs PROVE aovs'[a].image = aovs[a].image /\ aovs'[a].converged = c
    <3>1. aovs'[a] = [image |-> aovs[a].image, converged |-> c]
        BY <1>2
    <3>2. aovs'[a].image = aovs[a].image
        BY ONLY <3>1
    <3>3. aovs'[a].converged = c
        BY ONLY <3>1
    <3> QED
        BY <3>2, <3>3, Zenon
  <2> QED
      BY <2>1
<1>4. \A a \in Aovs : aovs'[a] = [image |-> aovs'[a].image, converged |-> aovs'[a].converged]
    BY <1>2, <1>3, Zenon
<1>5. aovs' = [a \in Aovs |-> aovs'[a]]
    OBVIOUS
<1>6. aovs' = [a \in Aovs |-> [image |-> aovs'[a].image, converged |-> aovs'[a].converged]]
    BY <1>4, <1>5
<1> QED
    BY <1>3, <1>6

LEMMA ShownHost == ASSUME "bind" \notin Edits, BaseInv, ShownInv, HostNext PROVE ShownInv'
<1>1. UNCHANGED <<samples, framing, shown>>
    BY HostMoves DEF BaseInv, passVars
<1>2. ASSUME UNCHANGED <<aovs, bound>> PROVE ShownInv'
    BY <1>1, <1>2 DEF ShownInv
<1>3. CASE ResizeViewport
    BY <1>1, <1>3, ShownKept DEF ResizeViewport, Empty
<1>4. CASE Reallocate
  <2>1. PICK a \in Aovs : aovs' = [aovs EXCEPT ![a] = Empty]
      BY <1>4 DEF Reallocate
  <2>2. \A b \in Aovs : aovs'[b] = IF b = a THEN Empty ELSE aovs[b]
      BY <2>1 DEF ShownInv
  <2>3. \A b \in Aovs : /\ aovs'[b].image \in {None, aovs[b].image}
                        /\ aovs'[b] = [image |-> aovs'[b].image, converged |-> aovs'[b].converged]
      BY <2>2 DEF ShownInv, Empty
  <2>4. aovs' = [b \in Aovs |-> aovs'[b]]
      BY <2>1 DEF ShownInv
  <2>5. aovs' = [b \in Aovs |-> [image |-> aovs'[b].image, converged |-> aovs'[b].converged]]
      BY <2>3, <2>4
  <2> QED
      BY <1>1, <1>4, <2>3, <2>5, ShownKept DEF Reallocate
<1> QED
    BY <1>2, <1>3, <1>4 DEF HostNext, Publication, MoveCullVolume, MoveCamera, Select, SetMode,
                            SetTextureQuality, Bind, Edit

\* A failure is reported converged only when the pass gives up.
LEMMA FailureShown ==
  ASSUME ShownInv, NoteFailure, UNCHANGED <<bound, samples, framing, shown>>
  PROVE  ShownInv' /\ (\A a \in bound' : aovs'[a].converged => GaveUp')
<1>1. PICK c : /\ aovs' = [a \in Aovs |-> IF a \in bound THEN [aovs[a] EXCEPT !.converged = c]
                                           ELSE aovs[a]]
               /\ c = (failures' >= kMaxConsecutiveFailures)
    BY DEF NoteFailure, MarkConverged
<1>2. /\ aovs' = [a \in Aovs |-> [image |-> aovs'[a].image, converged |-> aovs'[a].converged]]
      /\ \A a \in Aovs : aovs'[a].image = aovs[a].image /\ aovs'[a].converged = c
    BY <1>1, Marked
<1>3. ShownInv'
    BY <1>2, ShownKept
<1> QED
    BY <1>1, <1>2, <1>3 DEF ShownInv, GaveUp

\* What every Execute that ends owes the buffers bound.
Ends == \A a \in bound' : aovs'[a].converged /\ ~GaveUp' =>
          /\ shown'.of = Framing' /\ samples' = TargetSamples
          /\ (a \in Guides => shown'.rendered = host'.extent) => aovs'[a].image = shown'

LEMMA ShownFinish == ASSUME BaseInv, ShownInv, Finish PROVE ShownInv' /\ Ends
<1>1. /\ framing = Framing /\ samples >= TargetSamples /\ bound = Aovs
      /\ UNCHANGED <<host, store, bound, samples, framing, shown>>
    BY DEF Finish, BaseInv, FramingInv, ShownInv
<1>2. samples > 0 /\ samples = TargetSamples
    BY <1>1, PassConstants DEF BaseInv, Types, ShownInv
<1>3. /\ shown.of = framing
      /\ \A a \in Aovs : (a \in Guides => shown.rendered = framing.extent) =>
                           aovs[a].image \in {None, shown}
    BY <1>2 DEF ShownInv
<1>4. Framing' = framing /\ framing.extent = host.extent
    BY <1>1 DEF Framing
<1>5. CASE shown # None /\ shown.of.extent = framing.extent
  <2>1. aovs' = Written(shown, TRUE, TRUE)
      BY <1>5 DEF Finish
  <2>2. \A a \in Aovs :
          aovs'[a].image = IF /\ aovs[a].image = None
                              /\ a \in Guides => shown.rendered = framing.extent
                           THEN shown ELSE aovs[a].image
      BY <1>1, <2>1 DEF Written
  <2>3. \A a \in Aovs : (a \in Guides => shown.rendered = framing.extent) => aovs'[a].image = shown
      BY <1>3, <2>2
  <2>4. aovs' = [a \in Aovs |-> [image |-> aovs'[a].image, converged |-> aovs'[a].converged]]
    <3>1. \A a \in Aovs : aovs'[a] = [image |-> aovs'[a].image, converged |-> aovs'[a].converged]
        BY <1>1, <2>1 DEF Written
    <3> QED
        BY <2>1, <3>1 DEF Written
  <2> QED
      BY <1>1, <1>2, <1>3, <1>4, <2>3, <2>4 DEF ShownInv, Ends
<1>6. CASE ~(shown # None /\ shown.of.extent = framing.extent)
  <2>1. shown = None
      BY <1>3, <1>6
  <2>2. aovs' = [a \in Aovs |-> IF a \in bound THEN [aovs[a] EXCEPT !.converged = TRUE] ELSE aovs[a]]
      BY <1>6 DEF Finish
  <2>3. /\ aovs' = [a \in Aovs |-> [image |-> aovs'[a].image, converged |-> aovs'[a].converged]]
        /\ \A a \in Aovs : aovs'[a].image = aovs[a].image
      BY <2>2, Marked
  <2>4. ShownInv'
      BY <1>1, <2>3, ShownKept
  <2> QED
      BY <1>1, <1>2, <1>3, <1>4, <2>1, <2>3, <2>4 DEF Ends
<1> QED
    BY <1>5, <1>6

LEMMA ShownTrace == ASSUME BaseInv, ShownInv, Trace PROVE ShownInv' /\ Ends
<1>1. /\ framing = Framing /\ bound = Aovs /\ UNCHANGED <<host, bound, framing>>
      /\ samples < TargetSamples /\ samples \in Nat /\ TargetSamples \in Nat
    BY PassConstants DEF Trace, BaseInv, FramingInv, ShownInv, Types
<1>2. CASE NoteFailure /\ UNCHANGED <<samples, shown>>
    BY <1>1, <1>2, FailureShown DEF Ends
<1>3. CASE Deliver /\ CommitHistory
  <2>1. /\ samples' = samples + Description.count
        /\ shown' = [of |-> framing, rendered |-> frame'.rendered, film |-> frame'.film]
        /\ converged' = (samples' >= TargetSamples)
        /\ aovs' = Written(shown', FALSE, converged')
      BY <1>3 DEF Deliver
  <2>2. samples' <= TargetSamples /\ samples' \in Nat
    <3>1. /\ Description.count \in Nat
          /\ Description.count <= TargetSamples - samples
      <4>1. SamplesPerFrame \in Nat
          BY PassConstants
      <4>2. Description.count = IF SamplesPerFrame < TargetSamples - samples THEN SamplesPerFrame
                                ELSE TargetSamples - samples
          BY DEF Description
      <4> QED
          BY <1>1, <4>1, <4>2
    <3> QED
        BY <1>1, <2>1, <3>1
  <2>3. \A a \in Aovs :
          /\ aovs'[a].converged = converged'
          /\ (a \in Guides => shown'.rendered = framing.extent) => aovs'[a].image = shown'
      BY <1>1, <2>1 DEF Written
  <2>4. aovs' = [a \in Aovs |-> [image |-> aovs'[a].image, converged |-> aovs'[a].converged]]
    <3>1. \A a \in Aovs : aovs'[a] = [image |-> aovs'[a].image, converged |-> aovs'[a].converged]
        BY <1>1, <2>1 DEF Written
    <3> QED
        BY <2>1, <3>1 DEF Written
  <2>5. shown'.of = framing
      BY <2>1
  <2>6. Framing' = Framing /\ framing.extent = host.extent
    <3>1. store'.revision = store.revision /\ store'.cullRevision = store.cullRevision
        BY <1>3 DEF CommitHistory, BaseInv, Types, Stores
    <3> QED
        BY <1>1, <3>1 DEF Framing
  <2>7. ShownInv'
      BY <1>1, <2>2, <2>3, <2>4, <2>5 DEF ShownInv
  <2>8. \A a \in bound' : aovs'[a].converged => samples' = TargetSamples
    <3>1. \A a \in bound' : aovs'[a].converged => converged'
        BY <1>1, <2>3, Zenon
    <3>2. converged' => samples' >= TargetSamples
        BY <2>1, Zenon
    <3>3. samples' >= TargetSamples => samples' = TargetSamples
        BY <1>1, <2>2
    <3> QED
        BY <3>1, <3>2, <3>3, Zenon
  <2>9. Framing' = framing /\ framing.extent = host'.extent
      BY <1>1, <2>6
  <2>10. Ends
      BY <1>1, <2>3, <2>5, <2>8, <2>9 DEF Ends
  <2> QED
      BY <2>7, <2>10
<1> QED
    BY <1>2, <1>3 DEF Trace

LEMMA ShownStep ==
  ASSUME "bind" \notin Edits, BaseInv, ShownInv, [Next]_vars
  PROVE  ShownInv' /\ [Returns => Ends]_vars
<1>1. CASE HostNext
    BY <1>1, ShownHost, HostMoves DEF BaseInv, Returns
<1>2. CASE Begin
  <2>1. /\ aovs' = [a \in Aovs |-> IF a \in bound THEN [aovs[a] EXCEPT !.converged = FALSE] ELSE aovs[a]]
        /\ UNCHANGED <<bound, shown>> /\ (samples' = 0 \/ UNCHANGED <<samples, framing>>)
        /\ phase = "idle"
      BY <1>2 DEF Begin
  <2>2. /\ aovs' = [a \in Aovs |-> [image |-> aovs'[a].image, converged |-> aovs'[a].converged]]
        /\ \A a \in Aovs : aovs'[a].image = aovs[a].image
      BY <2>1, Marked
  <2> QED
      BY <2>1, <2>2, ShownKept DEF Returns
<1>3. CASE Publish
  <2>1. UNCHANGED <<bound, samples, framing, shown>>
      BY <1>3 DEF Publish
  <2>2. CASE NoteFailure
      BY <2>1, <2>2, FailureShown DEF Ends
  <2>3. CASE phase' = "cull" /\ UNCHANGED aovs
      BY <2>1, <2>3 DEF ShownInv, Returns
  <2> QED
      BY <1>3, <2>2, <2>3 DEF Publish
<1>4. CASE UploadCullVolumes
  <2>1. UNCHANGED <<bound, samples, framing, shown>>
      BY <1>4 DEF UploadCullVolumes
  <2>2. CASE NoteFailure
      BY <2>1, <2>2, FailureShown DEF Ends
  <2>3. CASE phase' = "trace" /\ UNCHANGED aovs
      BY <2>1, <2>3 DEF ShownInv, Returns
  <2> QED
      BY <1>4, <2>2, <2>3 DEF UploadCullVolumes
<1>5. CASE AlreadyPublished \/ CullVolumesCurrent
    BY <1>5 DEF AlreadyPublished, CullVolumesCurrent, hostVars, ShownInv, Returns
<1>6. CASE UNCHANGED vars
    BY <1>6 DEF vars, hostVars, passVars, ShownInv
<1> QED
    BY <1>1, <1>2, <1>3, <1>4, <1>5, <1>6, ShownFinish, ShownTrace DEF Next, Execute

\* An Execute that reports a buffer converged, unless it gave up, leaves it with the
\* finished image of the framing the host has, if buffers stay bound.
THEOREM ConvergedIsFinished ==
  ASSUME "bind" \notin Edits
  PROVE  Spec => ConvergedIsCurrent
<1>1. Init => BaseInv /\ ShownInv
    BY BaseInit DEF Init, ShownInv, Empty
<1>2. BaseInv /\ ShownInv /\ [Next]_vars => (BaseInv /\ ShownInv)' /\ [Returns => Ends]_vars
    BY BaseStep, ShownStep
<1>3. [Returns => Ends]_vars =>
        [Returns => \A a \in bound' : aovs'[a].converged /\ ~GaveUp' =>
           /\ shown'.of = Framing' /\ samples' = TargetSamples
           /\ (a \in Guides => shown'.rendered = host'.extent) => aovs'[a].image = shown']_vars
    BY DEF Ends
<1> QED
    BY <1>1, <1>2, <1>3, PTL DEF Spec, ConvergedIsCurrent

-----------------------------------------------------------------------------
(* The viewport it implements.                                              *)

\* Marking a buffer leaves its image, with every buffer bound.
LEMMA MarkedIsMark ==
  ASSUME ShownInv, NEW c,
         aovs' = [a \in Aovs |-> IF a \in bound THEN [aovs[a] EXCEPT !.converged = c] ELSE aovs[a]]
  PROVE  Abstract!Mark(c)
<1>1. \A a \in Aovs : aovs[a] = [image |-> aovs[a].image, converged |-> aovs[a].converged]
    BY DEF ShownInv
<1>2. \A a \in Aovs : aovs'[a] = [image |-> aovs[a].image, converged |-> c]
    BY <1>1 DEF ShownInv
<1>3. aovs' = [a \in Aovs |-> aovs'[a]]
    OBVIOUS
<1>4. aovs' = [a \in Aovs |-> [image |-> aovs[a].image, converged |-> c]]
    BY <1>2, <1>3
<1> QED
    BY <1>4 DEF Abstract!Mark

LEMMA FailureIsFail ==
  ASSUME ShownInv, phase # "idle", NoteFailure, Framing' = Framing, UNCHANGED <<samples, shown>>
  PROVE  Abstract!Fail
<1>1. Abstract!Mark(failures' >= kMaxConsecutiveFailures)
    BY MarkedIsMark DEF NoteFailure, MarkConverged
<1>2. /\ failures' = IF failures < kMaxConsecutiveFailures THEN failures + 1 ELSE failures
      /\ phase' = "idle"
    BY DEF NoteFailure, Count
<1> QED
    BY <1>1, <1>2 DEF Abstract!Fail

\* During an Execute the framing asked for stays: the store moves only its history.
LEMMA AskedStays ==
  ASSUME BaseInv, Execute
  PROVE  Framing' = Framing
<1>1. UNCHANGED host
    BY DEF Execute, Begin, Publish, AlreadyPublished, UploadCullVolumes, CullVolumesCurrent,
           Finish, Trace, hostVars
<1>2. store'.revision = store.revision /\ store'.cullRevision = store.cullRevision
  <2>1. CASE UNCHANGED store
      BY <2>1
  <2>2. CASE store' = [store EXCEPT !.pending = store.revision] \/ CommitHistory
      BY <2>2 DEF CommitHistory, BaseInv, Types, Stores
  <2> QED
      BY <2>1, <2>2 DEF Execute, Begin, Publish, AlreadyPublished, UploadCullVolumes,
                        CullVolumesCurrent, Finish, Trace, hostVars
<1> QED
    BY <1>1, <1>2 DEF Framing

LEMMA HostAsks ==
  ASSUME "bind" \notin Edits, BaseInv, ShownInv, HostNext
  PROVE  Abstract!Ask
<1>1. phase = "idle" /\ UNCHANGED passVars
    BY HostMoves DEF BaseInv
<1>2. aovs = [a \in Aovs |-> aovs[a]]
    BY DEF ShownInv
<1>3. ASSUME NEW T \in SUBSET Aovs,
             aovs' = [a \in Aovs |-> IF a \in T THEN Abstract!Blank ELSE aovs[a]]
      PROVE  Abstract!Ask
    BY <1>1, <1>3 DEF Abstract!Ask, passVars
<1>4. CASE UNCHANGED aovs
  <2>1. PICK T \in SUBSET Aovs : T = {}
      OBVIOUS
  <2>2. aovs' = [a \in Aovs |-> IF a \in T THEN Abstract!Blank ELSE aovs[a]]
      BY <1>2, <1>4, <2>1
  <2> QED
      BY <1>3, <2>2
<1>5. CASE ResizeViewport
  <2>1. aovs' = [a \in Aovs |-> IF a \in Aovs THEN Abstract!Blank ELSE aovs[a]]
      BY <1>5 DEF ResizeViewport, Empty, Abstract!Blank
  <2> QED
      BY <1>3, <2>1
<1>6. CASE Reallocate
  <2>1. PICK b \in Aovs : aovs' = [aovs EXCEPT ![b] = Empty]
      BY <1>6 DEF Reallocate
  <2>2. aovs' = [a \in Aovs |-> IF a \in {b} THEN Abstract!Blank ELSE aovs[a]]
      BY <1>2, <2>1 DEF Empty, Abstract!Blank
  <2> QED
      BY <1>3, <2>2
<1> QED
    BY <1>4, <1>5, <1>6 DEF HostNext, Publication, MoveCullVolume, MoveCamera, Select, SetMode,
                            SetTextureQuality, Bind, Edit

LEMMA BeginIsStart ==
  ASSUME BaseInv, ShownInv, Begin
  PROVE  Abstract!Start
<1>1. Abstract!Mark(FALSE)
    BY MarkedIsMark DEF Begin
<1>2. /\ phase = "idle" /\ phase' # "idle"
      /\ UNCHANGED <<failures, shown>>
      /\ samples' = IF framing # Framing THEN 0 ELSE samples
    BY DEF Begin
<1>3. samples \in Nat /\ (samples > 0 => shown.of = framing)
    BY DEF BaseInv, Types, ShownInv
<1>4. samples' = IF samples > 0 /\ shown.of # Framing THEN 0 ELSE samples
    BY <1>2, <1>3
<1>5. Framing' = Framing
    BY AskedStays DEF Execute
<1> QED
    BY <1>1, <1>2, <1>4, <1>5 DEF Abstract!Start

LEMMA FinishIsComplete ==
  ASSUME BaseInv, ShownInv, Finish
  PROVE  Abstract!Complete
<1>1. /\ framing = Framing /\ bound = Aovs /\ phase = "trace" /\ phase' = "idle"
      /\ UNCHANGED <<shown, samples, failures>>
    BY DEF Finish, BaseInv, FramingInv, ShownInv
<1>2. samples > 0 /\ samples = TargetSamples
    BY PassConstants DEF Finish, BaseInv, Types, ShownInv
<1>3. shown.of = Framing
    BY <1>1, <1>2 DEF ShownInv
<1>4. aovs' = [a \in Aovs |->
                 [image     |-> IF aovs[a].image = None /\ Abstract!Fits(a, shown) THEN shown
                                ELSE aovs[a].image,
                  converged |-> TRUE]]
  <2>1. CASE shown # None /\ shown.of.extent = framing.extent
    <3>1. aovs' = Written(shown, TRUE, TRUE)
        BY <2>1 DEF Finish
    <3>2. \A a \in Aovs : Abstract!Fits(a, shown) <=> (a \in Guides => shown.rendered = framing.extent)
        BY <1>1 DEF Abstract!Fits
    <3> QED
        BY <1>1, <3>1, <3>2 DEF Written
  <2>2. CASE ~(shown # None /\ shown.of.extent = framing.extent)
    <3>1. shown = None
        BY <1>1, <1>3, <2>2
    <3>2. Abstract!Mark(TRUE)
        BY <2>2, MarkedIsMark DEF Finish
    <3> QED
        BY <3>1, <3>2 DEF Abstract!Mark
  <2> QED
      BY <2>1, <2>2
<1>5. Framing' = Framing
    BY AskedStays DEF Execute
<1> QED
    BY <1>1, <1>2, <1>3, <1>4, <1>5 DEF Abstract!Complete

LEMMA TraceIsShowOrFail ==
  ASSUME BaseInv, ShownInv, Trace
  PROVE  Abstract!Show \/ Abstract!Fail
<1>1. /\ framing = Framing /\ bound = Aovs /\ phase = "trace" /\ phase' = "idle"
      /\ samples < TargetSamples /\ samples \in Nat /\ TargetSamples \in Nat
      /\ SamplesPerFrame \in Nat \ {0}
    BY PassConstants DEF Trace, NoteFailure, Deliver, BaseInv, FramingInv, ShownInv, Types
<1>2. Framing' = Framing
    BY AskedStays DEF Execute
<1>3. CASE NoteFailure /\ UNCHANGED <<samples, shown>>
    BY <1>1, <1>2, <1>3, FailureIsFail
<1>4. CASE Deliver
  <2>1. Description.count = IF SamplesPerFrame < TargetSamples - samples THEN SamplesPerFrame
                            ELSE TargetSamples - samples
      BY DEF Description
  <2>2. samples' \in (samples + 1) .. TargetSamples
      BY <1>1, <1>4, <2>1 DEF Deliver
  <2>3. (samples' >= TargetSamples) = (samples' = TargetSamples)
      BY <1>1, <2>2
  <2>4. aovs' = Written(shown', FALSE, samples' = TargetSamples)
      BY <1>4, <2>3 DEF Deliver
  <2>5. aovs' = [a \in Aovs |->
                   [image     |-> IF Abstract!Fits(a, shown') THEN shown' ELSE aovs[a].image,
                    converged |-> samples' = TargetSamples]]
    <3>1. \A a \in Aovs : Abstract!Fits(a, shown') <=> (a \in Guides => shown'.rendered = framing.extent)
        BY <1>1 DEF Abstract!Fits
    <3> QED
        BY <1>1, <2>4, <3>1 DEF Written
  <2>6. shown'.of = Framing /\ failures' = 0
      BY <1>1, <1>4 DEF Deliver
  <2> QED
      BY <1>1, <1>2, <2>2, <2>5, <2>6 DEF Abstract!Show
<1> QED
    BY <1>3, <1>4 DEF Trace

\* Every step is one of the viewport's, or nothing it can see.
LEMMA StepIsViewport ==
  ASSUME "bind" \notin Edits, BaseInv, ShownInv, [Next]_vars
  PROVE  [Abstract!ViewportNext]_(Abstract!viewportVars)
<1> USE DEF Abstract!ViewportNext
<1>1. CASE HostNext
    BY <1>1, HostAsks
<1>2. CASE Begin
    BY <1>2, BeginIsStart
<1>3. ASSUME Publish \/ AlreadyPublished \/ UploadCullVolumes \/ CullVolumesCurrent
      PROVE  Abstract!Fail \/ UNCHANGED Abstract!viewportVars
  <2>1. Framing' = Framing /\ phase # "idle" /\ UNCHANGED <<samples, shown>>
      BY <1>3, AskedStays DEF Execute, Publish, AlreadyPublished, UploadCullVolumes,
                              CullVolumesCurrent
  <2>2. CASE NoteFailure
      BY <2>1, <2>2, FailureIsFail
  <2>3. CASE phase' # "idle" /\ UNCHANGED <<failures, aovs>>
      BY <2>1, <2>3 DEF Abstract!viewportVars
  <2> QED
      BY <1>3, <2>2, <2>3 DEF Publish, AlreadyPublished, UploadCullVolumes, CullVolumesCurrent,
                              hostVars
<1>4. CASE Finish
    BY <1>4, FinishIsComplete
<1>5. CASE Trace
    BY <1>5, TraceIsShowOrFail
<1>6. CASE UNCHANGED vars
    BY <1>6 DEF vars, hostVars, passVars, Framing, Abstract!viewportVars
<1> QED
    BY <1>1, <1>2, <1>3, <1>4, <1>5, <1>6 DEF Next, Execute

\* Whatever fails in a publication, an upload or a frame, however often, the host sees a
\* viewport: images of what it asks for, delivered to all buffers at once and counted, or
\* nothing, if its buffers stay bound (HdClaudeRenderPass::_Execute).
THEOREM ImplementsViewport ==
  ASSUME "bind" \notin Edits
  PROVE  Spec => ViewportSpec
<1>1. Init => BaseInv /\ ShownInv
    BY BaseInit DEF Init, ShownInv, Empty
<1>2. Init => Abstract!ViewportInit
    BY DEF Init, Empty, Abstract!ViewportInit, Abstract!Blank
<1>3. BaseInv /\ ShownInv /\ [Next]_vars =>
        (BaseInv /\ ShownInv)' /\ [Abstract!ViewportNext]_(Abstract!viewportVars)
    BY BaseStep, ShownStep, StepIsViewport
<1> QED
    BY <1>1, <1>2, <1>3, PTL DEF Spec, ViewportSpec, Abstract!ViewportSpec
================================================================================
