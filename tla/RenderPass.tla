----------------------------- MODULE RenderPass -----------------------------
(***************************************************************************)
(* HdClaudeRenderPass::_Execute over the path tracer: the framing that     *)
(* restarts the film, the scene and cull volume uploads and the versions   *)
(* kept of them, the retries, and the AOVs a host reads.                   *)
(*                                                                         *)
(* An Execute is Begin, Publish, UploadCullVolumes, then Finish or Trace;  *)
(* a failure ends it early.  The host edits the stage and the bindings     *)
(* between Executes, which is when Hydra syncs.                            *)
(***************************************************************************)
EXTENDS PathTracer

CONSTANTS
  Cameras, Extents, Selections, Qualities,
  Aovs,            \* the host's render buffers
  Guides,          \* those in the traced grid, written only at its extent
  Edits,           \* the kinds of edit this instance's host makes
  TargetSamples,   \* samplesPerPixel
  SamplesPerFrame,
  MaxEdits,        \* a bound: the host stops editing
  UploadFaults     \* whether a cull volume upload may fail

kMaxConsecutiveFailures == 3

ASSUME PassConstants ==
  /\ TargetSamples \in Nat \ {0} /\ SamplesPerFrame \in Nat \ {0}
  /\ MaxEdits \in Nat
  /\ Cameras # {} /\ Extents # {} /\ Selections # {} /\ Qualities # {}
  /\ Extents \subseteq DOMAIN RenderExtent["reference"]
  /\ None \notin Nat \union Cameras \union Modes
  /\ None \notin [mode : Modes, revision : Nat, camera : Cameras]
  /\ \A m \in Modes, x \in Extents : None # <<m, RenderExtent[m][x], x>>
  /\ Guides \subseteq Aovs

VARIABLES
  host,         \* camera, extent, mode, selection, texture quality, settings version
  store,        \* the scene store's revision, cullRevision and committed history
  pool,         \* the texture pool's quality
  aovs,         \* per buffer: the image it holds and IsConverged
  bound,        \* the buffers bound
  edits,        \* edits made
  phase,        \* where Execute is
  framing,      \* _framing, None before the first Execute
  uploaded,     \* _hasUploaded, _uploadedRevision, _uploadedSelection
  uploadedCull, \* _uploadedCullRevision
  samples,      \* _samplesCompleted
  failures,     \* _consecutiveFailures, counted up to its limit
  converged,    \* _converged
  shown         \* _shown, None before the first frame

hostVars == <<host, store, pool, aovs, bound, edits>>
passVars == <<phase, framing, uploaded, uploadedCull, samples, failures,
              converged, shown>>
vars == <<hostVars, passVars, tracer>>

Empty == [image |-> None, converged |-> FALSE]
SomeOf(S) == CHOOSE x \in S : TRUE

Init ==
  /\ TracerInit
  /\ host = [camera |-> SomeOf(Cameras), extent |-> SomeOf(Extents), mode |-> "reference",
             selection |-> SomeOf(Selections), quality |-> SomeOf(Qualities), version |-> 1]
  /\ store = [revision |-> 1, cullRevision |-> 1, previous |-> None, pending |-> None]
  /\ pool = SomeOf(Qualities)
  /\ aovs = [a \in Aovs |-> Empty]
  /\ bound = Aovs
  /\ edits = 0
  /\ phase = "idle"
  /\ framing = None
  /\ uploaded = [valid |-> FALSE, revision |-> 0, selection |-> None]
  /\ uploadedCull = 0
  /\ samples = 0
  /\ failures = 0
  /\ converged = FALSE
  /\ shown = None

-----------------------------------------------------------------------------
(* The host, between Executes.                                             *)

Edit(kind) ==
  /\ phase = "idle" /\ kind \in Edits
  /\ edits < MaxEdits /\ edits' = edits + 1
  /\ UNCHANGED <<pool, passVars, tracer>>

Publication == /\ Edit("scene")
               /\ store' = [store EXCEPT !.revision = @ + 1]
               /\ UNCHANGED <<host, aovs, bound>>

MoveCullVolume == /\ Edit("cull")
                  /\ store' = [store EXCEPT !.cullRevision = @ + 1]
                  /\ UNCHANGED <<host, aovs, bound>>

MoveCamera == /\ Edit("camera")
              /\ \E c \in Cameras \ {host.camera} : host' = [host EXCEPT !.camera = c]
              /\ UNCHANGED <<store, aovs, bound>>

\* A resize reallocates every buffer.
ResizeViewport == /\ Edit("extent")
                  /\ \E x \in Extents \ {host.extent} : host' = [host EXCEPT !.extent = x]
                  /\ aovs' = [a \in Aovs |-> Empty]
                  /\ UNCHANGED <<store, bound>>

Select == /\ Edit("selection")
          /\ \E s \in Selections \ {host.selection} : host' = [host EXCEPT !.selection = s]
          /\ UNCHANGED <<store, aovs, bound>>

\* A changed setting is a new settings version, back and forth included.
SetMode == /\ Edit("mode")
           /\ \E m \in Modes \ {host.mode} :
                host' = [host EXCEPT !.mode = m, !.version = @ + 1]
           /\ UNCHANGED <<store, aovs, bound>>

SetTextureQuality == /\ Edit("quality")
                     /\ \E q \in Qualities \ {host.quality} :
                          host' = [host EXCEPT !.quality = q, !.version = @ + 1]
                     /\ UNCHANGED <<store, aovs, bound>>

\* A buffer bound again holds what it held; a reallocated one holds nothing.
Bind == /\ Edit("bind")
        /\ \E B \in SUBSET Aovs \ {{}, bound} : bound' = B
        /\ UNCHANGED <<host, store, aovs>>

Reallocate == /\ Edit("allocate")
              /\ \E a \in Aovs : aovs' = [aovs EXCEPT ![a] = Empty]
              /\ UNCHANGED <<host, store, bound>>

HostNext == \/ Publication \/ MoveCullVolume \/ MoveCamera \/ ResizeViewport \/ Select
            \/ SetMode \/ SetTextureQuality \/ Bind \/ Reallocate

-----------------------------------------------------------------------------
(* Execute.                                                                *)

\* Everything whose change restarts the film.
Framing == [camera |-> host.camera, extent |-> host.extent, mode |-> host.mode,
            revision |-> store.revision, cullRevision |-> store.cullRevision,
            version |-> host.version, selection |-> host.selection]

MarkConverged(c) ==
  /\ converged' = c
  /\ aovs' = [a \in Aovs |-> IF a \in bound THEN [aovs[a] EXCEPT !.converged = c] ELSE aovs[a]]

\* Mutant: the limit is never reached.
Count_short(n) == IF n < kMaxConsecutiveFailures - 1 THEN n + 1 ELSE n
Count(n) == IF n < kMaxConsecutiveFailures THEN n + 1 ELSE n

\* A failure is retried a bounded number of times, then reported converged.
NoteFailure ==
  /\ failures' = Count(failures)
  /\ MarkConverged(failures' >= kMaxConsecutiveFailures)
  /\ phase' = "idle"

\* Mutant: a changed selection does not restart the film.
Begin_ignoresSelection ==
  /\ phase = "idle"
  /\ phase' = "publish"
  /\ aovs' = [a \in Aovs |-> IF a \in bound THEN [aovs[a] EXCEPT !.converged = FALSE] ELSE aovs[a]]
  /\ pool' = host.quality
  /\ uploaded' = IF pool # host.quality THEN [uploaded EXCEPT !.valid = FALSE] ELSE uploaded
  /\ framing' = Framing
  /\ IF framing = None \/ Framing # [framing EXCEPT !.selection = host.selection]
       THEN samples' = 0
       ELSE UNCHANGED samples
  /\ UNCHANGED <<host, store, bound, edits, uploadedCull, failures, converged, shown, tracer>>

Begin ==
  /\ phase = "idle"
  /\ phase' = "publish"
  /\ aovs' = [a \in Aovs |-> IF a \in bound THEN [aovs[a] EXCEPT !.converged = FALSE] ELSE aovs[a]]
  /\ pool' = host.quality
  /\ uploaded' = IF pool # host.quality THEN [uploaded EXCEPT !.valid = FALSE] ELSE uploaded
  /\ framing' = Framing
  /\ IF framing # Framing THEN samples' = 0
                          ELSE UNCHANGED samples
  /\ UNCHANGED <<host, store, bound, edits, uploadedCull, failures, converged, shown, tracer>>

IsUploaded == /\ uploaded.valid
              /\ uploaded.revision = framing.revision
              /\ uploaded.selection = framing.selection

\* Snapshot, then SetScene.  The versions move only once it returned.
Content == [revision |-> store.revision, selection |-> host.selection, quality |-> pool]

Publish ==
  /\ phase = "publish" /\ ~IsUploaded
  /\ store' = [store EXCEPT !.pending = store.revision]
  /\ \E k \in Interrupts \union {Complete} :
       /\ SetScene(Content, store.previous, k)
       /\ IF k = Complete
            THEN /\ uploaded' = [valid |-> TRUE, revision |-> framing.revision,
                                 selection |-> framing.selection]
                 /\ uploadedCull' = 0
                 /\ phase' = "cull"
                 /\ UNCHANGED <<failures, converged, aovs>>
            ELSE NoteFailure /\ UNCHANGED <<uploaded, uploadedCull>>
  /\ UNCHANGED <<host, pool, bound, edits, framing, samples, shown>>

AlreadyPublished ==
  /\ phase = "publish" /\ IsUploaded
  /\ phase' = "cull"
  /\ UNCHANGED <<hostVars, framing, uploaded, uploadedCull, samples, failures,
                 converged, shown, tracer>>

\* The table is numbered by the selection and the scene it is uploaded under.
CullTable == [cullRevision |-> store.cullRevision, selection |-> host.selection]

UploadCullVolumes ==
  /\ phase = "cull" /\ uploadedCull # framing.cullRevision
  /\ \E copied \in {TRUE} \union (IF UploadFaults THEN {FALSE} ELSE {}) :
       /\ SetCullVolumes(CullTable, copied)
       /\ IF copied
            THEN /\ uploadedCull' = framing.cullRevision
                 /\ phase' = "trace"
                 /\ UNCHANGED <<failures, converged, aovs>>
            ELSE NoteFailure /\ UNCHANGED uploadedCull
  /\ UNCHANGED <<host, store, pool, bound, edits, framing, uploaded, samples, shown>>

CullVolumesCurrent ==
  /\ phase = "cull" /\ uploadedCull = framing.cullRevision
  /\ phase' = "trace"
  /\ UNCHANGED <<hostVars, framing, uploaded, uploadedCull, samples, failures,
                 converged, shown, tracer>>

\* Mutant: a guide is written at whatever extent the frame was traced.
Written_everyGuide(image, onlyEmpty, c) ==
  [a \in Aovs |->
     IF a \notin bound THEN aovs[a]
     ELSE [image |-> IF onlyEmpty => aovs[a].image = None THEN image ELSE aovs[a].image,
           converged |-> c]]

\* WriteFrame: a guide is withheld when the frame was traced at another extent.
Written(image, onlyEmpty, c) ==
  [a \in Aovs |->
     IF a \notin bound THEN aovs[a]
     ELSE [image |-> IF /\ onlyEmpty => aovs[a].image = None
                        /\ a \in Guides => image.rendered = framing.extent
                       THEN image ELSE aovs[a].image,
           converged |-> c]]

\* Nothing left to trace, but a buffer bound or reallocated since is given the frame.
Finish ==
  /\ phase = "trace" /\ samples >= TargetSamples
  /\ aovs' = IF shown # None /\ shown.of.extent = framing.extent
               THEN Written(shown, TRUE, TRUE)
               ELSE [a \in Aovs |-> IF a \in bound THEN [aovs[a] EXCEPT !.converged = TRUE]
                                    ELSE aovs[a]]
  /\ converged' = TRUE
  /\ phase' = "idle"
  /\ UNCHANGED <<host, store, pool, bound, edits, framing, uploaded, uploadedCull,
                 samples, failures, shown, tracer>>

\* Mutant: each frame's samples are numbered from zero.
Description_renumbered ==
  [camera |-> framing.camera, extent |-> framing.extent, mode |-> framing.mode,
   revision |-> framing.revision, first |-> 0,
   count |-> IF SamplesPerFrame < TargetSamples - samples THEN SamplesPerFrame
             ELSE TargetSamples - samples,
   reset |-> samples = 0]

Description ==
  [camera |-> framing.camera, extent |-> framing.extent, mode |-> framing.mode,
   revision |-> framing.revision, first |-> samples,
   count |-> IF SamplesPerFrame < TargetSamples - samples THEN SamplesPerFrame
             ELSE TargetSamples - samples,
   reset |-> samples = 0]

\* CommitHistory: the last snapshot's placements are the next one's past.
CommitHistory ==
  store' = IF store.pending = None THEN store
           ELSE [store EXCEPT !.previous = store.pending, !.pending = None]

Deliver ==
  /\ failures' = 0
  /\ samples' = samples + Description.count
  /\ shown' = [of |-> framing, rendered |-> frame'.rendered, film |-> frame'.film]
  /\ converged' = (samples' >= TargetSamples)
  /\ aovs' = Written(shown', FALSE, converged')
  /\ phase' = "idle"

Trace ==
  /\ phase = "trace" /\ samples < TargetSamples
  /\ FrameOutcome(Description)
  /\ IF ~frame'.returned
       THEN NoteFailure /\ UNCHANGED <<store, samples, shown>>
       ELSE /\ CommitHistory
            /\ IF frame'.extent # framing.extent
                 THEN NoteFailure /\ UNCHANGED <<samples, shown>>
                 ELSE Deliver
  /\ UNCHANGED <<host, pool, bound, edits, framing, uploaded, uploadedCull>>

Execute == Begin \/ Publish \/ AlreadyPublished \/ UploadCullVolumes
             \/ CullVolumesCurrent \/ Finish \/ Trace

Next == HostNext \/ Execute

Spec == Init /\ [][Next]_vars

\* A viewer keeps calling Execute; nothing makes it edit.
FairSpec == Spec /\ WF_vars(Execute)

-----------------------------------------------------------------------------
(* What it implements, for a host that keeps its buffers bound.            *)

Abstract == INSTANCE Viewport WITH
  Buffers <- Aovs, Target <- TargetSamples, Limit <- kMaxConsecutiveFailures,
  asked <- Framing, working <- phase # "idle", buffers <- aovs, latest <- shown,
  count <- samples

\* To the host the pass is a viewport: an image of what it asks for comes to all its buffers
\* at once, with its samples counted, and what fails on the way delivers and counts nothing.
\* (What an image holds is ShownIsOneFraming's and FilmHoldsWhatWasCounted's.)
ViewportSpec == Abstract!ViewportSpec

-----------------------------------------------------------------------------
(* Properties.                                                             *)

GaveUp == failures >= kMaxConsecutiveFailures

\* The estimates a whole image of framing f is made of, n samples in.
WholeScene(f, q) ==
  [k \in DOMAIN Stages |-> [revision |-> f.revision, selection |-> f.selection, quality |-> q]]
WholeCull(f) ==
  LET t == [cullRevision |-> f.cullRevision, selection |-> f.selection] IN [table |-> t, valid |-> t]

IsEstimateOf(e, f, q) ==
  e.scene = WholeScene(f, q) /\ e.cull = WholeCull(f) /\ e.camera = f.camera

\* An image shown is one integral: every estimate in it is of the one framing,
\* of a whole publication and its own cull table, whatever failed before.
ShownIsOneFraming ==
  shown # None => \E q \in Qualities :
                    \A e \in shown.film.estimates : IsEstimateOf(e, shown.of, q)

\* The count the pass keeps of a reference film is what the image shown holds: each
\* sample below it once, and all of this framing.
FilmHoldsWhatWasCounted ==
  samples > 0 /\ framing.mode = "reference" =>
    /\ shown.of = framing
    /\ {e.sample : e \in shown.film.estimates} = 0 .. (samples - 1)
    /\ ~shown.film.repeated

\* An Execute ends.
Returns == phase # "idle" /\ phase' = "idle"

\* Converged means done: unless it gave up, an Execute that reports convergence
\* leaves every buffer bound, guides withheld aside, with the finished image of
\* the framing the host has.
ConvergedIsCurrent ==
  [][Returns => \A a \in bound' : aovs'[a].converged /\ ~GaveUp' =>
       /\ shown'.of = Framing' /\ samples' = TargetSamples
       /\ (a \in Guides => shown'.rendered = host'.extent) => aovs'[a].image = shown']_vars

\* The pass is left converged for good once the host stops editing, whatever
\* fails and however often.
Converges == <>[]converged
=============================================================================
