----------------------------- MODULE PathTracer -----------------------------
(***************************************************************************)
(* The path tracer's state between calls (src/gpu/path_tracer.cpp): what   *)
(* it holds of the published scene, the film, the two frame slots and      *)
(* their descriptor sets, what the next frame is compared with, and the    *)
(* history a reconstruction backend keeps.                                 *)
(*                                                                         *)
(* Any allocation or submit of a call can throw, and the call has no       *)
(* rollback: what was done before the throw stays done.  So each call      *)
(* takes the point at which it stops, and a step takes effect when it      *)
(* comes before that point.  Publications (contents) and cameras are       *)
(* opaque; the film is the set of estimates added to it.                   *)
(***************************************************************************)
EXTENDS Integers, Sequences, FiniteSets

CONSTANTS
  Modes,        \* "reference" and the interactive modes, one per model and quality
  RenderExtent, \* the extent a backend asks for in a mode, None if none reconstructs
  Interrupts,   \* stages a publication may stop after
  Faults,       \* steps a frame may stop at
  None

Slots == {0, 1}

\* SetScene replaces its resources in this order, and bumps the descriptor
\* generation after the last.
Stages == <<"kernels", "textures", "geometry", "instances", "links",
            "environment", "materials">>
Complete == Len(Stages)
StageOf(name) == CHOOSE k \in DOMAIN Stages : Stages[k] = name

\* A frame's throwing steps, in order; "none" is past the last.
Steps == <<"resize0", "resize1", "bind0", "bind1", "clear", "trace", "resolve",
           "advance", "reconstruct", "none">>
StepOf(name) == CHOOSE k \in DOMAIN Steps : Steps[k] = name
Done(step, fault) == StepOf(step) < StepOf(fault)

ASSUME TracerConstants ==
  /\ "reference" \in Modes
  /\ \A x \in DOMAIN RenderExtent["reference"] : RenderExtent["reference"][x] = None
  /\ Faults \subseteq {Steps[k] : k \in 1 .. (Len(Steps) - 1)}

VARIABLES
  scene,        \* the publication each stage's resources came from
  past,         \* the revision whose placements the instance table calls previous
  cull,         \* the cull table, and which of its volumes count as valid
  size,         \* _width, _height: the film's extent
  slotSize,     \* each slot's buffers' extent
  written,      \* slots whose descriptorGeneration is _resourceGeneration
  dangling,     \* slots whose sets name a resource replaced since
  film,         \* the estimates accumulated, and whether one counts twice
  slot,         \* _frameIndex % kFrameSlots
  previous,     \* _previousMode, _previousSceneRevision, _previousCamera
  previousPlan, \* _previousReconstructed and its model, preset and quality
  clip,         \* _previousWorldToClip
  backend,      \* what the backend's history holds
  built,        \* _reconstructionResolution, None unless _reconstructionBuilt
  frame,        \* the last BeginFrame's result, NoFrame if it threw
  seen,         \* auxiliary: what the last returned frame was of
  owed          \* auxiliary: whether a frame that threw took a reset of the
                \* backend with it, or moved the camera motion starts from

tracer == <<scene, past, cull, size, slotSize, written, dangling, film, slot,
            previous, previousPlan, clip, backend, built, frame, seen, owed>>

NoFilm == [estimates |-> {}, repeated |-> FALSE]
Uninitialised ==
  [estimates |-> {[scene |-> None, cull |-> None, camera |-> None, sample |-> None]},
   repeated |-> FALSE]
NoFrame == [returned |-> FALSE]

TracerInit ==
  /\ scene = [k \in DOMAIN Stages |-> None]
  /\ past = None
  /\ cull = [table |-> None, valid |-> None]
  /\ size = None
  /\ slotSize = [s \in Slots |-> None]
  /\ written = {}
  /\ dangling = {}
  /\ film = Uninitialised
  /\ slot = 0
  /\ previous = None
  /\ previousPlan = None
  /\ clip = None
  /\ backend = None
  /\ built = None
  /\ frame = NoFrame
  /\ seen = None
  /\ owed = FALSE

-----------------------------------------------------------------------------
(* Publication.                                                            *)

\* Mutant: a publication leaves the descriptor generation.
Bumped_never(completed) == written
Bumped(completed) == IF completed THEN {} ELSE written

\* SetScene of publication c with the placements of revision h as its history,
\* stopped after stage k.
SetScene(c, h, k) ==
  /\ scene' = [i \in DOMAIN Stages |-> IF i <= k THEN c ELSE scene[i]]
  /\ past' = IF k >= StageOf("instances")
               THEN (IF h = None THEN c.revision ELSE h) ELSE past
  /\ dangling' = IF k > 0 THEN Slots ELSE dangling
  /\ written' = Bumped(k = Complete)
  /\ UNCHANGED <<cull, size, slotSize, film, slot, previous, previousPlan, clip,
                 backend, built, frame, seen, owed>>

\* The valid mask is taken before the table is copied to the device.
SetCullVolumes(t, copied) ==
  /\ cull' = [table |-> IF copied THEN t ELSE cull.table, valid |-> t]
  /\ UNCHANGED <<scene, past, size, slotSize, written, dangling, film, slot,
                 previous, previousPlan, clip, backend, built, frame, seen, owed>>

-----------------------------------------------------------------------------
(* A frame.  d is the FrameDescription: camera, extent, mode, revision,    *)
(* first sample, sample count and whether the caller asks for a reset.     *)

Plan(d) == RenderExtent[d.mode][d.extent]
Active(d) == Plan(d) # None
Traced(d) == IF Active(d) THEN Plan(d) ELSE d.extent
PlanOf(d) == IF Active(d) THEN d.mode ELSE None
Interactive(mode) == mode # "reference"

Resized(d) == Traced(d) # size
ReconstructionChanged(d) == previous # None /\ PlanOf(d) # previousPlan

\* Mutant: a publication keeps the backend's history.
HistoryReset_ignoresRevision(d) ==
  \/ Resized(d)
  \/ previous # None /\ Interactive(d.mode) # Interactive(previous.mode)
  \/ ReconstructionChanged(d)
  \/ ~Interactive(d.mode) /\ d.reset

\* What a backend must discard its history for.
HistoryReset(d) ==
  \/ Resized(d)
  \/ previous # None /\ Interactive(d.mode) # Interactive(previous.mode)
  \/ previous # None /\ d.revision # previous.revision
  \/ ReconstructionChanged(d)
  \/ ~Interactive(d.mode) /\ d.reset

\* Mutant: the caller's reset is lost.
AccumulationReset_ignoresCaller(d) ==
  \/ HistoryReset(d) /\ ~d.reset
  \/ previous # None /\ d.camera # previous.camera
  \/ Interactive(d.mode)

\* What the film must restart for.
AccumulationReset(d) ==
  \/ HistoryReset(d)
  \/ previous # None /\ d.camera # previous.camera
  \/ Interactive(d.mode)
  \/ d.reset

\* The faults this frame can meet: a step that does nothing cannot throw.
Owner == (slot + 1) % 2
Stale(d) == Resized(d) \/ Owner \notin written
Meets(d, fault) ==
  CASE fault \in {"resize0", "resize1"} -> Resized(d)
    [] fault \in {"bind0", "bind1"}     -> Stale(d)
    [] fault = "clear"                  -> AccumulationReset(d)
    [] fault = "advance"                -> past # scene[StageOf("instances")].revision
    [] fault = "reconstruct"            -> Active(d)
    [] OTHER                            -> TRUE

\* EnsureResolution: each slot is swapped as it is built, the film and the
\* generation after both.
Resize(d, fault) ==
  LET swapped == IF Resized(d) THEN {s \in Slots : Done(<<"resize0", "resize1">>[s + 1], fault)}
                               ELSE {}
      whole == swapped = Slots
  IN /\ slotSize' = [s \in Slots |-> IF s \in swapped THEN Traced(d) ELSE slotSize[s]]
     /\ size' = IF whole THEN Traced(d) ELSE size
     /\ IF Stale(d) /\ Done("resize1", fault)
          THEN /\ written' = CASE fault = "bind0" -> {}
                               [] fault = "bind1" -> {0}
                               [] OTHER -> Slots
               /\ dangling' = {}
          ELSE /\ written' = written
               /\ dangling' = dangling \union swapped

\* The invalidation remembers this frame before it is traced.
Remember(d, fault) ==
  /\ previousPlan' = PlanOf(d)
  /\ previous' = IF Done("resize1", fault)
                   THEN [mode |-> d.mode, revision |-> d.revision, camera |-> d.camera]
                   ELSE previous

\* The estimates n samples of this frame make, of whatever the scene now is.
Estimates(d, n) ==
  {[scene |-> scene, cull |-> cull, camera |-> d.camera, sample |-> i] :
     i \in d.first .. (d.first + n - 1)}

Accumulate(d, fault, n) ==
  LET allocated == IF Resized(d) /\ Done("resize1", fault) THEN Uninitialised ELSE film
      started == IF AccumulationReset(d) /\ Done("clear", fault) THEN NoFilm ELSE allocated
      added == Estimates(d, n)
  IN film' = [estimates |-> started.estimates \union added,
              repeated |-> started.repeated \/ added \intersect started.estimates # {}]

\* Mutant: the placements stay where the publication put them.
Advance_cameraOnly(d, fault) ==
  /\ clip' = IF Done("resolve", fault) THEN d.camera ELSE clip
  /\ past' = past

\* This frame becomes the next one's past: its camera, then its placements.
Advance(d, fault) ==
  /\ clip' = IF Done("resolve", fault) THEN d.camera ELSE clip
  /\ past' = IF Done("advance", fault) THEN scene[StageOf("instances")].revision ELSE past

\* The backend is rebuilt for a new resolution, and a rebuilt one has no history.
Resolution(d) == <<d.mode, Traced(d), d.extent>>
Used(d) == IF HistoryReset(d) \/ built # Resolution(d) THEN None ELSE backend

Reconstruct(d, fault, declined) ==
  IF ~Active(d) \/ fault # "none" THEN UNCHANGED <<backend, built>>
  ELSE IF declined THEN built' = None /\ UNCHANGED backend
  ELSE /\ built' = Resolution(d)
       /\ backend' = [scene |-> scene, camera |-> d.camera]

\* A frame is compared with the one remembered, its plan before anything else, and
\* one that throws was remembered before its backend was told: what it should have
\* discarded is kept until some later frame discards it.
Owe(d, fault, declined) ==
  owed' = IF fault = "none"
            THEN owed /\ ~(Active(d) /\ ~declined /\ Used(d) = None)
            ELSE \/ owed
                 \/ ReconstructionChanged(d)
                 \/ Done("resize1", fault) /\ HistoryReset(d)
                 \/ Done("resolve", fault)

Result(d, declined) ==
  [returned      |-> TRUE,
   of            |-> d,
   scene         |-> scene,
   extent        |-> IF Active(d) /\ declined THEN Traced(d) ELSE d.extent,
   rendered      |-> Traced(d),
   film          |-> film',
   reconstructed |-> Active(d) /\ ~declined,
   history       |-> IF Active(d) /\ ~declined THEN Used(d) ELSE None,
   movedFrom     |-> [camera   |-> IF clip = None THEN d.camera ELSE clip,
                      revision |-> past],
   since         |-> seen,
   owed          |-> owed,
   live          |-> /\ Owner \in written' \ dangling'
                     /\ slotSize'[Owner] = size']

\* BeginFrame and EndFrame, stopped at fault after n of the frame's samples.
Frame(d, fault, n, declined) ==
  /\ Meets(d, fault)
  /\ declined => Active(d)
  /\ n = IF Done("trace", fault) THEN d.count ELSE n
  /\ ~Done("clear", fault) => n = 0
  /\ fault = "trace" => n < d.count
  /\ slot' = Owner
  /\ Resize(d, fault)
  /\ Remember(d, fault)
  /\ Accumulate(d, fault, n)
  /\ Advance(d, fault)
  /\ Reconstruct(d, fault, declined)
  /\ Owe(d, fault, declined)
  /\ frame' = IF fault = "none" THEN Result(d, declined) ELSE NoFrame
  /\ seen' = IF fault = "none" THEN [camera |-> d.camera, revision |-> d.revision] ELSE seen
  /\ UNCHANGED <<scene, cull>>

FrameOutcome(d) ==
  \E fault \in Faults \union {"none"}, n \in 0 .. d.count, declined \in BOOLEAN :
    Frame(d, fault, n, declined)

-----------------------------------------------------------------------------
(* Properties of a returned frame.                                         *)

\* Whatever stopped before it, a frame is traced with sets that name resources
\* still alive, and buffers of the film's extent.
TracesLiveResources == frame.returned => frame.live

\* Motion is measured from the last frame that was returned: camera and
\* placements both, whatever publications and failures came between.
MotionFromLastFrame ==
  frame.returned /\ frame.since # None => frame.movedFrom = frame.since

\* A backend that keeps its history was left with an image of this revision of
\* the scene, in each of its stages, from the camera the motion vectors point
\* back to, unless a frame that threw lost the reset.  Not of this scene: what
\* is drawn of a revision, and its texture quality, the renderer does not compare.
BackendHistoryMatches ==
  frame.returned /\ frame.history # None /\ ~frame.owed =>
    /\ \A k \in DOMAIN Stages : frame.history.scene[k].revision = frame.scene[k].revision
    /\ frame.history.camera = frame.movedFrom.camera
=============================================================================
