---------------------------- MODULE Reconstruction ----------------------------
(* How a frame is handed to a reconstruction backend: the tracer's plan, its   *)
(* images and its record of what was built, and NgxBackend's feature, parameter *)
(* block and history.  The NGX runtime, the driver and the compiler answer as   *)
(* they like; Faults names the answers a run allows.  BeginFrame runs on one    *)
(* thread and waits for what it submits, so a frame is four steps in order.     *)
EXTENDS Naturals, Sequences

CONSTANTS
  None,
  Outputs,    \* output extents a host asks for
  Settings,   \* [interactive, reconstruct, model, quality, preset, autoExposure]
  Revisions,  \* scene revisions a frame can be of
  Faults      \* subset of AllFaults

AllFaults == {"create", "sizing", "trace", "kernel", "pipeline", "set", "format", "image", "resize",
              "submit", "evaluate"}
ASSUME FaultsAssumption == Faults \subseteq AllFaults

VARIABLES
  runtime,     \* NGX is initialised on the device
  attempted,   \* CreateNgxBackend was called
  backend,     \* and answered with one
  parameters,  \* the NGX parameter block: a preset for each model and quality
  feature,     \* what NGX built: its resolution, the preset it read, its history
  restart,     \* NgxBackend's _reset
  kernels,     \* the input kernels that have a pipeline
  sets,        \* those whose descriptor set was allocated
  images,      \* the extent each image was created with
  dangling,    \* images replaced since the descriptor sets were written
  resolution,  \* the resolution the tracer recorded, None if _reconstructionBuilt is false
  size,        \* the extent the tracer's own buffers have
  previous,    \* what the last frame was of
  call,        \* the frame being begun, None between frames
  frame,       \* the frame returned last
  lost         \* what an interruption left behind: "resources", "reset" (history), "set"

ngx == <<runtime, parameters, feature, restart>>
owned == <<kernels, sets, images, dangling, resolution>>
vars == <<runtime, attempted, backend, parameters, feature, restart, kernels, sets,
          images, dangling, resolution, size, previous, call, frame, lost>>

Models == {s.model : s \in Settings}
Qualities == {s.quality : s \in Settings}
Kernels == <<"reconstruct_inputs", "reconstruct_exposure">>
Descriptions == [output : Outputs, settings : Settings, revision : Revisions]

\* The extent the model's own callback names for an output at a quality.
ExtentOf(quality, output) == [scale |-> quality, of |-> output]
Native(output) == ExtentOf("native", output)

\* The images in the order they are created, and the extent each follows: the
\* inputs (colour, depth, motion and guides), the output and its readback, the
\* luminance partials, the exposure and its readback.
Order == <<"inputs", "output", "luminance", "exposure">>
Image == {Order[i] : i \in DOMAIN Order}
Sized(image, r) == CASE image = "output" -> Native(r.output)
                     [] image = "exposure" -> Native(None)
                     [] OTHER -> r.render
\* Those a descriptor set names.
Named == Image \ {"output"}

\* The preset NGX is given: Ray Reconstruction has no convolutional model.
Hint(model, preset) ==
  IF model = "rayReconstruction" /\ preset = "stable" THEN "default" ELSE preset

\* The parameter a resolution's preset is read from: each model has one per quality.
Key(r) == <<r.model, r.quality>>

\* PlanReconstruction: the resolution of a frame a backend takes.  The exposure
\* of a resolution is left at Measured whatever the settings say.
PlanFor(d, render) ==
  [render |-> render, output |-> d.output,
   model |-> d.settings.model, quality |-> d.settings.quality,
   preset |-> d.settings.preset, exposure |-> "measured"]

\* What the variables hold, None aside: no record is None.
Planned(d) == PlanFor(d, ExtentOf(d.settings.quality, d.output))
Plans == {Planned(d) : d \in Descriptions}
Presets == {s.preset : s \in Settings} \union {"default"}
Features == [of : Plans, preset : Presets, history : Descriptions \union {None}]
Begun == [of : Descriptions, plan : Plans \union {None}]
Calls == [at : {"trace", "ensure", "build", "evaluate"}, of : Descriptions,
          plan : Plans \union {None}, after : Begun \union {None}, reset : BOOLEAN]

ASSUME NoneAssumption == None \notin Plans \union Features \union Begun \union Calls

ReconstructionInit ==
  /\ runtime = FALSE
  /\ attempted = FALSE
  /\ backend = FALSE
  /\ parameters = [k \in Models \X Qualities |-> "default"]
  /\ feature = None
  /\ restart = TRUE
  /\ kernels = {}
  /\ sets = {}
  /\ images = [i \in Image |-> None]
  /\ dangling = {}
  /\ resolution = None
  /\ size = None
  /\ previous = None
  /\ call = None
  /\ frame = None
  /\ lost = {}

-----------------------------------------------------------------------------
(* The plan.                                                                *)

Wants(d) == d.settings.interactive /\ d.settings.reconstruct

Answers == {"live", "vendor", "init", "capabilities", "unavailable"}

\* CreateNgxBackend, asked once: every answer but the first leaves NGX down.
Create(answer) ==
  /\ answer # "live" => "create" \in Faults
  /\ attempted' = TRUE
  /\ backend' = (answer = "live")
  /\ runtime' = (answer = "live")

\* Mutant: a backend that comes back is not a change.
PlanChanged_whileOn(plan) ==
  /\ plan # None /\ previous.plan # None
  /\ <<plan.model, plan.preset, plan.quality>>
       # <<previous.plan.model, previous.plan.preset, previous.plan.quality>>

\* A backend that turned on or off, or another model, preset or quality.
PlanChanged(plan) ==
  IF plan = None THEN previous.plan # None
  ELSE \/ previous.plan = None
       \/ <<plan.model, plan.preset, plan.quality>>
            # <<previous.plan.model, previous.plan.preset, previous.plan.quality>>

\* QuerySizing: the extent to render at, or None where NGX will not name one.
Sizing(s, output) ==
  {ExtentOf(s.quality, output)} \union (IF "sizing" \in Faults THEN {None} ELSE {})

HistoryReset(d, plan, traced) ==
  \/ traced # size
  \/ previous # None /\ \/ d.settings.interactive # previous.of.settings.interactive
                        \/ d.revision # previous.of.revision
                        \/ PlanChanged(plan)

\* What the tracer remembers before it traces, and what it then has to do.
Started(d, plan) ==
  LET traced == IF plan = None THEN Native(d.output) ELSE plan.render
  IN /\ size' = traced
     /\ previous' = [of |-> d, plan |-> plan]
     /\ call' = [at |-> "trace", of |-> d, plan |-> plan, after |-> previous,
                 reset |-> HistoryReset(d, plan, traced)]
     /\ frame' = None

\* BeginFrame, up to the trace.
Begin(d) ==
  /\ call = None
  /\ \/ /\ ~Wants(d)
        /\ Started(d, None)
        /\ UNCHANGED <<attempted, backend, runtime>>
     \/ /\ Wants(d)
        /\ IF attempted THEN UNCHANGED <<attempted, backend, runtime>>
           ELSE \E answer \in Answers : Create(answer)
        /\ \E render \in Sizing(d.settings, d.output) :
             Started(d, IF backend' /\ render # None THEN PlanFor(d, render) ELSE None)
  /\ UNCHANGED <<parameters, feature, restart, owned, lost>>

\* An exception leaves BeginFrame; what the frame was to reset is forgotten.
Throw(what) ==
  /\ call' = None
  /\ frame' = None
  /\ lost' = lost \union what

\* The frame as it was traced: what a declined reconstruction leaves.
Declined(plan) ==
  /\ call' = None
  /\ frame' = [of |-> call.of, extent |-> plan.render, reconstructed |-> FALSE]
  /\ UNCHANGED lost

Trace ==
  /\ call # None /\ call.at = "trace"
  /\ \/ "trace" \in Faults /\ Throw({"reset"})
     \/ /\ call.plan = None
        /\ call' = None
        /\ frame' = [of |-> call.of, extent |-> Native(call.of.output),
                     reconstructed |-> FALSE]
        /\ UNCHANGED lost
     \/ /\ call.plan # None
        /\ call' = [call EXCEPT !.at = "ensure"]
        /\ UNCHANGED <<frame, lost>>
  /\ UNCHANGED <<ngx, attempted, backend, owned, size, previous>>

-----------------------------------------------------------------------------
(* EnsureReconstructionImages.                                              *)

\* Whether what was built will do; the exposure is not compared.
Unchanged(r) ==
  resolution # None /\ [resolution EXCEPT !.exposure = r.exposure] = r

\* The first n images are replaced; only when all are, the sets are written.
Replace(r, n) ==
  LET replaced == {Order[i] : i \in 1 .. n}
  IN /\ images' = [i \in Image |-> IF i \in replaced THEN Sized(i, r) ELSE images[i]]
     /\ dangling' = IF n = Len(Order) THEN {} ELSE dangling \union (replaced \intersect Named)

Compiled(n) == {Kernels[i] : i \in 1 .. n}
Missing(n) == Kernels[n] \notin kernels

\* The first n kernels have a pipeline, and a set comes with each made now.
Prepare(n) ==
  /\ kernels' = kernels \union Compiled(n)
  /\ sets' = sets \union (Compiled(n) \ kernels)

\* The n-th does not compile, or its pipeline cannot be created.
FailKernel(n) ==
  /\ Missing(n)
  /\ Prepare(n - 1)
  /\ \/ "kernel" \in Faults /\ Declined(call.plan)
     \/ "pipeline" \in Faults /\ Throw({"reset"})

\* Its pipeline is assigned when AllocateSet throws: the kernel is Valid from then on,
\* and no later frame allocates the set it has not.  What writing and dispatching that
\* null set does is undefined; the model goes on as if it did nothing else.
FailSet(n) ==
  /\ "set" \in Faults /\ Missing(n)
  /\ kernels' = kernels \union Compiled(n)
  /\ sets' = sets \union (Compiled(n - 1) \ kernels)
  /\ Throw({"set", "reset"})

\* A format the device does not store to.
FailFormat == "format" \in Faults /\ Prepare(Len(Kernels)) /\ Declined(call.plan)

\* Every step before the backend's own build: kernels, formats, images, sets.
Ensure ==
  LET r == call.plan IN
  /\ call # None /\ call.at = "ensure"
  /\ \/ /\ Unchanged(r)
        /\ call' = [call EXCEPT !.at = "evaluate"]
        /\ UNCHANGED <<owned, frame, lost>>
     \/ /\ ~Unchanged(r)
        /\ \/ \E n \in DOMAIN Kernels : FailKernel(n) \/ FailSet(n)
           \/ FailFormat
        /\ UNCHANGED <<images, dangling, resolution>>
     \/ /\ ~Unchanged(r)
        /\ Prepare(Len(Kernels))
        /\ \E n \in 0 .. Len(Order) :
             /\ n < Len(Order) => "image" \in Faults
             /\ Replace(r, n)
             /\ IF n < Len(Order) THEN Throw({"resources", "reset"})
                ELSE call' = [call EXCEPT !.at = "build"] /\ UNCHANGED <<frame, lost>>
        /\ UNCHANGED resolution
  /\ UNCHANGED <<ngx, attempted, backend, size, previous>>

\* Resize, or BuildRayReconstruction: the preset is left in the block, which
\* outlives the feature, and the feature is created from the block.
Built(r) ==
  /\ parameters' = [parameters EXCEPT ![Key(r)] = Hint(r.model, r.preset)]
  /\ feature' = [of |-> r, preset |-> parameters'[Key(r)], history |-> None]
  /\ restart' = TRUE

\* Resize declined: the previous feature is released first.
NotBuilt(r) ==
  /\ parameters' = [parameters EXCEPT ![Key(r)] = Hint(r.model, r.preset)]
  /\ feature' = None
  /\ UNCHANGED restart

\* Mutant: a failed build is still recorded.
Unrecorded_kept == resolution

Unrecorded == None

Build ==
  LET r == call.plan
      submitFails == "submit" \in Faults /\ Throw({"resources", "reset"})
  IN
  /\ call # None /\ call.at = "build"
  /\ \/ submitFails /\ UNCHANGED <<parameters, feature, restart, resolution>>
     \/ submitFails /\ (Built(r) \/ NotBuilt(r)) /\ UNCHANGED resolution
     \/ "resize" \in Faults /\ NotBuilt(r) /\ resolution' = Unrecorded /\ Declined(r)
     \/ /\ Built(r)
        /\ resolution' = r
        /\ call' = [call EXCEPT !.at = "evaluate"]
        /\ lost' = lost \ {"resources"}
        /\ UNCHANGED frame
  /\ UNCHANGED <<runtime, attempted, backend, kernels, sets, images, dangling, size, previous>>

-----------------------------------------------------------------------------
(* Reconstruct: the evaluation is recorded, submitted and read back.        *)

Restarts == call.reset \/ restart

\* Evaluate succeeded: the backend is left with this frame's image.
Evaluated ==
  /\ feature' = [feature EXCEPT !.history = call.of]
  /\ restart' = FALSE

\* The output image is read back whether or not anything wrote it.
Returned ==
  /\ call' = None
  /\ frame' = [of |-> call.of, extent |-> Native(call.of.output),
               reconstructed |-> TRUE]

\* NGX refuses, and Evaluate says so on stderr only.
Refused ==
  /\ "evaluate" \in Faults
  /\ UNCHANGED <<feature, restart>>
  /\ lost' = lost \union {"reset"}
  /\ Returned

Evaluate ==
  /\ call # None /\ call.at = "evaluate"
  /\ \/ "submit" \in Faults /\ Throw({"reset"}) /\ UNCHANGED <<feature, restart>>
     \/ "submit" \in Faults /\ feature # None /\ Throw({"reset"}) /\ Evaluated
     \/ Refused
     \/ /\ feature # None
        /\ Evaluated
        /\ Returned
        /\ lost' = IF Restarts THEN lost \ {"reset"} ELSE lost
     \/ /\ feature = None
        /\ Returned
        /\ UNCHANGED <<feature, restart, lost>>
  /\ UNCHANGED <<runtime, attempted, backend, parameters, owned, size, previous>>

\* QueryNgxSupport brings NGX up and down again; its header lets a caller ask
\* before anything has decided to use a backend.
QueryNgxSupport ==
  /\ call = None /\ ~backend
  /\ runtime' = FALSE
  /\ UNCHANGED <<attempted, backend, parameters, feature, restart, owned, size, previous,
                 call, frame, lost>>

ReconstructionNext ==
  \/ \E d \in Descriptions : Begin(d)
  \/ Trace
  \/ Ensure
  \/ Build
  \/ Evaluate
  \/ QueryNgxSupport

Spec == ReconstructionInit /\ [][ReconstructionNext]_vars

-----------------------------------------------------------------------------
(* Properties of an evaluation.                                             *)

Evaluating == call # None /\ call.at = "evaluate"

\* The feature and the images an evaluation is recorded with are of the resolution the
\* frame was planned at, the sets name those images, the model NGX runs is the one asked
\* for and NGX is up, unless an exception came between two of the steps that make them
\* so: a declined kernel, format, sizing or build, and any alternation of modes, extents
\* and presets, leaves them agreeing, though the parameter block a feature is built from
\* outlives every feature.  And every kernel has a set, unless allocating one threw: then
\* that kernel never has one again (FailSet).
EvaluatesWhatWasPlanned ==
  Evaluating =>
    /\ "resources" \notin lost =>
         /\ runtime
         /\ feature # None /\ feature.of = call.plan
         /\ feature.preset = Hint(call.plan.model, call.plan.preset)
         /\ \A i \in Image : images[i] = Sized(i, call.plan)
         /\ dangling = {}
    /\ "set" \notin lost => Compiled(Len(Kernels)) \subseteq sets

\* A backend that keeps its history was left, by the very frame before this one,
\* with an image of this revision of the scene, by this model: whatever was declined, switched
\* or rebuilt in between restarted it.
KeepsOnlyTheFrameBefore ==
  Evaluating /\ lost \subseteq {"set"} /\ ~Restarts =>
    /\ feature.history = call.after.of
    /\ feature.history.revision = call.of.revision
=============================================================================
