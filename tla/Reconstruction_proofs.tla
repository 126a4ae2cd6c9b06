------------------------- MODULE Reconstruction_proofs -------------------------
(* Theorems about the hand-over to a reconstruction backend, for any settings,  *)
(* extents and scenes and whatever the runtime, the driver and the compiler     *)
(* answer.                                                                      *)
(*                                                                              *)
(* What an evaluation is recorded with agrees because the tracer's record of    *)
(* what was built is empty, or true, or an exception has come: a failed build    *)
(* empties it, and a build replaces every image before it is recorded.          *)
(* A history that is kept is the last frame's because a frame that is declined   *)
(* leaves a plan that differs from the record, so that the next build restarts. *)
EXTENDS Reconstruction, TLAPS

\* Everything a build leaves agreeing with a resolution, the feature aside.
ImagesAgree(r) == (\A i \in Image : images[i] = Sized(i, r)) /\ dangling = {}

FeatureAgrees(r) ==
  feature # None /\ feature.of = r /\ feature.preset = Hint(r.model, r.preset)

Types ==
  /\ call \in Calls \union {None}
  /\ previous \in Begun \union {None}
  /\ resolution \in Plans \union {None}
  /\ feature \in Features \union {None}
  /\ parameters \in [Models \X Qualities -> Presets]
  /\ backend => attempted /\ runtime

\* The frame begun is the one the tracer remembers, planned as its settings say.
BegunInv ==
  /\ previous # None =>
       /\ previous.plan \in {None, Planned(previous.of)}
       /\ size = IF previous.plan = None THEN Native(previous.of.output)
                 ELSE previous.plan.render
  /\ call # None =>
       /\ previous = [of |-> call.of, plan |-> call.plan]
       /\ call.plan # None => backend
       /\ call.at # "trace" => call.plan # None

BuiltInv ==
  /\ call # None /\ call.at = "build" => ImagesAgree(call.plan)
  /\ call # None /\ call.at = "evaluate" => resolution = call.plan
  /\ "resources" \notin lost /\ resolution # None /\ (call # None => call.at # "build") =>
       ImagesAgree(resolution) /\ FeatureAgrees(resolution)

HistoryInv ==
  /\ previous = None => restart
  /\ lost \subseteq {"set"} /\ ~restart /\ resolution # None =>
       /\ call = None /\ previous.plan = resolution => feature.history = previous.of
       /\ call # None /\ call.at # "build" /\ ~call.reset /\ call.plan = resolution =>
            /\ feature.history = call.after.of
            /\ call.after.of.revision = call.of.revision

\* What was built was built with every kernel, each with its set unless one was lost.
SetsInv ==
  /\ (call # None /\ call.at = "build") \/ resolution # None =>
       Compiled(Len(Kernels)) \subseteq kernels
  /\ "set" \notin lost => kernels \subseteq sets

IInv == Types /\ BegunInv /\ BuiltInv /\ HistoryInv

-----------------------------------------------------------------------------
(* Plans.                                                                   *)

LEMMA PlanTyped ==
  ASSUME NEW d \in Descriptions
  PROVE  /\ Planned(d) \in Plans
         /\ Planned(d) # None
         /\ Key(Planned(d)) \in Models \X Qualities
         /\ Hint(Planned(d).model, Planned(d).preset) \in Presets
<1>1. d.settings \in Settings
    BY DEF Descriptions
<1> QED
    BY <1>1, NoneAssumption DEF Plans, Planned, PlanFor, Key, Models, Qualities, Hint, Presets

\* A plan is its frame's: two frames of one extent, model, preset and quality
\* have one plan.
LEMMA PlansCoincide ==
  ASSUME NEW d \in Descriptions, NEW e \in Descriptions,
         Planned(d).render = Planned(e).render, Planned(d).model = Planned(e).model,
         Planned(d).preset = Planned(e).preset, Planned(d).quality = Planned(e).quality
  PROVE  Planned(d) = Planned(e)
BY DEF Planned, PlanFor, ExtentOf

\* The exposure, which is not compared, is the same in every plan.
LEMMA PlansMeasured ==
  ASSUME NEW r \in Plans
  PROVE  r # None /\ r.exposure = "measured" /\ [r EXCEPT !.exposure = "measured"] = r
<1>1. PICK d \in Descriptions : r = Planned(d)
    BY DEF Plans
<1> QED
    BY <1>1, PlanTyped DEF Planned, PlanFor

\* What was built will do exactly when it is of the very plan.
LEMMA UnchangedIsEqual ==
  ASSUME NEW r \in Plans, resolution \in Plans \union {None}
  PROVE  Unchanged(r) <=> resolution = r
BY PlansMeasured DEF Unchanged

\* The plan of a frame begun is a plan.
LEMMA CallTyped ==
  ASSUME IInv, call # None
  PROVE  /\ call \in Calls /\ call.of \in Descriptions
         /\ call.plan # None => call.plan = Planned(call.of) /\ call.plan \in Plans
         /\ previous # None
BY PlanTyped, NoneAssumption DEF IInv, Types, BegunInv, Calls, Begun

-----------------------------------------------------------------------------
LEMMA InitHolds == ReconstructionInit => IInv
<1> SUFFICES ASSUME ReconstructionInit PROVE IInv
    OBVIOUS
<1>1. parameters \in [Models \X Qualities -> Presets]
    BY DEF ReconstructionInit, Presets
<1> QED
    BY <1>1 DEF ReconstructionInit, IInv, Types, BegunInv, BuiltInv, HistoryInv

\* A frame begun keeps its history only if the last one was of its scene and plan.
LEMMA BeginHolds ==
  ASSUME IInv, NEW d \in Descriptions, Begin(d)
  PROVE  IInv'
<1>1. PICK plan \in {None, Planned(d)} :
        /\ Started(d, plan)
        /\ plan # None => backend'
        /\ backend' => attempted' /\ runtime'
  <2>1. CASE ~Wants(d) /\ Started(d, None) /\ UNCHANGED <<attempted, backend, runtime>>
      BY <2>1 DEF IInv, Types
  <2>2. CASE /\ Wants(d)
             /\ IF attempted THEN UNCHANGED <<attempted, backend, runtime>>
                ELSE \E answer \in Answers : Create(answer)
             /\ \E render \in Sizing(d.settings, d.output) :
                  Started(d, IF backend' /\ render # None THEN PlanFor(d, render) ELSE None)
    <3>1. PICK render \in Sizing(d.settings, d.output) :
            Started(d, IF backend' /\ render # None THEN PlanFor(d, render) ELSE None)
        BY <2>2
    <3>2. render # None => PlanFor(d, render) = Planned(d)
        BY <3>1 DEF Sizing, Planned
    <3>3. backend' => attempted' /\ runtime'
        BY <2>2 DEF IInv, Types, Create
    <3>4. CASE backend' /\ render # None
        BY <3>1, <3>2, <3>3, <3>4
    <3>5. CASE ~(backend' /\ render # None)
        BY <3>1, <3>3, <3>5
    <3> QED
        BY <3>4, <3>5
  <2> QED
      BY <2>1, <2>2 DEF Begin
<1> DEFINE traced == IF plan = None THEN Native(d.output) ELSE plan.render
<1>2. /\ size' = traced
      /\ previous' = [of |-> d, plan |-> plan]
      /\ call' = [at |-> "trace", of |-> d, plan |-> plan, after |-> previous,
                  reset |-> HistoryReset(d, plan, traced)]
      /\ UNCHANGED <<parameters, feature, restart, kernels, images, dangling, resolution, lost>>
    BY <1>1 DEF Started, Begin, owned
<1> HIDE DEF traced
<1>3. plan \in Plans \union {None}
    BY PlanTyped
<1>4. HistoryReset(d, plan, traced) \in BOOLEAN
    BY DEF HistoryReset, PlanChanged
<1>5. previous' \in Begun /\ call' \in Calls
    BY <1>2, <1>3, <1>4 DEF Begun, Calls, IInv, Types
<1>6. previous' # None /\ call' # None
    BY <1>5, NoneAssumption
<1>7. Types'
    BY <1>1, <1>2, <1>5 DEF IInv, Types
<1>8. BegunInv'
    BY <1>1, <1>2, <1>6 DEF BegunInv, traced
<1>9. BuiltInv'
  <2>1. call = None /\ call'.at = "trace"
      BY <1>2 DEF Begin
  <2> QED
      BY <1>2, <1>6, <2>1 DEF IInv, BuiltInv, ImagesAgree, FeatureAgrees
<1>10. HistoryInv'
  <2> SUFFICES ASSUME lost \subseteq {"set"}, ~restart, plan \in Plans, plan = resolution,
                      ~HistoryReset(d, plan, traced)
               PROVE  feature.history = previous.of /\ previous.of.revision = d.revision
      BY <1>2, <1>3, <1>6 DEF IInv, HistoryInv
  <2>1. previous # None /\ previous \in Begun
      BY DEF IInv, HistoryInv, Types
  <2>2. /\ traced = size /\ d.revision = previous.of.revision /\ ~PlanChanged(plan)
      BY <2>1 DEF HistoryReset
  <2>3. plan # None /\ plan = Planned(d)
      BY PlansMeasured, <1>1
  <2>4. /\ previous.plan # None
        /\ plan.model = previous.plan.model /\ plan.preset = previous.plan.preset
        /\ plan.quality = previous.plan.quality
      BY <2>2, <2>3 DEF PlanChanged
  <2>5. previous.plan = Planned(previous.of) /\ previous.of \in Descriptions
      BY <2>1, <2>4 DEF IInv, BegunInv, Begun
  <2>6. plan.render = previous.plan.render
      BY <2>1, <2>2, <2>3, <2>4 DEF traced, IInv, BegunInv
  <2>7. previous.plan = resolution
      BY <2>3, <2>4, <2>5, <2>6, PlansCoincide
  <2>8. call = None
      BY DEF Begin
  <2> QED
      BY <2>2, <2>3, <2>7, <2>8 DEF IInv, HistoryInv
<1> QED
    BY <1>7, <1>8, <1>9, <1>10 DEF IInv

\* A frame that throws leaves its mark in lost.
LEMMA TraceHolds == ASSUME IInv, Trace PROVE IInv'
<1>1. call \in Calls /\ call # None /\ call.at = "trace" /\ previous # None
    BY CallTyped DEF Trace
<1>2. UNCHANGED <<parameters, feature, restart, runtime, attempted, backend, kernels, images,
                  dangling, resolution, size, previous>>
    BY DEF Trace, ngx, owned
<1>3. CASE Throw({"reset"})
    BY <1>1, <1>2, <1>3 DEF Throw, IInv, Types, BegunInv, BuiltInv, HistoryInv, ImagesAgree,
                            FeatureAgrees
<1>4. CASE call.plan = None /\ call' = None /\ lost' = lost
    BY <1>1, <1>2, <1>4, PlansMeasured DEF IInv, Types, BegunInv, BuiltInv, HistoryInv,
                            ImagesAgree, FeatureAgrees
<1>5. CASE call.plan # None /\ call' = [call EXCEPT !.at = "ensure"] /\ lost' = lost
  <2>1. call' \in Calls /\ call' # None
      BY <1>1, <1>5, NoneAssumption DEF Calls
  <2>2. /\ call'.at = "ensure" /\ call'.of = call.of /\ call'.plan = call.plan
        /\ call'.after = call.after /\ call'.reset = call.reset
      BY <1>1, <1>5 DEF Calls
  <2> QED
      BY <1>1, <1>2, <1>5, <2>1, <2>2 DEF IInv, Types, BegunInv, BuiltInv, HistoryInv, ImagesAgree,
                            FeatureAgrees
<1> QED
    BY <1>3, <1>4, <1>5 DEF Trace

\* A frame that goes on is the same frame, at its next step.
LEMMA CallMoves ==
  ASSUME call \in Calls, NEW at \in {"ensure", "build", "evaluate"},
         call' = [call EXCEPT !.at = at]
  PROVE  /\ call' \in Calls /\ call' # None
         /\ call'.at = at /\ call'.of = call.of /\ call'.plan = call.plan
         /\ call'.after = call.after /\ call'.reset = call.reset
BY NoneAssumption DEF Calls

\* When every image is replaced they agree, and the sets are written.
LEMMA AllReplaced ==
  ASSUME NEW r, Replace(r, Len(Order))
  PROVE  ImagesAgree(r)'
<1>1. Len(Order) = 4 /\ DOMAIN Order = 1 .. 4
    BY DEF Order
<1>2. \A i \in Image : images'[i] = Sized(i, r)
    BY <1>1 DEF Replace, Image
<1> QED
    BY <1>2 DEF Replace, ImagesAgree

\* A kernel that does not compile leaves what was built, which is of another plan.
LEMMA EnsureHolds == ASSUME IInv, Ensure PROVE IInv'
<1> DEFINE r == call.plan
<1>1. call \in Calls /\ call # None /\ call.at = "ensure" /\ previous # None
    BY CallTyped DEF Ensure
<1>2. r \in Plans /\ r # None /\ r = Planned(call.of) /\ r = previous.plan
    BY <1>1, CallTyped, PlansMeasured DEF IInv, BegunInv
<1>3. Unchanged(r) <=> resolution = r
    BY <1>2, UnchangedIsEqual DEF IInv, Types
<1>4. UNCHANGED <<parameters, feature, restart, runtime, attempted, backend, size, previous>>
      /\ resolution' = resolution
    BY DEF Ensure, ngx, owned
<1>5. CASE /\ Unchanged(r) /\ call' = [call EXCEPT !.at = "evaluate"]
           /\ UNCHANGED <<owned, frame, lost>>
  <2>1. /\ call' \in Calls /\ call' # None
        /\ call'.at = "evaluate" /\ call'.of = call.of /\ call'.plan = call.plan
        /\ call'.after = call.after /\ call'.reset = call.reset
      BY <1>1, <1>5, CallMoves
  <2> HIDE DEF r
  <2> QED
      BY <1>1, <1>2, <1>3, <1>4, <1>5, <2>1
      DEF IInv, Types, BegunInv, BuiltInv, HistoryInv, ImagesAgree, FeatureAgrees, owned, r
<1>6. CASE /\ ~Unchanged(r) /\ call' = None /\ UNCHANGED <<images, dangling, lost>>
    BY <1>1, <1>2, <1>3, <1>4, <1>6
    DEF IInv, Types, BegunInv, BuiltInv, HistoryInv, ImagesAgree, FeatureAgrees
<1>7. CASE "reset" \in lost' /\ lost \subseteq lost' /\ call' = None
           /\ ("resources" \notin lost' => UNCHANGED <<images, dangling>>)
    BY <1>1, <1>4, <1>7 DEF IInv, Types, BegunInv, BuiltInv, HistoryInv, ImagesAgree, FeatureAgrees
<1>8. CASE /\ Replace(r, Len(Order)) /\ call' = [call EXCEPT !.at = "build"]
           /\ lost' = lost
  <2>1. /\ call' \in Calls /\ call' # None
        /\ call'.at = "build" /\ call'.of = call.of /\ call'.plan = call.plan
        /\ call'.after = call.after /\ call'.reset = call.reset
      BY <1>1, <1>8, CallMoves
  <2>2. ImagesAgree(r)'
      BY <1>8, AllReplaced DEF ImagesAgree
  <2>3. ImagesAgree(call.plan)'
      BY <2>1, <2>2 DEF ImagesAgree
  <2>4. Types' /\ BegunInv' /\ HistoryInv'
      BY <1>1, <1>2, <1>4, <1>8, <2>1 DEF IInv, Types, BegunInv, HistoryInv
  <2>5. BuiltInv'
      BY <2>1, <2>3 DEF BuiltInv
  <2> QED
      BY <2>4, <2>5 DEF IInv
<1>9. Unchanged(r) => /\ call' = [call EXCEPT !.at = "evaluate"]
                      /\ UNCHANGED <<owned, frame, lost>>
    BY DEF Ensure
<1>10. ~Unchanged(r) =>
         \/ call' = None /\ UNCHANGED <<images, dangling, lost>>
         \/ /\ "reset" \in lost' /\ lost \subseteq lost' /\ call' = None
            /\ UNCHANGED <<images, dangling>>
         \/ \E n \in 0 .. Len(Order) :
              /\ Replace(r, n)
              /\ IF n < Len(Order) THEN Throw({"resources", "reset"})
                 ELSE call' = [call EXCEPT !.at = "build"] /\ UNCHANGED <<frame, lost>>
    BY DEF Ensure, FailKernel, FailSet, FailFormat, Throw, Declined
<1> QED
  <2>1. CASE Unchanged(r)
      BY <1>5, <1>9, <2>1
  <2>2. ASSUME NEW n \in 0 .. Len(Order), Replace(r, n),
               IF n < Len(Order) THEN Throw({"resources", "reset"})
               ELSE call' = [call EXCEPT !.at = "build"] /\ UNCHANGED <<frame, lost>>
        PROVE  IInv'
    <3>1. Len(Order) = 4
        BY DEF Order
    <3>2. CASE n < Len(Order)
        BY <1>7, <2>2, <3>2 DEF Throw
    <3>3. CASE n = Len(Order)
        BY <1>8, <2>2, <3>1, <3>3
    <3> QED
        BY <3>1, <3>2, <3>3
  <2> QED
      BY <1>6, <1>7, <1>10, <2>1, <2>2

\* A feature is made of the parameter block just after the preset is put there.
LEMMA BuiltAgrees ==
  ASSUME Types, NEW d \in Descriptions, NEW r, r = Planned(d), Built(r)
  PROVE  /\ parameters' \in [Models \X Qualities -> Presets]
         /\ feature' \in Features
         /\ feature' # None /\ feature'.of = r /\ feature'.preset = Hint(r.model, r.preset)
         /\ restart'
<1>1. /\ r \in Plans /\ Key(r) \in Models \X Qualities
      /\ Hint(r.model, r.preset) \in Presets
    BY PlanTyped
<1>2. parameters' = [parameters EXCEPT ![Key(r)] = Hint(r.model, r.preset)]
    BY DEF Built
<1>3. /\ parameters' \in [Models \X Qualities -> Presets]
      /\ parameters'[Key(r)] = Hint(r.model, r.preset)
    BY <1>1, <1>2 DEF Types
<1>4. feature' = [of |-> r, preset |-> parameters'[Key(r)], history |-> None] /\ restart'
    BY DEF Built
<1>5. feature' \in Features
    BY <1>1, <1>3, <1>4 DEF Features
<1> QED
    BY <1>3, <1>4, <1>5, NoneAssumption

LEMMA NotBuiltTyped ==
  ASSUME Types, NEW d \in Descriptions, NEW r, r = Planned(d), NotBuilt(r)
  PROVE  parameters' \in [Models \X Qualities -> Presets]
BY PlanTyped DEF Types, NotBuilt

\* A build that fails empties the record; one that is interrupted leaves its mark.
LEMMA BuildHolds == ASSUME IInv, Build PROVE IInv'
<1> DEFINE r == call.plan
<1>1. call \in Calls /\ call # None /\ call.at = "build" /\ previous # None
    BY CallTyped DEF Build
<1>2. /\ r \in Plans /\ r # None /\ r = Planned(call.of) /\ r = previous.plan
      /\ call.of \in Descriptions
    BY <1>1, CallTyped, PlansMeasured DEF IInv, BegunInv
<1>3. UNCHANGED <<runtime, attempted, backend, images, dangling, size, previous>>
    BY DEF Build
<1>4. ImagesAgree(r)
    BY <1>1 DEF IInv, BuiltInv
<1>5. Types
    BY DEF IInv
<1>6. Built(r) => /\ parameters' \in [Models \X Qualities -> Presets]
                  /\ feature' \in Features /\ restart'
                  /\ feature' # None /\ feature'.of = r
                  /\ feature'.preset = Hint(r.model, r.preset)
    BY <1>2, <1>5, BuiltAgrees
<1>7. NotBuilt(r) => /\ parameters' \in [Models \X Qualities -> Presets]
                     /\ feature' = None /\ restart' = restart
    BY <1>2, <1>5, NotBuiltTyped DEF NotBuilt
<1> HIDE DEF r
<1>8. ASSUME Throw({"resources", "reset"}),
             \/ UNCHANGED <<parameters, feature, restart>>
             \/ Built(r)
             \/ NotBuilt(r),
             resolution' = resolution
      PROVE  IInv'
    BY <1>1, <1>3, <1>6, <1>7, <1>8 DEF Throw, IInv, Types, BegunInv, BuiltInv, HistoryInv
<1>9. ASSUME NotBuilt(r), resolution' = None, call' = None, lost' = lost
      PROVE  IInv'
    BY <1>1, <1>3, <1>7, <1>9 DEF IInv, Types, BegunInv, BuiltInv, HistoryInv
<1>10. ASSUME Built(r), resolution' = r, call' = [call EXCEPT !.at = "evaluate"]
       PROVE  IInv'
  <2>1. /\ call' \in Calls /\ call' # None
        /\ call'.at = "evaluate" /\ call'.of = call.of /\ call'.plan = r
        /\ call'.after = call.after /\ call'.reset = call.reset
      BY <1>1, <1>10, CallMoves DEF r
  <2>2. ImagesAgree(r)'
      BY <1>3, <1>4, <2>1 DEF ImagesAgree, r
  <2>3. ImagesAgree(resolution)' /\ FeatureAgrees(resolution)'
      BY <1>6, <1>10, <2>1, <2>2 DEF ImagesAgree, FeatureAgrees, r
  <2>4. Types' /\ BegunInv' /\ HistoryInv'
      BY <1>1, <1>2, <1>3, <1>6, <1>10, <2>1 DEF IInv, Types, BegunInv, HistoryInv, r
  <2>5. BuiltInv'
      BY <1>10, <2>1, <2>3 DEF BuiltInv
  <2> QED
      BY <2>4, <2>5 DEF IInv
<1> QED
    BY <1>8, <1>9, <1>10 DEF Build, Declined, Unrecorded, r

\* What an evaluation leaves is this frame's, and the tracer remembers this frame.
LEMMA EvaluateHolds == ASSUME IInv, Evaluate PROVE IInv'
<1>1. call \in Calls /\ call # None /\ call.at = "evaluate" /\ previous # None
    BY CallTyped DEF Evaluate
<1>2. /\ call.of \in Descriptions /\ previous.of = call.of
      /\ call.plan = previous.plan /\ resolution = call.plan /\ resolution # None
    BY <1>1, CallTyped DEF IInv, BegunInv, BuiltInv
<1>3. UNCHANGED <<runtime, attempted, backend, parameters, images, dangling, resolution, size,
                  previous>> /\ call' = None
    BY DEF Evaluate, owned, Throw, Refused, Returned
<1>4. CASE feature # None /\ Evaluated /\ ("resources" \in lost => "resources" \in lost')
  <2>1. /\ feature' \in Features /\ feature' # None /\ feature'.of = feature.of
        /\ feature'.preset = feature.preset /\ feature'.history = call.of
      BY <1>2, <1>4, NoneAssumption DEF Evaluated, IInv, Types, Features
  <2>2. restart' = FALSE
      BY <1>4 DEF Evaluated
  <2>3. Types' /\ BegunInv' /\ HistoryInv'
      BY <1>1, <1>2, <1>3, <2>1, <2>2 DEF IInv, Types, BegunInv, HistoryInv
  <2>4. BuiltInv'
      BY <1>1, <1>2, <1>3, <1>4, <2>1 DEF IInv, BuiltInv, ImagesAgree, FeatureAgrees
  <2> QED
      BY <2>3, <2>4 DEF IInv
<1>5. CASE UNCHANGED <<feature, restart>> /\ "reset" \in lost'
           /\ ("resources" \in lost => "resources" \in lost')
    BY <1>1, <1>2, <1>3, <1>5
    DEF IInv, Types, BegunInv, BuiltInv, HistoryInv, ImagesAgree, FeatureAgrees
<1>6. CASE feature = None /\ UNCHANGED <<feature, restart, lost>>
  <2>1. "resources" \in lost
      BY <1>1, <1>2, <1>6 DEF IInv, BuiltInv, FeatureAgrees
  <2> QED
      BY <1>1, <1>2, <1>3, <1>6, <2>1 DEF IInv, Types, BegunInv, BuiltInv, HistoryInv
<1> QED
    BY <1>4, <1>5, <1>6 DEF Evaluate, Refused, Throw

-----------------------------------------------------------------------------
LEMMA StepHolds == IInv /\ [ReconstructionNext]_vars => IInv'
<1> SUFFICES ASSUME IInv, [ReconstructionNext]_vars PROVE IInv'
    OBVIOUS
<1>1. CASE QueryNgxSupport
    BY <1>1 DEF QueryNgxSupport, owned, IInv, Types, BegunInv, BuiltInv, HistoryInv, ImagesAgree,
                FeatureAgrees
<1>2. CASE UNCHANGED vars
    BY <1>2 DEF vars, IInv, Types, BegunInv, BuiltInv, HistoryInv, ImagesAgree, FeatureAgrees
<1> QED
    BY <1>1, <1>2, BeginHolds, TraceHolds, EnsureHolds, BuildHolds, EvaluateHolds
    DEF ReconstructionNext

LEMMA EnsureKeepsSets ==
  ASSUME IInv, SetsInv, Ensure
  PROVE  SetsInv'
<1> DEFINE all == Compiled(Len(Kernels))
<1>1. resolution' = resolution /\ call \in Calls /\ call.at = "ensure"
    BY CallTyped DEF Ensure, owned
<1>2. \A n : Compiled(n)' = Compiled(n) /\ Kernels' = Kernels
    BY DEF Compiled, Kernels
<1>3. CASE UNCHANGED <<owned, lost>> /\ call' = [call EXCEPT !.at = "evaluate"]
  <2>1. call'.at = "evaluate"
      BY <1>1, <1>3, CallMoves
  <2> QED
      BY <1>2, <1>3, <2>1 DEF SetsInv, owned
<1>4. ASSUME NEW n, Prepare(n), lost \subseteq lost', call' = None \/ n = Len(Kernels)
      PROVE  SetsInv'
    BY <1>1, <1>2, <1>4 DEF SetsInv, Prepare
<1>5. ASSUME NEW n, FailSet(n) PROVE SetsInv'
    BY <1>1, <1>2, <1>5 DEF SetsInv, FailSet, Throw
<1>6. \/ UNCHANGED <<owned, lost>> /\ call' = [call EXCEPT !.at = "evaluate"]
      \/ \E n \in DOMAIN Kernels : FailKernel(n) \/ FailSet(n)
      \/ FailFormat
      \/ Prepare(Len(Kernels)) /\ lost \subseteq lost'
    BY DEF Ensure, Throw
<1>7. ASSUME NEW n, FailKernel(n) PROVE SetsInv'
  <2>1. Prepare(n - 1) /\ lost \subseteq lost' /\ call' = None
      BY <1>7 DEF FailKernel, Declined, Throw
  <2> QED
      BY <1>4, <2>1
<1>8. CASE FailFormat
    BY <1>4, <1>8 DEF FailFormat, Declined
<1> QED
    BY <1>3, <1>4, <1>5, <1>6, <1>7, <1>8

\* A kernel is built once, and loses its set only to an exception that says so.
LEMMA StepKeepsSets ==
  ASSUME IInv, SetsInv, [ReconstructionNext]_vars
  PROVE  SetsInv'
<1>1. Compiled(Len(Kernels))' = Compiled(Len(Kernels))
    BY DEF Compiled, Kernels
<1>2. ASSUME NEW d \in Descriptions, Begin(d) PROVE SetsInv'
  <2>1. call'.at = "trace"
      BY <1>2 DEF Begin, Started
  <2> QED
      BY <1>1, <1>2, <2>1 DEF Begin, owned, SetsInv
<1>3. CASE Trace
  <2>1. UNCHANGED <<kernels, sets, resolution>> /\ lost \subseteq lost'
      BY <1>3 DEF Trace, owned, Throw
  <2>2. call' = None \/ call'.at = "ensure"
      BY <1>3, CallTyped, CallMoves DEF Trace, Throw
  <2> QED
      BY <1>1, <2>1, <2>2 DEF SetsInv
<1>4. CASE Build
  <2>1. /\ UNCHANGED <<kernels, sets>> /\ ("set" \in lost => "set" \in lost')
        /\ call # None /\ call.at = "build"
        /\ call' = None \/ call' = [call EXCEPT !.at = "evaluate"]
      BY <1>4 DEF Build, Throw, Declined
  <2>2. call' = None \/ call'.at = "evaluate"
      BY <2>1, CallTyped, CallMoves
  <2> QED
      BY <1>1, <2>1, <2>2 DEF SetsInv
<1>5. CASE Evaluate
  <2>1. /\ UNCHANGED <<kernels, sets, resolution>> /\ ("set" \in lost => "set" \in lost')
        /\ call' = None
      BY <1>5 DEF Evaluate, owned, Throw, Refused, Returned
  <2> QED
      BY <1>1, <2>1 DEF SetsInv
<1>6. CASE QueryNgxSupport \/ UNCHANGED vars
    BY <1>1, <1>6 DEF QueryNgxSupport, owned, vars, SetsInv
<1> QED
    BY <1>2, <1>3, <1>4, <1>5, <1>6, EnsureKeepsSets DEF ReconstructionNext

\* Between any two steps of the hand-over the record the tracer keeps of what it built,
\* the images, the feature and its history agree as far as nothing was lost.
THEOREM ReconstructionInvariant == Spec => [](IInv /\ SetsInv)
<1> DEFINE Inv == IInv /\ SetsInv
<1>1. ReconstructionInit => Inv
    BY InitHolds DEF ReconstructionInit, SetsInv
<1>2. Inv /\ [ReconstructionNext]_vars => Inv'
    BY StepHolds, StepKeepsSets
<1> QED
    BY <1>1, <1>2, PTL DEF Spec

\* An evaluation is recorded with the feature, the images and the sets of the
\* resolution its frame was planned at, and NGX up, whatever was declined before
\* it, and with a set for every kernel unless allocating one threw: for every mode,
\* extent and preset a host can alternate between.
THEOREM EvaluationIsAsPlanned == Spec => []EvaluatesWhatWasPlanned
<1>1. IInv /\ SetsInv => EvaluatesWhatWasPlanned
  <2> SUFFICES ASSUME IInv, SetsInv, Evaluating
               PROVE  /\ "resources" \notin lost =>
                           /\ runtime
                           /\ feature # None /\ feature.of = call.plan
                           /\ feature.preset = Hint(call.plan.model, call.plan.preset)
                           /\ \A i \in Image : images[i] = Sized(i, call.plan)
                           /\ dangling = {}
                      /\ "set" \notin lost => Compiled(Len(Kernels)) \subseteq sets
      BY DEF EvaluatesWhatWasPlanned
  <2>1. resolution = call.plan /\ call.plan # None /\ runtime
      BY DEF Evaluating, IInv, BuiltInv, BegunInv, Types
  <2>2. "set" \notin lost => Compiled(Len(Kernels)) \subseteq sets
      BY <2>1 DEF SetsInv
  <2>3. "resources" \notin lost =>
          /\ feature # None /\ feature.of = call.plan
          /\ feature.preset = Hint(call.plan.model, call.plan.preset)
          /\ \A i \in Image : images[i] = Sized(i, call.plan)
          /\ dangling = {}
      BY <2>1 DEF Evaluating, IInv, BuiltInv, ImagesAgree, FeatureAgrees
  <2> QED
      BY <2>1, <2>2, <2>3
<1> QED
    BY <1>1, ReconstructionInvariant, PTL

\* A backend that keeps its history was left with an image of this scene by the
\* frame just before, whatever was declined, switched or rebuilt in between.
THEOREM HistoryIsTheFrameBefore == Spec => []KeepsOnlyTheFrameBefore
<1>1. IInv => KeepsOnlyTheFrameBefore
  <2> SUFFICES ASSUME IInv, Evaluating, lost \subseteq {"set"}, ~Restarts
               PROVE  /\ feature.history = call.after.of
                      /\ feature.history.revision = call.of.revision
      BY DEF KeepsOnlyTheFrameBefore
  <2>1. resolution = call.plan /\ call.plan # None
      BY DEF Evaluating, IInv, BuiltInv, BegunInv
  <2> QED
      BY <2>1 DEF Evaluating, Restarts, IInv, HistoryInv
<1> QED
    BY <1>1, ReconstructionInvariant, PTL
================================================================================
