-------------------------------- MODULE Device --------------------------------
(* The device session of a render delegate: the settings it publishes to the    *)
(* process, the device it chooses, and who owns each Vulkan handle from the     *)
(* context's construction to its destruction.  Every constructor and submission *)
(* is one step of the rendering thread with the calls that fail in it; the      *)
(* destructions are a step each.                                                *)
EXTENDS Naturals, Sequences

CONSTANTS
  None,
  Keys,          \* settings with an environment variable
  Flags,         \* those whose default is read through EnvironmentFlag
  DeviceKey,     \* the setting that names the preferred device
  Environments,  \* process environments: [Keys -> value or ""]
  Hosts,         \* what a host states: [Keys -> value or "", None where it says nothing]
  Machines,      \* sequences of devices
  Pipelines, Images, Buffers,  \* members of the tracer its constructor builds
  Ids,           \* bound: identities of Vulkan objects
  MaxDelegates,  \* bound: delegates a process constructs
  Faults         \* subset of AllFaults

AllFaults == {"refuse", "lose"}
ASSUME DeviceAssumption ==
  /\ Flags \subseteq Keys /\ DeviceKey \in Keys \ Flags
  /\ Faults \subseteq AllFaults
  /\ MaxDelegates \in Nat
  /\ 0 \notin Ids

\* The tracer's members are apart, and apart from what owns the rest.
ASSUME MembersAssumption ==
  /\ Pipelines \intersect (Images \union Buffers) = {} /\ Images \intersect Buffers = {}
  /\ {"sampler", "context", "allocator"} \intersect (Pipelines \union Images \union Buffers) = {}

\* A device: the preferences its name contains, whether it can trace and is of Vulkan
\* 1.3, and its memory, in units of which ten weigh what being discrete does.
Candidates == [answers : SUBSET STRING, traces : BOOLEAN, modern : BOOLEAN,
               discrete : BOOLEAN, memory : 0 .. 9]
ASSUME MachinesAssumption ==
  \A machine \in Machines : machine \in Seq(Candidates) /\ None \notin Candidates

VARIABLES
  environment,  \* the process environment
  overrides,    \* EnvironmentOverrides(), "" where there is none
  machine,      \* the devices there are
  probed,       \* what IsSupported's static holds
  stated,       \* what the host of the last delegate stated
  delegates,    \* delegates constructed so far
  phase,        \* "none", "context", "allocator", "tracer", "ready", "release"
  chosen,       \* the context's _physicalDevice
  latched,      \* its _deviceLost
  live,         \* Vulkan handles that exist
  held,         \* the handles each owner would destroy
  stranded      \* handles that a failure left with no owner

settings == <<environment, overrides, machine, probed, stated, delegates>>
vars == <<settings, phase, chosen, latched, live, held, stranded>>

Members == Pipelines \union Images \union Buffers \union {"sampler"}
Owners == Members \union {"context", "allocator"}

\* What each kind of member is made of, in the order it is created.
Pieces(m) ==
  CASE m \in Pipelines -> <<"module", "setLayout", "descriptors", "layout", "pipeline">>
    [] m \in Images -> <<"image", "view">>
    [] m \in Buffers -> <<"buffer">>
    [] m = "sampler" -> <<"sampler">>

Handle(kind, id) == [kind |-> kind, id |-> id, of |-> delegates]
Made(m, id) == {Handle(Pieces(m)[i], id) : i \in DOMAIN Pieces(m)}
Free == {id \in Ids : \A h \in live : h.of = delegates => h.id # id}
Fresh == CHOOSE id \in Free : TRUE
Context(kinds) == {Handle(k, 0) : k \in kinds}

\* What Vulkan and its allocator require to exist while a handle does.
ParentOf(h) ==
  LET one(kind) == [kind |-> kind, id |-> 0, of |-> h.of]
  IN CASE h.kind = "instance" -> h
       [] h.kind \in {"messenger", "device"} -> one("instance")
       [] h.kind \in {"image", "buffer"} -> one("allocator")
       [] h.kind = "view" -> [kind |-> "image", id |-> h.id, of |-> h.of]
       [] h.kind = "command" -> one("pool")
       [] OTHER -> one("device")

-----------------------------------------------------------------------------
(* Settings.                                                                *)

EnvironmentValue(k) == IF overrides[k] # "" THEN overrides[k] ELSE environment[k]
EnvironmentFlag(k) == EnvironmentValue(k) = "1"

\* GetRenderSettingDescriptors: a string's default is the process environment's,
\* a flag's is what the renderer reads now.
Default(k) ==
  IF k \notin Flags THEN environment[k] ELSE IF EnvironmentFlag(k) THEN "1" ELSE "0"

Setting(host, k) == IF host[k] = None THEN Default(k) ELSE host[k]

\* Every setting is pushed; one with no text removes its override.
SetEnvironmentOverride(host) == [k \in Keys |-> Setting(host, k)]

-----------------------------------------------------------------------------
(* The device.                                                              *)

\* A preference is looked for within the name, so several devices may answer to it.
Named(c, preferred) == preferred # "" /\ preferred \in c.answers

\* VulkanContext::Probe: the first device that traces, or the last one named.
Probe(devices, preferred) ==
  LET traces == {i \in DOMAIN devices : devices[i].traces}
      named == {i \in traces : Named(devices[i], preferred)}
  IN IF traces = {} THEN None
     ELSE IF named # {} THEN devices[CHOOSE i \in named : \A j \in named : j <= i]
     ELSE devices[CHOOSE i \in traces : \A j \in traces : i <= j]

\* Mutant: memory before the name.
Score_memoryFirst(c, preferred) ==
  100 * c.memory + (IF c.discrete THEN 10 ELSE 0) + (IF Named(c, preferred) THEN 1 ELSE 0)

\* The name, then discrete, then memory, which is below ten here.
Score(c, preferred) ==
  c.memory + (IF c.discrete THEN 10 ELSE 0) + (IF Named(c, preferred) THEN 100 ELSE 0)

Usable(c) == c.traces /\ c.modern

\* SelectPhysicalDevice: the first of the best, or nothing.
Select(devices, preferred) ==
  LET score == [i \in DOMAIN devices |-> Score(devices[i], preferred)]
      usable == {i \in DOMAIN devices : Usable(devices[i]) /\ score[i] > 0}
      Beats(i, j) == \/ score[i] > score[j]
                     \/ score[i] = score[j] /\ i <= j
  IN IF usable = {} THEN None ELSE devices[CHOOSE i \in usable : \A j \in usable : Beats(i, j)]

-----------------------------------------------------------------------------
DeviceInit ==
  /\ environment \in Environments
  /\ overrides = [k \in Keys |-> ""]
  /\ machine \in Machines
  /\ probed = Probe(machine, environment[DeviceKey])
  /\ stated = [k \in Keys |-> None]
  /\ delegates = 0
  /\ phase = "none"
  /\ chosen = None
  /\ latched = FALSE
  /\ live = {}
  /\ held = [o \in Owners |-> {}]
  /\ stranded = {}

\* Initialize, up to the try block.
Initialize(host) ==
  /\ phase = "none" /\ delegates < MaxDelegates
  /\ overrides' = SetEnvironmentOverride(host)
  /\ stated' = host
  /\ delegates' = delegates + 1
  /\ phase' = "context"
  /\ latched' = FALSE
  /\ UNCHANGED <<environment, machine, probed, chosen, live, held, stranded>>

\* A call that does not succeed: Check latches a loss before it throws.
Fails ==
  \/ "refuse" \in Faults /\ UNCHANGED latched
  \/ "lose" \in Faults /\ latched' = TRUE

RequireLive == ~latched

-----------------------------------------------------------------------------
(* Release.                                                                 *)

OfKind(handles, kinds) == {h \in handles : h.kind \in kinds}

\* Mutant: the allocator goes before the tracer's images and buffers.
Release_allocatorFirst(now) ==
  LET tracer  == UNION {now[m] : m \in Members \ {"sampler"}}
      bound   == OfKind(tracer, {"image", "buffer"})
      context(kinds) == OfKind(now["context"], kinds)
  IN  <<now["sampler"], tracer \ bound, now["allocator"], bound,
        context({"pool", "command"}), context({"cache"}), context({"device"}),
        context({"messenger"}), context({"instance"})>>

\* Reverse of construction, in ~HdClaudeRenderDelegate and Initialize's catch.
\* ~PathTracer's body destroys the sampler; the members follow, a view before its
\* image; then the allocator; then ~VulkanContext: the pool, with what was allocated
\* from it, the cache, the device, the messenger, the instance.
Release(now) ==
  LET tracer  == UNION {now[m] : m \in Members \ {"sampler"}}
      bound   == OfKind(tracer, {"image", "buffer"})
      context(kinds) == OfKind(now["context"], kinds)
  IN  <<now["sampler"], tracer \ bound, bound, now["allocator"],
        context({"pool", "command"}), context({"cache"}), context({"device"}),
        context({"messenger"}), context({"instance"})>>

\* The first that is left goes next.
Destroy ==
  /\ phase = "release"
  /\ LET groups == Release(held) IN
     \E i \in DOMAIN groups :
       /\ groups[i] # {} /\ \A j \in 1 .. (i - 1) : groups[j] = {}
       /\ live' = live \ groups[i]
       /\ held' = [o \in Owners |-> held[o] \ groups[i]]
  /\ UNCHANGED <<settings, phase, chosen, latched, stranded>>

Released ==
  /\ phase = "release"
  /\ LET groups == Release(held) IN \A i \in DOMAIN groups : groups[i] = {}
  /\ phase' = "none"
  /\ chosen' = None
  /\ UNCHANGED <<settings, latched, live, held, stranded>>

DeleteRenderDelegate ==
  /\ phase = "ready"
  /\ phase' = "release"
  /\ UNCHANGED <<settings, chosen, latched, live, held, stranded>>

-----------------------------------------------------------------------------
(* Construction.                                                            *)

Stages == <<{"instance"}, {"messenger"}, {"device"}, {"pool"}>>
Through(n) == UNION {Stages[i] : i \in 1 .. n}

\* The context is built; the messenger is created where validation is on, and a
\* cache the driver refuses is gone without.
ContextBuilt ==
  LET device == Select(machine, EnvironmentValue(DeviceKey)) IN
  /\ device # None
  /\ chosen' = device
  /\ \E without \in SUBSET {"messenger", "cache"} :
       LET made == Context((Through(Len(Stages)) \union {"cache"}) \ without)
       IN /\ live' = live \union made
          /\ held' = [held EXCEPT !["context"] = made]
  /\ phase' = "allocator"
  /\ UNCHANGED <<latched, stranded>>

\* The constructor throws after n of its stages: ~VulkanContext does not run, and
\* there is nothing else to reset.
ContextThrows ==
  /\ \E n \in 0 .. (Len(Stages) - 1) :
       /\ \/ Fails
          \/ n = 2 /\ Select(machine, EnvironmentValue(DeviceKey)) = None /\ UNCHANGED latched
       /\ live' = live \union Context(Through(n))
       /\ stranded' = stranded \union Context(Through(n))
  /\ phase' = "none"
  /\ UNCHANGED <<chosen, held>>

BuildContext ==
  /\ phase = "context"
  /\ ContextBuilt \/ ContextThrows
  /\ UNCHANGED settings

BuildAllocator ==
  /\ phase = "allocator"
  /\ \/ /\ live' = live \union Context({"allocator"})
        /\ held' = [held EXCEPT !["allocator"] = Context({"allocator"})]
        /\ phase' = "tracer"
        /\ UNCHANGED latched
     \/ Fails /\ phase' = "release" /\ UNCHANGED <<live, held>>
  /\ UNCHANGED <<settings, chosen, stranded>>

\* The constructor's order: the kernels, the sampler, the placeholder, the tables.
Rank(m) == CASE m \in Pipelines -> 1 [] m = "sampler" -> 2 [] m \in Images -> 3 [] OTHER -> 4

\* A member whose turn it is, or any but the sampler once the tracer is built.
Turn(m) ==
  \/ phase = "ready" /\ m # "sampler"
  \/ /\ phase = "tracer" /\ held[m] = {}
     /\ \A p \in Members : Rank(p) < Rank(m) => held[p] # {}

\* What an exception does next: a tracer half built is unwound, member by member
\* and without its destructor's body, which is what destroys the sampler; a
\* tracer that is built is kept, and the render pass catches.
Unwind(now, left) ==
  IF phase = "ready"
  THEN held' = now /\ stranded' = stranded \union left /\ UNCHANGED phase
  ELSE /\ phase' = "release"
       /\ held' = [now EXCEPT !["sampler"] = {}]
       /\ stranded' = stranded \union left \union held["sampler"]

\* A member is constructed and then assigned: what it held before goes last.
Assign(m) ==
  LET made == Made(m, Fresh)
  IN /\ live' = (live \ held[m]) \union made
     /\ held' = [held EXCEPT ![m] = made]

Created(m, n) == {Handle(Pieces(m)[i], Fresh) : i \in 1 .. n}

\* Mutant: releaseAll forgets the descriptor pool.
ReleaseAll_exceptPool(handles) == handles \ OfKind(handles, {"descriptors"})

\* What a constructor that throws destroys of what it created.
ReleaseAll(handles) == handles

\* A pipeline, the sampler, or an image or a buffer with what fills it.
Construct(m) ==
  /\ Turn(m) /\ Free # {}
  /\ m \in Pipelines => RequireLive
  /\ \/ Assign(m) /\ UNCHANGED <<latched, phase, stranded>>
     \/ /\ Fails
        /\ \E n \in 0 .. (Len(Pieces(m)) - 1) : live' = live \union (Created(m, n) \ ReleaseAll(Created(m, n)))
        /\ Unwind(held, {})
  /\ UNCHANGED <<settings, chosen>>

\* SubmitImmediate throws: its fence and command buffer are released, unless the
\* device is lost.  The pool destroys the command buffer with itself.
SubmissionThrows ==
  \/ "refuse" \in Faults /\ Unwind(held, {}) /\ UNCHANGED <<latched, live>>
  \/ /\ "lose" \in Faults
     /\ latched' = TRUE
     /\ \E fence \in SUBSET {Handle("fence", Fresh)} :
          /\ live' = live \union fence \union {Handle("command", Fresh)}
          /\ Unwind([held EXCEPT !["context"] = @ \union {Handle("command", Fresh)}], fence)

\* A submission, which is waited for before it returns, throws: a frame's, or the
\* one that fills a member whose turn it is.  What it would have filled and its
\* staging buffer are locals until it is over.
SubmitImmediate ==
  /\ phase = "ready" \/ \E m \in Images \union Buffers : phase = "tracer" /\ Turn(m)
  /\ RequireLive /\ Free # {}
  /\ SubmissionThrows
  /\ UNCHANGED <<settings, chosen>>

\* The constructor returns.
TracerBuilt ==
  /\ phase = "tracer" /\ \A m \in Members : held[m] # {}
  /\ phase' = "ready"
  /\ UNCHANGED <<settings, chosen, latched, live, held, stranded>>

DeviceNext ==
  \/ \E host \in Hosts : Initialize(host)
  \/ BuildContext
  \/ BuildAllocator
  \/ \E m \in Members : Construct(m)
  \/ TracerBuilt
  \/ SubmitImmediate
  \/ DeleteRenderDelegate
  \/ Destroy
  \/ Released

Spec == DeviceInit /\ [][DeviceNext]_vars

-----------------------------------------------------------------------------
(* Properties.                                                              *)

\* No handle is without an owner that will destroy it, and none has two, whatever
\* failed and wherever: except those of a context whose constructor threw, of a
\* submission the device was lost in, and the sampler of a tracer half built.
EveryHandleHasOneOwner ==
  /\ live = (UNION {held[o] : o \in Owners}) \union stranded
  /\ \A o \in Owners : held[o] \intersect stranded = {}
  /\ \A o, p \in Owners : o # p => held[o] \intersect held[p] = {}

\* A handle is destroyed before what it was created from, in every tear-down from
\* every point a session can fail at.
ParentsOutliveChildren == \A h \in live \ stranded : ParentOf(h) \in live

\* A device that is chosen traces, and was not probed unsupported; one that is usable
\* and alone answers to the preference is the one probed and the one chosen.
ChoosesWhatWasProbed ==
  chosen # None =>
    /\ chosen.traces /\ probed # None
    /\ \A i \in DOMAIN machine :
         /\ Usable(machine[i]) /\ Named(machine[i], environment[DeviceKey])
         /\ EnvironmentValue(DeviceKey) = environment[DeviceKey]
         /\ \A j \in DOMAIN machine :
              machine[j].traces /\ Named(machine[j], environment[DeviceKey]) => j = i
         => chosen = machine[i] /\ probed = machine[i]
=============================================================================
