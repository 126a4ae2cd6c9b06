----------------------------- MODULE Device_proofs -----------------------------
(***************************************************************************)
(* Theorems about the device session, for any machines, hosts, settings    *)
(* and members of the tracer, any number of delegates, and every fault.    *)
(*                                                                         *)
(* Ownership is inductive with where a handle may be (its owner determines *)
(* its kinds, and it is of the delegate that is), what exists before each  *)
(* phase, and that an identity is not given twice in one delegate.  That a *)
(* handle goes before its parent follows from the kinds alone: whenever a  *)
(* group of a tear-down holds a parent, the groups before it, which are    *)
(* empty, or the same group, hold every kind of its children.              *)
(***************************************************************************)
EXTENDS Device, WellFoundedInduction, TLAPS

PipelineKinds == {"module", "setLayout", "descriptors", "layout", "pipeline"}
ContextKinds == {"instance", "messenger", "device", "pool", "cache", "command"}
AllKinds == PipelineKinds \union ContextKinds
              \union {"image", "view", "buffer", "sampler", "fence", "allocator"}
Handles == [kind : AllKinds, id : Ids \union {0}, of : Nat]
Phases == {"none", "context", "allocator", "tracer", "ready", "release"}

\* The kinds an owner may hold.
KindsOf(o) ==
  CASE o \in Pipelines -> PipelineKinds
    [] o \in Images -> {"image", "view"}
    [] o \in Buffers -> {"buffer"}
    [] o = "sampler" -> {"sampler"}
    [] o = "context" -> ContextKinds
    [] o = "allocator" -> {"allocator"}

HandlesTyped ==
  /\ delegates \in Nat /\ phase \in Phases
  /\ live \subseteq Handles /\ stranded \subseteq Handles
  /\ held \in [Owners -> SUBSET Handles]

HeldInPlace == \A o \in Owners : \A h \in held[o] : h.kind \in KindsOf(o) /\ h.of = delegates

NoneOfALaterDelegate == \A h \in live : h.of <= delegates

BeforeItsContext ==
  /\ phase \in {"none", "context"} => held = [o \in Owners |-> {}]
  /\ phase = "context" => \A h \in live : h.of < delegates
  /\ phase = "allocator" => \A h \in live : h.of = delegates => h.kind # "allocator"

WhatTheTracerNeeds ==
  /\ phase \in {"allocator", "tracer", "ready"} =>
       Context({"instance", "device", "pool"}) \subseteq held["context"]
  /\ phase \in {"tracer", "ready"} => Context({"allocator"}) \subseteq held["allocator"]

ViewsBesideImages ==
  \A m \in Images : \A h \in held[m] : h.kind = "view" => ParentOf(h) \in held[m]

HandleInv ==
  /\ HandlesTyped /\ HeldInPlace /\ NoneOfALaterDelegate /\ BeforeItsContext
  /\ WhatTheTracerNeeds /\ ViewsBesideImages /\ EveryHandleHasOneOwner /\ ParentsOutliveChildren

-----------------------------------------------------------------------------
(* What a handle is.                                                        *)

\* An owner's kinds are its class's, and the classes are apart.
LEMMA OwnersAreApart ==
  ASSUME NEW o \in Owners
  PROVE  \/ o \in Pipelines /\ KindsOf(o) = PipelineKinds
         \/ o \in Images /\ KindsOf(o) = {"image", "view"}
         \/ o \in Buffers /\ KindsOf(o) = {"buffer"}
         \/ o = "sampler" /\ KindsOf(o) = {"sampler"}
         \/ o = "context" /\ KindsOf(o) = ContextKinds
         \/ o = "allocator" /\ KindsOf(o) = {"allocator"}
BY MembersAssumption DEF Owners, Members, KindsOf

LEMMA ContextOwns ==
  /\ "context" \in Owners /\ "allocator" \in Owners /\ "sampler" \in Owners
  /\ "context" \notin Members /\ "allocator" \notin Members
  /\ KindsOf("context") = ContextKinds /\ KindsOf("allocator") = {"allocator"}
  /\ KindsOf("sampler") = {"sampler"}
BY MembersAssumption DEF Owners, Members, KindsOf

LEMMA HandleFields ==
  ASSUME NEW kind, NEW id
  PROVE  /\ Handle(kind, id).kind = kind /\ Handle(kind, id).id = id
         /\ Handle(kind, id).of = delegates
         /\ kind \in AllKinds /\ id \in Ids \union {0} /\ delegates \in Nat =>
              Handle(kind, id) \in Handles
BY DEF Handle, Handles

\* What a member is made of is of its kinds, and was created from the device, the
\* allocator or an image beside it.
LEMMA MadeInPlace ==
  ASSUME HandlesTyped, NEW m \in Members, NEW id \in Ids
  PROVE  /\ Made(m, id) # {}
         /\ \A h \in Made(m, id) :
              /\ h \in Handles /\ h.kind \in KindsOf(m) /\ h.of = delegates /\ h.id = id
              /\ \/ ParentOf(h) \in Context({"device", "allocator"})
                 \/ m \in Images /\ ParentOf(h) \in Made(m, id)
              /\ m \in Images /\ h.kind = "view" => ParentOf(h) \in Made(m, id)
<1>1. CASE m \in Pipelines
  <2>1. Pieces(m) = <<"module", "setLayout", "descriptors", "layout", "pipeline">>
      BY <1>1, MembersAssumption DEF Pieces
  <2>2. Made(m, id) = {Handle(k, id) : k \in PipelineKinds}
      BY <2>1 DEF Made, PipelineKinds
  <2>3. KindsOf(m) = PipelineKinds /\ m \notin Images
      BY <1>1, MembersAssumption DEF KindsOf
  <2>4. ASSUME NEW k \in PipelineKinds
        PROVE  /\ ParentOf(Handle(k, id)) = Handle("device", 0)
               /\ Handle(k, id) \in Handles /\ Handle(k, id).kind = k
               /\ Handle(k, id).of = delegates /\ Handle(k, id).id = id
      BY <2>4, HandleFields DEF ParentOf, Handle, PipelineKinds, HandlesTyped, AllKinds
  <2> QED
      BY <2>2, <2>3, <2>4 DEF Context, PipelineKinds
<1>2. CASE m \in Images
  <2>1. Pieces(m) = <<"image", "view">>
      BY <1>2, MembersAssumption DEF Pieces
  <2>2. Made(m, id) = {Handle("image", id), Handle("view", id)}
      BY <2>1 DEF Made
  <2>3. KindsOf(m) = {"image", "view"}
      BY <1>2, MembersAssumption DEF KindsOf
  <2>4. ParentOf(Handle("image", id)) = Handle("allocator", 0)
      BY HandleFields DEF ParentOf, Handle
  <2>5. ParentOf(Handle("view", id)) = Handle("image", id)
      BY HandleFields DEF ParentOf, Handle
  <2>6. ASSUME NEW k \in {"image", "view"}
        PROVE  /\ Handle(k, id) \in Handles /\ Handle(k, id).kind = k
               /\ Handle(k, id).of = delegates /\ Handle(k, id).id = id
      BY HandleFields DEF HandlesTyped, AllKinds
  <2> QED
      BY <1>2, <2>2, <2>3, <2>4, <2>5, <2>6 DEF Context
<1>3. CASE m \in Buffers
  <2>1. Pieces(m) = <<"buffer">>
      BY <1>3, MembersAssumption DEF Pieces
  <2>2. Made(m, id) = {Handle("buffer", id)}
      BY <2>1 DEF Made
  <2>3. KindsOf(m) = {"buffer"} /\ m \notin Images
      BY <1>3, MembersAssumption DEF KindsOf
  <2>4. ParentOf(Handle("buffer", id)) = Handle("allocator", 0)
      BY HandleFields DEF ParentOf, Handle
  <2>5. Handle("buffer", id) \in Handles
      BY HandleFields DEF HandlesTyped, AllKinds
  <2> QED
      BY <2>2, <2>3, <2>4, <2>5, HandleFields DEF Context
<1>4. CASE m = "sampler"
  <2>1. Pieces(m) = <<"sampler">>
      BY <1>4, MembersAssumption DEF Pieces
  <2>2. Made(m, id) = {Handle("sampler", id)}
      BY <2>1 DEF Made
  <2>3. KindsOf(m) = {"sampler"} /\ m \notin Images
      BY <1>4, MembersAssumption DEF KindsOf
  <2>4. ParentOf(Handle("sampler", id)) = Handle("device", 0)
      BY HandleFields DEF ParentOf, Handle
  <2>5. Handle("sampler", id) \in Handles
      BY HandleFields DEF HandlesTyped, AllKinds
  <2> QED
      BY <2>2, <2>3, <2>4, <2>5, HandleFields DEF Context
<1> QED
    BY <1>1, <1>2, <1>3, <1>4 DEF Members

\* What a handle was created from is a handle of the same delegate; only these kinds
\* are created from.
LEMMA ParentKinds ==
  ASSUME NEW h \in Handles
  PROVE  /\ ParentOf(h) \in Handles /\ ParentOf(h).of = h.of
         /\ ParentOf(h).kind = "instance" =>
              \/ h.kind \in {"messenger", "device"}
              \/ h.kind = "instance" /\ ParentOf(h) = h
         /\ ParentOf(h).kind = "allocator" => h.kind \in {"image", "buffer"}
         /\ ParentOf(h).kind = "image" =>
              h.kind = "view"
         /\ ParentOf(h).kind = "pool" => h.kind = "command"
         /\ ParentOf(h).kind = "device" =>
              h.kind \in AllKinds \ {"instance", "messenger", "device", "image", "buffer",
                                     "view", "command"}
         /\ ParentOf(h).kind \in {"instance", "allocator", "image", "pool", "device"}
<1> USE DEF Handles, AllKinds, PipelineKinds, ContextKinds
<1>1. CASE h.kind = "instance"
    BY <1>1 DEF ParentOf
<1>2. CASE h.kind \in {"messenger", "device"}
    BY <1>2 DEF ParentOf
<1>3. CASE h.kind \in {"image", "buffer"}
    BY <1>3 DEF ParentOf
<1>4. CASE h.kind = "view"
    BY <1>4 DEF ParentOf
<1>5. CASE h.kind = "command"
    BY <1>5 DEF ParentOf
<1>6. CASE h.kind \notin {"instance", "messenger", "device", "image", "buffer", "view", "command"}
  <2>1. ParentOf(h) = [kind |-> "device", id |-> 0, of |-> h.of]
      BY <1>6 DEF ParentOf
  <2> QED
      BY <1>6, <2>1
<1> QED
    BY <1>1, <1>2, <1>3, <1>4, <1>5, <1>6

-----------------------------------------------------------------------------
(* A tear-down destroys what is held kind by kind.                          *)

Held == UNION {held[o] : o \in Owners}

GroupKinds ==
  <<{"sampler"}, PipelineKinds \union {"view"}, {"image", "buffer"}, {"allocator"},
    {"pool", "command"}, {"cache"}, {"device"}, {"messenger"}, {"instance"}>>

\* A group of a tear-down is what is held of its kinds, wherever it is held.
LEMMA GroupsAreByKind ==
  ASSUME HandlesTyped, HeldInPlace
  PROVE  /\ DOMAIN Release(held) = 1 .. 9
         /\ \A i \in 1 .. 9 : Release(held)[i] = {h \in Held : h.kind \in GroupKinds[i]}
<1> DEFINE tracer == UNION {held[m] : m \in Members \ {"sampler"}}
           tracerKinds == PipelineKinds \union {"image", "view", "buffer"}
<1>1. ASSUME NEW o \in Owners, NEW h \in held[o]
      PROVE  /\ h.kind \in KindsOf(o)
             /\ o = "context" <=> h.kind \in ContextKinds
             /\ o = "allocator" <=> h.kind = "allocator"
             /\ o = "sampler" <=> h.kind = "sampler"
             /\ o \in Members \ {"sampler"} <=> h.kind \in tracerKinds
  <2>1. h.kind \in KindsOf(o)
      BY <1>1 DEF HeldInPlace
  <2> QED
      BY <2>1, OwnersAreApart, MembersAssumption DEF PipelineKinds, ContextKinds, Members
<1>2. held["sampler"] = {h \in Held : h.kind = "sampler"}
    BY <1>1, ContextOwns DEF Held
<1>3. held["allocator"] = {h \in Held : h.kind = "allocator"}
    BY <1>1, ContextOwns DEF Held
<1>4. tracer = {h \in Held : h.kind \in tracerKinds}
    BY <1>1 DEF Held, Owners
<1>5. \A kinds \in SUBSET ContextKinds :
        OfKind(held["context"], kinds) = {h \in Held : h.kind \in kinds}
    BY <1>1, ContextOwns DEF Held, OfKind
<1> DEFINE bound == OfKind(tracer, {"image", "buffer"})
<1>6. bound = {h \in Held : h.kind \in {"image", "buffer"}}
    BY <1>4 DEF OfKind
<1>7. tracer \ bound = {h \in Held : h.kind \in PipelineKinds \union {"view"}}
    BY <1>4, <1>6 DEF PipelineKinds
<1>8. Release(held) =
        <<held["sampler"], tracer \ bound, bound, held["allocator"],
          OfKind(held["context"], {"pool", "command"}), OfKind(held["context"], {"cache"}),
          OfKind(held["context"], {"device"}), OfKind(held["context"], {"messenger"}),
          OfKind(held["context"], {"instance"})>>
    BY DEF Release
<1>9. \A k \in {{"pool", "command"}, {"cache"}, {"device"}, {"messenger"}, {"instance"}} :
        k \in SUBSET ContextKinds
    BY DEF ContextKinds
<1> HIDE DEF tracer, bound
<1>10. DOMAIN Release(held) = 1 .. 9
    BY <1>8
<1>11. ASSUME NEW i \in 1 .. 9 PROVE Release(held)[i] = {h \in Held : h.kind \in GroupKinds[i]}
  <2> DEFINE of(kinds) == {h \in Held : h.kind \in kinds}
  <2>1. /\ Release(held)[1] = of({"sampler"}) /\ Release(held)[4] = of({"allocator"})
        /\ Release(held)[2] = of(PipelineKinds \union {"view"})
        /\ Release(held)[3] = of({"image", "buffer"})
      BY <1>2, <1>3, <1>6, <1>7, <1>8
  <2>2. /\ Release(held)[5] = of({"pool", "command"}) /\ Release(held)[6] = of({"cache"})
        /\ Release(held)[7] = of({"device"}) /\ Release(held)[8] = of({"messenger"})
        /\ Release(held)[9] = of({"instance"})
      BY <1>5, <1>8, <1>9
  <2>3. /\ GroupKinds[1] = {"sampler"} /\ GroupKinds[2] = PipelineKinds \union {"view"}
        /\ GroupKinds[3] = {"image", "buffer"} /\ GroupKinds[4] = {"allocator"}
        /\ GroupKinds[5] = {"pool", "command"} /\ GroupKinds[6] = {"cache"}
        /\ GroupKinds[7] = {"device"} /\ GroupKinds[8] = {"messenger"}
        /\ GroupKinds[9] = {"instance"}
      BY DEF GroupKinds
  <2>4. i \in {1, 2, 3, 4, 5, 6, 7, 8, 9}
      OBVIOUS
  <2> HIDE DEF of
  <2>5. Release(held)[i] = of(GroupKinds[i])
      BY <2>1, <2>2, <2>3, <2>4
  <2> QED
      BY <2>5 DEF of
<1> QED
    BY <1>10, <1>11

\* The kinds of the groups up to a parent's own are those of all its children, and
\* every kind that is held is in some group.
LEMMA ChildrenGoFirst ==
  ASSUME NEW h \in Handles, h.kind # "fence"
  PROVE  /\ \E i \in 1 .. 9 : h.kind \in GroupKinds[i]
         /\ \A i \in 1 .. 9 : ParentOf(h).kind \in GroupKinds[i] =>
              \E j \in 1 .. i : h.kind \in GroupKinds[j]
<1>1. /\ GroupKinds[1] = {"sampler"} /\ GroupKinds[2] = PipelineKinds \union {"view"}
      /\ GroupKinds[3] = {"image", "buffer"} /\ GroupKinds[4] = {"allocator"}
      /\ GroupKinds[5] = {"pool", "command"} /\ GroupKinds[6] = {"cache"}
      /\ GroupKinds[7] = {"device"} /\ GroupKinds[8] = {"messenger"}
      /\ GroupKinds[9] = {"instance"}
    BY DEF GroupKinds
<1>2. h.kind \in AllKinds
    BY DEF Handles
<1>3. \E i \in 1 .. 9 : h.kind \in GroupKinds[i]
    BY <1>1, <1>2 DEF AllKinds, ContextKinds
<1>4. ASSUME NEW i \in 1 .. 9, ParentOf(h).kind \in GroupKinds[i]
      PROVE  \E j \in 1 .. i : h.kind \in GroupKinds[j]
  <2>1. i \in {1, 2, 3, 4, 5, 6, 7, 8, 9}
      OBVIOUS
  <2>2. /\ ParentOf(h).kind = "image" /\ i = 3 => h.kind \in GroupKinds[2]
        /\ ParentOf(h).kind = "allocator" /\ i = 4 => h.kind \in GroupKinds[3]
        /\ ParentOf(h).kind = "pool" /\ i = 5 => h.kind \in GroupKinds[5]
        /\ ParentOf(h).kind = "instance" /\ i = 9 =>
             \E j \in 1 .. 9 : h.kind \in GroupKinds[j]
      BY <1>1, <1>3, ParentKinds
  <2>3. ParentOf(h).kind = "device" /\ i = 7 => \E j \in 1 .. 7 : h.kind \in GroupKinds[j]
      BY <1>1, <1>2, ParentKinds DEF AllKinds, ContextKinds
  <2>4. \/ ParentOf(h).kind = "image" /\ i = 3
        \/ ParentOf(h).kind = "allocator" /\ i = 4
        \/ ParentOf(h).kind = "pool" /\ i = 5
        \/ ParentOf(h).kind = "device" /\ i = 7
        \/ ParentOf(h).kind = "instance" /\ i = 9
      BY <1>1, <1>4, <2>1, ParentKinds DEF PipelineKinds
  <2> QED
      BY <2>2, <2>3, <2>4
<1> QED
    BY <1>3, <1>4

-----------------------------------------------------------------------------
(* The steps.                                                               *)

\* What is held is live, of the delegate that is, and was created from what is live.
LEMMA HeldIsLive ==
  ASSUME HandleInv
  PROVE  /\ live = Held \union stranded
         /\ \A h \in Held : /\ h \in live /\ h \notin stranded /\ h \in Handles
                           /\ h.kind # "fence" /\ h.of = delegates /\ ParentOf(h) \in live
<1>1. live = Held \union stranded
    BY DEF HandleInv, EveryHandleHasOneOwner, Held
<1>2. ASSUME NEW o \in Owners, NEW h \in held[o]
      PROVE  h.kind # "fence" /\ h.of = delegates /\ h \in Handles /\ h \notin stranded
  <2>1. h.kind \in KindsOf(o) /\ h.of = delegates /\ h \in Handles
      BY DEF HandleInv, HeldInPlace, HandlesTyped
  <2>2. h.kind # "fence"
      BY <2>1, OwnersAreApart DEF PipelineKinds, ContextKinds
  <2> QED
      BY <2>1, <2>2 DEF HandleInv, EveryHandleHasOneOwner
<1> QED
    BY <1>1, <1>2 DEF Held, HandleInv, ParentsOutliveChildren

\* The context's handles are of its kinds, and created from three of them.
LEMMA ContextInPlace ==
  ASSUME delegates \in Nat, NEW kinds \in SUBSET (ContextKinds \union {"allocator"})
  PROVE  \A h \in Context(kinds) :
           /\ h \in Handles /\ h.kind \in kinds /\ h.of = delegates
           /\ ParentOf(h) \in Context({"instance", "device", "pool"})
<1> SUFFICES ASSUME NEW k \in kinds
             PROVE  /\ Handle(k, 0) \in Handles /\ Handle(k, 0).kind = k
                    /\ Handle(k, 0).of = delegates
                    /\ ParentOf(Handle(k, 0)) \in Context({"instance", "device", "pool"})
    BY DEF Context
<1>1. /\ Handle(k, 0) \in Handles /\ Handle(k, 0).kind = k /\ Handle(k, 0).of = delegates
    BY HandleFields DEF AllKinds
<1>2. \/ ParentOf(Handle(k, 0)) = Handle("instance", 0)
      \/ ParentOf(Handle(k, 0)) = Handle("device", 0)
      \/ ParentOf(Handle(k, 0)) = Handle("pool", 0)
    BY <1>1 DEF ParentOf, Handle, ContextKinds
<1> QED
    BY <1>1, <1>2 DEF Context

LEMMA InitHandles == DeviceInit => HandleInv
<1> SUFFICES ASSUME DeviceInit PROVE HandleInv
    OBVIOUS
<1>1. HandlesTyped
    BY DEF DeviceInit, HandlesTyped, Phases
<1>2. HeldInPlace /\ NoneOfALaterDelegate /\ BeforeItsContext /\ WhatTheTracerNeeds
    BY DEF DeviceInit, HeldInPlace, NoneOfALaterDelegate, BeforeItsContext, WhatTheTracerNeeds
<1>3. ViewsBesideImages
    BY DEF DeviceInit, ViewsBesideImages, Owners, Members
<1>4. EveryHandleHasOneOwner /\ ParentsOutliveChildren
    BY DEF DeviceInit, EveryHandleHasOneOwner, ParentsOutliveChildren
<1> QED
    BY <1>1, <1>2, <1>3, <1>4 DEF HandleInv

\* A group goes after all its children, and with all of itself.
LEMMA DestroyKeeps == HandleInv /\ Destroy => HandleInv'
<1> SUFFICES ASSUME HandleInv, Destroy PROVE HandleInv'
    OBVIOUS
<1>1. /\ DOMAIN Release(held) = 1 .. 9
      /\ \A i \in 1 .. 9 : Release(held)[i] = {h \in Held : h.kind \in GroupKinds[i]}
    BY GroupsAreByKind DEF HandleInv
<1>2. PICK i \in 1 .. 9 :
        /\ \A j \in 1 .. (i - 1) : Release(held)[j] = {}
        /\ live' = live \ Release(held)[i]
        /\ held' = [o \in Owners |-> held[o] \ Release(held)[i]]
    BY <1>1 DEF Destroy
<1> DEFINE G == {h \in Held : h.kind \in GroupKinds[i]}
<1>3. live' = live \ G /\ held' = [o \in Owners |-> held[o] \ G]
    BY <1>1, <1>2
<1>4. ASSUME NEW h \in Held, h \notin G PROVE ParentOf(h) \notin G
  <2>1. h \in Handles /\ h.kind # "fence"
      BY HeldIsLive
  <2>2. ASSUME ParentOf(h) \in G PROVE FALSE
    <3>1. PICK j \in 1 .. i : h.kind \in GroupKinds[j]
        BY <2>1, <2>2, ChildrenGoFirst
    <3>2. j # i
        BY <1>4, <3>1
    <3>3. j \in 1 .. (i - 1) /\ j \in 1 .. 9
        BY <3>2
    <3>4. Release(held)[j] = {} /\ h \in Release(held)[j]
        BY <1>1, <1>2, <1>4, <3>1, <3>3
    <3> QED
        BY <3>4
  <2> QED
      BY <2>2
<1>5. delegates' = delegates /\ phase = "release" /\ phase' = phase /\ stranded' = stranded
    BY DEF Destroy, settings
<1> HIDE DEF G
<1>6. G \subseteq Held
    BY DEF G
<1>7. \A o \in Owners : held'[o] = held[o] \ G
    BY <1>3
<1>8. HandlesTyped'
  <2>1. held' \in [Owners -> SUBSET Handles]
      BY <1>3 DEF HandleInv, HandlesTyped
  <2> QED
      BY <1>3, <1>5, <2>1 DEF HandleInv, HandlesTyped
<1>9. HeldInPlace' /\ NoneOfALaterDelegate'
    BY <1>3, <1>5, <1>7 DEF HandleInv, HeldInPlace, NoneOfALaterDelegate
<1>10. BeforeItsContext' /\ WhatTheTracerNeeds'
    BY <1>5 DEF BeforeItsContext, WhatTheTracerNeeds
<1>11. ViewsBesideImages'
  <2>1. SUFFICES ASSUME NEW m \in Images, NEW h \in held'[m], h.kind = "view"
                 PROVE  ParentOf(h) \in held'[m]
      BY DEF ViewsBesideImages
  <2>2. m \in Owners /\ h \in held[m] /\ h \notin G /\ h \in Held
      BY <1>7, <2>1 DEF Owners, Members, Held
  <2> QED
      BY <1>4, <1>7, <2>1, <2>2 DEF HandleInv, ViewsBesideImages
<1>12. EveryHandleHasOneOwner'
  <2>1. live' = (UNION {held'[o] : o \in Owners}) \union stranded
      BY <1>3, <1>6, <1>7, HeldIsLive DEF Held
  <2> QED
      BY <1>5, <1>7, <2>1 DEF HandleInv, EveryHandleHasOneOwner
<1>13. ParentsOutliveChildren'
  <2>1. SUFFICES ASSUME NEW h \in live' \ stranded PROVE ParentOf(h) \in live'
      BY <1>5 DEF ParentsOutliveChildren
  <2>2. h \in Held /\ h \notin G
      BY <1>3, <2>1, HeldIsLive
  <2> QED
      BY <1>3, <1>4, <2>2, HeldIsLive
<1> QED
    BY <1>8, <1>9, <1>10, <1>11, <1>12, <1>13 DEF HandleInv

\* Nothing is held when the tear-down is over.
LEMMA ReleasedKeeps == HandleInv /\ Released => HandleInv'
<1> SUFFICES ASSUME HandleInv, Released PROVE HandleInv'
    OBVIOUS
<1>1. \A i \in 1 .. 9 : {h \in Held : h.kind \in GroupKinds[i]} = {}
    BY GroupsAreByKind DEF HandleInv, Released
<1>2. Held = {}
    BY <1>1, HeldIsLive, ChildrenGoFirst
<1>3. held = [o \in Owners |-> {}]
    BY <1>2 DEF Held, HandleInv, HandlesTyped
<1>4. /\ delegates' = delegates /\ phase' = "none"
      /\ live' = live /\ held' = held /\ stranded' = stranded
    BY DEF Released, settings
<1>5. HandlesTyped' /\ HeldInPlace' /\ NoneOfALaterDelegate'
    BY <1>4 DEF HandleInv, HandlesTyped, HeldInPlace, NoneOfALaterDelegate, Phases
<1>6. BeforeItsContext' /\ WhatTheTracerNeeds' /\ ViewsBesideImages'
    BY <1>3, <1>4 DEF HandleInv, BeforeItsContext, WhatTheTracerNeeds, ViewsBesideImages
<1>7. EveryHandleHasOneOwner' /\ ParentsOutliveChildren'
    BY <1>4 DEF HandleInv, EveryHandleHasOneOwner, ParentsOutliveChildren
<1> QED
    BY <1>5, <1>6, <1>7 DEF HandleInv

\* Before the context there is nothing of this delegate; what it makes is whole, or
\* has no owner.
LEMMA BuildContextKeeps == HandleInv /\ BuildContext => HandleInv'
<1> SUFFICES ASSUME HandleInv, BuildContext PROVE HandleInv'
    OBVIOUS
<1> USE ContextOwns
<1>1. /\ delegates \in Nat /\ delegates' = delegates /\ phase = "context"
      /\ held = [o \in Owners |-> {}] /\ \A h \in live : h.of < delegates
      /\ live = stranded
  <2>1. delegates \in Nat /\ delegates' = delegates /\ phase = "context"
      BY DEF BuildContext, settings, HandleInv, HandlesTyped
  <2>2. held = [o \in Owners |-> {}] /\ \A h \in live : h.of < delegates
      BY <2>1 DEF HandleInv, BeforeItsContext
  <2> QED
      BY <2>1, <2>2 DEF HandleInv, EveryHandleHasOneOwner
<1>2. Through(4) = {"instance", "messenger", "device", "pool"} /\ Len(Stages) = 4
    BY DEF Through, Stages
<1>3. \A n \in 0 .. 3 : Through(n) \subseteq ContextKinds
    BY DEF Through, Stages, ContextKinds
<1>4. \A kinds \in SUBSET ContextKinds : \A h \in Context(kinds) :
        /\ h \in Handles /\ h.kind \in kinds /\ h.of = delegates
        /\ ParentOf(h) \in Context({"instance", "device", "pool"})
    BY <1>1, ContextInPlace
<1>5. \A h \in live : h \in Handles /\ h.of \in Nat
    BY DEF HandleInv, HandlesTyped, Handles
<1>6. CASE ContextBuilt
  <2>1. PICK without \in SUBSET {"messenger", "cache"} :
          LET made == Context((Through(4) \union {"cache"}) \ without)
          IN live' = live \union made /\ held' = [held EXCEPT !["context"] = made]
      BY <1>2, <1>6 DEF ContextBuilt
  <2> DEFINE kinds == (Through(4) \union {"cache"}) \ without
             made == Context(kinds)
  <2>2. kinds \subseteq ContextKinds /\ {"instance", "device", "pool"} \subseteq kinds
      BY <1>2 DEF ContextKinds
  <2>3. Context({"instance", "device", "pool"}) \subseteq made
      BY <2>2 DEF Context
  <2>4. \A h \in made : /\ h \in Handles /\ h.kind \in ContextKinds /\ h.of = delegates
                        /\ ParentOf(h) \in made /\ h \notin live
    <3>1. \A h \in made : /\ h \in Handles /\ h.kind \in kinds /\ h.of = delegates
                          /\ ParentOf(h) \in Context({"instance", "device", "pool"})
        BY <1>4, <2>2
    <3>2. \A h \in made : h \notin live
        BY <1>1, <3>1
    <3> QED
        BY <2>2, <2>3, <3>1, <3>2
  <2> HIDE DEF made
  <2>5. live' = live \union made /\ held' = [held EXCEPT !["context"] = made]
      BY <2>1 DEF made
  <2>6. phase' = "allocator" /\ stranded' = stranded
      BY <1>6 DEF ContextBuilt
  <2>7. held'["context"] = made /\ \A o \in Owners : o # "context" => held'[o] = {}
      BY <1>1, <2>5
  <2>8. held' \in [Owners -> SUBSET Handles]
      BY <1>1, <2>4, <2>5
  <2>9. HandlesTyped' /\ HeldInPlace' /\ NoneOfALaterDelegate'
      BY <1>1, <1>5, <2>4, <2>5, <2>6, <2>7, <2>8
      DEF HandleInv, HandlesTyped, HeldInPlace, NoneOfALaterDelegate, Phases
  <2>10. BeforeItsContext'
      BY <1>1, <1>5, <2>4, <2>5, <2>6 DEF BeforeItsContext, ContextKinds
  <2>11. WhatTheTracerNeeds'
      BY <1>1, <2>3, <2>6, <2>7 DEF WhatTheTracerNeeds, Context, Handle
  <2>12. ViewsBesideImages'
    <3>1. \A m \in Images : held'[m] = {}
        BY <2>7 DEF Owners, Members
    <3> QED
        BY <3>1 DEF ViewsBesideImages
  <2>13. EveryHandleHasOneOwner'
      BY <1>1, <2>4, <2>5, <2>6, <2>7 DEF EveryHandleHasOneOwner
  <2>14. ParentsOutliveChildren'
      BY <1>1, <2>4, <2>5, <2>6 DEF ParentsOutliveChildren
  <2> QED
      BY <2>9, <2>10, <2>11, <2>12, <2>13, <2>14 DEF HandleInv
<1>7. CASE ContextThrows
  <2>1. PICK n \in 0 .. 3 : /\ live' = live \union Context(Through(n))
                            /\ stranded' = stranded \union Context(Through(n))
      BY <1>2, <1>7 DEF ContextThrows
  <2>2. phase' = "none" /\ held' = held
      BY <1>7 DEF ContextThrows
  <2>3. live' \subseteq Handles /\ stranded' \subseteq Handles
      BY <1>3, <1>4, <2>1 DEF HandleInv, HandlesTyped
  <2>4. \A h \in live' : h.of <= delegates
      BY <1>1, <1>3, <1>4, <1>5, <2>1
  <2>5. HandlesTyped' /\ HeldInPlace' /\ NoneOfALaterDelegate'
      BY <1>1, <2>2, <2>3, <2>4
      DEF HandleInv, HandlesTyped, HeldInPlace, NoneOfALaterDelegate, Phases
  <2>6. BeforeItsContext' /\ WhatTheTracerNeeds' /\ ViewsBesideImages'
      BY <1>1, <2>2 DEF HandleInv, BeforeItsContext, WhatTheTracerNeeds, ViewsBesideImages
  <2>7. EveryHandleHasOneOwner' /\ ParentsOutliveChildren'
      BY <1>1, <2>1, <2>2 DEF HandleInv, EveryHandleHasOneOwner, ParentsOutliveChildren
  <2> QED
      BY <2>5, <2>6, <2>7 DEF HandleInv
<1> QED
    BY <1>6, <1>7 DEF BuildContext

LEMMA BuildAllocatorKeeps == HandleInv /\ BuildAllocator => HandleInv'
<1> SUFFICES ASSUME HandleInv, BuildAllocator PROVE HandleInv'
    OBVIOUS
<1> USE ContextOwns
<1>1. /\ delegates \in Nat /\ delegates' = delegates /\ phase = "allocator"
      /\ stranded' = stranded
    BY DEF BuildAllocator, settings, HandleInv, HandlesTyped
<1>2. CASE phase' = "release" /\ live' = live /\ held' = held
  <2>1. HandlesTyped' /\ HeldInPlace' /\ NoneOfALaterDelegate'
      BY <1>1, <1>2 DEF HandleInv, HandlesTyped, HeldInPlace, NoneOfALaterDelegate, Phases
  <2>2. BeforeItsContext' /\ WhatTheTracerNeeds' /\ ViewsBesideImages'
      BY <1>1, <1>2 DEF HandleInv, BeforeItsContext, WhatTheTracerNeeds, ViewsBesideImages
  <2>3. EveryHandleHasOneOwner' /\ ParentsOutliveChildren'
      BY <1>1, <1>2 DEF HandleInv, EveryHandleHasOneOwner, ParentsOutliveChildren
  <2> QED
      BY <2>1, <2>2, <2>3 DEF HandleInv
<1>3. CASE /\ live' = live \union Context({"allocator"})
           /\ held' = [held EXCEPT !["allocator"] = Context({"allocator"})]
           /\ phase' = "tracer"
  <2> DEFINE made == Context({"allocator"})
  <2>1. Context({"instance", "device", "pool"}) \subseteq held["context"]
      BY <1>1 DEF HandleInv, WhatTheTracerNeeds
  <2>2. \A h \in made : /\ h \in Handles /\ h.kind = "allocator" /\ h.of = delegates
                        /\ ParentOf(h) \in held["context"]
      BY <1>1, <2>1, ContextInPlace
  <2>3. \A h \in made : h \notin live
      BY <1>1, <2>2 DEF HandleInv, BeforeItsContext
  <2>4. held["context"] \subseteq live /\ stranded \subseteq live
      BY DEF HandleInv, EveryHandleHasOneOwner
  <2>5. held["allocator"] = {}
    <3>1. ASSUME NEW h \in held["allocator"] PROVE FALSE
      <4>1. h \in Held
          BY <3>1 DEF Held
      <4>2. h \in live /\ h.of = delegates /\ h.kind \in {"allocator"}
          BY <3>1, <4>1, HeldIsLive DEF HandleInv, HeldInPlace
      <4> QED
          BY <1>1, <4>2 DEF HandleInv, BeforeItsContext
    <3> QED
        BY <3>1
  <2> HIDE DEF made
  <2>6. live' = live \union made /\ held' = [held EXCEPT !["allocator"] = made] /\ phase' = "tracer"
      BY <1>3 DEF made
  <2>7. held'["allocator"] = made /\ \A o \in Owners : o # "allocator" => held'[o] = held[o]
      BY <2>6 DEF HandleInv, HandlesTyped
  <2>8. held' \in [Owners -> SUBSET Handles]
      BY <2>2, <2>6 DEF HandleInv, HandlesTyped
  <2>9. HandlesTyped' /\ HeldInPlace' /\ NoneOfALaterDelegate'
      BY <1>1, <2>2, <2>6, <2>7, <2>8
      DEF HandleInv, HandlesTyped, HeldInPlace, NoneOfALaterDelegate, Phases
  <2>10. BeforeItsContext' /\ WhatTheTracerNeeds'
    <3>1. Context({"instance", "device", "pool"})' = Context({"instance", "device", "pool"})
        BY <1>1 DEF Context, Handle
    <3>2. Context({"allocator"})' = Context({"allocator"})
        BY <1>1 DEF Context, Handle
    <3> QED
        BY <2>1, <2>6, <2>7, <3>1, <3>2 DEF BeforeItsContext, WhatTheTracerNeeds, made
  <2>11. ViewsBesideImages'
    <3>1. \A m \in Images : held'[m] = held[m]
        BY <2>7 DEF Owners, Members
    <3> QED
        BY <3>1 DEF HandleInv, ViewsBesideImages
  <2>12. EveryHandleHasOneOwner'
    <3>1. \A o, p \in Owners : o # p => held'[o] \intersect held'[p] = {}
        BY <2>3, <2>7 DEF HandleInv, EveryHandleHasOneOwner
    <3>2. \A o \in Owners : held'[o] \intersect stranded' = {}
        BY <1>1, <2>3, <2>4, <2>7 DEF HandleInv, EveryHandleHasOneOwner
    <3>3. live' = (UNION {held'[o] : o \in Owners}) \union stranded'
        BY <1>1, <2>5, <2>6, <2>7 DEF HandleInv, EveryHandleHasOneOwner
    <3> QED
        BY <3>1, <3>2, <3>3 DEF EveryHandleHasOneOwner
  <2>13. ParentsOutliveChildren'
      BY <1>1, <2>2, <2>4, <2>6 DEF HandleInv, ParentsOutliveChildren
  <2> QED
      BY <2>9, <2>10, <2>11, <2>12, <2>13 DEF HandleInv
<1> QED
    BY <1>2, <1>3 DEF BuildAllocator

\* A member that is constructed has an identity of its own; what it held before goes
\* last, and nothing else was created from that.
LEMMA AssignKeeps ==
  ASSUME HandleInv, phase \in {"tracer", "ready"}, Free # {},
         NEW m \in Members, Assign(m), UNCHANGED <<delegates, phase, stranded>>
  PROVE  HandleInv'
<1> USE ContextOwns
<1> DEFINE made == Made(m, Fresh)
<1>1. Fresh \in Ids /\ \A h \in live : h.of = delegates => h.id # Fresh
    BY DEF Fresh, Free
<1>2. m \in Owners /\ m # "context" /\ m # "allocator"
    BY DEF Owners
<1>3. \A h \in made :
        /\ h \in Handles /\ h.kind \in KindsOf(m) /\ h.of = delegates /\ h.id = Fresh
        /\ \/ ParentOf(h) \in Context({"device", "allocator"})
           \/ m \in Images /\ ParentOf(h) \in made
        /\ m \in Images /\ h.kind = "view" => ParentOf(h) \in made
    BY <1>1, MadeInPlace DEF HandleInv
<1>4. \A h \in made : h \notin live
    BY <1>1, <1>3
<1> HIDE DEF made
<1>5. live' = (live \ held[m]) \union made /\ held' = [held EXCEPT ![m] = made]
    BY DEF Assign, made
<1>6. held'[m] = made /\ \A o \in Owners : o # m => held'[o] = held[o]
    BY <1>2, <1>5 DEF HandleInv, HandlesTyped
<1>7. held' \in [Owners -> SUBSET Handles]
    BY <1>3, <1>5 DEF HandleInv, HandlesTyped
<1>8. HandlesTyped' /\ HeldInPlace' /\ NoneOfALaterDelegate'
  <2>1. live' \subseteq Handles /\ \A h \in live' : h.of <= delegates
      BY <1>3, <1>5 DEF HandleInv, HandlesTyped, NoneOfALaterDelegate
  <2>2. HeldInPlace'
      BY <1>3, <1>6 DEF HandleInv, HeldInPlace
  <2> QED
      BY <1>7, <2>1, <2>2 DEF HandleInv, HandlesTyped, NoneOfALaterDelegate
<1>9. BeforeItsContext' /\ WhatTheTracerNeeds'
  <2>1. held'["context"] = held["context"] /\ held'["allocator"] = held["allocator"]
      BY <1>2, <1>6
  <2> QED
      BY <2>1 DEF HandleInv, BeforeItsContext, WhatTheTracerNeeds, Context, Handle
<1>10. ViewsBesideImages'
  <2>1. SUFFICES ASSUME NEW n \in Images, NEW h \in held'[n], h.kind = "view"
                 PROVE  ParentOf(h) \in held'[n]
      BY DEF ViewsBesideImages
  <2>2. n \in Owners
      BY DEF Owners, Members
  <2>3. CASE n = m
      BY <1>3, <1>6, <2>1, <2>3
  <2>4. CASE n # m
      BY <1>6, <2>1, <2>2, <2>4 DEF HandleInv, ViewsBesideImages
  <2> QED
      BY <2>3, <2>4
<1>11. EveryHandleHasOneOwner'
  <2>1. \A o \in Owners : held[o] \subseteq live
      BY DEF HandleInv, EveryHandleHasOneOwner
  <2>2. stranded \subseteq live
      BY DEF HandleInv, EveryHandleHasOneOwner
  <2>3. \A o, p \in Owners : o # p => held'[o] \intersect held'[p] = {}
      BY <1>4, <1>6, <2>1 DEF HandleInv, EveryHandleHasOneOwner
  <2>4. \A o \in Owners : held'[o] \intersect stranded = {}
      BY <1>4, <1>6, <2>2 DEF HandleInv, EveryHandleHasOneOwner
  <2>5. live' = (UNION {held'[o] : o \in Owners}) \union stranded
    <3>1. ASSUME NEW h \in live' PROVE h \in (UNION {held'[o] : o \in Owners}) \union stranded
        BY <1>2, <1>5, <1>6, <3>1 DEF HandleInv, EveryHandleHasOneOwner
    <3>2. ASSUME NEW o \in Owners, NEW h \in held'[o] PROVE h \in live'
        BY <1>2, <1>5, <1>6, <2>1, <3>2 DEF HandleInv, EveryHandleHasOneOwner
    <3>3. ASSUME NEW h \in stranded PROVE h \in live'
        BY <1>2, <1>5, <2>2, <3>3 DEF HandleInv, EveryHandleHasOneOwner
    <3> QED
        BY <3>1, <3>2, <3>3
  <2> QED
      BY <2>3, <2>4, <2>5 DEF EveryHandleHasOneOwner
<1>12. ParentsOutliveChildren'
  <2>1. SUFFICES ASSUME NEW h \in live' \ stranded PROVE ParentOf(h) \in live'
      BY DEF ParentsOutliveChildren
  <2>2. CASE h \in made
    <3>1. Context({"device", "allocator"}) \subseteq held["context"] \union held["allocator"]
        BY DEF HandleInv, WhatTheTracerNeeds, Context
    <3>2. \A g \in held["context"] \union held["allocator"] : g \in live /\ g \notin held[m]
        BY <1>2 DEF HandleInv, EveryHandleHasOneOwner
    <3> QED
        BY <1>3, <1>5, <2>2, <3>1, <3>2
  <2>3. CASE h \in live /\ h \notin held[m]
    <3>1. PICK o \in Owners : h \in held[o]
        BY <2>1, <2>3 DEF HandleInv, EveryHandleHasOneOwner
    <3>2. h \in Handles /\ ParentOf(h) \in live /\ h.kind \in KindsOf(o)
        BY <3>1, HeldIsLive DEF Held, HandleInv, HeldInPlace
    <3>3. ASSUME ParentOf(h) \in held[m] PROVE FALSE
      <4>1. ParentOf(h).kind \in KindsOf(m)
          BY <1>2, <3>3 DEF HandleInv, HeldInPlace
      <4>2. ParentOf(h).kind = "image"
          BY <1>2, <3>2, <4>1, ParentKinds, OwnersAreApart DEF PipelineKinds
      <4>3. h.kind = "view"
          BY <3>2, <4>2, ParentKinds
      <4>4. o \in Images
          BY <3>2, <4>3, OwnersAreApart DEF PipelineKinds, ContextKinds
      <4>5. ParentOf(h) \in held[o]
          BY <3>1, <4>3, <4>4 DEF HandleInv, ViewsBesideImages
      <4> QED
          BY <1>2, <2>3, <3>1, <3>3, <4>5 DEF HandleInv, EveryHandleHasOneOwner
    <3> QED
        BY <1>5, <3>2, <3>3
  <2> QED
      BY <1>5, <2>1, <2>2, <2>3
<1> QED
    BY <1>8, <1>9, <1>10, <1>11, <1>12 DEF HandleInv

\* A call that throws leaves what it created with the pool, or with no owner; a tracer
\* half built leaves its sampler so.
LEMMA UnwindKeeps ==
  /\ HandleInv /\ phase \in {"tracer", "ready"} /\ Free # {}
  /\ \E commands \in SUBSET {Handle("command", Fresh)}, fences \in SUBSET {Handle("fence", Fresh)} :
       /\ live' = live \union fences \union commands
       /\ Unwind([held EXCEPT !["context"] = @ \union commands], fences)
  /\ delegates' = delegates
  => HandleInv'
<1> SUFFICES ASSUME HandleInv, phase \in {"tracer", "ready"}, Free # {}, delegates' = delegates,
                    NEW commands \in SUBSET {Handle("command", Fresh)},
                    NEW fences \in SUBSET {Handle("fence", Fresh)},
                    live' = live \union fences \union commands,
                    Unwind([held EXCEPT !["context"] = @ \union commands], fences)
             PROVE  HandleInv'
    OBVIOUS
<1> USE ContextOwns
<1>1. Fresh \in Ids /\ \A h \in live : h.of = delegates => h.id # Fresh
    BY DEF Fresh, Free
<1>2. \A h \in commands :
        /\ h \in Handles /\ h.kind = "command" /\ h.of = delegates /\ h \notin live
        /\ ParentOf(h) = Handle("pool", 0)
  <2>1. SUFFICES LET h == Handle("command", Fresh) IN
                   /\ h \in Handles /\ h.kind = "command" /\ h.of = delegates /\ h \notin live
                   /\ ParentOf(h) = Handle("pool", 0)
      OBVIOUS
  <2>2. ParentOf(Handle("command", Fresh)) = Handle("pool", 0)
      BY HandleFields DEF ParentOf, Handle
  <2> QED
      BY <1>1, <2>2, HandleFields DEF AllKinds, ContextKinds, HandleInv, HandlesTyped
<1>3. \A h \in fences :
        h \in Handles /\ h.kind = "fence" /\ h.of = delegates /\ h \notin live
  <2>1. SUFFICES LET h == Handle("fence", Fresh) IN
                   h \in Handles /\ h.kind = "fence" /\ h.of = delegates /\ h \notin live
      OBVIOUS
  <2> QED
      BY <1>1, HandleFields DEF AllKinds, HandleInv, HandlesTyped
<1> DEFINE moved == IF phase = "ready" THEN {} ELSE held["sampler"]
<1>4. /\ held'["context"] = held["context"] \union commands
      /\ held'["sampler"] = held["sampler"] \ moved
      /\ \A o \in Owners \ {"context", "sampler"} : held'[o] = held[o]
      /\ held' \in [Owners -> SUBSET Handles]
      /\ stranded' = stranded \union fences \union moved
      /\ phase' \in {"release", "ready"}
      /\ phase' = "ready" => phase = "ready"
  <2>1. CASE phase = "ready"
      BY <1>2, <2>1 DEF Unwind, HandleInv, HandlesTyped
  <2>2. CASE phase # "ready"
      BY <1>2, <2>2 DEF Unwind, HandleInv, HandlesTyped
  <2> QED
      BY <2>1, <2>2
<1>5. moved \subseteq held["sampler"]
    OBVIOUS
<1> HIDE DEF moved
<1>6. /\ \A o \in Owners : held[o] \subseteq live /\ held[o] \intersect stranded = {}
      /\ stranded \subseteq live
    BY DEF HandleInv, EveryHandleHasOneOwner
<1>7. HandlesTyped' /\ NoneOfALaterDelegate'
  <2>1. live' \subseteq Handles /\ \A h \in live' : h.of <= delegates
      BY <1>2, <1>3 DEF HandleInv, HandlesTyped, NoneOfALaterDelegate
  <2>2. stranded' \subseteq Handles
      BY <1>3, <1>4, <1>5, <1>6 DEF HandleInv, HandlesTyped
  <2> QED
      BY <1>4, <2>1, <2>2 DEF HandleInv, HandlesTyped, NoneOfALaterDelegate, Phases
<1>8. HeldInPlace'
  <2>1. ASSUME NEW o \in Owners, NEW h \in held'[o]
        PROVE  h.kind \in KindsOf(o) /\ h.of = delegates
    <3>1. h \in held[o] \/ (o = "context" /\ h \in commands)
        BY <1>4, <2>1
    <3> QED
        BY <1>2, <3>1 DEF HandleInv, HeldInPlace, ContextKinds
  <2> QED
      BY <2>1 DEF HeldInPlace
<1>9. BeforeItsContext' /\ WhatTheTracerNeeds'
  <2>1. Context({"instance", "device", "pool"})' = Context({"instance", "device", "pool"})
      BY DEF Context, Handle
  <2>2. Context({"allocator"})' = Context({"allocator"})
      BY DEF Context, Handle
  <2> QED
      BY <1>4, <2>1, <2>2 DEF HandleInv, BeforeItsContext, WhatTheTracerNeeds
<1>10. ViewsBesideImages'
  <2>1. \A n \in Images : n \in Owners \ {"context", "sampler"}
      BY MembersAssumption DEF Owners, Members
  <2> QED
      BY <1>4, <2>1 DEF HandleInv, ViewsBesideImages
<1>11. EveryHandleHasOneOwner'
  <2>1. ASSUME NEW o \in Owners, NEW q \in Owners, o # q PROVE held'[o] \intersect held'[q] = {}
    <3>1. held[o] \intersect held[q] = {}
        BY <2>1 DEF HandleInv, EveryHandleHasOneOwner
    <3> QED
        BY <1>2, <1>4, <1>6, <2>1, <3>1
  <2>2. ASSUME NEW o \in Owners, NEW h \in held'[o], h \in stranded' PROVE FALSE
    <3>1. h \in held[o] \/ (o = "context" /\ h \in commands)
        BY <1>4, <2>2
    <3>2. h \notin fences
        BY <1>2, <1>3, <1>6, <3>1
    <3>3. h \notin stranded
        BY <1>2, <1>6, <3>1
    <3>4. h \in moved
        BY <1>4, <2>2, <3>2, <3>3
    <3>5. o # "sampler"
        BY <1>4, <2>2, <3>4
    <3>6. h \notin held[o]
        BY <1>5, <3>4, <3>5 DEF HandleInv, EveryHandleHasOneOwner
    <3> QED
        BY <1>2, <1>5, <1>6, <3>1, <3>4, <3>6
  <2>3. ASSUME NEW h \in live' PROVE h \in (UNION {held'[o] : o \in Owners}) \union stranded'
    <3>1. CASE h \in fences \union commands
        BY <1>4, <3>1
    <3>2. CASE h \in stranded
        BY <1>4, <3>2
    <3>3. CASE \E o \in Owners : h \in held[o]
      <4>1. PICK o \in Owners : h \in held[o]
          BY <3>3
      <4>2. h \in held'[o] \/ h \in moved
          BY <1>4, <4>1
      <4> QED
          BY <1>4, <4>2
    <3> QED
        BY <2>3, <3>1, <3>2, <3>3 DEF HandleInv, EveryHandleHasOneOwner
  <2>4. ASSUME NEW o \in Owners, NEW h \in held'[o] PROVE h \in live'
      BY <1>4, <1>6, <2>4
  <2>5. ASSUME NEW h \in stranded' PROVE h \in live'
      BY <1>4, <1>5, <1>6, <2>5
  <2>6. live' = (UNION {held'[o] : o \in Owners}) \union stranded'
      BY <2>3, <2>4, <2>5
  <2> QED
      BY <2>1, <2>2, <2>6 DEF EveryHandleHasOneOwner
<1>12. ParentsOutliveChildren'
  <2>1. SUFFICES ASSUME NEW h \in live' \ stranded' PROVE ParentOf(h) \in live'
      BY DEF ParentsOutliveChildren
  <2>2. CASE h \in commands
    <3>1. Handle("pool", 0) \in held["context"]
        BY DEF HandleInv, WhatTheTracerNeeds, Context
    <3> QED
        BY <1>2, <1>6, <2>2, <3>1
  <2>3. CASE h \in live
      BY <1>4, <2>1, <2>3 DEF HandleInv, ParentsOutliveChildren
  <2> QED
      BY <1>4, <2>1, <2>2, <2>3
<1> QED
    BY <1>7, <1>8, <1>9, <1>10, <1>11, <1>12 DEF HandleInv

LEMMA NextHandles == HandleInv /\ [DeviceNext]_vars => HandleInv'
<1> SUFFICES ASSUME HandleInv, [DeviceNext]_vars PROVE HandleInv'
    OBVIOUS
<1> DEFINE Same == delegates' = delegates /\ live' = live /\ held' = held /\ stranded' = stranded
<1>1. ASSUME Same, phase' \in Phases,
             phase' \in {"tracer", "ready"} => phase \in {"tracer", "ready"},
             phase' \in {"none", "context", "allocator"} => phase' = phase
      PROVE  HandleInv'
  <2>1. HandlesTyped' /\ HeldInPlace' /\ NoneOfALaterDelegate' /\ ViewsBesideImages'
      BY <1>1
      DEF HandleInv, HandlesTyped, HeldInPlace, NoneOfALaterDelegate, ViewsBesideImages
  <2>2. BeforeItsContext' /\ WhatTheTracerNeeds'
      BY <1>1 DEF HandleInv, BeforeItsContext, WhatTheTracerNeeds, Context, Handle
  <2>3. EveryHandleHasOneOwner' /\ ParentsOutliveChildren'
      BY <1>1 DEF HandleInv, EveryHandleHasOneOwner, ParentsOutliveChildren
  <2> QED
      BY <2>1, <2>2, <2>3 DEF HandleInv
<1>2. ASSUME NEW host \in Hosts, Initialize(host) PROVE HandleInv'
  <2>1. /\ delegates \in Nat /\ delegates' = delegates + 1 /\ phase = "none"
        /\ phase' = "context" /\ live' = live /\ held' = held /\ stranded' = stranded
      BY <1>2 DEF Initialize, HandleInv, HandlesTyped
  <2>2. held = [o \in Owners |-> {}]
      BY <2>1 DEF HandleInv, BeforeItsContext
  <2>3. \A h \in live : h.of < delegates'
      BY <2>1 DEF HandleInv, HandlesTyped, NoneOfALaterDelegate, Handles
  <2>4. HandlesTyped' /\ NoneOfALaterDelegate'
      BY <2>1, <2>3 DEF HandleInv, HandlesTyped, NoneOfALaterDelegate, Handles, Phases
  <2>5. HeldInPlace' /\ BeforeItsContext' /\ WhatTheTracerNeeds' /\ ViewsBesideImages'
      BY <2>1, <2>2, <2>3
      DEF HandleInv, HeldInPlace, BeforeItsContext, WhatTheTracerNeeds, ViewsBesideImages
  <2>6. EveryHandleHasOneOwner' /\ ParentsOutliveChildren'
      BY <2>1 DEF HandleInv, EveryHandleHasOneOwner, ParentsOutliveChildren
  <2> QED
      BY <2>4, <2>5, <2>6 DEF HandleInv
<1>3. ASSUME NEW m \in Members, Construct(m) PROVE HandleInv'
  <2>1. phase \in {"tracer", "ready"} /\ Free # {} /\ delegates' = delegates
      BY <1>3 DEF Construct, Turn, settings
  <2>2. CASE Assign(m) /\ UNCHANGED <<phase, stranded>>
      BY <2>1, <2>2, AssignKeeps
  <2>3. CASE live' = live /\ Unwind(held, {})
    <3>1. [held EXCEPT !["context"] = @ \union {}] = held /\ live \union {} \union {} = live
        BY DEF HandleInv, HandlesTyped
    <3>2. {} \in SUBSET {Handle("command", Fresh)} /\ {} \in SUBSET {Handle("fence", Fresh)}
        OBVIOUS
    <3> QED
        BY <2>1, <2>3, <3>1, <3>2, UnwindKeeps
  <2>4. ASSUME NEW n \in 0 .. (Len(Pieces(m)) - 1)
        PROVE  live \union (Created(m, n) \ ReleaseAll(Created(m, n))) = live
      BY DEF ReleaseAll
  <2>5. \/ Assign(m) /\ UNCHANGED <<latched, phase, stranded>>
        \/ /\ \E n \in 0 .. (Len(Pieces(m)) - 1) :
                live' = live \union (Created(m, n) \ ReleaseAll(Created(m, n)))
           /\ Unwind(held, {})
      BY <1>3 DEF Construct
  <2> QED
      BY <2>2, <2>3, <2>4, <2>5
<1>4. ASSUME SubmitImmediate PROVE HandleInv'
  <2>1. phase \in {"tracer", "ready"} /\ Free # {} /\ delegates' = delegates
      BY <1>4 DEF SubmitImmediate, settings
  <2>2. CASE live' = live /\ Unwind(held, {})
    <3>1. [held EXCEPT !["context"] = @ \union {}] = held /\ live \union {} \union {} = live
        BY DEF HandleInv, HandlesTyped
    <3>2. {} \in SUBSET {Handle("command", Fresh)} /\ {} \in SUBSET {Handle("fence", Fresh)}
        OBVIOUS
    <3> QED
        BY <2>1, <2>2, <3>1, <3>2, UnwindKeeps
  <2>3. CASE \E fence \in SUBSET {Handle("fence", Fresh)} :
               /\ live' = live \union fence \union {Handle("command", Fresh)}
               /\ Unwind([held EXCEPT !["context"] = @ \union {Handle("command", Fresh)}], fence)
    <3>1. {Handle("command", Fresh)} \in SUBSET {Handle("command", Fresh)}
        OBVIOUS
    <3> QED
        BY <2>1, <2>3, <3>1, UnwindKeeps
  <2> QED
      BY <1>4, <2>2, <2>3 DEF SubmitImmediate, SubmissionThrows
<1>5. CASE BuildContext
    BY <1>5, BuildContextKeeps
<1>6. CASE BuildAllocator
    BY <1>6, BuildAllocatorKeeps
<1>7. CASE TracerBuilt
    BY <1>1, <1>7 DEF TracerBuilt, settings, Phases
<1>8. CASE DeleteRenderDelegate
    BY <1>1, <1>8 DEF DeleteRenderDelegate, settings, Phases
<1>9. CASE Destroy
    BY <1>9, DestroyKeeps
<1>10. CASE Released
    BY <1>10, ReleasedKeeps
<1>11. CASE UNCHANGED vars
    BY <1>1, <1>11 DEF vars, settings, HandleInv, HandlesTyped
<1> QED
    BY <1>2, <1>3, <1>4, <1>5, <1>6, <1>7, <1>8, <1>9, <1>10, <1>11 DEF DeviceNext

\* Each handle has one owner that will destroy it, or is one of those the code gives up,
\* whatever is constructed, assigned, refused or lost, and however often.
THEOREM OneOwner == Spec => []EveryHandleHasOneOwner
<1>1. HandleInv => EveryHandleHasOneOwner
    BY DEF HandleInv
<1> QED
    BY <1>1, InitHandles, NextHandles, PTL DEF Spec

\* No tear-down destroys what a handle was created from before the handle, from
\* whatever point the session ended at.
THEOREM TornDownInOrder == Spec => []ParentsOutliveChildren
<1>1. HandleInv => ParentsOutliveChildren
    BY DEF HandleInv
<1> QED
    BY <1>1, InitHandles, NextHandles, PTL DEF Spec

-----------------------------------------------------------------------------
(* The choice of a device.  The context's is the selection the settings     *)
(* make now, since they change only between contexts, and the probe's is    *)
(* that of the process environment, which does not change.                  *)

LEMMA HasLeast ==
  ASSUME NEW S \in SUBSET Nat, S # {}
  PROVE  \E x \in S : \A y \in S : x <= y
<1>1. PICK x \in S : \A y \in S : ~(<<y, x>> \in OpToRel(<, Nat))
    BY NatLessThanWellFounded, WFMin
<1>2. ASSUME NEW y \in S PROVE x <= y
  <2>1. ~(y < x)
      BY <1>1 DEF OpToRel
  <2> QED
      BY <2>1
<1> QED
    BY <1>2

LEMMA HasGreatest ==
  ASSUME NEW n \in Nat, NEW S \in SUBSET (1 .. n), S # {}
  PROVE  \E x \in S : \A y \in S : y <= x
<1> DEFINE T == {n - y : y \in S}
<1>1. T \in SUBSET Nat /\ T # {}
  <2>1. \A y \in S : n - y \in Nat
      OBVIOUS
  <2> QED
      BY <2>1
<1>2. PICK t \in T : \A u \in T : t <= u
    BY <1>1, HasLeast
<1>3. PICK x \in S : t = n - x
    BY <1>2
<1>4. ASSUME NEW y \in S PROVE y <= x
  <2>1. t <= n - y
      BY <1>2
  <2> QED
      BY <1>3, <2>1
<1> QED
    BY <1>4

\* What is probed is one of the devices that trace, and the one that answers to the
\* preference where there is only one.
LEMMA ProbeTraces ==
  ASSUME NEW devices \in Seq(Candidates), NEW preferred,
         NEW k \in DOMAIN devices, devices[k].traces
  PROVE  \E i \in DOMAIN devices :
           /\ devices[i].traces /\ Probe(devices, preferred) = devices[i]
           /\ Named(devices[k], preferred) => Named(devices[i], preferred)
<1> DEFINE traces == {i \in DOMAIN devices : devices[i].traces}
           named == {i \in traces : Named(devices[i], preferred)}
           last == CHOOSE i \in named : \A j \in named : j <= i
           first == CHOOSE i \in traces : \A j \in traces : i <= j
<1>1. k \in traces /\ traces \subseteq DOMAIN devices /\ DOMAIN devices = 1 .. Len(devices)
      /\ Len(devices) \in Nat
    OBVIOUS
<1>2. Probe(devices, preferred) = IF named # {} THEN devices[last] ELSE devices[first]
    BY <1>1 DEF Probe
<1>3. CASE named # {}
  <2>1. \E i \in named : \A j \in named : j <= i
    <3>1. named \in SUBSET (1 .. Len(devices))
        BY <1>1
    <3> QED
        BY <1>1, <1>3, <3>1, HasGreatest
  <2>2. last \in named
      BY <2>1
  <2> QED
      BY <1>2, <1>3, <2>2
<1>4. CASE named = {}
  <2>1. \E i \in traces : \A j \in traces : i <= j
    <3>1. traces \in SUBSET Nat /\ traces # {}
        BY <1>1
    <3> QED
        BY <3>1, HasLeast
  <2>2. first \in traces /\ ~Named(devices[k], preferred)
      BY <1>1, <1>4, <2>1
  <2> QED
      BY <1>2, <1>4, <2>2
<1> QED
    BY <1>3, <1>4

\* Of what has scores, the first of the best is there.
LEMMA HasBest ==
  ASSUME NEW S \in SUBSET Nat, S # {}, NEW score, \A i \in S : score[i] \in 0 .. 119
  PROVE  \E i \in S : \A j \in S : score[i] > score[j] \/ (score[i] = score[j] /\ i <= j)
<1> DEFINE short == {119 - score[i] : i \in S}
<1>1. short \in SUBSET Nat /\ short # {}
  <2>1. \A i \in S : 119 - score[i] \in Nat
      OBVIOUS
  <2> QED
      BY <2>1
<1>2. PICK d \in short : \A e \in short : d <= e
    BY <1>1, HasLeast
<1> DEFINE top == {i \in S : 119 - score[i] = d}
<1>3. top \in SUBSET Nat /\ top # {}
    BY <1>2
<1>4. PICK i \in top : \A j \in top : i <= j
    BY <1>3, HasLeast
<1>5. ASSUME NEW j \in S
      PROVE  score[i] > score[j] \/ (score[i] = score[j] /\ i <= j)
  <2>1. d <= 119 - score[j] /\ d = 119 - score[i]
      BY <1>2, <1>4
  <2>2. score[i] \in Int /\ score[j] \in Int
    <3>1. i \in S /\ j \in S
        BY <1>4, <1>5
    <3>2. score[i] \in 0 .. 119 /\ score[j] \in 0 .. 119
        BY <3>1
    <3> QED
        BY ONLY <3>2
  <2>3. score[j] <= score[i]
      BY ONLY <2>1, <2>2
  <2>4. score[i] = score[j] => i <= j
      BY <1>4, <2>1
  <2> QED
      BY ONLY <2>2, <2>3, <2>4
<1> QED
    BY <1>4, <1>5

LEMMA ScoresAreBounded ==
  ASSUME NEW c \in Candidates, NEW preferred
  PROVE  /\ Score(c, preferred) \in 0 .. 119 /\ Score(c, preferred) \in Int
         /\ Named(c, preferred) <=> Score(c, preferred) >= 100
<1>1. c.memory \in 0 .. 9
    BY DEF Candidates
<1>2. CASE Named(c, preferred)
    BY <1>1, <1>2 DEF Score
<1>3. CASE ~Named(c, preferred)
    BY <1>1, <1>3 DEF Score
<1> QED
    BY <1>2, <1>3

\* What is selected is usable, and no usable device scores more: the name outweighs
\* everything else.
LEMMA SelectIsBest ==
  ASSUME NEW devices \in Seq(Candidates), NEW preferred,
         Select(devices, preferred) # None
  PROVE  \E i \in DOMAIN devices :
           /\ Usable(devices[i]) /\ Select(devices, preferred) = devices[i]
           /\ \A j \in DOMAIN devices :
                Usable(devices[j]) /\ Named(devices[j], preferred) => Named(devices[i], preferred)
<1> DEFINE score == [i \in DOMAIN devices |-> Score(devices[i], preferred)]
           usable == {i \in DOMAIN devices : Usable(devices[i]) /\ score[i] > 0}
           best == CHOOSE i \in usable : \A j \in usable : score[i] > score[j] \/ (score[i] = score[j] /\ i <= j)
<1>1. Select(devices, preferred) = devices[best] /\ usable # {}
    BY DEF Select
<1>2. /\ DOMAIN devices \subseteq Nat
      /\ \A i \in DOMAIN devices : devices[i] \in Candidates
    OBVIOUS
<1>3. ASSUME NEW i \in DOMAIN devices
      PROVE  score[i] \in 0 .. 119 /\ (Named(devices[i], preferred) <=> score[i] >= 100)
  <2>1. devices[i] \in Candidates /\ score[i] = Score(devices[i], preferred)
      BY <1>2
  <2> QED
      BY <2>1, ScoresAreBounded, Zenon
<1>8. score \in [DOMAIN devices -> Int]
  <2>1. \A i \in DOMAIN devices : Score(devices[i], preferred) \in Int
      BY <1>2, ScoresAreBounded
  <2> QED
      BY <2>1
<1> HIDE DEF score
<1>4. /\ usable \subseteq DOMAIN devices /\ \A i \in usable : Usable(devices[i])
      /\ \A j \in DOMAIN devices : Usable(devices[j]) /\ score[j] > 0 => j \in usable
    OBVIOUS
<1> HIDE DEF usable
<1>5. \E i \in usable : \A j \in usable : score[i] > score[j] \/ (score[i] = score[j] /\ i <= j)
  <2>1. usable \in SUBSET Nat /\ \A i \in usable : score[i] \in 0 .. 119
      BY <1>2, <1>3, <1>4
  <2> QED
      BY <1>1, <2>1, HasBest
<1>6. best \in usable /\ \A j \in usable : score[best] > score[j] \/ (score[best] = score[j] /\ best <= j)
    BY <1>5
<1> HIDE DEF best
<1>7. ASSUME NEW j \in DOMAIN devices, Usable(devices[j]), Named(devices[j], preferred)
      PROVE  Named(devices[best], preferred)
  <2>1. best \in DOMAIN devices
      BY <1>4, <1>6
  <2>2. score[j] >= 100 /\ score[j] \in Int /\ score[best] \in Int
    <3>1. \A k \in DOMAIN devices : score[k] \in Int
        BY <1>8
    <3>2. score[j] >= 100
        BY <1>3, <1>7, Zenon
    <3> QED
        BY <2>1, <3>1, <3>2
  <2>3. j \in usable
    <3>1. score[j] > 0
        BY ONLY <2>2
    <3> QED
        BY <1>4, <1>7, <3>1
  <2>4. score[best] >= score[j]
    <3>1. score[best] > score[j] \/ score[best] = score[j]
        BY <1>6, <2>3
    <3> QED
        BY ONLY <2>2, <3>1
  <2>5. score[best] >= 100
      BY ONLY <2>2, <2>4
  <2> QED
      BY <1>3, <2>1, <2>5, Zenon
<1> QED
    BY <1>1, <1>4, <1>6, <1>7

ChoiceInv ==
  /\ machine \in Machines /\ probed = Probe(machine, environment[DeviceKey])
  /\ phase \in {"none", "context"} => chosen = None
  /\ chosen # None => chosen = Select(machine, EnvironmentValue(DeviceKey))

LEMMA InitChooses == DeviceInit => ChoiceInv
BY DEF DeviceInit, ChoiceInv

LEMMA NextChooses == ChoiceInv /\ [DeviceNext]_vars => ChoiceInv'
<1> SUFFICES ASSUME ChoiceInv, [DeviceNext]_vars PROVE ChoiceInv'
    OBVIOUS
<1>1. ASSUME UNCHANGED settings, chosen' = chosen,
             phase' \in {"none", "context"} => phase \in {"none", "context"}
      PROVE  ChoiceInv'
    BY <1>1 DEF ChoiceInv, settings, EnvironmentValue
<1>2. ASSUME NEW host \in Hosts, Initialize(host) PROVE ChoiceInv'
    BY <1>2 DEF Initialize, ChoiceInv
<1>3. CASE BuildContext
  <2>1. CASE ContextBuilt
      BY <1>3, <2>1 DEF BuildContext, ContextBuilt, ChoiceInv, settings, EnvironmentValue
  <2>2. CASE ContextThrows
      BY <1>1, <1>3, <2>2 DEF BuildContext, ContextThrows
  <2> QED
      BY <1>3, <2>1, <2>2 DEF BuildContext
<1>4. CASE BuildAllocator
  <2>1. phase' \in {"tracer", "release"} /\ chosen' = chosen /\ UNCHANGED settings
      BY <1>4 DEF BuildAllocator
  <2> QED
      BY <1>1, <2>1
<1>5. ASSUME NEW m \in Members, Construct(m) PROVE ChoiceInv'
  <2>1. phase \in {"tracer", "ready"} /\ phase' \in {phase, "release"}
      BY <1>5 DEF Construct, Turn, Unwind
  <2> QED
      BY <1>1, <1>5, <2>1 DEF Construct
<1>6. CASE SubmitImmediate
  <2>1. phase \in {"tracer", "ready"} /\ phase' \in {phase, "release"}
      BY <1>6 DEF SubmitImmediate, SubmissionThrows, Unwind
  <2> QED
      BY <1>1, <1>6, <2>1 DEF SubmitImmediate
<1>7. CASE TracerBuilt \/ DeleteRenderDelegate \/ Destroy
    BY <1>1, <1>7 DEF TracerBuilt, DeleteRenderDelegate, Destroy
<1>8. CASE Released
    BY <1>8 DEF Released, ChoiceInv, settings
<1>9. CASE UNCHANGED vars
    BY <1>1, <1>9 DEF vars
<1> QED
    BY <1>2, <1>3, <1>4, <1>5, <1>6, <1>7, <1>8, <1>9 DEF DeviceNext

LEMMA ChoiceIsProbed == ChoiceInv => ChoosesWhatWasProbed
<1> SUFFICES ASSUME ChoiceInv, chosen # None PROVE ChoosesWhatWasProbed
    BY DEF ChoosesWhatWasProbed
<1> DEFINE now == EnvironmentValue(DeviceKey)
           then == environment[DeviceKey]
<1>1. /\ machine \in Seq(Candidates) /\ None \notin Candidates
      /\ probed = Probe(machine, then) /\ chosen = Select(machine, now)
    BY MachinesAssumption DEF ChoiceInv
<1>2. PICK k \in DOMAIN machine :
        /\ Usable(machine[k]) /\ chosen = machine[k]
        /\ \A j \in DOMAIN machine :
             Usable(machine[j]) /\ Named(machine[j], now) => Named(machine[k], now)
    BY <1>1, SelectIsBest
<1>3. machine[k].traces
    BY <1>2 DEF Usable
<1>4. probed # None
  <2>1. PICK i \in DOMAIN machine : Probe(machine, then) = machine[i]
      BY <1>1, <1>3, ProbeTraces
  <2> QED
      BY <1>1, <2>1
<1>5. ASSUME NEW i \in DOMAIN machine, Usable(machine[i]), Named(machine[i], then), now = then,
             \A j \in DOMAIN machine : machine[j].traces /\ Named(machine[j], then) => j = i
      PROVE  chosen = machine[i] /\ probed = machine[i]
  <2>1. k = i
      BY <1>2, <1>3, <1>5
  <2>2. machine[i].traces
      BY <1>5 DEF Usable
  <2>3. PICK p \in DOMAIN machine :
          machine[p].traces /\ Probe(machine, then) = machine[p] /\ Named(machine[p], then)
      BY <1>1, <1>5, <2>2, ProbeTraces
  <2>4. p = i
      BY <1>5, <2>3
  <2> QED
      BY <1>1, <1>2, <2>1, <2>3, <2>4
<1> QED
    BY <1>2, <1>3, <1>4, <1>5 DEF ChoosesWhatWasProbed

\* A device is chosen only where one was probed, it traces, and where one usable device
\* alone answers to the process environment's preference and the settings leave that as
\* it is, both are that device: on every machine, whatever each host states.
THEOREM ChosenIsProbed == Spec => []ChoosesWhatWasProbed
<1> QED
    BY InitChooses, NextChooses, ChoiceIsProbed, PTL DEF Spec
=============================================================================
