------------------------------ MODULE Materials ------------------------------
(***************************************************************************)
(* From a material's network to the images its programs read: the compiler *)
(* and its cache by content (hydra/material_compiler.cpp), the generator's *)
(* numbering of textures (materialx/pathtracer_generator.cpp), the pool of *)
(* decoded images (hydra/texture_loader.cpp), the batch that gives every   *)
(* program its slots (hydra/material.cpp), and the opacity library that    *)
(* the traversal kernels of a published scene are compiled with.           *)
(*                                                                         *)
(* A host edits at "idle".  Hydra then syncs what is dirty and executes    *)
(* the pass: the quality is applied, pending materials are compiled one by *)
(* one, their textures are acquired in one batch, and the scene, if it     *)
(* changed, is published.  All of it runs on one thread, so a batch is one *)
(* step.  Every material is bound; SceneStore has the bindings.            *)
(***************************************************************************)
EXTENDS Integers, Sequences, SequencesExt, FiniteSets

CONSTANTS
  None,
  Ids,         \* material prims, in the order of their paths
  Networks,    \* networks a host can author
  Tiles,       \* path -> the UDIM tiles on disk, ascending; <<>> where no set
  Unreadable,  \* files no image plugin opens
  Maps,        \* files a dome can name
  Qualities,   \* texture qualities a host can state
  Capacity,    \* kTextureCapacity
  MaxEdits     \* bound: edits a host makes

(***************************************************************************)
(* A network is its terminals, each [state, images]; an image is           *)
(* [uniform, file, resolved, route, declared, source, type]: the file it   *)
(* names, where USD resolved it, the nodes its file input is routed        *)
(* through, and what says how its bytes are read.                          *)
(***************************************************************************)
ImageFields == {"uniform", "file", "resolved", "route", "declared", "source", "type"}

ASSUME IdsAssumption == Ids \in Seq(ToSet(Ids)) /\ "dome" \notin ToSet(Ids)

\* A program has one uniform of a name, and USD resolves only a file that is named.
ASSUME NetworksAssumption ==
  /\ None \notin Networks /\ None \notin Maps
  /\ \A n \in Networks :
        /\ DOMAIN n = {"surface", "displacement", "cutout", "volume"}
        /\ \A t \in DOMAIN n :
              /\ {"state", "images"} \subseteq DOMAIN n[t]
              /\ n[t].images \in Seq(ToSet(n[t].images))
              /\ \A i, j \in DOMAIN n[t].images :
                    n[t].images[i].uniform = n[t].images[j].uniform => i = j
              /\ \A image \in ToSet(n[t].images) :
                    /\ DOMAIN image = ImageFields
                    /\ image.file = None => image.resolved = None

ASSUME TilesAssumption ==
  \A path \in DOMAIN Tiles :
    /\ Tiles[path] \in Seq(ToSet(Tiles[path]))
    /\ \A i, j \in DOMAIN Tiles[path] : Tiles[path][i] = Tiles[path][j] => i = j

VARIABLES
  network,    \* id -> the network the stage holds, for the materials it has
  map,        \* the file of the dome, None without one
  quality,    \* the textureQuality setting
  dirty,      \* ids, and "dome", that Hydra has yet to sync
  at,         \* "idle", "compile", "publish", "traced"
  edits,
  entry,      \* id -> the store's material, for those it has
  domeSlot,   \* the store's dome texture
  compiled,   \* materials compiled in this frame, their textures to acquire
  cache,      \* _compiled
  library,    \* _traversalKey and _traversal
  pool,       \* the texture pool: sources, images and the edge cap
  stale,      \* the store's revision, or the pass, asks for a publication
  published   \* the scene the path tracer was last given

host == <<network, map, quality, edits>>
store == <<entry, domeSlot>>
vars == <<host, dirty, at, store, compiled, cache, library, pool, stale, published>>

\* The parts one after another, and what a sequence has at some places.
Concat(parts) ==
  LET Upto[n \in 0..Len(parts)] == IF n = 0 THEN <<>> ELSE Upto[n - 1] \o parts[n]
  IN  Upto[Len(parts)]
Chosen(s, places) == Concat([i \in DOMAIN s |-> IF i \in places THEN <<s[i]>> ELSE <<>>])

Mapped(Op(_), s) == [i \in DOMAIN s |-> Op(s[i])]
Firsts(s) == {i \in DOMAIN s : \A j \in DOMAIN s : s[j] = s[i] => i <= j}

-----------------------------------------------------------------------------
(* How an image is named and read.                                         *)

\* Only a dot and a constant are elided; behind anything else no path is found.
FilenameSource(image) == IF ToSet(image.route) \subseteq {"dot", "constant"} THEN image.file ELSE None

ResolvedTexturePath(image) ==
  IF FilenameSource(image) = None THEN None
  ELSE IF image.resolved # None THEN image.resolved
  ELSE image.file

Declared(image) == IF image.declared # None THEN image.declared ELSE image.source

ImageColorSpace(image) ==
  IF Declared(image) \notin {None, "auto"}
  THEN IF Declared(image) \in {"srgb_texture", "sRGB", "g22_rec709"} THEN "Srgb" ELSE "Raw"
  ELSE IF image.type \in {"color3", "color4", "multioutput"} THEN "Auto" ELSE "Raw"

ResolveUdimTiles(image) ==
  IF ResolvedTexturePath(image) \in DOMAIN Tiles THEN Tiles[ResolvedTexturePath(image)] ELSE <<>>

\* The array indices of a program: an image without a file takes none, a set
\* of two tiles or more takes one for each.
ImageSlots(image) ==
  IF FilenameSource(image) = None THEN <<>>
  ELSE IF Len(ResolveUdimTiles(image)) < 2 THEN <<[uniform |-> image.uniform, tile |-> 0]>>
  ELSE Mapped(LAMBDA t : [uniform |-> image.uniform, tile |-> t], ResolveUdimTiles(image))
TextureOrder(images) == Concat(Mapped(ImageSlots, images))

ImageOf(images, uniform) == images[SelectInSeq(images, LAMBDA image : image.uniform = uniform)]

\* A tile the slot does not state is that of a set of one.
SubstituteUdimTile(image, tile) ==
  IF tile = 0 /\ Len(ResolveUdimTiles(image)) = 1 THEN Head(ResolveUdimTiles(image)) ELSE tile

CollectTexturePaths(images) ==
  Mapped(LAMBDA slot :
           LET image == ImageOf(images, slot.uniform)
           IN  [path  |-> <<ResolvedTexturePath(image), SubstituteUdimTile(image, slot.tile)>>,
                space |-> ImageColorSpace(image)],
         TextureOrder(images))

-----------------------------------------------------------------------------
(* The compiler.                                                           *)

Program(images) ==
  [samples |-> TextureOrder(images), textures |-> CollectTexturePaths(images)]
NoProgram == [samples |-> <<>>, textures |-> <<>>]

Generates(terminal) == terminal.state = "read" /\ Len(TextureOrder(terminal.images)) <= Capacity

\* What is taken out of a surface or a volume for the library carries its
\* paths resolved, since the library's document has nothing to resolve by.
Baked(images) ==
  Mapped(LAMBDA image :
           IF ResolvedTexturePath(image) = None THEN image
           ELSE [image EXCEPT !.file = ResolvedTexturePath(image), !.resolved = None],
         images)

Nothing == [state |-> "none", images |-> <<>>]

AuthoredCutoutOpacity(n) ==
  IF n.cutout.state \in {"cut", "broken"}
  THEN [n.cutout EXCEPT !.images = Baked(n.cutout.images)] ELSE Nothing

AuthoredVolume(n) ==
  IF n.volume.state \in {"read", "broken"}
  THEN [n.volume EXCEPT !.images = Baked(n.volume.images)] ELSE Nothing

CompileDiffuse == [surface |-> NoProgram, displace |-> NoProgram, cutout |-> Nothing, volume |-> Nothing]

\* A displacement that is missing, will not build or will not compile leaves
\* the surface as it is, and no textures.
CompileDisplacement(n) ==
  IF Generates(n.displacement) THEN Program(n.displacement.images) ELSE NoProgram

\* A volume without a surface is a fog boundary, with a program no path reaches.
CompileUncached(n) ==
  IF n.volume.state # "none" /\ n.surface.state = "none"
  THEN [CompileDiffuse EXCEPT !.volume = AuthoredVolume(n)]
  ELSE IF ~Generates(n.surface) THEN CompileDiffuse
  ELSE [surface  |-> Program(n.surface.images),
        displace |-> CompileDisplacement(n),
        cutout   |-> AuthoredCutoutOpacity(n),
        volume   |-> Nothing]

\* Mutant: an asset path is keyed as the layer writes it.
NetworkContentKey_authored(n) ==
  [t \in DOMAIN n |-> [n[t] EXCEPT !.images =
     Mapped(LAMBDA image : [image EXCEPT !.resolved = None], n[t].images)]]

\* Everything of a network, its asset paths where they resolve.
NetworkContentKey(n) ==
  [t \in DOMAIN n |-> [n[t] EXCEPT !.images =
     Mapped(LAMBDA image :
              [image EXCEPT !.file = IF image.resolved # None THEN image.resolved ELSE image.file,
                            !.resolved = None],
            n[t].images)]]

-----------------------------------------------------------------------------
(* The pool.  A slot's number is its place in sources, which is what _slots *)
(* says; an image is its file, read in a colour space, under a cap.        *)

HdClaudeTextureEdgeCap(q) == CASE q = "medium" -> 1024 [] q = "low" -> 256 [] OTHER -> 0

DecodePoolImage(key, cap) ==
  IF key.path \in Unreadable THEN None ELSE [path |-> key.path, space |-> key.space, cap |-> cap]

\* What a batch asks for that the pool does not hold, each once.
Reserve(requests) ==
  Chosen(requests, {i \in Firsts(requests) : requests[i] \notin ToSet(pool.sources)})

AcquireAll(requests) ==
  [sources |-> pool.sources \o Reserve(requests),
   images  |-> pool.images
                 \o Mapped(LAMBDA key : DecodePoolImage(key, pool.maxEdge), Reserve(requests)),
   maxEdge |-> pool.maxEdge]

Slot(p, key) == SelectInSeq(p.sources, LAMBDA source : source = key)
Slots(p, requests) == Mapped(LAMBDA key : Slot(p, key), requests)

\* Every image is decoded again from its own file, into the slot it has.
SetMaxEdge(cap) ==
  [sources |-> pool.sources,
   images  |-> Mapped(LAMBDA key : DecodePoolImage(key, cap), pool.sources),
   maxEdge |-> cap]

-----------------------------------------------------------------------------
(* The host, and Hydra's syncs.                                            *)

Edit == at = "idle" /\ edits < MaxEdits /\ edits' = edits + 1
Unsynced == <<at, store, compiled, cache, library, pool, stale, published>>

\* n = None takes the material away, and Finalize takes it from the store.
StateNetwork(m, n) ==
  /\ Edit
  /\ n # network[m]
  /\ network' = [network EXCEPT ![m] = n]
  /\ IF n = None
     THEN /\ entry' = [x \in DOMAIN entry \ {m} |-> entry[x]]
          /\ stale' = (stale \/ m \in DOMAIN entry)
          /\ dirty' = dirty \ {m}
     ELSE dirty' = dirty \union {m} /\ UNCHANGED <<entry, stale>>
  /\ UNCHANGED <<map, quality, at, domeSlot, compiled, cache, library, pool, published>>

StateMap(f) ==
  /\ Edit
  /\ f # map
  /\ map' = f
  /\ dirty' = dirty \union {"dome"}
  /\ UNCHANGED <<network, quality, Unsynced>>

StateQuality(q) ==
  /\ Edit
  /\ q # quality
  /\ quality' = q
  /\ UNCHANGED <<network, map, dirty, Unsynced>>

\* Published pending; the pass compiles it.
SyncMaterial(m) ==
  /\ at = "idle" /\ m \in dirty
  /\ entry' = [x \in DOMAIN entry \union {m} |->
                 IF x = m THEN [pending |-> TRUE, network |-> network[m]] ELSE entry[x]]
  /\ stale' = TRUE
  /\ dirty' = dirty \ {m}
  /\ UNCHANGED <<host, at, domeSlot, compiled, cache, library, pool, published>>

DomeRequest(f) == [path |-> <<f, 0>>, space |-> "Auto"]

SyncDome ==
  /\ at = "idle" /\ "dome" \in dirty
  /\ pool' = IF map = None THEN pool ELSE AcquireAll(<<DomeRequest(map)>>)
  /\ domeSlot' = IF map = None THEN None ELSE Slot(pool', DomeRequest(map))
  /\ stale' = TRUE
  /\ dirty' = dirty \ {"dome"}
  /\ UNCHANGED <<host, at, entry, compiled, cache, library, published>>

-----------------------------------------------------------------------------
(* Execute.                                                                *)

ApplyQuality ==
  /\ at = "idle" /\ dirty = {}
  /\ LET cap == HdClaudeTextureEdgeCap(quality)
     IN  IF cap = pool.maxEdge THEN UNCHANGED <<pool, stale>>
         ELSE pool' = SetMaxEdge(cap) /\ stale' = TRUE
  /\ at' = "compile"
  /\ UNCHANGED <<host, dirty, store, compiled, cache, library, published>>

BoundPendingMaterials ==
  Chosen(Ids, {i \in DOMAIN Ids : Ids[i] \in DOMAIN entry /\ entry[Ids[i]].pending})

Compile ==
  /\ at = "compile" /\ Len(compiled) < Len(BoundPendingMaterials)
  /\ LET m   == BoundPendingMaterials[Len(compiled) + 1]
         key == NetworkContentKey(entry[m].network)
         result == IF key \in DOMAIN cache THEN cache[key] ELSE CompileUncached(entry[m].network)
     IN  /\ compiled' = Append(compiled, [id |-> m, key |-> key, result |-> result])
         /\ cache' = IF key \in DOMAIN cache THEN cache
                     ELSE [k \in DOMAIN cache \union {key} |-> IF k = key THEN result ELSE cache[k]]
  /\ UNCHANGED <<host, dirty, at, store, library, pool, stale, published>>

\* A material's surface and then its displacement, material by material.
Requests(batch) ==
  Concat(Mapped(LAMBDA c : c.result.surface.textures \o c.result.displace.textures, batch))

\* Slots are dealt out of the batch in the order it was asked for.
Dealt(batch, k, slots) ==
  LET r      == batch[k].result
      before == Len(Concat(Mapped(LAMBDA c : c.result.surface.textures \o c.result.displace.textures,
                                  SubSeq(batch, 1, k - 1))))
      middle == before + Len(r.surface.textures)
  IN  [pending |-> FALSE, key |-> batch[k].key, compiled |-> r,
       slots         |-> SubSeq(slots, before + 1, middle),
       displaceSlots |-> SubSeq(slots, middle + 1, middle + Len(r.displace.textures))]

AcquireTextures ==
  /\ at = "compile" /\ Len(compiled) = Len(BoundPendingMaterials)
  /\ pool' = AcquireAll(Requests(compiled))
  /\ entry' = [m \in DOMAIN entry |->
                 LET k == SelectInSeq(compiled, LAMBDA c : c.id = m)
                 IN  IF k = 0 THEN entry[m] ELSE Dealt(compiled, k, Slots(pool', Requests(compiled)))]
  /\ stale' = (stale \/ compiled # <<>>)
  /\ compiled' = <<>>
  /\ at' = "publish"
  /\ UNCHANGED <<host, dirty, domeSlot, cache, library, published>>

\* The materials of a snapshot: those of one network have one place.
Shown == Chosen(Ids, {i \in DOMAIN Ids : Ids[i] \in DOMAIN entry})
Keys == LET all == Mapped(LAMBDA m : entry[m].key, Shown) IN Chosen(all, Firsts(all))
Table == Mapped(LAMBDA key : entry[Shown[SelectInSeq(Shown, LAMBDA m : entry[m].key = key)]], Keys)
MaterialIndex == [m \in ToSet(Shown) |-> SelectInSeq(Keys, LAMBDA key : key = entry[m].key)]

\* The materials of a table with a part of their own, at their index.
Members(table, part) ==
  Chosen([i \in DOMAIN table |-> [index |-> i, of |-> table[i].compiled[part]]],
     {i \in DOMAIN table : table[i].compiled[part] # Nothing})

\* Mutant: the key says what is cut out, not at which index.
TraversalKey_unindexed(table) ==
  [cutout |-> Mapped(LAMBDA c : c.of, Members(table, "cutout")),
   volume |-> Mapped(LAMBDA c : c.of, Members(table, "volume"))]

TraversalKey(table) == [cutout |-> Members(table, "cutout"), volume |-> Members(table, "volume")]

Cut(table) == Members(table, "cutout")
Media(table) == Members(table, "volume")

\* One document of every member's nodes, each under a prefix of its index.
OpacityLibraryDocument(table) ==
  Concat(Mapped(LAMBDA member :
                  Mapped(LAMBDA image : [image EXCEPT !.uniform = <<member.index, @>>], member.of.images),
                Cut(table) \o Media(table)))

\* Whatever fails, every surface of the scene is opaque and no medium is there.
NoTraversal == [valid |-> FALSE, cutout |-> <<>>, volume |-> <<>>, samples |-> <<>>, textures |-> <<>>]

Traversal(table) ==
  IF \/ \E member \in ToSet(Cut(table) \o Media(table)) : member.of.state = "broken"
     \/ Len(TextureOrder(OpacityLibraryDocument(table))) > Capacity
  THEN NoTraversal
  ELSE [valid    |-> TRUE,
        cutout   |-> Mapped(LAMBDA member : member.index, Cut(table)),
        volume   |-> Mapped(LAMBDA member : member.index, Media(table)),
        samples  |-> TextureOrder(OpacityLibraryDocument(table)),
        textures |-> CollectTexturePaths(OpacityLibraryDocument(table))]

\* Generated once for a set of members, and not at all for none.
CompileTraversal(table) ==
  IF Cut(table) \o Media(table) = <<>> THEN [library |-> library, traversal |-> NoTraversal]
  ELSE LET kept == library.key = TraversalKey(table)
           made == IF kept THEN library.traversal ELSE Traversal(table)
       IN  [library |-> [key |-> TraversalKey(table), traversal |-> made], traversal |-> made]

Publish ==
  /\ at = "publish" /\ stale
  /\ LET compile   == CompileTraversal(Table)
         traversal == compile.traversal
     IN  /\ library' = compile.library
         /\ pool' = AcquireAll(traversal.textures)
         /\ published' =
              [table |-> Table, index |-> MaterialIndex, textures |-> pool'.images, dome |-> domeSlot,
               traversal |-> traversal, slots |-> Slots(pool', traversal.textures)]
  /\ stale' = FALSE
  /\ at' = "traced"
  /\ UNCHANGED <<host, dirty, store, compiled, cache>>

KeepPublished ==
  /\ at = "publish" /\ ~stale
  /\ at' = "traced"
  /\ UNCHANGED <<host, dirty, store, compiled, cache, library, pool, stale, published>>

Return ==
  /\ at = "traced"
  /\ at' = "idle"
  /\ UNCHANGED <<host, dirty, store, compiled, cache, library, pool, stale, published>>

-----------------------------------------------------------------------------
Init ==
  /\ network = [m \in ToSet(Ids) |-> None]
  /\ map = None /\ quality = "high"
  /\ dirty = {} /\ at = "idle" /\ edits = 0
  /\ entry = <<>> /\ domeSlot = None
  /\ compiled = <<>> /\ cache = << >>
  /\ library = [key |-> <<>>, traversal |-> NoTraversal]
  /\ pool = [sources |-> <<>>, images |-> <<>>, maxEdge |-> 0]
  /\ stale = TRUE
  /\ published = None

Next ==
  \/ \E m \in ToSet(Ids), n \in Networks \union {None} : StateNetwork(m, n)
  \/ \E f \in Maps \union {None} : StateMap(f)
  \/ \E q \in Qualities : StateQuality(q)
  \/ \E m \in ToSet(Ids) : SyncMaterial(m)
  \/ SyncDome
  \/ ApplyQuality \/ Compile \/ AcquireTextures \/ Publish \/ KeepPublished \/ Return

Spec == Init /\ [][Next]_vars

-----------------------------------------------------------------------------
(* What a material asks for, said of its own network alone.                *)

\* The texels behind a tile of an image: the tile's file, or the one file.
Texels(image, tile) ==
  LET tiles == ResolveUdimTiles(image)
      file  == IF Len(tiles) = 1 THEN tiles[1] ELSE tile
  IN  DecodePoolImage([path |-> <<ResolvedTexturePath(image), file>>, space |-> ImageColorSpace(image)],
                      HdClaudeTextureEdgeCap(quality))

\* The tiles a program must be able to sample of an image.
TilesRead(image) ==
  IF FilenameSource(image) = None THEN {}
  ELSE IF Len(ResolveUdimTiles(image)) < 2 THEN {0} ELSE ToSet(ResolveUdimTiles(image))

\* Every index a program samples is bound to the texels its network means.
ReadsOwn(samples, slots, images) ==
  /\ ToSet(samples) = UNION {{[uniform |-> i.uniform, tile |-> t] : t \in TilesRead(i)} : i \in ToSet(images)}
  /\ Len(slots) = Len(samples)
  /\ \A k \in DOMAIN samples :
       published.textures[slots[k]] = Texels(ImageOf(images, samples[k].uniform), samples[k].tile)

\* Whenever the renderer traces, a material's surface and its displacement
\* read, at every index they sample, the file their own network resolves to,
\* in its colour space, at the quality now stated; so does the dome.  It holds
\* across programs shared by content, batches, duplicates, sets of tiles,
\* unreadable files, failed programs and images decoded again
\* (material_compiler.cpp 76, 699, 1110; material.cpp 119; texture_loader.cpp
\* 522, 629).
ReadsItsOwnImages ==
  at = "traced" =>
    /\ \A m \in ToSet(Ids) :
         network[m] # None =>
           LET p == published.table[published.index[m]]
               c == p.compiled
               n == network[m]
           IN  /\ ReadsOwn(c.surface.samples, p.slots,
                           IF Generates(n.surface) THEN n.surface.images ELSE <<>>)
               /\ ReadsOwn(c.displace.samples, p.displaceSlots,
                           IF Generates(n.surface) /\ Generates(n.displacement)
                           THEN n.displacement.images ELSE <<>>)
    /\ map # None => published.textures[published.dome] =
                       DecodePoolImage(DomeRequest(map), HdClaudeTextureEdgeCap(quality))

\* The materials of the stage that a ray has to ask about.
CutOut == {m \in ToSet(Ids) : network[m] # None /\ Generates(network[m].surface)
                                /\ network[m].cutout.state \in {"cut", "broken"}}
Fog == {m \in ToSet(Ids) : network[m] # None /\ network[m].surface.state = "none"
                             /\ network[m].volume.state \in {"read", "broken"}}

ImagesAsked(m) == IF m \in CutOut THEN network[m].cutout.images ELSE network[m].volume.images

LibrarySize ==
  Cardinality(UNION {UNION {{<<published.index[m], i.uniform, t>> : t \in TilesRead(i)} :
                            i \in ToSet(ImagesAsked(m))} : m \in CutOut \union Fog})

\* Traversal asks about exactly the materials that are cut out or a fog, by the
\* index the published table gives them, and reads each one's own images; or
\* it is not there, and then the library could not be generated
\* (material_compiler.cpp 1410, render_pass.cpp 958).
TraversalMatchesTheTable ==
  at = "traced" =>
    LET t == published.traversal
        ImagesOf(i) == ImagesAsked(CHOOSE m \in CutOut \union Fog : published.index[m] = i)
    IN  IF t.valid
        THEN /\ ToSet(t.cutout) = {published.index[m] : m \in CutOut}
             /\ ToSet(t.volume) = {published.index[m] : m \in Fog}
             /\ Len(t.samples) = Len(published.slots)
             /\ \A k \in DOMAIN t.samples :
                  LET sample == t.samples[k]
                      image  == ImageOf(ImagesOf(sample.uniform[1]), sample.uniform[2])
                  IN  published.textures[published.slots[k]] = Texels(image, sample.tile)
        ELSE \/ CutOut \union Fog = {}
             \/ \E m \in CutOut : network[m].cutout.state = "broken"
             \/ \E m \in Fog : network[m].volume.state = "broken"
             \/ LibrarySize > Capacity
==============================================================================
