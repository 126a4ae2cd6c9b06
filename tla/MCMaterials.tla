----------------------------- MODULE MCMaterials -----------------------------
(* Two materials that author a few networks between them: two copies of one *)
(* asset whose relative path resolves to different files, a set of tiles    *)
(* that is also a cut-out, a fog with an image of its own, a material whose *)
(* displacement does not compile, and one that is not MaterialX.            *)
EXTENDS Materials

CONSTANTS m1, m2

MCIds == <<m1, m2>>

Image(uniform, file, resolved, type) ==
  [uniform |-> uniform, file |-> file, resolved |-> resolved, route |-> <<>>,
   declared |-> None, source |-> None, type |-> type]

Unused == [state |-> "none", images |-> <<>>]
Opaque == [state |-> "opaque", images |-> <<>>]
Read(images) == [state |-> "read", images |-> images]

\* One file read as a colour and as data, an image with no file, and a height.
Copied(resolved) ==
  [surface |-> Read(<<Image("base", "t", resolved, "color3"),
                      [Image("normal", "t", resolved, "vector3") EXCEPT !.route = <<"dot">>],
                      [Image("mask", "t", resolved, "float") EXCEPT !.route = <<"noise">>]>>),
   displacement |-> Read(<<Image("height", "h", None, "float")>>),
   cutout |-> Opaque, volume |-> Unused]

\* A set of two tiles, cut out by the same set, and a set of one.
Tiled ==
  LET leaf == [Image("leaf", "udim", None, "color4") EXCEPT !.source = "auto"]
  IN  [surface |-> Read(<<leaf, [Image("rough", "one", None, "float") EXCEPT !.declared = "srgb_texture"]>>),
       displacement |-> [state |-> "broken", images |-> <<Image("height", "h", None, "float")>>],
       cutout |-> [state |-> "cut", images |-> <<leaf>>], volume |-> Unused]

\* Cut out by a constant, and by as many images as make a library with Tiled too long.
Holed(images) ==
  [surface |-> Read(images), displacement |-> Unused,
   cutout |-> [state |-> "cut", images |-> images], volume |-> Unused]

Cloud == [surface |-> Unused, displacement |-> Unused, cutout |-> Opaque,
          volume |-> Read(<<Image("density", "fog", None, "float")>>)]

Foreign == [surface |-> [state |-> "foreign", images |-> <<Image("base", "t", None, "color3")>>],
            displacement |-> Read(<<Image("height", "h", None, "float")>>),
            cutout |-> [state |-> "broken", images |-> <<>>], volume |-> Unused]

MCNetworks ==
  {Copied("a"), Copied("b"), Tiled, Cloud, Foreign,
   Holed(<<Image("x", "h", None, "float"), Image("y", "t", "a", "color3"), Image("z", "t", "b", "color3")>>)}

MCTiles == [path \in {"udim", "one"} |-> IF path = "udim" THEN <<1002, 1005>> ELSE <<1003>>]

\* The height map is not there.
MCUnreadable == {<<"h", 0>>}
==============================================================================
