------------------------- MODULE TileClassification -------------------------
(***************************************************************************)
(* Chunks against the footprints of the MGRS tiles                         *)
(* (tile_classification.py:63-248 and tile_classification.rs:51-222).      *)
(* A footprint is the set of the pixels it covers, so an area is a number  *)
(* of pixels, and a geometry without a pixel of the grid is still a        *)
(* geometry.  Tile codes are numbered in their sorted order.               *)
(***************************************************************************)
EXTENDS Integers, Sequences, FiniteSets, SequencesExt, Ordering

CONSTANTS None, MinExclusive   (* min_exclusive_pixels                     *)

ASSUME MinExclusiveAssumption == MinExclusive \in Nat

(* A scene is [tile, geometry]: a code or None, and the parts of its shape,*)
(* each a set of pixels; no part is a geometry that is missing or bad.     *)
Tiles(scenes) == {scenes[s].tile : s \in DOMAIN scenes} \ {None}
WithTile(scenes, t) == {s \in DOMAIN scenes : scenes[s].tile = t}

Drawn(scenes) == {s \in DOMAIN scenes : scenes[s].tile # None /\ scenes[s].geometry # <<>>}
WholeShapes(scenes) == [s \in Drawn(scenes) |-> UNION Range(scenes[s].geometry)]
(* parse_geojson_polygon: of a MultiPolygon the first.                     *)
FirstParts(scenes) == [s \in Drawn(scenes) |-> scenes[s].geometry[1]]

Footprints(scenes, shape) ==
  [t \in {scenes[s].tile : s \in DOMAIN shape} |->
     UNION {shape[s] : s \in DOMAIN shape \cap WithTile(scenes, t)}]

Meeting(fp, chunk) == {t \in DOMAIN fp : fp[t] \cap chunk # {}}
Common(fp, chunk, t) == Cardinality(fp[t] \cap chunk)
Exclusive(fp, chunk, t) == Cardinality((fp[t] \cap chunk) \ UNION {fp[u] : u \in DOMAIN fp \ {t}})

OfGreatest(fp, chunk) ==
  {t \in Meeting(fp, chunk) : \A u \in Meeting(fp, chunk) : Common(fp, chunk, u) <= Common(fp, chunk, t)}
FirstLargest(fp, chunk) == CHOOSE t \in OfGreatest(fp, chunk) : \A u \in OfGreatest(fp, chunk) : t <= u
LastLargest(fp, chunk) == CHOOSE t \in OfGreatest(fp, chunk) : \A u \in OfGreatest(fp, chunk) : u <= t

MostExclusiveFirst(fp, chunk, tiles) ==
  Ordered(tiles, LAMBDA t, u :
    LET et == Exclusive(fp, chunk, t)   eu == Exclusive(fp, chunk, u)
    IN  et > eu \/ (et = eu /\ t < u))

Required(fp, chunk, largest) ==
  LET needed == {t \in Meeting(fp, chunk) : Exclusive(fp, chunk, t) >= MinExclusive}
  IN  IF Meeting(fp, chunk) = {} THEN <<>>
      ELSE IF needed = {} THEN <<largest>> ELSE MostExclusiveFirst(fp, chunk, needed)

Unreachable(fp, chunk) == chunk \ UNION {fp[t] : t \in DOMAIN fp}

(* build_partition; chunks is the sequence of the chunks' pixels.          *)
Partition(scenes, chunks) ==
  LET fp == Footprints(scenes, WholeShapes(scenes))
  IN  IF DOMAIN fp = {} THEN None
      ELSE [required    |-> [c \in DOMAIN chunks |-> Required(fp, chunks[c], FirstLargest(fp, chunks[c]))],
            unreachable |-> [c \in DOMAIN chunks |-> Unreachable(fp, chunks[c])],
            tiles       |-> DOMAIN fp]

RustPartition(scenes, chunks) ==
  LET fp == Footprints(scenes, FirstParts(scenes))
  IN  IF DOMAIN fp = {} THEN None
      ELSE [required    |-> [c \in DOMAIN chunks |-> Required(fp, chunks[c], LastLargest(fp, chunks[c]))],
            unreachable |-> [c \in DOMAIN chunks |-> Unreachable(fp, chunks[c])],
            tiles       |-> DOMAIN fp]
=============================================================================
