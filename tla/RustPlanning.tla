---------------------------- MODULE RustPlanning ----------------------------
(***************************************************************************)
(* Scene selection of the Rust build (pipeline.rs:244-714, py.rs:341-397,  *)
(* 588-641): the scout's cells per chunk, the tiles each chunk requires,   *)
(* and then the adaptive selection, which stacks scenes on one chunk and   *)
(* one tile until enough cells are clear, or the fixed one, the top_k of   *)
(* each tile.  A pixel stands for a cell of a chunk's mask.                *)
(***************************************************************************)
EXTENDS TileClassification, FiniteSetsExt

CONSTANTS Areas,       (* [height, width, size]                            *)
          Catalogues,  (* area -> the scene lists it may have              *)
          Policies,    (* [adaptive, target (percent), minK, maxK, topK]   *)
          PreferFull   (* SPX_FULL_PREF                                    *)

ASSUME AreasAssumption ==
  \A a \in Areas : a.height \in Nat \ {0} /\ a.width \in Nat \ {0} /\ a.size \in Nat \ {0}
ASSUME PoliciesAssumption ==
  \A p \in Policies : p.target \in Nat /\ p.minK \in Nat /\ p.maxK \in Nat

(* A scene is [tile, geometry, valid, clear]: where the scout saw data and *)
(* where it saw clear ground, a part of it; valid is None if its scout     *)
(* failed.                                                                 *)
ASSUME CataloguesAssumption ==
  \A a \in Areas : \A list \in Catalogues[a] :
    /\ Len(list) \in Nat /\ DOMAIN list = 1 .. Len(list)
    /\ \A s \in DOMAIN list : list[s].valid # None => list[s].clear \subseteq list[s].valid

VARIABLES area, policy, scenes, partition,
          chunk,     (* chunk id the selection is at                       *)
          pass,      (* which of the chunk's footprints                    *)
          view,      (* its candidates, or None before they are looked up  *)
          used,      (* scenes taken for this chunk and footprint          *)
          covered,   (* cells they have clear                              *)
          chosen,    (* scene -> chunk ids that asked for it, in order     *)
          picks      (* the fixed selection's scenes, best first           *)

selectVars == <<area, policy, scenes, partition, chunk, pass, view, used, covered, chosen, picks>>

DivCeil(n, d) == (n + d - 1) \div d
Columns == DivCeil(area.width, area.size)
Chunks == 0 .. Columns * DivCeil(area.height, area.size) - 1

Least(a, b) == IF a < b THEN a ELSE b
TopRow(c) == (c \div Columns) * area.size
LeftCol(c) == (c % Columns) * area.size
ChunkPixels(c) == (TopRow(c) .. Least(TopRow(c) + area.size, area.height) - 1)
                  \X (LeftCol(c) .. Least(LeftCol(c) + area.size, area.width) - 1)

-----------------------------------------------------------------------------
(* scout: per_chunk_masks, quality_to_stats.                               *)
Scouted(s) == scenes[s].valid # None
Valid(s, c) == scenes[s].valid \cap ChunkPixels(c)
Clear(s, c) == scenes[s].clear \cap ChunkPixels(c)
Finite(s) == Scouted(s) /\ scenes[s].valid # {}
Clearer(s, u) == Cardinality(scenes[s].clear) * Cardinality(scenes[u].valid)
                   > Cardinality(scenes[u].clear) * Cardinality(scenes[s].valid)

Classified(list) == RustPartition(list, [n \in 1 .. Cardinality(Chunks) |-> ChunkPixels(n - 1)])

SelectInit == /\ area \in Areas
        /\ policy \in Policies
        /\ scenes = <<>> /\ partition = None
        /\ chunk = 0 /\ pass = 1 /\ view = None
        /\ used = {} /\ covered = {}
        /\ chosen = <<>>
        /\ picks = <<>>

(* The scenes are listed, scouted and classified.                          *)
ListAndScout ==
  /\ scenes = <<>>
  /\ \E list \in Catalogues[area] :
       /\ scenes' = list
       /\ partition' = Classified(list)
       /\ chosen' = [s \in DOMAIN list |-> <<>>]
  /\ UNCHANGED <<area, policy, chunk, pass, view, used, covered, picks>>

-----------------------------------------------------------------------------
(* select_adaptive: the footprints of a chunk are its required tiles, or   *)
(* the whole chunk (None) if there are none.                               *)
RequiredOf(c) == IF partition = None THEN <<>> ELSE partition.required[c + 1]
FootprintsOf(c) == IF RequiredOf(c) = <<>> THEN <<None>> ELSE RequiredOf(c)
Footprint == FootprintsOf(chunk)[pass]

Pooled(c, t) == {s \in DOMAIN scenes : Finite(s) /\ Valid(s, c) # {}}   \* variant: tiles are pooled
Candidates(c, t) == {s \in DOMAIN scenes : /\ t = None \/ scenes[s].tile = t
                                           /\ Finite(s) /\ Valid(s, c) # {}}

Views(c, t) ==
  LET all == Candidates(c, t)
      reachable == UNION {Valid(s, c) : s \in all}
      Unobserved(s) == Cardinality(reachable \ Valid(s, c))
  IN  [all       |-> all,
       reachable |-> reachable,
       full      |-> {s \in all : PreferFull => Unobserved(s) * 100 <= Cardinality(reachable)}]

Selecting == scenes # <<>> /\ policy.adaptive /\ chunk \in Chunks

LookUp ==
  /\ Selecting /\ view = None
  /\ view' = Views(chunk, Footprint)
  /\ UNCHANGED <<area, policy, scenes, partition, chunk, pass, used, covered, chosen, picks>>

Unused == view.all \ used
FullLeft == view.full \ used
Gain(s) == Cardinality(Clear(s, chunk) \ covered)
BestOf(S) == CHOOSE s \in S : \A u \in S : Gain(s) > Gain(u) \/ (Gain(s) = Gain(u) /\ s <= u)

Cap == Max({policy.maxK, policy.minK, 1})
Covered == 100 * Cardinality(covered) >= policy.target * Cardinality(view.reachable)
Enough == Cardinality(used) >= policy.minK /\ Covered

Floor == IF Cardinality(used) >= policy.minK \/ Unused = {} THEN {}
         ELSE {BestOf(IF FullLeft # {} THEN FullLeft ELSE Unused)}
Gaining(S) == S # {} /\ Gain(BestOf(S)) > 0
AnyFirst == IF Gaining(Unused) THEN {BestOf(Unused)} ELSE Floor       \* variant: slivers are as good
FullOnly == IF Gaining(FullLeft) THEN {BestOf(FullLeft)} ELSE Floor   \* variant: gaps are not filled
FullFirst == IF Gaining(FullLeft) THEN {BestOf(FullLeft)}
             ELSE IF Gaining(Unused \ FullLeft) THEN {BestOf(Unused \ FullLeft)} ELSE Floor

Stops == Cardinality(used) >= Cap \/ Enough \/ FullFirst = {}

Take ==
  /\ Selecting /\ view # None /\ ~Stops
  /\ \E s \in FullFirst :
       /\ used' = used \cup {s}
       /\ covered' = covered \cup Clear(s, chunk)
       /\ chosen' = [chosen EXCEPT ![s] = Append(@, chunk)]
  /\ UNCHANGED <<area, policy, scenes, partition, chunk, pass, view, picks>>

NextFootprint ==
  /\ Selecting /\ view # None /\ Stops
  /\ view' = None /\ used' = {} /\ covered' = {}
  /\ IF pass < Len(FootprintsOf(chunk)) THEN pass' = pass + 1 /\ UNCHANGED chunk
                                        ELSE pass' = 1 /\ chunk' = chunk + 1
  /\ UNCHANGED <<area, policy, scenes, partition, chosen, picks>>

-----------------------------------------------------------------------------
(* The fixed selections.                                                   *)
Listed(t) == {s \in DOMAIN scenes : scenes[s].tile = t /\ Finite(s)}
TopOf(t, k) ==
  LET ranked == Ordered(Listed(t), LAMBDA s, u : Clearer(s, u) \/ (~Clearer(u, s) /\ s < u))
  IN  SubSeq(ranked, 1, Least(k, Len(ranked)))

(* select_chunk_tile_aware: for the chunks in order, their tiles in order. *)
TileAware ==
  LET asked == FlattenSeq([c \in 1 .. Cardinality(Chunks) |->
                 FlattenSeq([n \in DOMAIN RequiredOf(c - 1) |-> TopOf(RequiredOf(c - 1)[n], policy.topK)])])
      First(s) == Min({n \in DOMAIN asked : asked[n] = s})
  IN  Ordered(Range(asked), LAMBDA s, u : First(s) < First(u))

(* select_top_k: without a partition, the first of every tile, then the    *)
(* second; scenes without a tile come last of their rank.                  *)
ByTile ==
  LET tiles == Ordered(Tiles(scenes), <) \o <<None>>
      k == Max({policy.topK, 1})
      slots == {slot \in (1 .. k) \X DOMAIN tiles : slot[1] <= Len(TopOf(tiles[slot[2]], k))}
      order == Ordered(slots, LAMBDA a, b : a[1] < b[1] \/ (a[1] = b[1] /\ a[2] < b[2]))
  IN  [n \in DOMAIN order |-> TopOf(tiles[order[n][2]], k)[order[n][1]]]

SelectFixed ==
  /\ scenes # <<>> /\ ~policy.adaptive /\ chunk = 0
  /\ picks' = IF partition = None THEN ByTile ELSE TileAware
  /\ chunk' = Max(Chunks) + 1
  /\ UNCHANGED <<area, policy, scenes, partition, pass, view, used, covered, chosen>>

Over == chunk \notin Chunks
Done == Over /\ UNCHANGED selectVars     \* else a selection that stops early would be a deadlock

SelectNext == ListAndScout \/ LookUp \/ Take \/ NextFootprint \/ SelectFixed \/ Done

SelectSpec == SelectInit /\ [][SelectNext]_selectVars

-----------------------------------------------------------------------------
(* chunks_to_window: the box of the chunks that asked for a scene.         *)
Uncut(c) == LeftCol(c) + area.size               \* variant: not cut at the edge
RightOf(c) == Least(LeftCol(c) + area.size, area.width)
BottomOf(c) == Least(TopRow(c) + area.size, area.height)
FetchWindow(ids) == [row0 |-> Min({TopRow(c) : c \in ids}),   col0 |-> Min({LeftCol(c) : c \in ids}),
                     row1 |-> Max({BottomOf(c) : c \in ids}), col1 |-> Max({RightOf(c) : c \in ids})]
InWindow(win) == (win.row0 .. win.row1 - 1) \X (win.col0 .. win.col1 - 1)

(* "the chunk keeps pulling depth" (pipeline.rs:618) "with at least min_k  *)
(* scenes for best-pixel redundancy" (522-523): a footprint is left with   *)
(* fewer than min_k of its scenes never, with more than the cap never, and *)
(* short of its target only at the cap or when its scenes together have no *)
(* clear cell more.                                                        *)
DeepEnough ==
  LET all == Cardinality(view.all)
  IN  /\ Cardinality(used) \in Least(policy.minK, all) .. Least(Cap, all)
      /\ \/ Cardinality(used) >= Cap
         \/ Covered
         \/ covered = UNION {Clear(s, chunk) : s \in view.all}
DepthIsEnough == [][NextFootprint => DeepEnough]_selectVars

(* "a chunk should be built from whole, single-acquisition observations    *)
(* before falling back to edge slivers" (pipeline.rs:650-651): a scene     *)
(* that misses more than a hundredth of what the footprint's scenes see is *)
(* taken only when every scene left that misses less adds nothing.         *)
Sliver(s) == 100 * Cardinality(view.reachable \ Valid(s, chunk)) > Cardinality(view.reachable)
SliversLast ==
  [][PreferFull => \A s \in used' \ used :
       Sliver(s) => \A u \in Unused : Sliver(u) \/ Clear(u, chunk) \subseteq covered]_selectVars

(* A windowed read covers every chunk that asked for the scene and stays   *)
(* inside the grid, so scattering it back loses no pixel and adds none.    *)
WindowsCover ==
  \A s \in DOMAIN scenes : chosen[s] # <<>> =>
    LET pixels == InWindow(FetchWindow(Range(chosen[s])))
    IN  /\ \A c \in Range(chosen[s]) : ChunkPixels(c) \subseteq pixels
        /\ pixels \subseteq (0 .. area.height - 1) \X (0 .. area.width - 1)

=============================================================================
