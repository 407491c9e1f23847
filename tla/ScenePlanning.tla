---------------------------- MODULE ScenePlanning ----------------------------
(***************************************************************************)
(* From an area to a plan: its chunks (ChunkLayout), the tiles each chunk  *)
(* needs (TileClassification), and the scenes each chunk is given          *)
(* (selection.py).  The statistics of the scenes come in any order.        *)
(***************************************************************************)
EXTENDS ChunkLayout, TileClassification

CONSTANTS Catalogues,  (* area -> the scene lists it may have              *)
          Scouts,      (* area -> [usable, clear] a scene may have in a    *)
                       (* chunk; clear is NaN where nothing is valid       *)
          Policies     (* [topK, floor]                                    *)

NaN == -1   \* sorts below every score, as -inf does in _clear_sort_key

ASSUME PoliciesAssumption == Policies \subseteq [topK : Nat \ {0}, floor : Nat]
ASSUME ScenesAssumption ==
  \A a \in Areas :
    /\ Catalogues[a] \subseteq Seq([tile : Nat \cup {None}, geometry : Seq(SUBSET (Int \X Int))])
    /\ Scouts[a] \subseteq [usable : Nat, clear : Nat \cup {NaN}]

VARIABLES scenes,     (* the source's scenes                               *)
          scouted,    (* scene -> chunk -> [usable, clear]                 *)
          policy,
          partition,  (* a partition, or None                              *)
          arrived,    (* scenes whose statistics were sorted in            *)
          entries,    (* chunk -> eligible entries, in order of arrival    *)
          plan        (* the picks of the chunks planned so far            *)

vars == <<layoutVars, scenes, scouted, policy, partition, arrived, entries, plan>>

Chunks == DOMAIN windows
Classified == entries # <<>>

Init == /\ LayoutInit
        /\ scenes \in Catalogues[area]
        /\ policy \in Policies
        /\ scouted = <<>> /\ partition = None
        /\ arrived = {} /\ entries = <<>> /\ plan = <<>>

LayOut == NextWindow /\ UNCHANGED <<scenes, scouted, policy, partition, arrived, entries, plan>>

Classify ==
  /\ ~Fits /\ ~Classified
  /\ partition' = Partition(scenes, [c \in Chunks |-> Pixels(windows[c])])
  /\ scouted' \in [DOMAIN scenes -> [Chunks -> Scouts[area]]]
  /\ entries' = [c \in Chunks |-> <<>>]
  /\ UNCHANGED <<layoutVars, scenes, policy, arrived, plan>>

-----------------------------------------------------------------------------
(* select: the entries of one scene.                                       *)
PassesClearFloor(clear) == policy.floor = 0 \/ (clear # NaN /\ clear >= policy.floor)
Eligible(e) == e.usable > 0 /\ PassesClearFloor(e.clear)

Entry(s, c) == [scene |-> s, usable |-> scouted[s][c].usable, clear |-> scouted[s][c].clear]

Arrive(s) ==
  /\ Classified /\ plan = <<>> /\ s \notin arrived
  /\ entries' = [c \in Chunks |-> IF Eligible(scouted[s][c]) THEN Append(entries[c], Entry(s, c))
                                                              ELSE entries[c]]
  /\ arrived' = arrived \cup {s}
  /\ UNCHANGED <<layoutVars, scenes, scouted, policy, partition, plan>>

-----------------------------------------------------------------------------
(* _pick_for_chunk: the best of every tile, then the second of every tile. *)
TileOf(s) == IF partition = None THEN None ELSE scenes[s].tile   \* None: the single tile
RequiredTiles(c) == IF partition = None THEN <<None>> ELSE partition.required[c]

Better(e, f) == \/ e.clear > f.clear
                \/ e.clear = f.clear /\ e.usable > f.usable
                \/ e.clear = f.clear /\ e.usable = f.usable /\ e.scene < f.scene

TilesSeen(c) == {TileOf(entries[c][n].scene) : n \in DOMAIN entries[c]}
FirstOf(c, t) == CHOOSE n \in DOMAIN entries[c] :
                   /\ TileOf(entries[c][n].scene) = t
                   /\ \A m \in 1 .. n - 1 : TileOf(entries[c][m].scene) # t

OnlyRequired(c) ==
  LET kept == Ordered({n \in DOMAIN RequiredTiles(c) : RequiredTiles(c)[n] \in TilesSeen(c)},
                      LAMBDA n, m : n < m)
  IN  [k \in DOMAIN kept |-> RequiredTiles(c)[kept[k]]]
TilesInOrder(c) ==
  OnlyRequired(c) \o Ordered(TilesSeen(c) \ Range(RequiredTiles(c)),
                                  LAMBDA t, u : FirstOf(c, t) < FirstOf(c, u))

OfTile(c, t) == {e \in Range(entries[c]) : TileOf(e.scene) = t}
Oldest(c, t) == LET ranked == Ordered(OfTile(c, t), LAMBDA e, f : e.scene < f.scene)   \* variant
                IN  SubSeq(ranked, 1, AtMost(policy.topK, Len(ranked)))
PicksOf(c, t) == LET ranked == Ordered(OfTile(c, t), Better)
                 IN  SubSeq(ranked, 1, AtMost(policy.topK, Len(ranked)))

TileByTile(slot, other) == slot[2] < other[2] \/ (slot[2] = other[2] /\ slot[1] < other[1])
RankByRank(slot, other) == slot[1] < other[1] \/ (slot[1] = other[1] /\ slot[2] < other[2])

PickForChunk(c) ==
  LET tiles == TilesInOrder(c)
      slots == {slot \in (1 .. policy.topK) \X DOMAIN tiles : slot[1] <= Len(PicksOf(c, tiles[slot[2]]))}
      order == Ordered(slots, RankByRank)
  IN  [n \in DOMAIN order |-> PicksOf(c, tiles[order[n][2]])[order[n][1]].scene]

SelectChunk ==
  /\ Classified /\ arrived = DOMAIN scenes /\ Len(plan) < Len(windows)
  /\ plan' = Append(plan, PickForChunk(Len(plan) + 1))
  /\ UNCHANGED <<layoutVars, scenes, scouted, policy, partition, arrived, entries>>

Next == LayOut \/ Classify \/ (\E s \in DOMAIN scenes : Arrive(s)) \/ SelectChunk

Spec == Init /\ [][Next]_vars

-----------------------------------------------------------------------------

Candidates(c) == {Entry(s, c) : s \in {u \in DOMAIN scenes : Eligible(scouted[u][c])}}

(* "Pick the top-K scenes per (chunk, required-tile) after eligibility     *)
(* floors" (selection.py:80): a scene is planned for a chunk exactly when  *)
(* fewer than top_k eligible scenes of its tile are better there; so the   *)
(* order in which the statistics came changes no chunk's scenes.           *)
PlanIsTopK ==
  \A c \in DOMAIN plan :
    Range(plan[c]) =
      {e.scene : e \in {f \in Candidates(c) :
         Cardinality({g \in Candidates(c) : TileOf(g.scene) = TileOf(f.scene) /\ Better(g, f)})
           < policy.topK}}

(* "each required tile contributes its #1 pick before any tile contributes *)
(* its #2" (selection.py:164-165): no scene is planned before a scene that *)
(* fewer scenes of its own tile outrank, and none twice.                   *)
SeamsFirst ==
  \A c \in DOMAIN plan :
    LET Rank(s) == Cardinality({g \in Candidates(c) : TileOf(g.scene) = TileOf(s)
                                                       /\ Better(g, Entry(s, c))})
    IN  /\ \A n, m \in DOMAIN plan[c] : n < m => Rank(plan[c][n]) <= Rank(plan[c][m])
        /\ Cardinality(Range(plan[c])) = Len(plan[c])

(* A chunk's pixel that some tile covers is in a tile of one of the        *)
(* chunk's scenes, if every tile has an eligible scene there: no seam is   *)
(* left, not even where three tiles overlap and one alone is required.     *)
NoSeamLeft ==
  LET fp == Footprints(scenes, WholeShapes(scenes))
  IN  partition # None => \A c \in DOMAIN plan :
        (\A t \in Meeting(fp, Pixels(windows[c])) : \E e \in Candidates(c) : TileOf(e.scene) = t)
        => Pixels(windows[c]) \ partition.unreachable[c]
             \subseteq UNION {fp[t] : t \in {TileOf(s) : s \in Range(plan[c])} \cap DOMAIN fp}

=============================================================================
