---------------------------- MODULE StacSource ----------------------------
(***************************************************************************)
(* StacApiSource as a build uses it (stac_api.py:387-678): list the scenes *)
(* of the area, scout them, classify the chunks by tile, and only then     *)
(* fetch by scene index.  A scene index is a position in the current scene *)
(* list, and three caches in memory and three on disk hold data indexed by *)
(* it or rebuilt from it.  The sources of several processes share the disk *)
(* caches, whose entries are read and written whole (StacDiskCache).       *)
(***************************************************************************)
EXTENDS Naturals, Sequences, SequencesExt

CONSTANTS Processes,  (* each with one source object; a restart renews it   *)
          Grids,      (* areas a source is asked for                        *)
          Items,      (* STAC items, numbered in order of datetime and id   *)
          Tiled,      (* items that have an MGRS tile and a geometry        *)
          Covers,     (* grid -> items that touch it                        *)
          MaxScenes,  (* process -> max_scenes                              *)
          Archived,   (* items the service knows at first                   *)
          Filters,    (* temporal filters: the items each lets through      *)
          Caching,    (* the processes that may have a disk_cache, together *)
          MayFail,    (* may a scout read fail (network)?                   *)
          None

ASSUME SourceAssumption ==
  /\ Items \subseteq Nat /\ IsFiniteSet(Items) /\ Tiled \subseteq Items /\ Archived \subseteq Items
  /\ Covers \in [Grids -> SUBSET Items] /\ MaxScenes \in [Processes -> Nat]
  /\ Caching \subseteq SUBSET Processes /\ MayFail \in BOOLEAN

VARIABLES
  cached,      (* processes whose source has a disk_cache                   *)
  archive,     (* items the service would return now                        *)
  diskSearch,  (* grid -> raw items in the order received, or None          *)
  diskParts,   (* set of [grid, raw, part]: at most one per grid and raw    *)
  diskScout,   (* grid -> item -> "read", "failed" or None                  *)
  source,      (* process -> its source object                              *)
  build        (* process -> its build                                      *)

vars == <<cached, archive, diskSearch, diskParts, diskScout, source, build>>
disks == <<diskSearch, diskParts, diskScout>>

Fresh == [key |-> None,                           \* grid of the scene list
          scenes |-> <<>>, raw |-> <<>>,
          parts |-> [g \in Grids |-> None],       \* _partition_cache
          scouted |-> [g \in Grids |-> <<>>]]     \* _scout_cache
NoBuild == [pc |-> "idle", grid |-> None, keep |-> {}, raw |-> <<>>,
            todo |-> {}, stats |-> <<>>, part |-> None]

Init == /\ cached \in Caching
        /\ archive = Archived
        /\ diskSearch = [g \in Grids |-> None]
        /\ diskParts = {}
        /\ diskScout = [g \in Grids |-> [i \in Items |-> None]]
        /\ source = [p \in Processes |-> Fresh]
        /\ build = [p \in Processes |-> NoBuild]

Disk(p) == p \in cached
At(p, point) == build[p].pc = point
Indices(s) == DOMAIN s

StartBuild(p, g, keep) ==
  /\ At(p, "idle")
  /\ build' = [build EXCEPT ![p] = [NoBuild EXCEPT !.pc = "listing", !.grid = g, !.keep = keep]]
  /\ UNCHANGED <<archive, disks, source>>

-----------------------------------------------------------------------------
(* list_scenes                                                             *)
AsReceived(raw) == raw   \* variant: the service's order is kept
Sorted(items) == SetToSortSeq(items, <)
InOrder(raw) == Sorted(ToSet(raw))
ScenesOf(p, raw) == LET sorted == InOrder(raw)
                    IN  SubSeq(sorted, 1, IF MaxScenes[p] < Len(sorted) THEN MaxScenes[p]
                                                                       ELSE Len(sorted))

KeepCaches(p, g, raw) ==   \* variant: the caches are not cleared
  [source[p] EXCEPT !.key = g, !.scenes = ScenesOf(p, raw), !.raw = raw]
WithScenes(p, g, raw) ==
  [Fresh EXCEPT !.key = g, !.scenes = ScenesOf(p, raw), !.raw = raw]

Listed(p, g) == source[p].key = g

ListFromMemory(p) ==
  /\ At(p, "listing") /\ Listed(p, build[p].grid)
  /\ build' = [build EXCEPT ![p].pc = "checking"]
  /\ UNCHANGED <<archive, disks, source>>

ListFromDisk(p) ==
  LET g == build[p].grid IN
  /\ At(p, "listing") /\ ~Listed(p, g)
  /\ Disk(p) /\ diskSearch[g] # None
  /\ source' = [source EXCEPT ![p] = WithScenes(p, g, diskSearch[g])]
  /\ build' = [build EXCEPT ![p].pc = "checking"]
  /\ UNCHANGED <<archive, disks>>

(* The service answers in any order.                                       *)
Search(p) ==
  LET g == build[p].grid IN
  /\ At(p, "listing") /\ ~Listed(p, g)
  /\ ~(Disk(p) /\ diskSearch[g] # None)
  /\ \E raw \in SetToSeqs(archive \cap Covers[g]) :
       build' = [build EXCEPT ![p].pc = "searched", ![p].raw = raw]
  /\ UNCHANGED <<archive, disks, source>>

StoreSearch(p) ==
  LET g == build[p].grid IN
  /\ At(p, "searched")
  /\ IF Disk(p) THEN diskSearch' = [diskSearch EXCEPT ![g] = build[p].raw] ELSE UNCHANGED diskSearch
  /\ source' = [source EXCEPT ![p] = WithScenes(p, g, build[p].raw)]
  /\ build' = [build EXCEPT ![p].pc = "checking"]
  /\ UNCHANGED <<archive, diskParts, diskScout>>

-----------------------------------------------------------------------------
(* scout: the scenes of the filter; from memory, from disk, or read.       *)
Filtered(p) == LET scenes == source[p].scenes
               IN  {i \in Indices(scenes) : scenes[i] \in build[p].keep}

FromDisk(p, g, i) == LET item == source[p].scenes[i]
                     IN  IF Disk(p) /\ diskScout[g][item] # None
                         THEN [item |-> item, how |-> diskScout[g][item]] ELSE None

CheckScout(p) ==
  LET g     == build[p].grid
      mem   == source[p].scouted[g]
      fresh == Filtered(p) \ DOMAIN mem
      found == {i \in fresh : FromDisk(p, g, i) # None}
  IN  /\ At(p, "checking")
      /\ source' = [source EXCEPT ![p].scouted[g] =
                      [i \in DOMAIN mem \cup found |->
                         IF i \in DOMAIN mem THEN mem[i] ELSE FromDisk(p, g, i)]]
      /\ build' = [build EXCEPT ![p].pc = "scouting", ![p].todo = fresh \ found]
      /\ UNCHANGED <<archive, disks>>

ScoutScene(p, i) ==
  LET g    == build[p].grid
      item == source[p].scenes[i]
      mem  == source[p].scouted[g]
  IN  /\ At(p, "scouting") /\ i \in build[p].todo
      /\ \E how \in {"read"} \cup (IF MayFail THEN {"failed"} ELSE {}) :
           /\ source' = [source EXCEPT ![p].scouted[g] =
                           [j \in DOMAIN mem \cup {i} |->
                              IF j = i THEN [item |-> item, how |-> how] ELSE mem[j]]]
           /\ IF Disk(p) THEN diskScout' = [diskScout EXCEPT ![g][item] = how]
                      ELSE UNCHANGED diskScout
      /\ build' = [build EXCEPT ![p].todo = @ \ {i}]
      /\ UNCHANGED <<archive, diskSearch, diskParts>>

Results(p) == [i \in Filtered(p) |-> source[p].scouted[build[p].grid][i]]

EndScout(p) ==
  /\ At(p, "scouting") /\ build[p].todo = {}
  /\ build' = [build EXCEPT ![p].pc = "classifying", ![p].stats = Results(p)]
  /\ UNCHANGED <<archive, disks, source>>

-----------------------------------------------------------------------------
(* tile_partition: scene index -> tile, here the item that has the tile.   *)
TilesOf(scenes) == [i \in {j \in Indices(scenes) : scenes[j] \in Tiled} |-> scenes[i]]

(* None is neither an area nor a partition.                                *)
ASSUME NoneAssumption ==
  /\ None \notin Grids
  /\ \A p \in Processes, listed \in SUBSET Items : \A raw \in SetToSeqs(listed) :
       TilesOf(ScenesOf(p, raw)) # None

AnyParts(p, g) == {e \in diskParts : e.grid = g}   \* variant: the key leaves out the scenes
StoredParts(p, g) == {e \in diskParts : e.grid = g /\ e.raw = source[p].raw}

TilePartition(p) ==
  LET g     == build[p].grid
      built == TilesOf(source[p].scenes)
      stored == StoredParts(p, g)
      Give(part) == build' = [build EXCEPT ![p].pc = "fetching", ![p].part = part]
      Keep(part) == source' = [source EXCEPT ![p].parts[g] = part]
  IN  /\ At(p, "classifying")
      /\ \/ /\ source[p].parts[g] # None
            /\ Give(source[p].parts[g])
            /\ UNCHANGED <<source, diskParts>>
         \/ /\ source[p].parts[g] = None /\ DOMAIN built = {}
            /\ Give(None)
            /\ UNCHANGED <<source, diskParts>>
         \/ /\ source[p].parts[g] = None /\ DOMAIN built # {}
            /\ Disk(p)
            /\ \E e \in stored : Give(e.part) /\ Keep(e.part)
            /\ UNCHANGED diskParts
         \/ /\ source[p].parts[g] = None /\ DOMAIN built # {}
            /\ ~Disk(p) \/ stored = {}
            /\ Give(built) /\ Keep(built)
            /\ IF Disk(p)
               THEN diskParts' = diskParts \cup {[grid |-> g, raw |-> source[p].raw, part |-> built]}
               ELSE UNCHANGED diskParts
      /\ UNCHANGED <<archive, diskSearch, diskScout>>

EndBuild(p) ==
  /\ At(p, "fetching")
  /\ build' = [build EXCEPT ![p] = NoBuild]
  /\ UNCHANGED <<archive, disks, source>>

-----------------------------------------------------------------------------
(* The process ends, at any point, and a new one starts.                   *)
Restart(p) ==
  /\ source' = [source EXCEPT ![p] = Fresh]
  /\ build' = [build EXCEPT ![p] = NoBuild]
  /\ UNCHANGED <<archive, disks>>

(* The service's archive grows: a late scene, anywhere in the order.       *)
Publish ==
  /\ \E item \in Items \ archive : archive' = archive \cup {item}
  /\ UNCHANGED <<disks, source, build>>

Next ==
  /\ \/ \E p \in Processes :
          \/ \E g \in Grids, keep \in Filters : StartBuild(p, g, keep)
          \/ ListFromMemory(p) \/ ListFromDisk(p) \/ Search(p) \/ StoreSearch(p)
          \/ CheckScout(p) \/ EndScout(p) \/ TilePartition(p) \/ EndBuild(p) \/ Restart(p)
          \/ \E i \in 1..MaxScenes[p] : ScoutScene(p, i)
     \/ Publish
  /\ UNCHANGED cached

Spec == Init /\ [][Next]_vars

-----------------------------------------------------------------------------

(* Every statistic a build selects by is of the item its scene index now   *)
(* stands for, whichever cache it came from and whatever the archive did   *)
(* since: the fetch by that index reads the scene that was scouted.        *)
StatsAreOfScenes ==
  \A p \in Processes : build[p].pc \in {"classifying", "fetching"} =>
    /\ DOMAIN build[p].stats = Filtered(p)
    /\ \A i \in DOMAIN build[p].stats : build[p].stats[i].item = source[p].scenes[i]

(* The partition of a list of raw items, as process p numbers them; there  *)
(* is none without tiles.                                                  *)
PartitionOf(p, raw) == LET part == TilesOf(ScenesOf(p, raw))
                       IN  IF DOMAIN part = {} THEN None ELSE part

Sharing(p) == {p} \cup (IF Disk(p) THEN cached ELSE {})

(* The partition a build selects by is of the raw items that its scenes    *)
(* were listed from, whatever other lists it has had and the disk holds,   *)
(* numbered as a process that shares its cache numbers them: by itself     *)
(* when they have one max_scenes (stac_api.py:400-447).                    *)
PartitionIsOfScenes ==
  \A p \in Processes : build[p].pc = "fetching" =>
    \E q \in Sharing(p) : build[p].part = PartitionOf(q, source[p].raw)

(* The partition a build selects by classifies exactly its own scenes:     *)
(* "classifying the same grid against the same scene set produces          *)
(* identical partitions" (stac_cache.py:4-5), and "two processes can share *)
(* the same cache directory safely" (36-37).                               *)
PartitionIsOfOwnScenes ==
  \A p \in Processes : build[p].pc = "fetching" =>
    build[p].part = PartitionOf(p, source[p].raw)

(* "cache hits and live searches yield identical scene_indices"            *)
(* (stac_api.py:533-534), as long as the archive is the same.              *)
SameIndices ==
  \A p, q \in Processes :
    (archive = Archived /\ source[p].key # None /\ source[p].key = source[q].key
       /\ MaxScenes[p] = MaxScenes[q]) => source[p].scenes = source[q].scenes

=============================================================================
