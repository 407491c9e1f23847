-------------------------- MODULE StacSourceProofs --------------------------
(***************************************************************************)
(* Scene indices stay attached to their scenes in StacSource, for any      *)
(* number of processes, areas and items, any growth of the archive, and    *)
(* restarts at any point.                                                  *)
(***************************************************************************)
EXTENDS StacSource, FiniteSetTheorems, TLAPS

(* The fields and domains of the nested data.                              *)
Shape ==
  /\ DOMAIN source = Processes /\ DOMAIN build = Processes /\ DOMAIN diskSearch = Grids
  /\ \A p \in Processes :
       /\ DOMAIN source[p] = {"key", "scenes", "raw", "parts", "scouted"}
       /\ source[p].key \in Grids \cup {None}
       /\ DOMAIN source[p].parts = Grids /\ DOMAIN source[p].scouted = Grids
       /\ DOMAIN build[p] = {"pc", "grid", "keep", "raw", "todo", "stats", "part"}
       /\ build[p].pc # "idle" => build[p].grid \in Grids

(* A search answered with the items the archive had at some time.          *)
Received(g, raw) ==
  \E listed \in SUBSET (archive \cap Covers[g]) :
    Archived \cap Covers[g] \subseteq listed /\ raw \in SetToSeqs(listed)

Listing == {"checking", "scouting", "classifying", "fetching"}   \* has its scene list

ListInv(p) ==
  /\ source[p].key # None => /\ source[p].scenes = ScenesOf(p, source[p].raw)
                             /\ Received(source[p].key, source[p].raw)
  /\ build[p].pc \in Listing => source[p].key = build[p].grid
  /\ build[p].pc = "searched" => Received(build[p].grid, build[p].raw)

(* The caches in memory are of the current scene list, and a build's       *)
(* statistics are from there.                                              *)
ScoutInv(p) ==
  /\ \A g \in Grids : \A i \in DOMAIN source[p].scouted[g] :
       g = source[p].key /\ source[p].scouted[g][i].item = source[p].scenes[i]
  /\ build[p].pc = "scouting" =>
       Filtered(p) \subseteq DOMAIN source[p].scouted[build[p].grid] \cup build[p].todo
  /\ build[p].pc \in {"classifying", "fetching"} =>
       /\ DOMAIN build[p].stats = Filtered(p)
       /\ \A i \in Filtered(p) : build[p].stats[i].item = source[p].scenes[i]

(* The partitions a process has are of its raw items, as it or a process   *)
(* that shares its disk cache numbers them.                                *)
OfRaw(p, part) == \E q \in Sharing(p) : part = PartitionOf(q, source[p].raw)

PartInv(p) ==
  /\ \A g \in Grids : source[p].parts[g] # None => g = source[p].key /\ OfRaw(p, source[p].parts[g])
  /\ build[p].pc = "fetching" => OfRaw(p, build[p].part)

(* What is on disk came from a search, or from a process that shares it.   *)
DiskInv ==
  /\ cached \in Caching /\ archive \subseteq Items /\ Archived \subseteq archive
  /\ \A g \in Grids : diskSearch[g] # None => Received(g, diskSearch[g])
  /\ \A e \in diskParts : \E p \in cached : e.part = PartitionOf(p, e.raw)

SourceInv == Shape /\ DiskInv /\ \A p \in Processes : ListInv(p) /\ ScoutInv(p) /\ PartInv(p)

-----------------------------------------------------------------------------
LEMMA ReceivedStays ==
  ASSUME archive \subseteq archive', NEW g, NEW raw, Received(g, raw)
  PROVE  Received(g, raw)'
BY DEF Received

LEMMA ReceivedSame ==
  ASSUME archive' = archive, NEW g, NEW raw
  PROVE  Received(g, raw)' = Received(g, raw)
BY DEF Received

(* A step that leaves the raw items and the partitions alone.              *)
LEMMA PartsStay ==
  ASSUME NEW p \in Processes, UNCHANGED cached, PartInv(p),
         source'[p].raw = source[p].raw, source'[p].key = source[p].key, source'[p].parts = source[p].parts,
         build'[p].pc = "fetching" => build[p].pc = "fetching" /\ build'[p].part = build[p].part
  PROVE  PartInv(p)'
<1>1. \A part : OfRaw(p, part)' = OfRaw(p, part)
  BY DEF OfRaw, Sharing, Disk, PartitionOf, ScenesOf
<1>2. QED
  BY <1>1 DEF PartInv

(* A process that a step leaves alone keeps its invariants.                *)
LEMMA Untouched ==
  ASSUME NEW q \in Processes, UNCHANGED cached, archive \subseteq archive', source'[q] = source[q], build'[q] = build[q],
         ListInv(q), ScoutInv(q), PartInv(q)
  PROVE  ListInv(q)' /\ ScoutInv(q)' /\ PartInv(q)'
<1>1. Filtered(q)' = Filtered(q)
  BY DEF Filtered
<1>2. \A g, raw : Received(g, raw) => Received(g, raw)'
  BY ReceivedStays
<1>3. ListInv(q)'
  BY <1>2 DEF ListInv, ScenesOf
<1>4. ScoutInv(q)'
  BY <1>1 DEF ScoutInv
<1>5. PartInv(q)'
  BY PartsStay
<1>6. QED
  BY <1>3, <1>4, <1>5

LEMMA WithScenesFields ==
  ASSUME NEW p, NEW g, NEW raw
  PROVE  /\ DOMAIN WithScenes(p, g, raw) = {"key", "scenes", "raw", "parts", "scouted"}
         /\ WithScenes(p, g, raw).key = g /\ WithScenes(p, g, raw).raw = raw
         /\ WithScenes(p, g, raw).scenes = ScenesOf(p, raw)
         /\ WithScenes(p, g, raw).parts = [h \in Grids |-> None]
         /\ WithScenes(p, g, raw).scouted = [h \in Grids |-> <<>>]
BY DEF WithScenes, Fresh

(* A fresh scene list comes with empty caches.                             *)
LEMMA Relisted ==
  ASSUME NEW p \in Processes, NEW g \in Grids, NEW raw, Received(g, raw)',
         source'[p] = WithScenes(p, g, raw), build'[p].pc = "checking", build'[p].grid = g
  PROVE  ListInv(p)' /\ ScoutInv(p)' /\ PartInv(p)'
<1>1. /\ source'[p].key = g /\ source'[p].raw = raw /\ source'[p].scenes = ScenesOf(p, raw)
      /\ \A h \in Grids : source'[p].parts[h] = None /\ source'[p].scouted[h] = <<>>
  BY WithScenesFields
<1>2. ScenesOf(p, raw)' = ScenesOf(p, raw)
  BY DEF ScenesOf
<1>3. QED
  BY <1>1, <1>2 DEF ListInv, ScoutInv, PartInv, Listing

LEMMA SourceInvInit ==
  ASSUME Init
  PROVE  SourceInv
<1>1. Shape
  BY DEF Init, Shape, Fresh, NoBuild
<1>2. DiskInv
  BY SourceAssumption DEF Init, DiskInv
<1>3. ASSUME NEW p \in Processes
      PROVE  ListInv(p) /\ ScoutInv(p) /\ PartInv(p)
  BY DEF Init, Fresh, NoBuild, ListInv, ScoutInv, PartInv, Listing
<1>4. QED
  BY <1>1, <1>2, <1>3 DEF SourceInv

LEMMA StartBuildKeeps ==
  ASSUME SourceInv, UNCHANGED cached, NEW p \in Processes, NEW g \in Grids, NEW keep \in Filters, StartBuild(p, g, keep)
  PROVE  SourceInv'
<1> USE DEF SourceInv, At, disks
<1>1. Shape' /\ archive' = archive /\ \A q \in Processes \ {p} : source'[q] = source[q] /\ build'[q] = build[q]
  BY DEF Shape, StartBuild, Fresh, NoBuild
<1>2. DiskInv'
  BY DEF DiskInv, Received, StartBuild
<1>3. ListInv(p)' /\ ScoutInv(p)' /\ PartInv(p)'
  <2>1. source'[p] = source[p] /\ build'[p].pc = "listing"
    BY DEF Shape, StartBuild, NoBuild
  <2>2. ListInv(p)'
    BY <1>1, <2>1, ReceivedSame DEF ListInv, ScenesOf, Listing
  <2>3. ScoutInv(p)' /\ PartInv(p)'
    BY <2>1, PartsStay DEF ScoutInv
  <2>4. QED
    BY <2>2, <2>3
<1>4. QED
  BY <1>1, <1>2, <1>3, Untouched

LEMMA ListFromMemoryKeeps ==
  ASSUME SourceInv, UNCHANGED cached, NEW p \in Processes, ListFromMemory(p)
  PROVE  SourceInv'
<1> USE DEF SourceInv, At, disks
<1>1. Shape' /\ archive' = archive /\ \A q \in Processes \ {p} : source'[q] = source[q] /\ build'[q] = build[q]
  BY DEF Shape, ListFromMemory, Fresh, NoBuild
<1>2. DiskInv'
  BY DEF DiskInv, Received, ListFromMemory
<1>3. ListInv(p)' /\ ScoutInv(p)' /\ PartInv(p)'
  <2>1. source'[p] = source[p] /\ archive' = archive /\ build[p].pc = "listing"
        /\ build'[p] = [build[p] EXCEPT !.pc = "checking"]
        /\ build'[p].pc = "checking" /\ build'[p].grid = build[p].grid /\ build'[p].raw = build[p].raw
    BY DEF Shape, ListFromMemory
  <2>2. source[p].key = build[p].grid
    BY DEF ListFromMemory, Listed
  <2>3. ListInv(p)'
    BY <2>1, <2>2, ReceivedSame DEF ListInv, ScenesOf
  <2>4. ScoutInv(p)'
    BY <2>1 DEF ScoutInv
  <2>5. PartInv(p)'
    <3>1. build'[p].pc # "fetching"
      BY <2>1
    <3>2. QED
      BY <2>1, <3>1, PartsStay
  <2>6. QED
    BY <2>3, <2>4, <2>5
<1>4. QED
  BY <1>1, <1>2, <1>3, Untouched

LEMMA ListFromDiskKeeps ==
  ASSUME SourceInv, UNCHANGED cached, NEW p \in Processes, ListFromDisk(p)
  PROVE  SourceInv'
<1> USE DEF SourceInv, At, disks
<1>1. Shape' /\ archive' = archive /\ \A q \in Processes \ {p} : source'[q] = source[q] /\ build'[q] = build[q]
  <2>1. DOMAIN source' = Processes /\ source'[p] = WithScenes(p, build[p].grid, diskSearch[build[p].grid])
        /\ archive' = archive /\ DOMAIN diskSearch' = Grids
    BY DEF Shape, ListFromDisk
  <2>2. DOMAIN build' = Processes /\ DOMAIN build'[p] = DOMAIN build[p] /\ build'[p].grid = build[p].grid
        /\ build[p].pc = "listing"
    BY DEF Shape, ListFromDisk
  <2>3. \A q \in Processes \ {p} : source'[q] = source[q] /\ build'[q] = build[q]
    BY DEF Shape, ListFromDisk
  <2>4. QED
    BY <2>1, <2>2, <2>3, WithScenesFields DEF Shape
<1>2. DiskInv'
  BY DEF DiskInv, Received, ListFromDisk
<1>3. ListInv(p)' /\ ScoutInv(p)' /\ PartInv(p)'
  <2>1. build[p].grid \in Grids /\ Received(build[p].grid, diskSearch[build[p].grid])
    BY DEF Shape, DiskInv, ListFromDisk
  <2>2. source'[p] = WithScenes(p, build[p].grid, diskSearch[build[p].grid])
        /\ build'[p].pc = "checking" /\ build'[p].grid = build[p].grid
    BY DEF Shape, ListFromDisk
  <2>3. QED
    BY <1>1, <2>1, <2>2, Relisted, ReceivedSame
<1>4. QED
  BY <1>1, <1>2, <1>3, Untouched

LEMMA SearchKeeps ==
  ASSUME SourceInv, UNCHANGED cached, NEW p \in Processes, Search(p)
  PROVE  SourceInv'
<1> USE DEF SourceInv, At, disks
<1>1. Shape' /\ archive' = archive /\ \A q \in Processes \ {p} : source'[q] = source[q] /\ build'[q] = build[q]
  BY DEF Shape, Search, Fresh, NoBuild
<1>2. DiskInv'
  BY DEF DiskInv, Received, Search
<1>3. ListInv(p)' /\ ScoutInv(p)' /\ PartInv(p)'
  <2>1. PICK raw \in SetToSeqs(archive \cap Covers[build[p].grid]) :
           build' = [build EXCEPT ![p].pc = "searched", ![p].raw = raw]
    BY DEF Search
  <2>2. source'[p] = source[p] /\ build'[p].pc = "searched" /\ build'[p].raw = raw
        /\ build'[p].grid = build[p].grid
    BY <2>1 DEF Shape, Search
  <2>3. Received(build[p].grid, raw)
    BY <2>1 DEF Received, DiskInv
  <2>4. ListInv(p)'
    BY <1>1, <2>2, <2>3, ReceivedSame DEF ListInv, ScenesOf, Listing
  <2>5. ScoutInv(p)' /\ PartInv(p)'
    BY <2>2, PartsStay DEF ScoutInv
  <2>6. QED
    BY <2>4, <2>5
<1>4. QED
  BY <1>1, <1>2, <1>3, Untouched

LEMMA StoreSearchKeeps ==
  ASSUME SourceInv, UNCHANGED cached, NEW p \in Processes, StoreSearch(p)
  PROVE  SourceInv'
<1> USE DEF SourceInv, At, disks
<1>1. Shape' /\ archive' = archive /\ \A q \in Processes \ {p} : source'[q] = source[q] /\ build'[q] = build[q]
  <2>1. DOMAIN source' = Processes /\ source'[p] = WithScenes(p, build[p].grid, build[p].raw)
        /\ archive' = archive
    BY DEF Shape, StoreSearch
  <2>2. DOMAIN build' = Processes /\ DOMAIN build'[p] = DOMAIN build[p] /\ build'[p].grid = build[p].grid
        /\ build[p].pc = "searched"
    BY DEF Shape, StoreSearch
  <2>3. \A q \in Processes \ {p} : source'[q] = source[q] /\ build'[q] = build[q]
    BY DEF Shape, StoreSearch
  <2>4. DOMAIN diskSearch' = Grids
    BY DEF Shape, StoreSearch
  <2>5. QED
    BY <2>1, <2>2, <2>3, <2>4, WithScenesFields DEF Shape
<1>2. DiskInv'
  <2>1. build[p].grid \in Grids /\ Received(build[p].grid, build[p].raw)
    BY DEF Shape, ListInv, StoreSearch
  <2>2. \A g \in Grids : diskSearch'[g] \in {diskSearch[g]} \/ (g = build[p].grid /\ diskSearch'[g] = build[p].raw)
    BY <2>1 DEF Shape, StoreSearch
  <2>3. QED
    BY <1>1, <2>1, <2>2, ReceivedSame DEF DiskInv, StoreSearch, ScenesOf
<1>3. ListInv(p)' /\ ScoutInv(p)' /\ PartInv(p)'
  <2>1. build[p].grid \in Grids /\ Received(build[p].grid, build[p].raw)
    BY DEF Shape, ListInv, StoreSearch
  <2>2. source'[p] = WithScenes(p, build[p].grid, build[p].raw)
        /\ build'[p].pc = "checking" /\ build'[p].grid = build[p].grid
    BY DEF Shape, StoreSearch
  <2>3. QED
    BY <1>1, <2>1, <2>2, Relisted, ReceivedSame
<1>4. QED
  BY <1>1, <1>2, <1>3, Untouched

LEMMA CheckScoutKeeps ==
  ASSUME SourceInv, UNCHANGED cached, NEW p \in Processes, CheckScout(p)
  PROVE  SourceInv'
<1> USE DEF SourceInv, At, disks
<1>1. Shape' /\ archive' = archive /\ \A q \in Processes \ {p} : source'[q] = source[q] /\ build'[q] = build[q]
  <2>1. PICK kept, todo :
          /\ source' = [source EXCEPT ![p].scouted[build[p].grid] = kept]
          /\ build' = [build EXCEPT ![p].pc = "scouting", ![p].todo = todo]
          /\ build[p].pc = "checking" /\ archive' = archive /\ diskSearch' = diskSearch
    BY DEF CheckScout
  <2>2. \A q \in Processes \ {p} : source'[q] = source[q] /\ build'[q] = build[q]
    BY <2>1 DEF Shape
  <2>3. Shape'
    BY <2>1, <2>2 DEF Shape
  <2>4. QED
    BY <2>1, <2>2, <2>3
<1>2. DiskInv'
  BY DEF DiskInv, Received, CheckScout
<1>3. ListInv(p)' /\ ScoutInv(p)' /\ PartInv(p)'
  <2> DEFINE g == build[p].grid
             mem == source[p].scouted[g]
             fresh == Filtered(p) \ DOMAIN mem
             found == {i \in fresh : FromDisk(p, g, i) # None}
             known == [i \in DOMAIN mem \cup found |->
                         IF i \in DOMAIN mem THEN mem[i] ELSE FromDisk(p, g, i)]
  <2>1. g \in Grids /\ source[p].key = g /\ build[p].pc = "checking"
    BY DEF Shape, ListInv, Listing, CheckScout
  <2>2. source' = [source EXCEPT ![p].scouted[g] = known]
        /\ build' = [build EXCEPT ![p].pc = "scouting", ![p].todo = fresh \ found]
    BY DEF CheckScout
  <2>3. \A i \in found : FromDisk(p, g, i).item = source[p].scenes[i]
    BY DEF FromDisk
  <2> HIDE DEF known, found, fresh, mem, g
  <2>4. source'[p].key = source[p].key /\ source'[p].scenes = source[p].scenes
        /\ source'[p].raw = source[p].raw /\ source'[p].parts = source[p].parts
        /\ source'[p].scouted = [source[p].scouted EXCEPT ![g] = known]
    BY <2>1, <2>2 DEF Shape
  <2>5. build'[p].grid = g /\ build'[p].keep = build[p].keep /\ build'[p].pc = "scouting"
        /\ build'[p].todo = fresh \ found
    BY <2>2 DEF Shape, g
  <2>6. Filtered(p)' = Filtered(p)
    BY <2>4, <2>5 DEF Filtered
  <2>7. ListInv(p)'
    BY <1>1, <2>1, <2>4, <2>5, ReceivedSame DEF ListInv, ScenesOf
  <2>8. PartInv(p)'
    BY <2>4, <2>5, PartsStay
  <2>9. ScoutInv(p)'
    <3>1. source'[p].scouted[g] = known /\ \A h \in Grids \ {g} : source'[p].scouted[h] = source[p].scouted[h]
      BY <2>1, <2>4 DEF Shape
    <3>2. \A i \in DOMAIN mem : mem[i].item = source[p].scenes[i]
      BY <2>1 DEF ScoutInv, mem
    <3>3. DOMAIN known = DOMAIN mem \cup found
          /\ \A i \in DOMAIN known : known[i].item = source[p].scenes[i]
      BY <2>3, <3>2 DEF known
    <3>4. Filtered(p) \subseteq DOMAIN known \cup (fresh \ found)
      BY <3>3 DEF fresh
    <3>5. QED
      BY <2>1, <2>4, <2>5, <2>6, <3>1, <3>3, <3>4 DEF ScoutInv
  <2>10. QED
    BY <2>7, <2>8, <2>9
<1>4. QED
  BY <1>1, <1>2, <1>3, Untouched

LEMMA ScoutSceneKeeps ==
  ASSUME SourceInv, UNCHANGED cached, NEW p \in Processes, NEW i \in 1..MaxScenes[p], ScoutScene(p, i)
  PROVE  SourceInv'
<1> USE DEF SourceInv, At, disks
<1>1. Shape' /\ archive' = archive /\ \A q \in Processes \ {p} : source'[q] = source[q] /\ build'[q] = build[q]
  BY DEF Shape, ScoutScene, Fresh, NoBuild
<1>2. DiskInv'
  BY DEF DiskInv, Received, ScoutScene
<1>3. ListInv(p)' /\ ScoutInv(p)' /\ PartInv(p)'
  <2> DEFINE g == build[p].grid
             mem == source[p].scouted[g]
  <2>1. g \in Grids /\ source[p].key = g /\ build[p].pc = "scouting"
    BY DEF Shape, ListInv, Listing, ScoutScene
  <2>2. PICK how : source' = [source EXCEPT ![p].scouted[g] =
                     [j \in DOMAIN mem \cup {i} |->
                        IF j = i THEN [item |-> source[p].scenes[i], how |-> how] ELSE mem[j]]]
    BY DEF ScoutScene
  <2>3. build' = [build EXCEPT ![p].todo = @ \ {i}]
    BY DEF ScoutScene
  <2> DEFINE known == [j \in DOMAIN mem \cup {i} |->
                         IF j = i THEN [item |-> source[p].scenes[i], how |-> how] ELSE mem[j]]
  <2> HIDE DEF known, mem, g
  <2>4. source'[p].key = source[p].key /\ source'[p].scenes = source[p].scenes
        /\ source'[p].raw = source[p].raw /\ source'[p].parts = source[p].parts
        /\ source'[p].scouted = [source[p].scouted EXCEPT ![g] = known]
    BY <2>1, <2>2 DEF Shape, known
  <2>5. build'[p].grid = g /\ build'[p].keep = build[p].keep /\ build'[p].pc = "scouting"
        /\ build'[p].todo = build[p].todo \ {i}
    BY <2>1, <2>3 DEF Shape, g
  <2>6. Filtered(p)' = Filtered(p)
    BY <2>4, <2>5 DEF Filtered
  <2>7. ListInv(p)'
    BY <1>1, <2>1, <2>4, <2>5, ReceivedSame DEF ListInv, ScenesOf
  <2>8. PartInv(p)'
    BY <2>4, <2>5, PartsStay
  <2>9. ScoutInv(p)'
    <3>1. source'[p].scouted[g] = known /\ \A h \in Grids \ {g} : source'[p].scouted[h] = source[p].scouted[h]
      BY <2>1, <2>4 DEF Shape
    <3>2. \A j \in DOMAIN mem : mem[j].item = source[p].scenes[j]
      BY <2>1 DEF ScoutInv, mem
    <3>3. DOMAIN known = DOMAIN mem \cup {i}
          /\ \A j \in DOMAIN known : known[j].item = source[p].scenes[j]
      BY <3>2 DEF known
    <3>4. Filtered(p) \subseteq DOMAIN known \cup (build[p].todo \ {i})
      BY <2>1, <3>3 DEF ScoutInv, mem, g
    <3>5. QED
      BY <2>1, <2>4, <2>5, <2>6, <3>1, <3>3, <3>4 DEF ScoutInv
  <2>10. QED
    BY <2>7, <2>8, <2>9
<1>4. QED
  BY <1>1, <1>2, <1>3, Untouched

LEMMA EndScoutKeeps ==
  ASSUME SourceInv, UNCHANGED cached, NEW p \in Processes, EndScout(p)
  PROVE  SourceInv'
<1> USE DEF SourceInv, At, disks
<1>1. Shape' /\ archive' = archive /\ \A q \in Processes \ {p} : source'[q] = source[q] /\ build'[q] = build[q]
  BY DEF Shape, EndScout, Fresh, NoBuild
<1>2. DiskInv'
  BY DEF DiskInv, Received, EndScout
<1>3. ListInv(p)' /\ ScoutInv(p)' /\ PartInv(p)'
  <2>1. source'[p] = source[p] /\ build[p].pc = "scouting" /\ build[p].todo = {}
        /\ build' = [build EXCEPT ![p].pc = "classifying", ![p].stats = Results(p)]
    BY DEF Shape, EndScout
  <2>2. build'[p].grid = build[p].grid /\ build'[p].keep = build[p].keep /\ build'[p].pc = "classifying"
        /\ build'[p].stats = Results(p)
    BY <2>1 DEF Shape
  <2>3. Filtered(p)' = Filtered(p)
    BY <2>1, <2>2 DEF Filtered
  <2>4. build[p].grid \in Grids
    BY <2>1 DEF Shape
  <2>5. \A i \in Filtered(p) : Results(p)[i].item = source[p].scenes[i]
    <3>1. Filtered(p) \subseteq DOMAIN source[p].scouted[build[p].grid]
      BY <2>1 DEF ScoutInv
    <3>2. \A i \in DOMAIN source[p].scouted[build[p].grid] :
            source[p].scouted[build[p].grid][i].item = source[p].scenes[i]
      BY <2>4 DEF ScoutInv
    <3>3. QED
      BY <3>1, <3>2 DEF Results
  <2>6. ScoutInv(p)'
    <3>1. DOMAIN build'[p].stats = Filtered(p)
      BY <2>2 DEF Results
    <3>2. \A i \in Filtered(p) : build'[p].stats[i].item = source'[p].scenes[i]
      BY <2>1, <2>2, <2>5
    <3>3. \A g \in Grids : \A i \in DOMAIN source'[p].scouted[g] :
            g = source'[p].key /\ source'[p].scouted[g][i].item = source'[p].scenes[i]
      BY <2>1 DEF ScoutInv
    <3>4. QED
      BY <2>2, <2>3, <3>1, <3>2, <3>3 DEF ScoutInv
  <2>7. ListInv(p)'
    BY <1>1, <2>1, <2>2, ReceivedSame DEF ListInv, ScenesOf, Listing
  <2>8. PartInv(p)'
    <3>1. build'[p].pc # "fetching"
      BY <2>2
    <3>2. QED
      BY <2>1, <3>1, PartsStay
  <2>9. QED
    BY <2>6, <2>7, <2>8
<1>4. QED
  BY <1>1, <1>2, <1>3, Untouched

LEMMA TilePartitionKeeps ==
  ASSUME SourceInv, UNCHANGED cached, NEW p \in Processes, TilePartition(p)
  PROVE  SourceInv'
<1> USE DEF SourceInv, At, disks
<1> DEFINE g == build[p].grid
           own == TilesOf(source[p].scenes)
<1>1. g \in Grids /\ source[p].key = g /\ build[p].pc = "classifying"
      /\ source[p].scenes = ScenesOf(p, source[p].raw) /\ Received(g, source[p].raw)
  BY NoneAssumption DEF Shape, ListInv, Listing, TilePartition
<1>2. own # None
  BY <1>1, NoneAssumption DEF Received, DiskInv
<1>3. /\ \/ /\ source[p].parts[g] # None
            /\ build' = [build EXCEPT ![p].pc = "fetching", ![p].part = source[p].parts[g]]
            /\ UNCHANGED <<source, diskParts>>
         \/ /\ DOMAIN own = {}
            /\ build' = [build EXCEPT ![p].pc = "fetching", ![p].part = None]
            /\ UNCHANGED <<source, diskParts>>
         \/ /\ Disk(p)
            /\ \E e \in StoredParts(p, g) :
                 /\ build' = [build EXCEPT ![p].pc = "fetching", ![p].part = e.part]
                 /\ source' = [source EXCEPT ![p].parts[g] = e.part]
            /\ UNCHANGED diskParts
         \/ /\ DOMAIN own # {}
            /\ build' = [build EXCEPT ![p].pc = "fetching", ![p].part = own]
            /\ source' = [source EXCEPT ![p].parts[g] = own]
            /\ \/ Disk(p) /\ diskParts' = diskParts \cup {[grid |-> g, raw |-> source[p].raw, part |-> own]}
               \/ UNCHANGED diskParts
      /\ UNCHANGED <<archive, diskSearch, diskScout>>
  BY DEF TilePartition
(* Whatever a partition came from, it is one of the current raw items.     *)
<1>4. ASSUME NEW e \in StoredParts(p, g), Disk(p)
      PROVE  OfRaw(p, e.part)
  <2>1. PICK q \in cached : e.part = PartitionOf(q, e.raw)
    BY <1>4 DEF StoredParts, DiskInv
  <2>2. e.raw = source[p].raw /\ q \in Sharing(p)
    BY <1>4 DEF StoredParts, Sharing
  <2>3. QED
    BY <2>1, <2>2 DEF OfRaw
<1>5. source[p].parts[g] # None => OfRaw(p, source[p].parts[g])
  BY <1>1 DEF PartInv
<1>6. OfRaw(p, IF DOMAIN own = {} THEN None ELSE own) /\ p \in Sharing(p)
  BY <1>1 DEF OfRaw, Sharing, PartitionOf, own
<1>7. source[p].parts[g] = None \/ OfRaw(p, source[p].parts[g])
  BY <1>5
<1> HIDE DEF g, own
<1>8. \E part, kept :
        /\ build' = [build EXCEPT ![p].pc = "fetching", ![p].part = part]
        /\ OfRaw(p, part) /\ OfRaw(p, kept)
        /\ source' = source \/ source' = [source EXCEPT ![p].parts[g] = kept]
  <2>1. CASE source[p].parts[g] # None
               /\ build' = [build EXCEPT ![p].pc = "fetching", ![p].part = source[p].parts[g]] /\ source' = source
    <3> WITNESS source[p].parts[g], source[p].parts[g]
    <3>1. QED
      BY <1>5, <2>1
  <2>2. CASE DOMAIN own = {} /\ build' = [build EXCEPT ![p].pc = "fetching", ![p].part = None] /\ source' = source
    <3> WITNESS None, None
    <3>1. QED
      BY <1>6, <2>2
  <2>3. CASE Disk(p) /\ \E e \in StoredParts(p, g) :
               /\ build' = [build EXCEPT ![p].pc = "fetching", ![p].part = e.part]
               /\ source' = [source EXCEPT ![p].parts[g] = e.part]
    <3>1. PICK e \in StoredParts(p, g) :
               /\ build' = [build EXCEPT ![p].pc = "fetching", ![p].part = e.part]
               /\ source' = [source EXCEPT ![p].parts[g] = e.part]
      BY <2>3
    <3>2. OfRaw(p, e.part)
      BY <1>4, <2>3
    <3> WITNESS e.part, e.part
    <3>3. QED
      BY <3>1, <3>2
  <2>4. CASE DOMAIN own # {} /\ build' = [build EXCEPT ![p].pc = "fetching", ![p].part = own]
               /\ source' = [source EXCEPT ![p].parts[g] = own]
    <3> WITNESS own, own
    <3>1. QED
      BY <1>6, <2>4
  <2>5. QED
    BY ONLY <1>3, <2>1, <2>2, <2>3, <2>4
<1>9. PICK part, kept :
        /\ build' = [build EXCEPT ![p].pc = "fetching", ![p].part = part]
        /\ OfRaw(p, part) /\ OfRaw(p, kept)
        /\ source' = source \/ source' = [source EXCEPT ![p].parts[g] = kept]
  BY <1>8
<1> HIDE DEF OfRaw
<1>10. /\ source'[p].key = source[p].key /\ source'[p].scenes = source[p].scenes
       /\ source'[p].raw = source[p].raw /\ source'[p].scouted = source[p].scouted
       /\ source'[p].parts \in {source[p].parts, [source[p].parts EXCEPT ![g] = kept]}
       /\ DOMAIN source'[p].parts = Grids
       /\ DOMAIN source' = Processes /\ DOMAIN source'[p] = DOMAIN source[p]
       /\ \A q \in Processes \ {p} : source'[q] = source[q]
  BY <1>9 DEF Shape
<1>11. /\ build'[p].pc = "fetching" /\ build'[p].part = part
       /\ build'[p].grid = build[p].grid /\ build'[p].keep = build[p].keep
       /\ build'[p].stats = build[p].stats /\ DOMAIN build' = Processes
       /\ DOMAIN build'[p] = DOMAIN build[p]
       /\ \A q \in Processes \ {p} : build'[q] = build[q]
  BY <1>9 DEF Shape
<1>12. Shape' /\ archive' = archive
  BY <1>1, <1>3, <1>10, <1>11 DEF Shape
<1>13. DiskInv'
  <2>1. \A e \in diskParts' : e \in diskParts \/ (Disk(p) /\ e.part = own /\ e.raw = source[p].raw /\ DOMAIN own # {})
    BY <1>3
  <2>2. \A e \in diskParts' : \E q \in cached : e.part = PartitionOf(q, e.raw)
    BY <1>1, <2>1 DEF DiskInv, Disk, own, PartitionOf
  <2>3. QED
    BY <1>3, <2>2, ReceivedSame DEF DiskInv, PartitionOf, ScenesOf
<1>14. ListInv(p)'
  BY <1>1, <1>10, <1>11, <1>12, ReceivedSame DEF ListInv, ScenesOf, g
<1>15. ScoutInv(p)'
  <2>1. Filtered(p)' = Filtered(p)
    BY <1>10, <1>11 DEF Filtered
  <2>2. QED
    BY <1>1, <1>10, <1>11, <2>1 DEF ScoutInv
<1>16. PartInv(p)'
  <2>1. \A piece : OfRaw(p, piece)' = OfRaw(p, piece)
    BY <1>10 DEF OfRaw, Sharing, Disk, PartitionOf, ScenesOf
  <2>2. \A h \in Grids : source'[p].parts[h] # None => h = source'[p].key /\ OfRaw(p, source'[p].parts[h])
    BY <1>1, <1>9, <1>10 DEF PartInv, Shape
  <2>3. OfRaw(p, build'[p].part)
    BY <1>9, <1>11
  <2>4. QED
    BY <2>1, <2>2, <2>3 DEF PartInv
<1>17. QED
  BY <1>10, <1>11, <1>12, <1>13, <1>14, <1>15, <1>16, Untouched

LEMMA EndBuildKeeps ==
  ASSUME SourceInv, UNCHANGED cached, NEW p \in Processes, EndBuild(p)
  PROVE  SourceInv'
<1> USE DEF SourceInv, At, disks
<1>1. Shape' /\ archive' = archive /\ \A q \in Processes \ {p} : source'[q] = source[q] /\ build'[q] = build[q]
  BY DEF Shape, EndBuild, Fresh, NoBuild
<1>2. DiskInv'
  BY DEF DiskInv, Received, EndBuild
<1>3. ListInv(p)' /\ ScoutInv(p)' /\ PartInv(p)'
  <2>1. source'[p] = source[p] /\ build'[p].pc = "idle"
    BY DEF Shape, EndBuild, NoBuild
  <2>2. ListInv(p)'
    BY <1>1, <2>1, ReceivedSame DEF ListInv, ScenesOf, Listing
  <2>3. ScoutInv(p)' /\ PartInv(p)'
    BY <2>1, PartsStay DEF ScoutInv
  <2>4. QED
    BY <2>2, <2>3
<1>4. QED
  BY <1>1, <1>2, <1>3, Untouched

LEMMA RestartKeeps ==
  ASSUME SourceInv, UNCHANGED cached, NEW p \in Processes, Restart(p)
  PROVE  SourceInv'
<1> USE DEF SourceInv, At, disks
<1>1. Shape' /\ archive' = archive /\ \A q \in Processes \ {p} : source'[q] = source[q] /\ build'[q] = build[q]
  BY DEF Shape, Restart, Fresh, NoBuild
<1>2. DiskInv'
  BY DEF DiskInv, Received, Restart
<1>3. ListInv(p)' /\ ScoutInv(p)' /\ PartInv(p)'
  BY DEF Shape, Restart, ListInv, ScoutInv, PartInv, Listing, Received, ScenesOf, Filtered, Fresh, NoBuild
<1>4. QED
  BY <1>1, <1>2, <1>3, Untouched

(* The archive only grows: whatever was received stays so.                 *)
LEMMA PublishKeeps ==
  ASSUME SourceInv, UNCHANGED cached, Publish
  PROVE  SourceInv'
<1>1. archive \subseteq archive' /\ archive' \subseteq Items /\ UNCHANGED <<diskSearch, diskParts, source, build>>
  BY DEF SourceInv, DiskInv, Publish, disks
<1>2. Shape'
  BY <1>1 DEF SourceInv, Shape
<1>3. DiskInv'
  BY <1>1, ReceivedStays DEF SourceInv, DiskInv, ScenesOf
<1>4. QED
  BY <1>1, <1>2, <1>3, Untouched DEF SourceInv

LEMMA SourceInvNext ==
  ASSUME SourceInv, [Next]_vars
  PROVE  SourceInv'
<1>1. CASE UNCHANGED vars
  <2>1. UNCHANGED <<cached, archive, diskSearch, diskParts, source, build>>
    BY <1>1 DEF vars
  <2>2. Shape' /\ DiskInv'
    BY <2>1, ReceivedSame DEF SourceInv, Shape, DiskInv, ScenesOf
  <2>3. QED
    BY <2>1, <2>2, Untouched DEF SourceInv
<1>2. CASE Next
  <2>1. UNCHANGED cached
    BY <1>2 DEF Next
  <2>2. ASSUME NEW p \in Processes, NEW g \in Grids, NEW keep \in Filters, StartBuild(p, g, keep)
        PROVE  SourceInv'
    BY <2>1, <2>2, StartBuildKeeps
  <2>3. ASSUME NEW p \in Processes, ListFromMemory(p) \/ ListFromDisk(p) \/ Search(p) \/ StoreSearch(p)
        PROVE  SourceInv'
    BY <2>1, <2>3, ListFromMemoryKeeps, ListFromDiskKeeps, SearchKeeps, StoreSearchKeeps
  <2>4. ASSUME NEW p \in Processes, CheckScout(p) \/ EndScout(p) \/ TilePartition(p) \/ EndBuild(p) \/ Restart(p)
        PROVE  SourceInv'
    BY <2>1, <2>4, CheckScoutKeeps, EndScoutKeeps, TilePartitionKeeps, EndBuildKeeps, RestartKeeps
  <2>5. ASSUME NEW p \in Processes, NEW i \in 1..MaxScenes[p], ScoutScene(p, i)
        PROVE  SourceInv'
    BY <2>1, <2>5, ScoutSceneKeeps
  <2>6. QED
    BY <1>2, <2>1, <2>2, <2>3, <2>4, <2>5, PublishKeeps DEF Next
<1>3. QED
  BY <1>1, <1>2

THEOREM SourceCorrect == Spec => []SourceInv
BY SourceInvInit, SourceInvNext, PTL DEF Spec

(* The fetch by a scene index reads the scene that was scouted under it,   *)
(* whichever cache the statistics came from: every scout result a build    *)
(* selects by is of the item its index now stands for (stac_api.py:387).   *)
THEOREM StatsAreOfTheirScenes == Spec => []StatsAreOfScenes
<1>1. SourceInv => StatsAreOfScenes
  BY DEF SourceInv, ScoutInv, StatsAreOfScenes
<1>2. QED
  BY <1>1, SourceCorrect, PTL

(* Whatever was listed before, restarted, or stored by others, the         *)
(* partition a build selects by is of the raw items of its own list,       *)
(* numbered as some process that shares its disk cache numbers them, for   *)
(* any limits (stac_api.py:400-447 keys it by all the raw items).          *)
THEOREM PartitionsAreOfTheirScenes == Spec => []PartitionIsOfScenes
<1>1. SourceInv => PartitionIsOfScenes
  BY DEF SourceInv, PartInv, OfRaw, PartitionIsOfScenes
<1>2. QED
  BY <1>1, SourceCorrect, PTL

-----------------------------------------------------------------------------
LEMMA SeqOfFiniteSet ==
  ASSUME NEW S, IsFiniteSet(S), NEW f \in SetToSeqs(S)
  PROVE  ToSet(f) = S
<1> DEFINE D == 1..Cardinality(S)
<1>1. f \in Injection(D, S)
  BY DEF SetToSeqs, Injection, IsInjective
<1>2. Cardinality(S) \in Nat
  BY FS_CardinalityType
<1>3. IsFiniteSet(D) /\ Cardinality(D) = Cardinality(S)
  BY <1>2, FS_Interval
<1>4. f \in Surjection(D, S)
  BY <1>1, <1>3, FS_Injection
<1>5. QED
  BY <1>4 DEF Surjection, ToSet

LEMMA OneAnswer ==
  ASSUME NEW g \in Grids, archive = Archived, NEW raw, Received(g, raw)
  PROVE  ToSet(raw) = Archived \cap Covers[g]
<1>1. PICK listed \in SUBSET (archive \cap Covers[g]) :
        Archived \cap Covers[g] \subseteq listed /\ raw \in SetToSeqs(listed)
  BY DEF Received
<1>2. listed = Archived \cap Covers[g]
  BY <1>1
<1>3. IsFiniteSet(listed)
  BY <1>2, SourceAssumption, FS_Subset
<1>4. QED
  BY <1>1, <1>2, <1>3, SeqOfFiniteSet

(* Cache hits and live searches number the same scenes alike, in every     *)
(* process and whatever order the service answered in (stac_api.py:533).   *)
THEOREM SceneIndicesAgree == Spec => []SameIndices
<1>1. ASSUME SourceInv PROVE SameIndices
  <2> SUFFICES ASSUME NEW p \in Processes, NEW q \in Processes, archive = Archived,
                      source[p].key # None, source[p].key = source[q].key, MaxScenes[p] = MaxScenes[q]
               PROVE  source[p].scenes = source[q].scenes
    BY DEF SameIndices
  <2>1. source[p].key \in Grids
    BY <1>1 DEF SourceInv, Shape
  <2>2. ToSet(source[p].raw) = ToSet(source[q].raw)
    BY <1>1, <2>1, OneAnswer DEF SourceInv, ListInv
  <2>3. source[p].scenes = ScenesOf(p, source[p].raw) /\ source[q].scenes = ScenesOf(q, source[q].raw)
    BY <1>1 DEF SourceInv, ListInv
  <2>4. QED
    BY <2>2, <2>3 DEF ScenesOf, InOrder
<1>2. QED
  BY <1>1, SourceCorrect, PTL
=============================================================================
