--------------------------- MODULE ProductStore ---------------------------
(***************************************************************************)
(* Provider.build_prior over CompositeStore (provider.py:68-113,           *)
(* persistence.py:53-242), for one request hash: a call that finds a       *)
(* readable item loads the product asset by asset; any other call builds a *)
(* composite, removes the old assets, writes the new ones in a pool and    *)
(* finally the item.  Nothing is locked.  An asset is written to a         *)
(* temporary file, <name>.tif.tmp, whose name all callers share, and comes *)
(* to its place by a copy or a rename (geotiff.py:105-189); the item is    *)
(* written in place.  What a crash, a failed write or a second caller      *)
(* leaves on disk is what the next call finds.                             *)
(***************************************************************************)
EXTENDS Integers, FiniteSets

CONSTANTS Callers,      (* processes that call build_prior                  *)
          AssetSets,    (* asset file sets a composite of the request has   *)
          WriteWorkers, (* write_workers of the store                       *)
          MayFail,      (* may writing an asset raise (full disk)?          *)
          MayCrash,     (* may a process be killed?                         *)
          MaxBuilds,    (* bound: composites built during the behaviour     *)
          Absent,       (* a file that is not there                         *)
          Torn          (* an item truncated, or cut short by a death       *)

Files == UNION AssetSets
Builds == 1..MaxBuilds

ASSUME StoreAssumption ==
  /\ AssetSets # {} /\ \A a \in AssetSets : a # {}
  /\ WriteWorkers \in Nat \ {0} /\ MaxBuilds \in Nat
  /\ MayFail \in BOOLEAN /\ MayCrash \in BOOLEAN
ASSUME NamesAssumption ==
  /\ Absent \notin [by : 0..MaxBuilds, whole : BOOLEAN] \cup [by : Builds, lists : AssetSets]
  /\ Torn \notin [by : Builds, lists : AssetSets]

VARIABLES
  dir,      (* does the assets directory exist?                             *)
  files,    (* asset file -> Absent, or the build it is of and whether it   *)
            (* is whole                                                     *)
  temps,    (* asset file -> the same of its temporary file                 *)
  item,     (* stac-item.json: Absent, Torn, or the item of a finished save *)
  built,    (* composites built so far: the identity of the next one        *)
  pc,       (* caller -> program point                                      *)
  mine,     (* caller -> the build it is saving                             *)
  lists,    (* caller -> asset files of its composite, or of its item       *)
  todo,     (* caller -> assets not yet written, or not yet read            *)
  stage,    (* caller -> asset -> how far its write of the asset is         *)
  failed,   (* caller -> has one of its writes raised?                      *)
  read,     (* caller -> builds of the assets read so far                   *)
  mishap    (* has a call raised or died?  (history)                        *)

disk == <<dir, files, temps, item>>
local == <<mine, lists, todo, stage, failed, read>>
vars == <<disk, built, pc, local, mishap>>

Items == [by : Builds, lists : AssetSets]
Whole(f, b) == files[f] = [by |-> b, whole |-> TRUE]
Idle(p) == pc[p] \in {"idle", "saved", "served", "raised"}

Init == /\ dir = FALSE
        /\ files = [f \in Files |-> Absent]
        /\ temps = [f \in Files |-> Absent]
        /\ item = Absent
        /\ built = 0
        /\ pc = [p \in Callers |-> "idle"]
        /\ mine = [p \in Callers |-> 0]
        /\ lists = [p \in Callers |-> {}]
        /\ todo = [p \in Callers |-> {}]
        /\ stage = [p \in Callers |-> [f \in Files |-> "none"]]
        /\ failed = [p \in Callers |-> FALSE]
        /\ read = [p \in Callers |-> {}]
        /\ mishap = FALSE

Goto(p, point) == pc' = [pc EXCEPT ![p] = point]

(* A call that raises or dies leaves the disk behind and nothing else.     *)
Leave(p, point) == /\ Goto(p, point)
                   /\ mishap' = TRUE
                   /\ lists' = [lists EXCEPT ![p] = {}]
                   /\ todo' = [todo EXCEPT ![p] = {}]
                   /\ stage' = [stage EXCEPT ![p] = [f \in Files |-> "none"]]
                   /\ failed' = [failed EXCEPT ![p] = FALSE]
                   /\ read' = [read EXCEPT ![p] = {}]
                   /\ UNCHANGED mine
Raise(p) == Leave(p, "raised")

-----------------------------------------------------------------------------
(* has_product: an item that is absent or does not parse is a miss.        *)
ItemExists == item # Absent   \* variant: the item is not parsed
HasProduct == item \in Items

Call(p) ==
  /\ Idle(p)
  /\ \E rebuild \in BOOLEAN :
       IF ~rebuild /\ HasProduct
       THEN Goto(p, "opening") /\ UNCHANGED <<built, mine>>
       ELSE /\ built < MaxBuilds
            /\ built' = built + 1
            /\ mine' = [mine EXCEPT ![p] = built + 1]
            /\ Goto(p, "building")
  /\ lists' = [lists EXCEPT ![p] = {}]
  /\ failed' = [failed EXCEPT ![p] = FALSE]
  /\ read' = [read EXCEPT ![p] = {}]
  /\ UNCHANGED <<disk, todo, stage, mishap>>

SkipsClearing == "making"   \* variant: the old assets stay in place
AfterBuild == IF dir THEN "clearing" ELSE "making"

(* The source and the compositor produce a composite, or raise.            *)
Build(p) ==
  /\ pc[p] = "building"
  /\ \/ /\ \E assets \in AssetSets : /\ lists' = [lists EXCEPT ![p] = assets]
                                     /\ todo' = [todo EXCEPT ![p] = assets]
        /\ Goto(p, AfterBuild)
        /\ UNCHANGED <<mine, stage, failed, read, mishap>>
     \/ MayFail /\ Raise(p)
  /\ UNCHANGED <<disk, built>>

(* shutil.rmtree(assets_dir), one unlink at a time: temporary files too.   *)
Unlink(p, f) ==
  /\ pc[p] = "clearing"
  /\ \/ files[f] # Absent /\ files' = [files EXCEPT ![f] = Absent] /\ UNCHANGED temps
     \/ temps[f] # Absent /\ temps' = [temps EXCEPT ![f] = Absent] /\ UNCHANGED files
  /\ UNCHANGED <<dir, item, built, pc, local, mishap>>

Cleared == \A f \in Files : files[f] = Absent /\ temps[f] = Absent

Rmdir(p) ==
  /\ pc[p] = "clearing"
  /\ Cleared
  /\ dir' = FALSE
  /\ Goto(p, "making")
  /\ UNCHANGED <<files, temps, item, built, local, mishap>>

(* An entry of the listing is gone, or a new one keeps rmdir from working: *)
(* some other caller is at work in the directory.                          *)
RmtreeRaises(p) ==
  /\ pc[p] = "clearing"
  /\ \E q \in Callers \ {p} : pc[q] \in {"clearing", "making", "writing"}
  /\ Raise(p)
  /\ UNCHANGED <<disk, built>>

MakeDirs(p) ==
  /\ pc[p] = "making"
  /\ dir' = TRUE
  /\ Goto(p, "writing")
  /\ UNCHANGED <<files, temps, item, built, local, mishap>>

(* write_tiled_geotiff, in the pool.  A write is at one of the stages      *)
(*   "old"     its temporary file's old name is free, the asset's is next, *)
(*   "create"  both names are free,                                        *)
(*   "write"   rasterio writes the temporary file,                         *)
(*   "copy"    the temporary file is closed and a COG is to be made of it, *)
(*   "copying" rio_copy writes the asset,                                  *)
(*   "drop"    the asset is written, the temporary file is to go,          *)
(*   "move"    the temporary file is to be renamed to the asset.           *)
Open(p) == {f \in Files : stage[p][f] # "none"}
Stages(p, f, s) == stage' = [stage EXCEPT ![p][f] = s] /\ UNCHANGED failed
WriteRaises(p, f) == /\ stage' = [stage EXCEPT ![p][f] = "none"]
                     /\ failed' = [failed EXCEPT ![p] = TRUE]
WriteFrame == UNCHANGED <<item, built, pc, mine, lists, read, mishap>>

(* Somebody else may unlink f between its exists() and its unlink().       *)
Contended(p, f) == \E q \in Callers \ {p} : pc[q] = "clearing" \/ stage[q][f] # "none"

(* The directory is made again, and a temporary file of the name removed,  *)
(* whosever it is.                                                         *)
StartWrite(p, f) ==
  /\ pc[p] = "writing" /\ f \in todo[p]
  /\ Cardinality(Open(p)) < WriteWorkers
  /\ todo' = [todo EXCEPT ![p] = @ \ {f}]
  /\ dir' = TRUE
  /\ temps' = [temps EXCEPT ![f] = Absent]
  /\ Stages(p, f, "old") \/ (Contended(p, f) /\ WriteRaises(p, f))
  /\ UNCHANGED files /\ WriteFrame

DropOld(p, f) ==
  /\ stage[p][f] = "old"
  /\ files' = [files EXCEPT ![f] = Absent]
  /\ Stages(p, f, "create") \/ (Contended(p, f) /\ WriteRaises(p, f))
  /\ UNCHANGED <<dir, temps, todo>> /\ WriteFrame

(* rasterio.open(temp, "w"): next to another writer of the name, the bytes *)
(* may become a mix, which is of no build.                                 *)
CreateTemp(p, f) ==
  /\ stage[p][f] = "create"
  /\ \/ /\ dir
        /\ \E by \in {mine[p]} \cup {0 : q \in {q \in Callers \ {p} : stage[q][f] = "write"}} :
             temps' = [temps EXCEPT ![f] = [by |-> by, whole |-> FALSE]]
        /\ Stages(p, f, "write")
     \/ (MayFail \/ ~dir) /\ WriteRaises(p, f) /\ UNCHANGED temps
  /\ UNCHANGED <<dir, files, todo>> /\ WriteFrame

(* The bytes land in the file the name stood for: it may be gone since, or *)
(* another's.  _has_cog_driver decides between a copy and a rename.        *)
EndTemp(p, f) ==
  /\ stage[p][f] = "write"
  /\ \/ /\ temps' = IF temps[f] # Absent /\ temps[f].by = mine[p]
                    THEN [temps EXCEPT ![f] = [by |-> mine[p], whole |-> TRUE]] ELSE temps
        /\ Stages(p, f, "copy") \/ Stages(p, f, "move")
     \/ MayFail /\ WriteRaises(p, f) /\ UNCHANGED temps
  /\ UNCHANGED <<dir, files, todo>> /\ WriteFrame

(* except Exception: the asset is unlinked, the rename is left.            *)
FallBack(p, f) ==
  /\ files' = [files EXCEPT ![f] = Absent]
  /\ Stages(p, f, "move") \/ (Contended(p, f) /\ WriteRaises(p, f))

StartCopy(p, f) ==
  /\ stage[p][f] = "copy"
  /\ \/ /\ temps[f] # Absent
        /\ files' = [files EXCEPT ![f] = [by |-> temps[f].by, whole |-> FALSE]]
        /\ Stages(p, f, "copying")
     \/ temps[f] = Absent /\ FallBack(p, f)
  /\ UNCHANGED <<dir, temps, todo>> /\ WriteFrame

(* The copy is whole when it is of a whole file and nobody else writes it. *)
CopyIsWhole(p, f) ==
  /\ temps[f] # Absent /\ temps[f].whole
  /\ files[f] = [by |-> temps[f].by, whole |-> FALSE]
  /\ \A q \in Callers \ {p} : stage[q][f] # "copying"

EndCopy(p, f) ==
  /\ stage[p][f] = "copying"
  /\ \/ /\ files' = IF CopyIsWhole(p, f)
                    THEN [files EXCEPT ![f] = [by |-> temps[f].by, whole |-> TRUE]] ELSE files
        /\ Stages(p, f, "drop")
     \/ (MayFail \/ ~CopyIsWhole(p, f)) /\ FallBack(p, f)
  /\ UNCHANGED <<dir, temps, todo>> /\ WriteFrame

DropTempQuietly(p, f) ==   \* variant: unlink(missing_ok=True)
  /\ stage[p][f] = "drop"
  /\ temps' = [temps EXCEPT ![f] = Absent]
  /\ Stages(p, f, "none")
  /\ UNCHANGED <<dir, files, todo>> /\ WriteFrame

DropTemp(p, f) ==
  /\ stage[p][f] = "drop"
  /\ IF temps[f] # Absent
     THEN /\ temps' = [temps EXCEPT ![f] = Absent]
          /\ Stages(p, f, "none")
          /\ UNCHANGED files
     ELSE FallBack(p, f) /\ UNCHANGED temps
  /\ UNCHANGED <<dir, todo>> /\ WriteFrame

(* os.replace: without its temporary file the write raises.                *)
Replace(p, f) ==
  /\ stage[p][f] = "move"
  /\ IF temps[f] # Absent
     THEN /\ files' = [files EXCEPT ![f] = temps[f]]
          /\ temps' = [temps EXCEPT ![f] = Absent]
          /\ Stages(p, f, "none")
     ELSE WriteRaises(p, f) /\ UNCHANGED <<files, temps>>
  /\ UNCHANGED <<dir, todo>> /\ WriteFrame

WriteStep(p, f) == \/ StartWrite(p, f) \/ DropOld(p, f) \/ CreateTemp(p, f) \/ EndTemp(p, f)
                   \/ StartCopy(p, f) \/ EndCopy(p, f) \/ DropTemp(p, f) \/ Replace(p, f)

(* A write that raised cancels the ones not started, when the caller comes *)
(* to its result.                                                          *)
CancelWrites(p) ==
  /\ pc[p] = "writing" /\ failed[p] /\ todo[p] # {}
  /\ todo' = [todo EXCEPT ![p] = {}]
  /\ UNCHANGED <<disk, built, pc, mine, lists, stage, failed, read, mishap>>

PoolWritten(p) == Open(p) = {} /\ \A f \in lists[p] : Whole(f, mine[p])   \* variant
PoolDrained(p) == todo[p] = {} /\ Open(p) = {}

(* Leaving the pool; opening the item for writing truncates it.            *)
OpenItem(p) ==
  /\ pc[p] = "writing"
  /\ PoolDrained(p)
  /\ IF failed[p] THEN Raise(p) /\ UNCHANGED item
                  ELSE /\ Goto(p, "naming")
                       /\ item' = Torn
                       /\ UNCHANGED <<local, mishap>>
  /\ UNCHANGED <<dir, files, temps, built>>

(* json.dump and close.  Written over another caller's longer item, the    *)
(* file has trailing bytes that do not parse.                              *)
WriteItem(p) ==
  /\ pc[p] = "naming"
  /\ \/ item' = [by |-> mine[p], lists |-> lists[p]]
     \/ item # Torn /\ item' = Torn
  /\ Goto(p, "saved")
  /\ UNCHANGED <<dir, files, temps, built, local, mishap>>

-----------------------------------------------------------------------------
(* CompositeStore.load: the item is read a second time, then its assets.   *)
ReadItem(p) ==
  /\ pc[p] = "opening"
  /\ IF item \in Items
     THEN /\ Goto(p, "loading")
          /\ lists' = [lists EXCEPT ![p] = item.lists]
          /\ todo' = [todo EXCEPT ![p] = item.lists]
          /\ UNCHANGED <<mine, stage, failed, read, mishap>>
     ELSE Raise(p)
  /\ UNCHANGED <<disk, built>>

(* rasterio opens an asset: an absent one raises; a torn one raises or,    *)
(* its missing blocks read as nodata, passes for the build that began it.  *)
ReadAsset(p, f) ==
  /\ pc[p] = "loading" /\ f \in todo[p]
  /\ \/ /\ files[f] # Absent
        /\ todo' = [todo EXCEPT ![p] = @ \ {f}]
        /\ read' = [read EXCEPT ![p] = @ \cup {files[f].by}]
        /\ UNCHANGED <<pc, mine, lists, stage, failed, mishap>>
     \/ /\ \A b \in Builds : ~Whole(f, b)
        /\ Raise(p)
  /\ UNCHANGED <<disk, built>>

Serve(p) ==
  /\ pc[p] = "loading" /\ todo[p] = {}
  /\ Goto(p, "served")
  /\ UNCHANGED <<disk, built, local, mishap>>

(* The process dies: its calls and its pool are gone, the disk is not.     *)
Crash(p) ==
  /\ MayCrash /\ ~Idle(p)
  /\ Leave(p, "idle")
  /\ UNCHANGED <<disk, built>>

Step(p) == \/ Build(p)
           \/ \E f \in Files : Unlink(p, f)
           \/ Rmdir(p)
           \/ RmtreeRaises(p)
           \/ MakeDirs(p)
           \/ \E f \in Files : WriteStep(p, f)
           \/ CancelWrites(p)
           \/ OpenItem(p)
           \/ WriteItem(p)
           \/ ReadItem(p)
           \/ \E f \in Files : ReadAsset(p, f)
           \/ Serve(p)

(* The bound on builds is reached: only then may the system stop.          *)
Exhausted == built = MaxBuilds /\ (\A p \in Callers : Idle(p)) /\ UNCHANGED vars

Next == \/ \E p \in Callers : Call(p) \/ Step(p) \/ Crash(p)
        \/ Exhausted

Spec == Init /\ [][Next]_vars

-----------------------------------------------------------------------------

(* No other caller has built anything yet: it may only have loaded.        *)
Alone(p) == \A q \in Callers \ {p} : mine[q] = 0

(* A caller no other rebuilds under is never served bands of two saves,    *)
(* even after its rebuild died half way and left the old item in place:    *)
(* the old assets are all removed before the first new one is written.     *)
ServedFromOneSave ==
  \A p \in Callers : pc[p] = "served" /\ Alone(p) => Cardinality(read[p]) = 1

(* A save that no other caller disturbed leaves the product whole when it  *)
(* returns, whatever dead and failed calls left behind: its item, all its  *)
(* assets, no asset of another composite and no temporary file.            *)
SavedIsWhole ==
  \A p \in Callers :
    pc[p] = "saved" /\ Alone(p) =>
      /\ item = [by |-> mine[p], lists |-> lists[p]]
      /\ \A f \in lists[p] : Whole(f, mine[p])
      /\ \A f \in Files \ lists[p] : files[f] = Absent
      /\ \A f \in Files : temps[f] = Absent

(* Overlapping calls whose composites have the same assets, and that all   *)
(* return, leave an item whose assets are all there and whole, although    *)
(* they unlink, create, copy and rename under the same names: of two       *)
(* writers of one temporary file, one finds it gone and raises.            *)
ListedAssetsWhole ==
  (~mishap /\ item \in Items /\ \A p \in Callers : Idle(p) /\ lists[p] = item.lists) =>
    \A f \in item.lists : \E b \in Builds : Whole(f, b)

(* An item cut short by a crash never reaches a caller as an error: the    *)
(* next call takes it for a miss and builds (persistence.py:57-61).        *)
TornItemIsMiss ==
  [][\A p \in Callers : pc[p] = "opening" /\ Alone(p) => pc'[p] # "raised"]_vars

(* Every call that keeps running ends, by returning or by raising: none    *)
(* waits for a pool that cannot drain, and none for another caller, who    *)
(* may stop at any point for good.                                         *)
CallsEnd == \A p \in Callers : WF_vars(Step(p)) => (~Idle(p) ~> Idle(p))
=============================================================================
