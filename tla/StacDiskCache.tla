--------------------------- MODULE StacDiskCache ---------------------------
(***************************************************************************)
(* One key of the Python disk cache (stac_cache.py:161-187): _safe_load    *)
(* and _atomic_write, run by several processes over one directory, which   *)
(* may die at any step, fill the disk, or find the file damaged.           *)
(***************************************************************************)
EXTENDS Naturals, FiniteSets

CONSTANTS Users, Data, Miss,
          Garbage,      (* what damage makes of the file                    *)
          Failing,      (* the steps of a store that may raise OSError      *)
          MaxStores,    (* bound: stores begun during the behaviour         *)
          MaxDamages    (* bound: times the file is damaged                 *)

(* Damaged text that json.load rejects, damaged bytes the UTF-8 decoder    *)
(* rejects, and an envelope of another schema.                             *)
Damages == {"unparsable", "undecodable", "other_schema"}
FailPoints == {"mkdir", "mkstemp", "write", "replace"}

ASSUME CacheAssumption ==
  /\ Garbage \subseteq Damages /\ Failing \subseteq FailPoints
  /\ MaxStores \in Nat /\ MaxDamages \in Nat /\ Miss \notin Data \cup Damages /\ Data \cap Damages = {}

VARIABLES file,     (* content under the final name: Data, damage, or Miss  *)
          temp,     (* process -> content of its mkstemp file               *)
          litter,   (* temp files left behind by processes that died        *)
          pc,       (* process -> program point                             *)
          value,    (* process -> what it stores                            *)
          got,      (* process -> result of its last load, or "raised"      *)
          offered,  (* values handed to a store so far  (history)           *)
          stores,   (* stores begun                                         *)
          damages   (* times the file was damaged                           *)

cacheVars == <<file, temp, litter, pc, value, got, offered, stores, damages>>

NoTemp == "none"      \* no temp file
Part == "part"      \* created, or written in part

CacheInit == /\ file = Miss
             /\ temp = [p \in Users |-> NoTemp]
             /\ litter = 0
             /\ pc = [p \in Users |-> "idle"]
             /\ value = [p \in Users |-> Miss]
             /\ got = [p \in Users |-> Miss]
             /\ offered = {}
             /\ stores = 0
             /\ damages = 0

Idle(p) == pc[p] \in {"idle", "stored", "store_failed", "store_raised"}
Goto(p, point) == pc' = [pc EXCEPT ![p] = point]

(* _safe_load: is_file, then open and json.load.  The file behind the open *)
(* descriptor is never written again, so opening and reading are one step. *)
StartLoad(p) ==
  /\ Idle(p)
  /\ IF file = Miss THEN got' = [got EXCEPT ![p] = Miss] /\ UNCHANGED pc
                    ELSE Goto(p, "opening") /\ UNCHANGED got
  /\ UNCHANGED <<file, temp, litter, value, offered, stores, damages>>

(* What the open file gives: only OSError and JSONDecodeError are caught,  *)
(* and a UnicodeDecodeError is neither.                                    *)
Parsed == CASE file \in Data -> file
            [] file = "undecodable" -> "raised"
            [] OTHER -> Miss

ReadFile(p) ==
  /\ pc[p] = "opening"
  /\ got' = [got EXCEPT ![p] = Parsed]
  /\ Goto(p, "idle")
  /\ UNCHANGED <<file, temp, litter, value, offered, stores, damages>>

(* _atomic_write: mkdir and mkstemp are outside the try.                   *)
StartStore(p) ==
  /\ Idle(p) /\ stores < MaxStores
  /\ stores' = stores + 1
  /\ \E v \in Data : /\ value' = [value EXCEPT ![p] = v]
                     /\ offered' = offered \cup {v}
  /\ Goto(p, "mkdir")
  /\ UNCHANGED <<file, temp, litter, got, damages>>

MakeTemp(p) ==
  /\ pc[p] = "mkdir"
  /\ \/ /\ temp' = [temp EXCEPT ![p] = Part]
        /\ Goto(p, "write")
     \/ /\ Failing \cap {"mkdir", "mkstemp"} # {}
        /\ Goto(p, "store_raised")
        /\ UNCHANGED temp
  /\ UNCHANGED <<file, litter, value, got, offered, stores, damages>>

(* Variant: the final name is opened for writing.                          *)
InPlace(p, v) == file' = "unparsable" /\ temp' = [temp EXCEPT ![p] = v]
InTemp(p, v) == temp' = [temp EXCEPT ![p] = v] /\ UNCHANGED file

(* json.dump into the temp file, in two steps; close.                      *)
WriteTemp(p) ==
  /\ pc[p] = "write"
  /\ \/ /\ InTemp(p, Part)
        /\ Goto(p, "write_rest")
     \/ /\ "write" \in Failing
        /\ Goto(p, "discard") /\ UNCHANGED <<file, temp>>
  /\ UNCHANGED <<litter, value, got, offered, stores, damages>>

WriteRest(p) ==
  /\ pc[p] = "write_rest"
  /\ \/ /\ temp' = [temp EXCEPT ![p] = value[p]]
        /\ Goto(p, "replace")
     \/ /\ "write" \in Failing
        /\ Goto(p, "discard") /\ UNCHANGED temp
  /\ UNCHANGED <<file, litter, value, got, offered, stores, damages>>

Replace(p) ==
  /\ pc[p] = "replace"
  /\ \/ /\ file' = temp[p]
        /\ temp' = [temp EXCEPT ![p] = NoTemp]
        /\ Goto(p, "stored")
     \/ /\ "replace" \in Failing
        /\ Goto(p, "discard") /\ UNCHANGED <<file, temp>>
  /\ UNCHANGED <<litter, value, got, offered, stores, damages>>

AfterUnlink(p) == NoTemp

(* except OSError: unlink the temp file, say nothing.                      *)
Discard(p) ==
  /\ pc[p] = "discard"
  /\ temp' = [temp EXCEPT ![p] = AfterUnlink(p)]
  /\ Goto(p, "store_failed")
  /\ UNCHANGED <<file, litter, value, got, offered, stores, damages>>

(* The process dies; its temp file stays.                                  *)
Crash(p) ==
  /\ ~Idle(p)
  /\ litter' = IF temp[p] = NoTemp THEN litter ELSE litter + 1
  /\ temp' = [temp EXCEPT ![p] = NoTemp]
  /\ Goto(p, "idle")
  /\ UNCHANGED <<file, value, got, offered, stores, damages>>

Damage == /\ file # Miss /\ damages < MaxDamages
          /\ damages' = damages + 1
          /\ file' \in Garbage
          /\ UNCHANGED <<temp, litter, pc, value, got, offered, stores>>

CacheNext == \/ \E p \in Users : \/ StartLoad(p) \/ ReadFile(p) \/ StartStore(p)
                                 \/ MakeTemp(p) \/ WriteTemp(p) \/ WriteRest(p)
                                 \/ Replace(p) \/ Discard(p) \/ Crash(p)
             \/ Damage

CacheSpec == CacheInit /\ [][CacheNext]_cacheVars

-----------------------------------------------------------------------------

(* The abstract entry: what a load that opens the file now would return.   *)
Entry == INSTANCE CacheEntry WITH
           Processes <- Users,
           entry <- IF file \in Data THEN file ELSE Miss,
           lost <- damages

(* Any number of processes may share the directory: whatever they, a full  *)
(* disk and their deaths do, a load returns one whole stored value, and a  *)
(* value once stored is never lost (stac_cache.py:36-37, 176-187).         *)
ImplementsEntry == Entry!Spec

=============================================================================
