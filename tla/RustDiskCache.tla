--------------------------- MODULE RustDiskCache ---------------------------
(***************************************************************************)
(* One key of the Rust disk cache (disk_cache.rs:166-213): load_at and     *)
(* store_at.  Every writer of the key uses the same temporary name, so the *)
(* names and the files they stand for are kept apart: File::create cuts    *)
(* the file behind the name it finds, rename moves the name alone, and a   *)
(* descriptor stays with its file.                                         *)
(***************************************************************************)
EXTENDS Naturals, FiniteSets

CONSTANTS Writers, Readers, Data, Miss,
          Inodes,     (* files; enough that one is always unused            *)
          None,
          MayFail     (* may create, write and rename raise?                *)

ASSUME InodesAssumption ==
  /\ IsFiniteSet(Inodes) /\ IsFiniteSet(Writers) /\ IsFiniteSet(Readers)
  /\ Cardinality(Inodes) > 1 + Cardinality(Writers) + Cardinality(Readers)
  /\ None \notin Inodes /\ None \notin Data /\ Miss \notin Data

VARIABLES final,     (* the file behind <key>.json, or None                 *)
          tmp,       (* the file behind <key>.json.tmp, or None             *)
          content,   (* file -> its first and second part                   *)
          pc,        (* process -> program point                            *)
          fd,        (* process -> the file it has open                     *)
          value,     (* writer -> what it stores                            *)
          alone,     (* writers that had no other beside them since they    *)
                     (* created their file  (history)                       *)
          sure,      (* what the last store published that was alone, or    *)
                     (* None after one that was not  (history)              *)
          promised   (* reader -> sure, as it opened its file  (history)    *)

history == <<alone, sure, promised>>
vars == <<final, tmp, content, pc, fd, value, history>>

Users == Writers \cup Readers
Empty == <<None, None>>

Init == /\ final = None
        /\ tmp = None
        /\ content = [n \in Inodes |-> Empty]
        /\ pc = [p \in Users |-> "idle"]
        /\ fd = [p \in Users |-> None]
        /\ value = [w \in Writers |-> None]
        /\ alone = {}
        /\ sure = Miss
        /\ promised = [r \in Readers |-> None]

Goto(p, point) == pc' = [pc EXCEPT ![p] = point]
Unused == Inodes \ ({final, tmp} \cup {fd[p] : p \in Users})

(* A file without a name and without a descriptor is gone.                 *)
Reclaim == content' = [n \in Inodes |-> IF n \in Unused' THEN Empty ELSE content[n]]

(* A call that ends, raises or dies keeps nothing.                         *)
Leave(p) == /\ Goto(p, "idle")
            /\ fd' = [fd EXCEPT ![p] = None]
            /\ value' = [w \in Writers |-> IF w = p THEN None ELSE value[w]]
            /\ alone' = alone \ {p}
            /\ promised' = [r \in Readers |-> IF r = p THEN None ELSE promised[r]]

(* Only a file written through by one store parses.                        *)
Parsed(n) == IF n # None /\ content[n] \in {<<v, v>> : v \in Data} THEN content[n][1] ELSE Miss

-----------------------------------------------------------------------------
(* load_at: exists, read_to_string, from_str.  Without a file it is a miss *)
(* at once; else it returns what Parsed gives at the end of the reading.   *)
Exists(r) ==
  /\ pc[r] = "idle" /\ final # None
  /\ Goto(r, "reading")
  /\ fd' = [fd EXCEPT ![r] = final]
  /\ promised' = [promised EXCEPT ![r] = sure]
  /\ UNCHANGED <<final, tmp, content, value, alone, sure>>

ReadToString(r) ==
  /\ pc[r] = "reading"
  /\ Leave(r)
  /\ UNCHANGED <<final, tmp, sure>>
  /\ Reclaim

-----------------------------------------------------------------------------
(* store_at                                                                *)
StartStore(w) ==
  /\ pc[w] = "idle"
  /\ \E v \in Data : value' = [value EXCEPT ![w] = v]
  /\ Goto(w, "create")
  /\ UNCHANGED <<final, tmp, content, fd, history>>

Writing == {w \in Writers : pc[w] \in {"write", "write_rest", "rename"}}

(* The file behind the temporary name, cut; or a new one.                  *)
Created == IF tmp = None THEN CHOOSE n \in Inodes : n \in Unused ELSE tmp

Create(w) ==
  /\ pc[w] = "create"
  /\ \/ /\ tmp' = Created
        /\ content' = [content EXCEPT ![Created] = Empty]
        /\ fd' = [fd EXCEPT ![w] = Created]
        /\ Goto(w, "write")
        /\ alone' = IF Writing = {} THEN {w} ELSE {}
        /\ UNCHANGED <<value, promised>>
     \/ MayFail /\ Leave(w) /\ UNCHANGED <<tmp, content>>
  /\ UNCHANGED <<final, sure>>

(* write_all at the descriptor's own offset, in two parts.                 *)
Write(w, part, from, to) ==
  /\ pc[w] = from
  /\ \/ /\ content' = [content EXCEPT ![fd[w]][part] = value[w]]
        /\ Goto(w, to)
        /\ UNCHANGED <<final, tmp, fd, value, alone, promised>>
     \/ MayFail /\ Leave(w) /\ UNCHANGED <<final, tmp>> /\ Reclaim
  /\ UNCHANGED sure

(* rename: whatever file has the name by now, or ENOENT.                   *)
TmpKept == tmp   \* variant: the entry is linked, the temporary name stays
TmpGone == None

Rename(w) ==
  /\ pc[w] = "rename"
  /\ \/ /\ tmp # None
        /\ final' = tmp
        /\ tmp' = TmpGone
        /\ sure' = IF w \in alone THEN value[w] ELSE None
     \/ (tmp = None \/ MayFail) /\ UNCHANGED <<final, tmp, sure>>
  /\ Leave(w)
  /\ Reclaim

(* The process dies; the temporary name stays.                             *)
Crash(p) ==
  /\ pc[p] # "idle"
  /\ Leave(p)
  /\ UNCHANGED <<final, tmp, sure>>
  /\ Reclaim

Next == \/ \E r \in Readers : Exists(r) \/ ReadToString(r)
        \/ \E w \in Writers : \/ StartStore(w) \/ Create(w) \/ Rename(w)
                              \/ Write(w, 1, "write", "write_rest")
                              \/ Write(w, 2, "write_rest", "rename")
        \/ \E p \in Users : Crash(p)

Spec == Init /\ [][Next]_vars

-----------------------------------------------------------------------------

(* What a store wrote that no other writer came beside is found by every   *)
(* load until another store is published, and by every load that opened    *)
(* its file before that: whatever the writers of the key have left or are  *)
(* writing under the temporary name they share, through failed writes,     *)
(* failed renames and deaths (disk_cache.rs:196-212).                      *)
LastStoreIsFound ==
  /\ sure # None => Parsed(final) = sure
  /\ \A r \in Readers : pc[r] = "reading" /\ promised[r] # None => Parsed(fd[r]) = promised[r]

(* disk_cache.rs:196, "Atomic write via temp file + rename": what bears    *)
(* the final name is a whole file.                                         *)
AtomicWrite == final # None => Parsed(final) # Miss
=============================================================================
