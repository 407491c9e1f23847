---------------------------- MODULE CacheEntry ----------------------------
(***************************************************************************)
(* What one key of the Python disk cache promises the processes that share *)
(* its directory (stac_cache.py:11-14 and 36-37): a load returns a value   *)
(* some process stored, whole; and a value once stored may be replaced but *)
(* is not lost, whatever fails, crashes or runs at the same time, unless   *)
(* the file is damaged.                                                    *)
(***************************************************************************)
EXTENDS Naturals

CONSTANTS Processes, Data, Miss

VARIABLES entry,    (* value behind the key, or Miss                        *)
          offered,  (* values handed to a store so far                      *)
          lost,     (* times the file was damaged from outside              *)
          got       (* process -> result of its last load                   *)

vars == <<entry, offered, lost, got>>

Init == /\ entry = Miss
        /\ offered = {}
        /\ lost = 0
        /\ got = [p \in Processes |-> Miss]

Offer == \E v \in Data : offered' = offered \cup {v} /\ UNCHANGED <<entry, lost, got>>

Store == entry' \in offered /\ UNCHANGED <<offered, lost, got>>

Lose == lost' = lost + 1 /\ entry' = Miss /\ UNCHANGED <<offered, got>>

Load(p) == got' = [got EXCEPT ![p] = entry] /\ UNCHANGED <<entry, offered, lost>>

Next == Offer \/ Store \/ Lose \/ \E p \in Processes : Load(p)

Spec == Init /\ [][Next]_vars
=============================================================================
