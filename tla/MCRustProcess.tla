---------------------------- MODULE MCRustProcess ----------------------------
(* The builds of a process, and one key of the disk cache that processes    *)
(* share: two levels of one program, checked beside each other.  In a       *)
(* behaviour only one of them leaves its initial state.                     *)
EXTENDS MCRustBuild, RustDiskCache

MCInit == BuildInit /\ Init

Built == build = Builds /\ phase \in {"done", "failed"} /\ UNCHANGED buildVars  \* else a deadlock

MCNext == \/ Init /\ (BuildNext \/ Built) /\ UNCHANGED vars
          \/ BuildInit /\ request.mode = "one" /\ Next /\ UNCHANGED buildVars

MCSpec == MCInit /\ [][MCNext]_<<buildVars, vars>>
=============================================================================
