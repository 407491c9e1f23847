---------------------------- MODULE MCStacCaches ----------------------------
(* The sources over their caches, and one key of the disk cache: two        *)
(* levels of one program, checked beside each other.  In a behaviour only   *)
(* one of them leaves its initial state.                                    *)
EXTENDS MCStacSource, StacDiskCache

MCInit == Init /\ CacheInit

MCNext == \/ CacheInit /\ Next /\ UNCHANGED cacheVars
          \/ Init /\ cached = Processes /\ CacheNext /\ UNCHANGED vars

MCSpec == MCInit /\ [][MCNext]_<<vars, cacheVars>>
=============================================================================
