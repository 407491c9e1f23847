--------------------------- MODULE MCProductStore ---------------------------
(* Two callers, of whom p is the first to build: nothing tells the callers  *)
(* apart, so that any other behaviour is one of these with the names        *)
(* exchanged.                                                               *)
EXTENDS ProductStore

FirstBuild == mine["q"] # 1
=============================================================================
