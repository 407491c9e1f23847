----------------------------- MODULE MCRustChunk -----------------------------
(* What a chunk is composed of and how: the selection of its scenes, and    *)
(* one of its pixels, checked beside each other.  In a behaviour only one   *)
(* of them leaves its initial state.                                        *)
EXTENDS MCRustPlanning, MCPixelComposite

Selects == kind = "scl"
Composes == area = Strip /\ policy = Fixed(1)

MCInit == SelectInit /\ PixelInit /\ (Selects \/ Composes)

Composed == Len(seen) = MaxObservations /\ UNCHANGED pixelVars  \* else a deadlock

MCNext == \/ Selects /\ seen = <<>> /\ SelectNext /\ UNCHANGED pixelVars
          \/ Composes /\ scenes = <<>> /\ (PixelNext \/ Composed) /\ UNCHANGED selectVars

MCSpec == MCInit /\ [][MCNext]_<<selectVars, pixelVars>>
=============================================================================
