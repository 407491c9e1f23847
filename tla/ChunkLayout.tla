----------------------------- MODULE ChunkLayout -----------------------------
(***************************************************************************)
(* The tiling of an area into chunks (chunks.py:51-143, and again in       *)
(* tile_classification.rs:296-327): rows of windows, one window a step.    *)
(* A window's chunk id is its position, counted from 0.                    *)
(***************************************************************************)
EXTENDS Integers, Sequences

CONSTANT Areas     (* [height, width, size, block]; block 0 is no block    *)

ASSUME AreasAssumption ==
  Areas \subseteq [height : Nat, width : Nat, size : Nat \ {0}, block : Nat]

VARIABLES area, row, col, windows

layoutVars == <<area, row, col, windows>>

Snap(a) == IF a.block = 0 THEN a.size
           ELSE IF a.size <= a.block THEN a.block
                                     ELSE (a.size \div a.block) * a.block
Step == Snap(area)

AtMost(n, limit) == IF n < limit THEN n ELSE limit

LayoutInit == /\ area \in Areas
              /\ row = 0 /\ col = 0
              /\ windows = <<>>

Fits == row < area.height /\ col < area.width

Square == [row |-> row, col |-> col,         \* variant: the row's limit for both sides
           height |-> AtMost(Step, area.height - row), width |-> AtMost(Step, area.height - row)]
Window == [row |-> row, col |-> col, height |-> AtMost(Step, area.height - row),
                                     width  |-> AtMost(Step, area.width - col)]

NextWindow ==
  /\ Fits
  /\ windows' = Append(windows, Window)
  /\ IF col + Step < area.width THEN col' = col + Step /\ row' = row
                                ELSE col' = 0 /\ row' = row + Step
  /\ UNCHANGED area

LayoutSpec == LayoutInit /\ [][NextWindow]_layoutVars

(* The pixels of a window (chunk_grid gives their bounds).                 *)
Inside(w, r, c) == /\ w.row <= r /\ r < w.row + w.height
                   /\ w.col <= c /\ c < w.col + w.width
Pixels(w) == (w.row .. w.row + w.height - 1) \X (w.col .. w.col + w.width - 1)

-----------------------------------------------------------------------------
(* Row-major order: the pixels that the windows so far must hold.          *)
Passed(r, c) == r < row \/ (r < row + Step /\ c < col)

(* "Row-major tiling": at every step the windows hold exactly the pixels   *)
(* passed, no pixel twice and none outside the area; at the end each pixel *)
(* of the area is in one chunk, so the chunks' results neither overlap nor *)
(* leave a seam.                                                           *)
PixelsCoveredOnce ==
  /\ \A r \in 0 .. area.height - 1, c \in 0 .. area.width - 1 :
       Passed(r, c) <=> \E i \in DOMAIN windows : Inside(windows[i], r, c)
  /\ \A i, j \in DOMAIN windows, r \in 0 .. area.height - 1, c \in 0 .. area.width - 1 :
       Inside(windows[i], r, c) /\ Inside(windows[j], r, c) => i = j
  /\ \A i \in DOMAIN windows : /\ windows[i].row + windows[i].height <= area.height
                               /\ windows[i].col + windows[i].width <= area.width
                               /\ windows[i].height > 0 /\ windows[i].width > 0
=============================================================================
