------------------------- MODULE ScenePlanningProofs -------------------------
(***************************************************************************)
(* Proofs about ScenePlanning, for every area, layout, catalogue and       *)
(* policy: the layout's theorem and its transfer to the planning.          *)
(***************************************************************************)
EXTENDS ScenePlanning, FiniteSetTheorems, TLAPS

-----------------------------------------------------------------------------
(* The layout (ChunkLayout).                                               *)
Windows == [row : Nat, col : Nat, height : Nat, width : Nat]

LayoutType == /\ area \in Areas
              /\ row \in Nat /\ col \in Nat
              /\ windows \in Seq(Windows)

(* PixelsCoveredOnce, one part at a time.                                  *)
Covered == \A r \in 0 .. area.height - 1, c \in 0 .. area.width - 1 :
             Passed(r, c) <=> \E i \in DOMAIN windows : Inside(windows[i], r, c)
Once == \A i, j \in DOMAIN windows, r \in 0 .. area.height - 1, c \in 0 .. area.width - 1 :
          Inside(windows[i], r, c) /\ Inside(windows[j], r, c) => i = j
Bounded == \A i \in DOMAIN windows : /\ windows[i].row + windows[i].height <= area.height
                                     /\ windows[i].col + windows[i].width <= area.width
                                     /\ windows[i].height > 0 /\ windows[i].width > 0

LayoutInv == LayoutType /\ Covered /\ Once /\ Bounded

(* A chunk size snapped to blocks is a whole number of blocks, and not 0.  *)
LEMMA QuotientPositive ==
  ASSUME NEW n \in Nat, NEW b \in Nat \ {0}, n > b
  PROVE  n \div b \in Nat \ {0}
  OBVIOUS

LEMMA ProductPositive ==
  ASSUME NEW q \in Nat \ {0}, NEW b \in Nat \ {0}
  PROVE  q * b \in Nat \ {0}
  OBVIOUS

LEMMA StepPositive ==
  ASSUME area \in Areas
  PROVE  /\ Step \in Nat \ {0}
         /\ area.height \in Nat /\ area.width \in Nat
<1>1. area \in [height : Nat, width : Nat, size : Nat \ {0}, block : Nat]
  BY AreasAssumption
<1>2. CASE area.block = 0 \/ area.size <= area.block
  BY <1>1, <1>2 DEF Step, Snap
<1>3. CASE area.block # 0 /\ area.size > area.block
  <2>1. area.size \div area.block \in Nat \ {0}
    BY <1>1, <1>3, QuotientPositive
  <2>2. (area.size \div area.block) * area.block \in Nat \ {0}
    BY <1>1, <1>3, <2>1, ProductPositive
  <2>3. Step = (area.size \div area.block) * area.block
    BY <1>1, <1>3 DEF Step, Snap
  <2>4. QED
    BY <1>1, <2>2, <2>3
<1>4. QED
  BY <1>1, <1>2, <1>3

(* What a step appends: a window inside the area that starts at the cursor *)
(* and holds none of the pixels passed.                                    *)
LEMMA WindowFits ==
  ASSUME LayoutType, Fits
  PROVE  /\ Window \in Windows
         /\ Window.row = row /\ Window.col = col
         /\ Window.row + Window.height <= area.height
         /\ Window.col + Window.width <= area.width
         /\ Window.height > 0 /\ Window.width > 0
         /\ Window.height = AtMost(Step, area.height - row)
         /\ Window.width = AtMost(Step, area.width - col)
<1>1. Step \in Nat \ {0} /\ area.height \in Nat /\ area.width \in Nat
  BY StepPositive DEF LayoutType
<1>2. /\ AtMost(Step, area.height - row) \in Nat \ {0}
      /\ AtMost(Step, area.width - col) \in Nat \ {0}
      /\ row + AtMost(Step, area.height - row) <= area.height
      /\ col + AtMost(Step, area.width - col) <= area.width
  BY <1>1, SMTT(40) DEF LayoutType, Fits, AtMost
<1>3. QED
  BY <1>2 DEF LayoutType, Window, Windows

LEMMA WindowIsNew ==
  ASSUME LayoutType, Fits,
         NEW r \in 0 .. area.height - 1, NEW c \in 0 .. area.width - 1
  PROVE  Inside(Window, r, c) => ~Passed(r, c)
<1>1. Step \in Nat \ {0} /\ area.height \in Nat /\ area.width \in Nat
  BY StepPositive DEF LayoutType
<1>2. QED
  BY <1>1, WindowFits DEF LayoutType, Inside, Passed

(* The cursor moves over exactly the pixels of the window it appends.      *)
LEMMA CursorPasses ==
  ASSUME LayoutType, NextWindow,
         NEW r \in 0 .. area.height - 1, NEW c \in 0 .. area.width - 1
  PROVE  Passed(r, c)' <=> Passed(r, c) \/ Inside(Window, r, c)
<1>1. Step \in Nat \ {0} /\ area.height \in Nat /\ area.width \in Nat
  BY StepPositive DEF LayoutType
<1>2. Step' = Step
  BY DEF NextWindow, Step
<1>3. row < area.height /\ col < area.width
  BY DEF NextWindow, Fits
<1>4. Fits
  BY DEF NextWindow
<1>5. Inside(Window, r, c) <=> /\ row <= r /\ r < row + AtMost(Step, area.height - row)
                               /\ col <= c /\ c < col + AtMost(Step, area.width - col)
  BY <1>4, WindowFits DEF Inside
<1>6. Inside(Window, r, c) <=> /\ row <= r /\ r < row + Step
                               /\ col <= c /\ c < col + Step
  BY <1>1, <1>3, <1>5, SMTT(40) DEF AtMost, LayoutType
<1>7. Passed(r, c)' <=> r < row' \/ (r < row' + Step /\ c < col')
  BY <1>2 DEF Passed
<1>8. CASE col + Step < area.width
  <2>1. col' = col + Step /\ row' = row
    BY <1>8 DEF NextWindow
  <2>2. QED
    BY <1>1, <1>6, <1>7, <2>1 DEF Passed, LayoutType
<1>9. CASE ~(col + Step < area.width)
  <2>1. col' = 0 /\ row' = row + Step
    BY <1>9 DEF NextWindow
  <2>2. QED
    BY <1>1, <1>6, <1>7, <1>9, <2>1 DEF Passed, LayoutType
<1>10. QED
  BY <1>8, <1>9

LEMMA Appended ==
  ASSUME LayoutType, NextWindow
  PROVE  /\ windows' \in Seq(Windows)
         /\ Len(windows') = Len(windows) + 1
         /\ DOMAIN windows' = DOMAIN windows \cup {Len(windows')}
         /\ Len(windows') \notin DOMAIN windows
         /\ \A i \in DOMAIN windows : windows'[i] = windows[i]
         /\ windows'[Len(windows')] = Window
<1>1. Window \in Windows /\ windows \in Seq(Windows) /\ windows' = Append(windows, Window)
  BY WindowFits DEF LayoutType, NextWindow
<1>2. QED
  BY <1>1

LEMMA LayoutInvInit ==
  ASSUME LayoutInit
  PROVE  LayoutInv
<1>1. LayoutType
  BY DEF LayoutInit, LayoutType
<1>2. DOMAIN windows = {}
  BY DEF LayoutInit
<1>3. Covered
  BY <1>1, <1>2, StepPositive DEF Covered, Passed, LayoutInit
<1>4. QED
  BY <1>1, <1>2, <1>3 DEF LayoutInv, Once, Bounded

LEMMA LayoutInvNext ==
  ASSUME LayoutInv, NextWindow
  PROVE  LayoutInv'
<1> USE DEF LayoutInv
<1>1. area' = area /\ Fits
  BY DEF NextWindow
<1>2. LayoutType'
  BY <1>1, Appended, StepPositive DEF LayoutType, NextWindow
<1>3. Covered'
  <2>1. SUFFICES ASSUME NEW r \in 0 .. area.height - 1, NEW c \in 0 .. area.width - 1
                 PROVE  Passed(r, c)' <=> \E i \in DOMAIN windows' : Inside(windows'[i], r, c)
    BY <1>1 DEF Covered, Inside
  <2>2. (\E i \in DOMAIN windows' : Inside(windows'[i], r, c))
          <=> (\E i \in DOMAIN windows : Inside(windows[i], r, c)) \/ Inside(Window, r, c)
    BY Appended
  <2>3. Passed(r, c) <=> \E i \in DOMAIN windows : Inside(windows[i], r, c)
    BY DEF Covered
  <2>4. QED
    BY <2>2, <2>3, CursorPasses
<1>4. Once'
  <2>1. SUFFICES ASSUME NEW i \in DOMAIN windows', NEW j \in DOMAIN windows',
                        NEW r \in 0 .. area.height - 1, NEW c \in 0 .. area.width - 1,
                        Inside(windows'[i], r, c), Inside(windows'[j], r, c)
                 PROVE  i = j
    BY <1>1 DEF Once, Inside
  <2>2. \A k \in DOMAIN windows : Inside(windows[k], r, c) => ~Inside(Window, r, c)
    BY <1>1, WindowIsNew DEF Covered
  <2>3. CASE i \in DOMAIN windows /\ j \in DOMAIN windows
    BY <2>1, <2>3, Appended DEF Once
  <2>4. CASE i \notin DOMAIN windows \/ j \notin DOMAIN windows
    BY <2>1, <2>2, <2>4, Appended, SMTT(40)
  <2>5. QED
    BY <2>3, <2>4
<1>5. Bounded'
  <2>1. SUFFICES ASSUME NEW i \in DOMAIN windows'
                 PROVE  /\ windows'[i].row + windows'[i].height <= area.height
                        /\ windows'[i].col + windows'[i].width <= area.width
                        /\ windows'[i].height > 0 /\ windows'[i].width > 0
    BY <1>1 DEF Bounded
  <2>2. CASE i \in DOMAIN windows
    BY <2>2, Appended DEF Bounded
  <2>3. CASE i = Len(windows')
    BY <1>1, <2>3, Appended, WindowFits
  <2>4. QED
    BY <2>2, <2>3, Appended
<1>6. QED
  BY <1>2, <1>3, <1>4, <1>5

LEMMA LayoutInvStutter ==
  ASSUME LayoutInv, UNCHANGED layoutVars
  PROVE  LayoutInv'
BY DEF LayoutInv, LayoutType, Covered, Once, Bounded, Passed, Inside, Step, layoutVars

LEMMA LayoutInvCovers == LayoutInv => PixelsCoveredOnce
BY DEF LayoutInv, PixelsCoveredOnce, Covered, Once, Bounded

(* Whatever the area, the chunk size and the blocks it is snapped to, the  *)
(* windows laid out so far hold each pixel passed once, and at the end the *)
(* whole area (chunks.py:89-113, tile_classification.rs:296-327).          *)
THEOREM LayoutCovers == LayoutSpec => []PixelsCoveredOnce
<1>1. LayoutInit => LayoutInv
  BY LayoutInvInit
<1>2. LayoutInv /\ [NextWindow]_layoutVars => LayoutInv'
  BY LayoutInvNext, LayoutInvStutter
<1>3. QED
  BY <1>1, <1>2, LayoutInvCovers, PTL DEF LayoutSpec

-----------------------------------------------------------------------------
(* The whole of the planning.                                              *)
(* Planning lays its chunks out and then leaves them alone.                *)
LEMMA PlanningLaysOut == Spec => LayoutSpec
<1>1. Init => LayoutInit
  BY DEF Init
<1>2. [Next]_vars => [NextWindow]_layoutVars
  <2>1. LayOut => NextWindow
    BY DEF LayOut
  <2>2. Classify => UNCHANGED layoutVars
    BY DEF Classify
  <2>3. (\E s \in DOMAIN scenes : Arrive(s)) => UNCHANGED layoutVars
    BY DEF Arrive
  <2>4. SelectChunk => UNCHANGED layoutVars
    BY DEF SelectChunk
  <2>5. UNCHANGED vars => UNCHANGED layoutVars
    BY DEF vars
  <2>6. QED
    BY <2>1, <2>2, <2>3, <2>4, <2>5 DEF Next
<1>3. QED
  BY <1>1, <1>2, PTL DEF Spec, LayoutSpec

(* The chunks that are classified, and that scenes are selected for, hold  *)
(* every pixel of the area once (chunks.py:51-113, selection.py:81-134).   *)
THEOREM PlanningCovers == Spec => []PixelsCoveredOnce
BY PlanningLaysOut, LayoutCovers, PTL

-----------------------------------------------------------------------------
(* A finite set in order: what Ordered gives.                              *)
(* A strict order on S, as a set R of pairs, and the rank it gives.        *)
StrictOrder(S, R) ==
  /\ \A x \in S : <<x, x>> \notin R
  /\ \A x, y, z \in S : <<x, y>> \in R /\ <<y, z>> \in R => <<x, z>> \in R
  /\ \A x, y \in S : x # y => <<x, y>> \in R \/ <<y, x>> \in R
Ahead(S, R, x) == {y \in S : <<y, x>> \in R}

LEMMA AheadGrows ==
  ASSUME NEW S, IsFiniteSet(S), NEW R, StrictOrder(S, R), NEW x \in S, NEW y \in S, <<x, y>> \in R
  PROVE  Cardinality(Ahead(S, R, x)) < Cardinality(Ahead(S, R, y))
<1>1. Ahead(S, R, x) \in SUBSET Ahead(S, R, y) /\ x \in Ahead(S, R, y) /\ x \notin Ahead(S, R, x)
  BY DEF StrictOrder, Ahead
<1>2. Ahead(S, R, y) \in SUBSET S
  BY DEF Ahead
<1>3. IsFiniteSet(Ahead(S, R, y))
  BY <1>2, FS_Subset
<1>4. /\ Cardinality(Ahead(S, R, x)) <= Cardinality(Ahead(S, R, y))
      /\ Cardinality(Ahead(S, R, x)) # Cardinality(Ahead(S, R, y))
  <2>1. /\ Cardinality(Ahead(S, R, x)) <= Cardinality(Ahead(S, R, y))
        /\ Cardinality(Ahead(S, R, y)) = Cardinality(Ahead(S, R, x)) => Ahead(S, R, y) = Ahead(S, R, x)
    BY <1>1, <1>3, FS_Subset
  <2>2. QED
    BY <1>1, <2>1
<1>5. Cardinality(Ahead(S, R, x)) \in Nat /\ Cardinality(Ahead(S, R, y)) \in Nat
  <2>1. IsFiniteSet(Ahead(S, R, x))
    BY <1>1, <1>3, FS_Subset
  <2>2. QED
    BY <1>3, <2>1, FS_CardinalityType
<1>6. QED
  BY <1>4, <1>5

(* The ranks are 0 to the number of members but one, each taken once.      *)
LEMMA Ranking ==
  ASSUME NEW S, IsFiniteSet(S), NEW R, StrictOrder(S, R)
  PROVE  /\ Cardinality(S) \in Nat
         /\ \A x \in S : Cardinality(Ahead(S, R, x)) \in 0 .. Cardinality(S) - 1
         /\ \A x, y \in S : <<x, y>> \in R <=> Cardinality(Ahead(S, R, x)) < Cardinality(Ahead(S, R, y))
         /\ \A x, y \in S : Cardinality(Ahead(S, R, x)) = Cardinality(Ahead(S, R, y)) => x = y
         /\ \A n \in 1 .. Cardinality(S) : \E x \in S : Cardinality(Ahead(S, R, x)) = n - 1
<1> DEFINE rank == [x \in S |-> Cardinality(Ahead(S, R, x))]
           last == Cardinality(S) - 1
<1>1. Cardinality(S) \in Nat
  BY FS_CardinalityType
<1>2. ASSUME NEW x \in S
      PROVE  Cardinality(Ahead(S, R, x)) \in 0 .. last
  <2>1. Ahead(S, R, x) \in SUBSET S /\ x \notin Ahead(S, R, x)
    BY DEF Ahead, StrictOrder
  <2>2. /\ IsFiniteSet(Ahead(S, R, x)) /\ Cardinality(Ahead(S, R, x)) <= Cardinality(S)
        /\ Cardinality(S) = Cardinality(Ahead(S, R, x)) => S = Ahead(S, R, x)
    BY <2>1, FS_Subset
  <2>3. Cardinality(Ahead(S, R, x)) \in Nat
    BY <2>2, FS_CardinalityType
  <2>4. Cardinality(S) # Cardinality(Ahead(S, R, x))
    BY <2>1, <2>2
  <2>5. QED
    BY <1>1, <2>2, <2>3, <2>4
<1>3. ASSUME NEW x \in S, NEW y \in S
      PROVE  /\ <<x, y>> \in R <=> Cardinality(Ahead(S, R, x)) < Cardinality(Ahead(S, R, y))
             /\ Cardinality(Ahead(S, R, x)) = Cardinality(Ahead(S, R, y)) => x = y
  <2>1. <<x, y>> \in R => Cardinality(Ahead(S, R, x)) < Cardinality(Ahead(S, R, y))
    BY AheadGrows
  <2>2. <<y, x>> \in R => Cardinality(Ahead(S, R, y)) < Cardinality(Ahead(S, R, x))
    BY AheadGrows
  <2>3. Cardinality(Ahead(S, R, x)) \in Int /\ Cardinality(Ahead(S, R, y)) \in Int
    BY <1>2
  <2>4. x = y \/ <<x, y>> \in R \/ <<y, x>> \in R
    BY DEF StrictOrder
  <2>5. x = y => <<x, y>> \notin R
    BY DEF StrictOrder
  <2>6. QED
    BY <2>1, <2>2, <2>3, <2>4, <2>5
<1>4. rank \in Injection(S, 0 .. last)
  BY <1>2, <1>3 DEF Injection, IsInjective
<1>5. IsFiniteSet(0 .. last) /\ Cardinality(0 .. last) = Cardinality(S)
  BY <1>1, FS_Interval, SMTT(40)
<1>6. rank \in Surjection(S, 0 .. last)
  BY <1>4, <1>5, FS_Injection
<1>7. ASSUME NEW n \in 1 .. Cardinality(S)
      PROVE  \E x \in S : Cardinality(Ahead(S, R, x)) = n - 1
  <2>1. n - 1 \in 0 .. last
    BY <1>1
  <2>2. PICK x \in S : rank[x] = n - 1
    BY <1>6, <2>1 DEF Surjection
  <2>3. QED
    BY <2>2
<1>8. QED
  BY <1>1, <1>2, <1>3, <1>7

(* f lists S by rank: what Ordered gives.                                  *)
Ranked(f, S, R) ==
  /\ f \in [1 .. Cardinality(S) -> S]
  /\ \A n \in 1 .. Cardinality(S) : Cardinality(Ahead(S, R, f[n])) = n - 1

LEMMA RankedLists ==
  ASSUME NEW S, IsFiniteSet(S), NEW R, StrictOrder(S, R), NEW f, Ranked(f, S, R)
  PROVE  /\ Cardinality(S) \in Nat
         /\ f \in Seq(S) /\ Len(f) = Cardinality(S) /\ DOMAIN f = 1 .. Cardinality(S)
         /\ \A x \in S : /\ Cardinality(Ahead(S, R, x)) + 1 \in DOMAIN f
                         /\ f[Cardinality(Ahead(S, R, x)) + 1] = x
         /\ \A n, m \in DOMAIN f : n < m => <<f[n], f[m]>> \in R
         /\ \A n, m \in DOMAIN f : f[n] = f[m] => n = m
<1>1. Cardinality(S) \in Nat
  BY Ranking
<1>2. f \in Seq(S) /\ Len(f) = Cardinality(S) /\ DOMAIN f = 1 .. Cardinality(S)
  BY <1>1 DEF Ranked
<1>3. ASSUME NEW x \in S
      PROVE  /\ Cardinality(Ahead(S, R, x)) + 1 \in DOMAIN f
             /\ f[Cardinality(Ahead(S, R, x)) + 1] = x
  <2> DEFINE k == Cardinality(Ahead(S, R, x))
             y == f[k + 1]
  <2>1. k \in 0 .. Cardinality(S) - 1
    BY Ranking
  <2>2. k + 1 \in 1 .. Cardinality(S)
    BY <1>1, <2>1
  <2>3. y \in S /\ Cardinality(Ahead(S, R, y)) = (k + 1) - 1
    BY <2>2 DEF Ranked
  <2>4. (k + 1) - 1 = k
    BY <2>1
  <2>5. y = x
    BY <2>3, <2>4, Ranking
  <2>6. QED
    BY <1>2, <2>2, <2>5
<1>4. ASSUME NEW n \in DOMAIN f, NEW m \in DOMAIN f
      PROVE  /\ n < m => <<f[n], f[m]>> \in R
             /\ f[n] = f[m] => n = m
  <2>1. /\ f[n] \in S /\ f[m] \in S
        /\ Cardinality(Ahead(S, R, f[n])) = n - 1 /\ Cardinality(Ahead(S, R, f[m])) = m - 1
    BY <1>2, <1>4 DEF Ranked
  <2>2. <<f[n], f[m]>> \in R <=> n - 1 < m - 1
    BY <2>1, Ranking
  <2>3. n \in Nat /\ m \in Nat
    BY <1>1, <1>2
  <2>4. f[n] = f[m] => n - 1 = m - 1
    BY <2>1
  <2>5. QED
    BY <2>2, <2>3, <2>4
<1>5. QED
  BY <1>1, <1>2, <1>3, <1>4

-----------------------------------------------------------------------------
(* What planning has at every step.                                        *)
Scene == [tile : Nat \cup {None}, geometry : Seq(SUBSET (Int \X Int))]
Stat == [usable : Nat, clear : Nat \cup {NaN}]
ChunkEntry == [scene : Nat, usable : Nat, clear : Nat \cup {NaN}]

PlanType ==
  /\ scenes \in Seq(Scene)
  /\ policy \in [topK : Nat \ {0}, floor : Nat]
  /\ arrived \subseteq DOMAIN scenes
  /\ plan \in Seq(Seq(Nat)) /\ DOMAIN plan \subseteq Chunks
  /\ ~Classified => arrived = {} /\ plan = <<>>
  /\ Classified => ~Fits /\ scouted \in [DOMAIN scenes -> [Chunks -> Stat]]
  /\ plan # <<>> => arrived = DOMAIN scenes

NoRepeats(f) == (\E n \in Nat : DOMAIN f = 1 .. n) /\ IsInjective(f)

PartitionInv ==
  Classified /\ partition # None =>
    \A c \in Chunks :
      /\ NoRepeats(partition.required[c])
      /\ partition.unreachable[c] = Unreachable(Footprints(scenes, WholeShapes(scenes)), Pixels(windows[c]))

(* The entries of a chunk are the eligible scenes that have arrived.       *)
Eligibles(c) == {Entry(s, c) : s \in {u \in arrived : Eligible(scouted[u][c])}}
EntriesInv ==
  Classified => /\ entries \in [Chunks -> Seq(ChunkEntry)]
                /\ \A c \in Chunks : Range(entries[c]) = Eligibles(c)

PlanInv == LayoutInv /\ PlanType /\ PartitionInv /\ EntriesInv /\ PlanIsTopK /\ SeamsFirst /\ NoSeamLeft

-----------------------------------------------------------------------------
(* The entries of one chunk, and the order of their scores.                *)
LEMMA EligiblesFacts ==
  ASSUME PlanType, Classified, NEW c \in Chunks
  PROVE  /\ IsFiniteSet(Eligibles(c)) /\ Eligibles(c) \subseteq ChunkEntry
         /\ \A e, f \in Eligibles(c) : e.scene = f.scene => e = f
<1>1. /\ scouted \in [DOMAIN scenes -> [Chunks -> Stat]] /\ arrived \subseteq DOMAIN scenes
      /\ Len(scenes) \in Nat /\ DOMAIN scenes = 1 .. Len(scenes)
  BY DEF PlanType
<1>2. ASSUME NEW s \in arrived
      PROVE  Entry(s, c) \in ChunkEntry /\ Entry(s, c).scene = s
  <2>1. scouted[s][c] \in Stat /\ s \in Nat
    BY <1>1
  <2>2. QED
    BY <2>1 DEF Entry, Stat, ChunkEntry
<1>3. \A e \in Eligibles(c) : e.scene \in arrived /\ e = Entry(e.scene, c) /\ e \in ChunkEntry
  BY <1>2 DEF Eligibles
<1>4. \A e, f \in Eligibles(c) : e.scene = f.scene => e = f
  BY <1>3
<1>5. IsFiniteSet(Eligibles(c))
  <2> DEFINE number == [e \in Eligibles(c) |-> e.scene]
  <2>1. number \in Injection(Eligibles(c), 1 .. Len(scenes))
    BY <1>1, <1>3, <1>4 DEF Injection, IsInjective
  <2>2. IsFiniteSet(1 .. Len(scenes))
    BY <1>1, FS_Interval
  <2>3. QED
    BY <2>1, <2>2, FS_Injection
<1>6. QED
  BY <1>3, <1>4, <1>5

BetterPairs(S) == {pair \in S \X S : Better(pair[1], pair[2])}

LEMMA BetterIsStrict ==
  ASSUME NEW S, S \subseteq ChunkEntry, \A e, f \in S : e.scene = f.scene => e = f
  PROVE  /\ StrictOrder(S, BetterPairs(S))
         /\ \A e \in S : {f \in S : Better(f, e)} = Ahead(S, BetterPairs(S), e)
<1>1. \A e \in S : e.scene \in Int /\ e.usable \in Int /\ e.clear \in Int
  BY DEF ChunkEntry, NaN
<1>2. \A e, f \in S : <<e, f>> \in BetterPairs(S) <=> Better(e, f)
  BY DEF BetterPairs
<1>3. \A e \in S : ~Better(e, e)
  BY <1>1 DEF Better
<1>4. ASSUME NEW e \in S, NEW f \in S, NEW g \in S, Better(e, f), Better(f, g)
      PROVE  Better(e, g)
  BY <1>1, <1>4 DEF Better
<1>5. ASSUME NEW e \in S, NEW f \in S, e # f
      PROVE  Better(e, f) \/ Better(f, e)
  <2>1. e.scene # f.scene
    BY <1>5
  <2>2. QED
    BY <1>1, <2>1 DEF Better
<1>6. StrictOrder(S, BetterPairs(S))
  BY <1>2, <1>3, <1>4, <1>5 DEF StrictOrder
<1>7. QED
  BY <1>2, <1>6 DEF Ahead

(* PicksOf: the top_k of a tile, best first.                               *)
TileRank(c, e) == Cardinality(Ahead(OfTile(c, TileOf(e.scene)), BetterPairs(OfTile(c, TileOf(e.scene))), e))

LEMMA PicksFacts ==
  ASSUME PlanType, EntriesInv, Classified, NEW c \in Chunks, NEW t
  PROVE  /\ PicksOf(c, t) \in Seq(OfTile(c, t))
         /\ \A n \in DOMAIN PicksOf(c, t) : TileRank(c, PicksOf(c, t)[n]) = n - 1 /\ n <= policy.topK
         /\ \A e \in OfTile(c, t) : /\ TileRank(c, e) \in Nat
                                    /\ TileRank(c, e) < policy.topK =>
                                         /\ TileRank(c, e) + 1 <= Len(PicksOf(c, t))
                                         /\ PicksOf(c, t)[TileRank(c, e) + 1] = e
<1> DEFINE S == OfTile(c, t)
           R == BetterPairs(S)
           ranked == Ordered(S, Better)
           N == Cardinality(S)
<1>1. S \subseteq Eligibles(c) /\ \A e \in S : TileOf(e.scene) = t
  BY DEF OfTile, EntriesInv
<1>2. IsFiniteSet(S) /\ S \subseteq ChunkEntry /\ \A e, f \in S : e.scene = f.scene => e = f
  <2>1. IsFiniteSet(Eligibles(c)) /\ Eligibles(c) \subseteq ChunkEntry
        /\ \A e, f \in Eligibles(c) : e.scene = f.scene => e = f
    BY EligiblesFacts
  <2>2. QED
    BY <1>1, <2>1, FS_Subset
<1> HIDE DEF S
<1>3. StrictOrder(S, R) /\ \A e \in S : {f \in S : Better(f, e)} = Ahead(S, R, e)
  BY <1>2, BetterIsStrict
<1>4. \A n \in 1 .. N : \E e \in S : Cardinality({f \in S : Better(f, e)}) = n - 1
  <2>1. \A n \in 1 .. N : \E e \in S : Cardinality(Ahead(S, R, e)) = n - 1
    BY <1>2, <1>3, Ranking
  <2>2. QED
    BY <1>3, <2>1, Zenon
<1>5. ranked = [n \in 1 .. N |-> CHOOSE e \in S : Cardinality({f \in S : Better(f, e)}) = n - 1]
  BY DEF Ordered
<1> HIDE DEF ranked
<1>6. \A n \in 1 .. N : ranked[n] \in S /\ Cardinality({f \in S : Better(f, ranked[n])}) = n - 1
  BY <1>4, <1>5
<1>7. Ranked(ranked, S, R)
  BY <1>3, <1>5, <1>6 DEF Ranked
<1>8. /\ N \in Nat /\ ranked \in Seq(S) /\ Len(ranked) = N /\ DOMAIN ranked = 1 .. N
      /\ \A e \in S : /\ Cardinality(Ahead(S, R, e)) + 1 \in DOMAIN ranked
                      /\ ranked[Cardinality(Ahead(S, R, e)) + 1] = e
  BY <1>2, <1>3, <1>7, RankedLists
<1> DEFINE L == AtMost(policy.topK, N)
<1>9. L \in Nat /\ L <= N /\ L <= policy.topK /\ \A k \in Nat : k < N /\ k < policy.topK => k + 1 <= L
  BY <1>8 DEF PlanType, AtMost
<1>10. PicksOf(c, t) = SubSeq(ranked, 1, L)
  BY <1>8 DEF PicksOf, ranked, S
<1> HIDE DEF L
<1>11. /\ PicksOf(c, t) \in Seq(S) /\ Len(PicksOf(c, t)) = L /\ DOMAIN PicksOf(c, t) = 1 .. L
       /\ \A n \in 1 .. L : PicksOf(c, t)[n] = ranked[n]
  BY <1>8, <1>9, <1>10
<1>12. \A e \in S : TileRank(c, e) = Cardinality(Ahead(S, R, e))
  BY <1>1 DEF TileRank, S
<1>13. ASSUME NEW n \in 1 .. L
       PROVE  TileRank(c, PicksOf(c, t)[n]) = n - 1 /\ n <= policy.topK
  <2>1. n \in 1 .. N /\ n <= policy.topK
    BY <1>8, <1>9 DEF PlanType
  <2>2. ranked[n] \in S /\ Cardinality(Ahead(S, R, ranked[n])) = n - 1
    BY <1>7, <2>1 DEF Ranked
  <2>3. QED
    BY <1>11, <1>12, <2>1, <2>2
<1>14. ASSUME NEW e \in S
       PROVE  /\ TileRank(c, e) \in Nat
              /\ TileRank(c, e) < policy.topK => /\ TileRank(c, e) + 1 <= L
                                                 /\ PicksOf(c, t)[TileRank(c, e) + 1] = e
  <2> DEFINE k == Cardinality(Ahead(S, R, e))
  <2>1. k \in 0 .. N - 1
    BY <1>2, <1>3, Ranking
  <2>2. TileRank(c, e) = k /\ ranked[k + 1] = e
    BY <1>8, <1>12
  <2> HIDE DEF k
  <2>3. k \in Nat /\ k < N
    BY <1>8, <2>1
  <2>4. k < policy.topK => k + 1 <= L
    BY <1>9, <2>3
  <2>5. k < policy.topK => k + 1 \in 1 .. L
    BY <1>9, <2>3, <2>4
  <2>6. k < policy.topK => PicksOf(c, t)[k + 1] = e
    BY <1>11, <2>2, <2>5
  <2>7. QED
    BY <2>2, <2>3, <2>4, <2>6
<1>15. QED
  BY <1>11, <1>13, <1>14 DEF S

-----------------------------------------------------------------------------
(* TilesInOrder: every tile with an entry, once.                           *)
LessPairs(S) == {pair \in S \X S : pair[1] < pair[2]}

LEMMA LessIsStrict ==
  ASSUME NEW S, S \subseteq Nat
  PROVE  /\ StrictOrder(S, LessPairs(S))
         /\ \A n \in S : {m \in S : m < n} = Ahead(S, LessPairs(S), n)
<1>1. \A n, m \in S : <<n, m>> \in LessPairs(S) <=> n < m
  BY DEF LessPairs
<1>2. StrictOrder(S, LessPairs(S))
  BY <1>1 DEF StrictOrder
<1>3. QED
  BY <1>1, <1>2 DEF Ahead

LEMMA FirstOfFacts ==
  ASSUME NEW c, entries[c] \in Seq(ChunkEntry), NEW t \in TilesSeen(c)
  PROVE  FirstOf(c, t) \in DOMAIN entries[c] /\ TileOf(entries[c][FirstOf(c, t)].scene) = t
<1> DEFINE Mine == {n \in DOMAIN entries[c] : TileOf(entries[c][n].scene) = t}
           R == LessPairs(Mine)
<1>1. /\ Len(entries[c]) \in Nat /\ DOMAIN entries[c] = 1 .. Len(entries[c])
      /\ IsFiniteSet(1 .. Len(entries[c]))
  <2>1. Len(entries[c]) \in Nat /\ DOMAIN entries[c] = 1 .. Len(entries[c])
    OBVIOUS
  <2>2. QED
    BY ONLY <2>1, FS_Interval
<1>2. IsFiniteSet(Mine) /\ Mine # {} /\ Mine \subseteq Nat
  BY <1>1, FS_Subset DEF TilesSeen
<1>3. \A n \in Mine : n \in DOMAIN entries[c] /\ TileOf(entries[c][n].scene) = t
  OBVIOUS
<1>4. \A n \in DOMAIN entries[c] : TileOf(entries[c][n].scene) = t => n \in Mine
  OBVIOUS
<1> HIDE DEF Mine
<1>5. StrictOrder(Mine, R) /\ \A n \in Mine : {m \in Mine : m < n} = Ahead(Mine, R, n)
  BY <1>2, LessIsStrict
<1> HIDE DEF R
<1>6. Cardinality(Mine) # 0 /\ Cardinality(Mine) \in Nat
  BY <1>2, FS_EmptySet, FS_CardinalityType
<1>7. \E n \in Mine : Cardinality(Ahead(Mine, R, n)) = 1 - 1
  <2>1. \A k \in 1 .. Cardinality(Mine) : \E n \in Mine : Cardinality(Ahead(Mine, R, n)) = k - 1
    <3>1. IsFiniteSet(Mine) /\ StrictOrder(Mine, R)
      BY <1>2, <1>5
    <3>2. QED
      BY ONLY <3>1, Ranking
  <2>2. 1 \in 1 .. Cardinality(Mine)
    BY <1>6
  <2>3. QED
    BY <2>1, <2>2
<1>8. PICK n \in Mine : Cardinality(Ahead(Mine, R, n)) = 0
  BY <1>7
<1>9. Ahead(Mine, R, n) = {}
  <2>1. Ahead(Mine, R, n) \in SUBSET Mine
    BY DEF Ahead
  <2>2. IsFiniteSet(Ahead(Mine, R, n))
    BY <1>2, <2>1, FS_Subset
  <2>3. QED
    BY <1>8, <2>2, FS_EmptySet
<1>10. \A m \in Mine : ~(m < n)
  BY <1>5, <1>9
<1>11. \A m \in 1 .. n - 1 : TileOf(entries[c][m].scene) # t
  <2> SUFFICES ASSUME NEW m \in 1 .. n - 1, TileOf(entries[c][m].scene) = t PROVE FALSE
    OBVIOUS
  <2>1. n \in 1 .. Len(entries[c])
    BY <1>1, <1>3
  <2>2. m \in DOMAIN entries[c] /\ m < n
    BY <1>1, <2>1
  <2>3. QED
    BY <1>4, <1>10, <2>2
<1>12. \E k \in DOMAIN entries[c] : /\ TileOf(entries[c][k].scene) = t
                                    /\ \A m \in 1 .. k - 1 : TileOf(entries[c][m].scene) # t
  BY <1>3, <1>11
<1>13. QED
  BY <1>12 DEF FirstOf

LEMMA OnlyRequiredFacts ==
  ASSUME NEW c, NoRepeats(RequiredTiles(c))
  PROVE  /\ OnlyRequired(c) \in Seq(TilesSeen(c)) /\ IsInjective(OnlyRequired(c))
         /\ Range(OnlyRequired(c)) = TilesSeen(c) \cap Range(RequiredTiles(c))
<1> DEFINE required == RequiredTiles(c)
           S == {n \in DOMAIN required : required[n] \in TilesSeen(c)}
           R == LessPairs(S)
           N == Cardinality(S)
           kept == Ordered(S, LAMBDA n, m : n < m)
<1>1. IsFiniteSet(S) /\ S \subseteq Nat
  <2>1. PICK n \in Nat : DOMAIN required = 1 .. n
    BY DEF NoRepeats
  <2>2. IsFiniteSet(1 .. n) /\ S \in SUBSET (1 .. n)
    BY ONLY <2>1, FS_Interval
  <2>3. QED
    BY <2>2, FS_Subset
<1>2. \A n \in S : n \in DOMAIN required /\ required[n] \in TilesSeen(c)
  OBVIOUS
<1>3. \A n \in DOMAIN required : required[n] \in TilesSeen(c) => n \in S
  OBVIOUS
<1>4. OnlyRequired(c) = [k \in DOMAIN kept |-> required[kept[k]]]
  BY DEF OnlyRequired
<1> HIDE DEF S
<1>5. kept = [n \in 1 .. N |-> CHOOSE x \in S : Cardinality({y \in S : y < x}) = n - 1]
  BY DEF Ordered
<1> HIDE DEF kept
<1>6. StrictOrder(S, R) /\ \A n \in S : {m \in S : m < n} = Ahead(S, R, n)
  BY <1>1, LessIsStrict
<1> HIDE DEF R
<1>7. \A n \in 1 .. N : \E x \in S : Cardinality({y \in S : y < x}) = n - 1
  <2>1. \A n \in 1 .. N : \E x \in S : Cardinality(Ahead(S, R, x)) = n - 1
    <3>1. IsFiniteSet(S) /\ StrictOrder(S, R)
      BY <1>1, <1>6
    <3>2. QED
      BY ONLY <3>1, Ranking
  <2>2. QED
    BY <1>6, <2>1, Zenon
<1>8. \A n \in 1 .. N : kept[n] \in S /\ Cardinality({y \in S : y < kept[n]}) = n - 1
  BY <1>5, <1>7
<1>9. Ranked(kept, S, R)
  BY <1>5, <1>6, <1>8 DEF Ranked
<1>10. /\ N \in Nat /\ kept \in Seq(S) /\ DOMAIN kept = 1 .. N
       /\ \A x \in S : \E k \in DOMAIN kept : kept[k] = x
       /\ \A n, m \in DOMAIN kept : kept[n] = kept[m] => n = m
  BY <1>1, <1>6, <1>9, RankedLists
<1>11. \A k \in 1 .. N : kept[k] \in DOMAIN required /\ required[kept[k]] \in TilesSeen(c)
  BY <1>2, <1>8
<1> DEFINE only == OnlyRequired(c)
<1>12. DOMAIN only = 1 .. N /\ \A k \in 1 .. N : only[k] = required[kept[k]]
  BY <1>4, <1>10
<1>13. only \in Seq(TilesSeen(c))
  BY <1>4, <1>10, <1>11
<1>14. IsInjective(only)
  <2> SUFFICES ASSUME NEW a \in DOMAIN only, NEW b \in DOMAIN only, only[a] = only[b] PROVE a = b
    BY DEF IsInjective
  <2>1. required[kept[a]] = required[kept[b]] /\ kept[a] \in DOMAIN required /\ kept[b] \in DOMAIN required
    BY <1>11, <1>12
  <2>2. kept[a] = kept[b]
    BY <2>1 DEF NoRepeats, IsInjective
  <2>3. QED
    BY <1>10, <1>12, <2>2
<1>15. Range(only) = TilesSeen(c) \cap Range(required)
  <2>1. Range(only) \subseteq TilesSeen(c) \cap Range(required)
    BY <1>11, <1>12 DEF Range
  <2>2. ASSUME NEW n \in DOMAIN required, required[n] \in TilesSeen(c)
        PROVE  required[n] \in Range(only)
    <3>1. PICK k \in 1 .. N : kept[k] = n
      BY <1>3, <1>10, <2>2
    <3>2. only[k] = required[n] /\ k \in DOMAIN only
      BY <1>12, <3>1
    <3>3. QED
      BY <3>2 DEF Range
  <2>3. QED
    BY <2>1, <2>2 DEF Range
<1>16. QED
  BY <1>13, <1>14, <1>15

LEMMA ConcatDistinct ==
  ASSUME NEW X, NEW f \in Seq(X), NEW g \in Seq(X), IsInjective(f), IsInjective(g),
         Range(f) \cap Range(g) = {}
  PROVE  f \o g \in Seq(X) /\ IsInjective(f \o g) /\ Range(f \o g) = Range(f) \cup Range(g)
<1>1. /\ f \o g \in Seq(X) /\ Len(f) \in Nat /\ Len(g) \in Nat
      /\ DOMAIN (f \o g) = 1..(Len(f) + Len(g)) /\ DOMAIN f = 1..Len(f) /\ DOMAIN g = 1..Len(g)
      /\ \A i \in 1..Len(f) : (f \o g)[i] = f[i]
      /\ \A i \in (Len(f) + 1)..(Len(f) + Len(g)) : (f \o g)[i] = g[i - Len(f)]
  OBVIOUS
<1> DEFINE h == f \o g
<1> HIDE DEF h
<1>2. \A i \in DOMAIN h : \/ i \in DOMAIN f /\ h[i] = f[i]
                          \/ i - Len(f) \in DOMAIN g /\ h[i] = g[i - Len(f)]
  BY <1>1 DEF h
<1>3. \A i \in DOMAIN f, j \in DOMAIN g : f[i] # g[j]
  BY DEF Range
<1>4. IsInjective(h)
  <2> SUFFICES ASSUME NEW a \in DOMAIN h, NEW b \in DOMAIN h, h[a] = h[b] PROVE a = b
    BY DEF IsInjective
  <2>1. CASE a \in DOMAIN f /\ h[a] = f[a] /\ b \in DOMAIN f /\ h[b] = f[b]
    BY <2>1 DEF IsInjective
  <2>2. CASE /\ a - Len(f) \in DOMAIN g /\ h[a] = g[a - Len(f)]
             /\ b - Len(f) \in DOMAIN g /\ h[b] = g[b - Len(f)]
    <3>1. a - Len(f) = b - Len(f)
      BY <2>2 DEF IsInjective
    <3>2. QED
      BY <1>1, <3>1 DEF h
  <2>3. QED
    BY <1>2, <1>3, <2>1, <2>2
<1>5. Range(h) = Range(f) \cup Range(g)
  <2>1. Range(h) \subseteq Range(f) \cup Range(g)
    BY <1>2 DEF Range
  <2>2. \A i \in DOMAIN f : i \in DOMAIN h /\ h[i] = f[i]
    BY <1>1 DEF h
  <2>3. \A i \in DOMAIN g : Len(f) + i \in DOMAIN h /\ h[Len(f) + i] = g[i]
    BY <1>1 DEF h
  <2>4. Range(f) \subseteq Range(h)
    BY <2>2 DEF Range
  <2>5. Range(g) \subseteq Range(h)
    BY <2>3 DEF Range
  <2>6. QED
    BY <2>1, <2>4, <2>5
<1>6. QED
  BY <1>1, <1>4, <1>5 DEF h

LEMMA TilesFacts ==
  ASSUME NEW c, entries[c] \in Seq(ChunkEntry), NoRepeats(RequiredTiles(c))
  PROVE  /\ TilesInOrder(c) \in Seq(TilesSeen(c)) /\ IsInjective(TilesInOrder(c))
         /\ Range(TilesInOrder(c)) = TilesSeen(c)
<1> DEFINE S == TilesSeen(c) \ Range(RequiredTiles(c))
           N == Cardinality(S)
           R == {pair \in S \X S : FirstOf(c, pair[1]) < FirstOf(c, pair[2])}
           others == Ordered(S, LAMBDA t, u : FirstOf(c, t) < FirstOf(c, u))
<1>1. \A t \in TilesSeen(c) : /\ FirstOf(c, t) \in DOMAIN entries[c]
                              /\ TileOf(entries[c][FirstOf(c, t)].scene) = t
  BY FirstOfFacts
<1>2. /\ Len(entries[c]) \in Nat /\ DOMAIN entries[c] = 1 .. Len(entries[c])
      /\ IsFiniteSet(1 .. Len(entries[c]))
  <2>1. Len(entries[c]) \in Nat /\ DOMAIN entries[c] = 1 .. Len(entries[c])
    OBVIOUS
  <2>2. QED
    BY ONLY <2>1, FS_Interval
<1>3. \A t \in TilesSeen(c) : FirstOf(c, t) \in Nat
  BY <1>1, <1>2
<1>4. \A t, u \in TilesSeen(c) : FirstOf(c, t) = FirstOf(c, u) => t = u
  BY <1>1, Zenon
<1>5. IsFiniteSet(S)
  <2> DEFINE first == [t \in TilesSeen(c) |-> FirstOf(c, t)]
  <2>1. first \in Injection(TilesSeen(c), 1 .. Len(entries[c]))
    BY <1>1, <1>2, <1>4 DEF Injection, IsInjective
  <2>2. IsFiniteSet(TilesSeen(c))
    BY <1>2, <2>1, FS_Injection
  <2>3. QED
    BY <2>2, FS_Subset
<1>6. TilesInOrder(c) = OnlyRequired(c) \o others
  BY DEF TilesInOrder
<1>7. S \subseteq TilesSeen(c) /\ S \cap Range(RequiredTiles(c)) = {}
      /\ TilesSeen(c) = (TilesSeen(c) \cap Range(RequiredTiles(c))) \cup S
  OBVIOUS
<1> HIDE DEF S
<1>8. others = [n \in 1 .. N |-> CHOOSE t \in S : Cardinality({u \in S : FirstOf(c, u) < FirstOf(c, t)}) = n - 1]
  BY DEF Ordered
<1> HIDE DEF others
<1>9. /\ StrictOrder(S, R)
      /\ \A t \in S : {u \in S : FirstOf(c, u) < FirstOf(c, t)} = Ahead(S, R, t)
  <2>1. \A t, u \in S : <<t, u>> \in R <=> FirstOf(c, t) < FirstOf(c, u)
    OBVIOUS
  <2> HIDE DEF R
  <2>2. \A t \in S : FirstOf(c, t) \in Nat
    BY <1>3, <1>7
  <2>3. \A t, u \in S : t # u => FirstOf(c, t) # FirstOf(c, u)
    BY <1>4, <1>7
  <2>4. \A t, u \in S : t # u => FirstOf(c, t) < FirstOf(c, u) \/ FirstOf(c, u) < FirstOf(c, t)
    BY <2>2, <2>3
  <2>5. \A t, u, v \in S : FirstOf(c, t) < FirstOf(c, u) /\ FirstOf(c, u) < FirstOf(c, v)
                             => FirstOf(c, t) < FirstOf(c, v)
    BY <2>2
  <2>6. \A t \in S : ~(FirstOf(c, t) < FirstOf(c, t))
    BY <2>2
  <2>7. StrictOrder(S, R)
    BY <2>1, <2>4, <2>5, <2>6 DEF StrictOrder
  <2>8. QED
    BY <2>1, <2>7 DEF Ahead
<1> HIDE DEF R
<1>10. \A n \in 1 .. N : \E t \in S : Cardinality({u \in S : FirstOf(c, u) < FirstOf(c, t)}) = n - 1
  <2>1. \A n \in 1 .. N : \E t \in S : Cardinality(Ahead(S, R, t)) = n - 1
    BY <1>5, <1>9, Ranking
  <2>2. QED
    BY <1>9, <2>1, Zenon
<1>11. \A n \in 1 .. N : /\ others[n] \in S
                         /\ Cardinality({u \in S : FirstOf(c, u) < FirstOf(c, others[n])}) = n - 1
  BY <1>8, <1>10
<1>12. Ranked(others, S, R)
  BY <1>8, <1>9, <1>11 DEF Ranked
<1>13. /\ others \in Seq(S) /\ \A t \in S : \E n \in DOMAIN others : others[n] = t
       /\ \A n, m \in DOMAIN others : others[n] = others[m] => n = m
  BY <1>5, <1>9, <1>12, RankedLists
<1>14. IsInjective(others) /\ Range(others) = S /\ others \in Seq(TilesSeen(c))
  <2>1. \A n \in DOMAIN others : others[n] \in S
    BY <1>13
  <2>2. Range(others) = S
    BY <1>13, <2>1 DEF Range
  <2>3. IsInjective(others)
    BY <1>13 DEF IsInjective
  <2>4. others \in Seq(TilesSeen(c))
    BY <1>7, <1>13
  <2>5. QED
    BY <2>2, <2>3, <2>4
<1>15. /\ OnlyRequired(c) \in Seq(TilesSeen(c)) /\ IsInjective(OnlyRequired(c))
       /\ Range(OnlyRequired(c)) = TilesSeen(c) \cap Range(RequiredTiles(c))
  BY OnlyRequiredFacts
<1>16. Range(OnlyRequired(c)) \cap Range(others) = {}
  BY <1>7, <1>14, <1>15
<1>17. /\ TilesInOrder(c) \in Seq(TilesSeen(c)) /\ IsInjective(TilesInOrder(c))
       /\ Range(TilesInOrder(c)) = Range(OnlyRequired(c)) \cup Range(others)
  BY <1>6, <1>14, <1>15, <1>16, ConcatDistinct
<1>18. QED
  BY <1>7, <1>14, <1>15, <1>17

-----------------------------------------------------------------------------
(* PickForChunk: a slot for each pick of each tile, rank by rank.          *)
LEMMA RequiredTilesFacts ==
  ASSUME PartitionInv, Classified, NEW c \in Chunks
  PROVE  NoRepeats(RequiredTiles(c))
<1>1. CASE partition = None
  <2>1. RequiredTiles(c) = <<None>>
    BY <1>1 DEF RequiredTiles
  <2>2. DOMAIN RequiredTiles(c) = 1 .. 1 /\ 1 \in Nat
    BY <2>1
  <2>3. IsInjective(RequiredTiles(c))
    BY <2>2 DEF IsInjective
  <2>4. QED
    BY <2>2, <2>3 DEF NoRepeats
<1>2. CASE partition # None
  BY <1>2 DEF PartitionInv, RequiredTiles
<1>3. QED
  BY <1>1, <1>2

Slots(c) == {slot \in (1 .. policy.topK) \X DOMAIN TilesInOrder(c) :
               slot[1] <= Len(PicksOf(c, TilesInOrder(c)[slot[2]]))}
SlotEntry(c, slot) == PicksOf(c, TilesInOrder(c)[slot[2]])[slot[1]]
SlotPairs(S) == {pair \in S \X S : RankByRank(pair[1], pair[2])}

LEMMA SlotsAreStrict ==
  ASSUME NEW S, S \subseteq Int \X Int
  PROVE  /\ StrictOrder(S, SlotPairs(S))
         /\ \A slot \in S : {other \in S : RankByRank(other, slot)} = Ahead(S, SlotPairs(S), slot)
<1>1. \A slot, other \in S : <<slot, other>> \in SlotPairs(S) <=> RankByRank(slot, other)
  BY DEF SlotPairs
<1>2. \A slot \in S : slot[1] \in Int /\ slot[2] \in Int /\ slot = <<slot[1], slot[2]>>
  OBVIOUS
<1>3. \A slot \in S : ~RankByRank(slot, slot)
  BY <1>2 DEF RankByRank
<1>4. ASSUME NEW a \in S, NEW b \in S, NEW d \in S, RankByRank(a, b), RankByRank(b, d)
      PROVE  RankByRank(a, d)
  BY <1>2, <1>4 DEF RankByRank
<1>5. ASSUME NEW a \in S, NEW b \in S, a # b
      PROVE  RankByRank(a, b) \/ RankByRank(b, a)
  <2>1. a[1] # b[1] \/ a[2] # b[2]
    BY <1>2, <1>5
  <2>2. QED
    BY <1>2, <2>1 DEF RankByRank
<1>6. StrictOrder(S, SlotPairs(S))
  BY <1>1, <1>3, <1>4, <1>5 DEF StrictOrder
<1>7. QED
  BY <1>1, <1>6 DEF Ahead

LEMMA SlotFacts ==
  ASSUME PlanType, PartitionInv, EntriesInv, Classified, NEW c \in Chunks
  PROVE  /\ IsFiniteSet(Slots(c)) /\ Slots(c) \subseteq Int \X Int
         /\ \A slot \in Slots(c) : /\ SlotEntry(c, slot) \in Eligibles(c)
                                   /\ TileRank(c, SlotEntry(c, slot)) = slot[1] - 1
                                   /\ slot[1] <= policy.topK
         /\ \A slot, other \in Slots(c) : SlotEntry(c, slot) = SlotEntry(c, other) => slot = other
         /\ \A e \in Eligibles(c) : TileRank(c, e) < policy.topK =>
                                      \E slot \in Slots(c) : SlotEntry(c, slot) = e
<1> DEFINE tiles == TilesInOrder(c)
<1>1. entries[c] \in Seq(ChunkEntry) /\ Range(entries[c]) = Eligibles(c)
  BY DEF EntriesInv
<1>2. tiles \in Seq(TilesSeen(c)) /\ IsInjective(tiles) /\ Range(tiles) = TilesSeen(c)
  BY <1>1, RequiredTilesFacts, TilesFacts
<1>3. Len(tiles) \in Nat /\ DOMAIN tiles = 1 .. Len(tiles) /\ policy.topK \in Nat \ {0}
  BY <1>2 DEF PlanType
<1>4. \A slot \in Slots(c) : /\ slot \in (1 .. policy.topK) \X (1 .. Len(tiles))
                             /\ slot[1] <= Len(PicksOf(c, tiles[slot[2]]))
  BY <1>3 DEF Slots
<1>5. \A n \in 1 .. policy.topK, i \in 1 .. Len(tiles) :
        n <= Len(PicksOf(c, tiles[i])) => <<n, i>> \in Slots(c)
  BY <1>3 DEF Slots
<1>6. IsFiniteSet(Slots(c)) /\ Slots(c) \subseteq Int \X Int
  <2>1. IsFiniteSet(1 .. policy.topK) /\ IsFiniteSet(1 .. Len(tiles))
    BY <1>3, FS_Interval
  <2>2. IsFiniteSet((1 .. policy.topK) \X (1 .. Len(tiles)))
    BY <2>1, FS_Product
  <2>3. Slots(c) \in SUBSET ((1 .. policy.topK) \X (1 .. Len(tiles)))
    BY <1>4
  <2>4. (1 .. policy.topK) \X (1 .. Len(tiles)) \subseteq Int \X Int
    OBVIOUS
  <2>5. QED
    BY <2>2, <2>3, <2>4, FS_Subset
<1>7. \A t : \A e \in OfTile(c, t) : e \in Eligibles(c) /\ TileOf(e.scene) = t
  BY <1>1 DEF OfTile
<1>8. ASSUME NEW slot \in Slots(c)
      PROVE  /\ slot[1] \in Nat /\ slot[2] \in DOMAIN tiles /\ slot = <<slot[1], slot[2]>>
             /\ SlotEntry(c, slot) \in OfTile(c, tiles[slot[2]])
             /\ TileRank(c, SlotEntry(c, slot)) = slot[1] - 1
             /\ slot[1] <= policy.topK
  <2> DEFINE t == tiles[slot[2]]
  <2>1. /\ slot[1] \in 1 .. policy.topK /\ slot[2] \in 1 .. Len(tiles) /\ slot = <<slot[1], slot[2]>>
        /\ slot[1] <= Len(PicksOf(c, t))
    BY <1>4
  <2>2. SlotEntry(c, slot) = PicksOf(c, t)[slot[1]]
    BY DEF SlotEntry
  <2> HIDE DEF t
  <2>3. /\ PicksOf(c, t) \in Seq(OfTile(c, t))
        /\ \A n \in DOMAIN PicksOf(c, t) : TileRank(c, PicksOf(c, t)[n]) = n - 1 /\ n <= policy.topK
    BY PicksFacts
  <2>4. slot[1] \in DOMAIN PicksOf(c, t)
    BY <1>3, <2>1, <2>3
  <2>5. PicksOf(c, t)[slot[1]] \in OfTile(c, t)
    BY <2>3, <2>4
  <2>6. TileRank(c, SlotEntry(c, slot)) = slot[1] - 1
    BY <2>2, <2>3, <2>4
  <2>7. QED
    BY <1>3, <2>1, <2>2, <2>5, <2>6 DEF t
<1>9. ASSUME NEW slot \in Slots(c), NEW other \in Slots(c), SlotEntry(c, slot) = SlotEntry(c, other)
      PROVE  slot = other
  <2>1. tiles[slot[2]] = tiles[other[2]]
    BY <1>7, <1>8, <1>9
  <2>2. slot[2] = other[2]
    BY <1>2, <1>8, <2>1 DEF IsInjective
  <2>3. slot[1] - 1 = other[1] - 1
    BY <1>8, <1>9
  <2>4. slot[1] = other[1]
    BY <1>8, <2>3
  <2>5. QED
    BY <1>8, <2>2, <2>4
<1>10. ASSUME NEW e \in Eligibles(c), TileRank(c, e) < policy.topK
       PROVE  \E slot \in Slots(c) : SlotEntry(c, slot) = e
  <2> DEFINE t == TileOf(e.scene)
             k == TileRank(c, e)
  <2>1. e \in OfTile(c, t) /\ t \in TilesSeen(c)
    BY <1>1 DEF OfTile, TilesSeen, Range
  <2>2. PICK i \in DOMAIN tiles : tiles[i] = t
    BY <1>2, <2>1 DEF Range
  <2> HIDE DEF t, k
  <2>3. k \in Nat /\ k + 1 <= Len(PicksOf(c, t)) /\ PicksOf(c, t)[k + 1] = e
    BY <1>10, <2>1, PicksFacts DEF k
  <2>4. k + 1 \in 1 .. policy.topK
    BY <1>3, <1>10, <2>3 DEF k
  <2>5. <<k + 1, i>> \in Slots(c)
    BY <1>3, <1>5, <2>2, <2>3, <2>4
  <2>6. SlotEntry(c, <<k + 1, i>>) = e
    BY <2>2, <2>3 DEF SlotEntry
  <2>7. QED
    BY <2>5, <2>6
<1>11. QED
  BY <1>6, <1>7, <1>8, <1>9, <1>10

LEMMA PickFacts ==
  ASSUME PlanType, PartitionInv, EntriesInv, Classified, NEW c \in Chunks
  PROVE  /\ PickForChunk(c) \in Seq(Nat)
         /\ \A n \in DOMAIN PickForChunk(c) :
              \E e \in Eligibles(c) : e.scene = PickForChunk(c)[n] /\ TileRank(c, e) < policy.topK
         /\ \A e \in Eligibles(c) : TileRank(c, e) < policy.topK =>
              \E n \in DOMAIN PickForChunk(c) : PickForChunk(c)[n] = e.scene
         /\ \A n, m \in DOMAIN PickForChunk(c) : \A e, f \in Eligibles(c) :
              n < m /\ e.scene = PickForChunk(c)[n] /\ f.scene = PickForChunk(c)[m]
                => TileRank(c, e) <= TileRank(c, f)
         /\ IsInjective(PickForChunk(c))
<1> DEFINE S == Slots(c)
           R == SlotPairs(S)
           N == Cardinality(S)
           order == Ordered(S, RankByRank)
           pick == PickForChunk(c)
<1>1. /\ IsFiniteSet(S) /\ S \subseteq Int \X Int
      /\ \A slot \in S : /\ SlotEntry(c, slot) \in Eligibles(c)
                         /\ TileRank(c, SlotEntry(c, slot)) = slot[1] - 1
                         /\ slot[1] <= policy.topK
      /\ \A slot, other \in S : SlotEntry(c, slot) = SlotEntry(c, other) => slot = other
      /\ \A e \in Eligibles(c) : TileRank(c, e) < policy.topK => \E slot \in S : SlotEntry(c, slot) = e
  BY SlotFacts
<1>2. pick = [n \in DOMAIN order |-> SlotEntry(c, order[n]).scene]
  BY DEF PickForChunk, Slots, SlotEntry
<1> HIDE DEF S, pick
<1>3. StrictOrder(S, R) /\ \A slot \in S : {other \in S : RankByRank(other, slot)} = Ahead(S, R, slot)
  BY <1>1, SlotsAreStrict
<1> HIDE DEF R
<1>4. order = [n \in 1 .. N |-> CHOOSE slot \in S : Cardinality({other \in S : RankByRank(other, slot)}) = n - 1]
  BY DEF Ordered
<1> HIDE DEF order
<1>5. \A n \in 1 .. N : \E slot \in S : Cardinality({other \in S : RankByRank(other, slot)}) = n - 1
  <2>1. \A n \in 1 .. N : \E slot \in S : Cardinality(Ahead(S, R, slot)) = n - 1
    <3>1. IsFiniteSet(S) /\ StrictOrder(S, R)
      BY <1>1, <1>3
    <3>2. QED
      BY ONLY <3>1, Ranking
  <2>2. QED
    BY <1>3, <2>1, Zenon
<1>6. \A n \in 1 .. N : order[n] \in S /\ Cardinality({other \in S : RankByRank(other, order[n])}) = n - 1
  BY <1>4, <1>5
<1>7. Ranked(order, S, R)
  BY <1>3, <1>4, <1>6 DEF Ranked
<1>8. /\ N \in Nat /\ order \in Seq(S) /\ DOMAIN order = 1 .. N
      /\ \A slot \in S : \E n \in DOMAIN order : order[n] = slot
      /\ \A n, m \in DOMAIN order : n < m => <<order[n], order[m]>> \in R
      /\ \A n, m \in DOMAIN order : order[n] = order[m] => n = m
  BY <1>1, <1>3, <1>7, RankedLists
<1>9. \A e, f \in Eligibles(c) : e.scene = f.scene => e = f
  BY EligiblesFacts
<1>10. \A e \in Eligibles(c) : e.scene \in Nat
  BY EligiblesFacts DEF ChunkEntry
<1>11. ASSUME NEW n \in 1 .. N
       PROVE  /\ order[n] \in S /\ order[n][1] \in Int /\ SlotEntry(c, order[n]) \in Eligibles(c)
              /\ pick[n] = SlotEntry(c, order[n]).scene /\ pick[n] \in Nat
              /\ TileRank(c, SlotEntry(c, order[n])) = order[n][1] - 1
              /\ order[n][1] - 1 < policy.topK
  <2>1. order[n] \in S
    BY <1>6
  <2>2. order[n][1] \in Int
    BY <1>1, <2>1
  <2>3. pick[n] = SlotEntry(c, order[n]).scene
    BY <1>2, <1>8
  <2>4. SlotEntry(c, order[n]) \in Eligibles(c) /\ TileRank(c, SlotEntry(c, order[n])) = order[n][1] - 1
        /\ order[n][1] <= policy.topK
    BY <1>1, <2>1
  <2>5. pick[n] \in Nat
    BY <1>10, <2>3, <2>4
  <2>6. policy.topK \in Nat
    BY DEF PlanType
  <2>7. QED
    BY <2>1, <2>2, <2>3, <2>4, <2>5, <2>6
<1>12. DOMAIN pick = 1 .. N /\ pick \in Seq(Nat)
  <2>1. pick = [n \in 1 .. N |-> SlotEntry(c, order[n]).scene]
    BY <1>2, <1>8
  <2>2. \A n \in 1 .. N : SlotEntry(c, order[n]).scene \in Nat
    BY <1>10, <1>11
  <2>3. N \in Nat
    BY <1>8
  <2>4. pick \in [1 .. N -> Nat]
    BY <2>1, <2>2
  <2>5. QED
    BY <2>3, <2>4
<1>13. ASSUME NEW e \in Eligibles(c), TileRank(c, e) < policy.topK
       PROVE  \E n \in DOMAIN pick : pick[n] = e.scene
  <2>1. PICK slot \in S : SlotEntry(c, slot) = e
    BY <1>1, <1>13
  <2>2. PICK n \in 1 .. N : order[n] = slot
    BY <1>8
  <2>3. QED
    BY <1>11, <1>12, <2>1, <2>2
<1>14. ASSUME NEW n \in DOMAIN pick, NEW m \in DOMAIN pick, NEW e \in Eligibles(c), NEW f \in Eligibles(c),
              n < m, e.scene = pick[n], f.scene = pick[m]
       PROVE  TileRank(c, e) <= TileRank(c, f)
  <2>1. n \in 1 .. N /\ m \in 1 .. N
    BY <1>12
  <2>2. e = SlotEntry(c, order[n]) /\ f = SlotEntry(c, order[m])
    BY <1>9, <1>11, <1>14, <2>1
  <2>3. <<order[n], order[m]>> \in R
    BY <1>8, <1>14, <2>1
  <2>4. RankByRank(order[n], order[m])
    BY <2>3 DEF R, SlotPairs
  <2>5. order[n][1] <= order[m][1]
    BY <1>11, <2>1, <2>4 DEF RankByRank
  <2>6. TileRank(c, e) = order[n][1] - 1 /\ TileRank(c, f) = order[m][1] - 1
    BY <1>11, <2>1, <2>2
  <2>7. order[n][1] \in Int /\ order[m][1] \in Int
    BY <1>11, <2>1
  <2>8. QED
    BY <2>5, <2>6, <2>7
<1>15. IsInjective(pick)
  <2> SUFFICES ASSUME NEW n \in DOMAIN pick, NEW m \in DOMAIN pick, pick[n] = pick[m] PROVE n = m
    BY DEF IsInjective
  <2>1. n \in 1 .. N /\ m \in 1 .. N
    BY <1>12
  <2>2. SlotEntry(c, order[n]) = SlotEntry(c, order[m])
    BY <1>9, <1>11, <2>1
  <2>3. order[n] = order[m]
    BY <1>1, <1>11, <2>1, <2>2
  <2>4. QED
    BY <1>8, <2>1, <2>3
<1>16. \A n \in DOMAIN pick : \E e \in Eligibles(c) : e.scene = pick[n] /\ TileRank(c, e) < policy.topK
  BY <1>11, <1>12
<1>17. QED
  BY <1>12, <1>13, <1>14, <1>15, <1>16 DEF pick

-----------------------------------------------------------------------------
(* What a planned chunk has, with the definitions of the properties.       *)
Outranked(c, f) == {g \in Candidates(c) : TileOf(g.scene) = TileOf(f.scene) /\ Better(g, f)}
TopK(c, p) == Range(p) = {e.scene : e \in {f \in Candidates(c) : Cardinality(Outranked(c, f)) < policy.topK}}
SceneRank(c, s) == Cardinality({g \in Candidates(c) : TileOf(g.scene) = TileOf(s) /\ Better(g, Entry(s, c))})
Seams(c, p) == /\ \A n, m \in DOMAIN p : n < m => SceneRank(c, p[n]) <= SceneRank(c, p[m])
               /\ Cardinality(Range(p)) = Len(p)
Tiled(c, p) ==
  LET fp == Footprints(scenes, WholeShapes(scenes))
  IN  partition # None /\ (\A t \in Meeting(fp, Pixels(windows[c])) :
                             \E e \in Candidates(c) : TileOf(e.scene) = t)
        => Pixels(windows[c]) \ partition.unreachable[c]
             \subseteq UNION {fp[t] : t \in {TileOf(s) : s \in Range(p)} \cap DOMAIN fp}

LEMMA PlannedParts ==
  /\ PlanIsTopK <=> \A c \in DOMAIN plan : TopK(c, plan[c])
  /\ SeamsFirst <=> \A c \in DOMAIN plan : Seams(c, plan[c])
  /\ NoSeamLeft <=> \A c \in DOMAIN plan : Tiled(c, plan[c])
<1>1. PlanIsTopK <=> \A c \in DOMAIN plan : TopK(c, plan[c])
  BY DEF PlanIsTopK, TopK, Outranked
<1>2. SeamsFirst <=> \A c \in DOMAIN plan : Seams(c, plan[c])
  BY DEF SeamsFirst, Seams, SceneRank
<1>3. NoSeamLeft <=> \A c \in DOMAIN plan : Tiled(c, plan[c])
  BY DEF NoSeamLeft, Tiled
<1>4. QED
  BY <1>1, <1>2, <1>3

LEMMA CandidatesFacts ==
  ASSUME PlanType, EntriesInv, Classified, arrived = DOMAIN scenes, NEW c \in Chunks
  PROVE  /\ Candidates(c) = Eligibles(c)
         /\ \A e \in Candidates(c) : /\ e = Entry(e.scene, c)
                                     /\ Cardinality(Outranked(c, e)) = TileRank(c, e)
                                     /\ SceneRank(c, e.scene) = TileRank(c, e)
<1>1. Candidates(c) = Eligibles(c) /\ Range(entries[c]) = Eligibles(c)
  BY DEF Candidates, Eligibles, EntriesInv
<1>2. ASSUME NEW e \in Candidates(c)
      PROVE  /\ e = Entry(e.scene, c)
             /\ Cardinality(Outranked(c, e)) = TileRank(c, e)
             /\ SceneRank(c, e.scene) = TileRank(c, e)
  <2> DEFINE S == OfTile(c, TileOf(e.scene))
  <2>1. e = Entry(e.scene, c)
    BY DEF Candidates, Entry
  <2>2. S = {g \in Candidates(c) : TileOf(g.scene) = TileOf(e.scene)} /\ e \in S
    BY <1>1 DEF OfTile
  <2>3. Outranked(c, e) = {g \in S : Better(g, e)}
    BY <2>2 DEF Outranked
  <2>4. S \subseteq ChunkEntry /\ \A f, g \in S : f.scene = g.scene => f = g
    BY <1>1, <2>2, EligiblesFacts
  <2> HIDE DEF S
  <2>5. Outranked(c, e) = Ahead(S, BetterPairs(S), e)
    BY <2>2, <2>3, <2>4, BetterIsStrict
  <2>6. Cardinality(Outranked(c, e)) = TileRank(c, e)
    BY <2>5 DEF TileRank, S
  <2>7. SceneRank(c, e.scene) = Cardinality({g \in Candidates(c) : TileOf(g.scene) = TileOf(e.scene)
                                                                   /\ Better(g, e)})
    BY <2>1, Zenon DEF SceneRank
  <2>8. SceneRank(c, e.scene) = Cardinality(Outranked(c, e))
    BY <2>7 DEF Outranked
  <2>9. QED
    BY <2>1, <2>6, <2>8
<1>3. QED
  BY <1>1, <1>2

(* Every tile with a candidate has a best one, of rank 0.                  *)
LEMMA BestOfTile ==
  ASSUME PlanType, EntriesInv, Classified, NEW c \in Chunks, NEW e \in Eligibles(c)
  PROVE  \E f \in Eligibles(c) : TileOf(f.scene) = TileOf(e.scene) /\ TileRank(c, f) = 0
<1> DEFINE S == OfTile(c, TileOf(e.scene))
<1>1. e \in S /\ S \subseteq Eligibles(c) /\ \A f \in S : TileOf(f.scene) = TileOf(e.scene)
  BY DEF OfTile, EntriesInv
<1>2. \A f \in S : TileRank(c, f) = Cardinality(Ahead(S, BetterPairs(S), f))
  BY <1>1 DEF TileRank
<1> HIDE DEF S
<1>3. IsFiniteSet(S) /\ StrictOrder(S, BetterPairs(S))
  <2>1. /\ IsFiniteSet(Eligibles(c)) /\ Eligibles(c) \subseteq ChunkEntry
        /\ \A f, g \in Eligibles(c) : f.scene = g.scene => f = g
    BY EligiblesFacts
  <2>2. IsFiniteSet(S)
    BY <1>1, <2>1, FS_Subset
  <2>3. S \subseteq ChunkEntry /\ \A f, g \in S : f.scene = g.scene => f = g
    BY <1>1, <2>1
  <2>4. QED
    BY <2>2, <2>3, BetterIsStrict
<1>4. \A n \in 1 .. Cardinality(S) : \E f \in S : Cardinality(Ahead(S, BetterPairs(S), f)) = n - 1
  BY ONLY <1>3, Ranking
<1>5. 1 \in 1 .. Cardinality(S)
  <2>1. Cardinality(S) \in Nat /\ Cardinality(S) # 0
    BY <1>1, <1>3, FS_EmptySet, FS_CardinalityType
  <2>2. QED
    BY <2>1
<1>6. PICK f \in S : Cardinality(Ahead(S, BetterPairs(S), f)) = 1 - 1
  BY <1>4, <1>5
<1>7. QED
  BY <1>1, <1>2, <1>6

LEMMA RangeOfDistinct ==
  ASSUME NEW f \in Seq(Nat), IsInjective(f)
  PROVE  Cardinality(Range(f)) = Len(f)
<1>1. Len(f) \in Nat /\ DOMAIN f = 1 .. Len(f) /\ f \in [1 .. Len(f) -> Range(f)]
  BY DEF Range
<1>2. f \in Bijection(1 .. Len(f), Range(f))
  BY <1>1 DEF Bijection, Injection, Surjection, IsInjective, Range
<1>3. ExistsBijection(1 .. Len(f), Range(f))
  BY <1>2 DEF ExistsBijection
<1>4. QED
  BY <1>1, <1>3, FS_CountingElements

LEMMA ChunkIsPlanned ==
  ASSUME PlanType, PartitionInv, EntriesInv, Classified, arrived = DOMAIN scenes, NEW c \in Chunks
  PROVE  TopK(c, PickForChunk(c)) /\ Seams(c, PickForChunk(c)) /\ Tiled(c, PickForChunk(c))
<1> DEFINE pick == PickForChunk(c)
<1>1. /\ Candidates(c) = Eligibles(c)
      /\ \A e \in Candidates(c) : /\ e = Entry(e.scene, c)
                                  /\ Cardinality(Outranked(c, e)) = TileRank(c, e)
                                  /\ SceneRank(c, e.scene) = TileRank(c, e)
  BY CandidatesFacts
<1>2. /\ pick \in Seq(Nat) /\ IsInjective(pick)
      /\ \A n \in DOMAIN pick :
           \E e \in Eligibles(c) : e.scene = pick[n] /\ TileRank(c, e) < policy.topK
      /\ \A e \in Eligibles(c) : TileRank(c, e) < policy.topK => \E n \in DOMAIN pick : pick[n] = e.scene
      /\ \A n, m \in DOMAIN pick : \A e, f \in Eligibles(c) :
           n < m /\ e.scene = pick[n] /\ f.scene = pick[m] => TileRank(c, e) <= TileRank(c, f)
  BY PickFacts
<1> HIDE DEF pick
<1>3. TopK(c, pick)
  BY <1>1, <1>2, SMTT(40) DEF TopK, Range
<1>4. Seams(c, pick)
  <2>1. Cardinality(Range(pick)) = Len(pick)
    BY <1>2, RangeOfDistinct
  <2>2. ASSUME NEW n \in DOMAIN pick, NEW m \in DOMAIN pick, n < m
        PROVE  SceneRank(c, pick[n]) <= SceneRank(c, pick[m])
    <3>1. PICK e \in Eligibles(c) : e.scene = pick[n]
      BY <1>2
    <3>2. PICK f \in Eligibles(c) : f.scene = pick[m]
      BY <1>2
    <3>3. TileRank(c, e) <= TileRank(c, f)
      BY <1>2, <2>2, <3>1, <3>2
    <3>4. SceneRank(c, pick[n]) = TileRank(c, e) /\ SceneRank(c, pick[m]) = TileRank(c, f)
      BY <1>1, <3>1, <3>2
    <3>5. QED
      BY <3>3, <3>4
  <2>3. QED
    BY <2>1, <2>2 DEF Seams
<1>5. Tiled(c, pick)
  <2> DEFINE fp == Footprints(scenes, WholeShapes(scenes))
             chunk == Pixels(windows[c])
             shown == {TileOf(s) : s \in Range(pick)}
  <2> SUFFICES ASSUME partition # None,
                      \A t \in Meeting(fp, chunk) : \E e \in Candidates(c) : TileOf(e.scene) = t,
                      NEW pixel \in chunk \ partition.unreachable[c]
               PROVE  pixel \in UNION {fp[t] : t \in shown \cap DOMAIN fp}
    BY DEF Tiled
  <2>1. pixel \in UNION {fp[t] : t \in DOMAIN fp}
    BY DEF PartitionInv, Unreachable
  <2> HIDE DEF fp, chunk
  <2>2. PICK t \in DOMAIN fp : pixel \in fp[t]
    BY <2>1
  <2>3. t \in Meeting(fp, chunk)
    BY <2>2 DEF Meeting
  <2>4. PICK e \in Eligibles(c) : TileOf(e.scene) = t
    BY <1>1, <2>3
  <2>5. PICK f \in Eligibles(c) : TileOf(f.scene) = t /\ TileRank(c, f) = 0
    BY <2>4, BestOfTile
  <2>6. TileRank(c, f) < policy.topK
    BY <2>5 DEF PlanType
  <2>7. PICK n \in DOMAIN pick : pick[n] = f.scene
    BY <1>2, <2>6
  <2>8. t \in shown
    BY <2>5, <2>7 DEF Range
  <2>9. QED
    BY <2>2, <2>8
<1>6. QED
  BY <1>3, <1>4, <1>5 DEF pick

-----------------------------------------------------------------------------
(* The partition: a chunk's required tiles are distinct.                   *)
LeadsBy(fp, chunk, t, u) == \/ Exclusive(fp, chunk, t) > Exclusive(fp, chunk, u)
                            \/ Exclusive(fp, chunk, t) = Exclusive(fp, chunk, u) /\ t < u

LEMMA MostExclusiveDistinct ==
  ASSUME NEW fp, NEW chunk, IsFiniteSet(chunk), NEW tiles, IsFiniteSet(tiles), tiles \subseteq Nat
  PROVE  NoRepeats(MostExclusiveFirst(fp, chunk, tiles))
<1> DEFINE N == Cardinality(tiles)
           R == {pair \in tiles \X tiles : LeadsBy(fp, chunk, pair[1], pair[2])}
           f == MostExclusiveFirst(fp, chunk, tiles)
<1>1. \A t \in tiles : Exclusive(fp, chunk, t) \in Nat /\ t \in Nat
  <2> SUFFICES ASSUME NEW t \in tiles PROVE Exclusive(fp, chunk, t) \in Nat
    OBVIOUS
  <2> DEFINE alone == (fp[t] \cap chunk) \ UNION {fp[u] : u \in DOMAIN fp \ {t}}
  <2>1. alone \in SUBSET chunk
    OBVIOUS
  <2> HIDE DEF alone
  <2>2. IsFiniteSet(alone)
    BY <2>1, FS_Subset
  <2>3. Cardinality(alone) \in Nat
    BY <2>2, FS_CardinalityType
  <2>4. QED
    BY <2>3 DEF Exclusive, alone
<1>2. \A t, u \in tiles : <<t, u>> \in R <=> LeadsBy(fp, chunk, t, u)
  OBVIOUS
<1>3. f = [n \in 1 .. N |-> CHOOSE t \in tiles : Cardinality({u \in tiles : LeadsBy(fp, chunk, u, t)}) = n - 1]
  BY DEF MostExclusiveFirst, Ordered, LeadsBy
<1> HIDE DEF R, f
<1>4. StrictOrder(tiles, R)
  <2>1. \A t, u, v \in tiles : LeadsBy(fp, chunk, t, u) /\ LeadsBy(fp, chunk, u, v) => LeadsBy(fp, chunk, t, v)
    BY <1>1 DEF LeadsBy
  <2>2. \A t, u \in tiles : t # u => LeadsBy(fp, chunk, t, u) \/ LeadsBy(fp, chunk, u, t)
    BY <1>1 DEF LeadsBy
  <2>3. \A t \in tiles : ~LeadsBy(fp, chunk, t, t)
    BY <1>1 DEF LeadsBy
  <2>4. QED
    BY <1>2, <2>1, <2>2, <2>3 DEF StrictOrder
<1>5. \A t \in tiles : {u \in tiles : LeadsBy(fp, chunk, u, t)} = Ahead(tiles, R, t)
  BY <1>2 DEF Ahead
<1>6. \A n \in 1 .. N : \E t \in tiles : Cardinality({u \in tiles : LeadsBy(fp, chunk, u, t)}) = n - 1
  <2>1. \A n \in 1 .. N : \E t \in tiles : Cardinality(Ahead(tiles, R, t)) = n - 1
    BY ONLY IsFiniteSet(tiles), <1>4, Ranking
  <2>2. QED
    BY <1>5, <2>1, Zenon
<1>7. \A n \in 1 .. N : f[n] \in tiles /\ Cardinality({u \in tiles : LeadsBy(fp, chunk, u, f[n])}) = n - 1
  BY <1>3, <1>6
<1>8. Ranked(f, tiles, R)
  BY <1>3, <1>5, <1>7 DEF Ranked
<1>9. /\ N \in Nat /\ DOMAIN f = 1 .. N
      /\ \A n, m \in DOMAIN f : f[n] = f[m] => n = m
  BY <1>4, <1>8, RankedLists
<1>10. QED
  BY <1>9 DEF NoRepeats, IsInjective, f

LEMMA PixelsFinite ==
  ASSUME NEW w \in Windows
  PROVE  IsFiniteSet(Pixels(w))
<1>1. /\ w.row \in Int /\ w.row + w.height - 1 \in Int
      /\ w.col \in Int /\ w.col + w.width - 1 \in Int
  BY DEF Windows
<1>2. /\ IsFiniteSet(w.row .. w.row + w.height - 1)
      /\ IsFiniteSet(w.col .. w.col + w.width - 1)
  BY ONLY <1>1, FS_Interval
<1>3. QED
  BY <1>2, FS_Product DEF Pixels

LEMMA TilesOfFootprints ==
  ASSUME NEW list \in Seq(Scene)
  PROVE  LET fp == Footprints(list, WholeShapes(list))
         IN  IsFiniteSet(DOMAIN fp) /\ DOMAIN fp \subseteq Nat
<1> DEFINE fp == Footprints(list, WholeShapes(list))
           tileOf == [s \in Drawn(list) |-> list[s].tile]
<1>1. DOMAIN fp = {list[s].tile : s \in Drawn(list)}
  BY DEF Footprints, WholeShapes
<1>2. Len(list) \in Nat /\ DOMAIN list = 1 .. Len(list)
  OBVIOUS
<1>3. IsFiniteSet(1 .. Len(list)) /\ Drawn(list) \in SUBSET (1 .. Len(list))
  BY <1>2, FS_Interval DEF Drawn
<1>4. IsFiniteSet(Drawn(list))
  BY <1>3, FS_Subset
<1> HIDE DEF fp
<1>5. tileOf \in Surjection(Drawn(list), DOMAIN fp)
  BY <1>1 DEF Surjection
<1> HIDE DEF tileOf
<1>6. IsFiniteSet(DOMAIN fp)
  BY <1>4, <1>5, FS_Surjection
<1>7. DOMAIN fp \subseteq Nat
  <2>1. \A s \in Drawn(list) : list[s] \in Scene /\ list[s].tile # None
    BY DEF Drawn
  <2>2. \A s \in Drawn(list) : list[s].tile \in Nat
    BY <2>1 DEF Scene
  <2>3. QED
    BY <1>1, <2>2
<1>8. QED
  BY <1>6, <1>7 DEF fp

LEMMA RequiredDistinct ==
  ASSUME NEW fp, IsFiniteSet(DOMAIN fp), DOMAIN fp \subseteq Nat, NEW chunk, IsFiniteSet(chunk), NEW largest
  PROVE  NoRepeats(Required(fp, chunk, largest))
<1> DEFINE needed == {t \in Meeting(fp, chunk) : Exclusive(fp, chunk, t) >= MinExclusive}
<1>1. needed \in SUBSET DOMAIN fp
  BY DEF Meeting
<1>2. IsFiniteSet(needed) /\ needed \subseteq Nat
  BY <1>1, FS_Subset
<1>3. Required(fp, chunk, largest) = IF Meeting(fp, chunk) = {} THEN <<>>
                                     ELSE IF needed = {} THEN <<largest>>
                                                         ELSE MostExclusiveFirst(fp, chunk, needed)
  BY DEF Required
<1> HIDE DEF needed
<1>4. NoRepeats(MostExclusiveFirst(fp, chunk, needed))
  BY <1>2, MostExclusiveDistinct
<1>5. NoRepeats(<<>>)
  <2>1. DOMAIN <<>> = 1 .. 0 /\ 0 \in Nat
    OBVIOUS
  <2>2. QED
    BY <2>1 DEF NoRepeats, IsInjective
<1>6. NoRepeats(<<largest>>)
  <2>1. DOMAIN <<largest>> = 1 .. 1 /\ 1 \in Nat
    OBVIOUS
  <2>2. QED
    BY <2>1 DEF NoRepeats, IsInjective
<1>7. QED
  BY <1>3, <1>4, <1>5, <1>6

LEMMA PartitionFacts ==
  ASSUME NEW list \in Seq(Scene), NEW wins \in Seq(Windows), NEW part, part # None,
         part = Partition(list, [c \in DOMAIN wins |-> Pixels(wins[c])]),
         NEW c \in DOMAIN wins
  PROVE  /\ NoRepeats(part.required[c])
         /\ part.unreachable[c] = Unreachable(Footprints(list, WholeShapes(list)), Pixels(wins[c]))
<1> DEFINE fp == Footprints(list, WholeShapes(list))
           chunks == [k \in DOMAIN wins |-> Pixels(wins[k])]
<1>1. part = [required    |-> [k \in DOMAIN chunks |-> Required(fp, chunks[k], FirstLargest(fp, chunks[k]))],
              unreachable |-> [k \in DOMAIN chunks |-> Unreachable(fp, chunks[k])],
              tiles       |-> DOMAIN fp]
  BY DEF Partition
<1>2. IsFiniteSet(DOMAIN fp) /\ DOMAIN fp \subseteq Nat
  BY TilesOfFootprints
<1> HIDE DEF fp
<1>3. DOMAIN chunks = DOMAIN wins /\ chunks[c] = Pixels(wins[c])
  OBVIOUS
<1> HIDE DEF chunks
<1>4. /\ part.required[c] = Required(fp, chunks[c], FirstLargest(fp, chunks[c]))
      /\ part.unreachable[c] = Unreachable(fp, chunks[c])
  BY <1>1, <1>3
<1>5. wins[c] \in Windows
  OBVIOUS
<1>6. IsFiniteSet(Pixels(wins[c]))
  BY <1>5, PixelsFinite
<1>7. NoRepeats(Required(fp, Pixels(wins[c]), FirstLargest(fp, chunks[c])))
  BY <1>2, <1>6, RequiredDistinct
<1>8. QED
  BY <1>3, <1>4, <1>7 DEF fp

-----------------------------------------------------------------------------
(* Every step keeps the invariant.                                         *)
LEMMA PlanInvInit ==
  ASSUME Init
  PROVE  PlanInv
<1>1. LayoutInv
  BY LayoutInvInit DEF Init
<1>2. area \in Areas /\ scenes \in Seq(Scene) /\ policy \in [topK : Nat \ {0}, floor : Nat]
  BY ScenesAssumption, PoliciesAssumption DEF Init, LayoutInit, Scene
<1>3. ~Classified /\ plan = <<>> /\ arrived = {} /\ DOMAIN plan = {}
  BY DEF Init, Classified
<1>4. PlanType
  BY <1>2, <1>3 DEF PlanType
<1>5. PartitionInv /\ EntriesInv
  BY <1>3 DEF PartitionInv, EntriesInv
<1>6. PlanIsTopK /\ SeamsFirst /\ NoSeamLeft
  BY <1>3, PlannedParts
<1>7. QED
  BY <1>1, <1>4, <1>5, <1>6 DEF PlanInv

(* Nothing is planned yet.                                                 *)
LEMMA NothingPlanned ==
  ASSUME plan' = <<>>
  PROVE  (PlanIsTopK /\ SeamsFirst /\ NoSeamLeft)'
<1>1. DOMAIN plan' = {}
  OBVIOUS
<1>2. QED
  BY <1>1 DEF PlanIsTopK, SeamsFirst, NoSeamLeft

LEMMA LayOutStep ==
  ASSUME PlanInv, LayOut
  PROVE  PlanInv'
<1> USE DEF PlanInv
<1>1. LayoutInv'
  BY LayoutInvNext DEF LayOut
<1>2. ~Classified /\ plan = <<>> /\ arrived = {}
  BY DEF LayOut, NextWindow, PlanType
<1>3. ~Classified' /\ plan' = <<>> /\ arrived' = {} /\ scenes' = scenes /\ policy' = policy
  BY <1>2 DEF LayOut, Classified
<1>4. PlanType'
  <2>1. DOMAIN plan' = {} /\ plan' \in Seq(Seq(Nat))
    BY <1>3
  <2>2. QED
    BY <1>3, <2>1 DEF PlanType
<1>5. PartitionInv' /\ EntriesInv'
  BY <1>3 DEF PartitionInv, EntriesInv
<1>6. QED
  BY <1>1, <1>3, <1>4, <1>5, NothingPlanned

LEMMA ClassifyStep ==
  ASSUME PlanInv, Classify
  PROVE  PlanInv'
<1> USE DEF PlanInv
<1>1. ~Fits /\ ~Classified /\ plan = <<>> /\ arrived = {}
  BY DEF Classify, PlanType
<1>2. UNCHANGED layoutVars /\ scenes' = scenes /\ policy' = policy /\ plan' = <<>> /\ arrived' = {}
  BY <1>1 DEF Classify
<1>3. windows' = windows /\ Chunks' = Chunks /\ area' = area /\ ~Fits'
  BY <1>1, <1>2 DEF layoutVars, Chunks, Fits
<1>4. LayoutInv'
  BY <1>2, LayoutInvStutter
<1>5. PlanType'
  <2>1. scouted' \in [DOMAIN scenes -> [Chunks -> Scouts[area]]]
    BY DEF Classify
  <2>2. Scouts[area] \subseteq Stat
    BY ScenesAssumption DEF Stat, LayoutInv, LayoutType
  <2>3. scouted' \in [DOMAIN scenes -> [Chunks -> Stat]]
    BY <2>1, <2>2
  <2>4. DOMAIN plan' = {} /\ plan' \in Seq(Seq(Nat))
    BY <1>2
  <2>5. QED
    BY <1>2, <1>3, <2>3, <2>4 DEF PlanType
<1>6. PartitionInv'
  <2> SUFFICES ASSUME partition' # None, NEW c \in Chunks
               PROVE  /\ NoRepeats(partition'.required[c])
                      /\ partition'.unreachable[c]
                           = Unreachable(Footprints(scenes, WholeShapes(scenes)), Pixels(windows[c]))
    BY <1>2, <1>3 DEF PartitionInv
  <2>1. partition' = Partition(scenes, [k \in DOMAIN windows |-> Pixels(windows[k])])
    BY DEF Classify, Chunks
  <2>2. scenes \in Seq(Scene) /\ windows \in Seq(Windows) /\ c \in DOMAIN windows
    BY DEF PlanType, LayoutInv, LayoutType, Chunks
  <2>3. QED
    BY <2>1, <2>2, PartitionFacts
<1>7. EntriesInv'
  <2>1. entries' = [c \in Chunks |-> <<>>]
    BY DEF Classify
  <2>2. entries' \in [Chunks -> Seq(ChunkEntry)]
    BY <2>1
  <2>3. \A c \in Chunks : Range(entries'[c]) = {}
    BY <2>1 DEF Range
  <2>4. \A c : Eligibles(c)' = {}
    BY <1>2 DEF Eligibles
  <2>5. QED
    BY <1>3, <2>2, <2>3, <2>4 DEF EntriesInv
<1>8. QED
  BY <1>2, <1>4, <1>5, <1>6, <1>7, NothingPlanned

LEMMA AppendRange ==
  ASSUME NEW X, NEW q \in Seq(X), NEW x \in X
  PROVE  Append(q, x) \in Seq(X) /\ Range(Append(q, x)) = Range(q) \cup {x}
<1>1. /\ Append(q, x) \in Seq(X) /\ Len(q) \in Nat
      /\ DOMAIN q = 1 .. Len(q) /\ DOMAIN Append(q, x) = 1 .. Len(q) + 1
      /\ \A i \in 1 .. Len(q) : Append(q, x)[i] = q[i]
      /\ Append(q, x)[Len(q) + 1] = x
  OBVIOUS
<1>2. Range(Append(q, x)) \subseteq Range(q) \cup {x}
  <2> SUFFICES ASSUME NEW i \in 1 .. Len(q) + 1 PROVE Append(q, x)[i] \in Range(q) \cup {x}
    BY <1>1 DEF Range
  <2>1. CASE i = Len(q) + 1
    BY <1>1, <2>1
  <2>2. CASE i \in 1 .. Len(q)
    BY <1>1, <2>2 DEF Range
  <2>3. QED
    BY <1>1, <2>1, <2>2
<1>3. Range(q) \cup {x} \subseteq Range(Append(q, x))
  <2>1. \A i \in 1 .. Len(q) : i \in 1 .. Len(q) + 1
    BY <1>1
  <2>2. Len(q) + 1 \in 1 .. Len(q) + 1
    BY <1>1
  <2>3. QED
    BY <1>1, <2>1, <2>2 DEF Range
<1>4. QED
  BY <1>1, <1>2, <1>3

LEMMA ArriveStep ==
  ASSUME PlanInv, NEW s \in DOMAIN scenes, Arrive(s)
  PROVE  PlanInv'
<1> USE DEF PlanInv
<1>1. Classified /\ plan = <<>> /\ s \notin arrived
  BY DEF Arrive
<1>2. /\ UNCHANGED layoutVars /\ scenes' = scenes /\ policy' = policy /\ plan' = <<>>
      /\ scouted' = scouted /\ partition' = partition /\ arrived' = arrived \cup {s}
  BY <1>1 DEF Arrive
<1>3. windows' = windows /\ Chunks' = Chunks /\ (Fits' <=> Fits)
  BY <1>2 DEF layoutVars, Chunks, Fits
<1>4. LayoutInv'
  BY <1>2, LayoutInvStutter
<1>5. entries' = [c \in Chunks |-> IF Eligible(scouted[s][c]) THEN Append(entries[c], Entry(s, c)) ELSE entries[c]]
  BY DEF Arrive
<1>6. entries \in [Chunks -> Seq(ChunkEntry)] /\ \A c \in Chunks : Range(entries[c]) = Eligibles(c)
  BY <1>1 DEF EntriesInv
<1>7. Classified'
  <2>1. Chunks # {}
    BY <1>1, <1>6 DEF Classified
  <2>2. DOMAIN entries' = Chunks
    BY <1>5
  <2>3. QED
    BY <2>1, <2>2 DEF Classified
<1>8. PlanType'
  <2>1. DOMAIN plan' = {} /\ plan' \in Seq(Seq(Nat))
    BY <1>2
  <2>2. QED
    BY <1>1, <1>2, <1>3, <1>7, <2>1 DEF PlanType
<1>9. PartitionInv'
  BY <1>1, <1>2, <1>3 DEF PartitionInv
<1>10. EntriesInv'
  <2>1. \A c \in Chunks : Entry(s, c) \in ChunkEntry
    BY <1>1 DEF PlanType, Entry, ChunkEntry, Stat
  <2>2. ASSUME NEW c \in Chunks
        PROVE  entries'[c] \in Seq(ChunkEntry) /\ Range(entries'[c]) = Eligibles(c)'
    <3>1. Eligibles(c)' = {Entry(u, c) : u \in {v \in arrived \cup {s} : Eligible(scouted[v][c])}}
      BY <1>2 DEF Eligibles, Entry, Eligible, PassesClearFloor
    <3>2. CASE Eligible(scouted[s][c])
      <4>1. entries'[c] = Append(entries[c], Entry(s, c))
        BY <1>5, <3>2
      <4>2. Eligibles(c)' = Eligibles(c) \cup {Entry(s, c)}
        BY <3>1, <3>2 DEF Eligibles
      <4>3. QED
        BY <1>6, <2>1, <4>1, <4>2, AppendRange
    <3>3. CASE ~Eligible(scouted[s][c])
      <4>1. entries'[c] = entries[c]
        BY <1>5, <3>3
      <4>2. Eligibles(c)' = Eligibles(c)
        BY <3>1, <3>3 DEF Eligibles
      <4>3. QED
        BY <1>6, <4>1, <4>2
    <3>4. QED
      BY <3>2, <3>3
  <2>3. entries' \in [Chunks -> Seq(ChunkEntry)]
    <3>1. entries' = [c \in Chunks |-> entries'[c]]
      BY <1>5
    <3>2. QED
      BY <2>2, <3>1
  <2>4. QED
    BY <1>3, <2>2, <2>3 DEF EntriesInv
<1>11. QED
  BY <1>2, <1>4, <1>8, <1>9, <1>10, NothingPlanned

(* The properties of a plan depend on nothing that selecting changes.      *)
LEMMA PartsStay ==
  ASSUME UNCHANGED <<windows, scenes, scouted, policy, partition>>, NEW c, NEW p
  PROVE  (TopK(c, p)' <=> TopK(c, p)) /\ (Seams(c, p)' <=> Seams(c, p)) /\ (Tiled(c, p)' <=> Tiled(c, p))
<1>1. Candidates(c)' = Candidates(c)
  BY DEF Candidates, Entry, Eligible, PassesClearFloor
<1>2. \A s : TileOf(s)' = TileOf(s) /\ Entry(s, c)' = Entry(s, c)
  BY DEF TileOf, Entry
<1>3. \A f : Outranked(c, f)' = Outranked(c, f)
  BY <1>1, <1>2 DEF Outranked, Better
<1>4. \A s : SceneRank(c, s)' = SceneRank(c, s)
  BY <1>1, <1>2 DEF SceneRank, Better
<1>5. TopK(c, p)' <=> TopK(c, p)
  BY <1>1, <1>3 DEF TopK
<1>6. Seams(c, p)' <=> Seams(c, p)
  BY <1>4 DEF Seams
<1>7. Tiled(c, p)' <=> Tiled(c, p)
  BY <1>1, <1>2 DEF Tiled
<1>8. QED
  BY <1>5, <1>6, <1>7

LEMMA PartsKept ==
  ASSUME UNCHANGED <<windows, scenes, scouted, policy, partition>>,
         \A k \in DOMAIN plan' : TopK(k, plan'[k]) /\ Seams(k, plan'[k]) /\ Tiled(k, plan'[k])
  PROVE  PlanIsTopK' /\ SeamsFirst' /\ NoSeamLeft'
<1>1. ASSUME NEW k \in DOMAIN plan', NEW p, p = plan'[k]
      PROVE  TopK(k, p)' /\ Seams(k, p)' /\ Tiled(k, p)'
  BY <1>1, PartsStay, Zenon
<1>2. /\ PlanIsTopK' <=> \A k \in DOMAIN plan' : \A p : p = plan'[k] => TopK(k, p)'
      /\ SeamsFirst' <=> \A k \in DOMAIN plan' : \A p : p = plan'[k] => Seams(k, p)'
      /\ NoSeamLeft' <=> \A k \in DOMAIN plan' : \A p : p = plan'[k] => Tiled(k, p)'
  <2>1. PlanIsTopK' <=> \A k \in DOMAIN plan' : \A p : p = plan'[k] => TopK(k, p)'
    BY DEF PlanIsTopK, TopK, Outranked
  <2>2. SeamsFirst' <=> \A k \in DOMAIN plan' : \A p : p = plan'[k] => Seams(k, p)'
    BY DEF SeamsFirst, Seams, SceneRank
  <2>3. NoSeamLeft' <=> \A k \in DOMAIN plan' : \A p : p = plan'[k] => Tiled(k, p)'
    BY DEF NoSeamLeft, Tiled
  <2>4. QED
    BY <2>1, <2>2, <2>3
<1>3. PlanIsTopK' /\ SeamsFirst' /\ NoSeamLeft'
  BY <1>1, <1>2, Zenon
<1>4. QED
  BY <1>3

LEMMA SelectStep ==
  ASSUME PlanInv, SelectChunk
  PROVE  PlanInv'
<1> USE DEF PlanInv
<1> DEFINE c == Len(plan) + 1
           pick == PickForChunk(c)
<1>1. Classified /\ arrived = DOMAIN scenes /\ Len(plan) < Len(windows) /\ plan' = Append(plan, pick)
  BY DEF SelectChunk
<1>2. /\ UNCHANGED layoutVars /\ scenes' = scenes /\ policy' = policy /\ arrived' = arrived
      /\ scouted' = scouted /\ partition' = partition /\ entries' = entries
  BY DEF SelectChunk
<1>3. windows' = windows /\ Chunks' = Chunks /\ (Fits' <=> Fits) /\ Classified'
  BY <1>1, <1>2 DEF layoutVars, Chunks, Fits, Classified
<1>4. /\ plan \in Seq(Seq(Nat)) /\ Len(plan) \in Nat /\ DOMAIN plan = 1 .. Len(plan)
      /\ Len(windows) \in Nat /\ Chunks = 1 .. Len(windows) /\ DOMAIN plan \subseteq Chunks
  BY DEF PlanType, LayoutInv, LayoutType, Chunks
<1>5. c \in Chunks
  BY <1>1, <1>4
<1> HIDE DEF c
<1>6. pick \in Seq(Nat) /\ TopK(c, pick) /\ Seams(c, pick) /\ Tiled(c, pick)
  BY <1>1, <1>5, ChunkIsPlanned, PickFacts
<1> HIDE DEF pick
<1>7. /\ plan' \in Seq(Seq(Nat)) /\ DOMAIN plan' = DOMAIN plan \cup {c} /\ plan'[c] = pick
      /\ \A k \in DOMAIN plan : plan'[k] = plan[k]
  BY <1>1, <1>4, <1>6 DEF c
<1>8. LayoutInv'
  BY <1>2, LayoutInvStutter
<1>9. PlanType'
  <2>1. DOMAIN plan' \subseteq Chunks
    BY <1>4, <1>5, <1>7
  <2>2. QED
    BY <1>1, <1>2, <1>3, <1>7, <2>1 DEF PlanType
<1>10. PartitionInv'
  BY <1>1, <1>2, <1>3 DEF PartitionInv
<1>11. EntriesInv'
  <2>1. \A k : Eligibles(k)' = Eligibles(k)
    BY <1>2 DEF Eligibles, Entry, Eligible, PassesClearFloor
  <2>2. QED
    BY <1>1, <1>2, <1>3, <2>1 DEF EntriesInv
<1>12. \A k \in DOMAIN plan : TopK(k, plan[k]) /\ Seams(k, plan[k]) /\ Tiled(k, plan[k])
  BY PlannedParts
<1>13. \A k \in DOMAIN plan' : TopK(k, plan'[k]) /\ Seams(k, plan'[k]) /\ Tiled(k, plan'[k])
  BY <1>6, <1>7, <1>12, Zenon
<1>14. PlanIsTopK' /\ SeamsFirst' /\ NoSeamLeft'
  BY <1>2, <1>3, <1>13, PartsKept
<1>15. QED
  BY <1>8, <1>9, <1>10, <1>11, <1>14

LEMMA PlanInvStutter ==
  ASSUME PlanInv, UNCHANGED vars
  PROVE  PlanInv'
<1> USE DEF PlanInv
<1>1. /\ UNCHANGED layoutVars /\ scenes' = scenes /\ policy' = policy /\ arrived' = arrived
      /\ scouted' = scouted /\ partition' = partition /\ entries' = entries /\ plan' = plan
  BY DEF vars
<1>2. LayoutInv'
  BY <1>1, LayoutInvStutter
<1>3. windows' = windows /\ Chunks' = Chunks /\ (Fits' <=> Fits) /\ (Classified' <=> Classified)
  BY <1>1 DEF layoutVars, Chunks, Fits, Classified
<1>4. PlanType'
  BY <1>1, <1>3 DEF PlanType
<1>5. PartitionInv'
  BY <1>1, <1>3 DEF PartitionInv
<1>6. EntriesInv'
  <2>1. \A k : Eligibles(k)' = Eligibles(k)
    BY <1>1 DEF Eligibles, Entry, Eligible, PassesClearFloor
  <2>2. QED
    BY <1>1, <1>3, <2>1 DEF EntriesInv
<1>7. PlanIsTopK' /\ SeamsFirst' /\ NoSeamLeft'
  <2>1. \A k \in DOMAIN plan : TopK(k, plan[k]) /\ Seams(k, plan[k]) /\ Tiled(k, plan[k])
    BY PlannedParts
  <2>2. \A k \in DOMAIN plan' : TopK(k, plan'[k]) /\ Seams(k, plan'[k]) /\ Tiled(k, plan'[k])
    BY <1>1, <2>1, Zenon
  <2>3. QED
    BY <1>1, <1>3, <2>2, PartsKept
<1>8. QED
  BY <1>2, <1>4, <1>5, <1>6, <1>7

LEMMA PlanInvNext ==
  ASSUME PlanInv, [Next]_vars
  PROVE  PlanInv'
BY LayOutStep, ClassifyStep, ArriveStep, SelectStep, PlanInvStutter DEF Next

(* The invariant holds of every plan, whatever the areas, the catalogues,  *)
(* the statistics of the scenes and the policy.                            *)
THEOREM PlanCorrect == Spec => []PlanInv
<1>1. Init => PlanInv
  BY PlanInvInit
<1>2. PlanInv /\ [Next]_vars => PlanInv'
  BY PlanInvNext
<1>3. QED
  BY <1>1, <1>2, PTL DEF Spec

(* A chunk gets exactly the scenes that fewer than top_k eligible scenes   *)
(* of their own tile outrank, in whatever order the statistics came, with  *)
(* any number of scenes and tiles (selection.py:81-185).                   *)
THEOREM PlansAreTopK == Spec => []PlanIsTopK
<1>1. PlanInv => PlanIsTopK
  BY DEF PlanInv
<1>2. QED
  BY <1>1, PlanCorrect, PTL

(* No tile has a scene planned before a scene of lower rank of another     *)
(* tile, and no scene is planned twice: the tiles in order and each tile's *)
(* picks repeat nothing (selection.py:137-185).                            *)
THEOREM PlansAreRoundRobin == Spec => []SeamsFirst
<1>1. PlanInv => SeamsFirst
  BY DEF PlanInv
<1>2. QED
  BY <1>1, PlanCorrect, PTL

(* Where every tile that meets a chunk has an eligible scene, each pixel   *)
(* of the chunk that a tile reaches is in a tile of a planned scene        *)
(* (selection.py:137-185, tile_classification.py:94-248).                  *)
THEOREM PlansLeaveNoSeam == Spec => []NoSeamLeft
<1>1. PlanInv => NoSeamLeft
  BY DEF PlanInv
<1>2. QED
  BY <1>1, PlanCorrect, PTL
=============================================================================
