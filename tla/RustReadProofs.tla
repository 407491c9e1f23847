---------------------------- MODULE RustReadProofs ----------------------------
(***************************************************************************)
(* Proofs about what the Rust build reads and how.  CogTiles, CogOpen and  *)
(* CogReader, for any rasters, grids, lanes, openers and permits: what a   *)
(* window is read by (its tiles, their ranges, the bits and the prefix     *)
(* sums) is what the image is stored by, a directory within the file is    *)
(* always read, a range is asked for a bounded number of times, the        *)
(* permits of a read come back, and a read that succeeds gives the image.  *)
(* RustPlanning, for any areas, scenes and policies: how deep a footprint  *)
(* is stacked, which scenes come first, the windows they are fetched in.   *)
(***************************************************************************)
EXTENDS CogReader, RustPlanning, WellFoundedInduction, FiniteSetTheorems, TLAPS

-----------------------------------------------------------------------------
(* Sets of naturals have a least member and, when bounded, a greatest.     *)
LEMMA LeastNatural ==
  ASSUME NEW S, S \subseteq Nat, S # {}
  PROVE  \E n \in S : \A m \in S : n <= m
<1> DEFINE Less == {pair \in Nat \X Nat : pair[1] < pair[2]}
<1>1. IsWellFoundedOn(Less, Nat)
  BY NatLessThanWellFounded DEF OpToRel
<1>2. \A x, y \in S : y < x => <<y, x>> \in Less
  OBVIOUS
<1> HIDE DEF Less
<1>3. PICK x \in S : \A y \in S : ~(<<y, x>> \in Less)
  BY <1>1, WFMin, Zenon
<1>4. ASSUME NEW m \in S PROVE x <= m
  <2>1. ~(m < x)
    BY <1>2, <1>3
  <2>2. QED
    BY <2>1
<1>5. QED
  BY <1>4

LEMMA GreatestNatural ==
  ASSUME NEW S, S \subseteq Nat, S # {}, NEW bound \in Nat, \A n \in S : n <= bound
  PROVE  \E n \in S : \A m \in S : m <= n
<1> DEFINE gaps == {n \in Nat : bound - n \in S}
<1>1. gaps \subseteq Nat /\ gaps # {}
  <2>1. PICK n \in S : TRUE
    OBVIOUS
  <2>2. bound - n \in Nat /\ bound - (bound - n) \in S
    BY <2>1
  <2>3. QED
    BY <2>2
<1>2. PICK g \in gaps : \A h \in gaps : g <= h
  BY <1>1, LeastNatural
<1>3. bound - g \in S /\ g \in Nat
  BY <1>2
<1>4. ASSUME NEW m \in S PROVE m <= bound - g
  <2>1. bound - m \in Nat /\ bound - (bound - m) = m
    BY <1>4
  <2>2. bound - m \in gaps
    BY <2>1
  <2>3. g <= bound - m
    BY <2>2, <1>2
  <2>4. QED
    BY <2>3, <1>3
<1>5. QED
  BY <1>3, <1>4

(* Induction over the naturals, by a set.                                  *)
LEMMA SetInduction ==
  ASSUME NEW S, 0 \in S, \A n \in Nat : n \in S => n + 1 \in S
  PROVE  Nat \subseteq S
<1>1. SUFFICES ASSUME Nat \ S # {} PROVE FALSE
  OBVIOUS
<1>2. PICK n \in Nat \ S : \A m \in Nat \ S : n <= m
  BY <1>1, LeastNatural
<1>3. n # 0
  OBVIOUS
<1>4. n - 1 \in Nat /\ n - 1 \in S
  BY <1>2, <1>3
<1>5. QED
  BY <1>4

-----------------------------------------------------------------------------
(* Integer quotients, by their bounds.                                     *)
LEMMA Quotient ==
  ASSUME NEW n \in Int, NEW d \in Nat \ {0}
  PROVE  n \div d \in Int /\ d * (n \div d) <= n /\ n < d * (n \div d) + d
OBVIOUS

(* Remainders, and quotients given or moved by multiples of the divisor.   *)
LEMMA Remainder ==
  ASSUME NEW n \in Int, NEW d \in Nat \ {0}
  PROVE  n % d \in 0 .. d - 1 /\ n = d * (n \div d) + (n % d)
OBVIOUS

LEMMA Parts ==
  ASSUME NEW n \in Nat, NEW d \in Nat \ {0}
  PROVE  n \div d \in Nat /\ n % d \in 0 .. d - 1 /\ n = d * (n \div d) + (n % d)
<1>1. n \div d \in Nat
  OBVIOUS
<1>2. n \in Int
  OBVIOUS
<1>3. QED
  BY <1>1, <1>2, Remainder

LEMMA QuotientIs ==
  ASSUME NEW n \in Int, NEW d \in Nat \ {0}, NEW q \in Int, d * q <= n, n < d * q + d
  PROVE  n \div d = q
<1> DEFINE p == n \div d
<1>1. p \in Int /\ d * p <= n /\ n < d * p + d
  BY Quotient
<1> HIDE DEF p
<1>2. ASSUME p < q PROVE FALSE
  <2>1. q - p - 1 \in Nat /\ d * (q - p - 1) \in Nat
    BY <1>1, <1>2
  <2>2. d * (q - p - 1) = d * q - d * p - d
    BY <1>1
  <2>3. QED
    BY <1>1, <2>1, <2>2
<1>3. ASSUME q < p PROVE FALSE
  <2>1. p - q - 1 \in Nat /\ d * (p - q - 1) \in Nat
    BY <1>1, <1>3
  <2>2. d * (p - q - 1) = d * p - d * q - d
    BY <1>1
  <2>3. QED
    BY <1>1, <2>1, <2>2
<1>4. QED
  BY <1>1, <1>2, <1>3 DEF p

LEMMA RemainderIs ==
  ASSUME NEW d \in Nat \ {0}, NEW q \in Int, NEW r \in 0 .. d - 1
  PROVE  (d * q + r) \div d = q /\ (d * q + r) % d = r
<1>1. d * q + r \in Int /\ d * q <= d * q + r /\ d * q + r < d * q + d
  OBVIOUS
<1>2. (d * q + r) \div d = q
  BY <1>1, QuotientIs
<1> DEFINE n == d * q + r
<1>3. n = d * (n \div d) + (n % d) /\ n % d \in Int
  BY <1>1, Remainder
<1>4. n \div d = q
  BY <1>2
<1>5. n = d * q + (n % d)
  BY <1>3, <1>4
<1>6. QED
  BY <1>2, <1>3, <1>5

LEMMA Shifted ==
  ASSUME NEW n \in Int, NEW q \in Int, NEW d \in Nat \ {0}
  PROVE  (n - d * q) \div d = n \div d - q
<1> DEFINE p == n \div d
<1>1. p \in Int /\ d * p <= n /\ n < d * p + d
  BY Quotient
<1> HIDE DEF p
<1>2. d * (p - q) = d * p - d * q /\ d * q \in Int /\ p - q \in Int
  BY <1>1
<1>3. n - d * q \in Int /\ d * (p - q) <= n - d * q /\ n - d * q < d * (p - q) + d
  BY <1>1, <1>2
<1>4. (n - d * q) \div d = p - q
  BY <1>2, <1>3, QuotientIs
<1>5. QED
  BY <1>4 DEF p

LEMMA Monotone ==
  ASSUME NEW n \in Int, NEW m \in Int, n <= m, NEW d \in Nat \ {0}
  PROVE  n \div d <= m \div d
<1> DEFINE p == n \div d
           q == m \div d
<1>1. /\ p \in Int /\ d * p <= n /\ n < d * p + d
      /\ q \in Int /\ d * q <= m /\ m < d * q + d
  BY Quotient
<1> HIDE DEF p, q
<1>2. ASSUME q < p PROVE FALSE
  <2>1. p - q - 1 \in Nat /\ d * (p - q - 1) \in Nat
    BY <1>1, <1>2
  <2>2. d * (p - q - 1) = d * p - d * q - d
    BY <1>1
  <2>3. QED
    BY <1>1, <2>1, <2>2
<1>3. QED
  BY <1>1, <1>2 DEF p, q

(* CeilDiv rounds up.                                                      *)
LEMMA Ceiling ==
  ASSUME NEW n \in Int, NEW d \in Nat \ {0}
  PROVE  CeilDiv(n, d) \in Int /\ n <= d * CeilDiv(n, d) /\ d * CeilDiv(n, d) < n + d
<1> DEFINE p == (-n) \div d
<1>1. p \in Int /\ d * p <= -n /\ -n < d * p + d
  BY Quotient
<1> HIDE DEF p
<1>2. CeilDiv(n, d) = -p
  BY DEF CeilDiv, p
<1>3. d * (-p) = -(d * p)
  BY <1>1
<1>4. QED
  BY <1>1, <1>2, <1>3

(* Below a multiple, and scaled.                                           *)
LEMMA UnderProduct ==
  ASSUME NEW n \in Int, NEW d \in Nat \ {0}, NEW q \in Int, n < d * q
  PROVE  n \div d < q
<1> DEFINE p == n \div d
<1>1. p \in Int /\ d * p <= n /\ n < d * p + d
  BY Quotient
<1> HIDE DEF p
<1>2. ASSUME q <= p PROVE FALSE
  <2>1. p - q \in Nat /\ d * (p - q) \in Nat
    BY <1>1, <1>2
  <2>2. d * (p - q) = d * p - d * q
    BY <1>1
  <2>3. QED
    BY <1>1, <2>1, <2>2
<1>3. QED
  BY <1>1, <1>2 DEF p

LEMMA Scaled ==
  ASSUME NEW n \in Int, NEW a \in Nat \ {0}, NEW d \in Nat \ {0}
  PROVE  (a * n) \div (a * d) = n \div d
<1> DEFINE p == n \div d
<1>1. p \in Int /\ d * p <= n /\ n < d * p + d
  BY Quotient
<1> HIDE DEF p
<1>2. n - d * p \in Nat /\ d * p + d - n - 1 \in Nat
  BY <1>1
<1>3. a * (n - d * p) \in Nat /\ a * (d * p + d - n - 1) \in Nat
  BY <1>2
<1>4. /\ a * (n - d * p) = a * n - (a * d) * p
      /\ a * (d * p + d - n - 1) = (a * d) * p + a * d - a * n - a
      /\ a * n \in Int /\ a * d \in Nat \ {0} /\ (a * d) * p \in Int
  BY <1>1
<1>5. (a * d) * p <= a * n /\ a * n < (a * d) * p + a * d
  BY <1>3, <1>4
<1>6. QED
  BY <1>1, <1>4, <1>5, QuotientIs DEF p

-----------------------------------------------------------------------------
(* Along one axis: the cell of the image that holds a centre is in the     *)
(* window's part of the image exactly when it is in the image.             *)
Start(o, p, size) == Clamp(o \div p, 0, size)
End(o, n, q, p, size) == Clamp(FarEdge(o + n * q, p), 0, size)
CellAt(o, k, q, p) == ((2 * k + 1) * q + 2 * o) \div (2 * p)

InPart(o, n, q, p, size, k) ==
  /\ Start(o, p, size) \in 0 .. size /\ End(o, n, q, p, size) \in 0 .. size
  /\ CellAt(o, k, q, p) \in Int
  /\ CellAt(o, k, q, p) \in 0 .. size - 1 =>
       Start(o, p, size) <= CellAt(o, k, q, p) /\ CellAt(o, k, q, p) < End(o, n, q, p, size)
  /\ Centre(o, Start(o, p, size) * p, k, q) \div (2 * p) = CellAt(o, k, q, p) - Start(o, p, size)

LEMMA CellInPart ==
  ASSUME NEW o \in Int, NEW n \in Nat \ {0}, NEW q \in Nat \ {0}, NEW p \in Nat \ {0},
         NEW size \in Nat \ {0}, NEW k \in 0 .. n - 1
  PROVE  InPart(o, n, q, p, size, k)
<1> DEFINE at == (2 * k + 1) * q + 2 * o
           far == o + n * q
           first == o \div p
           end == CeilDiv(far, p)
           cell == at \div (2 * p)
<1>1. at \in Int /\ far \in Int /\ 2 * p \in Nat \ {0}
  OBVIOUS
<1>2. first \in Int /\ cell \in Int
  BY <1>1, Quotient
<1>3. end \in Int /\ far <= p * end
  BY <1>1, Ceiling
<1>4. first <= cell
  <2>1. (2 * o) \div (2 * p) = first
    BY Scaled
  <2>2. 2 * o <= at
    <3>1. (2 * k + 1) * q \in Nat
      OBVIOUS
    <3>2. QED
      BY <3>1
  <2>3. 2 * o \in Int
    OBVIOUS
  <2>4. QED
    BY <1>1, <2>1, <2>2, <2>3, Monotone
<1>5. cell < end
  <2>1. at < 2 * far
    <3>1. 2 * n - (2 * k + 1) \in Nat \ {0}
      OBVIOUS
    <3>2. (2 * n - (2 * k + 1)) * q \in Nat \ {0}
      BY <3>1
    <3>3. (2 * n - (2 * k + 1)) * q = 2 * (n * q) - (2 * k + 1) * q
      OBVIOUS
    <3>4. (2 * k + 1) * q \in Int /\ n * q \in Int
      OBVIOUS
    <3>5. QED
      BY <3>2, <3>3, <3>4
  <2>2. 2 * far <= (2 * p) * end
    <3>1. (2 * p) * end = 2 * (p * end) /\ p * end \in Int
      BY <1>3
    <3>2. QED
      BY <1>1, <1>3, <3>1
  <2>3. at < (2 * p) * end
    <3>1. (2 * p) * end \in Int /\ 2 * far \in Int
      BY <1>1, <1>3
    <3>2. QED
      BY <1>1, <2>1, <2>2, <3>1
  <2>4. QED
    BY <1>1, <1>3, <2>3, UnderProduct
<1> DEFINE a == Start(o, p, size)
           b == End(o, n, q, p, size)
<1>6. a = Clamp(first, 0, size) /\ b = Clamp(end, 0, size) /\ cell = CellAt(o, k, q, p)
  BY DEF Start, End, CellAt, FarEdge
<1>7. Centre(o, a * p, k, q) \div (2 * p) = cell - a
  <2>1. a \in Int
    BY <1>2, <1>6 DEF Clamp
  <2> HIDE DEF a
  <2>2. Centre(o, a * p, k, q) = at - (2 * p) * a
    <3>1. (2 * p) * a = 2 * (a * p) /\ a * p \in Int /\ (2 * k + 1) * q \in Int
      BY <2>1
    <3>2. Centre(o, a * p, k, q) = 2 * (o - a * p) + (2 * k + 1) * q
      BY DEF Centre
    <3>3. QED
      BY <3>1, <3>2
  <2> DEFINE d == 2 * p
  <2> HIDE DEF at, d
  <2>3. (at - d * a) \div d = at \div d - a
    BY <1>1, <2>1, Shifted DEF d
  <2>4. QED
    BY <2>2, <2>3 DEF d
<1> HIDE DEF first, end, cell, a, b
<1>8. /\ a \in 0 .. size /\ b \in 0 .. size
      /\ cell \in 0 .. size - 1 => a <= cell /\ cell < b
  BY <1>2, <1>3, <1>4, <1>5, <1>6 DEF Clamp
<1>9. QED
  BY <1>2, <1>6, <1>7, <1>8 DEF a, b, InPart

Natural == Nat \ {0}
Sized(image) ==
  /\ image.width \in Natural /\ image.height \in Natural /\ image.pixel \in Natural
  /\ image.tileWidth \in Natural /\ image.tileHeight \in Natural
Wanted(g) == g.x \in Int /\ g.y \in Int /\ g.width \in Natural /\ g.height \in Natural /\ g.pixel \in Natural

Row(image, g, r) == CellAt(g.y, r, g.pixel, image.pixel)
Col(image, g, c) == CellAt(g.x, c, g.pixel, image.pixel)

(* A window that is not empty is a part of its image.                      *)
PartOf(win, image) ==
  /\ win.col \in Nat /\ win.width \in Natural /\ win.col + win.width <= image.width
  /\ win.row \in Nat /\ win.height \in Natural /\ win.row + win.height <= image.height

(* Window, unless it is empty, is the part of the image from the first     *)
(* cell the grid touches to the last, clipped to the image.                *)
LEMMA WindowParts ==
  ASSUME NEW image, Sized(image), NEW g, Wanted(g), Window(image, g) # Empty
  PROVE  LET win == Window(image, g)
         IN  /\ PartOf(win, image)
             /\ win.col = Start(g.x, image.pixel, image.width)
             /\ win.row = Start(g.y, image.pixel, image.height)
             /\ win.col + win.width = End(g.x, g.width, g.pixel, image.pixel, image.width)
             /\ win.row + win.height = End(g.y, g.height, g.pixel, image.pixel, image.height)
<1> DEFINE win == Window(image, g)
           col0 == Start(g.x, image.pixel, image.width)
           row0 == Start(g.y, image.pixel, image.height)
           col1 == End(g.x, g.width, g.pixel, image.pixel, image.width)
           row1 == End(g.y, g.height, g.pixel, image.pixel, image.height)
<1>1. win = IF col1 <= col0 \/ row1 <= row0 THEN Empty
            ELSE [col |-> col0, row |-> row0, width |-> col1 - col0, height |-> row1 - row0]
  BY DEF Window, Start, End
<1>2. col0 \in 0 .. image.width /\ col1 \in 0 .. image.width
  <2>1. 0 \in 0 .. g.width - 1
    BY DEF Wanted, Natural
  <2>2. QED
    BY <2>1, CellInPart DEF Sized, Wanted, Natural, InPart
<1>3. row0 \in 0 .. image.height /\ row1 \in 0 .. image.height
  <2>1. 0 \in 0 .. g.height - 1
    BY DEF Wanted, Natural
  <2>2. QED
    BY <2>1, CellInPart DEF Sized, Wanted, Natural, InPart
<1>4. image.width \in Nat /\ image.height \in Nat
  BY DEF Sized, Natural
<1> HIDE DEF col0, row0, col1, row1
<1>5. /\ win = [col |-> col0, row |-> row0, width |-> col1 - col0, height |-> row1 - row0]
      /\ ~ (col1 <= col0) /\ ~ (row1 <= row0)
  BY <1>1
<1> HIDE DEF win
<1>6. /\ win.col = col0 /\ win.row = row0 /\ win.width = col1 - col0 /\ win.height = row1 - row0
  BY <1>5
<1>7. win.width \in Natural /\ win.height \in Natural /\ col0 \in Nat /\ row0 \in Nat
  BY <1>2, <1>3, <1>4, <1>5, <1>6 DEF Natural
<1>8. col0 + win.width = col1 /\ row0 + win.height = row1
  BY <1>2, <1>3, <1>4, <1>6
<1>9. col1 <= image.width /\ row1 <= image.height
  BY <1>2, <1>3
<1>10. QED
  BY <1>6, <1>7, <1>8, <1>9 DEF PartOf, win, col0, row0, col1, row1

(* A cell of the grid looks for its pixel in the window exactly when its   *)
(* centre is on the image, and then for the pixel at its centre.           *)
LEMMA WindowIsEnough ==
  ASSUME NEW image, Sized(image), NEW g, Wanted(g), Window(image, g) # Empty,
         NEW r \in 0 .. g.height - 1, NEW c \in 0 .. g.width - 1
  PROVE  LET win == Window(image, g)
             row == Centre(g.y, win.row * image.pixel, r, g.pixel) \div (2 * image.pixel)
             col == Centre(g.x, win.col * image.pixel, c, g.pixel) \div (2 * image.pixel)
         IN  /\ row = Row(image, g, r) - win.row /\ col = Col(image, g, c) - win.col
             /\ Row(image, g, r) \in Int /\ Col(image, g, c) \in Int
             /\ row \in 0 .. win.height - 1 <=> Row(image, g, r) \in 0 .. image.height - 1
             /\ col \in 0 .. win.width - 1 <=> Col(image, g, c) \in 0 .. image.width - 1
<1> DEFINE win == Window(image, g)
           y == Row(image, g, r)
           x == Col(image, g, c)
<1>1. /\ PartOf(win, image)
      /\ win.col = Start(g.x, image.pixel, image.width)
      /\ win.row = Start(g.y, image.pixel, image.height)
      /\ win.col + win.width = End(g.x, g.width, g.pixel, image.pixel, image.width)
      /\ win.row + win.height = End(g.y, g.height, g.pixel, image.pixel, image.height)
  BY WindowParts
<1> HIDE DEF win
<1>2. /\ y \in Int
      /\ y \in 0 .. image.height - 1 => win.row <= y /\ y < win.row + win.height
      /\ Centre(g.y, win.row * image.pixel, r, g.pixel) \div (2 * image.pixel) = y - win.row
  <2>1. /\ g.y \in Int /\ g.height \in Nat \ {0} /\ g.pixel \in Nat \ {0}
        /\ image.pixel \in Nat \ {0} /\ image.height \in Nat \ {0}
    BY DEF Sized, Wanted, Natural
  <2>2. InPart(g.y, g.height, g.pixel, image.pixel, image.height, r)
    BY <2>1, CellInPart
  <2>3. QED
    BY <1>1, <2>2, Zenon DEF Row, InPart
<1>3. /\ x \in Int
      /\ x \in 0 .. image.width - 1 => win.col <= x /\ x < win.col + win.width
      /\ Centre(g.x, win.col * image.pixel, c, g.pixel) \div (2 * image.pixel) = x - win.col
  <2>1. /\ g.x \in Int /\ g.width \in Nat \ {0} /\ g.pixel \in Nat \ {0}
        /\ image.pixel \in Nat \ {0} /\ image.width \in Nat \ {0}
    BY DEF Sized, Wanted, Natural
  <2>2. InPart(g.x, g.width, g.pixel, image.pixel, image.width, c)
    BY <2>1, CellInPart
  <2>3. QED
    BY <1>1, <2>2, Zenon DEF Col, InPart
<1> HIDE DEF x, y
<1>4. image.width \in Nat /\ image.height \in Nat
  BY DEF Sized, Natural
<1>5. y - win.row \in 0 .. win.height - 1 <=> y \in 0 .. image.height - 1
  BY <1>1, <1>2, <1>4 DEF PartOf, Natural
<1>6. x - win.col \in 0 .. win.width - 1 <=> x \in 0 .. image.width - 1
  BY <1>1, <1>3, <1>4 DEF PartOf, Natural
<1>7. QED
  BY <1>2, <1>3, <1>5, <1>6 DEF win, x, y

-----------------------------------------------------------------------------
(* level_for_decimation: the level chosen is one of the file's.            *)
LEMMA LevelIsOne ==
  ASSUME NEW f, Len(f.levels) \in Natural, DOMAIN f.levels = 1 .. Len(f.levels),
         \A l \in DOMAIN f.levels : Sized(f.levels[l]), NEW g, Wanted(g)
  PROVE  Level(f, g) \in DOMAIN f.levels
<1> DEFINE limit == IF g.pixel > f.levels[1].pixel THEN g.pixel ELSE f.levels[1].pixel
           fine == {i \in DOMAIN f.levels : f.levels[i].pixel <= limit}
           best(i) == \A j \in fine : \/ f.levels[j].pixel < f.levels[i].pixel
                                      \/ f.levels[j].pixel = f.levels[i].pixel /\ i <= j
<1>1. Level(f, g) = IF fine = {} THEN Len(f.levels) ELSE CHOOSE i \in fine : best(i)
  BY DEF Level
<1>2. Len(f.levels) \in DOMAIN f.levels /\ 1 \in DOMAIN f.levels /\ DOMAIN f.levels \subseteq Nat
  BY DEF Natural
<1>3. \A i \in DOMAIN f.levels : f.levels[i].pixel \in Nat
  BY DEF Sized, Natural
<1>4. limit \in Nat
  BY <1>2, <1>3 DEF Wanted, Natural
<1> HIDE DEF limit
<1>5. ASSUME fine # {} PROVE \E i \in fine : best(i)
  <2> DEFINE pixels == {f.levels[i].pixel : i \in fine}
  <2>1. pixels \subseteq Nat /\ pixels # {} /\ \A p \in pixels : p <= limit
    BY <1>3, <1>5
  <2> HIDE DEF pixels
  <2>2. PICK most \in pixels : \A p \in pixels : p <= most
    BY <1>4, <2>1, GreatestNatural
  <2> DEFINE firsts == {i \in fine : f.levels[i].pixel = most}
  <2>3. firsts \subseteq Nat /\ firsts # {}
    BY <1>2, <2>2 DEF pixels
  <2>4. PICK i \in firsts : \A j \in firsts : i <= j
    BY <2>3, LeastNatural
  <2>5. ASSUME NEW j \in fine
        PROVE  \/ f.levels[j].pixel < f.levels[i].pixel
               \/ f.levels[j].pixel = f.levels[i].pixel /\ i <= j
    <3>1. f.levels[j].pixel \in pixels /\ f.levels[j].pixel \in Nat /\ most \in Nat
      BY <1>3, <2>1, <2>2 DEF pixels
    <3>2. f.levels[j].pixel <= most /\ f.levels[i].pixel = most
      BY <2>2, <2>4, <3>1
    <3>3. f.levels[j].pixel = most => i <= j
      BY <2>4
    <3>4. QED
      BY <3>1, <3>2, <3>3
  <2>6. i \in fine /\ best(i)
    BY <2>4, <2>5, Zenon
  <2>7. QED
    BY <2>6, Zenon
<1> HIDE DEF fine, best
<1>6. fine # {} => (CHOOSE i \in fine : best(i)) \in fine
  BY <1>5, Zenon
<1>7. fine \subseteq DOMAIN f.levels
  BY DEF fine
<1>8. QED
  BY <1>1, <1>2, <1>6, <1>7

-----------------------------------------------------------------------------
(* The tile that holds a pixel, and its place among the window's tiles.    *)
TileAt(image, y, x) == (y \div image.tileHeight) * TilesX(image) + (x \div image.tileWidth)
TileCount(image) == TilesX(image) * TilesY(image)

(* A cell of a grid of c columns, by its number.                           *)
LEMMA CellNumber ==
  ASSUME NEW c \in Natural, NEW h \in Natural, NEW i \in 0 .. h - 1, NEW j \in 0 .. c - 1
  PROVE  /\ i * c + j \in 0 .. h * c - 1
         /\ (i * c + j) \div c = i /\ (i * c + j) % c = j
<1> USE DEF Natural
<1>1. c * i = i * c
  OBVIOUS
<1>2. (c * i + j) \div c = i /\ (c * i + j) % c = j
  BY RemainderIs
<1>3. (h - 1 - i) \in Nat /\ (h - 1 - i) * c \in Nat /\ i * c \in Nat
  OBVIOUS
<1>4. (h - 1 - i) * c = h * c - c - i * c
  OBVIOUS
<1>5. h * c \in Nat
  OBVIOUS
<1>6. i * c + j \in 0 .. h * c - 1
  BY <1>3, <1>4, <1>5
<1>7. QED
  BY <1>1, <1>2, <1>6

(* Each number below h * c is that of one cell.                            *)
LEMMA NumberedCell ==
  ASSUME NEW c \in Natural, NEW h \in Natural, NEW k \in 0 .. h * c - 1
  PROVE  k \div c \in 0 .. h - 1 /\ k % c \in 0 .. c - 1 /\ k = (k \div c) * c + (k % c)
<1> USE DEF Natural
<1>1. k \in Nat /\ k < c * h
  OBVIOUS
<1>2. k % c \in 0 .. c - 1 /\ k = c * (k \div c) + (k % c)
  BY <1>1, Remainder
<1>3. k \div c < h
  BY <1>1, UnderProduct
<1>4. k \div c \in Nat
  BY <1>1
<1>5. c * (k \div c) = (k \div c) * c
  BY <1>4
<1>6. QED
  BY <1>2, <1>3, <1>4, <1>5

(* The tile of a pixel, along one axis.                                    *)
LEMMA TileOnAxis ==
  ASSUME NEW size \in Natural, NEW t \in Natural, NEW v \in 0 .. size - 1
  PROVE  /\ CeilDiv(size, t) \in Natural
         /\ v \div t \in 0 .. CeilDiv(size, t) - 1
         /\ v % t \in 0 .. t - 1 /\ v = (v \div t) * t + (v % t)
<1> USE DEF Natural
<1>1. CeilDiv(size, t) \in Int /\ size <= t * CeilDiv(size, t)
  BY Ceiling
<1> DEFINE n == CeilDiv(size, t)
<1> HIDE DEF n
<1>2. n \in Int /\ size <= t * n
  BY <1>1 DEF n
<1>3. n \in Natural
  BY <1>2
<1>4. v \in Nat /\ v < t * n
  <2>1. t * n \in Int
    BY <1>2
  <2>2. QED
    BY <1>2, <2>1
<1>5. v \div t < n /\ v \div t \in Nat
  <2>1. v \in Int
    OBVIOUS
  <2>2. v \div t < n
    BY <1>2, <1>4, <2>1, UnderProduct
  <2>3. v \div t \in Nat
    BY <1>4
  <2>4. QED
    BY <2>2, <2>3
<1>6. v % t \in 0 .. t - 1 /\ v = t * (v \div t) + (v % t)
  <2>1. v \in Int
    OBVIOUS
  <2>2. QED
    BY <2>1, Remainder
<1>7. t * (v \div t) = (v \div t) * t
  BY <1>5
<1>8. QED
  BY <1>2, <1>3, <1>5, <1>6, <1>7 DEF n

(* The number of a pixel's tile is within the image's tiles, and its row   *)
(* and column of tiles are the pixel's.                                    *)
LEMMA TileOfPixel ==
  ASSUME NEW image, Sized(image), NEW y \in 0 .. image.height - 1, NEW x \in 0 .. image.width - 1
  PROVE  /\ TilesX(image) \in Natural /\ TilesY(image) \in Natural
         /\ TileAt(image, y, x) \in 0 .. TileCount(image) - 1
         /\ TileAt(image, y, x) \div TilesX(image) = y \div image.tileHeight
         /\ TileAt(image, y, x) % TilesX(image) = x \div image.tileWidth
<1> DEFINE nx == TilesX(image)
           ny == TilesY(image)
           ty == y \div image.tileHeight
           tx == x \div image.tileWidth
<1>1. nx \in Natural /\ tx \in 0 .. nx - 1
  BY TileOnAxis DEF Sized, TilesX
<1>2. ny \in Natural /\ ty \in 0 .. ny - 1
  BY TileOnAxis DEF Sized, TilesY
<1>3. TileAt(image, y, x) = ty * nx + tx /\ TileCount(image) = nx * ny
  BY DEF TileAt, TileCount
<1> HIDE DEF nx, ny, tx, ty
<1>4. /\ ty * nx + tx \in 0 .. ny * nx - 1
      /\ (ty * nx + tx) \div nx = ty /\ (ty * nx + tx) % nx = tx
  BY <1>1, <1>2, CellNumber
<1>5. ny * nx = nx * ny
  BY <1>1, <1>2 DEF Natural
<1>6. QED
  BY <1>1, <1>2, <1>3, <1>4, <1>5, Zenon DEF nx, ny, tx, ty

TileNo(image, k) ==
  [index |-> k, offset |-> image.offsets[k + 1], count |-> image.counts[k + 1]]
TileSet(image) == {TileNo(image, k) : k \in 0 .. TileCount(image) - 1}

(* tiles_for_window (cog.rs:92-113): for a window of any image the tiles   *)
(* listed are tiles of the image, each with its own place in the file, and *)
(* every pixel of the window is in one of them.                            *)
THEOREM WindowTiles ==
  ASSUME NEW image, Sized(image), NEW win, PartOf(win, image)
  PROVE  /\ TilesForWindow(image, win) \in Seq(TileSet(image))
         /\ \A y \in win.row .. win.row + win.height - 1, x \in win.col .. win.col + win.width - 1 :
              \E i \in DOMAIN TilesForWindow(image, win) :
                TilesForWindow(image, win)[i] = TileNo(image, TileAt(image, y, x))
<1> DEFINE x0 == win.col \div image.tileWidth
           y0 == win.row \div image.tileHeight
           x1 == (win.col + win.width - 1) \div image.tileWidth
           y1 == (win.row + win.height - 1) \div image.tileHeight
           columns == x1 - x0 + 1
           rows == y1 - y0 + 1
           nx == TilesX(image)
           Index(k) == (y0 + (k \div columns)) * nx + x0 + (k % columns)
           list == TilesForWindow(image, win)
<1>1. list = [k \in 1 .. columns * rows |-> TileNo(image, Index(k - 1))]
  BY DEF TilesForWindow, TileNo
<1>2. /\ win.col \in 0 .. image.width - 1 /\ win.col + win.width - 1 \in 0 .. image.width - 1
      /\ win.row \in 0 .. image.height - 1 /\ win.row + win.height - 1 \in 0 .. image.height - 1
      /\ win.col <= win.col + win.width - 1 /\ win.row <= win.row + win.height - 1
  BY DEF PartOf, Sized, Natural
<1>3. /\ x0 \in 0 .. nx - 1 /\ x1 \in 0 .. nx - 1 /\ nx \in Natural
      /\ y0 \in 0 .. TilesY(image) - 1 /\ y1 \in 0 .. TilesY(image) - 1 /\ TilesY(image) \in Natural
  BY <1>2, TileOnAxis DEF Sized, TilesX, TilesY
<1>4. x0 <= x1 /\ y0 <= y1
  BY <1>2, Monotone DEF Sized, Natural
<1>5. ASSUME NEW y \in win.row .. win.row + win.height - 1, NEW x \in win.col .. win.col + win.width - 1
      PROVE  /\ y \in 0 .. image.height - 1 /\ x \in 0 .. image.width - 1
             /\ y \div image.tileHeight \in y0 .. y1
             /\ x \div image.tileWidth \in x0 .. x1
  <2>1. /\ y \in 0 .. image.height - 1 /\ win.row <= y /\ y <= win.row + win.height - 1
        /\ x \in 0 .. image.width - 1 /\ win.col <= x /\ x <= win.col + win.width - 1
    BY <1>2 DEF PartOf, Sized, Natural
  <2>2. y \div image.tileHeight \in Int /\ x \div image.tileWidth \in Int
    BY <2>1, Quotient DEF Sized, Natural
  <2>3. y0 <= y \div image.tileHeight /\ y \div image.tileHeight <= y1
    BY <1>2, <2>1, Monotone DEF Sized, Natural
  <2>4. x0 <= x \div image.tileWidth /\ x \div image.tileWidth <= x1
    BY <1>2, <2>1, Monotone DEF Sized, Natural
  <2> HIDE DEF x0, y0, x1, y1
  <2>5. QED
    BY <1>3, <2>1, <2>2, <2>3, <2>4
<1> HIDE DEF x0, x1, y0, y1, nx
<1>6. columns \in Natural /\ rows \in Natural /\ columns * rows = rows * columns
  BY <1>3, <1>4 DEF Natural
<1>7. ASSUME NEW k \in 1 .. columns * rows
      PROVE  Index(k - 1) \in 0 .. TileCount(image) - 1
  <2> DEFINE i == (k - 1) \div columns
             j == (k - 1) % columns
  <2>1. columns * rows \in Nat
    BY <1>6 DEF Natural
  <2> HIDE DEF columns, rows
  <2>2. k - 1 \in 0 .. rows * columns - 1
    BY <1>6, <1>7, <2>1
  <2>3. i \in 0 .. rows - 1 /\ j \in 0 .. columns - 1
    BY <1>6, <2>2, NumberedCell
  <2>4. y0 + i \in 0 .. TilesY(image) - 1 /\ x0 + j \in 0 .. nx - 1
    <3> HIDE DEF i, j
    <3>1. i \in 0 .. (y1 - y0 + 1) - 1 /\ j \in 0 .. (x1 - x0 + 1) - 1
      BY <2>3 DEF columns, rows
    <3>2. QED
      BY <1>3, <3>1 DEF Natural
  <2>5. (y0 + i) * nx + (x0 + j) \in 0 .. TilesY(image) * nx - 1
    BY <1>3, <2>4, CellNumber
  <2>6. TilesY(image) * nx = TileCount(image)
    BY <1>3 DEF TileCount, nx, Natural
  <2>7. (y0 + i) * nx + (x0 + j) = Index(k - 1)
    <3> DEFINE q == (y0 + i) * nx
    <3>1. q \in Int
      <4> HIDE DEF i
      <4>1. QED
        BY <1>3, <2>4 DEF Natural
    <3>2. j \in Int /\ x0 \in Int
      BY <1>3, <2>3, <1>6 DEF Natural
    <3>3. Index(k - 1) = q + x0 + j
      OBVIOUS
    <3> HIDE DEF q, j
    <3>4. QED
      BY <3>1, <3>2, <3>3 DEF q
  <2>8. QED
    BY <2>5, <2>6, <2>7, Zenon
<1>8. ASSUME NEW y \in win.row .. win.row + win.height - 1, NEW x \in win.col .. win.col + win.width - 1
      PROVE  \E i \in DOMAIN list : list[i] = TileNo(image, TileAt(image, y, x))
  <2> DEFINE i == y \div image.tileHeight - y0
             j == x \div image.tileWidth - x0
             k == i * columns + j + 1
  <2>1. i \in 0 .. rows - 1 /\ j \in 0 .. columns - 1
    BY <1>3, <1>5
  <2> HIDE DEF i, j
  <2>2. /\ i * columns + j \in 0 .. rows * columns - 1
        /\ (i * columns + j) \div columns = i /\ (i * columns + j) % columns = j
    <3> HIDE DEF columns, rows
    <3>1. QED
      BY <1>6, <2>1, CellNumber
  <2>3. i * columns \in Int /\ rows * columns \in Int
    BY <1>6, <2>1 DEF Natural
  <2>4. k \in 1 .. columns * rows /\ k - 1 = i * columns + j
    <3> DEFINE p == i * columns
               t == rows * columns
    <3>1. p \in Int /\ t \in Int /\ p + j \in 0 .. t - 1 /\ j \in Int
      BY <2>1, <2>2, <2>3, <1>6 DEF Natural
    <3> HIDE DEF p, t
    <3>2. p + j + 1 \in 1 .. t /\ p + j + 1 - 1 = p + j
      BY <3>1
    <3>3. columns * rows = t
      BY <1>6 DEF t
    <3>4. k \in 1 .. t /\ k - 1 = p + j
      BY <3>1, <3>2 DEF p
    <3>5. QED
      BY <3>3, <3>4, Zenon DEF p
  <2>5. Index(k - 1) = (y0 + i) * nx + x0 + j
    BY <2>2, <2>4
  <2>6. y0 + i = y \div image.tileHeight /\ x0 + j = x \div image.tileWidth
    BY <1>3, <1>5 DEF i, j
  <2>7. Index(k - 1) = TileAt(image, y, x)
    <3> DEFINE q == (y0 + i) * nx
    <3>1. q \in Int /\ x0 \in Int /\ j \in Int
      BY <1>3, <1>6, <2>1 DEF Natural
    <3>2. Index(k - 1) = q + x0 + j
      BY <2>5
    <3>3. q = (y \div image.tileHeight) * nx
      BY <2>6, Zenon
    <3> HIDE DEF q
    <3>4. Index(k - 1) = q + (x0 + j)
      BY <3>1, <3>2
    <3>5. QED
      BY <2>6, <3>3, <3>4, Zenon DEF TileAt, nx
  <2>8. QED
    BY <1>1, <2>4, <2>7
<1>9. list \in Seq(TileSet(image))
  <2>1. columns * rows \in Nat
    BY <1>6 DEF Natural
  <2>2. \A k \in 1 .. columns * rows : TileNo(image, Index(k - 1)) \in TileSet(image)
    BY <1>7 DEF TileSet
  <2> DEFINE n == columns * rows
  <2> HIDE DEF n, Index, list
  <2>3. list \in [1 .. n -> TileSet(image)]
    BY <1>1, <2>2 DEF n
  <2>4. QED
    BY <2>1, <2>3 DEF n
<1>10. QED
  BY <1>8, <1>9

-----------------------------------------------------------------------------
(* A strict order on S, as a set R of pairs, and the rank it gives.        *)
StrictOrder(S, R) ==
  /\ \A x \in S : <<x, x>> \notin R
  /\ \A x, y, z \in S : <<x, y>> \in R /\ <<y, z>> \in R => <<x, z>> \in R
  /\ \A x, y \in S : x # y => <<x, y>> \in R \/ <<y, x>> \in R
Ahead(S, R, x) == {y \in S : <<y, x>> \in R}

(* The members ahead of x, and one more, are ahead of what follows it.     *)
LEMMA AheadGrows ==
  ASSUME NEW S, IsFiniteSet(S), NEW R, StrictOrder(S, R), NEW x \in S, NEW y \in S, <<x, y>> \in R
  PROVE  Cardinality(Ahead(S, R, x)) < Cardinality(Ahead(S, R, y))
<1>1. Ahead(S, R, x) \in SUBSET Ahead(S, R, y) /\ x \in Ahead(S, R, y) /\ x \notin Ahead(S, R, x)
  BY DEF StrictOrder, Ahead
<1>2. Ahead(S, R, y) \in SUBSET S
  BY DEF Ahead
<1>3. IsFiniteSet(Ahead(S, R, y))
  BY <1>2, FS_Subset
<1>4. /\ Cardinality(Ahead(S, R, x)) <= Cardinality(Ahead(S, R, y))
      /\ Cardinality(Ahead(S, R, x)) # Cardinality(Ahead(S, R, y))
  <2>1. /\ Cardinality(Ahead(S, R, x)) <= Cardinality(Ahead(S, R, y))
        /\ Cardinality(Ahead(S, R, y)) = Cardinality(Ahead(S, R, x)) => Ahead(S, R, y) = Ahead(S, R, x)
    BY <1>1, <1>3, FS_Subset
  <2>2. QED
    BY <1>1, <2>1
<1>5. Cardinality(Ahead(S, R, x)) \in Nat /\ Cardinality(Ahead(S, R, y)) \in Nat
  <2>1. IsFiniteSet(Ahead(S, R, x))
    BY <1>1, <1>3, FS_Subset
  <2>2. QED
    BY <1>3, <2>1, FS_CardinalityType
<1>6. QED
  BY <1>4, <1>5

(* The ranks are 0 to the number of members but one, each taken once.      *)
LEMMA Ranking ==
  ASSUME NEW S, IsFiniteSet(S), NEW R, StrictOrder(S, R)
  PROVE  /\ Cardinality(S) \in Nat
         /\ \A x \in S : Cardinality(Ahead(S, R, x)) \in 0 .. Cardinality(S) - 1
         /\ \A x, y \in S : <<x, y>> \in R <=> Cardinality(Ahead(S, R, x)) < Cardinality(Ahead(S, R, y))
         /\ \A x, y \in S : Cardinality(Ahead(S, R, x)) = Cardinality(Ahead(S, R, y)) => x = y
         /\ \A n \in 1 .. Cardinality(S) : \E x \in S : Cardinality(Ahead(S, R, x)) = n - 1
<1> DEFINE rank == [x \in S |-> Cardinality(Ahead(S, R, x))]
           last == Cardinality(S) - 1
<1>1. Cardinality(S) \in Nat
  BY FS_CardinalityType
<1>2. ASSUME NEW x \in S
      PROVE  Cardinality(Ahead(S, R, x)) \in 0 .. last
  <2>1. Ahead(S, R, x) \in SUBSET S /\ x \notin Ahead(S, R, x)
    BY DEF Ahead, StrictOrder
  <2>2. /\ IsFiniteSet(Ahead(S, R, x)) /\ Cardinality(Ahead(S, R, x)) <= Cardinality(S)
        /\ Cardinality(S) = Cardinality(Ahead(S, R, x)) => S = Ahead(S, R, x)
    BY <2>1, FS_Subset
  <2>3. Cardinality(Ahead(S, R, x)) \in Nat
    BY <2>2, FS_CardinalityType
  <2>4. Cardinality(S) # Cardinality(Ahead(S, R, x))
    BY <2>1, <2>2
  <2>5. QED
    BY <1>1, <2>2, <2>3, <2>4
<1>3. ASSUME NEW x \in S, NEW y \in S
      PROVE  /\ <<x, y>> \in R <=> Cardinality(Ahead(S, R, x)) < Cardinality(Ahead(S, R, y))
             /\ Cardinality(Ahead(S, R, x)) = Cardinality(Ahead(S, R, y)) => x = y
  <2>1. <<x, y>> \in R => Cardinality(Ahead(S, R, x)) < Cardinality(Ahead(S, R, y))
    BY AheadGrows
  <2>2. <<y, x>> \in R => Cardinality(Ahead(S, R, y)) < Cardinality(Ahead(S, R, x))
    BY AheadGrows
  <2>3. Cardinality(Ahead(S, R, x)) \in Int /\ Cardinality(Ahead(S, R, y)) \in Int
    BY <1>2
  <2>4. x = y \/ <<x, y>> \in R \/ <<y, x>> \in R
    BY DEF StrictOrder
  <2>5. x = y => <<x, y>> \notin R
    BY DEF StrictOrder
  <2>6. QED
    BY <2>1, <2>2, <2>3, <2>4, <2>5
<1>4. rank \in Injection(S, 0 .. last)
  BY <1>2, <1>3 DEF Injection, IsInjective
<1>5. IsFiniteSet(0 .. last) /\ Cardinality(0 .. last) = Cardinality(S)
  BY <1>1, FS_Interval, SMTT(30)
<1>6. rank \in Surjection(S, 0 .. last)
  BY <1>4, <1>5, FS_Injection
<1>7. ASSUME NEW n \in 1 .. Cardinality(S)
      PROVE  \E x \in S : Cardinality(Ahead(S, R, x)) = n - 1
  <2>1. n - 1 \in 0 .. last
    BY <1>1
  <2>2. PICK x \in S : rank[x] = n - 1
    BY <1>6, <2>1 DEF Surjection
  <2>3. QED
    BY <2>2
<1>8. QED
  BY <1>1, <1>2, <1>3, <1>7

(* f lists S by rank: what Ordered gives.                                  *)
Ranked(f, S, R) ==
  /\ f \in [1 .. Cardinality(S) -> S]
  /\ \A n \in 1 .. Cardinality(S) : Cardinality(Ahead(S, R, f[n])) = n - 1

(* Listed by rank, every member comes once, and in order.                  *)
LEMMA RankedLists ==
  ASSUME NEW S, IsFiniteSet(S), NEW R, StrictOrder(S, R), NEW f, Ranked(f, S, R)
  PROVE  /\ Cardinality(S) \in Nat
         /\ f \in Seq(S) /\ Len(f) = Cardinality(S) /\ DOMAIN f = 1 .. Cardinality(S)
         /\ \A x \in S : /\ Cardinality(Ahead(S, R, x)) + 1 \in DOMAIN f
                         /\ f[Cardinality(Ahead(S, R, x)) + 1] = x
         /\ \A n, m \in DOMAIN f : n < m => <<f[n], f[m]>> \in R
         /\ \A n, m \in DOMAIN f : f[n] = f[m] => n = m
<1>1. Cardinality(S) \in Nat
  BY Ranking
<1>2. f \in Seq(S) /\ Len(f) = Cardinality(S) /\ DOMAIN f = 1 .. Cardinality(S)
  BY <1>1 DEF Ranked
<1>3. ASSUME NEW x \in S
      PROVE  /\ Cardinality(Ahead(S, R, x)) + 1 \in DOMAIN f
             /\ f[Cardinality(Ahead(S, R, x)) + 1] = x
  <2> DEFINE k == Cardinality(Ahead(S, R, x))
             y == f[k + 1]
  <2>1. k \in 0 .. Cardinality(S) - 1
    BY Ranking
  <2>2. k + 1 \in 1 .. Cardinality(S)
    BY <1>1, <2>1
  <2>3. y \in S /\ Cardinality(Ahead(S, R, y)) = (k + 1) - 1
    BY <2>2 DEF Ranked
  <2>4. (k + 1) - 1 = k
    BY <2>1
  <2>5. y = x
    BY <2>3, <2>4, Ranking
  <2>6. QED
    BY <1>2, <2>2, <2>5
<1>4. ASSUME NEW n \in DOMAIN f, NEW m \in DOMAIN f
      PROVE  /\ n < m => <<f[n], f[m]>> \in R
             /\ f[n] = f[m] => n = m
  <2>1. /\ f[n] \in S /\ f[m] \in S
        /\ Cardinality(Ahead(S, R, f[n])) = n - 1 /\ Cardinality(Ahead(S, R, f[m])) = m - 1
    BY <1>2, <1>4 DEF Ranked
  <2>2. <<f[n], f[m]>> \in R <=> n - 1 < m - 1
    BY <2>1, Ranking
  <2>3. n \in Nat /\ m \in Nat
    BY <1>1, <1>2
  <2>4. f[n] = f[m] => n - 1 = m - 1
    BY <2>1
  <2>5. QED
    BY <2>2, <2>3, <2>4
<1>5. QED
  BY <1>1, <1>2, <1>3, <1>4

-----------------------------------------------------------------------------
(* A function given by recursion over 0 .. n: that one there is.           *)
Steps(step, D, n) == \A x \in D, i \in 1 .. n : step[i][x] \in D

(* Stepping from a gives a function, within D.                             *)
LEMMA Recursion ==
  ASSUME NEW D, NEW a \in D, NEW n \in Nat, NEW step, Steps(step, D, n)
  PROVE  \E s \in [0 .. n -> D] : s = [i \in 0 .. n |-> IF i = 0 THEN a ELSE step[i][s[i - 1]]]
<1> DEFINE Eq(s, m) == s \in [0 .. m -> D] /\ s[0] = a /\ \A i \in 1 .. m : s[i] = step[i][s[i - 1]]
           S == {m \in Nat : m <= n => \E s : Eq(s, m)}
<1>1. 0 \in S
  <2>1. Eq([i \in 0 .. 0 |-> a], 0)
    OBVIOUS
  <2>2. QED
    BY <2>1
<1>2. ASSUME NEW m \in Nat, m \in S PROVE m + 1 \in S
  <2> SUFFICES ASSUME m + 1 <= n PROVE \E s : Eq(s, m + 1)
    OBVIOUS
  <2>1. PICK s : Eq(s, m)
    BY <1>2
  <2> DEFINE next == step[m + 1][s[m]]
             t == [i \in 0 .. m + 1 |-> IF i <= m THEN s[i] ELSE next]
  <2>2. next \in D
    <3>1. s[m] \in D /\ m + 1 \in 1 .. n
      BY <2>1
    <3>2. QED
      BY <3>1 DEF Steps
  <2> HIDE DEF next
  <2>3. t \in [0 .. m + 1 -> D] /\ (\A i \in 0 .. m : t[i] = s[i]) /\ t[m + 1] = next
    BY <2>1, <2>2
  <2> HIDE DEF t
  <2>4. t[0] = a
    BY <2>1, <2>3
  <2>5. ASSUME NEW i \in 1 .. m + 1 PROVE t[i] = step[i][t[i - 1]]
    <3>1. CASE i = m + 1
      <4>1. i - 1 = m /\ m \in 0 .. m
        BY <3>1
      <4>2. t[i - 1] = s[m]
        BY <2>3, <4>1
      <4>3. QED
        BY <2>3, <3>1, <4>2 DEF next
    <3>2. CASE i # m + 1
      <4>1. i \in 1 .. m /\ i \in 0 .. m /\ i - 1 \in 0 .. m
        BY <3>2
      <4>2. QED
        BY <2>1, <2>3, <4>1
    <3>3. QED
      BY <3>1, <3>2
  <2>6. Eq(t, m + 1)
    BY <2>3, <2>4, <2>5
  <2>7. QED
    BY <2>6
<1> HIDE DEF S
<1>3. n \in S
  BY <1>1, <1>2, SetInduction
<1>4. PICK s : Eq(s, n)
  <2>1. \E s : Eq(s, n)
    <3> HIDE DEF Eq
    <3>1. n <= n
      OBVIOUS
    <3>2. QED
      BY <1>3, <3>1 DEF S
  <2>2. QED
    BY <2>1
<1>5. s = [i \in 0 .. n |-> IF i = 0 THEN a ELSE step[i][s[i - 1]]]
  <2>1. \A i \in 0 .. n : s[i] = IF i = 0 THEN a ELSE step[i][s[i - 1]]
    <3>1. \A i \in 0 .. n : i = 0 \/ i \in 1 .. n
      OBVIOUS
    <3>2. QED
      BY <1>4, <3>1, Zenon
  <2>2. QED
    BY <1>4, <2>1
<1>6. QED
  BY <1>4, <1>5

-----------------------------------------------------------------------------
(* coalesce_ranges: the tiles in the order of their offsets.               *)
LEMMA SortedLists ==
  ASSUME NEW X, \A x \in X : x.offset \in Nat, NEW list \in Seq(X)
  PROVE  /\ Sorted(list) \in Seq(X)
         /\ \A i \in DOMAIN list : \E n \in DOMAIN Sorted(list) : Sorted(list)[n] = list[i]
         /\ \A n, m \in DOMAIN Sorted(list) : n < m => Sorted(list)[n].offset <= Sorted(list)[m].offset
<1> DEFINE S == DOMAIN list
           Before(i, j) == list[i].offset < list[j].offset \/ (list[i].offset = list[j].offset /\ i < j)
           R == {pair \in S \X S : Before(pair[1], pair[2])}
           order == Ordered(S, Before)
<1>1. S = 1 .. Len(list) /\ Len(list) \in Nat /\ IsFiniteSet(S) /\ S \subseteq Nat
  <2>1. S = 1 .. Len(list) /\ Len(list) \in Nat
    OBVIOUS
  <2>2. QED
    BY <2>1, FS_Interval
<1>2. \A i \in S : list[i] \in X /\ list[i].offset \in Nat
  OBVIOUS
<1> HIDE DEF S
<1>3. StrictOrder(S, R)
  <2>1. \A i, j \in S : <<i, j>> \in R <=> Before(i, j)
    OBVIOUS
  <2> HIDE DEF R
  <2>2. \A i \in S : ~ Before(i, i)
    BY <1>1, <1>2
  <2>3. \A i, j, k \in S : Before(i, j) /\ Before(j, k) => Before(i, k)
    BY <1>1, <1>2
  <2>4. \A i, j \in S : i # j => Before(i, j) \/ Before(j, i)
    BY <1>1, <1>2
  <2> HIDE DEF Before
  <2>5. QED
    BY <2>1, <2>2, <2>3, <2>4 DEF StrictOrder
<1>4. Ranked(order, S, R)
  <2>1. \A i \in S : {y \in S : Before(y, i)} = Ahead(S, R, i)
    BY DEF Ahead
  <2>2. Cardinality(S) \in Nat /\ \A n \in 1 .. Cardinality(S) : \E i \in S : Cardinality(Ahead(S, R, i)) = n - 1
    <3> HIDE DEF R
    <3>1. QED
      BY <1>1, <1>3, Ranking
  <2>3. order = [n \in 1 .. Cardinality(S) |-> CHOOSE i \in S : Cardinality({y \in S : Before(y, i)}) = n - 1]
    BY DEF Ordered
  <2> HIDE DEF R, Before, order
  <2>4. \A n \in 1 .. Cardinality(S) : order[n] \in S /\ Cardinality(Ahead(S, R, order[n])) = n - 1
    <3> SUFFICES ASSUME NEW n \in 1 .. Cardinality(S)
                 PROVE  order[n] \in S /\ Cardinality(Ahead(S, R, order[n])) = n - 1
      OBVIOUS
    <3>1. order[n] = CHOOSE i \in S : Cardinality({y \in S : Before(y, i)}) = n - 1
      BY <2>3
    <3>2. \E i \in S : Cardinality({y \in S : Before(y, i)}) = n - 1
      BY <2>1, <2>2
    <3>3. order[n] \in S /\ Cardinality({y \in S : Before(y, order[n])}) = n - 1
      BY <3>1, <3>2, Zenon
    <3>4. QED
      BY <2>1, <3>3
  <2>5. order \in [1 .. Cardinality(S) -> S]
    BY <2>3, <2>4
  <2>6. QED
    BY <2>4, <2>5 DEF Ranked
<1>5. Sorted(list) = [n \in DOMAIN order |-> list[order[n]]]
  BY DEF Sorted, S
<1> HIDE DEF order, Before
<1>6. /\ order \in Seq(S)
      /\ \A i \in S : \E n \in DOMAIN order : order[n] = i
      /\ \A n, m \in DOMAIN order : n < m => <<order[n], order[m]>> \in R
  <2> HIDE DEF R
  <2>1. /\ order \in Seq(S)
        /\ \A i \in S : /\ Cardinality(Ahead(S, R, i)) + 1 \in DOMAIN order
                        /\ order[Cardinality(Ahead(S, R, i)) + 1] = i
        /\ \A n, m \in DOMAIN order : n < m => <<order[n], order[m]>> \in R
    BY <1>1, <1>3, <1>4, RankedLists
  <2>2. QED
    BY <2>1
<1>7. Sorted(list) \in Seq(X) /\ DOMAIN Sorted(list) = DOMAIN order
  <2>1. Len(order) \in Nat /\ DOMAIN order = 1 .. Len(order) /\ \A n \in DOMAIN order : order[n] \in S
    BY <1>6
  <2>2. \A n \in DOMAIN order : list[order[n]] \in X
    BY <1>2, <2>1
  <2>3. QED
    BY <1>5, <2>1, <2>2
<1>8. ASSUME NEW n \in DOMAIN order, NEW m \in DOMAIN order, n < m
      PROVE  list[order[n]].offset <= list[order[m]].offset
  <2>1. order[n] \in S /\ order[m] \in S /\ Before(order[n], order[m])
    BY <1>6, <1>8
  <2>2. QED
    BY <1>2, <2>1 DEF Before
<1>9. \A n \in DOMAIN order : Sorted(list)[n] = list[order[n]]
  BY <1>5
<1>10. QED
  BY <1>6, <1>7, <1>8, <1>9 DEF S

(* A tile that can be fetched, and a group: the range that covers its      *)
(* tiles.                                                                  *)
Fetchable(X, limit) ==
  \A x \in X : x.offset \in Nat /\ x.count \in Natural /\ x.offset + x.count <= limit
GroupOf(X) == [start : Nat, end : Int, tiles : Seq(X)]
Covers(group, limit) ==
  /\ group.end < limit
  /\ \A i \in DOMAIN group.tiles :
       /\ group.start <= group.tiles[i].offset
       /\ group.tiles[i].offset + group.tiles[i].count - 1 <= group.end

(* What merging makes of the groups, from the tiles so far.                *)
AllCover(list, limit) == \A g \in DOMAIN list : Covers(list[g], limit)
InGroup(list, x) == \E g \in DOMAIN list : x \in ToSet(list[g].tiles)
StartsBefore(list, x) == \A g \in DOMAIN list : list[g].start <= x.offset

(* Either the last group grows by the tile or a group of its own follows.  *)
Grows(old, new, x) ==
  /\ new.start = old.start /\ new.tiles = Append(old.tiles, x)
  /\ old.end <= new.end /\ x.offset + x.count - 1 <= new.end
  /\ new.end \in {old.end, x.offset + x.count - 1}

(* AddTile, by its two cases.                                              *)
LEMMA AddTileIs ==
  ASSUME NEW limit \in Nat, NEW X, Fetchable(X, limit), NEW list \in Seq(GroupOf(X)), NEW x \in X
  PROVE  \E group \in GroupOf(X) :
           \/ /\ list # <<>> /\ Grows(list[Len(list)], group, x)
              /\ AddTile(list, x) = [list EXCEPT ![Len(list)] = group]
           \/ /\ group = Alone(x)
              /\ AddTile(list, x) = Append(list, group)
<1>1. x.offset \in Nat /\ x.count \in Nat
  BY DEF Fetchable, Natural
<1>2. CASE list # <<>> /\ Joins(Last(list), x)
  <2> DEFINE old == list[Len(list)]
             last == x.offset + x.count - 1
             grown == [old EXCEPT !.end = MergedEnd(old, last), !.tiles = Append(old.tiles, x)]
  <2>1. old \in GroupOf(X) /\ Last(list) = old
    BY <1>2 DEF Last
  <2>2. last \in Int /\ old.end \in Int /\ old.start \in Nat /\ old.tiles \in Seq(X)
    BY <1>1, <2>1 DEF GroupOf
  <2>3. /\ MergedEnd(old, last) \in {old.end, last} /\ MergedEnd(old, last) \in Int
        /\ old.end <= MergedEnd(old, last) /\ last <= MergedEnd(old, last)
    BY <2>2 DEF MergedEnd
  <2>4. Append(old.tiles, x) \in Seq(X)
    BY <2>2
  <2>5. AddTile(list, x) = [list EXCEPT ![Len(list)] = grown]
    <3>1. AddTile(list, x) = [list EXCEPT ![Len(list)] = Joined(old, x)]
      BY <1>2, <2>1, Zenon DEF AddTile
    <3>2. Joined(old, x) = grown
      BY DEF Joined
    <3>3. QED
      BY <3>1, <3>2, Zenon
  <2> DEFINE e == MergedEnd(old, last)
             ts == Append(old.tiles, x)
  <2>6. grown = [old EXCEPT !.end = e, !.tiles = ts]
    OBVIOUS
  <2> HIDE DEF old, last, e, ts
  <2>7. /\ grown \in GroupOf(X) /\ grown.start = old.start /\ grown.end = e /\ grown.tiles = ts
    BY <2>1, <2>3, <2>4, <2>6 DEF GroupOf, e, ts
  <2> HIDE DEF grown
  <2>8. Grows(old, grown, x)
    BY <2>3, <2>7 DEF Grows, e, ts, last
  <2>9. QED
    BY <1>2, <2>5, <2>7, <2>8 DEF old
<1>3. CASE ~ (list # <<>> /\ Joins(Last(list), x))
  <2>1. AddTile(list, x) = Append(list, Alone(x))
    BY <1>3, Zenon DEF AddTile
  <2>2. <<x>> \in Seq(X) /\ x.offset + x.count - 1 \in Int
    BY <1>1
  <2>3. Alone(x) \in GroupOf(X)
    BY <1>1, <2>2 DEF GroupOf, Alone
  <2>4. QED
    BY <2>1, <2>3
<1>4. QED
  BY <1>2, <1>3

(* Adding a tile, no earlier than those before it, loses none and keeps    *)
(* every group around its tiles.                                           *)
LEMMA AddTileKeeps ==
  ASSUME NEW limit \in Nat, NEW X, Fetchable(X, limit), NEW list \in Seq(GroupOf(X)), NEW x \in X
  PROVE  /\ AddTile(list, x) \in Seq(GroupOf(X))
         /\ AllCover(list, limit) /\ StartsBefore(list, x) => AllCover(AddTile(list, x), limit)
         /\ InGroup(AddTile(list, x), x)
         /\ \A y \in X : InGroup(list, y) => InGroup(AddTile(list, x), y)
         /\ \A y \in X : StartsBefore(list, y) /\ x.offset <= y.offset => StartsBefore(AddTile(list, x), y)
<1> DEFINE new == AddTile(list, x)
           n == Len(list)
           last == x.offset + x.count - 1
<1>1. x.offset \in Nat /\ x.count \in Nat /\ last \in Int /\ last < limit
  BY DEF Fetchable, Natural
<1>2. n \in Nat /\ DOMAIN list = 1 .. n /\ \A g \in 1 .. n : list[g] \in GroupOf(X)
  OBVIOUS
<1>3. PICK group \in GroupOf(X) :
           \/ /\ list # <<>> /\ Grows(list[n], group, x)
              /\ new = [list EXCEPT ![n] = group]
           \/ /\ group = Alone(x)
              /\ new = Append(list, group)
  BY AddTileIs
<1> HIDE DEF new, last, n
<1>4. CASE list # <<>> /\ Grows(list[n], group, x) /\ new = [list EXCEPT ![n] = group]
  <2>1. n \in 1 .. n
    BY <1>2, <1>4 DEF n
  <2>2. /\ DOMAIN new = 1 .. n /\ new[n] = group
        /\ \A g \in 1 .. n : g # n => new[g] = list[g]
    BY <1>2, <1>4, <2>1
  <2> DEFINE old == list[n]
  <2>3. /\ old \in GroupOf(X) /\ old.tiles \in Seq(X) /\ old.end \in Int /\ old.start \in Nat
        /\ group.tiles = Append(old.tiles, x) /\ group.start = old.start /\ group.end \in Int
    BY <1>2, <1>4, <2>1 DEF GroupOf, Grows
  <2>4. /\ old.end <= group.end /\ last <= group.end /\ group.end \in {old.end, last}
    BY <1>4 DEF Grows, last
  <2> HIDE DEF old
  <2>5. /\ DOMAIN group.tiles = 1 .. Len(old.tiles) + 1 /\ DOMAIN old.tiles = 1 .. Len(old.tiles)
        /\ Len(old.tiles) \in Nat
        /\ \A i \in DOMAIN old.tiles : group.tiles[i] = old.tiles[i]
        /\ group.tiles[Len(old.tiles) + 1] = x
    BY <2>3
  <2>6. new \in Seq(GroupOf(X))
    <3>1. new \in [1 .. n -> GroupOf(X)]
      BY <1>2, <1>4, <2>1
    <3>2. QED
      BY <1>2, <3>1
  <2>7. ASSUME AllCover(list, limit), StartsBefore(list, x) PROVE AllCover(new, limit)
    <3>1. Covers(old, limit) /\ old.start <= x.offset
      BY <1>2, <2>1, <2>7 DEF AllCover, StartsBefore, old
    <3>2. group.end < limit
      BY <1>1, <2>4, <3>1 DEF Covers
    <3>3. ASSUME NEW i \in DOMAIN group.tiles
          PROVE  /\ group.start <= group.tiles[i].offset
                 /\ group.tiles[i].offset + group.tiles[i].count - 1 <= group.end
      <4>1. CASE i \in DOMAIN old.tiles
        <5> DEFINE t == old.tiles[i]
        <5>1. t \in X /\ group.tiles[i] = t
          BY <2>3, <2>5, <4>1
        <5> HIDE DEF t
        <5>2. t.offset + t.count - 1 \in Int
          BY <5>1 DEF Fetchable, Natural
        <5>3. old.start <= t.offset /\ t.offset + t.count - 1 <= old.end
          BY <3>1, <4>1 DEF Covers, t
        <5>4. QED
          BY <2>3, <2>4, <5>1, <5>2, <5>3
      <4>2. CASE i = Len(old.tiles) + 1
        BY <2>3, <2>4, <2>5, <3>1, <4>2 DEF last
      <4>3. QED
        BY <2>5, <4>1, <4>2
    <3>4. Covers(group, limit)
      BY <3>2, <3>3 DEF Covers
    <3>5. QED
      BY <1>2, <2>2, <2>7, <3>4 DEF AllCover
  <2>8. x \in ToSet(group.tiles) /\ \A y \in ToSet(old.tiles) : y \in ToSet(group.tiles)
    BY <2>5 DEF ToSet
  <2>9. InGroup(new, x)
    BY <2>1, <2>2, <2>8 DEF InGroup
  <2>10. ASSUME NEW y \in X, InGroup(list, y) PROVE InGroup(new, y)
    <3>1. PICK g \in 1 .. n : y \in ToSet(list[g].tiles)
      BY <1>2, <2>10 DEF InGroup
    <3>2. y \in ToSet(new[g].tiles)
      BY <2>2, <2>8, <3>1 DEF old
    <3>3. QED
      BY <2>2, <3>2 DEF InGroup
  <2>11. ASSUME NEW y \in X, StartsBefore(list, y) PROVE StartsBefore(new, y)
    BY <1>2, <2>1, <2>2, <2>3, <2>11 DEF StartsBefore, old
  <2>12. QED
    BY <2>6, <2>7, <2>9, <2>10, <2>11 DEF new
<1>5. CASE group = Alone(x) /\ new = Append(list, group)
  <2>1. /\ DOMAIN new = 1 .. n + 1 /\ new[n + 1] = group
        /\ \A g \in 1 .. n : new[g] = list[g]
    BY <1>2, <1>5 DEF n
  <2>2. new \in Seq(GroupOf(X))
    BY <1>5
  <2>3. group.start = x.offset /\ group.end = last /\ group.tiles = <<x>>
    BY <1>5 DEF Alone, last
  <2>4. Covers(group, limit)
    <3>1. \A i \in DOMAIN group.tiles : group.tiles[i] = x
      BY <2>3
    <3>2. group.start <= x.offset /\ x.offset + x.count - 1 <= group.end
      BY <1>1, <2>3 DEF last
    <3>3. QED
      BY <1>1, <2>3, <3>1, <3>2 DEF Covers
  <2>5. x \in ToSet(group.tiles)
    BY <2>3 DEF ToSet
  <2>6. n + 1 \in 1 .. n + 1 /\ \A g \in 1 .. n + 1 : g \in 1 .. n \/ g = n + 1
    BY <1>2
  <2>7. \A g \in 1 .. n : g \in 1 .. n + 1
    BY <1>2
  <2>8. AllCover(list, limit) => AllCover(new, limit)
    BY <1>2, <2>1, <2>4, <2>6 DEF AllCover
  <2>9. InGroup(new, x)
    BY <2>1, <2>5, <2>6 DEF InGroup
  <2>10. \A y \in X : InGroup(list, y) => InGroup(new, y)
    BY <1>2, <2>1, <2>7 DEF InGroup
  <2>11. \A y \in X : StartsBefore(list, y) /\ x.offset <= y.offset => StartsBefore(new, y)
    BY <1>2, <2>1, <2>3, <2>6 DEF StartsBefore
  <2>12. QED
    BY <2>2, <2>8, <2>9, <2>10, <2>11 DEF new
<1>6. QED
  BY <1>3, <1>4, <1>5

(* coalesce_ranges (cog.rs:459-487): however tiles lie in the file,        *)
(* overlapping, apart or in reverse, no range ends past it, each covers    *)
(* the tiles of its group, so that none is cut short, and every tile asked *)
(* for is in a group.                                                      *)
THEOREM GroupsCover ==
  ASSUME NEW limit \in Nat, NEW X, Fetchable(X, limit), NEW list \in Seq(X)
  PROVE  /\ Groups(list) \in Seq(GroupOf(X))
         /\ AllCover(Groups(list), limit)
         /\ \A i \in DOMAIN list : InGroup(Groups(list), list[i])
<1> DEFINE sorted == Sorted(list)
           N == Len(sorted)
           Eq(s) == s = [n \in 0 .. N |-> IF n = 0 THEN <<>> ELSE AddTile(s[n - 1], sorted[n])]
           F == CHOOSE s : Eq(s)
           D == Seq(GroupOf(X))
<1>1. Groups(list) = F[N]
  BY DEF Groups
<1>2. \A x \in X : x.offset \in Nat
  BY DEF Fetchable
<1>3. /\ sorted \in Seq(X)
      /\ \A i \in DOMAIN list : \E n \in DOMAIN sorted : sorted[n] = list[i]
      /\ \A n, m \in DOMAIN sorted : n < m => sorted[n].offset <= sorted[m].offset
  BY <1>2, SortedLists
<1> HIDE DEF sorted
<1>4. N \in Nat /\ DOMAIN sorted = 1 .. N /\ \A n \in 1 .. N : sorted[n] \in X
  BY <1>3
<1> HIDE DEF N
<1>5. \E s : Eq(s)
  <2> DEFINE step == [n \in 1 .. N |-> [s \in D |-> AddTile(s, sorted[n])]]
  <2>1. \A s \in D, n \in 1 .. N : step[n][s] = AddTile(s, sorted[n]) /\ AddTile(s, sorted[n]) \in D
    BY <1>4, AddTileKeeps
  <2>2. <<>> \in D
    OBVIOUS
  <2> HIDE DEF step, D
  <2>3. PICK s \in [0 .. N -> D] : s = [n \in 0 .. N |-> IF n = 0 THEN <<>> ELSE step[n][s[n - 1]]]
    <3>1. Steps(step, D, N)
      BY <2>1 DEF Steps
    <3>2. \E s \in [0 .. N -> D] : s = [n \in 0 .. N |-> IF n = 0 THEN <<>> ELSE step[n][s[n - 1]]]
      BY <1>4, <2>2, <3>1, Recursion
    <3>3. QED
      BY <3>2
  <2>4. \A n \in 0 .. N : n # 0 => n \in 1 .. N /\ s[n - 1] \in D
    BY <1>4, <2>3
  <2>5. \A n \in 0 .. N : (IF n = 0 THEN <<>> ELSE step[n][s[n - 1]]) = IF n = 0 THEN <<>> ELSE AddTile(s[n - 1], sorted[n])
    BY <2>1, <2>4, Zenon
  <2>6. Eq(s)
    BY <2>3, <2>5, Zenon
  <2>7. QED
    BY <2>6
<1>6. Eq(F)
  <2> HIDE DEF Eq
  <2>1. QED
    BY <1>5, Zenon
<1> HIDE DEF F
<1>7. F[0] = <<>> /\ \A n \in 1 .. N : F[n] = AddTile(F[n - 1], sorted[n])
  <2>1. \A n \in 0 .. N : F[n] = IF n = 0 THEN <<>> ELSE AddTile(F[n - 1], sorted[n])
    BY <1>6, Zenon
  <2>2. 0 \in 0 .. N /\ \A n \in 1 .. N : n \in 0 .. N /\ n # 0
    BY <1>4
  <2>3. QED
    BY <2>1, <2>2, Zenon
<1> DEFINE Good(n) == /\ F[n] \in D /\ AllCover(F[n], limit)
                      /\ \A i \in 1 .. n : InGroup(F[n], sorted[i])
                      /\ \A i \in n + 1 .. N : StartsBefore(F[n], sorted[i])
           S == {n \in Nat : n <= N => Good(n)}
<1>8. 0 \in S
  <2>1. F[0] \in D /\ DOMAIN F[0] = {}
    BY <1>7
  <2>2. Good(0)
    BY <2>1 DEF AllCover, StartsBefore
  <2>3. QED
    BY <2>2
<1>9. ASSUME NEW n \in Nat, n \in S PROVE n + 1 \in S
  <2> SUFFICES ASSUME n + 1 <= N PROVE Good(n + 1)
    OBVIOUS
  <2>1. n + 1 \in 1 .. N /\ n + 1 \in n + 1 .. N /\ (n + 1) - 1 = n /\ n <= N
    BY <1>4
  <2>2. Good(n)
    BY <1>9, <2>1
  <2> DEFINE x == sorted[n + 1]
  <2>3. x \in X /\ F[n + 1] = AddTile(F[n], x)
    BY <1>4, <1>7, <2>1
  <2> HIDE DEF D, S
  <2>4. StartsBefore(F[n], x)
    BY <2>1, <2>2
  <2> HIDE DEF x
  <2>5. /\ F[n + 1] \in D /\ AllCover(F[n + 1], limit) /\ InGroup(F[n + 1], x)
        /\ \A y \in X : InGroup(F[n], y) => InGroup(F[n + 1], y)
        /\ \A y \in X : StartsBefore(F[n], y) /\ x.offset <= y.offset => StartsBefore(F[n + 1], y)
    BY <2>2, <2>3, <2>4, AddTileKeeps DEF D
  <2>6. ASSUME NEW i \in 1 .. n + 1 PROVE InGroup(F[n + 1], sorted[i])
    <3>1. CASE i = n + 1
      BY <2>5, <3>1 DEF x
    <3>2. CASE i # n + 1
      <4>1. i \in 1 .. n /\ i \in 1 .. N
        BY <1>4, <2>1, <3>2
      <4>2. QED
        BY <1>4, <2>2, <2>5, <4>1
    <3>3. QED
      BY <3>1, <3>2
  <2>7. ASSUME NEW i \in (n + 1) + 1 .. N PROVE StartsBefore(F[n + 1], sorted[i])
    <3>1. i \in 1 .. N /\ i \in n + 1 .. N /\ n + 1 < i
      BY <1>4
    <3>2. x.offset <= sorted[i].offset /\ sorted[i] \in X
      BY <1>3, <1>4, <2>1, <3>1 DEF x
    <3>3. StartsBefore(F[n], sorted[i])
      BY <2>2, <3>1
    <3>4. QED
      BY <2>5, <3>2, <3>3
  <2>8. QED
    BY <2>5, <2>6, <2>7
<1> HIDE DEF S, Good
<1>10. N \in S
  BY <1>4, <1>8, <1>9, SetInduction
<1>11. Good(N)
  <2>1. N <= N
    BY <1>4
  <2>2. QED
    BY <1>10, <2>1 DEF S
<1>12. ASSUME NEW i \in DOMAIN list PROVE InGroup(F[N], list[i])
  <2>1. PICK n \in DOMAIN sorted : sorted[n] = list[i]
    BY <1>3
  <2>2. QED
    BY <1>4, <1>11, <2>1 DEF Good
<1>13. QED
  BY <1>1, <1>11, <1>12 DEF Good

-----------------------------------------------------------------------------
(* Powers of two.                                                          *)
LEMMA Doubling ==
  /\ 2^0 = 1
  /\ \A k \in 0 .. 23 : 2^(k + 1) = 2 * 2^k
<1> DEFINE p(n) == 2^n
<1>1. p(0) = 1
  OBVIOUS
<1>2. p(1) = 2
  OBVIOUS
<1>3. p(2) = 4
  OBVIOUS
<1>4. p(3) = 8
  OBVIOUS
<1>5. p(4) = 16
  OBVIOUS
<1>6. p(5) = 32
  OBVIOUS
<1>7. p(6) = 64
  OBVIOUS
<1>8. p(7) = 128
  OBVIOUS
<1>9. p(8) = 256
  OBVIOUS
<1>10. p(9) = 512
  OBVIOUS
<1>11. p(10) = 1024
  OBVIOUS
<1>12. p(11) = 2048
  OBVIOUS
<1>13. p(12) = 4096
  OBVIOUS
<1>14. p(13) = 8192
  OBVIOUS
<1>15. p(14) = 16384
  OBVIOUS
<1>16. p(15) = 32768
  OBVIOUS
<1>17. p(16) = 65536
  OBVIOUS
<1>18. p(17) = 131072
  OBVIOUS
<1>19. p(18) = 262144
  OBVIOUS
<1>20. p(19) = 524288
  OBVIOUS
<1>21. p(20) = 1048576
  OBVIOUS
<1>22. p(21) = 2097152
  OBVIOUS
<1>23. p(22) = 4194304
  OBVIOUS
<1>24. p(23) = 8388608
  OBVIOUS
<1>25. p(24) = 16777216
  OBVIOUS
<1> HIDE DEF p
<1>26. ASSUME NEW k \in 0 .. 23 PROVE p(k + 1) = 2 * p(k)
  <2>1. CASE k \in 0 .. 7
    BY <2>1, <1>1, <1>2, <1>3, <1>4, <1>5, <1>6, <1>7, <1>8, <1>9
  <2>2. CASE k \in 8 .. 15
    BY <2>2, <1>9, <1>10, <1>11, <1>12, <1>13, <1>14, <1>15, <1>16, <1>17
  <2>3. CASE k \in 16 .. 23
    BY <2>3, <1>17, <1>18, <1>19, <1>20, <1>21, <1>22, <1>23, <1>24, <1>25
  <2>4. QED
    BY <2>1, <2>2, <2>3
<1>27. QED
  BY <1>1, <1>26 DEF p

Pow2(n) == 2^n

LEMMA PowersKnown == Pow2(0) = 1 /\ Pow2(8) = 256 /\ Pow2(16) = 65536
<1>1. 2^0 = 1 /\ 2^8 = 256 /\ 2^16 = 65536
  OBVIOUS
<1>2. QED
  BY <1>1 DEF Pow2

(* Up to 2^24, which is as far as three bytes go.                          *)
LEMMA PowerIsNatural ==
  ASSUME NEW a \in 0 .. 24
  PROVE  Pow2(a) \in Nat \ {0}
<1> DEFINE p(n) == Pow2(n)
           S == {n \in Nat : n <= 24 => p(n) \in Nat \ {0}}
<1>1. p(0) = 1 /\ \A k \in 0 .. 23 : p(k + 1) = 2 * p(k)
  BY Doubling DEF Pow2
<1> HIDE DEF p
<1>2. 0 \in S
  BY <1>1
<1>3. ASSUME NEW n \in Nat, n \in S PROVE n + 1 \in S
  <2> SUFFICES ASSUME n + 1 <= 24 PROVE p(n + 1) \in Nat \ {0}
    OBVIOUS
  <2>1. n \in 0 .. 23 /\ p(n) \in Nat \ {0}
    BY <1>3
  <2>2. QED
    BY <1>1, <2>1
<1> HIDE DEF S
<1>4. a \in S
  BY <1>2, <1>3, SetInduction
<1>5. QED
  BY <1>4 DEF S, p

LEMMA PowerSum ==
  ASSUME NEW a \in Nat, NEW b \in Nat, a + b <= 24
  PROVE  Pow2(a + b) = Pow2(a) * Pow2(b)
<1> DEFINE p(n) == Pow2(n)
           S == {n \in Nat : a + n <= 24 => p(a + n) = p(a) * p(n)}
<1>1. p(0) = 1 /\ (\A k \in 0 .. 23 : p(k + 1) = 2 * p(k)) /\ \A k \in 0 .. 24 : p(k) \in Nat
  BY Doubling, PowerIsNatural DEF Pow2
<1> HIDE DEF p
<1>2. 0 \in S
  <2> SUFFICES ASSUME a + 0 <= 24 PROVE p(a + 0) = p(a) * p(0)
    OBVIOUS
  <2>1. a + 0 = a /\ a \in 0 .. 24
    OBVIOUS
  <2>2. p(a) \in Nat
    BY <1>1, <2>1
  <2>3. QED
    BY <1>1, <2>1, <2>2
<1>3. ASSUME NEW n \in Nat, n \in S PROVE n + 1 \in S
  <2> SUFFICES ASSUME a + (n + 1) <= 24 PROVE p(a + (n + 1)) = p(a) * p(n + 1)
    OBVIOUS
  <2>1. n \in 0 .. 23 /\ a + n \in 0 .. 23 /\ a + (n + 1) = (a + n) + 1 /\ a \in 0 .. 24 /\ n \in 0 .. 24
    OBVIOUS
  <2>2. p(a + (n + 1)) = 2 * p(a + n) /\ p(n + 1) = 2 * p(n) /\ p(a) \in Nat /\ p(n) \in Nat
    BY <1>1, <2>1
  <2>3. p(a + n) = p(a) * p(n)
    BY <1>3, <2>1
  <2>4. 2 * (p(a) * p(n)) = p(a) * (2 * p(n))
    BY <2>2
  <2>5. QED
    BY <2>2, <2>3, <2>4
<1> HIDE DEF S
<1>4. b \in S
  BY <1>2, <1>3, SetInduction
<1>5. QED
  BY <1>4 DEF S, p

(* Quotients and remainders by products.                                   *)
LEMMA PartsOf ==
  ASSUME NEW x \in Nat, NEW A \in Nat \ {0}, NEW M \in Nat \ {0}
  PROVE  (x % (A * M)) \div A = (x \div A) % M /\ (x % (A * M)) % A = x % A
<1> DEFINE q == x \div (A * M)
           s == x % (A * M)
           t == s \div A
           u == s % A
<1>0. A * M \in Nat \ {0}
  OBVIOUS
<1>1. q \in Nat /\ s \in 0 .. (A * M) - 1 /\ x = (A * M) * q + s
  BY <1>0, Parts
<1> HIDE DEF q, s
<1>2. s \in Nat /\ s < A * M
  BY <1>0, <1>1
<1>3. u \in 0 .. A - 1 /\ s = A * t + u
  BY <1>2, Remainder
<1>4. t \in Nat
  BY <1>2
<1>5. t < M
  BY <1>2, UnderProduct
<1> HIDE DEF t, u
<1>6. x = A * (M * q + t) + u
  <2>1. A * (M * q + t) = (A * M) * q + A * t
    BY <1>1, <1>4
  <2>2. A * t \in Int /\ (A * M) * q \in Int /\ u \in Int
    BY <1>0, <1>1, <1>3, <1>4
  <2>3. QED
    BY <1>1, <1>3, <2>1, <2>2
<1>7. M * q + t \in Int
  BY <1>1, <1>4
<1>8. x \div A = M * q + t /\ x % A = u
  BY <1>3, <1>6, <1>7, RemainderIs
<1>9. (M * q + t) % M = t
  <2>1. t \in 0 .. M - 1
    BY <1>4, <1>5
  <2>2. QED
    BY <1>1, <2>1, RemainderIs
<1>10. QED
  BY <1>8, <1>9 DEF s, t, u

(* Dividing twice, and the high part of a number.                          *)
LEMMA QuotientTwice ==
  ASSUME NEW x \in Nat, NEW a \in Nat \ {0}, NEW b \in Nat \ {0}
  PROVE  x \div (a * b) = (x \div a) \div b
<1> DEFINE y == x \div a
           r == x % a
           z == y \div b
           u == y % b
<1>1. y \in Nat /\ r \in 0 .. a - 1 /\ x = a * y + r
  BY Parts
<1> HIDE DEF y, r
<1>2. z \in Nat /\ u \in 0 .. b - 1 /\ y = b * z + u
  BY <1>1, Parts
<1> HIDE DEF z, u
<1>3. a * y = (a * b) * z + a * u
  BY <1>1, <1>2
<1>4. a * u \in Nat /\ (b - 1 - u) \in Nat /\ a * (b - 1 - u) \in Nat /\ a * (b - 1 - u) = a * b - a - a * u
  BY <1>2
<1>5. (a * b) * z \in Int /\ a * b \in Nat \ {0} /\ a * y \in Int
  BY <1>1, <1>2
<1>6. (a * b) * z <= x /\ x < (a * b) * z + a * b
  BY <1>1, <1>3, <1>4, <1>5
<1>7. x \div (a * b) = z
  BY <1>2, <1>5, <1>6, QuotientIs
<1>8. QED
  BY <1>7 DEF z, y

LEMMA HighPart ==
  ASSUME NEW x \in Nat, NEW n \in Nat \ {0}, NEW k \in Nat \ {0}, NEW c \in 0 .. k - 1
  PROVE  (x % n) * k + c = (x * k + c) % (n * k)
<1> DEFINE q == x \div n
           r == x % n
<1>1. q \in Nat /\ r \in 0 .. n - 1 /\ x = n * q + r
  BY Parts
<1> HIDE DEF q, r
<1>2. x * k + c = (n * k) * q + (r * k + c)
  <2>1. x * k = (n * k) * q + r * k
    BY <1>1
  <2>2. x * k \in Int /\ (n * k) * q \in Int /\ r * k \in Int
    BY <1>1
  <2>3. QED
    BY <2>1, <2>2
<1>3. r * k + c \in 0 .. (n * k) - 1
  <2>1. (n - 1 - r) \in Nat /\ (n - 1 - r) * k \in Nat /\ (n - 1 - r) * k = n * k - k - r * k
    BY <1>1
  <2>2. n * k \in Nat /\ r * k \in Nat
    BY <1>1
  <2>3. QED
    BY <2>1, <2>2
<1>4. n * k \in Nat \ {0} /\ q \in Int
  BY <1>1
<1>5. ((n * k) * q + (r * k + c)) % (n * k) = r * k + c
  BY <1>3, <1>4, RemainderIs
<1>6. QED
  BY <1>2, <1>5 DEF r

-----------------------------------------------------------------------------
(* unpack_bits_to_samples: after i samples of so many bits, the bytes      *)
(* taken, the bits of the last one that are left, and their value.         *)
Byte == 0 .. 255
BytesTaken(bits, i) == CeilDiv(i * bits, 8)
BitsLeft(bits, i) == 8 * BytesTaken(bits, i) - i * bits
LastByte(packed, bits, i) == ByteAt(packed, BytesTaken(bits, i))
After(packed, bits, i) ==
  [acc |-> IF BitsLeft(bits, i) = 0 THEN 0 ELSE LastByte(packed, bits, i) % Pow2(BitsLeft(bits, i)),
   nbits |-> BitsLeft(bits, i), next |-> BytesTaken(bits, i),
   out |-> [j \in 1 .. i |-> PackedSample(packed, bits, j)]]

LEMMA ByteType ==
  ASSUME NEW packed \in Seq(Byte), NEW i \in Nat \ {0}
  PROVE  ByteAt(packed, i) \in Byte
<1>1. 0 \in Byte
  BY DEF Byte
<1>2. ASSUME i <= Len(packed) PROVE packed[i] \in Byte
  BY <1>2
<1>3. QED
  BY <1>1, <1>2 DEF ByteAt

(* Where the next sample begins, and how many bytes it takes.              *)
NeedBytes(bits, left) == IF left < bits THEN CeilDiv(bits - left, 8) ELSE 0

(* Where the next sample begins: what is left over and the bytes           *)
(* NextSample takes add up to a sample.                                    *)
LEMMA BitPositions ==
  ASSUME NEW bits \in 1 .. 16, NEW i \in Nat
  PROVE  LET m == BytesTaken(bits, i)
             left == BitsLeft(bits, i)
             k == NeedBytes(bits, left)
         IN  /\ m \in Nat /\ left \in 0 .. 7 /\ k \in 0 .. 2
             /\ left = 0 => k # 0
             /\ BytesTaken(bits, i + 1) = m + k
             /\ BitsLeft(bits, i + 1) = left + 8 * k - bits
             /\ BitsLeft(bits, i + 1) \in 0 .. 7
             /\ i * bits \in Nat
             /\ left = 0 => (i * bits) \div 8 = m /\ (i * bits) % 8 = 0
             /\ left # 0 => m \in Nat \ {0} /\ (i * bits) \div 8 = m - 1 /\ (i * bits) % 8 = 8 - left
<1> DEFINE pos == i * bits
           m == CeilDiv(pos, 8)
           left == 8 * m - pos
           k == NeedBytes(bits, left)
<1>1. pos \in Nat /\ (i + 1) * bits = pos + bits
  OBVIOUS
<1> HIDE DEF pos
<1>2. m \in Nat /\ pos <= 8 * m /\ 8 * m < pos + 8
  BY <1>1 DEF CeilDiv
<1> HIDE DEF m
<1>3. left \in 0 .. 7
  BY <1>1, <1>2
<1>4. /\ left = 0 => pos \div 8 = m /\ pos % 8 = 0
      /\ left # 0 => m \in Nat \ {0} /\ pos \div 8 = m - 1 /\ pos % 8 = 8 - left
  <2>1. CASE left = 0
    <3>1. pos = 8 * m
      BY <1>1, <1>2, <2>1
    <3>2. QED
      BY <1>2, <3>1, <2>1
  <2>2. CASE left # 0
    <3>1. pos = 8 * (m - 1) + (8 - left) /\ 8 - left \in 0 .. 7 /\ m - 1 \in Int
      BY <1>1, <1>2, <1>3, <2>2
    <3>2. m # 0
      BY <1>1, <1>2, <1>3, <2>2
    <3> HIDE DEF left
    <3>3. pos \div 8 = m - 1 /\ pos % 8 = 8 - left
      BY <1>1, <3>1
    <3>4. QED
      BY <1>2, <2>2, <3>2, <3>3
  <2>3. QED
    BY <2>1, <2>2
<1> HIDE DEF left
<1>5. k \in 0 .. 2 /\ left + 8 * k - bits \in 0 .. 7 /\ (left = 0 => k # 0)
  <2>1. CASE left < bits
    <3>1. k = CeilDiv(bits - left, 8)
      BY <2>1 DEF NeedBytes
    <3>2. k \in Int /\ bits - left <= 8 * k /\ 8 * k < bits - left + 8
      BY <1>3, <3>1 DEF CeilDiv
    <3> HIDE DEF k
    <3>3. QED
      BY <1>3, <2>1, <3>2
  <2>2. CASE ~ (left < bits)
    <3>1. k = 0
      BY <2>2 DEF NeedBytes
    <3>2. QED
      BY <1>3, <2>2, <3>1
  <2>3. QED
    BY <2>1, <2>2
<1> HIDE DEF k
<1>6. CeilDiv(pos + bits, 8) = m + k
  <2>1. left = 8 * m - pos
    BY DEF left
  <2>2. pos + bits <= 8 * (m + k) /\ 8 * (m + k) < pos + bits + 8
    BY <1>1, <1>2, <1>3, <1>5, <2>1
  <2>3. QED
    BY <1>1, <1>2, <1>5, <2>2 DEF CeilDiv
<1>7. 8 * (m + k) - (pos + bits) = left + 8 * k - bits
  BY <1>1, <1>2, <1>5 DEF left
<1>8. /\ BytesTaken(bits, i) = m /\ BitsLeft(bits, i) = left
      /\ BytesTaken(bits, i + 1) = m + k /\ BitsLeft(bits, i + 1) = left + 8 * k - bits
  BY <1>1, <1>6, <1>7, Zenon DEF BytesTaken, BitsLeft, pos, m, left
<1>9. k = NeedBytes(bits, left)
  BY DEF k
<1>10. QED
  BY <1>1, <1>2, <1>3, <1>4, <1>5, <1>8, <1>9, Zenon DEF pos

(* The bytes of a sample's number, the bits left over of the last one      *)
(* before it and the whole ones after: y ends with the last byte taken.    *)
Parted(y, three, E, A, M) ==
  ((y % (A * M)) \div A) % M = (three \div (E * A)) % M /\ (y % (A * M)) % A = y % A

(* The parts of y and of the number it is the high part of are the same.   *)
LEMMA PartOfNumber ==
  ASSUME NEW y \in Nat, NEW three \in Nat, NEW E \in Nat \ {0}, three \div E = y,
         NEW A \in Nat \ {0}, NEW M \in Nat \ {0}
  PROVE  Parted(y, three, E, A, M)
<1>1. (y % (A * M)) \div A = (y \div A) % M /\ (y % (A * M)) % A = y % A
  BY PartsOf, ZenonT(60)
<1>2. three \div (E * A) = y \div A
  BY QuotientTwice
<1>3. y \div A \in Nat
  OBVIOUS
<1>4. ((y \div A) % M) % M = (y \div A) % M
  <2> DEFINE z == y \div A
             r == z % M
  <2>1. r \in 0 .. M - 1
    BY <1>3, Parts
  <2> HIDE DEF r
  <2>2. r = M * 0 + r /\ 0 \in Int
    BY <2>1
  <2>3. (M * 0 + r) % M = r
    BY <2>1, RemainderIs
  <2>4. r % M = r
    BY <2>2, <2>3
  <2>5. QED
    BY <2>4 DEF r
<1>5. QED
  BY <1>1, <1>2, <1>4 DEF Parted

(* A byte alone decides the bits below it.                                 *)
LEMMA LowBits ==
  ASSUME NEW n \in 0 .. 7, NEW z \in Nat, NEW c \in Byte
  PROVE  (256 * z + c) % Pow2(n) = c % Pow2(n)
<1> DEFINE A == Pow2(n)
           D == Pow2(8 - n)
           q == c \div A
           r == c % A
<1>1. A * D = 256
  <2>1. 8 - n \in Nat /\ n + (8 - n) = 8 /\ n \in Nat
    OBVIOUS
  <2>2. Pow2(8) = 256
    BY PowersKnown
  <2>3. QED
    BY <2>1, <2>2, PowerSum
<1>2. A \in Nat \ {0} /\ D \in Nat \ {0}
  <2>1. n \in 0 .. 24 /\ 8 - n \in 0 .. 24
    OBVIOUS
  <2>2. QED
    BY <2>1, PowerIsNatural
<1> HIDE DEF A, D
<1>3. c \in Nat
  BY DEF Byte
<1>4. q \in Nat /\ r \in 0 .. A - 1 /\ c = A * q + r
  BY <1>2, <1>3, Parts
<1> HIDE DEF q, r
<1>5. 256 * z + c = A * (D * z + q) + r
  <2>1. A * (D * z + q) = (A * D) * z + A * q
    BY <1>2, <1>4
  <2>2. A * q \in Int /\ (A * D) * z = 256 * z
    BY <1>1, <1>2, <1>4
  <2>3. QED
    BY <1>3, <1>4, <2>1, <2>2
<1>6. D * z + q \in Int
  BY <1>2, <1>4
<1>7. (A * (D * z + q) + r) % A = r
  BY <1>2, <1>4, <1>6, RemainderIs
<1>8. QED
  BY <1>5, <1>7 DEF A, r

(* The bytes from n + 1 on as numbers, high bytes first.                   *)
One(packed, n) == ByteAt(packed, n + 1)
Two(packed, n) == One(packed, n) * 256 + ByteAt(packed, n + 2)
Three(packed, n) ==
  ByteAt(packed, n + 1) * 65536 + ByteAt(packed, n + 2) * 256 + ByteAt(packed, n + 3)

TwoOf(a, b) == a * 256 + b
ThreeOf(a, b, c) == a * 65536 + b * 256 + c
Bytewise(a, b, c, two, three) ==
  /\ three \in Nat /\ three \div 65536 = a /\ three \div 256 = two /\ three \div 1 = three
  /\ three = 256 * two + c /\ three = two * 256 + c
  /\ a % 256 = a /\ two % 65536 = two /\ two \in Nat /\ two = 256 * a + b

(* Two of three bytes, and the last of them, as quotients and remainders.  *)
LEMMA ThreeBytes ==
  ASSUME NEW a \in Byte, NEW b \in Byte, NEW c \in Byte
  PROVE  Bytewise(a, b, c, TwoOf(a, b), ThreeOf(a, b, c))
<1>0. a \in 0 .. 255 /\ b \in 0 .. 255 /\ c \in 0 .. 255
  BY DEF Byte
<1>1. (a * 65536 + b * 256 + c) \div 65536 = a
  BY <1>0
<1>2. (a * 65536 + b * 256 + c) \div 256 = a * 256 + b
  BY <1>0
<1>3. (a * 65536 + b * 256 + c) \div 1 = a * 65536 + b * 256 + c
  BY <1>0
<1>4. a % 256 = a
  BY <1>0
<1>5. (a * 256 + b) % 65536 = a * 256 + b
  BY <1>0
<1>6. QED
  BY <1>0, <1>1, <1>2, <1>3, <1>4, <1>5 DEF TwoOf, ThreeOf, Bytewise

Numbers(packed, n) ==
  /\ One(packed, n) \in Byte /\ One(packed, n) \in Nat
  /\ Two(packed, n) \in Nat /\ Three(packed, n) \in Nat
  /\ Three(packed, n) \div Pow2(16) = One(packed, n)
  /\ Three(packed, n) \div Pow2(8) = Two(packed, n)
  /\ Three(packed, n) \div Pow2(0) = Three(packed, n)
  /\ Two(packed, n) = 256 * One(packed, n) + ByteAt(packed, n + 2)
  /\ Three(packed, n) = 256 * Two(packed, n) + ByteAt(packed, n + 3)
  /\ Three(packed, n) = Two(packed, n) * 256 + ByteAt(packed, n + 3)
  /\ One(packed, n) % Pow2(8) = One(packed, n) /\ Two(packed, n) % Pow2(16) = Two(packed, n)
  /\ ByteAt(packed, n + 2) \in 0 .. Pow2(8) - 1 /\ ByteAt(packed, n + 3) \in 0 .. Pow2(8) - 1

(* The bytes at n as a number: the first one, two and three of them.       *)
LEMMA NumbersHold ==
  ASSUME NEW packed \in Seq(Byte), NEW n \in Nat
  PROVE  Numbers(packed, n)
<1> DEFINE a == ByteAt(packed, n + 1)
           b == ByteAt(packed, n + 2)
           c == ByteAt(packed, n + 3)
<1>1. a \in Byte /\ b \in Byte /\ c \in Byte
  <2>1. n + 1 \in Nat \ {0} /\ n + 2 \in Nat \ {0} /\ n + 3 \in Nat \ {0}
    OBVIOUS
  <2>2. QED
    BY <2>1, ByteType
<1>2. /\ One(packed, n) = a /\ Two(packed, n) = a * 256 + b
      /\ Three(packed, n) = a * 65536 + b * 256 + c
  BY DEF One, Two, Three
<1>3. b = ByteAt(packed, n + 2) /\ c = ByteAt(packed, n + 3)
  OBVIOUS
<1> HIDE DEF a, b, c
<1>4. a \in 0 .. 255 /\ b \in 0 .. 255 /\ c \in 0 .. 255 /\ a \in Nat
  BY <1>1 DEF Byte
<1> DEFINE two == TwoOf(a, b)
           three == ThreeOf(a, b, c)
<1>5. Bytewise(a, b, c, two, three)
  BY <1>1, ThreeBytes, Zenon
<1>11. two = a * 256 + b /\ three = a * 65536 + b * 256 + c
  BY DEF TwoOf, ThreeOf
<1> HIDE DEF two, three
<1>6. b \in 0 .. 256 - 1 /\ c \in 0 .. 256 - 1
  BY <1>4
<1> DEFINE q8 == 256
           q16 == 65536
<1>7. Pow2(0) = 1 /\ Pow2(8) = q8 /\ Pow2(16) = q16
  BY PowersKnown
<1>8. /\ three \div q16 = a /\ three \div q8 = two /\ a % q8 = a /\ two % q16 = two
      /\ b \in 0 .. q8 - 1 /\ c \in 0 .. q8 - 1
  BY <1>5, <1>6 DEF Bytewise
<1>9. One(packed, n) = a /\ Two(packed, n) = two /\ Three(packed, n) = three
  BY <1>2, <1>11
<1> HIDE DEF q8, q16
<1>10. QED
  BY <1>1, <1>3, <1>4, <1>5, <1>7, <1>8, <1>9 DEF Numbers, Bytewise

(* What the bytes read make of the accumulator.                            *)
Taken(packed, acc, next, k) ==
  CASE k = 0 -> acc
    [] k = 1 -> acc * 256 + ByteAt(packed, next + 1)
    [] k = 2 -> (acc * 256 + ByteAt(packed, next + 1)) * 256 + ByteAt(packed, next + 2)

(* A sample that starts at bit, left bits of byte m being over, and takes  *)
(* k bytes more.                                                           *)
Located(bits, bit, m, left, k) ==
  /\ m \in Nat /\ left \in 0 .. 7 /\ k \in 0 .. 2 /\ left + 8 * k - bits \in 0 .. 7
  /\ left = 0 => k # 0 /\ bit \div 8 = m /\ bit % 8 = 0
  /\ left # 0 => m \in Nat \ {0} /\ bit \div 8 = m - 1 /\ bit % 8 = 8 - left
LeftOver(packed, m, left) == IF left = 0 THEN 0 ELSE ByteAt(packed, m) % Pow2(left)

(* The number read, y, in the terms of PartOfNumber.                       *)
ReadAs(packed, bits, bit, m, left, k, y, e, z) ==
  /\ y \in Nat /\ e \in {0, 8, 16} /\ z \in Nat /\ Three(packed, bit \div 8) \in Nat
  /\ Taken(packed, LeftOver(packed, m, left), m, k) = y % Pow2(left + 8 * k)
  /\ y = 256 * z + ByteAt(packed, m + k)
  /\ Three(packed, bit \div 8) \div Pow2(e) = y
  /\ 24 - (bit % 8) - bits = e + (left + 8 * k - bits)

(* With nothing left over, the sample is read from whole bytes.            *)
LEMMA ReadWhole ==
  ASSUME NEW packed \in Seq(Byte), NEW bits \in 1 .. 15, NEW bit \in Nat, NEW m, NEW k,
         Located(bits, bit, m, 0, k)
  PROVE  \E y, e, z : ReadAs(packed, bits, bit, m, 0, k, y, e, z)
<1>1. m \in Nat /\ k \in {1, 2} /\ bit \div 8 = m /\ bit % 8 = 0
  BY DEF Located
<1>2. Numbers(packed, m)
  BY <1>1, NumbersHold
<1>3. LeftOver(packed, m, 0) = 0
  BY DEF LeftOver
<1>4. CASE k = 1
  <2>1. Taken(packed, 0, m, 1) = One(packed, m)
    <3>1. Taken(packed, 0, m, 1) = 0 * 256 + One(packed, m)
      BY DEF Taken, One
    <3>2. One(packed, m) \in Nat
      BY <1>2 DEF Numbers
    <3>3. QED
      BY <3>1, <3>2
  <2>2. ReadAs(packed, bits, bit, m, 0, 1, One(packed, m), 16, 0)
    <3>1. One(packed, m) = 256 * 0 + ByteAt(packed, m + 1)
      BY <1>2 DEF One, Numbers
    <3>2. 0 + 8 * 1 = 8 /\ 24 - (bit % 8) - bits = 16 + (0 + 8 * 1 - bits)
      BY <1>1
    <3>3. Taken(packed, LeftOver(packed, m, 0), m, 1) = One(packed, m) % Pow2(0 + 8 * 1)
      BY <1>2, <1>3, <2>1, <3>2 DEF Numbers
    <3>4. QED
      BY <1>1, <1>2, <3>1, <3>2, <3>3 DEF ReadAs, Numbers
  <2>3. QED
    BY <1>4, <2>2
<1>5. CASE k = 2
  <2>1. Taken(packed, 0, m, 2) = Two(packed, m)
    <3>1. Taken(packed, 0, m, 2) = (0 * 256 + One(packed, m)) * 256 + ByteAt(packed, m + 2)
      BY DEF Taken, One
    <3>2. One(packed, m) \in Nat
      BY <1>2 DEF Numbers
    <3>3. QED
      BY <3>1, <3>2 DEF Two
  <2>2. ReadAs(packed, bits, bit, m, 0, 2, Two(packed, m), 8, One(packed, m))
    <3>1. 0 + 8 * 2 = 16 /\ 24 - (bit % 8) - bits = 8 + (0 + 8 * 2 - bits)
      BY <1>1
    <3>2. Taken(packed, LeftOver(packed, m, 0), m, 2) = Two(packed, m) % Pow2(0 + 8 * 2)
      BY <1>2, <1>3, <2>1, <3>1 DEF Numbers
    <3>3. QED
      BY <1>1, <1>2, <3>1, <3>2 DEF ReadAs, Numbers
  <2>3. QED
    BY <1>5, <2>2
<1>6. QED
  BY <1>1, <1>4, <1>5

(* A remainder above c more bits, as one remainder.                        *)
Joint(x, n, k, c) == (x % n) * k + c = (x * k + c) % (n * k)

(* HighPart, as a predicate.                                               *)
LEMMA JointHolds ==
  ASSUME NEW x \in Nat, NEW n \in Nat \ {0}, NEW k \in Nat \ {0}, NEW c \in 0 .. k - 1
  PROVE  Joint(x, n, k, c)
BY HighPart, Zenon DEF Joint

(* With bits left over, they are the high bits of the sample.              *)
LEMMA ReadOver ==
  ASSUME NEW packed \in Seq(Byte), NEW bits \in 1 .. 15, NEW bit \in Nat, NEW m, NEW left, left # 0, NEW k,
         Located(bits, bit, m, left, k)
  PROVE  \E y, e, z : ReadAs(packed, bits, bit, m, left, k, y, e, z)
<1> DEFINE n == m - 1
           N == Pow2(left)
<1>1. /\ n \in Nat /\ left \in 1 .. 7 /\ k \in {0, 1, 2}
      /\ bit \div 8 = n /\ bit % 8 = 8 - left
      /\ m = n + 1 /\ m + 1 = n + 2 /\ m + 2 = n + 3 /\ m + 0 = n + 1
  BY DEF Located
<1> HIDE DEF n
<1>2. Numbers(packed, n)
  BY <1>1, NumbersHold
<1>3. LeftOver(packed, m, left) = One(packed, n) % N
  BY <1>1 DEF LeftOver, One
<1>4. N \in Nat \ {0} /\ Pow2(8) \in Nat \ {0} /\ Pow2(8) = 256
  <2>1. left \in 0 .. 24 /\ 8 \in 0 .. 24
    BY <1>1
  <2>2. Pow2(left) \in Nat \ {0} /\ Pow2(8) \in Nat \ {0}
    BY <2>1, PowerIsNatural
  <2>3. Pow2(8) = 256
    BY PowersKnown
  <2>4. QED
    BY <2>2, <2>3
<1>5. Pow2(left + 8) = N * Pow2(8) /\ Pow2(left + 16) = (N * Pow2(8)) * Pow2(8)
  <2>1. Pow2(left + 8) = N * Pow2(8) /\ Pow2((left + 8) + 8) = Pow2(left + 8) * Pow2(8)
    <3>1. left \in Nat /\ 8 \in Nat /\ left + 8 <= 24 /\ left + 8 \in Nat /\ (left + 8) + 8 <= 24
      BY <1>1
    <3>2. QED
      BY <3>1, PowerSum DEF N
  <2>2. (left + 8) + 8 = left + 16
    BY <1>1
  <2>3. QED
    BY <2>1, <2>2
<1> HIDE DEF N
<1>6. CASE k = 0
  <2>1. left + 8 * 0 = left /\ 24 - (bit % 8) - bits = 16 + (left + 8 * 0 - bits)
    BY <1>1
  <2>2. Taken(packed, LeftOver(packed, m, left), m, 0) = One(packed, n) % Pow2(left + 8 * 0)
    BY <1>3, <2>1 DEF Taken, N
  <2>3. One(packed, n) = 256 * 0 + ByteAt(packed, m + 0)
    <3>1. One(packed, n) = ByteAt(packed, m + 0)
      BY <1>1 DEF One
    <3>2. One(packed, n) \in Nat
      BY <1>2 DEF Numbers
    <3>3. QED
      BY <3>1, <3>2
  <2>4. ReadAs(packed, bits, bit, m, left, 0, One(packed, n), 16, 0)
    <3>1. One(packed, n) \in Nat
      BY <1>2 DEF Numbers
    <3>2. /\ Three(packed, bit \div 8) \in Nat
          /\ Three(packed, bit \div 8) \div Pow2(16) = One(packed, n)
      BY <1>1, <1>2 DEF Numbers
    <3>3. QED
      BY <2>1, <2>2, <2>3, <3>1, <3>2 DEF ReadAs
  <2>5. QED
    BY <1>6, <2>4
<1>7. (One(packed, n) % N) * 256 + ByteAt(packed, n + 2) = Two(packed, n) % (N * Pow2(8))
  <2>1. One(packed, n) \in Nat /\ ByteAt(packed, n + 2) \in 0 .. Pow2(8) - 1
    BY <1>2 DEF Numbers
  <2>2. Joint(One(packed, n), N, Pow2(8), ByteAt(packed, n + 2))
    BY <1>4, <2>1, JointHolds
  <2> DEFINE eight == Pow2(8)
             b == ByteAt(packed, n + 2)
  <2>3. (One(packed, n) % N) * eight + b = (One(packed, n) * eight + b) % (N * eight)
    BY <2>2 DEF Joint
  <2>4. Two(packed, n) = One(packed, n) * eight + b
    BY <1>4 DEF Two
  <2>5. eight = 256
    BY <1>4
  <2> HIDE DEF eight, b
  <2>6. (One(packed, n) % N) * 256 + b = Two(packed, n) % (N * eight)
    BY <2>3, <2>4, <2>5
  <2>7. QED
    BY <2>6 DEF eight, b
<1>8. CASE k = 1
  <2>1. left + 8 * 1 = left + 8 /\ 24 - (bit % 8) - bits = 8 + (left + 8 * 1 - bits)
    BY <1>1
  <2>2. Taken(packed, LeftOver(packed, m, left), m, 1) = Two(packed, n) % Pow2(left + 8 * 1)
    <3>1. Taken(packed, LeftOver(packed, m, left), m, 1) = LeftOver(packed, m, left) * 256 + ByteAt(packed, m + 1)
      BY DEF Taken
    <3>2. QED
      BY <1>1, <1>3, <1>5, <1>7, <2>1, <3>1
  <2>3. ReadAs(packed, bits, bit, m, left, 1, Two(packed, n), 8, One(packed, n))
    <3>1. Two(packed, n) \in Nat /\ One(packed, n) \in Nat
      BY <1>2 DEF Numbers
    <3>2. /\ Three(packed, bit \div 8) \in Nat
          /\ Three(packed, bit \div 8) \div Pow2(8) = Two(packed, n)
      BY <1>1, <1>2 DEF Numbers
    <3>3. Two(packed, n) = 256 * One(packed, n) + ByteAt(packed, m + 1)
      BY <1>1, <1>2 DEF Numbers
    <3>4. QED
      BY <2>1, <2>2, <3>1, <3>2, <3>3 DEF ReadAs
  <2>4. QED
    BY <1>8, <2>3
<1>9. CASE k = 2
  <2>1. left + 8 * 2 = left + 16 /\ 24 - (bit % 8) - bits = 0 + (left + 8 * 2 - bits)
    BY <1>1
  <2>2. Taken(packed, LeftOver(packed, m, left), m, 2) = Three(packed, n) % Pow2(left + 8 * 2)
    <3>1. Taken(packed, LeftOver(packed, m, left), m, 2)
            = (LeftOver(packed, m, left) * 256 + ByteAt(packed, m + 1)) * 256 + ByteAt(packed, m + 2)
      BY DEF Taken
    <3>2. Taken(packed, LeftOver(packed, m, left), m, 2)
            = (Two(packed, n) % (N * Pow2(8))) * 256 + ByteAt(packed, n + 3)
      <4>1. LeftOver(packed, m, left) * 256 + ByteAt(packed, m + 1) = Two(packed, n) % (N * Pow2(8))
        BY <1>1, <1>3, <1>7
      <4>2. ByteAt(packed, m + 2) = ByteAt(packed, n + 3)
        BY <1>1
      <4> DEFINE x == LeftOver(packed, m, left) * 256 + ByteAt(packed, m + 1)
                 y == Two(packed, n) % (N * Pow2(8))
                 c == ByteAt(packed, m + 2)
                 d == ByteAt(packed, n + 3)
      <4>3. Taken(packed, LeftOver(packed, m, left), m, 2) = x * 256 + c
        BY <3>1
      <4>4. x = y /\ c = d
        BY <4>1, <4>2
      <4> HIDE DEF x, y, c, d
      <4>5. Taken(packed, LeftOver(packed, m, left), m, 2) = y * 256 + d
        BY <4>3, <4>4
      <4>6. QED
        BY <4>5 DEF y, d
    <3>3. Two(packed, n) \in Nat /\ N * Pow2(8) \in Nat \ {0} /\ ByteAt(packed, n + 3) \in 0 .. Pow2(8) - 1
      <4>1. Two(packed, n) \in Nat /\ ByteAt(packed, n + 3) \in 0 .. Pow2(8) - 1
        BY <1>2, Zenon DEF Numbers
      <4> DEFINE eight == Pow2(8)
      <4>2. eight \in Nat \ {0}
        BY <1>4
      <4> HIDE DEF eight
      <4>3. N * eight \in Nat \ {0}
        BY <1>4, <4>2
      <4>4. QED
        BY <4>1, <4>3 DEF eight
    <3>4. Joint(Two(packed, n), N * Pow2(8), Pow2(8), ByteAt(packed, n + 3))
      <4> DEFINE k1 == N * Pow2(8)
      <4>1. k1 \in Nat \ {0}
        BY <3>3
      <4> HIDE DEF k1
      <4>2. Joint(Two(packed, n), k1, Pow2(8), ByteAt(packed, n + 3))
        BY <1>4, <3>3, <4>1, JointHolds
      <4>3. QED
        BY <4>2 DEF k1
    <3>5. Two(packed, n) * Pow2(8) + ByteAt(packed, n + 3) = Three(packed, n)
      BY <1>2, <1>4 DEF Numbers
    <3>6. QED
      <4> DEFINE eight == Pow2(8)
                 k1 == N * eight
                 c == ByteAt(packed, n + 3)
                 all == Pow2(left + 8 * 2)
      <4>1. (Two(packed, n) % k1) * eight + c = (Two(packed, n) * eight + c) % (k1 * eight)
        BY <3>4 DEF Joint
      <4>2. eight = 256 /\ all = k1 * eight
        BY <1>4, <1>5, <2>1
      <4>3. Taken(packed, LeftOver(packed, m, left), m, 2) = (Two(packed, n) % k1) * 256 + c
        BY <3>2
      <4>4. Two(packed, n) * eight + c = Three(packed, n)
        BY <3>5
      <4> HIDE DEF eight, k1, c, all
      <4>5. Taken(packed, LeftOver(packed, m, left), m, 2) = Three(packed, n) % all
        BY <4>1, <4>2, <4>3, <4>4
      <4>6. QED
        BY <4>5 DEF all
  <2>3. ReadAs(packed, bits, bit, m, left, 2, Three(packed, n), 0, Two(packed, n))
    <3>1. Three(packed, n) \in Nat /\ Two(packed, n) \in Nat
      BY <1>2 DEF Numbers
    <3>2. /\ Three(packed, bit \div 8) \in Nat
          /\ Three(packed, bit \div 8) \div Pow2(0) = Three(packed, n)
      BY <1>1, <1>2 DEF Numbers
    <3>3. Three(packed, n) = 256 * Two(packed, n) + ByteAt(packed, m + 2)
      BY <1>1, <1>2 DEF Numbers
    <3>4. QED
      BY <2>1, <2>2, <3>1, <3>2, <3>3 DEF ReadAs
  <2>4. QED
    BY <1>9, <2>3
<1>10. QED
  BY <1>1, <1>6, <1>8, <1>9

-----------------------------------------------------------------------------
(* Two functions that begin alike and go on alike are alike.               *)
Alike(F, W, lo, hi) ==
  F[lo] = W[lo] /\ \A n \in lo + 1 .. hi : F[n - 1] = W[n - 1] => F[n] = W[n]

(* By induction over the range.                                            *)
LEMMA SameRecursion ==
  ASSUME NEW lo \in Nat, NEW hi \in Nat, NEW F, NEW W, Alike(F, W, lo, hi)
  PROVE  \A n \in lo .. hi : F[n] = W[n]
<1> DEFINE S == {k \in Nat : lo + k <= hi => F[lo + k] = W[lo + k]}
<1> USE DEF Alike
<1>1. 0 \in S
  OBVIOUS
<1>2. ASSUME NEW k \in Nat, k \in S PROVE k + 1 \in S
  <2> SUFFICES ASSUME lo + (k + 1) <= hi PROVE F[lo + (k + 1)] = W[lo + (k + 1)]
    OBVIOUS
  <2>1. lo + (k + 1) \in lo + 1 .. hi /\ (lo + (k + 1)) - 1 = lo + k /\ lo + k <= hi
    OBVIOUS
  <2>2. F[lo + k] = W[lo + k]
    BY <1>2, <2>1
  <2>3. QED
    BY <2>1, <2>2
<1> HIDE DEF S
<1>3. ASSUME NEW n \in lo .. hi PROVE F[n] = W[n]
  <2>1. n - lo \in S /\ n - lo \in Nat /\ lo + (n - lo) = n /\ n <= hi
    BY <1>1, <1>2, SetInduction
  <2>2. QED
    BY <2>1 DEF S
<1>4. QED
  BY <1>3

(* The bytes taken for a sample, as the loop takes them.                   *)
TakenBy(packed, acc, next, k) ==
  LET taken[j \in 0 .. k] == IF j = 0 THEN acc ELSE taken[j - 1] * 256 + ByteAt(packed, next + j)
  IN  taken[k]

(* The bytes taken for a sample, without the recursion: two at most.       *)
LEMMA TakenIs ==
  ASSUME NEW packed, NEW acc, NEW next, NEW k \in 0 .. 2
  PROVE  TakenBy(packed, acc, next, k) = Taken(packed, acc, next, k)
<1> DEFINE More(a, j) == a * 256 + ByteAt(packed, next + j)
           Eq(s) == s = [j \in 0 .. k |-> IF j = 0 THEN acc ELSE More(s[j - 1], j)]
           F == CHOOSE s : Eq(s)
           W == [j \in 0 .. k |-> Taken(packed, acc, next, j)]
<1>1. TakenBy(packed, acc, next, k) = F[k]
  BY DEF TakenBy
<1>2. /\ Taken(packed, acc, next, 0) = acc
      /\ Taken(packed, acc, next, 1) = More(acc, 1)
      /\ Taken(packed, acc, next, 2) = More(More(acc, 1), 2)
  BY DEF Taken
<1> HIDE DEF More
<1>3. Eq(W)
  <2>1. ASSUME NEW j \in 0 .. k PROVE W[j] = IF j = 0 THEN acc ELSE More(W[j - 1], j)
    <3>1. CASE j = 0
      BY <1>2, <3>1
    <3>2. CASE j = 1
      <4>1. 0 \in 0 .. k /\ j # 0 /\ j - 1 = 0
        BY <3>2
      <4>2. W[0] = acc
        BY <1>2, <4>1
      <4>3. QED
        BY <1>2, <3>2, <4>1, <4>2
    <3>3. CASE j = 2
      <4>1. 1 \in 0 .. k /\ j # 0 /\ j - 1 = 1
        BY <3>3
      <4>2. W[1] = More(acc, 1)
        BY <1>2, <4>1
      <4>3. QED
        BY <1>2, <3>3, <4>1, <4>2
    <3>4. QED
      BY <3>1, <3>2, <3>3
  <2>2. W = [j \in 0 .. k |-> W[j]]
    OBVIOUS
  <2> HIDE DEF W
  <2>3. QED
    BY <2>1, <2>2
<1>4. Eq(F)
  <2> HIDE DEF Eq
  <2>1. QED
    BY <1>3, Zenon
<1> HIDE DEF F
<1>5. \A j \in 0 .. k : F[j] = IF j = 0 THEN acc ELSE More(F[j - 1], j)
  BY <1>4, Zenon
<1> HIDE DEF Eq
<1>6. CASE k = 0
  BY <1>1, <1>2, <1>5, <1>6
<1>7. CASE k = 1
  <2>1. 0 \in 0 .. k /\ 1 \in 0 .. k /\ 1 # 0 /\ 1 - 1 = 0
    BY <1>7
  <2>2. F[0] = acc
    BY <1>5, <2>1
  <2>3. F[1] = More(F[0], 1)
    BY <1>5, <2>1
  <2>4. QED
    BY <1>1, <1>2, <1>7, <2>2, <2>3
<1>8. CASE k = 2
  <2>1. 0 \in 0 .. k /\ 1 \in 0 .. k /\ 2 \in 0 .. k /\ 1 # 0 /\ 2 # 0 /\ 1 - 1 = 0 /\ 2 - 1 = 1
    BY <1>8
  <2>2. F[0] = acc
    BY <1>5, <2>1
  <2>3. F[1] = More(F[0], 1)
    BY <1>5, <2>1
  <2>4. F[2] = More(F[1], 2)
    BY <1>5, <2>1
  <2>5. QED
    BY <1>1, <1>2, <1>8, <2>2, <2>3, <2>4
<1>9. QED
  BY <1>6, <1>7, <1>8

(* The same step, by the names above.                                      *)
SampleFrom(packed, bits, state, k, new, number) ==
  [acc |-> number % Pow2(new), nbits |-> new, next |-> state.next + k,
   out |-> Append(state.out, (number \div Pow2(new)) % Pow2(bits))]
SampleNext(packed, bits, state, k) ==
  SampleFrom(packed, bits, state, k, state.nbits + 8 * k - bits, TakenBy(packed, state.acc, state.next, k))

(* NextSample and PackedSample, by named parts.                            *)
LEMMA SampleByNames ==
  ASSUME NEW packed, NEW bits, NEW state
  PROVE  NextSample(packed, bits, state) = SampleNext(packed, bits, state, NeedBytes(bits, state.nbits))
BY DEF NextSample, SampleNext, SampleFrom, TakenBy, NeedBytes, Pow2

SampleAt(packed, bits, bit) == (Three(packed, bit \div 8) \div Pow2(24 - (bit % 8) - bits)) % Pow2(bits)

LEMMA SampleAtBit ==
  ASSUME NEW packed, NEW bits, NEW i
  PROVE  PackedSample(packed, bits, i) = SampleAt(packed, bits, (i - 1) * bits)
BY DEF PackedSample, SampleAt, Three, Pow2

LowOf(n, z, c) == (256 * z + c) % Pow2(n) = c % Pow2(n)

(* LowBits, as a predicate.                                                *)
LEMMA LowHolds ==
  ASSUME NEW n \in 0 .. 7, NEW z \in Nat, NEW c \in Byte
  PROVE  LowOf(n, z, c)
BY LowBits DEF LowOf

(* One sample further, the state is that of one sample more.               *)
LEMMA NextSampleIs ==
  ASSUME NEW packed \in Seq(Byte), NEW bits \in 1 .. 15, NEW i \in Nat
  PROVE  NextSample(packed, bits, After(packed, bits, i)) = After(packed, bits, i + 1)
<1> DEFINE m == BytesTaken(bits, i)
           left == BitsLeft(bits, i)
           k == NeedBytes(bits, left)
           new == left + 8 * k - bits
           bit == i * bits
           st == After(packed, bits, i)
           T == TakenBy(packed, st.acc, m, k)
<1>1. /\ Located(bits, bit, m, left, k) /\ bit \in Nat /\ m + k \in Nat \ {0} /\ new \in 0 .. 7
      /\ BytesTaken(bits, i + 1) = m + k /\ BitsLeft(bits, i + 1) = new
      /\ left \in 0 .. 7 /\ k \in 0 .. 2
  <2>1. bits \in 1 .. 16
    OBVIOUS
  <2> HIDE DEF m, left, k
  <2>2. /\ m \in Nat /\ left \in 0 .. 7 /\ k \in 0 .. 2
        /\ left = 0 => k # 0
        /\ BytesTaken(bits, i + 1) = m + k
        /\ BitsLeft(bits, i + 1) = left + 8 * k - bits
        /\ BitsLeft(bits, i + 1) \in 0 .. 7
        /\ i * bits \in Nat
        /\ left = 0 => (i * bits) \div 8 = m /\ (i * bits) % 8 = 0
        /\ left # 0 => m \in Nat \ {0} /\ (i * bits) \div 8 = m - 1 /\ (i * bits) % 8 = 8 - left
    BY <2>1, BitPositions, Zenon DEF m, left, k
  <2> HIDE DEF bit
  <2>3. /\ bit \in Nat
        /\ left = 0 => bit \div 8 = m /\ bit % 8 = 0
        /\ left # 0 => m \in Nat \ {0} /\ bit \div 8 = m - 1 /\ bit % 8 = 8 - left
    BY <2>2, Zenon DEF bit
  <2>4. Located(bits, bit, m, left, k)
    BY <2>2, <2>3 DEF Located
  <2>5. QED
    BY <2>1, <2>2, <2>3, <2>4, SMTT(40)
<1>2. st.acc = LeftOver(packed, m, left) /\ st.nbits = left /\ st.next = m
      /\ st.out = [j \in 1 .. i |-> PackedSample(packed, bits, j)]
  BY DEF After, LeftOver, LastByte
<1>3. NextSample(packed, bits, st) =
        [acc |-> T % Pow2(new), nbits |-> new, next |-> m + k,
         out |-> Append(st.out, (T \div Pow2(new)) % Pow2(bits))]
  <2>1. NextSample(packed, bits, st) = SampleNext(packed, bits, st, NeedBytes(bits, st.nbits))
    BY SampleByNames, Zenon
  <2>2. NeedBytes(bits, st.nbits) = k
    BY <1>2
  <2> HIDE DEF st
  <2>3. SampleNext(packed, bits, st, k) = SampleFrom(packed, bits, st, k, new, T)
    BY <1>2, Zenon DEF SampleNext
  <2> HIDE DEF T, new, k, left, m
  <2>4. NextSample(packed, bits, st) = SampleFrom(packed, bits, st, k, new, T)
    BY <2>1, <2>2, <2>3, Zenon
  <2>5. QED
    BY <1>2, <2>4, Zenon DEF SampleFrom
<1>4. T = Taken(packed, LeftOver(packed, m, left), m, k)
  BY <1>1, <1>2, TakenIs
<1> HIDE DEF T, st, m, left, k, new, bit
<1>5. PICK y, e, z : ReadAs(packed, bits, bit, m, left, k, y, e, z)
  <2>1. CASE left = 0
    BY <1>1, <2>1, ReadWhole
  <2>2. CASE left # 0
    BY <1>1, <2>2, ReadOver
  <2>3. QED
    BY <2>1, <2>2
<1> DEFINE A == Pow2(new)
           M == Pow2(bits)
           E == Pow2(e)
           three == Three(packed, bit \div 8)
<1>6. /\ y \in Nat /\ e \in {0, 8, 16} /\ z \in Nat /\ three \in Nat /\ three \div E = y
      /\ T = y % Pow2(left + 8 * k) /\ y = 256 * z + ByteAt(packed, m + k)
      /\ 24 - (bit % 8) - bits = e + new
  BY <1>4, <1>5 DEF ReadAs, new
<1>7. A \in Nat \ {0} /\ M \in Nat \ {0} /\ E \in Nat \ {0}
  <2>1. new \in 0 .. 24 /\ bits \in 0 .. 24 /\ e \in 0 .. 24
    BY <1>1, <1>6
  <2>2. QED
    BY <2>1, PowerIsNatural
<1>8. Pow2(left + 8 * k) = A * M
  <2>1. left + 8 * k = new + bits
    BY <1>1 DEF new
  <2>2. new \in Nat /\ bits \in Nat /\ new + bits <= 24
    BY <1>1
  <2>3. QED
    BY <2>1, <2>2, PowerSum
<1>9. Pow2(24 - (bit % 8) - bits) = E * A
  <2>1. e \in Nat /\ new \in Nat /\ e + new <= 24
    BY <1>1, <1>6
  <2>2. QED
    BY <1>6, <2>1, PowerSum
<1> HIDE DEF A, M, E, three
<1>10. ((y % (A * M)) \div A) % M = (three \div (E * A)) % M /\ (y % (A * M)) % A = y % A
  <2>1. Parted(y, three, E, A, M)
    BY <1>6, <1>7, PartOfNumber
  <2>2. QED
    BY <2>1, Zenon DEF Parted
<1>11. (T \div A) % M = (three \div (E * A)) % M /\ T % A = y % A
  BY <1>6, <1>8, <1>10
<1>12. PackedSample(packed, bits, i + 1) = (three \div (E * A)) % M
  <2>1. (i + 1) - 1 = i
    OBVIOUS
  <2>2. PackedSample(packed, bits, i + 1) = (three \div Pow2(24 - (bit % 8) - bits)) % M
    <3>1. PackedSample(packed, bits, i + 1) = SampleAt(packed, bits, ((i + 1) - 1) * bits)
      BY SampleAtBit
    <3>2. ((i + 1) - 1) * bits = bit
      BY <2>1 DEF bit
    <3>3. PackedSample(packed, bits, i + 1) = SampleAt(packed, bits, bit)
      BY <3>1, <3>2
    <3>4. QED
      BY <3>3, Zenon DEF SampleAt, three, M
  <2>3. QED
    BY <1>9, <2>2
<1>13. T % A = LeftOver(packed, m + k, new)
  <2>1. ByteAt(packed, m + k) \in Byte
    BY <1>1, ByteType
  <2>2. CASE new = 0
    <3>1. A = 1
      BY <2>2, PowersKnown DEF A
    <3>2. y % 1 = 0
      BY <1>6
    <3>3. LeftOver(packed, m + k, new) = 0
      BY <2>2 DEF LeftOver
    <3>4. QED
      BY <1>11, <3>1, <3>2, <3>3
  <2>3. CASE new # 0
    <3>1. (256 * z + ByteAt(packed, m + k)) % A = ByteAt(packed, m + k) % A
      <4>1. LowOf(new, z, ByteAt(packed, m + k))
        BY <1>1, <1>6, <2>1, LowHolds
      <4>2. QED
        BY <4>1, Zenon DEF LowOf, A
    <3>2. LeftOver(packed, m + k, new) = ByteAt(packed, m + k) % A
      BY <2>3 DEF LeftOver, A
    <3>3. y = 256 * z + ByteAt(packed, m + k)
      BY <1>6
    <3>4. QED
      BY <1>11, <3>1, <3>2, <3>3, Zenon
  <2>4. QED
    BY <2>2, <2>3
<1>14. Append(st.out, PackedSample(packed, bits, i + 1)) = [j \in 1 .. i + 1 |-> PackedSample(packed, bits, j)]
  <2> DEFINE P(j) == PackedSample(packed, bits, j)
             s == [j \in 1 .. i |-> P(j)]
  <2>1. st.out = s
    BY <1>2
  <2> HIDE DEF P
  <2>2. s \in Seq({P(j) : j \in 1 .. i + 1}) /\ Len(s) = i /\ DOMAIN s = 1 .. i
    <3>1. s \in [1 .. i -> {P(j) : j \in 1 .. i + 1}]
      OBVIOUS
    <3>2. QED
      BY <3>1
  <2>3. Append(s, P(i + 1)) = [j \in 1 .. i + 1 |-> IF j = i + 1 THEN P(i + 1) ELSE s[j]]
    BY <2>2
  <2>4. \A j \in 1 .. i + 1 : (IF j = i + 1 THEN P(i + 1) ELSE s[j]) = P(j)
    OBVIOUS
  <2>5. Append(s, P(i + 1)) = [j \in 1 .. i + 1 |-> P(j)]
    BY <2>3, <2>4
  <2>6. QED
    BY <2>1, <2>5 DEF P
<1>15. After(packed, bits, i + 1) =
         [acc |-> LeftOver(packed, m + k, new), nbits |-> new, next |-> m + k,
          out |-> [j \in 1 .. i + 1 |-> PackedSample(packed, bits, j)]]
  BY <1>1, Zenon DEF After, LeftOver, LastByte
<1>16. NextSample(packed, bits, st) = After(packed, bits, i + 1)
  BY <1>3, <1>11, <1>12, <1>13, <1>14, <1>15, Zenon DEF A, M
<1>17. QED
  BY <1>16 DEF st

(* unpack_bits_to_samples (cog.rs:529-555): of any bytes, and of any       *)
(* number of samples of any width that is not whole bytes, the accumulator *)
(* neither loses nor repeats a bit.                                        *)
THEOREM UnpackedIs ==
  ASSUME NEW packed \in Seq(Byte), NEW bits \in 1 .. 15, NEW n \in Nat
  PROVE  Unpacked(packed, n, bits) = [i \in 1 .. n |-> PackedSample(packed, bits, i)]
<1> DEFINE first == [acc |-> 0, nbits |-> 0, next |-> 0, out |-> <<>>]
           Eq(s) == s = [i \in 0 .. n |-> IF i = 0 THEN first ELSE NextSample(packed, bits, s[i - 1])]
           F == CHOOSE s : Eq(s)
           W == [i \in 0 .. n |-> After(packed, bits, i)]
<1>1. Unpacked(packed, n, bits) = F[n].out
  BY DEF Unpacked
<1>2. After(packed, bits, 0) = first
  <2>1. BytesTaken(bits, 0) = 0 /\ BitsLeft(bits, 0) = 0
    <3>1. 0 * bits = 0
      OBVIOUS
    <3>2. BytesTaken(bits, 0) = 0
      <4>1. CeilDiv(0, 8) = 0
        <5> DEFINE c == CeilDiv(0, 8)
        <5>1. 0 \in Int /\ 8 \in Nat \ {0}
          OBVIOUS
        <5>2. c \in Int /\ 0 <= 8 * c /\ 8 * c < 0 + 8
          BY <5>1, Ceiling
        <5> HIDE DEF c
        <5>3. c = 0
          BY <5>2
        <5>4. QED
          BY <5>3 DEF c
      <4>2. QED
        BY <3>1, <4>1, Zenon DEF BytesTaken
    <3>3. QED
      BY <3>1, <3>2 DEF BitsLeft
  <2>2. [j \in 1 .. 0 |-> PackedSample(packed, bits, j)] = <<>>
    OBVIOUS
  <2>3. QED
    BY <2>1, <2>2, Zenon DEF After
<1> HIDE DEF first
<1>3. \A i \in 1 .. n : i - 1 \in Nat /\ i - 1 \in 0 .. n /\ (i - 1) + 1 = i /\ i # 0
  OBVIOUS
<1>4. Eq(W)
  <2>1. ASSUME NEW i \in 0 .. n
        PROVE  After(packed, bits, i) = IF i = 0 THEN first ELSE NextSample(packed, bits, W[i - 1])
    <3>1. CASE i = 0
      BY <1>2, <3>1
    <3>2. CASE i # 0
      <4>1. i \in 1 .. n
        BY <3>2
      <4>2. W[i - 1] = After(packed, bits, i - 1)
        BY <1>3, <4>1
      <4> HIDE DEF W
      <4>3. NextSample(packed, bits, After(packed, bits, i - 1)) = After(packed, bits, (i - 1) + 1)
        BY <1>3, <4>1, NextSampleIs
      <4>4. QED
        BY <1>3, <3>2, <4>1, <4>2, <4>3, Zenon
    <3>3. QED
      BY <3>1, <3>2
  <2>2. QED
    BY <2>1, Zenon
<1>5. Eq(F)
  <2> HIDE DEF Eq
  <2>1. QED
    BY <1>4, Zenon
<1> HIDE DEF F, W
<1>6. \A i \in 0 .. n : F[i] = W[i]
  <2>1. \A i \in 0 .. n : F[i] = IF i = 0 THEN first ELSE NextSample(packed, bits, F[i - 1])
    BY <1>5, Zenon
  <2>2. \A i \in 0 .. n : W[i] = IF i = 0 THEN first ELSE NextSample(packed, bits, W[i - 1])
    BY <1>4, Zenon
  <2> HIDE DEF Eq
  <2>3. 0 \in 0 .. n /\ 0 \in Nat /\ \A i \in 0 + 1 .. n : i \in 0 .. n /\ i # 0
    OBVIOUS
  <2>4. F[0] = W[0]
    BY <2>1, <2>2, <2>3, Zenon
  <2>5. \A i \in 0 + 1 .. n : F[i - 1] = W[i - 1] => F[i] = W[i]
    BY <2>1, <2>2, <2>3, Zenon
  <2>6. QED
    <3>1. Alike(F, W, 0, n)
      BY <2>4, <2>5 DEF Alike
    <3>2. QED
      BY <2>3, <3>1, SameRecursion
<1>7. F[n] = After(packed, bits, n)
  <2>1. n \in 0 .. n
    OBVIOUS
  <2>2. QED
    BY <1>6, <2>1 DEF W
<1>8. After(packed, bits, n).out = [i \in 1 .. n |-> PackedSample(packed, bits, i)]
  BY DEF After
<1>9. QED
  BY <1>1, <1>7, <1>8

-----------------------------------------------------------------------------
(* A row and the differences stored of it.                                 *)
Value(p, c) == IF c <= 0 THEN 0 ELSE p[c]
Diff(p, L, word) == [c \in 1 .. L |-> (p[c] - Value(p, c - 1)) % word]
Prefix(p, m) == [i \in 1 .. m |-> p[i]]

LEMMA ValueType ==
  ASSUME NEW L \in Nat, NEW p \in [1 .. L -> Nat], NEW c \in Int, c <= L
  PROVE  Value(p, c) \in Int
BY DEF Value

(* What is added back gives the sample.                                    *)
Undone(p, q, word) == (q + ((p - q) % word)) % word = p

(* Adding a difference to what it was taken from, modulo the word.         *)
LEMMA AddedBack ==
  ASSUME NEW word \in Nat \ {0}, NEW p \in 0 .. word - 1, NEW q \in Int
  PROVE  Undone(p, q, word)
<1> DEFINE m == (p - q) \div word
           r == (p - q) % word
<1>1. p - q \in Int
  OBVIOUS
<1>2. m \in Int /\ r \in Int /\ p - q = word * m + r
  BY <1>1, Quotient, Remainder
<1> HIDE DEF m, r
<1>3. word * (-m) = -(word * m) /\ word * m \in Int
  BY <1>2
<1>4. q + r = word * (-m) + p
  BY <1>2, <1>3
<1>5. (word * (-m) + p) % word = p
  <2>1. -m \in Int
    BY <1>2
  <2>2. QED
    BY <2>1, RemainderIs
<1>6. QED
  BY <1>4, <1>5 DEF Undone, r

(* The first m samples, and the last of them.                              *)
LEMMA PrefixIs ==
  ASSUME NEW L \in Nat, NEW p \in [1 .. L -> Nat], NEW m \in 0 .. L
  PROVE  /\ Prefix(p, m) \in Seq(Nat) /\ Len(Prefix(p, m)) = m
         /\ Carry(Prefix(p, m)) = Value(p, m)
<1>1. \A i \in 1 .. m : i \in 1 .. L
  OBVIOUS
<1>2. Prefix(p, m) \in [1 .. m -> Nat]
  BY <1>1 DEF Prefix
<1>3. Prefix(p, m) \in Seq(Nat) /\ Len(Prefix(p, m)) = m
  BY <1>2
<1>4. CASE m = 0
  <2>1. Prefix(p, m) = <<>>
    BY <1>3, <1>4
  <2>2. QED
    BY <1>3, <1>4, <2>1 DEF Carry, Value
<1>5. CASE m # 0
  <2>1. Prefix(p, m) # <<>> /\ m \in 1 .. m
    BY <1>3, <1>5
  <2>2. Last(Prefix(p, m)) = p[m]
    BY <1>3, <2>1 DEF Last, Prefix
  <2>3. QED
    BY <1>3, <1>5, <2>1, <2>2 DEF Carry, Value
<1>6. QED
  BY <1>4, <1>5

(* One difference more, one sample more.                                   *)
LEMMA AddOneIs ==
  ASSUME NEW word \in Nat \ {0}, NEW L \in Nat, NEW p \in [1 .. L -> 0 .. word - 1], NEW n \in 1 .. L
  PROVE  AddOne(Prefix(p, n - 1), Diff(p, L, word)[n], word) = Prefix(p, n)
<1> DEFINE q == Value(p, n - 1)
           s == Prefix(p, n - 1)
<1>1. p \in [1 .. L -> Nat] /\ n - 1 \in 0 .. L /\ n - 1 \in Int /\ n - 1 <= L
  OBVIOUS
<1>2. s \in Seq(Nat) /\ Len(s) = n - 1 /\ Carry(s) = q /\ q \in Int
  BY <1>1, PrefixIs, ValueType
<1>3. (q + ((p[n] - q) % word)) % word = p[n]
  <2>1. p[n] \in 0 .. word - 1
    OBVIOUS
  <2>2. Undone(p[n], q, word)
    BY <1>2, <2>1, AddedBack
  <2>3. QED
    BY <2>2 DEF Undone
<1>4. Diff(p, L, word)[n] = (p[n] - q) % word
  BY DEF Diff
<1>5. AddOne(s, Diff(p, L, word)[n], word) = Append(s, p[n])
  BY <1>2, <1>3, <1>4, Zenon DEF AddOne
<1>6. Append(s, p[n]) = Prefix(p, n)
  <2>1. \A i \in 1 .. n - 1 : s[i] = p[i]
    BY DEF Prefix
  <2> HIDE DEF s
  <2>2. Append(s, p[n]) = [i \in 1 .. n |-> IF i = n THEN p[n] ELSE s[i]]
    BY <1>2
  <2>3. \A i \in 1 .. n : (IF i = n THEN p[n] ELSE s[i]) = p[i]
    BY <2>1
  <2>4. QED
    BY <2>2, <2>3 DEF Prefix
<1>7. QED
  BY <1>5, <1>6

(* A recursion that gives the prefixes of p.                               *)
LEMMA InvertedBytesIs ==
  ASSUME NEW L \in Nat, NEW p \in [1 .. L -> 0 .. 255]
  PROVE  InvertedBytes(Diff(p, L, 256)) = p
<1> DEFINE row == Diff(p, L, 256)
           Eq(s) == s = [n \in 0 .. L |-> IF n = 0 THEN <<>> ELSE AddOne(s[n - 1], row[n], 256)]
           F == CHOOSE s : Eq(s)
           W == [n \in 0 .. L |-> Prefix(p, n)]
<1>0. p \in [1 .. L -> Nat]
  <2>1. \A v \in 0 .. 255 : v \in Nat
    OBVIOUS
  <2>2. QED
    BY <2>1, Zenon
<1>1. row \in Seq(Int) /\ Len(row) = L
  <2>1. row \in [1 .. L -> Int]
    <3>1. \A c \in 1 .. L : (p[c] - Value(p, c - 1)) % 256 \in Int
      <4> TAKE c \in 1 .. L
      <4>1. Value(p, c - 1) \in Int /\ p[c] \in Int
        <5>1. c - 1 \in Int /\ c - 1 <= L
          OBVIOUS
        <5>2. p[c] \in Int
          BY <1>0
        <5>3. QED
          BY <1>0, <5>1, <5>2, ValueType
      <4>2. QED
        BY <4>1
    <3>2. QED
      BY <3>1 DEF Diff
  <2>2. QED
    BY <2>1
<1> HIDE DEF row
<1>2. InvertedBytes(row) = F[L]
  BY <1>1 DEF InvertedBytes
<1>3. Prefix(p, 0) = <<>> /\ Prefix(p, L) = p
  BY DEF Prefix
<1>4. \A n \in 1 .. L : n # 0 /\ n \in 0 .. L /\ n - 1 \in 0 .. L
  OBVIOUS
<1>5. \A n \in 1 .. L : AddOne(Prefix(p, n - 1), row[n], 256) = Prefix(p, n)
  <2> TAKE n \in 1 .. L
  <2>1. 256 \in Nat \ {0} /\ p \in [1 .. L -> 0 .. 256 - 1]
    <3>1. 256 \in Nat \ {0} /\ 256 - 1 = 255
      OBVIOUS
    <3>2. QED
      BY <3>1
  <2> DEFINE word == 256
  <2>2. word \in Nat \ {0} /\ p \in [1 .. L -> 0 .. word - 1] /\ row = Diff(p, L, word)
    BY <2>1 DEF row
  <2> HIDE DEF word
  <2>3. AddOne(Prefix(p, n - 1), Diff(p, L, word)[n], word) = Prefix(p, n)
    BY <2>2, AddOneIs
  <2>4. QED
    BY <2>2, <2>3 DEF word
<1>6. \A n \in 0 .. L : n = 0 \/ n \in 1 .. L
  OBVIOUS
<1>7. 0 \in 0 .. L /\ L \in 0 .. L /\ 0 \in Nat
  OBVIOUS
<1> DEFINE word == 256
<1>8. word = 256
  OBVIOUS
<1> HIDE DEF word
<1>9. Eq(W)
  <2>1. \A n \in 1 .. L : AddOne(W[n - 1], row[n], 256) = Prefix(p, n)
    BY <1>4, <1>5
  <2>2. \A n \in 0 .. L : Prefix(p, n) = IF n = 0 THEN <<>> ELSE AddOne(W[n - 1], row[n], 256)
    BY <1>3, <1>4, <1>6, <2>1
  <2>3. QED
    BY <2>2
<1>10. Eq(F)
  <2> HIDE DEF Eq
  <2>1. QED
    BY <1>9, Zenon
<1> HIDE DEF F
<1>11. \A n \in 0 .. L : F[n] = W[n]
  <2>1. \A n \in 0 .. L : F[n] = IF n = 0 THEN <<>> ELSE AddOne(F[n - 1], row[n], 256)
    BY <1>10
  <2>2. \A n \in 0 .. L : W[n] = IF n = 0 THEN <<>> ELSE AddOne(W[n - 1], row[n], 256)
    BY <1>9
  <2> HIDE DEF Eq, W
  <2>3. F[0] = W[0]
    BY <1>7, <2>1, <2>2
  <2>4. \A n \in 0 + 1 .. L : F[n - 1] = W[n - 1] => F[n] = W[n]
    BY <1>4, <2>1, <2>2
  <2>5. Alike(F, W, 0, L)
    BY <2>3, <2>4 DEF Alike
  <2>6. QED
    BY <1>7, <2>5, SameRecursion
<1>12. F[L] = p
  BY <1>3, <1>7, <1>11
<1>13. QED
  BY <1>2, <1>12 DEF row

-----------------------------------------------------------------------------
(* The sums of a block of differences that begins after b samples: after   *)
(* k strides each lane holds the difference to the sample Width(k) before  *)
(* it, or to the one before the block.                                     *)
Width(k) == IF k = 0 THEN 1 ELSE 2 * Strides[k]
Back(i, k) == IF i > Width(k) THEN i - Width(k) ELSE 0
Partial(p, b, k) == [i \in 1 .. Lanes |-> (p[b + i] - Value(p, b + Back(i, k))) % Word]

Telescoped(x, y, z) == (((x - y) % Word) + ((y - z) % Word)) % Word = (x - z) % Word

(* Differences of neighbours add up, modulo the word.                      *)
LEMMA Telescopes ==
  ASSUME NEW x \in Int, NEW y \in Int, NEW z \in Int
  PROVE  Telescoped(x, y, z) /\ (((x - y) % Word) + 0) % Word = (x - y) % Word
<1>1. (((x - y) % 65536) + ((y - z) % 65536)) % 65536 = (x - z) % 65536
  OBVIOUS
<1>2. (((x - y) % 65536) + 0) % 65536 = (x - y) % 65536
  OBVIOUS
<1>3. QED
  BY <1>1, <1>2 DEF Telescoped, Word

(* A stride is as wide as the sums so far, and the last reach over the     *)
(* block.                                                                  *)
LEMMA WidthType ==
  ASSUME NEW k \in 0 .. Len(Strides)
  PROVE  /\ Width(k) \in Nat \ {0}
         /\ k # 0 => Strides[k] = Width(k - 1) /\ Width(k) = 2 * Width(k - 1)
         /\ Lanes <= Width(Len(Strides))
<1>1. /\ Strides \in Seq(Nat \ {0}) /\ Lanes <= (IF Strides = <<>> THEN 1 ELSE 2 * Last(Strides))
      /\ \A j \in DOMAIN Strides : Strides[j] = IF j = 1 THEN 1 ELSE 2 * Strides[j - 1]
  BY StridesAssumption DEF StridesAssumption
<1>2. DOMAIN Strides = 1 .. Len(Strides) /\ Len(Strides) \in Nat /\ \A j \in 1 .. Len(Strides) : Strides[j] \in Nat \ {0}
  BY <1>1
<1>3. Width(k) \in Nat \ {0}
  <2>1. CASE k = 0
    BY <2>1 DEF Width
  <2>2. CASE k # 0
    <3>1. k \in 1 .. Len(Strides)
      BY <2>2
    <3>2. QED
      BY <1>2, <2>2, <3>1 DEF Width
  <2>3. QED
    BY <2>1, <2>2
<1>4. ASSUME k # 0 PROVE Strides[k] = Width(k - 1) /\ Width(k) = 2 * Width(k - 1)
  <2>1. k \in 1 .. Len(Strides) /\ Strides[k] = IF k = 1 THEN 1 ELSE 2 * Strides[k - 1]
    <3>1. k \in 1 .. Len(Strides)
      BY <1>4
    <3>2. k \in DOMAIN Strides
      BY <1>2, <3>1, Zenon
    <3>3. QED
      BY <1>1, <3>1, <3>2, Zenon
  <2>2. Strides[k] = Width(k - 1)
    BY <2>1 DEF Width
  <2>3. QED
    BY <1>4, <2>2 DEF Width
<1>5. Lanes <= Width(Len(Strides))
  <2>1. CASE Strides = <<>>
    BY <1>1, <2>1 DEF Width
  <2>2. CASE Strides # <<>>
    <3>1. Len(Strides) # 0 /\ Last(Strides) = Strides[Len(Strides)]
      BY <1>1, <2>2 DEF Last
    <3>2. QED
      BY <1>1, <2>2, <3>1 DEF Width
  <2>3. QED
    BY <2>1, <2>2
<1>6. QED
  BY <1>3, <1>4, <1>5

(* One lane of one stride.                                                 *)
Lane(v, i, d) == (v[i] + (IF i > d THEN v[i - d] ELSE 0)) % Word

(* A stride doubles how far back each lane's difference goes.              *)
LEMMA LaneIs ==
  ASSUME NEW L \in Nat, NEW p \in [1 .. L -> Nat], NEW b \in Nat, b + Lanes <= L,
         NEW k \in 1 .. Len(Strides), NEW i \in 1 .. Lanes
  PROVE  Lane(Partial(p, b, k - 1), i, Strides[k]) = (p[b + i] - Value(p, b + Back(i, k))) % Word
<1> DEFINE d == Strides[k]
           v == Partial(p, b, k - 1)
<1>1. d \in Nat \ {0} /\ d = Width(k - 1) /\ Width(k) = 2 * d
  <2>1. k \in 0 .. Len(Strides) /\ k # 0 /\ k - 1 \in 0 .. Len(Strides)
    OBVIOUS
  <2>2. Width(k - 1) \in Nat \ {0} /\ Strides[k] = Width(k - 1) /\ Width(k) = 2 * Width(k - 1)
    BY <2>1, WidthType
  <2>3. QED
    BY <2>2
<1>2. Lanes \in Nat \ {0}
  BY LanesAssumption DEF LanesAssumption
<1>3. \A j \in 1 .. Lanes : v[j] = (p[b + j] - Value(p, b + Back(j, k - 1))) % Word
  BY DEF Partial
<1> HIDE DEF d, v
<1>8. d \in Nat /\ d > 0
  BY <1>1
<1>4. p[b + i] \in Int
  <2>1. b + i \in 1 .. L
    BY <1>2
  <2>2. QED
    BY <2>1
<1>5. CASE i > d
  <2> DEFINE j == i - d
  <2>1. j \in 1 .. Lanes /\ b + j \in 1 .. L /\ b + j > 0 /\ b + j \in Int
    BY <1>2, <1>5, <1>8
  <2>2. Back(i, k - 1) = j /\ Back(j, k - 1) = Back(i, k) /\ Back(i, k) \in Int /\ b + Back(i, k) <= L
    <3>1. Width(k - 1) = d /\ Width(k) = 2 * d
      BY <1>1
    <3>2. Back(i, k - 1) = j
      BY <1>5, <3>1 DEF Back
    <3>3. Back(j, k - 1) = IF j > d THEN j - d ELSE 0
      BY <3>1 DEF Back
    <3>4. Back(i, k) = IF i > 2 * d THEN i - 2 * d ELSE 0
      BY <3>1 DEF Back
    <3>5. i \in Nat /\ i <= Lanes
      BY <1>2
    <3>6. Back(j, k - 1) = Back(i, k) /\ Back(i, k) \in Int
      BY <1>8, <3>3, <3>4, <3>5
    <3>7. Back(i, k) <= i
      BY <1>8, <3>4, <3>5
    <3>8. QED
      BY <1>2, <3>2, <3>5, <3>6, <3>7
  <2>3. Value(p, b + j) = p[b + j] /\ p[b + j] \in Int
    BY <2>1 DEF Value
  <2>4. Value(p, b + Back(i, k)) \in Int
    BY <2>2, ValueType
  <2> DEFINE z == Value(p, b + Back(i, k))
             x == p[b + i]
             y == p[b + j]
  <2>5. v[i] = (x - y) % Word /\ v[j] = (y - z) % Word
    BY <1>3, <2>1, <2>2, <2>3
  <2>6. Lane(v, i, d) = (v[i] + v[j]) % Word
    BY <1>5 DEF Lane
  <2> HIDE DEF x, y, z, j
  <2>7. Telescoped(x, y, z)
    BY <1>4, <2>3, <2>4, Telescopes DEF x, y, z
  <2>8. Lane(v, i, d) = (x - z) % Word
    BY <2>5, <2>6, <2>7 DEF Telescoped
  <2>9. QED
    BY <2>8 DEF x, z, v, d
<1>6. CASE ~ (i > d)
  <2>1. Back(i, k - 1) = 0 /\ Back(i, k) = 0 /\ b + 0 = b
    BY <1>1, <1>2, <1>6 DEF Back
  <2> DEFINE x == p[b + i]
             z == Value(p, b)
  <2>2. v[i] = (x - z) % Word
    BY <1>3, <2>1
  <2>3. z \in Int /\ x \in Int
    BY <1>2, <1>4, ValueType
  <2>4. Lane(v, i, d) = (v[i] + 0) % Word
    BY <1>6 DEF Lane
  <2>5. Value(p, b + Back(i, k)) = z
    BY <2>1
  <2> HIDE DEF x, z
  <2>6. (((x - z) % Word) + 0) % Word = (x - z) % Word
    BY <2>3, Telescopes
  <2>7. Lane(v, i, d) = (x - z) % Word
    BY <2>2, <2>4, <2>6
  <2>8. QED
    BY <2>5, <2>7 DEF x, v, d
<1>7. QED
  BY <1>5, <1>6

(* After all strides each lane holds its difference to the sample before   *)
(* the block.                                                              *)
LEMMA LaneSumsIs ==
  ASSUME NEW L \in Nat, NEW p \in [1 .. L -> Nat], NEW b \in Nat, b + Lanes <= L
  PROVE  LaneSums(Partial(p, b, 0)) = [i \in 1 .. Lanes |-> (p[b + i] - Value(p, b)) % Word]
<1> DEFINE N == Len(Strides)
           block == Partial(p, b, 0)
           Added(v, k) == [i \in 1 .. Lanes |-> Lane(v, i, Strides[k])]
           Eq(s) == s = [k \in 0 .. N |-> IF k = 0 THEN block ELSE Added(s[k - 1], k)]
           F == CHOOSE s : Eq(s)
           W == [k \in 0 .. N |-> Partial(p, b, k)]
<1>1. LaneSums(block) = F[N]
  BY DEF LaneSums, Lane
<1>2. N \in Nat
  BY StridesAssumption DEF StridesAssumption
<1>3. \A k \in 1 .. N : Added(Partial(p, b, k - 1), k) = Partial(p, b, k)
  <2> TAKE k \in 1 .. N
  <2>1. \A i \in 1 .. Lanes :
          Lane(Partial(p, b, k - 1), i, Strides[k]) = (p[b + i] - Value(p, b + Back(i, k))) % Word
    BY LaneIs
  <2>2. QED
    BY <2>1 DEF Partial
<1> HIDE DEF N, Added
<1>4. /\ \A k \in 1 .. N : k # 0 /\ k \in 0 .. N /\ k - 1 \in 0 .. N
      /\ \A k \in 0 .. N : k = 0 \/ k \in 1 .. N
      /\ 0 \in 0 .. N /\ N \in 0 .. N /\ 0 \in Nat
  BY <1>2
<1>5. Eq(W)
  <2>1. \A k \in 1 .. N : Added(W[k - 1], k) = Partial(p, b, k)
    BY <1>3, <1>4
  <2>2. \A k \in 0 .. N : Partial(p, b, k) = IF k = 0 THEN block ELSE Added(W[k - 1], k)
    BY <1>4, <2>1
  <2>3. QED
    BY <2>2
<1>6. Eq(F)
  <2> HIDE DEF Eq
  <2>1. QED
    BY <1>5, Zenon
<1> HIDE DEF F
<1>7. \A k \in 0 .. N : F[k] = W[k]
  <2>1. \A k \in 0 .. N : F[k] = IF k = 0 THEN block ELSE Added(F[k - 1], k)
    BY <1>6
  <2>2. \A k \in 0 .. N : W[k] = IF k = 0 THEN block ELSE Added(W[k - 1], k)
    BY <1>5
  <2> HIDE DEF Eq, W
  <2>3. F[0] = W[0]
    BY <1>4, <2>1, <2>2
  <2>4. \A k \in 0 + 1 .. N : F[k - 1] = W[k - 1] => F[k] = W[k]
    BY <1>4, <2>1, <2>2
  <2>5. Alike(F, W, 0, N)
    BY <2>3, <2>4 DEF Alike
  <2>6. QED
    <3>1. 0 \in Nat
      OBVIOUS
    <3>2. QED
      BY <1>2, <2>5, <3>1, SameRecursion
<1>8. F[N] = Partial(p, b, N)
  BY <1>4, <1>7
<1>9. Partial(p, b, N) = [i \in 1 .. Lanes |-> (p[b + i] - Value(p, b)) % Word]
  <2>1. Lanes <= Width(N) /\ Width(N) \in Nat /\ Lanes \in Nat
    BY <1>4, WidthType, LanesAssumption DEF N, LanesAssumption
  <2>2. \A i \in 1 .. Lanes : Back(i, N) = 0
    BY <2>1 DEF Back
  <2>3. b + 0 = b
    OBVIOUS
  <2>4. QED
    BY <2>2, <2>3 DEF Partial
<1>10. QED
  BY <1>1, <1>8, <1>9

-----------------------------------------------------------------------------
(* The blocks, one after the other, and the rest.                          *)
LEMMA DiffType ==
  ASSUME NEW word \in Nat \ {0}, NEW L \in Nat, NEW p \in [1 .. L -> Nat]
  PROVE  Diff(p, L, word) \in Seq(Int) /\ Len(Diff(p, L, word)) = L
<1>1. \A c \in 1 .. L : (p[c] - Value(p, c - 1)) % word \in Int
  <2> TAKE c \in 1 .. L
  <2>1. c - 1 \in Int /\ c - 1 <= L
    OBVIOUS
  <2> DEFINE d == p[c] - Value(p, c - 1)
  <2>2. d \in Int
    BY <2>1, ValueType, SMTT(40)
  <2> HIDE DEF d
  <2>3. d % word \in Int
    BY <2>2, Remainder
  <2>4. QED
    BY <2>3 DEF d
<1>2. Diff(p, L, word) \in [1 .. L -> Int]
  BY <1>1 DEF Diff
<1>3. QED
  BY <1>2

LEMMA LanesType == Lanes \in Nat \ {0} /\ Word \in Nat \ {0}
BY LanesAssumption DEF LanesAssumption, Word

LEMMA Behind ==
  ASSUME NEW s \in Seq(Nat), NEW t \in Seq(Nat), NEW i \in 1 .. Len(s) + Len(t), ~ (i <= Len(s))
  PROVE  (s \o t)[i] = t[i - Len(s)]
OBVIOUS

(* A block more of differences, a block more of samples.                   *)
LEMMA AddBlockIs ==
  ASSUME NEW L \in Nat, NEW p \in [1 .. L -> 0 .. Word - 1], NEW k \in Nat \ {0}, k * Lanes <= L
  PROVE  AddBlock(Diff(p, L, Word), Prefix(p, (k - 1) * Lanes), k) = Prefix(p, k * Lanes)
<1> DEFINE b == (k - 1) * Lanes
           row == Diff(p, L, Word)
           q == Value(p, b)
           s == Prefix(p, b)
           new == [i \in 1 .. Lanes |-> p[b + i]]
<1>1. Lanes \in Nat \ {0} /\ Word \in Nat \ {0}
  BY LanesType
<1>2. b \in Nat /\ b + Lanes = k * Lanes
  <2>1. k - 1 \in Nat /\ (k - 1) * Lanes = k * Lanes - Lanes /\ k * Lanes \in Nat /\ (k - 1) * Lanes \in Nat
    BY <1>1
  <2>2. QED
    BY <1>1, <2>1
<1>3. p \in [1 .. L -> Nat]
  <2>1. \A v \in 0 .. Word - 1 : v \in Nat
    BY <1>1
  <2>2. QED
    BY <2>1, Zenon
<1>4. [i \in 1 .. Lanes |-> row[b + i]] = Partial(p, b, 0)
  <2>1. ASSUME NEW i \in 1 .. Lanes
        PROVE  row[b + i] = (p[b + i] - Value(p, b + Back(i, 0))) % Word
    <3> HIDE DEF b
    <3>1. b + i \in 1 .. L /\ (b + i) - 1 = b + (i - 1)
      BY <1>1, <1>2
    <3>2. Back(i, 0) = i - 1
      BY <1>1 DEF Back, Width
    <3>3. row[b + i] = (p[b + i] - Value(p, (b + i) - 1)) % Word
      BY <3>1 DEF Diff
    <3>4. QED
      BY <3>1, <3>2, <3>3
  <2>2. QED
    BY <2>1, Zenon DEF Partial
<1> HIDE DEF b
<1>5. LaneSums(Partial(p, b, 0)) = [i \in 1 .. Lanes |-> (p[b + i] - q) % Word]
  BY <1>2, <1>3, LaneSumsIs
<1>6. q \in Int /\ s \in Seq(Nat) /\ Len(s) = b /\ Carry(s) = q
  <2>1. b \in 0 .. L /\ b \in Int /\ b <= L
    BY <1>1, <1>2
  <2>2. QED
    BY <1>3, <2>1, PrefixIs, ValueType
<1> HIDE DEF q
<1>7. ASSUME NEW i \in 1 .. Lanes PROVE (((p[b + i] - q) % Word) + q) % Word = p[b + i]
  <2> DEFINE x == p[b + i]
             r == (x - q) % Word
  <2>1. b + i \in 1 .. L
    BY <1>1, <1>2
  <2>2. x \in 0 .. Word - 1
    BY <2>1
  <2>3. Undone(x, q, Word)
    BY <1>1, <1>6, <2>2, AddedBack
  <2>4. x - q \in Int
    BY <1>1, <1>6, <2>2
  <2> HIDE DEF x
  <2>5. r \in Int
    BY <1>1, <2>4, Remainder
  <2>6. (q + r) % Word = x
    BY <2>3 DEF Undone
  <2> HIDE DEF r
  <2>7. q + r = r + q
    BY <1>6, <2>5
  <2>8. QED
    BY <2>6, <2>7 DEF r, x
<1>8. AddBlock(row, s, k) = s \o new
  <2> DEFINE sums == LaneSums([i \in 1 .. Lanes |-> row[(k - 1) * Lanes + i]])
  <2>1. sums = [i \in 1 .. Lanes |-> (p[b + i] - q) % Word]
    BY <1>4, <1>5, Zenon DEF b
  <2>2. AddBlock(row, s, k) = s \o [i \in 1 .. Lanes |-> (sums[i] + Carry(s)) % Word]
    BY Zenon DEF AddBlock
  <2> HIDE DEF sums, s
  <2>3. \A i \in 1 .. Lanes : (sums[i] + Carry(s)) % Word = p[b + i]
    BY <1>6, <1>7, <2>1
  <2>4. [i \in 1 .. Lanes |-> (sums[i] + Carry(s)) % Word] = new
    BY <2>3, Zenon
  <2>5. QED
    BY <2>2, <2>4, Zenon DEF s
<1>9. s \o new = Prefix(p, b + Lanes)
  <2>1. \A i \in 1 .. Lanes : b + i \in 1 .. L
    BY <1>1, <1>2
  <2>2. new \in [1 .. Lanes -> Nat]
    BY <1>3, <2>1
  <2>3. new \in Seq(Nat) /\ Len(new) = Lanes
    BY <1>1, <2>2
  <2>4. \A i \in 1 .. Lanes : new[i] = p[b + i]
    OBVIOUS
  <2>5. \A i \in 1 .. b : s[i] = p[i]
    BY DEF Prefix
  <2> HIDE DEF s, new
  <2> DEFINE both == s \o new
  <2>6. both \in Seq(Nat) /\ Len(both) = b + Lanes
    <3>1. s \in Seq(Nat) /\ new \in Seq(Nat)
      BY <1>6, <2>3
    <3>2. both \in Seq(Nat)
      BY <3>1
    <3>3. Len(both) = Len(s) + Len(new)
      BY <3>1
    <3>4. QED
      BY <1>6, <2>3, <3>2, <3>3
  <2>7. ASSUME NEW i \in 1 .. b + Lanes PROVE both[i] = p[i]
    <3>1. CASE i <= b
      <4>1. i \in 1 .. b
        BY <1>2, <3>1
      <4>2. both[i] = s[i]
        BY <1>6, <2>3, <3>1, <4>1
      <4>3. QED
        BY <2>5, <4>1, <4>2
    <3>2. CASE ~ (i <= b)
      <4>1. i - b \in 1 .. Lanes /\ b + (i - b) = i
        BY <1>1, <1>2, <3>2
      <4>2. both[i] = new[i - b]
        <5>1. s \in Seq(Nat) /\ new \in Seq(Nat) /\ Len(s) = b /\ Len(new) = Lanes
          BY <1>6, <2>3
        <5>2. i \in 1 .. Len(s) + Len(new) /\ ~ (i <= Len(s))
          BY <1>1, <1>2, <3>2, <5>1
        <5>3. both[i] = new[i - Len(s)]
          BY <5>1, <5>2, Behind
        <5>4. QED
          BY <5>1, <5>3
      <4>3. QED
        BY <2>4, <4>1, <4>2
    <3>3. QED
      BY <3>1, <3>2
  <2> HIDE DEF both
  <2>8. both = [i \in 1 .. b + Lanes |-> both[i]]
    BY <2>6
  <2>9. both = Prefix(p, b + Lanes)
    BY <2>7, <2>8 DEF Prefix
  <2>10. QED
    BY <2>9 DEF both
<1>10. QED
  BY <1>2, <1>8, <1>9, Zenon DEF b

(* The two recursions of a row of so many samples.                         *)
InvertedUpTo(row, size) ==
  LET blocks == size \div Lanes
      whole[k \in 0 .. blocks] == IF k = 0 THEN <<>> ELSE AddBlock(row, whole[k - 1], k)
      rest[n \in blocks * Lanes .. size] ==
        IF n = blocks * Lanes THEN whole[blocks] ELSE AddOne(rest[n - 1], row[n], Word)
  IN  rest[size]

(* Inverted, with the length of the row by name.                           *)
LEMMA InvertedByLength ==
  ASSUME NEW row
  PROVE  Inverted(row) = InvertedUpTo(row, Len(row))
BY DEF Inverted, InvertedUpTo

(* predictor_invert_u16 (cog.rs:595-657): the prefix sums in blocks undo   *)
(* the differences of any row, shorter than a block or not a multiple of   *)
(* one included, for any number of lanes.                                  *)
THEOREM InvertedIs ==
  ASSUME NEW L \in Nat, NEW p \in [1 .. L -> 0 .. Word - 1]
  PROVE  Inverted(Diff(p, L, Word)) = p
<1> DEFINE row == Diff(p, L, Word)
           blocks == L \div Lanes
           from == blocks * Lanes
           EqW(s) == s = [k \in 0 .. blocks |-> IF k = 0 THEN <<>> ELSE AddBlock(row, s[k - 1], k)]
           whole == CHOOSE s : EqW(s)
           W == [k \in 0 .. blocks |-> Prefix(p, k * Lanes)]
           EqR(s) == s = [n \in from .. L |-> IF n = from THEN whole[blocks] ELSE AddOne(s[n - 1], row[n], Word)]
           rest == CHOOSE s : EqR(s)
           R == [n \in from .. L |-> Prefix(p, n)]
<1>1. Lanes \in Nat \ {0} /\ Word \in Nat \ {0}
  BY LanesType
<1>2. p \in [1 .. L -> Nat]
  <2>1. \A v \in 0 .. Word - 1 : v \in Nat
    BY <1>1
  <2>2. QED
    BY <2>1, Zenon
<1>3. row \in Seq(Int) /\ Len(row) = L
  BY <1>1, <1>2, DiffType
<1>4. Inverted(row) = rest[L]
  <2> HIDE DEF row
  <2>1. InvertedUpTo(row, L) = rest[L]
    BY DEF InvertedUpTo
  <2> HIDE DEF rest
  <2>2. QED
    BY <1>3, <2>1, InvertedByLength
<1> HIDE DEF row
<1>5. blocks \in Nat /\ from \in Nat /\ from <= L /\ from = Lanes * blocks
  <2>1. L \in Int
    OBVIOUS
  <2>2. blocks \in Int /\ Lanes * blocks <= L
    BY <1>1, <2>1, Quotient
  <2>3. blocks \in Nat
    BY <1>1
  <2> HIDE DEF blocks
  <2>4. blocks * Lanes = Lanes * blocks /\ blocks * Lanes \in Nat
    BY <1>1, <2>3
  <2>5. QED
    BY <2>2, <2>3, <2>4
<1> HIDE DEF blocks
<1>6. /\ \A k \in 1 .. blocks : k # 0 /\ k \in 0 .. blocks /\ k - 1 \in 0 .. blocks /\ k \in Nat \ {0}
      /\ \A k \in 0 .. blocks : k = 0 \/ k \in 1 .. blocks
      /\ 0 \in 0 .. blocks /\ blocks \in 0 .. blocks
  BY <1>5
<1>7. \A k \in 1 .. blocks : AddBlock(row, Prefix(p, (k - 1) * Lanes), k) = Prefix(p, k * Lanes)
  <2> TAKE k \in 1 .. blocks
  <2>1. k * Lanes <= L
    <3>1. blocks - k \in Nat /\ (blocks - k) * Lanes \in Nat /\ (blocks - k) * Lanes = blocks * Lanes - k * Lanes
      BY <1>1, <1>5
    <3>2. k * Lanes \in Int
      BY <1>1
    <3>3. QED
      BY <1>5, <3>1, <3>2
  <2>2. QED
    BY <1>6, <2>1, AddBlockIs DEF row
<1>8. Prefix(p, 0 * Lanes) = <<>> /\ Prefix(p, L) = p
  <2>1. 0 * Lanes = 0
    BY <1>1
  <2>2. Prefix(p, 0) = <<>> /\ Prefix(p, L) = p
    BY <1>2 DEF Prefix
  <2>3. QED
    BY <2>1, <2>2
<1>9. EqW(W)
  <2>1. \A k \in 1 .. blocks : AddBlock(row, W[k - 1], k) = Prefix(p, k * Lanes)
    BY <1>6, <1>7
  <2>2. \A k \in 0 .. blocks : Prefix(p, k * Lanes) = IF k = 0 THEN <<>> ELSE AddBlock(row, W[k - 1], k)
    BY <1>6, <1>8, <2>1
  <2>3. QED
    BY <2>2, Zenon
<1>10. EqW(whole)
  <2> HIDE DEF EqW
  <2>1. QED
    BY <1>9, Zenon
<1> HIDE DEF whole
<1>11. \A k \in 0 .. blocks : whole[k] = W[k]
  <2>1. \A k \in 0 .. blocks : whole[k] = IF k = 0 THEN <<>> ELSE AddBlock(row, whole[k - 1], k)
    BY <1>10, Zenon
  <2>2. \A k \in 0 .. blocks : W[k] = IF k = 0 THEN <<>> ELSE AddBlock(row, W[k - 1], k)
    BY <1>9, Zenon
  <2> HIDE DEF EqW, W
  <2>3. whole[0] = W[0]
    BY <1>6, <2>1, <2>2, Zenon
  <2>4. \A k \in 0 + 1 .. blocks : whole[k - 1] = W[k - 1] => whole[k] = W[k]
    <3>1. 0 + 1 = 1
      OBVIOUS
    <3>2. \A k \in 1 .. blocks : whole[k - 1] = W[k - 1] => whole[k] = W[k]
      BY <1>6, <2>1, <2>2, Zenon
    <3>3. QED
      BY <3>1, <3>2
  <2>5. Alike(whole, W, 0, blocks)
    BY <2>3, <2>4 DEF Alike
  <2>6. 0 \in Nat
    OBVIOUS
  <2>7. QED
    BY <1>5, <2>5, <2>6, SameRecursion
<1>12. whole[blocks] = Prefix(p, from)
  BY <1>6, <1>11
<1> HIDE DEF W, EqW
<1>13. \A n \in from + 1 .. L : AddOne(Prefix(p, n - 1), row[n], Word) = Prefix(p, n)
  <2> TAKE n \in from + 1 .. L
  <2>1. n \in 1 .. L
    BY <1>5
  <2>2. QED
    BY <1>1, <2>1, AddOneIs DEF row
<1>14. /\ \A n \in from + 1 .. L : n # from /\ n \in from .. L /\ n - 1 \in from .. L
       /\ \A n \in from .. L : n = from \/ n \in from + 1 .. L
       /\ from \in from .. L /\ L \in from .. L
  BY <1>5
<1> HIDE DEF from
<1>15. EqR(R)
  <2>1. \A n \in from + 1 .. L : AddOne(R[n - 1], row[n], Word) = Prefix(p, n)
    BY <1>13, <1>14
  <2>2. \A n \in from .. L : Prefix(p, n) = IF n = from THEN whole[blocks] ELSE AddOne(R[n - 1], row[n], Word)
    BY <1>12, <1>14, <2>1
  <2>3. QED
    BY <2>2, Zenon
<1>16. EqR(rest)
  <2> HIDE DEF EqR
  <2>1. QED
    BY <1>15, Zenon
<1> HIDE DEF rest
<1>17. \A n \in from .. L : rest[n] = R[n]
  <2>1. \A n \in from .. L : rest[n] = IF n = from THEN whole[blocks] ELSE AddOne(rest[n - 1], row[n], Word)
    BY <1>16, Zenon
  <2>2. \A n \in from .. L : R[n] = IF n = from THEN whole[blocks] ELSE AddOne(R[n - 1], row[n], Word)
    BY <1>15, Zenon
  <2> HIDE DEF EqR, R
  <2>3. rest[from] = R[from]
    BY <1>14, <2>1, <2>2, Zenon
  <2>4. \A n \in from + 1 .. L : rest[n - 1] = R[n - 1] => rest[n] = R[n]
    BY <1>14, <2>1, <2>2, Zenon
  <2>5. Alike(rest, R, from, L)
    BY <2>3, <2>4 DEF Alike
  <2>6. QED
    BY <1>5, <2>5, SameRecursion
<1>18. rest[L] = p
  BY <1>8, <1>14, <1>17
<1>19. QED
  BY <1>4, <1>18 DEF row

-----------------------------------------------------------------------------
(* What is stored of a tile, as far as decoding goes.                      *)
Filed(f, image, bytes, s) ==
  /\ Sized(image) /\ f.bits \in 1 .. 16 /\ (f.bits % 8 # 0 => f.predictor # 2)
  /\ s \in [1 .. image.tileWidth * image.tileHeight -> 0 .. Pow2(f.bits) - 1]
  /\ bytes \in Seq(Byte) /\ 8 * Len(bytes) >= (image.tileWidth * image.tileHeight) * f.bits
  /\ Encodes(f, image, bytes, s)

(* The number of a sample within its tile.                                 *)
LEMMA SampleNumber ==
  ASSUME NEW image, Sized(image), NEW r \in 1 .. image.tileHeight, NEW c \in 1 .. image.tileWidth
  PROVE  /\ (r - 1) * image.tileWidth + c \in 1 .. image.tileWidth * image.tileHeight
         /\ ((r - 1) * image.tileWidth + c) - 1 = (r - 1) * image.tileWidth + (c - 1)
         /\ ((r - 1) * image.tileWidth + (c - 1)) % image.tileWidth = c - 1
         /\ (r - 1) * image.tileWidth \in Nat
<1> DEFINE w == image.tileWidth
           h == image.tileHeight
           q == (r - 1) * w
<1>1. w \in Natural /\ h \in Natural
  BY DEF Sized
<1>2. r - 1 \in 0 .. h - 1 /\ c - 1 \in 0 .. w - 1
  BY <1>1 DEF Natural
<1>3. q + (c - 1) \in 0 .. h * w - 1 /\ (q + (c - 1)) % w = c - 1
  <2> HIDE DEF w, h
  <2>1. QED
    BY <1>1, <1>2, CellNumber
<1>4. h * w = w * h /\ h * w \in Nat /\ q \in Nat
  BY <1>1, <1>2 DEF Natural
<1> HIDE DEF q
<1>5. (q + c) - 1 = q + (c - 1) /\ q + c \in 1 .. h * w
  <2> DEFINE t == h * w
  <2>1. t \in Nat /\ q + (c - 1) \in 0 .. t - 1 /\ c \in Int
    BY <1>1, <1>3, <1>4 DEF Natural
  <2> HIDE DEF t
  <2>2. (q + c) - 1 = q + (c - 1) /\ q + c \in 1 .. t
    BY <1>4, <2>1
  <2>3. QED
    BY <2>2 DEF t
<1>6. QED
  BY <1>3, <1>4, <1>5 DEF q

(* Rows of samples are rows of the tile's width.                           *)
LEMMA RowsType ==
  ASSUME NEW image, Sized(image), NEW S, NEW s \in [1 .. image.tileWidth * image.tileHeight -> S],
         NEW r \in 1 .. image.tileHeight
  PROVE  Rows(s, image)[r] \in [1 .. image.tileWidth -> S]
<1>1. \A c \in 1 .. image.tileWidth : s[(r - 1) * image.tileWidth + c] \in S
  <2> TAKE c \in 1 .. image.tileWidth
  <2>1. (r - 1) * image.tileWidth + c \in 1 .. image.tileWidth * image.tileHeight
    BY SampleNumber
  <2>2. QED
    BY <2>1
<1>2. QED
  BY <1>1 DEF Rows

(* Equal samples, equal rows.                                              *)
LEMMA SameRows ==
  ASSUME NEW image, Sized(image), NEW s, NEW t,
         \A i \in 1 .. image.tileWidth * image.tileHeight : s[i] = t[i]
  PROVE  Rows(s, image) = Rows(t, image)
<1>1. ASSUME NEW r \in 1 .. image.tileHeight, NEW c \in 1 .. image.tileWidth
      PROVE  s[(r - 1) * image.tileWidth + c] = t[(r - 1) * image.tileWidth + c]
  <2>1. (r - 1) * image.tileWidth + c \in 1 .. image.tileWidth * image.tileHeight
    BY SampleNumber
  <2>2. QED
    BY <2>1, Zenon
<1>2. QED
  BY <1>1, Zenon DEF Rows

(* The rows of the differences are the differences of the rows.            *)
LEMMA RowsOfStored ==
  ASSUME NEW f, f.predictor = 2, NEW image, Sized(image), NEW word \in Nat \ {0}, 2^f.bits = word,
         NEW s \in [1 .. image.tileWidth * image.tileHeight -> 0 .. word - 1],
         NEW t, \A i \in 1 .. image.tileWidth * image.tileHeight : t[i] = Stored(f, image, s, i),
         NEW r \in 1 .. image.tileHeight
  PROVE  Rows(t, image)[r] = Diff(Rows(s, image)[r], image.tileWidth, word)
<1> DEFINE w == image.tileWidth
           p == Rows(s, image)[r]
           q == (r - 1) * w
<1>1. p \in [1 .. w -> 0 .. word - 1]
  BY RowsType
<1>2. \A c \in 1 .. w : p[c] = s[q + c]
  BY DEF Rows
<1>3. w \in Nat \ {0}
  BY DEF Sized, Natural
<1> HIDE DEF p
<1>4. ASSUME NEW c \in 1 .. w PROVE t[q + c] = (p[c] - Value(p, c - 1)) % word
  <2>1. /\ q + c \in 1 .. image.tileWidth * image.tileHeight /\ (q + c) - 1 = q + (c - 1)
        /\ (q + (c - 1)) % w = c - 1 /\ q \in Nat
    BY SampleNumber
  <2>2. t[q + c] = Stored(f, image, s, q + c)
    BY <2>1, Zenon
  <2>3. Stored(f, image, s, q + c) =
          IF ((q + c) - 1) % w # 0 THEN (s[q + c] - s[(q + c) - 1]) % word ELSE s[q + c]
    BY Zenon DEF Stored
  <2>4. t[q + c] = IF c - 1 # 0 THEN (s[q + c] - s[q + (c - 1)]) % word ELSE s[q + c]
    <3> HIDE DEF q, w
    <3>1. QED
      BY <2>1, <2>2, <2>3
  <2>5. CASE c = 1
    <3>1. p[c] \in 0 .. word - 1
      BY <1>1
    <3>2. Value(p, c - 1) = 0
      BY <2>5 DEF Value
    <3>3. t[q + c] = p[c]
      BY <1>2, <2>4, <2>5
    <3> DEFINE x == p[c]
    <3> HIDE DEF x, q
    <3>4. x = word * 0 + x /\ x \in Int /\ x - 0 = x
      BY <3>1 DEF x
    <3>5. (word * 0 + x) % word = x
      <4>1. x \in 0 .. word - 1 /\ 0 \in Int
        BY <3>1 DEF x
      <4>2. QED
        BY <4>1, RemainderIs
    <3>6. (x - 0) % word = x
      BY <3>4, <3>5
    <3>7. QED
      BY <3>2, <3>3, <3>6 DEF x
  <2>6. CASE c # 1
    <3>1. c - 1 \in 1 .. w /\ c - 1 # 0 /\ c - 1 > 0
      BY <1>3, <2>6
    <3>2. Value(p, c - 1) = p[c - 1] /\ p[c - 1] = s[q + (c - 1)] /\ p[c] = s[q + c]
      BY <1>2, <3>1 DEF Value
    <3> HIDE DEF q
    <3>3. t[q + c] = (s[q + c] - s[q + (c - 1)]) % word
      BY <2>4, <3>1
    <3>4. QED
      BY <3>2, <3>3
  <2>7. QED
    BY <2>5, <2>6
<1>5. Rows(t, image)[r] = [c \in 1 .. w |-> t[q + c]]
  BY DEF Rows
<1>6. QED
  BY <1>4, <1>5 DEF Diff, p

-----------------------------------------------------------------------------
(* Whole bytes.                                                            *)
LEMMA StoredType ==
  ASSUME NEW f, NEW image, Sized(image), NEW word \in Nat \ {0}, 2^f.bits = word,
         NEW n \in Nat, NEW s \in [1 .. n -> 0 .. word - 1], NEW i \in 1 .. n
  PROVE  Stored(f, image, s, i) \in 0 .. word - 1
<1>1. s[i] \in 0 .. word - 1
  OBVIOUS
<1>2. CASE f.predictor = 2 /\ (i - 1) % image.tileWidth # 0
  <2>1. Stored(f, image, s, i) = (s[i] - s[i - 1]) % word
    BY <1>2, Zenon DEF Stored
  <2>2. i # 1
    <3>1. image.tileWidth \in Nat \ {0}
      BY DEF Sized, Natural
    <3>2. 0 % image.tileWidth = 0
      BY <3>1
    <3>3. ASSUME i = 1 PROVE FALSE
      <4>1. i - 1 = 0
        BY <3>3
      <4>2. QED
        BY <1>2, <3>2, <4>1
    <3>4. QED
      BY <3>3
  <2>3. s[i - 1] \in 0 .. word - 1
    <3>1. i - 1 \in 1 .. n
      BY <2>2
    <3>2. QED
      BY <3>1
  <2> DEFINE d == s[i] - s[i - 1]
  <2>4. d \in Int
    BY <1>1, <2>3
  <2> HIDE DEF d
  <2>5. d % word \in 0 .. word - 1
    BY <2>4, Remainder
  <2>6. QED
    BY <2>1, <2>5 DEF d
<1>3. CASE ~ (f.predictor = 2 /\ (i - 1) % image.tileWidth # 0)
  <2>1. Stored(f, image, s, i) = s[i]
    BY <1>3, Zenon DEF Stored
  <2>2. QED
    BY <1>1, <2>1
<1>4. QED
  BY <1>2, <1>3

(* Samples of one byte and of two are what is stored.                      *)
LEMMA BytesStored ==
  ASSUME NEW f, f.bits = 8, NEW image, NEW n \in Nat, NEW s, DOMAIN s = 1 .. n,
         NEW bytes \in Seq(Byte), 8 * Len(bytes) >= n * 8, Encodes(f, image, bytes, s),
         NEW i \in 1 .. n
  PROVE  Samples(bytes, 1)[i] = Stored(f, image, s, i)
<1>1. Len(bytes) \in Nat /\ Len(bytes) \div 1 = Len(bytes)
  OBVIOUS
<1>2. i \in 1 .. Len(bytes) \div 1
  BY <1>1
<1>3. Samples(bytes, 1)[i] = bytes[i]
  BY <1>2 DEF Samples
<1>4. bytes[i] = Stored(f, image, s, i)
  BY DEF Encodes
<1>5. QED
  BY <1>3, <1>4

LEMMA WordsStored ==
  ASSUME NEW f, f.bits = 16, NEW image, Sized(image), NEW n \in Nat, NEW s \in [1 .. n -> 0 .. Pow2(16) - 1],
         NEW bytes \in Seq(Byte), 8 * Len(bytes) >= n * 16, Encodes(f, image, bytes, s),
         NEW i \in 1 .. n
  PROVE  Samples(bytes, 2)[i] = Stored(f, image, s, i)
<1> DEFINE x == Stored(f, image, s, i)
<1>1. Len(bytes) \in Nat /\ n <= Len(bytes) \div 2
  OBVIOUS
<1>2. i \in 1 .. Len(bytes) \div 2
  BY <1>1
<1>3. Samples(bytes, 2)[i] = bytes[2 * i - 1] + 256 * bytes[2 * i]
  BY <1>2 DEF Samples
<1>4. bytes[2 * i - 1] = x % 256 /\ bytes[2 * i] = x \div 256
  BY DEF Encodes
<1>5. x \in Nat
  <2> DEFINE word == Pow2(16)
  <2>1. word \in Nat \ {0} /\ 2^f.bits = word
    <3>1. 16 \in 0 .. 24
      OBVIOUS
    <3>2. word \in Nat \ {0}
      BY <3>1, PowerIsNatural
    <3>3. 2^f.bits = word
      BY DEF Pow2
    <3>4. QED
      BY <3>2, <3>3
  <2> HIDE DEF word
  <2>2. s \in [1 .. n -> 0 .. word - 1]
    BY DEF word
  <2>3. x \in 0 .. word - 1
    BY <2>1, <2>2, StoredType
  <2>4. QED
    BY <2>1, <2>3
<1> HIDE DEF x
<1>6. (x % 256) + 256 * (x \div 256) = x
  BY <1>5
<1>7. QED
  BY <1>3, <1>4, <1>6 DEF x

-----------------------------------------------------------------------------
(* decode_tile, before the predictor.                                      *)
SamplesOf(f, image, bytes) ==
  IF f.bits % 8 # 0 THEN Unpacked(bytes, image.tileWidth * image.tileHeight, f.bits)
  ELSE Samples(bytes, f.bits \div 8)

(* What decode_tile has before the predictor: packed samples themselves,   *)
(* others as they are stored.                                              *)
LEMMA SamplesAreStored ==
  ASSUME NEW f, NEW image, NEW bytes, NEW s, Filed(f, image, bytes, s)
  PROVE  IF f.bits % 8 # 0
         THEN \A i \in 1 .. image.tileWidth * image.tileHeight : SamplesOf(f, image, bytes)[i] = s[i]
         ELSE \A i \in 1 .. image.tileWidth * image.tileHeight :
                SamplesOf(f, image, bytes)[i] = Stored(f, image, s, i)
<1> DEFINE n == image.tileWidth * image.tileHeight
           bits == f.bits
<1>1. /\ Sized(image) /\ bits \in 1 .. 16 /\ s \in [1 .. n -> 0 .. Pow2(bits) - 1]
      /\ bytes \in Seq(Byte) /\ 8 * Len(bytes) >= n * bits
      /\ Encodes(f, image, bytes, s)
  BY DEF Filed
<1>2. n \in Nat
  <2>1. image.tileWidth \in Nat /\ image.tileHeight \in Nat
    BY <1>1 DEF Sized, Natural
  <2>2. QED
    BY <2>1
<1>3. DOMAIN s = 1 .. n
  BY <1>1
<1>4. /\ bits % 8 # 0 => bits \in 1 .. 15 /\ bits # 8 /\ bits # 16
      /\ bits % 8 = 0 => bits = 8 \/ bits = 16
  BY <1>1
<1> HIDE DEF n
<1>5. CASE bits % 8 # 0
  <2>1. SamplesOf(f, image, bytes) = [i \in 1 .. n |-> PackedSample(bytes, bits, i)]
    <3>1. Unpacked(bytes, n, bits) = [i \in 1 .. n |-> PackedSample(bytes, bits, i)]
      BY <1>1, <1>2, <1>4, <1>5, UnpackedIs
    <3>2. SamplesOf(f, image, bytes) = Unpacked(bytes, n, bits)
      BY <1>5 DEF SamplesOf, n
    <3>3. QED
      BY <3>1, <3>2, Zenon
  <2>2. \A i \in 1 .. n : PackedSample(bytes, bits, i) = s[i]
    BY <1>1, <1>3, <1>4, <1>5 DEF Encodes
  <2>3. QED
    BY <1>5, <2>1, <2>2 DEF n
<1>6. CASE bits = 8
  <2>1. bits % 8 = 0 /\ bits \div 8 = 1
    BY <1>6
  <2>2. SamplesOf(f, image, bytes) = Samples(bytes, 1)
    BY <2>1 DEF SamplesOf
  <2>3. 8 * Len(bytes) >= n * 8
    BY <1>1, <1>6
  <2>4. \A i \in 1 .. n : Samples(bytes, 1)[i] = Stored(f, image, s, i)
    BY <1>1, <1>2, <1>3, <1>6, <2>3, BytesStored
  <2>5. QED
    BY <2>1, <2>2, <2>4 DEF n
<1>7. CASE bits = 16
  <2>1. bits % 8 = 0 /\ bits \div 8 = 2
    BY <1>7
  <2>2. SamplesOf(f, image, bytes) = Samples(bytes, 2)
    BY <2>1 DEF SamplesOf
  <2>3. 8 * Len(bytes) >= n * 16 /\ s \in [1 .. n -> 0 .. Pow2(16) - 1]
    BY <1>1, <1>7
  <2>4. \A i \in 1 .. n : Samples(bytes, 2)[i] = Stored(f, image, s, i)
    BY <1>1, <1>2, <1>7, <2>3, WordsStored
  <2>5. QED
    BY <2>1, <2>2, <2>4 DEF n
<1>8. QED
  BY <1>4, <1>5, <1>6, <1>7

(* read_tiles (cog.rs:417-424): whatever the width of its samples, packed, *)
(* differenced or neither, a tile decodes to the samples it was stored of. *)
THEOREM DecodedIs ==
  ASSUME NEW f, NEW image, NEW bytes, NEW s, Filed(f, image, bytes, s)
  PROVE  Decoded(f, image, bytes) = Rows(s, image)
<1> DEFINE n == image.tileWidth * image.tileHeight
           w == image.tileWidth
           h == image.tileHeight
           t == SamplesOf(f, image, bytes)
           rows == Rows(t, image)
           real == Rows(s, image)
<1>1. Decoded(f, image, bytes) =
        IF f.predictor # 2 THEN rows
        ELSE [r \in DOMAIN rows |-> IF f.bits = 8 THEN InvertedBytes(rows[r]) ELSE Inverted(rows[r])]
  BY DEF Decoded, SamplesOf
<1>2. /\ Sized(image) /\ f.bits \in 1 .. 16 /\ (f.bits % 8 # 0 => f.predictor # 2)
      /\ s \in [1 .. n -> 0 .. Pow2(f.bits) - 1]
  BY DEF Filed
<1>3. IF f.bits % 8 # 0 THEN \A i \in 1 .. n : t[i] = s[i]
      ELSE \A i \in 1 .. n : t[i] = Stored(f, image, s, i)
  BY SamplesAreStored
<1> HIDE DEF t
<1>4. CASE f.predictor # 2
  <2>1. \A i \in 1 .. n : t[i] = s[i]
    <3>1. \A i \in 1 .. n : Stored(f, image, s, i) = s[i]
      BY <1>4 DEF Stored
    <3>2. QED
      BY <1>3, <3>1
  <2>2. rows = real
    BY <1>2, <2>1, SameRows
  <2>3. QED
    BY <1>1, <1>4, <2>2
<1>5. CASE f.predictor = 2
  <2> DEFINE word == Pow2(f.bits)
  <2>1. f.bits \in {8, 16} /\ f.bits % 8 = 0
    BY <1>2, <1>5
  <2>2. word \in Nat \ {0} /\ 2^f.bits = word
    <3>1. f.bits \in 0 .. 24
      BY <2>1
    <3>2. word \in Nat \ {0}
      BY <3>1, PowerIsNatural
    <3>3. 2^f.bits = word
      BY DEF Pow2
    <3>4. QED
      BY <3>2, <3>3
  <2>3. f.bits = 8 => word = 256
    BY PowersKnown
  <2>4. f.bits # 8 => word = Word
    BY <2>1, PowersKnown DEF Word
  <2> HIDE DEF word
  <2>5. \A i \in 1 .. n : t[i] = Stored(f, image, s, i)
    BY <1>3, <2>1
  <2>6. s \in [1 .. n -> 0 .. word - 1]
    BY <1>2 DEF word
  <2>7. w \in Nat
    BY <1>2 DEF Sized, Natural
  <2>8. ASSUME NEW r \in 1 .. h
        PROVE  (IF f.bits = 8 THEN InvertedBytes(rows[r]) ELSE Inverted(rows[r])) = real[r]
    <3> DEFINE p == real[r]
    <3>1. rows[r] = Diff(p, w, word)
      BY <1>2, <1>5, <2>2, <2>5, <2>6, RowsOfStored
    <3>2. p \in [1 .. w -> 0 .. word - 1]
      BY <1>2, <2>6, RowsType
    <3> HIDE DEF p, rows, w
    <3>3. CASE f.bits = 8
      <4>1. word = 256
        BY <2>3, <3>3
      <4>2. p \in [1 .. w -> 0 .. 255]
        <5>1. word - 1 = 255
          BY <4>1
        <5>2. QED
          BY <3>2, <5>1
      <4>3. InvertedBytes(Diff(p, w, 256)) = p
        BY <2>7, <4>2, InvertedBytesIs
      <4>4. QED
        BY <3>1, <3>3, <4>1, <4>3 DEF p
    <3>4. CASE f.bits # 8
      <4>1. word = Word
        BY <2>4, <3>4
      <4>2. p \in [1 .. w -> 0 .. Word - 1]
        BY <3>2, <4>1
      <4>3. Inverted(Diff(p, w, Word)) = p
        BY <2>7, <4>2, InvertedIs
      <4>4. QED
        BY <3>1, <3>4, <4>1, <4>3 DEF p
    <3>5. QED
      BY <3>3, <3>4
  <2>9. DOMAIN rows = 1 .. h /\ real = [r \in 1 .. h |-> real[r]]
    BY DEF Rows
  <2> HIDE DEF rows, real
  <2>10. [r \in DOMAIN rows |-> IF f.bits = 8 THEN InvertedBytes(rows[r]) ELSE Inverted(rows[r])] = real
    BY <2>8, <2>9
  <2>11. QED
    BY <1>1, <1>5, <2>10 DEF real
<1>6. QED
  BY <1>4, <1>5

-----------------------------------------------------------------------------
(* A cut of n elements, and a tile's bytes, cut out of the range that was  *)
(* fetched for its group.                                                  *)
IsCut(t, s, a, n) == Len(t) = n /\ \A i \in 1 .. n : t[i] = s[a + i]

(* Cutting a sequence, and that a cut is what it holds.                    *)
LEMMA Cut ==
  ASSUME NEW S, NEW s \in Seq(S), NEW a \in Nat, NEW n \in Nat, a + n <= Len(s)
  PROVE  SubSeq(s, a + 1, a + n) \in Seq(S) /\ IsCut(SubSeq(s, a + 1, a + n), s, a, n)
<1>1. Len(s) \in Nat
  OBVIOUS
<1>2. /\ SubSeq(s, a + 1, a + n) \in Seq(S) /\ Len(SubSeq(s, a + 1, a + n)) = n
      /\ \A i \in 1 .. n : SubSeq(s, a + 1, a + n)[i] = s[a + i]
  BY <1>1, SMTT(40)
<1>3. QED
  BY <1>2 DEF IsCut

LEMMA SameCut ==
  ASSUME NEW S, NEW s \in Seq(S), NEW t \in Seq(S), NEW u \in Seq(S), NEW a \in Nat, NEW n \in Nat,
         IsCut(t, s, a, n), IsCut(u, s, a, n)
  PROVE  t = u
<1>1. t = [i \in 1 .. n |-> t[i]] /\ u = [i \in 1 .. n |-> u[i]]
  BY DEF IsCut
<1>2. \A i \in 1 .. n : t[i] = u[i]
  BY DEF IsCut
<1>3. QED
  BY <1>1, <1>2

(* A tile's bytes cut out of the range fetched for its group are those at  *)
(* its place in the file.                                                  *)
LEMMA CutTwice ==
  ASSUME NEW S, NEW bytes \in Seq(S), NEW start \in Nat, NEW end \in Int, NEW offset \in Nat, NEW count \in Natural,
         start <= offset, offset + count - 1 <= end, end < Len(bytes)
  PROVE  SubSeq(SubSeq(bytes, start + 1, end + 1), (offset - start) + 1, (offset - start) + count)
           = SubSeq(bytes, offset + 1, offset + count)
<1> DEFINE size == end - start + 1
           local == offset - start
           raw == SubSeq(bytes, start + 1, start + size)
           x == SubSeq(raw, local + 1, local + count)
           y == SubSeq(bytes, offset + 1, offset + count)
<1>1. count \in Nat /\ count > 0 /\ Len(bytes) \in Nat
  BY DEF Natural
<1>2. /\ size \in Nat /\ start + size = end + 1 /\ start + size <= Len(bytes)
      /\ local \in Nat /\ local + count <= size /\ offset + count <= Len(bytes)
      /\ start + local = offset
  BY <1>1
<1> HIDE DEF size, local
<1>3. raw \in Seq(S) /\ IsCut(raw, bytes, start, size)
  BY <1>2, Cut
<1> HIDE DEF raw
<1>4. Len(raw) = size
  BY <1>3 DEF IsCut
<1>5. x \in Seq(S) /\ IsCut(x, raw, local, count)
  BY <1>1, <1>2, <1>3, <1>4, Cut
<1>6. y \in Seq(S) /\ IsCut(y, bytes, offset, count)
  BY <1>1, <1>2, Cut
<1> HIDE DEF x, y
<1>7. ASSUME NEW i \in 1 .. count PROVE raw[local + i] = bytes[offset + i]
  <2>1. local + i \in 1 .. size /\ start + (local + i) = offset + i
    BY <1>1, <1>2
  <2>2. raw[local + i] = bytes[start + (local + i)]
    BY <1>3, <2>1 DEF IsCut
  <2>3. QED
    BY <2>1, <2>2
<1>8. IsCut(x, bytes, offset, count)
  BY <1>5, <1>7 DEF IsCut
<1>9. x = y
  BY <1>1, <1>5, <1>6, <1>8, SameCut
<1>10. QED
  BY <1>2, <1>9 DEF x, y, raw, local

-----------------------------------------------------------------------------
(* Stitching.                                                              *)
Laid(image) == \* what Stitched and Nearest need of an image
  /\ Sized(image) /\ Tiled(image) /\ DOMAIN image.samples = 0 .. TileCount(image) - 1
Decodes(decoded, image) ==
  \A k \in DOMAIN decoded : k \in DOMAIN image.samples /\ decoded[k] = Rows(image.samples[k], image)
Complete(decoded, image, win) ==
  \A y \in win.row .. win.row + win.height - 1, x \in win.col .. win.col + win.width - 1 :
    TileAt(image, y, x) \in DOMAIN decoded

(* A pixel of the stitched window is the image's.                          *)
LEMMA StitchedPixel ==
  ASSUME NEW image, Laid(image), NEW win, PartOf(win, image),
         NEW decoded, Decodes(decoded, image), Complete(decoded, image, win),
         NEW r \in 0 .. win.height - 1, NEW c \in 0 .. win.width - 1
  PROVE  Stitched(image, win, decoded)[r][c] = image.pixels[win.row + r][win.col + c]
<1> DEFINE y == win.row + r
           x == win.col + c
           w == image.tileWidth
           h == image.tileHeight
           k == TileAt(image, y, x)
           i == y % h
           j == x % w
<1>1. Sized(image) /\ Tiled(image) /\ DOMAIN image.samples = 0 .. TileCount(image) - 1
  BY DEF Laid
<1>2. /\ image.width \in Natural /\ image.height \in Natural /\ w \in Natural /\ h \in Natural
  BY <1>1 DEF Sized
<1>3. /\ win.col \in Nat /\ win.width \in Nat /\ win.col + win.width <= image.width
      /\ win.row \in Nat /\ win.height \in Nat /\ win.row + win.height <= image.height
  BY DEF PartOf, Natural
<1>4. /\ y \in 0 .. image.height - 1 /\ x \in 0 .. image.width - 1
      /\ y \in win.row .. win.row + win.height - 1 /\ x \in win.col .. win.col + win.width - 1
  BY <1>2, <1>3 DEF Natural
<1>5. Stitched(image, win, decoded)[r][c] = IF k \in DOMAIN decoded THEN decoded[k][i + 1][j + 1] ELSE 0
  BY Zenon DEF Stitched, TileAt
<1> HIDE DEF y, x
<1>6. k \in DOMAIN decoded /\ k \in DOMAIN image.samples /\ decoded[k] = Rows(image.samples[k], image)
  BY <1>4 DEF Complete, Decodes
<1>7. /\ k \div TilesX(image) = y \div h /\ k % TilesX(image) = x \div w
  BY <1>1, <1>4, TileOfPixel
<1>8. /\ i \in 0 .. h - 1 /\ y = (y \div h) * h + i
      /\ j \in 0 .. w - 1 /\ x = (x \div w) * w + j
  <2> HIDE DEF h, w
  <2>1. i \in 0 .. h - 1 /\ y = (y \div h) * h + i
    <3>1. image.height \in Natural /\ h \in Natural /\ y \in 0 .. image.height - 1
      BY <1>2, <1>4
    <3>2. QED
      BY <3>1, TileOnAxis
  <2>2. j \in 0 .. w - 1 /\ x = (x \div w) * w + j
    <3>1. image.width \in Natural /\ w \in Natural /\ x \in 0 .. image.width - 1
      BY <1>2, <1>4
    <3>2. QED
      BY <3>1, TileOnAxis
  <2>3. QED
    BY <2>1, <2>2
<1>9. (k \div TilesX(image)) * h + i = y /\ (k % TilesX(image)) * w + j = x
  BY <1>7, <1>8
<1>10. y < image.height /\ x < image.width
  BY <1>2, <1>4 DEF Natural
<1> HIDE DEF k, i, j
<1>11. image.pixels[y][x] = image.samples[k][i * w + j + 1]
  <2>1. LET yy == (k \div TilesX(image)) * h + i
            xx == (k % TilesX(image)) * w + j
        IN  yy < image.height /\ xx < image.width =>
              image.pixels[yy][xx] = image.samples[k][i * w + j + 1]
    BY <1>1, <1>6, <1>8, Zenon DEF Tiled
  <2>2. QED
    BY <1>9, <1>10, <2>1, Zenon
<1>12. decoded[k][i + 1][j + 1] = image.samples[k][i * w + j + 1]
  <2>1. /\ i + 1 \in 1 .. h /\ j + 1 \in 1 .. w /\ (i + 1) - 1 = i
        /\ (i * w) \in Int
    BY <1>2, <1>8 DEF Natural
  <2>2. decoded[k][i + 1][j + 1] = image.samples[k][((i + 1) - 1) * w + (j + 1)]
    BY <1>6, <2>1 DEF Rows
  <2> DEFINE q == i * w
  <2>3. ((i + 1) - 1) * w = q
    BY <2>1
  <2>4. q \in Int /\ j \in Int
    BY <1>8, <2>1
  <2>5. decoded[k][i + 1][j + 1] = image.samples[k][q + (j + 1)]
    BY <2>2, <2>3
  <2> HIDE DEF q
  <2>6. q + (j + 1) = q + j + 1
    BY <2>4
  <2>7. decoded[k][i + 1][j + 1] = image.samples[k][q + j + 1]
    BY <2>5, <2>6
  <2>8. QED
    BY <2>7 DEF q
<1>13. QED
  BY <1>5, <1>6, <1>11, <1>12 DEF x, y

(* The pixels of the image at the centres of the grid's cells.             *)
AtCentres(image, g, fill) ==
  [r \in 0 .. g.height - 1 |-> [c \in 0 .. g.width - 1 |->
     IF Row(image, g, r) \in 0 .. image.height - 1 /\ Col(image, g, c) \in 0 .. image.width - 1
     THEN image.pixels[Row(image, g, r)][Col(image, g, c)] ELSE fill]]

(* The grid's pixels taken from the stitched window are the image's at the *)
(* centres.                                                                *)
LEMMA NearestOfStitched ==
  ASSUME NEW image, Laid(image), NEW g, Wanted(g), Window(image, g) # Empty,
         NEW decoded, Decodes(decoded, image), Complete(decoded, image, Window(image, g)), NEW fill
  PROVE  Nearest(image, Window(image, g), Stitched(image, Window(image, g), decoded), g, fill)
           = AtCentres(image, g, fill)
<1> DEFINE win == Window(image, g)
           stitched == Stitched(image, win, decoded)
           row(r) == Centre(g.y, win.row * image.pixel, r, g.pixel) \div (2 * image.pixel)
           col(c) == Centre(g.x, win.col * image.pixel, c, g.pixel) \div (2 * image.pixel)
<1>1. Sized(image)
  BY DEF Laid
<1>2. PartOf(win, image)
  BY <1>1, WindowParts
<1>3. ASSUME NEW r \in 0 .. g.height - 1, NEW c \in 0 .. g.width - 1
      PROVE  (IF row(r) \in 0 .. win.height - 1 /\ col(c) \in 0 .. win.width - 1 THEN stitched[row(r)][col(c)] ELSE fill)
             = IF Row(image, g, r) \in 0 .. image.height - 1 /\ Col(image, g, c) \in 0 .. image.width - 1
               THEN image.pixels[Row(image, g, r)][Col(image, g, c)] ELSE fill
  <2> DEFINE y == row(r)
             x == col(c)
             yy == Row(image, g, r)
             xx == Col(image, g, c)
  <2>1. /\ y = yy - win.row /\ x = xx - win.col /\ yy \in Int /\ xx \in Int
        /\ y \in 0 .. win.height - 1 <=> yy \in 0 .. image.height - 1
        /\ x \in 0 .. win.width - 1 <=> xx \in 0 .. image.width - 1
    BY <1>1, WindowIsEnough, Zenon
  <2>2. win.row \in Int /\ win.col \in Int
    BY <1>2 DEF PartOf
  <2> HIDE DEF win, stitched, y, x, yy, xx
  <2>3. win.row + y = yy /\ win.col + x = xx
    BY <2>1, <2>2
  <2>4. ASSUME y \in 0 .. win.height - 1, x \in 0 .. win.width - 1
        PROVE  stitched[y][x] = image.pixels[yy][xx]
    <3>1. Complete(decoded, image, win)
      BY DEF win
    <3>2. Stitched(image, win, decoded)[y][x] = image.pixels[win.row + y][win.col + x]
      BY <1>2, <2>4, <3>1, StitchedPixel
    <3>3. QED
      BY <2>3, <3>2 DEF stitched
  <2>5. (IF y \in 0 .. win.height - 1 /\ x \in 0 .. win.width - 1 THEN stitched[y][x] ELSE fill)
        = IF yy \in 0 .. image.height - 1 /\ xx \in 0 .. image.width - 1 THEN image.pixels[yy][xx] ELSE fill
    BY <2>1, <2>4
  <2>6. QED
    BY <2>5 DEF y, x, yy, xx
<1>4. Nearest(image, win, stitched, g, fill) =
        [r \in 0 .. g.height - 1 |-> [c \in 0 .. g.width - 1 |->
           IF row(r) \in 0 .. win.height - 1 /\ col(c) \in 0 .. win.width - 1 THEN stitched[row(r)][col(c)] ELSE fill]]
  BY DEF Nearest
<1> HIDE DEF win, stitched, row, col
<1>5. QED
  BY <1>3, <1>4 DEF AtCentres, stitched, win

-----------------------------------------------------------------------------
(* Opening: what each opener has left to parse is a list of byte ranges.   *)
OpenPoints == {"away", "closed", "asking", "parsing", "more", "opened", "open_failed"}
OpenerStates == [pc : OpenPoints, chunks : SUBSET (Nat \X Nat), left : Seq(Nat \X Nat)]

OpenInv == /\ file \in DOMAIN Files
           /\ opener \in [Openers -> OpenerStates]
           /\ \A t \in Openers : opener[t].pc = "more" => opener[t].left # <<>>

(* The block fetched for a value starts less than Align bytes before it.   *)
LEMMA BlockStartBefore ==
  ASSUME NEW offset \in Nat
  PROVE  /\ BlockStart(offset) \in Nat
         /\ BlockStart(offset) <= offset
         /\ offset < BlockStart(offset) + Align
<1>1. ASSUME NEW a \in Nat \ {0}
      PROVE  /\ (offset \div a) * a \in Nat
             /\ (offset \div a) * a <= offset
             /\ offset < (offset \div a) * a + a
  OBVIOUS
<1>2. QED
  BY <1>1, BlockAssumption DEF BlockStart

LEMMA BlockCovers ==
  ASSUME file \in DOMAIN Files, NEW read \in Nat \X Nat, Reachable(read)
  PROVE  Has({Chunk(BlockStart(read[1]), Block)}, read)
<1> DEFINE start == BlockStart(read[1])
<1>1. read[1] \in Nat /\ read[2] \in Nat /\ Files[file].length \in Nat
  BY FilesAssumption
<1>2. start \in Nat /\ start <= read[1] /\ read[1] < start + Align
  BY <1>1, BlockStartBefore
<1> HIDE DEF start
<1>3. read[2] <= Block - Align + 1 /\ read[1] + read[2] <= Files[file].length
  BY DEF Reachable
<1>4. read[1] + read[2] <= start + Block
  BY <1>1, <1>2, <1>3, BlockAssumption
<1>5. /\ Chunk(start, Block)[1] = start
      /\ Chunk(start, Block)[2] \in {start + Block, Files[file].length}
  BY DEF Chunk
<1>6. read[1] + read[2] <= Chunk(start, Block)[2]
  BY <1>3, <1>4, <1>5
<1>7. QED
  BY <1>2, <1>5, <1>6 DEF Has, start

LEMMA ChunkType ==
  ASSUME file \in DOMAIN Files, NEW start \in Nat, NEW length \in Nat
  PROVE  Chunk(start, length) \in Nat \X Nat
BY FilesAssumption DEF Chunk

LEMMA ClosedType ==
  ASSUME NEW point \in OpenPoints
  PROVE  [Closed EXCEPT !.pc = point] \in OpenerStates /\ [Closed EXCEPT !.pc = point].pc = point
<1>1. [Closed EXCEPT !.pc = point] = [pc |-> point, chunks |-> {}, left |-> <<>>]
  BY DEF Closed
<1>2. {} \in SUBSET (Nat \X Nat) /\ <<>> \in Seq(Nat \X Nat)
  OBVIOUS
<1>3. QED
  BY <1>1, <1>2 DEF OpenerStates

LEMMA OpenInvInit == Init => OpenInv
<1> SUFFICES ASSUME Init PROVE OpenInv
  OBVIOUS
<1>1. Closed \in OpenerStates /\ [Closed EXCEPT !.pc = "away"] \in OpenerStates
  <2>1. Closed = [Closed EXCEPT !.pc = "closed"]
    BY DEF Closed
  <2>2. "closed" \in OpenPoints /\ "away" \in OpenPoints
    BY DEF OpenPoints
  <2>3. QED
    BY <2>1, <2>2, ClosedType
<1>2. opener \in [Openers -> {Closed, [Closed EXCEPT !.pc = "away"]}]
  BY DEF Init, OpenInit
<1>3. Closed.pc # "more" /\ [Closed EXCEPT !.pc = "away"].pc # "more"
  BY DEF Closed
<1>4. QED
  BY <1>1, <1>2, <1>3 DEF Init, OpenInv

LEMMA OpenInvStep ==
  ASSUME OpenInv, UNCHANGED file, NEW t \in Openers, OpenStep(t) \/ GetFails(t)
  PROVE  OpenInv'
<1> USE DEF OpenInv
<1>0. opener[t] \in OpenerStates
  OBVIOUS
<1>1. SUFFICES \E state \in OpenerStates :
                 /\ opener' = [opener EXCEPT ![t] = state]
                 /\ state.pc = "more" => state.left # <<>>
  OBVIOUS
<1>3. CASE FromMemory(t) \/ FromDisk(t) \/ Remember(t)
  <2>1. opener' = [opener EXCEPT ![t] = [Closed EXCEPT !.pc = "opened"]]
    BY <1>3 DEF FromMemory, FromDisk, Remember, Opened
  <2>2. QED
    BY <2>1, ClosedType DEF OpenPoints
<1>4. CASE Miss(t)
  <2> DEFINE state == [opener[t] EXCEPT !.pc = "asking"]
  <2>1. state \in OpenerStates /\ state.pc = "asking"
    BY <1>0 DEF OpenerStates, OpenPoints
  <2>2. opener' = [opener EXCEPT ![t] = state]
    BY <1>4 DEF Miss
  <2> HIDE DEF state
  <2>3. QED
    BY <2>1, <2>2
<1>5. CASE FetchHeader(t)
  <2> DEFINE state == [pc |-> "parsing", chunks |-> {Chunk(0, HeaderRange)},
                       left |-> Files[file].reads]
  <2>1. {Chunk(0, HeaderRange)} \in SUBSET (Nat \X Nat)
    BY ChunkType, BlockAssumption
  <2>2. Files[file].reads \in Seq(Nat \X Nat) /\ "parsing" \in OpenPoints
    BY FilesAssumption DEF OpenPoints
  <2>3. state \in OpenerStates /\ state.pc = "parsing"
    BY <2>1, <2>2 DEF OpenerStates
  <2>4. opener' = [opener EXCEPT ![t] = state]
    BY <1>5 DEF FetchHeader
  <2> HIDE DEF state
  <2>5. QED
    BY <2>3, <2>4
<1>6. CASE Parse(t)
  <2>1. opener[t].left \in Seq(Nat \X Nat) /\ opener[t].left # <<>>
    BY <1>0, <1>6 DEF Parse, OpenerStates
  <2>2. Tail(opener[t].left) \in Seq(Nat \X Nat)
    BY <2>1
  <2>3. CASE opener' = [opener EXCEPT ![t].left = Tail(@)]
    <3> DEFINE state == [opener[t] EXCEPT !.left = Tail(opener[t].left)]
    <3>1. state \in OpenerStates /\ state.pc = "parsing"
      BY <1>0, <1>6, <2>2 DEF OpenerStates, Parse
    <3>2. opener' = [opener EXCEPT ![t] = state]
      BY <2>3
    <3> HIDE DEF state
    <3>3. QED
      BY <3>1, <3>2
  <2>4. CASE opener' = [opener EXCEPT ![t].pc = "more"]
    <3> DEFINE state == [opener[t] EXCEPT !.pc = "more"]
    <3>1. state \in OpenerStates /\ state.left = opener[t].left
      BY <1>0 DEF OpenerStates, OpenPoints
    <3>2. opener' = [opener EXCEPT ![t] = state]
      BY <2>4
    <3> HIDE DEF state
    <3>3. QED
      BY <2>1, <3>1, <3>2
  <2>5. QED
    BY <1>6, <2>3, <2>4 DEF Parse
<1>7. CASE FetchBlock(t)
  <2> DEFINE read == Head(opener[t].left)
             chunks == opener[t].chunks \union {Chunk(BlockStart(read[1]), Block)}
  <2>1. CASE Fail(t)
    BY <2>1, ClosedType DEF Fail, OpenPoints
  <2>2. CASE opener' = [opener EXCEPT ![t] = [@ EXCEPT !.pc = "parsing", !.chunks = chunks]]
    <3> DEFINE state == [opener[t] EXCEPT !.pc = "parsing", !.chunks = chunks]
    <3>1. read \in Nat \X Nat
      BY <1>0, <1>7 DEF OpenerStates, FetchBlock
    <3>2. BlockStart(read[1]) \in Nat
      BY <3>1, BlockStartBefore
    <3>3. chunks \in SUBSET (Nat \X Nat)
      BY <1>0, <3>2, ChunkType, BlockAssumption DEF OpenerStates
    <3> HIDE DEF chunks
    <3>4. state \in OpenerStates /\ state.pc = "parsing"
      BY <1>0, <3>3 DEF OpenerStates, OpenPoints
    <3>5. opener' = [opener EXCEPT ![t] = state]
      BY <2>2
    <3> HIDE DEF state
    <3>6. QED
      BY <3>4, <3>5
  <2>3. QED
    BY <1>7, <2>1, <2>2 DEF FetchBlock
<1>8. CASE GetFails(t)
  BY <1>8, ClosedType DEF GetFails, Fail, OpenPoints
<1>9. QED
  BY <1>3, <1>4, <1>5, <1>6, <1>7, <1>8 DEF OpenStep

LEMMA OpenInvNext ==
  ASSUME OpenInv, [Next]_vars
  PROVE  OpenInv'
<1>1. UNCHANGED file
  BY DEF Next, vars, wanted
<1>2. CASE \E t \in Openers : OpenStep(t) \/ GetFails(t)
  BY <1>1, <1>2, OpenInvStep
<1>3. CASE UNCHANGED openVars
  BY <1>1, <1>3 DEF OpenInv, openVars
<1>4. QED
  BY <1>2, <1>3 DEF Next, vars

(* Nothing of a file's directories is out of reach of the one block        *)
(* fetched for it (HeaderBuffer::ensure, cog.rs:1051).                     *)
THEOREM DirectoriesCovered == Spec => []CoverableIsRead
<1>1. OpenInv => CoverableIsRead
  <2> SUFFICES ASSUME OpenInv, NEW t \in Openers, opener[t].pc = "more",
                      Reachable(Head(opener[t].left))
               PROVE  Has({Chunk(BlockStart(Head(opener[t].left)[1]), Block)}, Head(opener[t].left))
    BY DEF CoverableIsRead
  <2>1. opener[t].left \in Seq(Nat \X Nat) /\ opener[t].left # <<>>
    BY DEF OpenInv, OpenerStates
  <2>2. Head(opener[t].left) \in Nat \X Nat
    BY <2>1
  <2>3. QED
    BY <2>2, BlockCovers DEF OpenInv
<1>2. QED
  BY <1>1, OpenInvInit, OpenInvNext, PTL DEF Spec

(* What is left to parse is of the file, so with every value within reach  *)
(* only a request that fails ends an open in an error.                     *)
Readable == \A i \in DOMAIN Files[file].reads : Reachable(Files[file].reads[i])
LeftInv == Readable => \A t \in Openers : \A i \in DOMAIN opener[t].left : Reachable(opener[t].left[i])
FailsForCause == \A t \in Openers : opener[t].pc = "open_failed" => grid \in Racing \/ ~Readable

LEMMA FetchedIsParsed ==
  ASSUME OpenInv, NEW t \in Openers, FetchBlock(t), Reachable(Head(opener[t].left))
  PROVE  opener'[t].pc = "parsing"
<1> DEFINE read == Head(opener[t].left)
           block == Chunk(BlockStart(read[1]), Block)
<1>1. opener[t] \in OpenerStates /\ opener[t].pc = "more" /\ opener[t].left # <<>>
  BY DEF OpenInv, FetchBlock
<1>2. read \in Nat \X Nat
  BY <1>1 DEF OpenerStates
<1>3. Has({block}, read)
  BY <1>2, BlockCovers DEF OpenInv
<1>4. Has(opener[t].chunks \union {block}, read)
  BY <1>3 DEF Has
<1>5. opener' = [opener EXCEPT ![t] = [@ EXCEPT !.pc = "parsing",
                                               !.chunks = opener[t].chunks \union {block}]]
  BY <1>4 DEF FetchBlock
<1> HIDE DEF block
<1>6. QED
  BY <1>1, <1>5 DEF OpenInv, OpenerStates

LEMMA CauseInit == Init => LeftInv /\ FailsForCause
<1> SUFFICES ASSUME Init PROVE LeftInv /\ FailsForCause
  OBVIOUS
<1>1. \A t \in Openers : opener[t].left = <<>> /\ opener[t].pc \in {"closed", "away"}
  BY DEF Init, OpenInit, Closed
<1>2. QED
  BY <1>1 DEF LeftInv, FailsForCause

LEMMA CauseNext ==
  ASSUME OpenInv, LeftInv, FailsForCause, [Next]_vars
  PROVE  LeftInv' /\ FailsForCause'
<1>1. UNCHANGED <<file, grid>> /\ Readable' = Readable
  BY DEF Next, vars, wanted, Readable, Reachable
<1>2. CASE UNCHANGED openVars
  BY <1>1, <1>2 DEF LeftInv, FailsForCause, openVars, Reachable
<1>3. ASSUME NEW t \in Openers, OpenStep(t) \/ (grid \in Racing /\ GetFails(t))
      PROVE  LeftInv' /\ FailsForCause'
  <2>1. /\ \A u \in Openers \ {t} : opener'[u] = opener[u]
        /\ DOMAIN opener = Openers /\ opener[t] \in OpenerStates
    BY <1>3 DEF OpenStep, FromMemory, FromDisk, Miss, FetchHeader, Parse, FetchBlock, Remember,
                GetFails, Opened, Fail, OpenInv
  <2>2. Readable => \A i \in DOMAIN opener[t].left : Reachable(opener[t].left[i])
    BY DEF LeftInv
  <2>3. Readable => /\ \A i \in DOMAIN opener'[t].left : Reachable(opener'[t].left[i])
                    /\ opener'[t].pc = "open_failed" => grid \in Racing
    <3> SUFFICES ASSUME Readable
                 PROVE  /\ \A i \in DOMAIN opener'[t].left : Reachable(opener'[t].left[i])
                        /\ opener'[t].pc = "open_failed" => grid \in Racing
      OBVIOUS
    <3>1. CASE FromMemory(t) \/ FromDisk(t) \/ Remember(t)
      <4>1. opener'[t].left = <<>> /\ opener'[t].pc = "opened"
        BY <2>1, <3>1 DEF FromMemory, FromDisk, Remember, Opened, Closed
      <4>2. QED
        BY <4>1
    <3>2. CASE Miss(t)
      <4>1. opener'[t].left = opener[t].left /\ opener'[t].pc = "asking"
        BY <2>1, <3>2 DEF Miss, OpenerStates
      <4>2. QED
        BY <2>2, <4>1
    <3>3. CASE FetchHeader(t)
      <4>1. opener'[t].left = Files[file].reads /\ opener'[t].pc = "parsing"
        BY <2>1, <3>3 DEF FetchHeader
      <4>2. QED
        BY <4>1 DEF Readable
    <3>4. CASE Parse(t)
      <4>1. opener[t].left \in Seq(Nat \X Nat) /\ opener[t].left # <<>> /\ opener[t].pc = "parsing"
        BY <2>1, <3>4 DEF Parse, OpenerStates
      <4>2. /\ opener'[t].left \in {opener[t].left, Tail(opener[t].left)}
            /\ opener'[t].pc \in {"parsing", "more"}
        BY <2>1, <3>4 DEF Parse, OpenerStates
      <4>3. \A i \in DOMAIN Tail(opener[t].left) : /\ i + 1 \in DOMAIN opener[t].left
                                                 /\ Tail(opener[t].left)[i] = opener[t].left[i + 1]
        BY <4>1, SMTT(40)
      <4>4. QED
        BY <2>2, <4>2, <4>3
    <3>5. CASE FetchBlock(t)
      <4>1. opener[t].left \in Seq(Nat \X Nat) /\ opener[t].left # <<>>
        BY <2>1, <3>5 DEF FetchBlock, OpenInv, OpenerStates
      <4>2. 1 \in DOMAIN opener[t].left /\ Head(opener[t].left) = opener[t].left[1]
        BY <4>1
      <4>3. opener'[t].pc = "parsing"
        BY <2>2, <3>5, <4>2, FetchedIsParsed
      <4>4. opener'[t].left = opener[t].left
        BY <2>1, <3>5, <4>3 DEF FetchBlock, Fail, Closed, OpenerStates
      <4>5. QED
        BY <2>2, <4>3, <4>4
    <3>6. CASE grid \in Racing /\ GetFails(t)
      <4>1. opener'[t].left = <<>>
        BY <2>1, <3>6 DEF GetFails, Fail, Closed
      <4>2. QED
        BY <3>6, <4>1
    <3>7. QED
      BY <1>3, <3>1, <3>2, <3>3, <3>4, <3>5, <3>6 DEF OpenStep
  <2>4. LeftInv'
    BY <1>1, <2>1, <2>3 DEF LeftInv, Reachable
  <2>5. FailsForCause'
    BY <1>1, <2>1, <2>3 DEF FailsForCause
  <2>6. QED
    BY <2>4, <2>5
<1>4. QED
  BY <1>2, <1>3 DEF Next, vars

(* With every directory value within one block of its place, an open ends  *)
(* in an error only where requests may fail.                               *)
THEOREM OpensUnlessRequestFails == Spec => []FailsForCause
<1>1. OpenInv /\ LeftInv /\ FailsForCause /\ [Next]_vars => (OpenInv /\ LeftInv /\ FailsForCause)'
  BY OpenInvNext, CauseNext
<1>2. QED
  BY <1>1, OpenInvInit, CauseInit, PTL DEF Spec
-----------------------------------------------------------------------------
(* Reading: what every group's task has tried and waited.                  *)
Worst(attempt) == CASE attempt = 0 -> 0
                    [] attempt = 1 -> 299
                    [] attempt = 2 -> 898
                    [] attempt = 3 -> 2097
                    [] attempt = 4 -> 4496
                    [] OTHER -> 4496

TaskFields == {"pc", "attempt", "waited", "got"}
TaskInv(g) == /\ DOMAIN task[g] = TaskFields
              /\ task[g].attempt \in 0 .. 5
              /\ task[g].attempt = 5 => task[g].pc = "failed"
              /\ task[g].waited \in Nat /\ task[g].waited <= Worst(task[g].attempt)
RetryInv == \A g \in DOMAIN task : TaskInv(g)

(* Who holds a permit, and what has come of the groups of a read that     *)
(* succeeds.                                                               *)
Holding == {g \in DOMAIN task : task[g].pc \in {"asking", "sleeping", "decoding"}}
Ended == {"done", "failed"}
PermitInv == /\ permits \in Nat
             /\ IsFiniteSet(Holding)
             /\ permits + Cardinality(Holding) = Permits
             /\ pc = "opening" => task = <<>>
             /\ \A g \in DOMAIN task : task[g].pc \in {"queued", "asking", "sleeping", "decoding"} \cup Ended

(* A read succeeds with every range whole.                                 *)
WholeInv == /\ \A g \in DOMAIN task : task[g].pc = "done" => task[g].got = "whole"
            /\ pc = "done" => \A g \in DOMAIN task : task[g].pc = "done"

LEMMA LongestDelay ==
  ASSUME NEW attempt \in 1 .. 4
  PROVE  Delay(attempt) \in Nat /\ Worst(attempt - 1) + Delay(attempt) = Worst(attempt)
<1>1. attempt \in {1, 2, 3, 4}
  OBVIOUS
<1>2. CASE attempt = 1
  BY <1>2, RetryAssumption DEF Delay, Worst
<1>3. CASE attempt = 2
  BY <1>3, RetryAssumption DEF Delay, Worst
<1>4. CASE attempt = 3
  BY <1>4, RetryAssumption DEF Delay, Worst
<1>5. CASE attempt = 4
  BY <1>5, RetryAssumption DEF Delay, Worst
<1>6. QED
  BY <1>1, <1>2, <1>3, <1>4, <1>5

(* What a step of group g makes of its task, and of no other's.            *)
LEMMA WorkChanges ==
  ASSUME RetryInv, NEW g \in DOMAIN task, Work(g)
  PROVE  /\ DOMAIN task' = DOMAIN task
         /\ \A h \in DOMAIN task \ {g} : task'[h] = task[h]
         /\ UNCHANGED pc
<1>1. UNCHANGED pc
  BY DEF Work, Acquire, Reply, ReplyBytes, ReplyFatal, ReplyBusy, Wake, Decode
<1>2. \E state : task' = [task EXCEPT ![g] = state]
  <2>1. CASE Acquire(g)
    BY <2>1 DEF Acquire, Become
  <2>2. CASE Reply(g)
    BY <2>2 DEF Reply, ReplyBytes, ReplyFatal, ReplyBusy, Become
  <2>3. CASE Wake(g) \/ Decode(g)
    BY <2>3 DEF Wake, Decode, Finish, Become
  <2>4. QED
    BY <2>1, <2>2, <2>3 DEF Work
<1>3. QED
  BY <1>1, <1>2

LEMMA WorkState ==
  ASSUME RetryInv, NEW g \in DOMAIN task, Work(g)
  PROVE  /\ TaskInv(g)'
         /\ \/ /\ task[g].pc = "queued" /\ task'[g].pc \in {"asking", "decoding"}
               /\ permits > 0 /\ permits' = permits - 1
            \/ /\ task[g].pc \in {"asking", "sleeping"}
               /\ task'[g].pc \in {"asking", "sleeping", "decoding"}
               /\ UNCHANGED permits
            \/ /\ task[g].pc \in {"asking", "decoding"}
               /\ task'[g].pc \in Ended
               /\ permits' = permits + 1
         /\ task'[g].pc = "done" => task[g].pc = "decoding" /\ task'[g].got = "whole"
<1>1. TaskInv(g)
  BY DEF RetryInv
<1> USE DEF TaskInv, TaskFields, Ended
<1>2. CASE Acquire(g)
  <2>1. task[g].pc = "queued" /\ permits > 0 /\ permits' = permits - 1
    BY <1>2 DEF Acquire
  <2>2. CASE \E got : task' = [task EXCEPT ![g] = [@ EXCEPT !.pc = "decoding", !.got = got]]
    BY <1>1, <2>1, <2>2, ZenonT(40)
  <2>3. CASE Become(g, "asking")
    BY <1>1, <2>1, <2>3 DEF Become
  <2>4. QED
    BY <1>2, <2>2, <2>3 DEF Acquire
<1>3. ASSUME NEW got, ReplyBytes(g, got)
      PROVE  /\ TaskInv(g)' /\ task[g].pc = "asking" /\ task'[g].pc = "decoding"
             /\ UNCHANGED permits
  <2>1. task[g].pc = "asking" /\ UNCHANGED permits
    BY <1>3 DEF ReplyBytes
  <2>2. task' = [task EXCEPT ![g] = [@ EXCEPT !.pc = "decoding", !.got = got]]
    BY <1>3 DEF ReplyBytes
  <2>3. QED
    BY <1>1, <2>1, <2>2
<1>4. CASE ReplyFatal(g) \/ Wake(g)
  BY <1>1, <1>4 DEF ReplyFatal, Wake, Become
<1>5. CASE ReplyBusy(g)
  <2> DEFINE attempt == task[g].attempt + 1
  <2>1. attempt \in 1 .. 5 /\ task[g].pc = "asking"
    BY <1>1, <1>5 DEF ReplyBusy
  <2>2. CASE attempt < 5
    <3>1. attempt \in 1 .. 4 /\ MayRetry(attempt)
      BY <2>1, <2>2, RetryAssumption DEF MayRetry
    <3>2. /\ task' = [task EXCEPT ![g] = [task[g] EXCEPT !.pc = "sleeping", !.attempt = attempt,
                                             !.waited = task[g].waited + Delay(attempt)]]
          /\ UNCHANGED permits
      BY <1>5, <3>1 DEF ReplyBusy
    <3>3. Delay(attempt) \in Nat /\ Worst(attempt - 1) + Delay(attempt) = Worst(attempt)
      BY <3>1, LongestDelay
    <3>4. attempt - 1 = task[g].attempt
      BY <1>1
    <3>5. /\ task'[g].pc = "sleeping" /\ task'[g].attempt = attempt
          /\ task'[g].waited = task[g].waited + Delay(attempt)
          /\ DOMAIN task'[g] = TaskFields
      <4> DEFINE waits == task[g].waited + Delay(attempt)
                 tries == attempt
      <4> HIDE DEF waits, tries
      <4>1. task' = [task EXCEPT ![g] = [task[g] EXCEPT !.pc = "sleeping", !.attempt = tries,
                                                        !.waited = waits]]
        BY <3>2 DEF waits, tries
      <4>2. /\ task'[g].pc = "sleeping" /\ task'[g].attempt = tries /\ task'[g].waited = waits
            /\ DOMAIN task'[g] = TaskFields
        BY <1>1, <4>1
      <4>3. QED
        BY <4>2 DEF waits, tries
    <3>6. Worst(attempt) \in Nat /\ Worst(task[g].attempt) \in Nat
      BY <1>1, <3>1 DEF Worst
    <3>7. task'[g].waited \in Nat /\ task'[g].waited <= Worst(attempt)
      BY <1>1, <3>3, <3>4, <3>5, <3>6
    <3>8. TaskInv(g)'
      BY <3>1, <3>5, <3>7 DEF Worst
    <3>9. QED
      BY <2>1, <3>2, <3>5, <3>8
  <2>3. CASE attempt = 5
    <3>1. ~MayRetry(attempt)
      BY <2>3, RetryAssumption DEF MayRetry
    <3>2. /\ task' = [task EXCEPT ![g] = [@ EXCEPT !.pc = "failed", !.attempt = attempt]]
          /\ permits' = permits + 1
      BY <1>5, <3>1 DEF ReplyBusy
    <3>3. /\ task'[g].pc = "failed" /\ task'[g].attempt = 5 /\ task'[g].waited = task[g].waited
          /\ DOMAIN task'[g] = TaskFields
      BY <1>1, <2>3, <3>2
    <3>4. task[g].attempt = 4
      BY <1>1, <2>3
    <3>5. TaskInv(g)'
      BY <1>1, <3>3, <3>4 DEF Worst
    <3>6. QED
      BY <2>1, <3>2, <3>3, <3>5
  <2>4. QED
    BY <2>1, <2>2, <2>3
<1>6. CASE Decode(g)
  BY <1>1, <1>6 DEF Decode, Finish, Become, Released
<1>7. QED
  BY <1>2, <1>3, <1>4, <1>5, <1>6 DEF Work, Reply

LEMMA ReadInvInit == Init => RetryInv /\ PermitInv /\ WholeInv
<1> SUFFICES ASSUME Init PROVE RetryInv /\ PermitInv /\ WholeInv
  OBVIOUS
<1>1. task = <<>> /\ DOMAIN task = {} /\ pc = "opening" /\ permits = Permits
  BY DEF Init
<1>2. Holding = {}
  BY <1>1 DEF Holding
<1>3. QED
  BY <1>1, <1>2, FS_EmptySet, RetryAssumption DEF RetryInv, PermitInv, WholeInv

(* A group takes a permit when it starts and gives it back when it ends.   *)
LEMMA WorkKeepsPermits ==
  ASSUME RetryInv, PermitInv, NEW g \in DOMAIN task, Work(g)
  PROVE  PermitInv'
<1>1. /\ DOMAIN task' = DOMAIN task
      /\ \A h \in DOMAIN task \ {g} : task'[h] = task[h]
      /\ UNCHANGED pc
  BY WorkChanges
<1>2. /\ permits \in Nat /\ IsFiniteSet(Holding) /\ Cardinality(Holding) \in Nat
      /\ permits + Cardinality(Holding) = Permits
  BY FS_CardinalityType DEF PermitInv
<1>3. task # <<>> /\ pc # "opening"
  <2>1. DOMAIN task # {}
    OBVIOUS
  <2>2. QED
    BY <2>1 DEF PermitInv
<1>4. task'[g].pc \in {"queued", "asking", "sleeping", "decoding"} \cup Ended
  BY WorkState, Zenon DEF Ended
<1>5. /\ permits' \in Nat /\ IsFiniteSet(Holding') /\ permits' + Cardinality(Holding') = Permits
  <2>1. CASE /\ task[g].pc = "queued" /\ task'[g].pc \in {"asking", "decoding"}
             /\ permits > 0 /\ permits' = permits - 1
    <3>1. Holding' = Holding \cup {g} /\ g \notin Holding
      BY <1>1, <2>1 DEF Holding
    <3>2. IsFiniteSet(Holding') /\ Cardinality(Holding') = Cardinality(Holding) + 1
      BY <1>2, <3>1, FS_AddElement
    <3>3. QED
      BY <1>2, <2>1, <3>2
  <2>2. CASE /\ task[g].pc \in {"asking", "sleeping"}
             /\ task'[g].pc \in {"asking", "sleeping", "decoding"}
             /\ UNCHANGED permits
    <3>1. Holding' = Holding
      BY <1>1, <2>2 DEF Holding
    <3>2. QED
      BY <1>2, <2>2, <3>1
  <2>3. CASE /\ task[g].pc \in {"asking", "decoding"}
             /\ task'[g].pc \in Ended
             /\ permits' = permits + 1
    <3>1. Holding' = Holding \ {g} /\ g \in Holding
      BY <1>1, <2>3 DEF Holding, Ended
    <3>2. IsFiniteSet(Holding') /\ Cardinality(Holding') = Cardinality(Holding) - 1
      BY <1>2, <3>1, FS_RemoveElement
    <3>3. QED
      BY <1>2, <2>3, <3>2
  <2>4. QED
    BY <2>1, <2>2, <2>3, WorkState
<1>6. QED
  BY <1>1, <1>3, <1>4, <1>5 DEF PermitInv

LEMMA WorkKeepsWhole ==
  ASSUME RetryInv, WholeInv, NEW g \in DOMAIN task, Work(g)
  PROVE  RetryInv' /\ WholeInv'
<1>1. /\ DOMAIN task' = DOMAIN task
      /\ \A h \in DOMAIN task \ {g} : task'[h] = task[h]
      /\ UNCHANGED pc
  BY WorkChanges
<1>2. /\ TaskInv(g)'
      /\ task'[g].pc = "done" => task'[g].got = "whole"
      /\ task[g].pc # "done"
  BY WorkState, Zenon DEF Ended
<1>3. RetryInv'
  BY <1>1, <1>2 DEF RetryInv, TaskInv
<1>4. WholeInv'
  BY <1>1, <1>2 DEF WholeInv
<1>5. QED
  BY <1>3, <1>4

LEMMA ReadInvNext ==
  ASSUME RetryInv, PermitInv, WholeInv, [Next]_vars
  PROVE  RetryInv' /\ PermitInv' /\ WholeInv'
<1>1. CASE UNCHANGED <<pc, task, permits>>
  BY <1>1 DEF RetryInv, TaskInv, PermitInv, Holding, WholeInv
<1>2. CASE Skip
  <2>1. UNCHANGED <<task, permits>> /\ pc' = "skipped"
    BY <1>2 DEF Skip
  <2>2. QED
    BY <2>1 DEF RetryInv, TaskInv, PermitInv, Holding, WholeInv
<1>3. CASE Plan
  <2>1. /\ pc = "opening" /\ pc' = "reading" /\ UNCHANGED permits
        /\ task' = [g \in DOMAIN groups' |-> Queued]
    BY <1>3 DEF Plan, Opens
  <2>2. task = <<>> /\ DOMAIN task = {}
    BY <2>1 DEF PermitInv
  <2>3. Holding = {}
    BY <2>2 DEF Holding
  <2>4. Holding' = {}
    BY <2>1 DEF Holding, Queued
  <2>5. RetryInv'
    BY <2>1 DEF RetryInv, TaskInv, TaskFields, Queued, Worst
  <2>6. PermitInv'
    BY <2>1, <2>3, <2>4 DEF PermitInv, Queued
  <2>7. WholeInv'
    BY <2>1 DEF WholeInv, Queued
  <2>8. QED
    BY <2>5, <2>6, <2>7
<1>4. CASE Collect
  <2>1. /\ UNCHANGED <<task, permits>> /\ pc' \in Ended
        /\ pc' = "done" => \A g \in DOMAIN task : task[g].pc = "done"
    BY <1>4 DEF Collect, Join, Ended
  <2>2. QED
    BY <2>1 DEF RetryInv, TaskInv, PermitInv, Holding, WholeInv, Ended
<1>5. CASE \E g \in DOMAIN task : Work(g)
  BY <1>5, WorkKeepsPermits, WorkKeepsWhole
<1>6. CASE Again
  <2>1. /\ \A g \in DOMAIN task : task[g].pc \in Ended
        /\ task' = <<>> /\ UNCHANGED permits /\ pc' = "opening"
    BY <1>6 DEF Again, Ended
  <2>2. Holding = {} /\ Holding' = {} /\ DOMAIN task' = {}
    BY <2>1 DEF Holding, Ended
  <2>3. QED
    BY <2>1, <2>2 DEF RetryInv, PermitInv, WholeInv
<1>7. QED
  BY <1>1, <1>2, <1>3, <1>4, <1>5, <1>6 DEF Next, ReadStep, vars, readVars

LEMMA ReadInvHolds == Spec => [](RetryInv /\ PermitInv /\ WholeInv)
<1>1. RetryInv /\ PermitInv /\ WholeInv /\ [Next]_vars => (RetryInv /\ PermitInv /\ WholeInv)'
  BY ReadInvNext
<1>2. QED
  BY <1>1, ReadInvInit, PTL DEF Spec

(* However the server answers, a range is asked for at most five times     *)
(* and, by the schedule, waited for less than six seconds                  *)
(* (cog.rs:676-685, 753-766).                                              *)
THEOREM RetriesAreBounded == Spec => []RetriesBounded
<1>1. RetryInv => RetriesBounded
  BY DEF RetryInv, TaskInv, RetriesBounded, Worst
<1>2. QED
  BY <1>1, ReadInvHolds, PTL

(* The semaphore is never overdrawn: no more ranges are in flight than it  *)
(* has permits, and when the groups of a read have all ended, those the    *)
(* read left behind included, every permit is back.                        *)
PermitsReturn ==
  /\ Cardinality(Holding) <= Permits
  /\ (\A g \in DOMAIN task : task[g].pc \in Ended) => permits = Permits

THEOREM PermitsComeBack == Spec => []PermitsReturn
<1>1. PermitInv => PermitsReturn
  <2> SUFFICES ASSUME PermitInv PROVE PermitsReturn
    OBVIOUS
  <2>1. /\ permits \in Nat /\ Cardinality(Holding) \in Nat /\ Permits \in Nat
        /\ permits + Cardinality(Holding) = Permits
    BY FS_CardinalityType, RetryAssumption DEF PermitInv
  <2>2. ASSUME \A g \in DOMAIN task : task[g].pc \in Ended PROVE permits = Permits
    <3>1. Holding = {}
      BY <2>2 DEF Holding, Ended
    <3>2. QED
      BY <2>1, <3>1, FS_EmptySet
  <2>3. QED
    BY <2>1, <2>2 DEF PermitsReturn
<1>2. QED
  BY <1>1, ReadInvHolds, PTL

(* A read succeeds only when each of its ranges came whole: no refused or  *)
(* cut range passes for data, from the server or from the cache.           *)
NoneCut == pc = "done" => \A g \in DOMAIN task : task[g].pc = "done" /\ task[g].got = "whole"

THEOREM ReadsAreWhole == Spec => []NoneCut
<1>1. WholeInv => NoneCut
  BY DEF WholeInv, NoneCut
<1>2. QED
  BY <1>1, ReadInvHolds, PTL

-----------------------------------------------------------------------------
(* What RastersAssumption says of a level of a file.                       *)
Bytes(f) == Files[f].bytes
FiledAt(f, image, k) == Filed(Files[f], image, StoredTile(Files[f], image, k), image.samples[k])

(* The parts of IsImage and IsRaster, by name.                             *)
LEMMA ImageParts ==
  ASSUME NEW f \in DOMAIN Files, NEW l \in DOMAIN Files[f].levels
  PROVE  LET image == Files[f].levels[l]
         IN  /\ Sized(image) /\ image.samples \in [0 .. TileCount(image) - 1 ->
                  [1 .. image.tileWidth * image.tileHeight -> 0 .. 2^Files[f].bits - 1]]
             /\ image.offsets \in [1 .. TileCount(image) -> Nat]
             /\ image.counts \in [1 .. TileCount(image) -> Natural]
             /\ \A k \in 0 .. TileCount(image) - 1 :
                  /\ image.offsets[k + 1] + image.counts[k + 1] <= Len(Bytes(f))
                  /\ 8 * image.counts[k + 1] >= (image.tileWidth * image.tileHeight) * Files[f].bits
                  /\ Encodes(Files[f], image, StoredTile(Files[f], image, k), image.samples[k])
             /\ Tiled(image)
<1> DEFINE image == Files[f].levels[l]
<1>1. IsImage(Files[f], image)
  BY RastersAssumption DEF IsRaster
<1>2. Sized(image)
  BY <1>1 DEF IsImage, Sized, Natural
<1> HIDE DEF image
<1>3. QED
  BY <1>1, <1>2, Zenon DEF IsImage, TileCount, Natural, Bytes, image

LEMMA RasterParts ==
  ASSUME NEW f \in DOMAIN Files
  PROVE  /\ Files[f].bits \in 1 .. 16 /\ (Files[f].bits % 8 # 0 => Files[f].predictor # 2)
         /\ Bytes(f) \in Seq(Byte)
         /\ Len(Files[f].levels) \in Natural /\ DOMAIN Files[f].levels = 1 .. Len(Files[f].levels)
BY RastersAssumption DEF IsRaster, Bytes, Byte, Natural

(* An image has tiles.                                                     *)
LEMMA TileCountType ==
  ASSUME NEW image, Sized(image)
  PROVE  TileCount(image) \in Natural
<1>1. 0 \in 0 .. image.height - 1 /\ 0 \in 0 .. image.width - 1
  BY DEF Sized, Natural
<1>2. TilesX(image) \in Natural /\ TilesY(image) \in Natural
  BY <1>1, TileOfPixel
<1>3. ASSUME NEW a \in Natural, NEW b \in Natural PROVE a * b \in Natural
  BY DEF Natural
<1>4. QED
  BY <1>2, <1>3 DEF TileCount

(* Its tiles lie within the file.                                          *)
LEMMA ImageIsLaid ==
  ASSUME NEW f \in DOMAIN Files, NEW l \in DOMAIN Files[f].levels
  PROVE  LET image == Files[f].levels[l]
         IN  Laid(image) /\ Fetchable(TileSet(image), Len(Bytes(f)))
<1> DEFINE image == Files[f].levels[l]
           n == TileCount(image)
<1>1. /\ Sized(image) /\ Tiled(image) /\ DOMAIN image.samples = 0 .. n - 1
      /\ image.offsets \in [1 .. n -> Nat] /\ image.counts \in [1 .. n -> Natural]
      /\ \A k \in 0 .. n - 1 : image.offsets[k + 1] + image.counts[k + 1] <= Len(Bytes(f))
  BY ImageParts, Zenon
<1>2. n \in Natural
  BY <1>1, TileCountType
<1> HIDE DEF image, n
<1>3. Laid(image)
  BY <1>1 DEF Laid, n
<1>4. ASSUME NEW x \in TileSet(image)
      PROVE  x.offset \in Nat /\ x.count \in Natural /\ x.offset + x.count <= Len(Bytes(f))
  <2>1. PICK k \in 0 .. n - 1 : x = TileNo(image, k)
    BY DEF TileSet, n
  <2>2. k + 1 \in 1 .. n
    BY <1>2, <2>1 DEF Natural
  <2>3. x.offset = image.offsets[k + 1] /\ x.count = image.counts[k + 1]
    BY <2>1 DEF TileNo
  <2>4. QED
    BY <1>1, <2>1, <2>2, <2>3
<1>5. QED
  BY <1>3, <1>4 DEF Fetchable, image

(* Each tile is filed there.                                               *)
LEMMA ImageIsFiled ==
  ASSUME NEW f \in DOMAIN Files, NEW l \in DOMAIN Files[f].levels,
         NEW k \in 0 .. TileCount(Files[f].levels[l]) - 1
  PROVE  FiledAt(f, Files[f].levels[l], k)
<1> DEFINE image == Files[f].levels[l]
           n == TileCount(image)
           size == image.tileWidth * image.tileHeight
           bits == Files[f].bits
           bytes == StoredTile(Files[f], image, k)
           offset == image.offsets[k + 1]
           count == image.counts[k + 1]
<1>1. /\ Sized(image) /\ image.samples \in [0 .. n - 1 -> [1 .. size -> 0 .. 2^bits - 1]]
      /\ image.offsets \in [1 .. n -> Nat] /\ image.counts \in [1 .. n -> Natural]
      /\ \A i \in 0 .. n - 1 :
           /\ image.offsets[i + 1] + image.counts[i + 1] <= Len(Bytes(f))
           /\ 8 * image.counts[i + 1] >= size * bits
           /\ Encodes(Files[f], image, StoredTile(Files[f], image, i), image.samples[i])
  BY ImageParts, Zenon
<1>2. /\ bits \in 1 .. 16 /\ (bits % 8 # 0 => Files[f].predictor # 2) /\ Bytes(f) \in Seq(Byte)
  BY RasterParts, Zenon
<1>3. n \in Natural
  BY <1>1, TileCountType
<1>4. bytes = SubSeq(Bytes(f), offset + 1, offset + count)
  BY Zenon DEF StoredTile, Bytes
<1>5. k + 1 \in 1 .. n
  BY <1>3 DEF Natural
<1> HIDE DEF image, n
<1>6. offset \in Nat /\ count \in Natural
  BY <1>1, <1>5
<1>7. offset + count <= Len(Bytes(f)) /\ 8 * count >= size * bits /\ Encodes(Files[f], image, bytes, image.samples[k])
  BY <1>1, Zenon DEF n, image
<1> HIDE DEF size, offset, count
<1>8. bytes \in Seq(Byte) /\ Len(bytes) = count
  <2> HIDE DEF bytes
  <2>1. Len(Bytes(f)) \in Nat
    BY <1>2
  <2>2. QED
    BY <1>2, <1>4, <1>6, <1>7, <2>1 DEF Natural
<1>9. image.samples[k] \in [1 .. size -> 0 .. Pow2(bits) - 1]
  <2>1. image.samples[k] \in [1 .. size -> 0 .. 2^bits - 1]
    BY <1>1, Zenon DEF n, image
  <2>2. QED
    BY <2>1, Zenon DEF Pow2
<1> HIDE DEF bytes, bits
<1>10. Filed(Files[f], image, bytes, image.samples[k])
  BY <1>1, <1>2, <1>7, <1>8, <1>9, Zenon DEF Filed, size, bits
<1>11. QED
  BY <1>10, Zenon DEF FiledAt, bytes, image

(* The level a grid asks for is there.                                     *)
LEMMA LevelType ==
  ASSUME NEW f \in DOMAIN Files, NEW g \in Grids
  PROVE  Wanted(g) /\ Level(Files[f], g) \in DOMAIN Files[f].levels
<1>1. Wanted(g)
  BY GridsAssumption DEF Wanted, Natural
<1>2. \A l \in DOMAIN Files[f].levels : Sized(Files[f].levels[l])
  BY ImageParts, Zenon
<1>3. Len(Files[f].levels) \in Natural /\ DOMAIN Files[f].levels = 1 .. Len(Files[f].levels)
  BY RasterParts, Zenon
<1>4. QED
  BY <1>1, <1>2, <1>3, LevelIsOne, Zenon

-----------------------------------------------------------------------------
(* Of a group within the file, every tile decodes to its part of the       *)
(* image: its bytes are cut out of the range as they are stored.           *)
Indices(group) == {t.index : t \in ToSet(group.tiles)}

(* The bytes of a tile in a group are those it is stored in.               *)
LEMMA CutOut ==
  ASSUME file \in DOMAIN Files, level \in DOMAIN Files[file].levels,
         NEW group \in GroupOf(TileSet(TheLevel)), Covers(group, Len(Bytes(file))),
         NEW k \in 0 .. TileCount(TheLevel) - 1, NEW i \in DOMAIN group.tiles,
         group.tiles[i] = TileNo(TheLevel, k)
  PROVE  TileBytes(group, TileNo(TheLevel, k)) = StoredTile(Files[file], TheLevel, k)
<1> DEFINE tile == TileNo(TheLevel, k)
           bytes == Bytes(file)
<1>1. tile \in TileSet(TheLevel)
  BY DEF TileSet
<1>2. Fetchable(TileSet(TheLevel), Len(bytes))
  BY ImageIsLaid DEF TheLevel
<1>3. /\ tile.offset \in Nat /\ tile.count \in Natural
      /\ tile.offset = TheLevel.offsets[k + 1] /\ tile.count = TheLevel.counts[k + 1]
  <2>1. tile.offset = TheLevel.offsets[k + 1] /\ tile.count = TheLevel.counts[k + 1]
    BY DEF TileNo
  <2> HIDE DEF tile, bytes
  <2>2. QED
    BY <1>1, <1>2, <2>1 DEF Fetchable
<1> HIDE DEF tile
<1>4. group.start \in Nat /\ group.end \in Int
  BY DEF GroupOf
<1>5. /\ group.start <= tile.offset /\ tile.offset + tile.count - 1 <= group.end
      /\ group.end < Len(bytes)
  BY DEF Covers, tile
<1>6. bytes \in Seq(Byte)
  BY RasterParts
<1> HIDE DEF bytes
<1>7. SubSeq(SubSeq(bytes, group.start + 1, group.end + 1),
             (tile.offset - group.start) + 1, (tile.offset - group.start) + tile.count)
        = SubSeq(bytes, tile.offset + 1, tile.offset + tile.count)
  BY <1>3, <1>4, <1>5, <1>6, CutTwice
<1>8. TileBytes(group, tile) = SubSeq(SubSeq(bytes, group.start + 1, group.end + 1),
             (tile.offset - group.start) + 1, (tile.offset - group.start) + tile.count)
  BY Zenon DEF TileBytes, bytes, Bytes
<1>9. StoredTile(Files[file], TheLevel, k) = SubSeq(bytes, tile.offset + 1, tile.offset + tile.count)
  BY <1>3, Zenon DEF StoredTile, bytes, Bytes
<1>10. QED
  BY <1>7, <1>8, <1>9, Zenon DEF tile

(* A group decodes to its tiles' parts of the image.                       *)
LEMMA GroupDecodes ==
  ASSUME file \in DOMAIN Files, level \in DOMAIN Files[file].levels,
         NEW group \in GroupOf(TileSet(TheLevel)), Covers(group, Len(Bytes(file)))
  PROVE  DOMAIN TilesOf(group) = Indices(group) /\ Decodes(TilesOf(group), TheLevel)
<1> DEFINE Tile(i) == CHOOSE t \in ToSet(group.tiles) : t.index = i
           n == TileCount(TheLevel)
<1>1. TilesOf(group) = [i \in Indices(group) |->
                          Decoded(Files[file], TheLevel, TileBytes(group, Tile(i)))]
  BY Zenon DEF TilesOf, Indices
<1>2. ASSUME NEW i \in Indices(group)
      PROVE  /\ i \in DOMAIN TheLevel.samples
             /\ Decoded(Files[file], TheLevel, TileBytes(group, Tile(i)))
                  = Rows(TheLevel.samples[i], TheLevel)
  <2> DEFINE t == Tile(i)
  <2>1. t \in ToSet(group.tiles) /\ t.index = i
    BY DEF Indices
  <2> HIDE DEF t
  <2>2. PICK j \in DOMAIN group.tiles : group.tiles[j] = t
    BY <2>1 DEF ToSet
  <2>3. t \in TileSet(TheLevel)
    BY <2>2 DEF GroupOf
  <2>4. i \in 0 .. n - 1 /\ t = TileNo(TheLevel, i)
    <3>1. PICK k \in 0 .. n - 1 : t = TileNo(TheLevel, k)
      BY <2>3 DEF TileSet
    <3>2. k = i
      BY <2>1, <3>1 DEF TileNo
    <3>3. QED
      BY <3>1, <3>2
  <2>5. TileBytes(group, t) = StoredTile(Files[file], TheLevel, i)
    BY <2>2, <2>4, CutOut
  <2>6. Filed(Files[file], TheLevel, StoredTile(Files[file], TheLevel, i), TheLevel.samples[i])
    BY <2>4, ImageIsFiled, Zenon DEF FiledAt, TheLevel
  <2>7. Decoded(Files[file], TheLevel, TileBytes(group, t)) = Rows(TheLevel.samples[i], TheLevel)
    BY <2>5, <2>6, DecodedIs, Zenon
  <2>8. i \in DOMAIN TheLevel.samples
    BY <2>4, ImageIsLaid, Zenon DEF Laid, TheLevel
  <2>9. QED
    BY <2>7, <2>8, Zenon DEF t
<1> HIDE DEF Tile
<1>3. QED
  BY <1>1, <1>2 DEF Decodes

-----------------------------------------------------------------------------
(* What is planned is what the window needs, what is decoded is the image, *)
(* a group that is done has left its tiles, and the raster is stitched of  *)
(* them.                                                                   *)
AimInv == /\ file \in DOMAIN Files /\ grid \in Grids
          /\ level = Level(Files[file], grid) /\ window = Window(TheLevel, grid)
Unplanned == {"opening", "skipped"}
Planned == Groups(TilesForWindow(TheLevel, window))
PlanInv == /\ DOMAIN task = DOMAIN groups
           /\ pc \in Unplanned => groups = <<>>
           /\ pc \notin Unplanned => window # Empty /\ groups = Planned
TilesInv == /\ Decodes(tiles, TheLevel)
            /\ \A g \in DOMAIN task : task[g].pc = "done" => Indices(groups[g]) \subseteq DOMAIN tiles
RasterInv == pc = "done" => raster = Stitched(TheLevel, window, tiles)
ImageInv == AimInv /\ PlanInv /\ TilesInv /\ RasterInv

(* Nothing is planned or decoded at first.                                 *)
LEMMA ImageInvInit == Init => ImageInv
<1> SUFFICES ASSUME Init PROVE ImageInv
  OBVIOUS
<1>1. AimInv
  BY DEF Init, AimInv
<1>2. /\ pc = "opening" /\ groups = <<>> /\ task = <<>> /\ tiles = <<>>
      /\ DOMAIN groups = {} /\ DOMAIN task = {} /\ DOMAIN tiles = {}
  BY DEF Init
<1>3. PlanInv /\ RasterInv
  BY <1>2 DEF PlanInv, RasterInv, Unplanned
<1>4. TilesInv
  BY <1>2 DEF TilesInv, Decodes
<1>5. QED
  BY <1>1, <1>3, <1>4 DEF ImageInv

(* The groups planned are within the file and hold the tile of every pixel *)
(* of the window.                                                          *)
LEMMA PlannedCover ==
  ASSUME AimInv, window # Empty
  PROVE  /\ file \in DOMAIN Files /\ level \in DOMAIN Files[file].levels
         /\ Laid(TheLevel) /\ Wanted(grid) /\ PartOf(window, TheLevel)
         /\ Planned \in Seq(GroupOf(TileSet(TheLevel)))
         /\ AllCover(Planned, Len(Bytes(file)))
         /\ \A y \in window.row .. window.row + window.height - 1,
               x \in window.col .. window.col + window.width - 1 :
              InGroup(Planned, TileNo(TheLevel, TileAt(TheLevel, y, x)))
<1> DEFINE list == TilesForWindow(TheLevel, window)
           X == TileSet(TheLevel)
           limit == Len(Bytes(file))
<1>1. /\ file \in DOMAIN Files /\ level \in DOMAIN Files[file].levels /\ Wanted(grid)
      /\ window = Window(TheLevel, grid)
  BY LevelType DEF AimInv
<1>2. Laid(TheLevel) /\ Fetchable(X, limit)
  BY <1>1, ImageIsLaid DEF TheLevel
<1>3. Sized(TheLevel)
  BY <1>2 DEF Laid
<1>4. PartOf(window, TheLevel)
  BY <1>1, <1>3, WindowParts
<1>5. /\ list \in Seq(X)
      /\ \A y \in window.row .. window.row + window.height - 1,
            x \in window.col .. window.col + window.width - 1 :
           \E i \in DOMAIN list : list[i] = TileNo(TheLevel, TileAt(TheLevel, y, x))
  BY <1>3, <1>4, WindowTiles, Zenon
<1>6. limit \in Nat
  BY <1>1, RasterParts
<1> HIDE DEF list, X, limit
<1>7. /\ Groups(list) \in Seq(GroupOf(X)) /\ AllCover(Groups(list), limit)
      /\ \A i \in DOMAIN list : InGroup(Groups(list), list[i])
  BY <1>2, <1>5, <1>6, GroupsCover
<1>8. Planned = Groups(list)
  BY DEF Planned, list
<1>9. \A y \in window.row .. window.row + window.height - 1,
         x \in window.col .. window.col + window.width - 1 :
        InGroup(Planned, TileNo(TheLevel, TileAt(TheLevel, y, x)))
  BY <1>5, <1>7, <1>8, Zenon
<1>10. QED
  BY <1>1, <1>2, <1>4, <1>7, <1>8, <1>9, Zenon DEF X, limit

(* A group that a step of its task decodes adds its tiles and no others.   *)
LEMMA WorkKeepsImage ==
  ASSUME RetryInv, WholeInv, ImageInv, NEW g \in DOMAIN task, Work(g), UNCHANGED wanted
  PROVE  ImageInv'
<1>1. /\ DOMAIN task' = DOMAIN task
      /\ \A h \in DOMAIN task \ {g} : task'[h] = task[h]
      /\ UNCHANGED pc
  BY WorkChanges
<1>2. UNCHANGED <<groups, raster>>
  BY DEF Work, Acquire, Reply, ReplyBytes, ReplyFatal, ReplyBusy, Wake, Decode
<1>3. UNCHANGED <<file, grid, level, window>> /\ TheLevel' = TheLevel /\ Planned' = Planned
  BY DEF wanted, TheLevel, Planned
<1>4. pc \notin Unplanned /\ pc # "done"
  <2>1. pc \notin Unplanned
    <3>1. DOMAIN groups # {}
      BY DEF ImageInv, PlanInv
    <3>2. QED
      BY <3>1 DEF ImageInv, PlanInv
  <2>2. task[g].pc # "done"
    BY WorkState, Zenon DEF Ended
  <2>3. QED
    BY <2>1, <2>2 DEF WholeInv
<1>5. AimInv'
  BY <1>3 DEF ImageInv, AimInv
<1>6. PlanInv'
  BY <1>1, <1>2, <1>3, <1>4 DEF ImageInv, PlanInv
<1>7. RasterInv'
  BY <1>1, <1>4 DEF RasterInv
<1>8. TilesInv'
  <2>1. /\ Decodes(tiles, TheLevel)
        /\ \A h \in DOMAIN task : task[h].pc = "done" => Indices(groups[h]) \subseteq DOMAIN tiles
    BY DEF ImageInv, TilesInv
  <2>2. CASE UNCHANGED tiles /\ task'[g].pc # "done"
    <3>1. \A h \in DOMAIN task' : task'[h].pc = "done" => Indices(groups'[h]) \subseteq DOMAIN tiles'
      BY <1>1, <1>2, <2>1, <2>2
    <3>2. QED
      BY <1>3, <2>1, <2>2, <3>1 DEF TilesInv, Indices
  <2>3. CASE tiles' = WithTiles(groups[g])
    <3> DEFINE found == TilesOf(groups[g])
               group == groups[g]
    <3>1. groups = Planned /\ g \in DOMAIN Planned /\ window # Empty
      BY <1>4 DEF ImageInv, PlanInv
    <3>2. /\ file \in DOMAIN Files /\ level \in DOMAIN Files[file].levels
          /\ group \in GroupOf(TileSet(TheLevel)) /\ Covers(group, Len(Bytes(file)))
      BY <3>1, PlannedCover DEF ImageInv, AllCover
    <3>3. DOMAIN found = Indices(group) /\ Decodes(found, TheLevel)
      BY <3>2, GroupDecodes
    <3> HIDE DEF found, group
    <3>4. tiles' = [k \in DOMAIN found \cup DOMAIN tiles |-> IF k \in DOMAIN found THEN found[k] ELSE tiles[k]]
      BY <2>3 DEF found, WithTiles
    <3>5. Decodes(tiles', TheLevel')
      BY <1>3, <2>1, <3>3, <3>4 DEF Decodes
    <3>6. DOMAIN tiles' = Indices(group) \cup DOMAIN tiles
      BY <3>3, <3>4
    <3>7. \A h \in DOMAIN task' : task'[h].pc = "done" => Indices(groups'[h]) \subseteq DOMAIN tiles'
      BY <1>1, <1>2, <2>1, <3>6 DEF group
    <3>8. QED
      BY <3>5, <3>7 DEF TilesInv, Decodes, Indices
  <2>4. (UNCHANGED tiles /\ task'[g].pc # "done") \/ tiles' = WithTiles(groups[g])
    <3>1. CASE Decode(g)
      BY <3>1 DEF Decode
    <3>2. CASE Acquire(g) \/ Reply(g) \/ Wake(g)
      <4>1. UNCHANGED tiles
        BY <3>2 DEF Acquire, Reply, ReplyBytes, ReplyFatal, ReplyBusy, Wake
      <4>2. task'[g].pc # "done"
        <5>1. task'[g].pc = "done" => task[g].pc = "decoding"
          BY WorkState, Zenon
        <5>2. task[g].pc # "decoding"
          BY <3>2 DEF Acquire, Reply, ReplyBytes, ReplyFatal, ReplyBusy, Wake
        <5>3. QED
          BY <5>1, <5>2
      <4>3. QED
        BY <4>1, <4>2
    <3>3. QED
      BY <3>1, <3>2 DEF Work
  <2>5. QED
    BY <2>2, <2>3, <2>4
<1>9. QED
  BY <1>5, <1>6, <1>7, <1>8 DEF ImageInv

(* Planning, collecting and beginning again keep to the window and the     *)
(* image.                                                                  *)
LEMMA ImageInvNext ==
  ASSUME RetryInv, PermitInv, WholeInv, ImageInv, [Next]_vars
  PROVE  ImageInv'
<1> USE DEF Unplanned
<1>1. UNCHANGED wanted
  BY DEF Next, vars
<1>2. UNCHANGED <<file, grid, level, window>> /\ TheLevel' = TheLevel /\ Planned' = Planned
  BY <1>1 DEF wanted, TheLevel, Planned
<1>3. AimInv'
  BY <1>2 DEF ImageInv, AimInv
<1>4. Decodes(tiles, TheLevel) /\ DOMAIN task = DOMAIN groups
  BY DEF ImageInv, TilesInv, PlanInv
<1>5. CASE UNCHANGED <<pc, groups, task, tiles, raster>>
  <2>1. PlanInv' /\ RasterInv'
    BY <1>2, <1>5 DEF ImageInv, PlanInv, RasterInv
  <2>2. TilesInv'
    BY <1>2, <1>5 DEF ImageInv, TilesInv, Decodes, Indices
  <2>3. QED
    BY <1>3, <2>1, <2>2 DEF ImageInv
<1>6. CASE Skip
  <2>1. pc = "opening" /\ pc' = "skipped" /\ UNCHANGED <<groups, task, tiles, raster>>
    BY <1>6 DEF Skip
  <2>2. PlanInv' /\ RasterInv'
    BY <2>1 DEF ImageInv, PlanInv, RasterInv
  <2>3. TilesInv'
    BY <1>2, <2>1 DEF ImageInv, TilesInv, Decodes, Indices
  <2>4. QED
    BY <1>3, <2>2, <2>3 DEF ImageInv
<1>7. CASE Plan
  <2>1. /\ window # Empty /\ pc' = "reading" /\ groups' = Planned /\ UNCHANGED tiles
        /\ task' = [g \in DOMAIN groups' |-> Queued]
    BY <1>7 DEF Plan, Opens, Planned
  <2>2. PlanInv' /\ RasterInv'
    BY <1>2, <2>1 DEF PlanInv, RasterInv
  <2>3. TilesInv'
    BY <1>2, <1>4, <2>1 DEF TilesInv, Decodes, Queued
  <2>4. QED
    BY <1>3, <2>2, <2>3 DEF ImageInv
<1>8. CASE Collect
  <2>1. /\ UNCHANGED <<groups, task, tiles>> /\ pc = "reading" /\ pc' \in {"done", "failed"}
        /\ raster' = IF pc' = "done" THEN Stitched(TheLevel, window, tiles) ELSE raster
    BY <1>8 DEF Collect, Join
  <2>2. PlanInv'
    BY <1>2, <2>1 DEF ImageInv, PlanInv
  <2>3. TilesInv'
    BY <1>2, <2>1 DEF ImageInv, TilesInv, Decodes, Indices
  <2>4. RasterInv'
    BY <1>2, <2>1 DEF RasterInv
  <2>5. QED
    BY <1>3, <2>2, <2>3, <2>4 DEF ImageInv
<1>9. CASE \E g \in DOMAIN task : Work(g)
  BY <1>1, <1>9, WorkKeepsImage
<1>10. CASE Again
  <2>1. /\ pc' = "opening" /\ groups' = <<>> /\ task' = <<>> /\ tiles' = <<>>
        /\ DOMAIN task' = {} /\ DOMAIN groups' = {} /\ DOMAIN tiles' = {}
    BY <1>10 DEF Again
  <2>2. PlanInv' /\ RasterInv' /\ TilesInv'
    BY <2>1 DEF PlanInv, RasterInv, TilesInv, Decodes
  <2>3. QED
    BY <1>3, <2>2 DEF ImageInv
<1>11. QED
  BY <1>5, <1>6, <1>7, <1>8, <1>9, <1>10 DEF Next, ReadStep, vars, readVars

(* A read that succeeds has decoded a tile for each pixel of its window.   *)
LEMMA DoneIsComplete ==
  ASSUME WholeInv, ImageInv, pc = "done"
  PROVE  Complete(tiles, TheLevel, window)
<1>1. window # Empty /\ groups = Planned /\ DOMAIN task = DOMAIN groups
  BY DEF ImageInv, PlanInv, Unplanned
<1>2. \A g \in DOMAIN groups : Indices(groups[g]) \subseteq DOMAIN tiles
  BY <1>1 DEF ImageInv, TilesInv, WholeInv
<1>3. ASSUME NEW y \in window.row .. window.row + window.height - 1,
             NEW x \in window.col .. window.col + window.width - 1
      PROVE  TileAt(TheLevel, y, x) \in DOMAIN tiles
  <2> DEFINE k == TileAt(TheLevel, y, x)
             tile == TileNo(TheLevel, k)
  <2>1. InGroup(groups, tile)
    BY <1>1, PlannedCover, Zenon DEF ImageInv
  <2>2. tile.index = k
    BY DEF TileNo
  <2> HIDE DEF tile, k
  <2>3. PICK g \in DOMAIN groups : tile \in ToSet(groups[g].tiles)
    BY <2>1 DEF InGroup
  <2>4. k \in Indices(groups[g])
    BY <2>2, <2>3 DEF Indices
  <2>5. QED
    BY <1>2, <2>3, <2>4 DEF k
<1>4. QED
  BY <1>3 DEF Complete

(* Whatever the image, its tiles and how they are stored, the grid, and    *)
(* the order, failures and cache of the ranges: a read that succeeds gives *)
(* each pixel of the grid the value of the image's pixel at its centre and *)
(* the fill off the image (cog.rs:351-434, pipeline.rs:933-980).           *)
THEOREM ReadsTheImage == Spec => []ReadIsImage
<1>1. WholeInv /\ ImageInv => ReadIsImage
  <2> SUFFICES ASSUME WholeInv, ImageInv, pc = "done"
               PROVE  Nearest(TheLevel, window, raster, grid, Fill) = AtCentres(TheLevel, grid, Fill)
    BY Zenon DEF ReadIsImage, AtCentres, Row, Col, ImageCell, CellAt
  <2>1. window # Empty /\ window = Window(TheLevel, grid)
    BY DEF ImageInv, PlanInv, AimInv, Unplanned
  <2>2. Laid(TheLevel) /\ Wanted(grid)
    BY <2>1, PlannedCover DEF ImageInv
  <2>3. Decodes(tiles, TheLevel) /\ raster = Stitched(TheLevel, window, tiles)
    BY DEF ImageInv, TilesInv, RasterInv
  <2>4. Complete(tiles, TheLevel, window)
    BY DoneIsComplete
  <2>5. QED
    BY <2>1, <2>2, <2>3, <2>4, NearestOfStitched, Zenon
<1>2. ImageInv /\ RetryInv /\ PermitInv /\ WholeInv /\ [Next]_vars => ImageInv'
  BY ImageInvNext
<1>3. QED
  BY <1>1, <1>2, ImageInvInit, ReadInvHolds, PTL DEF Spec

-----------------------------------------------------------------------------
(* The minima and maxima of FiniteSetsExt.                                 *)
LEMMA MinIsLeast ==
  ASSUME NEW S, S \subseteq Nat, S # {}
  PROVE  Min(S) \in S /\ \A n \in S : Min(S) <= n
BY LeastNatural DEF Min

LEMMA MaxIsGreatest ==
  ASSUME NEW S, S \subseteq Nat, S # {}, NEW bound \in Nat, \A n \in S : n <= bound
  PROVE  Max(S) \in S /\ \A n \in S : n <= Max(S)
<1>1. \E n \in S : \A m \in S : n >= m
  BY GreatestNatural
<1>2. QED
  BY <1>1 DEF Max

-----------------------------------------------------------------------------
LEMMA Quotients ==
  ASSUME NEW n \in Nat, NEW d \in Nat \ {0}
  PROVE  /\ n \div d \in Nat
         /\ (n \div d) * d <= n /\ n < (n \div d) * d + d
         /\ n % d \in Nat /\ n % d < d /\ n = (n \div d) * d + (n % d)
OBVIOUS

LEMMA Ceilings ==
  ASSUME NEW n \in Nat \ {0}, NEW d \in Nat \ {0}
  PROVE  /\ DivCeil(n, d) \in Nat \ {0}
         /\ (DivCeil(n, d) - 1) * d < n
<1> DEFINE q == DivCeil(n, d)
<1>1. n + d - 1 \in Nat
  OBVIOUS
<1>2. q \in Nat /\ q * d <= n + d - 1 /\ n + d - 1 < q * d + d
  BY <1>1, Quotients DEF DivCeil
<1> HIDE DEF q
<1>3. q # 0
  BY <1>2
<1>4. (q - 1) * d = q * d - d
  BY <1>2
<1>5. QED
  BY <1>2, <1>3, <1>4 DEF q

LEMMA Products ==
  ASSUME NEW a \in Nat, NEW b \in Nat, NEW k \in Nat, a <= b
  PROVE  a * k <= b * k /\ a * k \in Nat
OBVIOUS

LEMMA LeastOf ==
  ASSUME NEW a \in Int, NEW b \in Int
  PROVE  Least(a, b) \in {a, b} /\ Least(a, b) <= a /\ Least(a, b) <= b
BY DEF Least

LEMMA ChunkPlace ==
  ASSUME area \in Areas, NEW c \in Chunks
  PROVE  /\ TopRow(c) \in Nat /\ BottomOf(c) \in Nat /\ TopRow(c) < BottomOf(c) /\ BottomOf(c) <= area.height
         /\ LeftCol(c) \in Nat /\ RightOf(c) \in Nat /\ LeftCol(c) < RightOf(c) /\ RightOf(c) <= area.width
         /\ ChunkPixels(c) = (TopRow(c) .. BottomOf(c) - 1) \X (LeftCol(c) .. RightOf(c) - 1)
<1> DEFINE C == Columns
           R == DivCeil(area.height, area.size)
           r == c \div C
           l == c % C
<1>1. area.height \in Nat \ {0} /\ area.width \in Nat \ {0} /\ area.size \in Nat \ {0}
  BY AreasAssumption
<1>2. C \in Nat \ {0} /\ (C - 1) * area.size < area.width
  BY <1>1, Ceilings DEF Columns
<1>3. R \in Nat \ {0} /\ (R - 1) * area.size < area.height
  BY <1>1, Ceilings
<1>4. C * R \in Nat /\ c \in Nat /\ c < C * R
  <2>1. C * R \in Nat
    BY <1>2, <1>3
  <2>2. QED
    BY <2>1 DEF Chunks
<1>5. TopRow(c) = r * area.size /\ LeftCol(c) = l * area.size
  BY DEF TopRow, LeftCol
<1> HIDE DEF C, R
<1>6. r \in Nat /\ l \in Nat /\ l < C /\ c = r * C + l
  BY <1>2, <1>4, Quotients
<1> HIDE DEF r, l
<1>7. r <= R - 1
  <2>1. SUFFICES ASSUME R <= r PROVE FALSE
    BY <1>3, <1>6
  <2>2. R * C <= r * C
    BY <1>2, <1>3, <1>6, <2>1, Products
  <2>3. QED
    BY <1>2, <1>3, <1>4, <1>6, <2>2
<1>8. r * area.size \in Nat /\ r * area.size < area.height
  BY <1>1, <1>3, <1>6, <1>7, Products
<1>9. l * area.size \in Nat /\ l * area.size < area.width
  BY <1>1, <1>2, <1>6, Products
<1>10. /\ BottomOf(c) \in {TopRow(c) + area.size, area.height}
       /\ BottomOf(c) <= area.height
  BY <1>1, <1>5, <1>8, LeastOf DEF BottomOf
<1>11. /\ RightOf(c) \in {LeftCol(c) + area.size, area.width}
       /\ RightOf(c) <= area.width
  BY <1>1, <1>5, <1>9, LeastOf DEF RightOf
<1>12. ChunkPixels(c) = (TopRow(c) .. BottomOf(c) - 1) \X (LeftCol(c) .. RightOf(c) - 1)
  BY DEF ChunkPixels, BottomOf, RightOf
<1>13. QED
  BY <1>1, <1>5, <1>8, <1>9, <1>10, <1>11, <1>12

LEMMA WindowHoldsChunks ==
  ASSUME area \in Areas, NEW ids, ids \subseteq Chunks, ids # {}
  PROVE  /\ \A c \in ids : ChunkPixels(c) \subseteq InWindow(FetchWindow(ids))
         /\ InWindow(FetchWindow(ids)) \subseteq (0 .. area.height - 1) \X (0 .. area.width - 1)
<1> DEFINE win == FetchWindow(ids)
<1>0. area.height \in Nat /\ area.width \in Nat
  BY AreasAssumption
<1>1. win.row0 \in Nat /\ \A c \in ids : win.row0 <= TopRow(c)
  <2> DEFINE S == {TopRow(c) : c \in ids}
  <2>1. S \subseteq Nat /\ S # {} /\ win.row0 = Min(S)
    BY ChunkPlace DEF FetchWindow
  <2> HIDE DEF S, win
  <2>2. Min(S) \in S /\ \A n \in S : Min(S) <= n
    BY <2>1, MinIsLeast
  <2>3. QED
    BY <2>1, <2>2 DEF S
<1>2. win.col0 \in Nat /\ \A c \in ids : win.col0 <= LeftCol(c)
  <2> DEFINE S == {LeftCol(c) : c \in ids}
  <2>1. S \subseteq Nat /\ S # {} /\ win.col0 = Min(S)
    BY ChunkPlace DEF FetchWindow
  <2> HIDE DEF S, win
  <2>2. Min(S) \in S /\ \A n \in S : Min(S) <= n
    BY <2>1, MinIsLeast
  <2>3. QED
    BY <2>1, <2>2 DEF S
<1>3. win.row1 \in Nat /\ win.row1 <= area.height /\ \A c \in ids : BottomOf(c) <= win.row1
  <2> DEFINE S == {BottomOf(c) : c \in ids}
  <2>1. S \subseteq Nat /\ S # {} /\ win.row1 = Max(S) /\ \A n \in S : n <= area.height
    BY ChunkPlace DEF FetchWindow
  <2> HIDE DEF S, win
  <2>2. Max(S) \in S /\ \A n \in S : n <= Max(S)
    BY <1>0, <2>1, MaxIsGreatest
  <2>3. QED
    BY <2>1, <2>2 DEF S
<1>4. win.col1 \in Nat /\ win.col1 <= area.width /\ \A c \in ids : RightOf(c) <= win.col1
  <2> DEFINE S == {RightOf(c) : c \in ids}
  <2>1. S \subseteq Nat /\ S # {} /\ win.col1 = Max(S) /\ \A n \in S : n <= area.width
    BY ChunkPlace DEF FetchWindow
  <2> HIDE DEF S, win
  <2>2. Max(S) \in S /\ \A n \in S : n <= Max(S)
    BY <1>0, <2>1, MaxIsGreatest
  <2>3. QED
    BY <2>1, <2>2 DEF S
<1> HIDE DEF win
<1>5. InWindow(win) = (win.row0 .. win.row1 - 1) \X (win.col0 .. win.col1 - 1)
  BY DEF InWindow
<1>6. ASSUME NEW c \in ids PROVE ChunkPixels(c) \subseteq InWindow(win)
  <2>1. /\ TopRow(c) \in Nat /\ BottomOf(c) \in Nat /\ LeftCol(c) \in Nat /\ RightOf(c) \in Nat
        /\ ChunkPixels(c) = (TopRow(c) .. BottomOf(c) - 1) \X (LeftCol(c) .. RightOf(c) - 1)
    BY ChunkPlace
  <2>2. /\ TopRow(c) .. BottomOf(c) - 1 \subseteq win.row0 .. win.row1 - 1
        /\ LeftCol(c) .. RightOf(c) - 1 \subseteq win.col0 .. win.col1 - 1
    BY <1>1, <1>2, <1>3, <1>4, <2>1
  <2>3. QED
    BY <1>5, <2>1, <2>2
<1>7. InWindow(win) \subseteq (0 .. area.height - 1) \X (0 .. area.width - 1)
  <2>1. /\ win.row0 .. win.row1 - 1 \subseteq 0 .. area.height - 1
        /\ win.col0 .. win.col1 - 1 \subseteq 0 .. area.width - 1
    BY <1>0, <1>1, <1>2, <1>3, <1>4
  <2>2. QED
    BY <1>5, <2>1
<1>8. QED
  BY <1>6, <1>7 DEF win

-----------------------------------------------------------------------------
(* The greedy loop: between its steps the scenes taken for a footprint are *)
(* candidates of it, no more than the cap, and what is covered is what     *)
(* they have clear; each chunk id a scene collects is a chunk of the area. *)
Stacking == /\ chunk \in Chunks
            /\ view = Views(chunk, Footprint)
            /\ used \subseteq view.all
            /\ Cardinality(used) <= Cap
            /\ covered = UNION {Clear(s, chunk) : s \in used}

SelectInv == /\ area \in Areas /\ policy \in Policies
             /\ scenes # <<>> => scenes \in Catalogues[area] /\ chosen \in [DOMAIN scenes -> Seq(Chunks)]
             /\ scenes = <<>> \/ ~policy.adaptive => view = None
             /\ view = None => used = {} /\ covered = {}
             /\ view # None => Stacking

LEMMA ScenesNumbered ==
  ASSUME SelectInv, scenes # <<>>
  PROVE  DOMAIN scenes \subseteq Nat /\ IsFiniteSet(DOMAIN scenes)
<1>1. Len(scenes) \in Nat /\ DOMAIN scenes = 1 .. Len(scenes)
  BY CataloguesAssumption DEF SelectInv
<1>2. QED
  BY <1>1, FS_Interval

LEMMA PixelsFinite ==
  ASSUME area \in Areas, NEW c \in Chunks
  PROVE  IsFiniteSet(ChunkPixels(c))
<1>1. /\ TopRow(c) \in Nat /\ BottomOf(c) \in Nat /\ LeftCol(c) \in Nat /\ RightOf(c) \in Nat
      /\ ChunkPixels(c) = (TopRow(c) .. BottomOf(c) - 1) \X (LeftCol(c) .. RightOf(c) - 1)
  BY ChunkPlace
<1> DEFINE rows == TopRow(c) .. BottomOf(c) - 1
           cols == LeftCol(c) .. RightOf(c) - 1
<1>2. IsFiniteSet(rows) /\ IsFiniteSet(cols)
  <2>1. \A a, b \in Int : IsFiniteSet(a .. b)
    BY FS_Interval
  <2>2. TopRow(c) \in Int /\ BottomOf(c) - 1 \in Int /\ LeftCol(c) \in Int /\ RightOf(c) - 1 \in Int
    BY <1>1
  <2>3. QED
    BY <2>1, <2>2
<1>3. ChunkPixels(c) = rows \X cols
  BY <1>1
<1> HIDE DEF rows, cols
<1>4. IsFiniteSet(rows \X cols)
  BY ONLY <1>2, FS_Product
<1>5. QED
  BY <1>3, <1>4

LEMMA CapFacts ==
  ASSUME policy \in Policies
  PROVE  Cap \in Nat /\ Cap >= 1 /\ policy.minK \in Nat /\ policy.minK <= Cap
<1> DEFINE S == {policy.maxK, policy.minK, 1}
           b == policy.maxK + policy.minK + 1
<1>1. policy.maxK \in Nat /\ policy.minK \in Nat
  BY PoliciesAssumption
<1>2. S \subseteq Nat /\ S # {} /\ b \in Nat /\ \A n \in S : n <= b
  BY <1>1
<1>3. Max(S) \in S /\ \A n \in S : n <= Max(S)
  <2> HIDE DEF S, b
  <2>1. QED
    BY <1>2, MaxIsGreatest
<1>4. QED
  BY <1>1, <1>3 DEF Cap

LEMMA StackingFacts ==
  ASSUME SelectInv, view # None
  PROVE  /\ view.all \subseteq DOMAIN scenes /\ IsFiniteSet(view.all) /\ view.all \subseteq Nat
         /\ view.full \subseteq view.all
         /\ used \subseteq view.all /\ IsFiniteSet(used)
         /\ Cardinality(used) \in Nat /\ Cardinality(view.all) \in Nat
         /\ Cardinality(used) <= Cardinality(view.all)
<1>1. Stacking /\ scenes # <<>>
  BY DEF SelectInv
<1>2. view.all = Candidates(chunk, Footprint) /\ view.full \subseteq view.all
  BY <1>1 DEF Stacking, Views
<1>3. view.all \subseteq DOMAIN scenes
  BY <1>2 DEF Candidates
<1>4. used \subseteq view.all
  BY <1>1 DEF Stacking
<1>5. view.all \subseteq Nat /\ IsFiniteSet(view.all)
  BY <1>1, <1>3, ScenesNumbered, FS_Subset
<1>6. IsFiniteSet(used)
  BY <1>4, <1>5, FS_Subset
<1>7. QED
  BY <1>2, <1>3, <1>4, <1>5, <1>6, FS_CardinalityType, FS_Subset

LEMMA Gains ==
  ASSUME SelectInv, view # None, NEW s \in view.all
  PROVE  /\ Gain(s) \in Nat /\ Gain(s) <= Cardinality(ChunkPixels(chunk))
         /\ Gain(s) = 0 => Clear(s, chunk) \subseteq covered
<1> DEFINE new == Clear(s, chunk) \ covered
<1>1. chunk \in Chunks /\ area \in Areas
  BY DEF SelectInv, Stacking
<1>2. IsFiniteSet(ChunkPixels(chunk)) /\ new \subseteq ChunkPixels(chunk) /\ Gain(s) = Cardinality(new)
  BY <1>1, PixelsFinite DEF Clear, Gain
<1> HIDE DEF new
<1>3. IsFiniteSet(new) /\ Cardinality(new) \in Nat /\ Cardinality(new) <= Cardinality(ChunkPixels(chunk))
  BY <1>2, FS_Subset, FS_CardinalityType
<1>4. Cardinality(new) = 0 => new = {}
  BY <1>3, FS_EmptySet
<1>5. QED
  BY <1>2, <1>3, <1>4 DEF new

LEMMA BestGains ==
  ASSUME SelectInv, view # None, NEW S, S \subseteq view.all, S # {}
  PROVE  BestOf(S) \in S /\ \A u \in S : Gain(u) <= Gain(BestOf(S))
<1> DEFINE bound == Cardinality(ChunkPixels(chunk))
           values == {Gain(s) : s \in S}
<1>1. bound \in Nat
  <2>1. area \in Areas /\ chunk \in Chunks
    BY DEF SelectInv, Stacking
  <2>2. QED
    BY <2>1, PixelsFinite, FS_CardinalityType
<1>2. \A s \in S : Gain(s) \in Nat /\ Gain(s) <= bound
  BY Gains
<1> HIDE DEF bound
<1>3. PICK g \in values : \A h \in values : h <= g
  <2>1. values \subseteq Nat /\ values # {} /\ \A h \in values : h <= bound
    BY <1>2
  <2> HIDE DEF values
  <2>2. QED
    BY <1>1, <2>1, GreatestNatural
<1> DEFINE best == {s \in S : Gain(s) = g}
<1>4. PICK s \in best : \A u \in best : s <= u
  <2>1. best \subseteq Nat /\ best # {}
    BY <1>3, StackingFacts
  <2> HIDE DEF best
  <2>2. QED
    BY <2>1, LeastNatural
<1>5. s \in S /\ \A u \in S : Gain(s) > Gain(u) \/ (Gain(s) = Gain(u) /\ s <= u)
  <2>1. ASSUME NEW u \in S PROVE Gain(s) > Gain(u) \/ (Gain(s) = Gain(u) /\ s <= u)
    <3>1. Gain(u) <= g /\ Gain(s) = g /\ Gain(u) \in Nat /\ g \in Nat
      BY <1>2, <1>3, <1>4
    <3>2. Gain(u) = g => s <= u
      BY <1>4
    <3>3. QED
      BY <3>1, <3>2
  <2>2. QED
    BY <1>4, <2>1
<1>6. /\ BestOf(S) \in S
      /\ \A u \in S : Gain(BestOf(S)) > Gain(u) \/ (Gain(BestOf(S)) = Gain(u) /\ BestOf(S) <= u)
  BY <1>5, Zenon DEF BestOf
<1>7. QED
  BY <1>2, <1>6

(* Scenes among which none gains have nothing clear that is not covered.   *)
LEMMA NothingGained ==
  ASSUME SelectInv, view # None, NEW S, S \subseteq view.all, ~Gaining(S)
  PROVE  \A u \in S : Clear(u, chunk) \subseteq covered
<1> SUFFICES ASSUME NEW u \in S PROVE Clear(u, chunk) \subseteq covered
  OBVIOUS
<1>1. BestOf(S) \in S /\ Gain(u) <= Gain(BestOf(S))
  BY BestGains
<1>2. Gain(u) \in Nat /\ Gain(BestOf(S)) \in Nat /\ ~(Gain(BestOf(S)) > 0)
  BY <1>1, Gains DEF Gaining
<1>3. Gain(u) = 0
  BY <1>1, <1>2
<1>4. QED
  BY <1>3, Gains

(* What the loop picks next is a candidate it has not taken.               *)
LEMMA PickIsUnused ==
  ASSUME SelectInv, view # None
  PROVE  FullFirst \subseteq Unused
<1>1. FullLeft \subseteq Unused /\ Unused \subseteq view.all
  BY StackingFacts DEF FullLeft, Unused
<1>2. \A S : S \subseteq Unused /\ S # {} => BestOf(S) \in Unused
  BY <1>1, BestGains
<1>3. Floor \subseteq Unused
  BY <1>1, <1>2 DEF Floor
<1>4. QED
  BY <1>1, <1>2, <1>3 DEF FullFirst, Gaining

(* A loop that finds nothing to pick has its min_k scenes, or all there    *)
(* are, and no scene left has a clear cell to add.                         *)
LEMMA NothingToPick ==
  ASSUME SelectInv, view # None, FullFirst = {}
  PROVE  /\ Cardinality(used) >= policy.minK \/ Unused = {}
         /\ \A u \in Unused : Clear(u, chunk) \subseteq covered
<1>1. ~Gaining(FullLeft) /\ ~Gaining(Unused \ FullLeft) /\ Floor = {}
  BY DEF FullFirst
<1>2. Cardinality(used) >= policy.minK \/ Unused = {}
  BY <1>1 DEF Floor
<1>3. FullLeft \subseteq view.all /\ Unused \ FullLeft \subseteq view.all
  BY StackingFacts DEF FullLeft, Unused
<1>4. QED
  BY <1>1, <1>2, <1>3, NothingGained

-----------------------------------------------------------------------------
(* What the area and the scenes determine stays while they do.             *)
LEMMA SameGround ==
  ASSUME UNCHANGED <<area, scenes, partition, policy>>
  PROVE  /\ Chunks' = Chunks /\ Cap' = Cap
         /\ \A s, c : Clear(s, c)' = Clear(s, c)
         /\ \A c, t : Views(c, t)' = Views(c, t)
<1>1. Columns' = Columns /\ Chunks' = Chunks /\ Cap' = Cap
  BY DEF Columns, Chunks, Cap
<1>2. \A c : ChunkPixels(c)' = ChunkPixels(c)
  BY <1>1 DEF ChunkPixels, TopRow, LeftCol
<1>3. \A s, c : Clear(s, c)' = Clear(s, c) /\ Valid(s, c)' = Valid(s, c)
  BY <1>2 DEF Clear, Valid
<1>4. \A c, t : Candidates(c, t)' = Candidates(c, t)
  BY <1>3 DEF Candidates, Finite, Scouted
<1>5. ASSUME NEW c, NEW t
      PROVE  Views(c, t)' = Views(c, t)
  <2> DEFINE reachable == UNION {Valid(s, c) : s \in Candidates(c, t)}
             unobserved(s) == Cardinality(reachable \ Valid(s, c))
             full == {s \in Candidates(c, t) : PreferFull => unobserved(s) * 100 <= Cardinality(reachable)}
  <2>1. reachable' = reachable
    BY <1>3, <1>4
  <2>2. \A s : unobserved(s)' = unobserved(s)
    BY <1>3, <2>1
  <2>3. full' = full
    BY <1>4, <2>1, <2>2
  <2>4. QED
    BY <1>4, <2>1, <2>3 DEF Views
<1>6. QED
  BY <1>1, <1>3, <1>5

LEMMA SameFootprint ==
  ASSUME UNCHANGED <<partition, chunk, pass>>
  PROVE  Footprint' = Footprint
BY DEF Footprint, FootprintsOf, RequiredOf

LEMMA TakeKeepsStacking ==
  ASSUME SelectInv, Take
  PROVE  Stacking' /\ chosen' \in [DOMAIN scenes -> Seq(Chunks)]
<1>1. PICK s \in FullFirst : /\ used' = used \cup {s}
                             /\ covered' = covered \cup Clear(s, chunk)
                             /\ chosen' = [chosen EXCEPT ![s] = Append(@, chunk)]
  BY DEF Take
<1>2. /\ view # None /\ ~Stops /\ chunk \in Chunks
      /\ UNCHANGED <<area, policy, scenes, partition, chunk, pass, view>>
  BY DEF Take, Selecting
<1>3. s \in view.all /\ s \notin used
  BY <1>2, PickIsUnused, StackingFacts DEF Unused
<1>4. /\ Chunks' = Chunks /\ Cap' = Cap /\ Footprint' = Footprint
      /\ \A u, c : Clear(u, c)' = Clear(u, c)
      /\ \A c, t : Views(c, t)' = Views(c, t)
  BY <1>2, SameGround, SameFootprint
<1>5. Stacking
  BY <1>2 DEF SelectInv
<1>6. (view = Views(chunk, Footprint))'
  BY <1>2, <1>4, <1>5 DEF Stacking
<1>7. Cardinality(used') <= Cap
  <2>1. Cardinality(used) < Cap
    BY <1>2, <1>5, StackingFacts, CapFacts DEF Stops, SelectInv
  <2>2. Cardinality(used') = Cardinality(used) + 1
    BY <1>1, <1>2, <1>3, StackingFacts, FS_AddElement
  <2>3. QED
    BY <1>2, <2>1, <2>2, StackingFacts, CapFacts DEF SelectInv
<1>8. covered' = UNION {Clear(u, chunk) : u \in used'}
  BY <1>1, <1>5 DEF Stacking
<1>9. Stacking'
  <2>1. used' \subseteq view'.all
    BY <1>1, <1>2, <1>3, <1>5 DEF Stacking
  <2>2. (covered = UNION {Clear(u, chunk) : u \in used})'
    BY <1>2, <1>4, <1>8
  <2>3. QED
    BY <1>2, <1>4, <1>6, <1>7, <2>1, <2>2 DEF Stacking
<1>10. chosen' \in [DOMAIN scenes -> Seq(Chunks)]
  <2>1. chosen \in [DOMAIN scenes -> Seq(Chunks)] /\ s \in DOMAIN scenes
    BY <1>2, <1>3, StackingFacts DEF SelectInv
  <2>2. Append(chosen[s], chunk) \in Seq(Chunks)
    BY <1>2, <2>1
  <2>3. QED
    BY <1>1, <2>1, <2>2
<1>11. QED
  BY <1>9, <1>10

LEMMA SelectInvHolds == SelectSpec => []SelectInv
<1>1. SelectInit => SelectInv
  BY DEF SelectInit, SelectInv
<1>2. SelectInv /\ [SelectNext]_selectVars => SelectInv'
  <2> SUFFICES ASSUME SelectInv, [SelectNext]_selectVars PROVE SelectInv'
    OBVIOUS
  <2>1. CASE ListAndScout
    <3>1. PICK list \in Catalogues[area] : scenes' = list /\ chosen' = [s \in DOMAIN list |-> <<>>]
      BY <2>1 DEF ListAndScout
    <3>2. /\ UNCHANGED <<area, policy, chunk, view, used, covered>> /\ view = None
      BY <2>1 DEF ListAndScout, SelectInv
    <3>3. Chunks' = Chunks
      BY <3>2 DEF Chunks, Columns
    <3>4. [s \in DOMAIN list |-> <<>>] \in [DOMAIN list -> Seq(Chunks)]
      OBVIOUS
    <3>5. QED
      BY <3>1, <3>2, <3>3, <3>4 DEF SelectInv
  <2>2. CASE LookUp
    <3>1. /\ UNCHANGED <<area, policy, scenes, partition, chunk, pass, used, covered, chosen>>
          /\ view = None /\ scenes # <<>> /\ policy.adaptive /\ chunk \in Chunks
          /\ view' = Views(chunk, Footprint)
      BY <2>2 DEF LookUp, Selecting
    <3>2. /\ Chunks' = Chunks /\ Cap' = Cap /\ Footprint' = Footprint
          /\ \A c, t : Views(c, t)' = Views(c, t)
      BY <3>1, SameGround, SameFootprint
    <3>3. used' = {} /\ covered' = {}
      BY <3>1 DEF SelectInv
    <3>4. Stacking'
      <4>1. (view = Views(chunk, Footprint))'
        BY <3>1, <3>2
      <4>2. Cardinality(used') <= Cap
        <5>1. Cardinality(used') = 0 /\ Cap \in Nat
          BY <3>3, FS_EmptySet, CapFacts DEF SelectInv
        <5>2. QED
          BY <5>1
      <4>3. QED
        BY <3>1, <3>2, <3>3, <4>1, <4>2 DEF Stacking
    <3>5. QED
      BY <3>1, <3>2, <3>3, <3>4 DEF SelectInv
  <2>3. CASE Take
    <3>1. Stacking' /\ chosen' \in [DOMAIN scenes -> Seq(Chunks)]
      BY <2>3, TakeKeepsStacking
    <3>2. UNCHANGED <<area, policy, scenes, view>> /\ view # None /\ scenes # <<>> /\ policy.adaptive
      BY <2>3 DEF Take, Selecting
    <3>3. Chunks' = Chunks
      BY <3>2 DEF Chunks, Columns
    <3>4. QED
      BY <3>1, <3>2, <3>3 DEF SelectInv
  <2>4. CASE NextFootprint
    <3>1. /\ UNCHANGED <<area, policy, scenes, chosen>>
          /\ view' = None /\ used' = {} /\ covered' = {}
      BY <2>4 DEF NextFootprint
    <3>2. Chunks' = Chunks
      BY <3>1 DEF Chunks, Columns
    <3>3. QED
      BY <3>1, <3>2 DEF SelectInv
  <2>5. CASE SelectFixed
    <3>1. UNCHANGED <<area, policy, scenes, view, used, covered, chosen>> /\ view = None
      BY <2>5 DEF SelectFixed, SelectInv
    <3>2. Chunks' = Chunks
      BY <3>1 DEF Chunks, Columns
    <3>3. QED
      BY <3>1, <3>2 DEF SelectInv
  <2>6. CASE Done \/ UNCHANGED selectVars
    <3>1. UNCHANGED selectVars
      BY <2>6 DEF Done
    <3>2. /\ Chunks' = Chunks /\ Cap' = Cap /\ Footprint' = Footprint
          /\ \A u, c : Clear(u, c)' = Clear(u, c)
          /\ \A c, t : Views(c, t)' = Views(c, t)
      BY <3>1, SameGround, SameFootprint DEF selectVars
    <3>3. Stacking => Stacking'
      BY <3>1, <3>2 DEF Stacking, selectVars
    <3>4. QED
      BY <3>1, <3>2, <3>3 DEF SelectInv, selectVars
  <2>7. QED
    BY <2>1, <2>2, <2>3, <2>4, <2>5, <2>6 DEF SelectNext
<1>3. QED
  BY <1>1, <1>2, PTL DEF SelectSpec

-----------------------------------------------------------------------------
(* The window a scene is fetched in holds every chunk that asked for it    *)
(* and nothing off the grid (py.rs:353-397), whatever was selected.        *)
THEOREM WindowsHoldChunks == SelectSpec => []WindowsCover
<1>1. SelectInv => WindowsCover
  <2> SUFFICES ASSUME SelectInv, NEW s \in DOMAIN scenes, chosen[s] # <<>>
               PROVE  LET pixels == InWindow(FetchWindow(Range(chosen[s])))
                      IN  /\ \A c \in Range(chosen[s]) : ChunkPixels(c) \subseteq pixels
                          /\ pixels \subseteq (0 .. area.height - 1) \X (0 .. area.width - 1)
    BY DEF WindowsCover
  <2>1. scenes # <<>> /\ area \in Areas
    BY DEF SelectInv
  <2>2. chosen[s] \in Seq(Chunks)
    BY <2>1 DEF SelectInv
  <2>3. Range(chosen[s]) \subseteq Chunks /\ Range(chosen[s]) # {}
    <3>1. \A q \in Seq(Chunks) : q # <<>> => 1 \in DOMAIN q
      OBVIOUS
    <3>2. ASSUME NEW q \in Seq(Chunks), NEW n \in DOMAIN q PROVE q[n] \in Chunks
      OBVIOUS
    <3>3. QED
      BY <2>2, <3>1, <3>2 DEF Range
  <2>4. QED
    BY <2>1, <2>3, WindowHoldsChunks
<1>2. QED
  BY <1>1, SelectInvHolds, PTL

(* A footprint is left with min_k of its scenes or all of them, never with *)
(* more than the cap, and short of its target only at the cap or with      *)
(* everything covered that its scenes have clear (pipeline.rs:621-714).    *)
THEOREM DepthSuffices == SelectSpec => DepthIsEnough
<1>1. SelectInv /\ NextFootprint => DeepEnough
  <2> SUFFICES ASSUME SelectInv, NextFootprint PROVE DeepEnough
    OBVIOUS
  <2> DEFINE all == Cardinality(view.all)
             n == Cardinality(used)
  <2>1. view # None /\ Stops /\ Stacking /\ policy \in Policies
    BY DEF NextFootprint, SelectInv
  <2>2. n \in Nat /\ all \in Nat /\ n <= all /\ n <= Cap /\ Cap \in Nat /\ policy.minK \in Nat /\ policy.minK <= Cap
    BY <2>1, StackingFacts, CapFacts DEF Stacking
  <2>3. Unused = {} => n = all
    <3>1. Unused = {} => used = view.all
      BY <2>1, StackingFacts DEF Unused
    <3>2. QED
      BY <3>1
  <2>4. n >= policy.minK \/ Unused = {}
    <3>1. CASE n >= Cap
      BY <2>2, <3>1
    <3>2. CASE Enough
      BY <3>2 DEF Enough
    <3>3. CASE FullFirst = {}
      BY <2>1, <3>3, NothingToPick
    <3>4. QED
      BY <2>1, <3>1, <3>2, <3>3 DEF Stops
  <2>5. n \in Least(policy.minK, all) .. Least(Cap, all)
    <3> HIDE DEF n, all
    <3>1. Least(policy.minK, all) \in Int /\ Least(Cap, all) \in Int
      BY <2>2 DEF Least
    <3>2. Least(policy.minK, all) <= n
      BY <2>2, <2>3, <2>4 DEF Least
    <3>3. n <= Least(Cap, all)
      BY <2>2 DEF Least
    <3>4. QED
      BY <2>2, <3>1, <3>2, <3>3
  <2>6. ASSUME FullFirst = {} PROVE covered = UNION {Clear(s, chunk) : s \in view.all}
    <3>1. \A u \in Unused : Clear(u, chunk) \subseteq covered
      BY <2>1, <2>6, NothingToPick
    <3>2. covered = UNION {Clear(s, chunk) : s \in used} /\ used \subseteq view.all
      BY <2>1 DEF Stacking
    <3>3. QED
      BY <3>1, <3>2 DEF Unused
  <2>7. QED
    BY <2>1, <2>5, <2>6 DEF Stops, Enough, DeepEnough
<1>2. SelectInv /\ [SelectNext]_selectVars => [NextFootprint => DeepEnough]_selectVars
  BY <1>1
<1>3. SelectSpec => [][NextFootprint => DeepEnough]_selectVars
  BY <1>2, SelectInvHolds, PTL DEF SelectSpec
<1>4. QED
  BY <1>3 DEF DepthIsEnough

(* While a scene that sees the footprint adds a clear cell, no scene that  *)
(* misses more than a hundredth of it is taken (pipeline.rs:646-704).      *)
THEOREM FullObserversFirst == SelectSpec => SliversLast
<1> DEFINE First == PreferFull => \A s \in used' \ used :
                      Sliver(s) => \A u \in Unused : Sliver(u) \/ Clear(u, chunk) \subseteq covered
<1>1. ASSUME SelectInv, Take PROVE First
  <2> SUFFICES ASSUME PreferFull, NEW s \in used' \ used, Sliver(s),
                      NEW u \in Unused, ~Sliver(u)
               PROVE  Clear(u, chunk) \subseteq covered
    OBVIOUS
  <2>1. view # None /\ Stacking /\ s \in FullFirst
    BY <1>1 DEF Take, SelectInv
  <2>2. s \in Unused
    BY <1>1, <2>1, PickIsUnused
  <2>3. \A v \in view.all : v \in view.full <=> ~Sliver(v)
    <3>1. IsFiniteSet(view.reachable)
      <4>1. chunk \in Chunks /\ area \in Areas
        BY <1>1, <2>1 DEF Stacking, SelectInv
      <4>2. view.reachable \subseteq ChunkPixels(chunk)
        BY <2>1 DEF Stacking, Views, Valid
      <4>3. QED
        BY <4>1, <4>2, PixelsFinite, FS_Subset
    <3>2. Cardinality(view.reachable) \in Nat
      BY <3>1, FS_CardinalityType
    <3> SUFFICES ASSUME NEW v \in view.all PROVE v \in view.full <=> ~Sliver(v)
      OBVIOUS
    <3> DEFINE missed == Cardinality(view.reachable \ Valid(v, chunk))
    <3>3. missed \in Nat
      BY <3>1, FS_Subset, FS_CardinalityType
    <3>4. v \in view.full <=> missed * 100 <= Cardinality(view.reachable)
      BY <2>1 DEF Stacking, Views
    <3>5. Sliver(v) <=> 100 * missed > Cardinality(view.reachable)
      BY DEF Sliver
    <3> HIDE DEF missed
    <3>6. QED
      BY <3>2, <3>3, <3>4, <3>5
  <2>4. s \notin view.full /\ u \in view.full
    BY <2>2, <2>3 DEF Unused
  <2>5. u \in FullLeft /\ s \notin FullLeft
    BY <2>4 DEF FullLeft, Unused
  <2>6. FullLeft \subseteq view.all /\ FullLeft # {}
    BY <1>1, <2>1, <2>5, StackingFacts DEF FullLeft
  <2>7. s # BestOf(FullLeft)
    BY <1>1, <2>1, <2>5, <2>6, BestGains
  <2>8. ~Gaining(FullLeft)
    BY <2>1, <2>7 DEF FullFirst
  <2>9. QED
    BY <1>1, <2>1, <2>5, <2>6, <2>8, NothingGained
<1>2. ASSUME SelectInv, [SelectNext]_selectVars PROVE [First]_selectVars
  <2>1. CASE Take
    BY <1>1, <1>2, <2>1
  <2>2. CASE ~Take
    <3>1. used' \subseteq used
      BY <1>2, <2>2 DEF SelectNext, ListAndScout, LookUp, NextFootprint, SelectFixed, Done, selectVars
    <3>2. QED
      BY <3>1
  <2>3. QED
    BY <2>1, <2>2
<1> HIDE DEF First
<1>3. SelectSpec => [][First]_selectVars
  BY <1>2, SelectInvHolds, PTL DEF SelectSpec
<1>4. QED
  BY <1>3 DEF SliversLast, First
=============================================================================
