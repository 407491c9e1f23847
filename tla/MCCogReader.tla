---------------------------- MODULE MCCogReader ----------------------------
(* An image of 8 by 4 pixels in tiles of 5 by 2 and an overview of half its  *)
(* size, stored as packed 6-bit samples, as differenced words with gaps and  *)
(* in reverse order, and as differenced bytes; and a file whose directory is *)
(* longer than one block.                                                    *)
EXTENDS CogReader

Pixel(l, r, c) == IF l = 1 THEN 1 + 8 * r + c ELSE 41 + 4 * r + c

Shape(l) == IF l = 1 THEN [width |-> 8, height |-> 4, pixel |-> 2]
            ELSE [width |-> 4, height |-> 2, pixel |-> 4]

\* The 10 samples of tile k of level l, row by row; what is off the image is 0.
TileSamples(l, k) ==
  [i \in 1 .. 10 |->
     LET x == (IF l = 1 THEN 5 * (k % 2) ELSE 0) + ((i - 1) % 5)
         y == (IF l = 1 THEN 2 * (k \div 2) ELSE 0) + ((i - 1) \div 5)
     IN  IF x < Shape(l).width /\ y < Shape(l).height THEN Pixel(l, y, x) ELSE 0]

Differenced(samples, word) ==
  [i \in 1 .. 10 |-> IF i \in {1, 6} THEN samples[i] ELSE (samples[i] - samples[i - 1]) % word]

SampleBit(samples, i) == (samples[(i \div 6) + 1] \div (2^(5 - (i % 6)))) % 2

Packed(samples) ==
  [j \in 1 .. 8 |-> FoldLeft(LAMBDA a, i : 2 * a + (IF i < 60 THEN SampleBit(samples, i) ELSE 0), 0,
                             [b \in 1 .. 8 |-> 8 * (j - 1) + b - 1])]

Words(samples) == [i \in 1 .. 20 |-> LET s == samples[(i + 1) \div 2]
                                     IN  IF i % 2 = 1 THEN s % 256 ELSE s \div 256]

TileData(format, l, k) ==
  CASE format = "packed" -> Packed(TileSamples(l, k))
    [] format = "words" -> Words(Differenced(TileSamples(l, k), 65536))
    [] format = "bytes" -> Differenced(TileSamples(l, k), 256)

\* Where tile k of level l starts.
Offset(format, l, k) ==
  CASE format = "packed" -> 32 + 8 * (IF l = 1 THEN k ELSE 4)
    [] format = "words" -> IF l = 1 THEN 54 + (3 - k) * 22 ELSE 32
    [] format = "bytes" -> IF l = 1 THEN 44 + (k * 10) + ((k \div 2) * 7) ELSE 32

MCFile(format, directory) ==
  LET all == {<<1, 0>>, <<1, 1>>, <<1, 2>>, <<1, 3>>, <<2, 0>>}
      size == Len(TileData(format, 2, 0))
      end == 32 + 5 * size + 9
      At(i) == {t \in all : i - 1 \in Offset(format, t[1], t[2]) .. Offset(format, t[1], t[2]) + size - 1}
      image(l) == [tileWidth |-> 5, tileHeight |-> 2, width |-> Shape(l).width,
                   height |-> Shape(l).height, pixel |-> Shape(l).pixel,
                   pixels |-> [r \in 0 .. Shape(l).height - 1 |->
                                 [c \in 0 .. Shape(l).width - 1 |-> Pixel(l, r, c)]],
                   samples |-> [k \in 0 .. (IF l = 1 THEN 3 ELSE 0) |-> TileSamples(l, k)],
                   offsets |-> [k \in 1 .. (IF l = 1 THEN 4 ELSE 1) |-> Offset(format, l, k - 1)],
                   counts |-> [k \in 1 .. (IF l = 1 THEN 4 ELSE 1) |-> size]]
  IN  [levels |-> <<image(1), image(2)>>,
       bits |-> CASE format = "packed" -> 6 [] format = "words" -> 16 [] format = "bytes" -> 8,
       predictor |-> IF format = "packed" THEN 1 ELSE 2,
       length |-> end, reads |-> <<<<8, 2>>, <<10, 12>>, directory>>,
       bytes |-> [i \in 1 .. end |->
                    IF At(i) = {} THEN 99
                    ELSE LET t == CHOOSE t \in At(i) : TRUE
                         IN  TileData(format, t[1], t[2])[i - Offset(format, t[1], t[2])]]]

MCFiles == [packed |-> MCFile("packed", <<27, 13>>), words |-> MCFile("words", <<17, 4>>),
            bytes |-> MCFile("bytes", <<16, 13>>), long |-> MCFile("bytes", <<27, 14>>)]

GridOf(x, y, w, h, p) == [x |-> x, y |-> y, width |-> w, height |-> h, pixel |-> p]

MCFaulty == {GridOf(0, 0, 4, 4, 2)}
MCRacing == {GridOf(1, 1, 3, 2, 2)}
MCGrids == {GridOf(x, y, w, h, p) : x \in {-3, 1, 12}, y \in {-4, 0, 5},
                                    w \in {1, 3}, h \in {2}, p \in {1, 2, 3, 5}}
             \union MCFaulty \union MCRacing
MCStrides == <<1>>
=============================================================================
