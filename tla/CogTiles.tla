------------------------------ MODULE CogTiles ------------------------------
(***************************************************************************)
(* The arithmetic of a windowed read of a tiled raster: which pixels of an *)
(* overview a grid needs, which tiles hold them, which byte ranges fetch   *)
(* the tiles, what the bytes of a tile decode to, and what the grid's own  *)
(* pixels are.  Lengths are whole numbers of a unit in which every pixel   *)
(* size is whole; x grows to the right and y down from the image's corner. *)
(* DEFLATE is a library's and is left out: tiles are stored uncompressed.  *)
(***************************************************************************)
EXTENDS Integers, Sequences, FiniteSets, SequencesExt, Ordering, TLC

CONSTANTS MergeGap, MaxGroupBytes, \* bytes: merge_gap, MAX_GROUP_BYTES
          Lanes, Strides           \* the prefix sum's block and its strides: 8 and 1, 2, 4

ASSUME LanesAssumption == Lanes \in Nat \ {0} /\ MergeGap \in Nat /\ MaxGroupBytes \in Nat
\* The strides double until they reach over the block.
ASSUME StridesAssumption ==
  /\ Strides \in Seq(Nat \ {0}) /\ Lanes <= (IF Strides = <<>> THEN 1 ELSE 2 * Last(Strides))
  /\ \A k \in DOMAIN Strides : Strides[k] = IF k = 1 THEN 1 ELSE 2 * Strides[k - 1]

Word == 65536
Nodata == 65535
Empty == [col |-> 0, row |-> 0, width |-> 0, height |-> 0]

CeilDiv(a, b) == -((-a) \div b)
Clamp(v, low, high) == IF v < low THEN low ELSE IF v > high THEN high ELSE v

\* level_for_decimation: of the levels at most as coarse as the grid the
\* coarsest (the first of equals), else the last.
Level(file, grid) ==
  LET fine == {i \in DOMAIN file.levels :
                 file.levels[i].pixel <= (IF grid.pixel > file.levels[1].pixel
                                          THEN grid.pixel ELSE file.levels[1].pixel)}
      best == CHOOSE i \in fine : \A j \in fine :
                \/ file.levels[j].pixel < file.levels[i].pixel
                \/ file.levels[j].pixel = file.levels[i].pixel /\ i <= j
  IN  IF fine = {} THEN Len(file.levels) ELSE best

\* Variant: the far edge rounded down.
FarDown(a, b) == a \div b
FarEdge(a, b) == CeilDiv(a, b)

\* cog_window_for_utm
Window(level, grid) ==
  LET col0 == Clamp(grid.x \div level.pixel, 0, level.width)
      row0 == Clamp(grid.y \div level.pixel, 0, level.height)
      col1 == Clamp(FarEdge(grid.x + grid.width * grid.pixel, level.pixel), 0, level.width)
      row1 == Clamp(FarEdge(grid.y + grid.height * grid.pixel, level.pixel), 0, level.height)
  IN  IF col1 <= col0 \/ row1 <= row0 THEN Empty
      ELSE [col |-> col0, row |-> row0, width |-> col1 - col0, height |-> row1 - row0]

TilesX(level) == CeilDiv(level.width, level.tileWidth)

\* tiles_for_window, in the order of its two loops; tiles are numbered from 0.
TilesForWindow(level, win) ==
  LET x0 == win.col \div level.tileWidth
      y0 == win.row \div level.tileHeight
      x1 == (win.col + win.width - 1) \div level.tileWidth
      y1 == (win.row + win.height - 1) \div level.tileHeight
      columns == x1 - x0 + 1
      index(k) == (y0 + (k \div columns)) * TilesX(level) + x0 + (k % columns)
  IN  [k \in 1 .. columns * (y1 - y0 + 1) |->
         [index |-> index(k - 1), offset |-> level.offsets[index(k - 1) + 1],
          count |-> level.counts[index(k - 1) + 1]]]

-----------------------------------------------------------------------------
(* coalesce_ranges *)

Alone(tile) == [start |-> tile.offset, end |-> tile.offset + tile.count - 1, tiles |-> <<tile>>]

MergedEnd(group, end) == IF end > group.end THEN end ELSE group.end

Joins(group, tile) ==
  /\ tile.offset - (group.end + 1) <= MergeGap
  /\ MergedEnd(group, tile.offset + tile.count - 1) - group.start + 1 <= MaxGroupBytes

Joined(group, tile) ==
  [group EXCEPT !.end = MergedEnd(group, tile.offset + tile.count - 1), !.tiles = Append(@, tile)]

AddTile(groups, tile) ==
  IF groups # <<>> /\ Joins(Last(groups), tile)
  THEN [groups EXCEPT ![Len(groups)] = Joined(Last(groups), tile)]
  ELSE Append(groups, Alone(tile))

\* By offset, those of one offset as they came.
Sorted(tiles) ==
  LET order == Ordered(DOMAIN tiles,
                       LAMBDA i, j : \/ tiles[i].offset < tiles[j].offset
                                     \/ tiles[i].offset = tiles[j].offset /\ i < j)
  IN  [n \in DOMAIN order |-> tiles[order[n]]]

Groups(tiles) ==
  LET sorted == Sorted(tiles)
      merged[n \in 0 .. Len(sorted)] ==
        IF n = 0 THEN <<>> ELSE AddTile(merged[n - 1], sorted[n])
  IN  merged[Len(sorted)]

-----------------------------------------------------------------------------
(* decode_tile, unpack_bits_to_samples, apply_predictor *)

ByteAt(packed, i) == IF i <= Len(packed) THEN packed[i] ELSE 0

\* One sample: bytes are taken until it is whole, then it is shifted out.
NextSample(packed, bits, state) ==
  LET bytes == IF state.nbits < bits THEN CeilDiv(bits - state.nbits, 8) ELSE 0
      taken[j \in 0 .. bytes] ==
        IF j = 0 THEN state.acc ELSE taken[j - 1] * 256 + ByteAt(packed, state.next + j)
      left == state.nbits + 8 * bytes - bits
  IN  [acc |-> taken[bytes] % 2^left, nbits |-> left, next |-> state.next + bytes,
       out |-> Append(state.out, (taken[bytes] \div 2^left) % 2^bits)]

Unpacked(packed, n, bits) ==
  LET state[i \in 0 .. n] == IF i = 0 THEN [acc |-> 0, nbits |-> 0, next |-> 0, out |-> <<>>]
                             ELSE NextSample(packed, bits, state[i - 1])
  IN  state[n].out

\* Samples of one or two whole bytes, little-endian.
Samples(bytes, size) ==
  [i \in 1 .. Len(bytes) \div size |->
     IF size = 1 THEN bytes[i] ELSE bytes[2 * i - 1] + 256 * bytes[2 * i]]

Carry(out) == IF out = <<>> THEN 0 ELSE Last(out)

\* The prefix sums of a block: each stride adds the sums it is away.
LaneSums(block) ==
  LET sums[k \in 0 .. Len(Strides)] ==
        IF k = 0 THEN block
        ELSE LET v == sums[k - 1]
                 d == Strides[k]
             IN  [i \in 1 .. Lanes |-> (v[i] + (IF i > d THEN v[i - d] ELSE 0)) % Word]
  IN  sums[Len(Strides)]

AddBlock(row, out, k) ==
  LET sums == LaneSums([i \in 1 .. Lanes |-> row[(k - 1) * Lanes + i]])
  IN  out \o [i \in 1 .. Lanes |-> (sums[i] + Carry(out)) % Word]

AddOne(out, delta, word) == Append(out, (Carry(out) + delta) % word)

\* predictor_invert_u16: blocks of lanes, each with the last sum carried in,
\* then the rest one by one.
Inverted(row) ==
  LET blocks == Len(row) \div Lanes
      whole[k \in 0 .. blocks] == IF k = 0 THEN <<>> ELSE AddBlock(row, whole[k - 1], k)
      rest[n \in blocks * Lanes .. Len(row)] ==
        IF n = blocks * Lanes THEN whole[blocks] ELSE AddOne(rest[n - 1], row[n], Word)
  IN  rest[Len(row)]

\* predictor_invert_u8
InvertedBytes(row) ==
  LET out[n \in 0 .. Len(row)] == IF n = 0 THEN <<>> ELSE AddOne(out[n - 1], row[n], 256)
  IN  out[Len(row)]

Rows(samples, level) ==
  [r \in 1 .. level.tileHeight |->
     [c \in 1 .. level.tileWidth |-> samples[(r - 1) * level.tileWidth + c]]]

\* The rows of a tile, from its bytes.
Decoded(file, level, bytes) ==
  LET n == level.tileWidth * level.tileHeight
      samples == IF file.bits % 8 # 0 THEN Unpacked(bytes, n, file.bits)
                 ELSE Samples(bytes, file.bits \div 8)
      rows == Rows(samples, level)
  IN  IF file.predictor # 2 THEN rows
      ELSE [r \in DOMAIN rows |->
              IF file.bits = 8 THEN InvertedBytes(rows[r]) ELSE Inverted(rows[r])]

\* stitch_tiles: the window's raster, indexed from 0, of the tiles decoded; a
\* pixel no tile covers stays 0.
Stitched(level, win, tiles) ==
  [r \in 0 .. win.height - 1 |-> [c \in 0 .. win.width - 1 |->
     LET x == win.col + c
         y == win.row + r
         index == (y \div level.tileHeight) * TilesX(level) + (x \div level.tileWidth)
     IN  IF index \in DOMAIN tiles
         THEN tiles[index][(y % level.tileHeight) + 1][(x % level.tileWidth) + 1] ELSE 0]]

-----------------------------------------------------------------------------
(* What a file's bytes are of its image, as TIFF lays it out.  The samples   *)
(* of a tile are those of its part of the image, row by row, and padding.    *)
TilesY(level) == CeilDiv(level.height, level.tileHeight)

Tiled(level) ==
  \A k \in DOMAIN level.samples, r \in 0 .. level.tileHeight - 1, c \in 0 .. level.tileWidth - 1 :
    LET y == (k \div TilesX(level)) * level.tileHeight + r
        x == (k % TilesX(level)) * level.tileWidth + c
    IN  y < level.height /\ x < level.width =>
          level.pixels[y][x] = level.samples[k][r * level.tileWidth + c + 1]

\* A sample as it is stored: by predictor 2 its difference from the one before.
Stored(file, level, samples, i) ==
  IF file.predictor = 2 /\ (i - 1) % level.tileWidth # 0
  THEN (samples[i] - samples[i - 1]) % 2^file.bits ELSE samples[i]

\* Packed samples follow each other bit by bit, high bits first.
PackedSample(packed, bits, i) ==
  LET bit == (i - 1) * bits
      byte == bit \div 8
      three == ByteAt(packed, byte + 1) * 65536 + ByteAt(packed, byte + 2) * 256
                 + ByteAt(packed, byte + 3)
  IN  (three \div 2^(24 - (bit % 8) - bits)) % 2^bits

Encodes(file, level, bytes, samples) ==
  \A i \in DOMAIN samples :
    LET stored == Stored(file, level, samples, i)
    IN  CASE file.bits = 8 -> bytes[i] = stored
          [] file.bits = 16 -> bytes[2 * i - 1] = stored % 256 /\ bytes[2 * i] = stored \div 256
          [] OTHER -> PackedSample(bytes, file.bits, i) = samples[i]

\* Where tile k is stored.
StoredTile(file, level, k) ==
  SubSeq(file.bytes, level.offsets[k + 1] + 1, level.offsets[k + 1] + level.counts[k + 1])

\* Differences are of whole bytes only, and a tile's bytes hold its samples.
IsImage(file, level) ==
  LET tiles == TilesX(level) * TilesY(level)
      n == level.tileWidth * level.tileHeight
  IN  /\ {level.width, level.height, level.pixel, level.tileWidth, level.tileHeight} \subseteq Nat \ {0}
      /\ level.samples \in [0 .. tiles - 1 -> [1 .. n -> 0 .. 2^file.bits - 1]]
      /\ level.offsets \in [1 .. tiles -> Nat] /\ level.counts \in [1 .. tiles -> Nat \ {0}]
      /\ \A k \in 0 .. tiles - 1 :
           /\ level.offsets[k + 1] + level.counts[k + 1] <= Len(file.bytes)
           /\ 8 * level.counts[k + 1] >= n * file.bits
           /\ Encodes(file, level, StoredTile(file, level, k), level.samples[k])
      /\ Tiled(level)

IsRaster(file) ==
  /\ file.bits \in 1 .. 16 /\ (file.bits % 8 # 0 => file.predictor # 2)
  /\ file.bytes \in Seq(0 .. 255)
  /\ Len(file.levels) \in Nat \ {0} /\ DOMAIN file.levels = 1 .. Len(file.levels)
  /\ \A l \in DOMAIN file.levels : IsImage(file, file.levels[l])

-----------------------------------------------------------------------------
(* The grid's own pixels, from the window's raster: resample_u8_to_u8 for    *)
(* quality, resample_u16_to_u16 for reflectance.                             *)

\* Twice the distance from the window's corner to the centre of cell k.
Centre(origin, corner, k, pixel) == 2 * (origin - corner) + (2 * k + 1) * pixel

Nearest(level, win, raster, grid, fill) ==
  [r \in 0 .. grid.height - 1 |-> [c \in 0 .. grid.width - 1 |->
     LET row == Centre(grid.y, win.row * level.pixel, r, grid.pixel) \div (2 * level.pixel)
         col == Centre(grid.x, win.col * level.pixel, c, grid.pixel) \div (2 * level.pixel)
     IN  IF row \in 0 .. win.height - 1 /\ col \in 0 .. win.width - 1
         THEN raster[row][col] ELSE fill]]

\* The two source cells around a centre and the weight of the second, out of
\* twice the pixel size.
Around(origin, corner, k, grid, level) ==
  LET at == Centre(origin, corner, k, grid.pixel) - level.pixel
  IN  [cell |-> at \div (2 * level.pixel), weight |-> at % (2 * level.pixel)]

Bilinear(level, win, raster, grid) ==
  [r \in 0 .. grid.height - 1 |-> [c \in 0 .. grid.width - 1 |->
     LET y == Around(grid.y, win.row * level.pixel, r, grid, level)
         x == Around(grid.x, win.col * level.pixel, c, grid, level)
         part(around, k) == IF k = around.cell THEN 2 * level.pixel - around.weight
                            ELSE around.weight
         cells == {y.cell, y.cell + 1} \X ({x.cell, x.cell + 1} \cap 0 .. win.width - 1)
         Weight(p) == part(y, p[1]) * part(x, p[2])
         Sum(f(_)) == FoldSet(LAMBDA p, s : s + f(p), 0, cells)
         total == Sum(Weight)
         sum == Sum(LAMBDA p : raster[p[1]][p[2]] * Weight(p))
     IN  IF ~ {y.cell, y.cell + 1} \subseteq 0 .. win.height - 1 THEN Nodata
         ELSE IF total = 0 THEN 0
         ELSE Clamp((2 * sum + total) \div (2 * total), 0, Nodata)]]
=============================================================================
