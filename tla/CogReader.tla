------------------------------ MODULE CogReader ------------------------------
(***************************************************************************)
(* One task reads the window of a grid from a raster over HTTP: the range  *)
(* groups of its tiles are fetched at the same time, each under a permit   *)
(* of a shared semaphore and with the retries of http_range_get, decoded   *)
(* and stitched; the read ends with the first group that fails, while the  *)
(* others, which nobody aborts, go on.  The read may then be repeated over *)
(* the process's cache of ranges.  Other tasks open the same file.         *)
(***************************************************************************)
EXTENDS CogOpen, CogTiles

CONSTANTS Grids,
          Reader,       \* the opener that reads
          Permits,      \* of the semaphore
          MaxAttempts,  \* 5
          BaseDelay,    \* ms, BASE_DELAY_MS
          Faulty,       \* the grids whose ranges may be refused or cut
          Racing,       \* the grids read while others open the file, with requests that may fail
          Reads,        \* bound on how often the window is read
          MaxGroups     \* no window of a file needs more range groups

ASSUME RastersAssumption == \A f \in DOMAIN Files : IsRaster(Files[f])
ASSUME GridsAssumption ==
  \A g \in Grids : {g.x, g.y} \subseteq Int /\ {g.width, g.height, g.pixel} \subseteq Nat \ {0}
ASSUME RetryAssumption == MaxAttempts = 5 /\ BaseDelay = 200 /\ Permits \in Nat /\ Reader \in Openers

VARIABLES grid,    \* the pixels wanted
          level, window, \* the overview and the part of it they need
          pc, groups,
          task,    \* per group: its state, attempts that failed, longest wait by the schedule
          permits,
          tiles,   \* the rows of the tiles decoded
          raster,  \* the window, stitched
          cache,   \* the ranges in the tile cache, and whether whole or cut
          reads

readVars == <<pc, groups, task, permits, tiles, raster, cache, reads>>
wanted == <<file, grid, level, window>>
vars == <<wanted, openVars, readVars>>

TheLevel == Files[file].levels[level]
Asked(g) == <<groups[g].start, groups[g].end>>
Queued == [pc |-> "queued", attempt |-> 0, waited |-> 0, got |-> "whole"]

Init == /\ file \in DOMAIN Files
        /\ grid \in Grids
        /\ level = Level(Files[file], grid)
        /\ window = Window(TheLevel, grid)
        /\ OpenInit
        /\ opener[Reader] = Closed
        /\ grid \notin Racing => disk /\ \A t \in Openers \ {Reader} : opener[t].pc = "away"
        /\ pc = "opening"
        /\ groups = <<>> /\ task = <<>> /\ tiles = <<>> /\ raster = <<>>
        /\ permits = Permits
        /\ cache = <<>>
        /\ reads = 0

\* The band is skipped when its file does not open or lies off the grid.
Skip == /\ pc = "opening"
        /\ \/ opener[Reader].pc = "open_failed"
           \/ opener[Reader].pc = "opened" /\ window = Empty
        /\ pc' = "skipped"
        /\ UNCHANGED <<groups, task, permits, tiles, raster, cache, reads>>

Opens == /\ pc = "opening"
         /\ opener[Reader].pc = "opened"
         /\ window # Empty
         /\ pc' = "reading"

Plan == /\ Opens
        /\ groups' = Groups(TilesForWindow(TheLevel, window))
        /\ task' = [g \in DOMAIN groups' |-> Queued]
        /\ reads' = reads + 1
        /\ UNCHANGED <<permits, tiles, raster, cache>>

Become(g, state) == task' = [task EXCEPT ![g] = [@ EXCEPT !.pc = state]]

\* A group takes a permit and looks into the cache before it asks.
Acquire(g) ==
  /\ task[g].pc = "queued"
  /\ permits > 0
  /\ permits' = permits - 1
  /\ IF Asked(g) \in DOMAIN cache
     THEN task' = [task EXCEPT ![g] = [@ EXCEPT !.pc = "decoding", !.got = cache[Asked(g)]]]
     ELSE Become(g, "asking")
  /\ UNCHANGED <<pc, groups, tiles, raster, cache, reads>>

\* Bytes are cached as they come, before anyone has looked at their number.
ReplyBytes(g, got) ==
  /\ task[g].pc = "asking"
  /\ task' = [task EXCEPT ![g] = [@ EXCEPT !.pc = "decoding", !.got = got]]
  /\ cache' = (Asked(g) :> got) @@ cache
  /\ UNCHANGED <<pc, groups, permits, tiles, raster, reads>>

\* The longest delay the schedule sets before the next attempt: half the base
\* and a jitter below the base, which doubles.  A Retry-After of the server
\* would take its place, of any length.
Delay(attempt) == LET base == BaseDelay * 2^(IF attempt - 1 < 6 THEN attempt - 1 ELSE 6)
                  IN  base \div 2 + base - 1

\* Variant: one attempt more.
MayGoOn(attempt) == attempt <= MaxAttempts
MayRetry(attempt) == attempt < MaxAttempts

\* A status or transport error worth a retry.
ReplyBusy(g) ==
  LET attempt == task[g].attempt + 1
  IN  /\ task[g].pc = "asking"
      /\ IF MayRetry(attempt)
         THEN /\ task' = [task EXCEPT ![g] =
                   [@ EXCEPT !.pc = "sleeping", !.attempt = attempt,
                             !.waited = task[g].waited + Delay(attempt)]]
              /\ UNCHANGED permits
         ELSE /\ task' = [task EXCEPT ![g] = [@ EXCEPT !.pc = "failed", !.attempt = attempt]]
              /\ permits' = permits + 1
      /\ UNCHANGED <<pc, groups, tiles, raster, cache, reads>>

ReplyFatal(g) == /\ task[g].pc = "asking"
                 /\ Become(g, "failed")
                 /\ permits' = permits + 1
                 /\ UNCHANGED <<pc, groups, tiles, raster, cache, reads>>

\* The permit is held through the wait.
Wake(g) == /\ task[g].pc = "sleeping"
           /\ Become(g, "asking")
           /\ UNCHANGED <<pc, groups, permits, tiles, raster, cache, reads>>

\* The permit goes when the task ends, however it ends.
\* Variant: kept by a task that fails.
KeptOnError(state) == IF state = "failed" THEN permits ELSE permits + 1
Released(state) == permits + 1

\* The bytes of a tile within its group's range.
TileBytes(group, tile) ==
  LET raw == SubSeq(Files[file].bytes, group.start + 1, group.end + 1)
      local == tile.offset - group.start
  IN  SubSeq(raw, local + 1, local + tile.count)

TilesOf(group) ==
  LET Tile(i) == CHOOSE t \in ToSet(group.tiles) : t.index = i
  IN  [i \in {t.index : t \in ToSet(group.tiles)} |->
         Decoded(Files[file], TheLevel, TileBytes(group, Tile(i)))]

\* The tiles decoded so far and those of a group.
WithTiles(group) ==
  LET found == TilesOf(group)
  IN  [i \in DOMAIN found \cup DOMAIN tiles |-> IF i \in DOMAIN found THEN found[i] ELSE tiles[i]]

\* A range shorter than its tiles is an error.
Finish(g) == /\ task[g].pc = "decoding"
             /\ Become(g, IF task[g].got = "whole" THEN "done" ELSE "failed")

Decode(g) == /\ Finish(g)
             /\ permits' = Released(task'[g].pc)
             /\ tiles' = IF task'[g].pc = "done" THEN WithTiles(groups[g]) ELSE tiles
             /\ UNCHANGED <<pc, groups, raster, cache, reads>>

Join == /\ pc = "reading"
        /\ \/ (\E g \in DOMAIN task : task[g].pc = "failed") /\ pc' = "failed"
           \/ (\A g \in DOMAIN task : task[g].pc = "done") /\ pc' = "done"

Collect == /\ Join
           /\ raster' = IF pc' = "done" THEN Stitched(TheLevel, window, tiles) ELSE raster
           /\ UNCHANGED <<groups, task, permits, tiles, cache, reads>>

\* The same window is wanted again in the same process, later.
Again == /\ pc \in {"done", "failed"}
         /\ \A g \in DOMAIN task : task[g].pc \in {"done", "failed"}
         /\ reads < Reads
         /\ pc' = "opening"
         /\ groups' = <<>> /\ task' = <<>> /\ tiles' = <<>> /\ raster' = <<>>
         /\ UNCHANGED <<permits, cache, reads>>

Reply(g) == \/ ReplyBytes(g, "whole")
            \/ grid \in Faulty /\ (\/ ReplyBytes(g, "cut")
                                   \/ ReplyFatal(g)
                                   \/ ReplyBusy(g))

Work(g) == Acquire(g) \/ Reply(g) \/ Wake(g) \/ Decode(g)

ReadStep == Skip \/ Plan \/ Collect \/ \E g \in DOMAIN task : Work(g)

Next == \/ /\ \E t \in Openers : OpenStep(t) \/ (grid \in Racing /\ GetFails(t))
           /\ UNCHANGED <<wanted, readVars>>
        \/ (ReadStep \/ Again) /\ UNCHANGED <<wanted, openVars>>

\* tokio runs every task that is ready, and every request ends.  Opens, Join and
\* Finish are what Plan, Collect and Decode change of the control.
Fairness == /\ \A t \in Openers : WF_openVars(OpenStep(t))
            /\ WF_pc(Skip \/ Opens \/ Join)
            /\ \A g \in 1 .. MaxGroups :
                 WF_task(g \in DOMAIN task /\ (Acquire(g) \/ Reply(g) \/ Wake(g) \/ Finish(g)))

Spec == Init /\ [][Next]_vars /\ Fairness

-----------------------------------------------------------------------------
Fill == 255

\* The cell of the image, indexed from 0, that holds a cell's centre.
ImageCell(k, origin) == ((2 * k + 1) * grid.pixel + 2 * origin) \div (2 * TheLevel.pixel)

\* A read that succeeds gives each pixel of the grid the value of the image's
\* pixel at its centre, and the fill off the image: no off-by-one of window,
\* tiles, merged ranges, bit unpacking, prefix sums and stitching loses or
\* moves a pixel, and no cut or failed range goes unnoticed.
ReadIsImage ==
  pc = "done" =>
    Nearest(TheLevel, window, raster, grid, Fill) =
      [r \in 0 .. grid.height - 1 |-> [c \in 0 .. grid.width - 1 |->
         LET row == ImageCell(r, grid.y)
             col == ImageCell(c, grid.x)
         IN  IF row \in 0 .. TheLevel.height - 1 /\ col \in 0 .. TheLevel.width - 1
             THEN TheLevel.pixels[row][col] ELSE Fill]]

\* A request is sent at most five times, and without a Retry-After its waits
\* stay under the six seconds of the comment (cog.rs:676-685).
RetriesBounded ==
  \A g \in DOMAIN task : task[g].attempt <= 5 /\ task[g].waited <= 6000

\* A read ends whatever the server answers, and so do the groups it left
\* behind when it failed: every permit comes back.
ReadEnds == <>(pc \in {"skipped", "done", "failed"} /\ permits = Permits)

\* "A scene that only partially covers the AOI must not paint the uncovered region
\* with a literal reflectance 0" (grid.rs:170-172): no band pixel whose centre is
\* off the image is 0.  (No sample of the image is.)
UncoveredUnpainted ==
  pc = "done" =>
    LET band == Bilinear(TheLevel, window, raster, grid)
    IN  \A r \in 0 .. grid.height - 1, c \in 0 .. grid.width - 1 :
          band[r][c] = 0 => /\ ImageCell(r, grid.y) \in 0 .. TheLevel.height - 1
                            /\ ImageCell(c, grid.x) \in 0 .. TheLevel.width - 1
=============================================================================
