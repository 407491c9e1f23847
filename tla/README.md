# A TLA+ model of surface_priors

The repository builds composites of satellite observations. It holds two
programs that share ideas but no code:

- **`surface-priors`** (Python, `src/src/surface_priors/`): finds scenes, chooses
  for every chunk of a raster which scenes to read, fetches the selected
  (scene, chunk) windows with threads, merges them pixel by pixel, and persists
  the product as GeoTIFF assets with a STAC item. Searches, tile partitions and
  scout results are cached in memory and, optionally, on disk.
- **`bestpixel`** (Rust with a thin Python package, `src/surface_priors_rs/`): the
  same idea for Sentinel-2, HLS and MODIS over HTTP range reads, returned as
  arrays.

The modules model both from the search to the composite: the concurrent chunk
drivers, the product store, the disk caches, the source's scene indices, the
layout of chunks, the choice of scenes, the best-pixel loops, the reading of a
raster by ranges, and the Rust build of several periods. Reflectance, projection
and file formats appear only where a decision depends on them.

## 1. Inventory

| Component | State it keeps | Operations | What is hard | What makes it correct |
|---|---|---|---|---|
| Pipelined chunk compositor (`composite.py` 275-510) | unresolved scenes per chunk, dictionary of observations, list of compose futures, output arrays, source items | submit fetches, fetch and dispatch, compose a chunk, stitch, join, shut down | two thread pools, one lock, pops and stitches outside the lock, failures in any thread | the result is the sequential one; errors surface; the build ends |
| Prefetching driver (`provider.py` 168-185, 379-440; `composite.py` 178-272) | prefetch dictionary | fetch every pair in a pool or in the calling thread, then compose chunk by chunk | one fetch of many fails; None answers | same contract as the pipelined driver |
| Scene selection (`selection.py`) | entries per chunk | floors, ranking per tile, rounds over tiles | ties, caps, required tiles, any order of arrival | the top of each tile, the first of all tiles before the second of any |
| Pixel compositor (`composite.py` 1-152, `quality.py`) | best score, running moments | validate, choose the best observation per pixel | ties, nodata, integer widths; the same loop twice, in two languages | the best quality wins, the index names it, the spread is the variance |
| Chunk layout, tile classification (`chunks.py`, `tile_classification.py`) | none | cut the raster, classify chunks by tile | edges, chunks wholly in overlaps | every pixel in one window, no seam left |
| Provider and product store (`provider.py` 68-113, `persistence.py`, `geotiff.py`, `stac.py`) | product directory per request hash | has, save, load, rebuild | no lock, and one temporary name per asset for all callers: crashes, failed writes, callers that overlap | a hit serves one whole save |
| STAC disk cache (`sources/stac_cache.py`) | one JSON file per search, partition, scout result | load, store | several processes, crashes, full disk, damage | a load gives one whole stored value or a miss |
| STAC source (`sources/stac_api.py`) | scene list, raw items, partition cache, scout cache | list, scout, partition, fetch | scene *indices* are positions in a list that changes; six caches | what a build selects by is about the scenes its indices stand for |
| Earth Engine, Earthaccess, local sources (`sources/gee.py`, `s2_gee.py`, `earthaccess.py`, `local.py`) | remote services, small caches | search, download, read | remote failures | – |
| Rust disk cache (`disk_cache.rs`) | JSON files | load_at, store_at | one temporary name for every writer | what the last undisturbed store wrote is found |
| Rust COG reader (`cog.rs`, `grid.rs`) | header caches, range cache, permits | open, choose a level, cover a window by tiles, merge ranges, get with retries, decode, stitch, resample | offsets at every border, retries, permits, groups that outlive a failed read | the pixel read is the image's; everything ends and is bounded |
| Rust planning (`pipeline.rs` 244-714, `py.rs` 341-397) | none | scout, adaptive and fixed selection, fetch windows | exits of a greedy loop, slivers, edges | depth, full frames first, windows that hold every chunk |
| Rust build (`py.rs`, `pipeline.rs`, `stac.rs`, `endpoint.rs`) | caches on disk, tokens | search by month, sign, scout, select, read, compose, per period | repeated pages, tasks in any order, partial failure, warm caches, expired tokens | every day listed, observations whole, each period accounted for, a warm build takes nothing a cold one would not |
| Grids, writer, atmosphere, CLI, scripts | none | – | floating point, I/O | – |

How they interact: `Provider.build_prior` asks the product store for a hit, else
takes the source's scene list, scouts it, asks selection for a plan of
*scene indices*, and runs one of the two drivers, which call the source back by
(scene index, chunk) from worker threads; the composite goes to the store. The
source consults its disk cache, which other processes share. In `bestpixel` one
call searches, signs, scouts, selects, opens COGs through the header caches, and reads
ranges, all as tokio tasks of one runtime.

`PROJECT.json` lists every component with its status and every hazard at its line.

## 2. Modules

| Module | Models | Composes / implements |
|---|---|---|
| `ChunkedBuild` | what a chunked build promises, whichever driver runs it | abstract specification |
| `ChunkPipeline` | `compose_pipelined`, `fetch_and_dispatch`, `compose_chunk`, `_stitch_chunk` | implements `ChunkedBuild` |
| `PrefetchCompose` | `_prefetch_chunks_per_pair` followed by `ChunkedCompositor.compose` | implements `ChunkedBuild` |
| `ProductStore` | `Provider.build_prior` over `CompositeStore` | – |
| `CacheEntry` | what one key of the Python disk cache promises | abstract specification |
| `StacDiskCache` | `_safe_load`, `_atomic_write` | implements `CacheEntry` |
| `RustDiskCache` | `load_at`, `store_at`, for any number of writers of a key | – |
| `StacSource` | `list_scenes`, `scout`, `tile_partition` during builds of several processes | takes the cache entries as whole, which `StacDiskCache` justifies |
| `ChunkLayout` | `chunk_layout` and its Rust twin | – |
| `Ordering` | sorting a finite set by a strict order | pure operator, used by `TileClassification`, `ScenePlanning`, `RustBuild` |
| `TileClassification` | footprints, required tiles, `build_partition`, in both languages | pure operators |
| `ScenePlanning` | layout, classification and `SceneSelector.select` in a row | composes `ChunkLayout` and `TileClassification` |
| `RustPlanning` | scout, `select_adaptive`, `select_chunk_tile_aware`, `select_top_k`, fetch windows | uses `TileClassification` |
| `PixelComposite` | `PriorCompositor.compose` and `compose_best_pixel` over the same pixel, and both sides' quality codes | – |
| `CogOpen` | `open_cog`, header parser, header caches | – |
| `CogTiles` | levels, windows, tiles, range merging, decoding, stitching, resampling | pure operators |
| `CogReader` | a windowed read: groups, permits, retries, range cache | composes `CogOpen` and `CogTiles` |
| `RustBuild` | `run_build`, `run_build_periods` | takes selection, compositing and reading as the three modules above show them |
| `MC*` | TLC instances of the module they are named after | – |
| `MCStacCaches`, `MCRustChunk`, `MCRustProcess` | two instances checked beside each other in one run | `StacSource` and `StacDiskCache`; `RustPlanning` and `PixelComposite`; `RustBuild` and `RustDiskCache` |
| `ChunkPipelineProofs` | theorems: safety of the pipelined driver, and that it implements the contract | `ChunkedBuild` |
| `CompositorProofs` | theorems about `PrefetchCompose`, which implements the contract, and about the pixel loops of `PixelComposite` | `ChunkedBuild` |
| `ProductStoreProofs`, `StacSourceProofs` | theorems about the module they are named after | – |
| `StacDiskCacheProofs` | theorem: the Python cache implements its entry | `CacheEntry` |
| `RustBuildProofs` | theorems about `RustBuild` and about the cache it keeps, `RustDiskCache` | – |
| `ScenePlanningProofs` | theorems about `ChunkLayout` and `ScenePlanning` | – |
| `RustReadProofs` | theorems about `RustPlanning`, `CogOpen` and `CogReader` | – |

Definitions whose comment begins "variant" are one-line faults a change to the
code could introduce (a dropped guard, a missing reset, a wrong order). No
specification uses them; substituting one for the definition it stands beside
must break the property `PROJECT.json` names, which shows that the property
looks at the code.

### ChunkPipeline and the code

The caller is a thread that submits one fetch per scene (`SubmitFetch`), joins
the fetch futures in submission order (`JoinFetch`), leaves the `with` block of
the fetch pool, which waits for every running fetch even after a failure
(`CloseFetchPool`), joins the compose futures unless an exception is on its
way (`JoinCompose`), and in the `finally` waits for the compose pool
(`Shutdown`). A fetch worker is `StartFetch` and then `FetchReturns` or
`FetchRaises`; `Deliver` is the region under `state_lock`: the observations are
recorded, the scene is discarded from the dependencies of the chunks the result
lists, and the chunks that wait for nothing more are submitted. The order in
which one delivery submits several chunks follows the result's mapping, hence any.
A compose worker pops the chunk's observations outside the lock
(`StartCompose`), then `ComposeRaises`, or stitches in three separately
observable steps (`StitchPixels`, `StitchSelected`, `StitchItems`).

Pixels are abstract: a chunk's composite is the sequence of scenes that
contribute to it in plan order, because `PriorCompositor.compose` is a function
of that sequence. What a fetch answers for a pair is an observation, one the
compositor will reject ("bad"), None, or, if `MayOmit`, no entry at all. The
loop of dictionary pops is one step; `KeysSettledBeforePop` is what justifies
it: no other thread touches those keys any more.

### PrefetchCompose and the code

Fetch tasks are picked up first-in first-out by a pool of `workers`; with one
worker the calling thread runs them itself, only as it comes to consume each.
`pool.map` re-raises the first failed result in task order and cancels what has
not started, last task first, while the workers go on starting the first ones
(`CancelQueued`). After the pool is left the chunks are composed one after the
other. `_prefetch_chunks_by_scene` is reached by no caller: a source that can
fetch by scene takes the pipelined driver.

### ProductStore and the code

One request hash: the assets directory, its files, the item. A save removes the
old assets file by file (`Unlink`, `Rmdir`), creates the directory, writes the
assets in a pool of `write_workers`, and writes the item in place, cut first
(`OpenItem`) and filled afterwards (`WriteItem`). `HasProduct` parses the item;
`ReadItem` reads it again.

Each write of the pool is `write_tiled_geotiff` step by step (`stage`): the parent directory
is made again and the file `<name>.tif.tmp`, a name all callers share, unlinked
(`StartWrite`); the old asset is unlinked (`DropOld`); the temporary file is opened
(`CreateTemp`) and filled (`EndTemp`); then, with the COG driver, it is copied to the asset
(`StartCopy`, `EndCopy`) and unlinked (`DropTemp`), and without the driver, or when any of
these raises, the asset is unlinked (`FallBack`) and the temporary file renamed to it
(`Replace`). Another caller may do any of this under the same names in between: it may
unlink the temporary file, so that the write raises in the end, or write into it, so
that the bytes become a mix, which is `by` no build (0). A write that raised makes its
caller raise once the pool is left (`failed`, `OpenItem`).

A file remembers which build wrote it and whether it
is whole. Any write may fail, any process may die at any step, and a second
caller may be anywhere in the same code. A composite has one band, with or
without its uncertainty asset: two asset sets, one inside the other, are what
lets an asset be left over from another composite.

### The disk caches and the code

`StacDiskCache` is one key: `_safe_load` (does the file exist; open and parse)
and `_atomic_write` (mkdir and mkstemp, both outside the `try`; dump in two
parts; `os.replace`; unlink on OSError). Reading an open file is one step,
because a file published under the final name is never written again. Damage
comes from outside at most `MaxDamages` times: text that does not parse, or an
envelope of another schema. Bytes that do not decode are in the module
(`"undecodable"`) and raise out of a load; the run and the theorem leave them
out of `Garbage` (see the divergences below).

`RustDiskCache` keeps names and files apart. Every writer of a key uses the
temporary name `<key>.json.tmp`, `File::create` cuts the file behind the name,
`rename` moves whatever file bears it by then, and a descriptor stays with its
file. Several writers and readers are at work, any step may fail, and any process may die. A file
parses if both of its parts come from one value. Three history variables carry the property: `alone`
are the writers that had nobody beside them since they created their file, `sure` is what the last
store published if it was such a one, and `promised` is what `sure` was when a reader opened its file.

### StacSource and the code

A process has one source object: the scene list with the raw items it was made
from, the partition cache and the scout cache; three caches on disk are shared.
Which processes were given a cache directory is `cached`.
A build lists the scenes (memory, disk or service), scouts those its temporal
filter lets through (memory, disk or a read per scene), takes the tile partition
(memory, disk or classified), and fetches by index. The service answers in any
order and its archive may gain a scene in the middle of the order, which moves
every later index. `Restart` gives the process a new source object and keeps
the disk. A partition is the set of scenes with their tiles: the polygon test
that assigns chunks is a function of the scene's item, so an item stands for
its tile. One date range is searched, so no item is listed twice.

### Layout, classification, selection and the code

`ChunkLayout` is the tiling loop of `chunks.py`, one window a step; `Snap` rounds
the chunk size to whole storage blocks. In `TileClassification` a footprint
is the set of the pixels it covers, so that an area is a number of pixels:
footprints per tile, the exclusive share of a tile in a chunk, the tiles a chunk
*requires*, the fallback of a chunk that lies wholly in overlaps (the two
languages break ties differently), and what no tile reaches. `ScenePlanning`
runs them in a row with `SceneSelector.select`: statistics `Arrive` scene by scene in any order,
pass the floors and join each chunk's entries; `SelectChunk` ranks them by tile
and takes the first of every tile before the second of any. A score that is not
a number is `NaN`, below all others.

`RustPlanning` starts from what the scout saw, the valid and the clear cells of each scene.
`LookUp`, `Take` and `NextFootprint` are the loops of `select_adaptive` (chunk,
required tile, depth): full frames that add clear cells first, then slivers, then
whatever reaches `min_k`, with the exits on coverage, cap and exhaustion.
`SelectFixed` is `select_chunk_tile_aware`, or `select_top_k` without a partition.
`FetchWindow` is the box of the chunks that asked for a scene.

### PixelComposite and the code

Both loops take the same observations of one pixel one after the other, of one
of four quality products (SCL, Cloud Score+, Fmask, MODIS state). `PythonStep` is the
body of `PriorCompositor.compose` (validity, score with the sample index as
tie-breaker, replacement, sticky uncertainty and sample); `RustStep` that of
`compose_best_pixel` with its running moments. The code keeps these in floating point; the model keeps `Scale` times the mean,
exactly, with a `Scale` that every number of observations divides (12 for the four of the run). Cloud Score+ has no Rust
twin. Reflectance is in DN, nodata is 65535.

### The COG reader and the code

`CogOpen`: a profile is looked for in memory, then on disk, else the head of the
file is fetched and the directories are followed, with a block for whatever lies
beyond. The two caches say only whether they hold the profile, which is a function of
the file. `CogTiles` has the arithmetic: overview, window, tiles, merged ranges,
bit unpacking, the two predictors (with the blocked prefix sum), stitching, the
nearest and bilinear resamplers. Beside it stands what these are compared with, `IsRaster`: what the bytes of a
file are of its image by the TIFF format, tile by tile and sample by sample, without the accumulators, blocks and
sums of the code. `CogReader` composes them: each group takes a
permit (`Acquire`), asks, is refused, sleeps and retries, is cut, or is
answered; the read ends with the first group that fails (`Join`) while the
others go on, and may be repeated over the range cache (`Again`). The long file of the
instance has a directory longer than a block.

### RustBuild and the code

`Search` per period (disk, or a server whose pages may repeat a scene), stored under the
months it is for, as `search_key` has the dates in it; `Gather`, which flattens the answers
period by period (a scene is at a *place*: the period and its position there), keeps the first of each
scene and sorts; `Sign` scene by scene with one token per container, `StartScouts` and `ScoutEnds`
over the scout cache, then per period `Select` (any subset of what is eligible,
each scene with any window [row0, col0, h, w]: `RustPlanning` has the choice), `FetchEnds` for each
band in any order, `Compose`, and `Return`. A pixel is <<scene, band, row, column>>
and the buffers are row-major, as in the scatter of `py.rs` 389-397 (`Scattered`), so a pixel that lands in
another row or column shows. `NextBuild` starts another request in the same process, with the
tokens perhaps expired (`epoch`).

## 3. Runs

| Run | Instance | What it shows |
|---|---|---|
| `pipeline` | 3 chunks, 3 scenes, two of the scenes shared by chunks, 2 fetch and 2 compose workers | every interleaving of deliveries, pops, stitches and joins, with every mix of answers and failures: the result is the sequential one, failures surface, every contributing item is kept, the build ends, and it implements `ChunkedBuild` |
| `prefetch` | 2 chunks, 2 scenes each, in opposite orders, with 1 and with 2 workers | the driver ends, leaves no fetch behind, and implements `ChunkedBuild` |
| `product_store` | 2 callers, of whom p builds first, 2 builds, 2 write workers, failing writes and deaths | a hit serves the bands of one save, a finished save is whole, overlapping calls that all return leave whole assets under the item, a torn item is a miss, callers end |
| `stac_caches` | the source: 2 processes with equal limits, with one disk cache between them or one of them without, 3 items of which one has no tile, 2 areas that share one, limit 2, a late item that shifts the others; one key of the disk cache: 2 processes, 2 values, 3 stores, 2 damages, every step failing | statistics, partition and indices belong to the build's own scene list; the cache implements `CacheEntry`: values whole, none lost but by damage, damage is a miss |
| `stac_limits` (violation) | 2 processes with limits 2 and 3 over one disk cache | a finding below |
| `scene_planning` | every area up to 4 by 4 with chunk sizes to 3 and blocks to 3; a strip of 3 pixels under 3 scenes of 3 tiles, 2 chunks under 2 scenes; top 1 and 2, with and without a floor | windows tile the area, plans are the top of each tile in rounds, no seam is left |
| `rust_chunk` | selection: a chunk of 3 cells and 3 scenes, 4 chunks cut at the edge and 2 scenes; three adaptive and two fixed policies. One pixel: 1 to 3 observations, one of each class of quality code, a zero, a band outside, sample indices and uncertainties | windows hold their chunks, depth suffices, slivers come last; both loops keep the best pixel, agree where they should, and the spread is the variance |
| `cog_reader` | an image of 8 by 4 in tiles of 5 by 2 with an overview, stored packed in 6 bits, as differenced words and as differenced bytes; windows over every border at four resolutions; for one of them refused and cut ranges, for one a second opener and requests that fail | what is read is the image, attempts and waits are bounded, every permit comes back |
| `cog_uncovered` (violation) | the same | a finding below |
| `rust_process` | builds: 6 scenes about a leap day and of the next year, among them repeated, cloudy, off the grid, without a band, and unprojectable; 3 requests (two months of a year, one month of two years, a range of two months), a grid of 2 by 2, 2 builds. One key of the disk cache: 2 writers, a reader, 2 values, failures and deaths, files symmetric | every day is listed once, observations are whole and every pixel in its row and column, each period is accounted for, warm statistics admit no scene that cold ones would not; what an undisturbed store wrote is found until the next |
| `rust_warm` (violation) | the builds of `rust_process` | a finding below |
| `rust_cache_overlap` (violation) | the key of `rust_process` | a finding below |

`product_store` constrains who builds first (`FirstBuild`): nothing tells the callers apart, so
any other behaviour is one of those checked with the names exchanged, and every property
quantifies over all callers.

In `stac_caches`, `rust_chunk` and `rust_process` only one of the two instances leaves its
initial state in a behaviour. The states are the sum and not the product, and each instance is
checked as it would be alone, its own properties against all its behaviours.

Why these bounds are enough. In the pipeline what can go wrong needs one chunk
that waits for two scenes, one scene that resolves two chunks, a worker of each
pool that is busy while another moves, and one failure beside work that goes on;
two workers and three chunks give all of them, and a fourth scene adds only
another instance of the same pair of races. In the store, one save over
another's remains needs two builds; a torn item needs one; two assets are what
a mixture needs, and two callers what a shared temporary name needs. A cache race is between two writers, or a writer and a reader,
and three stores let one value be replaced twice under a slow reader. For the
scene indices the smallest shift needs two known items and a late one before
them; a limit of two then also drops one. A seam needs two tiles, the fallback of a
chunk in overlaps three, the rounds two scenes of one tile. The greedy
depth loop reaches each of its exits with three scenes over three cells. A third
observation is the first that can meet a winner which itself replaced one. In the
reader an odd tile width, a word size that straddles bytes and windows off every
side of the image meet every border of the arithmetic, and two groups over two permits
the one race there is; a prefix sum over blocks of 2 in rows of 5 has a carry and
a rest. Two builds are what a warm cache and an expired token need. Counters that could
grow without end (builds, stores, damages, reads, picks, late items) are bounded by the
constants named `Max...`, `Builds`, `Reads`, or by the finite set of items; `MaxAttempts`
is the code's own.

Deadlock checking is on where a state in which the system has properly ended
stutters (`Finished`, `Exhausted`, `Done`, `Composed`, `Built`); it is off in
`scene_planning` and `cog_reader`, which model one
computation that ends and add no step for having ended, and in `cog_uncovered`, `stac_limits` and
`rust_warm`, which look for one state. `ReadEnds` shows that the reader
does not stop early.

### Fairness

`ChunkPipeline` and `PrefetchCompose` assume weak fairness of the caller, of each pool's
next pick-up, of each running fetch and of each running compose: the operating
system runs every thread, and a fetch returns or raises because the readers
behind it have timeouts. Nothing is assumed about which answer a fetch gives.
`ProductStore` has no fairness in its `Spec`; `CallsEnd` says of each caller that if it keeps running (weak
fairness of its own next step: local file operations end) its call ends, though the
others may stop for good anywhere. No caller is assumed to call again. `CogReader` assumes it of each
opener, of the reader and of each group: tokio runs every task that is ready, and a
request has a timeout; that a request is answered well is not assumed. The selections, the
caches, the source and `RustBuild` have no liveness property and no fairness.

### Findings

**Uncovered columns are painted with reflectance 0** (`grid.rs` 547, run
`cog_uncovered`). The bilinear resampler leaves a pixel nodata only when its whole row is off
the image. A pixel whose column is off takes the scalar edge path, in which the weights of both
columns drop out and the sum over nothing is written as 0; the comment
(170-172) says that the uncovered region must not be painted with a literal 0.

**The partition on disk depends on `max_scenes`, its key does not** (`stac_api.py` 423, run
`stac_limits`). The key is made of all raw items, the partition of the scenes the limit left. A
process with another limit is given a partition of other scenes, from a directory that
`stac_cache.py` 36-37 says can be shared safely. What does hold for any limits, and is checked and
proved, is that every partition is of the scenes that some process sharing the directory
makes of the same raw items (`PartitionIsOfScenes`).

**A scout read back is not the scout** (`pipeline.rs` 85, run `rust_warm`). The overall usable
fraction is rebuilt as the largest *clear* fraction of a chunk, where the scout's counts the
*observed* pixels. An observed scene without clear ground has a positive fraction cold and 0
warm, and the fixed selectors (414, 460) leave it out then. Comments 70-71 and 95 speak of an
inverse. What holds is that warm statistics have the clear ground of cold ones and never
admit a scene that cold ones would not (`WarmTakesNoMore`).

**Writers of one Rust cache key share a temporary name** (`disk_cache.rs` 197, run
`rust_cache_overlap`). One publishes the file that the other has cut and is still
writing; 196 calls the write atomic. The final name then bears half a file, which is
a miss while it does not parse. What holds is `LastStoreIsFound`: an undisturbed store is found until the next.

### Divergences seen while modelling, without a run

These were met by varying the instances; each is in `PROJECT.json` as a hazard
where it has consequences.

- A chunk missing from a fetch result is lost (`composite.py` 384): only the chunks
  a result lists lose the scene from their dependencies, although 290-291 says
  that chunks whose scenes have all completed are pushed. The sources of the repository
  list every chunk, so the run and the theorems take `MayOmit = FALSE`.
- A cache file that is not UTF-8 raises (`stac_cache.py` 167), where the module
  says that unreadable files are misses (11-13).
- A failed scout read is cached as a result (`stac_api.py` 612), for good,
  though 586-587 calls the result a function of grid, layout and factor.
- A Rust chunk in the overlap of two rows of tiles that crosses two columns
  loses the cells of one side (`tile_classification.rs` 187), where `pipeline.rs` 402-403
  promises seam coverage. Python adds the tiles that are not required (`TilesInOrder`).
- SAS tokens never expire in the cache of an endpoint (`endpoint.rs` 500), where
  `signer.rs` 36-37 says that they last about an hour.
- The composite keeps an older observation's uncertainty when the winner has
  none (`composite.py` 83-85), and its sample index (79-82).
- `run_build` does not drop items listed twice (`py.rs` 489), as `run_build_periods` does.

Not divergences, since no text contradicts them: `mkdir` and `mkstemp`
of a cache store are outside the `try` and fail the build; after a crash between the
last asset and the item, a hit serves new bands under the old item's metadata;
two callers of one request can make each other raise; and the request hash
leaves out `max_scenes`, so a product built with another limit is a hit.

## 4. Proofs

Every theorem holds for all values of the constants that satisfy the assumptions the
modules declare; TLC evaluates each assumption in the runs.

| Theorem | Module | Statement |
|---|---|---|
| `TypeCorrect` | `ChunkPipelineProofs` | `SafeSpec => []TypeOK` |
| `PopIsSettled` | `ChunkPipelineProofs` | `SafeSpec => []KeysSettledBeforePop` |
| `Painted` | `ChunkPipelineProofs` | `SafeSpec => []PaintedIsSequential` |
| `FailuresSurface` | `ChunkPipelineProofs` | `SafeSpec => []FailureSurfaces` |
| `ItemsComplete` | `ChunkPipelineProofs` | `SafeSpec => []SourceItemsComplete` |
| `ReturnsSequential` | `ChunkPipelineProofs` | `~MayOmit /\ SafeSpec => []ReturnedEqualsSequential` |
| `PipelineImplements` | `ChunkPipelineProofs` | `~MayOmit /\ SafeSpec => ImplementsBuild` |
| `QuietAtTheEnd` | `CompositorProofs` | `SafeSpec => []QuietWhenOver` |
| `PrefetchImplements` | `CompositorProofs` | `SafeSpec => ImplementsBuild` |
| `BestIsKept` | `CompositorProofs` | `PixelSpec => []BestPixel` |
| `ImplementationsAgree` | `CompositorProofs` | `PixelSpec => []SamePixel` |
| `ClearPixelsAreComposed` | `CompositorProofs` | `PixelSpec => []ClearIsComposed` |
| `OnePassVariance` | `CompositorProofs` | `PixelSpec => []SpreadIsVariance` |
| `ServesOneSave` | `ProductStoreProofs` | `Spec => []ServedFromOneSave` |
| `SavesWhole` | `ProductStoreProofs` | `Spec => []SavedIsWhole` |
| `ListsWhatIsThere` | `ProductStoreProofs` | `Spec => []ListedAssetsWhole` |
| `TornItemNeverRaises` | `ProductStoreProofs` | `Spec => TornItemIsMiss`, an action property |
| `CacheImplements` | `StacDiskCacheProofs` | `CacheSpec => ImplementsEntry`, if `"undecodable" \notin Garbage` |
| `CacheKeepsLastStore` | `RustBuildProofs` | `Spec => []LastStoreIsFound` |
| `BuildsListEveryDay` | `RustBuildProofs` | `BuildSpec => []EveryDayListed` |
| `BuildsCompose` | `RustBuildProofs` | `BuildSpec => []ObservationsWhole` |
| `BuildsAccount` | `RustBuildProofs` | `BuildSpec => []PeriodsAccounted` |
| `WarmBuildsTakeNoMore` | `RustBuildProofs` | `BuildSpec => []WarmTakesNoMore` |
| `StatsAreOfTheirScenes` | `StacSourceProofs` | `Spec => []StatsAreOfScenes` |
| `PartitionsAreOfTheirScenes` | `StacSourceProofs` | `Spec => []PartitionIsOfScenes` |
| `SceneIndicesAgree` | `StacSourceProofs` | `Spec => []SameIndices` |
| `LayoutCovers` | `ScenePlanningProofs` | `LayoutSpec => []PixelsCoveredOnce` |
| `PlanningCovers` | `ScenePlanningProofs` | `Spec => []PixelsCoveredOnce` |
| `PlansAreTopK` | `ScenePlanningProofs` | `Spec => []PlanIsTopK` |
| `PlansAreRoundRobin` | `ScenePlanningProofs` | `Spec => []SeamsFirst` |
| `PlansLeaveNoSeam` | `ScenePlanningProofs` | `Spec => []NoSeamLeft` |
| `DirectoriesCovered` | `RustReadProofs` | `Spec => []CoverableIsRead` |
| `OpensUnlessRequestFails` | `RustReadProofs` | `Spec => []FailsForCause` |
| `ReadsTheImage` | `RustReadProofs` | `Spec => []ReadIsImage` |
| `WindowTiles` | `RustReadProofs` | the tiles listed for a window are the image's, and hold all its pixels |
| `GroupsCover` | `RustReadProofs` | merged ranges end within the file, cover their tiles and lose none |
| `UnpackedIs` | `RustReadProofs` | the bit accumulator gives the packed samples |
| `InvertedIs` | `RustReadProofs` | the blocked prefix sums undo the differences of a row |
| `DecodedIs` | `RustReadProofs` | a tile decodes to the samples it was stored of |
| `RetriesAreBounded` | `RustReadProofs` | `Spec => []RetriesBounded` |
| `PermitsComeBack` | `RustReadProofs` | `Spec => []PermitsReturn` |
| `ReadsAreWhole` | `RustReadProofs` | `Spec => []NoneCut` |
| `WindowsHoldChunks` | `RustReadProofs` | `SelectSpec => []WindowsCover` |
| `DepthSuffices` | `RustReadProofs` | `SelectSpec => DepthIsEnough`, an action property |
| `FullObserversFirst` | `RustReadProofs` | `SelectSpec => SliversLast`, an action property |

**Assumptions.** Of the pipeline and the prefetching driver: a finite set of chunks, for each
a sequence of distinct scenes that is not empty, an order that names every scene (chunk) once, at
least one worker per pool (`PlanAssumption`, `OrderAssumption`, `WorkersAssumption`). The
selection gives no scene twice to a chunk, which is what `PlansAreRoundRobin` proves of it.
Of the store (`StoreAssumption`, `NamesAssumption`): asset sets are not empty, and the
values for "no file" and "torn" are no contents. Of the source (`SourceAssumption`,
`NoneAssumption`): a finite set of numbered items, and "no partition" is not a partition. Of the
planning (`AreasAssumption`, `PoliciesAssumption`, `ScenesAssumption`): sizes that are not 0,
footprints that are sets of cells; of the Rust planning (`AreasAssumption`, `PoliciesAssumption`,
`CataloguesAssumption`) the same, with what is clear a part of what is seen. Of the reader (`BlockAssumption`, `FilesAssumption`,
`RetryAssumption`): the block is at least as long as its alignment; five attempts and a base
delay of 200 ms, the constants of `cog.rs`. Of a raster (`RastersAssumption`): it is laid out as `IsRaster` says, with
samples of 1 to 16 bits, differenced only if of whole bytes. Of its arithmetic (`LanesAssumption`, `StridesAssumption`): at
least one lane, and strides that double from 1 until they reach over the block, as 1, 2, 4 do for the 8 lanes of
`cog.rs`. Of a grid (`GridsAssumption`): it has pixels, of a size that is not 0, anywhere. Of the pixel
(`CodesAssumption`, `NaNAssumption`, `ReflectancesAssumption`, `ScaleAssumption`,
`WeightAssumption`): integer codes of the four products, reflectances that are numbers, a `Scale` as above, and sample indices
that are not negative and, with the number of observations added, stay below `quality_weight` (1000000 in the code,
where a sample index has 16 bits). Of the Rust build (`CatalogueAssumption`, `RequestsAssumption`,
`GridAssumption`, `BoxesAssumption`, `NothingAssumption`): dates of the calendar, clear counts that are naturals and a scene
without chunks that observed nothing; years and months that are not empty, months from 1 to 12, which is
what the call refuses otherwise (`py.rs` 266-276); at least one row and one column, windows inside the grid; "nothing" is no month. Of a Rust cache key
(`InodesAssumption`): finitely many users, more files than names and descriptors. Two hypotheses stand in theorems and are needed there:

- `~MayOmit`: without it the two theorems that name it are false, by the hazard at `composite.py` 384.
  `ItemsComplete` does not need it: what is returned lists the items of what was painted, though a
  chunk be lost.
- no bytes that fail to decode (`stac_cache.py` 167): see the divergences above.

The theorems about the two drivers are about `SafeSpec`, the specification without
fairness, and so about `Spec`.

**The invariant of the dispatcher.** `PaintedIsSequential` speaks of the answers at the
end; a chunk is composed from what was in the dictionary when it was popped. The
gap is closed by `DispatchInv`:
`FifoInv` (a scene beyond the first `started` of the order is still "idle"),
`JobsInv` (the list of compose jobs names each submitted chunk once; those after
the first `begun` are queued, and only those), `KeyInv` (a key in the
dictionary is of a delivered scene that answered), and for every chunk
`ChunkInv`: while it waits, some scene remains and every scene that does not
remain has its key in the dictionary; once queued every key is there; once
taken, every scene is delivered for good and the local list is the usable
answers in plan order; once painted, the window equals the reference and what
was taken; and until it is taken the windows are blank. No single one of these
is inductive: the step `Deliver` turns the first into the second, `StartCompose`
the second into the third, and `JobsInv` is needed to know that the chunk picked
up is a queued one.

For the return, `CallerInv` ties the caller's program point to what has been
joined (past the fetch pool without an error every scene is delivered; past
the join loop every job is done), `ErrorInv` says an error was somebody's, and
`AwaitInv`, which needs `~MayOmit`, that a chunk still waiting has a scene not
yet delivered; with every scene delivered no chunk waits, so every chunk is a
job, and every job is done.

For the source items, `ItemsInv`: an item that is set is of a finished window its scene
contributed to, and every contributor to a finished window has one. `PlanOrderLists` connects
the list a stitch walks with the set of contributors: `InPlanOrder` numbers the places of the
contributing scenes by how many come before, and `PlacesCounted` shows by a least
counterexample that every number up to their count is taken once.

**The refinement of the contract.** What the abstract build sees of the pipeline
is `pixels` of the chunks that are done, and the caller's end. A fetch that ends is
`Answer`, the last stage of a stitch is `Paint`, `Shutdown` is `Return` or
`Raise`, and all else is invisible. Three more invariants are needed: an answer is given when
its fetch ends and never changes (`AnswerInv`, `AnswerStep`); a chunk that is painted
has no rejected observation and one that failed has (`CleanInv`); and past the
fetch pool nothing fetches, past the end nothing composes (`QuietInv`), so that no
answer or painting comes after the verdict.

The prefetching driver implements the same contract by a simpler map (`canvas` is
`canvas`). `PrefetchInv`: an answer is given exactly when its task ends (`TaskInv`);
what the caller has consumed is done and kept, and once it composes, everything is
(`CallerInv`), and an error is some fetch's; nothing fetches after the prefetch;
the chunks passed are painted and the others blank (`CanvasInv`). Its task list is the
flattened plan, and that this list holds every pair once is an induction over the number of
chunks (`FlattenDistinct`, `TasksFacts`).

**The pixel loops.** `PixelInv`: the score a loop keeps is the least of those of the observations it has
accepted, and what it has written down of index, quality, bands and number of valid observations is
of one observation with that score (`PythonInv`, `RustInv`). Nothing is claimed of the Python loop's sample index and
uncertainty, which may be an older observation's when the winner has none (`composite.py` 79-85). A Python score adds sample and order to the
quality; `WeightAssumption` is what makes the quality decide (`QualityDecides`). Both then hold the first of
least quality among the same observations, so `SamePixel` needs no invariant of its own. `MomentInv`: of each band the
moments are those of the sum and the sum of squares of what was valid so far (`Kept`), which one of Welford's updates
keeps (`WelfordKeeps`, on an identity between products, `VarianceStep`); the sums are functions by recursion on the
number of observations, and one more observation adds its value to them.

**The store.** Callers disturb each other, so the properties speak of a caller under whom nobody
else has rebuilt (`Alone`). `StoreInv` has what each caller still has to do at
each of its program points (`LocalInv`), what the disk looks like to one who is alone
(`AloneInv`: what is cleared stays cleared, what is written is its own, what it reads
is of one build, whatever a dead save left), and `SoundInv` for callers that overlap. As long as no
write or call has raised or died (`Disturbed`), an asset is *sound*: it is whole, or some
caller does not list it or has still to write it, and a single writer of it finds its own temporary file; or it is
*doomed*: it has two writers past `CreateTemp`, or one whose temporary file is gone. A doomed asset
stays so until a write raises (`DoomedStays`), because a copy or a rename uses up the one temporary file
that two need; so when all have returned without a mishap every asset is sound, which is
`ListedAssetsWhole`. `WriteEffects` states once what each stage of a write does to names and stages. Two lemmas carry the proof: who is alone now has
been alone (`AloneBefore`), and whoever is next to one who is alone only loads
(`OthersOnlyLoad`).

**The caches.** For the Python cache, `CacheInv`: what a store has in hand was offered, and
what it moves under the final name is the whole of it. For the Rust cache, `FilesInv`: a writer that is
alone holds the file behind the temporary name, has put into it what its point says, and nobody else
writes (`AloneWriters`). The file last published by such a store (`SureInv`), and each file
a reader opened under that promise (`PromiseInv`), has that value and is *settled*: it is neither behind the
temporary name nor behind a writer's descriptor, so no race among later writers can reach it. A file once settled
stays so, because `Create` only takes the file behind the temporary name or an unused one.

**The source.** `SourceInv`: a scene list is what some answer of the service, given when the archive held at
least what it was made of, becomes under the process's own limit (`ListInv`); the caches in
memory are of the current list (`ScoutInv`), which holds because a new list comes with empty ones
(`Relisted`); a partition, in memory or on disk, is the one that some process sharing the cache makes
of the raw items its key is made of (`PartInv`, `DiskInv`), which stays true whatever later archives bring (`PartsStay`). `SceneIndicesAgree` then needs that sorting two
answers with the same items gives the same sequence.

**The layout and the selection.** `LayoutInv`: the windows so far hold exactly the pixels passed in
row-major order, each once, and none outside; the step needs that a snapped
chunk size is not 0, which is arithmetic of quotients. For the plans, `PlanInv` adds that the entries of a
chunk are the eligible scenes that have arrived and that the partition names no tile of a chunk twice. Everything the selection does is
to put a finite set in order, so the proof rests on one lemma: a strict order on a finite set ranks its members
0, 1, 2, ..., each once (`Ranking`, `RankedLists`). It is applied to the scores within a tile, to the tiles
themselves, and to the slots (rank, tile); the picks of a tile are the entries of rank below
`top_k`, whatever order they arrived in.

**The Rust planning.** `SelectInv`: between two steps of the greedy loop the view is that of the footprint at hand,
what is taken is among its candidates and no more than the cap, what is covered is what the scenes taken have clear, and
each chunk a scene has collected is one of the area. Gains are bounded by the cells of a chunk, so a best
scene exists (`BestGains`); from it `PickIsUnused` and `NothingToPick`, which the exits of the loop rest on. That a
window holds its chunks is the arithmetic of `div_ceil`, with minima and maxima over sets of naturals. The first form of
`SliversLast` called a sliver whatever does not see every cell. The proof failed for it: the code's `is_full` forgives
a hundredth, which three cells cannot show.

**The Rust build.** `BuildInv` ties the steps of a build together, and the builds of a process.
What is on disk of a search is a list of all scenes of its months, and of a scout what a cold one
gives (`DiskInv`); so is each answer so far (`FoundInv`), whether it came from the disk or the server, because the
range searched is the month: `LastDayIsRight` compares the code's last day with the calendar, month by month and by the three cases of
a February. Once gathered, the items are the scenes of all answers, once each in a build of periods (`ItemsInv`):
`GatherLists` ranks the places by date, scene and place with the lemma of the selection (`Ranking`), and the
first place of a scene is its least. `StatsInv` says that a stat read back has the clear ground of a cold one and is usable only if that is,
`TurnInv` that the results and errors so far are of the periods before the turn, each once and in order, which
`PeriodsFacts` needs to be sorted and distinct: quotients and remainders of the position in years times months.
`PicksInv`: while reads are pending, every pick is an item of the period that reprojects, and what has been
read is what the read of that band returns, so that an observation whose bands are all there is whole (`PixelsArePlaced`: a place of the row-major
buffer is split into row and column by quotient and remainder, `RowMajor` and `RowAndColumn`, and so is its place in the window). `SeenInv` keeps of each result what was true of its period when it was composed. The proof
attempt of `EveryDayListed` found an error of the model: searches were stored by period, so that two builds
of one range with different dates would have shared one, which the code's key forbids.

**The reader.** `OpenInv`: what an opener has left to parse are ranges of the file. The block fetched for a
value begins less than `Align` bytes below it (`BlockStartBefore`), so it covers what `Reachable` says.
`RetryInv` bounds what a group has waited by its attempts: at the longest 299, 898, 2097 and 4496 ms
after one to four refusals. `PermitInv`: the permits free and the groups that hold one
add up; `WholeInv`: a group that is done has all its bytes, and a read that is done has all its groups.

That a read gives the image is `ImageInv` of the state and, under it, one lemma for each stage of the data.
`ImageInv`: the overview and the window are those of the grid (`AimInv`); once planned, the groups are those
of the window (`PlanInv`); every tile decoded is its part of the image, and a group that is done has left its tiles
(`TilesInv`), so that the raster of a read that is done is stitched of tiles of the image (`RasterInv`), with none missing
(`DoneIsComplete`). `PermitInv` and `WholeInv` carry the order of events: a group that is done does
no more, and a failed read whose groups go on decoding returns nothing. The stages:
the window holds the cell of each centre that is on the image (`CellInPart`, `WindowIsEnough`); its tiles hold its pixels
(`WindowTiles`); sorting a list loses nothing (`SortedLists`, again by `Ranking`), and adding tiles one by one keeps every group around
its tiles (`AddTileKeeps`, `GroupsCover`); cutting a range out of the file and a tile out of the range is cutting the tile
out of the file (`CutTwice`). For the bits, `After` names the accumulator's state after any number of samples, by what
is left of the last byte taken, and `NextSampleIs` shows that a step leads from one to the next: a sample spans at most three
bytes, of which `PartsOf` and `HighPart` take quotients and remainders by powers of two. For the predictor, after `k` strides
a lane holds the difference to the sample `Width(k)` before it (`LaneIs`), differences add up modulo the word
(`Telescopes`), and `Lanes <= Width(Len(Strides))` is what makes the last of them reach the sample before the block. The
proof needed the reference to be stated for the samples of a tile, those of its padding included, which the model had left
open before, and it needed the assumption on the strides.

**Induction.** The induction theorems of the library take an operator as a parameter, which the provers
at hand cannot instantiate. The proofs above that need induction take a least counterexample
instead: `WFMin` with `NatLessThanWellFounded` gives every set of naturals that is not empty a least member
(`LeastNatural`), from which follows that a set of naturals with 0 and every successor of a member is `Nat`
(`SetInduction`). A function by recursion is a `CHOOSE` to the prover, so what it computes is shown by giving a function
that satisfies its equation: stepwise (`Recursion`), or in closed form, which two solutions of one recursion share (`SameRecursion`).

**Only model-checked.** Liveness (`Terminates`, `CallsEnd`, `ReadEnds`) and fairness are
beyond this prover. `UncoveredUnpainted`, `PartitionIsOfOwnScenes`, `WarmAsCold` and `AtomicWrite` are false,
which their runs show. Every other property of the runs is a theorem.

## 5. Plan

1. *Done.* The chunked build and its two drivers; the product store; both disk
   caches; the source's scene indices; layout, classification and selection in both
   languages; the pixel loops; the COG reader; the Rust build; proofs about both
   drivers with their refinements, the store, the caches, the source, the layout, the Python selection,
   the Rust adaptive selection, the pixel loops with their moments, the reader from the opening to the image, and the Rust build.
2. Proofs: the fixed selections; bounds on what the bilinear resampler gives.
3. The windowed reads of `stac_api.py` (fetch_selected, fetch_selected_for_scene) and the
   search of several ranges, composed with `ChunkPipeline`.
4. `ProviderBuild`: hash, store, source and driver composed, with the caches of
   `s2_gee.py` beside those of `StacSource`.

**Not modelled, and why.** Earth Engine and Earthaccess calls, raster reading and
writing through GDAL, the fields of a TIFF directory, DEFLATE, reprojection, shapely geometry
and atmospheric correction are I/O, libraries or
floating-point arithmetic without protocol; the command line, value classes,
research scripts and examples keep no state. They appear above only through
their outcomes: a fetch that answers, declines or raises, a file that is whole or torn.
