------------------------------ MODULE RustBuild ------------------------------
(***************************************************************************)
(* The Rust build (py.rs:399-1431): run_build composes one range of dates, *)
(* run_build_periods every requested month of every requested year from    *)
(* one search per month and one scouting pass.  Searches, scouts and reads *)
(* are tasks that end in any order and may fail.  Builds follow each other *)
(* in one process, over one disk cache and one cache of access tokens.     *)
(* What a selection chooses is RustPlanning's, what the composite of the   *)
(* observations is PixelComposite's, how a raster is read CogReader's.     *)
(***************************************************************************)
EXTENDS Integers, Sequences, FiniteSets, SequencesExt, Ordering

CONSTANTS
  Catalogue,  \* scene -> [date <<y, m, d>>, collection, projects, observed, clear (per chunk)]
  Assets,     \* collection -> the bands it has; one that is not listed has no quality either
  Supported,  \* the bands of the endpoint
  Requests,   \* [mode, years, months, bands, cached, adaptive, windowed, gated, unknown]
  Aod, AodMax, \* day -> aerosol depth of the days on record, and the gate's limit
  Sas,        \* does the endpoint need a token?
  Rows, Columns, \* of the grid
  Boxes,      \* the windows that the chunks of a scene span: [row0, col0, h, w]
  Nothing,
  MaxPicks,   \* bound on the scenes selected
  Builds      \* bound on the builds of the process

VARIABLES request, build,
          epoch, token,   \* tokens expire when the epoch ends
          disk,           \* searches and scouts on disk
          phase,
          found,          \* period -> what its search gave
          items, signed,  \* the scenes listed, and how the hrefs of each are signed
          scouting, stats,
          turn,           \* the period composed
          picks, pending, data,
          results, errs

buildVars == <<request, build, epoch, token, disk, phase, found, items, signed, scouting, stats,
               turn, picks, pending, data, results, errs>>

shared == <<epoch, token, disk>>
listing == <<found, items, signed>>
scouted == <<scouting, stats>>
composing == <<turn, picks, pending, data, results, errs>>

\* f, with x for key.
With(f, key, x) == [k \in DOMAIN f \union {key} |-> IF k = key THEN x ELSE f[k]]

-----------------------------------------------------------------------------
(* The months and their days *)

SortedSet(S) == Ordered(S, LAMBDA a, b : a < b)

\* Sorted, without repetitions, in the order of years and then of months.
Periods == LET years == SortedSet(ToSet(request.years))
               months == SortedSet(ToSet(request.months))
               n == Len(months)
           IN  IF request.mode = "one" THEN <<Nothing>>
               ELSE [k \in 1 .. Len(years) * n |-> <<years[((k - 1) \div n) + 1], months[((k - 1) % n) + 1]>>]

\* Variant: every hundredth year is a common year.
NoCenturies(year) == year % 4 = 0 /\ year % 100 # 0
Leap(year) == (year % 4 = 0 /\ year % 100 # 0) \/ year % 400 = 0

LastDay(year, month) == CASE month \in {4, 6, 9, 11} -> 30
                          [] month = 2 -> IF Leap(year) THEN 29 ELSE 28
                          [] OTHER -> 31

\* The server's calendar.
DaysOf(year, month) ==
  IF month # 2 THEN <<31, 28, 31, 30, 31, 30, 31, 31, 30, 31, 30, 31>>[month]
  ELSE 28 + (IF year % 400 = 0 \/ (year % 100 # 0 /\ year % 4 = 0) THEN 1 ELSE 0)

ASSUME CatalogueAssumption ==
  /\ Len(Catalogue) \in Nat /\ DOMAIN Catalogue = 1 .. Len(Catalogue)
  /\ \A s \in DOMAIN Catalogue :
       LET scene == Catalogue[s]
       IN  /\ scene.date[1] \in Nat /\ scene.date[2] \in 1 .. 12
           /\ scene.date[3] \in 1 .. DaysOf(scene.date[1], scene.date[2])
           /\ scene.observed \in BOOLEAN
           /\ scene.clear \in Seq(Nat)
           /\ scene.clear = <<>> => ~scene.observed

\* What the call refuses otherwise (py.rs:266-276).
ASSUME RequestsAssumption ==
  \A r \in Requests :
    /\ r.years \in Seq(Nat) \ {<<>>} /\ r.months \in Seq(1 .. 12) \ {<<>>}
    /\ Len(r.bands) \in Nat /\ DOMAIN r.bands = 1 .. Len(r.bands)

ASSUME GridAssumption == Rows \in Nat \ {0} /\ Columns \in Nat \ {0}

\* chunks_to_window clips them to the grid.
ASSUME BoxesAssumption ==
  \A box \in Boxes : /\ box.row0 \in Nat /\ box.h \in Nat \ {0} /\ box.row0 + box.h <= Rows
                     /\ box.col0 \in Nat /\ box.w \in Nat \ {0} /\ box.col0 + box.w <= Columns

ASSUME NothingAssumption == Nothing \notin Nat \X Nat

\* The months a search is for: those of a build of one range, or the period's.
\* A stored search is keyed by them.
MonthsOf(period) == IF period = Nothing THEN ToSet(request.years) \X ToSet(request.months) ELSE {period}

MonthOf(scene) == <<Catalogue[scene].date[1], Catalogue[scene].date[2]>>

\* The range of a period ends on the last day of its month; that of a build of
\* one range is of whole months too.
InRange(scene, period) ==
  /\ MonthOf(scene) \in MonthsOf(period)
  /\ period # Nothing => Catalogue[scene].date[3] <= LastDay(period[1], period[2])

Valid(period) == period # Nothing => LastDay(period[1], period[2]) <= DaysOf(period[1], period[2])

\* Variant: any year's month.
MonthOnly(scene, period) == Catalogue[scene].date[2] = period[2]
OfPeriod(scene, period) == MonthOf(scene) = period

\* day_aod_passes
Passes(scene) ==
  LET date == Catalogue[scene].date
  IN  request.gated => IF date \in DOMAIN Aod THEN Aod[date] <= AodMax ELSE ~request.unknown

-----------------------------------------------------------------------------
(* Listing *)

Fresh == /\ found = [p \in ToSet(Periods) |-> Nothing]
         /\ phase = "searching"

BuildInit == /\ request \in Requests
             /\ build = 1
             /\ epoch = 1 /\ token = Nothing
             /\ disk = [search |-> <<>>, scout |-> <<>>]
             /\ Fresh
             /\ items = <<>> /\ signed = <<>> /\ scouting = {} /\ stats = <<>>
             /\ turn = 1 /\ picks = <<>> /\ pending = {} /\ data = <<>>
             /\ results = <<>> /\ errs = <<>>

\* search_raw: the scenes of the range, page after page.  A scene that moves to
\* a later page while the pages are read is listed twice.
Replies(period) ==
  LET listed == SortedSet({s \in DOMAIN Catalogue : InRange(s, period)})
  IN  {listed} \union (IF listed = <<>> THEN {} ELSE {<<Head(listed)>> \o listed})

FromDisk(p) == /\ request.cached /\ MonthsOf(p) \in DOMAIN disk.search
               /\ found' = [found EXCEPT ![p] = disk.search[MonthsOf(p)]]
               /\ UNCHANGED <<phase, disk>>

\* A search that is not stored fails the build.
FromServer(p) ==
  /\ ~request.cached \/ MonthsOf(p) \notin DOMAIN disk.search
  /\ \/ \E reply \in Replies(p) :
          /\ Valid(p)
          /\ found' = [found EXCEPT ![p] = reply]
          /\ disk' = IF request.cached THEN [disk EXCEPT !.search = With(@, MonthsOf(p), reply)] ELSE disk
          /\ UNCHANGED phase
     \/ /\ phase' = "failed"
        /\ UNCHANGED <<found, disk>>

\* The searches run at once; the first error ends them all.
Search(p) == /\ phase = "searching" /\ found[p] = Nothing
             /\ FromDisk(p) \/ FromServer(p)
             /\ UNCHANGED <<request, build, epoch, token, items, signed, scouted, composing>>

\* Where the answers of the searches have an item, period by period, and the
\* places at which it is the first of its kind.
Places == UNION {{k} \X DOMAIN found[Periods[k]] : k \in DOMAIN Periods}
ItemAt(place) == found[Periods[place[1]]][place[2]]
Prior(a, b) == a[1] < b[1] \/ (a[1] = b[1] /\ a[2] < b[2])
FirstPlaces == {a \in Places : \A b \in Places : ItemAt(b) = ItemAt(a) => ~Prior(b, a)}

Earlier(s, t) == LET d == Catalogue[s].date
                     e == Catalogue[t].date
                     Day(date) == date[1] * 400 + date[2] * 32 + date[3]
                 IN  Day(d) < Day(e) \/ (Day(d) = Day(e) /\ s < t)

\* items_from_raw sorts by date and item.  run_build keeps what the search gave;
\* run_build_periods drops repetitions.
Gather == /\ phase = "searching"
          /\ \A p \in DOMAIN found : found[p] # Nothing
          /\ LET order == Ordered(IF request.mode = "one" THEN Places ELSE FirstPlaces,
                                  LAMBDA a, b : \/ Earlier(ItemAt(a), ItemAt(b))
                                                \/ ItemAt(a) = ItemAt(b) /\ Prior(a, b))
             IN  items' = [n \in DOMAIN order |-> ItemAt(order[n])]
          /\ phase' = "signing"
          /\ UNCHANGED <<request, build, shared, found, signed, scouted, composing>>

\* sign_item, one scene after the other: the token of the container is fetched
\* once per process; a scene whose token does not come keeps its bare hrefs.
Sign == /\ phase = "signing" /\ Len(signed) < Len(items)
        /\ \/ /\ Sas => token # Nothing
              /\ signed' = Append(signed, IF Sas THEN token ELSE epoch)
              /\ UNCHANGED token
           \/ /\ Sas /\ token = Nothing
              /\ \/ token' = epoch /\ signed' = Append(signed, epoch)
                 \/ UNCHANGED token /\ signed' = Append(signed, Nothing)
        /\ UNCHANGED <<request, build, epoch, disk, phase, found, items, scouted, composing>>

\* The store answers a request for a scene only to a token that is in force.
Readable(i) == signed[i] = epoch

-----------------------------------------------------------------------------
(* Scouting *)

\* scout_scene: whether something was observed, and the clear part of each
\* chunk; a scene off the grid has no chunks.
ScoutOf(s) == [usable |-> Catalogue[s].observed, finite |-> Catalogue[s].observed,
               clear |-> Catalogue[s].clear]

ToCache(st) == [c \in DOMAIN st.clear |-> [chunk |-> c, clear |-> st.clear[c], finite |-> st.finite]]

\* Variant: the last chunk is left out.
LessLast(cached) == {c.chunk : c \in ToSet(cached)} \ {Len(cached)}
ChunksOf(cached) == {c.chunk : c \in ToSet(cached)}

FromCache(cached) ==
  [usable |-> \E c \in ChunksOf(cached) : cached[c].clear > 0,
   finite |-> \E c \in ChunksOf(cached) : cached[c].finite,
   clear |-> [c \in DOMAIN cached |-> IF c \in ChunksOf(cached) THEN cached[c].clear ELSE 0]]

\* A mean that is not a number is written as null, which is not read back.
Loads(s) == /\ request.cached /\ s \in DOMAIN disk.scout
            /\ \A c \in ToSet(disk.scout[s]) : c.finite

StartScouts ==
  LET hits == {s \in ToSet(items) : Loads(s)}
  IN  /\ phase = "signing" /\ Len(signed) = Len(items)
      /\ phase' = "scouting"
      /\ stats' = [s \in hits |-> FromCache(disk.scout[s])]
      /\ scouting' = {i \in DOMAIN items : /\ items[i] \notin hits
                                           /\ Catalogue[items[i]].collection \in DOMAIN Assets}
      /\ UNCHANGED <<request, build, shared, listing, composing>>

\* A scout that fails leaves its scene without stats.  Failing to store one is
\* ignored.
ScoutEnds(i) ==
  /\ phase = "scouting" /\ i \in scouting
  /\ scouting' = scouting \ {i}
  /\ \/ /\ Readable(i)
        /\ stats' = With(stats, items[i], ScoutOf(items[i]))
        /\ disk' \in {disk} \union
             (IF request.cached
              THEN {[disk EXCEPT !.scout = With(@, items[i], ToCache(ScoutOf(items[i])))]} ELSE {})
     \/ UNCHANGED <<stats, disk>>
  /\ UNCHANGED <<request, build, epoch, token, phase, listing, composing>>

\* The bands asked for are looked at when everything is scouted.
AllScouted == /\ phase = "scouting" /\ scouting = {}
              /\ phase' = IF ToSet(request.bands) \subseteq Supported THEN "composing" ELSE "failed"
              /\ UNCHANGED <<request, build, shared, listing, scouted, composing>>

-----------------------------------------------------------------------------
(* Composing, one period after the other *)

PeriodItems == {i \in DOMAIN items : \/ request.mode = "one"
                                     \/ OfPeriod(items[i], Periods[turn]) /\ Passes(items[i])}

\* What the fixed selection and the adaptive one may take.
Eligible == {i \in PeriodItems : /\ items[i] \in DOMAIN stats
                                 /\ stats[items[i]].finite
                                 /\ request.adaptive \/ stats[items[i]].usable}

Windows == IF request.adaptive /\ request.windowed
           THEN Boxes ELSE {[row0 |-> 0, col0 |-> 0, h |-> Rows, w |-> Columns]}

Quality == 0

\* The reads of a pick: its quality and the bands its collection has.
Reads(k, i) == {<<k, Quality>>} \union
  {<<k, b>> : b \in {b \in DOMAIN request.bands : request.bands[b] \in Assets[Catalogue[items[i]].collection]}}

ComposingTurn == phase = "composing" /\ turn <= Len(Periods)

\* A footprint that does not reproject fails its period, and the build if it is
\* the only one.
PeriodFails ==
  /\ ComposingTurn
  /\ \E i \in PeriodItems : ~Catalogue[items[i]].projects
  /\ IF request.mode = "one"
     THEN phase' = "failed" /\ UNCHANGED <<turn, errs>>
     ELSE turn' = turn + 1 /\ errs' = Append(errs, Periods[turn]) /\ UNCHANGED phase
  /\ UNCHANGED <<request, build, shared, listing, scouted, picks, pending, data, results>>

\* Any selection of what is eligible; each scene is read over its own window.
Select ==
  /\ ComposingTurn
  /\ \A i \in PeriodItems : Catalogue[items[i]].projects
  /\ \E chosen \in SUBSET Eligible :
       /\ Cardinality(chosen) <= MaxPicks
       /\ \E window \in [chosen -> Windows] :
            LET order == SortedSet(chosen)
            IN  /\ picks' = [k \in DOMAIN order |-> [item |-> order[k], window |-> window[order[k]]]]
                /\ pending' = UNION {Reads(k, order[k]) : k \in DOMAIN order}
  /\ data' = <<>>
  /\ phase' = "fetching"
  /\ UNCHANGED <<request, build, shared, listing, scouted, turn, results, errs>>

\* fetch_band, fetch_quality: the pixels of the window, row after row.
WindowPixels(k, band) ==
  LET win == picks[k].window
  IN  [n \in 1 .. win.h * win.w |->
         <<items[picks[k].item], band, win.row0 + ((n - 1) \div win.w), win.col0 + ((n - 1) % win.w)>>]

BandRead(k, b) == WindowPixels(k, request.bands[b])

QualityRead(k) == WindowPixels(k, Quality)

Read(k, b) == IF b = Quality THEN QualityRead(k) ELSE BandRead(k, b)

\* A read that fails, or finds no file or no overlap, leaves a gap.
FetchEnds(k, b) ==
  /\ phase = "fetching" /\ <<k, b>> \in pending
  /\ pending' = pending \ {<<k, b>>}
  /\ \/ Readable(picks[k].item) /\ data' = With(data, <<k, b>>, Read(k, b))
     \/ UNCHANGED data
  /\ UNCHANGED <<request, build, shared, phase, listing, scouted, turn, picks, results, errs>>

\* The row and the column of the n-th pixel of the grid.
RowOf(n) == (n - 1) \div Columns
ColumnOf(n) == (n - 1) % Columns

Within(n, win) == /\ RowOf(n) \in win.row0 .. win.row0 + win.h - 1
                  /\ ColumnOf(n) \in win.col0 .. win.col0 + win.w - 1

\* scatter: the rows of the window in a full grid of fill.
\* Variant: put one after the other from where the first one goes.
RowsJoined(sub, win, fill) ==
  LET first == win.row0 * Columns + win.col0
  IN  [n \in 1 .. Rows * Columns |-> IF n - first \in DOMAIN sub THEN sub[n - first] ELSE fill]
Scattered(sub, win, fill) ==
  [n \in 1 .. Rows * Columns |->
     IF Within(n, win) THEN sub[(RowOf(n) - win.row0) * win.w + (ColumnOf(n) - win.col0) + 1] ELSE fill]

Pad == <<Nothing, Nothing, Nothing, Nothing>>

Whole(k) == \A b \in {Quality} \union DOMAIN request.bands : <<k, b>> \in DOMAIN data

Observation(k) ==
  LET w == picks[k].window
      Slot(b) == IF <<k, b>> \in DOMAIN data THEN Scattered(data[<<k, b>>], w, Pad)
                 ELSE [n \in 1 .. Rows * Columns |-> Pad]
  IN  [scene |-> items[picks[k].item], window |-> w, quality |-> Slot(Quality),
       bands |-> [b \in DOMAIN request.bands |-> Slot(b)]]

Compose ==
  LET whole == SortedSet({k \in DOMAIN picks : Whole(k)})
  IN  /\ phase = "fetching" /\ pending = {}
      /\ results' = Append(results, [period |-> Periods[turn],
                                     observations |-> [n \in DOMAIN whole |-> Observation(whole[n])]])
      /\ turn' = turn + 1
      /\ phase' = "composing"
      /\ picks' = <<>> /\ data' = <<>>
      /\ UNCHANGED <<request, build, shared, listing, scouted, pending, errs>>

\* The periods that failed are dropped, unless all did.
Return == /\ phase = "composing" /\ turn > Len(Periods)
          /\ phase' = IF results = <<>> /\ errs # <<>> THEN "failed" ELSE "done"
          /\ UNCHANGED <<request, build, shared, listing, scouted, composing>>

\* The next build of the process, perhaps after the tokens have expired.
NextBuild == /\ phase \in {"done", "failed"} /\ build < Builds
             /\ build' = build + 1
             /\ request' \in Requests
             /\ epoch' \in {epoch, epoch + 1}
             /\ phase' = "searching"
             /\ found' = [p \in ToSet(Periods') |-> Nothing]
             /\ items' = <<>> /\ signed' = <<>> /\ scouting' = {} /\ stats' = <<>>
             /\ turn' = 1 /\ picks' = <<>> /\ pending' = {} /\ data' = <<>>
             /\ results' = <<>> /\ errs' = <<>>
             /\ UNCHANGED <<token, disk>>

Step == \/ \E p \in DOMAIN found : Search(p)
        \/ Gather \/ Sign \/ StartScouts \/ AllScouted
        \/ \E i \in scouting : ScoutEnds(i)
        \/ Select \/ PeriodFails
        \/ \E task \in pending : FetchEnds(task[1], task[2])
        \/ Compose \/ Return

BuildNext == Step \/ NextBuild

BuildSpec == BuildInit /\ [][BuildNext]_buildVars

-----------------------------------------------------------------------------
ScenesIn(period) == {s \in DOMAIN Catalogue : MonthOf(s) \in MonthsOf(period)}

\* A build that is not refused has listed every scene of the catalogue in each
\* month asked for, the month's last day included, and once if it is of periods:
\* the ranges of the searches neither miss a day nor name one the calendar does
\* not have, whatever the pages repeat (last_day_of_month, py.rs:942-996).
EveryDayListed ==
  /\ \A p \in DOMAIN found : Valid(p)
  /\ phase \notin {"searching", "failed"} =>
       /\ \A p \in DOMAIN found : ScenesIn(p) \subseteq ToSet(items)
       /\ request.mode # "one" => IsInjective(items)

\* Whatever the order in which reads end and whichever fail, an observation
\* composed has every pixel of every band in its own row and column over the
\* whole of its window, and nothing beyond it (py.rs:389-398, 752-805, 1339-1392).
ObservationsWhole ==
  \A n \in DOMAIN results : \A m \in DOMAIN results[n].observations :
    LET o == results[n].observations[m]
        Expected(b) == [at \in 1 .. Rows * Columns |->
                          IF Within(at, o.window) THEN <<o.scene, b, RowOf(at), ColumnOf(at)>> ELSE Pad]
    IN  /\ o.quality = Expected(Quality)
        /\ \A b \in DOMAIN request.bands : o.bands[b] = Expected(request.bands[b])

\* A build that returns has a result or an error for every period asked for, one
\* and in order, and the results are made of scenes of their own period that pass
\* the aerosol gate and reproject; run_build_periods takes none of them twice.
PeriodsAccounted ==
  LET done == [n \in DOMAIN results |-> results[n].period]
      at(p) == CHOOSE k \in DOMAIN Periods : Periods[k] = p
  IN  /\ \A n \in 1 .. Len(done) - 1 : at(done[n]) < at(done[n + 1])
      /\ ToSet(done) \cap ToSet(errs) = {}
      /\ phase = "done" => ToSet(done) \union ToSet(errs) = ToSet(Periods) /\ done # <<>>
      /\ \A n \in DOMAIN results :
           LET seen == [m \in DOMAIN results[n].observations |-> results[n].observations[m].scene]
           IN  /\ ToSet(seen) \subseteq {s \in ScenesIn(done[n]) : /\ request.mode # "one" => Passes(s)
                                                               /\ Catalogue[s].projects}
               /\ request.mode # "one" => IsInjective(seen)

\* What a warm build knows of a scene is what a cold one does: "Inverse of
\* [`scenestats_to_cache`]" (pipeline.rs:71).  An observed scene without clear
\* ground is usable when scouted and not when read back.
WarmAsCold == \A s \in DOMAIN stats : stats[s] = ScoutOf(s)

\* The clear ground of every chunk and whether anything was observed, which is
\* what the adaptive selection goes by, are the same warm as cold; a scene that a
\* fixed selection takes of a warm build it may take of a cold one (pipeline.rs:
\* 71-112, 414, 460).
WarmTakesNoMore ==
  \A s \in DOMAIN stats :
    LET cold == ScoutOf(s)
    IN  /\ stats[s].clear = cold.clear /\ stats[s].finite = cold.finite
        /\ stats[s].usable => cold.usable
=============================================================================
