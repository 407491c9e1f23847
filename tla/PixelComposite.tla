--------------------------- MODULE PixelComposite ---------------------------
(***************************************************************************)
(* One pixel of the composite, in both implementations.  The observations  *)
(* of the pixel are taken one after the other, as the loops of             *)
(* PriorCompositor.compose and compose_best_pixel take them: each is a     *)
(* quality code of the product's own kind and a reflectance per band.      *)
(* Reflectance is counted in DN, 1/10000; Outside is a pixel no raster     *)
(* covers, and a source's zero is its off-swath fill.                      *)
(***************************************************************************)
EXTENDS Integers, Sequences, FiniteSets, SequencesExt

CONSTANTS Kinds,          \* the quality products composed in a run
          Codes,          \* Codes[k]: the codes of kind k an observation may carry
          Reflectances,   \* functions from Bands to DN or Outside
          Samples,        \* sample indices an observation may carry, or Absent
          Spreads,        \* its own relative uncertainties in percent, or Absent
          MaxObservations,
          QualityWeight,  \* QualityRules.quality_weight
          Scale,          \* a multiple of every number of observations
          Outside, Absent, NaN

Bands == {1, 2}

ASSUME MaxAssumption == MaxObservations \in Nat
ASSUME CodesAssumption ==
  /\ Kinds \subseteq {"scl", "cs", "fmask", "modis"}
  /\ \A k \in Kinds : Codes[k] \subseteq Int
ASSUME NaNAssumption == Absent \notin Int /\ \A dn \in Reflectances, b \in Bands : dn[b] # NaN
ASSUME ReflectancesAssumption == Reflectances \subseteq [Bands -> Int \cup {Outside}]
\* Scale is of the model alone: means in its units are whole.
ASSUME ScaleAssumption ==
  Scale \in Nat \ {0} /\ \A n \in 1 .. MaxObservations : Scale % n = 0
\* A sample index is at most 32767 and quality_weight 1000000: a difference in
\* quality outweighs those in sample and order.
ASSUME WeightAssumption ==
  /\ QualityWeight \in Nat /\ Samples \subseteq Nat \cup {Absent}
  /\ \A s \in Samples \cup {0} : s # Absent => s + MaxObservations <= QualityWeight
Nodata == 65535
MaxUsable == 32767

Pixels == [code : UNION {Codes[k] : k \in Kinds}, dn : Reflectances,
           sample : Samples, spread : Spreads]

VARIABLES kind, seen, python, rust

pixelVars == <<kind, seen, python, rust>>

-----------------------------------------------------------------------------
(* Quality codes. *)

SclQuality(code) == CASE code \in {4, 5, 6, 11} -> 0
                      [] code = 7 -> 1
                      [] code \in {2, 3} -> 2
                      [] OTHER -> Nodata

\* A cloud score in ten thousandths: 10000 is clear.
FullScore == 10000
ScoreQuality(score) == IF score \in 0 .. FullScore THEN FullScore - score ELSE Nodata

PythonQuality(k, code) == IF k = "cs" THEN ScoreQuality(code) ELSE SclQuality(code)

Flag(code, bit) == (code \div bit) % 2 = 1
Aerosol(code) == (code \div 64) % 4

\* Variant: snow masked like cloud.
SnowMasked(code) ==
  IF code = 255 \/ Flag(code, 2) \/ Flag(code, 16) THEN Nodata
  ELSE IF Flag(code, 1) \/ Flag(code, 8) THEN 2
  ELSE IF Flag(code, 4) \/ Aerosol(code) >= 2 THEN 1 ELSE 0

FmaskScore(code) ==
  IF code = 255 \/ Flag(code, 2) THEN Nodata
  ELSE IF Flag(code, 1) \/ Flag(code, 8) THEN 2
  ELSE IF Flag(code, 4) \/ Aerosol(code) >= 2 \/ Flag(code, 16) THEN 1 ELSE 0

MandatoryScore(code) == IF code \in {0, 1} THEN code ELSE Nodata

Score(k, code) == CASE k = "scl" -> SclQuality(code)
                    [] k = "fmask" -> FmaskScore(code)
                    [] k = "modis" -> MandatoryScore(code)

IsClear(k, code) ==
  CASE k = "scl" -> code \in {4, 5, 6, 11}
    [] k = "fmask" -> code # 255 /\ code % 16 = 0 /\ Aerosol(code) <= 1
    [] k = "modis" -> code = 0

IsNodata(k, code) == IF k = "scl" THEN code = 0 ELSE code = 255

NodataFill(k) == IF k = "scl" THEN 0 ELSE 255

-----------------------------------------------------------------------------
(* PriorCompositor.compose *)

Empty == [score |-> Absent, quality |-> Nodata, sample |-> -1, selected |-> -1,
          data |-> [b \in Bands |-> NaN], spread |-> NaN, count |-> 0]

ZeroAsNodata(dn) == [b \in Bands |-> IF dn[b] \in {0, Outside} THEN NaN ELSE dn[b]]

ValidPixel(dn, quality) ==
  quality <= MaxUsable /\ \A b \in Bands : ZeroAsNodata(dn)[b] # NaN

\* Variant: quality, sample and order weigh the same.
Unweighted(o, order) ==
  PythonQuality(kind, o.code) + (IF o.sample = Absent THEN 0 ELSE o.sample) + order

ScorePixel(o, order) ==
  PythonQuality(kind, o.code) * QualityWeight
    + (IF o.sample = Absent THEN 0 ELSE o.sample) + order

Replaces(o, order) == python.score = Absent \/ ScorePixel(o, order) < python.score

PythonStep(o) ==
  IF ~ValidPixel(o.dn, PythonQuality(kind, o.code)) THEN python
  ELSE IF ~Replaces(o, Len(seen)) THEN [python EXCEPT !.count = @ + 1]
  ELSE [score |-> ScorePixel(o, Len(seen)),
        quality |-> PythonQuality(kind, o.code),
        sample |-> IF o.sample = Absent THEN python.sample ELSE o.sample,
        selected |-> Len(seen),
        data |-> ZeroAsNodata(o.dn),
        spread |-> IF o.spread = Absent THEN python.spread ELSE o.spread,
        count |-> python.count + 1]

-----------------------------------------------------------------------------
(* compose_best_pixel *)

\* The running moments are kept exact: mean is Scale times the mean and m2 its
\* square times the sum of squared deviations, which are whole.
NoBest == [quality |-> Nodata, selected |-> -1, count |-> 0,
           data |-> [b \in Bands |-> Nodata],
           moments |-> [b \in Bands |-> [n |-> 0, mean |-> 0, m2 |-> 0]]]

Dn(o) == [b \in Bands |-> IF o.dn[b] = Outside THEN Nodata ELSE o.dn[b]]

\* Variant: the deviation from the old mean twice.
OldMeanTwice(m, x) ==
  LET delta == Scale * x - m.mean
  IN  [n |-> m.n + 1, mean |-> m.mean + delta \div (m.n + 1), m2 |-> m.m2 + delta * delta]

Welford(m, x) ==
  LET delta == Scale * x - m.mean
      mean == m.mean + delta \div (m.n + 1)
  IN  [n |-> m.n + 1, mean |-> mean, m2 |-> m.m2 + delta * (Scale * x - mean)]

Accumulated(moments, dn) ==
  [b \in Bands |-> IF dn[b] = Nodata THEN moments[b] ELSE Welford(moments[b], dn[b])]

\* Variant: of equal observations the last wins.
AsGood(quality) == quality <= rust.quality

Better(quality) == quality < rust.quality

RustStep(o) ==
  LET quality == Score(kind, o.code)
      counted == [rust EXCEPT !.count = @ + 1,
                              !.moments = Accumulated(@, Dn(o))]
  IN  IF quality = Nodata THEN rust
      ELSE IF ~Better(quality) THEN counted
      ELSE [counted EXCEPT !.quality = quality, !.selected = Len(seen), !.data = Dn(o)]

-----------------------------------------------------------------------------
PixelInit == /\ kind \in Kinds
             /\ seen = <<>>
             /\ python = Empty
             /\ rust = NoBest

\* The next observation of the pixel.  Python composes SCL and cloud score
\* products, Rust SCL, Fmask and the MODIS mandatory quality.
Observe(o) ==
  /\ Len(seen) < MaxObservations
  /\ o.code \in Codes[kind]
  /\ kind = "cs" => o.sample = Absent
  /\ kind \in {"fmask", "modis"} => o.sample = Absent /\ o.spread = Absent
  /\ seen' = Append(seen, o)
  /\ python' = IF kind \in {"scl", "cs"} THEN PythonStep(o) ELSE python
  /\ rust' = IF kind # "cs" THEN RustStep(o) ELSE rust
  /\ UNCHANGED kind

PixelNext == \E o \in Pixels : Observe(o)

PixelSpec == PixelInit /\ [][PixelNext]_pixelVars

-----------------------------------------------------------------------------
Seen == 1 .. Len(seen)
PythonValid == {i \in Seen : ValidPixel(seen[i].dn, PythonQuality(kind, seen[i].code))}
RustValid == {i \in Seen : Score(kind, seen[i].code) # Nodata}

\* The winner of PriorCompositor.compose has the least quality number of all
\* valid observations, whatever their samples and order add to the score, and
\* of observations equal in quality without samples the first wins.
PythonBest ==
  kind \in {"scl", "cs"} =>
    /\ python.count = Cardinality(PythonValid)
    /\ PythonValid = {} => python.selected = -1
    /\ \A i \in PythonValid :
         /\ python.selected + 1 \in PythonValid
         /\ python.quality = PythonQuality(kind, seen[python.selected + 1].code)
         /\ python.data = ZeroAsNodata(seen[python.selected + 1].dn)
         /\ python.quality <= PythonQuality(kind, seen[i].code)
         /\ \/ i >= python.selected + 1
            \/ python.quality < PythonQuality(kind, seen[i].code)
            \/ seen[i].sample # Absent

\* The winner of compose_best_pixel is the first observation of the least
\* score.
RustBest ==
  kind # "cs" =>
    /\ rust.count = Cardinality(RustValid)
    /\ RustValid = {} => rust.selected = -1 /\ rust.quality = Nodata
    /\ \A i \in RustValid :
         /\ rust.selected + 1 \in RustValid
         /\ rust.quality = Score(kind, seen[rust.selected + 1].code)
         /\ rust.data = Dn(seen[rust.selected + 1])
         /\ rust.quality <= Score(kind, seen[i].code)
         /\ i >= rust.selected + 1 \/ rust.quality < Score(kind, seen[i].code)

\* Both loops keep the best observation of the pixel seen so far and count the
\* valid ones (composite.py:62-91, pipeline.rs:1051-1084).
BestPixel == PythonBest /\ RustBest

\* The two implementations compose the same pixel from the same scenes where
\* every band has data and no source gives a sample index.
SamePixel ==
  kind = "scl" /\ (\A i \in Seen : seen[i].sample = Absent
                                   /\ \A b \in Bands : seen[i].dn[b] \notin {0, Outside})
    => /\ rust.selected = python.selected
       /\ rust.quality = python.quality
       /\ rust.count = python.count
       /\ python.selected # -1 => rust.data = python.data

\* The sum of the first n values of f.
SumTo(f, n) ==
  LET sum[i \in 0 .. n] == IF i = 0 THEN 0 ELSE sum[i - 1] + f[i]
  IN  sum[n]

\* The temporal spread kept in one pass is the variance of all the valid values
\* of the band, computed in two (pipeline.rs:1058-1073).
BandValues(b) == {i \in RustValid : Dn(seen[i])[b] # Nodata}

SpreadIsVariance ==
  kind # "cs" => \A b \in Bands :
    LET m == rust.moments[b]
        values == BandValues(b)
        n == Cardinality(values)
        value == [i \in Seen |-> IF i \in values THEN seen[i].dn[b] ELSE 0]
        total == SumTo(value, Len(seen))
        squares == SumTo([i \in Seen |-> value[i] * value[i]], Len(seen))
    IN  /\ m.n = n
        /\ n * m.mean = Scale * total
        /\ n * m.m2 = Scale * Scale * (n * squares - total * total)

\* A pixel the scout counts clear is composed: is_clear, is_nodata and score
\* agree on every code, so that a scene selected for its clear pixels gives
\* them values, and nodata, with which the pixels outside a fetched window are
\* filled, never wins (endpoint.rs:69-152).
ClearIsComposed ==
  kind # "cs" =>
    /\ (\E i \in Seen : IsClear(kind, seen[i].code)) => rust.selected # -1 /\ rust.quality <= 1
    /\ (\A i \in Seen : IsNodata(kind, seen[i].code) \/ seen[i].code = NodataFill(kind))
         => rust.selected = -1

=============================================================================
