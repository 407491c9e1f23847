----------------------------- MODULE MCRustBuild -----------------------------
(* Two months around a leap day and two of the next year: a scene on the   *)
(* leap day, a cloudy one, one that lacks a band, one off the grid, one of  *)
(* an unknown collection whose footprint does not reproject, and one that   *)
(* only the build of a range of two months lists.                           *)
EXTENDS RustBuild, TLC

Scene(y, m, d, collection, projects, observed, clear) ==
  [date |-> <<y, m, d>>, collection |-> collection, projects |-> projects,
   observed |-> observed, clear |-> clear]

MCCatalogue == <<Scene(2000, 2, 29, "l30", TRUE, TRUE, <<0, 2>>),
                 Scene(2000, 2, 3, "l30", TRUE, TRUE, <<0, 0>>),
                 Scene(2000, 2, 3, "s30", TRUE, TRUE, <<1, 1>>),
                 Scene(2001, 2, 1, "l30", TRUE, FALSE, <<>>),
                 Scene(2000, 3, 31, "other", FALSE, TRUE, <<1, 0>>),
                 Scene(2001, 3, 5, "l30", TRUE, TRUE, <<1, 0>>)>>

MCAssets == [l30 |-> {"red", "nir"}, s30 |-> {"nir"}]

Ask(mode, years, months, bands, cached, adaptive, gated) ==
  [mode |-> mode, years |-> years, months |-> months, bands |-> bands, cached |-> cached,
   adaptive |-> adaptive, windowed |-> adaptive, gated |-> gated, unknown |-> FALSE]

MCRequests == {Ask("periods", <<2000, 2000>>, <<3, 2>>, <<"red">>, TRUE, FALSE, FALSE),
               Ask("periods", <<2001, 2000>>, <<2>>, <<"nir">>, TRUE, TRUE, TRUE),
               Ask("one", <<2001>>, <<2, 3>>, <<"red", "nir">>, FALSE, FALSE, FALSE)}

\* A column and a row.
MCBoxes == {[row0 |-> 0, col0 |-> 1, h |-> 2, w |-> 1], [row0 |-> 1, col0 |-> 0, h |-> 1, w |-> 2]}

MCAod == (<<2000, 2, 3>> :> 5) @@ (<<2000, 2, 29>> :> 1)
=============================================================================
