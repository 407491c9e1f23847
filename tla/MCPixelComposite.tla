------------------------- MODULE MCPixelComposite -------------------------
(* Every class of quality code, and pixels with a zero, with a band outside, *)
(* and with data; three observations of each pixel.                          *)
EXTENDS PixelComposite

MCKinds == {"scl", "cs", "fmask", "modis"}
MCCodes == [scl |-> {0, 3, 4, 7, 9}, cs |-> {-1, 0, 6000, 10000},
            fmask |-> {0, 1, 2, 4, 8, 16, 64, 128, 255}, modis |-> {0, 1, 2, 255}]
MCReflectances == {<<3, 5>>, <<7, 4>>, <<0, 5>>, <<9, Outside>>}
MCSamples == {Absent, 2}
MCSpreads == {Absent, 6}
=============================================================================
