--------------------------- MODULE MCStacSource ---------------------------
(* StacSource for TLC: three items, of which the first has no tile, and    *)
(* two areas that share the last.                                          *)
EXTENDS StacSource, TLC

CONSTANTS p1, p2, north, south

TwoAreas  == north :> {1, 2, 3} @@ south :> {3}
AllOrOne  == {{p1, p2}, {p1}}
SameLimit == p1 :> 2 @@ p2 :> 2
OtherLimits == p1 :> 2 @@ p2 :> 3
=============================================================================
