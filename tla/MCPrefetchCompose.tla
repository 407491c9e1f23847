------------------------- MODULE MCPrefetchCompose -------------------------
(* Instances of PrefetchCompose for TLC.                                   *)
EXTENDS PrefetchCompose, TLC

CONSTANTS s1, s2

TwoByTwo == 1 :> <<s2, s1>> @@ 2 :> <<s1, s2>>
InOrder  == <<1, 2>>
=============================================================================
