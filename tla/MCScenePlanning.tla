--------------------------- MODULE MCScenePlanning ---------------------------
(* Instances of ScenePlanning for TLC: areas of every small shape for the  *)
(* layout, of which one has three scenes in one chunk and one has two      *)
(* chunks.                                                                 *)
EXTENDS ScenePlanning

Strip == [height |-> 1, width |-> 3, size |-> 3, block |-> 0]
Pair  == [height |-> 1, width |-> 2, size |-> 1, block |-> 0]
Empty == [height : 0..4, width : 0..4, size : 1..3, block : 0..3]

SmallAreas == Empty \cup {Strip, Pair}

Px(columns) == {<<0, c>> : c \in columns}
Elsewhere == {<<7, 7>>}     \* outside the area
StripScenes == {[tile |-> None, geometry |-> <<Px({0})>>],
                [tile |-> 1, geometry |-> <<>>],
                [tile |-> 1, geometry |-> <<Px({0, 1})>>],
                [tile |-> 2, geometry |-> <<Px({1}), Px({2})>>],
                [tile |-> 3, geometry |-> <<Px({0, 2})>>],
                [tile |-> 3, geometry |-> <<Elsewhere>>]}
PairScenes == {[tile |-> 1, geometry |-> <<Px({0, 1})>>],
               [tile |-> 2, geometry |-> <<Px({1})>>]}

SmallCatalogues == [a \in SmallAreas |-> IF a = Strip THEN [1..3 -> StripScenes]
                                         ELSE IF a = Pair THEN [1..2 -> PairScenes] ELSE {<<>>}]
Stat(u, k) == [usable |-> u, clear |-> k]
SmallScouts == [a \in SmallAreas |-> IF a = Strip THEN {Stat(0, NaN), Stat(1, 0), Stat(1, 1), Stat(2, 1)}
                                                  ELSE {Stat(0, NaN), Stat(1, 1), Stat(1, 2)}]
SmallPolicies == [topK : {1, 2}, floor : {0, 1}]
=============================================================================
