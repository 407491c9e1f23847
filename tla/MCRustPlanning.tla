--------------------------- MODULE MCRustPlanning ---------------------------
(* Instances of RustPlanning for TLC: one chunk of three cells with three  *)
(* scenes, and four chunks of one cell, cut at the edge, with two.         *)
EXTENDS RustPlanning

Strip == [height |-> 1, width |-> 3, size |-> 3]
Board == [height |-> 3, width |-> 3, size |-> 2]
SmallAreas == {Strip, Board}

Px(columns) == {<<0, c>> : c \in columns}
Shot(tile, shape, valid, clear) == [tile |-> tile, geometry |-> <<shape>>, valid |-> valid, clear |-> clear]
Part(tile, cols) == {Shot(tile, Px(cols), v, k) : v \in SUBSET Px(cols), k \in SUBSET Px(cols)}
Sound(S) == {s \in S : s.clear \subseteq s.valid}
StripScenes == Sound(Part(1, {0, 1}) \cup Part(2, {1, 2}))
                 \cup {Shot(1, Px(0..2), Px(0..2), k) : k \in {Px({0}), Px({1, 2})}}
                 \cup {Shot(None, Px({2}), Px({2}), Px({2})), Shot(2, Px({1, 2}), None, {})}
Cells == (0..2) \X (0..2)
Corners == {{<<0, 0>>}, {<<0, 2>>, <<1, 1>>}, {<<2, 0>>, <<2, 2>>}, {<<0, 1>>, <<2, 1>>}, Cells, {}}
BoardScenes == {Shot(t, g, g, g) : t \in {1, None}, g \in Corners}

SmallCatalogues == Strip :> [1..3 -> StripScenes] @@ Board :> [1..2 -> BoardScenes]
Adaptive(target, minK, maxK) == [adaptive |-> TRUE, target |-> target, minK |-> minK, maxK |-> maxK, topK |-> 0]
Fixed(k) == [adaptive |-> FALSE, target |-> 0, minK |-> 0, maxK |-> 0, topK |-> k]
SmallPolicies == {Adaptive(50, 0, 3), Adaptive(99, 2, 2), Adaptive(99, 1, 3), Fixed(1), Fixed(2)}

=============================================================================
