-------------------------- MODULE MCChunkPipeline --------------------------
(* Instances of ChunkPipeline for TLC: three chunks over three scenes, two *)
(* scenes shared by neighbouring chunks, as tile-aware selection produces. *)
EXTENDS ChunkPipeline, TLC

CONSTANTS s1, s2, s3

ThreeChunks == 1 :> <<s2, s1>> @@ 2 :> <<s2, s3>> @@ 3 :> <<s3>>
ThreeScenes == <<s2, s1, s3>>
=============================================================================
