CONSTANTS
  s1 = s1
  s2 = s2
  Scenes = {s1, s2}
  Selected <- TwoByTwo
  ChunkOrder <- InOrder
  WorkerCounts = {1, 2}
SPECIFICATION Spec
INVARIANTS
  QuietWhenOver
PROPERTIES
  Terminates
  ImplementsBuild
