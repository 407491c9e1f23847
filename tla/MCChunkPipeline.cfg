CONSTANTS
  s1 = s1
  s2 = s2
  s3 = s3
  NoItem = NoItem
  Scenes = {s1, s2, s3}
  Selected <- ThreeChunks
  SceneOrder <- ThreeScenes
  FetchWorkers = 2
  ComposeWorkers = 2
  MayOmit = FALSE
SPECIFICATION Spec
INVARIANTS
  TypeOK
  KeysSettledBeforePop
  PaintedIsSequential
  ReturnedEqualsSequential
  SourceItemsComplete
  FailureSurfaces
PROPERTIES
  Terminates
  ImplementsBuild
