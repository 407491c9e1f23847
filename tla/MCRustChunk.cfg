CONSTANTS
  None = None
  MinExclusive = 1
  PreferFull = TRUE
  Areas <- SmallAreas
  Catalogues <- SmallCatalogues
  Policies <- SmallPolicies
  Kinds <- MCKinds
  Codes <- MCCodes
  Reflectances <- MCReflectances
  Samples <- MCSamples
  Spreads <- MCSpreads
  MaxObservations = 3
  QualityWeight = 100
  Scale = 12
  Outside = Outside
  Absent = Absent
  NaN = NaN
SPECIFICATION MCSpec
INVARIANTS
  WindowsCover
  BestPixel
  SamePixel
  SpreadIsVariance
  ClearIsComposed
PROPERTIES
  DepthIsEnough
  SliversLast
