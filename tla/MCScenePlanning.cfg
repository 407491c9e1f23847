CONSTANTS
  None = None
  MinExclusive = 1
  Areas <- SmallAreas
  Catalogues <- SmallCatalogues
  Scouts <- SmallScouts
  Policies <- SmallPolicies
SPECIFICATION Spec
INVARIANTS
  PixelsCoveredOnce
  PlanIsTopK
  SeamsFirst
  NoSeamLeft
CHECK_DEADLOCK FALSE
