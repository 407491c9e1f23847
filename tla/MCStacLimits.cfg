CONSTANTS
  p1 = p1
  p2 = p2
  north = north
  south = south
  None = None
  Items = {1, 2, 3}
  Tiled = {2, 3}
  Processes = {p1, p2}
  Grids = {north, south}
  Covers <- TwoAreas
  MaxScenes <- OtherLimits
  Archived = {2, 3}
  Filters = {{1, 2, 3}}
  Caching = {{p1, p2}}
  MayFail = FALSE
SPECIFICATION Spec
INVARIANT PartitionIsOfOwnScenes
CHECK_DEADLOCK FALSE
