CONSTANTS
  p1 = p1
  p2 = p2
  north = north
  south = south
  None = None
  Items = {1, 2, 3}
  Tiled = {2, 3}
  Processes = {p1, p2}
  Grids = {north, south}
  Covers <- TwoAreas
  MaxScenes <- SameLimit
  Archived = {2, 3}
  Filters = {{1, 2, 3}}
  Caching <- AllOrOne
  MayFail = FALSE
  Users = {p1, p2}
  Data = {"v1", "v2"}
  Miss = "miss"
  Garbage = {"unparsable", "other_schema"}
  Failing = {"mkdir", "mkstemp", "write", "replace"}
  MaxStores = 3
  MaxDamages = 2
SPECIFICATION MCSpec
INVARIANTS
  StatsAreOfScenes
  PartitionIsOfScenes
  SameIndices
PROPERTY ImplementsEntry
