CONSTANTS
  Absent = Absent
  Torn = Torn
  Callers = {"p", "q"}
  AssetSets = {{"b1"}, {"b1", "u1"}}
  WriteWorkers = 2
  MayFail = TRUE
  MayCrash = TRUE
  MaxBuilds = 2
SPECIFICATION Spec
INVARIANTS
  ServedFromOneSave
  SavedIsWhole
  ListedAssetsWhole
PROPERTIES
  TornItemIsMiss
  CallsEnd
CONSTRAINT FirstBuild
