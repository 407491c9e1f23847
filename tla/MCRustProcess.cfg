CONSTANTS
  Catalogue <- MCCatalogue
  Assets <- MCAssets
  Supported = {"red", "nir"}
  Requests <- MCRequests
  Aod <- MCAod
  AodMax = 2
  Sas = TRUE
  Rows = 2
  Columns = 2
  Boxes <- MCBoxes
  Nothing = Nothing
  MaxPicks = 2
  Builds = 2
  Writers = {"w1", "w2"}
  Readers = {"r"}
  Data = {"v1", "v2"}
  Miss = "miss"
  Inodes = {n1, n2, n3, n4, n5}
  None = None
  MayFail = TRUE
SPECIFICATION MCSpec
INVARIANTS
  EveryDayListed
  ObservationsWhole
  PeriodsAccounted
  WarmTakesNoMore
  LastStoreIsFound
