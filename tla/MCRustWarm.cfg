CONSTANTS
  Catalogue <- MCCatalogue
  Assets <- MCAssets
  Supported = {"red", "nir"}
  Requests <- MCRequests
  Aod <- MCAod
  AodMax = 2
  Sas = TRUE
  Rows = 2
  Columns = 2
  Boxes <- MCBoxes
  Nothing = Nothing
  MaxPicks = 2
  Builds = 2
SPECIFICATION BuildSpec
INVARIANT WarmAsCold
CHECK_DEADLOCK FALSE
