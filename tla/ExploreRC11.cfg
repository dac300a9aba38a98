CONSTANTS
  Locs = {"x", "y", "p", "h"}
  Policy = "wf"
  Ipr = FALSE
  Programs <- RC11Programs
  RaceDetection = TRUE
  DepTracking = FALSE
  CopiesHoldState = TRUE
  DynLocs = {"p"}
  LinSpec = FALSE
  CalculateViews <- calculateViews
  CalculatePrefixView <- calculatePrefixView
  HbView <- getHbView
  IsConsistent <- isConsistent
  GetCoherentStores <- getCoherentStores
  GetCoherentPlacings <- getCoherentPlacings
  FilterCoherentRevisits <- filterCoherentRevisits
  CheckErrors <- checkErrors
  CheckWarnings <- checkWarnings
  IsCoherentRelinche <- isCoherentRelinche
  IsGraphConsistent <- isGraphConsistent
SPECIFICATION Spec
INVARIANTS DriverInv SoundAndComplete ConsistentSoFar NoDuplicates HintsExact ErrorsFound
