CONSTANTS
  Locs = {"x", "y", "z", "a"}
  Policy = "wf"
  Ipr = FALSE
  Programs <- IMMPrograms
  RaceDetection = TRUE
  DepTracking = TRUE
  CopiesHoldState = TRUE
  DynLocs = {}
  LinSpec = FALSE
  CalculateViews <- calculateViews
  CalculatePrefixView <- calculatePrefixView
  HbView <- getHbView
  IsConsistent <- isConsistent
  GetCoherentStores <- getCoherentStores
  GetCoherentPlacings <- getCoherentPlacings
  FilterCoherentRevisits <- filterCoherentRevisits
  CheckErrors <- checkErrors
  CheckWarnings <- checkWarnings
  IsCoherentRelinche <- isCoherentRelinche
  IsGraphConsistent <- isGraphConsistent
SPECIFICATION Spec
INVARIANTS SoundAndComplete NoDuplicates ConsistentSoFar RMWsAreAtomic
