CONSTANTS
  Locs = {"x", "y"}
  Policy = "wf"
  Ipr = TRUE
  Programs <- SomeThreads
  RaceDetection = TRUE
  DepTracking = FALSE
  CopiesHoldState = TRUE
  DynLocs = {}
  LinSpec = FALSE
  CalculateViews <- calculateViews
  CalculatePrefixView <- calculatePrefixView
  HbView <- getHbView
  IsConsistent <- isConsistent
  GetCoherentStores <- getCoherentStores
  GetCoherentPlacings <- getCoherentPlacings
  FilterCoherentRevisits <- filterCoherentRevisits
  CheckErrors <- checkErrors
  CheckWarnings <- checkWarnings
  IsCoherentRelinche <- isCoherentRelinche
  IsGraphConsistent <- isGraphConsistent
SPECIFICATION Spec
INVARIANTS SoundAndComplete NoDuplicates WellFormed StackSuffices NoInternalError RMWsAreAtomic ConsistentSoFar NoDanglingReads
PROPERTIES SettledEventsStay
