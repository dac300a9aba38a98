CONSTANTS
  Locs = {"x", "y"}
  Policy = "arbitrary"
  Ipr = FALSE
  Programs <- Joined
  RaceDetection = TRUE
  DepTracking = FALSE
  CopiesHoldState = TRUE
  DynLocs = {}
  LinSpec = FALSE
  CalculateViews <- calculateViews
  CalculatePrefixView <- calculatePrefixView
  HbView <- getHbView
  IsConsistent <- isConsistent
  GetCoherentStores <- getCoherentStores
  GetCoherentPlacings <- getCoherentPlacings
  FilterCoherentRevisits <- filterCoherentRevisits
  CheckErrors <- checkErrors
  CheckWarnings <- checkWarnings
  IsCoherentRelinche <- isCoherentRelinche
  IsGraphConsistent <- isGraphConsistent
SPECIFICATION FairSpec
INVARIANTS SoundAndComplete SettledInv NoStuckJoin
PROPERTIES ExplorationTerminates
