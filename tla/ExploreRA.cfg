CONSTANTS
  Locs = {"x", "y"}
  Policy = "ltr"
  Ipr = FALSE
  Programs <- Litmus
  RaceDetection = TRUE
  DepTracking = FALSE
  CopiesHoldState = TRUE
  DynLocs = {}
  LinSpec = TRUE
  CalculateViews <- calculateViews
  CalculatePrefixView <- calculatePrefixView
  HbView <- getHbView
  IsConsistent <- isConsistent
  GetCoherentStores <- getCoherentStores
  GetCoherentPlacings <- getCoherentPlacings
  FilterCoherentRevisits <- filterCoherentRevisits
  CheckErrors <- checkErrors
  CheckWarnings <- checkWarnings
  IsCoherentRelinche <- isCoherentRelinche
  IsGraphConsistent <- isGraphConsistent
SPECIFICATION Spec
INVARIANTS SoundAndComplete HbViewsExact
