SPECIFICATION FairSpec
CONSTANTS
  vientiane = vientiane
  Networks = {n1, n2}
  Views <- MCViews
  Home <- Country
  CacheSize = 2
  None = None
  Provinces = {vientiane}
  ViewOf <- MCViewOf
  Configured = TRUE
  Firebase = FALSE
  Overlap = 2
  Pages = {"/", "/map", "/method", "/signin", "/pending"}
INVARIANTS SiteInv BoxesFit
PROPERTIES HitsCover NetworkHeals RestIsQuiet
