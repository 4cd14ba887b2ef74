SPECIFICATION FairSpec
CONSTANTS
  paris = paris
  denver = denver
  NoLocation = NoLocation
  Location <- OneCity
  Located = {denver}
  Zoned = {}
  DefaultLocation = denver
  DefaultCoords = denver
  ProviderSets <- VisibleServices
  MaxFetches = 2
INVARIANTS
  IInv
  MetnoIsAttributed
  HeldForecastIsVisible
PROPERTIES
  ContractSpec
  ForecastIsKept
  EveryFetchEnds
CHECK_DEADLOCK FALSE
