SPECIFICATION Spec
CONSTANTS
  paris = paris
  denver = denver
  NoLocation = NoLocation
  Location <- OneCity
  Located = {denver}
  Zoned = {}
  DefaultLocation = NoLocation
  DefaultCoords = NoLocation
  ProviderSets <- OwmOnly
  MaxFetches = 1
PROPERTIES
  ForecastIsKept
CHECK_DEADLOCK FALSE
