SPECIFICATION Spec
CONSTANTS
  paris = paris
  denver = denver
  NoLocation = NoLocation
  Location <- TwoCities
  Located = {paris, denver}
  Zoned = {denver}
  DefaultLocation = NoLocation
  DefaultCoords = denver
  ProviderSets <- OwmOnly
  MaxFetches = 2
INVARIANTS
  TypeOK
  InFlightIsPending
  BusyHasSession
  ForecastSlotFree
PROPERTIES
  DisposedIsFrozen
  MetarIsOfThisStation
CHECK_DEADLOCK FALSE
