SPECIFICATION Spec
CONSTANTS
  paris = paris
  denver = denver
  NoLocation = NoLocation
  Location <- TwoCities
  Located = {paris, denver}
  Zoned = {denver}
  DefaultLocation = NoLocation
  DefaultCoords = NoLocation
  ProviderSets <- EveryService
  MaxFetches = 1
INVARIANTS
  ClearedUntilUpdate
CHECK_DEADLOCK FALSE
