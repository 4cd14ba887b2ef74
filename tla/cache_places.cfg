CONSTANTS
  world = world
  country = country
  paris = paris
  orly = orly
  station = station
  utc = utc
  o1 = o1
  o2 = o2
  o3 = o3
  o4 = o4
  NoIndex = NoIndex
  NoObject = NoObject
  Index <- Places
  World = world
  Country = {country}
  City = {paris, orly}
  Station = {station}
  NamedTimezone = {utc}
  ParentOf <- Parents
  ChildrenOf <- AllChildren
  NearestOf <- Nearest
  NameOf <- Names
  CityNear <- NearParis
  Saved <- SavedBefore
  Object = {o1, o2, o3, o4}
  NoNearest = FALSE
  MaxHolds = 2
  MaxLookups = 1
SYMMETRY AnyOrder
SPECIFICATION Spec
INVARIANTS
  IInv
  OneObjectPerPlace
  CopyLeadsBack
  WorldCanBeReset
  EqualIsSamePlace
PROPERTIES
  HeldStays
  PlaceComesBack
CHECK_DEADLOCK FALSE
