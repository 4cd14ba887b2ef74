SPECIFICATION Spec
CONSTANTS
  MonthLength = 3
  Days = 2
  Documents <- AllDocuments
INVARIANTS
  ShownByNamedImportance
CHECK_DEADLOCK FALSE
