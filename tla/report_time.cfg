SPECIFICATION Spec
CONSTANTS
  MonthLength = 3
  Days = 2
  Documents <- AllDocuments
INVARIANTS
  ReportTimeIsUtc
CHECK_DEADLOCK FALSE
