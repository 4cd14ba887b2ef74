\* Reading the values of one weather variable into the hourly forecasts.
SPECIFICATION Spec
CONSTANTS
  Hour <- MCHour
  Document <- MCDocument
INVARIANTS
  IInv
  ValueIsOfItsHour
  NoHourIsLost
\* The reading ends.
CHECK_DEADLOCK FALSE
