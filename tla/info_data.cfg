SPECIFICATION Spec
CONSTANTS
  Place <- Places
  Zone <- Zones
  Sun <- Suns
  Report <- Reports
  Forecast <- Forecasts
  Day = 8
  Soon = 1
  MaxTime = 16
INVARIANTS
  TypeOK
  TextsSayTheValues
  ClearedIsSilent
  ConditionsAreCurrent
  DaytimeIsRight
  NextSunEventIsNext
