SPECIFICATION Spec
CONSTANTS
  MonthLength = 3
  Days = 2
  Documents <- AllDocuments
INVARIANTS
  FirstMostImportantIsShown
  YesterdayIsDatedRight
  WindIsNearest
  FirstLikelyWeatherIsShown
  ColumnsAreDays
  SummaryMakesDay
  ForecastsArePoints
CHECK_DEADLOCK FALSE
