------------------------------- MODULE MCInfoData -------------------------------
EXTENDS InfoData, TLC

\* A place in the user's zone, one half a day away, one with midnight sun and
\* one without coordinates.
Places == {"home", "antipode", "north", "nowhere"}
Zones == [p \in Places |-> IF p = "antipode" THEN 3 ELSE IF p = "north" THEN -1 ELSE 0]
Suns == [home |-> "rises", antipode |-> "rises", north |-> "midnight sun", nowhere |-> "unknown"]

\* The second report has lost its time word.
Reports ==
  {[dated |-> TRUE, age |-> 1,
    weather |-> [temp |-> "cold", dew |-> "known", windspeed |-> "known", wind |-> "N",
                 pressure |-> "known", visibility |-> "known", sky |-> "clear",
                 cond |-> NoConditions]],
   [dated |-> FALSE, age |-> 0,
    weather |-> [temp |-> "hot", dew |-> Unset, windspeed |-> Unset, wind |-> Unset,
                 pressure |-> Unset, visibility |-> "known", sky |-> Unset,
                 cond |-> [significant |-> TRUE, phenomenon |-> "rain", qualifier |-> "light"]]]}

\* MET Norway has humidity and no dew point, the NWS both, IWIN neither.
Hours(values) == values @@ NoWeather @@ [valid |-> TRUE, minMaxValid |-> FALSE]
Forecasts ==
  {Hours([hasHumidity |-> TRUE, humidity |-> "known", temp |-> "mild", update |-> 1]),
   Hours([hasHumidity |-> TRUE, humidity |-> "known", temp |-> "hot", dew |-> "known",
          sky |-> "overcast", update |-> 2]),
   Hours([hasHumidity |-> FALSE, min |-> "known", max |-> "known", minMaxValid |-> TRUE,
          temp |-> "mild", update |-> -3])}
=============================================================================
