------------------------------- MODULE NwsWeather -------------------------------
(***************************************************************************)
(* The values of a grid document of the NWS (weather-nws.c): which member  *)
(* of a weather array becomes the conditions of a forecast, and how cloud  *)
(* cover and wind direction are read.  NwsIntervals has the hours that the *)
(* values belong to.                                                       *)
(***************************************************************************)
EXTENDS Integers, MetarReport

(* A member of a weather array: the values of parse_nws_weather, by name;  *)
(* coverage and intensity, which may be "null"; its attributes; and which  *)
(* of these the object lacks.                                              *)
NwsWeatherOf == [
  drizzle          |-> {"drizzle", "freezing_drizzle"},
  rain             |-> {"rain", "freezing_rain", "rain_showers"},
  snow             |-> {"snow", "blowing_snow", "snow_showers"},
  ice_pellets      |-> {"sleet"},
  hail             |-> {"hail"},
  fog              |-> {"fog", "freezing_fog", "ice_fog"},
  sand             |-> {"blowing_sand"},
  dust             |-> {"blowing_dust"},
  spray            |-> {"freezing_spray"},
  smoke            |-> {"smoke"},
  haze             |-> {"haze"},
  ice_crystals     |-> {"ice_crystals"},
  volcanic_ash     |-> {"volcanic_ash"}]

NwsShows(weather) == {p \in DOMAIN NwsWeatherOf : weather \in NwsWeatherOf[p]}

(* Anything else is NULL, frost, water spouts or not recognized.           *)
NwsPhenomenon(e) ==
  IF e.weather = "hail" /\ "small_hail" \in e.attributes THEN "small_hail"
  ELSE IF NwsShows(e.weather) # {} THEN CHOOSE p \in NwsShows(e.weather) : TRUE
  ELSE IF "tornadoes" \in e.attributes THEN "tornado"
  ELSE "none"

NwsIsSignificant(e) == NwsPhenomenon(e) # "none" \/ e.weather = "thunderstorms"

NwsQualifier(e, intensity) ==
  CASE e.weather \in {"freezing_drizzle", "freezing_rain", "freezing_fog", "ice_fog",
                      "freezing_spray"} -> "freezing"
    [] e.weather \in {"rain_showers", "snow_showers"} -> "showers"
    [] e.weather \in {"blowing_snow", "blowing_sand", "blowing_dust"} -> "blowing"
    [] e.weather = "thunderstorms" -> "thunderstorm"
    [] e.weather = "fog" /\ e.coverage = "areas" -> "partial"
    [] e.weather = "fog" /\ e.coverage = "patchy" -> "patches"
    [] e.weather \in {"drizzle", "rain", "snow", "sleet"} -> intensity
    [] OTHER -> "none"

NwsUnlikely == {"slight_chance", "chance", "isolated", "scattered"}

NwsIntensity(e, before) ==
  CASE e.intensity \in {"very_light", "light"} -> "light"
    [] e.intensity \in {"moderate", "heavy"} -> e.intensity
    [] OTHER -> before

(* The loop of read_weather: what it found, the intensity it carries from  *)
(* one member to the next, and how it stands.  A member without weather or *)
(* coverage, or a likely one without intensity or attributes, makes it     *)
(* return with nothing stored.  Fog whose coverage is NULL is compared     *)
(* with strcmp, and the process stops.                                     *)
NwsStart == [cond |-> NoConditions, intensity |-> "none", status |-> "reading", info |-> NoConditions]

NwsFails(e) ==
  \/ e.lacks \in {"weather", "coverage"}
  \/ e.coverage \notin NwsUnlikely /\ e.lacks \in {"intensity", "attributes"}

\* Fault: what is unlikely is not passed over.
NwsPassesOverNothing(e) == FALSE
NwsPassesOver(e) == e.coverage \in NwsUnlikely

NwsReadWeather(s, e) ==
  LET intensity == NwsIntensity(e, s.intensity)
      cond == Conditions(NwsIsSignificant(e), NwsPhenomenon(e), NwsQualifier(e, intensity))
  IN IF NwsFails(e) THEN [s EXCEPT !.status = "returned"]
     ELSE IF NwsPassesOver(e) THEN s
     ELSE IF e.weather = "fog" /\ e.coverage = "null" THEN [s EXCEPT !.status = "crashed"]
     ELSE IF NwsIsSignificant(e)
     THEN [s EXCEPT !.cond = cond, !.intensity = intensity, !.status = "found"]
     ELSE [s EXCEPT !.intensity = intensity]

NwsEnd(s) ==
  IF s.status \in {"reading", "found"} THEN [s EXCEPT !.info = s.cond, !.status = "stored"] ELSE s

(* read_sky, of tenths of a percent.                                       *)
NwsSky(cover) == CASE cover < 125 -> "clear"
                   [] cover < 375 -> "broken"
                   [] cover < 625 -> "scattered"
                   [] cover < 875 -> "few"
                   [] OTHER       -> "overcast"

(* read_winddir, of quarters of a degree below 360.                        *)
NwsWind(quarters) == IF quarters >= 1395 THEN 0 ELSE (quarters + 45) \div 90
=============================================================================
