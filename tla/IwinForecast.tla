----------------------------- MODULE IwinForecast -----------------------------
(***************************************************************************)
(* parseForecastXml of weather-iwin.c: seven days of forecasts are made    *)
(* from the columns of an XML document.  A time-layout says which days the *)
(* columns are; every temperature or weather element is one row of it.     *)
(*                                                                         *)
(* The children of the data element are read one after the other, and then *)
(* those of its first parameters element.                                  *)
(***************************************************************************)
EXTENDS Integers, Sequences, MetarReport

CONSTANT Days   \* 7 in the code
ASSUME DaysAssumption == Days \in Nat \ {0}

Nil == -2000       \* <value xsi:nil="true"/>, or no summary
Unset == -1000     \* what _gweather_info_new_clone leaves in temp_min and temp_max

(* ph_list and sky_list: the first name that a summary contains wins.  Of  *)
(* the names that share no word with another some are left out.            *)
PhList == <<[name |-> "Blowing Snow", shows |-> "funnel cloud"],
            [name |-> "Blowing Sand", shows |-> "sandstorm"],
            [name |-> "Rain", shows |-> "rain"],
            [name |-> "Snow", shows |-> "snow"],
            [name |-> "Fog", shows |-> "fog"],
            [name |-> "Sand", shows |-> "sand"]>>
SkyList == <<[name |-> "Mostly Cloudy", shows |-> "few"],
             [name |-> "Sunny", shows |-> "clear"],
             [name |-> "Cloudy", shows |-> "overcast"],
             [name |-> "Rain", shows |-> "scattered"],
             [name |-> "Snow", shows |-> "scattered"]>>

(* A summary is the set of the names it contains.                          *)
FirstContained(list, summary, default) ==
  LET found == {k \in DOMAIN list : list[k].name \in summary}
  IN IF found = {} THEN default
     ELSE list[CHOOSE k \in found : \A j \in found : k <= j].shows

-----------------------------------------------------------------------------
(* Reading *)

NewDay(time) == [update |-> time, min |-> Unset, max |-> Unset, minMaxValid |-> FALSE,
                 valid |-> FALSE, phenomenon |-> "none", sky |-> "invalid"]

IwinStart == [status |-> "data", times |-> <<>>, days |-> <<>>]

(* Only a layout of exactly Days columns is used, and only the first one.  *)
IwinTimeLayout(s, e) ==
  IF s.times = <<>> /\ e.daily /\ Len(e.times) = Days THEN [s EXCEPT !.times = e.times] ELSE s

(* parameters before the layout end the reading, with no forecasts.        *)
IwinParameters(s) ==
  IF s.times = <<>> THEN [s EXCEPT !.status = "done"]
  ELSE [s EXCEPT !.status = "parameters", !.days = [d \in 1..Days |-> NewDay(s.times[d])]]

(* A nil value takes the other bound.                                      *)
DayTemperature(day, isMax, value) ==
  LET max == IF ~isMax THEN day.max ELSE IF value = Nil THEN day.min ELSE value
      min == IF isMax THEN day.min ELSE IF value = Nil THEN day.max ELSE value
      both == day.minMaxValid \/ (max > -999 /\ min > -999)
  IN [day EXCEPT !.max = max, !.min = min, !.minMaxValid = both, !.valid = both]

(* A temperature that is neither a maximum nor a minimum ends the reading  *)
(* of the parameters.                                                      *)
IwinTemperature(s, e) ==
  IF ~e.mine THEN s
  ELSE IF e.type \notin {"maximum", "minimum"} THEN [s EXCEPT !.status = "skipping"]
  ELSE [s EXCEPT !.days = [d \in 1..Days |->
         IF d <= Len(e.values) THEN DayTemperature(@[d], e.type = "maximum", e.values[d]) ELSE @[d]]]

\* Fault: a day becomes valid only by a summary that the lists know.
DayWeatherKnown(day, summary) ==
  IF FirstContained(PhList, summary, "none") = "none" THEN day
  ELSE [day EXCEPT !.valid = TRUE, !.phenomenon = FirstContained(PhList, summary, @),
                   !.sky = FirstContained(SkyList, summary, @)]

DayWeather(day, summary) ==
  [day EXCEPT !.valid = TRUE, !.phenomenon = FirstContained(PhList, summary, @),
              !.sky = FirstContained(SkyList, summary, @)]

\* Fault: a column without a summary does not advance to the next day.
IwinWeatherShifts(s, e) ==
  IF ~e.mine THEN s
  ELSE LET said == SelectSeq(e.summaries, LAMBDA x : x # {"missing"})
       IN [s EXCEPT !.days = [d \in 1..Days |->
            IF d <= Len(said) THEN DayWeather(@[d], said[d]) ELSE @[d]]]

IwinWeather(s, e) ==
  IF ~e.mine THEN s
  ELSE [s EXCEPT !.days = [d \in 1..Days |->
         IF d <= Len(e.summaries) /\ e.summaries[d] # {"missing"}
         THEN DayWeather(@[d], e.summaries[d]) ELSE @[d]]]

(* Invalid days become NULL members of the list; without a valid day there *)
(* is no list.  (A day with both bounds has their mean as its temperature.) *)
Null == NewDay(-1)
IwinEnd(s) ==
  LET any == \E d \in DOMAIN s.days : s.days[d].valid
  IN [s EXCEPT !.status = "done",
        !.days = IF any THEN [d \in DOMAIN @ |-> IF @[d].valid THEN @[d] ELSE Null] ELSE <<>>]

IwinRead(s, e) ==
  CASE s.status = "data" /\ e.element = "time-layout"       -> IwinTimeLayout(s, e)
    [] s.status = "data" /\ e.element = "parameters"        -> IwinParameters(s)
    [] s.status = "parameters" /\ e.element = "temperature" -> IwinTemperature(s, e)
    [] s.status = "parameters" /\ e.element = "weather"     -> IwinWeather(s, e)
    [] OTHER                                                -> s
=============================================================================
