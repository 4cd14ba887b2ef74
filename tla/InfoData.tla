-------------------------------- MODULE InfoData --------------------------------
(***************************************************************************)
(* What one GWeatherInfo object shows (the getters of gweather-info.c):    *)
(* the values of the last update, in the units that are asked for; what is *)
(* computed from them; and the sun and the moon, computed when they are    *)
(* first asked for and kept until the next reset (weather-sun.c,           *)
(* weather-moon.c).  InfoUpdate has the messages behind an update; here it *)
(* waits for a report, for forecasts, or for both.                         *)
(***************************************************************************)
EXTENDS InfoValues

CONSTANTS
  Place,      \* the locations
  Zone,       \* hours that the sun of a place is ahead of the user's time
  Sun,        \* "rises", "midnight sun", "polar night", "no times" near the
              \* poles, or "unknown" without coordinates
  Report,     \* what a METAR report may say, and if and how long ago it was issued
  Forecast,   \* what a first forecast may say, with its hours from now
  Day,        \* hours of a day
  Soon,       \* 60 * 60 seconds
  MaxTime     \* bound of the clock

ASSUME TimeAssumption ==
  /\ Day \in Nat /\ Day > 3
  /\ Soon \in Nat
  /\ MaxTime \in Nat /\ MaxTime > Day
ASSUME PlaceAssumption == \A p \in Place :
  /\ Zone[p] \in (-Day)..Day
  /\ Sun[p] \in {"rises", "midnight sun", "polar night", "no times", "unknown"}

VARIABLES
  info,    \* the object
  now,     \* the clock
  update   \* the requests that are pending, and history since the last reset

vars == <<info, now, update>>

None == -1   \* no forecast, no time

-----------------------------------------------------------------------------
(* The sun *)

(* The first lines of calc_sun: the midnight at the observer's longitude   *)
(* before t, from the one of Greenwich.                                    *)
LocalMidnight(place, t) ==
  LET midnight == t - (t % Day) - Zone[place]
  IN IF t - midnight >= Day THEN midnight + Day
     ELSE IF midnight > t THEN midnight - Day ELSE midnight

Rise(midnight) == midnight + Day \div 4
Set(midnight) == midnight + (3 * Day) \div 4

\* Fault: the flags of the poles are only ever set.
CalcSunKeepsFlags(i) ==
  [i EXCEPT !.midnightSun = @ \/ Sun[i.place] = "midnight sun",
            !.polarNight = @ \/ Sun[i.place] = "polar night",
            !.sunAt = IF Sun[i.place] = "rises" THEN i.currentTime ELSE None,
            !.sunPlace = i.place]

(* calc_sun: sunAt is the time it was computed for; the two times are both *)
(* valid or both not.                                                      *)
CalcSun(i) ==
  [i EXCEPT !.midnightSun = Sun[i.place] = "midnight sun",
            !.polarNight = Sun[i.place] = "polar night",
            !.sunAt = IF Sun[i.place] = "rises" THEN i.currentTime ELSE None,
            !.sunPlace = i.place]

(* _gweather_info_ensure_sun.                                              *)
EnsureSun(i) ==
  IF Sun[i.place] # "unknown" /\ i.sunAt = None THEN CalcSun(i) ELSE i

Sunrise(i) == Rise(LocalMidnight(i.sunPlace, i.sunAt))
Sunset(i) == Set(LocalMidnight(i.sunPlace, i.sunAt))

(* gweather_info_is_daytime, after ensure_sun.                             *)
IsDaytime(i) ==
  /\ ~i.polarNight
  /\ i.midnightSun \/ i.sunAt = None
       \/ (i.currentTime >= Sunrise(i) /\ i.currentTime < Sunset(i))

UserMidnight == now - (now % Day) + Day

Earliest(times) == CHOOSE t \in times : \A s \in times : t <= s

\* Fault: an event that has passed counts.
NextSunEventPast(i) ==
  Earliest({UserMidnight} \cup (IF i.sunAt = None THEN {} ELSE {Sunrise(i), Sunset(i)}))

(* gweather_info_next_sun_event: the next midnight of the user's time, or  *)
(* one of the two times if it comes before.                                *)
NextSunEvent(i) ==
  Earliest({UserMidnight} \cup {t \in IF i.sunAt = None THEN {} ELSE {Sunrise(i), Sunset(i)} : t > now})

(* _gweather_info_ensure_moon.                                             *)
EnsureMoon(i) ==
  [i EXCEPT !.moonValid = @ \/ Sun[i.place] # "unknown"]

-----------------------------------------------------------------------------
(* The object *)

NoConditions == [significant |-> FALSE, phenomenon |-> "none", qualifier |-> "none"]

NoWeather == [temp |-> Unset, min |-> Unset, max |-> Unset, dew |-> Unset, humidity |-> Unset,
              wind |-> Unset, windspeed |-> Unset, pressure |-> Unset, visibility |-> Unset,
              sky |-> Unset, cond |-> NoConditions]

(* What a report and a forecast fill in; a first forecast is of less than  *)
(* a day ago.                                                              *)
Skies == {Unset, "clear", "broken", "scattered", "few", "overcast"}
ReportFields == DOMAIN NoWeather \ {"min", "max", "humidity"}
ForecastFields == DOMAIN NoWeather \cup {"update", "valid", "hasHumidity", "minMaxValid"}

ASSUME WeatherAssumption ==
  /\ \A r \in Report : /\ DOMAIN r.weather = ReportFields /\ r.weather.sky \in Skies
                       /\ r.dated \in BOOLEAN
                       /\ r.age \in Int /\ r.age <= Day
  /\ \A f \in Forecast : /\ DOMAIN f = ForecastFields /\ f.sky \in Skies
                         /\ f.update \in Int /\ f.update >= -Day

(* The fields of one record over those of another.                         *)
Over(new, old) ==
  [x \in DOMAIN new \cup DOMAIN old |-> IF x \in DOMAIN new THEN new[x] ELSE old[x]]

Construct(p) ==
  Over(NoWeather, [place |-> p, valid |-> FALSE, update |-> 0, currentTime |-> now,
                   hasHumidity |-> FALSE, minMaxValid |-> FALSE, forecast |-> <<>>,
                   midnightSun |-> FALSE, polarNight |-> FALSE,
                   sunAt |-> None, sunPlace |-> p, moonValid |-> FALSE])

\* Fault: the sun is kept.
ResetKeepsSun(i) ==
  Over(NoWeather, [i EXCEPT !.update = 0, !.currentTime = now, !.minMaxValid = FALSE,
                            !.forecast = <<>>, !.moonValid = FALSE])

\* Fault: the sky is kept.
ResetKeepsSky(i) ==
  Over([NoWeather EXCEPT !.sky = i.sky],
       [i EXCEPT !.update = 0, !.currentTime = now, !.minMaxValid = FALSE,
                 !.forecast = <<>>, !.sunAt = None, !.moonValid = FALSE])

(* gweather_info_reset: valid, hasHumidity, midnightSun and polarNight     *)
(* are not reset.                                                          *)
Reset(i) ==
  Over(NoWeather, [i EXCEPT !.update = 0, !.currentTime = now, !.minMaxValid = FALSE,
                            !.forecast = <<>>, !.sunAt = None, !.moonValid = FALSE])

(* copy_weather_data: all weather, but neither valid nor tempMinMaxValid.  *)
CopyWeatherData(f, i) ==
  Over([x \in DOMAIN NoWeather |-> f[x]],
       [i EXCEPT !.hasHumidity = f.hasHumidity, !.update = f.update, !.currentTime = f.update])

\* Fault: a report is overwritten by the first forecast.
FixupAlways(i) ==
  IF i.forecast = <<>> \/ i.forecast[1].update - now > Soon THEN i
  ELSE CopyWeatherData(i.forecast[1], i)

(* fixup_current_conditions.                                               *)
FixupCurrentConditions(i) ==
  IF i.update # 0 \/ i.forecast = <<>> \/ i.forecast[1].update - now > Soon THEN i
  ELSE CopyWeatherData(i.forecast[1], i)

-----------------------------------------------------------------------------
(* Actions *)

(* The history: the report that was read, with its time, or 0 without one; *)
(* if no answer has had any data yet; if the place was changed since.      *)
NoReport == [weather |-> NoWeather, update |-> 0]
NoUpdate == [metar |-> FALSE, forecasts |-> FALSE,
             report |-> NoReport, cleared |-> TRUE, moved |-> FALSE]

Pending(u) == u.metar \/ u.forecasts

Init ==
  /\ now = Day + 1
  /\ \E p \in Place : info = Construct(p)
  /\ update = NoUpdate

Cleared(u) == [u EXCEPT !.report = NoReport, !.cleared = TRUE, !.moved = FALSE]

(* gweather_info_set_location; the requests go on.                         *)
SetLocation ==
  /\ \E p \in Place : info' = Reset([info EXCEPT !.place = p])
  /\ update' = Cleared(update)
  /\ UNCHANGED now

(* The property "location" is set: the place changes, and nothing else.    *)
SetProperty ==
  /\ \E p \in Place \ {info.place} : info' = [info EXCEPT !.place = p]
  /\ update' = [update EXCEPT !.moved = TRUE]
  /\ UNCHANGED now

(* gweather_info_update, when no request is pending.  METAR may be enabled,*)
(* and one of the forecast services that accepts the place; metar_start_open*)
(* sets valid to FALSE even if it has no coordinates to ask for.           *)
Update ==
  /\ ~Pending(update)
  /\ \E metar, forecasts \in BOOLEAN :
       /\ info' = [Reset(info) EXCEPT !.valid = @ /\ ~metar]
       /\ update' = [Cleared(update) EXCEPT
                       !.metar = metar /\ Sun[info.place] # "unknown",
                       !.forecasts = forecasts /\ Sun[info.place] # "unknown"]
  /\ UNCHANGED now

(* _gweather_info_request_done: the last answer of an update ends it.      *)
RequestDone(i, u) ==
  /\ info' = IF Pending(u) THEN i ELSE FixupCurrentConditions(i)
  /\ update' = u
  /\ UNCHANGED now

(* metar_parse of a report without remarks: one that has no time word      *)
(* leaves info->update alone.                                              *)
MetarParse(i, r) ==
  Over(r.weather, [i EXCEPT !.update = IF r.dated THEN now - r.age ELSE @])

(* metar_finish, with a report or without.                                 *)
MetarArrives ==
  /\ update.metar
  /\ \E r \in Report :
       RequestDone([MetarParse(info, r) EXCEPT !.valid = TRUE],
                   [update EXCEPT !.metar = FALSE, !.cleared = FALSE,
                      !.report = [weather |-> Over(r.weather, NoWeather),
                                  update |-> IF r.dated THEN now - r.age ELSE 0]])

MetarFails ==
  /\ update.metar
  /\ RequestDone(info, [update EXCEPT !.metar = FALSE])

(* A forecast provider ends with a list; only IWIN, whose forecasts alone  *)
(* have extremes, does not set valid.                                      *)
ForecastsArrive ==
  /\ update.forecasts
  /\ \E f \in Forecast :
       RequestDone([info EXCEPT !.forecast = <<[f EXCEPT !.update = @ + now]>>,
                                !.valid = @ \/ ~f.minMaxValid],
                   [update EXCEPT !.forecasts = FALSE, !.cleared = FALSE])

ForecastsFail ==
  /\ update.forecasts
  /\ RequestDone(info, [update EXCEPT !.forecasts = FALSE])

(* gweather_info_abort; also called when other providers are enabled.      *)
Abort ==
  /\ Pending(update)
  /\ update' = [update EXCEPT !.metar = FALSE, !.forecasts = FALSE]
  /\ UNCHANGED <<info, now>>

(* A getter of the sunrise, the sunset, the icon, or of the moon.          *)
AskForSun == info' = EnsureSun(info) /\ UNCHANGED <<now, update>>
AskForMoon == info' = EnsureMoon(info) /\ UNCHANGED <<now, update>>

Tick == now < MaxTime /\ now' = now + 1 /\ UNCHANGED <<info, update>>

Next ==
  \/ SetLocation
  \/ SetProperty
  \/ Update
  \/ MetarArrives
  \/ MetarFails
  \/ ForecastsArrive
  \/ ForecastsFail
  \/ Abort
  \/ AskForSun
  \/ AskForMoon
  \/ Tick

Spec == Init /\ [][Next]_vars

-----------------------------------------------------------------------------
(* Properties *)

(* Type invariant.                                                         *)
TypeOK ==
  /\ now \in 1..MaxTime
  /\ info.place \in Place
  /\ ~(info.midnightSun /\ info.polarNight)
  /\ info.sunAt # None => ~info.midnightSun /\ ~info.polarNight
  /\ info.forecast = <<>> \/ Len(info.forecast) = 1

Metrics == BOOLEAN
Objects == {info} \cup {info.forecast[k] : k \in DOMAIN info.forecast}
Settings == {"default", "chosen"}

(* The text of a value says what its value getter returns in the default   *)
(* unit, and there is a text just when there is a value: two functions     *)
(* with their own tests for every value (the gweather_info_get_* and       *)
(* gweather_info_get_value_* functions; the dew point is left out),        *)
(* of the object and of its forecast.                                      *)
TextsSayTheValues ==
  \A i \in Objects, s \in Settings, m \in Metrics :
    /\ TextTemp(i, s, m) = ValueTemp(i, "default", s, m)
    /\ TextTempMin(i, s, m) = ValueTempMin(i, "default", s, m)
    /\ TextTempMax(i, s, m) = ValueTempMax(i, "default", s, m)
    /\ TextApparent(i, s, m) = ValueApparent(i, "default", s, m)
    /\ TextWind(i, s, m) = ValueWind(i, "default", s, m)
    /\ TextPressure(i, s, m) = ValuePressure(i, "default", s, m)
    /\ TextVisibility(i, s, m) = ValueVisibility(i, "default", s, m)
    /\ TextSky(i) = ValueSky(i)

Silent(i) ==
  /\ ValueTemp(i, "default", "default", TRUE) = NoValue
  /\ ValueTempMin(i, "default", "default", TRUE) = NoValue
  /\ ValueTempMax(i, "default", "default", TRUE) = NoValue
  /\ ValueApparent(i, "default", "default", TRUE) = NoValue
  /\ ValueWind(i, "default", "default", TRUE) = NoValue
  /\ ValuePressure(i, "default", "default", TRUE) = NoValue
  /\ ValueVisibility(i, "default", "default", TRUE) = NoValue
  /\ ValueSky(i) = NoValue
  /\ ValueConditions(i) = NoValue
  /\ i.forecast = <<>>

(* A location that was set, or an update that has had no answer yet, shows *)
(* nothing of what was there before, although valid may still be set and   *)
(* whatever the update before copied (gweather_info_reset).                *)
ClearedIsSilent == update.cleared => Silent(info) /\ Humidity(info) = Unset

(* set_location clears "any forecast or current conditions"                *)
(* (gweather-info.c:2141): the dew point is one of them.                   *)
ClearedHasNoDew ==
  update.cleared => ValueDew(info, "default", "default", TRUE) = NoValue

Shows(weather) == \A x \in DOMAIN NoWeather : info[x] = weather[x]

(* A report with a time is shown whole, and no forecast ever replaces any  *)
(* of it, in whichever order the two arrive and whatever fails or is       *)
(* aborted.  Without one the object shows what an undated report said, or  *)
(* nothing, under no time; or, once every request is done, the whole first *)
(* forecast under the time of that forecast, which is then at most an hour *)
(* ahead.  It never shows a mixture (metar_finish,                         *)
(* fixup_current_conditions).                                              *)
ConditionsAreCurrent ==
  LET report == update.report
      StandsIn(f) == Shows(f) /\ info.update = f.update /\ f.update <= now + Soon
  IN \/ info.update = report.update /\ Shows(report.weather)
     \/ /\ report.update = 0
        /\ ~Pending(update)
        /\ info.forecast # <<>> /\ StandsIn(info.forecast[1])

SunIsUp(place, t) ==
  \/ Sun[place] = "midnight sun"
  \/ /\ Sun[place] = "rises"
     /\ ((t + Zone[place]) % Day) \in (Day \div 4)..((3 * Day) \div 4 - 1)

PlaceDay(place, t) == (t + Zone[place]) \div Day
SameDay(place, s, t) == s = None \/ PlaceDay(place, s) = PlaceDay(place, t)

(* It is day just when the sun is up where the object is and at the time   *)
(* it refers to, in every zone and near the poles, and the icon is one of  *)
(* the night just when the sun is down: whenever the sun was computed, and *)
(* whatever the place and the flags were before.  The times that are kept  *)
(* must be of the day the object refers to; the fixup may change that day, *)
(* and the property may change the place (calc_sun, is_daytime).           *)
DaytimeIsRight ==
  LET i == EnsureSun(info)
      night == {"clear-night", "few-clouds-night"}
  IN ~update.moved /\ Sun[i.place] \in {"rises", "midnight sun", "polar night"}
       /\ SameDay(i.place, i.sunAt, i.currentTime)
     => /\ IsDaytime(i) <=> SunIsUp(i.place, i.currentTime)
        /\ IconName(i, IsDaytime(i)) \in night => ~SunIsUp(i.place, i.currentTime)

EventsAhead(place) ==
  {t \in now + 1..now + Day : t % Day = 0 \/ (SunIsUp(place, t) # SunIsUp(place, t - 1))}

(* The next sun event of a place in the user's zone is the next midnight,  *)
(* sunrise or sunset, as long as the kept times are of this day            *)
(* (gweather_info_next_sun_event).                                         *)
NextSunEventIsNext ==
  LET i == EnsureSun(info)
  IN ~update.moved /\ Zone[i.place] = 0 /\ Sun[i.place] # "unknown"
       /\ SameDay(i.place, i.sunAt, now)
     => NextSunEvent(i) = Earliest(EventsAhead(i.place))
=============================================================================
