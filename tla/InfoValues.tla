------------------------------- MODULE InfoValues -------------------------------
(***************************************************************************)
(* The values a GWeatherInfo object shows (the getters of gweather-info.c) *)
(* as functions of its fields: what is computed from other values, the     *)
(* units, the value getters and the texts, and the icon.  A value is only  *)
(* what tells one branch from another: Unset, or a name.                   *)
(***************************************************************************)
EXTENDS Integers, Sequences

Unset == "unset"   \* below what a value can be: -1000, -1, SKY_INVALID

-----------------------------------------------------------------------------
(* Computed values *)

(* calc_humidity and calc_dew; calc_dew has no value for what is missing,  *)
(* and log10 of a negative number is not a number.                         *)
CalcHumidity(i) == IF i.temp # Unset /\ i.dew # Unset THEN "calculated" ELSE Unset
CalcDew(i) == IF i.temp # Unset /\ i.humidity # Unset THEN "calculated" ELSE "nan"

Humidity(i) == IF i.hasHumidity THEN i.humidity ELSE CalcHumidity(i)
Dew(i) == IF i.hasHumidity THEN CalcDew(i) ELSE i.dew

(* calc_apparent: wind chill below 50 degrees, heat index from 80 on.      *)
CalcApparent(i) ==
  CASE i.temp = Unset  -> Unset
    [] i.temp = "cold" -> IF i.windspeed = Unset THEN Unset ELSE "wind chill"
    [] i.temp = "mild" -> i.temp
    [] i.temp = "hot"  -> IF Humidity(i) = Unset THEN Unset ELSE "heat index"

-----------------------------------------------------------------------------
(* Units: the one in the settings, or the one of the locale *)

TemperatureUnit(unit, metric) ==
  IF unit # "default" THEN unit ELSE IF metric THEN "centigrade" ELSE "fahrenheit"
SpeedUnit(unit, metric) ==
  IF unit # "default" THEN unit ELSE IF metric THEN "km/h" ELSE "mph"
PressureUnit(unit, metric) ==
  IF unit # "default" THEN unit ELSE IF metric THEN "mmHg" ELSE "inHg"
DistanceUnit(unit, metric) ==
  IF unit # "default" THEN unit ELSE IF metric THEN "m" ELSE "miles"

(* A value getter returns FALSE, or a value in a unit.                     *)
NoValue == <<>>

\* Fault: a value that is not set is converted like any other.
TemperatureValueOfAny(temp, unit, settings, metric) ==
  <<temp, TemperatureUnit(IF unit = "default" THEN settings ELSE unit, metric)>>

TemperatureValue(temp, unit, settings, metric) ==
  IF temp = Unset THEN NoValue
  ELSE <<temp, TemperatureUnit(IF unit = "default" THEN settings ELSE unit, metric)>>
SpeedValue(speed, unit, settings, metric) ==
  IF speed = Unset THEN NoValue
  ELSE <<speed, SpeedUnit(IF unit = "default" THEN settings ELSE unit, metric)>>
PressureValue(pressure, unit, settings, metric) ==
  IF pressure = Unset THEN NoValue
  ELSE <<pressure, PressureUnit(IF unit = "default" THEN settings ELSE unit, metric)>>
DistanceValue(distance, unit, settings, metric) ==
  IF distance = Unset THEN NoValue
  ELSE <<distance, DistanceUnit(IF unit = "default" THEN settings ELSE unit, metric)>>

(* gweather_info_get_value_temp, _temp_min, _temp_max, _dew, _apparent,    *)
(* _wind, _pressure and _visibility.                                       *)
ValueTemp(i, u, s, m) == IF ~i.valid THEN NoValue ELSE TemperatureValue(i.temp, u, s, m)
ValueTempMin(i, u, s, m) ==
  IF ~i.valid \/ ~i.minMaxValid THEN NoValue ELSE TemperatureValue(i.min, u, s, m)
ValueTempMax(i, u, s, m) ==
  IF ~i.valid \/ ~i.minMaxValid THEN NoValue ELSE TemperatureValue(i.max, u, s, m)
ValueDew(i, u, s, m) == IF ~i.valid THEN NoValue ELSE TemperatureValue(Dew(i), u, s, m)
ValueApparent(i, u, s, m) ==
  IF ~i.valid THEN NoValue ELSE TemperatureValue(CalcApparent(i), u, s, m)
ValueWind(i, u, s, m) ==
  IF ~i.valid \/ i.windspeed = Unset \/ i.wind = Unset THEN NoValue
  ELSE SpeedValue(i.windspeed, u, s, m) \o <<i.wind>>
ValuePressure(i, u, s, m) == IF ~i.valid THEN NoValue ELSE PressureValue(i.pressure, u, s, m)
ValueVisibility(i, u, s, m) == IF ~i.valid THEN NoValue ELSE DistanceValue(i.visibility, u, s, m)
ValueSky(i) == IF ~i.valid \/ i.sky = Unset THEN NoValue ELSE <<i.sky>>
ValueConditions(i) == IF ~i.valid \/ ~i.cond.significant THEN NoValue ELSE <<i.cond>>
-----------------------------------------------------------------------------
(* Texts: gweather_info_get_temp and so on.  An object that is not valid   *)
(* shows a dash, and a value that is not set is Unknown: NoValue here.     *)

TemperatureString(temp, settings, metric) == <<temp, TemperatureUnit(settings, metric)>>

TextTemp(i, s, m) ==
  IF ~i.valid \/ i.temp = Unset THEN NoValue ELSE TemperatureString(i.temp, s, m)
TextTempMin(i, s, m) ==
  IF ~i.valid \/ ~i.minMaxValid \/ i.min = Unset THEN NoValue ELSE TemperatureString(i.min, s, m)
TextTempMax(i, s, m) ==
  IF ~i.valid \/ ~i.minMaxValid \/ i.max = Unset THEN NoValue ELSE TemperatureString(i.max, s, m)

(* The computed dew point decides whether there is one; what is formatted  *)
(* is the field, which MET Norway and OpenWeatherMap never set.            *)
TextDew(i, s, m) ==
  IF ~i.valid \/ Dew(i) = Unset THEN NoValue ELSE TemperatureString(i.dew, s, m)
TextApparent(i, s, m) ==
  IF ~i.valid \/ CalcApparent(i) = Unset THEN NoValue
  ELSE TemperatureString(CalcApparent(i), s, m)

(* (No wind is "Calm", without a direction.)                               *)
TextWind(i, s, m) ==
  IF ~i.valid \/ i.windspeed = Unset \/ i.wind = Unset THEN NoValue
  ELSE <<i.windspeed, SpeedUnit(s, m), i.wind>>
TextPressure(i, s, m) ==
  IF ~i.valid \/ i.pressure = Unset THEN NoValue ELSE <<i.pressure, PressureUnit(s, m)>>
TextVisibility(i, s, m) ==
  IF ~i.valid \/ i.visibility = Unset THEN NoValue ELSE <<i.visibility, DistanceUnit(s, m)>>
TextSky(i) == IF ~i.valid \/ i.sky = Unset THEN NoValue ELSE <<i.sky>>

-----------------------------------------------------------------------------
(* The icon *)

Showers == {"drizzle", "rain", "unknown precipitation", "hail", "small hail"}
Snowy == {"snow", "snow grains", "ice pellets", "ice crystals"}
Stormy == {"tornado", "squall"}

(* gweather_info_get_icon_name, where the phenomena not named are fog; the *)
(* symbolic icon is chosen by a second copy of the same switches.  Neither *)
(* looks at valid.                                                         *)
ConditionIcon(cond) ==
  IF cond.qualifier = "thunderstorm" THEN "storm"
  ELSE IF cond.phenomenon \in Showers THEN "showers"
  ELSE IF cond.phenomenon \in Snowy THEN "snow"
  ELSE IF cond.phenomenon \in Stormy THEN "storm"
  ELSE "fog"

SkyIcon(sky, daytime) ==
  CASE sky \in {Unset, "clear"} -> IF daytime THEN "clear" ELSE "clear-night"
    [] sky \in {"broken", "scattered", "few"} ->
         IF daytime THEN "few-clouds" ELSE "few-clouds-night"
    [] sky = "overcast" -> "overcast"

IconName(i, daytime) ==
  IF i.cond.significant /\ i.cond.phenomenon # "none" THEN ConditionIcon(i.cond)
  ELSE SkyIcon(i.sky, daytime)
=============================================================================
