----------------------------- MODULE InfoDataProofs -----------------------------
(***************************************************************************)
(* Proofs about InfoData, for all places, zones, lengths of a day, reports *)
(* and forecasts: what a cleared object shows, what the conditions are of, *)
(* and that the sun of the object is that of its place and time.           *)
(***************************************************************************)
EXTENDS InfoData, SequenceTheorems, TLAPS

-----------------------------------------------------------------------------
(* Values and texts *)

(* Text and value agree for any object, whatever is in it.                 *)
LEMMA TextIsValue ==
  ASSUME NEW i, NEW s, NEW m
  PROVE  /\ TextTemp(i, s, m) = ValueTemp(i, "default", s, m)
         /\ TextTempMin(i, s, m) = ValueTempMin(i, "default", s, m)
         /\ TextTempMax(i, s, m) = ValueTempMax(i, "default", s, m)
         /\ TextApparent(i, s, m) = ValueApparent(i, "default", s, m)
         /\ TextWind(i, s, m) = ValueWind(i, "default", s, m)
         /\ TextPressure(i, s, m) = ValuePressure(i, "default", s, m)
         /\ TextVisibility(i, s, m) = ValueVisibility(i, "default", s, m)
         /\ TextSky(i) = ValueSky(i)
<1>1. \A temp : TemperatureValue(temp, "default", s, m)
        = IF temp = Unset THEN NoValue ELSE TemperatureString(temp, s, m)
  BY DEF TemperatureValue, TemperatureString
<1>2. /\ TextTemp(i, s, m) = ValueTemp(i, "default", s, m)
      /\ TextTempMin(i, s, m) = ValueTempMin(i, "default", s, m)
      /\ TextTempMax(i, s, m) = ValueTempMax(i, "default", s, m)
  BY <1>1 DEF TextTemp, ValueTemp, TextTempMin, ValueTempMin, TextTempMax, ValueTempMax
<1>3. TextApparent(i, s, m) = ValueApparent(i, "default", s, m)
  BY <1>1 DEF TextApparent, ValueApparent
<1>4. TextWind(i, s, m) = ValueWind(i, "default", s, m)
  <2>1. ASSUME NEW speed, NEW unit, NEW wind
        PROVE  <<speed, unit>> \o <<wind>> = <<speed, unit, wind>>
    <3> DEFINE S == {speed, unit, wind}
    <3>1. <<speed, unit>> \in Seq(S) /\ <<wind>> \in Seq(S) /\ <<speed, unit, wind>> \in Seq(S)
      OBVIOUS
    <3>2. Len(<<speed, unit>> \o <<wind>>) = 3
      BY <3>1
    <3>3. \A k \in 1..3 : (<<speed, unit>> \o <<wind>>)[k] = <<speed, unit, wind>>[k]
      BY <3>1
    <3>4. <<speed, unit>> \o <<wind>> \in Seq(S)
      BY <3>1
    <3> QED BY <3>1, <3>2, <3>3, <3>4, SeqEqual
  <2> QED BY <2>1 DEF TextWind, ValueWind, SpeedValue
<1>5. TextPressure(i, s, m) = ValuePressure(i, "default", s, m)
  BY DEF TextPressure, ValuePressure, PressureValue
<1>6. TextVisibility(i, s, m) = ValueVisibility(i, "default", s, m)
  BY DEF TextVisibility, ValueVisibility, DistanceValue
<1>7. TextSky(i) = ValueSky(i)
  BY DEF TextSky, ValueSky
<1> QED BY <1>2, <1>3, <1>4, <1>5, <1>6, <1>7

(* The texts of an object and of its forecast say their values.            *)
THEOREM TextsAreValues == Spec => []TextsSayTheValues
<1>1. TextsSayTheValues
  BY TextIsValue DEF TextsSayTheValues
<1> QED BY <1>1, PTL

-----------------------------------------------------------------------------
(* Days *)

(* Division with remainder by Day has one result.                          *)
LEMMA DayIsUnique ==
  ASSUME NEW q \in Int, NEW r \in 0..Day - 1
  PROVE  (Day * q + r) % Day = r /\ (Day * q + r) \div Day = q
<1>1. Day \in Int /\ Day > 1
  BY TimeAssumption
<1>2. PICK a \in Int : a = Day * q + r
  BY <1>1
<1>3. PICK p \in Int, s \in 0..Day - 1 : a = Day * p + s /\ s = a % Day /\ p = a \div Day
  <2>1. a \div Day \in Int /\ a % Day \in 0..Day - 1
    BY <1>1
  <2>2. a = Day * (a \div Day) + (a % Day)
    BY <1>1
  <2> QED BY <2>1, <2>2
<1>4. Day * (p - q) = r - s
  <2>1. Day * (p - q) = Day * p - Day * q
    BY <1>1
  <2>2. PICK x \in Int, y \in Int : x = Day * p /\ y = Day * q
    BY <1>1
  <2>3. a = y + r /\ a = x + s
    BY <1>2, <1>3, <2>2
  <2>4. x - y = r - s
    BY <1>1, <2>2, <2>3
  <2> QED BY <2>1, <2>2, <2>4
<1>5. \A k \in Int : k >= 1 => Day * k >= Day
  BY <1>1
<1>6. \A k \in Int : k <= -1 => Day * k <= -Day
  BY <1>1
<1>7. p - q = 0
  <2>1. ~(p - q >= 1)
    BY <1>1, <1>3, <1>4, <1>5
  <2>2. ~(p - q <= -1)
    BY <1>1, <1>3, <1>4, <1>6
  <2> QED BY <2>1, <2>2
<1>8. r = s /\ p = q
  BY <1>1, <1>4, <1>7, <1>3
<1> QED BY <1>2, <1>3, <1>8

(* Every time has a day and an hour.                                       *)
LEMMA DayAndHour ==
  ASSUME NEW t \in Int
  PROVE  /\ t \div Day \in Int /\ t % Day \in 0..Day - 1
         /\ t = Day * (t \div Day) + (t % Day)
<1>1. Day \in Int /\ Day > 1
  BY TimeAssumption
<1> QED BY <1>1

(* Midday is after the sunrise and before the sunset of a day.             *)
LEMMA SunHours ==
  /\ Day \div 4 \in Int /\ (3 * Day) \div 4 \in Int
  /\ 0 < Day \div 4 /\ Day \div 4 < (3 * Day) \div 4 /\ (3 * Day) \div 4 < Day
<1>1. Day \in Int /\ Day > 3
  BY TimeAssumption
<1> QED BY <1>1

(* The midnight of calc_sun is the last one of the place at the time.      *)
LEMMA MidnightOfPlace ==
  ASSUME NEW place \in Place, NEW t \in Int
  PROVE  LocalMidnight(place, t) = Day * PlaceDay(place, t) - Zone[place]
<1>1. Day \in Int /\ Day > 1
  BY TimeAssumption
<1>2. PICK z \in Int : z = Zone[place] /\ z >= -Day /\ z <= Day
  <2>1. Zone[place] \in (-Day)..Day
    BY PlaceAssumption
  <2>2. Zone[place] \in Int /\ Zone[place] >= -Day /\ Zone[place] <= Day
    BY <1>1, <2>1
  <2> QED BY <2>2
<1>3. PICK q \in Int, r \in 0..Day - 1 : t = Day * q + r /\ r = t % Day
  BY DayAndHour
<1>4. PICK n \in Int : n = Day * q
  BY <1>1
<1>5. LocalMidnight(place, t)
        = IF r + z >= Day THEN n - z + Day ELSE IF r + z < 0 THEN n - z - Day ELSE n - z
  BY <1>1, <1>2, <1>3, <1>4 DEF LocalMidnight
<1>6. CASE r + z >= Day
  <2>1. t + z = Day * (q + 1) + (r + z - Day) /\ r + z - Day \in 0..Day - 1 /\ q + 1 \in Int
    BY <1>1, <1>2, <1>3, <1>6
  <2>2. PlaceDay(place, t) = q + 1
    BY <1>2, <2>1, DayIsUnique DEF PlaceDay
  <2> QED BY <1>1, <1>2, <1>4, <1>5, <1>6, <2>2
<1>7. CASE r + z < 0
  <2>1. t + z = Day * (q - 1) + (r + z + Day) /\ r + z + Day \in 0..Day - 1 /\ q - 1 \in Int
    BY <1>1, <1>2, <1>3, <1>7
  <2>2. PlaceDay(place, t) = q - 1
    BY <1>2, <2>1, DayIsUnique DEF PlaceDay
  <2> QED BY <1>1, <1>2, <1>4, <1>5, <1>7, <2>2
<1>8. CASE ~(r + z >= Day) /\ ~(r + z < 0)
  <2>1. t + z = Day * q + (r + z) /\ r + z \in 0..Day - 1
    BY <1>1, <1>2, <1>3, <1>8
  <2>2. PlaceDay(place, t) = q
    BY <1>2, <2>1, DayIsUnique DEF PlaceDay
  <2> QED BY <1>1, <1>2, <1>4, <1>5, <1>8, <2>2
<1> QED BY <1>6, <1>7, <1>8

-----------------------------------------------------------------------------
(* The fields of the object *)

InfoFields == DOMAIN NoWeather \cup
  {"place", "valid", "update", "currentTime", "hasHumidity", "minMaxValid", "forecast",
   "midnightSun", "polarNight", "sunAt", "sunPlace", "moonValid"}

(* The fields of one record over those of another.                         *)
LEMMA OverLemma ==
  ASSUME NEW new, NEW old
  PROVE  /\ DOMAIN Over(new, old) = DOMAIN new \cup DOMAIN old
         /\ \A x \in DOMAIN new : Over(new, old)[x] = new[x]
         /\ \A x \in DOMAIN old \ DOMAIN new : Over(new, old)[x] = old[x]
BY DEF Over

(* The fields of the weather.                                              *)
LEMMA WeatherNames ==
  DOMAIN NoWeather = {"temp", "min", "max", "dew", "humidity", "wind", "windspeed", "pressure",
                      "visibility", "sky", "cond"}
BY DEF NoWeather

(* Names of fields that the steps use.                                     *)
LEMMA InfoNames ==
  {"place", "valid", "update", "currentTime", "hasHumidity", "minMaxValid", "forecast",
   "midnightSun", "polarNight", "sunAt", "sunPlace", "moonValid"} \subseteq InfoFields
BY DEF InfoFields

(* What gweather_info_reset clears, and what it leaves alone.              *)
LEMMA ResetLemma ==
  ASSUME NEW i, DOMAIN i = InfoFields
  PROVE  /\ DOMAIN Reset(i) = InfoFields
         /\ \A x \in DOMAIN NoWeather : Reset(i)[x] = NoWeather[x]
         /\ Reset(i).place = i.place /\ Reset(i).sunPlace = i.sunPlace
         /\ Reset(i).midnightSun = i.midnightSun /\ Reset(i).polarNight = i.polarNight
         /\ Reset(i).update = 0 /\ Reset(i).currentTime = now
         /\ Reset(i).forecast = <<>> /\ Reset(i).sunAt = None
<1> DEFINE old == [i EXCEPT !.update = 0, !.currentTime = now, !.minMaxValid = FALSE,
                            !.forecast = <<>>, !.sunAt = None, !.moonValid = FALSE]
<1>1. /\ DOMAIN old = InfoFields
      /\ old["place"] = i.place /\ old["sunPlace"] = i.sunPlace
      /\ old["midnightSun"] = i.midnightSun /\ old["polarNight"] = i.polarNight
      /\ old["update"] = 0 /\ old["currentTime"] = now
      /\ old["forecast"] = <<>> /\ old["sunAt"] = None
  BY WeatherNames DEF InfoFields
<1>2. Reset(i) = Over(NoWeather, old)
  BY DEF Reset
<1> HIDE DEF old
<1>8. /\ DOMAIN Reset(i) = DOMAIN NoWeather \cup DOMAIN old
      /\ \A x \in DOMAIN NoWeather : Reset(i)[x] = NoWeather[x]
      /\ \A x \in DOMAIN old \ DOMAIN NoWeather : Reset(i)[x] = old[x]
  <2>1. /\ DOMAIN Over(NoWeather, old) = DOMAIN NoWeather \cup DOMAIN old
        /\ \A x \in DOMAIN NoWeather : Over(NoWeather, old)[x] = NoWeather[x]
        /\ \A x \in DOMAIN old \ DOMAIN NoWeather : Over(NoWeather, old)[x] = old[x]
    BY OverLemma
  <2> QED BY <1>2, <2>1
<1>3. DOMAIN NoWeather \cup DOMAIN old = InfoFields
  BY <1>1 DEF InfoFields
<1>4. \A x \in {"place", "sunPlace", "midnightSun", "polarNight", "update", "currentTime",
               "forecast", "sunAt"} : x \in DOMAIN old \ DOMAIN NoWeather
  BY <1>1, WeatherNames DEF InfoFields
<1>5. \A x \in {"place", "sunPlace", "midnightSun", "polarNight", "update", "currentTime",
               "forecast", "sunAt"} : Reset(i)[x] = old[x]
  BY <1>8, <1>4
<1>6. /\ DOMAIN Reset(i) = InfoFields
      /\ \A x \in DOMAIN NoWeather : Reset(i)[x] = NoWeather[x]
  BY <1>8, <1>3
<1> QED BY <1>1, <1>5, <1>6

(* A new object.                                                           *)
LEMMA ConstructLemma ==
  ASSUME NEW p
  PROVE  /\ DOMAIN Construct(p) = InfoFields
         /\ \A x \in DOMAIN NoWeather : Construct(p)[x] = NoWeather[x]
         /\ Construct(p).place = p /\ Construct(p).sunPlace = p
         /\ Construct(p).midnightSun = FALSE /\ Construct(p).polarNight = FALSE
         /\ Construct(p).update = 0 /\ Construct(p).currentTime = now
         /\ Construct(p).forecast = <<>> /\ Construct(p).sunAt = None
<1> DEFINE old == [place |-> p, valid |-> FALSE, update |-> 0, currentTime |-> now,
                   hasHumidity |-> FALSE, minMaxValid |-> FALSE, forecast |-> <<>>,
                   midnightSun |-> FALSE, polarNight |-> FALSE,
                   sunAt |-> None, sunPlace |-> p, moonValid |-> FALSE]
<1>1. /\ DOMAIN old = InfoFields \ DOMAIN NoWeather
      /\ old["place"] = p /\ old["sunPlace"] = p
      /\ old["midnightSun"] = FALSE /\ old["polarNight"] = FALSE
      /\ old["update"] = 0 /\ old["currentTime"] = now
      /\ old["forecast"] = <<>> /\ old["sunAt"] = None
  BY WeatherNames DEF InfoFields
<1>2. Construct(p) = Over(NoWeather, old)
  BY DEF Construct
<1> HIDE DEF old
<1>8. /\ DOMAIN Construct(p) = DOMAIN NoWeather \cup DOMAIN old
      /\ \A x \in DOMAIN NoWeather : Construct(p)[x] = NoWeather[x]
      /\ \A x \in DOMAIN old \ DOMAIN NoWeather : Construct(p)[x] = old[x]
  <2>1. /\ DOMAIN Over(NoWeather, old) = DOMAIN NoWeather \cup DOMAIN old
        /\ \A x \in DOMAIN NoWeather : Over(NoWeather, old)[x] = NoWeather[x]
        /\ \A x \in DOMAIN old \ DOMAIN NoWeather : Over(NoWeather, old)[x] = old[x]
    BY OverLemma
  <2> QED BY <1>2, <2>1
<1>3. DOMAIN NoWeather \cup DOMAIN old = InfoFields
  BY <1>1 DEF InfoFields
<1>4. \A x \in {"place", "sunPlace", "midnightSun", "polarNight", "update", "currentTime",
               "forecast", "sunAt"} : x \in DOMAIN old \ DOMAIN NoWeather
  BY <1>1, WeatherNames DEF InfoFields
<1>5. \A x \in {"place", "sunPlace", "midnightSun", "polarNight", "update", "currentTime",
               "forecast", "sunAt"} : Construct(p)[x] = old[x]
  BY <1>8, <1>4
<1>6. /\ DOMAIN Construct(p) = InfoFields
      /\ \A x \in DOMAIN NoWeather : Construct(p)[x] = NoWeather[x]
  BY <1>8, <1>3
<1> QED BY <1>1, <1>5, <1>6

(* What the fixup copies, and what it leaves alone.                        *)
LEMMA CopyLemma ==
  ASSUME NEW i, DOMAIN i = InfoFields, NEW f
  PROVE  /\ DOMAIN CopyWeatherData(f, i) = InfoFields
         /\ \A x \in DOMAIN NoWeather : CopyWeatherData(f, i)[x] = f[x]
         /\ CopyWeatherData(f, i).place = i.place /\ CopyWeatherData(f, i).sunPlace = i.sunPlace
         /\ CopyWeatherData(f, i).midnightSun = i.midnightSun
         /\ CopyWeatherData(f, i).polarNight = i.polarNight
         /\ CopyWeatherData(f, i).update = f.update
         /\ CopyWeatherData(f, i).currentTime = f.update
         /\ CopyWeatherData(f, i).forecast = i.forecast
         /\ CopyWeatherData(f, i).sunAt = i.sunAt
<1> DEFINE old == [i EXCEPT !.hasHumidity = f.hasHumidity, !.update = f.update,
                            !.currentTime = f.update]
           new == [x \in DOMAIN NoWeather |-> f[x]]
<1>1. /\ DOMAIN old = InfoFields
      /\ old["place"] = i.place /\ old["sunPlace"] = i.sunPlace
      /\ old["midnightSun"] = i.midnightSun /\ old["polarNight"] = i.polarNight
      /\ old["update"] = f.update /\ old["currentTime"] = f.update
      /\ old["forecast"] = i.forecast /\ old["sunAt"] = i.sunAt
  BY WeatherNames DEF InfoFields
<1>2. CopyWeatherData(f, i) = Over(new, old)
  BY DEF CopyWeatherData
<1>3. DOMAIN new = DOMAIN NoWeather /\ \A x \in DOMAIN NoWeather : new[x] = f[x]
  OBVIOUS
<1> HIDE DEF old, new
<1>8. /\ DOMAIN CopyWeatherData(f, i) = DOMAIN new \cup DOMAIN old
      /\ \A x \in DOMAIN new : CopyWeatherData(f, i)[x] = new[x]
      /\ \A x \in DOMAIN old \ DOMAIN new : CopyWeatherData(f, i)[x] = old[x]
  <2>1. /\ DOMAIN Over(new, old) = DOMAIN new \cup DOMAIN old
        /\ \A x \in DOMAIN new : Over(new, old)[x] = new[x]
        /\ \A x \in DOMAIN old \ DOMAIN new : Over(new, old)[x] = old[x]
    BY OverLemma
  <2> QED BY <1>2, <2>1
<1>4. DOMAIN new \cup DOMAIN old = InfoFields
  BY <1>1, <1>3 DEF InfoFields
<1>5. \A x \in {"place", "sunPlace", "midnightSun", "polarNight", "update", "currentTime",
               "forecast", "sunAt"} : x \in DOMAIN old \ DOMAIN new
  BY <1>1, <1>3, WeatherNames DEF InfoFields
<1>6. \A x \in {"place", "sunPlace", "midnightSun", "polarNight", "update", "currentTime",
               "forecast", "sunAt"} : CopyWeatherData(f, i)[x] = old[x]
  BY <1>8, <1>5
<1>7. /\ DOMAIN CopyWeatherData(f, i) = InfoFields
      /\ \A x \in DOMAIN NoWeather : CopyWeatherData(f, i)[x] = f[x]
  BY <1>8, <1>3, <1>4
<1> QED BY <1>1, <1>6, <1>7

(* The object after metar_finish with a report.                            *)
Reported(i, r) == [MetarParse(i, r) EXCEPT !.valid = TRUE]

(* What a report changes: the object has what it says over what was there  *)
(* before, and its time if it has one.                                     *)
LEMMA ReportLemma ==
  ASSUME NEW i, DOMAIN i = InfoFields, NEW r \in Report, NEW j, j = Reported(i, r)
  PROVE  /\ DOMAIN j = InfoFields
         /\ \A x \in DOMAIN NoWeather : j[x] = IF x \in ReportFields THEN r.weather[x] ELSE i[x]
         /\ j.place = i.place /\ j.sunPlace = i.sunPlace
         /\ j.midnightSun = i.midnightSun /\ j.polarNight = i.polarNight
         /\ j.update = (IF r.dated THEN now - r.age ELSE i.update)
         /\ j.currentTime = i.currentTime
         /\ j.forecast = i.forecast /\ j.sunAt = i.sunAt
<1> DEFINE time == IF r.dated THEN now - r.age ELSE i.update
           old == [i EXCEPT !.update = IF r.dated THEN now - r.age ELSE @]
           Kept == {"place", "sunPlace", "midnightSun", "polarNight", "update", "currentTime",
                    "forecast", "sunAt"}
<1>1. /\ DOMAIN old = InfoFields
      /\ old["update"] = time
      /\ \A x \in InfoFields \ {"update"} : old[x] = i[x]
  BY InfoNames
<1>2. PICK w : w = r.weather /\ DOMAIN w = ReportFields
  BY WeatherAssumption
<1>3. PICK m : m = Over(w, old)
  OBVIOUS
<1>4. j = [m EXCEPT !.valid = TRUE]
  BY <1>2, <1>3 DEF MetarParse, Reported
<1> HIDE DEF old, time
<1>5. /\ DOMAIN m = DOMAIN w \cup DOMAIN old
      /\ \A x \in DOMAIN w : m[x] = w[x]
      /\ \A x \in DOMAIN old \ DOMAIN w : m[x] = old[x]
  <2>1. /\ DOMAIN Over(w, old) = DOMAIN w \cup DOMAIN old
        /\ \A x \in DOMAIN w : Over(w, old)[x] = w[x]
        /\ \A x \in DOMAIN old \ DOMAIN w : Over(w, old)[x] = old[x]
    BY OverLemma
  <2> QED BY <1>3, <2>1
<1>6. ReportFields \subseteq DOMAIN NoWeather /\ DOMAIN NoWeather \subseteq InfoFields
      /\ DOMAIN m = InfoFields
  BY <1>1, <1>2, <1>5 DEF ReportFields, InfoFields
<1>7. "valid" \notin DOMAIN NoWeather /\ "update" \notin DOMAIN NoWeather
      /\ \A x \in Kept : x \in InfoFields \ ReportFields /\ x # "valid"
  BY WeatherNames DEF InfoFields, ReportFields
<1>8. DOMAIN j = InfoFields /\ \A x \in InfoFields : x # "valid" => j[x] = m[x]
  BY <1>4, <1>6
<1>9. \A x \in Kept : j[x] = old[x]
  BY <1>1, <1>2, <1>5, <1>7, <1>8
<1>10. \A x \in Kept : x # "update" => j[x] = i[x]
  BY <1>1, <1>7, <1>9
<1>11. ASSUME NEW x \in DOMAIN NoWeather
       PROVE  j[x] = IF x \in ReportFields THEN r.weather[x] ELSE i[x]
  <2>1. x \in InfoFields /\ x # "valid" /\ x # "update" /\ j[x] = m[x]
    BY <1>6, <1>7, <1>8
  <2>2. CASE x \in ReportFields
    BY <1>2, <1>5, <2>1, <2>2
  <2>3. CASE x \notin ReportFields
    BY <1>1, <1>2, <1>5, <2>1, <2>3
  <2> QED BY <2>2, <2>3
<1>12. j.update = (IF r.dated THEN now - r.age ELSE i.update)
  BY <1>1, <1>9 DEF time
<1> QED BY <1>8, <1>10, <1>11, <1>12

(* What a report says, and nothing else.                                   *)
LEMMA ReportAlone ==
  ASSUME NEW r \in Report
  PROVE  \A x \in DOMAIN NoWeather :
           Over(r.weather, NoWeather)[x]
             = IF x \in ReportFields THEN r.weather[x] ELSE NoWeather[x]
<1>1. PICK w : w = r.weather /\ DOMAIN w = ReportFields
  BY WeatherAssumption
<1>2. /\ \A x \in ReportFields : Over(w, NoWeather)[x] = w[x]
      /\ \A x \in DOMAIN NoWeather \ ReportFields : Over(w, NoWeather)[x] = NoWeather[x]
  <2>1. /\ \A x \in DOMAIN w : Over(w, NoWeather)[x] = w[x]
        /\ \A x \in DOMAIN NoWeather \ DOMAIN w : Over(w, NoWeather)[x] = NoWeather[x]
    BY OverLemma
  <2> QED BY <1>1, <2>1
<1> QED BY <1>1, <1>2

-----------------------------------------------------------------------------
(* The invariant *)

(* The object has its fields, and no time of it is before the clock began. *)
ForecastOK ==
  \/ info.forecast = <<>>
  \/ \E f : /\ info.forecast = <<f>>
           /\ f.sky \in Skies
           /\ f.update \in Nat

Shape ==
  /\ now \in Nat /\ now > Day /\ now <= MaxTime
  /\ DOMAIN info = InfoFields
  /\ info.place \in Place
  /\ info.currentTime \in Nat
  /\ info.update \in Nat
  /\ info.sky \in Skies
  /\ ForecastOK
  /\ DOMAIN update = DOMAIN NoUpdate
  /\ update.report.update \in Nat
  /\ update.metar => update.report = NoReport

(* What is kept of the sun is of a place where it rises, and that is the   *)
(* place of the object unless the property moved it since the reset.       *)
SunInv ==
  /\ ~(info.midnightSun /\ info.polarNight)
  /\ info.sunAt \in Nat \cup {None}
  /\ info.sunAt # None =>
       /\ ~info.midnightSun /\ ~info.polarNight
       /\ Sun[info.sunPlace] = "rises"
       /\ ~update.moved => info.sunPlace = info.place

ClearInv ==
  update.cleared =>
    /\ info.forecast = <<>>
    /\ \A x \in DOMAIN NoWeather : info[x] = NoWeather[x]

DataInv == Shape /\ SunInv /\ ClearInv /\ ConditionsAreCurrent

(* No report says nothing, and has no time.                                *)
LEMMA NoReportLemma ==
  NoReport.update = 0 /\ NoReport.weather = NoWeather
BY DEF NoReport

(* The state after a reset.                                                *)
LEMMA ClearedLemma ==
  ASSUME NEW u, DOMAIN u = DOMAIN NoUpdate
  PROVE  /\ DOMAIN Cleared(u) = DOMAIN NoUpdate
         /\ Cleared(u).cleared = TRUE /\ Cleared(u).moved = FALSE
         /\ Cleared(u).report = NoReport
         /\ Cleared(u).metar = u.metar /\ Cleared(u).forecasts = u.forecasts
BY DEF Cleared, NoUpdate

(* No sky is a sky.                                                        *)
LEMMA UnsetSky ==
  NoWeather.sky \in Skies /\ "sky" \in DOMAIN NoWeather
BY DEF NoWeather, Skies

(* The invariant holds of a new object.                                    *)
LEMMA DataStart ==
  ASSUME Init PROVE DataInv
<1>1. PICK p \in Place : info = Construct(p)
  BY DEF Init
<1>2. /\ now = Day + 1 /\ update = NoUpdate /\ Day \in Nat /\ MaxTime \in Nat /\ Day < MaxTime
      /\ Soon \in Nat
  BY TimeAssumption DEF Init
<1>3. /\ DOMAIN info = InfoFields
      /\ \A x \in DOMAIN NoWeather : info[x] = NoWeather[x]
      /\ info.place = p /\ info.sunPlace = p
      /\ info.midnightSun = FALSE /\ info.polarNight = FALSE
      /\ info.update = 0 /\ info.currentTime = now
      /\ info.forecast = <<>> /\ info.sunAt = None
  BY <1>1, ConstructLemma
<1>4. DOMAIN update = DOMAIN NoUpdate /\ update.report = NoReport
  BY <1>2 DEF NoUpdate
<1>5. info.sky \in Skies
  BY <1>3, UnsetSky
<1>6. ConditionsAreCurrent
  BY <1>3, <1>4, NoReportLemma DEF ConditionsAreCurrent, Shows
<1> QED BY <1>2, <1>3, <1>4, <1>5, <1>6, NoReportLemma
        DEF DataInv, Shape, ForecastOK, SunInv, ClearInv

(* set_location and update start from a reset object.                      *)
LEMMA AfterReset ==
  ASSUME DataInv, now' = now, NEW i, DOMAIN i = InfoFields, i.place \in Place,
         ~(i.midnightSun /\ i.polarNight),
         NEW j, DOMAIN j = InfoFields, info' = j,
         \A x \in InfoFields \ {"valid"} : j[x] = Reset(i)[x],
         DOMAIN update' = DOMAIN NoUpdate,
         update'.moved = FALSE, update'.report = NoReport
  PROVE  DataInv'
<1>1. /\ \A x \in DOMAIN NoWeather : Reset(i)[x] = NoWeather[x]
      /\ Reset(i).place = i.place
      /\ Reset(i).midnightSun = i.midnightSun /\ Reset(i).polarNight = i.polarNight
      /\ Reset(i).update = 0 /\ Reset(i).currentTime = now
      /\ Reset(i).forecast = <<>> /\ Reset(i).sunAt = None
  BY ResetLemma
<1>2. DOMAIN NoWeather \subseteq InfoFields \ {"valid"}
  BY WeatherNames DEF InfoFields
<1>3. \A x \in DOMAIN NoWeather : j[x] = NoWeather[x]
  BY <1>1, <1>2
<1>4. /\ j.place = i.place
      /\ j.midnightSun = i.midnightSun /\ j.polarNight = i.polarNight
      /\ j.update = 0 /\ j.currentTime = now
      /\ j.forecast = <<>> /\ j.sunAt = None
  BY <1>1, InfoNames
<1>5. j.sky \in Skies
  BY <1>3, UnsetSky
<1>6. now \in Nat /\ now > Day /\ now <= MaxTime /\ Day \in Nat /\ Soon \in Nat
  BY TimeAssumption DEF DataInv, Shape
<1>7. Shape'
  BY <1>4, <1>5, <1>6, NoReportLemma DEF Shape, ForecastOK
<1>8. SunInv'
  BY <1>4 DEF SunInv
<1>9. ClearInv'
  BY <1>3, <1>4 DEF ClearInv
<1>10. ConditionsAreCurrent'
  BY <1>3, <1>4, NoReportLemma DEF ConditionsAreCurrent, Shows
<1> QED BY <1>7, <1>8, <1>9, <1>10 DEF DataInv

(* gweather_info_set_location keeps the invariant.                         *)
LEMMA SetLocationStep ==
  ASSUME DataInv, SetLocation PROVE DataInv'
<1>1. PICK p \in Place : info' = Reset([info EXCEPT !.place = p])
  BY DEF SetLocation
<1>2. /\ now' = now /\ update' = Cleared(update)
      /\ DOMAIN info = InfoFields /\ DOMAIN update = DOMAIN NoUpdate
      /\ ~(info.midnightSun /\ info.polarNight)
  BY DEF SetLocation, DataInv, Shape, SunInv
<1>3. PICK i : i = [info EXCEPT !.place = p]
  OBVIOUS
<1>4. /\ DOMAIN i = InfoFields /\ i.place \in Place
      /\ ~(i.midnightSun /\ i.polarNight)
  BY <1>2, <1>3, InfoNames
<1>5. PICK j : j = Reset(i) /\ info' = j /\ DOMAIN j = InfoFields
  BY <1>1, <1>3, <1>4, ResetLemma
<1>6. DOMAIN update' = DOMAIN NoUpdate /\ update'.moved = FALSE /\ update'.report = NoReport
  BY <1>2, ClearedLemma
<1> QED BY <1>2, <1>4, <1>5, <1>6, AfterReset

(* The start of an update keeps the invariant.                             *)
LEMMA UpdateStep ==
  ASSUME DataInv, Update PROVE DataInv'
<1>1. PICK metar \in BOOLEAN, forecasts \in BOOLEAN :
        /\ info' = [Reset(info) EXCEPT !.valid = @ /\ ~metar]
        /\ update' = [Cleared(update) EXCEPT
                        !.metar = metar /\ Sun[info.place] # "unknown",
                        !.forecasts = forecasts /\ Sun[info.place] # "unknown"]
  BY DEF Update
<1>2. /\ now' = now /\ info.place \in Place
      /\ DOMAIN info = InfoFields /\ DOMAIN update = DOMAIN NoUpdate
      /\ ~(info.midnightSun /\ info.polarNight)
  BY DEF Update, DataInv, Shape, SunInv
<1>3. PICK i : i = info
  OBVIOUS
<1>4. DOMAIN Reset(i) = InfoFields
  BY <1>2, <1>3, ResetLemma
<1>5. PICK j : /\ info' = j /\ DOMAIN j = InfoFields
               /\ \A x \in InfoFields \ {"valid"} : j[x] = Reset(i)[x]
  BY <1>1, <1>3, <1>4, InfoNames
<1>6. DOMAIN update' = DOMAIN NoUpdate /\ update'.moved = FALSE /\ update'.report = NoReport
  <2>1. PICK u : /\ u = Cleared(update) /\ DOMAIN u = DOMAIN NoUpdate
                 /\ u.moved = FALSE /\ u.report = NoReport
    BY <1>2, ClearedLemma
  <2>2. PICK a, b : update' = [u EXCEPT !.metar = a, !.forecasts = b]
    BY <1>1, <2>1
  <2> QED BY <2>1, <2>2 DEF NoUpdate
<1> QED BY <1>2, <1>3, <1>5, <1>6, AfterReset

(* Setting the property moves the object, which the invariant allows for.  *)
LEMMA SetPropertyStep ==
  ASSUME DataInv, SetProperty PROVE DataInv'
<1>1. PICK p \in Place : info' = [info EXCEPT !.place = p]
  BY DEF SetProperty
<1>2. /\ now' = now /\ update' = [update EXCEPT !.moved = TRUE]
      /\ DOMAIN info = InfoFields /\ DOMAIN update = DOMAIN NoUpdate
  BY DEF SetProperty, DataInv, Shape
<1>3. /\ DOMAIN info' = InfoFields /\ info'.place = p
      /\ \A x \in InfoFields \ {"place"} : info'[x] = info[x]
  BY <1>1, <1>2, InfoNames
<1>4. /\ DOMAIN update' = DOMAIN NoUpdate /\ update'.moved = TRUE
      /\ update'.cleared = update.cleared /\ update'.report = update.report
      /\ update'.metar = update.metar /\ update'.forecasts = update.forecasts
  BY <1>2 DEF NoUpdate
<1>5. /\ info'.currentTime = info.currentTime /\ info'.update = info.update
      /\ info'.forecast = info.forecast /\ info'.sunAt = info.sunAt
      /\ info'.midnightSun = info.midnightSun /\ info'.polarNight = info.polarNight
      /\ info'.sunPlace = info.sunPlace
      /\ \A x \in DOMAIN NoWeather : info'[x] = info[x]
  BY <1>3, WeatherNames DEF InfoFields
<1>6. info'.sky = info.sky
  BY <1>5, WeatherNames
<1>7. Shape'
  BY <1>2, <1>3, <1>4, <1>5, <1>6 DEF DataInv, Shape, ForecastOK
<1>8. SunInv'
  BY <1>4, <1>5 DEF DataInv, SunInv
<1>9. ClearInv'
  BY <1>4, <1>5 DEF DataInv, ClearInv
<1>10. ConditionsAreCurrent'
  BY <1>2, <1>4, <1>5 DEF DataInv, ConditionsAreCurrent, Shows, Pending
<1> QED BY <1>7, <1>8, <1>9, <1>10 DEF DataInv

(* The end of a request keeps the invariant: until the last one is done    *)
(* the object shows what the report said, or nothing, and what the fixup   *)
(* copies is of at most an hour ahead.                                     *)
LEMMA RequestDoneStep ==
  ASSUME DataInv, NEW j, NEW u, RequestDone(j, u),
         DOMAIN j = InfoFields, j.place = info.place, j.sunPlace = info.sunPlace,
         j.midnightSun = info.midnightSun, j.polarNight = info.polarNight,
         j.currentTime = info.currentTime, j.sunAt = info.sunAt, j.sky \in Skies,
         \/ j.forecast = <<>>
         \/ \E f : j.forecast = <<f>> /\ f.sky \in Skies /\ f.update \in Nat,
         DOMAIN u = DOMAIN NoUpdate, u.moved = update.moved, u.report.update \in Nat,
         u.metar => u.report = NoReport,
         u.cleared => j.forecast = <<>> /\ \A x \in DOMAIN NoWeather : j[x] = NoWeather[x],
         j.update = u.report.update, \A x \in DOMAIN NoWeather : j[x] = u.report.weather[x]
  PROVE  DataInv'
<1>1. now' = now /\ update' = u
  BY DEF RequestDone
<1>2. CASE info' = j
  <2>1. Shape'
    BY <1>1, <1>2 DEF DataInv, Shape, ForecastOK
  <2>2. SunInv'
    BY <1>1, <1>2 DEF DataInv, SunInv
  <2>3. ClearInv'
    BY <1>1, <1>2 DEF ClearInv
  <2>4. ConditionsAreCurrent'
    BY <1>1, <1>2 DEF ConditionsAreCurrent, Shows
  <2> QED BY <2>1, <2>2, <2>3, <2>4 DEF DataInv
<1>3. CASE info' # j
  <2>1. /\ ~Pending(u) /\ j.update = 0 /\ j.forecast # <<>>
        /\ ~(j.forecast[1].update - now > Soon)
        /\ info' = CopyWeatherData(j.forecast[1], j)
    BY <1>3 DEF RequestDone, FixupCurrentConditions
  <2>2. PICK f : j.forecast = <<f>> /\ f.sky \in Skies /\ f.update \in Nat
    BY <2>1
  <2>3. j.forecast[1] = f
    BY <2>2
  <2>4. /\ DOMAIN info' = InfoFields
        /\ \A x \in DOMAIN NoWeather : info'[x] = f[x]
        /\ info'.place = j.place /\ info'.sunPlace = j.sunPlace
        /\ info'.midnightSun = j.midnightSun /\ info'.polarNight = j.polarNight
        /\ info'.update = f.update /\ info'.currentTime = f.update
        /\ info'.forecast = j.forecast /\ info'.sunAt = j.sunAt
    BY <2>1, <2>3, CopyLemma
  <2>5. info'.sky = f.sky
    BY <2>4, UnsetSky
  <2>6. now \in Nat /\ Soon \in Nat /\ f.update <= now + Soon
    BY <2>1, <2>2, <2>3, TimeAssumption DEF DataInv, Shape
  <2>7. Shape'
    BY <1>1, <2>2, <2>4, <2>5 DEF DataInv, Shape, ForecastOK
  <2>8. SunInv'
    BY <1>1, <2>4 DEF DataInv, SunInv
  <2>9. ClearInv'
    BY <1>1, <2>1 DEF ClearInv
  <2>10. ConditionsAreCurrent'
    <3>1. info'.forecast # <<>> /\ info'.forecast[1] = f /\ u.report.update = 0
      BY <2>1, <2>3, <2>4
    <3> QED BY <1>1, <2>1, <2>4, <2>6, <3>1 DEF ConditionsAreCurrent, Shows
  <2> QED BY <2>7, <2>8, <2>9, <2>10 DEF DataInv
<1> QED BY <1>2, <1>3

(* While a request is pending the object shows what the report said, or    *)
(* nothing.                                                                *)
LEMMA PendingShows ==
  ASSUME DataInv, Pending(update)
  PROVE  info.update = update.report.update
         /\ \A x \in DOMAIN NoWeather : info[x] = update.report.weather[x]
BY DEF DataInv, ConditionsAreCurrent, Shows

(* A report keeps the invariant: it is the only one, so the object shows   *)
(* it and nothing else.                                                    *)
LEMMA MetarArrivesStep ==
  ASSUME DataInv, MetarArrives PROVE DataInv'
<1>1. PICK r \in Report :
        RequestDone([MetarParse(info, r) EXCEPT !.valid = TRUE],
                    [update EXCEPT !.metar = FALSE, !.cleared = FALSE,
                       !.report = [weather |-> Over(r.weather, NoWeather),
                                   update |-> IF r.dated THEN now - r.age ELSE 0]])
  BY DEF MetarArrives
<1>2. PICK report : report = [weather |-> Over(r.weather, NoWeather),
                              update |-> IF r.dated THEN now - r.age ELSE 0]
  OBVIOUS
<1>3. PICK u : u = [update EXCEPT !.metar = FALSE, !.cleared = FALSE, !.report = report]
  OBVIOUS
<1>4. PICK i, j : i = info /\ j = Reported(i, r)
  OBVIOUS
<1>5. RequestDone(j, u)
  BY <1>1, <1>2, <1>3, <1>4 DEF Reported
<1>6. /\ DOMAIN i = InfoFields /\ DOMAIN update = DOMAIN NoUpdate
      /\ now \in Nat /\ now > Day /\ Day \in Nat /\ update.report = NoReport /\ Pending(update)
  BY <1>4, TimeAssumption DEF DataInv, Shape, MetarArrives, Pending
<1>7. i.update = 0 /\ \A x \in DOMAIN NoWeather : i[x] = NoWeather[x]
  BY <1>4, <1>6, PendingShows, NoReportLemma
<1>8. /\ DOMAIN j = InfoFields
      /\ \A x \in DOMAIN NoWeather : j[x] = IF x \in ReportFields THEN r.weather[x] ELSE i[x]
      /\ j.place = i.place /\ j.sunPlace = i.sunPlace
      /\ j.midnightSun = i.midnightSun /\ j.polarNight = i.polarNight
      /\ j.update = (IF r.dated THEN now - r.age ELSE i.update)
      /\ j.currentTime = i.currentTime
      /\ j.forecast = i.forecast /\ j.sunAt = i.sunAt
  BY <1>4, <1>6, ReportLemma
<1>9. /\ DOMAIN u = DOMAIN NoUpdate /\ u.moved = update.moved /\ u.report = report
      /\ u.metar = FALSE /\ u.cleared = FALSE
  BY <1>3, <1>6 DEF NoUpdate
<1>10. report.update = (IF r.dated THEN now - r.age ELSE 0)
       /\ report.weather = Over(r.weather, NoWeather)
  BY <1>2
<1>11. j.update = report.update /\ report.update \in Nat
  <2>1. r.dated \in BOOLEAN /\ r.age \in Int /\ r.age <= Day
    BY WeatherAssumption
  <2>2. now - r.age \in Nat
    BY <1>6, <2>1
  <2> QED BY <1>7, <1>8, <1>10, <2>2
<1>12. \A x \in DOMAIN NoWeather : j[x] = report.weather[x]
  BY <1>7, <1>8, <1>10, ReportAlone
<1>13. j.sky \in Skies
  <2>1. r.weather.sky \in Skies
    BY WeatherAssumption
  <2> QED BY <1>7, <1>8, <2>1, UnsetSky
<1>14. \/ j.forecast = <<>>
       \/ \E f : j.forecast = <<f>> /\ f.sky \in Skies /\ f.update \in Nat
  BY <1>4, <1>8 DEF DataInv, Shape, ForecastOK
<1>15. /\ j.place = info.place /\ j.sunPlace = info.sunPlace
       /\ j.midnightSun = info.midnightSun /\ j.polarNight = info.polarNight
       /\ j.currentTime = info.currentTime /\ j.sunAt = info.sunAt
       /\ j.update = u.report.update /\ u.report.update \in Nat
       /\ \A x \in DOMAIN NoWeather : j[x] = u.report.weather[x]
  BY <1>4, <1>8, <1>9, <1>11, <1>12
<1> QED BY <1>5, <1>8, <1>9, <1>13, <1>14, <1>15, RequestDoneStep

(* An answer without data leaves everything to the fixup.                  *)
LEMMA NoAnswerStep ==
  ASSUME DataInv, Pending(update), NEW u, RequestDone(info, u),
         DOMAIN u = DOMAIN NoUpdate, u.moved = update.moved, u.report = update.report,
         u.cleared = update.cleared, u.metar => update.metar
  PROVE  DataInv'
<1>1. PICK i, v : i = info /\ v = u
  OBVIOUS
<1>2. /\ DOMAIN i = InfoFields /\ i.sky \in Skies
      /\ v.report.update \in Nat /\ (v.metar => v.report = NoReport)
  BY <1>1 DEF DataInv, Shape
<1>3. \/ i.forecast = <<>>
      \/ \E f : i.forecast = <<f>> /\ f.sky \in Skies /\ f.update \in Nat
  BY <1>1 DEF DataInv, Shape, ForecastOK
<1>4. v.cleared => i.forecast = <<>> /\ \A x \in DOMAIN NoWeather : i[x] = NoWeather[x]
  BY <1>1 DEF DataInv, ClearInv
<1>5. i.update = v.report.update /\ \A x \in DOMAIN NoWeather : i[x] = v.report.weather[x]
  BY <1>1, PendingShows
<1>6. /\ RequestDone(i, v) /\ DOMAIN v = DOMAIN NoUpdate /\ v.moved = update.moved
      /\ i.place = info.place /\ i.sunPlace = info.sunPlace
      /\ i.midnightSun = info.midnightSun /\ i.polarNight = info.polarNight
      /\ i.currentTime = info.currentTime /\ i.sunAt = info.sunAt
  BY <1>1
<1> QED BY <1>2, <1>3, <1>4, <1>5, <1>6, RequestDoneStep

(* A request that fails keeps the invariant.                               *)
LEMMA FailureStep ==
  ASSUME DataInv, MetarFails \/ ForecastsFail PROVE DataInv'
<1>1. DOMAIN update = DOMAIN NoUpdate
  BY DEF DataInv, Shape
<1>2. CASE MetarFails
  <2>1. PICK u : u = [update EXCEPT !.metar = FALSE]
    OBVIOUS
  <2>2. RequestDone(info, u) /\ Pending(update)
    BY <1>2, <2>1 DEF MetarFails, Pending
  <2>3. /\ DOMAIN u = DOMAIN NoUpdate /\ u.moved = update.moved /\ u.report = update.report
        /\ u.cleared = update.cleared /\ u.metar = FALSE
    BY <1>1, <2>1 DEF NoUpdate
  <2> QED BY <2>2, <2>3, NoAnswerStep
<1>3. CASE ForecastsFail
  <2>1. PICK u : u = [update EXCEPT !.forecasts = FALSE]
    OBVIOUS
  <2>2. RequestDone(info, u) /\ Pending(update)
    BY <1>3, <2>1 DEF ForecastsFail, Pending
  <2>3. /\ DOMAIN u = DOMAIN NoUpdate /\ u.moved = update.moved /\ u.report = update.report
        /\ u.cleared = update.cleared /\ u.metar = update.metar
    BY <1>1, <2>1 DEF NoUpdate
  <2> QED BY <2>2, <2>3, NoAnswerStep
<1> QED BY <1>2, <1>3

(* A list of forecasts keeps the invariant: the first is of after the      *)
(* clock began.                                                            *)
LEMMA ForecastsArriveStep ==
  ASSUME DataInv, ForecastsArrive PROVE DataInv'
<1>1. PICK f \in Forecast :
        RequestDone([info EXCEPT !.forecast = <<[f EXCEPT !.update = @ + now]>>,
                                 !.valid = @ \/ ~f.minMaxValid],
                    [update EXCEPT !.forecasts = FALSE, !.cleared = FALSE])
  BY DEF ForecastsArrive
<1>2. /\ now \in Nat /\ now > Day /\ Day \in Nat /\ Pending(update)
      /\ DOMAIN info = InfoFields /\ DOMAIN update = DOMAIN NoUpdate
  BY TimeAssumption DEF ForecastsArrive, DataInv, Shape, Pending
<1>3. DOMAIN f = ForecastFields /\ f.sky \in Skies /\ f.update \in Int /\ f.update >= -Day
  BY WeatherAssumption
<1>4. PICK g : g = [f EXCEPT !.update = @ + now]
  OBVIOUS
<1>5. g.sky \in Skies /\ g.update \in Nat
  <2>1. "update" \in DOMAIN f
    BY <1>3 DEF ForecastFields
  <2>2. g.update = f.update + now /\ g.sky = f.sky
    BY <1>3, <1>4, <2>1 DEF ForecastFields, NoWeather
  <2>3. f.update + now \in Nat
    BY <1>2, <1>3
  <2> QED BY <1>3, <2>2, <2>3
<1>6. PICK j, u : /\ j = [info EXCEPT !.forecast = <<g>>, !.valid = @ \/ ~f.minMaxValid]
                  /\ u = [update EXCEPT !.forecasts = FALSE, !.cleared = FALSE]
  OBVIOUS
<1>7. RequestDone(j, u)
  BY <1>1, <1>4, <1>6
<1>8. /\ DOMAIN j = InfoFields /\ j.forecast = <<g>>
      /\ \A x \in InfoFields \ {"forecast", "valid"} : j[x] = info[x]
  BY <1>2, <1>6, InfoNames
<1>9. /\ j.place = info.place /\ j.sunPlace = info.sunPlace
      /\ j.midnightSun = info.midnightSun /\ j.polarNight = info.polarNight
      /\ j.update = info.update /\ j.currentTime = info.currentTime
      /\ j.sunAt = info.sunAt
      /\ \A x \in DOMAIN NoWeather : j[x] = info[x]
  BY <1>8, WeatherNames DEF InfoFields
<1>10. /\ DOMAIN u = DOMAIN NoUpdate /\ u.moved = update.moved /\ u.cleared = FALSE
       /\ u.report = update.report /\ u.metar = update.metar
  BY <1>2, <1>6 DEF NoUpdate
<1>11. u.report.update \in Nat /\ (u.metar => u.report = NoReport) /\ j.sky \in Skies
  BY <1>9, <1>10, UnsetSky DEF DataInv, Shape
<1>12. j.update = u.report.update /\ \A x \in DOMAIN NoWeather : j[x] = u.report.weather[x]
  BY <1>2, <1>9, <1>10, PendingShows
<1> QED BY <1>5, <1>7, <1>8, <1>9, <1>10, <1>11, <1>12, RequestDoneStep

(* An abort keeps the invariant: nothing stands in for what did not come.  *)
LEMMA AbortStep ==
  ASSUME DataInv, Abort PROVE DataInv'
<1>1. /\ now' = now /\ info' = info
      /\ update' = [update EXCEPT !.metar = FALSE, !.forecasts = FALSE]
      /\ DOMAIN update = DOMAIN NoUpdate /\ Pending(update)
  BY DEF Abort, DataInv, Shape
<1>2. /\ DOMAIN update' = DOMAIN NoUpdate /\ update'.moved = update.moved
      /\ update'.cleared = update.cleared /\ update'.report = update.report
      /\ update'.metar = FALSE
  BY <1>1 DEF NoUpdate
<1>3. Shape'
  BY <1>1, <1>2 DEF DataInv, Shape, ForecastOK
<1>4. SunInv' /\ ClearInv'
  BY <1>1, <1>2 DEF DataInv, SunInv, ClearInv
<1>5. ConditionsAreCurrent'
  BY <1>1, <1>2, PendingShows DEF ConditionsAreCurrent, Shows
<1> QED BY <1>3, <1>4, <1>5 DEF DataInv

(* What calc_sun writes.                                                   *)
LEMMA CalcSunLemma ==
  ASSUME NEW i, DOMAIN i = InfoFields
  PROVE  /\ DOMAIN CalcSun(i) = InfoFields
         /\ CalcSun(i).midnightSun <=> Sun[i.place] = "midnight sun"
         /\ CalcSun(i).polarNight <=> Sun[i.place] = "polar night"
         /\ CalcSun(i).sunAt = IF Sun[i.place] = "rises" THEN i.currentTime ELSE None
         /\ CalcSun(i).sunPlace = i.place
         /\ \A x \in InfoFields \ {"midnightSun", "polarNight", "sunAt", "sunPlace"} :
              CalcSun(i)[x] = i[x]
BY InfoNames DEF CalcSun

(* calc_sun keeps the invariant.                                           *)
LEMMA AskForSunStep ==
  ASSUME DataInv, AskForSun PROVE DataInv'
<1>1. /\ now' = now /\ update' = update /\ info' = EnsureSun(info)
      /\ DOMAIN info = InfoFields
  BY DEF AskForSun, DataInv, Shape
<1>2. CASE info' = info
  BY <1>1, <1>2 DEF DataInv, Shape, ForecastOK, SunInv, ClearInv, ConditionsAreCurrent, Shows
<1>3. CASE info' = CalcSun(info)
  <2>1. /\ DOMAIN info' = InfoFields
        /\ info'.midnightSun <=> Sun[info.place] = "midnight sun"
        /\ info'.polarNight <=> Sun[info.place] = "polar night"
        /\ info'.sunAt = IF Sun[info.place] = "rises" THEN info.currentTime ELSE None
        /\ info'.sunPlace = info.place
        /\ \A x \in InfoFields \ {"midnightSun", "polarNight", "sunAt", "sunPlace"} :
             info'[x] = info[x]
    <3>1. PICK i : i = info /\ DOMAIN i = InfoFields
      BY <1>1
    <3>2. PICK c : c = CalcSun(i)
      OBVIOUS
    <3>3. /\ DOMAIN c = InfoFields
          /\ c.midnightSun <=> Sun[i.place] = "midnight sun"
          /\ c.polarNight <=> Sun[i.place] = "polar night"
          /\ c.sunAt = IF Sun[i.place] = "rises" THEN i.currentTime ELSE None
          /\ c.sunPlace = i.place
          /\ \A x \in InfoFields \ {"midnightSun", "polarNight", "sunAt", "sunPlace"} :
               c[x] = i[x]
      BY <3>1, <3>2, CalcSunLemma
    <3>4. c = info'
      BY <1>3, <3>1, <3>2
    <3> QED BY <3>1, <3>3, <3>4
  <2>2. /\ info'.place = info.place /\ info'.currentTime = info.currentTime
        /\ info'.update = info.update /\ info'.forecast = info.forecast
        /\ \A x \in DOMAIN NoWeather : info'[x] = info[x]
    BY <2>1, WeatherNames DEF InfoFields
  <2>3. info'.sky = info.sky
    BY <2>2, WeatherNames
  <2>4. Shape'
    BY <1>1, <2>1, <2>2, <2>3 DEF DataInv, Shape, ForecastOK
  <2>5. SunInv'
    BY <2>1, <2>2 DEF DataInv, Shape, SunInv
  <2>6. ClearInv'
    BY <1>1, <2>2 DEF DataInv, ClearInv
  <2>7. ConditionsAreCurrent'
    BY <1>1, <2>2 DEF DataInv, ConditionsAreCurrent, Shows
  <2> QED BY <2>4, <2>5, <2>6, <2>7 DEF DataInv
<1> QED BY <1>1, <1>2, <1>3 DEF EnsureSun

(* The moon keeps the invariant.                                           *)
LEMMA AskForMoonStep ==
  ASSUME DataInv, AskForMoon PROVE DataInv'
<1>1. /\ now' = now /\ update' = update
      /\ info' = [info EXCEPT !.moonValid = @ \/ Sun[info.place] # "unknown"]
      /\ DOMAIN info = InfoFields
  BY DEF AskForMoon, EnsureMoon, DataInv, Shape
<1>2. DOMAIN info' = InfoFields /\ \A x \in InfoFields \ {"moonValid"} : info'[x] = info[x]
  BY <1>1, InfoNames
<1>3. /\ info'.place = info.place /\ info'.currentTime = info.currentTime
      /\ info'.update = info.update /\ info'.forecast = info.forecast
      /\ info'.midnightSun = info.midnightSun /\ info'.polarNight = info.polarNight
      /\ info'.sunPlace = info.sunPlace /\ info'.sunAt = info.sunAt
      /\ \A x \in DOMAIN NoWeather : info'[x] = info[x]
  BY <1>2, WeatherNames DEF InfoFields
<1>4. info'.sky = info.sky
  BY <1>3, WeatherNames
<1> QED BY <1>1, <1>2, <1>3, <1>4
        DEF DataInv, Shape, ForecastOK, SunInv, ClearInv, ConditionsAreCurrent, Shows

(* Time keeps the invariant.                                               *)
LEMMA TickStep ==
  ASSUME DataInv, Tick PROVE DataInv'
<1>1. /\ now < MaxTime /\ now' = now + 1 /\ info' = info /\ update' = update
      /\ now \in Nat /\ MaxTime \in Nat /\ Soon \in Nat /\ Day \in Nat
  BY TimeAssumption DEF Tick, DataInv, Shape
<1>2. Shape'
  BY <1>1 DEF DataInv, Shape, ForecastOK
<1>3. SunInv' /\ ClearInv'
  BY <1>1 DEF DataInv, SunInv, ClearInv
<1>4. ConditionsAreCurrent'
  BY <1>1 DEF DataInv, Shape, ForecastOK, ConditionsAreCurrent, Shows
<1> QED BY <1>2, <1>3, <1>4 DEF DataInv

(* The inductive invariant: what is kept of the sun is of the place of the *)
(* object, a cleared object has no weather, an update has at most one      *)
(* report, and the conditions are current.                                 *)
THEOREM DataIsSound == Spec => []DataInv
<1>1. Init => DataInv
  BY DataStart
<1>2. ASSUME DataInv, [Next]_vars PROVE DataInv'
  <2>1. CASE UNCHANGED vars
    BY <1>2, <2>1 DEF vars, DataInv, Shape, ForecastOK, SunInv, ClearInv, ConditionsAreCurrent,
       Shows
  <2> QED BY <1>2, <2>1, SetLocationStep, SetPropertyStep, UpdateStep, MetarArrivesStep,
             ForecastsArriveStep, FailureStep, AbortStep, AskForSunStep, AskForMoonStep, TickStep
          DEF Next
<1> QED BY <1>1, <1>2, PTL DEF Spec

(* The type invariant.                                                     *)
THEOREM TypeIsCorrect == Spec => []TypeOK
<1>1. DataInv => TypeOK
  <2> SUFFICES ASSUME DataInv PROVE TypeOK
    OBVIOUS
  <2>1. now \in 1..MaxTime
    BY TimeAssumption DEF DataInv, Shape
  <2>2. info.forecast = <<>> \/ Len(info.forecast) = 1
    <3>1. CASE info.forecast # <<>>
      <4>1. PICK f : info.forecast = <<f>>
        BY <3>1 DEF DataInv, Shape, ForecastOK
      <4>2. Len(<<f>>) = 1
        OBVIOUS
      <4> QED BY <4>1, <4>2
    <3> QED BY <3>1
  <2> QED BY <2>1, <2>2 DEF DataInv, Shape, SunInv, TypeOK
<1> QED BY <1>1, DataIsSound, PTL

(* Nothing of the values before a reset is shown after it, whatever the    *)
(* units and whatever else was not reset.                                  *)
THEOREM ResetIsSilent == Spec => []ClearedIsSilent
<1>1. DataInv => ClearedIsSilent
  <2> SUFFICES ASSUME DataInv, update.cleared
               PROVE  Silent(info) /\ Humidity(info) = Unset
    BY DEF ClearedIsSilent
  <2>1. info.forecast = <<>> /\ \A x \in DOMAIN NoWeather : info[x] = NoWeather[x]
    BY DEF DataInv, ClearInv
  <2>2. /\ info.temp = Unset /\ info.min = Unset /\ info.max = Unset
        /\ info.humidity = Unset /\ info.windspeed = Unset /\ info.pressure = Unset
        /\ info.visibility = Unset /\ info.sky = Unset /\ info.cond = NoConditions
    BY <2>1, WeatherNames DEF NoWeather
  <2>3. Humidity(info) = Unset
    BY <2>2 DEF Humidity, CalcHumidity
  <2>4. CalcApparent(info) = Unset
    BY <2>2 DEF CalcApparent, Unset
  <2>5. \A u, s, m : TemperatureValue(Unset, u, s, m) = NoValue
    BY DEF TemperatureValue
  <2>6. /\ ValueTemp(info, "default", "default", TRUE) = NoValue
        /\ ValueTempMin(info, "default", "default", TRUE) = NoValue
        /\ ValueTempMax(info, "default", "default", TRUE) = NoValue
        /\ ValueApparent(info, "default", "default", TRUE) = NoValue
    BY <2>2, <2>4, <2>5 DEF ValueTemp, ValueTempMin, ValueTempMax, ValueApparent
  <2>7. /\ ValueWind(info, "default", "default", TRUE) = NoValue
        /\ ValuePressure(info, "default", "default", TRUE) = NoValue
        /\ ValueVisibility(info, "default", "default", TRUE) = NoValue
        /\ ValueSky(info) = NoValue /\ ValueConditions(info) = NoValue
    BY <2>2 DEF ValueWind, ValuePressure, PressureValue, ValueVisibility, DistanceValue,
       ValueSky, ValueConditions, NoConditions
  <2> QED BY <2>1, <2>3, <2>6, <2>7 DEF Silent
<1> QED BY <1>1, DataIsSound, PTL

(* A dated report is shown whole, and what stands in for a report is the   *)
(* whole of a forecast that is near, for every report and forecast.        *)
THEOREM CurrentConditions == Spec => []ConditionsAreCurrent
BY DataIsSound, PTL DEF DataInv

-----------------------------------------------------------------------------
(* Day and night *)

(* The object after ensure_sun, in the states that matter.                 *)
LEMMA EnsuredSun ==
  ASSUME DataInv, ~update.moved, Sun[info.place] # "unknown", NEW i, i = EnsureSun(info)
  PROVE  /\ i.place = info.place /\ i.place \in Place
         /\ i.currentTime = info.currentTime /\ i.currentTime \in Nat
         /\ i.sky = info.sky /\ i.sky \in Skies
         /\ i.midnightSun <=> Sun[i.place] = "midnight sun"
         /\ i.polarNight <=> Sun[i.place] = "polar night"
         /\ i.sunAt = None <=> Sun[i.place] # "rises"
         /\ Sun[i.place] = "rises" => i.sunAt \in Nat /\ i.sunPlace = i.place
<1>1. /\ info.place \in Place /\ info.currentTime \in Nat /\ info.sky \in Skies
      /\ DOMAIN info = InfoFields
      /\ info.sunAt \in Nat \cup {None}
      /\ info.sunAt # None =>
           /\ ~info.midnightSun /\ ~info.polarNight
           /\ Sun[info.sunPlace] = "rises" /\ info.sunPlace = info.place
  BY DEF DataInv, Shape, SunInv
<1>2. None \notin Nat
  BY DEF None
<1>3. CASE info.sunAt = None
  <2>1. PICK o : o = info
    OBVIOUS
  <2>2. i = CalcSun(o)
    BY <1>3, <2>1 DEF EnsureSun
  <2>3. /\ i.midnightSun <=> Sun[o.place] = "midnight sun"
        /\ i.polarNight <=> Sun[o.place] = "polar night"
        /\ i.sunAt = IF Sun[o.place] = "rises" THEN o.currentTime ELSE None
        /\ i.sunPlace = o.place
        /\ \A x \in InfoFields \ {"midnightSun", "polarNight", "sunAt", "sunPlace"} : i[x] = o[x]
    BY <1>1, <2>1, <2>2, CalcSunLemma
  <2>4. i.place = o.place /\ i.currentTime = o.currentTime /\ i.sky = o.sky
    BY <2>3, WeatherNames DEF InfoFields
  <2> QED BY <1>1, <1>2, <2>1, <2>3, <2>4
<1>4. CASE info.sunAt # None
  <2>1. i = info
    BY <1>4 DEF EnsureSun
  <2> QED BY <1>1, <1>2, <1>4, <2>1
<1> QED BY <1>3, <1>4

(* With the sun of the day of t, it is up between the times that are kept. *)
LEMMA SunOfDay ==
  ASSUME NEW place \in Place, NEW s \in Nat, NEW t \in Nat, PlaceDay(place, s) = PlaceDay(place, t)
  PROVE  (t >= Rise(LocalMidnight(place, s)) /\ t < Set(LocalMidnight(place, s)))
           <=> ((t + Zone[place]) % Day) \in (Day \div 4)..((3 * Day) \div 4 - 1)
<1>1. PICK z \in Int : z = Zone[place]
  <2>1. Zone[place] \in (-Day)..Day
    BY PlaceAssumption
  <2>2. Day \in Int
    BY TimeAssumption
  <2> QED BY <2>1, <2>2
<1>2. PICK q \in Int, r \in Int :
        q = PlaceDay(place, t) /\ r = (t + Zone[place]) % Day /\ t + z = Day * q + r
  <2>1. t + z \in Int
    OBVIOUS
  <2> QED BY <1>1, <2>1, DayAndHour DEF PlaceDay
<1>3. LocalMidnight(place, s) = Day * q - z
  BY <1>1, <1>2, MidnightOfPlace
<1>4. PICK n \in Int : n = Day * q
  BY <1>2, TimeAssumption
<1>5. t = n - z + r
  BY <1>1, <1>2, <1>4
<1>6. PICK a \in Int, b \in Int : a = Day \div 4 /\ b = (3 * Day) \div 4
  BY SunHours
<1>7. Rise(LocalMidnight(place, s)) = n - z + a /\ Set(LocalMidnight(place, s)) = n - z + b
  BY <1>3, <1>4, <1>6 DEF Rise, Set
<1>8. t >= n - z + a /\ t < n - z + b <=> r \in a..(b - 1)
  BY <1>1, <1>2, <1>4, <1>5, <1>6
<1> QED BY <1>2, <1>6, <1>7, <1>8

(* It is day for the object just when the sun is up at its place and time. *)
THEOREM DayIsDay == Spec => []DaytimeIsRight
<1>1. ASSUME DataInv PROVE DaytimeIsRight
  <2>1. PICK i : i = EnsureSun(info)
    OBVIOUS
  <2> SUFFICES ASSUME ~update.moved, Sun[i.place] \in {"rises", "midnight sun", "polar night"},
                      SameDay(i.place, i.sunAt, i.currentTime)
               PROVE  /\ IsDaytime(i) <=> SunIsUp(i.place, i.currentTime)
                      /\ IconName(i, IsDaytime(i)) \in {"clear-night", "few-clouds-night"}
                           => ~SunIsUp(i.place, i.currentTime)
    BY <2>1 DEF DaytimeIsRight
  <2>2. i.place = info.place
    <3>1. PICK o : o = info
      OBVIOUS
    <3>2. DOMAIN o = InfoFields
      BY <1>1, <3>1 DEF DataInv, Shape
    <3>3. CalcSun(o).place = o.place
      BY <3>2, CalcSunLemma, InfoNames
    <3> QED BY <2>1, <3>1, <3>3 DEF EnsureSun
  <2>3. /\ i.place \in Place /\ i.currentTime \in Nat /\ i.sky \in Skies
        /\ i.midnightSun <=> Sun[i.place] = "midnight sun"
        /\ i.polarNight <=> Sun[i.place] = "polar night"
        /\ i.sunAt = None <=> Sun[i.place] # "rises"
        /\ Sun[i.place] = "rises" => i.sunAt \in Nat /\ i.sunPlace = i.place
    BY <1>1, <2>1, <2>2, EnsuredSun
  <2>4. IsDaytime(i) <=> SunIsUp(i.place, i.currentTime)
    <3>1. CASE Sun[i.place] # "rises"
      BY <2>3, <3>1 DEF IsDaytime, SunIsUp
    <3>2. CASE Sun[i.place] = "rises"
      <4>1. PICK p \in Place, s \in Nat, t \in Nat : p = i.place /\ s = i.sunAt /\ t = i.currentTime
        BY <2>3, <3>2
      <4>2. PlaceDay(p, s) = PlaceDay(p, t)
        BY <2>3, <3>2, <4>1 DEF SameDay
      <4>3. (t >= Rise(LocalMidnight(p, s)) /\ t < Set(LocalMidnight(p, s)))
              <=> ((t + Zone[p]) % Day) \in (Day \div 4)..((3 * Day) \div 4 - 1)
        BY <4>2, SunOfDay
      <4>4. IsDaytime(i) <=> t >= Rise(LocalMidnight(p, s)) /\ t < Set(LocalMidnight(p, s))
        BY <2>3, <3>2, <4>1 DEF IsDaytime, Sunrise, Sunset
      <4>5. SunIsUp(p, t) <=> ((t + Zone[p]) % Day) \in (Day \div 4)..((3 * Day) \div 4 - 1)
        BY <3>2, <4>1 DEF SunIsUp
      <4> QED BY <4>1, <4>3, <4>4, <4>5
    <3> QED BY <3>1, <3>2
  <2>5. IconName(i, TRUE) \notin {"clear-night", "few-clouds-night"}
    BY <2>3 DEF IconName, ConditionIcon, SkyIcon, Skies, Unset
  <2> QED BY <2>4, <2>5
<1> QED BY <1>1, DataIsSound, PTL

-----------------------------------------------------------------------------
(* The next event *)

(* The earliest time of a set that has one.                                *)
LEMMA EarliestLemma ==
  ASSUME NEW S, NEW e \in S, S \subseteq Int, \A t \in S : e <= t
  PROVE  Earliest(S) = e
<1>1. \A x \in S : (\A t \in S : x <= t) => x = e
  OBVIOUS
<1> QED BY <1>1 DEF Earliest

(* In the user's zone, what comes after now on its day: midnight, and the  *)
(* sunrise and the sunset if they are still to come.                       *)
LEMMA EventsOfDay ==
  ASSUME DataInv, NEW place \in Place, Zone[place] = 0, Sun[place] = "rises",
         NEW n \in Int, n = Day * (now \div Day), NEW t \in Int
  PROVE  t \in EventsAhead(place) /\ t <= n + Day <=>
           /\ t > now
           /\ t \in {n + Day, n + Day \div 4, n + (3 * Day) \div 4}
<1>1. Day \in Int /\ Day > 3 /\ now \in Nat
  BY TimeAssumption DEF DataInv, Shape
<1>2. PICK a \in Int, b \in Int :
        a = Day \div 4 /\ b = (3 * Day) \div 4 /\ 0 < a /\ a < b /\ b < Day
  BY SunHours
<1>3. PICK q \in Int : q = now \div Day /\ n = Day * q
  <2>1. now \div Day \in Int
    BY <1>1
  <2> QED BY <2>1
<1>4. n <= now /\ now < n + Day
  BY <1>1, <1>3, DayAndHour
<1>5. \A r \in 0..Day - 1 : (n + r) % Day = r
  BY <1>3, DayIsUnique
<1>6. (n + Day) % Day = 0
  <2>1. n + Day = Day * (q + 1) + 0 /\ q + 1 \in Int /\ 0 \in 0..Day - 1
    BY <1>1, <1>3
  <2> QED BY <2>1, DayIsUnique
<1>7. \A u \in Int : SunIsUp(place, u) <=> (u % Day) \in a..(b - 1)
  <2>1. \A u \in Int : u + 0 = u
    OBVIOUS
  <2> QED BY <1>2, <2>1 DEF SunIsUp
<1>8. CASE t <= now \/ t > n + Day
  BY <1>1, <1>2, <1>4, <1>8 DEF EventsAhead
<1>9. CASE t > now /\ t = n + Day
  BY <1>1, <1>4, <1>6, <1>9 DEF EventsAhead
<1>10. CASE t > now /\ t < n + Day
  <2>1. PICK r \in 1..Day - 1 : t = n + r
    <3>1. t - n \in 1..Day - 1 /\ t = n + (t - n)
      BY <1>1, <1>4, <1>10
    <3> QED BY <3>1
  <2>2. t % Day = r /\ (t - 1) % Day = r - 1
    <3>1. r \in 0..Day - 1 /\ r - 1 \in 0..Day - 1 /\ t - 1 = n + (r - 1)
      BY <1>1, <2>1
    <3> QED BY <1>5, <2>1, <3>1
  <2>3. SunIsUp(place, t) <=> r \in a..(b - 1)
    BY <1>7, <2>2
  <2>4. SunIsUp(place, t - 1) <=> r - 1 \in a..(b - 1)
    BY <1>7, <2>2
  <2>5. (r \in a..(b - 1)) # (r - 1 \in a..(b - 1)) <=> r = a \/ r = b
    BY <1>2, <2>1
  <2>6. t \in EventsAhead(place) <=> r = a \/ r = b
    <3>1. t \in now + 1..now + Day
      BY <1>1, <1>4, <1>10
    <3>2. (SunIsUp(place, t) # SunIsUp(place, t - 1)) <=> r = a \/ r = b
      BY <2>3, <2>4, <2>5 DEF SunIsUp
    <3> QED BY <2>1, <2>2, <3>1, <3>2 DEF EventsAhead
  <2> QED BY <1>1, <1>2, <1>10, <2>1, <2>6
<1>11. t <= now \/ t > n + Day \/ (t > now /\ t = n + Day) \/ (t > now /\ t < n + Day)
  <2>1. PICK m \in Int, k \in Int : m = n + Day /\ k = now
    BY <1>1
  <2>2. t <= k \/ t > m \/ (t > k /\ t = m) \/ (t > k /\ t < m)
    OBVIOUS
  <2> QED BY <2>1, <2>2
<1> QED BY <1>8, <1>9, <1>10, <1>11

(* Where the sun does not rise, only the midnights are ahead.              *)
LEMMA MidnightIsAhead ==
  ASSUME DataInv, NEW place \in Place, Sun[place] # "rises",
         NEW n \in Int, n = Day * (now \div Day)
  PROVE  EventsAhead(place) = {n + Day}
<1>1. Day \in Int /\ Day > 3 /\ now \in Nat
  BY TimeAssumption DEF DataInv, Shape
<1>2. PICK q \in Int : q = now \div Day /\ n = Day * q
  <2>1. now \div Day \in Int
    BY <1>1
  <2> QED BY <2>1
<1>3. n <= now /\ now < n + Day
  BY <1>1, <1>2, DayAndHour
<1>4. (n + Day) % Day = 0
  <2>1. n + Day = Day * (q + 1) + 0 /\ q + 1 \in Int /\ 0 \in 0..Day - 1
    BY <1>1, <1>2
  <2> QED BY <2>1, DayIsUnique
<1>5. \A u, v \in Int : SunIsUp(place, u) = SunIsUp(place, v)
  BY DEF SunIsUp
<1>6. ASSUME NEW t \in now + 1..now + Day
      PROVE  t % Day = 0 <=> t = n + Day
  <2>1. CASE t = n + Day
    BY <1>4, <2>1
  <2>2. CASE t < n + Day
    <3>1. t - n \in 1..Day - 1 /\ t = n + (t - n)
      BY <1>1, <1>3, <2>2
    <3>2. PICK r \in 1..Day - 1 : t = n + r
      BY <3>1
    <3>3. \A s \in 0..Day - 1 : (n + s) % Day = s
      BY <1>2, DayIsUnique
    <3>4. t % Day = r
      <4>1. r \in 0..Day - 1
        BY <1>1, <3>2
      <4>2. (n + r) % Day = r
        BY <3>3, <4>1
      <4> QED BY <3>2, <4>2
    <3> QED BY <1>1, <2>2, <3>2, <3>4
  <2>3. CASE t > n + Day
    <3>1. t - (n + Day) \in 1..Day - 1 /\ t = (n + Day) + (t - (n + Day))
      BY <1>1, <1>3, <2>3
    <3>2. PICK r \in 1..Day - 1 : t = (n + Day) + r
      BY <3>1
    <3>3. PICK q1 \in Int, n1 \in Int : q1 = q + 1 /\ n1 = n + Day /\ n1 = Day * q1
      BY <1>1, <1>2
    <3>4. \A s \in 0..Day - 1 : (n1 + s) % Day = s
      BY <3>3, DayIsUnique
    <3>5. t % Day = r
      <4>1. r \in 0..Day - 1
        BY <1>1, <3>2
      <4>2. (n1 + r) % Day = r
        BY <3>4, <4>1
      <4> QED BY <3>2, <3>3, <4>2
    <3> QED BY <1>1, <2>3, <3>2, <3>5
  <2> QED BY <1>1, <2>1, <2>2, <2>3
<1>7. n + Day \in now + 1..now + Day
  BY <1>1, <1>3
<1>8. \A t \in now + 1..now + Day : SunIsUp(place, t) = SunIsUp(place, t - 1)
  BY <1>1, <1>5
<1> QED BY <1>6, <1>7, <1>8 DEF EventsAhead

(* The next event is the next one, in the zone of the user.                *)
THEOREM EventIsNext == Spec => []NextSunEventIsNext
<1>1. ASSUME DataInv PROVE NextSunEventIsNext
  <2>1. PICK i : i = EnsureSun(info)
    OBVIOUS
  <2> SUFFICES ASSUME ~update.moved, Zone[i.place] = 0, Sun[i.place] # "unknown",
                      SameDay(i.place, i.sunAt, now)
               PROVE  NextSunEvent(i) = Earliest(EventsAhead(i.place))
    BY <2>1 DEF NextSunEventIsNext
  <2>2. i.place = info.place
    <3>1. PICK o : o = info
      OBVIOUS
    <3>2. DOMAIN o = InfoFields
      BY <1>1, <3>1 DEF DataInv, Shape
    <3>3. CalcSun(o).place = o.place
      BY <3>2, CalcSunLemma, InfoNames
    <3> QED BY <2>1, <3>1, <3>3 DEF EnsureSun
  <2>3. /\ i.place \in Place
        /\ i.sunAt = None <=> Sun[i.place] # "rises"
        /\ Sun[i.place] = "rises" => i.sunAt \in Nat /\ i.sunPlace = i.place
    BY <1>1, <2>1, <2>2, EnsuredSun
  <2>4. Day \in Int /\ Day > 3 /\ now \in Nat
    BY <1>1, TimeAssumption DEF DataInv, Shape
  <2>5. PICK q \in Int, n \in Int : q = now \div Day /\ n = Day * q
    <3>1. now \div Day \in Int
      BY <2>4
    <3>2. PICK q \in Int : q = now \div Day
      BY <3>1
    <3>3. Day * q \in Int
      BY <2>4
    <3> QED BY <3>2, <3>3
  <2>6. n <= now /\ now < n + Day /\ UserMidnight = n + Day
    <3>1. now % Day \in 0..Day - 1 /\ now = n + (now % Day)
      <4>1. PICK t \in Int : t = now
        BY <2>4
      <4>2. /\ t \div Day \in Int /\ t % Day \in 0..Day - 1
            /\ t = Day * (t \div Day) + (t % Day)
        BY DayAndHour
      <4> QED BY <2>5, <4>1, <4>2
    <3>2. PICK r \in 0..Day - 1 : r = now % Day /\ now = n + r
      BY <3>1
    <3>3. UserMidnight = now - r + Day
      BY <3>2 DEF UserMidnight
    <3>4. UserMidnight = n + Day
      BY <2>4, <2>5, <3>2, <3>3
    <3>5. n <= now /\ now < n + Day
      BY <2>4, <2>5, <3>2
    <3> QED BY <3>4, <3>5
  <2>7. CASE Sun[i.place] # "rises"
    <3>1. EventsAhead(i.place) = {n + Day}
      BY <1>1, <2>3, <2>5, <2>7, MidnightIsAhead
    <3>2. NextSunEvent(i) = Earliest({n + Day})
      BY <2>3, <2>6, <2>7 DEF NextSunEvent
    <3> QED BY <3>1, <3>2
  <2>8. CASE Sun[i.place] = "rises"
    <3>1. PICK p \in Place, s \in Nat : p = i.place /\ s = i.sunAt
      BY <2>3, <2>8
    <3>2. PlaceDay(p, s) = q
      <4>1. PlaceDay(p, s) = PlaceDay(p, now)
        BY <2>3, <2>8, <3>1 DEF SameDay
      <4>2. now + Zone[p] = now
        BY <2>4, <3>1
      <4> QED BY <2>5, <4>1, <4>2 DEF PlaceDay
    <3>3. LocalMidnight(p, s) = n
      <4>1. LocalMidnight(p, s) = Day * PlaceDay(p, s) - Zone[p]
        BY MidnightOfPlace
      <4> QED BY <2>5, <3>1, <3>2, <4>1
    <3>4. PICK a \in Int, b \in Int :
            a = Day \div 4 /\ b = (3 * Day) \div 4 /\ 0 < a /\ a < b /\ b < Day
      BY SunHours
    <3>5. Sunrise(i) = n + a /\ Sunset(i) = n + b
      BY <2>3, <2>8, <3>1, <3>3, <3>4 DEF Sunrise, Sunset, Rise, Set
    <3>6. PICK S : S = {n + Day} \cup {t \in {n + a, n + b} : t > now}
      OBVIOUS
    <3>7. NextSunEvent(i) = Earliest(S)
      BY <2>3, <2>6, <2>8, <3>5, <3>6 DEF NextSunEvent
    <3>8. PICK e \in S : \A t \in S : e <= t
      BY <2>4, <3>4, <3>6
    <3>9. S \subseteq Int /\ \A t \in S : t > now /\ t <= n + Day
      BY <2>4, <2>6, <3>4, <3>6
    <3>10. Earliest(S) = e
      BY <3>8, <3>9, EarliestLemma
    <3>11. PICK T : T = EventsAhead(p)
      OBVIOUS
    <3>12. \A t \in Int : t \in T /\ t <= n + Day <=> t \in S
      <4>1. ASSUME NEW t \in Int
            PROVE  t \in T /\ t <= n + Day <=> t > now /\ t \in {n + Day, n + a, n + b}
        BY <1>1, <2>5, <2>8, <3>1, <3>4, <3>11, EventsOfDay
      <4> QED BY <2>6, <3>6, <4>1
    <3>13. T \subseteq Int
      BY <2>4, <3>11 DEF EventsAhead
    <3>14. e \in T /\ \A t \in T : e <= t
      BY <2>4, <3>8, <3>9, <3>12, <3>13
    <3>15. Earliest(T) = e
      BY <3>13, <3>14, EarliestLemma
    <3> QED BY <3>1, <3>7, <3>10, <3>11, <3>15
  <2> QED BY <2>7, <2>8
<1> QED BY <1>1, DataIsSound, PTL

=============================================================================
