------------------------------ MODULE XmlForecast ------------------------------
(***************************************************************************)
(* The forecast documents of MET Norway (weather-metno.c) and of           *)
(* OpenWeatherMap (weather-owm.c): their time elements in order, and the   *)
(* symbols that are made into a sky and conditions.                        *)
(***************************************************************************)
EXTENDS Integers, Sequences, MetarReport

Weather(sky, conditions) == [sky |-> sky, cond |-> conditions]
Clouds(sky) == Weather(sky, NoConditions)
Unknown == Clouds("invalid")

NoTemperature == -1000
NewForecast(from) == [update |-> from, valid |-> FALSE, temp |-> NoTemperature, weather |-> Unknown]

-----------------------------------------------------------------------------
(* MET Norway *)

(* A code without its variant (_day, _night) is composed of four parts.    *)
(* The symbols without precipitation have only the first.                  *)
MetnoDry == [clearsky     |-> Clouds("clear"),
             fair         |-> Clouds("broken"),
             partlycloudy |-> Clouds("scattered"),
             cloudy       |-> Clouds("overcast"),
             fog          |-> Weather("clear", Conditions(TRUE, "fog", "none"))]
MetnoWet == {"rain", "sleet", "snow"}
MetnoCode(what, strength, showers, thunder) ==
  [what |-> what, strength |-> strength, showers |-> showers, thunder |-> thunder]

MetnoPhenomenon(code) ==
  CASE code.what = "rain"  -> IF code.strength = "light" THEN "drizzle" ELSE "rain"
    [] code.what = "sleet" -> "ice pellets"
    [] code.what = "snow"  -> "snow"

MetnoQualifier(code) ==
  CASE code.what # "rain" /\ code.strength # ""  -> code.strength
    [] code.thunder                              -> "thunderstorm"
    [] code.what = "rain" /\ code.strength = ""  -> "light"
    [] OTHER                                     -> "none"

(* symbol_search: the entries with precipitation follow one rule.          *)
MetnoKnows(code) == code.what \in DOMAIN MetnoDry \cup MetnoWet
MetnoSymbol(code) ==
  IF code.what \in DOMAIN MetnoDry THEN MetnoDry[code.what]
  ELSE Weather(IF code.showers THEN "broken" ELSE "overcast",
               Conditions(TRUE, MetnoPhenomenon(code), MetnoQualifier(code)))

Lacking == -2000   \* an element that is not there

(* fill_info_from_node: what an element lacks stays as it is.  Only a      *)
(* symbol makes a forecast valid.                                          *)
MetnoFill(info, e) ==
  LET warm == IF e.temp = Lacking THEN info ELSE [info EXCEPT !.temp = e.temp]
  IN IF e.symbol # <<>> /\ MetnoKnows(e.symbol[1])
     THEN [warm EXCEPT !.valid = TRUE, !.weather = MetnoSymbol(e.symbol[1])] ELSE warm

(* An element whose ends are the same is a point of time.                  *)
MetnoIsPoint(e) == e.from = e.to

(* The body of the loop of parse_forecast_xml_new: the element after a     *)
(* point, whatever it is, is read into the same forecast.                  *)
MetnoForecast(doc, at) ==
  LET point == MetnoFill(NewForecast(doc[at].from), doc[at])
  IN IF at < Len(doc) THEN MetnoFill(point, doc[at + 1]) ELSE point

-----------------------------------------------------------------------------
(* OpenWeatherMap *)

(* symbols: the entries with one meaning are together.                     *)
OwmOf(phenomenon, qualifier) ==
  Weather("overcast", Conditions(TRUE, phenomenon, qualifier))
OwmHazy(phenomenon) == Weather("clear", Conditions(TRUE, phenomenon, "none"))

OwmNumbers == {200, 201, 202, 210, 211, 212, 221, 230, 231, 232,
               300, 301, 302, 310, 311, 312, 321,
               500, 501, 502, 503, 504, 511, 520, 521, 522,
               600, 601, 602, 611, 621, 701, 711, 721, 731, 741,
               800, 801, 802, 803, 804, 900, 901, 902, 903, 904, 905, 906}

OwmTable(n) ==
  CASE n \in 200..221        -> OwmOf("rain", "thunderstorm")
    [] n \in 230..232        -> OwmOf("drizzle", "thunderstorm")
    [] n \in {300, 310}      -> OwmOf("drizzle", "light")
    [] n \in {301, 311}      -> OwmOf("drizzle", "none")
    [] n \in {302, 312}      -> OwmOf("drizzle", "heavy")
    [] n = 321               -> OwmOf("drizzle", "showers")
    [] n = 500               -> OwmOf("rain", "light")
    [] n = 501               -> OwmOf("rain", "moderate")
    [] n \in 502..504        -> OwmOf("rain", "heavy")
    [] n = 511               -> OwmOf("rain", "freezing")
    [] n \in 520..522        -> OwmOf("rain", "showers")
    [] n = 600               -> OwmOf("snow", "light")
    [] n = 601               -> OwmOf("snow", "none")
    [] n = 602               -> OwmOf("snow", "heavy")
    [] n = 611               -> OwmOf("ice pellets", "none")
    [] n = 621               -> OwmOf("snow", "showers")
    [] n = 701               -> OwmHazy("mist")
    [] n = 711               -> OwmHazy("smoke")
    [] n = 721               -> OwmHazy("haze")
    [] n = 731               -> OwmHazy("dust whirls")
    [] n = 741               -> OwmHazy("fog")
    [] n = 801               -> Clouds("few")
    [] n = 802               -> Clouds("scattered")
    [] n = 803               -> Clouds("broken")
    [] n = 804               -> Clouds("overcast")
    [] n \in 900..902        -> OwmOf("tornado", "none")
    [] n = 906               -> OwmOf("hail", "none")
    [] n \in {800} \cup 903..905 -> Clouds("clear")

(* read_symbol looks for the number before the one in the document.        *)
OwmSymbol(number) == number - 1

(* make_info_from_node.                                                    *)
OwmForecast(e) ==
  LET info == NewForecast(e.from)
  IN IF OwmSymbol(e.number) \in OwmNumbers
     THEN [info EXCEPT !.valid = TRUE, !.weather = OwmTable(OwmSymbol(e.number))] ELSE info
=============================================================================
