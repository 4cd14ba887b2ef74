------------------------------- MODULE MCReports -------------------------------
EXTENDS Reports, SequencesExt

NoClock == [now |-> 0, offset |-> 0]
Docs(service, lists) ==
  {[service |-> service, elements |-> l, clock |-> NoClock, issued |-> 0] : l \in lists}

\* METAR: weather words and the remarks, all winds, and a report of the last
\* day and a half in three time zones at every hour of two months.
Cond(sign, qual, phen) == [word |-> "cond", sign |-> sign, qual |-> qual, phen |-> phen]
Rmk == [word |-> "RMK"]
MetarWords == {Cond("-", "", "DZ"), Cond("", "", "BR"), Cond("+", "TS", "RA"),
               Cond("", "", "SQ"), Cond("", "VC", "+FC"), Cond("", "", "PE"), Rmk}
OtherWords == {[word |-> "vis", value |-> "CAVOK"], [word |-> "vis", value |-> "1 km"],
               [word |-> "cloud", type |-> "BKN"], [word |-> "temp", temp |-> 10, dew |-> 5],
               [word |-> "pres", value |-> 1013], [word |-> "none"]}
Winds == {[word |-> "wind", dir |-> d] : d \in -1..360}
WeatherReports == Docs("metar", SeqOf(MetarWords, 3) \cup SeqOf(OtherWords, 2)
                                \cup {<<w>> : w \in Winds})
TimedReports ==
  {[service |-> "metar",
    elements |-> <<[word |-> "time", date |-> DayOfMonth(DayOf(now - age)), hour |-> (now - age) % 24]>>,
    clock |-> [now |-> now, offset |-> o], issued |-> now - age] :
    now \in 72..215, age \in {0, 1, 11, 24, 30}, o \in {-7, 0, 9}}

\* NWS: members of a weather array.
NwsMember(w, c, i, a, l) ==
  [weather |-> w, coverage |-> c, intensity |-> i, attributes |-> a, lacks |-> l]
NwsMembers ==
  {NwsMember(w, c, i, {}, "none") : w \in {"null", "rain", "fog", "thunderstorms"},
     c \in {"null", "chance", "areas"}, i \in {"null", "heavy"}}
  \cup {NwsMember("hail", "likely", "light", {"small_hail"}, "none"),
        NwsMember("frost", "likely", "null", {"tornadoes"}, "none"),
        NwsMember("null", "null", "null", {}, "coverage"),
        NwsMember("rain", "chance", "null", {}, "intensity"),
        NwsMember("rain", "likely", "null", {}, "attributes")}

\* IWIN: two days, and up to three rows.
Layout(daily, times) == [element |-> "time-layout", daily |-> daily, times |-> times]
Parameters == [element |-> "parameters"]
Row(type, values) == [element |-> "temperature", mine |-> TRUE, type |-> type, values |-> values]
NotMine == [element |-> "temperature", mine |-> FALSE, type |-> "minimum", values |-> <<7, 7>>]
Summaries(s) == [element |-> "weather", mine |-> TRUE, summaries |-> s]
Rainy == {"Rain", "Mostly Cloudy", "Cloudy"}
Snowy == {"Blowing Snow", "Snow"}
IwinRows == {Row("maximum", <<50, 60>>), Row("maximum", <<Nil, 60>>), Row("minimum", <<40, 41>>),
             Row("minimum", <<40>>), Row("other", <<30, 31>>), NotMine,
             Summaries(<<Rainy, Snowy>>), Summaries(<<{"missing"}, Snowy>>),
             Summaries(<<{"Hot"}>>), Summaries(<<Snowy, Rainy>>)}
IwinHeads == {<<Layout(TRUE, <<1, 2>>), Parameters>>,
              <<Layout(TRUE, <<3>>), Layout(TRUE, <<1, 2>>), Layout(TRUE, <<4, 5>>), Parameters>>,
              <<Layout(FALSE, <<1, 2>>), Parameters, Layout(TRUE, <<1, 2>>)>>}
IwinDocuments == {h \o r : h \in IwinHeads, r \in SeqOf(IwinRows, 3)}

\* MET Norway: points and periods; OpenWeatherMap: numbers of the table and not.
Symbol(what, strength, thunder) == <<MetnoCode(what, strength, TRUE, thunder)>>
Time(from, to, symbol, temp) == [from |-> from, to |-> to, symbol |-> symbol, temp |-> temp]
MetnoTimes ==
  {Time(f, f, s, 20 + f) : f \in {1, 2}, s \in {<<>>, Symbol("fog", "", FALSE)}}
  \cup {Time(1, 2, s, Lacking) : s \in {<<>>, Symbol("rain", "", FALSE), Symbol("fog", "", FALSE),
                                       Symbol("snow", "heavy", TRUE), Symbol("polartwilight", "", FALSE)}}
OwmTimes == {[from |-> 1, number |-> n] : n \in {201, 500, 502, 801, 802, 900}}

AllDocuments ==
  WeatherReports \cup TimedReports
  \cup Docs("nws", SeqOf(NwsMembers, 2))
  \cup Docs("iwin", IwinDocuments)
  \cup Docs("metno", SeqOf(MetnoTimes, 4))
  \cup Docs("owm", SeqOf(OwmTimes, 2))
=============================================================================
