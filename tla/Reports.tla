-------------------------------- MODULE Reports --------------------------------
(***************************************************************************)
(* The reading of what the services send: a METAR report, the weather of   *)
(* one hour of an NWS grid, and the forecast documents of IWIN, MET Norway *)
(* and OpenWeatherMap, one element per step.  Every reader goes through    *)
(* its document once, and carries what it found from element to element.   *)
(*                                                                         *)
(* Everything runs in one callback of libsoup, and the readers share no    *)
(* state: a behaviour is the reading of one document.                      *)
(***************************************************************************)
EXTENDS Integers, Sequences, FiniteSets, NwsWeather, IwinForecast, XmlForecast

CONSTANT Documents  \* records [service, elements, clock, issued]

IsList(s) == Len(s) \in Nat /\ DOMAIN s = 1..Len(s)

(* Time is in hours; a METAR has the day and the hour at which it was      *)
(* issued.  The elements of an IWIN document are the children of data,     *)
(* followed by those of its parameters: only these have rows.              *)
ASSUME DocumentsAssumption == \A d \in Documents :
  /\ IsList(d.elements)
  /\ d.clock.now \in Int /\ d.clock.offset \in Int /\ d.issued \in Int
  /\ d.service = "metar" => \A k \in DOMAIN d.elements : d.elements[k].word = "time" =>
       /\ d.elements[k].date = DayOfMonth(DayOf(d.issued))
       /\ d.elements[k].hour = d.issued % 24
  /\ d.service = "iwin" => \A k \in DOMAIN d.elements :
       d.elements[k].element \in {"temperature", "weather"}
         => \E j \in 1..k - 1 : d.elements[j].element = "parameters"

VARIABLES
  document,  \* the document, and when it is read
  at,        \* the element to be read next
  result     \* what the reader has made of those before it

vars == <<document, at, result>>

Elements == document.elements
More == at <= Len(Elements)
Element == Elements[at]

-----------------------------------------------------------------------------
(* The readers *)

Started ==
  CASE document.service = "metar" -> NoReport
    [] document.service = "nws"   -> NwsStart
    [] document.service = "iwin"  -> IwinStart
    [] document.service \in {"metno", "owm"} -> <<>>

Init ==
  /\ document \in Documents
  /\ at = 1
  /\ result = Started

(* metar_parse: one word that a regular expression matches, up to RMK.     *)
ReadMetarWord ==
  /\ document.service = "metar" /\ More
  /\ ~MetarIsOver(Element)
  /\ result' = MetarRead(result, document.clock, Element)
  /\ at' = at + 1
  /\ UNCHANGED document

(* read_weather: one member of the array, until one is shown or the object *)
(* lacks a member.                                                         *)
ReadNwsWeather ==
  /\ document.service = "nws" /\ More
  /\ result.status = "reading"
  /\ result' = NwsReadWeather(result, Element)
  /\ at' = at + 1
  /\ UNCHANGED document

(* The last statement of read_weather, info->cond = conditions.            *)
StoreNwsWeather ==
  /\ document.service = "nws"
  /\ result.status = "found" \/ (result.status = "reading" /\ ~More)
  /\ result' = NwsEnd(result)
  /\ UNCHANGED <<document, at>>

(* parseForecastXml: one child of data, or of its parameters.              *)
ReadIwinElement ==
  /\ document.service = "iwin" /\ More
  /\ result.status # "done"
  /\ result' = IwinRead(result, Element)
  /\ at' = at + 1
  /\ UNCHANGED document

(* The removal of invalid days after the parameters.                       *)
EndIwin ==
  /\ document.service = "iwin" /\ ~More
  /\ result.status # "done"
  /\ result' = IwinEnd(result)
  /\ UNCHANGED <<document, at>>

\* Fault: g_slist_prepend instead of g_slist_append.
ReadMetnoPointPrepends ==
  /\ document.service = "metno" /\ More
  /\ MetnoIsPoint(Element)
  /\ result' = <<MetnoForecast(Elements, at)>> \o result
  /\ at' = at + 2
  /\ UNCHANGED document

(* parse_forecast_xml_new: a point takes the element after it along, and   *)
(* any other element is passed over.                                       *)
ReadMetnoPoint ==
  /\ document.service = "metno" /\ More
  /\ MetnoIsPoint(Element)
  /\ result' = Append(result, MetnoForecast(Elements, at))
  /\ at' = at + 2
  /\ UNCHANGED document

SkipMetnoPeriod ==
  /\ document.service = "metno" /\ More
  /\ ~MetnoIsPoint(Element)
  /\ at' = at + 1
  /\ UNCHANGED <<document, result>>

(* parse_forecast_xml; that the forecasts do not reach the list of the     *)
(* object is in InfoUpdate.                                                *)
ReadOwmTime ==
  /\ document.service = "owm" /\ More
  /\ result' = Append(result, OwmForecast(Element))
  /\ at' = at + 1
  /\ UNCHANGED document

Next ==
  \/ ReadMetarWord
  \/ ReadNwsWeather
  \/ StoreNwsWeather
  \/ ReadIwinElement
  \/ EndIwin
  \/ ReadMetnoPoint
  \/ SkipMetnoPeriod
  \/ ReadOwmTime

Spec == Init /\ [][Next]_vars

-----------------------------------------------------------------------------
(* METAR *)

MetarIsRead == document.service = "metar" /\ (~More \/ MetarIsOver(Element))

(* The words of one kind before the remarks.                               *)
Words(word) ==
  {k \in DOMAIN Elements : /\ Elements[k].word = word
                           /\ \A j \in 1..k : Elements[j].word # "RMK"}
Said == {k \in Words("cond") : IsKnown(Elements[k].phen)}
Meant(k) == PhenomenonOf(Elements[k].phen)

IsFirstOfMost(k, importance(_)) ==
  \A j \in Said : IF j < k THEN importance(Meant(j)) < importance(Meant(k))
                           ELSE importance(Meant(j)) <= importance(Meant(k))

(* The conditions shown are the first of the most important ones of the    *)
(* whole report, by the scale as the code reads it: what the remarks say,  *)
(* what comes later and what has no name does not count (metar_tok_cond,   *)
(* condition_more_important and the RMK of metar_parse).                   *)
FirstMostImportantIsShown ==
  MetarIsRead =>
    IF Said = {} THEN result.cond = NoConditions
    ELSE \E k \in Said : result.cond = CondOf(Elements[k]) /\ IsFirstOfMost(k, Importance)

(* The scale by the names written at its entries (weather-metar.c:272-298).*)
NamedImportance(phenomenon) == ImportanceScale[Enum(phenomenon) + 2]

(* The conditions shown are the first of the most important ones, by the   *)
(* scale as its comment says it is indexed (weather-metar.c:271).          *)
ShownByNamedImportance ==
  MetarIsRead /\ Said # {} =>
    \E k \in Said : result.cond = CondOf(Elements[k]) /\ IsFirstOfMost(k, NamedImportance)

IssueIsRead == MetarIsRead /\ Words("time") # {}

(* A report of the local day or of the day before has the time at which it *)
(* was issued, over every end of a month (make_time).                      *)
YesterdayIsDatedRight ==
  IssueIsRead /\ LocalDay(document.clock) - DayOf(document.issued) \in {0, 1}
    => result.update = document.issued

(* A report of the last 24 hours has the time at which it was issued, in   *)
(* UTC: what the comments of make_time say (weather-metar.c:29 and 38-41). *)
ReportTimeIsUtc ==
  IssueIsRead /\ document.clock.now - document.issued <= 24
    => result.update = document.issued

Distance(quarters, direction) ==
  LET d == (quarters - 90 * direction) % 1440 IN IF d > 720 THEN 1440 - d ELSE d

(* A direction of whole degrees is read as the nearest of the sixteen,     *)
(* by METAR with its 16 pairs of bounds and by the NWS with its division,  *)
(* which agree (metar_tok_wind, read_winddir of weather-nws.c).            *)
WindIsNearest ==
  MetarIsRead => \A k \in Words("wind") :
    LET dir == Elements[k].dir
    IN dir \in 0..359 /\ (\A j \in Words("wind") : j <= k) =>
         Distance(4 * dir, result.wind) <= 45 /\ NwsWind(4 * dir) = result.wind

-----------------------------------------------------------------------------
(* NWS *)

IsLikely(e) == e.coverage \notin {"slight_chance", "chance", "isolated", "scattered"}

(* The conditions of an hour are those of the first member that is more    *)
(* likely than not and that has any; they are stored only if no member up  *)
(* to that one is broken (read_weather of weather-nws.c).                  *)
FirstLikelyWeatherIsShown ==
  document.service = "nws" /\ result.status = "stored" =>
    LET shown == {k \in DOMAIN Elements : IsLikely(Elements[k]) /\ NwsIsSignificant(Elements[k])}
    IN IF shown = {} THEN result.info = NoConditions
       ELSE LET first == CHOOSE k \in shown : \A j \in shown : k <= j
            IN /\ result.info.significant
               /\ result.info.phenomenon = NwsPhenomenon(Elements[first])
               /\ \A j \in 1..first : Elements[j].lacks \notin {"weather", "coverage"}

-----------------------------------------------------------------------------
(* IWIN *)

(* The layout that is used, the first one of a full set of days, if it is  *)
(* there before the parameters.                                            *)
IsLayout(k) == /\ Elements[k].element = "time-layout"
               /\ Elements[k].daily
               /\ Len(Elements[k].times) = Days
               /\ \A j \in 1..k : Elements[j].element # "parameters"
Layouts == {k \in DOMAIN Elements : IsLayout(k)}
Stops(k) == /\ Elements[k].element = "temperature" /\ Elements[k].mine
            /\ Elements[k].type \notin {"maximum", "minimum"}
Rows(element) ==
  {k \in DOMAIN Elements :
    /\ Elements[k].element = element
    /\ Elements[k].mine
    /\ \A j \in 1..k : ~Stops(j)}

IwinIsRead == document.service = "iwin" /\ result.status = "done"

SummaryOf(k, d) ==
  IF d <= Len(Elements[k].summaries) THEN Elements[k].summaries[d] ELSE {"missing"}

(* A day of the list has what stands in its own column: missing values and *)
(* summaries do not move the ones after them to another day, and the days  *)
(* that are not valid keep their place (parseForecastXml).                 *)
ColumnsAreDays ==
  IwinIsRead => \A d \in DOMAIN result.days : result.days[d] # Null =>
    LET day  == result.days[d]
        rows == {k \in Rows("weather") : FirstContained(PhList, SummaryOf(k, d), "none") # "none"}
        read == {Elements[k].values[d] : k \in {j \in Rows("temperature") : d <= Len(Elements[j].values)}}
    IN /\ IF rows = {} THEN day.phenomenon = "none"
          ELSE LET last == CHOOSE k \in rows : \A j \in rows : j <= k
               IN day.phenomenon = FirstContained(PhList, SummaryOf(last, d), "none")
       /\ {day.min, day.max} \subseteq read \cup {Unset}
       /\ \E k \in Layouts : day.update = Elements[k].times[d] /\ \A j \in Layouts : k <= j

(* A day with a summary after its temperatures is in the list, whatever    *)
(* its temperatures are: nil in the order that copies nothing, or absent   *)
(* (nfo->valid in parseForecastXml).                                       *)
SummaryMakesDay ==
  IwinIsRead => \A k \in Rows("weather"), d \in 1..Days :
    /\ Layouts # {}
    /\ SummaryOf(k, d) # {"missing"}
    /\ \A j \in Rows("temperature") : j < k
    => d \in DOMAIN result.days /\ result.days[d] # Null

-----------------------------------------------------------------------------
(* MET Norway and OpenWeatherMap *)

IsPoint(k) == k \in DOMAIN Elements /\ MetnoIsPoint(Elements[k])

(* Of points in a row every second one is taken for the period of the one  *)
(* before it.                                                              *)
HasForecast(k) ==
  \E first \in 1..k : /\ \A j \in first..k : IsPoint(j)
                      /\ ~IsPoint(first - 1)
                      /\ (k - first) % 2 = 0

PointsRead == {k \in 1..at - 1 : HasForecast(k)}
Rank(k) == Cardinality({j \in PointsRead : j <= k})

HasWeather(k) ==
  k \in DOMAIN Elements /\ Elements[k].symbol # <<>> /\ MetnoKnows(Elements[k].symbol[1])
HasTemperature(k) == k \in DOMAIN Elements /\ Elements[k].temp # Lacking

(* The n-th forecast is that of the n-th point that has one, none is       *)
(* missing, twice there or out of order.  It has the time of the point,    *)
(* the weather and the temperature of the element after it, or the point's *)
(* own if that element has none, and is valid just when one of the two has *)
(* weather.  Points without a period between them share a forecast         *)
(* (parse_forecast_xml_new, fill_info_from_node).                          *)
ForecastsArePoints ==
  document.service = "metno" =>
    /\ Len(result) = Cardinality(PointsRead)
    /\ \A k \in PointsRead :
         LET forecast == result[Rank(k)]
             Prevailing(Has(_)) == IF Has(k + 1) THEN k + 1 ELSE k
             w == Prevailing(HasWeather)
             t == Prevailing(HasTemperature)
         IN /\ forecast.update = Elements[k].from
            /\ forecast.valid <=> HasWeather(w)
            /\ forecast.weather = IF HasWeather(w) THEN MetnoSymbol(Elements[w].symbol[1])
                                                  ELSE Unknown
            /\ forecast.temp = IF HasTemperature(t) THEN Elements[t].temp ELSE NoTemperature
=============================================================================
