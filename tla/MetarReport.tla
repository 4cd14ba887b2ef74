------------------------------ MODULE MetarReport ------------------------------
(***************************************************************************)
(* What weather-metar.c makes of one METAR report: the words of the report *)
(* that one of its regular expressions matches are read from left to right *)
(* up to the remarks; each is a record with the name of its expression.    *)
(***************************************************************************)
EXTENDS Integers

CONSTANT MonthLength  \* days in a month, more than one
ASSUME MonthLengthAssumption == MonthLength \in Nat \ {0, 1}

-----------------------------------------------------------------------------
(* The time *)

DayOf(hours) == hours \div 24
DayOfMonth(day) == (day % MonthLength) + 1

(* localtime_r: clock has the time of the reading in hours, and by how     *)
(* many the local time is ahead of UTC.                                    *)
LocalDay(clock) == DayOf(clock.now + clock.offset)

\* Fault: the first of the month is not told from the other days.
MakeTimeThisMonth(clock, date, hour) ==
  24 * (LocalDay(clock) - DayOfMonth(LocalDay(clock)) + date) + hour

(* make_time: the day of the report is one of the current month, of local  *)
(* time, or the last one of the month before.  mktime takes its argument   *)
(* for local time, and the offset is added again.                          *)
MakeTime(clock, date, hour) ==
  LET mday == DayOfMonth(LocalDay(clock))
      day  == IF date > mday /\ mday = 1 THEN 0 ELSE date
  IN 24 * (LocalDay(clock) - mday + day) + hour

-----------------------------------------------------------------------------
(* Wind *)

\* Fault: the last half sector is not the first again.
MetarWindUnwrapped(dir) == IF dir < 0 \/ dir > 360 THEN 0 ELSE (4 * dir + 45) \div 90

(* metar_tok_wind.  The sixteen directions count from GWEATHER_WIND_N on;  *)
(* the bounds are at every 22.5 degrees, rounded to whole ones.            *)
(* Variable winds (VRB, -1) are read as north.                             *)
MetarWind(dir) == IF dir < 0 \/ dir > 360 THEN 0 ELSE (((4 * dir + 45) \div 90) % 16)

-----------------------------------------------------------------------------
(* Sky *)

MetarSky(type) == CASE type \in {"CLR", "SKC", "NSC"} -> "clear"
                    [] type = "BKN" -> "broken"
                    [] type = "SCT" -> "scattered"
                    [] type = "FEW" -> "few"
                    [] type = "OVC" -> "overcast"

-----------------------------------------------------------------------------
(* Conditions *)

(* GWeatherConditionPhenomenon, from 1; 0 is NONE.                         *)
Phenomena == <<"drizzle", "rain", "snow", "snow grains", "ice crystals",
  "ice pellets", "hail", "small hail", "unknown precipitation", "mist", "fog",
  "smoke", "volcanic ash", "sand", "haze", "spray", "dust", "squall",
  "sandstorm", "duststorm", "funnel cloud", "tornado", "dust whirls">>

Enum(phenomenon) ==
  IF phenomenon = "none" THEN 0
  ELSE CHOOSE k \in DOMAIN Phenomena : Phenomena[k] = phenomenon

(* importance_scale, whose first entry has the index 0 in the code.        *)
ImportanceScale == <<0, 0, 20, 30, 35, 35, 35, 35, 35, 35, 20, 10, 15, 15, 18,
                     18, 15, 15, 15, 40, 50, 50, 70, 70, 50>>
Importance(phenomenon) == ImportanceScale[Enum(phenomenon) + 1]

Conditions(significant, phenomenon, qualifier) ==
  [significant |-> significant, phenomenon |-> phenomenon, qualifier |-> qualifier]
NoConditions == Conditions(FALSE, "none", "none")

\* Fault: the later one of two equally important conditions is shown.
ConditionAsImportant(which, than) ==
  \/ ~than.significant
  \/ which.significant /\ Importance(than.phenomenon) <= Importance(which.phenomenon)

ConditionMoreImportant(which, than) ==
  \/ ~than.significant
  \/ which.significant /\ Importance(than.phenomenon) < Importance(which.phenomenon)

(* A word of weather has an intensity sign, a descriptor and a code; the   *)
(* sign is dropped when there is a descriptor.  The plus of +FC is taken   *)
(* for a sign, unless a descriptor comes before it.                        *)
Qualifier(tok) ==
  CASE tok.qual = "VC" -> "vicinity"
    [] tok.qual = "MI" -> "shallow"
    [] tok.qual = "BC" -> "patches"
    [] tok.qual = "PR" -> "partial"
    [] tok.qual = "TS" -> "thunderstorm"
    [] tok.qual = "BL" -> "blowing"
    [] tok.qual = "SH" -> "showers"
    [] tok.qual = "DR" -> "drifting"
    [] tok.qual = "FZ" -> "freezing"
    [] tok.sign = "-"  -> "light"
    [] tok.sign = "+"  -> "heavy"
    [] OTHER           -> "moderate"

PhenomenonCodes == <<"DZ", "RA", "SN", "SG", "IC", "PL", "GR", "GS", "UP", "BR",
  "FG", "FU", "VA", "SA", "HZ", "PY", "DU", "SQ", "SS", "DS", "FC", "+FC", "PO">>

(* COND_RE matches PE, which has no meaning here, and not PL, which has.   *)
IsKnown(code) == code \in {PhenomenonCodes[k] : k \in DOMAIN PhenomenonCodes}
PhenomenonOf(code) ==
  Phenomena[CHOOSE k \in DOMAIN PhenomenonCodes : PhenomenonCodes[k] = code]
CondOf(tok) == Conditions(TRUE, PhenomenonOf(tok.phen), Qualifier(tok))

MetarTokCond(cond, tok) ==
  IF IsKnown(tok.phen) /\ ConditionMoreImportant(CondOf(tok), cond) THEN CondOf(tok) ELSE cond

-----------------------------------------------------------------------------
(* The report *)

(* What a report fills in; the values that are only scaled are kept.       *)
(* The object was reset, or has what the last report left in it.           *)
NoReport == [update |-> 0, wind |-> -1, sky |-> "invalid", visibility |-> "invalid",
             pressure |-> -1, temp |-> -1000, dew |-> -1000, cond |-> NoConditions]

(* The functions of metar_f.                                               *)
MetarRead(info, clock, tok) ==
  CASE tok.word = "time"  -> [info EXCEPT !.update = MakeTime(clock, tok.date, tok.hour)]
    [] tok.word = "wind"  -> [info EXCEPT !.wind = MetarWind(tok.dir)]
    [] tok.word = "vis"   -> IF tok.value = "CAVOK"
                             THEN [info EXCEPT !.visibility = "10 km", !.sky = "clear"]
                             ELSE [info EXCEPT !.visibility = tok.value]
    [] tok.word = "cond"  -> [info EXCEPT !.cond = MetarTokCond(@, tok)]
    [] tok.word = "cloud" -> [info EXCEPT !.sky = MetarSky(tok.type)]
    [] tok.word = "temp"  -> [info EXCEPT !.temp = tok.temp, !.dew = tok.dew]
    [] tok.word = "pres"  -> [info EXCEPT !.pressure = tok.value]
    [] OTHER              -> info

(* metar_parse forces parsing to end at the remarks.                       *)
MetarIsOver(tok) == tok.word = "RMK"
=============================================================================
