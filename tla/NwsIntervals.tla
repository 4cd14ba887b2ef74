------------------------------ MODULE NwsIntervals ------------------------------
(***************************************************************************)
(* weather-nws.c: how the document of a grid point becomes forecasts.  The *)
(* document has a range of times and, for every weather variable, a list   *)
(* of values with the intervals they are for.  One forecast is made for    *)
(* every hour of the range; read_interval_values then walks through the    *)
(* forecasts and the intervals side by side.  The variables are read one   *)
(* after the other, each into a field of its own; the module has one.      *)
(***************************************************************************)
EXTENDS Integers, Sequences

CONSTANTS
  Document, \* the documents a server may send
  Hour      \* 3600 seconds

(* What a member of the list of values is good for: "broken" is not an     *)
(* object or has no validTime, "empty" has no value, and of an "unusable"  *)
(* value (a wind direction below 0, a weather that is no array) the reader *)
(* takes nothing.                                                          *)
Kind == {"good", "unusable", "empty", "broken"}

(* The two times are whatever times_from_iso8601_interval makes of them:   *)
(* both are 0 when there is no interval, and they are not ordered.         *)
Datum == [kind : Kind, start : Int, end : Int]

ASSUME NwsIntervalsAssumption ==
  /\ Hour \in Nat \ {0}
  /\ \A d \in Document : d \in [start : Int, end : Int, values : Seq(Datum)]

VARIABLES
  doc,      \* the document; a missing variable has no values
  pc,       \* which loop is running
  forecast, \* the forecasts: their hour, and the datum their value is from
  next,     \* slist: the forecast to look at
  i,        \* the datum to take values from
  prev      \* the last forecast that has its value from it, or NULL

vars == <<doc, pc, forecast, next, i, prev>>

Null == 0
NoValue == 0

Values == doc.values
Time(n) == forecast[n].time

Init ==
  /\ doc \in Document
  /\ pc = "hours"
  /\ forecast = <<>>
  /\ next = 1
  /\ i = 1
  /\ prev = Null

(* nws_finish_forecast_common: a forecast for every hour.                  *)
AddHour ==
  LET t == doc.start + Hour * Len(forecast)
  IN /\ pc = "hours"
     /\ t < doc.end
     /\ forecast' = Append(forecast, [time |-> t, value |-> NoValue])
     /\ UNCHANGED <<doc, pc, next, i, prev>>

CanRead(k) == k \in DOMAIN Values /\ Values[k].kind # "broken"

StartReading ==
  /\ pc = "hours"
  /\ ~(doc.start + Hour * Len(forecast) < doc.end)
  /\ pc' = IF CanRead(1) THEN "read" ELSE "done"
  /\ UNCHANGED <<doc, forecast, next, i, prev>>

Reading == pc = "read" /\ next <= Len(forecast)

\* Fault: the end of an interval belongs to it.
IsOverAfter(k, t) == t > Values[k].end

IsOver(k, t) == t >= Values[k].end

\* Fault: the start of the interval is not looked at.
HasStartedAlways(k, t) == TRUE

HasStarted(k, t) == t >= Values[k].start

\* Fault: the last forecast is kept for the new datum.
NextDatumKeepsPrev ==
  /\ Reading
  /\ IsOver(i, Time(next))
  /\ \/ CanRead(i + 1) /\ i' = i + 1 /\ UNCHANGED pc
     \/ ~CanRead(i + 1) /\ pc' = "done" /\ UNCHANGED i
  /\ UNCHANGED <<doc, forecast, next, prev>>

NextDatum ==
  /\ Reading
  /\ IsOver(i, Time(next))
  /\ \/ CanRead(i + 1) /\ i' = i + 1 /\ prev' = Null /\ UNCHANGED pc
     \/ ~CanRead(i + 1) /\ pc' = "done" /\ UNCHANGED <<i, prev>>
  /\ UNCHANGED <<doc, forecast, next>>

IsIn == Reading /\ ~IsOver(i, Time(next)) /\ HasStarted(i, Time(next))

(* The first forecast of an interval reads the value,                      *)
ReadValue ==
  /\ IsIn
  /\ prev = Null
  /\ Values[i].kind # "empty"
  /\ forecast' = [forecast EXCEPT ![next].value =
                    IF Values[i].kind = "good" THEN i ELSE @]
  /\ prev' = next
  /\ next' = next + 1
  /\ UNCHANGED <<doc, pc, i>>

NoValueToRead ==
  /\ IsIn
  /\ prev = Null
  /\ Values[i].kind = "empty"
  /\ pc' = "done"
  /\ UNCHANGED <<doc, forecast, next, i, prev>>

(* and the others copy it from the one before.                             *)
CopyValue ==
  /\ IsIn
  /\ prev # Null
  /\ forecast' = [forecast EXCEPT ![next].value = forecast[prev].value]
  /\ prev' = next
  /\ next' = next + 1
  /\ UNCHANGED <<doc, pc, i>>

(* An hour before the interval has no value.                               *)
SkipHour ==
  /\ Reading
  /\ ~IsOver(i, Time(next))
  /\ ~HasStarted(i, Time(next))
  /\ next' = next + 1
  /\ UNCHANGED <<doc, pc, forecast, i, prev>>

Finish ==
  /\ pc = "read"
  /\ next > Len(forecast)
  /\ pc' = "done"
  /\ UNCHANGED <<doc, forecast, next, i, prev>>

Next ==
  \/ AddHour
  \/ StartReading
  \/ NextDatum
  \/ ReadValue
  \/ NoValueToRead
  \/ CopyValue
  \/ SkipHour
  \/ Finish

Spec == Init /\ [][Next]_vars

-----------------------------------------------------------------------------
(* Properties *)

TypeOK ==
  /\ doc \in Document
  /\ pc \in {"hours", "read", "done"}
  /\ forecast \in Seq([time : Int, value : Nat])
  /\ next \in Nat
  /\ i \in Nat
  /\ prev \in Nat

Covers(k, n) == Values[k].start <= Time(n) /\ Time(n) < Values[k].end

(* A forecast never shows the value of another hour: where it has one, it  *)
(* is that of an interval which the hour lies in (the end not included),   *)
(* whether it was read or copied, and however the intervals are arranged.  *)
ValueIsOfItsHour ==
  \A n \in DOMAIN forecast :
    LET k == forecast[n].value
    IN k # NoValue => /\ k \in DOMAIN Values
                      /\ Values[k].kind = "good"
                      /\ Covers(k, n)

(* The intervals follow one another, with or without gaps.                 *)
Ordered == \A j, k \in DOMAIN Values :
             /\ j < k
             /\ Values[j].kind # "broken"
             /\ Values[k].kind # "broken"
             => Values[j].end <= Values[k].start

Intact(k) == \A j \in 1..k : Values[j].kind \in {"good", "unusable"}

(* Nothing is lost: when the list of values is ordered, every hour has the *)
(* value of its interval in the end.  A member that cannot be read ends    *)
(* the reading, and costs only the hours from there on.                    *)
NoHourIsLost ==
  pc = "done" /\ Ordered =>
    \A n \in DOMAIN forecast : \A k \in DOMAIN Values :
      /\ Covers(k, n)
      /\ Intact(k)
      /\ Values[k].kind = "good"
      => forecast[n].value = k

-----------------------------------------------------------------------------
(* The loop invariant, from which the two properties follow. *)

Hours == 1..Len(forecast)

\* The hours that next has passed, and those that it has not.
PassedHours == 1..(next - 1)
LeftHours == next..Len(forecast)

HoursFollow ==
  \A n \in Hours : Time(n) = doc.start + Hour * (n - 1)

Position ==
  /\ next \in 1..(Len(forecast) + 1)
  /\ i \in Nat \ {0}
  /\ prev # Null => prev = next - 1
  /\ pc = "hours" => next = 1 /\ i = 1 /\ prev = Null
  /\ pc = "read" => CanRead(i)

NotYetRead == \A n \in LeftHours : forecast[n].value = NoValue

\* What there is to copy is still for the datum that is being read.
PrevIsCurrent ==
  prev # Null =>
    /\ prev \in Hours
    /\ i \in DOMAIN Values
    /\ Values[i].kind \in {"good", "unusable"}
    /\ Covers(i, prev)
    /\ forecast[prev].value = IF Values[i].kind = "good" THEN i ELSE NoValue

\* The data before i are of no use to any hour that is left,
DataAreOver ==
  pc = "read" =>
    \A j \in 1..(i - 1) : \A n \in LeftHours : IsOver(j, Time(n))

\* and when the reading has ended no datum is.
NothingIsLeft ==
  pc = "done" =>
    \A n \in LeftHours : \A k \in DOMAIN Values :
      ~(Covers(k, n) /\ Intact(k) /\ Values[k].kind = "good")

HasItsValue(n) ==
  \A k \in DOMAIN Values :
    Covers(k, n) /\ Intact(k) /\ Values[k].kind = "good" => forecast[n].value = k

PassedAreComplete == Ordered => \A n \in PassedHours : HasItsValue(n)

(* The loop invariant of read_interval_values and of the loop before it:   *)
(* what prev is for, which data are over, and which hours are complete.    *)
IInv ==
  /\ TypeOK
  /\ HoursFollow
  /\ Position
  /\ NotYetRead
  /\ PrevIsCurrent
  /\ DataAreOver
  /\ NothingIsLeft
  /\ PassedAreComplete
  /\ ValueIsOfItsHour
=============================================================================
