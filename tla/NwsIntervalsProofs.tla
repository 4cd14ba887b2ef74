--------------------------- MODULE NwsIntervalsProofs ---------------------------
(***************************************************************************)
(* What read_interval_values promises, proved for every document and every *)
(* number of hours.                                                        *)
(***************************************************************************)
EXTENDS NwsIntervals, TLAPS

-----------------------------------------------------------------------------
(* Documents and times *)

(* What the parser gives: a list of data with two times each.              *)
LEMMA DocumentParts ==
  ASSUME doc \in Document
  PROVE  /\ doc.start \in Int
         /\ doc.end \in Int
         /\ Values \in Seq(Datum)
         /\ Len(Values) \in Nat
         /\ DOMAIN Values = 1..Len(Values)
         /\ \A k \in DOMAIN Values :
              /\ Values[k].kind \in Kind
              /\ Values[k].start \in Int
              /\ Values[k].end \in Int
<1>1. doc \in [start : Int, end : Int, values : Seq(Datum)]
  BY NwsIntervalsAssumption
<1>2. Values \in Seq(Datum)
  BY <1>1 DEF Values
<1>3. \A k \in DOMAIN Values : Values[k] \in Datum
  BY <1>2
<1> QED
  BY <1>1, <1>2, <1>3 DEF Datum

(* The hours follow one another in the list of forecasts.                  *)
LEMMA HoursIncrease ==
  ASSUME TypeOK, HoursFollow
  PROVE  /\ \A n \in Hours : Time(n) \in Int
         /\ \A m, n \in Hours : m <= n => Time(m) <= Time(n)
<1>1. doc.start \in Int
  BY DocumentParts DEF TypeOK
<1>2. Len(forecast) \in Nat
  BY DEF TypeOK
<1>3. ASSUME NEW m \in Nat, NEW n \in Nat, m <= n
      PROVE  Hour * m <= Hour * n
  <2>1. Hour \in Nat
    BY NwsIntervalsAssumption
  <2>2. PICK d \in Nat : n = m + d
    <3>1. n - m \in Nat /\ n = m + (n - m)
      BY <1>3
    <3> QED
      BY <3>1
  <2>3. Hour * d \in Nat
    BY <2>1
  <2>4. Hour * n = Hour * m + Hour * d
    BY <2>1, <2>2
  <2>5. Hour * m \in Nat
    BY <2>1
  <2> QED
    BY <2>3, <2>4, <2>5
<1>4. \A n \in Hours : n - 1 \in Nat /\ Hour * (n - 1) \in Int
  BY <1>2, NwsIntervalsAssumption DEF Hours
<1>5. \A n \in Hours : Time(n) \in Int
  BY <1>1, <1>4 DEF HoursFollow
<1>6. ASSUME NEW m \in Hours, NEW n \in Hours, m <= n
      PROVE  Time(m) <= Time(n)
  <2>1. m - 1 <= n - 1
    BY <1>2, <1>6 DEF Hours
  <2>2. Hour * (m - 1) <= Hour * (n - 1)
    BY <1>3, <1>4, <2>1
  <2>3. Time(m) = doc.start + Hour * (m - 1) /\ Time(n) = doc.start + Hour * (n - 1)
    BY DEF HoursFollow
  <2>4. \A a, b, c \in Int : a <= b => c + a <= c + b
    OBVIOUS
  <2> QED
    BY <1>1, <1>4, <2>2, <2>3, <2>4
<1> QED
  BY <1>5, <1>6

-----------------------------------------------------------------------------
(* The steps *)

LEMMA InitIInv == Init => IInv
<1> SUFFICES ASSUME Init PROVE IInv
  OBVIOUS
<1>1. forecast = <<>> /\ Len(forecast) = 0 /\ DOMAIN forecast = {}
  BY DEF Init
<1>2. Hours = {} /\ LeftHours = {} /\ PassedHours = {}
  BY <1>1 DEF Hours, LeftHours, PassedHours, Init
<1> QED
  BY <1>1, <1>2 DEF Init, IInv, TypeOK, HoursFollow, Position, NotYetRead, PrevIsCurrent,
     DataAreOver, NothingIsLeft, PassedAreComplete, ValueIsOfItsHour, Null

(* The document does not change, nor do the hours once they are made.      *)
LEMMA SameHours ==
  ASSUME TypeOK, UNCHANGED doc, Len(forecast') = Len(forecast),
         \A n \in Hours : Time(n)' = Time(n)
  PROVE  /\ Values' = Values
         /\ Hours' = Hours
         /\ Ordered' = Ordered
         /\ HoursFollow => HoursFollow'
         /\ \A k \in DOMAIN Values : Intact(k)' = Intact(k)
         /\ \A k : CanRead(k)' = CanRead(k)
         /\ \A k \in DOMAIN Values : \A n \in Hours : Covers(k, n)' = Covers(k, n)
<1>1. Values' = Values
  BY DEF Values
<1>2. Hours' = Hours
  BY DEF Hours
<1> QED
  BY <1>1, <1>2 DEF Ordered, HoursFollow, Intact, CanRead, Covers

LEMMA AddHourStep ==
  ASSUME IInv, AddHour
  PROVE  IInv'
<1>1. /\ doc.start \in Int
      /\ Len(forecast) \in Nat
      /\ Hour * Len(forecast) \in Int
  BY DocumentParts, NwsIntervalsAssumption DEF IInv, TypeOK
<1> DEFINE new == [time |-> doc.start + Hour * Len(forecast), value |-> NoValue]
<1>2. new \in [time : Int, value : Nat]
  BY <1>1 DEF NoValue
<1>3. forecast' = Append(forecast, new)
  BY DEF AddHour
<1>4. /\ forecast' \in Seq([time : Int, value : Nat])
      /\ Len(forecast') = Len(forecast) + 1
      /\ \A n \in 1..Len(forecast) : forecast'[n] = forecast[n]
      /\ forecast'[Len(forecast) + 1] = new
  BY <1>2, <1>3 DEF IInv, TypeOK
<1>5. TypeOK'
  BY <1>4 DEF IInv, TypeOK, AddHour
<1>6. \A n \in Hours' : forecast'[n].time = doc.start + Hour * (n - 1)
  <2> TAKE n \in Hours'
  <2>1. CASE n \in Hours
    BY <1>4, <2>1 DEF IInv, HoursFollow, Hours, Time
  <2>2. CASE n = Len(forecast) + 1
    <3>1. n - 1 = Len(forecast)
      BY <1>1, <2>2
    <3> QED
      BY <1>4, <2>2, <3>1
  <2> QED
    BY <1>1, <1>4, <2>1, <2>2 DEF Hours
<1>7. HoursFollow'
  BY <1>6 DEF HoursFollow, Time, AddHour
<1>8. next = 1 /\ prev = Null /\ i = i' /\ next' = 1 /\ prev' = Null /\ pc = "hours" /\ pc' = "hours"
  BY DEF IInv, Position, AddHour
<1>9. \A n \in Hours' : forecast'[n].value = NoValue
  <2> TAKE n \in Hours'
  <2>1. CASE n \in Hours
    BY <1>4, <1>8, <2>1 DEF IInv, NotYetRead, LeftHours, Hours
  <2>2. CASE n = Len(forecast) + 1
    BY <1>4, <2>2
  <2> QED
    BY <1>1, <1>4, <2>1, <2>2 DEF Hours
<1>10. Position' /\ DataAreOver' /\ NothingIsLeft' /\ PrevIsCurrent'
  BY <1>1, <1>4, <1>8 DEF IInv, Position, DataAreOver, NothingIsLeft, PrevIsCurrent
<1>11. NotYetRead'
  BY <1>8, <1>9 DEF NotYetRead, LeftHours, Hours
<1>12. PassedAreComplete'
  BY <1>8 DEF PassedAreComplete, PassedHours
<1>13. ValueIsOfItsHour'
  <2>1. DOMAIN forecast' = Hours'
    BY <1>4 DEF Hours
  <2> QED
    BY <1>9, <2>1 DEF ValueIsOfItsHour
<1> QED
  BY <1>5, <1>7, <1>10, <1>11, <1>12, <1>13 DEF IInv

LEMMA StartReadingStep ==
  ASSUME IInv, StartReading
  PROVE  IInv'
<1>1. /\ next = 1 /\ next' = 1 /\ i' = i /\ prev = Null /\ prev' = Null
      /\ forecast' = forecast
      /\ doc' = doc
      /\ pc' = IF CanRead(1) THEN "read" ELSE "done"
  BY DEF IInv, Position, StartReading
<1>2. i = 1
  BY DEF IInv, Position, StartReading
<1>3. TypeOK'
  BY <1>1 DEF IInv, TypeOK
<1>4. /\ Values' = Values /\ Hours' = Hours /\ HoursFollow'
      /\ \A k : CanRead(k)' = CanRead(k)
      /\ ValueIsOfItsHour' /\ NotYetRead' /\ PassedAreComplete'
  BY <1>1 DEF IInv, Values, Hours, HoursFollow, Time, CanRead, ValueIsOfItsHour, Covers,
     NotYetRead, LeftHours, PassedAreComplete, PassedHours
<1>5. Position' /\ PrevIsCurrent' /\ DataAreOver'
  BY <1>1, <1>2, <1>4 DEF IInv, Position, PrevIsCurrent, DataAreOver
<1>6. NothingIsLeft'
  <2>1. ASSUME ~CanRead(1), NEW k \in DOMAIN Values
        PROVE  ~Intact(k)
    <3>1. 1 \in 1..k /\ 1 \in DOMAIN Values
      BY DocumentParts DEF IInv, TypeOK
    <3>2. Values[1].kind = "broken"
      BY <2>1, <3>1 DEF CanRead
    <3> QED
      BY <3>1, <3>2 DEF Intact
  <2>2. \A k : Intact(k)' = Intact(k)
    BY <1>4 DEF Intact
  <2> QED
    BY <1>1, <1>4, <2>1, <2>2 DEF NothingIsLeft
<1> QED
  BY <1>3, <1>4, <1>5, <1>6 DEF IInv

LEMMA NextDatumStep ==
  ASSUME IInv, NextDatum
  PROVE  IInv'
<1>1. /\ next' = next /\ forecast' = forecast /\ doc' = doc
      /\ pc = "read" /\ next \in Hours /\ IsOver(i, Time(next))
  BY DEF IInv, Position, NextDatum, Reading, Hours
<1>2. \/ CanRead(i + 1) /\ i' = i + 1 /\ prev' = Null /\ pc' = "read"
      \/ ~CanRead(i + 1) /\ pc' = "done" /\ i' = i /\ prev' = prev
  BY <1>1 DEF NextDatum
<1>3. /\ i \in Nat \ {0} /\ next \in Nat \ {0} /\ prev \in Nat
      /\ i \in DOMAIN Values /\ Len(forecast) \in Nat
  BY <1>1 DEF IInv, TypeOK, Position, CanRead
<1>4. TypeOK'
  BY <1>1, <1>2, <1>3 DEF IInv, TypeOK, Null
<1>5. /\ Values' = Values /\ Hours' = Hours /\ LeftHours' = LeftHours
      /\ HoursFollow' /\ NotYetRead' /\ ValueIsOfItsHour' /\ PassedAreComplete'
      /\ \A k : CanRead(k)' = CanRead(k)
      /\ \A k, n : Covers(k, n)' = Covers(k, n)
      /\ \A k : Intact(k)' = Intact(k)
  BY <1>1 DEF IInv, Values, Hours, HoursFollow, Time, NotYetRead, LeftHours, ValueIsOfItsHour,
     PassedAreComplete, PassedHours, CanRead, Covers, Intact, Ordered, HasItsValue
<1>6. Position'
  BY <1>1, <1>2, <1>3, <1>5 DEF IInv, Position
<1>7. PrevIsCurrent'
  BY <1>1, <1>2, <1>5 DEF IInv, PrevIsCurrent
<1>8. \A n \in LeftHours : Time(n) \in Int /\ IsOver(i, Time(n))
  <2> TAKE n \in LeftHours
  <2>1. n \in Hours /\ next <= n
    BY <1>3 DEF LeftHours, Hours
  <2>2. Time(n) \in Int /\ Time(next) \in Int /\ Time(next) <= Time(n)
    BY <1>1, <2>1, HoursIncrease DEF IInv
  <2>3. Values[i].end \in Int
    BY <1>3, DocumentParts DEF IInv, TypeOK
  <2> QED
    BY <1>1, <2>2, <2>3 DEF IsOver
<1>9. DataAreOver'
  <2> SUFFICES ASSUME pc' = "read", NEW j \in 1..i, NEW n \in LeftHours
               PROVE  IsOver(j, Time(n))
    BY <1>1, <1>2, <1>3, <1>5 DEF DataAreOver, IsOver, Time
  <2>1. CASE j = i
    BY <1>8, <2>1
  <2>2. CASE j \in 1..(i - 1)
    BY <1>1, <2>2 DEF IInv, DataAreOver
  <2> QED
    BY <1>3, <2>1, <2>2
<1>10. NothingIsLeft'
  <2> SUFFICES ASSUME ~CanRead(i + 1), NEW n \in LeftHours, NEW k \in DOMAIN Values,
                      Covers(k, n), Intact(k)
               PROVE  FALSE
    BY <1>1, <1>2, <1>5 DEF NothingIsLeft
  <2>1. k \in Nat \ {0}
    BY DocumentParts DEF IInv, TypeOK
  <2>2. Values[k].end \in Int /\ Time(n) \in Int
    BY <1>8, DocumentParts DEF IInv, TypeOK
  <2>3. CASE k \in 1..(i - 1)
    BY <1>1, <2>2, <2>3 DEF IInv, DataAreOver, IsOver, Covers
  <2>4. CASE k = i
    BY <1>8, <2>2, <2>4 DEF IsOver, Covers
  <2>5. CASE k > i
    <3>1. i + 1 \in 1..k /\ i + 1 \in DOMAIN Values
      BY <1>3, <2>1, <2>5, DocumentParts DEF IInv, TypeOK
    <3>2. Values[i + 1].kind = "broken"
      BY <3>1 DEF CanRead
    <3> QED
      BY <3>1, <3>2 DEF Intact
  <2> QED
    BY <1>3, <2>1, <2>3, <2>4, <2>5
<1> QED
  BY <1>4, <1>5, <1>6, <1>7, <1>9, <1>10 DEF IInv

LEMMA EndStep ==
  ASSUME IInv, NoValueToRead \/ Finish
  PROVE  IInv'
<1>1. /\ next' = next /\ forecast' = forecast /\ doc' = doc /\ i' = i /\ prev' = prev
      /\ pc = "read" /\ pc' = "done"
  BY DEF NoValueToRead, Finish, IsIn, Reading
<1>2. /\ Values' = Values /\ Hours' = Hours /\ LeftHours' = LeftHours
      /\ HoursFollow' /\ NotYetRead' /\ ValueIsOfItsHour' /\ PassedAreComplete'
      /\ \A k, n : Covers(k, n)' = Covers(k, n)
      /\ \A k : Intact(k)' = Intact(k)
  BY <1>1 DEF IInv, Values, Hours, HoursFollow, Time, NotYetRead, LeftHours, ValueIsOfItsHour,
     PassedAreComplete, PassedHours, Covers, Intact, Ordered, HasItsValue
<1>3. TypeOK' /\ Position' /\ PrevIsCurrent' /\ DataAreOver'
  BY <1>1, <1>2 DEF IInv, TypeOK, Position, PrevIsCurrent, DataAreOver
<1>4. ASSUME NEW n \in LeftHours, NEW k \in DOMAIN Values, Covers(k, n), Intact(k)
      PROVE  FALSE
  <2>1. k \in Nat \ {0} /\ i \in Nat \ {0} /\ next \in Nat /\ Len(forecast) \in Nat
    BY DocumentParts DEF IInv, TypeOK, Position
  <2>2. CASE Finish
    BY <1>4, <2>1, <2>2 DEF Finish, LeftHours
  <2>3. CASE NoValueToRead
    <3>1. CASE k \in 1..(i - 1)
      <4>1. n \in Hours
        BY <2>1 DEF IInv, Position, LeftHours, Hours
      <4>2. Values[k].end \in Int /\ Time(n) \in Int
        BY <4>1, DocumentParts, HoursIncrease DEF IInv, TypeOK
      <4> QED
        BY <1>1, <1>4, <3>1, <4>2 DEF IInv, DataAreOver, IsOver, Covers
    <3>2. CASE i \in 1..k
      BY <1>4, <2>3, <3>2 DEF NoValueToRead, Intact
    <3> QED
      BY <2>1, <3>1, <3>2
  <2> QED
    BY <2>2, <2>3
<1>5. NothingIsLeft'
  BY <1>1, <1>2, <1>4 DEF NothingIsLeft
<1> QED
  BY <1>2, <1>3, <1>5 DEF IInv

(* What the hour at next gets from datum i, in both ways.                  *)
ValueOf(k) == IF Values[k].kind = "good" THEN k ELSE NoValue

HourTaken ==
  /\ IsIn
  /\ Values[i].kind \in {"good", "unusable"}
  /\ forecast' = [forecast EXCEPT ![next].value = ValueOf(i)]
  /\ prev' = next
  /\ next' = next + 1
  /\ UNCHANGED <<doc, pc, i>>

(* A copied value is what would have been read.                            *)
LEMMA ReadOrCopied ==
  ASSUME IInv, ReadValue \/ CopyValue
  PROVE  HourTaken
<1>1. /\ IsIn /\ pc = "read" /\ next \in LeftHours
      /\ next \in Nat /\ Len(forecast) \in Nat
  BY DEF ReadValue, CopyValue, IsIn, Reading, LeftHours, IInv, TypeOK
<1>2. CASE ReadValue
  <2>1. forecast[next].value = NoValue
    BY <1>1 DEF IInv, NotYetRead
  <2>2. i \in DOMAIN Values /\ Values[i].kind # "broken"
    BY <1>1 DEF IInv, Position, CanRead
  <2>3. Values[i].kind \in {"good", "unusable"}
    BY <1>2, <2>2, DocumentParts DEF IInv, TypeOK, ReadValue, Kind
  <2> QED
    BY <1>1, <1>2, <2>1, <2>3 DEF ReadValue, HourTaken, ValueOf
<1>3. CASE CopyValue
  <2>1. /\ Values[i].kind \in {"good", "unusable"}
        /\ forecast[prev].value = ValueOf(i)
    BY <1>3 DEF CopyValue, IInv, PrevIsCurrent, ValueOf
  <2> QED
    BY <1>1, <1>3, <2>1 DEF CopyValue, HourTaken
<1> QED
  BY <1>2, <1>3

(* A datum after i is not for an hour before the end of i.                 *)
LEMMA NotForLater ==
  ASSUME IInv, Ordered, NEW n \in Hours, pc = "read", ~IsOver(i, Time(n)),
         NEW k \in DOMAIN Values, k > i, Intact(k)
  PROVE  ~Covers(k, n)
<1>1. i \in DOMAIN Values /\ Values[i].kind # "broken"
  BY DEF IInv, Position, CanRead
<1>2. k \in Nat \ {0}
  BY DocumentParts DEF IInv, TypeOK
<1>3. Values[k].kind # "broken"
  BY <1>2 DEF Intact
<1>4. Values[i].end <= Values[k].start
  BY <1>1, <1>3 DEF Ordered
<1>5. /\ Values[i].end \in Int /\ Values[k].start \in Int /\ Time(n) \in Int
  BY <1>1, DocumentParts, HoursIncrease DEF IInv, TypeOK
<1> QED
  BY <1>4, <1>5 DEF IsOver, Covers

(* Nor is a datum before i for an hour that is left.                       *)
LEMMA NotForEarlier ==
  ASSUME IInv, pc = "read", NEW n \in LeftHours, NEW k \in DOMAIN Values, k < i
  PROVE  ~Covers(k, n)
<1>1. /\ k \in Nat \ {0} /\ i \in Nat \ {0} /\ next \in Nat \ {0} /\ Len(forecast) \in Nat
      /\ Values[k].end \in Int
  BY DocumentParts DEF IInv, TypeOK, Position
<1>2. n \in Hours /\ k \in 1..(i - 1)
  BY <1>1 DEF LeftHours, Hours
<1>3. IsOver(k, Time(n))
  BY <1>2 DEF IInv, DataAreOver
<1>4. Time(n) \in Int
  BY <1>2, HoursIncrease DEF IInv
<1> QED
  BY <1>1, <1>3, <1>4 DEF IsOver, Covers

LEMMA HourTakenStep ==
  ASSUME IInv, HourTaken
  PROVE  IInv'
<1>1. /\ IsIn /\ pc = "read" /\ next \in LeftHours /\ next \in Hours
      /\ next \in Nat \ {0} /\ Len(forecast) \in Nat /\ i \in Nat \ {0}
      /\ i \in DOMAIN Values /\ DOMAIN forecast = Hours
  BY DEF HourTaken, IsIn, Reading, LeftHours, Hours, IInv, TypeOK, Position, CanRead
<1>2. /\ doc' = doc /\ pc' = pc /\ i' = i /\ prev' = next /\ next' = next + 1
      /\ Values[i].kind \in {"good", "unusable"}
  BY DEF HourTaken
<1>3. ValueOf(i) \in Nat
  BY <1>1 DEF ValueOf, NoValue
<1>4. /\ forecast' \in Seq([time : Int, value : Nat])
      /\ Len(forecast') = Len(forecast)
      /\ forecast'[next].value = ValueOf(i)
      /\ \A n \in Hours : forecast'[n].time = forecast[n].time
      /\ \A n \in Hours : n # next => forecast'[n].value = forecast[n].value
  <2>1. forecast' = [forecast EXCEPT ![next] = [forecast[next] EXCEPT !.value = ValueOf(i)]]
    BY DEF HourTaken
  <2>2. \A n \in Hours : forecast[n] \in [time : Int, value : Nat]
    <3> DEFINE S == [time : Int, value : Nat]
    <3>1. forecast \in Seq(S)
      BY DEF IInv, TypeOK
    <3> HIDE DEF S
    <3>2. \A n \in Hours : forecast[n] \in S
      BY <3>1 DEF Hours
    <3> QED
      BY <3>2 DEF S
  <2> DEFINE new == [forecast[next] EXCEPT !.value = ValueOf(i)]
  <2>3. /\ new \in [time : Int, value : Nat]
        /\ new.time = forecast[next].time
        /\ new.value = ValueOf(i)
    BY <1>1, <1>3, <2>2
  <2>4. forecast' = [forecast EXCEPT ![next] = new]
    BY <2>1
  <2> HIDE DEF new
  <2> QED
    BY <1>1, <2>2, <2>3, <2>4 DEF IInv, TypeOK, Hours
<1>5. TypeOK'
  BY <1>1, <1>2, <1>4 DEF IInv, TypeOK
<1>6. \A n \in Hours : Time(n)' = Time(n)
  BY <1>4 DEF Time
<1>7. /\ Values' = Values /\ Hours' = Hours /\ Ordered' = Ordered /\ HoursFollow'
      /\ \A k \in DOMAIN Values : Intact(k)' = Intact(k)
      /\ \A k : CanRead(k)' = CanRead(k)
      /\ \A k \in DOMAIN Values : \A n \in Hours : Covers(k, n)' = Covers(k, n)
  BY <1>2, <1>4, <1>6, SameHours DEF IInv
<1>8. Covers(i, next) /\ ~IsOver(i, Time(next))
  <2>1. Values[i].end \in Int /\ Values[i].start \in Int /\ Time(next) \in Int
    BY <1>1, DocumentParts, HoursIncrease DEF IInv, TypeOK
  <2> QED
    BY <1>1, <2>1 DEF IsIn, IsOver, HasStarted, Covers
<1>9. LeftHours' \subseteq LeftHours /\ next \notin LeftHours' /\ LeftHours \subseteq Hours
  BY <1>1, <1>2, <1>4 DEF LeftHours, Hours
<1>10. Position'
  BY <1>1, <1>2, <1>4, <1>7 DEF IInv, Position, Hours
<1>11. NotYetRead'
  BY <1>4, <1>9 DEF IInv, NotYetRead
<1>12. PrevIsCurrent'
  BY <1>1, <1>2, <1>4, <1>7, <1>8 DEF PrevIsCurrent, ValueOf
<1>13. DataAreOver'
  BY <1>1, <1>2, <1>6, <1>7, <1>9 DEF IInv, DataAreOver, IsOver
<1>14. NothingIsLeft'
  BY <1>1, <1>2 DEF NothingIsLeft
<1>15. ASSUME Ordered, NEW n \in Hours, n = next
       PROVE  HasItsValue(n)'
  <2> SUFFICES ASSUME NEW k \in DOMAIN Values, Covers(k, n), Intact(k),
                      Values[k].kind = "good"
               PROVE  forecast'[n].value = k
    BY <1>7 DEF HasItsValue
  <2>1. k \in Nat
    BY DocumentParts DEF IInv, TypeOK
  <2>2. CASE k < i
    BY <1>1, <1>15, <2>2, NotForEarlier
  <2>3. CASE k > i
    BY <1>1, <1>8, <1>15, <2>3, NotForLater
  <2>4. CASE k = i
    BY <1>4, <1>15, <2>4 DEF ValueOf
  <2> QED
    BY <1>1, <2>1, <2>2, <2>3, <2>4
<1>16. PassedAreComplete'
  <2> SUFFICES ASSUME Ordered, NEW n \in PassedHours'
               PROVE  HasItsValue(n)'
    BY <1>7 DEF PassedAreComplete
  <2>1. CASE n = next
    BY <1>1, <1>15, <2>1
  <2>2. CASE n \in PassedHours
    <3>1. n \in Hours /\ n # next
      BY <1>1, <2>2 DEF PassedHours, Hours
    <3>2. HasItsValue(n)
      BY <2>2 DEF IInv, PassedAreComplete
    <3> QED
      BY <1>4, <1>7, <3>1, <3>2 DEF HasItsValue
  <2> QED
    BY <1>1, <1>2, <2>1, <2>2 DEF PassedHours
<1>17. ValueIsOfItsHour'
  <2> SUFFICES ASSUME NEW n \in Hours, forecast'[n].value # NoValue
               PROVE  /\ forecast'[n].value \in DOMAIN Values
                      /\ Values[forecast'[n].value].kind = "good"
                      /\ Covers(forecast'[n].value, n)
    <3>1. DOMAIN forecast' = Hours
      BY <1>4 DEF Hours
    <3> QED
      BY <1>7, <3>1 DEF ValueIsOfItsHour
  <2>1. CASE n = next
    BY <1>1, <1>4, <1>8, <2>1 DEF ValueOf
  <2>2. CASE n # next
    <3>1. forecast'[n].value = forecast[n].value
      BY <1>4, <2>2
    <3> QED
      BY <1>1, <3>1 DEF IInv, ValueIsOfItsHour
  <2> QED
    BY <2>1, <2>2
<1> QED
  BY <1>5, <1>7, <1>10, <1>11, <1>12, <1>13, <1>14, <1>16, <1>17 DEF IInv

LEMMA SkipHourStep ==
  ASSUME IInv, SkipHour
  PROVE  IInv'
<1>1. /\ pc = "read" /\ next \in LeftHours /\ next \in Hours
      /\ next \in Nat \ {0} /\ Len(forecast) \in Nat /\ i \in Nat \ {0}
      /\ i \in DOMAIN Values /\ ~IsOver(i, Time(next)) /\ ~HasStarted(i, Time(next))
  BY DEF SkipHour, Reading, LeftHours, Hours, IInv, TypeOK, Position, CanRead
<1>2. /\ doc' = doc /\ pc' = pc /\ i' = i /\ prev' = prev /\ next' = next + 1
      /\ forecast' = forecast
  BY DEF SkipHour
<1>3. TypeOK'
  BY <1>1, <1>2 DEF IInv, TypeOK
<1>4. /\ Values' = Values /\ Hours' = Hours /\ HoursFollow' /\ ValueIsOfItsHour'
      /\ Ordered' = Ordered
      /\ \A k : CanRead(k)' = CanRead(k)
      /\ \A k : Intact(k)' = Intact(k)
      /\ \A k, n : Covers(k, n)' = Covers(k, n)
      /\ \A n : HasItsValue(n)' = HasItsValue(n)
  BY <1>2 DEF IInv, Values, Hours, HoursFollow, Time, ValueIsOfItsHour, Covers, Ordered, CanRead,
     Intact, HasItsValue
<1>5. Values[i].start \in Int /\ Values[i].end \in Int /\ Time(next) \in Int
  BY <1>1, DocumentParts, HoursIncrease DEF IInv, TypeOK
<1>6. ~Covers(i, next)
  BY <1>1, <1>5 DEF HasStarted, Covers
<1>7. prev = Null
  <2> SUFFICES ASSUME prev # Null PROVE FALSE
    OBVIOUS
  <2>1. prev = next - 1 /\ prev \in Hours /\ Covers(i, prev)
    BY DEF IInv, Position, PrevIsCurrent
  <2>2. Time(prev) \in Int /\ Time(prev) <= Time(next)
    BY <1>1, <2>1, HoursIncrease DEF IInv
  <2> QED
    BY <1>1, <1>5, <2>1, <2>2 DEF Covers, HasStarted
<1>8. LeftHours' \subseteq LeftHours
  BY <1>1, <1>2 DEF LeftHours
<1>9. Position' /\ PrevIsCurrent'
  BY <1>1, <1>2, <1>4, <1>7 DEF IInv, Position, PrevIsCurrent, Hours
<1>10. NotYetRead' /\ NothingIsLeft'
  BY <1>1, <1>2, <1>8 DEF IInv, NotYetRead, NothingIsLeft
<1>11. DataAreOver'
  BY <1>2, <1>4, <1>8 DEF IInv, DataAreOver, IsOver, Time
<1>12. ASSUME Ordered PROVE HasItsValue(next)
  <2> SUFFICES ASSUME NEW k \in DOMAIN Values, Covers(k, next), Intact(k)
               PROVE  FALSE
    BY DEF HasItsValue
  <2>1. k \in Nat
    BY DocumentParts DEF IInv, TypeOK
  <2>2. CASE k < i
    BY <1>1, <2>2, NotForEarlier
  <2>3. CASE k > i
    BY <1>1, <1>12, <2>3, NotForLater
  <2>4. CASE k = i
    BY <1>6, <2>4
  <2> QED
    BY <1>1, <2>1, <2>2, <2>3, <2>4
<1>13. PassedAreComplete'
  <2> SUFFICES ASSUME Ordered, NEW n \in PassedHours'
               PROVE  HasItsValue(n)
    BY <1>4 DEF PassedAreComplete
  <2>1. CASE n = next
    BY <1>12, <2>1
  <2>2. CASE n \in PassedHours
    BY <2>2 DEF IInv, PassedAreComplete
  <2> QED
    BY <1>1, <1>2, <2>1, <2>2 DEF PassedHours
<1> QED
  BY <1>3, <1>4, <1>9, <1>10, <1>11, <1>13 DEF IInv

-----------------------------------------------------------------------------
(* The theorems *)

LEMMA Inductive == IInv /\ [Next]_vars => IInv'
<1> SUFFICES ASSUME IInv, [Next]_vars PROVE IInv'
  OBVIOUS
<1>1. CASE AddHour
  BY <1>1, AddHourStep
<1>2. CASE StartReading
  BY <1>2, StartReadingStep
<1>3. CASE NextDatum
  BY <1>3, NextDatumStep
<1>4. CASE ReadValue \/ CopyValue
  BY <1>4, ReadOrCopied, HourTakenStep
<1>5. CASE NoValueToRead \/ Finish
  BY <1>5, EndStep
<1>6. CASE SkipHour
  BY <1>6, SkipHourStep
<1>7. CASE UNCHANGED vars
  BY <1>7 DEF vars, IInv, TypeOK, HoursFollow, Position, NotYetRead, PrevIsCurrent, DataAreOver,
     NothingIsLeft, PassedAreComplete, ValueIsOfItsHour, Hours, LeftHours, PassedHours, Time,
     Values, CanRead, Covers, Intact, Ordered, HasItsValue, IsOver
<1> QED
  BY <1>1, <1>2, <1>3, <1>4, <1>5, <1>6, <1>7 DEF Next

(* The loop invariant of read_interval_values holds for every document,    *)
(* every number of hours and every number of data.                         *)
THEOREM Invariance == Spec => []IInv
<1>1. Init => IInv
  BY InitIInv
<1> QED
  BY <1>1, Inductive, PTL DEF Spec

(* A forecast never shows the value of an interval that its hour does not  *)
(* lie in, whatever the server sends.                                      *)
THEOREM OwnValue == Spec => []ValueIsOfItsHour
<1>1. IInv => ValueIsOfItsHour
  BY DEF IInv
<1> QED
  BY <1>1, Invariance, PTL

(* From an ordered list every hour gets the value of its interval, up to   *)
(* the first member that cannot be read.                                   *)
THEOREM Complete == Spec => []NoHourIsLost
<1>1. IInv => NoHourIsLost
  <2> SUFFICES ASSUME IInv, pc = "done", Ordered, NEW n \in DOMAIN forecast,
                      NEW k \in DOMAIN Values, Covers(k, n), Intact(k), Values[k].kind = "good"
               PROVE  forecast[n].value = k
    BY DEF NoHourIsLost
  <2>1. n \in 1..Len(forecast) /\ next \in Nat /\ Len(forecast) \in Nat
    BY DEF IInv, TypeOK
  <2>2. CASE n \in LeftHours
    BY <2>2 DEF IInv, NothingIsLeft
  <2>3. CASE n \in PassedHours
    BY <2>3 DEF IInv, PassedAreComplete, HasItsValue
  <2> QED
    BY <2>1, <2>2, <2>3 DEF LeftHours, PassedHours
<1> QED
  BY <1>1, Invariance, PTL
=============================================================================
