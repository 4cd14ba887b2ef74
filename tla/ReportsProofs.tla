----------------------------- MODULE ReportsProofs -----------------------------
(***************************************************************************)
(* Proofs about Reports, for documents of any length.  The invariant of    *)
(* each reader says what it has made of the elements it has read; the      *)
(* other readers do not touch it, because a behaviour has one document.    *)
(***************************************************************************)
EXTENDS Reports, FiniteSetTheorems, TLAPS

-----------------------------------------------------------------------------
(* Operators of the readers *)

(* Division with remainder by MonthLength has one result.                  *)
LEMMA RemainderIsUnique ==
  ASSUME NEW q \in Int, NEW r \in 0..MonthLength - 1
  PROVE  (MonthLength * q + r) % MonthLength = r
<1>1. MonthLength \in Int /\ MonthLength > 1
  BY MonthLengthAssumption
<1>2. PICK a \in Int : a = MonthLength * q + r
  BY <1>1
<1>3. PICK p \in Int, s \in 0..MonthLength - 1 : a = MonthLength * p + s /\ s = a % MonthLength
  <2>1. a \div MonthLength \in Int /\ a % MonthLength \in 0..MonthLength - 1
    BY <1>1
  <2>2. a = MonthLength * (a \div MonthLength) + (a % MonthLength)
    BY <1>1
  <2> QED BY <2>1, <2>2
<1>4. MonthLength * (p - q) = r - s
  <2>1. MonthLength * (p - q) = MonthLength * p - MonthLength * q
    BY <1>1
  <2>2. PICK x \in Int, y \in Int : x = MonthLength * p /\ y = MonthLength * q
    BY <1>1
  <2>3. a = y + r /\ a = x + s
    BY <1>2, <1>3, <2>2
  <2>4. x - y = r - s
    BY <1>1, <2>2, <2>3
  <2> QED BY <2>1, <2>2, <2>4
<1>5. \A k \in Int : k >= 1 => MonthLength * k >= MonthLength
  BY <1>1
<1>6. \A k \in Int : k <= -1 => MonthLength * k <= -MonthLength
  BY <1>1
<1>7. p - q = 0
  <2>1. ~(p - q >= 1)
    BY <1>1, <1>3, <1>4, <1>5
  <2>2. ~(p - q <= -1)
    BY <1>1, <1>3, <1>4, <1>6
  <2> QED BY <2>1, <2>2
<1>8. r = s
  BY <1>1, <1>4, <1>7, <1>3
<1> QED BY <1>2, <1>3, <1>8

(* The day of the month of the day before, over the end of a month.        *)
LEMMA DayBefore ==
  ASSUME NEW day \in Int
  PROVE  \/ DayOfMonth(day) = 1 /\ DayOfMonth(day - 1) = MonthLength
         \/ DayOfMonth(day) = DayOfMonth(day - 1) + 1
<1>1. MonthLength \in Int /\ MonthLength > 1
  BY MonthLengthAssumption
<1>2. PICK q \in Int, r \in 0..MonthLength - 1 : day - 1 = MonthLength * q + r
  <2>1. PICK a \in Int : a = day - 1
    OBVIOUS
  <2>2. a \div MonthLength \in Int /\ a % MonthLength \in 0..MonthLength - 1
    BY <1>1
  <2>3. a = MonthLength * (a \div MonthLength) + (a % MonthLength)
    BY <1>1
  <2> QED BY <2>1, <2>2, <2>3
<1>3. DayOfMonth(day - 1) = r + 1
  BY <1>2, RemainderIsUnique DEF DayOfMonth
<1>4. CASE r + 1 < MonthLength
  <2>1. day = MonthLength * q + (r + 1) /\ r + 1 \in 0..MonthLength - 1
    BY <1>1, <1>2, <1>4
  <2>2. day % MonthLength = r + 1
    BY <2>1, RemainderIsUnique
  <2> QED BY <1>3, <2>2 DEF DayOfMonth
<1>5. CASE r + 1 = MonthLength
  <2>1. day = MonthLength * (q + 1) + 0 /\ 0 \in 0..MonthLength - 1 /\ q + 1 \in Int
    BY <1>1, <1>2, <1>5
  <2>2. day % MonthLength = 0
    BY <2>1, RemainderIsUnique
  <2> QED BY <1>3, <1>5, <2>2 DEF DayOfMonth
<1> QED BY <1>1, <1>2, <1>4, <1>5

(* make_time is right for a report of the local day or the day before.     *)
LEMMA MakeTimeIsRight ==
  ASSUME NEW clock, clock.now \in Int, clock.offset \in Int, NEW issued \in Int,
         LocalDay(clock) - DayOf(issued) \in {0, 1}
  PROVE  MakeTime(clock, DayOfMonth(DayOf(issued)), issued % 24) = issued
<1>1. PICK today \in Int : today = LocalDay(clock)
  <2>1. clock.now + clock.offset \in Int
    OBVIOUS
  <2>2. \A h \in Int : h \div 24 \in Int
    OBVIOUS
  <2> QED BY <2>1, <2>2 DEF LocalDay, DayOf
<1>2. PICK day \in Int : day = DayOf(issued)
  BY DEF DayOf
<1>3. issued = 24 * (issued \div 24) + (issued % 24)
  OBVIOUS
<1>4. day = today \/ day = today - 1
  BY <1>1, <1>2
<1>5. MonthLength \in Int /\ MonthLength > 1
  BY MonthLengthAssumption
<1>6. \A d \in Int : DayOfMonth(d) \in 1..MonthLength
  BY <1>5 DEF DayOfMonth
<1>7. \/ DayOfMonth(today) = 1 /\ DayOfMonth(today - 1) = MonthLength
      \/ DayOfMonth(today) = DayOfMonth(today - 1) + 1
  BY <1>1, DayBefore
<1>8. PICK m \in Int, n \in Int, h \in Int :
        m = DayOfMonth(today) /\ n = DayOfMonth(day) /\ h = issued % 24 /\ m >= 1 /\ n >= 1
  BY <1>6
<1>9. MakeTime(clock, n, h)
        = 24 * (today - m + (IF n > m /\ m = 1 THEN 0 ELSE n)) + h
  BY <1>1, <1>8 DEF MakeTime
<1>10. issued = 24 * day + h
  BY <1>2, <1>3, <1>8 DEF DayOf
<1>11. \/ n = m /\ day = today
       \/ m = 1 /\ n > 1 /\ day = today - 1
       \/ m = n + 1 /\ day = today - 1
  BY <1>4, <1>5, <1>7, <1>8
<1>12. today - m + (IF n > m /\ m = 1 THEN 0 ELSE n) = day
  BY <1>8, <1>11
<1>13. MakeTime(clock, n, h) = issued
  BY <1>9, <1>10, <1>12
<1> QED BY <1>2, <1>8, <1>13

(* metar_tok_wind and read_winddir.                                        *)
LEMMA WindLemma ==
  ASSUME NEW dir \in 0..359
  PROVE  Distance(4 * dir, MetarWind(dir)) <= 45 /\ NwsWind(4 * dir) = MetarWind(dir)
BY DEF Distance, MetarWind, NwsWind

(* Every code that is known has a phenomenon with an importance.           *)
LEMMA ImportanceIsNumber ==
  ASSUME NEW code, IsKnown(code)
  PROVE  Importance(PhenomenonOf(code)) \in Int
<1>1. \A k \in 1..25 : ImportanceScale[k] \in Int
  BY DEF ImportanceScale
<1>2. DOMAIN Phenomena = 1..23 /\ DOMAIN PhenomenonCodes = 1..23
  BY DEF Phenomena, PhenomenonCodes
<1>3. PICK k \in 1..23 : PhenomenonOf(code) = Phenomena[k]
  BY <1>2 DEF IsKnown, PhenomenonOf
<1>4. Enum(Phenomena[k]) \in 0..23
  BY <1>2 DEF Enum
<1> QED BY <1>1, <1>3, <1>4 DEF Importance

-----------------------------------------------------------------------------
(* The invariants of the readers, about the elements before at *)

Read == 1..at - 1

Position == /\ document \in Documents
            /\ at \in Nat /\ at >= 1

(* metar_parse: no remarks so far; the conditions, the wind and the time   *)
(* are those of the words read.                                            *)
SaidSoFar == {k \in Read : Elements[k].word = "cond" /\ IsKnown(Elements[k].phen)}

FirstOfMostSoFar(k) ==
  \A j \in SaidSoFar :
    IF j < k THEN Importance(Meant(j)) < Importance(Meant(k))
    ELSE Importance(Meant(j)) <= Importance(Meant(k))

CondSoFar ==
  \/ SaidSoFar = {} /\ result.cond = NoConditions
  \/ \E k \in SaidSoFar : result.cond = CondOf(Elements[k]) /\ FirstOfMostSoFar(k)

TimeSoFar ==
  \A k \in Read :
    /\ Elements[k].word = "time"
    /\ LocalDay(document.clock) - DayOf(document.issued) \in {0, 1}
    => result.update = document.issued

WindSoFar ==
  \A k \in Read :
    /\ Elements[k].word = "wind"
    /\ \A j \in Read : Elements[j].word = "wind" => j <= k
    => result.wind = MetarWind(Elements[k].dir)

MetarInv ==
  document.service = "metar" =>
    /\ DOMAIN result = DOMAIN NoReport
    /\ at - 1 <= Len(Elements)
    /\ \A k \in Read : Elements[k].word # "RMK"
    /\ CondSoFar
    /\ TimeSoFar
    /\ WindSoFar

-----------------------------------------------------------------------------
(* METAR *)

(* What a word that is read changes in the report.                         *)
LEMMA MetarReadLemma ==
  ASSUME NEW info, DOMAIN info = DOMAIN NoReport, NEW clock, NEW tok
  PROVE  /\ DOMAIN MetarRead(info, clock, tok) = DOMAIN NoReport
         /\ MetarRead(info, clock, tok).cond
              = IF tok.word = "cond" THEN MetarTokCond(info.cond, tok) ELSE info.cond
         /\ MetarRead(info, clock, tok).update
              = IF tok.word = "time" THEN MakeTime(clock, tok.date, tok.hour) ELSE info.update
         /\ MetarRead(info, clock, tok).wind
              = IF tok.word = "wind" THEN MetarWind(tok.dir) ELSE info.wind
BY DEF MetarRead, NoReport

(* The conditions that are shown are replaced by more important ones.      *)
LEMMA MetarTokCondLemma ==
  ASSUME NEW cond, NEW tok
  PROVE  /\ ~IsKnown(tok.phen) => MetarTokCond(cond, tok) = cond
         /\ IsKnown(tok.phen) /\ cond = NoConditions => MetarTokCond(cond, tok) = CondOf(tok)
         /\ \A shown : IsKnown(tok.phen) /\ cond = CondOf(shown) =>
              MetarTokCond(cond, tok)
                = IF Importance(PhenomenonOf(shown.phen)) < Importance(PhenomenonOf(tok.phen))
                  THEN CondOf(tok) ELSE cond
BY DEF MetarTokCond, ConditionMoreImportant, CondOf, Conditions, NoConditions

(* One word more.                                                          *)
LEMMA CondStep ==
  ASSUME Position, MetarInv, ReadMetarWord
  PROVE  CondSoFar'
<1> DEFINE e == Elements[at]
<1>1. /\ document' = document /\ at' = at + 1 /\ at \in Nat /\ at >= 1
      /\ result' = MetarRead(result, document.clock, e)
      /\ DOMAIN result = DOMAIN NoReport
      /\ CondSoFar
  BY DEF Position, MetarInv, ReadMetarWord, Element
<1>2. Elements' = Elements
  BY <1>1 DEF Elements
<1>3. result'.cond = IF e.word = "cond" THEN MetarTokCond(result.cond, e) ELSE result.cond
  BY <1>1, MetarReadLemma
<1>4. Read' = Read \cup {at} /\ at \notin Read /\ \A k \in Read : k \in Nat /\ k < at
  BY <1>1 DEF Read
<1>5. CASE ~(e.word = "cond" /\ IsKnown(e.phen))
  <2>1. SaidSoFar' = SaidSoFar
    BY <1>2, <1>4, <1>5 DEF SaidSoFar
  <2>2. result'.cond = result.cond
    BY <1>3, <1>5, MetarTokCondLemma
  <2> QED BY <1>1, <1>2, <2>1, <2>2 DEF CondSoFar, FirstOfMostSoFar, Meant
<1>6. CASE e.word = "cond" /\ IsKnown(e.phen)
  <2>1. SaidSoFar' = SaidSoFar \cup {at}
    BY <1>2, <1>4, <1>6 DEF SaidSoFar
  <2>2. \A k \in SaidSoFar \cup {at} : Importance(Meant(k)) \in Int
    BY <1>6, ImportanceIsNumber DEF SaidSoFar, Meant
  <2>3. \A k \in SaidSoFar : k \in Nat /\ k < at
    BY <1>4 DEF SaidSoFar
  <2>4. \A k : Meant(k)' = Meant(k)
    BY <1>2 DEF Meant
  <2>5. CASE SaidSoFar = {} /\ result.cond = NoConditions
    <3>1. result'.cond = CondOf(e)
      BY <1>3, <1>6, <2>5, MetarTokCondLemma
    <3>2. PICK n : n = at
      OBVIOUS
    <3>3. \A j \in SaidSoFar' : j = n /\ ~(j < n) /\ Importance(Meant(j)) <= Importance(Meant(n))
      BY <1>1, <2>1, <2>2, <2>5, <3>2
    <3>4. FirstOfMostSoFar(n)'
      BY <2>4, <3>3 DEF FirstOfMostSoFar
    <3>5. n \in SaidSoFar' /\ result'.cond = CondOf(Elements'[n])
      BY <1>2, <2>1, <3>1, <3>2
    <3> QED BY <3>4, <3>5 DEF CondSoFar
  <2>6. ASSUME NEW k \in SaidSoFar, result.cond = CondOf(Elements[k]), FirstOfMostSoFar(k)
        PROVE  CondSoFar'
    <3>1. result'.cond = IF Importance(Meant(k)) < Importance(Meant(at)) THEN CondOf(e)
                         ELSE result.cond
      BY <1>3, <1>6, <2>6, MetarTokCondLemma DEF Meant
    <3>2. \A j \in SaidSoFar : IF j < k THEN Importance(Meant(j)) < Importance(Meant(k))
                               ELSE Importance(Meant(j)) <= Importance(Meant(k))
      BY <2>6 DEF FirstOfMostSoFar
    <3>3. CASE Importance(Meant(k)) < Importance(Meant(at))
      <4>1. \A j \in SaidSoFar \cup {at} :
              IF j < at THEN Importance(Meant(j)) < Importance(Meant(at))
              ELSE Importance(Meant(j)) <= Importance(Meant(at))
        <5> TAKE j \in SaidSoFar \cup {at}
        <5>1. CASE j = at
          BY <1>1, <2>2, <5>1
        <5>2. CASE j \in SaidSoFar
          <6>1. Importance(Meant(j)) <= Importance(Meant(k))
            BY <2>2, <3>2, <5>2
          <6>2. Importance(Meant(j)) < Importance(Meant(at))
            BY <2>2, <3>3, <5>2, <6>1
          <6> QED BY <6>2, <2>3, <5>2
        <5> QED BY <5>1, <5>2
      <4>2. PICK n : n = at
        OBVIOUS
      <4>3. FirstOfMostSoFar(n)'
        BY <2>1, <2>4, <4>1, <4>2 DEF FirstOfMostSoFar
      <4>4. n \in SaidSoFar' /\ result'.cond = CondOf(Elements'[n])
        BY <1>2, <2>1, <3>1, <3>3, <4>2
      <4> QED BY <4>3, <4>4 DEF CondSoFar
    <3>4. CASE ~(Importance(Meant(k)) < Importance(Meant(at)))
      <4>1. \A j \in SaidSoFar \cup {at} :
              IF j < k THEN Importance(Meant(j)) < Importance(Meant(k))
              ELSE Importance(Meant(j)) <= Importance(Meant(k))
        BY <1>1, <2>2, <2>3, <3>2, <3>4
      <4> QED BY <1>2, <2>1, <2>4, <2>6, <3>1, <3>4, <4>1 DEF CondSoFar, FirstOfMostSoFar
    <3> QED BY <3>3, <3>4
  <2>7. \/ SaidSoFar = {} /\ result.cond = NoConditions
        \/ \E k \in SaidSoFar : result.cond = CondOf(Elements[k]) /\ FirstOfMostSoFar(k)
    BY <1>1 DEF CondSoFar
  <2> QED BY <2>5, <2>6, <2>7
<1> QED BY <1>5, <1>6

(* The documents' lists, at the current one.                               *)
LEMMA ElementsAreList ==
  ASSUME document \in Documents
  PROVE  Len(Elements) \in Nat /\ DOMAIN Elements = 1..Len(Elements)
BY DocumentsAssumption DEF IsList, Elements

(* Each word of a METAR report keeps what is known of the words before it. *)
LEMMA MetarStep ==
  ASSUME Position, MetarInv, [Next]_vars
  PROVE  MetarInv'
<1>1. CASE ReadMetarWord
  <2> DEFINE e == Elements[at]
  <2>1. /\ document' = document /\ at' = at + 1 /\ at \in Nat /\ at >= 1
        /\ result' = MetarRead(result, document.clock, e)
        /\ DOMAIN result = DOMAIN NoReport
        /\ document.service = "metar" /\ document \in Documents
        /\ at <= Len(Elements) /\ e.word # "RMK"
        /\ \A k \in Read : Elements[k].word # "RMK"
        /\ TimeSoFar /\ WindSoFar
    BY <1>1 DEF Position, MetarInv, ReadMetarWord, Element, MetarIsOver, More
  <2>2. Elements' = Elements
    BY <2>1 DEF Elements
  <2>3. Len(Elements) \in Nat /\ at \in DOMAIN Elements
    BY <2>1, ElementsAreList
  <2>4. Read' = Read \cup {at} /\ at \notin Read /\ \A k \in Read : k \in Nat /\ k < at
    BY <2>1 DEF Read
  <2>5. DOMAIN result' = DOMAIN NoReport
    BY <2>1, MetarReadLemma
  <2>6. at' - 1 <= Len(Elements')
    BY <2>1, <2>2, <2>3
  <2>7. \A k \in Read' : Elements'[k].word # "RMK"
    BY <2>1, <2>2, <2>4
  <2>8. TimeSoFar'
    <3>1. result'.update = IF e.word = "time" THEN MakeTime(document.clock, e.date, e.hour)
                           ELSE result.update
      BY <2>1, MetarReadLemma
    <3>2. e.word = "time" => /\ e.date = DayOfMonth(DayOf(document.issued))
                             /\ e.hour = document.issued % 24
      BY <2>1, <2>3, DocumentsAssumption DEF Elements
    <3>3. e.word = "time" /\ LocalDay(document.clock) - DayOf(document.issued) \in {0, 1}
            => MakeTime(document.clock, e.date, e.hour) = document.issued
      BY <2>1, <3>2, MakeTimeIsRight, DocumentsAssumption
    <3> QED BY <2>1, <2>2, <2>4, <3>1, <3>3 DEF TimeSoFar
  <2>9. WindSoFar'
    <3>1. result'.wind = IF e.word = "wind" THEN MetarWind(e.dir) ELSE result.wind
      BY <2>1, MetarReadLemma
    <3> QED BY <2>1, <2>2, <2>4, <3>1 DEF WindSoFar
  <2>10. CondSoFar'
    BY <1>1, CondStep
  <2> QED BY <2>5, <2>6, <2>7, <2>8, <2>9, <2>10 DEF MetarInv
<1>2. CASE UNCHANGED vars
  BY <1>2 DEF vars, MetarInv, Read, Elements, CondSoFar, SaidSoFar, FirstOfMostSoFar, Meant,
     TimeSoFar, WindSoFar
<1>3. CASE ~ReadMetarWord /\ Next
  <2>1. document' = document /\ document.service # "metar"
    BY <1>3 DEF Next, ReadNwsWeather, StoreNwsWeather, ReadIwinElement, EndIwin,
       ReadMetnoPoint, SkipMetnoPeriod, ReadOwmTime
  <2> QED BY <2>1 DEF MetarInv
<1> QED BY <1>1, <1>2, <1>3

(* Before the first element of a document nothing of it is read.           *)
LEMMA MetarStart ==
  Init => Position /\ MetarInv
<1> SUFFICES ASSUME Init PROVE Position /\ MetarInv
  OBVIOUS
<1>1. Position /\ Read = {} /\ at = 1
  BY DEF Init, Position, Read
<1>2. ASSUME document.service = "metar"
      PROVE  /\ DOMAIN result = DOMAIN NoReport
             /\ at - 1 <= Len(Elements)
             /\ CondSoFar
  <2>1. result = NoReport /\ result.cond = NoConditions
    BY <1>2 DEF Init, Started, NoReport
  <2>2. Len(Elements) \in Nat
    BY <1>1, ElementsAreList DEF Position
  <2> QED BY <1>1, <2>1, <2>2 DEF CondSoFar, SaidSoFar
<1> QED BY <1>1, <1>2 DEF MetarInv, TimeSoFar, WindSoFar

(* Reading goes on element by element, in the same document.               *)
LEMMA PositionStep ==
  ASSUME Position, [Next]_vars
  PROVE  Position'
BY DEF Position, Next, vars, ReadMetarWord, ReadNwsWeather, StoreNwsWeather, ReadIwinElement,
   EndIwin, ReadMetnoPoint, SkipMetnoPeriod, ReadOwmTime

(* What a METAR report has filled in is of the words that were read        *)
(* (metar_parse).                                                          *)
THEOREM MetarIsSound == Spec => [](Position /\ MetarInv)
<1>1. Init => Position /\ MetarInv
  BY MetarStart
<1>2. Position /\ MetarInv /\ [Next]_vars => (Position /\ MetarInv)'
  BY PositionStep, MetarStep
<1> QED BY <1>1, <1>2, PTL DEF Spec

(* When a report is read, the words before at are all that count.          *)
LEMMA WordsAreRead ==
  ASSUME Position, MetarInv, MetarIsRead, NEW word
  PROVE  Words(word) = {k \in Read : Elements[k].word = word}
<1>1. /\ at \in Nat /\ at >= 1 /\ at - 1 <= Len(Elements)
      /\ Len(Elements) \in Nat /\ DOMAIN Elements = 1..Len(Elements)
      /\ \A k \in Read : Elements[k].word # "RMK"
      /\ at > Len(Elements) \/ Elements[at].word = "RMK"
  BY ElementsAreList DEF Position, MetarInv, MetarIsRead, More, MetarIsOver, Element
<1>2. \A k \in Read : k \in DOMAIN Elements /\ \A j \in 1..k : Elements[j].word # "RMK"
  BY <1>1 DEF Read
<1>3. \A k \in DOMAIN Elements : k \notin Read => at \in 1..k /\ Elements[at].word = "RMK"
  BY <1>1 DEF Read
<1> QED BY <1>2, <1>3 DEF Words

(* The conditions of a METAR report are its first most important ones, for *)
(* reports of any length.                                                  *)
THEOREM ImportantIsShown == Spec => []FirstMostImportantIsShown
<1>1. ASSUME Position, MetarInv, MetarIsRead
      PROVE  IF Said = {} THEN result.cond = NoConditions
             ELSE \E k \in Said : /\ result.cond = CondOf(Elements[k])
                                 /\ IsFirstOfMost(k, Importance)
  <2>1. Said = SaidSoFar
    BY <1>1, WordsAreRead DEF Said, SaidSoFar
  <2>2. CondSoFar
    BY <1>1 DEF MetarInv, MetarIsRead
  <2>3. \A k : FirstOfMostSoFar(k) => IsFirstOfMost(k, Importance)
    BY <2>1 DEF FirstOfMostSoFar, IsFirstOfMost
  <2> QED BY <2>1, <2>2, <2>3 DEF CondSoFar
<1>2. Position /\ MetarInv => FirstMostImportantIsShown
  BY <1>1 DEF FirstMostImportantIsShown
<1> QED BY <1>2, MetarIsSound, PTL

(* A report of the local day, or of the day before, is dated right, for    *)
(* months of any length, every offset from UTC and every hour.             *)
THEOREM YesterdayIsDated == Spec => []YesterdayIsDatedRight
<1>1. ASSUME Position, MetarInv, IssueIsRead,
             LocalDay(document.clock) - DayOf(document.issued) \in {0, 1}
      PROVE  result.update = document.issued
  <2>1. PICK k \in Read : Elements[k].word = "time"
    BY <1>1, WordsAreRead DEF IssueIsRead
  <2> QED BY <1>1, <2>1 DEF MetarInv, TimeSoFar, IssueIsRead, MetarIsRead
<1>2. Position /\ MetarInv => YesterdayIsDatedRight
  BY <1>1 DEF YesterdayIsDatedRight
<1> QED BY <1>2, MetarIsSound, PTL

(* The wind is the nearest of sixteen, for reports with any winds in them. *)
THEOREM WindIsRead == Spec => []WindIsNearest
<1>1. ASSUME Position, MetarInv, MetarIsRead, NEW k \in Words("wind"),
             Elements[k].dir \in 0..359, \A j \in Words("wind") : j <= k
      PROVE  /\ Distance(4 * Elements[k].dir, result.wind) <= 45
             /\ NwsWind(4 * Elements[k].dir) = result.wind
  <2>1. result.wind = MetarWind(Elements[k].dir)
    <3>1. Words("wind") = {j \in Read : Elements[j].word = "wind"}
      BY <1>1, WordsAreRead
    <3> QED BY <1>1, <3>1 DEF MetarInv, WindSoFar, MetarIsRead
  <2> QED BY <1>1, <2>1, WindLemma
<1>2. Position /\ MetarInv => WindIsNearest
  BY <1>1 DEF WindIsNearest
<1> QED BY <1>2, MetarIsSound, PTL

-----------------------------------------------------------------------------
(* NWS *)

(* read_weather: what the members read so far are, by how the reading      *)
(* stands.                                                                 *)
Shown(k) == IsLikely(Elements[k]) /\ NwsIsSignificant(Elements[k])
Whole(k) == Elements[k].lacks \notin {"weather", "coverage"}

IsShown(cond, k) ==
  /\ cond.significant
  /\ cond.phenomenon = NwsPhenomenon(Elements[k])

NwsInv ==
  document.service = "nws" =>
    /\ DOMAIN result = DOMAIN NwsStart
    /\ at - 1 <= Len(Elements)
    /\ \/ /\ result.status = "reading"
          /\ result.cond = NoConditions
          /\ \A k \in Read : ~Shown(k) /\ Whole(k)
       \/ /\ result.status = "found"
          /\ at - 1 \in Read /\ Shown(at - 1) /\ IsShown(result.cond, at - 1)
          /\ \A k \in Read : Whole(k) /\ (k # at - 1 => ~Shown(k))
       \/ result.status \in {"returned", "crashed"}
       \/ result.status = "stored" /\ FirstLikelyWeatherIsShown

(* What a member changes, by the tests of read_weather.                    *)
LEMMA NwsReadWeatherLemma ==
  ASSUME NEW s, DOMAIN s = DOMAIN NwsStart, s.status = "reading", NEW e
  PROVE  /\ DOMAIN NwsReadWeather(s, e) = DOMAIN NwsStart
         /\ \/ NwsReadWeather(s, e).status \in {"returned", "crashed"}
            \/ /\ NwsReadWeather(s, e).status = "reading"
               /\ NwsReadWeather(s, e).cond = s.cond
               /\ ~(IsLikely(e) /\ NwsIsSignificant(e))
               /\ e.lacks \notin {"weather", "coverage"}
            \/ /\ NwsReadWeather(s, e).status = "found"
               /\ NwsReadWeather(s, e).cond.significant
               /\ NwsReadWeather(s, e).cond.phenomenon = NwsPhenomenon(e)
               /\ IsLikely(e) /\ NwsIsSignificant(e)
               /\ e.lacks \notin {"weather", "coverage"}
BY DEF NwsReadWeather, NwsStart, NwsFails, NwsPassesOver, NwsUnlikely, IsLikely, Conditions

(* Each element of an NWS document keeps what is known of those before it. *)
LEMMA NwsStep ==
  ASSUME Position, NwsInv, [Next]_vars
  PROVE  NwsInv'
<1>1. CASE ReadNwsWeather
  <2> DEFINE e == Elements[at]
  <2>1. /\ document' = document /\ at' = at + 1 /\ at \in Nat /\ at >= 1
        /\ result' = NwsReadWeather(result, e)
        /\ DOMAIN result = DOMAIN NwsStart
        /\ document.service = "nws" /\ document \in Documents
        /\ at <= Len(Elements)
        /\ result.status = "reading"
    BY <1>1 DEF Position, NwsInv, ReadNwsWeather, Element, More
  <2>2. result.cond = NoConditions /\ \A k \in Read : ~Shown(k) /\ Whole(k)
    BY <2>1 DEF NwsInv
  <2>3. Elements' = Elements /\ Len(Elements) \in Nat
    BY <2>1, ElementsAreList DEF Elements
  <2>4. Read' = Read \cup {at} /\ at \notin Read /\ at' - 1 = at
    BY <2>1 DEF Read
  <2>5. \A k : /\ Shown(k)' <=> Shown(k)
               /\ Whole(k)' <=> Whole(k)
    BY <2>3 DEF Shown, Whole
  <2>6. DOMAIN result' = DOMAIN NwsStart
    BY <2>1, NwsReadWeatherLemma
  <2>7. CASE result'.status \in {"returned", "crashed"}
    BY <2>1, <2>3, <2>6, <2>7 DEF NwsInv
  <2>8. CASE /\ result'.status = "reading" /\ result'.cond = result.cond
             /\ ~Shown(at) /\ Whole(at)
    BY <2>1, <2>2, <2>3, <2>4, <2>5, <2>6, <2>8 DEF NwsInv
  <2>9. CASE /\ result'.status = "found" /\ IsShown(result'.cond, at)
             /\ Shown(at) /\ Whole(at)
    <3>1. PICK n : n = at
      OBVIOUS
    <3>2. IsShown(result.cond, n)' /\ Shown(n)' /\ Whole(n)'
      BY <2>3, <2>5, <2>9, <3>1 DEF IsShown
    <3>3. \A k \in Read' : Whole(k)' /\ (k # n => ~Shown(k)')
      BY <2>2, <2>4, <2>5, <3>1, <3>2
    <3> QED BY <2>1, <2>3, <2>4, <2>6, <2>9, <3>1, <3>2, <3>3 DEF NwsInv
  <2> QED BY <2>1, <2>7, <2>8, <2>9, NwsReadWeatherLemma DEF Shown, Whole, IsShown
<1>2. CASE StoreNwsWeather
  <2>1. /\ document' = document /\ at' = at /\ at \in Nat /\ at >= 1
        /\ document.service = "nws" /\ document \in Documents
        /\ result' = NwsEnd(result)
        /\ DOMAIN result = DOMAIN NwsStart
        /\ at - 1 <= Len(Elements)
        /\ result.status = "found" \/ (result.status = "reading" /\ at > Len(Elements))
    BY <1>2, ElementsAreList DEF Position, NwsInv, StoreNwsWeather, More
  <2>2. /\ DOMAIN result' = DOMAIN NwsStart
        /\ result'.status = "stored" /\ result'.info = result.cond
    BY <2>1 DEF NwsEnd, NwsStart
  <2>3. /\ Elements' = Elements
        /\ Len(Elements) \in Nat /\ DOMAIN Elements = 1..Len(Elements)
    BY <2>1, ElementsAreList DEF Elements
  <2> DEFINE shown == {k \in DOMAIN Elements : Shown(k)}
  <2>4. CASE result.status = "reading"
    <3>1. shown = {} /\ result.cond = NoConditions
      BY <2>1, <2>3, <2>4 DEF NwsInv, Read
    <3>2. FirstLikelyWeatherIsShown'
      BY <2>2, <2>3, <3>1 DEF FirstLikelyWeatherIsShown, Shown
    <3> QED BY <2>1, <2>2, <2>3, <3>2 DEF NwsInv
  <2>5. CASE result.status = "found"
    <3>1. /\ at - 1 \in Read /\ Shown(at - 1) /\ IsShown(result.cond, at - 1)
          /\ \A k \in Read : Whole(k) /\ (k # at - 1 => ~Shown(k))
      BY <2>1, <2>5 DEF NwsInv
    <3>2. PICK n \in Nat : n = at - 1 /\ n >= 1 /\ n <= Len(Elements) /\ Read = 1..n
      BY <2>1, <3>1 DEF Read
    <3>3. n \in shown /\ \A j \in shown : n <= j
      BY <2>3, <3>1, <3>2
    <3>4. n = CHOOSE k \in shown : \A j \in shown : k <= j
      <4>1. \A k \in shown : (\A j \in shown : k <= j) => k = n
        BY <2>3, <3>2, <3>3
      <4> QED BY <3>3, <4>1
    <3>5. shown # {}
      BY <3>3
    <3>6. /\ result'.info.significant
          /\ result'.info.phenomenon = NwsPhenomenon(Elements[n])
          /\ \A j \in 1..n : Elements[j].lacks \notin {"weather", "coverage"}
      BY <2>2, <3>1, <3>2 DEF IsShown, Whole
    <3>7. FirstLikelyWeatherIsShown'
      <4>1. shown = {k \in DOMAIN Elements : IsLikely(Elements[k]) /\ NwsIsSignificant(Elements[k])}
        BY DEF Shown
      <4> HIDE DEF shown
      <4> QED BY <2>3, <3>4, <3>5, <3>6, <4>1 DEF FirstLikelyWeatherIsShown
    <3> QED BY <2>1, <2>2, <2>3, <3>7 DEF NwsInv
  <2> QED BY <2>1, <2>4, <2>5
<1>3. CASE UNCHANGED vars
  BY <1>3 DEF vars, NwsInv, Read, Elements, Shown, Whole, IsShown, FirstLikelyWeatherIsShown
<1>4. CASE ~ReadNwsWeather /\ ~StoreNwsWeather /\ Next
  <2>1. document' = document /\ document.service # "nws"
    BY <1>4 DEF Next, ReadMetarWord, ReadIwinElement, EndIwin,
       ReadMetnoPoint, SkipMetnoPeriod, ReadOwmTime
  <2> QED BY <2>1 DEF NwsInv
<1> QED BY <1>1, <1>2, <1>3, <1>4

(* Before the first element of an NWS document nothing is known.           *)
LEMMA NwsBegins ==
  Init => NwsInv
<1> SUFFICES ASSUME Init, document.service = "nws" PROVE NwsInv
  BY DEF NwsInv
<1>1. result = NwsStart /\ at = 1 /\ document \in Documents
  BY DEF Init, Started
<1>2. result.status = "reading" /\ result.cond = NoConditions
  BY <1>1 DEF NwsStart
<1>3. at - 1 <= Len(Elements) /\ Read = {}
  BY <1>1, ElementsAreList DEF Read
<1> QED BY <1>1, <1>2, <1>3 DEF NwsInv

(* The conditions stored for an hour are those of the first likely member  *)
(* that has any, for weather arrays of any length.                         *)
THEOREM LikelyIsShown == Spec => []FirstLikelyWeatherIsShown
<1>1. Init => Position /\ NwsInv
  BY MetarStart, NwsBegins
<1>2. Position /\ NwsInv /\ [Next]_vars => (Position /\ NwsInv)'
  BY PositionStep, NwsStep
<1>3. NwsInv => FirstLikelyWeatherIsShown
  BY DEF NwsInv, FirstLikelyWeatherIsShown
<1> QED BY <1>1, <1>2, <1>3, PTL DEF Spec

-----------------------------------------------------------------------------
(* MET Norway *)

(* Points in a row, from the first on.                                     *)
StartsRun(first, k) ==
  /\ \A j \in first..k : IsPoint(j)
  /\ ~IsPoint(first - 1)

(* Points in a row have one first point.                                   *)
LEMMA RunIsUnique ==
  ASSUME NEW k \in Nat, NEW a \in 1..k, NEW b \in 1..k, StartsRun(a, k), StartsRun(b, k)
  PROVE  a = b
<1>1. ~(a < b)
  <2> SUFFICES ASSUME a < b PROVE FALSE
    OBVIOUS
  <2>1. b - 1 \in a..k
    OBVIOUS
  <2> QED BY <2>1 DEF StartsRun
<1>2. ~(b < a)
  <2> SUFFICES ASSUME b < a PROVE FALSE
    OBVIOUS
  <2>1. a - 1 \in b..k
    OBVIOUS
  <2> QED BY <2>1 DEF StartsRun
<1> QED BY <1>1, <1>2

(* A point that follows no point has a forecast, and so has the second     *)
(* point after one that has, but not the one directly after it.            *)
LEMMA NextPoints ==
  ASSUME NEW k \in Nat, k >= 1
  PROVE  /\ IsPoint(k) /\ ~IsPoint(k - 1) => HasForecast(k)
         /\ HasForecast(k) => IsPoint(k)
         /\ HasForecast(k) => ~HasForecast(k + 1)
         /\ HasForecast(k) /\ IsPoint(k + 2) => HasForecast(k + 2)
<1>1. ASSUME IsPoint(k), ~IsPoint(k - 1)
      PROVE  HasForecast(k)
  <2>1. k \in 1..k /\ (k - k) % 2 = 0
    OBVIOUS
  <2>2. \A j \in k..k : IsPoint(j)
    <3>1. \A j \in k..k : j = k
      OBVIOUS
    <3> QED BY <1>1, <3>1
  <2> QED BY <1>1, <2>1, <2>2 DEF HasForecast
<1>2. ASSUME HasForecast(k)
      PROVE  IsPoint(k)
  BY <1>2 DEF HasForecast
<1>3. ASSUME HasForecast(k), HasForecast(k + 1)
      PROVE  FALSE
  <2>1. PICK a \in 1..k : StartsRun(a, k) /\ ((k - a) % 2) = 0
    BY <1>3 DEF HasForecast, StartsRun
  <2>2. PICK b \in 1..k + 1 : StartsRun(b, k + 1) /\ ((k + 1 - b) % 2) = 0
    BY <1>3 DEF HasForecast, StartsRun
  <2>3. b # k + 1
    BY <1>2, <1>3, <2>2 DEF StartsRun
  <2>4. b \in 1..k /\ StartsRun(b, k)
    BY <2>2, <2>3 DEF StartsRun
  <2>5. a = b
    BY <2>1, <2>4, RunIsUnique
  <2>6. PICK n \in Nat : n = k - a
    BY <2>1
  <2>7. (n % 2) = 0 /\ ((n + 1) % 2) = 0
    <3>1. k + 1 - b = n + 1
      BY <2>1, <2>5, <2>6
    <3> QED BY <2>1, <2>2, <2>6, <3>1
  <2> QED BY <2>7
<1>4. ASSUME HasForecast(k), IsPoint(k + 2)
      PROVE  HasForecast(k + 2)
  <2>1. PICK a \in 1..k : StartsRun(a, k) /\ ((k - a) % 2) = 0
    BY <1>4 DEF HasForecast, StartsRun
  <2>2. CASE IsPoint(k + 1)
    <3>1. a \in 1..k + 2
      BY <2>1
    <3>2. \A j \in a..k + 2 : j \in a..k \/ j = k + 1 \/ j = k + 2
      BY <2>1
    <3>3. \A j \in a..k + 2 : IsPoint(j)
      BY <1>4, <2>1, <2>2, <3>2 DEF StartsRun
    <3>4. ((k + 2 - a) % 2) = 0
      <4>1. PICK n \in Nat : n = k - a
        BY <2>1
      <4>2. k + 2 - a = n + 2 /\ (n % 2) = 0
        BY <2>1, <4>1
      <4>3. ((n + 2) % 2) = 0
        BY <4>2
      <4> QED BY <4>2, <4>3
    <3> QED BY <2>1, <3>1, <3>3, <3>4 DEF HasForecast, StartsRun
  <2>3. CASE ~IsPoint(k + 1)
    <3>1. k + 2 \in Nat /\ k + 2 - 1 = k + 1 /\ k + 2 \in 1..k + 2 /\ ((k + 2 - (k + 2)) % 2) = 0
      OBVIOUS
    <3>2. \A j \in k + 2..k + 2 : IsPoint(j)
      <4>1. \A j \in k + 2..k + 2 : j = k + 2
        OBVIOUS
      <4> QED BY <1>4, <4>1
    <3> QED BY <2>3, <3>1, <3>2 DEF HasForecast
  <2> QED BY <2>2, <2>3
<1> QED BY <1>1, <1>2, <1>3, <1>4

(* The points with a forecast can be counted, and each has its rank.       *)
LEMMA RankLemma ==
  ASSUME at \in Nat, at >= 1
  PROVE  /\ IsFiniteSet(PointsRead) /\ Cardinality(PointsRead) \in Nat
         /\ \A k \in PointsRead : Rank(k) \in 1..Cardinality(PointsRead)
<1>1. IsFiniteSet(1..at - 1)
  BY FS_Interval
<1>2. IsFiniteSet(PointsRead)
  <2>1. PointsRead \in SUBSET (1..at - 1)
    BY DEF PointsRead
  <2> QED BY <1>1, <2>1, FS_Subset
<1>3. ASSUME NEW k \in PointsRead
      PROVE  Rank(k) \in 1..Cardinality(PointsRead)
  <2> DEFINE upTo == {j \in PointsRead : j <= k}
  <2>1. upTo \in SUBSET PointsRead /\ k \in upTo
    BY DEF PointsRead
  <2> HIDE DEF upTo
  <2>2. IsFiniteSet(upTo) /\ Cardinality(upTo) <= Cardinality(PointsRead)
    BY <1>2, <2>1, FS_Subset
  <2>3. Cardinality(upTo) \in Nat /\ Cardinality(PointsRead) \in Nat
    BY <1>2, <2>2, FS_CardinalityType
  <2>4. Cardinality(upTo) # 0
    BY <2>1, <2>2, FS_EmptySet
  <2>5. Rank(k) = Cardinality(upTo)
    BY DEF Rank, upTo
  <2> QED BY <2>2, <2>3, <2>4, <2>5
<1> QED BY <1>2, <1>3, FS_CardinalityType

(* parse_forecast_xml_new: the list has the forecast of each point that    *)
(* was read as one, at its rank, and a point met now is read as one.       *)
MetnoForecasts == {MetnoForecast(Elements, k) : k \in DOMAIN Elements}

MetnoInv ==
  document.service = "metno" =>
    /\ result \in Seq(MetnoForecasts)
    /\ IsPoint(at) => HasForecast(at)
    /\ Len(result) = Cardinality(PointsRead)
    /\ \A k \in PointsRead : result[Rank(k)] = MetnoForecast(Elements, k)

(* What is a point, and which of them have a forecast, is up to the        *)
(* document.                                                               *)
LEMMA PointsAreFixed ==
  ASSUME document' = document, NEW k
  PROVE  /\ Elements' = Elements
         /\ IsPoint(k)' = IsPoint(k)
         /\ HasForecast(k)' = HasForecast(k)
BY DEF Elements, IsPoint, HasForecast

(* Each element of a MET Norway forecast adds the point it names, or       *)
(* nothing.                                                                *)
LEMMA MetnoStep ==
  ASSUME Position, MetnoInv, [Next]_vars
  PROVE  MetnoInv'
<1> PICK n, m : n = at /\ m = at'
  OBVIOUS
<1>1. CASE ReadMetnoPoint
  <2> DEFINE f == MetnoForecast(Elements, n)
  <2>1. /\ document' = document /\ m = n + 2 /\ n \in Nat /\ n >= 1
        /\ result' = Append(result, f)
        /\ document.service = "metno" /\ document \in Documents
        /\ n <= Len(Elements) /\ MetnoIsPoint(Elements[n])
        /\ result \in Seq(MetnoForecasts)
        /\ IsPoint(n) => HasForecast(n)
        /\ Len(result) = Cardinality(PointsRead)
        /\ \A k \in PointsRead : result[Rank(k)] = MetnoForecast(Elements, k)
    BY <1>1 DEF Position, MetnoInv, ReadMetnoPoint, Element, More
  <2>2. Elements' = Elements /\ n \in DOMAIN Elements
    BY <2>1, ElementsAreList DEF Elements
  <2>3. HasForecast(n) /\ ~HasForecast(n + 1) /\ (IsPoint(n + 2) => HasForecast(n + 2))
    BY <2>1, <2>2, NextPoints DEF IsPoint
  <2>4. f \in MetnoForecasts /\ MetnoForecasts' = MetnoForecasts
    BY <2>2 DEF MetnoForecasts
  <2>5. \A k : HasForecast(k)' = HasForecast(k) /\ IsPoint(k)' = IsPoint(k)
    BY <2>1, PointsAreFixed
  <2>6. PointsRead' = PointsRead \cup {n}
    <3>1. PointsRead = {k \in 1..n - 1 : HasForecast(k)}
      BY DEF PointsRead
    <3>2. PointsRead' = {k \in 1..m - 1 : HasForecast(k)}
      BY <2>5 DEF PointsRead
    <3>3. 1..m - 1 = (1..n - 1) \cup {n, n + 1}
      BY <2>1
    <3> QED BY <2>3, <3>1, <3>2, <3>3
  <2>7. /\ IsFiniteSet(PointsRead) /\ Cardinality(PointsRead) \in Nat
        /\ \A k \in PointsRead : k < n /\ k \in Nat /\ Rank(k) \in 1..Cardinality(PointsRead)
    BY <2>1, RankLemma DEF PointsRead
  <2>8. n \notin PointsRead
    BY <2>1, <2>7
  <2>9. Cardinality(PointsRead') = Len(result) + 1
    BY <2>1, <2>6, <2>7, <2>8, FS_AddElement
  <2>10. \A k \in PointsRead : Rank(k)' = Rank(k)
    <3> SUFFICES ASSUME NEW k \in PointsRead PROVE Rank(k)' = Rank(k)
      OBVIOUS
    <3>1. {j \in PointsRead' : j <= k} = {j \in PointsRead : j <= k}
      BY <2>1, <2>6, <2>7
    <3> QED BY <3>1 DEF Rank
  <2>11. Rank(n)' = Len(result) + 1
    <3>1. {j \in PointsRead' : j <= n} = PointsRead'
      BY <2>1, <2>6, <2>7
    <3> QED BY <2>9, <3>1 DEF Rank
  <2>12. /\ result' \in Seq(MetnoForecasts') /\ Len(result') = Len(result) + 1
         /\ result'[Len(result) + 1] = f
         /\ \A i \in 1..Len(result) : result'[i] = result[i]
    BY <2>1, <2>4
  <2>13. ASSUME NEW k \in PointsRead'
         PROVE  result'[Rank(k)'] = MetnoForecast(Elements, k)
    <3>1. CASE k \in PointsRead
      BY <2>1, <2>7, <2>10, <2>12, <3>1
    <3>2. CASE k = n
      BY <2>11, <2>12, <3>2
    <3> QED BY <2>6, <3>1, <3>2
  <2>14. IsPoint(m)' => HasForecast(m)'
    BY <2>1, <2>3, <2>5
  <2> HIDE DEF f
  <2> QED BY <2>1, <2>2, <2>9, <2>12, <2>13, <2>14 DEF MetnoInv
<1>2. CASE SkipMetnoPeriod
  <2>1. /\ document' = document /\ result' = result /\ m = n + 1 /\ n \in Nat /\ n >= 1
        /\ document.service = "metno" /\ ~IsPoint(n)
    BY <1>2 DEF SkipMetnoPeriod, Position, IsPoint, Element
  <2>2. Elements' = Elements /\ MetnoForecasts' = MetnoForecasts
    BY <2>1 DEF Elements, MetnoForecasts
  <2>3. \A k : HasForecast(k)' = HasForecast(k) /\ IsPoint(k)' = IsPoint(k)
    BY <2>1, PointsAreFixed
  <2>4. PointsRead' = PointsRead
    <3>1. PointsRead = {k \in 1..n - 1 : HasForecast(k)}
      BY DEF PointsRead
    <3>2. PointsRead' = {k \in 1..m - 1 : HasForecast(k)}
      BY <2>3 DEF PointsRead
    <3>3. 1..m - 1 = (1..n - 1) \cup {n} /\ ~HasForecast(n)
      BY <2>1, NextPoints
    <3> QED BY <3>1, <3>2, <3>3
  <2>5. \A k : Rank(k)' = Rank(k)
    BY <2>4 DEF Rank
  <2>6. IsPoint(m)' => HasForecast(m)'
    <3>1. m \in Nat /\ m >= 1 /\ m - 1 = n
      BY <2>1
    <3> QED BY <2>1, <2>3, <3>1, NextPoints
  <2> QED BY <2>1, <2>2, <2>4, <2>5, <2>6 DEF MetnoInv
<1>3. CASE UNCHANGED vars
  <2>1. /\ document' = document /\ result' = result /\ m = n
        /\ Elements' = Elements /\ MetnoForecasts' = MetnoForecasts
    BY <1>3 DEF vars, Elements, MetnoForecasts
  <2>2. \A k : HasForecast(k)' = HasForecast(k) /\ IsPoint(k)' = IsPoint(k)
    BY <2>1, PointsAreFixed
  <2>3. PointsRead' = PointsRead
    BY <1>3, <2>2 DEF PointsRead, vars
  <2>4. \A k : Rank(k)' = Rank(k)
    BY <2>3 DEF Rank
  <2> QED BY <2>1, <2>2, <2>3, <2>4 DEF MetnoInv
<1>4. CASE ~ReadMetnoPoint /\ ~SkipMetnoPeriod /\ Next
  <2>1. document' = document /\ document.service # "metno"
    BY <1>4 DEF Next, ReadMetarWord, ReadNwsWeather, StoreNwsWeather, ReadIwinElement, EndIwin,
       ReadOwmTime
  <2> QED BY <2>1 DEF MetnoInv
<1> QED BY <1>1, <1>2, <1>3, <1>4

(* What one element adds to a forecast.                                    *)
ForecastFields == DOMAIN NewForecast(0)
HasSymbol(e) == e.symbol # <<>> /\ MetnoKnows(e.symbol[1])

(* What fill_info_from_node changes in a forecast: its time stays, a       *)
(* symbol makes it valid, and what the element has replaces what is there. *)
LEMMA MetnoFillLemma ==
  ASSUME NEW info, DOMAIN info = ForecastFields, info.valid \in BOOLEAN, NEW e
  PROVE  /\ DOMAIN MetnoFill(info, e) = ForecastFields
         /\ MetnoFill(info, e).update = info.update
         /\ MetnoFill(info, e).valid \in BOOLEAN
         /\ MetnoFill(info, e).valid <=> info.valid \/ HasSymbol(e)
         /\ MetnoFill(info, e).weather
              = IF HasSymbol(e) THEN MetnoSymbol(e.symbol[1]) ELSE info.weather
         /\ MetnoFill(info, e).temp = IF e.temp = Lacking THEN info.temp ELSE e.temp
BY DEF MetnoFill, HasSymbol, ForecastFields, NewForecast

(* The forecast made from a point has the point's time, and of the weather *)
(* and the temperature those of the element after it before its own.       *)
LEMMA MetnoForecastLemma ==
  ASSUME document \in Documents, NEW k \in DOMAIN Elements,
         NEW forecast, forecast = MetnoForecast(Elements, k)
  PROVE  /\ forecast.update = Elements[k].from
         /\ forecast.valid <=> HasWeather(k) \/ HasWeather(k + 1)
         /\ forecast.weather = IF HasWeather(k + 1) THEN MetnoSymbol(Elements[k + 1].symbol[1])
                               ELSE IF HasWeather(k) THEN MetnoSymbol(Elements[k].symbol[1])
                               ELSE Unknown
         /\ forecast.temp = IF HasTemperature(k + 1) THEN Elements[k + 1].temp
                            ELSE IF HasTemperature(k) THEN Elements[k].temp ELSE NoTemperature
<1>1. /\ Len(Elements) \in Nat /\ DOMAIN Elements = 1..Len(Elements)
      /\ k \in Nat /\ k < Len(Elements) <=> k + 1 \in DOMAIN Elements
  BY ElementsAreList
<1>2. PICK own, next : own = Elements[k] /\ next = Elements[k + 1]
  OBVIOUS
<1>3. PICK new : new = NewForecast(own.from)
  OBVIOUS
<1>4. /\ DOMAIN new = ForecastFields /\ new.valid = FALSE
      /\ new.update = own.from /\ new.weather = Unknown /\ new.temp = NoTemperature
  BY <1>3 DEF NewForecast, ForecastFields
<1>5. PICK point : point = MetnoFill(new, own)
  OBVIOUS
<1>6. /\ DOMAIN point = ForecastFields /\ point.valid \in BOOLEAN
      /\ point.update = own.from
      /\ point.valid <=> HasSymbol(own)
      /\ point.weather = IF HasSymbol(own) THEN MetnoSymbol(own.symbol[1]) ELSE Unknown
      /\ point.temp = IF own.temp = Lacking THEN NoTemperature ELSE own.temp
  BY <1>4, <1>5, MetnoFillLemma
<1>7. forecast = IF k < Len(Elements) THEN MetnoFill(point, next) ELSE point
  BY <1>2, <1>3, <1>5 DEF MetnoForecast
<1>8. /\ HasWeather(k) <=> HasSymbol(own)
      /\ HasTemperature(k) <=> own.temp # Lacking
  BY <1>2 DEF HasWeather, HasSymbol, HasTemperature
<1>9. CASE k < Len(Elements)
  <2>1. /\ HasWeather(k + 1) <=> HasSymbol(next)
        /\ HasTemperature(k + 1) <=> next.temp # Lacking
    BY <1>1, <1>2, <1>9 DEF HasWeather, HasSymbol, HasTemperature
  <2>2. /\ forecast.update = point.update
        /\ forecast.valid <=> point.valid \/ HasSymbol(next)
        /\ forecast.weather
             = IF HasSymbol(next) THEN MetnoSymbol(next.symbol[1]) ELSE point.weather
        /\ forecast.temp = IF next.temp = Lacking THEN point.temp ELSE next.temp
    <3>1. /\ MetnoFill(point, next).update = point.update
          /\ MetnoFill(point, next).valid <=> point.valid \/ HasSymbol(next)
          /\ MetnoFill(point, next).weather
               = IF HasSymbol(next) THEN MetnoSymbol(next.symbol[1]) ELSE point.weather
          /\ MetnoFill(point, next).temp
               = IF next.temp = Lacking THEN point.temp ELSE next.temp
      BY <1>6, MetnoFillLemma
    <3>2. forecast = MetnoFill(point, next)
      BY <1>7, <1>9
    <3> QED BY <3>1, <3>2
  <2>3. forecast.update = own.from /\ (forecast.valid <=> HasWeather(k) \/ HasWeather(k + 1))
    BY <1>6, <1>8, <2>1, <2>2
  <2>4. forecast.weather = IF HasWeather(k + 1) THEN MetnoSymbol(next.symbol[1])
                           ELSE IF HasWeather(k) THEN MetnoSymbol(own.symbol[1]) ELSE Unknown
    BY <1>6, <1>8, <2>1, <2>2
  <2>5. forecast.temp = IF HasTemperature(k + 1) THEN next.temp
                        ELSE IF HasTemperature(k) THEN own.temp ELSE NoTemperature
    BY <1>6, <1>8, <2>1, <2>2
  <2> QED BY <1>2, <2>3, <2>4, <2>5
<1>10. CASE ~(k < Len(Elements))
  <2>1. ~HasWeather(k + 1) /\ ~HasTemperature(k + 1) /\ forecast = point
    BY <1>1, <1>7, <1>10 DEF HasWeather, HasTemperature
  <2> QED BY <1>2, <1>6, <1>8, <2>1
<1> QED BY <1>9, <1>10

(* The forecasts of MET Norway are those of the points that are read as    *)
(* such, in order, for documents of any length.                            *)
THEOREM ForecastsAreOfPoints == Spec => []ForecastsArePoints
<1>1. Init => Position /\ MetnoInv
  <2>1. ASSUME Init, document.service = "metno" PROVE MetnoInv
    <3>1. result = <<>> /\ at = 1 /\ document \in Documents
      BY <2>1 DEF Init, Started
    <3>2. PointsRead = {}
      BY <3>1 DEF PointsRead
    <3>3. ~IsPoint(0)
      BY <3>1, ElementsAreList DEF IsPoint
    <3>4. IsPoint(1) => HasForecast(1)
      <4>1. 1 \in Nat /\ 1 - 1 = 0
        OBVIOUS
      <4> QED BY <3>3, <4>1, NextPoints
    <3>5. Len(result) = Cardinality(PointsRead)
      BY <3>1, <3>2, FS_EmptySet
    <3> QED BY <3>1, <3>2, <3>4, <3>5 DEF MetnoInv
  <2> QED BY <2>1, MetarStart DEF MetnoInv
<1>2. Position /\ MetnoInv /\ [Next]_vars => (Position /\ MetnoInv)'
  BY PositionStep, MetnoStep
<1>3. Position /\ MetnoInv => ForecastsArePoints
  <2> SUFFICES ASSUME Position, MetnoInv, document.service = "metno"
               PROVE  ForecastsArePoints
    BY DEF ForecastsArePoints
  <2>1. Len(result) = Cardinality(PointsRead)
    BY DEF MetnoInv
  <2>2. ASSUME NEW k \in PointsRead, NEW forecast, forecast = result[Rank(k)]
        PROVE  /\ forecast.update = Elements[k].from
               /\ forecast.valid <=> HasWeather(k) \/ HasWeather(k + 1)
               /\ forecast.weather
                    = IF HasWeather(k + 1) THEN MetnoSymbol(Elements[k + 1].symbol[1])
                      ELSE IF HasWeather(k) THEN MetnoSymbol(Elements[k].symbol[1]) ELSE Unknown
               /\ forecast.temp
                    = IF HasTemperature(k + 1) THEN Elements[k + 1].temp
                      ELSE IF HasTemperature(k) THEN Elements[k].temp ELSE NoTemperature
    <3>1. k \in Nat /\ k >= 1 /\ HasForecast(k) /\ document \in Documents
      BY DEF PointsRead, Position
    <3>2. k \in DOMAIN Elements
      BY <3>1, NextPoints DEF IsPoint
    <3>3. forecast = MetnoForecast(Elements, k)
      BY <2>2 DEF MetnoInv
    <3> QED BY <3>1, <3>2, <3>3, MetnoForecastLemma
  <2> QED BY <2>1, <2>2 DEF ForecastsArePoints
<1> QED BY <1>1, <1>2, <1>3, PTL DEF Spec

-----------------------------------------------------------------------------
(* IWIN *)

(* The six entries of ph_list have a phenomenon and a name.                *)
LEMMA PhListLemma ==
  /\ DOMAIN PhList = 1..6
  /\ \A k \in 1..6 : PhList[k].shows # "none" /\ PhList[k].name # "missing"
<1>1. DOMAIN PhList = 1..6
  BY DEF PhList
<1>2. ASSUME NEW k \in 1..6
      PROVE  PhList[k].shows # "none" /\ PhList[k].name # "missing"
  <2>1. k = 1 \/ k = 2 \/ k = 3 \/ k = 4 \/ k = 5 \/ k = 6
    OBVIOUS
  <2>2. PhList[1].shows # "none" /\ PhList[1].name # "missing"
    BY DEF PhList
  <2>3. PhList[2].shows # "none" /\ PhList[2].name # "missing"
    BY DEF PhList
  <2>4. PhList[3].shows # "none" /\ PhList[3].name # "missing"
    BY DEF PhList
  <2>5. PhList[4].shows # "none" /\ PhList[4].name # "missing"
    BY DEF PhList
  <2>6. PhList[5].shows # "none" /\ PhList[5].name # "missing"
    BY DEF PhList
  <2>7. PhList[6].shows # "none" /\ PhList[6].name # "missing"
    BY DEF PhList
  <2> QED BY <2>1, <2>2, <2>3, <2>4, <2>5, <2>6, <2>7
<1> QED BY <1>1, <1>2

(* Whether a list of names has one of a summary does not depend on the     *)
(* default, and neither does what it shows then.                           *)
LEMMA FirstContainedLemma ==
  ASSUME NEW summary, NEW default
  PROVE  FirstContained(PhList, summary, default)
           = IF FirstContained(PhList, summary, "none") = "none" THEN default
             ELSE FirstContained(PhList, summary, "none")
<1> DEFINE found == {k \in DOMAIN PhList : PhList[k].name \in summary}
<1>1. DOMAIN PhList = 1..6 /\ \A k \in 1..6 : PhList[k].shows # "none"
  BY PhListLemma
<1>2. found \subseteq 1..6
  BY <1>1
<1>3. CASE found = {}
  BY <1>3 DEF FirstContained
<1>4. CASE found # {}
  <2>1. \E k \in found : \A j \in found : k <= j
    <3> HIDE DEF found
    <3>1. CASE 1 \in found
      BY <1>2, <3>1
    <3>2. CASE 1 \notin found /\ 2 \in found
      BY <1>2, <3>2
    <3>3. CASE 1 \notin found /\ 2 \notin found /\ 3 \in found
      BY <1>2, <3>3
    <3>4. CASE 1 \notin found /\ 2 \notin found /\ 3 \notin found
      <4>1. found \subseteq 4..6
        BY <1>2, <3>4
      <4>2. CASE 4 \in found
        BY <4>1, <4>2
      <4>3. CASE 4 \notin found /\ 5 \in found
        BY <4>1, <4>3
      <4>4. CASE 4 \notin found /\ 5 \notin found
        <5>1. found \subseteq {6}
          BY <4>1, <4>4
        <5>2. 6 \in found
          BY <1>4, <5>1
        <5>3. \A j \in found : 6 <= j
          BY <5>1
        <5> QED BY <5>2, <5>3
      <4> QED BY <4>2, <4>3, <4>4
    <3> QED BY <3>1, <3>2, <3>3, <3>4
  <2>2. PICK first \in found : first = CHOOSE k \in found : \A j \in found : k <= j
    BY <2>1
  <2>3. \A d : FirstContained(PhList, summary, d) = PhList[first].shows
    BY <1>4, <2>2 DEF FirstContained
  <2> QED BY <1>1, <1>2, <2>3
<1> QED BY <1>3, <1>4

(* An icon that is missing is none of ph_list.                             *)
LEMMA MissingIsNoName ==
  FirstContained(PhList, {"missing"}, "none") = "none"
<1>1. {k \in DOMAIN PhList : PhList[k].name \in {"missing"}} = {}
  BY PhListLemma
<1> QED BY <1>1 DEF FirstContained

DayFields == DOMAIN NewDay(0)

(* What a summary and a temperature change in a day.                       *)
LEMMA DayWeatherLemma ==
  ASSUME NEW day, DOMAIN day = DayFields, NEW summary
  PROVE  /\ DOMAIN DayWeather(day, summary) = DayFields
         /\ DayWeather(day, summary).update = day.update
         /\ DayWeather(day, summary).min = day.min
         /\ DayWeather(day, summary).max = day.max
         /\ DayWeather(day, summary).valid = TRUE
         /\ DayWeather(day, summary).phenomenon
              = FirstContained(PhList, summary, day.phenomenon)
BY DEF DayWeather, DayFields, NewDay

(* A temperature sets one extreme of a day.                                *)
LEMMA DayTemperatureLemma ==
  ASSUME NEW day, DOMAIN day = DayFields, NEW isMax, NEW value
  PROVE  /\ DOMAIN DayTemperature(day, isMax, value) = DayFields
         /\ DayTemperature(day, isMax, value).update = day.update
         /\ DayTemperature(day, isMax, value).min \in {day.min, day.max, value}
         /\ DayTemperature(day, isMax, value).max \in {day.min, day.max, value}
         /\ DayTemperature(day, isMax, value).phenomenon = day.phenomenon
BY DEF DayTemperature, DayFields, NewDay

(* parseForecastXml: the layout that is used, and what the rows read so    *)
(* far have made of each day.                                              *)
LayoutIsRead ==
  \E k \in Layouts : /\ k \in Read
                     /\ \A j \in Layouts : k <= j
                     /\ result.times = Elements[k].times

RowsRead(element) == {k \in Rows(element) : k \in Read}
Says(k, d) == FirstContained(PhList, SummaryOf(k, d), "none")
SaysSoFar(d) == {k \in RowsRead("weather") : Says(k, d) # "none"}
Measured(d) ==
  {Elements[k].values[d] : k \in {j \in RowsRead("temperature") : d <= Len(Elements[j].values)}}

PhenomenonSoFar(d) ==
  \/ SaysSoFar(d) = {} /\ result.days[d].phenomenon = "none"
  \/ \E k \in SaysSoFar(d) : /\ \A j \in SaysSoFar(d) : j <= k
                             /\ result.days[d].phenomenon = Says(k, d)

BoundsSoFar(d) ==
  /\ result.days[d].min \in Measured(d) \cup {Unset}
  /\ result.days[d].max \in Measured(d) \cup {Unset}

(* A summary after the temperatures has made the day valid.                *)
ValidSoFar(d) ==
  \A k \in RowsRead("weather") :
    /\ SummaryOf(k, d) # {"missing"}
    /\ \A j \in RowsRead("temperature") : j < k
    => result.days[d].valid

DaysSoFar ==
  /\ DOMAIN result.days = 1..Days
  /\ \A d \in 1..Days :
       /\ DOMAIN result.days[d] = DayFields
       /\ result.days[d].update = result.times[d]
       /\ PhenomenonSoFar(d)
       /\ BoundsSoFar(d)
       /\ ValidSoFar(d)

NoParameters == \A k \in Read : Elements[k].element # "parameters"

IwinInv ==
  document.service = "iwin" =>
    /\ DOMAIN result = DOMAIN IwinStart
    /\ at - 1 <= Len(Elements)
    /\ \/ /\ result.status = "data" /\ result.days = <<>>
          /\ NoParameters
          /\ \/ LayoutIsRead
             \/ result.times = <<>> /\ \A k \in Layouts : k \notin Read
       \/ /\ result.status = "parameters"
          /\ ~NoParameters /\ LayoutIsRead /\ DaysSoFar
          /\ \A k \in Read : ~Stops(k)
       \/ /\ result.status = "skipping"
          /\ ~NoParameters /\ LayoutIsRead /\ DaysSoFar
          /\ \E k \in Read : Stops(k)
       \/ result.status = "done" /\ ColumnsAreDays /\ SummaryMakesDay

(* The elements read, and what is known of them in every action.           *)
LEMMA IwinElements ==
  ASSUME Position, document.service = "iwin"
  PROVE  /\ Len(Elements) \in Nat /\ DOMAIN Elements = 1..Len(Elements)
         /\ at \in Nat /\ at >= 1
         /\ \A k \in DOMAIN Elements :
              Elements[k].element \in {"temperature", "weather"}
                => \E j \in 1..k - 1 : Elements[j].element = "parameters"
<1>1. document \in Documents
  BY DEF Position
<1> QED BY <1>1, ElementsAreList, DocumentsAssumption DEF Position, Elements

(* Before the parameters there are no rows, and none of them ends the      *)
(* reading.                                                                *)
LEMMA NoRowsBeforeParameters ==
  ASSUME Position, document.service = "iwin", at - 1 <= Len(Elements), NoParameters
  PROVE  /\ \A k \in Read : /\ ~Stops(k)
                            /\ k \notin Rows("weather") /\ k \notin Rows("temperature")
         /\ at \in DOMAIN Elements => Elements[at].element \notin {"temperature", "weather"}
<1>1. \A k \in DOMAIN Elements : k <= at =>
        /\ Elements[k].element \notin {"temperature", "weather"}
        /\ k \in Nat
  BY IwinElements DEF NoParameters, Read
<1>2. Read \subseteq DOMAIN Elements /\ \A k \in Read : k <= at
  BY IwinElements DEF Read
<1> QED BY <1>1, <1>2, IwinElements DEF Stops, Rows

(* What one element more changes in the sets of elements.                  *)
LEMMA IwinOneMore ==
  ASSUME Position, IwinInv, ReadIwinElement
  PROVE  /\ document' = document /\ document.service = "iwin"
         /\ Elements' = Elements /\ at \in DOMAIN Elements
         /\ at' - 1 <= Len(Elements')
         /\ result' = IwinRead(result, Elements[at])
         /\ DOMAIN result = DOMAIN IwinStart
         /\ Read' = Read \cup {at} /\ \A k \in Read : k \in Nat /\ k < at
         /\ Layouts' = Layouts
         /\ \A w : RowsRead(w)' = IF at \in Rows(w) THEN RowsRead(w) \cup {at} ELSE RowsRead(w)
         /\ \A k : Stops(k)' <=> Stops(k)
<1>1. /\ document' = document /\ document.service = "iwin" /\ at' = at + 1
      /\ result' = IwinRead(result, Elements[at])
      /\ at <= Len(Elements)
      /\ DOMAIN result = DOMAIN IwinStart
  BY DEF ReadIwinElement, IwinInv, Element, More
<1>2. /\ Len(Elements) \in Nat /\ DOMAIN Elements = 1..Len(Elements)
      /\ at \in Nat /\ at >= 1
  BY <1>1, IwinElements
<1>3. Elements' = Elements
  BY <1>1 DEF Elements
<1>4. Read' = Read \cup {at} /\ \A k \in Read : k \in Nat /\ k < at
  BY <1>1, <1>2 DEF Read
<1>5. \A k : Stops(k)' <=> Stops(k)
  BY <1>3 DEF Stops
<1>6. Layouts' = Layouts
  BY <1>3 DEF Layouts, IsLayout
<1>7. \A w : Rows(w)' = Rows(w)
  BY <1>3, <1>5 DEF Rows
<1>8. \A w : RowsRead(w)' = IF at \in Rows(w) THEN RowsRead(w) \cup {at} ELSE RowsRead(w)
  BY <1>4, <1>7 DEF RowsRead
<1> QED BY <1>1, <1>2, <1>3, <1>4, <1>5, <1>6, <1>8

(* A layout has a column for each day, so it is not empty.                 *)
LEMMA LayoutHasColumns ==
  ASSUME LayoutIsRead
  PROVE  result.times # <<>>
<1>1. PICK k \in Layouts : result.times = Elements[k].times
  BY DEF LayoutIsRead
<1>2. Len(result.times) = Days /\ Days # 0
  BY <1>1, DaysAssumption DEF Layouts, IsLayout
<1>3. Len(<<>>) = 0
  OBVIOUS
<1> QED BY <1>2, <1>3

(* The layout that is used stays, and so do days to which no row is added. *)
LEMMA LayoutStays ==
  ASSUME Position, IwinInv, ReadIwinElement, LayoutIsRead, result'.times = result.times
  PROVE  LayoutIsRead'
<1>1. Elements' = Elements /\ Layouts' = Layouts /\ Read \subseteq Read'
  BY IwinOneMore
<1> QED BY <1>1 DEF LayoutIsRead

(* An element that is no row of values leaves what the rows make of the    *)
(* days.                                                                   *)
LEMMA DaysStay ==
  ASSUME Position, IwinInv, ReadIwinElement, DaysSoFar,
         result'.times = result.times, result'.days = result.days,
         at \notin Rows("weather"), at \notin Rows("temperature")
  PROVE  DaysSoFar'
<1>1. /\ Elements' = Elements
      /\ RowsRead("weather")' = RowsRead("weather")
      /\ RowsRead("temperature")' = RowsRead("temperature")
  BY IwinOneMore
<1>2. \A k, d : SummaryOf(k, d)' = SummaryOf(k, d) /\ Says(k, d)' = Says(k, d)
  BY <1>1 DEF SummaryOf, Says
<1>3. \A d : SaysSoFar(d)' = SaysSoFar(d) /\ Measured(d)' = Measured(d)
  BY <1>1, <1>2 DEF SaysSoFar, Measured
<1> QED BY <1>1, <1>2, <1>3 DEF DaysSoFar, PhenomenonSoFar, BoundsSoFar, ValidSoFar

(* A row of temperatures moves the bounds of its columns only.             *)
LEMMA TemperatureStep ==
  ASSUME Position, IwinInv, ReadIwinElement, DaysSoFar,
         at \in Rows("temperature"), at \notin Rows("weather"),
         result'.times = result.times, NEW isMax,
         result'.days = [d \in 1..Days |->
           IF d <= Len(Elements[at].values)
           THEN DayTemperature(result.days[d], isMax, Elements[at].values[d]) ELSE result.days[d]]
  PROVE  DaysSoFar'
<1>1. /\ Elements' = Elements
      /\ RowsRead("weather")' = RowsRead("weather")
      /\ RowsRead("temperature")' = RowsRead("temperature") \cup {at}
      /\ \A k \in Read : k \in Nat /\ k < at
      /\ at \in Nat
  BY IwinOneMore DEF Position
<1>2. \A k, d : SummaryOf(k, d)' = SummaryOf(k, d) /\ Says(k, d)' = Says(k, d)
  BY <1>1 DEF SummaryOf, Says
<1>3. \A d : /\ SaysSoFar(d)' = SaysSoFar(d)
             /\ Measured(d) \subseteq Measured(d)'
             /\ d <= Len(Elements[at].values) => Elements[at].values[d] \in Measured(d)'
  BY <1>1, <1>2 DEF SaysSoFar, Measured
<1>4. DOMAIN result'.days = 1..Days
  OBVIOUS
<1>5. ASSUME NEW d \in 1..Days
      PROVE  /\ DOMAIN result'.days[d] = DayFields
             /\ result'.days[d].update = result'.times[d]
             /\ PhenomenonSoFar(d)'
             /\ BoundsSoFar(d)'
             /\ ValidSoFar(d)'
  <2> DEFINE day == result.days[d]
             new == result'.days[d]
             value == Elements[at].values[d]
  <2>1. /\ DOMAIN day = DayFields /\ day.update = result.times[d]
        /\ PhenomenonSoFar(d) /\ BoundsSoFar(d)
    BY DEF DaysSoFar
  <2>2. \/ new = day
        \/ new = DayTemperature(day, isMax, value) /\ d <= Len(Elements[at].values)
    OBVIOUS
  <2>3. /\ DOMAIN new = DayFields /\ new.update = day.update
        /\ new.phenomenon = day.phenomenon
        /\ \/ {new.min, new.max} \subseteq {day.min, day.max}
           \/ /\ {new.min, new.max} \subseteq {day.min, day.max, value}
              /\ d <= Len(Elements[at].values)
    BY <2>1, <2>2, DayTemperatureLemma
  <2>4. PhenomenonSoFar(d)'
    BY <1>2, <1>3, <2>1, <2>3 DEF PhenomenonSoFar
  <2>5. BoundsSoFar(d)'
    <3>1. {day.min, day.max} \subseteq Measured(d)' \cup {Unset}
      BY <1>3, <2>1 DEF BoundsSoFar
    <3>2. {new.min, new.max} \subseteq Measured(d)' \cup {Unset}
      BY <1>3, <2>3, <3>1
    <3> QED BY <3>2 DEF BoundsSoFar
  <2>6. ValidSoFar(d)'
    <3>1. \A k \in RowsRead("weather") : ~(at < k)
      BY <1>1 DEF RowsRead
    <3> QED BY <1>1, <3>1 DEF ValidSoFar
  <2> QED BY <2>1, <2>3, <2>4, <2>5, <2>6
<1> QED BY <1>4, <1>5 DEF DaysSoFar

(* A row of summaries makes its columns valid where it has any.            *)
LEMMA WeatherStep ==
  ASSUME Position, IwinInv, ReadIwinElement, DaysSoFar,
         at \in Rows("weather"), at \notin Rows("temperature"),
         result'.times = result.times,
         result'.days = [d \in 1..Days |->
           IF d <= Len(Elements[at].summaries) /\ Elements[at].summaries[d] # {"missing"}
           THEN DayWeather(result.days[d], Elements[at].summaries[d]) ELSE result.days[d]]
  PROVE  DaysSoFar'
<1>1. /\ Elements' = Elements
      /\ RowsRead("weather")' = RowsRead("weather") \cup {at}
      /\ RowsRead("temperature")' = RowsRead("temperature")
      /\ \A k \in Read : k \in Nat /\ k < at
      /\ at \in Nat
  BY IwinOneMore DEF Position
<1>2. \A k, d : SummaryOf(k, d)' = SummaryOf(k, d) /\ Says(k, d)' = Says(k, d)
  BY <1>1 DEF SummaryOf, Says
<1>3. \A d : Measured(d)' = Measured(d)
  BY <1>1 DEF Measured
<1>4. DOMAIN result'.days = 1..Days
  OBVIOUS
<1>5. ASSUME NEW d \in 1..Days
      PROVE  /\ DOMAIN result'.days[d] = DayFields
             /\ result'.days[d].update = result'.times[d]
             /\ PhenomenonSoFar(d)'
             /\ BoundsSoFar(d)'
             /\ ValidSoFar(d)'
  <2> DEFINE day == result.days[d]
             new == result'.days[d]
             summary == SummaryOf(at, d)
  <2>1. /\ DOMAIN day = DayFields /\ day.update = result.times[d]
        /\ PhenomenonSoFar(d) /\ BoundsSoFar(d) /\ ValidSoFar(d)
    BY DEF DaysSoFar
  <2>2. new = IF summary # {"missing"} THEN DayWeather(day, summary) ELSE day
    BY DEF SummaryOf
  <2>3. /\ DOMAIN new = DayFields /\ new.update = day.update
        /\ new.min = day.min /\ new.max = day.max
        /\ summary = {"missing"} => new.valid = day.valid /\ new.phenomenon = day.phenomenon
        /\ summary # {"missing"} =>
             new.valid = TRUE /\ new.phenomenon = FirstContained(PhList, summary, day.phenomenon)
    <3>1. CASE summary = {"missing"}
      BY <2>1, <2>2, <3>1
    <3>2. CASE summary # {"missing"}
      <4>1. new = DayWeather(day, summary)
        BY <2>2, <3>2
      <4>2. PICK n, o, said : n = new /\ o = day /\ said = summary
        OBVIOUS
      <4>3. DOMAIN o = DayFields /\ n = DayWeather(o, said)
        BY <2>1, <4>1, <4>2
      <4>4. /\ DOMAIN n = DayFields /\ n.update = o.update
            /\ n.min = o.min /\ n.max = o.max /\ n.valid = TRUE
            /\ n.phenomenon = FirstContained(PhList, said, o.phenomenon)
        BY <4>3, DayWeatherLemma
      <4> QED BY <3>2, <4>2, <4>4
    <3> QED BY <3>1, <3>2
  <2>4. new.phenomenon = IF Says(at, d) = "none" THEN day.phenomenon ELSE Says(at, d)
    <3>1. summary = {"missing"} => Says(at, d) = "none"
      BY MissingIsNoName DEF Says
    <3>2. FirstContained(PhList, summary, day.phenomenon)
            = IF Says(at, d) = "none" THEN day.phenomenon ELSE Says(at, d)
      BY FirstContainedLemma DEF Says
    <3> QED BY <2>3, <3>1, <3>2
  <2>5. PhenomenonSoFar(d)'
    <3>1. CASE Says(at, d) = "none"
      <4>1. SaysSoFar(d)' = SaysSoFar(d)
        BY <1>1, <1>2, <3>1 DEF SaysSoFar
      <4> QED BY <1>2, <2>1, <2>4, <3>1, <4>1 DEF PhenomenonSoFar
    <3>2. CASE Says(at, d) # "none"
      <4>1. SaysSoFar(d)' = SaysSoFar(d) \cup {at}
        BY <1>1, <1>2, <3>2 DEF SaysSoFar
      <4>2. \A k \in SaysSoFar(d) \cup {at} : k <= at
        BY <1>1 DEF SaysSoFar, RowsRead
      <4>3. PICK n : n = at
        OBVIOUS
      <4>4. new.phenomenon = Says(n, d)'
        BY <1>2, <2>4, <3>2, <4>3
      <4>5. n \in SaysSoFar(d)' /\ \A k \in SaysSoFar(d)' : k <= n
        BY <4>1, <4>2, <4>3
      <4> QED BY <4>4, <4>5 DEF PhenomenonSoFar
    <3> QED BY <3>1, <3>2
  <2>6. BoundsSoFar(d)'
    BY <1>3, <2>1, <2>3 DEF BoundsSoFar
  <2>7. ValidSoFar(d)'
    BY <1>1, <1>2, <2>1, <2>3 DEF ValidSoFar
  <2> QED BY <2>1, <2>3, <2>5, <2>6, <2>7
<1> QED BY <1>4, <1>5 DEF DaysSoFar

(* One element of an IWIN document, by how the reading stands.             *)
LEMMA IwinDataStep ==
  ASSUME Position, IwinInv, ReadIwinElement, result.status = "data"
  PROVE  IwinInv'
<1> DEFINE e == Elements[at]
<1>1. /\ document' = document /\ document.service = "iwin"
      /\ Elements' = Elements /\ at \in DOMAIN Elements /\ at \in Nat
      /\ at' - 1 <= Len(Elements')
      /\ result' = IwinRead(result, e)
      /\ DOMAIN result = DOMAIN IwinStart
      /\ Read' = Read \cup {at} /\ \A k \in Read : k \in Nat /\ k < at
      /\ Layouts' = Layouts
      /\ \A k : Stops(k)' <=> Stops(k)
  BY IwinOneMore DEF Position
<1>2. /\ result.days = <<>> /\ NoParameters /\ at - 1 <= Len(Elements)
      /\ LayoutIsRead \/ (result.times = <<>> /\ \A k \in Layouts : k \notin Read)
  BY <1>1 DEF IwinInv
<1>3. /\ \A k \in Read : k \notin Rows("weather") /\ k \notin Rows("temperature") /\ ~Stops(k)
      /\ e.element \notin {"temperature", "weather"}
  BY <1>1, <1>2, NoRowsBeforeParameters
<1>4. e.element # "parameters" => NoParameters'
  BY <1>1, <1>2 DEF NoParameters
<1>5. \A k \in Layouts : k \in Nat /\ (k \notin Read => k >= at)
  BY <1>1, IwinElements DEF Layouts, Read, Position
<1>6. CASE e.element = "time-layout"
  <2>1. result' = IwinTimeLayout(result, e)
    BY <1>1, <1>6 DEF IwinRead
  <2>2. CASE result.times = <<>> /\ e.daily /\ Len(e.times) = Days
    <3>1. /\ DOMAIN result' = DOMAIN IwinStart /\ result'.times = e.times
          /\ result'.status = "data" /\ result'.days = <<>>
      BY <1>1, <1>2, <2>1, <2>2 DEF IwinTimeLayout, IwinStart
    <3>2. at \in Layouts
      <4>1. \A j \in 1..at : Elements[j].element # "parameters"
        BY <1>1, <1>2, <1>6 DEF NoParameters, Read
      <4> QED BY <1>1, <1>6, <2>2, <4>1 DEF Layouts, IsLayout
    <3>3. \A k \in Layouts : k \notin Read
      BY <1>2, <2>2, LayoutHasColumns
    <3>4. LayoutIsRead'
      <4>1. PICK n : n = at
        OBVIOUS
      <4>2. n \in Layouts' /\ n \in Read' /\ result'.times = Elements'[n].times
        BY <1>1, <3>1, <3>2, <4>1
      <4>3. \A k \in Layouts' : n <= k
        BY <1>1, <1>5, <3>3, <4>1
      <4> QED BY <4>2, <4>3 DEF LayoutIsRead
    <3> QED BY <1>1, <1>4, <1>6, <3>1, <3>4 DEF IwinInv
  <2>3. CASE ~(result.times = <<>> /\ e.daily /\ Len(e.times) = Days)
    <3>1. result' = result
      BY <2>1, <2>3 DEF IwinTimeLayout
    <3>2. CASE LayoutIsRead
      <4>1. LayoutIsRead'
        BY <3>1, <3>2, LayoutStays
      <4> QED BY <1>1, <1>2, <1>4, <1>6, <3>1, <4>1 DEF IwinInv
    <3>3. CASE result.times = <<>> /\ \A k \in Layouts : k \notin Read
      <4>1. at \notin Layouts
        BY <2>3, <3>3 DEF Layouts, IsLayout
      <4> QED BY <1>1, <1>2, <1>4, <1>6, <3>1, <3>3, <4>1 DEF IwinInv
    <3> QED BY <1>2, <3>2, <3>3
  <2> QED BY <2>2, <2>3
<1>7. CASE e.element = "parameters"
  <2>1. result' = IwinParameters(result)
    BY <1>1, <1>7 DEF IwinRead
  <2>2. CASE result.times = <<>>
    <3>1. /\ DOMAIN result' = DOMAIN IwinStart
          /\ result'.status = "done" /\ result'.days = <<>>
      BY <1>1, <1>2, <2>1, <2>2 DEF IwinParameters, IwinStart
    <3>2. Layouts' = {}
      <4>1. \A k \in Layouts : k \notin Read /\ at \in 1..k
        BY <1>1, <1>2, <1>5, <2>2, LayoutHasColumns, IwinElements
      <4>2. \A k \in Layouts : FALSE
        BY <1>7, <4>1 DEF Layouts, IsLayout
      <4> QED BY <1>1, <4>2
    <3>3. ColumnsAreDays'
      BY <3>1 DEF ColumnsAreDays
    <3>4. SummaryMakesDay'
      BY <3>2 DEF SummaryMakesDay
    <3> QED BY <1>1, <3>1, <3>3, <3>4 DEF IwinInv
  <2>3. CASE result.times # <<>>
    <3>1. /\ DOMAIN result' = DOMAIN IwinStart
          /\ result'.status = "parameters" /\ result'.times = result.times
          /\ result'.days = [d \in 1..Days |-> NewDay(result.times[d])]
      BY <1>1, <1>2, <2>1, <2>3 DEF IwinParameters, IwinStart
    <3>2. LayoutIsRead'
      BY <1>2, <2>3, <3>1, LayoutStays
    <3>3. ~NoParameters'
      BY <1>1, <1>7 DEF NoParameters
    <3>4. \A k \in Read' : ~Stops(k)'
      BY <1>1, <1>3, <1>7 DEF Stops
    <3>5. RowsRead("weather")' = {} /\ RowsRead("temperature")' = {}
      <4>1. at \notin Rows("weather") /\ at \notin Rows("temperature")
        BY <1>7 DEF Rows
      <4>2. RowsRead("weather") = {} /\ RowsRead("temperature") = {}
        BY <1>3 DEF RowsRead
      <4> QED BY <4>1, <4>2, IwinOneMore
    <3>6. DaysSoFar'
      <4>1. \A d : SaysSoFar(d)' = {}
        BY <3>5 DEF SaysSoFar
      <4>2. DOMAIN result'.days = 1..Days
        BY <3>1
      <4>3. ASSUME NEW d \in 1..Days
            PROVE  /\ DOMAIN result'.days[d] = DayFields
                   /\ result'.days[d].update = result'.times[d]
                   /\ PhenomenonSoFar(d)'
                   /\ BoundsSoFar(d)'
                   /\ ValidSoFar(d)'
        <5>1. result'.days[d] = NewDay(result'.times[d])
          BY <3>1
        <5>2. /\ DOMAIN result'.days[d] = DayFields
              /\ result'.days[d].update = result'.times[d]
              /\ result'.days[d].phenomenon = "none"
              /\ result'.days[d].min = Unset /\ result'.days[d].max = Unset
          BY <5>1 DEF NewDay, DayFields
        <5> QED BY <3>5, <4>1, <5>2 DEF PhenomenonSoFar, BoundsSoFar, ValidSoFar
      <4> QED BY <4>2, <4>3 DEF DaysSoFar
    <3> QED BY <1>1, <3>1, <3>2, <3>3, <3>4, <3>6 DEF IwinInv
  <2> QED BY <2>2, <2>3
<1>8. CASE e.element \notin {"time-layout", "parameters"}
  <2>1. result' = result
    BY <1>1, <1>8 DEF IwinRead
  <2>2. CASE LayoutIsRead
    <3>1. LayoutIsRead'
      BY <2>1, <2>2, LayoutStays
    <3> QED BY <1>1, <1>2, <1>4, <1>8, <2>1, <3>1 DEF IwinInv
  <2>3. CASE result.times = <<>> /\ \A k \in Layouts : k \notin Read
    <3>1. at \notin Layouts
      BY <1>8 DEF Layouts, IsLayout
    <3> QED BY <1>1, <1>2, <1>4, <1>8, <2>1, <2>3, <3>1 DEF IwinInv
  <2> QED BY <1>2, <2>2, <2>3
<1> QED BY <1>6, <1>7, <1>8

(* Each element of the parameters of an IWIN document keeps the invariant. *)
LEMMA IwinParametersStep ==
  ASSUME Position, IwinInv, ReadIwinElement, result.status = "parameters"
  PROVE  IwinInv'
<1> DEFINE e == Elements[at]
<1>1. /\ document' = document /\ document.service = "iwin"
      /\ Elements' = Elements /\ at \in DOMAIN Elements /\ at \in Nat
      /\ at' - 1 <= Len(Elements')
      /\ result' = IwinRead(result, e)
      /\ DOMAIN result = DOMAIN IwinStart
      /\ Read' = Read \cup {at}
      /\ \A k : Stops(k)' <=> Stops(k)
  BY IwinOneMore DEF Position
<1>2. /\ ~NoParameters /\ LayoutIsRead /\ DaysSoFar
      /\ \A k \in Read : ~Stops(k)
  BY <1>1 DEF IwinInv
<1>3. ~NoParameters'
  BY <1>1, <1>2 DEF NoParameters
<1>4. ~Stops(at) => \A k \in 1..at : ~Stops(k)
  BY <1>1, <1>2 DEF Read
<1>5. CASE e.element = "temperature" /\ e.mine /\ e.type \in {"maximum", "minimum"}
  <2>1. /\ DOMAIN result' = DOMAIN IwinStart
        /\ result'.status = "parameters" /\ result'.times = result.times
        /\ result'.days = [d \in 1..Days |->
              IF d <= Len(e.values)
              THEN DayTemperature(result.days[d], e.type = "maximum", e.values[d])
              ELSE result.days[d]]
    BY <1>1, <1>5 DEF IwinRead, IwinTemperature, IwinStart
  <2>2. ~Stops(at)
    BY <1>5 DEF Stops
  <2>3. at \in Rows("temperature") /\ at \notin Rows("weather")
    BY <1>1, <1>4, <1>5, <2>2 DEF Rows
  <2>4. DaysSoFar'
    BY <1>2, <2>1, <2>3, TemperatureStep
  <2>5. LayoutIsRead'
    BY <1>2, <2>1, LayoutStays
  <2>6. \A k \in Read' : ~Stops(k)'
    BY <1>1, <1>2, <2>2
  <2> QED BY <1>1, <1>3, <2>1, <2>4, <2>5, <2>6 DEF IwinInv
<1>6. CASE e.element = "temperature" /\ e.mine /\ e.type \notin {"maximum", "minimum"}
  <2>1. /\ DOMAIN result' = DOMAIN IwinStart
        /\ result'.status = "skipping" /\ result'.times = result.times
        /\ result'.days = result.days
    BY <1>1, <1>6 DEF IwinRead, IwinTemperature, IwinStart
  <2>2. Stops(at) /\ at \in 1..at
    BY <1>1, <1>6, IwinElements DEF Stops
  <2>3. at \notin Rows("temperature") /\ at \notin Rows("weather")
    BY <2>2 DEF Rows
  <2>4. DaysSoFar'
    BY <1>2, <2>1, <2>3, DaysStay
  <2>5. LayoutIsRead'
    BY <1>2, <2>1, LayoutStays
  <2>6. \E k \in Read' : Stops(k)'
    BY <1>1, <2>2
  <2> QED BY <1>1, <1>3, <2>1, <2>4, <2>5, <2>6 DEF IwinInv
<1>7. CASE e.element = "weather" /\ e.mine
  <2>1. /\ DOMAIN result' = DOMAIN IwinStart
        /\ result'.status = "parameters" /\ result'.times = result.times
        /\ result'.days = [d \in 1..Days |->
              IF d <= Len(e.summaries) /\ e.summaries[d] # {"missing"}
              THEN DayWeather(result.days[d], e.summaries[d]) ELSE result.days[d]]
    BY <1>1, <1>7 DEF IwinRead, IwinWeather, IwinStart
  <2>2. ~Stops(at)
    BY <1>7 DEF Stops
  <2>3. at \in Rows("weather") /\ at \notin Rows("temperature")
    BY <1>1, <1>4, <1>7, <2>2 DEF Rows
  <2>4. DaysSoFar'
    BY <1>2, <2>1, <2>3, WeatherStep
  <2>5. LayoutIsRead'
    BY <1>2, <2>1, LayoutStays
  <2>6. \A k \in Read' : ~Stops(k)'
    BY <1>1, <1>2, <2>2
  <2> QED BY <1>1, <1>3, <2>1, <2>4, <2>5, <2>6 DEF IwinInv
<1>8. CASE e.element \notin {"temperature", "weather"} \/ ~e.mine
  <2>1. result' = result
    BY <1>1, <1>8 DEF IwinRead, IwinTemperature, IwinWeather
  <2>2. ~Stops(at) /\ at \notin Rows("temperature") /\ at \notin Rows("weather")
    BY <1>8 DEF Stops, Rows
  <2>3. DaysSoFar'
    BY <1>2, <2>1, <2>2, DaysStay
  <2>4. LayoutIsRead'
    BY <1>2, <2>1, LayoutStays
  <2>5. \A k \in Read' : ~Stops(k)'
    BY <1>1, <1>2, <2>2
  <2> QED BY <1>1, <1>3, <2>1, <2>3, <2>4, <2>5 DEF IwinInv
<1> QED BY <1>5, <1>6, <1>7, <1>8

(* What comes before the parameters keeps the invariant.                   *)
LEMMA IwinSkippingStep ==
  ASSUME Position, IwinInv, ReadIwinElement, result.status = "skipping"
  PROVE  IwinInv'
<1>1. /\ document' = document /\ document.service = "iwin"
      /\ Elements' = Elements /\ at \in Nat
      /\ at' - 1 <= Len(Elements')
      /\ result' = IwinRead(result, Elements[at])
      /\ DOMAIN result = DOMAIN IwinStart
      /\ Read' = Read \cup {at}
      /\ \A k : Stops(k)' <=> Stops(k)
  BY IwinOneMore DEF Position
<1>2. /\ ~NoParameters /\ LayoutIsRead /\ DaysSoFar
      /\ \E k \in Read : Stops(k)
  BY <1>1 DEF IwinInv
<1>3. result' = result
  BY <1>1 DEF IwinRead
<1>4. at \notin Rows("temperature") /\ at \notin Rows("weather")
  <2>1. Read \subseteq 1..at
    BY <1>1 DEF Read
  <2> QED BY <1>2, <2>1 DEF Rows
<1>5. DaysSoFar'
  BY <1>2, <1>3, <1>4, DaysStay
<1>6. LayoutIsRead'
  BY <1>2, <1>3, LayoutStays
<1>7. ~NoParameters'
  BY <1>1, <1>2 DEF NoParameters
<1>8. \E k \in Read' : Stops(k)'
  BY <1>1, <1>2
<1> QED BY <1>1, <1>3, <1>5, <1>6, <1>7, <1>8 DEF IwinInv

(* The removal of invalid days.                                            *)
LEMMA IwinEndLemma ==
  ASSUME NEW s, DOMAIN s = DOMAIN IwinStart
  PROVE  /\ DOMAIN IwinEnd(s) = DOMAIN IwinStart
         /\ IwinEnd(s).status = "done"
         /\ IwinEnd(s).days
              = IF \E d \in DOMAIN s.days : s.days[d].valid
                THEN [d \in DOMAIN s.days |-> IF s.days[d].valid THEN s.days[d] ELSE Null]
                ELSE <<>>
BY DEF IwinEnd, IwinStart

(* When the elements are read, the rows read are all there are.            *)
LEMMA AllRowsAreRead ==
  ASSUME Position, IwinInv, document.service = "iwin", ~More \/ result.status = "skipping",
         result.status # "data", result.status # "done", NEW word
  PROVE  RowsRead(word) = Rows(word)
<1>1. /\ DOMAIN Elements = 1..Len(Elements) /\ Len(Elements) \in Nat
      /\ at \in Nat /\ at >= 1
  BY IwinElements
<1>2. CASE ~More
  BY <1>1, <1>2 DEF More, RowsRead, Read, Rows
<1>3. CASE result.status = "skipping"
  <2>1. PICK j \in Read : Stops(j)
    BY <1>3 DEF IwinInv
  <2>2. \A k \in Rows(word) : k \in DOMAIN Elements /\ j \notin 1..k
    BY <2>1 DEF Rows
  <2> QED BY <1>1, <2>1, <2>2 DEF RowsRead, Read
<1> QED BY <1>2, <1>3

(* The end of an IWIN document keeps the invariant.                        *)
LEMMA EndIwinStep ==
  ASSUME Position, IwinInv, EndIwin
  PROVE  IwinInv'
<1>1. /\ document' = document /\ document.service = "iwin" /\ at' = at /\ ~More
      /\ result.status # "done" /\ at - 1 <= Len(Elements)
      /\ DOMAIN result = DOMAIN IwinStart /\ result' = IwinEnd(result)
  BY DEF EndIwin, IwinInv
<1>2. /\ DOMAIN Elements = 1..Len(Elements) /\ Len(Elements) \in Nat
      /\ at \in Nat /\ at >= 1
  BY <1>1, IwinElements
<1>3. /\ DOMAIN result' = DOMAIN IwinStart /\ result'.status = "done"
      /\ result'.days
           = IF \E d \in DOMAIN result.days : result.days[d].valid
             THEN [d \in DOMAIN result.days |->
                     IF result.days[d].valid THEN result.days[d] ELSE Null]
             ELSE <<>>
  BY <1>1, IwinEndLemma
<1>4. Elements' = Elements
  BY <1>1 DEF Elements
<1>5. /\ Layouts' = Layouts
      /\ \A w : Rows(w)' = Rows(w)
      /\ \A k, d : SummaryOf(k, d)' = SummaryOf(k, d)
  BY <1>4 DEF Layouts, IsLayout, Rows, Stops, SummaryOf
<1>6. CASE result.status = "data"
  <2>1. result.days = <<>> /\ NoParameters
    BY <1>1, <1>6 DEF IwinInv
  <2>2. result'.days = <<>>
    BY <1>3, <2>1
  <2>3. Rows("weather") = {}
    <3>1. \A k \in DOMAIN Elements : k \in Read
      BY <1>1, <1>2 DEF Read, More
    <3> QED BY <1>1, <2>1, <3>1, NoRowsBeforeParameters DEF Rows
  <2>4. ColumnsAreDays'
    BY <2>2 DEF ColumnsAreDays
  <2>5. SummaryMakesDay'
    BY <1>5, <2>3 DEF SummaryMakesDay
  <2> QED BY <1>1, <1>3, <1>4, <2>4, <2>5 DEF IwinInv
<1>7. CASE result.status # "data"
  <2>1. LayoutIsRead /\ DaysSoFar
    BY <1>1, <1>7 DEF IwinInv
  <2>2. \A w : RowsRead(w) = Rows(w)
    BY <1>1, <1>7, AllRowsAreRead
  <2>3. DOMAIN result.days = 1..Days
    BY <2>1 DEF DaysSoFar
  <2>4. ASSUME NEW d \in DOMAIN result'.days, result'.days[d] # Null
        PROVE  d \in 1..Days /\ result'.days[d] = result.days[d]
    BY <1>3, <2>3, <2>4
  <2>5. ColumnsAreDays'
    <3> SUFFICES ASSUME NEW d \in DOMAIN result'.days, result'.days[d] # Null
                 PROVE
      LET day  == result'.days[d]
          rows == {k \in Rows("weather") : FirstContained(PhList, SummaryOf(k, d), "none") # "none"}
          read == {Elements[k].values[d] :
                     k \in {j \in Rows("temperature") : d <= Len(Elements[j].values)}}
      IN /\ IF rows = {} THEN day.phenomenon = "none"
            ELSE LET last == CHOOSE k \in rows : \A j \in rows : j <= k
                 IN day.phenomenon = FirstContained(PhList, SummaryOf(last, d), "none")
         /\ {day.min, day.max} \subseteq read \cup {Unset}
         /\ \E k \in Layouts : day.update = Elements[k].times[d] /\ \A j \in Layouts : k <= j
      BY <1>4, <1>5 DEF ColumnsAreDays
    <3>1. d \in 1..Days /\ result'.days[d] = result.days[d]
      BY <2>4
    <3>2. PhenomenonSoFar(d) /\ BoundsSoFar(d) /\ result.days[d].update = result.times[d]
      BY <2>1, <3>1 DEF DaysSoFar
    <3>3. {k \in Rows("weather") : FirstContained(PhList, SummaryOf(k, d), "none") # "none"}
            = SaysSoFar(d)
      BY <2>2 DEF SaysSoFar, Says
    <3>4. {Elements[k].values[d] : k \in {j \in Rows("temperature") : d <= Len(Elements[j].values)}}
            = Measured(d)
      BY <2>2 DEF Measured
    <3>5. CASE SaysSoFar(d) = {}
      <4>1. result'.days[d].phenomenon = "none"
        BY <3>1, <3>2, <3>5 DEF PhenomenonSoFar
      <4> QED BY <2>1, <3>1, <3>2, <3>3, <3>4, <3>5, <4>1 DEF BoundsSoFar, LayoutIsRead
    <3>6. CASE SaysSoFar(d) # {}
      <4>1. PICK k \in SaysSoFar(d) : /\ \A j \in SaysSoFar(d) : j <= k
                                      /\ result.days[d].phenomenon = Says(k, d)
        BY <3>2, <3>6 DEF PhenomenonSoFar
      <4>2. k = CHOOSE n \in SaysSoFar(d) : \A j \in SaysSoFar(d) : j <= n
        <5>1. \A n \in SaysSoFar(d) : n \in Nat
          BY <1>2 DEF SaysSoFar, RowsRead, Read
        <5>2. \A n \in SaysSoFar(d) : (\A j \in SaysSoFar(d) : j <= n) => n = k
          BY <4>1, <5>1
        <5> QED BY <4>1, <5>2
      <4>3. result'.days[d].phenomenon = FirstContained(PhList, SummaryOf(k, d), "none")
        BY <3>1, <4>1 DEF Says
      <4> QED BY <2>1, <3>1, <3>2, <3>3, <3>4, <3>6, <4>2, <4>3 DEF BoundsSoFar, LayoutIsRead
    <3> QED BY <3>5, <3>6
  <2>6. SummaryMakesDay'
    <3> SUFFICES ASSUME NEW k \in Rows("weather"), NEW d \in 1..Days,
                        SummaryOf(k, d) # {"missing"},
                        \A j \in Rows("temperature") : j < k
                 PROVE  d \in DOMAIN result'.days /\ result'.days[d] # Null
      BY <1>5 DEF SummaryMakesDay
    <3>1. result.days[d].valid
      BY <2>1, <2>2 DEF DaysSoFar, ValidSoFar
    <3>2. d \in DOMAIN result'.days /\ result'.days[d] = result.days[d]
      BY <1>3, <2>3, <3>1
    <3>3. ~Null.valid
      BY DEF Null, NewDay
    <3> QED BY <3>1, <3>2, <3>3
  <2> QED BY <1>1, <1>3, <1>4, <2>5, <2>6 DEF IwinInv
<1> QED BY <1>6, <1>7

(* Every step keeps the invariant of IWIN.                                 *)
LEMMA IwinStep ==
  ASSUME Position, IwinInv, [Next]_vars
  PROVE  IwinInv'
<1>1. CASE ReadIwinElement
  <2>1. result.status \in {"data", "parameters", "skipping"}
    BY <1>1 DEF ReadIwinElement, IwinInv
  <2> QED BY <1>1, <2>1, IwinDataStep, IwinParametersStep, IwinSkippingStep
<1>2. CASE EndIwin
  BY <1>2, EndIwinStep
<1>3. CASE UNCHANGED vars
  <2>1. document' = document /\ result' = result /\ at' = at /\ Elements' = Elements /\ Read' = Read
    BY <1>3 DEF vars, Elements, Read
  <2>2. /\ Layouts' = Layouts
        /\ \A w : Rows(w)' = Rows(w) /\ RowsRead(w)' = RowsRead(w)
        /\ \A k, d : SummaryOf(k, d)' = SummaryOf(k, d) /\ Says(k, d)' = Says(k, d)
        /\ \A k : Stops(k)' <=> Stops(k)
    BY <2>1 DEF Layouts, IsLayout, Rows, RowsRead, Stops, SummaryOf, Says
  <2>3. \A d : SaysSoFar(d)' = SaysSoFar(d) /\ Measured(d)' = Measured(d)
    BY <2>1, <2>2 DEF SaysSoFar, Measured
  <2>4. /\ NoParameters' <=> NoParameters
        /\ LayoutIsRead' <=> LayoutIsRead
    BY <2>1, <2>2 DEF NoParameters, LayoutIsRead
  <2>5. DaysSoFar' <=> DaysSoFar
    BY <2>1, <2>2, <2>3 DEF DaysSoFar, PhenomenonSoFar, BoundsSoFar, ValidSoFar
  <2>6. ColumnsAreDays' <=> ColumnsAreDays
    BY <2>1 DEF ColumnsAreDays, IwinIsRead, Layouts, IsLayout, Rows, Stops, SummaryOf
  <2>7. SummaryMakesDay' <=> SummaryMakesDay
    BY <2>1, <2>2 DEF SummaryMakesDay, IwinIsRead
  <2> QED BY <2>1, <2>2, <2>4, <2>5, <2>6, <2>7 DEF IwinInv
<1>4. CASE ~ReadIwinElement /\ ~EndIwin /\ Next
  <2>1. document' = document /\ document.service # "iwin"
    BY <1>4 DEF Next, ReadMetarWord, ReadNwsWeather, StoreNwsWeather,
       ReadMetnoPoint, SkipMetnoPeriod, ReadOwmTime
  <2> QED BY <2>1 DEF IwinInv
<1> QED BY <1>1, <1>2, <1>3, <1>4

(* Before the first element of an IWIN document there are no days.         *)
LEMMA IwinBegins ==
  Init => IwinInv
<1> SUFFICES ASSUME Init, document.service = "iwin" PROVE IwinInv
  BY DEF IwinInv
<1>1. result = IwinStart /\ at = 1 /\ document \in Documents
  BY DEF Init, Started
<1>2. result.status = "data" /\ result.days = <<>> /\ result.times = <<>>
  BY <1>1 DEF IwinStart
<1>3. at - 1 <= Len(Elements) /\ Read = {}
  BY <1>1, ElementsAreList DEF Read
<1> QED BY <1>1, <1>2, <1>3 DEF IwinInv, NoParameters

(* The days of an IWIN forecast are those of the columns that were read    *)
(* (iwin_parse).                                                           *)
THEOREM IwinIsSound == Spec => [](Position /\ IwinInv)
<1>1. Init => Position /\ IwinInv
  BY MetarStart, IwinBegins
<1>2. Position /\ IwinInv /\ [Next]_vars => (Position /\ IwinInv)'
  BY PositionStep, IwinStep
<1> QED BY <1>1, <1>2, PTL DEF Spec

(* Every day of an IWIN forecast has what stands in its own column, for    *)
(* any number of days and rows.                                            *)
THEOREM ColumnsAreOfDays == Spec => []ColumnsAreDays
<1>1. IwinInv => ColumnsAreDays
  BY DEF IwinInv, ColumnsAreDays, IwinIsRead
<1> QED BY <1>1, IwinIsSound, PTL

(* A summary after the temperatures puts its day on the list.              *)
THEOREM SummaryIsDay == Spec => []SummaryMakesDay
<1>1. IwinInv => SummaryMakesDay
  BY DEF IwinInv, SummaryMakesDay, IwinIsRead
<1> QED BY <1>1, IwinIsSound, PTL
=============================================================================
