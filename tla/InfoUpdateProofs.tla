--------------------------- MODULE InfoUpdateProofs ---------------------------
(***************************************************************************)
(* Proofs about InfoUpdate, for every set of locations, every sequence of  *)
(* provider choices and every number of updates.                           *)
(***************************************************************************)
EXTENDS InfoUpdate, FiniteSetTheorems, TLAPS

-----------------------------------------------------------------------------
(* Type correctness *)

(* What _gweather_info_request_done leaves has the right type when what it *)
(* is given has.                                                           *)
LEMMA RequestDoneType ==
  ASSUME NEW m, NEW pending \in SUBSET Message, NEW cur \in CurrentData,
         NEW list \in ForecastData, signal \in BOOLEAN,
         RequestDone(m, pending, cur, list)
  PROVE  /\ requestsPending' \in SUBSET Message
         /\ current' \in CurrentData
         /\ forecastList' \in ForecastData
         /\ signal' \in BOOLEAN
<1>1. requestsPending' \in SUBSET Message /\ forecastList' \in ForecastData
  BY DEF RequestDone
<1>2. ASSUME NEW near \in BOOLEAN
      PROVE  FixupCurrentConditions(cur, list, near) \in CurrentData
  BY DEF FixupCurrentConditions, CurrentData, ForecastData, Handler
<1>3. current' \in CurrentData
  BY <1>2 DEF RequestDone
<1>4. signal' \in BOOLEAN
  BY DEF RequestDone
<1> QED
  BY <1>1, <1>3, <1>4

LEMMA PlaceType ==
  ASSUME NEW l \in Somewhere
  PROVE  PlaceOf(l) \in Place
BY InfoUpdateAssumption DEF PlaceOf, Place, Somewhere

LEMMA SetLocationType ==
  ASSUME TypeOK, NEW l \in Somewhere, SetLocationInternal(l)
  PROVE  glocation' \in Somewhere /\ location' \in Place
<1>1. CASE glocation = l
  BY <1>1 DEF SetLocationInternal, TypeOK
<1>2. CASE glocation # l
  <2> DEFINE target == IF l # NoLocation THEN l ELSE DefaultLocation
             found  == IF target # NoLocation THEN PlaceOf(target) ELSE location
  <2>1. target \in Somewhere
    BY InfoUpdateAssumption DEF Somewhere
  <2>2. found \in Place
    BY <2>1, PlaceType DEF TypeOK
  <2>3. DefaultCoords \in Somewhere
    BY InfoUpdateAssumption DEF Somewhere
  <2>4. /\ glocation' = target
        /\ location' \in {found, [found EXCEPT !.coords = DefaultCoords]}
    BY <1>2 DEF SetLocationInternal
  <2> HIDE DEF target, found
  <2>5. [found EXCEPT !.coords = DefaultCoords] \in Place
    BY <2>2, <2>3 DEF Place
  <2> QED
    BY <2>1, <2>2, <2>4, <2>5
<1> QED
  BY <1>1, <1>2

(* The messages that update number n sends are messages.                   *)
LEMMA StartedType ==
  ASSUME NEW n \in 1..MaxFetches
  PROVE  Started(n) \in SUBSET Message
<1>1. MetarRequest \subseteq Handler
  BY DEF MetarRequest, Handler
<1>2. ForecastRequest \subseteq Handler
  BY DEF ForecastRequest, Handler, ForecastHandler
<1> QED
  BY <1>1, <1>2 DEF Started, Message

LEMMA QueueType ==
  ASSUME NEW ops \in [Message -> Operation], NEW ms, NEW place \in Place,
         Queue(ops, ms, place)
  PROVE  op' \in [Message -> Operation]
BY DEF Queue, Operation

LEMMA FinishType ==
  ASSUME NEW m \in Message, op \in [Message -> Operation], Finish(m),
         NoLocation \in Somewhere
  PROVE  op' \in [Message -> Operation]
BY DEF Finish, Operation, NoOperation, NoPlace, Place

(* Every variable keeps its type.                                          *)
THEOREM TypeCorrect == Spec => []TypeOK
<1> USE InfoUpdateAssumption
<1>0. /\ NoLocation \in Somewhere
      /\ NoCurrent \in CurrentData
      /\ NoForecast \in ForecastData
      /\ NoOperation \in Operation
  BY DEF Somewhere, NoCurrent, CurrentData, NoForecast, ForecastData,
         NoOperation, Operation, NoPlace, Place
<1>1. ASSUME Init
      PROVE  TypeOK
  <2>1. location \in Place
    BY <1>1, <1>0, PlaceType DEF Init, NoPlace, Place
  <2>2. op \in [Message -> Operation] /\ fetches \in 0..MaxFetches
    BY <1>1, <1>0 DEF Init
  <2>3. providers \in SUBSET Provider /\ attribution \in Attribution
    BY <1>1 DEF Init, Provider, Attribution
  <2> QED
    BY <1>1, <1>0, <2>1, <2>2, <2>3 DEF Init, TypeOK
<1>2. TypeOK /\ [Next]_vars => TypeOK'
  <2> SUFFICES ASSUME TypeOK, [Next]_vars
               PROVE  TypeOK'
    OBVIOUS
  <2>1. CASE SetApplicationId
    BY <2>1 DEF SetApplicationId, TypeOK, requests
  <2>2. CASE SetContactInfo
    BY <2>2 DEF SetContactInfo, TypeOK, requests
  <2>3. CASE Update
    <3>1. fetches' \in 1..MaxFetches
      BY <2>3 DEF Update, TypeOK
    <3>2. op' \in [Message -> Operation]
      BY <2>3, QueueType DEF Update, TypeOK
    <3>3. requestsPending' \in SUBSET Message
      BY <2>3, <3>1, StartedType DEF Update
    <3>4. /\ current' \in CurrentData
          /\ forecastList' \in ForecastData
          /\ attribution' \in Attribution
      BY <2>3, <1>0 DEF Update, Reset, Attribution
    <3>5. valid' \in BOOLEAN /\ networkError' \in BOOLEAN
      BY <2>3 DEF Update
    <3>6. fetches' \in 0..MaxFetches
      BY <3>1
    <3>7. session' \in BOOLEAN /\ moved' \in BOOLEAN
      BY <2>3 DEF Update
    <3>8. UNCHANGED <<providers, applicationId, contactInfo, glocation, location,
                      disposed, cancelled, signal>>
      BY <2>3 DEF Update
    <3> QED
      BY <3>2, <3>3, <3>4, <3>5, <3>6, <3>7, <3>8 DEF TypeOK
  <2>4. CASE Abort
    BY <2>4 DEF Abort, AbortRequests, TypeOK
  <2>5. ASSUME NEW set \in ProviderSets, SetEnabledProviders(set)
        PROVE  TypeOK'
    BY <2>5 DEF SetEnabledProviders, AbortRequests, TypeOK
  <2>6. ASSUME NEW l \in Somewhere, SetLocation(l)
        PROVE  TypeOK'
    BY <2>6, <1>0, SetLocationType
       DEF SetLocation, Reset, TypeOK, Attribution, requests
  <2>7. ASSUME NEW l \in Somewhere, SetLocationProperty(l)
        PROVE  TypeOK'
    BY <2>7, SetLocationType DEF SetLocationProperty, TypeOK, requests
  <2>8. CASE SettingsChanged
    BY <2>8 DEF SettingsChanged, TypeOK, object, requests
  <2>9. CASE Dispose
    BY <2>9, <1>0 DEF Dispose, AbortRequests, TypeOK
  <2>10. ASSUME NEW m \in Message, Arrive(m)
         PROVE  TypeOK'
    <3>1. PICK a \in AnswersTo(m.handler) : op' = [op EXCEPT ![m].state = a]
      BY <2>10 DEF Arrive
    <3>2. a \in Answer
      BY <3>1 DEF AnswersTo, Answer
    <3>3. op' \in [Message -> Operation]
      BY <3>1, <3>2 DEF TypeOK, Operation
    <3> QED
      BY <2>10, <3>3 DEF Arrive, TypeOK, object
  <2>11. ASSUME NEW m \in Message, FinishCancelled(m)
         PROVE  TypeOK'
    BY <2>11, <1>0, FinishType DEF FinishCancelled, TypeOK, object
  <2>12. ASSUME NEW m \in Message, MetarFinish(m)
         PROVE  TypeOK'
    <3>1. MetarParse(m) \in CurrentData
      BY DEF MetarParse, CurrentData, Message, TypeOK, Operation, Place
    <3>2. (IF MetarFound(m) THEN MetarParse(m) ELSE current) \in CurrentData
      BY <3>1 DEF TypeOK
    <3>3. valid' \in BOOLEAN /\ networkError' \in BOOLEAN
      BY <2>12 DEF MetarFinish, MetarValid, TypeOK
    <3> QED
      BY <2>12, <3>2, <3>3, <1>0, FinishType, RequestDoneType
         DEF MetarFinish, TypeOK
  <2>13. ASSUME NEW m \in Message, m.handler \in ForecastHandler
         PROVE  ForecastsFrom(m) \in ForecastData
    BY <2>13 DEF ForecastsFrom, ForecastData, TypeOK, Operation, Place
  <2>14. ASSUME NEW m \in Message, IwinFinish(m)
         PROVE  TypeOK'
    <3>1. ForecastsFrom(m) \in ForecastData
      BY <2>13, <2>14 DEF IwinFinish, Returns, ForecastHandler
    <3> QED
      BY <2>14, <3>1, <1>0, FinishType, RequestDoneType DEF IwinFinish, TypeOK
  <2>15. ASSUME NEW m \in Message, MetnoFinish(m)
         PROVE  TypeOK'
    <3> DEFINE list == IF op[m].state = "data" THEN ForecastsFrom(m)
                                               ELSE forecastList
    <3>1. list \in ForecastData
      BY <2>13, <2>15 DEF MetnoFinish, Returns, ForecastHandler, TypeOK
    <3>2. attribution' \in Attribution /\ valid' \in BOOLEAN
      BY <2>15 DEF MetnoFinish, Attribution, TypeOK
    <3>3. RequestDone(m, requestsPending, current, list)
      BY <2>15 DEF MetnoFinish
    <3> QED
      BY <2>15, <3>1, <3>2, <3>3, <1>0, FinishType, RequestDoneType
         DEF MetnoFinish, TypeOK
  <2>16. ASSUME NEW m \in Message, OwmFinish(m)
         PROVE  TypeOK'
    <3>1. attribution' \in Attribution
      BY <2>16 DEF OwmFinish, Attribution, TypeOK
    <3> QED
      BY <2>16, <3>1, <1>0, FinishType, RequestDoneType DEF OwmFinish, TypeOK
  <2>17. ASSUME NEW m \in Message, NwsFinishNew(m)
         PROVE  TypeOK'
    <3>1. requestsPending \cup GridRequest(m) \in SUBSET Message
      BY DEF GridRequest, Message, Handler, ForecastHandler, TypeOK
    <3>2. [op EXCEPT ![m] = NoOperation] \in [Message -> Operation]
      BY <1>0 DEF TypeOK
    <3>3. op[m].place \in Place
      BY DEF TypeOK, Operation
    <3>4. op' \in [Message -> Operation]
      BY <2>17, <3>2, <3>3, QueueType DEF NwsFinishNew
    <3> QED
      BY <2>17, <3>1, <3>4, RequestDoneType DEF NwsFinishNew, TypeOK
  <2>18. ASSUME NEW m \in Message, NwsFinishForecast(m)
         PROVE  TypeOK'
    <3>1. ForecastsFrom(m) \in ForecastData
      BY <2>13, <2>18 DEF NwsFinishForecast, Returns, ForecastHandler
    <3>2. valid' \in BOOLEAN
      BY <2>18 DEF NwsFinishForecast
    <3> QED
      BY <2>18, <3>1, <3>2, <1>0, FinishType, RequestDoneType
         DEF NwsFinishForecast, TypeOK
  <2>19. CASE UNCHANGED vars
    BY <2>19 DEF vars, object, requests, TypeOK
  <2> QED
    BY <2>1, <2>2, <2>3, <2>4, <2>5, <2>6, <2>7, <2>8, <2>9, <2>10, <2>11,
       <2>12, <2>14, <2>15, <2>16, <2>17, <2>18, <2>19 DEF Next, Call, Callback
<1> QED
  BY <1>1, <1>2, PTL DEF Spec

-----------------------------------------------------------------------------
(* The inductive invariant *)

(* A callback that starts no request takes exactly its message off.        *)
LEMMA FinishInFlight ==
  ASSUME TypeOK, NEW m \in Message, Finish(m)
  PROVE  InFlight' = InFlight \ {m}
BY DEF TypeOK, Finish, InFlight, NoOperation

(* Queueing adds exactly the new messages.                                 *)
LEMMA QueueInFlight ==
  ASSUME TypeOK, NEW ms \in SUBSET Message, NEW place, Queue(op, ms, place)
  PROVE  InFlight' = InFlight \cup ms
BY DEF TypeOK, Queue, InFlight

(* What remains to be seen for a callback that starts no request is that   *)
(* it fills the forecasts only if it is the one that was to fill them.     *)
LEMMA FinishInv ==
  ASSUME TypeOK, IInv, NEW m \in Message,
         m \in InFlight, m \notin cancelled, Finish(m),
         requestsPending' = requestsPending \ {m},
         UNCHANGED <<session, disposed, cancelled, fetches>>,
         m.handler \notin ForecastHandler => UNCHANGED <<forecastList, attribution>>,
         MetnoIsAttributed'
  PROVE  IInv'
<1>1. InFlight' = InFlight \ {m}
  BY FinishInFlight
<1>2. InFlightIsPending'
  BY <1>1 DEF IInv, InFlightIsPending
<1>3. BusyHasSession'
  BY DEF IInv, BusyHasSession
<1>4. m \in requestsPending
  BY DEF IInv, InFlightIsPending
<1>5. ForecastSlotFree'
  BY <1>4 DEF IInv, ForecastSlotFree
<1>6. (cancelled \subseteq InFlight)'
  BY <1>1 DEF IInv
<1> QED
  BY <1>1, <1>2, <1>3, <1>5, <1>6 DEF IInv

(* An abort, alone or as part of another call, leaves no request pending   *)
(* and none in flight that is not cancelled.                               *)
LEMMA AbortPending ==
  ASSUME IInv, AbortRequests
  PROVE  /\ requestsPending' = {}
         /\ cancelled' = cancelled \cup requestsPending
BY DEF IInv, BusyHasSession, AbortRequests

LEMMA AbortInv ==
  ASSUME TypeOK, IInv, AbortRequests, UNCHANGED <<op, fetches>>,
         MetnoIsAttributed'
  PROVE  IInv'
<1>1. requestsPending' = {} /\ cancelled' = cancelled \cup requestsPending
  BY AbortPending
<1>2. InFlight' = InFlight
  BY DEF InFlight
<1>3. requestsPending \subseteq InFlight
  BY DEF IInv, InFlightIsPending
<1>4. InFlightIsPending'
  BY <1>1, <1>2 DEF IInv, InFlightIsPending
<1>5. BusyHasSession' /\ ForecastSlotFree'
  BY <1>1 DEF BusyHasSession, ForecastSlotFree
<1> QED
  BY <1>1, <1>2, <1>3, <1>4, <1>5 DEF IInv

(* An update starts at most one forecast request, with a new message.      *)
LEMMA StartedForecast ==
  ASSUME NEW n, NEW m1 \in Started(n), NEW m2 \in Started(n),
         m1.handler \in ForecastHandler, m2.handler \in ForecastHandler
  PROVE  m1 = m2
<1>1. /\ m1 \in [fetch : {n}, handler : MetarRequest \cup ForecastRequest]
      /\ m2 \in [fetch : {n}, handler : MetarRequest \cup ForecastRequest]
  BY DEF Started
<1>2. m1.handler \in ForecastRequest /\ m2.handler \in ForecastRequest
  BY <1>1 DEF MetarRequest, ForecastHandler
<1>3. m1.handler = m2.handler
  BY <1>2 DEF ForecastRequest
<1> QED
  BY <1>1, <1>3

LEMMA UpdateInv ==
  ASSUME TypeOK, IInv, Update
  PROVE  IInv'
<1>1. fetches' \in 1..MaxFetches /\ fetches' = fetches + 1
  BY InfoUpdateAssumption DEF Update, TypeOK
<1>2. Started(fetches') \in SUBSET Message
  BY <1>1, StartedType
<1>3. InFlight' = InFlight \cup Started(fetches')
  BY <1>2, QueueInFlight DEF Update
<1>4. \A m \in Started(fetches') : m.fetch = fetches' /\ m.fetch # fetches
  BY <1>1 DEF Started, TypeOK
<1>5. \A m \in InFlight : m.fetch # fetches'
  BY <1>1 DEF IInv, TypeOK, InFlight, Message
<1>6. Started(fetches') \cap InFlight = {}
  BY <1>4, <1>5
<1>7. InFlightIsPending'
  BY <1>3, <1>6 DEF IInv, InFlightIsPending, Update
<1>8. BusyHasSession'
  BY DEF Update, BusyHasSession
<1>9. ForecastSlotFree'
  BY <1>4, StartedForecast DEF Update, ForecastSlotFree, Reset
<1>10. MetnoIsAttributed'
  BY DEF Update, MetnoIsAttributed, Reset, NoForecast
<1>11. (cancelled \subseteq InFlight)'
  BY <1>3 DEF IInv, Update
<1>12. \A m \in InFlight' : m.fetch <= fetches'
  BY <1>1, <1>3, <1>4 DEF IInv, TypeOK, InFlight, Message
<1>13. \A m \in Started(fetches') : m.handler # "nws_finish_forecast"
  BY DEF Started, MetarRequest, ForecastRequest
<1>14. \A m, n \in InFlight' :
         m.fetch = n.fetch /\ m.handler = "nws_finish_new"
           => n.handler # "nws_finish_forecast"
  BY <1>3, <1>4, <1>5, <1>13 DEF IInv
<1> QED
  BY <1>7, <1>8, <1>9, <1>10, <1>11, <1>12, <1>14 DEF IInv

(* A successful point request hands its place on the list to the grid      *)
(* request of the same update.                                             *)
LEMMA NwsFinishNewInv ==
  ASSUME TypeOK, IInv, NEW m \in Message, NwsFinishNew(m)
  PROVE  IInv'
<1> DEFINE grid == GridRequest(m)
<1>1. m \in InFlight /\ m \notin cancelled /\ m.handler = "nws_finish_new"
  BY DEF NwsFinishNew, Returns, InFlight, Answer
<1>2. m \in requestsPending
  BY <1>1 DEF IInv, InFlightIsPending
<1>3. \A n \in grid : /\ n \in Message
                     /\ n.fetch = m.fetch
                     /\ n.handler = "nws_finish_forecast"
  BY DEF GridRequest, Message, Handler, ForecastHandler
<1>4. grid \cap InFlight = {} /\ m \notin grid
  BY <1>1, <1>3 DEF IInv
<1>5. op' = [n \in Message |->
               IF n \in grid THEN [state |-> "sent", place |-> op[m].place]
               ELSE [op EXCEPT ![m] = NoOperation][n]]
  BY DEF NwsFinishNew, Queue
<1>6. InFlight' = (InFlight \ {m}) \cup grid
  <2> HIDE DEF grid
  <2> QED
    BY <1>3, <1>4, <1>5 DEF InFlight, NoOperation, TypeOK
<1>7. requestsPending' = (requestsPending \ {m}) \cup grid
  BY <1>4 DEF NwsFinishNew, RequestDone
<1>8. UNCHANGED <<forecastList, attribution, fetches, session, disposed, cancelled>>
  BY DEF NwsFinishNew, RequestDone
<1>9. InFlightIsPending'
  BY <1>4, <1>6, <1>7, <1>8 DEF IInv, InFlightIsPending
<1>10. BusyHasSession'
  BY <1>2, <1>8 DEF IInv, BusyHasSession
<1>11. \A n \in requestsPending : n.handler \in ForecastHandler => n = m
  BY <1>1, <1>2 DEF IInv, ForecastSlotFree, ForecastHandler
<1>12. \A n1, n2 \in grid : n1 = n2
  BY DEF GridRequest
<1>13. m.fetch = fetches /\ forecastList = NoForecast /\ attribution = "none"
  BY <1>1, <1>2 DEF IInv, ForecastSlotFree, ForecastHandler
<1>14. ForecastSlotFree'
  BY <1>3, <1>7, <1>8, <1>11, <1>12, <1>13 DEF ForecastSlotFree
<1>15. MetnoIsAttributed' /\ (cancelled \subseteq InFlight)'
  BY <1>1, <1>6, <1>8 DEF IInv, MetnoIsAttributed
<1>16. \A n \in InFlight' : n.fetch <= fetches'
  BY <1>3, <1>6, <1>8, <1>13, <1>1 DEF IInv
<1>17. \A n \in InFlight' : n.handler = "nws_finish_new" => n.fetch # m.fetch
  <2> SUFFICES ASSUME NEW n \in InFlight', n.handler = "nws_finish_new",
                      n.fetch = m.fetch
               PROVE  FALSE
    OBVIOUS
  <2>1. n \in InFlight \ {m}
    BY <1>3, <1>6
  <2>2. n \in Message
    BY <2>1 DEF InFlight
  <2>3. n = m
    BY <1>1, <2>2 DEF Message
  <2> QED
    BY <2>1, <2>3
<1>18. \A n1, n2 \in InFlight' :
         n1.fetch = n2.fetch /\ n1.handler = "nws_finish_new"
           => n2.handler # "nws_finish_forecast"
  BY <1>3, <1>6, <1>17 DEF IInv
<1> QED
  BY <1>9, <1>10, <1>14, <1>15, <1>16, <1>18 DEF IInv

(* The conditions that FinishInv leaves for each of the other callbacks.   *)
LEMMA CallbackInv ==
  ASSUME TypeOK, IInv, NEW m \in Message, Callback(m)
  PROVE  IInv'
<1>1. CASE FinishCancelled(m)
  <2>1. InFlight' = InFlight \ {m} /\ m \in InFlight
    BY <1>1, FinishInFlight DEF FinishCancelled, InFlight
  <2>2. cancelled' = cancelled \ {m} /\ m \in cancelled
    BY <1>1 DEF FinishCancelled
  <2>3. UNCHANGED <<object, disposed, fetches>>
    BY <1>1 DEF FinishCancelled
  <2>4. InFlightIsPending'
    BY <2>1, <2>2, <2>3 DEF IInv, InFlightIsPending, object
  <2>5. BusyHasSession' /\ ForecastSlotFree' /\ MetnoIsAttributed'
    BY <2>3 DEF IInv, BusyHasSession, ForecastSlotFree, MetnoIsAttributed, object
  <2> QED
    BY <2>1, <2>2, <2>3, <2>4, <2>5 DEF IInv
<1>2. ASSUME NEW handler, Returns(m, handler)
      PROVE  m \in InFlight /\ m \notin cancelled /\ m.handler = handler
  BY <1>2 DEF Returns, InFlight, Answer
<1>3. ASSUME NEW handler \in ForecastHandler, Returns(m, handler)
      PROVE  forecastList = NoForecast
  <2>1. m \in requestsPending
    BY <1>2, <1>3 DEF IInv, InFlightIsPending
  <2> QED
    BY <1>2, <1>3, <2>1 DEF IInv, ForecastSlotFree
<1>4. CASE MetarFinish(m)
  <2>1. UNCHANGED <<forecastList, attribution>>
    BY <1>4 DEF MetarFinish, RequestDone
  <2>2. MetnoIsAttributed'
    BY <2>1 DEF IInv, MetnoIsAttributed
  <2> QED
    BY <1>2, <1>4, <2>1, <2>2, FinishInv DEF MetarFinish, RequestDone
<1>5. CASE IwinFinish(m)
  <2>1. forecastList'.src # "metno_finish_new"
    BY <1>2, <1>3, <1>5 DEF IwinFinish, RequestDone, ForecastsFrom, NoForecast,
                            ForecastHandler
  <2> QED
    BY <1>2, <1>5, <2>1, FinishInv
       DEF IwinFinish, RequestDone, MetnoIsAttributed, ForecastHandler
<1>6. CASE MetnoFinish(m)
  <2>1. MetnoIsAttributed'
    BY <1>3, <1>6 DEF MetnoFinish, RequestDone, NoForecast, MetnoIsAttributed,
                      ForecastHandler
  <2> QED
    BY <1>2, <1>6, <2>1, FinishInv DEF MetnoFinish, RequestDone, ForecastHandler
<1>7. CASE OwmFinish(m)
  <2>1. MetnoIsAttributed'
    BY <1>3, <1>7 DEF OwmFinish, RequestDone, NoForecast, MetnoIsAttributed,
                      ForecastHandler
  <2> QED
    BY <1>2, <1>7, <2>1, FinishInv DEF OwmFinish, RequestDone, ForecastHandler
<1>8. CASE NwsFinishNew(m)
  BY <1>8, NwsFinishNewInv
<1>9. CASE NwsFinishForecast(m)
  <2>1. MetnoIsAttributed'
    BY <1>2, <1>3, <1>9 DEF NwsFinishForecast, RequestDone, ForecastsFrom,
                            NoForecast, MetnoIsAttributed, ForecastHandler
  <2> QED
    BY <1>2, <1>9, <2>1, FinishInv
       DEF NwsFinishForecast, RequestDone, ForecastHandler
<1> QED
  BY <1>1, <1>4, <1>5, <1>6, <1>7, <1>8, <1>9 DEF Callback

(* A step that touches neither requests nor forecasts.                     *)
LEMMA QuietInv ==
  ASSUME IInv,
         UNCHANGED <<session, requestsPending, forecastList, attribution, disposed,
                     op, cancelled, fetches>>
  PROVE  IInv'
<1>1. InFlight' = InFlight
  BY DEF InFlight
<1> QED
  BY <1>1 DEF IInv, InFlightIsPending, BusyHasSession, ForecastSlotFree,
              MetnoIsAttributed

LEMMA CallInv ==
  ASSUME TypeOK, IInv, Call
  PROVE  IInv'
<1>1. CASE SetApplicationId \/ SetContactInfo
  BY <1>1, QuietInv DEF SetApplicationId, SetContactInfo, requests
<1>2. CASE Update
  BY <1>2, UpdateInv
<1>3. CASE Abort
  <2>1. MetnoIsAttributed'
    BY <1>3 DEF Abort, IInv, MetnoIsAttributed
  <2> QED
    BY <1>3, <2>1, AbortInv DEF Abort
<1>4. ASSUME NEW set \in ProviderSets, SetEnabledProviders(set)
      PROVE  IInv'
  <2>1. MetnoIsAttributed'
    BY <1>4 DEF SetEnabledProviders, IInv, MetnoIsAttributed
  <2> QED
    BY <1>4, <2>1, AbortInv DEF SetEnabledProviders
<1>5. ASSUME NEW l \in Somewhere, SetLocation(l)
      PROVE  IInv'
  <2>1. InFlight' = InFlight
    BY <1>5 DEF SetLocation, requests, InFlight
  <2>2. forecastList' = NoForecast /\ attribution' = "none"
    BY <1>5 DEF SetLocation, Reset
  <2>3. UNCHANGED <<session, requestsPending, disposed, cancelled, fetches>>
    BY <1>5 DEF SetLocation, requests
  <2>4. ForecastSlotFree' /\ MetnoIsAttributed'
    BY <2>2, <2>3 DEF IInv, ForecastSlotFree, MetnoIsAttributed, NoForecast
  <2> QED
    BY <2>1, <2>3, <2>4 DEF IInv, InFlightIsPending, BusyHasSession
<1>6. ASSUME NEW l \in Somewhere, SetLocationProperty(l)
      PROVE  IInv'
  BY <1>6, QuietInv DEF SetLocationProperty, requests
<1>7. CASE SettingsChanged
  BY <1>7, QuietInv DEF SettingsChanged, object, requests
<1>8. CASE Dispose
  <2>1. MetnoIsAttributed'
    BY <1>8 DEF Dispose, MetnoIsAttributed, NoForecast
  <2> QED
    BY <1>8, <2>1, AbortInv DEF Dispose
<1> QED
  BY <1>1, <1>2, <1>3, <1>4, <1>5, <1>6, <1>7, <1>8 DEF Call

LEMMA ArriveInv ==
  ASSUME TypeOK, IInv, NEW m \in Message, Arrive(m)
  PROVE  IInv'
<1>1. PICK a \in AnswersTo(m.handler) : op' = [op EXCEPT ![m].state = a]
  BY DEF Arrive
<1>2. a # "none" /\ op[m].state # "none"
  BY DEF AnswersTo, Arrive
<1>3. op[m] \in Operation
  BY DEF TypeOK
<1>4. InFlight' = InFlight
  BY <1>1, <1>2, <1>3 DEF InFlight, TypeOK, Operation
<1>5. UNCHANGED <<session, requestsPending, forecastList, attribution, disposed,
                  cancelled, fetches>>
  BY DEF Arrive, object
<1> QED
  BY <1>4, <1>5 DEF IInv, InFlightIsPending, BusyHasSession, ForecastSlotFree,
                    MetnoIsAttributed

(* The requests in flight that were not cancelled are exactly those        *)
(* pending, they belong to an object that is alive and has a session, and  *)
(* there is room for the forecasts they bring.                             *)
THEOREM Invariance == Spec => []IInv
<1>1. ASSUME Init
      PROVE  IInv
  <2>1. InFlight = {}
    BY <1>1 DEF Init, InFlight, NoOperation
  <2>2. requestsPending = {} /\ cancelled = {} /\ forecastList = NoForecast
    BY <1>1 DEF Init
  <2> QED
    BY <2>1, <2>2 DEF IInv, InFlightIsPending, BusyHasSession,
                      ForecastSlotFree, MetnoIsAttributed, NoForecast
<1>2. TypeOK /\ IInv /\ [Next]_vars => IInv'
  <2> SUFFICES ASSUME TypeOK, IInv, [Next]_vars
               PROVE  IInv'
    OBVIOUS
  <2>1. CASE UNCHANGED vars
    BY <2>1, QuietInv DEF vars, object, requests
  <2> QED
    BY <2>1, CallInv, CallbackInv, ArriveInv DEF Next
<1> QED
  BY <1>1, <1>2, TypeCorrect, PTL DEF Spec

(* The properties that TLC checks one by one.                              *)
COROLLARY RequestsPending == Spec => []InFlightIsPending
<1>1. IInv => InFlightIsPending
  BY DEF IInv
<1> QED
  BY <1>1, Invariance, PTL

COROLLARY AbortAssertion == Spec => []BusyHasSession
<1>1. IInv => BusyHasSession
  BY DEF IInv
<1> QED
  BY <1>1, Invariance, PTL

COROLLARY ForecastSlot == Spec => []ForecastSlotFree
<1>1. IInv => ForecastSlotFree
  BY DEF IInv
<1> QED
  BY <1>1, Invariance, PTL

COROLLARY MetnoAttribution == Spec => []MetnoIsAttributed
<1>1. IInv => MetnoIsAttributed
  BY DEF IInv
<1> QED
  BY <1>1, Invariance, PTL

-----------------------------------------------------------------------------
(* What no step may do *)

(* A callback of a request that was not cancelled finds its message on the *)
(* list, so the object is alive.                                           *)
LEMMA ReturnsToTheLiving ==
  ASSUME IInv, NEW m \in Message, NEW handler, Returns(m, handler)
  PROVE  m \in requestsPending /\ ~disposed
<1>1. m \in InFlight \ cancelled
  BY DEF Returns, InFlight, Answer
<1>2. m \in requestsPending
  BY <1>1 DEF IInv, InFlightIsPending
<1> QED
  BY <1>2 DEF IInv, BusyHasSession

(* No callback changes an object that was disposed, or emits its signal.   *)
THEOREM NoCallbackAfterDispose == Spec => DisposedIsFrozen
<1>1. IInv /\ [Next]_vars => [disposed => UNCHANGED <<object, signal>>]_vars
  <2> SUFFICES ASSUME IInv, disposed, Next
               PROVE  UNCHANGED <<object, signal>>
    OBVIOUS
  <2>1. ~Call
    BY DEF Call, SetApplicationId, SetContactInfo, Update, Abort,
           SetEnabledProviders, SetLocation, SetLocationProperty,
           SettingsChanged, Dispose
  <2>2. PICK m \in Message : Arrive(m) \/ Callback(m)
    BY <2>1 DEF Next
  <2>3. Arrive(m) \/ FinishCancelled(m)
    BY <2>2, ReturnsToTheLiving
       DEF Callback, MetarFinish, IwinFinish, MetnoFinish, OwmFinish,
           NwsFinishNew, NwsFinishForecast
  <2> QED
    BY <2>3 DEF Arrive, FinishCancelled
<1> QED
  BY <1>1, Invariance, PTL DEF Spec, DisposedIsFrozen

(* Whatever the fix-up shows as current conditions comes from the forecast.*)
LEMMA FixupIsForecast ==
  ASSUME TypeOK, NEW m \in Message, NEW pending, NEW list \in ForecastData,
         RequestDone(m, pending, current, list), current' # current
  PROVE  current'.src # "metar_finish"
<1>1. PICK near \in BOOLEAN :
        current' = FixupCurrentConditions(current, list, near)
  BY DEF RequestDone
<1>2. current' = [src |-> list.src, of |-> list.of, dated |-> TRUE]
  BY <1>1 DEF FixupCurrentConditions
<1>3. list.src \in {"none"} \cup ForecastHandler
  BY DEF ForecastData
<1> QED
  BY <1>2, <1>3 DEF ForecastHandler

(* A METAR report that is shown is one of the station the object is at.    *)
THEOREM MetarOfThisStation == Spec => MetarIsOfThisStation
<1> DEFINE A == current' # current /\ current'.src = "metar_finish"
                  => current'.of = location.station
<1>1. TypeOK /\ [Next]_vars => [A]_vars
  <2> SUFFICES ASSUME TypeOK, Next, current' # current,
                      current'.src = "metar_finish"
               PROVE  current'.of = location.station
    OBVIOUS
  <2>1. ~Call
    BY DEF Call, SetApplicationId, SetContactInfo, Update, Abort,
           SetEnabledProviders, SetLocation, SetLocationProperty,
           SettingsChanged, Dispose, Reset, NoCurrent, object
  <2>2. PICK m \in Message : Arrive(m) \/ Callback(m)
    BY <2>1 DEF Next
  <2>3. ~Arrive(m) /\ ~FinishCancelled(m)
    BY DEF Arrive, FinishCancelled, object
  <2>4. ASSUME NEW h \in ForecastHandler, m.handler = h
        PROVE  ForecastsFrom(m) \in ForecastData
    BY <2>4 DEF ForecastsFrom, ForecastData, TypeOK, Operation, Place
  <2>5. NoForecast \in ForecastData
    BY DEF NoForecast, ForecastData, Somewhere
  <2>6. ~IwinFinish(m)
    BY <2>4, <2>5, FixupIsForecast
       DEF IwinFinish, Returns, ForecastHandler, TypeOK
  <2>7. ~MetnoFinish(m)
    BY <2>4, FixupIsForecast DEF MetnoFinish, Returns, ForecastHandler, TypeOK
  <2>8. ~OwmFinish(m)
    BY FixupIsForecast DEF OwmFinish, TypeOK
  <2>9. ~NwsFinishNew(m)
    BY FixupIsForecast DEF NwsFinishNew, TypeOK
  <2>10. ~NwsFinishForecast(m)
    BY <2>4, FixupIsForecast
       DEF NwsFinishForecast, Returns, ForecastHandler, TypeOK
  <2>11. MetarFinish(m)
    BY <2>2, <2>3, <2>6, <2>7, <2>8, <2>9, <2>10 DEF Callback
  <2>12. CASE MetarFound(m)
    <3> DEFINE report == MetarParse(m)
    <3>1. report.src = "metar_finish" /\ report.of = location.station
      BY <2>11, <2>12 DEF MetarFinish, Returns, MetarParse, MetarFound
    <3>2. RequestDone(m, requestsPending, report, forecastList)
      BY <2>11, <2>12 DEF MetarFinish
    <3>3. \/ current' = report
          \/ current' = [src |-> forecastList.src, of |-> forecastList.of,
                         dated |-> TRUE]
      BY <3>2 DEF RequestDone, FixupCurrentConditions
    <3>4. forecastList.src # "metar_finish"
      BY DEF TypeOK, ForecastData, ForecastHandler
    <3> QED
      BY <3>1, <3>3, <3>4
  <2>13. CASE ~MetarFound(m)
    <3>1. RequestDone(m, requestsPending, current, forecastList)
      BY <2>11, <2>13 DEF MetarFinish
    <3> QED
      BY <3>1, FixupIsForecast DEF TypeOK
  <2> QED
    BY <2>12, <2>13
<1> QED
  BY <1>1, TypeCorrect, PTL DEF Spec, MetarIsOfThisStation

-----------------------------------------------------------------------------
(* The contract with the application *)

(* A callback whose request is not the last leaves the update running; the *)
(* last one completes it and emits "updated".                              *)
LEMMA DoneIsReceiveOrComplete ==
  ASSUME TypeOK, TypeOK', ~disposed, ~disposed', requestsPending # {},
         NEW m, NEW pending, NEW cur, NEW list, RequestDone(m, pending, cur, list)
  PROVE  Contract!Receive \/ Contract!Complete
<1>1. <<current', forecastList', attribution'>>
        \in CurrentData \X ForecastData \X Attribution
  BY DEF TypeOK
<1>2. CASE requestsPending' = {}
  BY <1>1, <1>2 DEF RequestDone, Contract!Complete
<1>3. CASE requestsPending' # {}
  BY <1>1, <1>3 DEF RequestDone, Contract!Receive
<1> QED
  BY <1>2, <1>3

(* Giving requests up is forgetting the fetch, or nothing if there is none.*)
LEMMA AbortIsForget ==
  ASSUME IInv, AbortRequests,
         UNCHANGED <<current, forecastList, attribution, disposed, signal>>,
         ~disposed
  PROVE  [Contract!ContractNext]_(Contract!contractVars)
<1>1. requestsPending' = {}
  BY AbortPending
<1>2. CASE requestsPending = {}
  BY <1>1, <1>2 DEF Contract!contractVars
<1>3. CASE requestsPending # {}
  BY <1>1, <1>3 DEF Contract!Forget, Contract!ContractNext
<1> QED
  BY <1>2, <1>3

(* InfoUpdate implements the contract: the object emits "updated" once for *)
(* each update that runs to its end, never for one that was aborted and    *)
(* never when disposed, and shows new data only while it is fetching.      *)
THEOREM ImplementsContract == Spec => ContractSpec
<1>1. Init => Contract!ContractInit
  BY DEF Init, Contract!ContractInit
<1>2. ASSUME TypeOK, TypeOK', IInv, [Next]_vars
      PROVE  [Contract!ContractNext]_(Contract!contractVars)
  <2>1. CASE SetApplicationId \/ SetContactInfo
    BY <2>1 DEF SetApplicationId, SetContactInfo, Contract!contractVars
  <2>2. CASE Update
    BY <2>2 DEF Update, Reset, Contract!contractVars, Contract!Begin,
                Contract!Clear, Contract!ContractNext
  <2>3. CASE Abort
    BY <1>2, <2>3, AbortIsForget DEF Abort
  <2>4. ASSUME NEW set \in ProviderSets, SetEnabledProviders(set)
        PROVE  [Contract!ContractNext]_(Contract!contractVars)
    BY <1>2, <2>4, AbortIsForget DEF SetEnabledProviders
  <2>5. ASSUME NEW l \in Somewhere, SetLocation(l)
        PROVE  [Contract!ContractNext]_(Contract!contractVars)
    BY <2>5 DEF SetLocation, Reset, Contract!Clear, Contract!ContractNext
  <2>6. ASSUME NEW l \in Somewhere, SetLocationProperty(l)
        PROVE  [Contract!ContractNext]_(Contract!contractVars)
    BY <2>6 DEF SetLocationProperty, Contract!contractVars
  <2>7. CASE SettingsChanged
    BY <2>7 DEF SettingsChanged, object, Contract!Redisplay,
                Contract!ContractNext
  <2>8. CASE Dispose
    <3>1. <<current', forecastList', attribution'>>
            \in CurrentData \X ForecastData \X Attribution
      BY <1>2 DEF TypeOK
    <3> QED
      BY <2>8, <3>1 DEF Dispose, Contract!Drop, Contract!ContractNext
  <2>9. ASSUME NEW m \in Message, Arrive(m) \/ FinishCancelled(m)
        PROVE  [Contract!ContractNext]_(Contract!contractVars)
    BY <2>9 DEF Arrive, FinishCancelled, object, Contract!contractVars
  <2>10. ASSUME NEW m \in Message, Callback(m), ~FinishCancelled(m)
         PROVE  Contract!ContractNext
    <3>1. PICK handler : Returns(m, handler)
      BY <2>10 DEF Callback, MetarFinish, IwinFinish, MetnoFinish, OwmFinish,
                   NwsFinishNew, NwsFinishForecast
    <3>2. requestsPending # {} /\ ~disposed
      BY <1>2, <3>1, ReturnsToTheLiving
    <3>3. ~disposed'
      BY <2>10, <3>2
         DEF Callback, MetarFinish, IwinFinish, MetnoFinish, OwmFinish,
             NwsFinishNew, NwsFinishForecast
    <3>4. PICK pending, cur, list : RequestDone(m, pending, cur, list)
      BY <2>10 DEF Callback, MetarFinish, IwinFinish, MetnoFinish, OwmFinish,
                   NwsFinishNew, NwsFinishForecast
    <3> QED
      BY <1>2, <3>2, <3>3, <3>4, DoneIsReceiveOrComplete DEF Contract!ContractNext
  <2>11. CASE UNCHANGED vars
    BY <2>11 DEF vars, object, Contract!contractVars
  <2> QED
    BY <1>2, <2>1, <2>2, <2>3, <2>4, <2>5, <2>6, <2>7, <2>8, <2>9, <2>10, <2>11
       DEF Next, Call
<1> QED
  BY <1>1, <1>2, TypeCorrect, Invariance, PTL
     DEF Spec, ContractSpec, Contract!ContractSpec
-----------------------------------------------------------------------------
(* Forecasts that are held, and shown *)

(* Requests come from an update, or are the second one to the NWS.         *)
LEMMA NewRequests ==
  ASSUME TypeOK, Next, NEW n \in InFlight', n \notin InFlight
  PROVE  \/ n.handler = "nws_finish_forecast"
         \/ n.handler \in MetarRequest \cup ForecastRequest
<1>1. CASE Call
  <2>1. op' = op => InFlight' = InFlight
    BY DEF InFlight
  <2>2. Update
    BY <1>1, <2>1 DEF Call, SetApplicationId, SetContactInfo, Abort, SetEnabledProviders,
                      SetLocation, SetLocationProperty, SettingsChanged, Dispose, requests
  <2>3. fetches' \in 1..MaxFetches
    BY <2>2, InfoUpdateAssumption DEF Update, TypeOK
  <2>4. n \in Started(fetches')
    BY <2>2, <2>3, StartedType, QueueInFlight DEF Update
  <2> QED BY <2>4 DEF Started
<1>2. ASSUME NEW m \in Message, Arrive(m) PROVE FALSE
  <2>1. n \in Message /\ op[n].state = "none" /\ op'[n].state # "none"
    BY DEF InFlight
  <2>2. n # m
    BY <1>2, <2>1 DEF Arrive
  <2> QED BY <1>2, <2>1, <2>2 DEF Arrive, TypeOK
<1>3. ASSUME NEW m \in Message, Finish(m) PROVE FALSE
  BY <1>3, FinishInFlight
<1>4. ASSUME NEW m \in Message, NwsFinishNew(m) PROVE n.handler = "nws_finish_forecast"
  <2>1. n \in Message /\ op[n].state = "none" /\ op'[n].state # "none"
    BY DEF InFlight
  <2>2. op' = [k \in Message |->
                 IF k \in GridRequest(m) THEN [state |-> "sent", place |-> op[m].place]
                 ELSE [op EXCEPT ![m] = NoOperation][k]]
    BY <1>4 DEF NwsFinishNew, Queue
  <2>3. [op EXCEPT ![m] = NoOperation][n].state = "none"
    BY <2>1 DEF TypeOK, NoOperation
  <2>4. n \in GridRequest(m)
    BY <2>1, <2>2, <2>3
  <2> QED BY <2>4 DEF GridRequest, Message
<1> QED
  BY <1>1, <1>2, <1>3, <1>4 DEF Next, Callback, FinishCancelled, MetarFinish, IwinFinish,
                                MetnoFinish, OwmFinish, NwsFinishForecast

None(handler) == \A m \in InFlight : m.handler # handler

(* Where no location has a US zone, IWIN is never asked; and without OWM   *)
(* among the providers of the application, OpenWeatherMap never is.        *)
NoIwin == None("iwin_finish")
NoOwm == None("owm_finish") /\ "OWM" \notin providers

LEMMA IwinIsNotAsked ==
  ASSUME Zoned = {}
  PROVE  Spec => []NoIwin
<1>1. Init => NoIwin
  BY DEF Init, NoIwin, None, InFlight, NoOperation
<1>2. ASSUME TypeOK, NoIwin, [Next]_vars PROVE NoIwin'
  <2>1. CASE UNCHANGED vars
    BY <1>2, <2>1 DEF vars, requests, NoIwin, None, InFlight
  <2>2. "iwin_finish" \notin MetarRequest \cup ForecastRequest
    BY DEF MetarRequest, ForecastRequest, IwinStartOpen
  <2>3. ASSUME Next, NEW n \in InFlight' PROVE n.handler # "iwin_finish"
    <3>1. CASE n \in InFlight
      BY <1>2, <3>1 DEF NoIwin, None
    <3>2. CASE n \notin InFlight
      BY <1>2, <2>2, <2>3, <3>2, NewRequests
    <3> QED BY <3>1, <3>2
  <2> QED BY <1>2, <2>1, <2>3 DEF NoIwin, None
<1> QED BY <1>1, <1>2, TypeCorrect, PTL DEF Spec

LEMMA OwmIsNotAsked ==
  ASSUME \A set \in ProviderSets : "OWM" \notin set
  PROVE  Spec => []NoOwm
<1>1. Init => NoOwm
  BY DEF Init, NoOwm, None, InFlight, NoOperation
<1>2. ASSUME TypeOK, NoOwm, [Next]_vars PROVE NoOwm'
  <2>1. CASE UNCHANGED vars
    BY <1>2, <2>1 DEF vars, object, requests, NoOwm, None, InFlight
  <2>2. "owm_finish" \notin MetarRequest \cup ForecastRequest
    BY <1>2 DEF NoOwm, MetarRequest, ForecastRequest
  <2>3. ASSUME Next, NEW n \in InFlight' PROVE n.handler # "owm_finish"
    <3>1. CASE n \in InFlight
      BY <1>2, <3>1 DEF NoOwm, None
    <3>2. CASE n \notin InFlight
      BY <1>2, <2>2, <2>3, <3>2, NewRequests
    <3> QED BY <3>1, <3>2
  <2>4. ASSUME Next PROVE "OWM" \notin providers'
    <3>1. providers' = providers \/ \E set \in ProviderSets : providers' = set
      BY <2>4 DEF Next, Call, SetApplicationId, SetContactInfo, Update, Abort,
                  SetEnabledProviders, SetLocation, SetLocationProperty, SettingsChanged,
                  Dispose, Arrive, Callback, FinishCancelled, MetarFinish, IwinFinish,
                  MetnoFinish, OwmFinish, NwsFinishNew, NwsFinishForecast, object
    <3> QED BY <1>2, <3>1 DEF NoOwm
  <2> QED BY <1>2, <2>1, <2>3, <2>4 DEF NoOwm, None
<1> QED BY <1>1, <1>2, TypeCorrect, PTL DEF Spec

(* A forecast is visible as soon as it is there, unless it is of IWIN.     *)
OthersAreVisible ==
  forecastList # NoForecast /\ forecastList.src # "iwin_finish" => valid

(* Of all services only IWIN may leave forecasts that the object holds and *)
(* does not show: the others set valid when they fill the list, and what   *)
(* takes valid back, gweather_info_update and dispose, empties the list.   *)
THEOREM OnlyIwinIsHidden == Spec => []OthersAreVisible
<1>1. Init => OthersAreVisible
  BY DEF Init, OthersAreVisible
<1>2. ASSUME OthersAreVisible, [Next]_vars PROVE OthersAreVisible'
  <2>1. CASE UNCHANGED vars
    BY <1>2, <2>1 DEF vars, object, OthersAreVisible
  <2>2. CASE Call
    BY <1>2, <2>2 DEF Call, SetApplicationId, SetContactInfo, Update, Abort,
                      SetEnabledProviders, SetLocation, SetLocationProperty,
                      SettingsChanged, Dispose, Reset, object, OthersAreVisible
  <2>3. ASSUME NEW m \in Message, Arrive(m) \/ FinishCancelled(m) PROVE OthersAreVisible'
    BY <1>2, <2>3 DEF Arrive, FinishCancelled, object, OthersAreVisible
  <2>4. ASSUME NEW m \in Message, MetarFinish(m) PROVE OthersAreVisible'
    BY <1>2, <2>4 DEF MetarFinish, MetarValid, RequestDone, OthersAreVisible
  <2>5. ASSUME NEW m \in Message, IwinFinish(m) PROVE OthersAreVisible'
    BY <1>2, <2>5 DEF IwinFinish, Returns, RequestDone, ForecastsFrom, OthersAreVisible
  <2>6. ASSUME NEW m \in Message, MetnoFinish(m) PROVE OthersAreVisible'
    <3>1. CASE op[m].state = "data"
      <4>1. ForecastsFrom(m) # NoForecast
        BY <3>1 DEF ForecastsFrom, NoForecast
      <4> QED BY <2>6, <3>1, <4>1 DEF MetnoFinish, OthersAreVisible
    <3>2. CASE op[m].state # "data"
      BY <1>2, <2>6, <3>2 DEF MetnoFinish, RequestDone, OthersAreVisible
    <3> QED BY <3>1, <3>2
  <2>7. ASSUME NEW m \in Message, OwmFinish(m) \/ NwsFinishNew(m) PROVE OthersAreVisible'
    BY <1>2, <2>7 DEF OwmFinish, NwsFinishNew, RequestDone, OthersAreVisible
  <2>8. ASSUME NEW m \in Message, NwsFinishForecast(m) PROVE OthersAreVisible'
    BY <1>2, <2>8 DEF NwsFinishForecast, RequestDone, OthersAreVisible
  <2> QED
    BY <1>2, <2>1, <2>2, <2>3, <2>4, <2>5, <2>6, <2>7, <2>8 DEF Next, Callback
<1> QED BY <1>1, <1>2, PTL DEF Spec

NotOfIwin == forecastList.src # "iwin_finish"

(* Where no location has a US zone, every forecast an object holds is one  *)
(* that gweather_info_get_forecast_list returns, during an update as well. *)
THEOREM HeldIsVisible ==
  ASSUME Zoned = {}
  PROVE  Spec => []HeldForecastIsVisible
<1>1. Init => NotOfIwin
  BY DEF Init, NoForecast, NotOfIwin
<1>2. ASSUME NoIwin, NotOfIwin, [Next]_vars PROVE NotOfIwin'
  <2>1. ASSUME NEW m \in Message PROVE ~IwinFinish(m)
    BY <1>2 DEF IwinFinish, Returns, NoIwin, None, InFlight, Answer
  <2>2. CASE UNCHANGED vars
    BY <1>2, <2>2 DEF vars, object, NotOfIwin
  <2>3. CASE Call
    BY <1>2, <2>3 DEF Call, SetApplicationId, SetContactInfo, Update, Abort,
                      SetEnabledProviders, SetLocation, SetLocationProperty,
                      SettingsChanged, Dispose, Reset, NoForecast, object, NotOfIwin
  <2>4. ASSUME NEW m \in Message, Arrive(m) \/ FinishCancelled(m)
        PROVE  NotOfIwin'
    BY <1>2, <2>4 DEF Arrive, FinishCancelled, object, NotOfIwin
  <2>5. ASSUME NEW m \in Message,
               MetarFinish(m) \/ OwmFinish(m) \/ NwsFinishNew(m)
        PROVE  NotOfIwin'
    BY <1>2, <2>5 DEF MetarFinish, OwmFinish, NwsFinishNew, RequestDone, NotOfIwin
  <2>6. ASSUME NEW m \in Message, MetnoFinish(m) \/ NwsFinishForecast(m)
        PROVE  NotOfIwin'
    BY <1>2, <2>6 DEF MetnoFinish, NwsFinishForecast, Returns, RequestDone,
                        ForecastsFrom, NotOfIwin
  <2> QED
    BY <1>2, <2>1, <2>2, <2>3, <2>4, <2>5, <2>6 DEF Next, Callback
<1>3. OthersAreVisible /\ NotOfIwin => HeldForecastIsVisible
  BY DEF OthersAreVisible, NotOfIwin, HeldForecastIsVisible
<1> QED BY <1>1, <1>2, <1>3, IwinIsNotAsked, OnlyIwinIsHidden, PTL DEF Spec

(* Without OpenWeatherMap among the providers, every service that answers  *)
(* with forecasts leaves them on the list.                                 *)
THEOREM ForecastStays ==
  ASSUME \A set \in ProviderSets : "OWM" \notin set
  PROVE  Spec => ForecastIsKept
<1> DEFINE Kept == \A m \in ForecastBodies : op'[m] = NoOperation => forecastList' # NoForecast
<1>1. TypeOK /\ NoOwm /\ [Next]_vars => [Kept]_vars
  <2> SUFFICES ASSUME TypeOK, NoOwm, Next, NEW m \in ForecastBodies, op'[m] = NoOperation
               PROVE  forecastList' # NoForecast
    OBVIOUS
  <2>1. /\ m \in Message /\ m \in InFlight /\ m \notin cancelled
        /\ m.handler \in ForecastHandler \ {"nws_finish_new"}
        /\ op[m].state = "data"
    BY DEF ForecastBodies, InFlight
  <2>2. op'[m] # op[m] /\ op'[m].state = "none"
    BY <2>1 DEF NoOperation
  <2>3. ~Call
    <3>1. ASSUME Update PROVE FALSE
      <4>1. op'[m] = op[m] \/ op'[m].state = "sent"
        BY <2>1, <3>1 DEF Update, Queue
      <4> QED BY <2>2, <4>1
    <3> QED BY <2>2, <3>1 DEF Call, SetApplicationId, SetContactInfo, Abort,
                SetEnabledProviders, SetLocation, SetLocationProperty, SettingsChanged,
                Dispose, requests
  <2>4. PICK n \in Message : Arrive(n) \/ Callback(n)
    BY <2>3 DEF Next
  <2>5. ~Arrive(n)
    <3>1. ASSUME Arrive(n) PROVE op'[m].state \in {op[m].state} \cup Answer
      BY <2>1, <3>1 DEF Arrive, AnswersTo, Answer, TypeOK, Operation
    <3> QED BY <2>1, <2>2, <3>1 DEF Answer
  <2>6. n = m
    <3>1. CASE Finish(n)
      BY <2>1, <2>2, <3>1 DEF Finish, TypeOK
    <3>2. CASE NwsFinishNew(n)
      <4>1. op'[m] = IF m \in GridRequest(n) THEN [state |-> "sent", place |-> op[n].place]
                     ELSE [op EXCEPT ![n] = NoOperation][m]
        BY <2>1, <3>2 DEF NwsFinishNew, Queue
      <4> QED BY <2>1, <2>2, <4>1 DEF TypeOK
    <3> QED BY <2>4, <2>5, <3>1, <3>2 DEF Callback, FinishCancelled, MetarFinish, IwinFinish,
                MetnoFinish, OwmFinish, NwsFinishForecast
  <2>7. forecastList' = ForecastsFrom(m)
    <3>1. Callback(m) /\ ~FinishCancelled(m) /\ m.handler # "owm_finish"
      BY <2>1, <2>4, <2>5, <2>6 DEF FinishCancelled, NoOwm, None
    <3>2. m.handler # "metar_finish" /\ m.handler # "nws_finish_new"
      BY <2>1 DEF ForecastHandler
    <3>3. CASE IwinFinish(m)
      BY <2>1, <3>3 DEF IwinFinish, RequestDone
    <3>4. CASE MetnoFinish(m)
      BY <2>1, <3>4 DEF MetnoFinish, RequestDone
    <3>5. CASE NwsFinishForecast(m)
      BY <2>1, <3>5 DEF NwsFinishForecast, RequestDone
    <3> QED BY <3>1, <3>2, <3>3, <3>4, <3>5 DEF Callback, MetarFinish, OwmFinish,
                NwsFinishNew, Returns
  <2>8. ForecastsFrom(m).first = TRUE /\ NoForecast.first = FALSE
    BY <2>1 DEF ForecastsFrom, NoForecast
  <2> QED BY <2>7, <2>8
<1> QED BY <1>1, TypeCorrect, OwmIsNotAsked, PTL DEF Spec, ForecastIsKept

-----------------------------------------------------------------------------
(* The end of an update *)

(* What the network and the main loop still have to do for a message that  *)
(* is in flight: to answer it, and to run its callback; and the same for   *)
(* the grid request that a point request of the NWS may lead to.           *)
Grid(m) == [m EXCEPT !.handler = "nws_finish_forecast"]

StepsLeft(m) ==
  {<<m, "callback">>}
    \cup (IF op[m].state = "sent" THEN {<<m, "answer">>} ELSE {})
    \cup (IF m.handler = "nws_finish_new"
          THEN {<<Grid(m), "answer">>, <<Grid(m), "callback">>} ELSE {})

Work == UNION {StepsLeft(m) : m \in InFlight}

(* There is never more than a finite amount of it.                         *)
LEMMA WorkIsFinite ==
  TypeOK => IsFiniteSet(Work)
<1> SUFFICES ASSUME TypeOK PROVE IsFiniteSet(Work)
  OBVIOUS
<1>1. IsFiniteSet(1..MaxFetches)
  BY InfoUpdateAssumption, FS_Interval
<1>2. IsFiniteSet(Handler)
  <2>1. Handler = {"metar_finish"} \cup ({"nws_finish_new"} \cup ({"nws_finish_forecast"}
          \cup ({"iwin_finish"} \cup ({"metno_finish_new"} \cup {"owm_finish"}))))
    BY DEF Handler, ForecastHandler
  <2> QED BY <2>1, FS_Singleton, FS_Union
<1>3. IsFiniteSet({"answer", "callback"})
  <2>1. {"answer", "callback"} = {"answer"} \cup {"callback"}
    OBVIOUS
  <2>2. IsFiniteSet({"answer"}) /\ IsFiniteSet({"callback"})
    BY FS_Singleton
  <2>3. IsFiniteSet({"answer"} \cup {"callback"})
    BY <2>2, FS_Union
  <2> QED BY <2>1, <2>3
<1> DEFINE pairs == (1..MaxFetches) \X Handler
           named == [p \in pairs |-> [fetch |-> p[1], handler |-> p[2]]]
<1>4. IsFiniteSet(pairs)
  BY <1>1, <1>2, FS_Product
<1>5. named \in Surjection(pairs, Message)
  <2>1. named \in [pairs -> Message]
    BY DEF Message
  <2>2. ASSUME NEW m \in Message PROVE \E p \in pairs : named[p] = m
    <3>1. /\ m.fetch \in 1..MaxFetches /\ m.handler \in Handler
          /\ m = [fetch |-> m.fetch, handler |-> m.handler]
      BY DEF Message
    <3>2. <<m.fetch, m.handler>> \in pairs
      BY <3>1
    <3>3. named[<<m.fetch, m.handler>>] = m
      BY <3>1, <3>2
    <3> QED BY <3>2, <3>3
  <2> QED BY <2>1, <2>2 DEF Surjection
<1>6. IsFiniteSet(Message)
  <2> HIDE DEF pairs, named
  <2> QED BY <1>4, <1>5, FS_Surjection
<1>7. IsFiniteSet(Message \X {"answer", "callback"})
  BY <1>3, <1>6, FS_Product
<1>8. Work \subseteq Message \X {"answer", "callback"}
  <2>1. ASSUME NEW m \in Message PROVE Grid(m) \in Message
    BY DEF Grid, Message, Handler, ForecastHandler
  <2> QED BY <2>1 DEF Work, StepsLeft, InFlight
<1> QED BY <1>7, <1>8, FS_Subset

(* An answer, and a callback, is a step that was left and is left no more. *)
LEMMA ArriveIsWork ==
  ASSUME TypeOK, IInv, NEW m \in Message, Arrive(m)
  PROVE  Work' \subseteq Work /\ Work' # Work
<1>1. PICK a \in AnswersTo(m.handler) : op' = [op EXCEPT ![m].state = a]
  BY DEF Arrive
<1>2. op[m].state = "sent" /\ op'[m].state = a /\ a # "sent" /\ a # "none"
  BY <1>1 DEF Arrive, AnswersTo, TypeOK, Operation
<1>3. \A n \in Message : n # m => op'[n] = op[n]
  BY <1>1 DEF TypeOK
<1>4. InFlight' = InFlight /\ m \in InFlight
  BY <1>2, <1>3 DEF InFlight
<1>5. \A n \in InFlight : StepsLeft(n)' \subseteq StepsLeft(n)
  BY <1>2, <1>3 DEF StepsLeft, InFlight
<1>6. Work' \subseteq Work
  BY <1>4, <1>5 DEF Work
<1>7. <<m, "answer">> \in Work
  BY <1>2, <1>4 DEF Work, StepsLeft
<1>8. ASSUME NEW n \in InFlight, <<m, "answer">> \in StepsLeft(n)' PROVE FALSE
  <2>1. n \in Message
    BY DEF InFlight
  <2>2. CASE n = m
    <3>1. <<m, "answer">> = <<Grid(m), "answer">> /\ m.handler = "nws_finish_new"
      BY <1>2, <1>8, <2>2 DEF StepsLeft
    <3> QED BY <3>1 DEF Grid, Message
  <2>3. CASE n # m
    <3>1. m = Grid(n) /\ n.handler = "nws_finish_new"
      BY <1>8, <2>3 DEF StepsLeft
    <3>2. n.fetch = m.fetch /\ m.handler = "nws_finish_forecast"
      BY <2>1, <3>1 DEF Grid, Message
    <3> QED BY <1>4, <3>1, <3>2 DEF IInv
  <2> QED BY <2>2, <2>3
<1>9. <<m, "answer">> \notin Work'
  BY <1>4, <1>8 DEF Work
<1> QED BY <1>6, <1>7, <1>9

LEMMA FinishIsWork ==
  ASSUME TypeOK, IInv, NEW m \in InFlight, Finish(m)
  PROVE  Work' \subseteq Work /\ Work' # Work
<1>1. m \in Message /\ InFlight' = InFlight \ {m}
  BY FinishInFlight DEF InFlight
<1>2. \A n \in InFlight' : n \in InFlight /\ StepsLeft(n)' = StepsLeft(n)
  BY <1>1 DEF Finish, StepsLeft, InFlight, TypeOK
<1>3. Work' \subseteq Work
  BY <1>2 DEF Work
<1>4. <<m, "callback">> \in Work
  BY DEF Work, StepsLeft
<1>5. ASSUME NEW n \in InFlight', <<m, "callback">> \in StepsLeft(n) PROVE FALSE
  <2>1. n \in Message /\ n # m /\ n \in InFlight
    BY <1>1 DEF InFlight
  <2>2. m = Grid(n) /\ n.handler = "nws_finish_new"
    BY <1>5, <2>1 DEF StepsLeft
  <2>3. n.fetch = m.fetch /\ m.handler = "nws_finish_forecast"
    BY <2>1, <2>2 DEF Grid, Message
  <2> QED BY <2>1, <2>2, <2>3 DEF IInv
<1>6. <<m, "callback">> \notin Work'
  BY <1>2, <1>5 DEF Work
<1> QED BY <1>3, <1>4, <1>6

LEMMA NwsFinishNewIsWork ==
  ASSUME TypeOK, IInv, NEW m \in Message, NwsFinishNew(m)
  PROVE  Work' \subseteq Work /\ Work' # Work
<1>1. m \in InFlight /\ m.handler = "nws_finish_new"
  BY DEF NwsFinishNew, Returns, InFlight, Answer
<1>2. \A n \in GridRequest(m) : n = Grid(m)
  BY DEF GridRequest, Grid
<1>3. op' = [n \in Message |->
               IF n \in GridRequest(m) THEN [state |-> "sent", place |-> op[m].place]
               ELSE [op EXCEPT ![m] = NoOperation][n]]
  BY DEF NwsFinishNew, Queue
<1>4. Grid(m).handler = "nws_finish_forecast" /\ Grid(m) # m
  BY <1>1 DEF Grid, Message
<1>5. ASSUME NEW n \in InFlight'
      PROVE  n # m /\ ((n \in InFlight /\ StepsLeft(n)' = StepsLeft(n)) \/ n = Grid(m))
  <2>1. n \in Message /\ op'[n].state # "none"
    BY DEF InFlight
  <2>2. CASE n \in GridRequest(m)
    BY <1>2, <1>4, <2>2
  <2>3. CASE n \notin GridRequest(m)
    <3>1. op'[n] = [op EXCEPT ![m] = NoOperation][n]
      BY <1>3, <2>1, <2>3
    <3>2. n # m /\ op'[n] = op[n]
      BY <2>1, <3>1 DEF TypeOK, NoOperation
    <3> QED BY <2>1, <3>2 DEF InFlight, StepsLeft
  <2> QED BY <2>2, <2>3
<1>6. StepsLeft(Grid(m))' \subseteq StepsLeft(m)
  BY <1>1, <1>4 DEF StepsLeft
<1>7. Work' \subseteq Work
  BY <1>1, <1>5, <1>6 DEF Work
<1>8. <<m, "callback">> \in Work
  BY <1>1 DEF Work, StepsLeft
<1>9. ASSUME NEW n \in InFlight', <<m, "callback">> \in StepsLeft(n)' PROVE FALSE
  <2>1. n # m /\ n \in Message
    BY <1>5 DEF InFlight
  <2>2. m = Grid(n)
    BY <1>9, <2>1 DEF StepsLeft
  <2> QED BY <1>1, <2>1, <2>2 DEF Grid, Message
<1>10. <<m, "callback">> \notin Work'
  BY <1>9 DEF Work
<1> QED BY <1>7, <1>8, <1>10

(* What EveryFetchEnds rests on, as far as it is a matter of safety: every *)
(* answer and every callback, that of a second request to the NWS and      *)
(* those of an update that was aborted included, leaves strictly less to   *)
(* do; no call of the application leaves more, but an update; and          *)
(* gweather_info_update starts nothing while an earlier one is pending.    *)
WorkGoesDown ==
  [][/\ (\E m \in Message : Arrive(m) \/ Callback(m))
          => Work' \subseteq Work /\ Work' # Work
     /\ Call => Work' = Work \/ (Update /\ requestsPending = {})]_vars

THEOREM UpdatesWindDown == Spec => WorkGoesDown
<1> DEFINE Down ==
      /\ (\E m \in Message : Arrive(m) \/ Callback(m)) => Work' \subseteq Work /\ Work' # Work
      /\ Call => Work' = Work \/ (Update /\ requestsPending = {})
<1>1. TypeOK /\ IInv /\ [Next]_vars => [Down]_vars
  <2> SUFFICES ASSUME TypeOK, IInv, Next PROVE Down
    OBVIOUS
  <2>1. ASSUME NEW m \in Message, Arrive(m) \/ Callback(m)
        PROVE  Work' \subseteq Work /\ Work' # Work
    <3>1. CASE Arrive(m)
      BY <3>1, ArriveIsWork
    <3>2. CASE NwsFinishNew(m)
      BY <3>2, NwsFinishNewIsWork
    <3>3. CASE Callback(m) /\ ~NwsFinishNew(m)
      <4>1. m \in InFlight /\ Finish(m)
        BY <3>3 DEF Callback, FinishCancelled, MetarFinish, IwinFinish, MetnoFinish, OwmFinish,
                    NwsFinishForecast, Returns, InFlight, Answer
      <4> QED BY <4>1, FinishIsWork
    <3> QED BY <2>1, <3>1, <3>2, <3>3
  <2>2. ASSUME Call PROVE Work' = Work \/ (Update /\ requestsPending = {})
    <3>1. CASE Update
      BY <3>1 DEF Update
    <3>2. CASE ~Update
      <4>1. op' = op
        BY <2>2, <3>2 DEF Call, SetApplicationId, SetContactInfo, Abort, SetEnabledProviders,
                    SetLocation, SetLocationProperty, SettingsChanged, Dispose, requests
      <4> QED BY <4>1 DEF Work, StepsLeft, InFlight
    <3> QED BY <3>1, <3>2
  <2> QED BY <2>1, <2>2 DEF Next
<1> QED BY <1>1, TypeCorrect, Invariance, PTL DEF Spec, WorkGoesDown

(* And it never stops half-way: while an update is pending, each of its    *)
(* messages waits for an answer that can still come, or has its callback   *)
(* ready to run; none is cancelled, or lost without leaving the list.      *)
Waits(m) == op[m].state = "sent" /\ m \notin cancelled
PendingMovesOn ==
  \A m \in requestsPending : Waits(m) \/ Returns(m, m.handler)

THEOREM NothingIsStuck == Spec => []PendingMovesOn
<1>1. TypeOK /\ IInv => PendingMovesOn
  BY DEF TypeOK, IInv, InFlightIsPending, InFlight, PendingMovesOn, Waits, Returns, Operation
<1> QED BY <1>1, TypeCorrect, Invariance, PTL

=============================================================================
