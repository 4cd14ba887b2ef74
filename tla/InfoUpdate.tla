------------------------------ MODULE InfoUpdate ------------------------------
(***************************************************************************)
(* The life cycle of one GWeatherInfo (gweather-info.c): an update starts  *)
(* up to two HTTP requests, every answer is handled by the callback of the *)
(* service that was asked (weather-metar.c, weather-nws.c, weather-iwin.c, *)
(* weather-metno.c, weather-owm.c), and the last one to finish emits the   *)
(* "updated" signal.  The application may at any time abort, move the      *)
(* object to another place, change the providers or drop the object, while *)
(* callbacks of earlier requests are still on their way.                   *)
(*                                                                         *)
(* One action is one call of the application, one callback dispatched by   *)
(* the main loop, or one answer arriving from the network.  No handler     *)
(* touches the object after the "updated" emission that ends it, so a call *)
(* made from inside a signal handler is the same call made right after.    *)
(***************************************************************************)
EXTENDS Naturals

CONSTANTS
  Location,         \* the GWeatherLocations the application uses
  NoLocation,       \* NULL
  Located,          \* the locations with coordinates (latlon_valid)
  Zoned,            \* the locations with a US forecast zone
  DefaultLocation,  \* what the station code of the settings' default-location names
  DefaultCoords,    \* whose coordinates the settings' default-location gives
  ProviderSets,     \* the provider bitmasks the application uses
  MaxFetches        \* bound: how many updates are accepted in a behaviour

Provider == {"METAR", "IWIN", "MET_NO", "OWM", "NWS"}

ASSUME InfoUpdateAssumption ==
  /\ NoLocation \notin Location
  /\ Located \subseteq Location
  /\ Zoned \subseteq Location
  /\ DefaultLocation \in Location \cup {NoLocation}
  /\ DefaultCoords \in Location \cup {NoLocation}
  /\ ProviderSets \subseteq SUBSET Provider
  /\ MaxFetches \in Nat

\* The fields of struct _GWeatherInfo that control the life cycle.
VARIABLES
  providers,        \* enabled providers, a bitmask
  applicationId,    \* is application_id set (to a valid id)?
  contactInfo,      \* is contact_info set?
  session,          \* does the object hold a reference to the SoupSession?
  glocation,        \* the GWeatherLocation, or NULL
  location,         \* the WeatherLocation: whose station, whose coordinates
  requestsPending,  \* requests_pending
  valid,
  networkError,
  current,          \* the current conditions; "dated" is update != 0
  forecastList,
  attribution,
  disposed          \* has gweather_info_dispose run?

\* The requests, as libsoup and the main loop see them.
VARIABLES
  op,         \* the asynchronous operation of each message, and its place
  cancelled   \* messages in flight whose cancellable is cancelled

\* What the application observes, and history.
VARIABLES
  signal,     \* flips each time "updated" is emitted
  fetches,    \* how many updates were accepted so far
  moved       \* set_location was called after the last accepted update

object == <<providers, applicationId, contactInfo, session, glocation, location,
            requestsPending, valid, networkError, current, forecastList,
            attribution>>
requests == <<op, cancelled>>
vars == <<object, disposed, requests, signal, fetches, moved>>

-----------------------------------------------------------------------------
(* Data *)

Somewhere == Location \cup {NoLocation}

Place == [station : Somewhere, coords : Somewhere]
NoPlace == [station |-> NoLocation, coords |-> NoLocation]

(* A message is named by the update that started it and its callback.      *)
ForecastHandler == {"nws_finish_new", "nws_finish_forecast", "iwin_finish",
                    "metno_finish_new", "owm_finish"}
Handler == {"metar_finish"} \cup ForecastHandler
Message == [fetch : 1..MaxFetches, handler : Handler]

(* What the body or status of a finished request amounts to: no body at    *)
(* all, a status that is not 2xx, a 204, a page of some other server that  *)
(* does not parse, a document of the service with nothing in it, a report  *)
(* without observation time, days of which the first is invalid, or data.  *)
Answer == {"failed", "bad_status", "no_content", "foreign", "empty",
           "undated", "first_invalid", "data"}

AnswersTo(handler) ==
  {"failed", "bad_status", "foreign", "empty", "data"}
    \cup (IF handler = "metar_finish" THEN {"no_content", "undated"} ELSE {})
    \cup (IF handler = "iwin_finish" THEN {"first_invalid"} ELSE {})

Operation == [state : {"none", "sent"} \cup Answer, place : Place]
NoOperation == [state |-> "none", place |-> NoPlace]

CurrentData == [src : {"none"} \cup Handler, of : Somewhere, dated : BOOLEAN]
NoCurrent == [src |-> "none", of |-> NoLocation, dated |-> FALSE]

(* "first" tells whether the first member of the list is an info or NULL.  *)
ForecastData == [src : {"none"} \cup ForecastHandler, of : Somewhere, first : BOOLEAN]
NoForecast == [src |-> "none", of |-> NoLocation, first |-> FALSE]

Attribution == {"none", "met.no", "OpenWeatherMap"}

TypeOK ==
  /\ providers \in SUBSET Provider
  /\ applicationId \in BOOLEAN
  /\ contactInfo \in BOOLEAN
  /\ session \in BOOLEAN
  /\ glocation \in Somewhere
  /\ location \in Place
  /\ requestsPending \in SUBSET Message
  /\ valid \in BOOLEAN
  /\ networkError \in BOOLEAN
  /\ current \in CurrentData
  /\ forecastList \in ForecastData
  /\ attribution \in Attribution
  /\ disposed \in BOOLEAN
  /\ op \in [Message -> Operation]
  /\ cancelled \in SUBSET Message
  /\ signal \in BOOLEAN
  /\ fetches \in 0..MaxFetches
  /\ moved \in BOOLEAN

-----------------------------------------------------------------------------
(* Where the object is *)

(* _gweather_location_update_weather_location: the station and the         *)
(* coordinates found at the location or above it.                          *)
PlaceOf(l) == [station |-> l, coords |-> IF l \in Located THEN l ELSE NoLocation]

(* gweather_info_set_location_internal: NULL stands for the default of the *)
(* settings, whose coordinates override those of its station; when that    *)
(* station is unknown the WeatherLocation keeps what it had.               *)
SetLocationInternal(l) ==
  IF glocation = l
  THEN UNCHANGED <<glocation, location>>
  ELSE LET target == IF l # NoLocation THEN l ELSE DefaultLocation
           found  == IF target # NoLocation THEN PlaceOf(target) ELSE location
       IN  /\ glocation' = target
           /\ location' = IF l = NoLocation /\ DefaultCoords # NoLocation
                          THEN [found EXCEPT !.coords = DefaultCoords]
                          ELSE found

\* Fault: the forecasts survive.
ResetKeepsForecasts ==
  /\ current' = NoCurrent
  /\ attribution' = "none"
  /\ UNCHANGED forecastList

(* gweather_info_reset.  "valid" and "networkError" are left alone.        *)
Reset ==
  /\ current' = NoCurrent
  /\ forecastList' = NoForecast
  /\ attribution' = "none"

-----------------------------------------------------------------------------
(* The end of a request *)

\* Fault: the forecast itself takes the place of the conditions.
FixupReplaces(cur, list, near) ==
  IF ~cur.dated /\ list.first /\ near THEN list ELSE cur

(* fixup_current_conditions: with no observation, the first forecast is    *)
(* shown as the current conditions if it is for at most an hour from now   *)
(* (near).  It does not touch "valid".                                     *)
FixupCurrentConditions(cur, list, near) ==
  IF ~cur.dated /\ list.first /\ near
  THEN [src |-> list.src, of |-> list.of, dated |-> TRUE]
  ELSE cur

\* Fault: the message stays on the list.
RequestDoneKeepsMessage(m, pending, cur, list) ==
  /\ requestsPending' = pending
  /\ forecastList' = list
  /\ current' = cur
  /\ UNCHANGED signal

(* _gweather_info_request_done, called with the current conditions and the *)
(* forecasts as the callback left them and with the requests pending.      *)
RequestDone(m, pending, cur, list) ==
  LET rest == pending \ {m}
  IN  /\ requestsPending' = rest
      /\ forecastList' = list
      /\ IF rest = {}
         THEN /\ \E near \in BOOLEAN : current' = FixupCurrentConditions(cur, list, near)
              /\ signal' = ~signal
         ELSE /\ current' = cur
              /\ UNCHANGED signal

\* Fault: a cancelled request is not told from one that failed.
ReturnsEvenCancelled(m, handler) ==
  /\ m.handler = handler
  /\ op[m].state \in Answer

(* A callback runs whose request was not cancelled: the result of          *)
(* soup_session_send_and_read_finish is a body or a network error.         *)
Returns(m, handler) ==
  /\ m.handler = handler
  /\ op[m].state \in Answer
  /\ m \notin cancelled

Finish(m) == op' = [op EXCEPT ![m] = NoOperation]

-----------------------------------------------------------------------------
(* Starting requests: which callbacks an update will wait for *)

LatLonValid == location.coords # NoLocation

(* metar_start_open, nws_start_open, iwin_start_open, metno_start_open and *)
(* owm_start_open: is a request begun?                                     *)
MetarStartOpen == LatLonValid
NwsStartOpen == LatLonValid
IwinStartOpen == location.station \in Zoned /\ LatLonValid
MetnoStartOpen == LatLonValid
OwmStartOpen == LatLonValid

(* The national services come first, and one forecast service is enough.   *)
ForecastRequest ==
  IF "NWS" \in providers /\ NwsStartOpen THEN {"nws_finish_new"}
  ELSE IF "IWIN" \in providers /\ IwinStartOpen THEN {"iwin_finish"}
  ELSE IF "MET_NO" \in providers /\ MetnoStartOpen THEN {"metno_finish_new"}
  ELSE IF "OWM" \in providers /\ OwmStartOpen THEN {"owm_finish"}
  ELSE {}

MetarRequest ==
  IF "METAR" \in providers /\ MetarStartOpen THEN {"metar_finish"} ELSE {}

(* The messages that update number n sends.                                *)
Started(n) == [fetch : {n}, handler : MetarRequest \cup ForecastRequest]

(* _gweather_info_begin_request puts the messages on requests_pending and  *)
(* _gweather_info_queue_request hands them to libsoup.                     *)
Queue(ops, ms, place) ==
  op' = [m \in Message |->
           IF m \in ms THEN [state |-> "sent", place |-> place] ELSE ops[m]]

-----------------------------------------------------------------------------
(* Calls of the application *)

Init ==
  /\ providers = {"METAR", "IWIN"}
  /\ applicationId \in BOOLEAN
  /\ contactInfo = FALSE
  /\ session = FALSE
  /\ glocation \in Somewhere
  /\ location = IF glocation = NoLocation THEN NoPlace ELSE PlaceOf(glocation)
  /\ requestsPending = {}
  /\ valid = FALSE
  /\ networkError = FALSE
  /\ current = NoCurrent
  /\ forecastList = NoForecast
  /\ attribution = "none"
  /\ disposed = FALSE
  /\ op = [m \in Message |-> NoOperation]
  /\ cancelled = {}
  /\ signal = FALSE
  /\ fetches = 0
  /\ moved = FALSE

(* gweather_info_set_application_id and gweather_info_set_contact_info;    *)
(* an object that has a session takes a new reference, so it still has one.*)
SetApplicationId ==
  /\ ~disposed
  /\ applicationId' = TRUE
  /\ UNCHANGED <<providers, contactInfo, session, glocation, location,
                 requestsPending, valid, networkError, current, forecastList,
                 attribution, disposed, requests, signal, fetches, moved>>

SetContactInfo ==
  /\ ~disposed
  /\ contactInfo' = TRUE
  /\ UNCHANGED <<providers, applicationId, session, glocation, location,
                 requestsPending, valid, networkError, current, forecastList,
                 attribution, disposed, requests, signal, fetches, moved>>

(* gweather_info_update, once past its checks: METAR first, then the first *)
(* forecast service that accepts the place.  There may be none at all.     *)
Update ==
  /\ ~disposed
  /\ providers # {} /\ applicationId /\ contactInfo
  /\ requestsPending = {}
  /\ fetches < MaxFetches
  /\ fetches' = fetches + 1
  /\ Reset
  /\ session' = TRUE
  /\ valid' = (valid /\ "METAR" \notin providers)
  /\ networkError' = (networkError /\ "METAR" \notin providers)
  /\ requestsPending' = Started(fetches')
  /\ Queue(op, Started(fetches'), location)
  /\ moved' = FALSE
  /\ UNCHANGED <<providers, applicationId, contactInfo, glocation, location,
                 disposed, cancelled, signal>>

\* Fault: the list is dropped, the requests go on.
AbortForgetsToCancel ==
  /\ requestsPending' = IF session THEN {} ELSE requestsPending
  /\ UNCHANGED cancelled

\* Fault: the requests are cancelled, the list stays.
AbortForgetsTheList ==
  /\ cancelled' = IF session THEN cancelled \cup requestsPending ELSE cancelled
  /\ UNCHANGED requestsPending

(* gweather_info_abort: cancel what is pending, and forget it.             *)
AbortRequests ==
  IF session
  THEN /\ cancelled' = cancelled \cup requestsPending
       /\ requestsPending' = {}
  ELSE UNCHANGED <<cancelled, requestsPending>>

Abort ==
  /\ ~disposed
  /\ AbortRequests
  /\ UNCHANGED <<providers, applicationId, contactInfo, session, glocation,
                 location, valid, networkError, current, forecastList,
                 attribution, disposed, op, signal, fetches, moved>>

(* gweather_info_set_enabled_providers *)
SetEnabledProviders(set) ==
  /\ ~disposed
  /\ set # {} => applicationId
  /\ set # providers
  /\ providers' = set
  /\ AbortRequests
  /\ UNCHANGED <<applicationId, contactInfo, session, glocation, location,
                 valid, networkError, current, forecastList, attribution,
                 disposed, op, signal, fetches, moved>>

(* gweather_info_set_location *)
SetLocation(l) ==
  /\ ~disposed
  /\ SetLocationInternal(l)
  /\ Reset
  /\ moved' = TRUE
  /\ UNCHANGED <<providers, applicationId, contactInfo, session,
                 requestsPending, valid, networkError, disposed, requests,
                 signal, fetches>>

(* The setter of the "location" property, which resets nothing.            *)
SetLocationProperty(l) ==
  /\ ~disposed
  /\ SetLocationInternal(l)
  /\ UNCHANGED <<providers, applicationId, contactInfo, session,
                 requestsPending, valid, networkError, current, forecastList,
                 attribution, disposed, requests, signal, fetches, moved>>

(* settings_changed_cb; a disposed object is no longer connected.          *)
SettingsChanged ==
  /\ ~disposed
  /\ requestsPending = {}
  /\ signal' = ~signal
  /\ UNCHANGED <<object, disposed, requests, fetches, moved>>

(* gweather_info_dispose: the last reference is dropped.                   *)
Dispose ==
  /\ ~disposed
  /\ disposed' = TRUE
  /\ AbortRequests
  /\ session' = FALSE
  /\ forecastList' = NoForecast
  /\ valid' = FALSE
  /\ UNCHANGED <<providers, applicationId, contactInfo, glocation, location,
                 networkError, current, attribution, op, signal,
                 fetches, moved>>

-----------------------------------------------------------------------------
(* The network and the main loop *)

(* libsoup: an answer arrives; its callback is queued on the main loop.    *)
(* After a cancellation libsoup stops listening.                           *)
Arrive(m) ==
  /\ op[m].state = "sent"
  /\ m \notin cancelled
  /\ \E a \in AnswersTo(m.handler) : op' = [op EXCEPT ![m].state = a]
  /\ UNCHANGED <<object, disposed, cancelled, signal, fetches, moved>>

(* The callback of a cancelled request.  The cancellable is checked when   *)
(* the callback asks for the result, so even an answer that had arrived is *)
(* reported as G_IO_ERROR_CANCELLED, and every callback returns at once.   *)
FinishCancelled(m) ==
  /\ m \in cancelled
  /\ op[m].state # "none"
  /\ Finish(m)
  /\ cancelled' = cancelled \ {m}
  /\ UNCHANGED <<object, disposed, signal, fetches, moved>>

\* Fault: any report in the answer will do.
MetarFoundAnywhere(m) == op[m].state \in {"data", "undated"}

(* metar_finish looks the report up under the code of the station that the *)
(* object has now; any report found counts as a success.                   *)
MetarFound(m) ==
  /\ op[m].state \in {"data", "undated"}
  /\ location.station # NoLocation
  /\ location.station = op[m].place.station

MetarParse(m) ==
  [src |-> m.handler, of |-> op[m].place.station,
   dated |-> op[m].state = "data" \/ current.dated]

\* Fault: a failed METAR request takes back what a forecast made valid.
MetarDecidesValid(m) == MetarFound(m)
MetarValid(m) == valid \/ MetarFound(m)

MetarFinish(m) ==
  /\ Returns(m, "metar_finish")
  /\ Finish(m)
  /\ networkError' = (networkError \/ op[m].state \in {"bad_status", "foreign"})
  /\ valid' = MetarValid(m)
  /\ RequestDone(m, requestsPending,
                 IF MetarFound(m) THEN MetarParse(m) ELSE current, forecastList)
  /\ UNCHANGED <<providers, applicationId, contactInfo, session, glocation,
                 location, attribution, disposed, cancelled, fetches, moved>>

\* Fault: the infos are appended to a list of their own.
ForecastsLost(m) == NoForecast

(* The forecasts that a document yields, for the place that was asked.     *)
ForecastsFrom(m) ==
  [src |-> m.handler, of |-> op[m].place.coords, first |-> op[m].state = "data"]

(* iwin_finish replaces the list and never sets "valid".                   *)
IwinFinish(m) ==
  /\ Returns(m, "iwin_finish")
  /\ Finish(m)
  /\ RequestDone(m, requestsPending, current,
                 IF op[m].state \in {"failed", "bad_status"} THEN forecastList
                 ELSE IF op[m].state \in {"data", "first_invalid"} THEN ForecastsFrom(m)
                 ELSE NoForecast)
  /\ UNCHANGED <<providers, applicationId, contactInfo, session, glocation,
                 location, valid, networkError, attribution, disposed,
                 cancelled, fetches, moved>>

(* metno_finish_new appends to the list; "valid" follows from its length.  *)
MetnoFinish(m) ==
  LET list == IF op[m].state = "data" THEN ForecastsFrom(m) ELSE forecastList
  IN  /\ Returns(m, "metno_finish_new")
      /\ Finish(m)
      /\ attribution' = IF op[m].state \in {"data", "empty"} THEN "met.no" ELSE attribution
      /\ valid' = (valid \/ (/\ op[m].state \notin {"failed", "bad_status"}
                            /\ list # NoForecast))
      /\ RequestDone(m, requestsPending, current, list)
      /\ UNCHANGED <<providers, applicationId, contactInfo, session, glocation,
                     location, networkError, disposed, cancelled, fetches,
                     moved>>

(* owm_finish: parse_forecast_xml appends each new info to the list of the *)
(* new info itself, so the object gets the attribution and nothing else.   *)
OwmFinish(m) ==
  /\ Returns(m, "owm_finish")
  /\ Finish(m)
  /\ attribution' = IF op[m].state \in {"data", "empty"} THEN "OpenWeatherMap" ELSE attribution
  /\ RequestDone(m, requestsPending, current, forecastList)
  /\ UNCHANGED <<providers, applicationId, contactInfo, session, glocation,
                 location, valid, networkError, disposed, cancelled,
                 fetches, moved>>

(* nws_finish_new: the point data name the grid data.  Their request is    *)
(* begun before this one is done, so the update is not over in between.    *)
GridRequest(m) ==
  IF op[m].state = "data" THEN {[m EXCEPT !.handler = "nws_finish_forecast"]} ELSE {}

\* Fault: the request of the point data is done before the next one begins.
NwsFinishNewDoneFirst(m) ==
  LET rest == requestsPending \ {m}
  IN  /\ Returns(m, "nws_finish_new")
      /\ Queue([op EXCEPT ![m] = NoOperation], GridRequest(m), op[m].place)
      /\ requestsPending' = rest \cup GridRequest(m)
      /\ signal' = IF rest = {} THEN ~signal ELSE signal
      /\ UNCHANGED <<providers, applicationId, contactInfo, session, glocation,
                     location, valid, networkError, current, forecastList,
                     attribution, disposed, cancelled, fetches, moved>>

NwsFinishNew(m) ==
  /\ Returns(m, "nws_finish_new")
  /\ Queue([op EXCEPT ![m] = NoOperation], GridRequest(m), op[m].place)
  /\ RequestDone(m, requestsPending \cup GridRequest(m), current, forecastList)
  /\ UNCHANGED <<providers, applicationId, contactInfo, session, glocation,
                 location, valid, networkError, attribution, disposed,
                 cancelled, fetches, moved>>

(* nws_finish_forecast: one info for every hour, in front of the list.     *)
NwsFinishForecast(m) ==
  /\ Returns(m, "nws_finish_forecast")
  /\ Finish(m)
  /\ valid' = (valid \/ op[m].state = "data")
  /\ RequestDone(m, requestsPending, current,
                 IF op[m].state = "data" THEN ForecastsFrom(m) ELSE forecastList)
  /\ UNCHANGED <<providers, applicationId, contactInfo, session, glocation,
                 location, networkError, attribution, disposed, cancelled,
                 fetches, moved>>

Callback(m) ==
  \/ FinishCancelled(m)
  \/ MetarFinish(m)
  \/ IwinFinish(m)
  \/ MetnoFinish(m)
  \/ OwmFinish(m)
  \/ NwsFinishNew(m)
  \/ NwsFinishForecast(m)

Call ==
  \/ SetApplicationId
  \/ SetContactInfo
  \/ Update
  \/ Abort
  \/ \E set \in ProviderSets : SetEnabledProviders(set)
  \/ \E l \in Somewhere : SetLocation(l) \/ SetLocationProperty(l)
  \/ SettingsChanged
  \/ Dispose

Next == Call \/ \E m \in Message : Arrive(m) \/ Callback(m)

Spec == Init /\ [][Next]_vars

(* The main loop does not stop dispatching while callbacks are ready: that *)
(* of an answer that arrived, or that of a cancelled request, which        *)
(* libsoup completes on its own.  Nothing is assumed of the application,   *)
(* nothing of the servers, and no order among the callbacks.               *)
FairSpec == Spec /\ WF_vars(\E m \in Message : Callback(m))

-----------------------------------------------------------------------------
(* Properties *)

InFlight == {m \in Message : op[m].state # "none"}

(* requests_pending holds exactly the requests whose callback has yet to   *)
(* run and was not told to keep away.  So a callback that touches the      *)
(* object finds its message in the list (_gweather_info_request_done takes *)
(* it for granted), and none is left to touch an object that was aborted   *)
(* or disposed (gweather_info_abort, gweather_info_dispose).               *)
InFlightIsPending == InFlight \ cancelled = requestsPending

(* The assertion of gweather_info_abort, which takes an object without     *)
(* session for one without requests, and its counterpart for an object     *)
(* that was disposed.                                                      *)
BusyHasSession == requestsPending # {} => session /\ ~disposed

(* While a forecast is on its way there is one such request, started by    *)
(* the latest update, and the object shows no forecast and no attribution: *)
(* the callbacks append to, reverse or replace the list and overwrite the  *)
(* attribution, and lose or duplicate nothing only because of this.        *)
ForecastSlotFree ==
  \A m \in requestsPending : m.handler \in ForecastHandler =>
    /\ m.fetch = fetches
    /\ \A n \in requestsPending : n.handler \in ForecastHandler => n = m
    /\ forecastList = NoForecast
    /\ attribution = "none"

(* A forecast of MET Norway is never there without the attribution its     *)
(* licence demands (gweather_info_get_attribution).                        *)
MetnoIsAttributed ==
  forecastList.src = "metno_finish_new" => attribution = "met.no"

(* The inductive invariant behind all of these.  In addition to what they  *)
(* say, only requests in flight are cancelled, all of them were started by *)
(* this update or an earlier one, and the grid request of the NWS is never *)
(* in flight together with the point request that leads to it.             *)
IInv ==
  /\ InFlightIsPending
  /\ BusyHasSession
  /\ ForecastSlotFree
  /\ MetnoIsAttributed
  /\ cancelled \subseteq InFlight
  /\ \A m \in InFlight : m.fetch <= fetches
  /\ \A m, n \in InFlight :
       m.fetch = n.fetch /\ m.handler = "nws_finish_new"
         => n.handler # "nws_finish_forecast"

(* Once gweather_info_dispose has run, no callback still on its way        *)
(* changes the object or emits its signal.                                 *)
DisposedIsFrozen == [][disposed => UNCHANGED <<object, signal>>]_vars

(* A METAR report shown as current conditions is one of the station that   *)
(* the object is at when the report comes in, even when the object was     *)
(* moved after it had asked (metar_finish looks it up by the code).        *)
MetarIsOfThisStation ==
  [][current' # current /\ current'.src = "metar_finish"
       => current'.of = location.station]_vars

(* A service that answers with forecasts leaves them on the forecast list. *)
ForecastBodies == {m \in InFlight \ cancelled :
                     /\ m.handler \in ForecastHandler \ {"nws_finish_new"}
                     /\ op[m].state = "data"}
ForecastIsKept ==
  [][\A m \in ForecastBodies :
       op'[m] = NoOperation => forecastList' # NoForecast]_vars

(* When an update is over, a forecast that the object holds is one that    *)
(* gweather_info_get_forecast_list returns: it returns NULL unless valid.  *)
HeldForecastIsVisible ==
  requestsPending = {} /\ forecastList # NoForecast => valid

(* If answers keep arriving while requests wait for one (libsoup is given  *)
(* no time limit, so this is up to the servers), then every update comes   *)
(* to its end: its last callback runs, or it is aborted.  No order of      *)
(* callbacks, aborts and updates leaves the object busy for ever, when it  *)
(* would ignore every later gweather_info_update.                          *)
ServersAnswer == WF_vars(\E m \in Message : Arrive(m))
EveryFetchEnds == ServersAnswer => []<>(requestsPending = {})

(* What gweather_info_set_location documents: it clears forecast and       *)
(* current conditions, and update must be called to obtain the new ones.   *)
ClearedUntilUpdate ==
  moved => current = NoCurrent /\ forecastList = NoForecast

(* The contract with the application.                                      *)
Contract == INSTANCE UpdateContract WITH
  Content   <- CurrentData \X ForecastData \X Attribution,
  NoContent <- <<NoCurrent, NoForecast, "none">>,
  phase     <- IF disposed THEN "disposed"
               ELSE IF requestsPending # {} THEN "fetching" ELSE "idle",
  content   <- <<current, forecastList, attribution>>,
  signal    <- signal
ContractSpec == Contract!ContractSpec

=============================================================================
