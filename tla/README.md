# TLA+ models of libgweather

libgweather gives desktop applications the weather of a place: a database of
places, and `GWeatherInfo`, an object that asks online services for current
conditions and forecasts. This directory holds TLA+ modules of the parts whose
behaviour depends on order, interleaving or caching, the configurations that
model-check them with TLC, and proofs checked by TLAPS. Paths below are relative to
the root of the repository.

## The system

| component | code | state | operations | what makes it correct |
|---|---|---|---|---|
| update life cycle | `libgweather/gweather-info.c` | providers, application id, session, place, pending requests, valid, conditions, forecasts, attribution | update, abort, set_location, set_enabled_providers, setters, settings changes, dispose | "updated" once per update; no callback touches an object that gave up or is gone; old and new data do not mix |
| METAR | `weather-metar.c` | none of its own | start_open, finish, parse | the report is of this station; the most important condition is shown; the date is right at the turn of a month |
| NWS | `weather-nws.c` | none of its own | start_open, two chained callbacks, merging of intervals | every hour gets the value of the interval that contains it |
| IWIN | `weather-iwin.c` | none of its own | start_open, finish, parse | the list has valid days only |
| MET Norway | `weather-metno.c` | none of its own | start_open, finish, parse | never shown without attribution |
| OpenWeatherMap | `weather-owm.c` | none of its own | start_open, finish, parse | forecasts reach the object |
| shared session | `gweather-info.c` | the `SoupSession` of all objects, its HTTP cache | ref_session, store_cache, setters | one session at a time, the cache is loaded before use and saved at the end |
| values and units | `gweather-info.c` | settings | getters, conversions | invalid values are reported as invalid |
| locations | `gweather-location.c`, `gweather-private.c` | weak pointers by index, reference counts, nearest copies | get_world, get_parent, next_child, find, new_detached, detect_nearest_city, finalize | one live object per place; walks come back where they went; nothing leaks, nothing dangles |
| serialization, equality | `gweather-location.c` | none | serialize, deserialize, equal | a round trip gives an equal place |
| sun and moon | `weather-sun.c`, `weather-moon.c` | cached rise, set, phase | ensure_sun, ensure_moon, is_daytime, next_sun_event | day and night are those of this place; a cached value is of this place and this day |
| database reader, k-d tree | `gweather-db.h`, `third-party/kdtree.c` | none | generated accessors, third-party search | not modelled |

The components interact by calls on one thread and by callbacks. An application
calls `gweather_info_update`; this resets the object and hands up to two
messages to libsoup (`_gweather_info_begin_request`,
`_gweather_info_queue_request`); the main loop later dispatches the callback of
each message with the object as plain user data, not a reference. The callback parses
the body into the object and calls `_gweather_info_request_done`; the last one
completes the conditions from the forecast and emits "updated". Aborting cancels
the `GCancellable` of each message and forgets the list. The hard behaviour is
what happens between those steps: answers in any order, answers that arrived
when the request is cancelled, another place or other providers meanwhile, and
a dispose with callbacks still to come.

Which module has which part:

| module | models | instances | proofs |
|---|---|---|---|
| `InfoUpdate`, `UpdateContract` | requests and callbacks of one object; what the application may rely on | `MCInfoUpdate` | `InfoUpdateProofs` |
| `SharedSession` | the session, its cache and their references, over several objects | `MCSharedSession` | `SharedSessionProofs` |
| `InfoData`, `InfoValues` | what one object shows, over moves, updates and the course of the day | `MCInfoData` | `InfoDataProofs` |
| `Reports` with `MetarReport`, `NwsWeather`, `IwinForecast`, `XmlForecast` | the readers of the five services | `MCReports` | `ReportsProofs` |
| `NwsIntervals` | the spreading of NWS values over hours | `MCNwsIntervals` | `NwsIntervalsProofs` |
| `LocationCache`, `LocationIdentity` | the objects of the location tree; equality and the round trip | `MCLocationCache` | `LocationCacheProofs`, `LocationIdentityProofs` |

`PROJECT.json` lists every component with its status, every hazard at its line
with the properties that watch it, every run, and the source lines behind
every definition.

## InfoUpdate: the life cycle of one GWeatherInfo

`InfoUpdate.tla` has one object. Its variables are the fields of `struct
_GWeatherInfo` that control the life cycle, the requests as libsoup sees them
(`op`, `cancelled`), what the application observes (`signal`) and two pieces of history
(`fetches`, `moved`). One action is one call of the application, one callback
dispatched by the main loop, or one answer arriving (`Arrive`):

| action | code |
|---|---|
| `SetApplicationId`, `SetContactInfo`, `SetEnabledProviders` | the setters; the last aborts |
| `Update` | `gweather_info_update` past its checks, with every `*_start_open` it calls; a call that a check turns away changes nothing and has no action |
| `Abort`, `Dispose` | `gweather_info_abort`, `gweather_info_dispose` |
| `SetLocation`, `SetLocationProperty` | `gweather_info_set_location`, which resets, and the property setter, which does not |
| `SettingsChanged` | `settings_changed_cb` |
| `MetarFinish`, `IwinFinish`, `MetnoFinish`, `OwmFinish`, `NwsFinishNew`, `NwsFinishForecast` | the callbacks, each with the call of `_gweather_info_request_done` that ends it (`RequestDone`) |
| `FinishCancelled` | the early return that all callbacks have for `G_IO_ERROR_CANCELLED` |

A message is named by the update that sent it and its callback. `op` says for
each whether it is in flight, what its answer amounts to once it has arrived,
and what place its query names. What a body amounts to is a small set: nothing,
a bad status, a page of another server, a document without data, one with
data; for METAR also 204 and a report without time, for IWIN a list that
starts with a day that was dropped. The conditions and the forecast list are
reduced to where they come from (`src`), what place they are about (`of`), and
the one bit that later code reads (`dated`: `update` is not 0; `first`: the list
starts with an info and not with NULL). `WeatherLocation` is the station
and the coordinates, which differ when the default location of the settings overrides
them. `fixup_current_conditions` compares with the clock; the comparison is a free
choice.

External behaviour, taken from how the code uses it: an asynchronous
operation calls back exactly once; `soup_session_send_and_read_finish`
reports `G_IO_ERROR_CANCELLED` when the cancellable was cancelled before the
callback asks for the result, even if the answer had arrived (`GTask` checks
the cancellable). A cancelled request may therefore wait on the main loop for
any time, and its callback must leave the object alone, because the object may be gone. If
libsoup completed it from inside `g_cancellable_cancel` nothing would differ:
the callback returns at once either way.

A call made from inside an "updated" handler is the same as the call made right after
the callback: no callback touches the object after
`_gweather_info_request_done`.

`UpdateContract.tla` is what an application may rely on whatever the services: idle,
fetching, disposed; one "updated" per completed fetch, none for an
aborted one, none once disposed; content changes only while fetching, by
clearing, or when dropped. `InfoUpdate` implements it under the mapping at the end of
the module.

`MCInfoUpdate.tla` gives names to instances. `InfoUpdateProofs.tla` holds
the proofs.

### Properties

`TypeOK` is the type invariant. The others:

- `InFlightIsPending`: the pending list is exactly the requests in flight that
  were not cancelled. Everything that is safe about callbacks follows from it.
- `BusyHasSession`: the assertion in `gweather_info_abort`, and its counterpart for
  disposed objects.
- `ForecastSlotFree`: one forecast request at a time, and it finds the list and the
  attribution empty. The callbacks append, prepend and reverse, or overwrite; with
  anything on the list they would reorder or leak it.
- `MetnoIsAttributed`: no MET Norway forecast without its attribution.
- `IInv`: the conjunction of these with three facts about cancelled requests
  and the NWS chain; it is inductive.
- `DisposedIsFrozen`: no callback changes or signals a disposed object.
- `MetarIsOfThisStation`: a METAR that becomes visible is one of the station the object is at
  now, even after a move.
- `ForecastIsKept`, `HeldForecastIsVisible`: received forecasts stay, and
  `gweather_info_get_forecast_list` returns them.
- `EveryFetchEnds`: liveness, see below.
- `ClearedUntilUpdate`: what the documentation says and the code does not do.

### Runs

| run | instance | shows |
|---|---|---|
| `fetch_moves` | two places and NULL, default coordinates, METAR + IWIN and then OpenWeatherMap, two updates | the request bookkeeping, the forecast list when providers are switched, and the two properties about late callbacks |
| `contract` | one place with the default location, METAR + IWIN, then METAR + MET Norway or NWS + MET Norway; fairness | `IInv`, the refinement of `UpdateContract`, forecasts that are kept, visible and attributed, and every fetch ends |
| `owm_forecast` | OpenWeatherMap alone | violation: its forecasts are appended to the wrong list |
| `stale_answer` | two places | violation: an answer for the old place after `set_location` |

Three more disagreements need no run, because they hold in one step or of one provider. The coordinates of the
default-location setting are put into the forecast queries (`SetLocationInternal`), where the schema says "this is
only used for sunrise and moon phase calculations, not for weather forecast". An update of a place without
coordinates is accepted, begins no request and is never reported by "updated" (`Update`, the `*StartOpen`). And with
IWIN as the only provider its forecast is held and never returned, because `valid` is never set (`IwinFinish`):
`HeldForecastIsVisible` is therefore checked with the other providers.

The bound that matters is `MaxFetches`, the number of accepted updates. Two are enough for
a callback of the first to run during the second, after an abort or a change of providers, which is
the longest-range interaction the code has: the list is empty whenever an update is
accepted, so requests of a third meet only cancelled ones of the second
and first alike. Everything else is small because it has no bound in the code. Two places give a
move; the default location gives the third kind. Deadlock checking is off: when the
updates are used up and the object is disposed, the system stops.

### Fairness

`FairSpec` assumes one thing: while the callback of some request can run, some callback runs.
That is the GLib main loop; libsoup completes cancelled operations on its
own. No fairness is given to the application. That the servers answer is an assumption of
the property, not of the system (`ServersAnswer => ...`), because the session is given
no timeout: with a silent server the object stays busy until it is aborted.

### Proofs

`InfoUpdateProofs.tla` proves, for any set of places, default location,
provider sets and number of updates (assumption `InfoUpdateAssumption`):

| theorem | statement |
|---|---|
| `TypeCorrect` | `Spec => []TypeOK` |
| `Invariance` | `Spec => []IInv` |
| `RequestsPending`, `AbortAssertion`, `ForecastSlot`, `MetnoAttribution` | the four parts of `IInv` |
| `NoCallbackAfterDispose` | `Spec => DisposedIsFrozen` |
| `MetarOfThisStation` | `Spec => MetarIsOfThisStation` |
| `ImplementsContract` | `Spec => ContractSpec` |
| `OnlyIwinIsHidden` | `Spec => []OthersAreVisible`: a forecast that is held and not shown is one of IWIN |
| `HeldIsVisible` | where no location has a US zone (`Zoned = {}`), `Spec => []HeldForecastIsVisible` |
| `ForecastStays` | if no provider set has OpenWeatherMap, `Spec => ForecastIsKept` |
| `UpdatesWindDown` | `Spec => WorkGoesDown`: every answer and every callback leaves strictly less to do, and only an update, which finds nothing pending, leaves more |
| `NothingIsStuck` | `Spec => []PendingMovesOn`: a pending message waits for an answer, or its callback is ready |

Argument: `InFlightIsPending` alone is not inductive. A new update must not name a
message that is still in flight, so every message in flight belongs to an
update that was accepted (`m.fetch <= fetches`); a callback takes its message off
both sides, so cancelled ones must be in flight; and when the NWS point request names
the grid request, the latter must not be in flight already (the last conjunct). With `IInv`,
a callback that was not cancelled finds its message on the list
(`ReturnsToTheLiving`), so the object has a session and is not
disposed; the frozen object and the refinement follow action by action.

`HeldIsVisible` and `ForecastStays` have a hypothesis because the code needs one: OpenWeatherMap loses its forecasts (`owm_forecast`)
and IWIN does not set `valid`. Under it, `NewRequests` (a new request is one that an
update starts, or the second one to the NWS) shows that these services are never asked (`OwmIsNotAsked`, `IwinIsNotAsked`),
and `OthersAreVisible` is inductive for all providers: who fills the list sets `valid`, and who takes `valid` back
empties the list. The hypotheses are those of the run `contract`.

Only model-checked: `EveryFetchEnds` (liveness). What it rests on apart from fairness is proved. `Work` is the set of the answers and
callbacks that the messages in flight still have to come, a point request of the NWS counting for its grid request
as well. It is finite (`WorkIsFinite`), every answer and every callback makes it strictly smaller (`ArriveIsWork`, `FinishIsWork`,
`NwsFinishNewIsWork`; here too the last conjunct of `IInv` is needed), and while a message is pending nothing makes it larger and something
can make it smaller. An update can thus only fail to end if a server is silent or the main loop stops.

## SharedSession: one session for all objects

All objects of a process use one `SoupSession`. `static_session` is a weak pointer to it; each object with a session owns a
reference, and so does libsoup for every request in flight. The session carries the User-Agent of the object that
made it, and the HTTP cache, which is loaded from the disk with it and dumped when it dies. In
`SharedSession.tla`, `infos` has the objects, `requests` the requests in flight, `heap` the sessions, the
weak pointer and the disk, and `received` what a cache took in since the process started.

| definition | code |
|---|---|
| `NewSession`, `RefSession` | `ref_session` with `get_cache`, which may fail and leave the session without cache |
| `Unref`, `Finalize` | `g_object_unref`; the weak pointer is cleared and `dump_and_unref_cache` runs |
| `New`, `Update`, `Abort`, `Dispose` | the calls of these names, as far as they concern the session |
| `SetIdentity` | `gweather_info_set_application_id` and `gweather_info_set_contact_info`, which drop the session and take it again |
| `StoreCache` | `gweather_info_store_cache` |
| `Arrive`, `Callback` | libsoup: a response goes through the cache; the callback runs and the request drops its reference |
| `Crash` | the process ends without finalizers, and starts again with the disk |

- `SessionIsShared`: the references of a session are exactly its users and its requests in flight; there is one session at
  a time and the weak pointer is to it.
- `NothingForgotten`: what a cache took in is on the disk or in the cache of the session that lives, over sessions with
  and without cache. A cache that did not load the disk first would overwrite it with less.
- `SoleUserIsNamed`: an object that is alone with its session and has nothing in flight gets its new name into the
  User-Agent at once. With other users, or with the callback of an aborted request still to come, the session keeps
  the name of who made it, which the documentation does not mention.
- `DroppedThenSaved`: what the documentation of `store_cache` says, "the cache will be saved when the last reference to
  a GWeatherInfo will be dropped". The requests that disposal cancels hold the session, so this is a liveness property: it needs
  the main loop to run once more (`FairSpec`: while a callback can run, some callback runs).
- `IInv`: the first two, `CachesHaveTheDisk` (a cache that was loaded has all of the disk, and only a session that lives has one) and
  `RequestsAreDistinct` (requests can be told apart and so be counted).

The run `shared_session` has two objects, two addresses for sessions, two identities and two resources. Two objects are
enough for one to keep a session that another leaves, the second address lets a second session be made while the first
lives if the code did that, and one resource can be in the cache while the other is on its way. Bounded is
that an object asks for a resource only once at a time (`Update`).

`SharedSessionProofs.tla` proves `IInv`, `SessionIsShared`, `NothingForgotten` and `SoleUserIsNamed` for any finite sets of
objects and resources and any set of addresses. The argument separates references from users. `RefSessionIsGood` and `UnrefIsGood` say of
`RefSession` and `Unref`, for arbitrary counts of users, that they move the count of one session by one and lose
nothing that was cached; `OneUserMore`, `OneUserLess`, `RequestsBegin`, `RequestsMove` and `RequestEnds` say how the
actions move the counts. Each action then moves as many users as references. `CachesHaveTheDisk` is needed because the dump
replaces the file: without it the last session could overwrite what an earlier one saved.

Three more theorems are about the end of the objects. `NoLateUse` (`Spec => []CallbacksHaveTheirObject`): a request that was not cancelled belongs to an
object that lives, so no callback goes on to use an object that was freed. `SavedInTheEnd` (`Spec => []DroppedIsSaved`): once the last object
is dropped and no request is in flight, the session is gone and all it took in is on the disk. `WindsDown` (`Spec => DroppedWindsDown`): on the
way there every request is cancelled, none is added or answered, and each callback takes one away. Together they are `DroppedThenSaved` without the
fairness, which stays with TLC.

## InfoData: what an object shows

`InfoValues.tla` has the getters of `gweather-info.c` as functions of an object: the computed values (humidity, dew point,
apparent temperature), the units, the value getters, the texts and the icon. A value is a name for the branch that it
takes: `Unset` is what the code marks with -1000, -1 or `GWEATHER_SKY_INVALID`, a temperature is cold, mild or hot, and the
logarithm of nothing is "nan". `InfoData.tla` is the object that they are asked of, over time:

| definition | code |
|---|---|
| `Reset`, `CopyWeatherData`, `FixupCurrentConditions` | the functions of these names; `Reset` leaves `valid`, `hasHumidity` and the two flags of the poles as they are |
| `SetLocation`, `SetProperty` | `gweather_info_set_location`, and the property, which moves the object and resets nothing |
| `Update` | an update with METAR, with a forecast service, with both or neither; only a place with coordinates is asked for |
| `MetarArrives`, `MetarFails`, `ForecastsArrive`, `ForecastsFail` | the callbacks of the two requests; the last of them (`RequestDone`) runs the fixup |
| `MetarParse` | `metar_parse`, which sets `update` only if the report has a time word |
| `Abort` | `gweather_info_abort`: nothing is pending any more, and what was read stays, without fixup |
| `CalcSun`, `EnsureSun`, `IsDaytime`, `NextSunEvent` | `weather-sun.c` and `gweather_info_is_daytime` |
| `EnsureMoon` | `_gweather_info_ensure_moon` |
| `AskForSun`, `AskForMoon` | the getters, which compute and keep |

The sun rises at a quarter of the local day and sets at three quarters; `Sun` says at which places it does, at which it never sets, and
which have no coordinates; `Zone` is the shift that `calc_sun` takes from the longitude.

- `TextsSayTheValues`: every value has two functions with their own tests, one for the text and one for the number, and
  they agree on whether there is a value and in which unit, for the object and for its forecast.
- `ClearedIsSilent`: after a move or before the first answer nothing old is shown, although `valid` may still be set.
- `ConditionsAreCurrent`: a report with a time is shown whole and never replaced by any of a forecast, in whichever order the
  two arrive and whatever fails or is aborted. Without one, an undated report or nothing is shown under no time, or, once
  every request is done, the whole first forecast under its own time, which is at most an hour ahead. A mixture never is.
- `DaytimeIsRight`: it is day, and the icon is one of the day, just when the sun is up at the place of the object, in all zones, with the
  midnight sun, after moves from and to the poles. It is stated for kept times that are of the day the object refers to, and
  for objects that were not moved by the property: that it keeps the sun and the weather of the old place is modelled and not judged, as
  nothing says what it should do.
- `NextSunEventIsNext`: `gweather_info_next_sun_event` gives the next midnight, sunrise or sunset, while the kept times are of today.
- `ClearedHasNoDew`: what the documentation of `set_location` says, and the code does not do.

| run | instance | shows |
|---|---|---|
| `info_data` | a place in the user's zone, one almost half a day away, one with midnight sun, one without coordinates; a report with a time and one without, three forecasts; a day of 8 steps | `TypeOK`, `TextsSayTheValues`, `ClearedIsSilent`, `ConditionsAreCurrent`, `DaytimeIsRight`, `NextSunEventIsNext` |
| `dew` | the same | violation: after a move `gweather_info_get_value_dew` returns a number that is not one |

Two more disagreements have no run; the model does what the code does, and the properties say where. A report without a time word is read and
then replaced by the first forecast, because `fixup_current_conditions` takes `update == 0` for the absence of a report (its message says "Fixed
up missing current weather with first forecast data"): `ConditionsAreCurrent` allows it for undated reports only. And the
documentation of `gweather_info_next_sun_event` names "local midnight, when rise and set times are recomputed", while they are kept until the next reset:
an object that is not updated past midnight announces the midnight after, and not the sunrise before it. `NextSunEventIsNext` excludes
kept times of another day, and would not notice a fix.

Bounds: the clock runs from shortly after one midnight to the next one (`MaxTime`), so that a day of each place ends while values are
kept; `Day` has two steps for each part of the day. Reports and forecasts differ in what they leave unset, as the services do, and
forecasts in their time: within the hour, later, and past. The history in `update` (the report read since the last reset, whether any
answer had data, whether the property moved the object) is only there for the properties. A second update waits until the
first has no request left, as in the code; how its callbacks meet cancelled ones is in `InfoUpdate`.
The text of the dew point is left out of `TextsSayTheValues`: it tests the computed value and formats the field, which MET Norway
and OpenWeatherMap never set (`TextDew`).

`InfoDataProofs.tla` proves all six properties of `info_data`, for every set of places with any zones of at most a day, every set of reports and
forecasts, every length of a day above three steps and every clock (`TimeAssumption`, `PlaceAssumption`, and `WeatherAssumption`: reports and forecasts have
their fields, a report was issued at most a day ago, and so was the forecast):

| theorem | statement |
|---|---|
| `TextsAreValues` | `Spec => []TextsSayTheValues`; this one holds of any object |
| `DataIsSound` | `Spec => []DataInv`, the inductive invariant |
| `TypeIsCorrect`, `ResetIsSilent`, `CurrentConditions` | `Spec => []TypeOK`, `[]ClearedIsSilent`, `[]ConditionsAreCurrent` |
| `DayIsDay` | `Spec => []DaytimeIsRight` |
| `EventIsNext` | `Spec => []NextSunEventIsNext` |

`DataInv` says that what is kept of the sun is of a place where it rises, and of the place of the object unless the
property moved it (`SunInv`); that the conditions are current, in the form that every request leaves behind (`RequestDoneStep`: while one is pending
the object shows the report or nothing; a report is read once, because an update has one METAR request at most); that an object without answer has no weather in any field (`ClearInv`), which is needed because
`valid` alone does not silence it; and that its times are not before 0, because `sunAt` and `update` are compared with what stands for none. One lemma per
action shows that it is kept. The flags of the poles survive a reset: they may be wrong until the sun is computed again, and
`EnsuredSun` shows that whoever asks does compute it. The rest is arithmetic of days: the division by
the length of a day is unique (`DayIsUnique`), so `LocalMidnight` is the midnight of the day of the place
(`MidnightOfPlace`), the sun is up between the two times that are kept (`SunOfDay`), and what is ahead of the clock is
the midnight and those of the two times that are still to come (`EventsOfDay`, `MidnightIsAhead`).

## LocationCache: the objects of the location tree

`LocationCache.tla` has the `GWeatherLocation` objects of `gweather-location.c`. The
places themselves are constants: an array of indexes with a level, a parent, a
sequence of children and, for cities that borrow a station, the index of the
nearest one. Objects are made on demand:

- a *shared* object stands for a place and is found through a weak pointer in
  `db->locations`, which `gweather_location_finalize` clears;
- a *nearest* copy stands for a station as the child of a city that borrows
  it; it has the index of the station and the city as its parent, and no weak pointer;
- a *detached* location is not in the database, and may own a reference to its parent.

`mem` holds the objects by address, their reference counts and the weak
pointers; `held` says who owns how many references to each: the application, a
reverse geocoding in flight, or nobody, when the code forgot one; `stopped` says whether the process
aborted, and `hasDatabase` what `ensure_world` found the one time it looked. An object has
the fields that control its life (`kind`, `idx`, `parentIdx`, `parent`); strings, coordinates and timezones
are values of the database.

| definition | code |
|---|---|
| `LocationRefForIdx`, `NewCopy` | `location_ref_for_idx` without and with `nearest_of` |
| `NewDetachedAt` | `gweather_location_new_full` with a parent, whose reference passes to the new object |
| `Unref`, `Finalize` | `g_object_unref` with dispose and finalize |
| `GetWorld`, `GetParent`, `Find` | the functions of these names; `Find` is by station and by country code |
| `FirstChild`, `NextChild`, `LastChild`, `ChildOfDetached` | `gweather_location_next_child`: without child, with one that has a successor, with one that has none or is no child, and on a location without record |
| `FindNearestCity` | `gweather_location_find_nearest_city` and `_full`; which city is a free choice among those below |
| `DetectNearestCity`, `GotPlace`, `GotNoCity`, `GotError` | `gweather_location_detect_nearest_city` and the three ends of `_got_place` |
| `NewDetached` | `gweather_location_new_detached` with and without ICAO code |
| `Deserialize` | `gweather_location_deserialize`, of what `serialize` stores of this database (`FormatTwoSerialize`) or of what was stored before (`Saved`) |
| `Release` | the application drops a reference |

Functions that take references map a memory to a set of `Got(mem, loc)`, one for each free
address; they compose the way the C functions call each other. References that a call takes and drops
before it returns (`ITER_UP`, the recursion of `foreach_city`, the second
reference to the station in the loop of deserialize) leave nothing behind and are
left out; a shared object that is made for them is made again when it is needed, at whatever address
is free. A call that returns NULL and changes nothing has no action.

The properties:

- `IInv`: the type invariant `TypeOK`; an address is in use exactly while it is
  referenced; weak pointers lead to shared objects and back; owned parents belong to
  detached locations and are shared objects; and every reference count is the number of references that somebody owns.
- `OneObjectPerPlace`: "the shared `GWeatherLocation`" is one.
- `CopyLeadsBack`: the parent of a nearest copy is a city that borrows it. The walk over the
  world that the tests do relies on it.
- `HeldStays`: what is held across a call is not freed or reused by it.
- `WorldCanBeReset`: once all is given back the cache is empty; what
  `_gweather_location_reset_world` asserts is then true.

`LocationIdentity.tla` adds what makes two objects the same place. `LocationEqual` is
`gweather_location_equal`, with its recursion unrolled level by level (a city or a station, its parent,
and so on up to the country); the parents are those that `gweather_location_get_parent` would return, made anew if they are not in
the cache. Coordinates stand for the place they are at.

- `EqualIsSamePlace`: for shared cities and stations, equality is being the same place. The code compares countries
  with `g_strcmp0`, so two objects of one country would compare as different: what saves it is that there is never a
  second object, and this is what the property watches.
- `PlaceComesBack`: what was stored comes back as the shared object of that place. A city is stored with the coordinates of
  its station, so this holds of the city that is nearest to its own station; of the others the first guess is another
  city, and they come back by code, as the station.

The run `cache_places` has a country, two cities that share its station and a timezone, four objects and two
references each, and shows all of these.

Five more disagreements need no run: without a database `get_world` aborts in `location_ref_for_idx` where
its documentation promises NULL (`GetWorld`); `gweather_location_next_child` reads the record of a detached
location before it checks that there is one (`ChildOfDetached`); a detached location made from coordinates
has a city for a parent where the header says the nearest weather station (`NewDetached`, `GotPlace`); and two
references are never given back, that of a reverse geocoding which fails (`GotError`) and that of the first guess in
`gweather_location_common_deserialize` (`ByStationCode`), which the assertion of `_gweather_location_reset_world` calls leaks.

Bounds: `Object` (four addresses), `MaxHolds` (two references of one owner to one object) and
`MaxLookups` (one geocoding per object). Four objects let a shared station, two copies of it and
a detached location live together, or a detached location, its parent and the objects of a walk; more
objects only repeat these. Two references per holder distinguish the last release from an
earlier one. Addresses are interchangeable, so the run uses symmetry; all properties are invariants or
action properties, for which it is sound. Deadlock checking is off: an
aborted process stops.

`LocationCacheProofs.tla` proves, for every database, any finite set of
addresses and all bounds (`LocationCacheAssumption`):

| theorem | statement |
|---|---|
| `Invariance` | `Spec => []IInv` |
| `Sharing` | `Spec => []OneObjectPerPlace` |
| `LeadingBack` | `Spec => []CopyLeadsBack` |
| `Resetting` | `Spec => []WorldCanBeReset` |
| `Holding` | `Spec => HeldStays` |

Argument: `Good(m, h)` is the invariant of an arbitrary memory and distribution of
references. It is proved of every function that takes or drops a reference, with that reference
credited to a holder: `RefForIdxGood` says that `location_ref_for_idx` leads
from `Good(m, h)` to `Good` of the new memory and of `h` with one more reference to the result, `UnrefGood` that
giving one up leads back. A detached location takes its parent's reference over from its maker
(`NewUnshared`), and gives it back to whoever drops the last reference to it (`FinalizeGood`), who drops it in
turn. An action is a chain of these, so its proof only names them (`StepGood`).
The counting needs the finiteness of `Object` (cardinalities of the sets of children), and
nothing needs the bounds.

`LocationIdentityProofs.tla` adds `EqualIsIdentity` (`Spec => []EqualIsSamePlace`) and `ComingBack` (`Spec => PlaceComesBack`),
both for every database. The first comes from `Sharing`: two objects of one place are one object, so the
recursion that compares their parents, and the countries the wrong way round, never decides anything between them, and objects of two places differ
in their index. For the second, `StoredPlace` says what is stored of each kind of place, and `RefIsCached` that
`location_ref_for_idx` returns what the weak pointer leads to.

## NwsIntervals: from intervals to hours

The grid document of the NWS has a range of times and, for each weather variable, a list of values with an
interval each. `nws_finish_forecast_common` makes one forecast for every hour of the range (`AddHour`), and
`read_interval_values` walks through the forecasts and a list side by side. The eight variables are read
one after the other into fields of their own, so `NwsIntervals.tla` has one of them.

| definition | code |
|---|---|
| `doc` | the document; a value is a `Datum`: two times, and whether it can be read |
| `forecast` | the forecasts of the list: their `current_time`, and the datum that their value is from |
| `next`, `i`, `prev` | `slist`, `i` and `prev` of the loop; 0 stands for `NULL` |
| `StartReading` | what precedes the loop, with its early returns |
| `NextDatum` | one turn of the inner loop, or the return from it |
| `ReadValue`, `NoValueToRead`, `CopyValue`, `SkipHour` | the branches of the body of the outer loop |
| `Finish` | the end of the list of forecasts |

The two times of a datum are what `times_from_iso8601_interval` returns. It returns zeros for what it
cannot read and does not order them, so the model takes any two numbers. A reader that takes nothing from
a value (a direction out of range) leaves what the new forecast had.

- `ValueIsOfItsHour`: a forecast shows a value only of an interval that its hour lies in, the end not included.
  This holds for any list: overlapping, unordered, or with members that cannot be read.
- `NoHourIsLost`: if each interval begins where the one before ends or later, then in the end every hour has the value
  of its interval, up to the first member that cannot be read. Without the order this is false, and the code
  does not promise it: it never goes back.
- `IInv`: the loop invariant.

The run `nws_intervals` takes all lists of up to two data of every kind with times in `0..4`, in any order, and
all lists of three intervals that follow one another in `0..5`, for ranges of no, one, two and three hours.
The unit is half an hour, so intervals also begin and end between hours. Two data are enough to
go from one to the next with every pair of kinds and every relation of their times; the third is for skipping one without an
hour in it. Deadlock checking is off: the reading ends.

`NwsIntervalsProofs.tla` proves `Spec => []IInv` (`Invariance`), `Spec => []ValueIsOfItsHour` (`OwnValue`) and
`Spec => []NoHourIsLost` (`Complete`) for every set of documents and every length of an hour
(`NwsIntervalsAssumption`). Argument: the hours increase (`HoursIncrease`), so a datum that is over for the
hour at `next` is over for all that are left (`DataAreOver`), and the later ones, which are ordered,
have not begun before `i` is over (`NotForLater`). `prev` is only ever kept while `i` stays, so
what is copied is what would have been read (`ReadOrCopied`, `PrevIsCurrent`).

## Reports: the readers

What the services send is read by functions that go through a document once and carry what they found from element to
element. Each reader has a module of operators: `MetarReport` (`make_time`, the token handlers, `condition_more_important`),
`NwsWeather` (`read_weather`, `read_sky`, `read_winddir`), `IwinForecast` (`parseForecastXml`), `XmlForecast` (the pairing of time elements of MET Norway, the
symbols of MET Norway and OpenWeatherMap). `Reports.tla` is the reading: `document`, `at` for the next element, and `result`. A step is one
element, and the last step of a reader (`StoreNwsWeather`, `EndIwin`) is what the code does after its loop. The readers share no state, so a behaviour is
the reading of one document. A document is a sequence of the words, members or XML elements that the code tells apart;
what is copied without a decision (temperatures, pressures) has one representative or none.

- `FirstMostImportantIsShown`: a METAR shows the first of the most important conditions before the remarks.
- `YesterdayIsDatedRight`: a report of the local day or the day before has its own time, over every end of a month.
- `WindIsNearest`: the bounds of METAR and the division of the NWS both take the nearest of sixteen directions.
- `FirstLikelyWeatherIsShown`: of the members of an NWS array the first that is likely and says something is shown, and nothing is stored from
  an array that is broken before it.
- `ColumnsAreDays`, `SummaryMakesDay`: the columns of an IWIN document end up at their days, whatever rows are there and in whatever order,
  and a day is valid by its last row as the code says: a summary makes it valid, a temperature only with both bounds.
- `ForecastsArePoints`: the list of MET Norway as a function of the points: the n-th forecast is that of the n-th point that has one, none is
  missing, twice there or out of order. It has the time of the point, and the weather and the temperature of the element after it, or the
  point's own where that has none. Of points in a row every second one is taken for a period and has no forecast.
- `ShownByNamedImportance`, `ReportTimeIsUtc`: what comments say and the code does not do.

| run | instance | shows |
|---|---|---|
| `reports` | see below | the seven properties that hold |
| `importance` | the same | violation: `importance_scale` begins with "invalid", and the phenomena begin with "none" at 0: light drizzle counts less than mist |
| `report_time` | the same | violation: at the turn of a month, a recent report is dated to the day or month before in zones that are not those of Greenwich |

Documents: METAR reports of up to three weather words of seven kinds, of up to two other words, with every direction, and with every hour of two
months of three days in three zones and reports of up to 30 hours (a month of three days has a first, a last and a middle day, and no formula depends
on the length); all NWS arrays of two members out of 21; IWIN documents of two days with three heads and up to
three rows of ten kinds; MET Norway documents of up to four time elements of nine kinds (points of two hours with and
without a symbol, periods with five symbols), which has every sequence of points and periods around two pairs; OpenWeatherMap documents of two. Deadlock checking is off: the
reading ends.

`ReportsProofs.tla` proves all seven properties of `reports`, for documents of any length and content
(`DocumentsAssumption`: elements are a list, the time in a report is the one at which it was issued, and the rows of an IWIN document stand
under its parameters), any clock and zone, and months of any length above one day (`MonthLengthAssumption`):

| theorem | statement |
|---|---|
| `ImportantIsShown`, `YesterdayIsDated`, `WindIsRead` | `Spec => []FirstMostImportantIsShown`, `[]YesterdayIsDatedRight`, `[]WindIsNearest` |
| `LikelyIsShown` | `Spec => []FirstLikelyWeatherIsShown` |
| `ForecastsAreOfPoints` | `Spec => []ForecastsArePoints` |
| `ColumnsAreOfDays`, `SummaryIsDay` | `Spec => []ColumnsAreDays`, `[]SummaryMakesDay` |

Each reader has an invariant over the elements read so far, which says of them what the property says of the whole document:
`MetarInv` (the condition is the first of the most important among the words read; the time and the wind are those of the last such word),
`NwsInv` (while nothing is found no member read says anything; what was found is the last one read), `MetnoInv` (the list has the forecast of each point
read as one, at its rank among them, and the element to be read next is read as a point if it is one) and `IwinInv` (the days are those of the first layout read, and each has what the rows read make of
it). The properties are these invariants at the end of the document. Two steps are not about the order of reading: a report of the day
before has its own time because the days of a month are counted from one (`DayBefore`, `MakeTimeIsRight`), and the nearest of
sixteen directions is decided case by case (`WindLemma`). Which points have a forecast is decided by the run of points that one stands in:
there is one start of a run (`RunIsUnique`), and having one alternates along it (`NextPoints`); `RankLemma` says what one more does to the ranks.

Four more facts met on the way, which hold in one or two steps and have no run: of two points of MET Norway in a row the second gives its temperature
to the forecast of the first and has none of its own, where the comment says that no more than the symbol is picked from the next element
(`ReadMetnoPoint`, and `HasForecast` says which points these are); `read_symbol` of `weather-owm.c` looks for the number of the document
less one (`OwmSymbol`), so 500 is unknown and 802 shows the entry of 801; fog whose coverage is NULL is given to `strcmp` (`NwsReadWeather`); and `+FC`
is read as a heavy funnel cloud, because the plus is taken for a sign (`Qualifier`).

## What is only model-checked

Every invariant and action property of the passing runs is a theorem. Two liveness properties are not, because fairness and ENABLED are out of
the prover's reach: `EveryFetchEnds` of `InfoUpdate` and `DroppedThenSaved` of `SharedSession`. Of both the part that is safety is proved (a finite
measure that goes down, and no state in which it cannot); the step from there to the temporal formula is TLC's. The five properties that
the code violates are refuted on their instances. `Ancestors` of `LocationCache` is a recursive function; the proofs hold for whatever cities it selects,
and what it computes is not proved.

## What is not modelled

- Floating point: the astronomy of `weather-sun.c` and `weather-moon.c`, distances, unit conversion, the formulas of dew point, humidity and
  apparent temperature. Their branches are modelled, their numbers are not.
- Text: regular expressions, number formats, translated descriptions, names of places. A document is what it amounts to.
- `gweather-db.h` is the generated reader of a GVariant-like format, and `third-party/kdtree.c` is vendored; in `LocationCache` the
  database is constants and the nearest city a function.
- The first serialization format, which is only read; timezones, which are values of the database.
- Message reference counts, and threads: the library takes no locks and the models have one thread.

## Plan

Done: all modules of the table above, and the proofs of all safety properties of the runs. Left, in this order:

1. The walks up from a location (`gweather_location_get_timezone`, `gweather_location_get_city_name`, `gweather_location_get_country`) as functions
   over the tree of `LocationCache`.
