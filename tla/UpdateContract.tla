---------------------------- MODULE UpdateContract ----------------------------
(***************************************************************************)
(* What a GWeatherInfo promises to the application that uses it, whatever  *)
(* services it asks: it is idle, fetching or disposed; it emits "updated"  *)
(* exactly once when a fetch comes to its end, never for a fetch that was  *)
(* aborted and never once it is disposed; and what it shows is filled only *)
(* while it fetches.  This is the behaviour that the documentation of      *)
(* gweather_info_update and of the "updated" signal (gweather-info.c) and  *)
(* the test weather-loop-use-after-free rely on.                           *)
(***************************************************************************)
CONSTANTS
  Content,     \* what the object may show: conditions, forecasts, attribution
  NoContent    \* what it shows after it was cleared

VARIABLES
  phase,       \* "idle", "fetching" or "disposed"
  content,     \* what is shown
  signal       \* flips at each emission of "updated"

contractVars == <<phase, content, signal>>

ContractInit ==
  /\ phase = "idle"
  /\ content = NoContent
  /\ signal \in BOOLEAN

(* A fetch begins by clearing what was shown.                              *)
Begin ==
  /\ phase = "idle"
  /\ phase' = "fetching"
  /\ content' = NoContent
  /\ UNCHANGED signal

(* One of several answers.                                                 *)
Receive ==
  /\ phase = "fetching"
  /\ content' \in Content
  /\ UNCHANGED <<phase, signal>>

(* The last answer, good or bad.                                           *)
Complete ==
  /\ phase = "fetching"
  /\ phase' = "idle"
  /\ content' \in Content
  /\ signal' = ~signal

(* The application gives the fetch up.                                     *)
Forget ==
  /\ phase = "fetching"
  /\ phase' = "idle"
  /\ UNCHANGED <<content, signal>>

(* The application moves the object, or an update finds nobody to ask.     *)
Clear ==
  /\ phase # "disposed"
  /\ content' = NoContent
  /\ UNCHANGED <<phase, signal>>

(* Another reason to display the object anew: the units changed.           *)
Redisplay ==
  /\ phase = "idle"
  /\ signal' = ~signal
  /\ UNCHANGED <<phase, content>>

Drop ==
  /\ phase # "disposed"
  /\ phase' = "disposed"
  /\ content' \in Content
  /\ UNCHANGED signal

ContractNext ==
  Begin \/ Receive \/ Complete \/ Forget \/ Clear \/ Redisplay \/ Drop

ContractSpec == ContractInit /\ [][ContractNext]_contractVars

=============================================================================
