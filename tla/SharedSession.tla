----------------------------- MODULE SharedSession -----------------------------
(***************************************************************************)
(* The SoupSession that all GWeatherInfo objects of a process share, and   *)
(* the HTTP cache it carries (gweather-info.c).  The first object that     *)
(* needs a session makes it, names itself in its User-Agent and loads the  *)
(* cache from the disk; the others take a reference through a static weak  *)
(* pointer.  When the last reference is dropped the cache is dumped.       *)
(*                                                                         *)
(* References belong to objects, and to the requests that libsoup has in   *)
(* flight: a session with cancelled requests outlives its last object,     *)
(* until the main loop has run their callbacks.                            *)
(***************************************************************************)
EXTENDS Integers, FiniteSets

CONSTANTS
  Info,        \* the GWeatherInfo objects
  Identity,    \* an application_id together with a contact_info
  NoIdentity,  \* one of them is missing
  Resource,    \* the URLs that are asked for
  Session,     \* the addresses a SoupSession can have (a bound)
  NoSession    \* NULL

ASSUME SharedSessionAssumption ==
  /\ NoIdentity \notin Identity
  /\ NoSession \notin Session
  /\ IsFiniteSet(Info)
  /\ IsFiniteSet(Resource)

VARIABLES
  infos,      \* the objects that live: their identity, and their session
  requests,   \* the requests in flight
  heap,       \* the sessions, static_session, and the cache on the disk
  received    \* history: what a cache took in since the process started

vars == <<infos, requests, heap, received>>

-----------------------------------------------------------------------------
(* Data *)

InfoState == [alive : BOOLEAN, identity : Identity \cup {NoIdentity},
              session : Session \cup {NoSession}]
NoInfo == [alive |-> FALSE, identity |-> NoIdentity, session |-> NoSession]

Request == [info : Info, resource : Resource, session : Session,
            arrived : BOOLEAN, cancelled : BOOLEAN]

SessionState == [refs : Nat, agent : Identity \cup {NoIdentity},
                 hasCache : BOOLEAN, cache : SUBSET Resource]
Freed == [refs |-> 0, agent |-> NoIdentity, hasCache |-> FALSE, cache |-> {}]

Heap == [session : [Session -> SessionState], static : Session \cup {NoSession},
         disk : SUBSET Resource]

Live(h, s) == h.session[s].refs > 0

(* Type invariant.                                                         *)
TypeOK ==
  /\ infos \in [Info -> InfoState]
  /\ requests \subseteq Request
  /\ heap \in Heap
  /\ received \subseteq Resource

-----------------------------------------------------------------------------
(* References to the session *)

\* Fault: a cache is not loaded when its session begins.
NewSessionUnloaded(h, s, identity) ==
  {[h EXCEPT !.session[s] = [refs |-> 1, agent |-> identity,
                             hasCache |-> hasCache, cache |-> {}],
             !.static = s] : hasCache \in BOOLEAN}

(* A new session gets a cache unless the directory cannot be made, and the *)
(* cache is loaded from the disk (get_cache, ref_session).                 *)
NewSession(h, s, identity) ==
  {[h EXCEPT !.session[s] = [refs |-> 1, agent |-> identity,
                             hasCache |-> hasCache,
                             cache |-> IF hasCache THEN h.disk ELSE {}],
             !.static = s] : hasCache \in BOOLEAN}

Ref(h, s) == [h EXCEPT !.session[s].refs = @ + 1]

\* Fault: the object keeps to a session of its own.
RefSessionOfItsOwn(h, identity) ==
  UNION {NewSession(h, s, identity) : s \in {a \in Session : ~Live(h, a)}}

(* ref_session; the reference is to the static session of the result.      *)
RefSession(h, identity) ==
  IF h.static # NoSession
  THEN {Ref(h, h.static)}
  ELSE UNION {NewSession(h, s, identity) : s \in {a \in Session : ~Live(h, a)}}

\* Fault: the session dies with its cache.
FinalizeForgets(h, s) ==
  [session |-> [h.session EXCEPT ![s] = Freed], static |-> NoSession, disk |-> h.disk]

(* The weak pointer is cleared, and the data of the session is destroyed:  *)
(* dump_and_unref_cache.                                                   *)
Finalize(h, s) ==
  [session |-> [h.session EXCEPT ![s] = Freed],
   static |-> NoSession,
   disk |-> IF h.session[s].hasCache THEN h.session[s].cache ELSE h.disk]

\* Fault: the session is freed with the first reference.
UnrefAlways(h, s) == IF s = NoSession THEN h ELSE Finalize(h, s)

Unref(h, s) ==
  IF s = NoSession THEN h
  ELSE IF h.session[s].refs > 1 THEN [h EXCEPT !.session[s].refs = @ - 1]
  ELSE Finalize(h, s)

-----------------------------------------------------------------------------
(* Calls of the application *)

Init ==
  /\ infos = [i \in Info |-> NoInfo]
  /\ requests = {}
  /\ heap \in [session : {[s \in Session |-> Freed]}, static : {NoSession},
               disk : SUBSET Resource]
  /\ received = {}

(* gweather_info_new: the contact information is missing.                  *)
New(i) ==
  /\ ~infos[i].alive
  /\ infos' = [infos EXCEPT ![i].alive = TRUE]
  /\ UNCHANGED <<requests, heap, received>>

Pending(i) == {q \in requests : q.info = i /\ ~q.cancelled}

(* requests_pending is empty, and the object is asked to update; it asks   *)
(* for any resources but those it has in flight since before an abort (a   *)
(* bound), or for none if no service accepts its place.                    *)
Update(i) ==
  /\ infos[i].alive
  /\ infos[i].identity # NoIdentity
  /\ Pending(i) = {}
  /\ \E asked \in SUBSET (Resource \ {q.resource : q \in {r \in requests : r.info = i}}) :
       \E h \in IF infos[i].session = NoSession
                THEN RefSession(heap, infos[i].identity) ELSE {heap} :
         LET s == h.static
         IN /\ infos' = [infos EXCEPT ![i].session = s]
            /\ requests' = requests \cup
                 {[info |-> i, resource |-> r, session |-> s,
                   arrived |-> FALSE, cancelled |-> FALSE] : r \in asked}
            /\ heap' = [h EXCEPT !.session[s].refs = @ + Cardinality(asked)]
  /\ UNCHANGED received

\* Fault: the new reference is taken before the old one is dropped.
RenewedSessionRefFirst(i, identity) ==
  {Unref(h, infos[i].session) : h \in RefSession(heap, identity)}

(* The reference is dropped before it is taken again.                      *)
RenewedSession(i, identity) == RefSession(Unref(heap, infos[i].session), identity)

(* gweather_info_set_application_id, gweather_info_set_contact_info.       *)
SetIdentity(i, identity) ==
  /\ infos[i].alive
  /\ IF infos[i].session = NoSession
     THEN /\ infos' = [infos EXCEPT ![i].identity = identity]
          /\ UNCHANGED heap
     ELSE \E h \in RenewedSession(i, identity) :
            /\ infos' = [infos EXCEPT ![i].identity = identity, ![i].session = h.static]
            /\ heap' = h
  /\ UNCHANGED <<requests, received>>

Cancelled(i) == {[q EXCEPT !.cancelled = TRUE] : q \in Pending(i)}

(* gweather_info_abort.                                                    *)
Abort(i) ==
  /\ infos[i].alive
  /\ requests' = (requests \ Pending(i)) \cup Cancelled(i)
  /\ UNCHANGED <<infos, heap, received>>

(* gweather_info_dispose: the last reference to the object is dropped.     *)
Dispose(i) ==
  /\ infos[i].alive
  /\ requests' = (requests \ Pending(i)) \cup Cancelled(i)
  /\ heap' = Unref(heap, infos[i].session)
  /\ infos' = [infos EXCEPT ![i] = NoInfo]
  /\ UNCHANGED received

(* The process is killed, or leaves without unreffing its objects, and is  *)
(* started again.                                                          *)
Crash ==
  /\ infos' = [i \in Info |-> NoInfo]
  /\ requests' = {}
  /\ heap' = [session |-> [s \in Session |-> Freed], static |-> NoSession,
              disk |-> heap.disk]
  /\ received' = {}

\* Fault: the cache is not saved but loaded.
StoreCacheLoads ==
  /\ heap.static # NoSession
  /\ heap.session[heap.static].hasCache
  /\ heap' = [heap EXCEPT !.session[heap.static].cache = heap.disk]
  /\ UNCHANGED <<infos, requests, received>>

(* gweather_info_store_cache.  A session without cache has none to dump,   *)
(* and soup_cache_dump is called with NULL: the process stops (Crash).     *)
StoreCache ==
  /\ heap.static # NoSession
  /\ heap.session[heap.static].hasCache
  /\ heap' = [heap EXCEPT !.disk = heap.session[heap.static].cache]
  /\ UNCHANGED <<infos, requests, received>>

-----------------------------------------------------------------------------
(* libsoup and the main loop *)

(* A response has come in, and went through the cache of the session.      *)
Arrive(q) ==
  /\ q \in requests
  /\ ~q.arrived /\ ~q.cancelled
  /\ requests' = (requests \ {q}) \cup {[q EXCEPT !.arrived = TRUE]}
  /\ IF heap.session[q.session].hasCache
     THEN /\ heap' = [heap EXCEPT !.session[q.session].cache = @ \cup {q.resource}]
          /\ received' = received \cup {q.resource}
     ELSE UNCHANGED <<heap, received>>
  /\ UNCHANGED infos

(* The callback of the request runs, and libsoup drops its reference.      *)
Callback(q) ==
  /\ q \in requests
  /\ q.arrived \/ q.cancelled
  /\ requests' = requests \ {q}
  /\ heap' = Unref(heap, q.session)
  /\ UNCHANGED <<infos, received>>

Next ==
  \/ \E i \in Info :
       \/ New(i) \/ Update(i) \/ Abort(i) \/ Dispose(i)
       \/ \E identity \in Identity : SetIdentity(i, identity)
  \/ StoreCache
  \/ Crash
  \/ \E q \in requests : Arrive(q) \/ Callback(q)

Spec == Init /\ [][Next]_vars

(* The main loop runs every callback that is ready.                        *)
FairSpec == Spec /\ WF_vars(\E q \in requests : Callback(q))

-----------------------------------------------------------------------------
(* Properties *)

Users(s) == {i \in Info : infos[i].session = s}
InFlight(s) == {q \in requests : q.session = s}

(* No session is referenced more or less often than objects and requests   *)
(* use it, static_session points to the one session there is, and is NULL  *)
(* only when there is none: no order of updates, aborts, disposals and     *)
(* late callbacks leaves a second session, or a pointer to a freed one.    *)
SessionIsShared ==
  /\ \A s \in Session :
       /\ heap.session[s].refs = Cardinality(Users(s)) + Cardinality(InFlight(s))
       /\ Live(heap, s) <=> heap.static = s
  /\ \A i \in Info : infos[i].session # NoSession => infos[i].alive

(* Whatever the cache of a session took in is on the disk, or in the cache *)
(* of the session that lives now: sessions that come and go, with or       *)
(* without a cache, lose nothing unless the process is killed.             *)
SessionCache ==
  IF heap.static = NoSession THEN {} ELSE heap.session[heap.static].cache
NothingForgotten == received \subseteq heap.disk \cup SessionCache

(* A cache that was loaded has all of the disk, so that dumping it loses   *)
(* nothing; only a session that lives has one.                             *)
CachesHaveTheDisk ==
  \A s \in Session :
    /\ heap.session[s].hasCache => /\ Live(heap, s)
                                  /\ heap.disk \subseteq heap.session[s].cache
    /\ ~heap.session[s].hasCache => heap.session[s].cache = {}

(* An object has one request in flight for a resource, so that requests    *)
(* can be counted.                                                         *)
RequestsAreDistinct ==
  \A q, r \in requests : q.info = r.info /\ q.resource = r.resource => q = r

(* The inductive invariant.                                                *)
IInv ==
  /\ TypeOK
  /\ IsFiniteSet(requests)
  /\ SessionIsShared
  /\ NothingForgotten
  /\ CachesHaveTheDisk
  /\ RequestsAreDistinct

(* An object that is the only user of the session, with nothing in flight, *)
(* gets its new identity into the User-Agent at once; with other users or  *)
(* late callbacks the session keeps the name of who made it.               *)
SoleUserIsNamed ==
  [][\A i \in Info :
       /\ infos'[i].alive /\ infos'[i].identity # infos[i].identity
       /\ infos[i].session # NoSession
       /\ heap.session[infos[i].session].refs = 1
       => heap'.session[infos'[i].session].agent = infos'[i].identity]_vars

(* What gweather_info_store_cache says: calling it "is not necessary, as   *)
(* the cache will be saved when the last reference to a GWeatherInfo will  *)
(* be dropped".  The requests that are cancelled then hold the session, so *)
(* this takes the main loop to go on running.                              *)
DroppedThenSaved ==
  (\A i \in Info : ~infos[i].alive)
    ~> (received \subseteq heap.disk \/ \E i \in Info : infos[i].alive)
=============================================================================
