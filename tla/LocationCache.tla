----------------------------- MODULE LocationCache -----------------------------
(***************************************************************************)
(* The GWeatherLocation objects of gweather-location.c.  The database is   *)
(* read-only; objects are made on demand and shared through an array of    *)
(* weak pointers, db->locations, that finalize clears.  Two kinds of       *)
(* object are not shared: "nearest" copies, which stand for a weather      *)
(* station as the child of a city that borrows it, and detached locations, *)
(* which hold a reference to another location as their parent.             *)
(*                                                                         *)
(* One action is one call of the application or the callback of the        *)
(* reverse geocoder.  References that a call takes and drops while it      *)
(* walks the tree have no net effect and are left out.                     *)
(***************************************************************************)
EXTENDS Naturals, Sequences, FiniteSets

CONSTANTS
  Index,        \* the positions of the locations array of the database
  NoIndex,      \* INVALID_IDX
  World,        \* index 0
  Country,      \* the indexes of level COUNTRY
  City,         \* the indexes of level CITY
  Station,      \* the indexes of level WEATHER_STATION
  NamedTimezone, \* the indexes of level NAMED_TIMEZONE
  ParentOf,     \* db_location_get_parent
  ChildrenOf,   \* db_location_get_children, a sequence
  NearestOf,    \* db_location_get_nearest
  NameOf,       \* the name of each location
  CityNear,     \* the city whose coordinates are nearest, in the k-d tree
  Saved,        \* serialized locations that the application has stored
  Object,       \* the addresses an object can have (a bound)
  NoObject,     \* NULL
  NoNearest,    \* env_no_nearest
  MaxHolds,     \* bound: references of the application to one object
  MaxLookups    \* bound: reverse geocodings in flight for one object

IndexOrNone == Index \cup {NoIndex}
ObjectOrNull == Object \cup {NoObject}

(* A serialized location: its name; is it a city; the station its code     *)
(* names (NoIndex for an empty code, any other value for a station the     *)
(* database does not have); whose coordinates it has; and whose are those  *)
(* of its parent.  NoIndex stands for coordinates that are missing; or,    *)
(* of the parent and of what is not a city, for those of no place in the   *)
(* database.                                                               *)
IsVariant(v) ==
  /\ DOMAIN v = {"name", "isCity", "code", "coords", "parent"}
  /\ v.isCity \in BOOLEAN
  /\ v.coords \in IndexOrNone
  /\ v.parent \in IndexOrNone

ASSUME LocationCacheAssumption ==
  /\ NoIndex \notin Index
  /\ NoObject \notin Object
  /\ IsFiniteSet(Object)
  /\ World \in Index
  /\ Country \subseteq Index
  /\ City \subseteq Index
  /\ Station \subseteq Index
  /\ NamedTimezone \subseteq Index
  /\ ParentOf \in [Index -> IndexOrNone]
  /\ \A i \in Index : ChildrenOf[i] \in Seq(Index)
  /\ NearestOf \in [Index -> IndexOrNone]
  /\ CityNear \in [Index -> City]
  /\ \A v \in Saved : IsVariant(v)
  /\ NoNearest \in BOOLEAN
  /\ MaxHolds \in Nat
  /\ MaxLookups \in Nat

VARIABLES
  hasDatabase, \* does ensure_world find a database? (it looks once)
  mem,      \* the objects, their reference counts, and db->locations
  held,     \* who owns how many of the references
  stopped   \* has the process been aborted, and where?

vars == <<hasDatabase, mem, held, stopped>>

-----------------------------------------------------------------------------
(* Objects *)

Kind == {"freed", "shared", "nearest", "detached"}
Location == [kind : Kind, idx : IndexOrNone, parentIdx : IndexOrNone,
             parent : ObjectOrNull]

Freed == [kind |-> "freed", idx |-> NoIndex, parentIdx |-> NoIndex,
          parent |-> NoObject]

(* What a function that returns a new reference leaves.                    *)
Got(m, o) == [mem |-> m, loc |-> o]

Ref(m, o) == [m EXCEPT !.refs[o] = @ + 1]

NewFull(m, new) ==
  {Got([m EXCEPT !.object[o] = new, !.refs[o] = 1], o) :
     o \in {a \in Object : m.object[a].kind = "freed"}}

\* Fault: a copy has the parent of the station.
NewCopyOfStation(m, i, nearestOf) ==
  NewFull(m, [kind |-> "nearest", idx |-> i, parentIdx |-> ParentOf[i],
              parent |-> NoObject])

NewCopy(m, i, nearestOf) ==
  NewFull(m, [kind |-> "nearest", idx |-> i, parentIdx |-> nearestOf,
              parent |-> NoObject])

(* The new object owns the reference to its parent.                        *)
NewDetachedAt(m, parent) ==
  NewFull(m, [kind |-> "detached", idx |-> NoIndex, parentIdx |-> NoIndex,
              parent |-> parent])

\* Fault: a cached object is returned without a new reference.
LocationBorrowedForIdx(m, i) ==
  LET cached == m.locations[i]
      new == [kind |-> "shared", idx |-> i, parentIdx |-> ParentOf[i],
              parent |-> NoObject]
  IN IF cached # NoObject
     THEN {Got(m, cached)}
     ELSE {Got([got.mem EXCEPT !.locations[i] = got.loc], got.loc) :
             got \in NewFull(m, new)}

\* Fault: the cache is filled and never read.
LocationMadeForIdx(m, i) ==
  LET new == [kind |-> "shared", idx |-> i, parentIdx |-> ParentOf[i],
              parent |-> NoObject]
  IN {Got([got.mem EXCEPT !.locations[i] = got.loc], got.loc) : got \in NewFull(m, new)}

LocationRefForIdx(m, i) ==
  LET cached == m.locations[i]
      new == [kind |-> "shared", idx |-> i, parentIdx |-> ParentOf[i],
              parent |-> NoObject]
  IN IF cached # NoObject
     THEN {Got(Ref(m, cached), cached)}
     ELSE {Got([got.mem EXCEPT !.locations[i] = got.loc], got.loc) :
             got \in NewFull(m, new)}

\* Fault: the slot is cleared even if it points elsewhere.
FinalizeClearsSlot(m, o) ==
  LET i == m.object[o].idx
  IN [object |-> [m.object EXCEPT ![o] = Freed],
      refs |-> [m.refs EXCEPT ![o] = 0],
      locations |-> IF i # NoIndex
                    THEN [m.locations EXCEPT ![i] = NoObject]
                    ELSE m.locations]

Finalize(m, o) ==
  LET i == m.object[o].idx
  IN [object |-> [m.object EXCEPT ![o] = Freed],
      refs |-> [m.refs EXCEPT ![o] = 0],
      locations |-> IF i # NoIndex /\ m.locations[i] = o
                    THEN [m.locations EXCEPT ![i] = NoObject]
                    ELSE m.locations]

DropRef(m, o) ==
  IF m.refs[o] > 1 THEN [m EXCEPT !.refs[o] = @ - 1] ELSE Finalize(m, o)

\* Fault: dispose leaves the parent alone.
UnrefKeepsParent(m, o) == DropRef(m, o)

\* Fault: dispose frees the parent, whoever else holds it.
UnrefFreesParent(m, o) ==
  IF m.refs[o] > 1 \/ m.object[o].parent = NoObject
  THEN DropRef(m, o)
  ELSE Finalize(Finalize(m, o), m.object[o].parent)

(* The last reference disposes of the object, which drops its parent; a    *)
(* parent has no _parent of its own.                                       *)
Unref(m, o) ==
  IF m.refs[o] > 1 \/ m.object[o].parent = NoObject
  THEN DropRef(m, o)
  ELSE DropRef(Finalize(m, o), m.object[o].parent)

-----------------------------------------------------------------------------
(* References *)

(* Nobody owns the references that the code forgot to drop.                *)
Holder == {"application", "geocoder", "nobody"}

Gains(h, who, o) == IF o = NoObject THEN h ELSE [h EXCEPT ![who][o] = @ + 1]
Loses(h, who, o) == [h EXCEPT ![who][o] = @ - 1]

Running == stopped = "no"

Held(o) == Running /\ held["application"][o] > 0

CanHold(who, o) == o # NoObject => held[who][o] < MaxHolds

(* The call returns got.loc to the application, which may be NULL.         *)
Return(got, h) ==
  /\ CanHold("application", got.loc)
  /\ mem' = got.mem
  /\ held' = Gains(h, "application", got.loc)
  /\ UNCHANGED <<hasDatabase, stopped>>

Abort(where) ==
  /\ stopped' = where
  /\ UNCHANGED <<hasDatabase, mem, held>>

-----------------------------------------------------------------------------
(* The tree *)

Init ==
  /\ hasDatabase \in BOOLEAN
  /\ mem = [object |-> [o \in Object |-> Freed],
            refs |-> [o \in Object |-> 0],
            locations |-> [i \in Index |-> NoObject]]
  /\ held = [who \in Holder |-> [o \in Object |-> 0]]
  /\ stopped = "no"

(* location_ref_for_idx asserts that there is a database.                  *)
GetWorld ==
  /\ Running
  /\ IF hasDatabase
     THEN \E got \in LocationRefForIdx(mem, World) : Return(got, held)
     ELSE Abort("no database")

GetParent(o) ==
  LET self == mem.object[o]
  IN /\ Held(o)
     /\ \/ /\ self.parent # NoObject
           /\ Return(Got(Ref(mem, self.parent), self.parent), held)
        \/ /\ self.parent = NoObject
           /\ self.parentIdx # NoIndex
           /\ \E got \in LocationRefForIdx(mem, self.parentIdx) : Return(got, held)

HasNearest(i) == ~NoNearest /\ NearestOf[i] # NoIndex

(* gweather_location_next_child with no child.                             *)
FirstChild(o) ==
  LET i == mem.object[o].idx
  IN /\ Held(o)
     /\ i # NoIndex
     /\ \/ /\ HasNearest(i)
           /\ \E got \in NewCopy(mem, NearestOf[i], i) : Return(got, held)
        \/ /\ ~HasNearest(i)
           /\ ChildrenOf[i] # <<>>
           /\ \E got \in LocationRefForIdx(mem, ChildrenOf[i][1]) : Return(got, held)

After(i, j) == {ChildrenOf[i][k] : k \in {k \in 2..Len(ChildrenOf[i]) :
                                            ChildrenOf[i][k - 1] = j}}

(* The call keeps the reference to the child it is given.                  *)
NextChild(o, child) ==
  LET i == mem.object[o].idx
  IN /\ Held(o)
     /\ held["application"][child] > 0
     /\ i # NoIndex
     /\ ~HasNearest(i)
     /\ \E j \in After(i, mem.object[child].idx) :
          \E got \in LocationRefForIdx(mem, j) :
            Return(Got(Unref(got.mem, child), got.loc),
                   Loses(held, "application", child))

(* There is no further child, or the child is not one of this location.    *)
LastChild(o, child) ==
  LET i == mem.object[o].idx
  IN /\ Held(o)
     /\ held["application"][child] > 0
     /\ \/ i = NoIndex /\ NoNearest
        \/ i # NoIndex /\ HasNearest(i)
        \/ i # NoIndex /\ After(i, mem.object[child].idx) = {}
     /\ mem' = Unref(mem, child)
     /\ held' = Loses(held, "application", child)
     /\ UNCHANGED <<hasDatabase, stopped>>

(* loc->ref is read before loc->db is checked, and a detached location has *)
(* no database record.                                                     *)
ChildOfDetached(o) ==
  /\ Held(o)
  /\ mem.object[o].idx = NoIndex
  /\ ~NoNearest
  /\ Abort("no record")

(* By station code or country code.                                        *)
Find(o, i) ==
  /\ Held(o)
  /\ mem.object[o].idx # NoIndex
  /\ \E got \in LocationRefForIdx(mem, i) : Return(got, held)

Release(o) ==
  /\ Held(o)
  /\ mem' = Unref(mem, o)
  /\ held' = Loses(held, "application", o)
  /\ UNCHANGED <<hasDatabase, stopped>>

-----------------------------------------------------------------------------
(* Nearest cities *)

Ancestors[i \in Index] ==
  IF i = World THEN {} ELSE {ParentOf[i]} \cup Ancestors[ParentOf[i]]

CitiesIn(i) == {c \in City : i \in Ancestors[c]}

FindNearestCity(o) ==
  /\ Held(o)
  /\ \E c \in CitiesIn(mem.object[o].idx) :
       \E got \in LocationRefForIdx(mem, c) : Return(got, held)

DetectNearestCity(o) ==
  /\ Held(o)
  /\ mem.object[o].idx # NoIndex
  /\ mem.object[o].idx \notin City \cup Station
  /\ held["geocoder"][o] < MaxLookups
  /\ mem' = Ref(mem, o)
  /\ held' = Gains(held, "geocoder", o)
  /\ UNCHANGED <<hasDatabase, stopped>>

(* _got_place: the nearest city of the country that the geocoder names, if *)
(* the location has any, becomes the parent of the result.                 *)
GotPlace(o) ==
  /\ Running
  /\ held["geocoder"][o] > 0
  /\ \E c \in CitiesIn(mem.object[o].idx) :
       \E city \in LocationRefForIdx(mem, c) :
         \E got \in NewDetachedAt(city.mem, city.loc) :
           Return(Got(Unref(got.mem, o), got.loc), Loses(held, "geocoder", o))

GotNoCity(o) ==
  /\ Running
  /\ held["geocoder"][o] > 0
  /\ mem' = Unref(mem, o)
  /\ held' = Loses(held, "geocoder", o)
  /\ UNCHANGED <<hasDatabase, stopped>>

(* When the geocoder fails, the reference to the location is not dropped.  *)
GotError(o) ==
  /\ Running
  /\ held["geocoder"][o] > 0
  /\ CanHold("nobody", o)
  /\ held' = Gains(Loses(held, "geocoder", o), "nobody", o)
  /\ UNCHANGED <<hasDatabase, mem, stopped>>

-----------------------------------------------------------------------------
(* Detached and serialized locations *)

(* Stations and cities have coordinates; a city is stored as its first     *)
(* child, the station.                                                     *)
FormatTwoSerialize(i) ==
  LET first == IF HasNearest(i) THEN NearestOf[i]
               ELSE IF ChildrenOf[i] # <<>> THEN ChildrenOf[i][1] ELSE i
      real == IF i \in City THEN first ELSE i
  IN [name |-> NameOf[i],
      isCity |-> i \in City,
      code |-> IF real \in City THEN NoIndex ELSE real,
      coords |-> real,
      parent |-> IF real # i THEN i ELSE ParentOf[i]]

Stored == {FormatTwoSerialize(i) : i \in City \cup Station \cup NamedTimezone}
          \cup Saved

\* Fault: a city is looked up by the code of its station only.
CityByCodeOnly(m, v) == {Got(m, NoObject)}

(* The first guess for a city, by its coordinates.                         *)
CityFound(m, v) ==
  IF v.isCity /\ v.coords # NoIndex
  THEN LocationRefForIdx(m, CityNear[v.coords])
  ELSE {Got(m, NoObject)}

(* Is the station with this code the one that was stored?  Only cities and *)
(* stations have coordinates to compare with those of the parent.          *)
SameStation(v) ==
  /\ v.coords = v.code
  /\ \/ v.parent = NoIndex
     \/ ParentOf[v.code] \notin City \cup Station
     \/ v.parent = ParentOf[v.code]

FoundByCode(v) == IF v.isCity THEN ParentOf[v.code] ELSE v.code

ByStationCode(m, v) ==
  IF v.code = NoIndex
  THEN NewDetachedAt(m, NoObject)
  ELSE IF v.code \notin Index
  THEN {Got(m, NoObject)}
  ELSE IF v.code \in NamedTimezone
  THEN LocationRefForIdx(m, v.code)
  ELSE IF /\ SameStation(v)
          /\ FoundByCode(v) # NoIndex
          /\ v.name = NameOf[FoundByCode(v)]
  THEN LocationRefForIdx(m, FoundByCode(v))
  ELSE UNION {NewDetachedAt(got.mem, got.loc) : got \in LocationRefForIdx(m, v.code)}

(* A first guess of another name is given up, and not unreferenced.        *)
Deserialize(world, v) ==
  /\ Held(world)
  /\ mem.object[world].idx = World
  /\ \E city \in CityFound(mem, v) :
       \/ /\ city.loc # NoObject
          /\ v.name = NameOf[CityNear[v.coords]]
          /\ Return(city, held)
       \/ /\ city.loc # NoObject => v.name # NameOf[CityNear[v.coords]]
          /\ CanHold("nobody", city.loc)
          /\ \E got \in ByStationCode(city.mem, v) :
               Return(got, Gains(held, "nobody", city.loc))

(* The coordinates are given in degrees and match no station.              *)
Icao(code) == [name |-> NoIndex, isCity |-> FALSE, code |-> code,
               coords |-> NoIndex, parent |-> NoIndex]

NewDetached ==
  /\ Running
  /\ IF hasDatabase
     THEN \/ \E c \in CitiesIn(World) :
               \E city \in LocationRefForIdx(mem, c) :
                 \E got \in NewDetachedAt(city.mem, city.loc) : Return(got, held)
          \/ \E code \in Station \cup NamedTimezone \cup {NoIndex} :
               \E got \in ByStationCode(mem, Icao(code)) : Return(got, held)
     ELSE Abort("no database")

-----------------------------------------------------------------------------
Next ==
  \/ GetWorld
  \/ NewDetached
  \/ \E o \in Object :
       \/ GetParent(o)
       \/ FirstChild(o)
       \/ \E child \in Object : NextChild(o, child) \/ LastChild(o, child)
       \/ ChildOfDetached(o)
       \/ \E i \in Station \cup NamedTimezone \cup Country : Find(o, i)
       \/ Release(o)
       \/ FindNearestCity(o)
       \/ DetectNearestCity(o)
       \/ GotPlace(o)
       \/ GotNoCity(o)
       \/ GotError(o)
       \/ \E v \in Stored : Deserialize(o, v)

Spec == Init /\ [][Next]_vars

-----------------------------------------------------------------------------
(* Properties *)

Live(o) == mem.object[o].kind # "freed"
Children(m, o) == {d \in Object : m.object[d].parent = o}

(* Type invariant: the state has its shape.                                *)
TypeOK ==
  /\ hasDatabase \in BOOLEAN
  /\ mem \in [object : [Object -> Location], refs : [Object -> Nat],
              locations : [Index -> ObjectOrNull]]
  /\ held \in [Holder -> [Object -> Nat]]
  /\ stopped \in {"no", "no database", "no record"}

(* An address holds an object exactly while there is a reference to it.    *)
LiveIsReferenced == \A o \in Object : Live(o) <=> mem.refs[o] > 0

(* db->locations points to the shared objects and to nothing else: a weak  *)
(* pointer never outlives its object, and no copy or detached location is  *)
(* ever found through it (location_ref_for_idx, finalize).                 *)
CacheIsExact ==
  /\ \A i \in Index : LET o == mem.locations[i]
                      IN o # NoObject => /\ mem.object[o].kind = "shared"
                                         /\ mem.object[o].idx = i
  /\ \A o \in Object : mem.object[o].kind = "shared" =>
                         /\ mem.object[o].idx \in Index
                         /\ mem.locations[mem.object[o].idx] = o

(* Parents that are owned (_parent) are those of detached locations, and   *)
(* they are shared objects.                                                *)
ParentsAreShared ==
  \A o \in Object : LET p == mem.object[o].parent
                    IN p # NoObject => /\ mem.object[o].kind = "detached"
                                       /\ mem.object[p].kind = "shared"

(* The reference count of an object is the number of references that the   *)
(* application and the geocoder hold, that were forgotten, and that the    *)
(* detached locations below it hold: no call drops one reference too many. *)
ReferencesAreOwned ==
  \A o \in Object :
    mem.refs[o] = held["application"][o] + held["geocoder"][o] + held["nobody"][o]
                  + Cardinality(Children(mem, o))

(* The inductive invariant.                                                *)
IInv ==
  /\ TypeOK
  /\ LiveIsReferenced
  /\ CacheIsExact
  /\ ParentsAreShared
  /\ ReferencesAreOwned

(* gweather_location_get_world speaks of "the shared GWeatherLocation":    *)
(* while an object for a place of the database lives there is no second    *)
(* one, whatever copies and detached locations come and go.                *)
OneObjectPerPlace ==
  \A o, p \in Object :
    /\ mem.object[o].kind = "shared"
    /\ mem.object[p].kind = "shared"
    /\ mem.object[o].idx = mem.object[p].idx
    => o = p

(* From a nearest copy gweather_location_get_parent leads back to a city   *)
(* that has it as nearest child, not to the parent of the station, so that *)
(* a walk that goes up and then on (test_walk_world) visits every city.    *)
CopyLeadsBack ==
  \A o \in Object : mem.object[o].kind = "nearest" =>
                      /\ HasNearest(mem.object[o].parentIdx)
                      /\ NearestOf[mem.object[o].parentIdx] = mem.object[o].idx

(* An object that somebody holds across a call stays the object it was:    *)
(* nothing frees it or makes another location of it.                       *)
HeldStays ==
  [][\A o \in Object : \A who \in Holder :
       held[who][o] > 0 /\ held'[who][o] > 0 => mem'.object[o] = mem.object[o]]_vars

AllReturned(who) == \A o \in Object : held[who][o] = 0
CachesEmpty == \A i \in Index : mem.locations[i] = NoObject

(* When every reference has been given back, the cache is empty: the       *)
(* objects do not keep one another alive.                                  *)
WorldCanBeReset == (\A who \in Holder : AllReturned(who)) => CachesEmpty
=============================================================================
