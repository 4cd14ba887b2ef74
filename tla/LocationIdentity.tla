--------------------------- MODULE LocationIdentity ---------------------------
(***************************************************************************)
(* When two GWeatherLocations are the same place (gweather_location_equal) *)
(* and what is left of a place that was stored and recovered               *)
(* (gweather_location_serialize, gweather_location_deserialize).           *)
(***************************************************************************)
EXTENDS LocationCache

Detached(m, o) == m.object[o].kind = "detached"

(* loc->level.  What is none of the others is an ADM1.                     *)
Level(m, o) ==
  LET i == m.object[o].idx
  IN CASE Detached(m, o)     -> "detached"
       [] i = World          -> "world"
       [] i \in Country      -> "country"
       [] i \in City         -> "city"
       [] i \in Station      -> "station"
       [] i \in NamedTimezone -> "timezone"
       [] OTHER              -> "adm1"

(* gweather_location_get_code: a detached location has the code that its   *)
(* parent had, and cities have none.                                       *)
CodeOfIndex(i) == IF i \in Station \cup NamedTimezone THEN i ELSE NoIndex
CodeOf(m, o) ==
  IF ~Detached(m, o) THEN CodeOfIndex(m.object[o].idx)
  ELSE IF m.object[o].parent = NoObject THEN NoIndex
  ELSE CodeOfIndex(m.object[m.object[o].parent].idx)

(* What gweather_location_get_parent returns.                              *)
ParentRef(m, o) ==
  LET self == m.object[o]
  IN IF self.parent # NoObject THEN {Got(Ref(m, self.parent), self.parent)}
     ELSE IF self.parentIdx = NoIndex THEN {Got(m, NoObject)}
     ELSE LocationRefForIdx(m, self.parentIdx)

(* gweather_location_equal of the parents, NULL being equal to nothing.    *)
ParentsEqual(m, one, two, Equal(_, _, _)) ==
  \A p1 \in ParentRef(m, one) : \A p2 \in ParentRef(p1.mem, two) :
    /\ p1.loc # NoObject
    /\ p2.loc # NoObject
    /\ Equal(p2.mem, p1.loc, p2.loc)

(* The recursion goes up one level at a time.  Countries are compared with *)
(* g_strcmp0, whose result is true when their codes differ.                *)
EqualCountries(m, one, two) ==
  \/ one = two
  \/ /\ Level(m, one) = "country" /\ Level(m, two) = "country"
     /\ m.object[one].idx # m.object[two].idx

EqualAreas(m, one, two) ==
  \/ EqualCountries(m, one, two)
  \/ /\ Level(m, one) = "adm1" /\ Level(m, two) = "adm1"
     /\ NameOf[m.object[one].idx] = NameOf[m.object[two].idx]
     /\ ParentsEqual(m, one, two, EqualCountries)

(* The parent of a nearest copy is a city.                                 *)
EqualCities(m, one, two) ==
  \/ EqualAreas(m, one, two)
  \/ /\ Level(m, one) = "city" /\ Level(m, two) = "city"
     /\ m.object[one].idx = m.object[two].idx
     /\ ParentsEqual(m, one, two, EqualAreas)

(* Cities, stations and detached locations, for which alone the function   *)
(* may be called.  The coordinates of a detached location may be any.      *)
LocationEqual(m, one, two) ==
  \/ one = two
  \/ /\ CodeOf(m, one) = CodeOf(m, two)
     /\ \/ Detached(m, one) \/ Detached(m, two)
        \/ /\ Level(m, one) = Level(m, two)
           /\ ParentsEqual(m, one, two, EqualCities)
           /\ m.object[one].idx = m.object[two].idx

-----------------------------------------------------------------------------
(* Properties *)

Legal(o) == mem.object[o].kind = "shared" /\ mem.object[o].idx \in City \cup Station

(* gweather_location_equal holds between two shared objects exactly if     *)
(* they are of one place.  Countries compare as equal when they are not,   *)
(* so this hangs on the weak cache: the parents of one place are the same  *)
(* object, however the two were reached and whatever was freed meanwhile.  *)
EqualIsSamePlace ==
  \A one, two \in Object : Legal(one) /\ Legal(two) =>
    (LocationEqual(mem, one, two) <=> mem.object[one].idx = mem.object[two].idx)

Returned == {o \in Object : held'["application"][o] = held["application"][o] + 1}

Storable == City \cup Station \cup NamedTimezone

(* What a step that returned an object recovered, if it recovered any.     *)
Recovered == {i \in Storable : \E world \in Object :
                                     Deserialize(world, FormatTwoSerialize(i))}

(* A place that was stored comes back as the shared object of that place.  *)
(* Cities are stored with the coordinates of their station, and guessed    *)
(* back from these, so it must be the nearest city to its own station.     *)
PlaceComesBack ==
  [][\A o \in Returned : \A i \in Recovered :
       (i \in City => CityNear[FormatTwoSerialize(i).coords] = i)
         => mem'.locations[i] = o]_vars
=============================================================================
