------------------------ MODULE LocationIdentityProofs ------------------------
(***************************************************************************)
(* Proofs about LocationIdentity, for every database and any number of     *)
(* objects: both results come from the invariant of LocationCache.         *)
(***************************************************************************)
EXTENDS LocationIdentity, LocationCacheProofs

(* gweather_location_equal holds of two shared cities or stations just     *)
(* when they are the same place, although its comparison of countries is   *)
(* the wrong way round: it is only reached with two objects of one place,  *)
(* and there are never two.                                                *)
THEOREM EqualIsIdentity == Spec => []EqualIsSamePlace
<1>1. ASSUME OneObjectPerPlace PROVE EqualIsSamePlace
  <2> SUFFICES ASSUME NEW one \in Object, NEW two \in Object, Legal(one), Legal(two)
               PROVE  LocationEqual(mem, one, two)
                        <=> mem.object[one].idx = mem.object[two].idx
    BY DEF EqualIsSamePlace
  <2>1. mem.object[one].idx = mem.object[two].idx => one = two
    BY <1>1 DEF OneObjectPerPlace, Legal
  <2>2. ~Detached(mem, one) /\ ~Detached(mem, two)
    BY DEF Legal, Detached
  <2>3. LocationEqual(mem, one, two) => mem.object[one].idx = mem.object[two].idx
    BY <2>2 DEF LocationEqual
  <2>4. one = two => LocationEqual(mem, one, two)
    BY DEF LocationEqual
  <2> QED BY <2>1, <2>3, <2>4
<1> QED BY <1>1, Sharing, PTL

-----------------------------------------------------------------------------
(* Stored places *)

(* location_ref_for_idx returns what db->locations points to.              *)
LEMMA RefIsCached ==
  ASSUME NEW h, Good(mem, h), NEW i \in Index, NEW got \in LocationRefForIdx(mem, i)
  PROVE  got.loc \in Object /\ got.mem.locations[i] = got.loc
<1>1. "application" \in Holder
  BY DEF Holder
<1>2. /\ Good(got.mem, Gains(h, "application", got.loc))
      /\ got.loc \in Object
      /\ got.mem.object[got.loc].kind = "shared"
      /\ got.mem.object[got.loc].idx = i
  BY <1>1, RefForIdxGood
<1> QED BY <1>2 DEF Good, Sound

(* A call that returns an object returns no other.                         *)
LEMMA ReturnedIsGot ==
  ASSUME held \in Ownership, NEW got, got.loc \in Object, Return(got, held),
         NEW o \in Returned
  PROVE  o = got.loc /\ mem' = got.mem
<1>1. held' = [held EXCEPT !["application"][got.loc] = @ + 1] /\ mem' = got.mem
  BY LocationCacheAssumption DEF Return, Gains
<1>2. o \in Object /\ held'["application"][o] = held["application"][o] + 1
  BY DEF Returned
<1>3. held["application"] \in [Object -> Nat] /\ "application" \in Holder
  BY DEF Ownership, Holder
<1>4. o # got.loc => held'["application"][o] = held["application"][o]
  BY <1>1, <1>2, <1>3 DEF Ownership
<1>5. held["application"][o] \in Nat
  BY <1>2, <1>3
<1> QED BY <1>1, <1>2, <1>4, <1>5

(* What is stored of a place.                                              *)
LEMMA StoredPlace ==
  ASSUME NEW i \in Storable
  PROVE  LET v == FormatTwoSerialize(i)
         IN /\ i \in Index
            /\ v.name = NameOf[i] /\ (v.isCity <=> i \in City)
            /\ v.coords \in Index
            /\ i \notin City => v.code = i /\ v.coords = i /\ v.parent = ParentOf[i]
<1> DEFINE v == FormatTwoSerialize(i)
           first == IF HasNearest(i) THEN NearestOf[i]
                    ELSE IF ChildrenOf[i] # <<>> THEN ChildrenOf[i][1] ELSE i
           real == IF i \in City THEN first ELSE i
<1>1. i \in Index
  BY LocationCacheAssumption DEF Storable
<1>2. first \in Index
  <2>1. HasNearest(i) => NearestOf[i] \in Index
    BY <1>1, LocationCacheAssumption DEF HasNearest, IndexOrNone
  <2>2. ChildrenOf[i] # <<>> => ChildrenOf[i][1] \in Index
    BY <1>1, LocationCacheAssumption
  <2> QED BY <1>1, <2>1, <2>2
<1>3. real \in Index /\ (i \notin City => real = i)
  BY <1>1, <1>2
<1>4. /\ v.name = NameOf[i] /\ v.isCity = (i \in City)
      /\ v.coords = real
      /\ v.code = IF real \in City THEN NoIndex ELSE real
      /\ v.parent = IF real # i THEN i ELSE ParentOf[i]
  BY DEF FormatTwoSerialize
<1> QED BY <1>1, <1>3, <1>4

(* A place that was stored comes back as the shared object of that place,  *)
(* whatever else is in the database and in the cache: the first guess by   *)
(* the coordinates is right for a city that is the nearest to its own      *)
(* station, and is not made for anything else.                             *)
THEOREM ComingBack == Spec => PlaceComesBack
<1> DEFINE Back == \A o \in Returned : \A i \in Recovered :
                     (i \in City => CityNear[FormatTwoSerialize(i).coords] = i)
                       => mem'.locations[i] = o
<1>1. GInv => Back
  <2> SUFFICES ASSUME GInv, NEW o \in Returned, NEW i \in Recovered,
                      i \in City => CityNear[FormatTwoSerialize(i).coords] = i
               PROVE  mem'.locations[i] = o
    OBVIOUS
  <2>1. Good(mem, held) /\ held \in Ownership
    BY DEF GInv, Good
  <2>2. PICK world \in Object : i \in Storable /\ Deserialize(world, FormatTwoSerialize(i))
    BY DEF Recovered
  <2>3. PICK v : v = FormatTwoSerialize(i)
    OBVIOUS
  <2>4. /\ i \in Index
        /\ v.name = NameOf[i] /\ (v.isCity <=> i \in City)
        /\ v.coords \in Index
        /\ i \notin City => v.code = i /\ v.coords = i /\ v.parent = ParentOf[i]
    BY <2>2, <2>3, StoredPlace
  <2>5. i # NoIndex /\ v.coords # NoIndex
    BY <2>4, LocationCacheAssumption
  <2>6. PICK city \in CityFound(mem, v) :
          \/ /\ city.loc # NoObject
             /\ v.name = NameOf[CityNear[v.coords]]
             /\ Return(city, held)
          \/ /\ city.loc # NoObject => v.name # NameOf[CityNear[v.coords]]
             /\ \E got \in ByStationCode(city.mem, v) :
                  Return(got, Gains(held, "nobody", city.loc))
    BY <2>2, <2>3 DEF Deserialize
  <2>7. CASE i \in City
    <3>1. CityNear[v.coords] = i
      BY <2>3, <2>7
    <3>2. city \in LocationRefForIdx(mem, i)
      BY <2>4, <2>5, <2>6, <2>7, <3>1 DEF CityFound
    <3>3. city.loc \in Object /\ city.mem.locations[i] = city.loc
      BY <2>1, <2>4, <3>2, RefIsCached
    <3>4. Return(city, held)
      BY <2>4, <2>6, <3>1, <3>3, LocationCacheAssumption
    <3> QED BY <2>1, <3>3, <3>4, ReturnedIsGot
  <2>8. CASE i \notin City
    <3>1. city = Got(mem, NoObject)
      BY <2>4, <2>6, <2>8 DEF CityFound
    <3>2. city.mem = mem /\ city.loc = NoObject
      BY <3>1 DEF Got
    <3>3. PICK got \in ByStationCode(mem, v) : Return(got, held)
      BY <2>6, <3>2 DEF Gains
    <3>4. got \in LocationRefForIdx(mem, i)
      <4>1. v.code = i /\ v.coords = i /\ v.parent = ParentOf[i] /\ ~v.isCity
        BY <2>4, <2>8
      <4>2. FoundByCode(v) = i /\ SameStation(v)
        BY <4>1 DEF FoundByCode, SameStation
      <4> QED BY <2>4, <2>5, <3>3, <4>1, <4>2 DEF ByStationCode
    <3>5. got.loc \in Object /\ got.mem.locations[i] = got.loc
      BY <2>1, <2>4, <3>4, RefIsCached
    <3> QED BY <2>1, <3>3, <3>5, ReturnedIsGot
  <2> QED BY <2>7, <2>8
<1> QED BY <1>1, Inductive, PTL DEF PlaceComesBack
=============================================================================
