--------------------------- MODULE MCLocationCache ---------------------------
(* Instances of LocationCache for TLC: a world with one country, cities    *)
(* that borrow the station of the country, and a named timezone.           *)
EXTENDS LocationIdentity, TLC

CONSTANTS world, country, paris, orly, station, utc, o1, o2, o3, o4

AnyOrder == Permutations(Object)

Places == {world, country, paris, orly, station, utc}

Parents == [i \in Index |-> CASE i = world -> NoIndex
                              [] i \in {country, utc} -> world
                              [] OTHER -> country]
AllChildren == [i \in Index |-> CASE i = world -> <<country, utc>>
                                  [] i = country -> <<paris, orly, station>>
                                  [] OTHER -> <<>>]
Nearest == [i \in Index |-> IF i \in City THEN station ELSE NoIndex]
Names == [i \in Index |-> i]

(* The station is at the city of the first name.                           *)
NearParis == [i \in Index |-> IF i \in City THEN i ELSE paris]

(* A detached location at the station, another whose station has gone, and *)
(* one without station.                                                    *)
StoredHome(code) == [name |-> "home", isCity |-> FALSE, code |-> code,
                   coords |-> station, parent |-> station]
SavedBefore == {StoredHome(station), StoredHome("gone"), StoredHome(NoIndex)}
=============================================================================
