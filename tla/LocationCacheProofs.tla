-------------------------- MODULE LocationCacheProofs --------------------------
(***************************************************************************)
(* Proofs about LocationCache, for every database and any number of        *)
(* objects.  The invariant is proved of each function that takes or drops  *)
(* references, with the reference in question credited to a holder; the    *)
(* actions are compositions of these functions.                            *)
(***************************************************************************)
EXTENDS LocationCache, FiniteSetTheorems, TLAPS

Memory == [object : [Object -> Location], refs : [Object -> Nat],
           locations : [Index -> ObjectOrNull]]
Ownership == [Holder -> [Object -> Nat]]

Total(h, o) == h["application"][o] + h["geocoder"][o] + h["nobody"][o]

(* A nearest copy has as parent a city whose nearest child it is.          *)
LeadsBack(self) ==
  self.kind = "nearest" => /\ self.parentIdx \in Index
                           /\ HasNearest(self.parentIdx)
                           /\ NearestOf[self.parentIdx] = self.idx

(* The parts of IInv, and CopyLeadsBack, of any memory and any             *)
(* distribution of references.                                             *)
Sound(m) ==
  /\ m \in Memory
  /\ \A o \in Object : m.object[o].kind # "freed" <=> m.refs[o] > 0
  /\ \A i \in Index : m.locations[i] # NoObject =>
                        /\ m.object[m.locations[i]].kind = "shared"
                        /\ m.object[m.locations[i]].idx = i
  /\ \A o \in Object : m.object[o].kind = "shared" =>
                         /\ m.object[o].idx \in Index
                         /\ m.locations[m.object[o].idx] = o
  /\ \A o \in Object : m.object[o].parent # NoObject =>
                         /\ m.object[o].kind = "detached"
                         /\ m.object[m.object[o].parent].kind = "shared"
  /\ \A o \in Object : LeadsBack(m.object[o])

Owned(m, h) ==
  \A o \in Object : m.refs[o] = Total(h, o) + Cardinality(Children(m, o))

Good(m, h) == Sound(m) /\ h \in Ownership /\ Owned(m, h)

(* What a call may do to the objects that were there.                      *)
Grows(m, n) ==
  \A o \in Object : m.object[o].kind # "freed" => n.object[o] = m.object[o]
Shrinks(m, n) ==
  \A o \in Object : n.object[o].kind # "freed" => n.object[o] = m.object[o]

-----------------------------------------------------------------------------
(* Counting references *)

LEMMA SameOwnership ==
  ASSUME NEW g \in Ownership, NEW h \in Ownership,
         \A who \in Holder : \A o \in Object : g[who][o] = h[who][o]
  PROVE  g = h
<1>1. ASSUME NEW who \in Holder PROVE g[who] = h[who]
  <2>1. g[who] \in [Object -> Nat] /\ h[who] \in [Object -> Nat]
    BY DEF Ownership
  <2> QED
    BY <2>1
<1> QED
  BY <1>1 DEF Ownership

LEMMA GainsOne ==
  ASSUME NEW h \in Ownership, NEW who \in Holder, NEW o \in Object
  PROVE  /\ Gains(h, who, o) \in Ownership
         /\ Gains(h, who, o)[who][o] > 0
         /\ \A p \in Object : Total(Gains(h, who, o), p)
                              = Total(h, p) + (IF p = o THEN 1 ELSE 0)
         /\ Loses(Gains(h, who, o), who, o) = h
<1> DEFINE g == [h EXCEPT ![who][o] = @ + 1]
<1>1. Gains(h, who, o) = g
  BY LocationCacheAssumption DEF Gains
<1>2. g \in Ownership
  BY DEF Ownership
<1>3. g[who][o] > 0
  BY DEF Ownership
<1>4. ASSUME NEW p \in Object
      PROVE  Total(g, p) = Total(h, p) + (IF p = o THEN 1 ELSE 0)
  BY DEF Ownership, Total, Holder
<1>5. [g EXCEPT ![who][o] = @ - 1] = h
  <2> DEFINE back == [g EXCEPT ![who][o] = @ - 1]
  <2>1. back \in Ownership
    BY DEF Ownership
  <2>2. ASSUME NEW w \in Holder, NEW p \in Object PROVE back[w][p] = h[w][p]
    BY DEF Ownership
  <2> HIDE DEF g, back
  <2>3. back = h
    BY <2>1, <2>2, SameOwnership
  <2> QED
    BY <2>3 DEF back
<1> QED
  BY <1>1, <1>2, <1>3, <1>4, <1>5 DEF Loses

LEMMA LosesOne ==
  ASSUME NEW h \in Ownership, NEW who \in Holder, NEW o \in Object, h[who][o] > 0
  PROVE  /\ Loses(h, who, o) \in Ownership
         /\ \A p \in Object : Total(Loses(h, who, o), p)
                              = Total(h, p) - (IF p = o THEN 1 ELSE 0)
         /\ Total(h, o) > 0
<1> DEFINE g == [h EXCEPT ![who][o] = @ - 1]
<1>1. g \in Ownership
  BY DEF Ownership
<1>2. ASSUME NEW p \in Object
      PROVE  Total(g, p) = Total(h, p) - (IF p = o THEN 1 ELSE 0)
  BY DEF Ownership, Total, Holder
<1>3. Total(h, o) > 0
  BY DEF Ownership, Total, Holder
<1> QED
  BY <1>1, <1>2, <1>3 DEF Loses

(* A gain and a loss may change places when there is something to lose.    *)
LEMMA GainsAfterLoses ==
  ASSUME NEW h \in Ownership, NEW who \in Holder, NEW o \in Object, h[who][o] > 0,
         NEW to \in Holder, NEW p \in Object
  PROVE  /\ Gains(h, to, p)[who][o] > 0
         /\ Loses(Gains(h, to, p), who, o) = Gains(Loses(h, who, o), to, p)
<1>1. [h EXCEPT ![to][p] = @ + 1][who][o] > 0
  BY DEF Ownership
<1> DEFINE one == [[h EXCEPT ![to][p] = @ + 1] EXCEPT ![who][o] = @ - 1]
           two == [[h EXCEPT ![who][o] = @ - 1] EXCEPT ![to][p] = @ + 1]
<1>2. one = two
  <2> DEFINE more == [h EXCEPT ![to][p] = @ + 1]
             less == [h EXCEPT ![who][o] = @ - 1]
  <2>1. more \in Ownership /\ less \in Ownership /\ more[who][o] > 0
    BY DEF Ownership
  <2>2. ASSUME NEW w \in Holder, NEW q \in Object
        PROVE  /\ more[w][q] = h[w][q] + (IF w = to /\ q = p THEN 1 ELSE 0)
               /\ less[w][q] = h[w][q] - (IF w = who /\ q = o THEN 1 ELSE 0)
    BY DEF Ownership
  <2> HIDE DEF more, less
  <2>3. one = [more EXCEPT ![who][o] = @ - 1] /\ two = [less EXCEPT ![to][p] = @ + 1]
    BY DEF more, less
  <2> HIDE DEF one, two
  <2>4. one \in Ownership /\ two \in Ownership
    BY <2>1, <2>3 DEF Ownership
  <2>5. ASSUME NEW w \in Holder, NEW q \in Object PROVE one[w][q] = two[w][q]
    <3>1. one[w][q] = more[w][q] - (IF w = who /\ q = o THEN 1 ELSE 0)
      BY <2>1, <2>3 DEF Ownership
    <3>2. two[w][q] = less[w][q] + (IF w = to /\ q = p THEN 1 ELSE 0)
      BY <2>1, <2>3 DEF Ownership
    <3>3. h[w][q] \in Nat
      BY DEF Ownership
    <3> QED
      BY <2>2, <3>1, <3>2, <3>3
  <2> HIDE DEF one, two
  <2> QED
    BY <2>4, <2>5, SameOwnership
<1> QED
  BY <1>1, <1>2, LocationCacheAssumption DEF Gains, Loses

LEMMA TotalType ==
  ASSUME NEW h \in Ownership, NEW o \in Object
  PROVE  Total(h, o) \in Nat
BY DEF Ownership, Total, Holder

LEMMA ChildrenFinite ==
  ASSUME NEW m, NEW o
  PROVE  IsFiniteSet(Children(m, o)) /\ Cardinality(Children(m, o)) \in Nat
<1>1. Children(m, o) \in SUBSET Object
  BY DEF Children
<1> QED
  BY <1>1, FS_Subset, FS_CardinalityType, LocationCacheAssumption

(* One record changes: the children of its parent.                         *)
LEMMA ChildrenAdd ==
  ASSUME NEW m \in Memory, NEW n, NEW d \in Object, NEW new \in Location,
         m.object[d].parent = NoObject,
         n.object = [m.object EXCEPT ![d] = new],
         NEW p \in Object
  PROVE  Cardinality(Children(n, p))
         = Cardinality(Children(m, p)) + (IF new.parent = p THEN 1 ELSE 0)
<1>1. d \notin Children(m, p)
  BY LocationCacheAssumption DEF Children
<1>2. Children(n, p) = IF new.parent = p THEN Children(m, p) \cup {d} ELSE Children(m, p)
  BY LocationCacheAssumption DEF Children, Memory
<1> DEFINE K == Children(m, p)
<1>3. IsFiniteSet(K) /\ Cardinality(K) \in Nat
  BY ChildrenFinite
<1> HIDE DEF K
<1>4. d \notin K => Cardinality(K \cup {d}) = Cardinality(K) + 1
  BY <1>3, FS_AddElement
<1> QED
  BY <1>1, <1>2, <1>3, <1>4 DEF K

LEMMA ChildrenRemove ==
  ASSUME NEW m \in Memory, NEW n, NEW d \in Object,
         n.object = [m.object EXCEPT ![d] = Freed],
         NEW p \in Object
  PROVE  Cardinality(Children(n, p))
         = Cardinality(Children(m, p)) - (IF m.object[d].parent = p THEN 1 ELSE 0)
<1>1. Children(n, p) = Children(m, p) \ {d}
  BY LocationCacheAssumption DEF Children, Memory, Freed
<1>2. d \in Children(m, p) <=> m.object[d].parent = p
  BY DEF Children
<1> DEFINE K == Children(m, p)
<1>3. IsFiniteSet(K) /\ Cardinality(K) \in Nat
  BY ChildrenFinite
<1> HIDE DEF K
<1>4. Cardinality(K \ {d}) = IF d \in K THEN Cardinality(K) - 1 ELSE Cardinality(K)
  BY <1>3, FS_RemoveElement
<1> QED
  BY <1>1, <1>2, <1>3, <1>4 DEF K

(* An address without object has no references and no children.            *)
LEMMA FreedIsAlone ==
  ASSUME NEW m, NEW h, Good(m, h), NEW d \in Object, m.object[d].kind = "freed"
  PROVE  /\ m.object[d].parent = NoObject
         /\ m.refs[d] = 0
         /\ Total(h, d) = 0
         /\ Cardinality(Children(m, d)) = 0
<1>1. m.object[d].parent = NoObject /\ m.refs[d] = 0
  BY DEF Good, Sound, Memory
<1>2. Total(h, d) \in Nat /\ Cardinality(Children(m, d)) \in Nat
  BY TotalType, ChildrenFinite DEF Good
<1> QED
  BY <1>1, <1>2 DEF Good, Owned

-----------------------------------------------------------------------------
(* Taking references *)

LEMMA RefGood ==
  ASSUME NEW m, NEW h, Good(m, h), NEW who \in Holder,
         NEW o \in Object, m.object[o].kind # "freed"
  PROVE  /\ Good(Ref(m, o), Gains(h, who, o))
         /\ Ref(m, o).object = m.object
<1> DEFINE n == Ref(m, o)
<1>1. /\ n.object = m.object
      /\ n.locations = m.locations
      /\ n.refs = [m.refs EXCEPT ![o] = @ + 1]
      /\ n \in Memory
  BY DEF Ref, Good, Sound, Memory
<1>2. m.refs[o] > 0 /\ m.refs \in [Object -> Nat]
  BY DEF Good, Sound, Memory
<1> HIDE DEF n
<1>3. Sound(n)
  BY <1>1, <1>2 DEF Good, Sound
<1>4. ASSUME NEW p \in Object
      PROVE  n.refs[p] = Total(Gains(h, who, o), p) + Cardinality(Children(n, p))
  <2>1. n.refs[p] = m.refs[p] + (IF p = o THEN 1 ELSE 0)
    BY <1>1, <1>2
  <2>2. Children(n, p) = Children(m, p)
    BY <1>1 DEF Children
  <2>3. Total(h, p) \in Nat /\ Cardinality(Children(m, p)) \in Nat
    BY TotalType, ChildrenFinite DEF Good
  <2> QED
    BY <2>1, <2>2, <2>3, GainsOne DEF Good, Owned
<1> QED
  BY <1>1, <1>3, <1>4, GainsOne DEF Good, Owned, n

(* A new object takes over a reference to its parent from its maker, who   *)
(* gets the first reference to the new object.                             *)
Makes(m, n, d, new) ==
  /\ new \in Location
  /\ m.object[d].kind = "freed"
  /\ n.object = [m.object EXCEPT ![d] = new]
  /\ n.refs = [m.refs EXCEPT ![d] = 1]

LEMMA NewOwned ==
  ASSUME NEW m, NEW h, Good(m, h), NEW n, NEW k \in Ownership, NEW who \in Holder,
         NEW d \in Object, NEW new, Makes(m, n, d, new),
         \/ new.parent = NoObject /\ k = h
         \/ /\ new.parent \in Object
            /\ m.object[new.parent].kind = "shared"
            /\ h[who][new.parent] > 0
            /\ k = Loses(h, who, new.parent)
  PROVE  Gains(k, who, d) \in Ownership /\ Owned(n, Gains(k, who, d))
<1>0. /\ new \in Location
      /\ m.object[d].kind = "freed"
      /\ n.object = [m.object EXCEPT ![d] = new]
      /\ n.refs = [m.refs EXCEPT ![d] = 1]
  BY DEF Makes
<1>1. ASSUME NEW p \in Object
      PROVE  n.refs[p] = Total(Gains(k, who, d), p) + Cardinality(Children(n, p))
  <2> DEFINE given == IF new.parent = p THEN 1 ELSE 0
  <2>1. n.refs[p] = IF p = d THEN 1 ELSE m.refs[p]
    BY <1>0 DEF Good, Sound, Memory
  <2>2. Total(k, p) = Total(h, p) - given
    <3>1. CASE new.parent = NoObject
      BY <3>1, TotalType, LocationCacheAssumption DEF Good
    <3>2. CASE new.parent # NoObject
      BY <3>2, LosesOne DEF Good
    <3> QED
      BY <3>1, <3>2
  <2>3. Cardinality(Children(n, p)) = Cardinality(Children(m, p)) + given
    BY <1>0, ChildrenAdd, FreedIsAlone DEF Good, Sound
  <2>4. Total(Gains(k, who, d), p) = Total(k, p) + (IF p = d THEN 1 ELSE 0)
    BY GainsOne
  <2>5. Total(h, p) \in Nat /\ Cardinality(Children(m, p)) \in Nat
    BY TotalType, ChildrenFinite DEF Good
  <2>6. m.refs[p] = Total(h, p) + Cardinality(Children(m, p))
    BY DEF Good, Owned
  <2>7. p = d => m.refs[p] = 0
    BY <1>0, FreedIsAlone
  <2> QED
    BY <2>1, <2>2, <2>3, <2>4, <2>5, <2>6, <2>7
<1> QED
  BY <1>1, GainsOne DEF Owned

LEMMA NewFullIs ==
  ASSUME NEW m \in Memory, NEW new \in Location, NEW got \in NewFull(m, new)
  PROVE  /\ got.loc \in Object
         /\ m.object[got.loc].kind = "freed"
         /\ got.mem.object = [m.object EXCEPT ![got.loc] = new]
         /\ got.mem.refs = [m.refs EXCEPT ![got.loc] = 1]
         /\ got.mem.locations = m.locations
         /\ got.mem \in Memory
         /\ got.mem.object[got.loc] = new
         /\ Grows(m, got.mem)
<1>1. PICK o \in Object :
        /\ m.object[o].kind = "freed"
        /\ got = Got([m EXCEPT !.object[o] = new, !.refs[o] = 1], o)
  BY DEF NewFull
<1>2. got.loc = o /\ got.mem = [m EXCEPT !.object[o] = new, !.refs[o] = 1]
  BY <1>1 DEF Got
<1>3. /\ got.mem.object = [m.object EXCEPT ![o] = new]
      /\ got.mem.refs = [m.refs EXCEPT ![o] = 1]
      /\ got.mem.locations = m.locations
      /\ got.mem \in Memory
  <2> DEFINE one == [m EXCEPT !.object[o] = new]
  <2>1. /\ one.object = [m.object EXCEPT ![o] = new]
        /\ one.refs = m.refs
        /\ one.locations = m.locations
        /\ one \in Memory
    BY DEF Memory
  <2>2. got.mem = [one EXCEPT !.refs[o] = 1]
    BY <1>2
  <2> HIDE DEF one
  <2> QED
    BY <2>1, <2>2 DEF Memory
<1>4. m.object \in [Object -> Location]
  BY DEF Memory
<1>5. got.mem.object[o] = new
  BY <1>3, <1>4
<1>6. Grows(m, got.mem)
  BY <1>1, <1>3, <1>4 DEF Grows
<1> QED
  BY <1>1, <1>2, <1>3, <1>5, <1>6

LEMMA NewUnshared ==
  ASSUME NEW m, NEW h, Good(m, h), NEW k \in Ownership, NEW who \in Holder,
         NEW new \in Location, new.kind \in {"nearest", "detached"}, LeadsBack(new),
         \/ new.parent = NoObject /\ k = h
         \/ /\ new.parent \in Object
            /\ new.kind = "detached"
            /\ m.object[new.parent].kind = "shared"
            /\ h[who][new.parent] > 0
            /\ k = Loses(h, who, new.parent),
         NEW got \in NewFull(m, new)
  PROVE  /\ Good(got.mem, Gains(k, who, got.loc))
         /\ got.loc \in Object
         /\ Grows(m, got.mem)
<1> DEFINE n == got.mem
           d == got.loc
<1>1. /\ d \in Object
      /\ m.object[d].kind = "freed"
      /\ n.object = [m.object EXCEPT ![d] = new]
      /\ n.refs = [m.refs EXCEPT ![d] = 1]
      /\ n.locations = m.locations
      /\ n \in Memory
      /\ Grows(m, n)
  <2>1. m \in Memory
    BY DEF Good, Sound
  <2> QED
    BY <2>1, NewFullIs
<1> HIDE DEF n, d
<1>2. Gains(k, who, d) \in Ownership /\ Owned(n, Gains(k, who, d))
  <2>1. Makes(m, n, d, new)
    BY <1>1 DEF Makes
  <2> QED
    BY <1>1, <2>1, NewOwned
<1>3. ASSUME NEW o \in Object
      PROVE  /\ n.object[o] = IF o = d THEN new ELSE m.object[o]
             /\ n.refs[o] = IF o = d THEN 1 ELSE m.refs[o]
  BY <1>1 DEF Good, Sound, Memory
<1>4. Sound(n)
  <2>1. \A o \in Object : n.object[o].kind # "freed" <=> n.refs[o] > 0
    BY <1>3 DEF Good, Sound
  <2>2. \A i \in Index : n.locations[i] # NoObject =>
                           /\ n.object[n.locations[i]].kind = "shared"
                           /\ n.object[n.locations[i]].idx = i
    <3> SUFFICES ASSUME NEW i \in Index, n.locations[i] # NoObject
                 PROVE  /\ n.object[n.locations[i]].kind = "shared"
                        /\ n.object[n.locations[i]].idx = i
      OBVIOUS
    <3>1. /\ m.locations[i] \in Object
          /\ m.object[m.locations[i]].kind = "shared"
          /\ m.object[m.locations[i]].idx = i
      BY <1>1 DEF Good, Sound, Memory, ObjectOrNull
    <3> QED
      BY <1>1, <1>3, <3>1
  <2>3. \A o \in Object : n.object[o].kind = "shared" =>
                            /\ n.object[o].idx \in Index
                            /\ n.locations[n.object[o].idx] = o
    BY <1>1, <1>3 DEF Good, Sound
  <2>4. \A o \in Object : n.object[o].parent # NoObject =>
                            /\ n.object[o].kind = "detached"
                            /\ n.object[n.object[o].parent].kind = "shared"
    <3> SUFFICES ASSUME NEW o \in Object, n.object[o].parent # NoObject
                 PROVE  /\ n.object[o].kind = "detached"
                        /\ n.object[n.object[o].parent].kind = "shared"
      OBVIOUS
    <3>1. CASE o = d
      BY <1>1, <1>3, <3>1
    <3>2. CASE o # d
      <4>1. /\ m.object[o].parent \in Object
            /\ m.object[o].kind = "detached"
            /\ m.object[m.object[o].parent].kind = "shared"
        BY <1>3, <3>2 DEF Good, Sound, Memory, Location, ObjectOrNull
      <4> QED
        BY <1>1, <1>3, <3>2, <4>1
    <3> QED
      BY <3>1, <3>2
  <2>5. \A o \in Object : LeadsBack(n.object[o])
    BY <1>3 DEF Good, Sound
  <2> QED
    BY <1>1, <2>1, <2>2, <2>3, <2>4, <2>5 DEF Sound
<1> QED
  BY <1>1, <1>2, <1>4 DEF Good, n, d

(* A new object for a place fills the empty slot of that place.            *)
Fills(m, n, i, d, new) ==
  /\ m.locations[i] = NoObject
  /\ new \in Location
  /\ new.kind = "shared"
  /\ new.idx = i
  /\ new.parent = NoObject
  /\ m.object[d].kind = "freed"
  /\ n.object = [m.object EXCEPT ![d] = new]
  /\ n.refs = [m.refs EXCEPT ![d] = 1]
  /\ n.locations = [m.locations EXCEPT ![i] = d]

LEMMA NewShared ==
  ASSUME NEW m, NEW h, Good(m, h), NEW who \in Holder,
         NEW i \in Index, NEW d \in Object, NEW n \in Memory, NEW new,
         Fills(m, n, i, d, new)
  PROVE  Good(n, Gains(h, who, d)) /\ n.object[d] = new
<1>0. m \in Memory /\ h \in Ownership
  BY DEF Good, Sound
<1>1. new.parent = NoObject /\ new.idx = i /\ new.kind = "shared"
  BY DEF Fills
<1>2. /\ m.object[d].kind = "freed"
      /\ n.object = [m.object EXCEPT ![d] = new]
      /\ n.refs = [m.refs EXCEPT ![d] = 1]
      /\ n.locations = [m.locations EXCEPT ![i] = d]
      /\ m.locations[i] = NoObject
      /\ new \in Location
  BY DEF Fills
<1>3. Gains(h, who, d) \in Ownership /\ Owned(n, Gains(h, who, d))
  <2>1. PICK k \in Ownership : k = h
    BY <1>0
  <2>2. \/ new.parent = NoObject /\ k = h
        \/ /\ new.parent \in Object
           /\ m.object[new.parent].kind = "shared"
           /\ h[who][new.parent] > 0
           /\ k = Loses(h, who, new.parent)
    BY <1>1, <2>1
  <2>3. Gains(k, who, d) \in Ownership /\ Owned(n, Gains(k, who, d))
    <3>1. Makes(m, n, d, new)
      BY <1>2 DEF Makes
    <3> QED
      BY <2>2, <3>1, NewOwned
  <2> QED
    BY <2>1, <2>3
<1>4. ASSUME NEW o \in Object
      PROVE  /\ n.object[o] = IF o = d THEN new ELSE m.object[o]
             /\ n.refs[o] = IF o = d THEN 1 ELSE m.refs[o]
  BY <1>0, <1>2 DEF Memory
<1>5. ASSUME NEW j \in Index
      PROVE  n.locations[j] = IF j = i THEN d ELSE m.locations[j]
  BY <1>0, <1>2 DEF Memory
<1>6. Sound(n)
  <2>1. \A o \in Object : n.object[o].kind # "freed" <=> n.refs[o] > 0
    BY <1>1, <1>2, <1>4 DEF Good, Sound
  <2>2. \A j \in Index : n.locations[j] # NoObject =>
                           /\ n.object[n.locations[j]].kind = "shared"
                           /\ n.object[n.locations[j]].idx = j
    <3> SUFFICES ASSUME NEW j \in Index, n.locations[j] # NoObject
                 PROVE  /\ n.object[n.locations[j]].kind = "shared"
                        /\ n.object[n.locations[j]].idx = j
      OBVIOUS
    <3>1. CASE j = i
      BY <1>1, <1>2, <1>4, <1>5, <3>1
    <3>2. CASE j # i
      <4>1. /\ m.locations[j] \in Object
            /\ m.object[m.locations[j]].kind = "shared"
            /\ m.object[m.locations[j]].idx = j
        BY <1>5, <3>2 DEF Good, Sound, Memory, ObjectOrNull
      <4> QED
        BY <1>1, <1>2, <1>4, <1>5, <3>2, <4>1
    <3> QED
      BY <3>1, <3>2
  <2>3. \A o \in Object : n.object[o].kind = "shared" =>
                            /\ n.object[o].idx \in Index
                            /\ n.locations[n.object[o].idx] = o
    BY <1>1, <1>2, <1>4, <1>5, LocationCacheAssumption DEF Good, Sound
  <2>4. \A o \in Object : n.object[o].parent # NoObject =>
                            /\ n.object[o].kind = "detached"
                            /\ n.object[n.object[o].parent].kind = "shared"
    <3> SUFFICES ASSUME NEW o \in Object, n.object[o].parent # NoObject
                 PROVE  /\ n.object[o].kind = "detached"
                        /\ n.object[n.object[o].parent].kind = "shared"
      OBVIOUS
    <3>1. o # d
      BY <1>1, <1>4
    <3>2. /\ m.object[o].parent \in Object
          /\ m.object[o].kind = "detached"
          /\ m.object[m.object[o].parent].kind = "shared"
      BY <1>2, <1>4, <3>1 DEF Good, Sound, Memory, Location, ObjectOrNull
    <3> QED
      BY <1>1, <1>2, <1>4, <3>1, <3>2
  <2>5. \A o \in Object : LeadsBack(n.object[o])
    BY <1>1, <1>4 DEF Good, Sound, LeadsBack
  <2> QED
    BY <2>1, <2>2, <2>3, <2>4, <2>5 DEF Sound
<1> QED
  BY <1>3, <1>4, <1>6 DEF Good

LEMMA RefForIdxGood ==
  ASSUME NEW m, NEW h, Good(m, h), NEW who \in Holder, NEW i \in Index,
         NEW got \in LocationRefForIdx(m, i)
  PROVE  /\ Good(got.mem, Gains(h, who, got.loc))
         /\ got.loc \in Object
         /\ got.mem.object[got.loc].kind = "shared"
         /\ got.mem.object[got.loc].idx = i
         /\ Grows(m, got.mem)
<1> DEFINE cached == m.locations[i]
           new == [kind |-> "shared", idx |-> i, parentIdx |-> ParentOf[i],
                   parent |-> NoObject]
<1>1. CASE cached # NoObject
  <2>1. got.mem = Ref(m, cached) /\ got.loc = cached
    BY <1>1 DEF LocationRefForIdx, Got
  <2>2. /\ cached \in Object
        /\ m.object[cached].kind = "shared"
        /\ m.object[cached].idx = i
    BY <1>1 DEF Good, Sound, Memory, ObjectOrNull
  <2>3. /\ Good(Ref(m, cached), Gains(h, who, cached))
        /\ Ref(m, cached).object = m.object
    BY <2>2, RefGood
  <2> QED
    BY <2>1, <2>2, <2>3 DEF Grows
<1>2. CASE cached = NoObject
  <2>1. PICK made \in NewFull(m, new) :
          got = Got([made.mem EXCEPT !.locations[i] = made.loc], made.loc)
    BY <1>2 DEF LocationRefForIdx
  <2>2. got.loc = made.loc /\ got.mem = [made.mem EXCEPT !.locations[i] = made.loc]
    BY <2>1 DEF Got
  <2>3. new \in Location
    BY LocationCacheAssumption DEF Location, Kind, IndexOrNone, ObjectOrNull
  <2>4. new.kind = "shared" /\ new.idx = i /\ new.parent = NoObject
    OBVIOUS
  <2> HIDE DEF new
  <2>5. /\ got.loc \in Object
        /\ m.object[got.loc].kind = "freed"
        /\ made.mem.object = [m.object EXCEPT ![got.loc] = new]
        /\ made.mem.refs = [m.refs EXCEPT ![got.loc] = 1]
        /\ made.mem.locations = m.locations
        /\ made.mem \in Memory
        /\ Grows(m, made.mem)
    <3>1. m \in Memory
      BY DEF Good, Sound
    <3> QED
      BY <2>2, <2>3, <3>1, NewFullIs
  <2>6. /\ got.mem.object = made.mem.object
        /\ got.mem.refs = made.mem.refs
        /\ got.mem.locations = [m.locations EXCEPT ![i] = got.loc]
        /\ got.mem \in Memory
    BY <2>2, <2>5 DEF Memory, ObjectOrNull
  <2>7. PICK n \in Memory, d \in Object : n = got.mem /\ d = got.loc
    BY <2>5, <2>6
  <2>8. Good(n, Gains(h, who, d)) /\ n.object[d] = new
    <3>1. Fills(m, n, i, d, new)
      BY <1>2, <2>3, <2>4, <2>5, <2>6, <2>7 DEF Fills
    <3> QED
      BY <3>1, NewShared
  <2>9. Grows(m, got.mem)
    BY <2>5, <2>6 DEF Grows
  <2> QED
    BY <2>4, <2>5, <2>7, <2>8, <2>9
<1> QED
  BY <1>1, <1>2

-----------------------------------------------------------------------------
(* Dropping references *)

(* The last reference of an object is dropped; the reference to its parent *)
(* passes to whoever dropped it.                                           *)
LEMMA FinalizeGood ==
  ASSUME NEW m, NEW h, Good(m, h), NEW who \in Holder,
         NEW o \in Object, h[who][o] > 0, ~(m.refs[o] > 1)
  PROVE  /\ Good(Finalize(m, o), Gains(Loses(h, who, o), who, m.object[o].parent))
         /\ Shrinks(m, Finalize(m, o))
<1> DEFINE n == Finalize(m, o)
           i == m.object[o].idx
           p == m.object[o].parent
           k == Loses(h, who, o)
<1>0. m \in Memory /\ h \in Ownership
  BY DEF Good, Sound
<1>1. k \in Ownership /\ Total(h, o) > 0 /\ Total(h, o) \in Nat
  BY <1>0, LosesOne, TotalType
<1>2. m.refs[o] = 1 /\ Total(h, o) = 1 /\ Cardinality(Children(m, o)) = 0
  <2>1. m.refs[o] = Total(h, o) + Cardinality(Children(m, o))
    BY DEF Good, Owned
  <2> QED
    BY <1>1, <2>1, ChildrenFinite
<1>3. \A c \in Object : m.object[c].parent # o
  <2>1. Children(m, o) = {}
    BY <1>2, ChildrenFinite, FS_EmptySet
  <2> QED
    BY <2>1 DEF Children
<1>4. i \in IndexOrNone /\ p \in ObjectOrNull
  BY <1>0 DEF Memory, Location
<1>5. /\ n.object = [m.object EXCEPT ![o] = Freed]
      /\ n.refs = [m.refs EXCEPT ![o] = 0]
      /\ n.locations = IF i # NoIndex /\ m.locations[i] = o
                       THEN [m.locations EXCEPT ![i] = NoObject] ELSE m.locations
      /\ n = [object |-> n.object, refs |-> n.refs, locations |-> n.locations]
  BY DEF Finalize
<1>6. Freed \in Location
  BY DEF Freed, Location, Kind, IndexOrNone, ObjectOrNull
<1> HIDE DEF n
<1>7. n \in Memory
  <2>1. n.object \in [Object -> Location] /\ n.refs \in [Object -> Nat]
    BY <1>0, <1>5, <1>6 DEF Memory
  <2>2. n.locations \in [Index -> ObjectOrNull]
    BY <1>0, <1>4, <1>5 DEF Memory, ObjectOrNull, IndexOrNone
  <2> QED
    BY <1>5, <2>1, <2>2 DEF Memory
<1>8. ASSUME NEW q \in Object
      PROVE  /\ n.object[q] = IF q = o THEN Freed ELSE m.object[q]
             /\ n.refs[q] = IF q = o THEN 0 ELSE m.refs[q]
  BY <1>0, <1>5 DEF Memory
<1>9. ASSUME NEW j \in Index
      PROVE  n.locations[j] = IF m.locations[j] = o THEN NoObject ELSE m.locations[j]
  <2>1. m.locations[j] = o => j = i
    BY LocationCacheAssumption DEF Good, Sound
  <2>2. m.locations \in [Index -> ObjectOrNull]
    BY <1>0 DEF Memory
  <2> QED
    BY <1>4, <1>5, <2>1, <2>2, LocationCacheAssumption DEF IndexOrNone
<1>10. Sound(n)
  <2>1. \A q \in Object : n.object[q].kind # "freed" <=> n.refs[q] > 0
    BY <1>8 DEF Good, Sound, Freed
  <2>2. \A j \in Index : n.locations[j] # NoObject =>
                           /\ n.object[n.locations[j]].kind = "shared"
                           /\ n.object[n.locations[j]].idx = j
    <3> SUFFICES ASSUME NEW j \in Index, n.locations[j] # NoObject
                 PROVE  /\ n.object[n.locations[j]].kind = "shared"
                        /\ n.object[n.locations[j]].idx = j
      OBVIOUS
    <3>1. n.locations[j] = m.locations[j] /\ m.locations[j] # o
      BY <1>9
    <3>2. /\ m.locations[j] \in Object
          /\ m.object[m.locations[j]].kind = "shared"
          /\ m.object[m.locations[j]].idx = j
      BY <3>1 DEF Good, Sound, Memory, ObjectOrNull
    <3> QED
      BY <1>8, <3>1, <3>2
  <2>3. \A q \in Object : n.object[q].kind = "shared" =>
                            /\ n.object[q].idx \in Index
                            /\ n.locations[n.object[q].idx] = q
    BY <1>8, <1>9 DEF Good, Sound, Freed
  <2>4. \A q \in Object : n.object[q].parent # NoObject =>
                            /\ n.object[q].kind = "detached"
                            /\ n.object[n.object[q].parent].kind = "shared"
    <3> SUFFICES ASSUME NEW q \in Object, n.object[q].parent # NoObject
                 PROVE  /\ n.object[q].kind = "detached"
                        /\ n.object[n.object[q].parent].kind = "shared"
      OBVIOUS
    <3>1. q # o
      BY <1>8 DEF Freed
    <3>2. /\ m.object[q].parent \in Object
          /\ m.object[q].kind = "detached"
          /\ m.object[m.object[q].parent].kind = "shared"
      BY <1>8, <3>1 DEF Good, Sound, Memory, Location, ObjectOrNull
    <3> QED
      BY <1>3, <1>8, <3>1, <3>2
  <2>5. \A q \in Object : LeadsBack(n.object[q])
    BY <1>8 DEF Good, Sound, LeadsBack, Freed
  <2> QED
    BY <1>7, <2>1, <2>2, <2>3, <2>4, <2>5 DEF Sound
<1>11. Gains(k, who, p) \in Ownership
  BY <1>1, <1>4, GainsOne DEF Gains, ObjectOrNull
<1>12. ASSUME NEW q \in Object
       PROVE  n.refs[q] = Total(Gains(k, who, p), q) + Cardinality(Children(n, q))
  <2> DEFINE given == IF p = q THEN 1 ELSE 0
  <2>1. Total(Gains(k, who, p), q) = Total(k, q) + given
    <3>1. CASE p = NoObject
      <4>1. p # q /\ Gains(k, who, p) = k /\ Total(k, q) \in Nat
        BY <3>1, <1>1, TotalType, LocationCacheAssumption DEF Gains
      <4> QED
        BY <4>1
    <3>2. CASE p \in Object
      BY <3>2, <1>1, GainsOne
    <3> QED
      BY <1>4, <3>1, <3>2 DEF ObjectOrNull
  <2>2. Total(k, q) = Total(h, q) - (IF q = o THEN 1 ELSE 0)
    BY <1>0, LosesOne
  <2>3. Cardinality(Children(n, q)) = Cardinality(Children(m, q)) - given
    BY <1>0, <1>5, ChildrenRemove
  <2>4. m.refs[q] = Total(h, q) + Cardinality(Children(m, q))
    BY DEF Good, Owned
  <2>5. Total(h, q) \in Nat /\ Cardinality(Children(m, q)) \in Nat
    BY <1>0, TotalType, ChildrenFinite
  <2> QED
    BY <1>2, <1>8, <2>1, <2>2, <2>3, <2>4, <2>5
<1>13. Shrinks(m, n)
  BY <1>8 DEF Shrinks, Freed
<1> QED
  BY <1>10, <1>11, <1>12, <1>13 DEF Good, Owned, n

LEMMA DropRefGood ==
  ASSUME NEW m, NEW h, Good(m, h), NEW who \in Holder,
         NEW o \in Object, h[who][o] > 0,
         m.refs[o] > 1 \/ m.object[o].parent = NoObject
  PROVE  Good(DropRef(m, o), Loses(h, who, o)) /\ Shrinks(m, DropRef(m, o))
<1>1. CASE m.refs[o] > 1
  <2> DEFINE n == [m EXCEPT !.refs[o] = @ - 1]
  <2>0. m \in Memory /\ h \in Ownership /\ m.refs \in [Object -> Nat]
    BY DEF Good, Sound, Memory
  <2>1. DropRef(m, o) = n
    BY <1>1 DEF DropRef
  <2>2. /\ n.object = m.object
        /\ n.locations = m.locations
        /\ n.refs = [m.refs EXCEPT ![o] = @ - 1]
    BY <2>0 DEF Memory
  <2>3. n \in Memory
    BY <2>0, <1>1 DEF Memory
  <2> HIDE DEF n
  <2>4. ASSUME NEW p \in Object
        PROVE  n.refs[p] = m.refs[p] - (IF p = o THEN 1 ELSE 0)
    BY <2>0, <2>2
  <2>5. Sound(n)
    BY <1>1, <2>0, <2>2, <2>3, <2>4 DEF Good, Sound
  <2>6. ASSUME NEW p \in Object
        PROVE  n.refs[p] = Total(Loses(h, who, o), p) + Cardinality(Children(n, p))
    <3>1. Children(n, p) = Children(m, p)
      BY <2>2 DEF Children
    <3>2. Total(Loses(h, who, o), p) = Total(h, p) - (IF p = o THEN 1 ELSE 0)
      BY <2>0, LosesOne
    <3>3. Total(h, p) \in Nat /\ Cardinality(Children(m, p)) \in Nat
      BY <2>0, TotalType, ChildrenFinite
    <3>4. m.refs[p] = Total(h, p) + Cardinality(Children(m, p))
      BY DEF Good, Owned
    <3> QED
      BY <2>4, <3>1, <3>2, <3>3, <3>4
  <2>7. Loses(h, who, o) \in Ownership
    BY <2>0, LosesOne
  <2> QED
    BY <2>1, <2>2, <2>5, <2>6, <2>7 DEF Good, Owned, Shrinks
<1>2. CASE ~(m.refs[o] > 1)
  <2>1. DropRef(m, o) = Finalize(m, o)
    BY <1>2 DEF DropRef
  <2>2. Gains(Loses(h, who, o), who, m.object[o].parent) = Loses(h, who, o)
    BY <1>2 DEF Gains
  <2> QED
    BY <1>2, <2>1, <2>2, FinalizeGood
<1> QED
  BY <1>1, <1>2

LEMMA UnrefGood ==
  ASSUME NEW m, NEW h, Good(m, h), NEW who \in Holder,
         NEW o \in Object, h[who][o] > 0
  PROVE  Good(Unref(m, o), Loses(h, who, o)) /\ Shrinks(m, Unref(m, o))
<1> DEFINE p == m.object[o].parent
<1>1. CASE m.refs[o] > 1 \/ p = NoObject
  BY <1>1, DropRefGood DEF Unref
<1>2. CASE ~(m.refs[o] > 1) /\ p # NoObject
  <2> DEFINE n == Finalize(m, o)
             k == Loses(h, who, o)
             g == Gains(k, who, p)
  <2>1. Unref(m, o) = DropRef(n, p)
    BY <1>2 DEF Unref
  <2>2. /\ p \in Object
        /\ m.object[p].kind = "shared"
        /\ m.object[o].kind = "detached"
    BY <1>2 DEF Good, Sound, Memory, Location, ObjectOrNull
  <2>3. k \in Ownership
    BY LosesOne DEF Good
  <2>4. Good(n, g) /\ Shrinks(m, n)
    BY <1>2, FinalizeGood
  <2>5. g[who][p] > 0 /\ Loses(g, who, p) = k
    BY <2>2, <2>3, GainsOne
  <2>6. n.object[p].parent = NoObject
    <3>1. n.object[p] = m.object[p]
      BY <2>2 DEF Finalize, Good, Sound, Memory
    <3> QED
      BY <2>2, <3>1 DEF Good, Sound
  <2> HIDE DEF n, k, g, p
  <2>7. Good(DropRef(n, p), k) /\ Shrinks(n, DropRef(n, p))
    BY <2>2, <2>4, <2>5, <2>6, DropRefGood
  <2>8. Shrinks(m, DropRef(n, p))
    BY <2>4, <2>7 DEF Shrinks
  <2> QED
    BY <2>1, <2>7, <2>8 DEF k
<1> QED
  BY <1>1, <1>2

(* Whoever holds an object holds a live one.                               *)
LEMMA HeldIsLive ==
  ASSUME NEW m, NEW h, Good(m, h), NEW who \in Holder,
         NEW o \in Object, h[who][o] > 0
  PROVE  m.object[o].kind # "freed" /\ m.refs[o] > 0
<1>1. Total(h, o) > 0 /\ Total(h, o) \in Nat
  BY LosesOne, TotalType DEF Good
<1>2. m.refs[o] = Total(h, o) + Cardinality(Children(m, o))
  BY DEF Good, Owned
<1>3. m.refs[o] > 0
  BY <1>1, <1>2, ChildrenFinite
<1> QED
  BY <1>3 DEF Good, Sound

-----------------------------------------------------------------------------
(* The functions that compose them *)

LEMMA CopyGood ==
  ASSUME NEW m, NEW h, Good(m, h), NEW who \in Holder,
         NEW i \in Index, HasNearest(i), NEW got \in NewCopy(m, NearestOf[i], i)
  PROVE  /\ Good(got.mem, Gains(h, who, got.loc))
         /\ got.loc \in Object
         /\ Grows(m, got.mem)
<1> DEFINE new == [kind |-> "nearest", idx |-> NearestOf[i], parentIdx |-> i,
                   parent |-> NoObject]
<1>1. new \in Location
  BY LocationCacheAssumption DEF Location, Kind, IndexOrNone, ObjectOrNull
<1>2. /\ got \in NewFull(m, new)
      /\ new.kind = "nearest"
      /\ new.parent = NoObject
      /\ LeadsBack(new)
  BY DEF NewCopy, LeadsBack
<1>3. h \in Ownership
  BY DEF Good
<1> HIDE DEF new
<1> QED
  BY <1>1, <1>2, <1>3, NewUnshared

LEMMA DetachedAloneGood ==
  ASSUME NEW m, NEW h, Good(m, h), NEW who \in Holder, NEW got \in NewDetachedAt(m, NoObject)
  PROVE  /\ Good(got.mem, Gains(h, who, got.loc))
         /\ got.loc \in Object
         /\ Grows(m, got.mem)
<1> DEFINE new == [kind |-> "detached", idx |-> NoIndex, parentIdx |-> NoIndex,
                   parent |-> NoObject]
<1>1. new \in Location
  BY DEF Location, Kind, IndexOrNone, ObjectOrNull
<1>2. /\ got \in NewFull(m, new)
      /\ new.kind = "detached"
      /\ new.parent = NoObject
      /\ LeadsBack(new)
  BY DEF NewDetachedAt, LeadsBack
<1>3. h \in Ownership
  BY DEF Good
<1> HIDE DEF new
<1> QED
  BY <1>1, <1>2, <1>3, NewUnshared

(* A detached location at a place: the reference to the place goes into    *)
(* the new object.                                                         *)
LEMMA DetachedAtPlaceGood ==
  ASSUME NEW m, NEW h, Good(m, h), NEW who \in Holder, NEW i \in Index,
         NEW at \in LocationRefForIdx(m, i), NEW got \in NewDetachedAt(at.mem, at.loc)
  PROVE  /\ Good(got.mem, Gains(h, who, got.loc))
         /\ got.loc \in Object
         /\ Grows(m, got.mem)
<1> DEFINE new == [kind |-> "detached", idx |-> NoIndex, parentIdx |-> NoIndex,
                   parent |-> at.loc]
           g == Gains(h, who, at.loc)
           n == at.mem
<1>1. /\ Good(n, g)
      /\ at.loc \in Object
      /\ n.object[at.loc].kind = "shared"
      /\ Grows(m, n)
  BY RefForIdxGood
<1>2. h \in Ownership
  BY DEF Good
<1>3. g[who][at.loc] > 0 /\ Loses(g, who, at.loc) = h
  BY <1>1, <1>2, GainsOne
<1>4. new \in Location
  BY <1>1 DEF Location, Kind, IndexOrNone, ObjectOrNull
<1>5. /\ got \in NewFull(n, new)
      /\ new.kind = "detached"
      /\ new.parent = at.loc
      /\ LeadsBack(new)
  BY DEF NewDetachedAt, LeadsBack
<1> HIDE DEF new, g, n
<1>6. /\ Good(got.mem, Gains(h, who, got.loc))
      /\ got.loc \in Object
      /\ Grows(n, got.mem)
  BY <1>1, <1>2, <1>3, <1>4, <1>5, NewUnshared
<1>7. Grows(m, got.mem)
  BY <1>1, <1>6 DEF Grows, n
<1> QED
  BY <1>6, <1>7

LEMMA ByStationCodeGood ==
  ASSUME NEW m, NEW h, Good(m, h), NEW who \in Holder, NEW v,
         NEW got \in ByStationCode(m, v)
  PROVE  /\ Good(got.mem, Gains(h, who, got.loc))
         /\ got.loc \in ObjectOrNull
         /\ Grows(m, got.mem)
<1>1. CASE v.code = NoIndex
  BY <1>1, DetachedAloneGood DEF ByStationCode, ObjectOrNull
<1>2. CASE v.code # NoIndex /\ v.code \notin Index
  <2>1. got.mem = m /\ got.loc = NoObject
    BY <1>2 DEF ByStationCode, Got
  <2> QED
    BY <2>1 DEF Gains, ObjectOrNull, Grows
<1>3. CASE v.code \in Index /\ \E i \in Index : got \in LocationRefForIdx(m, i)
  BY <1>3, RefForIdxGood DEF ObjectOrNull
<1>4. CASE v.code \in Index /\ \E at \in LocationRefForIdx(m, v.code) :
                                 got \in NewDetachedAt(at.mem, at.loc)
  BY <1>4, DetachedAtPlaceGood DEF ObjectOrNull
<1>5. v.code \in Index => \/ \E i \in Index : got \in LocationRefForIdx(m, i)
                          \/ \E at \in LocationRefForIdx(m, v.code) :
                               got \in NewDetachedAt(at.mem, at.loc)
  <2> SUFFICES ASSUME v.code \in Index
               PROVE  \/ \E i \in Index : got \in LocationRefForIdx(m, i)
                      \/ \E at \in LocationRefForIdx(m, v.code) :
                           got \in NewDetachedAt(at.mem, at.loc)
    OBVIOUS
  <2>1. FoundByCode(v) # NoIndex => FoundByCode(v) \in Index
    BY LocationCacheAssumption DEF FoundByCode, IndexOrNone
  <2> QED
    BY <2>1, LocationCacheAssumption DEF ByStationCode
<1> QED
  BY <1>1, <1>2, <1>3, <1>4, <1>5

-----------------------------------------------------------------------------
(* The actions *)

Keeps == \A o \in Object : \/ mem'.object[o] = mem.object[o]
                           \/ mem.object[o].kind = "freed"
                           \/ mem'.object[o].kind = "freed"

(* A call that takes references only.                                      *)
LEMMA ReturnGood ==
  ASSUME NEW got, NEW h, Good(got.mem, Gains(h, "application", got.loc)),
         Grows(mem, got.mem), Return(got, h)
  PROVE  Good(mem', held') /\ Keeps
BY DEF Return, Grows, Keeps

(* A call that takes one and then drops one.                               *)
LEMMA ReturnAfterUnref ==
  ASSUME Good(mem, held), NEW got, got.loc \in Object,
         Good(got.mem, Gains(held, "application", got.loc)), Grows(mem, got.mem),
         NEW who \in Holder, NEW o \in Object, held[who][o] > 0,
         Return(Got(Unref(got.mem, o), got.loc), Loses(held, who, o))
  PROVE  Good(mem', held') /\ Keeps
<1> DEFINE g == Gains(held, "application", got.loc)
<1>1. held \in Ownership /\ "application" \in Holder
  BY DEF Good, Holder
<1>2. /\ g[who][o] > 0
      /\ Loses(g, who, o) = Gains(Loses(held, who, o), "application", got.loc)
  BY <1>1, GainsAfterLoses
<1> HIDE DEF g
<1>3. Good(Unref(got.mem, o), Loses(g, who, o)) /\ Shrinks(got.mem, Unref(got.mem, o))
  BY <1>2, UnrefGood DEF g
<1>4. mem' = Unref(got.mem, o) /\ held' = Gains(Loses(held, who, o), "application", got.loc)
  BY DEF Return, Got
<1>5. Keeps
  BY <1>3, <1>4 DEF Keeps, Grows, Shrinks
<1> QED
  BY <1>2, <1>3, <1>4, <1>5

LEMMA JustUnref ==
  ASSUME Good(mem, held), NEW who \in Holder, NEW o \in Object, held[who][o] > 0,
         mem' = Unref(mem, o), held' = Loses(held, who, o)
  PROVE  Good(mem', held') /\ Keeps
BY UnrefGood DEF Keeps, Shrinks

LEMMA TakePlace ==
  ASSUME Good(mem, held), NEW i \in Index,
         \E got \in LocationRefForIdx(mem, i) : Return(got, held)
  PROVE  Good(mem', held') /\ Keeps
<1>1. PICK got \in LocationRefForIdx(mem, i) : Return(got, held)
  OBVIOUS
<1>2. Good(got.mem, Gains(held, "application", got.loc)) /\ Grows(mem, got.mem)
  BY RefForIdxGood DEF Holder
<1> QED
  BY <1>1, <1>2, ReturnGood

LEMMA TakeRef ==
  ASSUME Good(mem, held), NEW who \in Holder, NEW o \in Object,
         mem.object[o].kind # "freed",
         mem' = Ref(mem, o), held' = Gains(held, who, o)
  PROVE  Good(mem', held') /\ Keeps
BY RefGood DEF Keeps

LEMMA IndexType ==
  ASSUME Good(mem, held), NEW o \in Object
  PROVE  /\ mem.object[o].idx \in IndexOrNone
         /\ mem.object[o].parentIdx \in IndexOrNone
         /\ mem.object[o].parent \in ObjectOrNull
BY DEF Good, Sound, Memory, Location

LEMMA SameState ==
  ASSUME Good(mem, held), UNCHANGED <<mem, held>>
  PROVE  Good(mem', held') /\ Keeps
BY DEF Keeps

LEMMA GetParentGood ==
  ASSUME Good(mem, held), NEW o \in Object, GetParent(o)
  PROVE  Good(mem', held') /\ Keeps
<1> DEFINE self == mem.object[o]
<1>1. CASE self.parent # NoObject /\ Return(Got(Ref(mem, self.parent), self.parent), held)
  <2>1. self.parent \in Object /\ mem.object[self.parent].kind = "shared"
    BY <1>1, IndexType DEF Good, Sound, ObjectOrNull
  <2>2. mem' = Ref(mem, self.parent) /\ held' = Gains(held, "application", self.parent)
    BY <1>1 DEF Return, Got
  <2> QED
    BY <2>1, <2>2, TakeRef DEF Holder
<1>2. CASE /\ self.parentIdx # NoIndex
           /\ \E got \in LocationRefForIdx(mem, self.parentIdx) : Return(got, held)
  <2>1. self.parentIdx \in Index
    BY <1>2, IndexType DEF IndexOrNone
  <2> QED
    BY <1>2, <2>1, TakePlace
<1> QED
  BY <1>1, <1>2 DEF GetParent

LEMMA FirstChildGood ==
  ASSUME Good(mem, held), NEW o \in Object, FirstChild(o)
  PROVE  Good(mem', held') /\ Keeps
<1> DEFINE i == mem.object[o].idx
<1>1. i \in Index
  BY IndexType DEF FirstChild, IndexOrNone
<1>2. CASE HasNearest(i) /\ \E got \in NewCopy(mem, NearestOf[i], i) : Return(got, held)
  <2>1. PICK got \in NewCopy(mem, NearestOf[i], i) : Return(got, held)
    BY <1>2
  <2>2. Good(got.mem, Gains(held, "application", got.loc)) /\ Grows(mem, got.mem)
    BY <1>1, <1>2, CopyGood DEF Holder
  <2> QED
    BY <2>1, <2>2, ReturnGood
<1>3. CASE /\ ChildrenOf[i] # <<>>
           /\ \E got \in LocationRefForIdx(mem, ChildrenOf[i][1]) : Return(got, held)
  <2>1. ChildrenOf[i] \in Seq(Index)
    BY <1>1, LocationCacheAssumption
  <2>2. ChildrenOf[i][1] \in Index
    BY <1>3, <2>1
  <2> QED
    BY <1>3, <2>2, TakePlace
<1> QED
  BY <1>2, <1>3 DEF FirstChild

LEMMA NextChildGood ==
  ASSUME Good(mem, held), NEW o \in Object, NEW child \in Object, NextChild(o, child)
  PROVE  Good(mem', held') /\ Keeps
<1> DEFINE i == mem.object[o].idx
<1>1. i \in Index /\ held["application"][child] > 0
  BY IndexType DEF NextChild, IndexOrNone
<1> DEFINE Moves(got) == Return(Got(Unref(got.mem, child), got.loc),
                                Loses(held, "application", child))
<1>2a. PICK j \in After(i, mem.object[child].idx) :
         \E got \in LocationRefForIdx(mem, j) : Moves(got)
  BY DEF NextChild
<1>2. PICK got \in LocationRefForIdx(mem, j) : Moves(got)
  BY <1>2a
<1>3. j \in Index
  <2>1. ChildrenOf[i] \in Seq(Index)
    BY <1>1, LocationCacheAssumption
  <2> QED
    BY <1>2a, <2>1 DEF After
<1>4. /\ Good(got.mem, Gains(held, "application", got.loc))
      /\ got.loc \in Object
      /\ Grows(mem, got.mem)
  BY <1>3, RefForIdxGood DEF Holder
<1> QED
  BY <1>1, <1>2, <1>4, ReturnAfterUnref DEF Holder

LEMMA GotPlaceGood ==
  ASSUME Good(mem, held), NEW o \in Object, GotPlace(o)
  PROVE  Good(mem', held') /\ Keeps
<1> DEFINE Answers(got) == Return(Got(Unref(got.mem, o), got.loc),
                                  Loses(held, "geocoder", o))
<1>1a. PICK c \in CitiesIn(mem.object[o].idx) :
         \E city \in LocationRefForIdx(mem, c) :
           \E got \in NewDetachedAt(city.mem, city.loc) : Answers(got)
  BY DEF GotPlace
<1>1b. PICK city \in LocationRefForIdx(mem, c) :
         \E got \in NewDetachedAt(city.mem, city.loc) : Answers(got)
  BY <1>1a
<1>1. PICK got \in NewDetachedAt(city.mem, city.loc) : Answers(got)
  BY <1>1b
<1>2. held["geocoder"][o] > 0
  BY DEF GotPlace
<1>3. c \in Index
  BY <1>1a, LocationCacheAssumption DEF CitiesIn
<1>4. /\ Good(got.mem, Gains(held, "application", got.loc))
      /\ got.loc \in Object
      /\ Grows(mem, got.mem)
  BY <1>3, DetachedAtPlaceGood DEF Holder
<1> QED
  BY <1>1, <1>2, <1>4, ReturnAfterUnref DEF Holder

(* The reference that a failed lookup forgets changes its owner only.      *)
LEMMA GotErrorGood ==
  ASSUME Good(mem, held), NEW o \in Object, GotError(o)
  PROVE  Good(mem', held') /\ Keeps
<1> DEFINE k == Loses(held, "geocoder", o)
<1>1. /\ held \in Ownership
      /\ "geocoder" \in Holder /\ "nobody" \in Holder
      /\ held["geocoder"][o] > 0
      /\ mem' = mem
      /\ held' = Gains(k, "nobody", o)
  BY DEF GotError, Good, Holder
<1>2. /\ k \in Ownership
      /\ \A p \in Object : Total(k, p) = Total(held, p) - (IF p = o THEN 1 ELSE 0)
  BY <1>1, LosesOne
<1> HIDE DEF k
<1>3. /\ held' \in Ownership
      /\ \A p \in Object : Total(held', p) = Total(k, p) + (IF p = o THEN 1 ELSE 0)
  BY <1>1, <1>2, GainsOne
<1>4. ASSUME NEW p \in Object PROVE Total(held', p) = Total(held, p)
  BY <1>1, <1>2, <1>3, TotalType
<1> QED
  BY <1>1, <1>3, <1>4 DEF Good, Owned, Keeps

LEMMA CoordsType ==
  ASSUME NEW v \in Stored
  PROVE  v.coords \in IndexOrNone
<1>1. ASSUME NEW i \in Index PROVE FormatTwoSerialize(i).coords \in IndexOrNone
  <2> DEFINE first == IF HasNearest(i) THEN NearestOf[i]
                      ELSE IF ChildrenOf[i] # <<>> THEN ChildrenOf[i][1] ELSE i
  <2>1. ChildrenOf[i] # <<>> => ChildrenOf[i][1] \in Index
    <3>1. ChildrenOf[i] \in Seq(Index)
      BY LocationCacheAssumption
    <3> QED
      BY <3>1
  <2>2. first \in IndexOrNone
    BY <2>1, LocationCacheAssumption DEF IndexOrNone
  <2>3. FormatTwoSerialize(i).coords = IF i \in City THEN first ELSE i
    BY DEF FormatTwoSerialize
  <2> QED
    BY <2>2, <2>3 DEF IndexOrNone
<1>2. City \cup Station \cup NamedTimezone \subseteq Index
  BY LocationCacheAssumption
<1>3. \A w \in Saved : w.coords \in IndexOrNone
  BY LocationCacheAssumption DEF IsVariant
<1> QED
  BY <1>1, <1>2, <1>3 DEF Stored

LEMMA DeserializeGood ==
  ASSUME Good(mem, held), NEW world \in Object, NEW v \in Stored, Deserialize(world, v)
  PROVE  Good(mem', held') /\ Keeps
<1>1. PICK city \in CityFound(mem, v) :
        \/ Return(city, held)
        \/ \E got \in ByStationCode(city.mem, v) :
             Return(got, Gains(held, "nobody", city.loc))
  BY DEF Deserialize
<1>2. ASSUME NEW who \in Holder
      PROVE  Good(city.mem, Gains(held, who, city.loc)) /\ Grows(mem, city.mem)
  <2>1. CASE v.isCity /\ v.coords # NoIndex
    <3>1. CityNear[v.coords] \in Index
      BY <2>1, CoordsType, LocationCacheAssumption DEF IndexOrNone
    <3> QED
      BY <2>1, <3>1, RefForIdxGood DEF CityFound
  <2>2. CASE ~(v.isCity /\ v.coords # NoIndex)
    <3>1. city.mem = mem /\ city.loc = NoObject
      BY <2>2 DEF CityFound, Got
    <3> QED
      BY <3>1 DEF Gains, Grows
  <2> QED
    BY <2>1, <2>2
<1>3. CASE Return(city, held)
  BY <1>2, <1>3, ReturnGood DEF Holder
<1>4. CASE \E got \in ByStationCode(city.mem, v) : Return(got, Gains(held, "nobody", city.loc))
  <2> DEFINE h == Gains(held, "nobody", city.loc)
  <2>1. PICK got \in ByStationCode(city.mem, v) : Return(got, h)
    BY <1>4
  <2>2. Good(city.mem, h) /\ Grows(mem, city.mem)
    BY <1>2 DEF Holder
  <2> HIDE DEF h
  <2>3. Good(got.mem, Gains(h, "application", got.loc)) /\ Grows(city.mem, got.mem)
    BY <2>2, ByStationCodeGood DEF Holder
  <2>4. Grows(mem, got.mem)
    BY <2>2, <2>3 DEF Grows
  <2> QED
    BY <2>1, <2>3, <2>4, ReturnGood
<1> QED
  BY <1>1, <1>3, <1>4

LEMMA NewDetachedGood ==
  ASSUME Good(mem, held), NewDetached
  PROVE  Good(mem', held') /\ Keeps
<1>1. CASE \E c \in CitiesIn(World) : \E city \in LocationRefForIdx(mem, c) :
             \E got \in NewDetachedAt(city.mem, city.loc) : Return(got, held)
  <2>1a. PICK c \in CitiesIn(World) : \E city \in LocationRefForIdx(mem, c) :
           \E got \in NewDetachedAt(city.mem, city.loc) : Return(got, held)
    BY <1>1
  <2>1b. PICK city \in LocationRefForIdx(mem, c) :
           \E got \in NewDetachedAt(city.mem, city.loc) : Return(got, held)
    BY <2>1a
  <2>1. PICK got \in NewDetachedAt(city.mem, city.loc) : Return(got, held)
    BY <2>1b
  <2>2. c \in Index
    BY <2>1a, LocationCacheAssumption DEF CitiesIn
  <2>3. Good(got.mem, Gains(held, "application", got.loc)) /\ Grows(mem, got.mem)
    BY <2>2, DetachedAtPlaceGood DEF Holder
  <2> QED
    BY <2>1, <2>3, ReturnGood
<1>2. CASE \E code : \E got \in ByStationCode(mem, Icao(code)) : Return(got, held)
  <2>0. PICK code : \E got \in ByStationCode(mem, Icao(code)) : Return(got, held)
    BY <1>2
  <2>1. PICK got \in ByStationCode(mem, Icao(code)) : Return(got, held)
    BY <2>0
  <2>2. Good(got.mem, Gains(held, "application", got.loc)) /\ Grows(mem, got.mem)
    BY ByStationCodeGood DEF Holder
  <2> QED
    BY <2>1, <2>2, ReturnGood
<1>3. CASE Abort("no database")
  BY <1>3, SameState DEF Abort
<1> QED
  BY <1>1, <1>2, <1>3 DEF NewDetached
LEMMA DetectGood ==
  ASSUME Good(mem, held), NEW o \in Object, DetectNearestCity(o)
  PROVE  Good(mem', held') /\ Keeps
<1>1. /\ held["application"][o] > 0
      /\ mem' = Ref(mem, o)
      /\ held' = Gains(held, "geocoder", o)
  BY DEF DetectNearestCity, Held
<1>2. mem.object[o].kind # "freed"
  BY <1>1, HeldIsLive DEF Holder
<1> QED
  BY <1>1, <1>2, TakeRef DEF Holder

LEMMA StepGood ==
  ASSUME Good(mem, held), Next
  PROVE  Good(mem', held') /\ Keeps
<1>1. CASE GetWorld
  <2>1. World \in Index
    BY LocationCacheAssumption
  <2> QED
    BY <1>1, <2>1, TakePlace, SameState DEF GetWorld, Abort
<1>2. CASE NewDetached
  BY <1>2, NewDetachedGood
<1>3. ASSUME NEW o \in Object, GetParent(o) PROVE Good(mem', held') /\ Keeps
  BY <1>3, GetParentGood
<1>4. ASSUME NEW o \in Object, FirstChild(o) PROVE Good(mem', held') /\ Keeps
  BY <1>4, FirstChildGood
<1>5. ASSUME NEW o \in Object, NEW child \in Object, NextChild(o, child)
      PROVE  Good(mem', held') /\ Keeps
  BY <1>5, NextChildGood
<1>6. ASSUME NEW o \in Object, NEW child \in Object, LastChild(o, child)
      PROVE  Good(mem', held') /\ Keeps
  BY <1>6, JustUnref DEF LastChild, Holder
<1>7. ASSUME NEW o \in Object, ChildOfDetached(o) PROVE Good(mem', held') /\ Keeps
  BY <1>7, SameState DEF ChildOfDetached, Abort
<1>8. ASSUME NEW o \in Object, NEW i \in Station \cup NamedTimezone \cup Country, Find(o, i)
      PROVE  Good(mem', held') /\ Keeps
  <2>1. i \in Index
    BY LocationCacheAssumption
  <2> QED
    BY <1>8, <2>1, TakePlace DEF Find
<1>9. ASSUME NEW o \in Object, Release(o) PROVE Good(mem', held') /\ Keeps
  BY <1>9, JustUnref DEF Release, Held, Holder
<1>10. ASSUME NEW o \in Object, FindNearestCity(o) PROVE Good(mem', held') /\ Keeps
  <2>1. PICK c \in CitiesIn(mem.object[o].idx) :
          \E got \in LocationRefForIdx(mem, c) : Return(got, held)
    BY <1>10 DEF FindNearestCity
  <2>2. c \in Index
    BY LocationCacheAssumption DEF CitiesIn
  <2> QED
    BY <2>1, <2>2, TakePlace
<1>11. ASSUME NEW o \in Object, DetectNearestCity(o) PROVE Good(mem', held') /\ Keeps
  BY <1>11, DetectGood
<1>12. ASSUME NEW o \in Object, GotPlace(o) PROVE Good(mem', held') /\ Keeps
  BY <1>12, GotPlaceGood
<1>13. ASSUME NEW o \in Object, GotNoCity(o) PROVE Good(mem', held') /\ Keeps
  BY <1>13, JustUnref DEF GotNoCity, Holder
<1>14. ASSUME NEW o \in Object, GotError(o) PROVE Good(mem', held') /\ Keeps
  BY <1>14, GotErrorGood
<1>15. ASSUME NEW o \in Object, NEW v \in Stored, Deserialize(o, v)
       PROVE  Good(mem', held') /\ Keeps
  BY <1>15, DeserializeGood
<1> QED
  BY <1>1, <1>2, <1>3, <1>4, <1>5, <1>6, <1>7, <1>8, <1>9, <1>10, <1>11, <1>12,
     <1>13, <1>14, <1>15 DEF Next

-----------------------------------------------------------------------------
(* The invariant *)

Stops == {"no", "no database", "no record"}

LEMMA InitGood ==
  ASSUME Init
  PROVE  Good(mem, held)
<1>1. Freed \in Location /\ Freed.kind = "freed" /\ Freed.parent = NoObject
  BY DEF Freed, Location, Kind, IndexOrNone, ObjectOrNull
<1>2. /\ mem.object = [o \in Object |-> Freed]
      /\ mem.refs = [o \in Object |-> 0]
      /\ mem.locations = [i \in Index |-> NoObject]
      /\ mem \in Memory
  BY <1>1 DEF Init, Memory, ObjectOrNull
<1>3. Sound(mem)
  BY <1>1, <1>2 DEF Sound, LeadsBack
<1>4. held \in Ownership /\ \A o \in Object : Total(held, o) = 0
  BY DEF Init, Ownership, Total, Holder
<1>5. ASSUME NEW o \in Object PROVE Cardinality(Children(mem, o)) = 0
  <2>1. Children(mem, o) = {}
    BY <1>1, <1>2, LocationCacheAssumption DEF Children
  <2> QED
    BY <2>1, FS_EmptySet
<1> QED
  BY <1>2, <1>3, <1>4, <1>5 DEF Good, Owned

(* The inductive invariant of these proofs.                                *)
GInv == Good(mem, held) /\ hasDatabase \in BOOLEAN /\ stopped \in Stops

LEMMA Parts ==
  ASSUME GInv
  PROVE  IInv /\ CopyLeadsBack
<1>1. mem \in Memory /\ held \in Ownership
  BY DEF GInv, Good, Sound
<1>2. TypeOK
  BY <1>1 DEF GInv, TypeOK, Memory, Ownership, Stops
<1>3. ReferencesAreOwned
  BY DEF GInv, Good, Owned, ReferencesAreOwned, Total
<1>4. LiveIsReferenced /\ CacheIsExact /\ ParentsAreShared
  BY DEF GInv, Good, Sound, LiveIsReferenced, Live, CacheIsExact, ParentsAreShared
<1>5. CopyLeadsBack
  BY DEF GInv, Good, Sound, LeadsBack, CopyLeadsBack
<1> QED
  BY <1>2, <1>3, <1>4, <1>5 DEF IInv

LEMMA StopsType ==
  ASSUME hasDatabase \in BOOLEAN, stopped \in Stops, Next
  PROVE  hasDatabase' \in BOOLEAN /\ stopped' \in Stops
<1>1. CASE \E where \in Stops : Abort(where)
  BY <1>1 DEF Abort
<1>2. CASE \E got, h : Return(got, h)
  BY <1>2 DEF Return
<1>3. CASE UNCHANGED <<hasDatabase, stopped>>
  BY <1>3
<1>4. \/ \E where \in Stops : Abort(where)
      \/ \E got, h : Return(got, h)
      \/ UNCHANGED <<hasDatabase, stopped>>
  <2>1. ASSUME GetWorld \/ NewDetached
        PROVE  (\E where \in Stops : Abort(where)) \/ \E got, h : Return(got, h)
    BY <2>1 DEF GetWorld, NewDetached, Stops
  <2>2. ASSUME NEW o \in Object, GetParent(o) \/ FirstChild(o) \/ FindNearestCity(o)
                                 \/ GotPlace(o)
        PROVE  \E got, h : Return(got, h)
    BY <2>2 DEF GetParent, FirstChild, FindNearestCity, GotPlace
  <2>3. ASSUME NEW o \in Object, NEW x, NextChild(o, x) \/ Find(o, x) \/ Deserialize(o, x)
        PROVE  \E got, h : Return(got, h)
    BY <2>3 DEF NextChild, Find, Deserialize
  <2>4. ASSUME NEW o \in Object, NEW x,
               LastChild(o, x) \/ Release(o) \/ DetectNearestCity(o) \/ GotNoCity(o)
               \/ GotError(o)
        PROVE  UNCHANGED <<hasDatabase, stopped>>
    BY <2>4 DEF LastChild, Release, DetectNearestCity, GotNoCity, GotError
  <2>5. ASSUME NEW o \in Object, ChildOfDetached(o)
        PROVE  \E where \in Stops : Abort(where)
    BY <2>5 DEF ChildOfDetached, Stops
  <2> QED
    BY <2>1, <2>2, <2>3, <2>4, <2>5 DEF Next
<1> QED
  BY <1>1, <1>2, <1>3, <1>4

LEMMA Inductive == Spec => []GInv
<1>1. Init => GInv
  BY InitGood DEF Init, GInv, Stops
<1>2. GInv /\ [Next]_vars => GInv'
  <2> SUFFICES ASSUME GInv, [Next]_vars PROVE GInv'
    OBVIOUS
  <2>1. CASE Next
    BY <2>1, StepGood, StopsType DEF GInv
  <2>2. CASE UNCHANGED vars
    BY <2>2 DEF GInv, vars
  <2> QED
    BY <2>1, <2>2
<1> QED
  BY <1>1, <1>2, PTL DEF Spec

(* Every reference is owned, every weak pointer is exact and every owned   *)
(* parent is shared, whatever the application calls and however the        *)
(* lookups of the geocoder end: no call of gweather-location.c drops a     *)
(* reference that it does not have.                                        *)
THEOREM Invariance == Spec => []IInv
<1>1. GInv => IInv
  BY Parts
<1> QED
  BY <1>1, Inductive, PTL

(* A nearest copy leads back to a city that has it as nearest child, for   *)
(* any database and with any number of copies about.                       *)
THEOREM LeadingBack == Spec => []CopyLeadsBack
<1>1. GInv => CopyLeadsBack
  BY Parts
<1> QED
  BY <1>1, Inductive, PTL

(* There is never a second object for a place of the database.             *)
THEOREM Sharing == Spec => []OneObjectPerPlace
<1>1. GInv => OneObjectPerPlace
  BY Parts DEF IInv, CacheIsExact, OneObjectPerPlace
<1> QED
  BY <1>1, Inductive, PTL

(* References that have all been given back leave the cache empty: what    *)
(* _gweather_location_reset_world asserts can only fail by a reference     *)
(* that was forgotten.                                                     *)
THEOREM Resetting == Spec => []WorldCanBeReset
<1>1. GInv => WorldCanBeReset
  <2> SUFFICES ASSUME GInv, \A who \in Holder : AllReturned(who)
               PROVE  CachesEmpty
    BY DEF WorldCanBeReset
  <2>1. Good(mem, held)
    BY DEF GInv
  <2>2. ASSUME NEW o \in Object PROVE Total(held, o) = 0
    BY DEF AllReturned, Total, Holder
  <2>3. ASSUME NEW o \in Object, mem.object[o].kind # "shared"
        PROVE  mem.object[o].kind = "freed"
    <3>1. Children(mem, o) = {}
      BY <2>1, <2>3, LocationCacheAssumption DEF Children, Good, Sound
    <3>2. Cardinality(Children(mem, o)) = 0
      BY <3>1, FS_EmptySet
    <3> QED
      BY <2>1, <2>2, <3>2 DEF Good, Sound, Owned
  <2>4. ASSUME NEW o \in Object PROVE mem.object[o].kind = "freed"
    <3>1. ASSUME NEW d \in Object PROVE mem.object[d].parent # o
      <4>1. CASE mem.object[d].kind = "shared"
        BY <2>1, <4>1, LocationCacheAssumption DEF Good, Sound
      <4>2. CASE mem.object[d].kind # "shared"
        BY <2>1, <2>3, <4>2, LocationCacheAssumption, FreedIsAlone
      <4> QED
        BY <4>1, <4>2
    <3>2. Children(mem, o) = {}
      BY <3>1 DEF Children
    <3>3. Cardinality(Children(mem, o)) = 0
      BY <3>2, FS_EmptySet
    <3> QED
      BY <2>1, <2>2, <3>3 DEF Good, Sound, Owned
  <2> QED
    BY <2>1, <2>4 DEF CachesEmpty, Good, Sound, Memory, ObjectOrNull
<1> QED
  BY <1>1, Inductive, PTL

(* What somebody holds across a call is neither freed nor turned into      *)
(* another location by it.                                                 *)
THEOREM Holding == Spec => HeldStays
<1> DEFINE Stay == \A o \in Object : \A who \in Holder :
                     held[who][o] > 0 /\ held'[who][o] > 0 => mem'.object[o] = mem.object[o]
<1>1. GInv /\ [Next]_vars => [Stay]_vars
  <2> SUFFICES ASSUME GInv, Next, NEW o \in Object, NEW who \in Holder,
                      held[who][o] > 0, held'[who][o] > 0
               PROVE  mem'.object[o] = mem.object[o]
    OBVIOUS
  <2>1. Good(mem, held)
    BY DEF GInv
  <2>2. Good(mem', held') /\ Keeps
    BY <2>1, StepGood
  <2>3. mem.object[o].kind # "freed" /\ mem'.object[o].kind # "freed"
    BY <2>1, <2>2, HeldIsLive
  <2> QED
    BY <2>2, <2>3 DEF Keeps
<1> QED
  BY <1>1, Inductive, PTL DEF Spec, HeldStays
=============================================================================
