-------------------------- MODULE SharedSessionProofs --------------------------
(***************************************************************************)
(* Proofs about SharedSession, for any numbers of objects, resources and   *)
(* addresses.  The functions that take and drop references are proved      *)
(* right for any counts of users; each action then moves as many users as  *)
(* it moves references.                                                    *)
(***************************************************************************)
EXTENDS SharedSession, FiniteSetTheorems, TLAPS

CacheOf(h) == IF h.static = NoSession THEN {} ELSE h.session[h.static].cache
Kept(h) == h.disk \cup CacheOf(h)

(* The parts of IInv about the heap, for any counts of users.              *)
HeapGood(h, u) ==
  /\ h \in Heap
  /\ \A s \in Session :
       /\ h.session[s].refs = u[s]
       /\ Live(h, s) <=> h.static = s
       /\ h.session[s].hasCache => /\ Live(h, s)
                                   /\ h.disk \subseteq h.session[s].cache
       /\ ~h.session[s].hasCache => h.session[s].cache = {}

(* Counts after references were taken or one was dropped.                  *)
Plus(u, s, n) == [u EXCEPT ![s] = @ + n]
Less(u, s) == [u EXCEPT ![s] = @ - 1]
MoreRefs(h, s, n) == [h EXCEPT !.session[s].refs = @ + n]

(* New requests of an object.                                              *)
Begun(i, s, asked) ==
  {[info |-> i, resource |-> r, session |-> s,
    arrived |-> FALSE, cancelled |-> FALSE] : r \in asked}

UsersOf(f, s) == {i \in Info : f[i].session = s}
InFlightOf(R, s) == {q \in R : q.session = s}
Count(f, R) == [s \in Session |-> Cardinality(UsersOf(f, s)) + Cardinality(InFlightOf(R, s))]

InfosGood(f) ==
  /\ f \in [Info -> InfoState]
  /\ \A i \in Info : f[i].session # NoSession => f[i].alive

Distinct(R) == \A q, r \in R : q.info = r.info /\ q.resource = r.resource => q = r
RequestsGood(R) == R \subseteq Request /\ IsFiniteSet(R) /\ Distinct(R)

(* IInv of any state.                                                      *)
Good(f, R, h, got) ==
  /\ InfosGood(f)
  /\ RequestsGood(R)
  /\ HeapGood(h, Count(f, R))
  /\ got \subseteq Resource
  /\ got \subseteq Kept(h)

(* IInv is Good of the present state.                                      *)
LEMMA InvIsGood == IInv <=> Good(infos, requests, heap, received)
<1>1. \A s \in Session : Count(infos, requests)[s] = Cardinality(Users(s)) + Cardinality(InFlight(s))
  BY DEF Count, Users, InFlight, UsersOf, InFlightOf
<1>2. SessionCache = CacheOf(heap)
  BY DEF SessionCache, CacheOf
<1>3. ASSUME IInv PROVE Good(infos, requests, heap, received)
  BY <1>1, <1>2, <1>3
  DEF IInv, TypeOK, SessionIsShared, NothingForgotten, CachesHaveTheDisk, RequestsAreDistinct,
      Good, InfosGood, RequestsGood, Distinct, HeapGood, Kept
<1>4. ASSUME Good(infos, requests, heap, received) PROVE IInv
  BY <1>1, <1>2, <1>4
  DEF IInv, TypeOK, SessionIsShared, NothingForgotten, CachesHaveTheDisk, RequestsAreDistinct,
      Good, InfosGood, RequestsGood, Distinct, HeapGood, Kept
<1> QED BY <1>3, <1>4

(* The same of the next state.                                             *)
LEMMA NextInvIsGood == IInv' <=> Good(infos', requests', heap', received')
<1>1. \A s \in Session :
        Count(infos', requests')[s] = (Cardinality(Users(s)) + Cardinality(InFlight(s)))'
  BY DEF Count, Users, InFlight, UsersOf, InFlightOf
<1>2. SessionCache' = CacheOf(heap')
  BY DEF SessionCache, CacheOf
<1>3. ASSUME IInv' PROVE Good(infos', requests', heap', received')
  BY <1>1, <1>2, <1>3
  DEF IInv, TypeOK, SessionIsShared, NothingForgotten, CachesHaveTheDisk, RequestsAreDistinct,
      Good, InfosGood, RequestsGood, Distinct, HeapGood, Kept
<1>4. ASSUME Good(infos', requests', heap', received') PROVE IInv'
  BY <1>1, <1>2, <1>4
  DEF IInv, TypeOK, SessionIsShared, NothingForgotten, CachesHaveTheDisk, RequestsAreDistinct,
      Good, InfosGood, RequestsGood, Distinct, HeapGood, Kept
<1> QED BY <1>3, <1>4

-----------------------------------------------------------------------------
(* References *)

(* A new session, made where there is none, has one reference and all of   *)
(* the disk, if it has a cache.                                            *)
LEMMA NewSessionIsGood ==
  ASSUME NEW h, NEW u \in [Session -> Nat], HeapGood(h, u), h.static = NoSession,
         NEW s \in Session, NEW identity \in Identity \cup {NoIdentity},
         NEW h2 \in NewSession(h, s, identity)
  PROVE  /\ h2.static = s
         /\ h2.session[s].agent = identity
         /\ HeapGood(h2, Plus(u, s, 1))
         /\ Kept(h) \subseteq Kept(h2)
<1>1. PICK hasCache \in BOOLEAN :
        h2 = [h EXCEPT !.session[s] = [refs |-> 1, agent |-> identity, hasCache |-> hasCache,
                                       cache |-> IF hasCache THEN h.disk ELSE {}],
                       !.static = s]
  BY DEF NewSession
<1>2. h \in Heap /\ s # NoSession
  BY SharedSessionAssumption DEF HeapGood
<1>3. /\ h2.static = s
      /\ h2.disk = h.disk
      /\ h2.session = [h.session EXCEPT ![s] = [refs |-> 1, agent |-> identity, hasCache |-> hasCache,
                                       cache |-> IF hasCache THEN h.disk ELSE {}]]
  BY <1>1, <1>2 DEF Heap
<1>4. h2 \in Heap
  BY <1>1, <1>2 DEF Heap, SessionState
<1>5. /\ h2.session[s] = [refs |-> 1, agent |-> identity, hasCache |-> hasCache,
                          cache |-> IF hasCache THEN h.disk ELSE {}]
      /\ \A t \in Session : t # s => h2.session[t] = h.session[t]
  BY <1>2, <1>3 DEF Heap
<1>6. \A t \in Session : h.session[t].refs = 0 /\ u[t] = 0 /\ ~h.session[t].hasCache
  BY <1>2, SharedSessionAssumption DEF HeapGood, Live, Heap, SessionState
<1>7. HeapGood(h2, Plus(u, s, 1))
  <2> SUFFICES ASSUME NEW t \in Session
               PROVE  /\ h2.session[t].refs = Plus(u, s, 1)[t]
                      /\ h2.session[t].refs > 0 <=> h2.static = t
                      /\ h2.session[t].hasCache => /\ h2.session[t].refs > 0
                                                   /\ h2.disk \subseteq h2.session[t].cache
                      /\ ~h2.session[t].hasCache => h2.session[t].cache = {}
    BY <1>4 DEF HeapGood, Live
  <2>1. CASE t = s
    BY <2>1, <1>3, <1>5, <1>6 DEF Plus
  <2>2. CASE t # s
    BY <2>2, <1>3, <1>5, <1>6 DEF HeapGood, Plus
  <2> QED BY <2>1, <2>2
<1>8. Kept(h) \subseteq Kept(h2)
  BY <1>3 DEF Kept, CacheOf
<1> QED BY <1>3, <1>5, <1>7, <1>8

(* More references to a session that lives.                                *)
LEMMA MoreRefsAreGood ==
  ASSUME NEW h, NEW u \in [Session -> Nat], HeapGood(h, u),
         NEW s \in Session, h.static = s, NEW n \in Nat
  PROVE  /\ HeapGood(MoreRefs(h, s, n), Plus(u, s, n))
         /\ Kept(MoreRefs(h, s, n)) = Kept(h)
<1> DEFINE h2 == MoreRefs(h, s, n)
<1>2. h \in Heap /\ s # NoSession /\ h.session[s] \in SessionState
  BY SharedSessionAssumption DEF HeapGood, Heap
<1>3. /\ h2.static = s
      /\ h2.disk = h.disk
      /\ h2.session = [h.session EXCEPT ![s] = [h.session[s] EXCEPT !.refs = @ + n]]
  BY <1>2 DEF Heap, MoreRefs
<1>4. [h.session[s] EXCEPT !.refs = @ + n] \in SessionState
  BY <1>2 DEF SessionState
<1>5. h2 \in Heap
  BY <1>2, <1>4 DEF Heap, MoreRefs
<1>6. /\ h2.session[s].refs = h.session[s].refs + n
      /\ h2.session[s].cache = h.session[s].cache
      /\ h2.session[s].hasCache = h.session[s].hasCache
      /\ \A t \in Session : t # s => h2.session[t] = h.session[t]
  BY <1>2, <1>3 DEF Heap, SessionState
<1>7. HeapGood(h2, Plus(u, s, n))
  <2> SUFFICES ASSUME NEW t \in Session
               PROVE  /\ h2.session[t].refs = Plus(u, s, n)[t]
                      /\ h2.session[t].refs > 0 <=> h2.static = t
                      /\ h2.session[t].hasCache => /\ h2.session[t].refs > 0
                                                   /\ h2.disk \subseteq h2.session[t].cache
                      /\ ~h2.session[t].hasCache => h2.session[t].cache = {}
    BY <1>5 DEF HeapGood, Live
  <2> HIDE DEF h2
  <2>1. CASE t = s
    <3>1. h.session[s].refs = u[s] /\ u[s] \in Nat /\ u[s] > 0
      BY DEF HeapGood, Live
    <3> QED BY <2>1, <3>1, <1>3, <1>6 DEF HeapGood, Live, Plus
  <2>2. CASE t # s
    BY <2>2, <1>3, <1>6 DEF HeapGood, Live, Plus
  <2> QED BY <2>1, <2>2
<1>8. Kept(h2) = Kept(h)
  BY <1>2, <1>3, <1>6 DEF Kept, CacheOf
<1> QED BY <1>7, <1>8

(* ref_session takes one reference, to the static session of its result.   *)
LEMMA RefSessionIsGood ==
  ASSUME NEW h, NEW u \in [Session -> Nat], HeapGood(h, u),
         NEW identity \in Identity \cup {NoIdentity}, NEW h2 \in RefSession(h, identity)
  PROVE  /\ h2.static \in Session
         /\ HeapGood(h2, Plus(u, h2.static, 1))
         /\ Kept(h) \subseteq Kept(h2)
         /\ h.static = NoSession => h2.session[h2.static].agent = identity
<1>1. CASE h.static = NoSession
  <2>1. PICK s \in Session : h2 \in NewSession(h, s, identity)
    BY <1>1 DEF RefSession
  <2>2. /\ h2.static = s
        /\ h2.session[s].agent = identity
        /\ HeapGood(h2, Plus(u, s, 1))
        /\ Kept(h) \subseteq Kept(h2)
    BY <1>1, <2>1, NewSessionIsGood
  <2> QED BY <2>2
<1>2. CASE h.static # NoSession
  <2>1. h2 = Ref(h, h.static) /\ h.static \in Session /\ h \in Heap
    BY <1>2 DEF RefSession, HeapGood, Heap
  <2>2. h2.static = h.static
    BY <2>1 DEF Ref, Heap
  <2>3. h2 = MoreRefs(h, h.static, 1)
    BY <2>1 DEF Ref, MoreRefs
  <2>4. PICK s \in Session, one \in Nat : s = h.static /\ one = 1
    BY <2>1
  <2>5. /\ HeapGood(MoreRefs(h, s, one), Plus(u, s, one))
        /\ Kept(MoreRefs(h, s, one)) = Kept(h)
    BY <2>4, MoreRefsAreGood
  <2> QED BY <1>2, <2>1, <2>2, <2>3, <2>4, <2>5
<1> QED BY <1>1, <1>2

(* g_object_unref drops one reference, and with the last one the cache is  *)
(* dumped, which loses nothing.                                            *)
LEMMA UnrefIsGood ==
  ASSUME NEW h, NEW u \in [Session -> Nat], HeapGood(h, u), NEW s \in Session, u[s] > 0
  PROVE  /\ HeapGood(Unref(h, s), Less(u, s))
         /\ Less(u, s) \in [Session -> Nat]
         /\ Kept(h) \subseteq Kept(Unref(h, s))
         /\ u[s] = 1 => Unref(h, s).static = NoSession
<1> DEFINE h2 == Unref(h, s)
           v == Less(u, s)
<1>1. /\ h \in Heap /\ s # NoSession /\ h.static = s
      /\ h.session[s] \in SessionState /\ h.session[s].refs = u[s] /\ u[s] \in Nat
  BY SharedSessionAssumption DEF HeapGood, Heap, Live
<1>2. v \in [Session -> Nat] /\ v[s] = u[s] - 1 /\ \A t \in Session : t # s => v[t] = u[t]
  BY <1>1 DEF Less
<1>3. \A t \in Session : t # s => h.session[t].refs = 0 /\ ~h.session[t].hasCache
                                  /\ h.session[t].cache = {} /\ u[t] = 0
  BY <1>1 DEF HeapGood, Live
<1>4. CASE u[s] > 1
  <2>1. h2 = [h EXCEPT !.session[s].refs = @ - 1]
    BY <1>1, <1>4 DEF Unref
  <2>2. [h.session[s] EXCEPT !.refs = @ - 1] \in SessionState
    BY <1>1, <1>4 DEF SessionState
  <2>3. /\ h2.static = s
        /\ h2.disk = h.disk
        /\ h2 \in Heap
    BY <1>1, <2>1, <2>2 DEF Heap
  <2>4. /\ h2.session[s].refs = u[s] - 1
        /\ h2.session[s].cache = h.session[s].cache
        /\ h2.session[s].hasCache = h.session[s].hasCache
        /\ \A t \in Session : t # s => h2.session[t] = h.session[t]
    BY <1>1, <2>1 DEF Heap, SessionState
  <2> HIDE DEF h2, v
  <2>5. HeapGood(h2, v)
    BY <1>1, <1>2, <1>3, <1>4, <2>3, <2>4 DEF HeapGood, Live
  <2>6. Kept(h2) = Kept(h)
    BY <1>1, <2>3, <2>4 DEF Kept, CacheOf
  <2> QED BY <1>2, <1>4, <2>5, <2>6 DEF h2, v
<1>5. CASE u[s] = 1
  <2>1. h2 = [session |-> [h.session EXCEPT ![s] = Freed], static |-> NoSession,
              disk |-> IF h.session[s].hasCache THEN h.session[s].cache ELSE h.disk]
    BY <1>1, <1>5 DEF Unref, Finalize
  <2>2. /\ h2.static = NoSession
        /\ h2.disk = IF h.session[s].hasCache THEN h.session[s].cache ELSE h.disk
        /\ h2.session[s] = Freed
        /\ \A t \in Session : t # s => h2.session[t] = h.session[t]
    BY <1>1, <2>1 DEF Heap
  <2>3. h2 \in Heap
    BY <1>1, <2>1 DEF Heap, SessionState, Freed
  <2> HIDE DEF h2, v
  <2>4. HeapGood(h2, v)
    <3> SUFFICES ASSUME NEW t \in Session
                 PROVE  /\ h2.session[t].refs = v[t]
                        /\ ~(h2.session[t].refs > 0)
                        /\ h2.static # t
                        /\ ~h2.session[t].hasCache
                        /\ h2.session[t].cache = {}
      BY <2>3 DEF HeapGood, Live
    <3>1. CASE t = s
      BY <3>1, <1>1, <1>2, <1>5, <2>2 DEF Freed
    <3>2. CASE t # s
      BY <3>2, <1>2, <1>3, <2>2, SharedSessionAssumption
    <3> QED BY <3>1, <3>2
  <2>5. Kept(h) \subseteq Kept(h2)
    BY <1>1, <2>2 DEF Kept, CacheOf, HeapGood
  <2> QED BY <1>2, <2>2, <2>4, <2>5 DEF h2, v
<1> QED BY <1>1, <1>4, <1>5

-----------------------------------------------------------------------------
(* Counting users *)

(* There are finitely many users.                                          *)
LEMMA UsersAreFinite ==
  ASSUME NEW f, NEW s
  PROVE  IsFiniteSet(UsersOf(f, s)) /\ Cardinality(UsersOf(f, s)) \in Nat
<1>1. UsersOf(f, s) \in SUBSET Info
  BY DEF UsersOf
<1> QED BY <1>1, SharedSessionAssumption, FS_Subset, FS_CardinalityType

(* There are finitely many requests in flight.                             *)
LEMMA InFlightIsFinite ==
  ASSUME NEW R, IsFiniteSet(R), NEW s
  PROVE  IsFiniteSet(InFlightOf(R, s)) /\ Cardinality(InFlightOf(R, s)) \in Nat
<1>1. InFlightOf(R, s) \in SUBSET R
  BY DEF InFlightOf
<1> QED BY <1>1, FS_Subset, FS_CardinalityType

(* Counts are numbers.                                                     *)
LEMMA CountType ==
  ASSUME NEW f, NEW R, IsFiniteSet(R)
  PROVE  Count(f, R) \in [Session -> Nat]
BY UsersAreFinite, InFlightIsFinite DEF Count

(* Infos that have the same sessions count the same.                       *)
LEMMA SameUsers ==
  ASSUME NEW f, NEW g, \A i \in Info : g[i].session = f[i].session, NEW R
  PROVE  Count(g, R) = Count(f, R)
<1>1. \A s \in Session : UsersOf(g, s) = UsersOf(f, s)
  BY DEF UsersOf
<1> QED BY <1>1 DEF Count

(* An object without session gets one.                                     *)
LEMMA OneUserMore ==
  ASSUME NEW f, NEW g, NEW i \in Info, NEW s \in Session,
         \A j \in Info : j # i => g[j].session = f[j].session,
         f[i].session = NoSession, g[i].session = s,
         NEW R, IsFiniteSet(R)
  PROVE  Count(g, R) = Plus(Count(f, R), s, 1)
<1> SUFFICES ASSUME NEW t \in Session
             PROVE  Count(g, R)[t] = Plus(Count(f, R), s, 1)[t]
  BY DEF Count, Plus
<1>1. CASE t = s
  <2>1. UsersOf(g, s) = UsersOf(f, s) \cup {i} /\ i \notin UsersOf(f, s)
    BY SharedSessionAssumption DEF UsersOf
  <2>2. Cardinality(UsersOf(g, s)) = Cardinality(UsersOf(f, s)) + 1
    BY <2>1, UsersAreFinite, FS_AddElement
  <2> QED BY <1>1, <2>2, UsersAreFinite, InFlightIsFinite DEF Count, Plus
<1>2. CASE t # s
  <2>1. UsersOf(g, t) = UsersOf(f, t)
    BY <1>2, SharedSessionAssumption DEF UsersOf
  <2> QED BY <1>2, <2>1 DEF Count, Plus
<1> QED BY <1>1, <1>2

(* An object loses its session.                                            *)
LEMMA OneUserLess ==
  ASSUME NEW f, NEW g, NEW i \in Info, NEW s \in Session,
         \A j \in Info : j # i => g[j].session = f[j].session,
         f[i].session = s, g[i].session = NoSession,
         NEW R, IsFiniteSet(R)
  PROVE  /\ Count(g, R) = Less(Count(f, R), s)
         /\ Count(f, R)[s] > 0
<1>1. UsersOf(g, s) = UsersOf(f, s) \ {i} /\ i \in UsersOf(f, s)
  BY SharedSessionAssumption DEF UsersOf
<1>2. Cardinality(UsersOf(g, s)) = Cardinality(UsersOf(f, s)) - 1
  <2>1. IsFiniteSet(UsersOf(f, s))
    BY UsersAreFinite
  <2>2. Cardinality(UsersOf(f, s) \ {i}) = Cardinality(UsersOf(f, s)) - 1
    BY <1>1, <2>1, FS_RemoveElement
  <2> QED BY <1>1, <2>2
<1>3. Count(f, R)[s] > 0
  BY <1>2, UsersAreFinite, InFlightIsFinite DEF Count
<1>4. ASSUME NEW t \in Session
      PROVE  Count(g, R)[t] = Less(Count(f, R), s)[t]
  <2>1. CASE t = s
    BY <2>1, <1>2, UsersAreFinite, InFlightIsFinite DEF Count, Less
  <2>2. CASE t # s
    <3>1. UsersOf(g, t) = UsersOf(f, t)
      BY <2>2, SharedSessionAssumption DEF UsersOf
    <3> QED BY <2>2, <3>1 DEF Count, Less
  <2> QED BY <2>1, <2>2
<1>5. Count(g, R) = Less(Count(f, R), s)
  BY <1>4 DEF Count, Less
<1> QED BY <1>3, <1>5

-----------------------------------------------------------------------------
(* Counting requests *)

(* Requests that only change their progress stay as many.                  *)
LEMMA RequestsMove ==
  ASSUME NEW R, RequestsGood(R), NEW move \in [R -> Request],
         \A q \in R : /\ move[q].info = q.info
                      /\ move[q].resource = q.resource
                      /\ move[q].session = q.session,
         NEW f
  PROVE  LET R2 == {move[q] : q \in R}
         IN  RequestsGood(R2) /\ Count(f, R2) = Count(f, R)
<1> DEFINE R2 == {move[q] : q \in R}
<1>1. R2 \subseteq Request /\ Distinct(R2)
  BY DEF RequestsGood, Distinct
<1>2. \A q, r \in R : move[q] = move[r] => q = r
  BY DEF RequestsGood, Distinct
<1>3. ASSUME NEW S, S \subseteq R, NEW T, T = {move[q] : q \in S}
      PROVE  IsFiniteSet(T) /\ Cardinality(T) = Cardinality(S)
  <2>1. IsFiniteSet(S)
    BY <1>3, FS_Subset DEF RequestsGood
  <2>2. [q \in S |-> move[q]] \in Bijection(S, T)
    BY <1>2, <1>3 DEF Bijection, Injection, Surjection, IsInjective
  <2>3. ExistsBijection(S, T)
    BY <2>2 DEF ExistsBijection
  <2> QED BY <2>1, <2>3, FS_Bijection
<1>4. RequestsGood(R2)
  BY <1>1, <1>3 DEF RequestsGood
<1>5. ASSUME NEW s \in Session
      PROVE  Cardinality(InFlightOf(R2, s)) = Cardinality(InFlightOf(R, s))
  <2>1. InFlightOf(R, s) \subseteq R
    BY DEF InFlightOf
  <2>2. InFlightOf(R2, s) = {move[q] : q \in InFlightOf(R, s)}
    BY DEF InFlightOf
  <2> QED BY <1>3, <2>1, <2>2
<1> QED BY <1>4, <1>5 DEF Count

(* Requests begin.                                                         *)
LEMMA RequestsBegin ==
  ASSUME NEW R, RequestsGood(R), NEW i \in Info, NEW s \in Session, NEW f,
         NEW asked \in SUBSET (Resource \ {q.resource : q \in {r \in R : r.info = i}})
  PROVE  LET R2 == R \cup Begun(i, s, asked)
         IN  /\ RequestsGood(R2)
             /\ Cardinality(asked) \in Nat
             /\ Count(f, R2) = Plus(Count(f, R), s, Cardinality(asked))
<1> DEFINE begun(r) == [info |-> i, resource |-> r, session |-> s,
                        arrived |-> FALSE, cancelled |-> FALSE]
           new == Begun(i, s, asked)
           R2 == R \cup new
<1>1. IsFiniteSet(asked) /\ Cardinality(asked) \in Nat
  BY SharedSessionAssumption, FS_Subset, FS_CardinalityType
<1>2. IsFiniteSet(new) /\ Cardinality(new) = Cardinality(asked)
  <2>1. [r \in asked |-> begun(r)] \in Bijection(asked, new)
    BY DEF Bijection, Injection, Surjection, IsInjective, Begun
  <2>2. ExistsBijection(asked, new)
    BY <2>1 DEF ExistsBijection
  <2> QED BY <1>1, <2>2, FS_Bijection
<1>3. \A q \in new : /\ q \in Request
                     /\ q.info = i /\ q.session = s
                     /\ q.resource \in asked
                     /\ q = begun(q.resource)
  <2> SUFFICES ASSUME NEW r \in asked
               PROVE  /\ begun(r) \in Request
                      /\ begun(r).info = i /\ begun(r).session = s
                      /\ begun(r).resource = r
    BY DEF Begun
  <2>1. r \in Resource
    OBVIOUS
  <2> QED BY <2>1 DEF Request
<1>4. \A q \in R, r \in new : ~(q.info = r.info /\ q.resource = r.resource)
  BY <1>3
<1> HIDE DEF new
<1>5. RequestsGood(R2)
  <2>1. IsFiniteSet(R2)
    BY <1>2, FS_Union DEF RequestsGood
  <2>2. R2 \subseteq Request
    BY <1>3 DEF RequestsGood
  <2>3. Distinct(R2)
    BY <1>3, <1>4 DEF RequestsGood, Distinct
  <2> QED BY <2>1, <2>2, <2>3 DEF RequestsGood
<1>6. ASSUME NEW t \in Session
      PROVE  Count(f, R2)[t] = Plus(Count(f, R), s, Cardinality(asked))[t]
  <2>1. CASE t = s
    <3>1. InFlightOf(R2, s) = InFlightOf(R, s) \cup new
      BY <1>3 DEF InFlightOf
    <3>2. InFlightOf(R, s) \cap new = {}
      BY <1>4 DEF InFlightOf
    <3>3. IsFiniteSet(InFlightOf(R, s)) /\ Cardinality(InFlightOf(R, s)) \in Nat
      BY InFlightIsFinite DEF RequestsGood
    <3>4. Cardinality(InFlightOf(R2, s)) = Cardinality(InFlightOf(R, s)) + Cardinality(asked)
      <4>1. Cardinality(InFlightOf(R, s) \cup new) =
              Cardinality(InFlightOf(R, s)) + Cardinality(new)
                - Cardinality(InFlightOf(R, s) \cap new)
        BY <1>2, <3>3, FS_Union
      <4>2. Cardinality(InFlightOf(R, s) \cap new) = 0
        BY <3>2, FS_EmptySet
      <4>3. Cardinality(InFlightOf(R, s) \cup new) =
              Cardinality(InFlightOf(R, s)) + Cardinality(new)
        BY <1>1, <1>2, <3>3, <4>1, <4>2
      <4> QED BY <1>2, <3>1, <4>3
    <3> QED BY <1>1, <2>1, <3>3, <3>4, UsersAreFinite DEF Count, Plus
  <2>2. CASE t # s
    <3>1. InFlightOf(R2, t) = InFlightOf(R, t)
      BY <1>3, <2>2 DEF InFlightOf
    <3> QED BY <2>2, <3>1 DEF Count, Plus
  <2> QED BY <2>1, <2>2
<1>7. Count(f, R2) = Plus(Count(f, R), s, Cardinality(asked))
  BY <1>6 DEF Count, Plus
<1> QED BY <1>1, <1>5, <1>7 DEF new

(* A request ends.                                                         *)
LEMMA RequestEnds ==
  ASSUME NEW R, RequestsGood(R), NEW q \in R, NEW f
  PROVE  /\ RequestsGood(R \ {q})
         /\ q.session \in Session
         /\ Count(f, R \ {q}) = Less(Count(f, R), q.session)
         /\ Count(f, R)[q.session] > 0
<1> DEFINE s == q.session
<1>1. RequestsGood(R \ {q})
  BY FS_RemoveElement DEF RequestsGood, Distinct
<1>2. s \in Session
  BY DEF RequestsGood, Request
<1>3. InFlightOf(R \ {q}, s) = InFlightOf(R, s) \ {q} /\ q \in InFlightOf(R, s)
  BY DEF InFlightOf
<1>4. IsFiniteSet(InFlightOf(R, s)) /\ Cardinality(InFlightOf(R, s)) \in Nat
      /\ Cardinality(InFlightOf(R \ {q}, s)) \in Nat
  BY <1>1, InFlightIsFinite DEF RequestsGood
<1>5. Cardinality(InFlightOf(R \ {q}, s)) = Cardinality(InFlightOf(R, s)) - 1
  BY <1>3, <1>4, FS_RemoveElement
<1> HIDE DEF s
<1>6. Count(f, R)[s] > 0
  BY <1>2, <1>4, <1>5, UsersAreFinite DEF Count
<1>7. ASSUME NEW t \in Session
      PROVE  Count(f, R \ {q})[t] = Less(Count(f, R), s)[t]
  <2>1. CASE t = s
    BY <1>4, <1>5, <2>1, UsersAreFinite DEF Count, Less
  <2>2. CASE t # s
    <3>1. InFlightOf(R \ {q}, t) = InFlightOf(R, t)
      BY <2>2 DEF InFlightOf, s
    <3> QED BY <2>2, <3>1 DEF Count, Less
  <2> QED BY <2>1, <2>2
<1>8. Count(f, R \ {q}) = Less(Count(f, R), s)
  BY <1>7 DEF Count, Less
<1> QED BY <1>1, <1>2, <1>6, <1>8 DEF s

-----------------------------------------------------------------------------
(* The invariant *)

(* Nothing lives at first.                                                 *)
LEMMA InitIsGood == Init => Good(infos, requests, heap, received)
<1> SUFFICES ASSUME Init PROVE Good(infos, requests, heap, received)
  OBVIOUS
<1>1. InfosGood(infos)
  BY DEF Init, InfosGood, InfoState, NoInfo
<1>2. RequestsGood(requests)
  BY FS_EmptySet DEF Init, RequestsGood, Distinct
<1>3. \A s \in Session : Count(infos, requests)[s] = 0
  <2> SUFFICES ASSUME NEW s \in Session PROVE Count(infos, requests)[s] = 0
    OBVIOUS
  <2>1. UsersOf(infos, s) = {} /\ InFlightOf(requests, s) = {}
    BY SharedSessionAssumption DEF Init, NoInfo, UsersOf, InFlightOf
  <2> QED BY <2>1, FS_EmptySet DEF Count
<1>4. /\ heap \in Heap
      /\ heap.static = NoSession
      /\ \A s \in Session : heap.session[s] = Freed
  <2>1. PICK disk \in SUBSET Resource :
          heap = [session |-> [s \in Session |-> Freed], static |-> NoSession, disk |-> disk]
    BY DEF Init
  <2>2. Freed \in SessionState
    BY DEF Freed, SessionState
  <2> QED BY <2>1, <2>2 DEF Heap
<1>5. HeapGood(heap, Count(infos, requests))
  BY <1>3, <1>4, SharedSessionAssumption DEF HeapGood, Freed, Live
<1> QED BY <1>1, <1>2, <1>5 DEF Good, Init

(* A crash leaves only the disk.                                           *)
LEMMA CrashIsGood ==
  Good(infos, requests, heap, received) /\ Crash => Good(infos', requests', heap', received')
<1> SUFFICES ASSUME Good(infos, requests, heap, received), Crash
             PROVE  Good(infos', requests', heap', received')
  OBVIOUS
<1>1. InfosGood(infos')
  BY DEF Crash, InfosGood, InfoState, NoInfo
<1>2. RequestsGood(requests')
  BY FS_EmptySet DEF Crash, RequestsGood, Distinct
<1>3. \A s \in Session : Count(infos', requests')[s] = 0
  <2> SUFFICES ASSUME NEW s \in Session PROVE Count(infos', requests')[s] = 0
    OBVIOUS
  <2>1. UsersOf(infos', s) = {} /\ InFlightOf(requests', s) = {}
    BY SharedSessionAssumption DEF Crash, NoInfo, UsersOf, InFlightOf
  <2> QED BY <2>1, FS_EmptySet DEF Count
<1>4. heap.disk \subseteq Resource
  BY DEF Good, HeapGood, Heap
<1>5. HeapGood(heap', Count(infos', requests'))
  BY <1>3, <1>4, SharedSessionAssumption DEF Crash, HeapGood, Heap, SessionState, Freed, Live
<1> QED BY <1>1, <1>2, <1>5 DEF Good, Crash

(* gweather_info_new takes no session.                                     *)
LEMMA NewIsGood ==
  ASSUME NEW i \in Info
  PROVE  Good(infos, requests, heap, received) /\ New(i)
         => Good(infos', requests', heap', received')
<1> SUFFICES ASSUME Good(infos, requests, heap, received), New(i)
             PROVE  Good(infos', requests', heap', received')
  OBVIOUS
<1>1. InfosGood(infos') /\ \A j \in Info : infos'[j].session = infos[j].session
  BY DEF New, Good, InfosGood, InfoState
<1>2. Count(infos', requests) = Count(infos, requests)
  BY <1>1, SameUsers
<1> QED BY <1>1, <1>2 DEF New, Good

(* Abort and Dispose cancel what is pending.                               *)
LEMMA CancelIsGood ==
  ASSUME NEW i \in Info, RequestsGood(requests), NEW f
  PROVE  LET R2 == (requests \ Pending(i)) \cup Cancelled(i)
         IN  RequestsGood(R2) /\ Count(f, R2) = Count(f, requests)
<1> DEFINE move == [q \in requests |-> IF q \in Pending(i) THEN [q EXCEPT !.cancelled = TRUE] ELSE q]
<1>1. move \in [requests -> Request]
  BY DEF RequestsGood, Request
<1>2. \A q \in requests : /\ move[q].info = q.info
                          /\ move[q].resource = q.resource
                          /\ move[q].session = q.session
  BY DEF RequestsGood, Request
<1>3. (requests \ Pending(i)) \cup Cancelled(i) = {move[q] : q \in requests}
  BY DEF Pending, Cancelled
<1> HIDE DEF move
<1>4. /\ RequestsGood({move[q] : q \in requests})
      /\ Count(f, {move[q] : q \in requests}) = Count(f, requests)
  BY <1>1, <1>2, RequestsMove
<1> QED BY <1>3, <1>4

(* gweather_info_abort keeps all references.                               *)
LEMMA AbortIsGood ==
  ASSUME NEW i \in Info
  PROVE  Good(infos, requests, heap, received) /\ Abort(i)
         => Good(infos', requests', heap', received')
<1> SUFFICES ASSUME Good(infos, requests, heap, received), Abort(i)
             PROVE  Good(infos', requests', heap', received')
  OBVIOUS
<1>1. RequestsGood(requests') /\ Count(infos, requests') = Count(infos, requests)
  BY CancelIsGood DEF Abort, Good
<1> QED BY <1>1 DEF Abort, Good

(* gweather_info_dispose drops one reference.                              *)
LEMMA DisposeIsGood ==
  ASSUME NEW i \in Info
  PROVE  Good(infos, requests, heap, received) /\ Dispose(i)
         => Good(infos', requests', heap', received')
<1> SUFFICES ASSUME Good(infos, requests, heap, received), Dispose(i)
             PROVE  Good(infos', requests', heap', received')
  OBVIOUS
<1> DEFINE u == Count(infos, requests)
<1>1. RequestsGood(requests') /\ Count(infos', requests') = Count(infos', requests)
  BY CancelIsGood DEF Dispose, Good
<1>2. /\ InfosGood(infos')
      /\ infos'[i].session = NoSession
      /\ \A j \in Info : j # i => infos'[j] = infos[j]
  BY DEF Dispose, Good, InfosGood, InfoState, NoInfo
<1>3. heap' = Unref(heap, infos[i].session) /\ received' = received
  BY DEF Dispose
<1>4. CASE infos[i].session = NoSession
  <2>1. heap' = heap
    BY <1>3, <1>4 DEF Unref
  <2>2. Count(infos', requests) = u
    BY <1>2, <1>4, SameUsers
  <2> QED BY <1>1, <1>2, <1>3, <2>1, <2>2 DEF Good
<1>5. CASE infos[i].session # NoSession
  <2>1. PICK s \in Session : s = infos[i].session
    BY <1>5 DEF Good, InfosGood, InfoState
  <2>2. Count(infos', requests) = Less(u, s) /\ u[s] > 0
    BY <1>2, <2>1, OneUserLess DEF Good, RequestsGood
  <2>3. u \in [Session -> Nat] /\ HeapGood(heap, u)
    BY CountType DEF Good, RequestsGood
  <2> HIDE DEF u
  <2>4. HeapGood(heap', Count(infos', requests)) /\ Kept(heap) \subseteq Kept(heap')
    BY <1>3, <2>1, <2>2, <2>3, UnrefIsGood
  <2> QED BY <1>1, <1>2, <1>3, <2>4 DEF Good
<1> QED BY <1>4, <1>5

(* No object but i gets or loses a session.                                *)
Only(i, f, g) == \A j \in Info : j # i => g[j].session = f[j].session

(* What ref_session does to an object without session.                     *)
LEMMA TakingIsGood ==
  ASSUME NEW f, NEW g, NEW i \in Info, f[i].session = NoSession, Only(i, f, g),
         NEW R, IsFiniteSet(R),
         NEW h, HeapGood(h, Count(f, R)),
         NEW identity \in Identity \cup {NoIdentity},
         NEW h2 \in RefSession(h, identity), g[i].session = h2.static
  PROVE  /\ h2.static \in Session
         /\ HeapGood(h2, Count(g, R))
         /\ Kept(h) \subseteq Kept(h2)
         /\ h.static = NoSession => h2.session[h2.static].agent = identity
<1> DEFINE u == Count(f, R)
<1>1. u \in [Session -> Nat]
  BY CountType
<1> HIDE DEF u
<1>2. HeapGood(h, u)
  BY DEF u
<1>3. /\ h2.static \in Session
      /\ HeapGood(h2, Plus(u, h2.static, 1))
      /\ Kept(h) \subseteq Kept(h2)
      /\ h.static = NoSession => h2.session[h2.static].agent = identity
  BY <1>1, <1>2, RefSessionIsGood
<1>4. Count(g, R) = Plus(u, h2.static, 1)
  BY <1>3, OneUserMore DEF u, Only
<1> QED BY <1>3, <1>4

(* An update takes a session, and a reference for each of its requests.    *)
LEMMA UpdateIsGood ==
  ASSUME NEW i \in Info
  PROVE  Good(infos, requests, heap, received) /\ Update(i)
         => Good(infos', requests', heap', received')
<1> SUFFICES ASSUME Good(infos, requests, heap, received), Update(i)
             PROVE  Good(infos', requests', heap', received')
  OBVIOUS
<1>1. PICK asked \in SUBSET (Resource \ {q.resource : q \in {r \in requests : r.info = i}}),
           h \in IF infos[i].session = NoSession
                 THEN RefSession(heap, infos[i].identity) ELSE {heap} :
        /\ infos' = [infos EXCEPT ![i].session = h.static]
        /\ requests' = requests \cup Begun(i, h.static, asked)
        /\ heap' = MoreRefs(h, h.static, Cardinality(asked))
        /\ received' = received
  BY DEF Update, Begun, MoreRefs
<1>2. /\ infos \in [Info -> InfoState] /\ InfosGood(infos)
      /\ infos[i] \in InfoState /\ infos[i].alive
      /\ RequestsGood(requests) /\ IsFiniteSet(requests)
      /\ HeapGood(heap, Count(infos, requests))
  BY DEF Good, InfosGood, RequestsGood, Update
<1>3. /\ infos'[i] = [infos[i] EXCEPT !.session = h.static]
      /\ infos'[i].session = h.static
      /\ \A j \in Info : j # i => infos'[j] = infos[j]
  BY <1>1, <1>2 DEF InfoState
<1>4. /\ h.static \in Session
      /\ HeapGood(h, Count(infos', requests))
      /\ Kept(heap) \subseteq Kept(h)
  <2>1. CASE infos[i].session = NoSession
    <3>1. h \in RefSession(heap, infos[i].identity)
          /\ infos[i].identity \in Identity \cup {NoIdentity}
      BY <1>1, <1>2, <2>1 DEF InfoState
    <3>2. Only(i, infos, infos')
      BY <1>3 DEF Only
    <3>3. \A g : Only(i, infos, g) /\ g[i].session = h.static
              => /\ h.static \in Session
                 /\ HeapGood(h, Count(g, requests))
                 /\ Kept(heap) \subseteq Kept(h)
      BY <1>2, <2>1, <3>1, TakingIsGood
    <3> QED BY <1>3, <3>2, <3>3
  <2>2. CASE infos[i].session # NoSession
    <3>1. PICK s \in Session : s = infos[i].session
      BY <1>2, <2>2 DEF InfoState
    <3>2. h = heap
      BY <1>1, <2>2
    <3>3. Count(infos, requests)[s] > 0
      <4>1. i \in UsersOf(infos, s)
        BY <3>1 DEF UsersOf
      <4>2. Cardinality(UsersOf(infos, s)) # 0
        BY <4>1, UsersAreFinite, FS_EmptySet
      <4> QED BY <1>2, <4>2, UsersAreFinite, InFlightIsFinite DEF Count
    <3>4. h.static = s
      BY <1>2, <3>2, <3>3 DEF HeapGood, Live
    <3>5. \A j \in Info : infos'[j].session = infos[j].session
      BY <1>3, <3>1, <3>4
    <3>6. Count(infos', requests) = Count(infos, requests)
      BY <3>5, SameUsers
    <3> QED BY <1>2, <3>2, <3>4, <3>6
  <2> QED BY <2>1, <2>2
<1>5. PICK s \in Session : s = h.static
  BY <1>4
<1>6. /\ RequestsGood(requests')
      /\ Cardinality(asked) \in Nat
      /\ Count(infos', requests') = Plus(Count(infos', requests), s, Cardinality(asked))
  BY <1>1, <1>2, <1>5, RequestsBegin
<1>7. HeapGood(heap', Count(infos', requests')) /\ Kept(heap') = Kept(h)
  <2> DEFINE u == Count(infos', requests)
  <2>1. u \in [Session -> Nat]
    BY <1>2, CountType
  <2> HIDE DEF u
  <2>2. HeapGood(h, u) /\ Count(infos', requests') = Plus(u, s, Cardinality(asked))
    BY <1>4, <1>6 DEF u
  <2>3. heap' = MoreRefs(h, s, Cardinality(asked))
    BY <1>1, <1>5
  <2> QED BY <1>5, <1>6, <2>1, <2>2, <2>3, MoreRefsAreGood
<1>8. InfosGood(infos')
  BY <1>1, <1>2, <1>3, <1>4 DEF InfosGood, InfoState
<1> QED BY <1>1, <1>4, <1>6, <1>7, <1>8 DEF Good

(* An identity that changes drops a reference and takes one.               *)
LEMMA SetIdentityIsGood ==
  ASSUME NEW i \in Info, NEW identity \in Identity
  PROVE  Good(infos, requests, heap, received) /\ SetIdentity(i, identity)
         => /\ Good(infos', requests', heap', received')
            /\ infos[i].session # NoSession /\ heap.session[infos[i].session].refs = 1
                 => heap'.session[infos'[i].session].agent = identity
<1> SUFFICES ASSUME Good(infos, requests, heap, received), SetIdentity(i, identity)
             PROVE  /\ Good(infos', requests', heap', received')
                    /\ infos[i].session # NoSession /\ heap.session[infos[i].session].refs = 1
                         => heap'.session[infos'[i].session].agent = identity
  OBVIOUS
<1>1. /\ infos \in [Info -> InfoState] /\ InfosGood(infos)
      /\ infos[i] \in InfoState /\ infos[i].alive
      /\ RequestsGood(requests) /\ IsFiniteSet(requests)
      /\ HeapGood(heap, Count(infos, requests))
      /\ requests' = requests /\ received' = received
      /\ received \subseteq Resource /\ received \subseteq Kept(heap)
  BY DEF Good, InfosGood, RequestsGood, SetIdentity
<1>2. CASE infos[i].session = NoSession
  <2>1. infos' = [infos EXCEPT ![i].identity = identity] /\ heap' = heap
    BY <1>2 DEF SetIdentity
  <2>2. InfosGood(infos') /\ \A j \in Info : infos'[j].session = infos[j].session
    BY <1>1, <2>1 DEF InfosGood, InfoState
  <2>3. Count(infos', requests) = Count(infos, requests)
    BY <2>2, SameUsers
  <2> QED BY <1>1, <1>2, <2>1, <2>2, <2>3 DEF Good
<1>3. CASE infos[i].session # NoSession
  <2> DEFINE u == Count(infos, requests)
             f == [infos EXCEPT ![i].session = NoSession]
             h == Unref(heap, infos[i].session)
  <2>1. PICK h2 \in RefSession(h, identity) :
          /\ infos' = [infos EXCEPT ![i].identity = identity, ![i].session = h2.static]
          /\ heap' = h2
    BY <1>3 DEF SetIdentity, RenewedSession
  <2>2. PICK s \in Session : s = infos[i].session
    BY <1>1, <1>3 DEF InfoState
  <2>3. /\ InfosGood(f)
        /\ f[i].session = NoSession
        /\ \A j \in Info : j # i => f[j] = infos[j]
    BY <1>1 DEF InfosGood, InfoState
  <2>4. /\ infos'[i] = [infos[i] EXCEPT !.identity = identity, !.session = h2.static]
        /\ infos'[i].session = h2.static
        /\ \A j \in Info : j # i => infos'[j] = infos[j]
    BY <1>1, <2>1 DEF InfoState
  <2>5. Only(i, f, infos') /\ \A j \in Info : j # i => f[j].session = infos[j].session
    BY <2>3, <2>4 DEF Only
  <2> HIDE DEF f
  <2>6. Count(f, requests) = Less(u, s) /\ u[s] > 0
    <3>1. \A j \in Info : j # i => f[j].session = infos[j].session
      BY <2>5
    <3> QED BY <1>1, <2>2, <2>3, <3>1, OneUserLess
  <2>7. u \in [Session -> Nat]
    BY <1>1, CountType
  <2> HIDE DEF u
  <2>8. HeapGood(heap, u)
    BY <1>1 DEF u
  <2>9. /\ HeapGood(h, Count(f, requests))
        /\ Kept(heap) \subseteq Kept(h)
        /\ u[s] = 1 => h.static = NoSession
    BY <2>2, <2>6, <2>7, <2>8, UnrefIsGood
  <2> HIDE DEF h
  <2>10. /\ h2.static \in Session
         /\ HeapGood(h2, Count(infos', requests))
         /\ Kept(h) \subseteq Kept(h2)
         /\ h.static = NoSession => h2.session[h2.static].agent = identity
    <3>1. identity \in Identity \cup {NoIdentity}
      OBVIOUS
    <3>2. \A g : Only(i, f, g) /\ g[i].session = h2.static
              => /\ h2.static \in Session
                 /\ HeapGood(h2, Count(g, requests))
                 /\ Kept(h) \subseteq Kept(h2)
                 /\ h.static = NoSession => h2.session[h2.static].agent = identity
      BY <1>1, <2>3, <2>9, <3>1, TakingIsGood
    <3> QED BY <2>4, <2>5, <3>2
  <2>11. InfosGood(infos')
    BY <1>1, <2>1, <2>4, <2>10 DEF InfosGood, InfoState
  <2>12. Good(infos', requests', heap', received')
    BY <1>1, <2>1, <2>9, <2>10, <2>11 DEF Good
  <2>13. heap.session[s].refs = u[s]
    BY <2>8 DEF HeapGood
  <2> QED BY <2>1, <2>2, <2>4, <2>9, <2>10, <2>12, <2>13
<1> QED BY <1>2, <1>3

(* gweather_info_store_cache saves more than there was.                    *)
LEMMA StoreCacheIsGood ==
  Good(infos, requests, heap, received) /\ StoreCache
  => Good(infos', requests', heap', received')
<1> SUFFICES ASSUME Good(infos, requests, heap, received), StoreCache
             PROVE  Good(infos', requests', heap', received')
  OBVIOUS
<1> DEFINE u == Count(infos, requests)
<1>1. PICK s \in Session : s = heap.static
  BY DEF StoreCache, Good, HeapGood, Heap
<1>2. /\ heap \in Heap /\ heap.session[s] \in SessionState
      /\ heap.session[s].hasCache /\ HeapGood(heap, u)
      /\ heap.disk \subseteq heap.session[s].cache
  BY <1>1 DEF StoreCache, Good, HeapGood, Heap
<1>3. /\ heap' = [heap EXCEPT !.disk = heap.session[s].cache]
      /\ infos' = infos /\ requests' = requests /\ received' = received
  BY <1>1 DEF StoreCache
<1>4. /\ heap' \in Heap
      /\ heap'.session = heap.session /\ heap'.static = heap.static
      /\ heap'.disk = heap.session[s].cache
  BY <1>2, <1>3 DEF Heap, SessionState
<1> HIDE DEF u
<1>5. HeapGood(heap', u)
  BY <1>1, <1>2, <1>4 DEF HeapGood, Live
<1>6. Kept(heap) \subseteq Kept(heap')
  BY <1>2, <1>4 DEF Kept, CacheOf
<1> QED BY <1>3, <1>5, <1>6 DEF Good, u

(* A response goes to the cache of the session that lives.                 *)
LEMMA ArriveIsGood ==
  ASSUME NEW q \in requests
  PROVE  Good(infos, requests, heap, received) /\ Arrive(q)
         => Good(infos', requests', heap', received')
<1> SUFFICES ASSUME Good(infos, requests, heap, received), Arrive(q)
             PROVE  Good(infos', requests', heap', received')
  OBVIOUS
<1> DEFINE move == [r \in requests |-> IF r = q THEN [q EXCEPT !.arrived = TRUE] ELSE r]
           s == q.session
           u == Count(infos, requests)
<1>1. /\ RequestsGood(requests) /\ q \in Request
      /\ HeapGood(heap, u) /\ heap \in Heap
      /\ s \in Session /\ q.resource \in Resource
      /\ heap.session[s] \in SessionState
      /\ received \subseteq Resource /\ received \subseteq Kept(heap)
  BY DEF Good, RequestsGood, Request, HeapGood, Heap
<1>2. RequestsGood(requests') /\ Count(infos, requests') = u
  <2>1. move \in [requests -> Request]
    BY <1>1 DEF RequestsGood, Request
  <2>2. \A r \in requests : /\ move[r].info = r.info
                            /\ move[r].resource = r.resource
                            /\ move[r].session = r.session
    BY <1>1 DEF RequestsGood, Request
  <2>3. requests' = {move[r] : r \in requests}
    BY DEF Arrive
  <2> HIDE DEF move
  <2> QED BY <1>1, <2>1, <2>2, <2>3, RequestsMove
<1> HIDE DEF move
<1>3. HeapGood(heap', u) /\ received' \subseteq Resource /\ received' \subseteq Kept(heap')
  <2>1. CASE heap.session[s].hasCache
    <3>1. /\ heap' = [heap EXCEPT !.session[s].cache = @ \cup {q.resource}]
          /\ received' = received \cup {q.resource}
      BY <2>1 DEF Arrive
    <3>2. heap.static = s
      BY <1>1, <2>1 DEF HeapGood, Live
    <3>3. [heap.session[s] EXCEPT !.cache = @ \cup {q.resource}] \in SessionState
      BY <1>1 DEF SessionState
    <3>4. /\ heap' \in Heap
          /\ heap'.static = s
          /\ heap'.disk = heap.disk
          /\ heap'.session[s] = [heap.session[s] EXCEPT !.cache = @ \cup {q.resource}]
          /\ \A t \in Session : t # s => heap'.session[t] = heap.session[t]
      BY <1>1, <3>1, <3>2, <3>3 DEF Heap
    <3>5. /\ heap'.session[s].refs = heap.session[s].refs
          /\ heap'.session[s].hasCache
          /\ heap'.session[s].cache = heap.session[s].cache \cup {q.resource}
      BY <1>1, <2>1, <3>4 DEF SessionState
    <3> HIDE DEF u, s
    <3>6. HeapGood(heap', u)
      <4> SUFFICES ASSUME NEW t \in Session
                   PROVE  /\ heap'.session[t].refs = u[t]
                          /\ heap'.session[t].refs > 0 <=> heap'.static = t
                          /\ heap'.session[t].hasCache
                               => /\ heap'.session[t].refs > 0
                                  /\ heap'.disk \subseteq heap'.session[t].cache
                          /\ ~heap'.session[t].hasCache => heap'.session[t].cache = {}
        BY <3>4 DEF HeapGood, Live
      <4>1. CASE t = s
        BY <4>1, <1>1, <2>1, <3>2, <3>4, <3>5 DEF HeapGood, Live
      <4>2. CASE t # s
        BY <4>2, <1>1, <3>2, <3>4 DEF HeapGood, Live
      <4> QED BY <4>1, <4>2
    <3>7. Kept(heap') = Kept(heap) \cup {q.resource}
      BY <1>1, <3>2, <3>4, <3>5, SharedSessionAssumption DEF Kept, CacheOf
    <3> QED BY <1>1, <3>1, <3>6, <3>7
  <2>2. CASE ~heap.session[s].hasCache
    <3>1. heap' = heap /\ received' = received
      BY <2>2 DEF Arrive
    <3> QED BY <1>1, <3>1
  <2> QED BY <2>1, <2>2
<1> QED BY <1>2, <1>3 DEF Arrive, Good

(* A callback drops the reference of its request.                          *)
LEMMA CallbackIsGood ==
  ASSUME NEW q \in requests
  PROVE  Good(infos, requests, heap, received) /\ Callback(q)
         => Good(infos', requests', heap', received')
<1> SUFFICES ASSUME Good(infos, requests, heap, received), Callback(q)
             PROVE  Good(infos', requests', heap', received')
  OBVIOUS
<1> DEFINE u == Count(infos, requests)
<1>1. u \in [Session -> Nat] /\ HeapGood(heap, u) /\ RequestsGood(requests)
  BY CountType DEF Good, RequestsGood
<1> HIDE DEF u
<1>2. /\ RequestsGood(requests')
      /\ q.session \in Session
      /\ Count(infos, requests') = Less(u, q.session)
      /\ u[q.session] > 0
  BY <1>1, RequestEnds DEF Callback, u
<1>3. HeapGood(heap', Count(infos, requests')) /\ Kept(heap) \subseteq Kept(heap')
  BY <1>1, <1>2, UnrefIsGood DEF Callback
<1> QED BY <1>2, <1>3 DEF Callback, Good

(* What IInv says holds in every reachable state: references are the       *)
(* users, one session lives at most, and a loaded cache has all of the     *)
(* disk, for ref_session, g_object_unref and all their callers.            *)
THEOREM Invariance == Spec => []IInv
<1>1. Init => IInv
  BY InitIsGood, InvIsGood
<1>2. IInv /\ [Next]_vars => IInv'
  <2> SUFFICES ASSUME Good(infos, requests, heap, received), [Next]_vars
               PROVE  Good(infos', requests', heap', received')
    BY InvIsGood, NextInvIsGood
  <2>1. ASSUME NEW i \in Info, New(i) PROVE Good(infos', requests', heap', received')
    BY <2>1, NewIsGood
  <2>2. ASSUME NEW i \in Info, Update(i) PROVE Good(infos', requests', heap', received')
    BY <2>2, UpdateIsGood
  <2>3. ASSUME NEW i \in Info, Abort(i) PROVE Good(infos', requests', heap', received')
    BY <2>3, AbortIsGood
  <2>4. ASSUME NEW i \in Info, Dispose(i) PROVE Good(infos', requests', heap', received')
    BY <2>4, DisposeIsGood
  <2>5. ASSUME NEW i \in Info, NEW identity \in Identity, SetIdentity(i, identity)
        PROVE  Good(infos', requests', heap', received')
    BY <2>5, SetIdentityIsGood
  <2>6. CASE StoreCache
    BY <2>6, StoreCacheIsGood
  <2>7. CASE Crash
    BY <2>7, CrashIsGood
  <2>8. ASSUME NEW q \in requests, Arrive(q) PROVE Good(infos', requests', heap', received')
    BY <2>8, ArriveIsGood
  <2>9. ASSUME NEW q \in requests, Callback(q) PROVE Good(infos', requests', heap', received')
    BY <2>9, CallbackIsGood
  <2>10. CASE UNCHANGED vars
    BY <2>10 DEF vars
  <2> QED BY <2>1, <2>2, <2>3, <2>4, <2>5, <2>6, <2>7, <2>8, <2>9, <2>10 DEF Next
<1> QED BY <1>1, <1>2, PTL DEF Spec

(* References are exactly the users of a session and its requests in       *)
(* flight, and static_session is the one session that lives.               *)
THEOREM Sharing == Spec => []SessionIsShared
<1>1. IInv => SessionIsShared
  BY DEF IInv
<1> QED BY <1>1, Invariance, PTL

(* What a cache took in is on the disk or in the session that lives.       *)
THEOREM Remembering == Spec => []NothingForgotten
<1>1. IInv => NothingForgotten
  BY DEF IInv
<1> QED BY <1>1, Invariance, PTL

(* A sole user of the session gets its new identity into the User-Agent    *)
(* (gweather_info_set_contact_info, gweather_info_set_application_id).     *)
THEOREM Naming == Spec => SoleUserIsNamed
<1> DEFINE Named(i) ==
             /\ infos'[i].alive /\ infos'[i].identity # infos[i].identity
             /\ infos[i].session # NoSession
             /\ heap.session[infos[i].session].refs = 1
             => heap'.session[infos'[i].session].agent = infos'[i].identity
<1>1. IInv /\ [Next]_vars => [\A i \in Info : Named(i)]_vars
  <2> SUFFICES ASSUME IInv, Next, NEW i \in Info,
                      infos'[i].alive, infos'[i].identity # infos[i].identity
               PROVE  Named(i)
    BY DEF vars
  <2>1. infos \in [Info -> InfoState]
    BY DEF IInv, TypeOK
  <2>2. ASSUME NEW j \in Info, New(j) \/ Update(j) PROVE FALSE
    <3>1. CASE New(j)
      BY <2>1, <3>1 DEF New, InfoState
    <3>2. CASE Update(j)
      <4>1. PICK s : infos' = [infos EXCEPT ![j].session = s]
        BY <3>2 DEF Update
      <4> QED BY <2>1, <4>1 DEF InfoState
    <3> QED BY <2>2, <3>1, <3>2
  <2>3. ASSUME NEW j \in Info, Abort(j) PROVE FALSE
    BY <2>3 DEF Abort
  <2>4. ASSUME NEW j \in Info, Dispose(j) PROVE FALSE
    BY <2>1, <2>4 DEF Dispose, NoInfo
  <2>5. ASSUME NEW j \in Info, NEW identity \in Identity, SetIdentity(j, identity)
        PROVE  Named(i)
    <3>1. i = j /\ infos'[i].identity = identity
      BY <2>1, <2>5 DEF SetIdentity, InfoState
    <3> QED BY <2>5, <3>1, InvIsGood, SetIdentityIsGood
  <2>6. CASE StoreCache \/ Crash
    BY <2>6 DEF StoreCache, Crash, NoInfo
  <2>7. ASSUME NEW q \in requests, Arrive(q) \/ Callback(q) PROVE FALSE
    BY <2>7 DEF Arrive, Callback
  <2> QED BY <2>2, <2>3, <2>4, <2>5, <2>6, <2>7 DEF Next
<1> QED BY <1>1, Invariance, PTL DEF Spec, SoleUserIsNamed

-----------------------------------------------------------------------------
(* After the last object is dropped *)

(* A request that was not cancelled belongs to an object that lives: no    *)
(* callback that goes on to use its object finds it freed.                 *)
CallbacksHaveTheirObject ==
  \A q \in requests : ~q.cancelled => infos[q.info].alive

Dropped == \A i \in Info : ~infos[i].alive

(* Requests of an object are cancelled before the object goes              *)
(* (gweather_info_dispose), in whatever order others come and go.          *)
THEOREM NoLateUse == Spec => []CallbacksHaveTheirObject
<1>1. Init => CallbacksHaveTheirObject
  BY DEF Init, CallbacksHaveTheirObject
<1>2. ASSUME IInv, CallbacksHaveTheirObject, [Next]_vars
      PROVE  CallbacksHaveTheirObject'
  <2>1. infos \in [Info -> InfoState] /\ requests \subseteq Request
    BY <1>2 DEF IInv, TypeOK
  <2>2. ASSUME NEW i \in Info, NEW q \in (requests \ Pending(i)) \cup Cancelled(i),
               ~q.cancelled
        PROVE  q \in requests /\ q.info # i /\ q.info \in Info
    BY <2>1, <2>2 DEF Pending, Cancelled, Request
  <2>3. ASSUME NEW i \in Info, New(i) PROVE CallbacksHaveTheirObject'
    BY <1>2, <2>1, <2>3 DEF New, CallbacksHaveTheirObject, Request, InfoState
  <2>4. ASSUME NEW i \in Info, Update(i) PROVE CallbacksHaveTheirObject'
    <3>1. PICK asked \in SUBSET (Resource \ {q.resource : q \in {r \in requests : r.info = i}}),
               h \in IF infos[i].session = NoSession
                     THEN RefSession(heap, infos[i].identity) ELSE {heap} :
            /\ infos' = [infos EXCEPT ![i].session = h.static]
            /\ requests' = requests \cup Begun(i, h.static, asked)
      BY <2>4 DEF Update, Begun
    <3>2. \A j \in Info : infos'[j].alive = infos[j].alive
      BY <2>1, <3>1 DEF InfoState
    <3>3. \A q \in Begun(i, h.static, asked) : q.info = i
      BY DEF Begun
    <3> QED BY <1>2, <2>1, <2>4, <3>1, <3>2, <3>3
            DEF Update, CallbacksHaveTheirObject, Request
  <2>5. ASSUME NEW i \in Info, Abort(i) PROVE CallbacksHaveTheirObject'
    BY <1>2, <2>2, <2>5 DEF Abort, CallbacksHaveTheirObject
  <2>6. ASSUME NEW i \in Info, Dispose(i) PROVE CallbacksHaveTheirObject'
    BY <1>2, <2>1, <2>2, <2>6 DEF Dispose, CallbacksHaveTheirObject
  <2>7. ASSUME NEW i \in Info, NEW identity \in Identity, SetIdentity(i, identity)
        PROVE  CallbacksHaveTheirObject'
    <3>1. \A j \in Info : infos'[j].alive = infos[j].alive
      BY <2>1, <2>7 DEF SetIdentity, InfoState
    <3> QED BY <1>2, <2>1, <2>7, <3>1 DEF SetIdentity, CallbacksHaveTheirObject, Request
  <2>8. CASE StoreCache
    BY <1>2, <2>8 DEF StoreCache, CallbacksHaveTheirObject
  <2>9. CASE Crash
    BY <2>9 DEF Crash, CallbacksHaveTheirObject
  <2>10. ASSUME NEW q \in requests, Arrive(q) PROVE CallbacksHaveTheirObject'
    <3>1. [q EXCEPT !.arrived = TRUE].info = q.info /\ ~q.cancelled
      BY <2>1, <2>10 DEF Arrive, Request
    <3> QED BY <1>2, <2>10, <3>1 DEF Arrive, CallbacksHaveTheirObject
  <2>11. ASSUME NEW q \in requests, Callback(q) PROVE CallbacksHaveTheirObject'
    BY <1>2, <2>11 DEF Callback, CallbacksHaveTheirObject
  <2>12. CASE UNCHANGED vars
    BY <1>2, <2>12 DEF vars, CallbacksHaveTheirObject
  <2> QED BY <1>2, <2>3, <2>4, <2>5, <2>6, <2>7, <2>8, <2>9, <2>10, <2>11, <2>12 DEF Next
<1> QED BY <1>1, <1>2, Invariance, PTL DEF Spec

(* What gweather_info_store_cache promises of the cache, as far as it is a *)
(* matter of safety: once the last object is dropped and the callbacks of  *)
(* its cancelled requests have run, the session is gone and everything it  *)
(* took in is on the disk.                                                 *)
DroppedIsSaved ==
  Dropped /\ requests = {} => heap.static = NoSession /\ received \subseteq heap.disk

THEOREM SavedInTheEnd == Spec => []DroppedIsSaved
<1>1. ASSUME IInv, Dropped, requests = {}
      PROVE  heap.static = NoSession /\ received \subseteq heap.disk
  <2>1. ASSUME NEW s \in Session PROVE ~Live(heap, s)
    <3>1. Users(s) = {} /\ InFlight(s) = {}
      BY <1>1, SharedSessionAssumption DEF IInv, SessionIsShared, Dropped, Users, InFlight
    <3>2. heap.session[s].refs = 0 + 0
      BY <1>1, <3>1, FS_EmptySet DEF IInv, SessionIsShared
    <3> QED BY <3>2 DEF Live
  <2>2. heap.static = NoSession
    BY <1>1, <2>1 DEF IInv, TypeOK, Heap, SessionIsShared
  <2> QED BY <1>1, <2>2 DEF IInv, NothingForgotten, SessionCache
<1>2. IInv => DroppedIsSaved
  BY <1>1 DEF DroppedIsSaved
<1> QED BY <1>2, Invariance, PTL

(* On the way there nothing holds it up: with no object alive every        *)
(* request is cancelled, so its callback is ready, none is added, none can *)
(* be answered any more, and each callback takes one away.                 *)
DroppedWindsDown ==
  [][Dropped => /\ \A q \in requests : q.cancelled
                /\ requests' \subseteq requests
                /\ received' \subseteq received
                /\ (\E q \in requests : Arrive(q) \/ Callback(q))
                     => requests' # requests]_vars

THEOREM WindsDown == Spec => DroppedWindsDown
<1> DEFINE Down == Dropped => /\ \A q \in requests : q.cancelled
                              /\ requests' \subseteq requests
                              /\ received' \subseteq received
                              /\ (\E q \in requests : Arrive(q) \/ Callback(q))
                                   => requests' # requests
<1>1. IInv /\ CallbacksHaveTheirObject /\ [Next]_vars => [Down]_vars
  <2> SUFFICES ASSUME IInv, CallbacksHaveTheirObject, Next, Dropped
               PROVE  Down
    OBVIOUS
  <2>1. \A q \in requests : q.info \in Info
    BY DEF IInv, TypeOK, Request
  <2>2. \A q \in requests : q.cancelled
    BY <2>1 DEF CallbacksHaveTheirObject, Dropped
  <2>3. \A q \in requests : ~Arrive(q)
    BY <2>2 DEF Arrive
  <2>4. \A q \in requests : Callback(q) => requests' = requests \ {q} /\ UNCHANGED received
    BY DEF Callback
  <2>5. \A i \in Info : ~Update(i) /\ ~Abort(i) /\ ~Dispose(i)
    BY DEF Dropped, Update, Abort, Dispose
  <2>6. requests' \subseteq requests /\ received' \subseteq received
    BY <2>3, <2>4, <2>5 DEF Next, New, SetIdentity, StoreCache, Crash
  <2> QED BY <2>2, <2>3, <2>4, <2>6
<1> QED BY <1>1, Invariance, NoLateUse, PTL DEF Spec, DroppedWindsDown

=============================================================================
