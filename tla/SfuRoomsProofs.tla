---------------------------- MODULE SfuRoomsProofs ----------------------------
(***************************************************************************)
(* What TLAPS proves of SfuRooms, for every set of sessions, rooms and     *)
(* nodes: rooms and sessions agree whatever was removed, media stay in     *)
(* their room, the cleanup walk misses no dead session, and the registry   *)
(* of indices implements RoomSpec.                                         *)
(***************************************************************************)
EXTENDS SfuRooms, SequenceTheorems, TLAPS

(* RoomsMatchSessions, one room at a time, with rooms that do not exist    *)
(* taken for empty ones.                                                   *)
LastPublisher(p, r) ==
    /\ p \in Index
    /\ In(p, r, "publisher")
    /\ \A i \in Index : In(i, r, "publisher") => i <= p

RoomOK(r) ==
    /\ r \in DOMAIN rooms => rooms[r] # NewRoom
    /\ RoomAt(r).publisher # None => LastPublisher(RoomAt(r).publisher, r)
    /\ RoomAt(r).subscribers = {i \in Index : In(i, r, "subscriber")}

(* What the walk has passed is alive.                                      *)
PassedAlive ==
    /\ pc = "select" => \A i \in Index : sessions[i].alive
    /\ pc = "cleanup" => \A i \in Index : i < cursor => sessions[i].alive

Inv == /\ TypeOK
       /\ \A r \in Room : RoomOK(r)
       /\ DistinctIds
       /\ PassedAlive

-----------------------------------------------------------------------------
(* Sequences *)

LEMMA SeqDomain ==
    ASSUME NEW S, NEW s \in Seq(S)
    PROVE  DOMAIN s = 1 .. Len(s) /\ Len(s) \in Nat
           /\ \A i \in DOMAIN s : s[i] \in S
OBVIOUS

(* Where the element at index k was before the one at i was removed.       *)
Unshift(k, i) == IF k < i THEN k ELSE k + 1

LEMMA RemoveAtElements ==
    ASSUME NEW S, NEW s \in Seq(S), NEW i \in 1 .. Len(s)
    PROVE  /\ RemoveAt(s, i) \in Seq(S)
           /\ Len(RemoveAt(s, i)) = Len(s) - 1
           /\ \A k \in 1 .. Len(s) - 1 : RemoveAt(s, i)[k] = s[Unshift(k, i)]
<1> DEFINE a == SubSeq(s, 1, i - 1)
           b == SubSeq(s, i + 1, Len(s))
<1>1. a \in Seq(S) /\ Len(a) = i - 1 /\ \A k \in 1 .. i - 1 : a[k] = s[k]
  BY SubSeqProperties
<1>2. /\ b \in Seq(S) /\ Len(b) = Len(s) - i
      /\ \A k \in 1 .. Len(s) - i : b[k] = s[i + k]
  BY SubSeqProperties
<1>3. RemoveAt(s, i) = a \o b
  BY DEF RemoveAt
<1> HIDE DEF a, b
<1>4. /\ a \o b \in Seq(S)
      /\ Len(a \o b) = Len(s) - 1
      /\ \A k \in 1 .. Len(s) - 1 :
            (a \o b)[k] = IF k <= i - 1 THEN a[k] ELSE b[k - (i - 1)]
  <2>1. a \in Seq(S) /\ b \in Seq(S) /\ Len(a) = i - 1 /\ Len(b) = Len(s) - i
    BY <1>1, <1>2
  <2>2. /\ a \o b \in Seq(S)
        /\ Len(a \o b) = Len(a) + Len(b)
        /\ \A k \in 1 .. Len(a) + Len(b) :
              (a \o b)[k] = IF k <= Len(a) THEN a[k] ELSE b[k - Len(a)]
    BY <2>1, ConcatProperties
  <2>3. Len(a) + Len(b) = Len(s) - 1
    BY <2>1
  <2> QED
    BY <2>1, <2>2, <2>3, Zenon
<1>5. ASSUME NEW k \in 1 .. Len(s) - 1
      PROVE  (a \o b)[k] = s[Unshift(k, i)]
  <2>1. CASE k < i
    <3>1. k \in 1 .. i - 1
      BY <2>1
    <3> QED
      BY <1>1, <1>4, <2>1, <3>1 DEF Unshift
  <2>2. CASE ~(k < i)
    <3>1. k - (i - 1) \in 1 .. Len(s) - i /\ ~(k <= i - 1)
      BY <2>2
    <3>2. i + (k - (i - 1)) = k + 1
      OBVIOUS
    <3> QED
      BY <1>2, <1>4, <2>2, <3>1, <3>2 DEF Unshift
  <2> QED
    BY <2>1, <2>2
<1> QED
  BY <1>3, <1>4, <1>5

(* Shifting an index and finding where it was are inverse to each other.   *)
LEMMA ShiftInverse ==
    ASSUME NEW n \in Nat, NEW i \in 1 .. n
    PROVE  /\ \A k \in 1 .. n : k # i =>
                 Shift(k, i) \in 1 .. n - 1 /\ Unshift(Shift(k, i), i) = k
           /\ \A k \in 1 .. n - 1 :
                 /\ Unshift(k, i) \in 1 .. n
                 /\ Unshift(k, i) # i
                 /\ Shift(Unshift(k, i), i) = k
BY DEF Shift, Unshift

(* The order of indices survives a removal.                                *)
LEMMA ShiftMonotone ==
    ASSUME NEW k \in Nat, NEW j \in Nat, NEW i \in Nat,
           Unshift(k, i) <= j, j # i
    PROVE  k <= Shift(j, i)
BY DEF Shift, Unshift

(* A session that dies is otherwise what it was.                           *)
LEMMA DiesSame ==
    ASSUME NEW s \in Seq(Session), NEW dead
    PROVE  /\ Dies(s, dead) \in Seq(Session)
           /\ DOMAIN Dies(s, dead) = DOMAIN s
           /\ \A i \in DOMAIN s : /\ Dies(s, dead)[i].id = s[i].id
                                  /\ Dies(s, dead)[i].room = s[i].room
                                  /\ Dies(s, dead)[i].role = s[i].role
<1>1. DOMAIN s = 1 .. Len(s) /\ Len(s) \in Nat /\ \A i \in DOMAIN s : s[i] \in Session
  BY SeqDomain
<1>2. \A i \in DOMAIN s : [s[i] EXCEPT !.alive = @ /\ i \notin dead] \in Session
  BY <1>1 DEF Session
<1>3. Dies(s, dead) \in [1 .. Len(s) -> Session]
  BY <1>1, <1>2 DEF Dies
<1>4. Dies(s, dead) \in Seq(Session)
  BY <1>1, <1>3, SeqDef
<1>5. \A i \in DOMAIN s : /\ Dies(s, dead)[i].id = s[i].id
                          /\ Dies(s, dead)[i].room = s[i].room
                          /\ Dies(s, dead)[i].role = s[i].role
  BY <1>1 DEF Dies, Session
<1> QED
  BY <1>1, <1>3, <1>4, <1>5

-----------------------------------------------------------------------------
LEMMA InitInv == Init => Inv
<1> SUFFICES ASSUME Init PROVE Inv
  OBVIOUS
<1>1. TypeOK
  BY DEF Init, TypeOK
<1>2. Index = {}
  BY DEF Init, Index
<1>3. \A r \in Room : RoomOK(r)
  BY <1>2 DEF Init, RoomOK, RoomAt, NewRoom
<1> QED
  BY <1>1, <1>2, <1>3 DEF Inv, DistinctIds, PassedAlive

(* Steps after which sessions are who they were, where they were.          *)
SamePlaces ==
    /\ sessions' \in Seq(Session)
    /\ DOMAIN sessions' = DOMAIN sessions
    /\ \A i \in DOMAIN sessions : /\ sessions'[i].id = sessions[i].id
                                  /\ sessions'[i].room = sessions[i].room
                                  /\ sessions'[i].role = sessions[i].role
    /\ UNCHANGED rooms

LEMMA SamePlacesKeep ==
    ASSUME Inv, SamePlaces
    PROVE  (\A r \in Room : RoomOK(r))' /\ DistinctIds'
<1>1. ASSUME NEW r \in Room PROVE RoomOK(r)'
  <2>1. RoomAt(r)' = RoomAt(r) /\ UNCHANGED rooms
    BY DEF SamePlaces, RoomAt
  <2>2. Index' = Index
    BY DEF SamePlaces, Index
  <2>3. \A i \in Index, role \in Role : In(i, r, role)' <=> In(i, r, role)
    BY DEF SamePlaces, Index, In
  <2>4. RoomOK(r)
    BY DEF Inv
  <2> QED
    BY <2>1, <2>2, <2>3, <2>4 DEF RoomOK, LastPublisher, Role
<1>2. DistinctIds'
  BY DEF Inv, DistinctIds, SamePlaces, Index
<1> QED
  BY <1>1, <1>2

(* The branches of the select that let sessions die and join nobody.       *)
Drain == \/ \E r \in Room, n \in Node : RelaySubscribe(r, n) \/ RelayUnsubscribe(r, n)
         \/ \E r \in Room : RelayData(r)
         \/ \E i \in Index : UdpPacket(i)
         \/ Timeout

LEMMA DrainSame ==
    ASSUME TypeOK, Drain
    PROVE  SamePlaces /\ relays' \in [Room -> SUBSET Node] /\ StartCleanup
<1>1. sessions \in Seq(Session) /\ relays \in [Room -> SUBSET Node]
  BY DEF TypeOK
<1>2. CASE \E r \in Room, n \in Node : RelaySubscribe(r, n) \/ RelayUnsubscribe(r, n)
  BY <1>1, <1>2 DEF RelaySubscribe, RelayUnsubscribe, SamePlaces
<1>3. ASSUME NEW dead, sessions' = Dies(sessions, dead), UNCHANGED rooms
      PROVE  SamePlaces
  BY <1>1, <1>3, DiesSame DEF SamePlaces
<1>4. CASE \E r \in Room : RelayData(r)
  BY <1>1, <1>3, <1>4 DEF RelayData
<1>5. CASE \E i \in Index : UdpPacket(i)
  BY <1>1, <1>3, <1>5 DEF UdpPacket
<1>6. CASE Timeout
  BY <1>1, <1>3, <1>6 DEF Timeout
<1> QED
  BY <1>2, <1>4, <1>5, <1>6 DEF Drain

-----------------------------------------------------------------------------
(* An offer: one more session, at the end.                                 *)
LEMMA OfferPlaces ==
    ASSUME TypeOK, NEW s \in Sid, NEW r \in Room \cup {None},
           NEW role \in Role \cup {None}, SdpOffer(s, r, role)
    PROVE  LET n == Len(sessions) IN
           /\ sessions' \in Seq(Session)
           /\ DOMAIN sessions = 1 .. n /\ n \in Nat
           /\ DOMAIN sessions' = 1 .. n + 1
           /\ \A i \in 1 .. n : /\ sessions'[i].id = sessions[i].id
                                /\ sessions'[i].room = sessions[i].room
                                /\ sessions'[i].role = sessions[i].role
           /\ sessions'[n + 1].id = s
           /\ sessions'[n + 1].room = r
           /\ sessions'[n + 1].role = role
<1> DEFINE n == Len(sessions)
           new == NewSession(s, r, role)
           app == Append(sessions, new)
<1>1. sessions \in Seq(Session) /\ new \in Session
  BY DEF TypeOK, NewSession, Session
<1>2. PICK dead : sessions' = Dies(app, dead)
  BY DEF SdpOffer
<1>3. /\ app \in Seq(Session) /\ DOMAIN app = 1 .. n + 1
      /\ DOMAIN sessions = 1 .. n /\ n \in Nat
      /\ \A i \in 1 .. n : app[i] = sessions[i]
      /\ app[n + 1] = new
  BY <1>1
<1>4. new.id = s /\ new.room = r /\ new.role = role
  BY DEF NewSession
<1> HIDE DEF new, app
<1> QED
  BY <1>2, <1>3, <1>4, DiesSame

LEMMA OfferKeeps ==
    ASSUME Inv, NEW s \in Sid, NEW r \in Room \cup {None},
           NEW role \in Role \cup {None}, SdpOffer(s, r, role)
    PROVE  Inv'
<1> DEFINE n == Len(sessions)
<1> USE DEF Inv
<1>1. /\ sessions' \in Seq(Session)
      /\ Index = 1 .. n /\ n \in Nat
      /\ Index' = 1 .. n + 1
      /\ \A i \in 1 .. n : /\ sessions'[i].id = sessions[i].id
                           /\ sessions'[i].room = sessions[i].room
                           /\ sessions'[i].role = sessions[i].role
      /\ sessions'[n + 1].id = s
      /\ sessions'[n + 1].room = r
      /\ sessions'[n + 1].role = role
  BY OfferPlaces DEF Index
<1>2. pc' = "cleanup" /\ cursor' = 1 /\ relays' = relays
  BY DEF SdpOffer, StartCleanup
<1>5. DistinctIds'
  <2>1. \A i \in 1 .. n : sessions[i].id # s
    BY <1>1 DEF SdpOffer, Ids
  <2>2. \A i, j \in 1 .. n : sessions'[i].id = sessions'[j].id => i = j
    BY <1>1 DEF DistinctIds
  <2>3. \A i \in 1 .. n + 1 : i \in 1 .. n \/ i = n + 1
    BY <1>1
  <2>4. \A i \in 1 .. n : sessions'[i].id # sessions'[n + 1].id
    BY <1>1, <2>1
  <2>5. ASSUME NEW i \in 1 .. n + 1, NEW j \in 1 .. n + 1,
               sessions'[i].id = sessions'[j].id
        PROVE  i = j
    BY <2>2, <2>3, <2>4, <2>5
  <2> QED
    BY <1>1, <2>5 DEF DistinctIds
<1>6. PassedAlive'
  BY <1>1, <1>2 DEF PassedAlive
<1>7. CASE r # None /\ role # None
  <2> r \in Room /\ role \in Role
    BY <1>7
  <2>1. Join(r, n + 1, role)
    BY <1>7 DEF SdpOffer
  <2>2. /\ RoomAt(r)' = AdmitTo(RoomAt(r), n + 1, role)
        /\ r \in DOMAIN rooms'
        /\ rooms'[r] = RoomAt(r)'
        /\ DOMAIN rooms' = DOMAIN rooms \cup {r}
    BY <2>1 DEF Join, RoomAt
  <2>3. \A q \in Room \ {r} : /\ RoomAt(q)' = RoomAt(q)
                              /\ q \in DOMAIN rooms' <=> q \in DOMAIN rooms
                              /\ q \in DOMAIN rooms => rooms'[q] = rooms[q]
    BY <2>1 DEF Join, RoomAt
  <2>4. RoomAt(r) \in [publisher : Nat \cup {None}, subscribers : SUBSET Nat]
    BY DEF TypeOK, RoomAt, NewRoom
  <2>5. RoomAt(r)' \in [publisher : Nat \cup {None}, subscribers : SUBSET Nat]
    BY <1>1, <2>2, <2>4 DEF AdmitTo
  <2>6. TypeOK'
    <3>1. \A q \in DOMAIN rooms' : rooms'[q] \in
              [publisher : Nat \cup {None}, subscribers : SUBSET Nat]
      <4> TAKE q \in DOMAIN rooms'
      <4>1. CASE q = r
        BY <2>2, <2>5, <4>1
      <4>2. CASE q # r
        BY <2>2, <2>3, <4>2 DEF TypeOK
      <4> QED
        BY <4>1, <4>2
    <3> QED
      BY <1>1, <1>2, <2>2, <3>1 DEF TypeOK
  <2>7. RoomOK(r)'
    <3> DEFINE old == RoomAt(r)
    <3>1. RoomOK(r)
      OBVIOUS
    <3>2. CASE role = "publisher"
      <4>1. RoomAt(r)'.publisher = n + 1 /\ RoomAt(r)'.subscribers = old.subscribers
        BY <2>2, <2>4, <3>2 DEF AdmitTo
      <4>2. n + 1 # None
        BY <1>1, RoomAssumption
      <4>3. RoomAt(r)'.subscribers = {i \in Index' : In(i, r, "subscriber")'}
        BY <1>1, <3>1, <3>2, <4>1 DEF RoomOK, In, LastPublisher
      <4>4. rooms'[r] # NewRoom
        BY <2>2, <4>1, <4>2 DEF NewRoom
      <4> QED
        BY <1>1, <3>2, <4>1, <4>2, <4>3, <4>4 DEF RoomOK, In, LastPublisher
    <3>3. CASE role = "subscriber"
      <4>1. /\ RoomAt(r)'.publisher = old.publisher
            /\ RoomAt(r)'.subscribers = old.subscribers \cup {n + 1}
        BY <2>2, <2>4, <3>3 DEF AdmitTo
      <4>2. RoomAt(r)'.subscribers = {i \in Index' : In(i, r, "subscriber")'}
        BY <1>1, <3>1, <3>3, <4>1 DEF RoomOK, In, LastPublisher
      <4>3. rooms'[r] # NewRoom
        BY <2>2, <4>1 DEF NewRoom
      <4>4. \A p : p = old.publisher /\ p # None => LastPublisher(p, r)'
        BY <1>1, <3>1, <3>3 DEF RoomOK, In, LastPublisher
      <4> QED
        BY <4>1, <4>2, <4>3, <4>4 DEF RoomOK, LastPublisher, In
    <3> QED
      BY <3>2, <3>3 DEF Role
  <2>8. ASSUME NEW q \in Room \ {r} PROVE RoomOK(q)'
    <3>1. RoomOK(q)
      OBVIOUS
    <3>2. RoomAt(q).subscribers = {i \in Index' : In(i, q, "subscriber")'}
      BY <1>1, <3>1 DEF RoomOK, In, LastPublisher
    <3>3. \A p : p = RoomAt(q).publisher /\ p # None => LastPublisher(p, q)'
      BY <1>1, <3>1 DEF RoomOK, In, LastPublisher
    <3> QED
      BY <2>3, <3>1, <3>2, <3>3 DEF RoomOK, LastPublisher, In
  <2> QED
    BY <1>5, <1>6, <2>6, <2>7, <2>8
<1>8. CASE ~(r # None /\ role # None)
  <2>1. UNCHANGED rooms
    BY <1>8 DEF SdpOffer
  <2>2. TypeOK'
    BY <1>1, <1>2, <2>1 DEF TypeOK
  <2>3. ASSUME NEW q \in Room PROVE RoomOK(q)'
    <3>1. RoomOK(q) /\ RoomAt(q)' = RoomAt(q)
      BY <2>1 DEF RoomAt
    <3>2. \/ sessions'[n + 1].room # q
          \/ sessions'[n + 1].role \notin Role
      BY <1>1, <1>8, RoomAssumption DEF Role
    <3>3. RoomAt(q).subscribers = {i \in Index' : In(i, q, "subscriber")'}
      BY <1>1, <3>1, <3>2 DEF RoomOK, In, LastPublisher, Role
    <3>4. \A p : p = RoomAt(q).publisher /\ p # None => LastPublisher(p, q)'
      BY <1>1, <3>1, <3>2 DEF RoomOK, In, LastPublisher, Role
    <3> QED
      BY <2>1, <3>1, <3>3, <3>4 DEF RoomOK, LastPublisher, In
  <2> QED
    BY <1>5, <1>6, <2>2, <2>3
<1> QED
  BY <1>7, <1>8

-----------------------------------------------------------------------------
(* A removal: the sessions after the removed one move up by one.           *)
LEMMA RemovalPlaces ==
    ASSUME TypeOK, RemoveDead
    PROVE  LET n == Len(sessions) IN
           /\ n \in Nat /\ cursor \in 1 .. n
           /\ Index = 1 .. n
           /\ sessions' \in Seq(Session)
           /\ Index' = 1 .. n - 1
           /\ \A k \in 1 .. n - 1 : sessions'[k] = sessions[Unshift(k, cursor)]
<1>1. sessions \in Seq(Session) /\ cursor \in Index
  BY DEF TypeOK, RemoveDead
<1>2. Index = 1 .. Len(sessions) /\ Len(sessions) \in Nat
  BY <1>1 DEF Index
<1>3. sessions' = RemoveAt(sessions, cursor)
  BY DEF RemoveDead
<1>4. /\ sessions' \in Seq(Session)
      /\ Len(sessions') = Len(sessions) - 1
      /\ \A k \in 1 .. Len(sessions) - 1 :
            sessions'[k] = sessions[Unshift(k, cursor)]
  BY <1>1, <1>2, <1>3, RemoveAtElements
<1>5. Index' = 1 .. Len(sessions) - 1
  BY <1>4 DEF Index
<1> QED
  BY <1>1, <1>2, <1>4, <1>5

(* Every room, existing or not, is what it was without the removed index.  *)
LEMMA RemovalRooms ==
    ASSUME TypeOK, RemoveDead, NEW r \in Room
    PROVE  /\ RoomAt(r)' = Without(RoomAt(r), cursor)
           /\ r \in DOMAIN rooms' => rooms'[r] # NewRoom
<1>1. rooms' = [q \in {p \in DOMAIN rooms : Without(rooms[p], cursor) # NewRoom} |->
                   Without(rooms[q], cursor)]
  BY DEF RemoveDead, RemoveSession
<1>2. Without(NewRoom, cursor) = NewRoom
  BY DEF Without, NewRoom
<1>3. CASE r \in DOMAIN rooms
  BY <1>1, <1>3 DEF RoomAt
<1>4. CASE r \notin DOMAIN rooms
  BY <1>1, <1>2, <1>4 DEF RoomAt
<1> QED
  BY <1>3, <1>4

LEMMA RemovalKeeps ==
    ASSUME Inv, RemoveDead
    PROVE  Inv'
<1> DEFINE n == Len(sessions)
<1> USE DEF Inv
<1>1. /\ n \in Nat /\ cursor \in 1 .. n
      /\ Index = 1 .. n
      /\ sessions' \in Seq(Session)
      /\ Index' = 1 .. n - 1
      /\ \A k \in 1 .. n - 1 : sessions'[k] = sessions[Unshift(k, cursor)]
  BY RemovalPlaces
<1>2. UNCHANGED <<relays, pc, cursor>> /\ pc = "cleanup"
  BY DEF RemoveDead
<1>3. /\ \A k \in 1 .. n : k # cursor =>
            /\ Shift(k, cursor) \in 1 .. n - 1
            /\ Unshift(Shift(k, cursor), cursor) = k
      /\ \A k \in 1 .. n - 1 :
            /\ Unshift(k, cursor) \in 1 .. n
            /\ Unshift(k, cursor) # cursor
            /\ Shift(Unshift(k, cursor), cursor) = k
  BY <1>1, ShiftInverse
<1> HIDE DEF n
<1>4. DistinctIds'
  <2> SUFFICES ASSUME NEW j \in Index', NEW k \in Index',
                      sessions'[j].id = sessions'[k].id
               PROVE  j = k
    BY DEF DistinctIds
  <2>1. Unshift(j, cursor) = Unshift(k, cursor)
    BY <1>1, <1>3 DEF DistinctIds
  <2> QED
    BY <1>1, <1>3, <2>1
<1>5. PassedAlive'
  <2>1. \A k \in Index' : k < cursor => Unshift(k, cursor) = k
    BY DEF Unshift
  <2>2. \A k \in Index' : k < cursor => sessions'[k].alive
    BY <1>1, <1>2, <1>3, <2>1 DEF PassedAlive
  <2> QED
    BY <1>2, <2>2 DEF PassedAlive
<1>6. ASSUME NEW r \in Room PROVE RoomOK(r)'
  <2> DEFINE old == RoomAt(r)
             new == Without(old, cursor)
  <2>1. RoomOK(r) /\ RoomAt(r)' = new /\ (r \in DOMAIN rooms' => rooms'[r] # NewRoom)
    BY RemovalRooms
  <2>2. new.subscribers = {k \in Index' : In(k, r, "subscriber")'}
    <3>1. new.subscribers = {Shift(k, cursor) : k \in old.subscribers \ {cursor}}
      BY DEF Without
    <3>2. old.subscribers = {k \in Index : In(k, r, "subscriber")}
      BY <2>1 DEF RoomOK
    <3>3. ASSUME NEW k \in Index, k # cursor, In(k, r, "subscriber")
          PROVE  /\ Shift(k, cursor) \in Index'
                 /\ sessions'[Shift(k, cursor)].room = r
                 /\ sessions'[Shift(k, cursor)].role = "subscriber"
      <4>1. Shift(k, cursor) \in 1 .. n - 1 /\ Unshift(Shift(k, cursor), cursor) = k
        BY <1>1, <1>3, <3>3
      <4>2. sessions'[Shift(k, cursor)] = sessions[k]
        BY <1>1, <4>1
      <4> QED
        BY <1>1, <3>3, <4>1, <4>2 DEF In
    <3>4. ASSUME NEW k \in Index', sessions'[k].room = r, sessions'[k].role = "subscriber"
          PROVE  k \in new.subscribers
      <4>1. Unshift(k, cursor) \in old.subscribers \ {cursor}
        BY <1>1, <1>3, <3>2, <3>4 DEF In
      <4> QED
        BY <1>1, <1>3, <3>1, <4>1
    <3> HIDE DEF old, new
    <3>5. new.subscribers =
             {k \in Index' : sessions'[k].room = r /\ sessions'[k].role = "subscriber"}
      <4>1. ASSUME NEW j \in new.subscribers
            PROVE  /\ j \in Index'
                   /\ sessions'[j].room = r /\ sessions'[j].role = "subscriber"
        <5>1. PICK k \in old.subscribers \ {cursor} : j = Shift(k, cursor)
          BY <3>1, <4>1
        <5>2. k \in Index /\ k # cursor /\ In(k, r, "subscriber")
          BY <3>2, <5>1
        <5> QED
          BY <3>3, <5>1, <5>2
      <4> QED
        BY <3>4, <4>1
    <3> QED
      BY <3>5 DEF In
  <2>3. \A p : p = new.publisher /\ p # None => LastPublisher(p, r)'
    <3> SUFFICES ASSUME new.publisher # None
                 PROVE  \A p : p = new.publisher => LastPublisher(p, r)'
      OBVIOUS
    <3> DEFINE was == old.publisher
    <3>1. was # None /\ was # cursor /\ new.publisher = Shift(was, cursor)
      BY DEF Without
    <3>2. was \in Index /\ In(was, r, "publisher")
          /\ \A i \in Index : In(i, r, "publisher") => i <= was
      BY <2>1, <3>1 DEF RoomOK, LastPublisher
    <3> HIDE DEF was
    <3>3. /\ Shift(was, cursor) \in Index'
          /\ sessions'[Shift(was, cursor)] = sessions[was]
      BY <1>1, <1>3, <3>1, <3>2
    <3>4. ASSUME NEW k \in Index', sessions'[k].room = r, sessions'[k].role = "publisher"
          PROVE  k <= Shift(was, cursor)
      <4>1. Unshift(k, cursor) <= was
        BY <1>1, <1>3, <3>2, <3>4 DEF In
      <4>2. k \in Nat /\ was \in Nat /\ cursor \in Nat
        BY <1>1, <3>2
      <4> QED
        BY <3>1, <4>1, <4>2, ShiftMonotone
    <3>5. \A p : p = Shift(was, cursor) => LastPublisher(p, r)'
      BY <3>2, <3>3, <3>4 DEF LastPublisher, In
    <3> QED
      BY <3>1, <3>5
  <2> HIDE DEF new
  <2> QED
    BY <2>1, <2>2, <2>3 DEF RoomOK
<1>7. TypeOK'
  <2>1. ASSUME NEW r \in DOMAIN rooms'
        PROVE  r \in Room /\ rooms'[r] \in [publisher : Nat \cup {None},
                                           subscribers : SUBSET Nat]
    <3>1. r \in DOMAIN rooms /\ rooms'[r] = Without(rooms[r], cursor)
      BY <2>1 DEF RemoveDead, RemoveSession
    <3>2. r \in Room /\ rooms[r] \in [publisher : Nat \cup {None},
                                     subscribers : SUBSET Nat]
      BY <3>1 DEF TypeOK
    <3>3. \A k \in Nat : Shift(k, cursor) \in Nat
      BY <1>1 DEF Shift
    <3> QED
      BY <3>1, <3>2, <3>3 DEF Without
  <2> QED
    BY <1>1, <1>2, <2>1 DEF TypeOK
<1> QED
  BY <1>4, <1>5, <1>6, <1>7

-----------------------------------------------------------------------------
LEMMA DrainKeeps ==
    ASSUME Inv, Drain
    PROVE  Inv'
<1>1. TypeOK
  BY DEF Inv
<1>2. SamePlaces /\ relays' \in [Room -> SUBSET Node] /\ StartCleanup
  BY <1>1, DrainSame
<1>3. TypeOK'
  BY <1>1, <1>2 DEF TypeOK, SamePlaces, StartCleanup
<1>4. PassedAlive'
  <2>1. Index' \subseteq Nat \ {0}
    BY <1>2, SeqDomain DEF SamePlaces, Index
  <2> QED
    BY <1>2, <2>1 DEF PassedAlive, StartCleanup
<1>5. (\A r \in Room : RoomOK(r))' /\ DistinctIds'
  BY <1>2, SamePlacesKeep
<1> QED
  BY <1>3, <1>4, <1>5 DEF Inv

LEMMA ShutdownKeeps ==
    ASSUME Shutdown
    PROVE  Inv'
<1>1. Index' = {}
  BY DEF Shutdown, Stopped, Index
<1>2. TypeOK'
  BY DEF Shutdown, Stopped, TypeOK
<1>3. ASSUME NEW r \in Room PROVE RoomOK(r)'
  BY <1>1 DEF Shutdown, Stopped, RoomOK, RoomAt, NewRoom
<1> QED
  BY <1>1, <1>2, <1>3 DEF Inv, DistinctIds, PassedAlive

(* The steps of the walk that remove nobody.                               *)
LEMMA WalkKeeps ==
    ASSUME Inv, PassLive \/ EndCleanup \/ UNCHANGED vars
    PROVE  Inv'
<1> USE DEF Inv
<1>1. SamePlaces /\ relays' = relays /\ sessions' = sessions
  BY DEF TypeOK, SamePlaces, PassLive, EndCleanup, vars
<1>2. (\A r \in Room : RoomOK(r))' /\ DistinctIds'
  BY <1>1, SamePlacesKeep
<1>3. TypeOK'
  <2>1. pc' \in {"select", "cleanup", "stopped"} /\ cursor' \in Nat \ {0}
    BY DEF TypeOK, PassLive, EndCleanup, vars
  <2> QED
    BY <1>1, <2>1 DEF TypeOK, SamePlaces
<1>4. PassedAlive'
  <2>1. \E n \in Nat : Index = 1 .. n
    BY SeqDomain DEF TypeOK, Index
  <2>2. cursor \in Nat \ {0}
    BY DEF TypeOK
  <2>3. CASE PassLive
    BY <2>1, <2>2, <2>3 DEF PassLive, PassedAlive, Index
  <2>4. CASE EndCleanup
    <3>1. \A i \in Index : i < cursor
      BY <2>1, <2>2, <2>4 DEF EndCleanup
    <3> QED
      BY <2>4, <3>1 DEF EndCleanup, PassedAlive, Index
  <2>5. CASE UNCHANGED vars
    BY <2>5 DEF vars, PassedAlive, Index
  <2> QED
    BY <2>3, <2>4, <2>5
<1> QED
  BY <1>2, <1>3, <1>4

LEMMA InvStep == Inv /\ [Next]_vars => Inv'
<1> SUFFICES ASSUME Inv, [Next]_vars PROVE Inv'
  OBVIOUS
<1>1. ASSUME NEW s \in Sid, NEW r \in Room \cup {None}, NEW role \in Role \cup {None},
             SdpOffer(s, r, role)
      PROVE  Inv'
  BY <1>1, OfferKeeps
<1>2. CASE Drain
  BY <1>2, DrainKeeps
<1>3. CASE Shutdown
  BY <1>3, ShutdownKeeps
<1>4. CASE RemoveDead
  BY <1>4, RemovalKeeps
<1>5. CASE PassLive \/ EndCleanup \/ UNCHANGED vars
  BY <1>5, WalkKeeps
<1> QED
  BY <1>1, <1>2, <1>3, <1>4, <1>5 DEF Next, Drain, Cleanup

(* The inductive invariant: each room, read by index, is what its sessions *)
(* made of it, and what the walk has passed is alive.                      *)
THEOREM Invariance == Spec => []Inv
BY InitInv, InvStep, PTL DEF Spec

-----------------------------------------------------------------------------
(* Every state is of its type: the registry never holds an index that is   *)
(* not one, and the walk never runs before the first session.              *)
THEOREM TypeCorrect == Spec => []TypeOK
<1>1. Inv => TypeOK
  BY DEF Inv
<1> QED
  BY <1>1, Invariance, PTL

LEMMA InvRooms == Inv => RoomsMatchSessions
<1> SUFFICES ASSUME Inv PROVE RoomsMatchSessions
  OBVIOUS
<1>1. DOMAIN rooms \subseteq Room /\ \A r \in Room : RoomOK(r)
  BY DEF Inv, TypeOK
<1>2. ASSUME NEW r \in DOMAIN rooms
      PROVE  /\ rooms[r] # NewRoom
             /\ rooms[r].publisher # None => LastPublisher(rooms[r].publisher, r)
             /\ rooms[r].subscribers \subseteq Index
  BY <1>1, <1>2 DEF RoomOK, RoomAt
<1>3. ASSUME NEW r \in Room
      PROVE  RelayTargets(r) = {i \in Index : In(i, r, "subscriber")}
  <2>1. RoomAt(r).subscribers = {i \in Index : In(i, r, "subscriber")}
    BY <1>1 DEF RoomOK
  <2> QED
    BY <2>1 DEF RelayTargets, RoomAt, NewRoom
<1> QED
  BY <1>2, <1>3 DEF RoomsMatchSessions, LastPublisher

(* Rooms and sessions agree after any number of removals: the indices a    *)
(* room keeps are those of the sessions that entered it, in their roles.   *)
THEOREM RoomsAreRight == Spec => []RoomsMatchSessions
BY InvRooms, Invariance, PTL

LEMMA InvMedia == Inv => MediaStaysInRoom
<1> SUFFICES ASSUME Inv, NEW i \in Index
             PROVE  /\ \A r, q \in PublisherRooms(i) : r = q
                    /\ MediaTargets(i) # {} =>
                          /\ sessions[i].role = "publisher"
                          /\ MediaTargets(i) =
                                {k \in Index : In(k, sessions[i].room, "subscriber")}
                    /\ \A k \in KeyframeTargets(i) : In(k, sessions[i].room, "publisher")
  BY DEF MediaStaysInRoom
<1>1. RoomsMatchSessions /\ DOMAIN rooms \subseteq Room
  BY InvRooms DEF Inv, TypeOK
<1>2. i # None
  BY SeqDomain, RoomAssumption DEF Inv, TypeOK, Index
<1>3. ASSUME NEW r \in PublisherRooms(i)
      PROVE  /\ r \in Room
             /\ sessions[i].room = r
             /\ sessions[i].role = "publisher"
  BY <1>1, <1>2, <1>3 DEF PublisherRooms, RoomsMatchSessions, In
<1>4. ASSUME MediaTargets(i) # {}
      PROVE  /\ sessions[i].role = "publisher"
             /\ MediaTargets(i) =
                   {k \in Index : In(k, sessions[i].room, "subscriber")}
  <2>1. PICK r \in PublisherRooms(i) : TRUE
    BY <1>4 DEF MediaTargets
  <2>2. PublisherRooms(i) = {r}
    BY <1>3, <2>1
  <2>3. MediaTargets(i) = RelayTargets(r)
    BY <2>2 DEF MediaTargets
  <2> QED
    BY <1>1, <1>3, <2>1, <2>3 DEF RoomsMatchSessions
<1>5. ASSUME NEW k \in KeyframeTargets(i)
      PROVE  In(k, sessions[i].room, "publisher")
  <2>1. PICK r \in DOMAIN rooms : /\ i \in rooms[r].subscribers
                                  /\ rooms[r].publisher # None
                                  /\ k = rooms[r].publisher
    BY DEF KeyframeTargets
  <2>2. In(k, r, "publisher")
    BY <1>1, <2>1 DEF RoomsMatchSessions
  <2>3. i \in RelayTargets(r)
    BY <2>1 DEF RelayTargets
  <2>4. In(i, r, "subscriber")
    BY <1>1, <2>1, <2>3 DEF RoomsMatchSessions
  <2> QED
    BY <2>2, <2>4 DEF In
<1> QED
  BY <1>3, <1>4, <1>5

(* Media reach the publisher's own room and nobody else, and a keyframe    *)
(* request reaches the publisher of the room it comes from.                *)
THEOREM MediaAreContained == Spec => []MediaStaysInRoom
BY InvMedia, Invariance, PTL

(* The cleanup walk, which removes from the vector it walks over, leaves   *)
(* no dead session behind.                                                 *)
THEOREM WalkMissesNobody == Spec => []NoDeadAtSelect
<1>1. Inv => NoDeadAtSelect
  BY DEF Inv, PassedAlive, NoDeadAtSelect
<1> QED
  BY <1>1, Invariance, PTL

-----------------------------------------------------------------------------
(* Refinement *)

(* The sessions behind the indices of a room.                              *)
LEMMA Seen ==
    ASSUME Inv, NEW r \in Room
    PROVE  /\ \E n \in Nat : Index = 1 .. n
           /\ None \notin Index /\ None \notin Nat
           /\ \A i \in Index : sessions[i].id \in Sid /\ sessions[i].id # None
           /\ RoomAt(r).publisher # None => RoomAt(r).publisher \in Index
           /\ RoomAt(r).subscribers \subseteq Index
<1>1. \E n \in Nat : Index = 1 .. n
  BY SeqDomain DEF Inv, TypeOK, Index
<1>2. \A i \in Index : sessions[i] \in Session
  BY SeqDomain DEF Inv, TypeOK, Index
<1>3. \A i \in Index : sessions[i].id \in Sid
  BY <1>2 DEF Session
<1>4. RoomOK(r)
  BY DEF Inv
<1> QED
  BY <1>1, <1>3, <1>4, RoomAssumption DEF RoomOK, LastPublisher

(* Where indices keep their sessions and rooms their indices, nothing is   *)
(* seen to happen.                                                         *)
LEMMA SeenSame ==
    ASSUME Inv, NEW r \in Room, RoomAt(r)' = RoomAt(r),
           \A i \in Index : i \in Index' /\ sessions'[i].id = sessions[i].id,
           None \notin Index'
    PROVE  PubOf(r)' = PubOf(r) /\ SubsOf(r)' = SubsOf(r)
<1>1. \A i \in Index \cup {None} : IdAt(i)' = IdAt(i)
  BY Seen DEF IdAt
<1>2. \A p : p = RoomAt(r).publisher => p \in Index \cup {None}
  BY Seen
<1>3. RoomAt(r).subscribers \subseteq Index
  BY Seen
<1> QED
  BY <1>1, <1>2, <1>3 DEF PubOf, SubsOf

LEMMA RefInit == Init => R!Nobody
<1> SUFFICES ASSUME Init PROVE R!Nobody
  OBVIOUS
<1>1. Index = {}
  BY DEF Init, Index
<1>2. \A r \in Room : PubOf(r) = None /\ SubsOf(r) = {}
  BY <1>1 DEF Init, PubOf, SubsOf, IdAt, RoomAt, NewRoom
<1> QED
  BY <1>2 DEF R!Nobody, Init

LEMMA RefShutdown ==
    ASSUME Shutdown
    PROVE  R!Stop
<1>1. Index' = {}
  BY DEF Shutdown, Stopped, Index
<1>2. \A r \in Room : PubOf(r)' = None /\ SubsOf(r)' = {}
  BY <1>1 DEF Shutdown, Stopped, PubOf, SubsOf, IdAt, RoomAt, NewRoom
<1> QED
  BY <1>2 DEF R!Stop, R!Nobody, Shutdown, Stopped

LEMMA RefSamePlaces ==
    ASSUME Inv, SamePlaces, NEW r \in Room
    PROVE  PubOf(r)' = PubOf(r) /\ SubsOf(r)' = SubsOf(r)
<1>1. RoomAt(r)' = RoomAt(r)
  BY DEF SamePlaces, RoomAt
<1>2. Index' = Index /\ \A i \in Index : sessions'[i].id = sessions[i].id
  BY DEF SamePlaces, Index
<1>3. None \notin Index
  BY Seen
<1> QED
  BY <1>1, <1>2, <1>3, SeenSame

LEMMA RefRemoval ==
    ASSUME Inv, RemoveDead
    PROVE  R!Exit(sessions[cursor].id) /\ sessions[cursor].id \in Sid
<1> DEFINE n == Len(sessions)
           gone == sessions[cursor].id
           after(k) == IF k \in Index' THEN sessions'[k].id ELSE None
<1>1. /\ n \in Nat /\ cursor \in 1 .. n
      /\ Index = 1 .. n
      /\ Index' = 1 .. n - 1
      /\ \A k \in 1 .. n - 1 : sessions'[k] = sessions[Unshift(k, cursor)]
  BY RemovalPlaces DEF Inv
<1>2. \A k \in 1 .. n : k # cursor =>
            /\ Shift(k, cursor) \in 1 .. n - 1
            /\ Unshift(Shift(k, cursor), cursor) = k
  BY <1>1, ShiftInverse
<1> HIDE DEF n
<1>3. \A k \in Index : k # cursor => after(Shift(k, cursor)) = sessions[k].id
  BY <1>1, <1>2
<1>4. \A k \in Index : sessions[k].id = gone <=> k = cursor
  BY <1>1 DEF Inv, DistinctIds
<1>5. ASSUME NEW r \in Room
      PROVE  /\ PubOf(r)' = IF PubOf(r) = gone THEN None ELSE PubOf(r)
             /\ SubsOf(r)' = SubsOf(r) \ {gone}
  <2> DEFINE old == RoomAt(r)
             new == Without(old, cursor)
  <2>1. RoomAt(r)' = new
    BY RemovalRooms DEF Inv
  <2>2. /\ None \notin Index /\ None \notin Nat
        /\ old.publisher # None => old.publisher \in Index
        /\ old.subscribers \subseteq Index
        /\ \A i \in Index : sessions[i].id # None
    BY Seen
  <2>3. /\ new.publisher = IF old.publisher = cursor \/ old.publisher = None
                             THEN None ELSE Shift(old.publisher, cursor)
        /\ new.subscribers = {Shift(k, cursor) : k \in old.subscribers \ {cursor}}
    BY DEF Without
  <2> HIDE DEF old, new
  <2>4. after(None) = None
    BY <1>1, <2>2
  <2>5. PubOf(r) = IdAt(old.publisher) /\ SubsOf(r) = {IdAt(k) : k \in old.subscribers}
    BY DEF PubOf, SubsOf, old
  <2>6. /\ PubOf(r)' = after(new.publisher)
        /\ SubsOf(r)' = {after(k) : k \in new.subscribers}
    BY <2>1 DEF PubOf, SubsOf, IdAt
  <2> HIDE DEF after
  <2>7. PubOf(r)' = IF PubOf(r) = gone THEN None ELSE PubOf(r)
    <3>1. CASE old.publisher = None
      <4>1. PubOf(r) = None /\ PubOf(r)' = None
        BY <2>2, <2>3, <2>4, <2>5, <2>6, <3>1 DEF IdAt
      <4> QED
        BY <4>1
    <3>2. CASE old.publisher = cursor
      <4>1. PubOf(r) = gone /\ PubOf(r)' = None
        BY <1>1, <2>2, <2>3, <2>4, <2>5, <2>6, <3>2 DEF IdAt
      <4> QED
        BY <4>1
    <3>3. CASE old.publisher # None /\ old.publisher # cursor
      <4>1. PubOf(r) = sessions[old.publisher].id
        BY <2>2, <2>5, <3>3 DEF IdAt
      <4>2. PubOf(r)' = sessions[old.publisher].id
        BY <1>3, <2>2, <2>3, <2>6, <3>3
      <4> QED
        BY <1>4, <2>2, <3>3, <4>1, <4>2
    <3> QED
      BY <3>1, <3>2, <3>3
  <2>8. SubsOf(r)' = SubsOf(r) \ {gone}
    <3>1. SubsOf(r) = {sessions[k].id : k \in old.subscribers}
      BY <2>2, <2>5 DEF IdAt
    <3>2. SubsOf(r)' = {after(Shift(k, cursor)) : k \in old.subscribers \ {cursor}}
      BY <2>3, <2>6
    <3>3. SubsOf(r)' = {sessions[k].id : k \in old.subscribers \ {cursor}}
      BY <1>3, <2>2, <3>2
    <3> QED
      BY <1>4, <2>2, <3>1, <3>3
  <2> QED
    BY <2>7, <2>8
<1>6. gone \in Sid
  <2>1. sessions[cursor] \in Session
    BY <1>1, SeqDomain DEF Inv, TypeOK, Index
  <2> QED
    BY <2>1 DEF Session
<1> HIDE DEF gone
<1>7. R!Exit(gone)
  BY <1>5 DEF R!Exit, RemoveDead
<1> QED
  BY <1>6, <1>7 DEF gone

LEMMA RefOffer ==
    ASSUME Inv, NEW s \in Sid, NEW r \in Room \cup {None},
           NEW role \in Role \cup {None}, SdpOffer(s, r, role)
    PROVE  \/ r \in Room /\ R!Publish(s, r)
           \/ r \in Room /\ R!Subscribe(s, r)
           \/ \A q \in Room : PubOf(q)' = PubOf(q) /\ SubsOf(q)' = SubsOf(q)
<1> DEFINE n == Len(sessions)
<1>1. /\ Index = 1 .. n /\ n \in Nat
      /\ Index' = 1 .. n + 1
      /\ \A i \in 1 .. n : sessions'[i].id = sessions[i].id
      /\ sessions'[n + 1].id = s
  BY OfferPlaces DEF Index, Inv
<1>2. /\ None \notin Nat /\ s # None
      /\ \A i \in Index : sessions[i].id # s
  BY RoomAssumption DEF SdpOffer, Ids
<1>3. ASSUME NEW q \in Room, RoomAt(q)' = RoomAt(q)
      PROVE  PubOf(q)' = PubOf(q) /\ SubsOf(q)' = SubsOf(q)
  BY <1>1, <1>2, <1>3, SeenSame
<1>4. CASE r = None \/ role = None
  <2>1. \A q \in Room : RoomAt(q)' = RoomAt(q)
    BY <1>4 DEF SdpOffer, RoomAt
  <2> QED
    BY <1>3, <2>1
<1>5. CASE r # None /\ role # None
  <2> r \in Room /\ role \in Role
    BY <1>5
  <2>1. Join(r, n + 1, role) /\ relays' = relays
    BY <1>5 DEF SdpOffer
  <2> HIDE DEF n
  <2>2. RoomAt(r)' = AdmitTo(RoomAt(r), n + 1, role)
    BY <2>1 DEF Join, RoomAt
  <2>3. \A q \in Room : q # r => RoomAt(q)' = RoomAt(q)
    BY <2>1 DEF Join, RoomAt
  <2>4. R!Outside(s)
    <3>1. ASSUME NEW q \in Room PROVE PubOf(q) # s /\ s \notin SubsOf(q)
      BY <1>2, Seen DEF PubOf, SubsOf, IdAt
    <3> QED
      BY <3>1 DEF R!Outside
  <2>5. \A q \in Room : q # r => PubOf(q)' = PubOf(q) /\ SubsOf(q)' = SubsOf(q)
    BY <1>3, <2>3
  <2> DEFINE after(k) == IF k \in Index' THEN sessions'[k].id ELSE None
             old == RoomAt(r)
  <2>6. after(n + 1) = s /\ after(None) = None
        /\ \A k \in Index : after(k) = IdAt(k)
    BY <1>1, <1>2 DEF IdAt
  <2>7. /\ old.publisher # None => old.publisher \in Index
        /\ old.subscribers \subseteq Index
        /\ IdAt(None) = None
    BY Seen DEF IdAt
  <2>8. PubOf(r) = IdAt(old.publisher) /\ SubsOf(r) = {IdAt(k) : k \in old.subscribers}
    BY DEF PubOf, SubsOf
  <2>9. old \in [publisher : Nat \cup {None}, subscribers : SUBSET Nat]
    BY DEF Inv, TypeOK, RoomAt, NewRoom
  <2>10. CASE role = "publisher"
    <3>1. RoomAt(r)' = [old EXCEPT !.publisher = n + 1]
      BY <2>2, <2>10 DEF AdmitTo
    <3> HIDE DEF old
    <3>2. PubOf(r)' = after(n + 1) /\ SubsOf(r)' = {after(k) : k \in old.subscribers}
      BY <2>9, <3>1 DEF PubOf, SubsOf, IdAt
    <3> HIDE DEF after
    <3>3. PubOf(r)' = s /\ SubsOf(r)' = SubsOf(r)
      BY <2>6, <2>7, <2>8, <3>2
    <3>4. R!Publish(s, r)
      BY <2>1, <2>4, <2>5, <3>3 DEF R!Publish
    <3> QED
      BY <3>4
  <2>11. CASE role = "subscriber"
    <3>1. RoomAt(r)' = [old EXCEPT !.subscribers = @ \cup {n + 1}]
      BY <2>2, <2>11 DEF AdmitTo
    <3> HIDE DEF old
    <3>2. /\ PubOf(r)' = after(old.publisher)
          /\ SubsOf(r)' = {after(k) : k \in old.subscribers \cup {n + 1}}
      BY <2>9, <3>1 DEF PubOf, SubsOf, IdAt
    <3> HIDE DEF after
    <3>3. PubOf(r)' = PubOf(r) /\ SubsOf(r)' = SubsOf(r) \cup {s}
      BY <2>6, <2>7, <2>8, <3>2
    <3>4. R!Subscribe(s, r)
      BY <2>1, <2>4, <2>5, <3>3 DEF R!Subscribe
    <3> QED
      BY <3>4
  <2> QED
    BY <2>10, <2>11 DEF Role
<1> QED
  BY <1>4, <1>5

LEMMA RefStep ==
    ASSUME Inv, [Next]_vars
    PROVE  [R!RoomNext]_<<[r \in Room |-> PubOf(r)], [r \in Room |-> SubsOf(r)], relays>>
<1> DEFINE Still == \A r \in Room : PubOf(r)' = PubOf(r) /\ SubsOf(r)' = SubsOf(r)
           Goal == [R!RoomNext]_<<[r \in Room |-> PubOf(r)],
                                  [r \in Room |-> SubsOf(r)], relays>>
<1>1. ASSUME Still, UNCHANGED relays PROVE Goal
  BY <1>1
<1>2. ASSUME SamePlaces, UNCHANGED relays PROVE Goal
  BY <1>1, <1>2, RefSamePlaces
<1>3. ASSUME NEW s \in Sid, NEW r \in Room \cup {None}, NEW role \in Role \cup {None},
             SdpOffer(s, r, role)
      PROVE  Goal
  <2>1. UNCHANGED relays
    BY <1>3 DEF SdpOffer
  <2>2. CASE Still
    BY <1>1, <2>1, <2>2
  <2>3. CASE r \in Room /\ (R!Publish(s, r) \/ R!Subscribe(s, r))
    BY <2>3 DEF R!RoomNext
  <2> HIDE DEF Goal
  <2> QED
    BY <1>3, <2>2, <2>3, RefOffer
<1>4. ASSUME NEW r \in Room, NEW n \in Node, RelaySubscribe(r, n) \/ RelayUnsubscribe(r, n)
      PROVE  Goal
  <2>1. Drain
    BY <1>4 DEF Drain
  <2>2. Still
    BY <2>1, DrainSame, RefSamePlaces DEF Inv
  <2>3. R!StartRelay(r, n) \/ R!StopRelay(r, n)
    BY <1>4, <2>2 DEF RelaySubscribe, RelayUnsubscribe, R!StartRelay, R!StopRelay
  <2> QED
    BY <2>3 DEF R!RoomNext
<1>5. CASE (\E r \in Room : RelayData(r)) \/ (\E i \in Index : UdpPacket(i)) \/ Timeout
  <2>1. Drain /\ UNCHANGED relays
    BY <1>5 DEF Drain, RelayData, UdpPacket, Timeout
  <2>2. SamePlaces
    BY <2>1, DrainSame DEF Inv
  <2> QED
    BY <1>2, <2>1, <2>2
<1>6. CASE Shutdown
  BY <1>6, RefShutdown DEF R!RoomNext
<1>7. CASE RemoveDead
  <2>1. PICK s \in Sid : R!Exit(s)
    BY <1>7, RefRemoval
  <2> QED
    BY <2>1 DEF R!RoomNext
<1>8. CASE PassLive \/ EndCleanup \/ UNCHANGED vars
  <2>1. SamePlaces /\ UNCHANGED relays
    BY <1>8 DEF Inv, TypeOK, SamePlaces, PassLive, EndCleanup, vars
  <2> QED
    BY <1>2, <2>1
<1>9. Next \/ UNCHANGED vars
  OBVIOUS
<1> QED
  BY <1>3, <1>4, <1>5, <1>6, <1>7, <1>8, <1>9, Zenon DEF Next, Cleanup

(* The registry of indices implements rooms of sessions: what joins and    *)
(* removals do to indices is, seen through the vector, one session         *)
(* entering one room or one session leaving and taking nothing with it.    *)
THEOREM Refinement == Spec => ImplementsRoomSpec
<1>1. Init => R!Nobody
  BY RefInit
<1>2. Inv /\ [Next]_vars =>
        [R!RoomNext]_<<[r \in Room |-> PubOf(r)], [r \in Room |-> SubsOf(r)], relays>>
  BY RefStep
<1> QED
  BY <1>1, <1>2, Invariance, PTL
     DEF Spec, ImplementsRoomSpec, R!RoomSpecification
=============================================================================
