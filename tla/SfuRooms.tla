------------------------------- MODULE SfuRooms -------------------------------
(***************************************************************************)
(* The event loop of the SFU: crates/sfu/src/lib.rs with the room registry *)
(* of room.rs, the outbound relays of relay.rs and what session.rs         *)
(* contributes to them.                                                    *)
(*                                                                         *)
(* Sessions live in a Vec and rooms refer to them by index.  Each turn of  *)
(* the loop takes one branch of its select and then walks the Vec once,    *)
(* removing the sessions that died; each removal shifts the indices kept   *)
(* in the rooms.  pc says whether the loop is at its select or in that     *)
(* walk, whose iterations are steps of their own here: nothing else can    *)
(* happen between them.                                                    *)
(*                                                                         *)
(* Indices count from 1.  A session has an identity of its own, id, which  *)
(* the code has no need of: it is what indices are compared with.  The     *)
(* media, keyframe and ICE machinery is reduced to which sessions an event *)
(* reaches and which may die of it.                                        *)
(***************************************************************************)
EXTENDS Naturals, Sequences, SequencesExt

CONSTANTS
    Sid,        \* identities of sessions: bounds how many exist at one time
    Room,       \* room names
    Node,       \* remote nodes that can subscribe
    None

VARIABLES
    sessions,   \* Vec<Session>
    rooms,      \* RoomRegistry: a function on the names of existing rooms
    relays,     \* OutboundRelays: nodes subscribed to each room name
    pc,         \* "select", "cleanup" or "stopped"
    cursor      \* i of the cleanup walk

vars == <<sessions, rooms, relays, pc, cursor>>

Role == {"publisher", "subscriber"}

ASSUME RoomAssumption == None \notin Sid \cup Room \cup Role \cup Nat

Session == [id : Sid, room : Room \cup {None}, role : Role \cup {None},
            alive : BOOLEAN]
Index == DOMAIN sessions
Ids == {sessions[i].id : i \in Index}

-----------------------------------------------------------------------------
(* RoomRegistry *)

NewRoom == [publisher |-> None, subscribers |-> {}]
RoomAt(r) == IF r \in DOMAIN rooms THEN rooms[r] ELSE NewRoom

(* Fault: a room keeps its first publisher.                                *)
AdmitFirst(room, i, role) ==
    IF role = "publisher"
      THEN [room EXCEPT !.publisher = IF @ = None THEN i ELSE @]
      ELSE [room EXCEPT !.subscribers = @ \cup {i}]

AdmitTo(room, i, role) ==
    IF role = "publisher"
      THEN [room EXCEPT !.publisher = i]
      ELSE [room EXCEPT !.subscribers = @ \cup {i}]

Join(r, i, role) ==
    rooms' = [q \in DOMAIN rooms \cup {r} |->
                 IF q = r THEN AdmitTo(RoomAt(r), i, role) ELSE rooms[q]]

Shift(k, i) == IF k > i THEN k - 1 ELSE k

(* Fault: the publisher's index is not shifted.                            *)
WithoutKeepingPublisher(room, i) ==
    [publisher |-> IF room.publisher = i THEN None ELSE room.publisher,
     subscribers |-> {Shift(k, i) : k \in room.subscribers \ {i}}]

(* Fault: indices are shifted before the removed one is taken out.         *)
WithoutShiftedFirst(room, i) ==
    [publisher |-> IF room.publisher = i \/ room.publisher = None
                     THEN None ELSE Shift(room.publisher, i),
     subscribers |-> {Shift(k, i) : k \in room.subscribers} \ {i}]

(* A room once the session at index i is gone from the Vec.                *)
Without(room, i) ==
    [publisher |-> IF room.publisher = i \/ room.publisher = None
                     THEN None ELSE Shift(room.publisher, i),
     subscribers |-> {Shift(k, i) : k \in room.subscribers \ {i}}]

RemoveSession(i) ==
    rooms' = [q \in {r \in DOMAIN rooms : Without(rooms[r], i) # NewRoom} |->
                 Without(rooms[q], i)]

(* The rooms that find_publisher_room can return.                          *)
PublisherRooms(i) == {r \in DOMAIN rooms : rooms[r].publisher = i}

-----------------------------------------------------------------------------
(* Fan-out *)

(* The sessions that media from a remote node for room r are written to.   *)
RelayTargets(r) == IF r \in DOMAIN rooms
                     THEN rooms[r].subscribers \cap Index ELSE {}

(* The sessions that media of session i are written to.                    *)
MediaTargets(i) == UNION {RelayTargets(r) : r \in PublisherRooms(i)}

(* The publishers a keyframe request of session i can be sent to.          *)
KeyframeTargets(i) ==
    {rooms[r].publisher : r \in {q \in DOMAIN rooms :
        i \in rooms[q].subscribers /\ rooms[q].publisher # None}} \cap Index

-----------------------------------------------------------------------------
(* The loop *)

(* Fault: the walk starts before the first session.                        *)
StartCleanupEarly == pc' = "cleanup" /\ cursor' = 0

(* Every branch of the select ends in the cleanup walk.  Draining a        *)
(* session's outputs, to which every branch comes, can find it dead.       *)
StartCleanup == pc' = "cleanup" /\ cursor' = 1

Dies(s, dead) ==
    [i \in DOMAIN s |-> [s[i] EXCEPT !.alive = @ /\ i \notin dead]]

NewSession(s, r, role) ==
    [id |-> s, room |-> r, role |-> role, alive |-> TRUE]

Stopped == /\ pc' = "stopped"
           /\ cursor' = 1
           /\ sessions' = << >>
           /\ rooms' = [r \in {} |-> NewRoom]
           /\ relays' = [r \in Room |-> {}]

(* An SDP offer that was accepted and whose answer went out.  A session    *)
(* without a room, or without one of the two roles, joins nothing.  An     *)
(* offer that is refused changes nothing.                                  *)
SdpOffer(s, r, role) ==
    /\ pc = "select"
    /\ s \notin Ids
    /\ IF r # None /\ role # None
         THEN Join(r, Len(sessions) + 1, role)
         ELSE UNCHANGED rooms
    /\ \E dead \in SUBSET {Len(sessions) + 1} :
          sessions' = Dies(Append(sessions, NewSession(s, r, role)), dead)
    /\ StartCleanup
    /\ UNCHANGED relays

(* The answer finds the event channel closed, or Shutdown arrives.         *)
Shutdown == pc = "select" /\ Stopped

RelaySubscribe(r, n) ==
    /\ pc = "select"
    /\ relays' = [relays EXCEPT ![r] = @ \cup {n}]
    /\ StartCleanup
    /\ UNCHANGED <<sessions, rooms>>

RelayUnsubscribe(r, n) ==
    /\ pc = "select"
    /\ relays' = [relays EXCEPT ![r] = @ \ {n}]
    /\ StartCleanup
    /\ UNCHANGED <<sessions, rooms>>

RelayData(r) ==
    /\ pc = "select"
    /\ \E dead \in SUBSET RelayTargets(r) : sessions' = Dies(sessions, dead)
    /\ StartCleanup
    /\ UNCHANGED <<rooms, relays>>

(* A packet for session i, with media or without.                          *)
UdpPacket(i) ==
    /\ pc = "select"
    /\ \E dead \in SUBSET ({i} \cup MediaTargets(i)) :
          sessions' = Dies(sessions, dead)
    /\ StartCleanup
    /\ UNCHANGED <<rooms, relays>>

Timeout ==
    /\ pc = "select"
    /\ \E dead \in SUBSET Index : sessions' = Dies(sessions, dead)
    /\ StartCleanup
    /\ UNCHANGED <<rooms, relays>>

(* Fault: the walk goes on past the session that took the removed one's    *)
(* place.                                                                  *)
RemoveDeadAndSkip ==
    /\ pc = "cleanup"
    /\ cursor \in Index
    /\ ~sessions[cursor].alive
    /\ sessions' = RemoveAt(sessions, cursor)
    /\ RemoveSession(cursor)
    /\ cursor' = cursor + 1
    /\ UNCHANGED <<relays, pc>>

RemoveDead ==
    /\ pc = "cleanup"
    /\ cursor \in Index
    /\ ~sessions[cursor].alive
    /\ sessions' = RemoveAt(sessions, cursor)
    /\ RemoveSession(cursor)
    /\ UNCHANGED <<relays, pc, cursor>>

PassLive ==
    /\ pc = "cleanup"
    /\ cursor \in Index
    /\ sessions[cursor].alive
    /\ cursor' = cursor + 1
    /\ UNCHANGED <<sessions, rooms, relays, pc>>

EndCleanup ==
    /\ pc = "cleanup"
    /\ cursor \notin Index
    /\ pc' = "select"
    /\ cursor' = 1
    /\ UNCHANGED <<sessions, rooms, relays>>

Cleanup == RemoveDead \/ PassLive \/ EndCleanup

Init == /\ sessions = << >>
        /\ rooms = [r \in {} |-> NewRoom]
        /\ relays = [r \in Room |-> {}]
        /\ pc = "select"
        /\ cursor = 1

Next ==
    \/ \E s \in Sid, r \in Room \cup {None}, role \in Role \cup {None} :
          SdpOffer(s, r, role)
    \/ \E r \in Room, n \in Node : RelaySubscribe(r, n) \/ RelayUnsubscribe(r, n)
    \/ \E r \in Room : RelayData(r)
    \/ \E i \in Index : UdpPacket(i)
    \/ Timeout
    \/ Shutdown
    \/ Cleanup

Spec == Init /\ [][Next]_vars

-----------------------------------------------------------------------------
TypeOK ==
    /\ sessions \in Seq(Session)
    /\ DOMAIN rooms \subseteq Room
    /\ \A r \in DOMAIN rooms : rooms[r] \in
          [publisher : Nat \cup {None}, subscribers : SUBSET Nat]
    /\ relays \in [Room -> SUBSET Node]
    /\ pc \in {"select", "cleanup", "stopped"}
    /\ cursor \in Nat \ {0}

In(i, r, role) == sessions[i].room = r /\ sessions[i].role = role

(* Rooms and sessions agree, however many removals have shifted indices: a *)
(* room's publisher is the last session that entered it to publish, its    *)
(* subscribers are the sessions that entered it to subscribe, all of them, *)
(* and a room that nobody is left in is gone.                              *)
RoomsMatchSessions ==
    /\ \A r \in DOMAIN rooms :
          /\ rooms[r] # NewRoom
          /\ rooms[r].publisher # None =>
                /\ rooms[r].publisher \in Index
                /\ In(rooms[r].publisher, r, "publisher")
                /\ \A i \in Index : In(i, r, "publisher") => i <= rooms[r].publisher
    /\ \A r \in Room :
          RelayTargets(r) = {i \in Index : In(i, r, "subscriber")}
    /\ \A r \in DOMAIN rooms : rooms[r].subscribers \subseteq Index

(* No two sessions have the same identity.                                 *)
DistinctIds == \A i, j \in Index : sessions[i].id = sessions[j].id => i = j

(* Media of a session reach the subscribers of its own room, all or none   *)
(* of them, and only when it entered as a publisher; a keyframe request    *)
(* reaches a publisher of the requester's room.  find_publisher_room has   *)
(* one room to find at most.                                               *)
MediaStaysInRoom ==
    \A i \in Index :
        /\ \A r, q \in PublisherRooms(i) : r = q
        /\ MediaTargets(i) # {} =>
              /\ sessions[i].role = "publisher"
              /\ MediaTargets(i) =
                    {k \in Index : In(k, sessions[i].room, "subscriber")}
        /\ \A k \in KeyframeTargets(i) : In(k, sessions[i].room, "publisher")

(* The cleanup walk misses nobody: when the loop waits for its next event, *)
(* every session in the Vec is alive.                                      *)
NoDeadAtSelect == pc = "select" => \A i \in Index : sessions[i].alive

-----------------------------------------------------------------------------
(* Positions implement identities.                                         *)

IdAt(i) == IF i \in Index THEN sessions[i].id ELSE None

PubOf(r)  == IdAt(RoomAt(r).publisher)
SubsOf(r) == {IdAt(i) : i \in RoomAt(r).subscribers}

R == INSTANCE RoomSpec WITH pub  <- [r \in Room |-> PubOf(r)],
                            subs <- [r \in Room |-> SubsOf(r)]

(* Seen through the indices it keeps, the registry is a set of rooms of    *)
(* sessions: entering adds one session to one room, removing one session   *)
(* from the Vec takes out that session only.                               *)
ImplementsRoomSpec == R!RoomSpecification
=============================================================================
