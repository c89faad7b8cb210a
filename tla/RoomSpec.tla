------------------------------- MODULE RoomSpec -------------------------------
(***************************************************************************)
(* What the rooms of the SFU promise (crates/sfu/src/lib.rs, room.rs,      *)
(* relay.rs), said of sessions and not of positions in a vector: a room    *)
(* has at most one publisher, the last one to enter, and the subscribers   *)
(* that entered and have not left.  A session that leaves takes away       *)
(* nothing but itself.  Relays are kept apart from who is in the room.     *)
(***************************************************************************)
CONSTANTS Sid, Room, Node, None

VARIABLES pub, subs, relays

Nobody == /\ pub = [r \in Room |-> None]
          /\ subs = [r \in Room |-> {}]
          /\ relays = [r \in Room |-> {}]

(* A session is in one room, in one role.                                  *)
Outside(s) == \A r \in Room : pub[r] # s /\ s \notin subs[r]

Publish(s, r) ==
    /\ Outside(s)
    /\ pub' = [pub EXCEPT ![r] = s]
    /\ UNCHANGED <<subs, relays>>

Subscribe(s, r) ==
    /\ Outside(s)
    /\ subs' = [subs EXCEPT ![r] = @ \cup {s}]
    /\ UNCHANGED <<pub, relays>>

Exit(s) ==
    /\ pub' = [r \in Room |-> IF pub[r] = s THEN None ELSE pub[r]]
    /\ subs' = [r \in Room |-> subs[r] \ {s}]
    /\ UNCHANGED relays

StartRelay(r, n) ==
    /\ relays' = [relays EXCEPT ![r] = @ \cup {n}]
    /\ UNCHANGED <<pub, subs>>

StopRelay(r, n) ==
    /\ relays' = [relays EXCEPT ![r] = @ \ {n}]
    /\ UNCHANGED <<pub, subs>>

(* The SFU stops: all of it is gone.                                       *)
Stop == Nobody'

RoomNext ==
    \/ \E s \in Sid, r \in Room : Publish(s, r) \/ Subscribe(s, r)
    \/ \E s \in Sid : Exit(s)
    \/ \E r \in Room, n \in Node : StartRelay(r, n) \/ StopRelay(r, n)
    \/ Stop

RoomSpecification == Nobody /\ [][RoomNext]_<<pub, subs, relays>>
=============================================================================
