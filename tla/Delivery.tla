------------------------------- MODULE Delivery -------------------------------
(***************************************************************************)
(* What the dispatcher of crates/meshd/src/main.rs promises for the        *)
(* messages that peers send to this node: it takes them one after another  *)
(* in the order they came, and each one it took reaches exactly one end:   *)
(* Laravel (by WebSocket or HTTP, once), the local SFU, or nobody when the *)
(* way it was sent broke.                                                  *)
(***************************************************************************)
EXTENDS Naturals

CONSTANT LastMsg               \* messages are numbered 1 .. LastMsg

VARIABLE fate                  \* what has become of each message

Msg == 1 .. LastMsg
Ends == {"laravel", "sfu", "lost"}
Fates == {"waiting", "held"} \cup Ends

DeliveryInit == fate = [m \in Msg |-> "waiting"]

Take(m) ==
    /\ fate[m] = "waiting"
    /\ \A k \in 1 .. m - 1 : fate[k] # "waiting"
    /\ \E f \in {"held", "sfu", "lost"} : fate' = [fate EXCEPT ![m] = f]

Settle(m, f) ==
    /\ fate[m] = "held"
    /\ fate' = [fate EXCEPT ![m] = f]

(* A bridge that goes takes what it still held with it, several at once.   *)
Drop(ms) ==
    /\ \A m \in ms : fate[m] = "held"
    /\ fate' = [m \in Msg |-> IF m \in ms THEN "lost" ELSE fate[m]]

DeliveryNext ==
    \/ \E m \in Msg : Take(m) \/ Settle(m, "laravel")
    \/ \E ms \in SUBSET Msg : Drop(ms)

DeliverySpec == DeliveryInit /\ [][DeliveryNext]_fate
=============================================================================
