--------------------------------- MODULE Link ---------------------------------
(***************************************************************************)
(* What two nodes promise each other for the messages that one sends to    *)
(* the other with send_to (crates/meshd/src/peer/manager.rs): each is      *)
(* refused at once or accepted, and one that is accepted is handed to the  *)
(* receiving node's dispatcher at most once.  Nothing is promised about    *)
(* the order, and messages may be lost.                                    *)
(***************************************************************************)
EXTENDS Naturals

CONSTANT LastMsg               \* messages are numbered 1 .. LastMsg

VARIABLE fate                  \* what has become of each message

Msg == 1 .. LastMsg
Fates == {"unsent", "refused", "accepted", "delivered", "lost"}

LinkInit == fate = [m \in Msg |-> "unsent"]

Offer(m) ==
    /\ fate[m] = "unsent"
    /\ \E f \in {"refused", "accepted"} : fate' = [fate EXCEPT ![m] = f]

Deliver(m) ==
    /\ fate[m] = "accepted"
    /\ fate' = [fate EXCEPT ![m] = "delivered"]

(* A connection that ends takes with it what was on it.                    *)
Lose(ms) ==
    /\ \A m \in ms : fate[m] = "accepted"
    /\ fate' = [m \in Msg |-> IF m \in ms THEN "lost" ELSE fate[m]]

LinkNext ==
    \/ \E m \in Msg : Offer(m) \/ Deliver(m)
    \/ \E ms \in SUBSET Msg : Lose(ms)

LinkSpec == LinkInit /\ [][LinkNext]_fate
=============================================================================
