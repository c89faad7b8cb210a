------------------------------ MODULE ConnTimers ------------------------------
(***************************************************************************)
(* The timers of one mesh link: the keepalive tick and the read timeout of *)
(* crates/meshd/src/peer/connection.rs, run_connection, and of the two     *)
(* loops of crates/meshd/src/peer/manager.rs, handle_inbound.              *)
(*                                                                         *)
(* The dialer's end selects between its channel, the tick and a read under *)
(* a timeout that is made anew in every turn of the select.  So does the   *)
(* acceptor's end when it serves both directions; an acceptor that only    *)
(* reads has no tick, no channel and a timeout that every read restarts.   *)
(* A loop that hands a message to a full channel stands still meanwhile:   *)
(* it neither ticks nor reads, and its timeout is not running.             *)
(*                                                                         *)
(* Time is counted in units; Elapse is one of them.  A branch of a select  *)
(* that is ready is taken before time goes on, and a message in flight     *)
(* arrives within the unit.  A link that is cut, by the network or because *)
(* a program is gone, loses what is sent from then on, and an end may be   *)
(* told of it by its TCP stack or never.                                   *)
(***************************************************************************)
EXTENDS Integers

CONSTANTS
    KeepaliveInterval, ReadTimeout,     \* in units of time
    MaxStall,   \* units a loop stands still before its ticks are caught up with
    MaxWire     \* messages in flight that are told apart from more of them

ASSUME TimerAssumption ==
    /\ KeepaliveInterval \in Nat \ {0}
    /\ ReadTimeout \in Nat
    /\ KeepaliveInterval + MaxStall < ReadTimeout
    /\ MaxStall \in Nat /\ MaxWire \in Nat \ {0}

VARIABLES
    mode,       \* "both" or "read_only": which loop the acceptor runs
    link,       \* "up" or "cut"
    wire,       \* messages in flight to each end
    open,       \* ends whose loop runs
    due,        \* units until the next tick of each end, negative: overdue
    left,       \* units until the read timeout of each end fires
    blocked,    \* ends that wait for room in the inbound channel
    stalled,    \* units each end stood still with ticks not caught up with
    silence     \* units since each end last took a message

vars == <<mode, link, wire, open, due, left, blocked, stalled, silence>>

End == {"dialer", "acceptor"}
Other(e) == CHOOSE f \in End : f # e

\* Silence is counted to one unit past the timeout.
Capped(n, cap) == IF n > cap THEN cap ELSE n

(* The ends that tick and that can be given messages to send.              *)
Keeps(e) == e = "dialer" \/ mode = "both"

Selecting(e) == e \in open /\ e \notin blocked

-----------------------------------------------------------------------------
Put(e) == wire' = IF link = "up"
                    THEN [wire EXCEPT ![e] = Capped(@ + 1, MaxWire)] ELSE wire

(* Fault: a turn of the select goes on with the timeout of the last one.   *)
NextTurnGoesOn(e) == left' = left

(* The next turn of a keeping end's select makes a new timeout.            *)
NextTurn(e) == left' = [left EXCEPT ![e] = ReadTimeout]

(* A message from the end's own channel.                                   *)
SendMessage(e) ==
    /\ Selecting(e) /\ Keeps(e)
    /\ Put(Other(e))
    /\ NextTurn(e)
    /\ UNCHANGED <<mode, link, open, due, blocked, stalled, silence>>

(* Fault: ticks that were missed are dropped.                              *)
RescheduleSkipping(e) == due' = [due EXCEPT ![e] = 2 * KeepaliveInterval]

(* interval catches up with the ticks that it missed.                      *)
Reschedule(e) == due' = [due EXCEPT ![e] = @ + KeepaliveInterval]

Keepalive(e) ==
    /\ Selecting(e) /\ Keeps(e)
    /\ due[e] <= 0
    /\ Put(Other(e))
    /\ Reschedule(e)
    /\ NextTurn(e)
    /\ stalled' = [stalled EXCEPT ![e] = IF due'[e] > 0 THEN 0 ELSE @]
    /\ UNCHANGED <<mode, link, open, blocked, silence>>

(* Fault: a message does not restart the timeout it was read under.        *)
ReadGoesOn(e) ==
    /\ Selecting(e)
    /\ wire[e] > 0
    /\ wire' = [wire EXCEPT ![e] = @ - 1]
    /\ silence' = [silence EXCEPT ![e] = 0]
    /\ blocked' \in {blocked, blocked \cup {e}}
    /\ UNCHANGED <<mode, link, open, due, left, stalled>>

(* A message is read.  A keepalive is dropped here; another message is     *)
(* handed on, and its channel may be full.                                 *)
Read(e) ==
    /\ Selecting(e)
    /\ wire[e] > 0
    /\ wire' = [wire EXCEPT ![e] = @ - 1]
    /\ silence' = [silence EXCEPT ![e] = 0]
    /\ left' = [left EXCEPT ![e] = ReadTimeout]
    /\ blocked' \in {blocked, blocked \cup {e}}
    /\ UNCHANGED <<mode, link, open, due, stalled>>

HandedOn(e) ==
    /\ e \in open \cap blocked
    /\ blocked' = blocked \ {e}
    /\ left' = [left EXCEPT ![e] = ReadTimeout]
    /\ UNCHANGED <<mode, link, wire, open, due, stalled, silence>>

Close(e) == /\ open' = open \ {e}
            /\ UNCHANGED <<mode, link, wire, due, left, blocked, stalled, silence>>

(* Fault: a read-only loop reads on after its timeout.                     *)
TimesOutAndReadsOn(e) ==
    /\ Selecting(e)
    /\ left[e] = 0 /\ wire[e] = 0
    /\ IF Keeps(e) THEN Close(e)
       ELSE /\ left' = [left EXCEPT ![e] = ReadTimeout]
            /\ UNCHANGED <<mode, link, wire, open, due, blocked, stalled, silence>>

TimesOut(e) ==
    /\ Selecting(e)
    /\ left[e] = 0 /\ wire[e] = 0
    /\ Close(e)

(* A link that was cut makes itself known: the stream ends, or a read or a *)
(* write fails.                                                            *)
Fails(e) == Selecting(e) /\ link = "cut" /\ Close(e)

Cut == /\ link = "up" /\ link' = "cut"
       /\ UNCHANGED <<mode, wire, open, due, left, blocked, stalled, silence>>

(* Something a select would do at once.                                    *)
Ready(e) == /\ Selecting(e)
            /\ \/ wire[e] > 0
               \/ Keeps(e) /\ due[e] <= 0
               \/ left[e] = 0

Elapse ==
    /\ \A e \in End : ~Ready(e)
    /\ \A e \in open \cap blocked : stalled[e] < MaxStall
    /\ due' = [e \in End |-> IF e \in open /\ Keeps(e) THEN due[e] - 1 ELSE due[e]]
    /\ left' = [e \in End |-> IF Selecting(e) THEN left[e] - 1 ELSE left[e]]
    /\ stalled' = [e \in End |-> IF e \in open \cap blocked THEN stalled[e] + 1
                                                            ELSE stalled[e]]
    /\ silence' = [e \in End |-> IF Selecting(e)
                                   THEN Capped(silence[e] + 1, ReadTimeout + 1)
                                   ELSE silence[e]]
    /\ UNCHANGED <<mode, link, wire, open, blocked>>

(* Both loops start.  The tick that interval gives at once is taken before *)
(* the loop.                                                               *)
Init == /\ mode \in {"both", "read_only"}
        /\ link = "up"
        /\ wire = [e \in End |-> 0]
        /\ open = End
        /\ due = [e \in End |-> KeepaliveInterval]
        /\ left = [e \in End |-> ReadTimeout]
        /\ blocked = {}
        /\ stalled = [e \in End |-> 0]
        /\ silence = [e \in End |-> 0]

Next ==
    \/ \E e \in End : \/ SendMessage(e) \/ Keepalive(e) \/ Read(e) \/ HandedOn(e)
                      \/ TimesOut(e) \/ Fails(e)
    \/ Cut
    \/ Elapse

Spec == Init /\ [][Next]_vars

-----------------------------------------------------------------------------
TypeOK ==
    /\ mode \in {"both", "read_only"} /\ link \in {"up", "cut"}
    /\ wire \in [End -> 0 .. MaxWire]
    /\ open \subseteq End /\ blocked \subseteq End
    /\ due \in [End -> Int]
    /\ \A e \in End : due[e] <= KeepaliveInterval /\ due[e] + MaxStall >= 0
    /\ left \in [End -> 0 .. ReadTimeout]
    /\ stalled \in [End -> 0 .. MaxStall]
    /\ silence \in [End -> 0 .. ReadTimeout + 1]

(* A link that works is not given up, although a read-only acceptor never  *)
(* sends and an end may stand still: the ticks of the keeping end, caught  *)
(* up with after a stall, reach the other one within its read timeout.     *)
NoFalseAlarm == link = "up" => open = End

(* An acceptor that only reads notices silence in time, cut or not.        *)
ReadOnlyNoticesSilence ==
    "acceptor" \in open /\ ~Keeps("acceptor") => silence["acceptor"] <= ReadTimeout

(* The timeout of a keeping end never comes closer to firing than the tick *)
(* that is to restart it, so that its branch of the select is never taken. *)
TickRestartsTimeout ==
    \A e \in open : Keeps(e) => left[e] - due[e] >= ReadTimeout - KeepaliveInterval

(* connection.rs: an end that received no message for the read timeout     *)
(* considers the peer dead.  It does not: its own ticks restart the        *)
(* timeout.                                                                *)
SilenceIsNoticed == \A e \in open : silence[e] <= ReadTimeout
=============================================================================
