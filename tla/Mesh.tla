--------------------------------- MODULE Mesh ---------------------------------
(***************************************************************************)
(* Two nodes that have each other in their [peers] table and dial each     *)
(* other: the outbound and inbound tasks of crates/meshd/src/peer/         *)
(* manager.rs at both ends of the connections between them.                *)
(*                                                                         *)
(* PeerManager has the tasks of one node, their lock and their channels in *)
(* detail, and leaves the other ends of connections to the environment.    *)
(* Here both ends are tasks, joined by what is under way on the socket;    *)
(* the lock is held for a step at a time, as its critical sections are     *)
(* short, and channels do not fill up.                                     *)
(*                                                                         *)
(* A node may have more than one connection to the other at a time: the    *)
(* one it dialled, the one it accepted, and older ones whose acceptor has  *)
(* not noticed yet that they broke.  A slot is used again once both ends   *)
(* are through with it.  Messages are numbered as one node, Origin, hands  *)
(* them to send_to.                                                        *)
(***************************************************************************)
EXTENDS Naturals, Sequences, SequencesExt, FiniteSetsExt

CONSTANTS
    Node,       \* the two nodes
    Origin,     \* the one whose messages are followed
    Slots,      \* connections that each node can have dialled at one time
    LastMsg,    \* number of messages: a bound of the model
    None

ASSUME MeshAssumption ==
    /\ IsFiniteSet(Node) /\ Cardinality(Node) = 2
    /\ Origin \in Node
    /\ Slots \in [Node -> Nat \ {0}]
    /\ LastMsg \in Nat
    /\ None \notin Node \X Nat

VARIABLES
    out,      \* where each node's outbound task is
    line,     \* the connection it has
    acc,      \* where the inbound task of each connection is
    broken,   \* the connections that are broken
    queue,    \* what waits in the channel of each end of a connection
    wire,     \* what is under way to each end
    ent,      \* each node's entry for the other: the connection, or None
    next,     \* the next message of Origin
    got,      \* what the other node's dispatcher was given
    refused,  \* the messages for which send_to returned an error
    lost      \* those that were accepted and are gone

vars == <<out, line, acc, broken, queue, wire, ent, next, got, refused, lost>>
taskVars == <<out, line, acc, broken>>
fateVars == <<next, got, refused, lost>>

Conn == UNION {{n} \X (1 .. Slots[n]) : n \in Node}
End  == Conn \X Node
Hello == 0
Msg  == 1 .. LastMsg

Other(n)    == CHOOSE m \in Node : m # n
Acceptor(c) == Other(c[1])
Target      == Other(Origin)

(* Nobody refers to the connection.                                        *)
Free(c) == acc[c] = "none" /\ line[c[1]] # c
StillBroken == {c \in broken : ~Free(c)'}
FreeSlots(n) == {k \in 1 .. Slots[n] : Free(<<n, k>>)}

(* What is gone when the connection's queues and the socket at one end go. *)
Messages(s) == ToSet(s) \ {Hello}

-----------------------------------------------------------------------------
(* connect_to_peers: node n dials the other *)

(* Fault: the entry stays with an inbound connection that has it.          *)
ConnectBehindInbound(n) ==
    /\ out[n] = "connecting"
    /\ FreeSlots(n) # {}
    /\ LET c == <<n, Min(FreeSlots(n))>> IN
          /\ line' = [line EXCEPT ![n] = c]
          /\ acc' = [acc EXCEPT ![c] = "hello"]
          /\ ent' = [ent EXCEPT ![n] = IF @ = None THEN c ELSE @]
    /\ out' = [out EXCEPT ![n] = "greeting"]
    /\ UNCHANGED <<broken, queue, wire, fateVars>>

(* The handshake is over at both ends, and the entry is registered: a step *)
(* of its own in the code and in PeerManager, but until there is a hello   *)
(* the other end only waits.                                               *)
Connect(n) ==
    /\ out[n] = "connecting"
    /\ FreeSlots(n) # {}
    /\ LET c == <<n, Min(FreeSlots(n))>> IN
          /\ line' = [line EXCEPT ![n] = c]
          /\ acc' = [acc EXCEPT ![c] = "hello"]
          /\ ent' = [ent EXCEPT ![n] = c]
    /\ out' = [out EXCEPT ![n] = "greeting"]
    /\ UNCHANGED <<broken, queue, wire, fateVars>>

SendHello(n) ==
    /\ out[n] = "greeting"
    /\ queue' = [queue EXCEPT ![<<line[n], n>>] = Append(@, Hello)]
    /\ out' = [out EXCEPT ![n] = "running"]
    /\ UNCHANGED <<line, acc, broken, wire, ent, fateVars>>

(* run_connection returns; the receiver of its channel goes with it.       *)
OutboundEnds(n) ==
    LET e == <<line[n], n>> IN
    /\ out[n] = "running"
    /\ line[n] \in broken
    /\ out' = [out EXCEPT ![n] = "ended"]
    /\ lost' = lost \cup Messages(queue[e]) \cup Messages(wire[e])
    /\ queue' = [queue EXCEPT ![e] = << >>]
    /\ wire' = [wire EXCEPT ![e] = << >>]
    /\ UNCHANGED <<line, acc, broken, ent, next, got, refused>>

(* Whoever owns the entry now; then it dials again.                        *)
UnregisterOutbound(n) ==
    /\ out[n] = "ended"
    /\ ent' = [ent EXCEPT ![n] = None]
    /\ out' = [out EXCEPT ![n] = "connecting"]
    /\ line' = [line EXCEPT ![n] = None]
    /\ UNCHANGED <<acc, queue, wire, fateVars>>
    /\ broken' = StillBroken

-----------------------------------------------------------------------------
(* handle_inbound: the end that accepted connection c *)

(* Fault: phase 1 takes the hello for one more message to skip.            *)
SkipAnything(c) ==
    LET e == <<c, Acceptor(c)>> IN
    /\ acc[c] = "hello"
    /\ wire[e] # << >>
    /\ lost' = lost \cup {Head(wire[e])}
    /\ wire' = [wire EXCEPT ![e] = Tail(@)]
    /\ UNCHANGED <<taskVars, queue, ent, next, got, refused>>

(* Phase 1 reads until it finds a hello, and drops what it reads before.   *)
SkipToHello(c) ==
    LET e == <<c, Acceptor(c)>> IN
    /\ acc[c] = "hello"
    /\ wire[e] # << >> /\ Head(wire[e]) # Hello
    /\ lost' = lost \cup {Head(wire[e])}
    /\ wire' = [wire EXCEPT ![e] = Tail(@)]
    /\ UNCHANGED <<taskVars, queue, ent, next, got, refused>>

ReadHello(c) ==
    LET e == <<c, Acceptor(c)>> IN
    /\ acc[c] = "hello"
    /\ wire[e] # << >> /\ Head(wire[e]) = Hello
    /\ wire' = [wire EXCEPT ![e] = Tail(@)]
    /\ acc' = [acc EXCEPT ![c] = "checking"]
    /\ UNCHANGED <<out, line, broken, queue, ent, fateVars>>

(* An entry with a channel, whoever it is of, makes this end read-only.    *)
CheckRegistry(c) ==
    /\ acc[c] = "checking"
    /\ acc' = [acc EXCEPT ![c] = IF ent[Acceptor(c)] # None THEN "readonly" ELSE "registering"]
    /\ UNCHANGED <<out, line, broken, queue, wire, ent, fateVars>>

RegisterInbound(c) ==
    /\ acc[c] = "registering"
    /\ ent' = [ent EXCEPT ![Acceptor(c)] = c]
    /\ acc' = [acc EXCEPT ![c] = "bidir"]
    /\ UNCHANGED <<out, line, broken, queue, wire, fateVars>>

(* Read errors, the end of the stream, a failed write.  What had not been  *)
(* read is gone.  A read-only end is through; before hello, too.           *)
InboundEnds(c) ==
    LET e == <<c, Acceptor(c)>> IN
    /\ acc[c] \in {"hello", "readonly", "bidir"}
    /\ c \in broken
    /\ acc' = [acc EXCEPT ![c] = IF @ = "bidir" THEN "closing" ELSE "none"]
    /\ lost' = lost \cup Messages(wire[e])
    /\ wire' = [wire EXCEPT ![e] = << >>]
    /\ UNCHANGED <<out, line, queue, ent, next, got, refused>>
    /\ broken' = StillBroken

(* Fault: the receiver of the channel outlives the task.                   *)
UnregisterInboundKeepsChannel(c) ==
    /\ acc[c] = "closing"
    /\ ent' = [ent EXCEPT ![Acceptor(c)] = None]
    /\ acc' = [acc EXCEPT ![c] = "none"]
    /\ UNCHANGED <<out, line, queue, wire, fateVars>>
    /\ broken' = StillBroken

(* The entry is cleared, and the channel goes, whoever owns the entry now. *)
UnregisterInbound(c) ==
    LET e == <<c, Acceptor(c)>> IN
    /\ acc[c] = "closing"
    /\ ent' = [ent EXCEPT ![Acceptor(c)] = None]
    /\ acc' = [acc EXCEPT ![c] = "none"]
    /\ lost' = lost \cup Messages(queue[e])
    /\ queue' = [queue EXCEPT ![e] = << >>]
    /\ UNCHANGED <<out, line, wire, next, got, refused>>
    /\ broken' = StillBroken

-----------------------------------------------------------------------------
(* The loops at both ends, and send_to *)

Writes(e) == \/ e[2] = e[1][1] /\ line[e[2]] = e[1] /\ out[e[2]] = "running"
             \/ e[2] = Acceptor(e[1]) /\ acc[e[1]] = "bidir"

Reads(e) == \/ e[2] = e[1][1] /\ line[e[2]] = e[1] /\ out[e[2]] = "running"
            \/ e[2] = Acceptor(e[1]) /\ acc[e[1]] \in {"readonly", "bidir"}

ReceiverOpen(e) ==
    \/ e[2] = e[1][1] /\ line[e[2]] = e[1] /\ out[e[2]] \in {"greeting", "running"}
    \/ e[2] = Acceptor(e[1]) /\ acc[e[1]] \in {"bidir", "closing"}

Write(e) ==
    /\ Writes(e)
    /\ e[1] \notin broken
    /\ queue[e] # << >>
    /\ queue' = [queue EXCEPT ![e] = Tail(@)]
    /\ wire' = [wire EXCEPT ![<<e[1], Other(e[2])>>] = Append(@, Head(queue[e]))]
    /\ UNCHANGED <<taskVars, ent, fateVars>>

(* Fault: a read-only end drops what it reads.                             *)
ReadDropsIfReadOnly(e) ==
    /\ Reads(e)
    /\ wire[e] # << >>
    /\ wire' = [wire EXCEPT ![e] = Tail(@)]
    /\ IF acc[e[1]] = "readonly" /\ e[2] = Acceptor(e[1])
         THEN lost' = lost \cup {Head(wire[e])} /\ UNCHANGED got
         ELSE got' = Append(got, Head(wire[e])) /\ UNCHANGED lost
    /\ UNCHANGED <<taskVars, queue, ent, next, refused>>

(* What arrived before the connection broke can still be read.             *)
Read(e) ==
    /\ Reads(e)
    /\ wire[e] # << >>
    /\ wire' = [wire EXCEPT ![e] = Tail(@)]
    /\ got' = Append(got, Head(wire[e]))
    /\ UNCHANGED <<taskVars, queue, ent, next, refused, lost>>

(* Fault: after an error the message is put on every channel there is.     *)
SendEverywhere ==
    /\ next \in Msg
    /\ next' = next + 1
    /\ LET open == {e \in Conn \X {Origin} : ReceiverOpen(e)} IN
          /\ queue' = [e \in End |-> IF e \in open THEN Append(queue[e], next) ELSE queue[e]]
          /\ refused' = IF open = {} THEN refused \cup {next} ELSE refused
    /\ UNCHANGED <<taskVars, wire, ent, got, lost>>

Send ==
    /\ next \in Msg
    /\ next' = next + 1
    /\ LET e == <<ent[Origin], Origin>> IN
          IF ent[Origin] # None /\ ReceiverOpen(e)
            THEN queue' = [queue EXCEPT ![e] = Append(@, next)] /\ UNCHANGED refused
            ELSE refused' = refused \cup {next} /\ UNCHANGED queue
    /\ UNCHANGED <<taskVars, wire, ent, got, lost>>

Break(c) ==
    /\ ~Free(c)
    /\ c \notin broken
    /\ broken' = broken \cup {c}
    /\ UNCHANGED <<out, line, acc, queue, wire, ent, fateVars>>

-----------------------------------------------------------------------------
Init ==
    /\ out = [n \in Node |-> "connecting"]
    /\ line = [n \in Node |-> None]
    /\ acc = [c \in Conn |-> "none"]
    /\ broken = {}
    /\ queue = [e \in End |-> << >>]
    /\ wire = [e \in End |-> << >>]
    /\ ent = [n \in Node |-> None]
    /\ next = 1
    /\ got = << >>
    /\ refused = {}
    /\ lost = {}

DialerStep(n) ==
    \/ Connect(n)
    \/ SendHello(n)
    \/ OutboundEnds(n)
    \/ UnregisterOutbound(n)

AcceptorStep(c) ==
    \/ SkipToHello(c)
    \/ ReadHello(c)
    \/ CheckRegistry(c)
    \/ RegisterInbound(c)
    \/ InboundEnds(c)
    \/ UnregisterInbound(c)

Next ==
    \/ \E n \in Node : DialerStep(n)
    \/ \E c \in Conn : AcceptorStep(c) \/ Break(c)
    \/ \E e \in End : Write(e) \/ Read(e)
    \/ Send

Spec == Init /\ [][Next]_vars

DialerTask(n)   == DialerStep(n) \/ \E c \in Conn : c[1] = n /\ (Write(<<c, n>>) \/ Read(<<c, n>>))
AcceptorTask(c) == AcceptorStep(c) \/ Write(<<c, Acceptor(c)>>) \/ Read(<<c, Acceptor(c)>>)

(* Tasks are polled, a dial comes to an end, and a broken connection is    *)
(* noticed by both ends: by an error, the end of the stream, or a write    *)
(* that fails.  Nothing makes anybody send or break anything.              *)
Fairness ==
    /\ \A n \in Node : WF_vars(DialerTask(n))
    /\ \A c \in Conn : WF_vars(AcceptorTask(c))

FairSpec == Spec /\ Fairness

-----------------------------------------------------------------------------
TypeOK ==
    /\ out \in [Node -> {"connecting", "greeting", "running", "ended"}]
    /\ line \in [Node -> Conn \cup {None}]
    /\ \A n \in Node : line[n] = None <=> out[n] = "connecting"
    /\ acc \in [Conn -> {"none", "hello", "checking", "registering", "readonly",
                         "bidir", "closing"}]
    /\ broken \subseteq Conn
    /\ queue \in [End -> Seq(Msg \cup {Hello})]
    /\ wire \in [End -> Seq(Msg \cup {Hello})]
    /\ ent \in [Node -> Conn \cup {None}]
    /\ next \in 1 .. LastMsg + 1
    /\ got \in Seq(Msg)
    /\ refused \subseteq Msg
    /\ lost \subseteq Msg

-----------------------------------------------------------------------------
OnTheWay(m) == \E e \in End : m \in ToSet(queue[e]) \cup ToSet(wire[e])

(* What holds of m; "astray" if that is not exactly one of these.          *)
Fate(m) ==
    LET where == {f \in {"unsent", "refused", "accepted", "delivered", "lost"} :
                    CASE f = "unsent"    -> m >= next
                      [] f = "refused"   -> m \in refused
                      [] f = "accepted"  -> OnTheWay(m)
                      [] f = "delivered" -> m \in ToSet(got)
                      [] f = "lost"      -> m \in lost}
    IN  IF Cardinality(where) = 1 THEN CHOOSE f \in where : TRUE ELSE "astray"

L == INSTANCE Link WITH fate <- [m \in Msg |-> Fate(m)]

(* Whatever connections come, overlap, displace each other and break, a    *)
(* message that send_to accepted is in one place, reaches the other node's *)
(* dispatcher at most once, and is not delivered after it was refused or   *)
(* lost.                                                                   *)
ImplementsLink == L!LinkSpec

LossHasReason ==
    \A m \in lost' \ lost :
        \/ \E c \in broken : acc'[c] # acc[c] \/ line'[c[1]] # line[c[1]]
                             \/ out'[c[1]] # out[c[1]]
        \/ \E c \in Conn : acc[c] = "hello" /\ m \in ToSet(wire[<<c, Acceptor(c)>>])

(* A message is lost only if a connection broke, or if it went ahead of    *)
(* the hello of its own connection: the entry has the channel before hello *)
(* is put on it (manager.rs:82, 102), and the other end drops what it      *)
(* reads before hello (manager.rs:157).                                    *)
LostWithReason == [][LossHasReason]_vars

(* What has been accepted is delivered or lost some time: it is not left   *)
(* in a channel that nobody drains, although entries are displaced and     *)
(* cleared by others than their owners.                                    *)
NothingLingers == \A m \in Msg : OnTheWay(m) ~> ~OnTheWay(m)

-----------------------------------------------------------------------------
(* An inbound connection is about to take or to clear the entry that       *)
(* another connection registered.                                          *)
Usurps(c) ==
    acc[c] \in {"registering", "closing"} /\ ent[Acceptor(c)] \notin {None, c}

CanSend == \A n \in Node : ent[n] # None

(* Both ends of what broke have noticed.  It is so for ever once           *)
(* connections stop breaking, and not before.                              *)
Quiet == broken = {}

(* Once connections stop breaking, each node keeps the one it dialled, so  *)
(* that there are two between them (manager.rs:62 has it that one side     *)
(* drops its own); and unless an inbound connection took or cleared the    *)
(* entry of another, each node can send to the other from then on.         *)
Heals ==
    <>[]Quiet =>
        /\ <>[](\A n \in Node : out[n] = "running")
        /\ [](\A c \in Conn : ~Usurps(c)) => <>[]CanSend

-----------------------------------------------------------------------------
(* What the notes of the repository ask for, and the code does not do.     *)

(* _prompt-fix-send-channel.md:65, of nodes with two connections: "Use     *)
(* whichever connected last, but ensure the send channel is always set     *)
(* up".                                                                    *)
SendChannelIsSetUp == <>[]Quiet => <>[]CanSend
=============================================================================
