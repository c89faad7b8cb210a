----------------------------- MODULE PeerManager -----------------------------
(***************************************************************************)
(* The mesh peer manager: crates/meshd/src/peer/manager.rs and the part of *)
(* peer/connection.rs that it runs.                                        *)
(*                                                                         *)
(* Three kinds of task share one map from peer names to entries:           *)
(*   - one outbound task for each configured peer, which connects,         *)
(*     registers, says hello, runs the connection, unregisters, sleeps;    *)
(*   - one task for each accepted inbound socket, which learns the peer's  *)
(*     name from its hello, looks whether somebody already owns the send   *)
(*     channel, and runs read-only or bidirectional;                       *)
(*   - the callers of send_to (the HTTP bridge, the WebSocket bridge, the  *)
(*     SFU event forwarder), which look the channel up and send on it.     *)
(*                                                                         *)
(* The map is behind a tokio RwLock, which is FIFO: a waiting writer holds *)
(* back the readers that arrive after it.  send_to keeps its read guard    *)
(* across the await of a bounded channel send; every other critical        *)
(* section has no await in it and is one step here.                        *)
(*                                                                         *)
(* A channel is named by the task that created it.  Messages are counted,  *)
(* not told apart.  last_seen, wg_ip and the text of hello are left out.   *)
(***************************************************************************)
EXTENDS Naturals, Sequences

CONSTANTS
    Peer,             \* names a peer can have
    Configured,       \* the peers of the [peers] table: outbound tasks
    Inbound,          \* inbound connections that can exist at one time
    Sender,           \* concurrent callers of send_to
    Cap,              \* capacity of a peer channel (256 in the code)
    InitialBackoff,   \* INITIAL_BACKOFF
    MaxBackoff,       \* MAX_BACKOFF
    None              \* Option::None

ASSUME PeerAssumption ==
    /\ Configured \subseteq Peer
    /\ Configured \cap Inbound = {}
    /\ None \notin Peer \cup Inbound

ASSUME CapAssumption == Cap \in Nat \ {0}

ASSUME BackoffAssumption ==
    /\ InitialBackoff \in Nat
    /\ MaxBackoff \in Nat
    /\ InitialBackoff <= MaxBackoff

VARIABLES
    peers,      \* HashMap<String, PeerState>: a function on the known names
    out,        \* where each outbound task is
    backoff,    \* its backoff
    inb,        \* where each inbound task is
    inPeer,     \* the peer_name an inbound task learned from hello
    queue,      \* messages waiting in the channel of each task
    sender,     \* where each call of send_to is
    lockQueue   \* tasks and calls waiting for the RwLock, in order

vars == <<peers, out, backoff, inb, inPeer, queue, sender, lockQueue>>

Task == Configured \cup Inbound

OutState == {"connecting", "registering", "greeting", "running",
             "ended", "sleeping"}
InbState == {"free", "hello", "checking", "touching", "registering",
             "readonly", "bidir", "closing"}
SendState == {"idle", "waiting", "sending"}

Entry == [connected : BOOLEAN, tx : Task \cup {None}]
Up(t) == [connected |-> TRUE, tx |-> t]
Down  == [connected |-> FALSE, tx |-> None]

Insert(f, k, v) == [x \in DOMAIN f \cup {k} |-> IF x = k THEN v ELSE f[x]]

-----------------------------------------------------------------------------
(* The read-write lock *)

(* Fault: send_to clones the channel and drops its guard before sending.   *)
ReadersReleased == {}

Readers == {s \in Sender : sender[s].pc = "sending"}

AtHead(t) == /\ lockQueue # << >>
             /\ Head(lockQueue) = t

ReadGranted(t)  == AtHead(t)
(* Fault: a writer is let in beside readers.                               *)
WriteGrantedBesideReaders(t) == AtHead(t)

WriteGranted(t) == AtHead(t) /\ Readers = {}

Request(t) == lockQueue' = Append(lockQueue, t)
Granted    == lockQueue' = Tail(lockQueue)

-----------------------------------------------------------------------------
(* The channels *)

(* A receiver is moved into run_connection and dropped when it returns; an *)
(* inbound task's receiver lives to the end of the task, past its cleanup. *)
ReceiverOpen(t) ==
    \/ t \in Configured /\ out[t] \in {"registering", "greeting", "running"}
    \/ t \in Inbound /\ inb[t] \in {"registering", "bidir", "closing"}

(* Fault: room is off by one.                                              *)
HasRoomOffByOne(t) == queue[t] <= Cap

HasRoom(t) == queue[t] < Cap

-----------------------------------------------------------------------------
(* Outbound tasks *)

(* Fault: the backoff is not reset on success.                             *)
ConnectKeepsBackoff(p) ==
    /\ out[p] = "connecting"
    /\ out' = [out EXCEPT ![p] = "registering"]
    /\ queue' = [queue EXCEPT ![p] = 0]
    /\ Request(p)
    /\ UNCHANGED <<peers, backoff, inb, inPeer, sender>>

ConnectOk(p) ==
    /\ out[p] = "connecting"
    /\ out' = [out EXCEPT ![p] = "registering"]
    /\ backoff' = [backoff EXCEPT ![p] = InitialBackoff]
    /\ queue' = [queue EXCEPT ![p] = 0]
    /\ Request(p)
    /\ UNCHANGED <<peers, inb, inPeer, sender>>

ConnectFails(p) ==
    /\ out[p] = "connecting"
    /\ out' = [out EXCEPT ![p] = "sleeping"]
    /\ UNCHANGED <<peers, backoff, inb, inPeer, queue, sender, lockQueue>>

RegisterOutbound(p) ==
    /\ out[p] = "registering"
    /\ WriteGranted(p)
    /\ Granted
    /\ peers' = Insert(peers, p, Up(p))
    /\ out' = [out EXCEPT ![p] = "greeting"]
    /\ UNCHANGED <<backoff, inb, inPeer, queue, sender>>

(* The hello goes through the task's own channel, before anyone drains it. *)
SendHello(p) ==
    /\ out[p] = "greeting"
    /\ HasRoom(p)
    /\ queue' = [queue EXCEPT ![p] = @ + 1]
    /\ out' = [out EXCEPT ![p] = "running"]
    /\ UNCHANGED <<peers, backoff, inb, inPeer, sender, lockQueue>>

WriteOutbound(p) ==
    /\ out[p] = "running"
    /\ queue[p] > 0
    /\ queue' = [queue EXCEPT ![p] = @ - 1]
    /\ UNCHANGED <<peers, out, backoff, inb, inPeer, sender, lockQueue>>

(* run_connection returns: close frame, end of stream, read or write error. *)
OutboundEnds(p) ==
    /\ out[p] = "running"
    /\ out' = [out EXCEPT ![p] = "ended"]
    /\ queue' = [queue EXCEPT ![p] = 0]
    /\ Request(p)
    /\ UNCHANGED <<peers, backoff, inb, inPeer, sender>>

(* Fault: every entry is marked, not only the peer's own.                  *)
MarkAllDown(p) == peers' = [q \in DOMAIN peers |-> Down]

(* Whoever owns the entry now, it is marked disconnected. *)
MarkDown(p) == peers' = IF p \in DOMAIN peers
                          THEN [peers EXCEPT ![p] = Down]
                          ELSE peers

(* Fault: the task returns after its first connection.                     *)
UnregisterAndStop(p) ==
    /\ out[p] = "ended"
    /\ WriteGranted(p)
    /\ Granted
    /\ MarkDown(p)
    /\ UNCHANGED <<out, backoff, inb, inPeer, queue, sender>>

UnregisterOutbound(p) ==
    /\ out[p] = "ended"
    /\ WriteGranted(p)
    /\ Granted
    /\ MarkDown(p)
    /\ out' = [out EXCEPT ![p] = "sleeping"]
    /\ UNCHANGED <<backoff, inb, inPeer, queue, sender>>

NextBackoff(b) == IF 2 * b < MaxBackoff THEN 2 * b ELSE MaxBackoff

Wake(p) ==
    /\ out[p] = "sleeping"
    /\ out' = [out EXCEPT ![p] = "connecting"]
    /\ backoff' = [backoff EXCEPT ![p] = NextBackoff(@)]
    /\ UNCHANGED <<peers, inb, inPeer, queue, sender, lockQueue>>

-----------------------------------------------------------------------------
(* Inbound tasks *)

Accept(i) ==
    /\ inb[i] = "free"
    /\ inb' = [inb EXCEPT ![i] = "hello"]
    /\ UNCHANGED <<peers, out, backoff, inPeer, queue, sender, lockQueue>>

CloseBeforeHello(i) ==
    /\ inb[i] = "hello"
    /\ inb' = [inb EXCEPT ![i] = "free"]
    /\ UNCHANGED <<peers, out, backoff, inPeer, queue, sender, lockQueue>>

ReadHello(i, p) ==
    /\ inb[i] = "hello"
    /\ inb' = [inb EXCEPT ![i] = "checking"]
    /\ inPeer' = [inPeer EXCEPT ![i] = p]
    /\ Request(i)
    /\ UNCHANGED <<peers, out, backoff, queue, sender>>

HasOutbound(p) == /\ p \in DOMAIN peers
                  /\ peers[p].connected
                  /\ peers[p].tx # None

(* The read guard is released before the write lock is asked for: the task *)
(* goes to the end of the lock's queue with what it saw.                   *)
CheckRegistry(i) ==
    /\ inb[i] = "checking"
    /\ ReadGranted(i)
    /\ lockQueue' = Append(Tail(lockQueue), i)
    /\ IF HasOutbound(inPeer[i])
         THEN /\ inb' = [inb EXCEPT ![i] = "touching"]
              /\ UNCHANGED queue
         ELSE /\ inb' = [inb EXCEPT ![i] = "registering"]
              /\ queue' = [queue EXCEPT ![i] = 0]
    /\ UNCHANGED <<peers, out, backoff, inPeer, sender>>

(* The read-only inbound updates last_seen only. *)
TouchLastSeen(i) ==
    /\ inb[i] = "touching"
    /\ WriteGranted(i)
    /\ Granted
    /\ inb' = [inb EXCEPT ![i] = "readonly"]
    /\ UNCHANGED <<peers, out, backoff, inPeer, queue, sender>>

ReadOnlyEnds(i) ==
    /\ inb[i] = "readonly"
    /\ inb' = [inb EXCEPT ![i] = "free"]
    /\ inPeer' = [inPeer EXCEPT ![i] = None]
    /\ UNCHANGED <<peers, out, backoff, queue, sender, lockQueue>>

RegisterInbound(i) ==
    /\ inb[i] = "registering"
    /\ WriteGranted(i)
    /\ Granted
    /\ peers' = Insert(peers, inPeer[i], Up(i))
    /\ inb' = [inb EXCEPT ![i] = "bidir"]
    /\ UNCHANGED <<out, backoff, inPeer, queue, sender>>

WriteInbound(i) ==
    /\ inb[i] = "bidir"
    /\ queue[i] > 0
    /\ queue' = [queue EXCEPT ![i] = @ - 1]
    /\ UNCHANGED <<peers, out, backoff, inb, inPeer, sender, lockQueue>>

BidirEnds(i) ==
    /\ inb[i] = "bidir"
    /\ inb' = [inb EXCEPT ![i] = "closing"]
    /\ Request(i)
    /\ UNCHANGED <<peers, out, backoff, inPeer, queue, sender>>

(* Fault: a configured peer's entry is left to the outbound task.          *)
UnregisterUnlessConfigured(i) ==
    /\ inb[i] = "closing"
    /\ WriteGranted(i)
    /\ Granted
    /\ IF inPeer[i] \in Configured THEN UNCHANGED peers ELSE MarkDown(inPeer[i])
    /\ inb' = [inb EXCEPT ![i] = "free"]
    /\ inPeer' = [inPeer EXCEPT ![i] = None]
    /\ queue' = [queue EXCEPT ![i] = 0]
    /\ UNCHANGED <<out, backoff, sender>>

UnregisterInbound(i) ==
    /\ inb[i] = "closing"
    /\ WriteGranted(i)
    /\ Granted
    /\ MarkDown(inPeer[i])
    /\ inb' = [inb EXCEPT ![i] = "free"]
    /\ inPeer' = [inPeer EXCEPT ![i] = None]
    /\ queue' = [queue EXCEPT ![i] = 0]
    /\ UNCHANGED <<out, backoff, sender>>

-----------------------------------------------------------------------------
(* send_to *)

Idle == [pc |-> "idle", to |-> None, tx |-> None]

CallSend(s, p) ==
    /\ sender[s].pc = "idle"
    /\ sender' = [sender EXCEPT ![s] = [pc |-> "waiting", to |-> p, tx |-> None]]
    /\ Request(s)
    /\ UNCHANGED <<peers, out, backoff, inb, inPeer, queue>>

(* "unknown peer" and "not connected" drop the guard and return at once. *)
LookUp(s) ==
    LET p == sender[s].to IN
    /\ sender[s].pc = "waiting"
    /\ ReadGranted(s)
    /\ Granted
    /\ sender' = [sender EXCEPT ![s] =
          IF p \in DOMAIN peers /\ peers[p].tx # None
            THEN [pc |-> "sending", to |-> p, tx |-> peers[p].tx]
            ELSE Idle]
    /\ UNCHANGED <<peers, out, backoff, inb, inPeer, queue>>

SendOk(s) ==
    /\ sender[s].pc = "sending"
    /\ ReceiverOpen(sender[s].tx)
    /\ HasRoom(sender[s].tx)
    /\ queue' = [queue EXCEPT ![sender[s].tx] = @ + 1]
    /\ sender' = [sender EXCEPT ![s] = Idle]
    /\ UNCHANGED <<peers, out, backoff, inb, inPeer, lockQueue>>

(* Fault: a send on a closed channel is tried again, guard in hand.        *)
SendRetries(s) ==
    /\ sender[s].pc = "sending"
    /\ ~ReceiverOpen(sender[s].tx)
    /\ UNCHANGED vars

SendFails(s) ==
    /\ sender[s].pc = "sending"
    /\ ~ReceiverOpen(sender[s].tx)
    /\ sender' = [sender EXCEPT ![s] = Idle]
    /\ UNCHANGED <<peers, out, backoff, inb, inPeer, queue, lockQueue>>

-----------------------------------------------------------------------------
Init ==
    /\ peers = [p \in {} |-> Down]
    /\ out = [p \in Configured |-> "connecting"]
    /\ backoff = [p \in Configured |-> InitialBackoff]
    /\ inb = [i \in Inbound |-> "free"]
    /\ inPeer = [i \in Inbound |-> None]
    /\ queue = [t \in Task |-> 0]
    /\ sender = [s \in Sender |-> Idle]
    /\ lockQueue = << >>

OutboundStep(p) ==
    \/ ConnectOk(p)
    \/ ConnectFails(p)
    \/ RegisterOutbound(p)
    \/ SendHello(p)
    \/ WriteOutbound(p)
    \/ OutboundEnds(p)
    \/ UnregisterOutbound(p)
    \/ Wake(p)

InboundStep(i) ==
    \/ Accept(i)
    \/ CloseBeforeHello(i)
    \/ \E p \in Peer : ReadHello(i, p)
    \/ CheckRegistry(i)
    \/ TouchLastSeen(i)
    \/ ReadOnlyEnds(i)
    \/ RegisterInbound(i)
    \/ WriteInbound(i)
    \/ BidirEnds(i)
    \/ UnregisterInbound(i)

SenderStep(s) ==
    \/ \E p \in Peer : CallSend(s, p)
    \/ LookUp(s)
    \/ SendOk(s)
    \/ SendFails(s)

Next ==
    \/ \E p \in Configured : OutboundStep(p)
    \/ \E i \in Inbound : InboundStep(i)
    \/ \E s \in Sender : SenderStep(s)

Spec == Init /\ [][Next]_vars

(* Tasks are polled; the lock is FIFO, so a request at the head of its     *)
(* queue stays there; so is the wait for room in a channel, hence SF for   *)
(* SendOk.  Writing is fair as long as the remote reads its socket: an     *)
(* assumption on the environment.  Nothing makes a connection end, a hello *)
(* arrive or a connect succeed rather than fail.                           *)
Fairness ==
    /\ \A p \in Configured :
          /\ WF_vars(ConnectOk(p) \/ ConnectFails(p))
          /\ WF_vars(RegisterOutbound(p))
          /\ WF_vars(SendHello(p))
          /\ WF_vars(WriteOutbound(p))
          /\ WF_vars(UnregisterOutbound(p))
          /\ WF_vars(Wake(p))
    /\ \A i \in Inbound :
          /\ WF_vars(CheckRegistry(i))
          /\ WF_vars(TouchLastSeen(i))
          /\ WF_vars(RegisterInbound(i))
          /\ WF_vars(WriteInbound(i))
          /\ WF_vars(UnregisterInbound(i))
    /\ \A s \in Sender :
          /\ WF_vars(LookUp(s))
          /\ SF_vars(SendOk(s))
          /\ WF_vars(SendFails(s))

FairSpec == Spec /\ Fairness

-----------------------------------------------------------------------------
(* Types: every task is at a point of its code, the backoff lies between   *)
(* its two constants and no channel holds more than its capacity.          *)
TypeOK ==
    /\ DOMAIN peers \subseteq Peer
    /\ \A p \in DOMAIN peers : peers[p] \in Entry
    /\ out \in [Configured -> OutState]
    /\ backoff \in [Configured -> InitialBackoff .. MaxBackoff]
    /\ inb \in [Inbound -> InbState]
    /\ inPeer \in [Inbound -> Peer \cup {None}]
    /\ queue \in [Task -> 0 .. Cap]
    /\ sender \in [Sender -> [pc : SendState, to : Peer \cup {None},
                              tx : Task \cup {None}]]
    /\ lockQueue \in Seq(Task \cup Sender)

(* Task t has registered itself for peer p and has not yet cleaned up.     *)
Serving(t, p) ==
    \/ t \in Configured /\ t = p /\ out[t] \in {"greeting", "running", "ended"}
    \/ t \in Inbound /\ inPeer[t] = p /\ inb[t] \in {"bidir", "closing"}

(* What status() calls connected is backed by a channel, and the channel   *)
(* belongs to a task that serves that very peer and has not finished: no   *)
(* interleaving of registrations and cleanups by rival connections leaves  *)
(* an entry that points at a finished task, or at another peer's.          *)
StatusTruthful ==
    \A p \in DOMAIN peers :
        /\ peers[p].connected <=> peers[p].tx # None
        /\ peers[p].connected => Serving(peers[p].tx, p)

(* While a call of send_to holds its read guard, the entry it looked up    *)
(* stays as it was: nobody replaces or clears the channel under the send.  *)
GuardPinsChannel ==
    \A s \in Readers :
        /\ sender[s].to \in DOMAIN peers
        /\ peers[sender[s].to] = Up(sender[s].tx)

(* A message accepted by send_to is put in the channel of a task serving   *)
(* the addressed peer: a channel is never swapped for that of another peer *)
(* between the lookup and the send.                                        *)
AcceptedByServingTask ==
    [][\A s \in Sender, t \in Task :
          /\ sender[s].pc = "sending" /\ sender'[s].pc = "idle"
          /\ queue'[t] > queue[t]
          => Serving(t, sender[s].to)]_vars

(* The least set that has INITIAL_BACKOFF in it and, up to the cap, the    *)
(* double of what is in it.                                                *)
Doublings ==
    {b \in 0 .. MaxBackoff :
        \A S \in SUBSET (0 .. MaxBackoff) :
            InitialBackoff \in S /\ (\A c \in S : 2 * c <= MaxBackoff => 2 * c \in S) => b \in S}

(* manager.rs:14 "1s, 2s, 4s, 8s, 16s, 30s max": the backoff is always one *)
(* of these, and the first one from a successful connect until the task    *)
(* next retries.                                                           *)
BackoffOnSchedule ==
    \A p \in Configured :
        /\ backoff[p] \in Doublings \cup {MaxBackoff}
        /\ out[p] \notin {"connecting", "sleeping"} => backoff[p] = InitialBackoff

(* As long as no inbound connection names a configured peer, a running     *)
(* outbound connection is the one its peer's entry points at, whatever the *)
(* connections of other peers do.                                          *)
UnrivalledOutboundIsLinked ==
    [](\A i \in Inbound : inPeer[i] \notin Configured)
        => [](\A p \in Configured : out[p] = "running" =>
                  p \in DOMAIN peers /\ peers[p] = Up(p))

-----------------------------------------------------------------------------
(* A channel nobody drains is full: the task waits for the lock (closing)  *)
(* or for room for its own hello (greeting).                               *)
Wedged ==
    \/ \E i \in Inbound : inb[i] = "closing" /\ queue[i] = Cap
    \/ \E p \in Configured : out[p] = "greeting" /\ queue[p] = Cap

(* Unless such a channel fills up, an outbound task whose connection ended *)
(* dials again: run_connection says "the caller is responsible for         *)
(* reconnection".                                                          *)
Redials ==
    []~Wedged => \A p \in Configured : out[p] = "ended" ~> out[p] = "connecting"

(* Unless such a channel fills up, every call of send_to returns, though   *)
(* it waits with the read guard in hand and the tasks that would free the  *)
(* channel queue for the same lock.                                        *)
SendReturns ==
    []~Wedged => \A s \in Sender : sender[s].pc # "idle" ~> sender[s].pc = "idle"

-----------------------------------------------------------------------------
(* What comments and tests say of the program, and the code does not do.   *)

(* manager.rs:289: "Only clear outbound_tx if we still own it".            *)
InboundClearsOnlyItsOwn ==
    [][\A i \in Inbound : inb[i] = "closing" /\ inb'[i] = "free" =>
          \/ peers[inPeer[i]].tx = i
          \/ peers'[inPeer[i]].tx = peers[inPeer[i]].tx]_vars

(* tests/smoke.rs: after the socket is closed, status() comes to show the  *)
(* peer as disconnected.                                                   *)
DisconnectIsRecorded ==
    \A i \in Inbound : inb[i] = "closing" ~> inb[i] = "free"
=============================================================================
