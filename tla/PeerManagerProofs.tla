-------------------------- MODULE PeerManagerProofs --------------------------
(***************************************************************************)
(* What TLAPS proves of PeerManager, for every set of peers, tasks and     *)
(* callers, every channel capacity and every pair of backoff constants:    *)
(* its types, that the map never points at a finished task, that a read    *)
(* guard pins the channel, that an accepted message is in the channel of a *)
(* task serving the addressed peer, that an outbound connection without    *)
(* rivals is the one its entry points at, and the schedule of the backoff. *)
(***************************************************************************)
EXTENDS PeerManager, TLAPS

(* A task past its hello, and a call past its start, have a peer's name.   *)
NamesKnown ==
    /\ \A i \in Inbound : inb[i] \notin {"free", "hello"} => inPeer[i] \in Peer
    /\ \A s \in Sender : sender[s].pc # "idle" => sender[s].to \in Peer

(* StatusTruthful and GuardPinsChannel need each other: a send puts a      *)
(* message in the right channel because the entry it looked up is pinned,  *)
(* and the entry names a task in service.                                  *)
Inv == TypeOK /\ NamesKnown /\ StatusTruthful /\ GuardPinsChannel

USE DEF Task, OutState, InbState, SendState, Entry, Up, Down, Idle

-----------------------------------------------------------------------------
(* A task serves one peer at most.                                         *)
LEMMA ServesOne ==
    ASSUME NEW t, NEW p, NEW q, Serving(t, p), Serving(t, q)
    PROVE  p = q
BY PeerAssumption DEF Serving

(* Doubling stays between the two constants.                               *)
LEMMA NextBackoffBounded ==
    ASSUME NEW b \in InitialBackoff .. MaxBackoff
    PROVE  NextBackoff(b) \in InitialBackoff .. MaxBackoff
BY BackoffAssumption DEF NextBackoff

(* Putting an entry in the map and marking one down keep it a map of       *)
(* entries.                                                                *)
LEMMA InsertTyped ==
    ASSUME TypeOK, NEW p \in Peer, NEW t \in Task,
           peers' = Insert(peers, p, Up(t))
    PROVE  /\ DOMAIN peers' = DOMAIN peers \cup {p}
           /\ DOMAIN peers' \subseteq Peer
           /\ \A q \in DOMAIN peers' : peers'[q] \in Entry
           /\ peers'[p] = Up(t)
BY DEF TypeOK, Insert

LEMMA MarkDownTyped ==
    ASSUME TypeOK, NEW p, MarkDown(p)
    PROVE  /\ DOMAIN peers' = DOMAIN peers
           /\ \A q \in DOMAIN peers' : peers'[q] \in Entry
           /\ \A q \in DOMAIN peers' : q = p => peers'[q] = Down
           /\ \A q \in DOMAIN peers' : q # p => peers'[q] = peers[q]
BY DEF TypeOK, MarkDown

(* Asking for the lock and being granted it keep its queue a queue.        *)
LEMMA RequestTyped ==
    ASSUME TypeOK, NEW t \in Task \cup Sender, Request(t)
    PROVE  lockQueue' \in Seq(Task \cup Sender)
BY DEF TypeOK, Request

LEMMA GrantedTyped ==
    ASSUME TypeOK, NEW t, AtHead(t), Granted
    PROVE  lockQueue' \in Seq(Task \cup Sender)
BY DEF TypeOK, Granted, AtHead

-----------------------------------------------------------------------------
LEMMA InitInv == Init => Inv
<1> SUFFICES ASSUME Init PROVE Inv
  OBVIOUS
<1>1. TypeOK
  BY CapAssumption, BackoffAssumption DEF Init, TypeOK
<1>2. NamesKnown
  BY DEF Init, NamesKnown
<1>3. StatusTruthful
  BY DEF Init, StatusTruthful
<1>4. GuardPinsChannel
  BY DEF Init, GuardPinsChannel, Readers
<1> QED
  BY <1>1, <1>2, <1>3, <1>4 DEF Inv

(* The step of an outbound task keeps the types.                           *)
LEMMA OutboundTyped ==
    ASSUME Inv, NEW p \in Configured, OutboundStep(p)
    PROVE  TypeOK'
<1> USE DEF Inv
<1>1. CASE ConnectOk(p)
  <2>1. lockQueue' \in Seq(Task \cup Sender)
    BY <1>1, RequestTyped DEF ConnectOk
  <2> QED
    BY <1>1, <2>1, CapAssumption, BackoffAssumption DEF ConnectOk, TypeOK
<1>2. CASE ConnectFails(p)
  BY <1>2 DEF ConnectFails, TypeOK
<1>3. CASE RegisterOutbound(p)
  <2>1. lockQueue' \in Seq(Task \cup Sender)
    BY <1>3, GrantedTyped DEF RegisterOutbound, WriteGranted
  <2>2. DOMAIN peers' \subseteq Peer /\ \A q \in DOMAIN peers' : peers'[q] \in Entry
    BY <1>3, InsertTyped, PeerAssumption DEF RegisterOutbound
  <2> QED
    BY <1>3, <2>1, <2>2 DEF RegisterOutbound, TypeOK
<1>4. CASE SendHello(p)
  BY <1>4, CapAssumption DEF SendHello, TypeOK, HasRoom
<1>5. CASE WriteOutbound(p)
  BY <1>5, CapAssumption DEF WriteOutbound, TypeOK
<1>6. CASE OutboundEnds(p)
  <2>1. lockQueue' \in Seq(Task \cup Sender)
    BY <1>6, RequestTyped DEF OutboundEnds
  <2> QED
    BY <1>6, <2>1, CapAssumption DEF OutboundEnds, TypeOK
<1>7. CASE UnregisterOutbound(p)
  <2>1. lockQueue' \in Seq(Task \cup Sender)
    BY <1>7, GrantedTyped DEF UnregisterOutbound, WriteGranted
  <2>2. DOMAIN peers' \subseteq Peer /\ \A q \in DOMAIN peers' : peers'[q] \in Entry
    BY <1>7, MarkDownTyped DEF UnregisterOutbound, TypeOK
  <2> QED
    BY <1>7, <2>1, <2>2 DEF UnregisterOutbound, TypeOK
<1>8. CASE Wake(p)
  <2>1. backoff' \in [Configured -> InitialBackoff .. MaxBackoff]
    BY <1>8, NextBackoffBounded DEF Wake, TypeOK
  <2> QED
    BY <1>8, <2>1 DEF Wake, TypeOK
<1> QED
  BY <1>1, <1>2, <1>3, <1>4, <1>5, <1>6, <1>7, <1>8 DEF OutboundStep

(* The step of an inbound task keeps the types.                            *)
LEMMA InboundTyped ==
    ASSUME Inv, NEW i \in Inbound, InboundStep(i)
    PROVE  TypeOK'
<1> USE DEF Inv
<1>1. CASE Accept(i)
  BY <1>1 DEF Accept, TypeOK
<1>2. CASE CloseBeforeHello(i)
  BY <1>2 DEF CloseBeforeHello, TypeOK
<1>3. ASSUME NEW p \in Peer, ReadHello(i, p) PROVE TypeOK'
  <2>1. lockQueue' \in Seq(Task \cup Sender)
    BY <1>3, RequestTyped DEF ReadHello
  <2> QED
    BY <1>3, <2>1 DEF ReadHello, TypeOK
<1>4. CASE CheckRegistry(i)
  <2>1. lockQueue' \in Seq(Task \cup Sender)
    BY <1>4 DEF CheckRegistry, TypeOK, ReadGranted, AtHead
  <2>2. CASE HasOutbound(inPeer[i])
    BY <1>4, <2>1, <2>2 DEF CheckRegistry, TypeOK
  <2>3. CASE ~HasOutbound(inPeer[i])
    <3>0. /\ inb' = [inb EXCEPT ![i] = "registering"]
          /\ queue' = [queue EXCEPT ![i] = 0]
      BY <1>4, <2>3, Zenon DEF CheckRegistry
    <3>1. inb' \in [Inbound -> InbState] /\ queue' \in [Task -> 0 .. Cap]
      BY <3>0, CapAssumption DEF TypeOK
    <3> QED
      BY <1>4, <2>1, <3>1 DEF CheckRegistry, TypeOK
  <2> QED
    BY <2>2, <2>3
<1>5. CASE TouchLastSeen(i)
  <2>1. lockQueue' \in Seq(Task \cup Sender)
    BY <1>5, GrantedTyped DEF TouchLastSeen, WriteGranted
  <2> QED
    BY <1>5, <2>1 DEF TouchLastSeen, TypeOK
<1>6. CASE ReadOnlyEnds(i)
  BY <1>6 DEF ReadOnlyEnds, TypeOK
<1>7. CASE RegisterInbound(i)
  <2>1. lockQueue' \in Seq(Task \cup Sender)
    BY <1>7, GrantedTyped DEF RegisterInbound, WriteGranted
  <2>2. inPeer[i] \in Peer
    BY <1>7 DEF RegisterInbound, NamesKnown
  <2>3. DOMAIN peers' \subseteq Peer /\ \A q \in DOMAIN peers' : peers'[q] \in Entry
    BY <1>7, <2>2, InsertTyped DEF RegisterInbound
  <2> QED
    BY <1>7, <2>1, <2>3 DEF RegisterInbound, TypeOK
<1>8. CASE WriteInbound(i)
  BY <1>8, CapAssumption DEF WriteInbound, TypeOK
<1>9. CASE BidirEnds(i)
  <2>1. lockQueue' \in Seq(Task \cup Sender)
    BY <1>9, RequestTyped DEF BidirEnds
  <2> QED
    BY <1>9, <2>1 DEF BidirEnds, TypeOK
<1>10. CASE UnregisterInbound(i)
  <2>1. lockQueue' \in Seq(Task \cup Sender)
    BY <1>10, GrantedTyped DEF UnregisterInbound, WriteGranted
  <2>2. DOMAIN peers' \subseteq Peer /\ \A q \in DOMAIN peers' : peers'[q] \in Entry
    BY <1>10, MarkDownTyped DEF UnregisterInbound, TypeOK
  <2> QED
    BY <1>10, <2>1, <2>2, CapAssumption DEF UnregisterInbound, TypeOK
<1> QED
  BY <1>1, <1>2, <1>3, <1>4, <1>5, <1>6, <1>7, <1>8, <1>9, <1>10 DEF InboundStep

(* The step of a call of send_to keeps the types.                          *)
LEMMA SenderTyped ==
    ASSUME Inv, NEW s \in Sender, SenderStep(s)
    PROVE  TypeOK'
<1> USE DEF Inv
<1>1. ASSUME NEW p \in Peer, CallSend(s, p) PROVE TypeOK'
  <2>1. lockQueue' \in Seq(Task \cup Sender)
    BY <1>1, RequestTyped DEF CallSend
  <2> QED
    BY <1>1, <2>1 DEF CallSend, TypeOK
<1>2. CASE LookUp(s)
  <2>1. lockQueue' \in Seq(Task \cup Sender)
    BY <1>2, GrantedTyped DEF LookUp, ReadGranted
  <2>2. sender[s].to \in Peer
    BY <1>2 DEF LookUp, NamesKnown
  <2>3. sender' \in [Sender -> [pc : SendState, to : Peer \cup {None},
                                tx : Task \cup {None}]]
    BY <1>2, <2>2 DEF LookUp, TypeOK
  <2> QED
    BY <1>2, <2>1, <2>3 DEF LookUp, TypeOK
<1>3. CASE SendOk(s)
  <2>1. sender[s].tx \in Task
    BY <1>3 DEF SendOk, ReceiverOpen
  <2>2. queue' \in [Task -> 0 .. Cap]
    BY <1>3, <2>1, CapAssumption DEF SendOk, HasRoom, TypeOK
  <2> QED
    BY <1>3, <2>2 DEF SendOk, TypeOK
<1>4. CASE SendFails(s)
  BY <1>4 DEF SendFails, TypeOK
<1> QED
  BY <1>1, <1>2, <1>3, <1>4 DEF SenderStep

-----------------------------------------------------------------------------
(* Every step keeps the names known.                                       *)
LEMMA NamesStep ==
    ASSUME Inv, [Next]_vars
    PROVE  NamesKnown'
<1> USE DEF Inv, NamesKnown, TypeOK
<1>1. ASSUME NEW p \in Configured, OutboundStep(p) PROVE NamesKnown'
  BY <1>1 DEF OutboundStep, ConnectOk, ConnectFails, RegisterOutbound,
     SendHello, WriteOutbound, OutboundEnds, UnregisterOutbound, Wake
<1>2. ASSUME NEW i \in Inbound, InboundStep(i) PROVE NamesKnown'
  <2>1. \A j \in Inbound : inb'[j] \notin {"free", "hello"} => inPeer'[j] \in Peer
    BY <1>2 DEF InboundStep, Accept, CloseBeforeHello, ReadHello, CheckRegistry,
       TouchLastSeen, ReadOnlyEnds, RegisterInbound, WriteInbound, BidirEnds,
       UnregisterInbound
  <2>2. UNCHANGED sender
    BY <1>2 DEF InboundStep, Accept, CloseBeforeHello, ReadHello, CheckRegistry,
       TouchLastSeen, ReadOnlyEnds, RegisterInbound, WriteInbound, BidirEnds,
       UnregisterInbound
  <2> QED
    BY <2>1, <2>2
<1>3. ASSUME NEW s \in Sender, SenderStep(s) PROVE NamesKnown'
  <2>1. UNCHANGED <<inb, inPeer>> /\ \A r \in Sender \ {s} : sender'[r] = sender[r]
    BY <1>3 DEF SenderStep, CallSend, LookUp, SendOk, SendFails
  <2>2. sender'[s].pc # "idle" => sender'[s].to \in Peer
    BY <1>3 DEF SenderStep, CallSend, LookUp, SendOk, SendFails
  <2> QED
    BY <2>1, <2>2
<1>4. CASE UNCHANGED vars
  BY <1>4 DEF vars
<1> QED
  BY <1>1, <1>2, <1>3, <1>4 DEF Next

-----------------------------------------------------------------------------
(* A step that leaves the map alone and ends nobody's service keeps        *)
(* StatusTruthful.                                                         *)
LEMMA SameMap ==
    ASSUME StatusTruthful, UNCHANGED peers,
           \A t, p : Serving(t, p) => Serving(t, p)'
    PROVE  StatusTruthful'
BY DEF StatusTruthful

(* Registering task t for p: p's entry points at t, the others where they  *)
(* pointed.                                                                *)
LEMMA RegisterTruthful ==
    ASSUME Inv, NEW p \in Peer, NEW t \in Task,
           peers' = Insert(peers, p, Up(t)), Serving(t, p)',
           \A u, q : Serving(u, q) => Serving(u, q)'
    PROVE  StatusTruthful'
<1>1. ASSUME NEW q \in DOMAIN peers'
      PROVE  (/\ peers[q].connected <=> peers[q].tx # None
              /\ peers[q].connected => Serving(peers[q].tx, q))'
  <2>1. CASE q = p
    <3>1. peers'[q] = Up(t)
      BY <2>1, InsertTyped DEF Inv
    <3>2. t # None
      BY PeerAssumption
    <3> QED
      BY <2>1, <3>1, <3>2 DEF Serving
  <2>2. CASE q # p
    <3>1. q \in DOMAIN peers /\ peers'[q] = peers[q]
      BY <1>1, <2>2 DEF Insert
    <3> QED
      BY <3>1 DEF Inv, StatusTruthful, Serving
  <2> QED
    BY <2>1, <2>2
<1> QED
  BY <1>1 DEF StatusTruthful

(* Cleaning up after task t, which served p: nobody else's entry pointed   *)
(* at t, because t served p only.                                          *)
LEMMA CleanupTruthful ==
    ASSUME Inv, NEW p, NEW t, MarkDown(p), Serving(t, p),
           \A u, q : Serving(u, q) /\ u # t => Serving(u, q)'
    PROVE  StatusTruthful'
<1>1. ASSUME NEW q \in DOMAIN peers'
      PROVE  (/\ peers[q].connected <=> peers[q].tx # None
              /\ peers[q].connected => Serving(peers[q].tx, q))'
  <2>1. CASE q = p
    BY <1>1, <2>1, MarkDownTyped DEF Inv
  <2>2. CASE q # p
    <3>1. q \in DOMAIN peers /\ peers'[q] = peers[q]
      BY <1>1, <2>2, MarkDownTyped DEF Inv
    <3>2. peers[q].connected => peers[q].tx # t
      BY <2>2, <3>1, ServesOne DEF Inv, StatusTruthful
    <3> QED
      BY <3>1, <3>2 DEF Inv, StatusTruthful, Serving
  <2> QED
    BY <2>1, <2>2
<1> QED
  BY <1>1 DEF StatusTruthful

LEMMA TruthfulStep ==
    ASSUME Inv, [Next]_vars
    PROVE  StatusTruthful'
<1> USE DEF Inv
<1>1. ASSUME NEW p \in Configured, OutboundStep(p) PROVE StatusTruthful'
  <2> p \notin Inbound
    BY PeerAssumption
  <2>1. CASE RegisterOutbound(p)
    <3>1. Serving(p, p)' /\ \A u, q : Serving(u, q) => Serving(u, q)'
      BY <2>1 DEF RegisterOutbound, Serving, TypeOK
    <3> QED
      BY <2>1, <3>1, RegisterTruthful, PeerAssumption DEF RegisterOutbound
  <2>2. CASE UnregisterOutbound(p)
    <3>1. Serving(p, p) /\ \A u, q : Serving(u, q) /\ u # p => Serving(u, q)'
      BY <2>2 DEF UnregisterOutbound, Serving, TypeOK
    <3> QED
      BY <2>2, <3>1, CleanupTruthful DEF UnregisterOutbound
  <2>3. CASE \/ ConnectOk(p) \/ ConnectFails(p) \/ SendHello(p)
             \/ WriteOutbound(p) \/ OutboundEnds(p) \/ Wake(p)
    <3>1. UNCHANGED peers
      BY <2>3 DEF ConnectOk, ConnectFails, SendHello, WriteOutbound,
         OutboundEnds, Wake
    <3>2. \A u, q : Serving(u, q) => Serving(u, q)'
      BY <2>3 DEF ConnectOk, ConnectFails, SendHello, WriteOutbound,
         OutboundEnds, Wake, Serving, TypeOK
    <3> QED
      BY <3>1, <3>2, SameMap
  <2> QED
    BY <1>1, <2>1, <2>2, <2>3 DEF OutboundStep
<1>2. ASSUME NEW i \in Inbound, InboundStep(i) PROVE StatusTruthful'
  <2> i \notin Configured
    BY PeerAssumption
  <2>1. CASE RegisterInbound(i)
    <3>1. inPeer[i] \in Peer
      BY <2>1 DEF RegisterInbound, NamesKnown
    <3>2. Serving(i, inPeer[i])' /\ \A u, q : Serving(u, q) => Serving(u, q)'
      BY <2>1 DEF RegisterInbound, Serving, TypeOK
    <3> QED
      BY <2>1, <3>1, <3>2, RegisterTruthful DEF RegisterInbound
  <2>2. CASE UnregisterInbound(i)
    <3>1. /\ Serving(i, inPeer[i])
          /\ \A u, q : Serving(u, q) /\ u # i => Serving(u, q)'
      BY <2>2 DEF UnregisterInbound, Serving, TypeOK
    <3> QED
      BY <2>2, <3>1, CleanupTruthful DEF UnregisterInbound
  <2>3. CASE \/ Accept(i) \/ CloseBeforeHello(i) \/ \E p \in Peer : ReadHello(i, p)
             \/ CheckRegistry(i) \/ TouchLastSeen(i) \/ ReadOnlyEnds(i)
             \/ WriteInbound(i) \/ BidirEnds(i)
    <3>1. UNCHANGED peers
      BY <2>3 DEF Accept, CloseBeforeHello, ReadHello, CheckRegistry,
         TouchLastSeen, ReadOnlyEnds, WriteInbound, BidirEnds
    <3>2. \A u, q : Serving(u, q) => Serving(u, q)'
      BY <2>3 DEF Accept, CloseBeforeHello, ReadHello, CheckRegistry,
         TouchLastSeen, ReadOnlyEnds, WriteInbound, BidirEnds, Serving, TypeOK
    <3> QED
      BY <3>1, <3>2, SameMap
  <2> QED
    BY <1>2, <2>1, <2>2, <2>3 DEF InboundStep
<1>3. ASSUME NEW s \in Sender, SenderStep(s) PROVE StatusTruthful'
  <2>1. UNCHANGED <<peers, out, inb, inPeer>>
    BY <1>3 DEF SenderStep, CallSend, LookUp, SendOk, SendFails
  <2> QED
    BY <2>1, SameMap DEF Serving
<1>4. CASE UNCHANGED vars
  BY <1>4, SameMap DEF vars, Serving
<1> QED
  BY <1>1, <1>2, <1>3, <1>4 DEF Next

-----------------------------------------------------------------------------
(* The tasks change the map only when no call holds a read guard, and no   *)
(* step of theirs touches a call.                                          *)
LEMMA TasksRespectGuards ==
    ASSUME Inv,
           \/ \E p \in Configured : OutboundStep(p)
           \/ \E i \in Inbound : InboundStep(i)
    PROVE  UNCHANGED sender /\ (UNCHANGED peers \/ Readers = {})
<1>1. ASSUME NEW p \in Configured, OutboundStep(p)
      PROVE  UNCHANGED sender /\ (UNCHANGED peers \/ Readers = {})
  BY <1>1 DEF OutboundStep, ConnectOk, ConnectFails, RegisterOutbound,
     SendHello, WriteOutbound, OutboundEnds, UnregisterOutbound, Wake,
     WriteGranted
<1>2. ASSUME NEW i \in Inbound, InboundStep(i)
      PROVE  UNCHANGED sender /\ (UNCHANGED peers \/ Readers = {})
  BY <1>2 DEF InboundStep, Accept, CloseBeforeHello, ReadHello, CheckRegistry,
     TouchLastSeen, ReadOnlyEnds, RegisterInbound, WriteInbound, BidirEnds,
     UnregisterInbound, WriteGranted
<1> QED
  BY <1>1, <1>2

LEMMA GuardStep ==
    ASSUME Inv, [Next]_vars
    PROVE  GuardPinsChannel'
<1> USE DEF Inv, Readers
<1>1. CASE \/ \E p \in Configured : OutboundStep(p)
           \/ \E i \in Inbound : InboundStep(i)
  BY <1>1, TasksRespectGuards DEF GuardPinsChannel
<1>2. ASSUME NEW s \in Sender, SenderStep(s) PROVE GuardPinsChannel'
  <2>1. UNCHANGED peers
    BY <1>2 DEF SenderStep, CallSend, LookUp, SendOk, SendFails
  <2>2. \A r \in Sender \ {s} : sender'[r] = sender[r]
    BY <1>2 DEF SenderStep, CallSend, LookUp, SendOk, SendFails, TypeOK
  <2>3. sender'[s].pc = "sending" =>
          /\ sender'[s].to \in DOMAIN peers
          /\ peers[sender'[s].to] = Up(sender'[s].tx)
    <3>1. CASE LookUp(s)
      <4> DEFINE p == sender[s].to
      <4>1. CASE p \in DOMAIN peers /\ peers[p].tx # None
        <5>1. sender'[s] = [pc |-> "sending", to |-> p, tx |-> peers[p].tx]
          BY <3>1, <4>1 DEF LookUp, TypeOK
        <5>2. peers[p] = Up(peers[p].tx)
          BY <4>1 DEF TypeOK, StatusTruthful
        <5> QED
          BY <4>1, <5>1, <5>2
      <4>2. CASE ~(p \in DOMAIN peers /\ peers[p].tx # None)
        BY <3>1, <4>2 DEF LookUp, TypeOK
      <4> QED
        BY <4>1, <4>2
    <3>2. CASE ~LookUp(s)
      BY <1>2, <3>2 DEF SenderStep, CallSend, SendOk, SendFails, TypeOK
    <3> QED
      BY <3>1, <3>2
  <2> QED
    BY <2>1, <2>2, <2>3 DEF GuardPinsChannel
<1>3. CASE UNCHANGED vars
  BY <1>3 DEF vars, GuardPinsChannel
<1> QED
  BY <1>1, <1>2, <1>3 DEF Next

-----------------------------------------------------------------------------
(* Inv is inductive.                                                       *)
LEMMA InvStep == Inv /\ [Next]_vars => Inv'
<1> SUFFICES ASSUME Inv, [Next]_vars PROVE Inv'
  OBVIOUS
<1>1. TypeOK'
  <2>1. CASE UNCHANGED vars
    BY <2>1 DEF Inv, TypeOK, vars
  <2> QED
    BY <2>1, OutboundTyped, InboundTyped, SenderTyped DEF Next
<1> QED
  BY <1>1, NamesStep, TruthfulStep, GuardStep DEF Inv

(* Inv holds in every reachable state.                                     *)
THEOREM Invariance == Spec => []Inv
BY InitInv, InvStep, PTL DEF Spec

(* The state is always well typed; in particular the backoff stays between *)
(* INITIAL_BACKOFF and MAX_BACKOFF and a channel within its capacity.      *)
THEOREM TypeCorrect == Spec => []TypeOK
<1>1. Inv => TypeOK
  BY DEF Inv
<1> QED
  BY <1>1, Invariance, PTL

(* The map of manager.rs never points at a finished task or at the channel *)
(* of another peer, whatever the connections do.                           *)
THEOREM StatusIsTruthful == Spec => []StatusTruthful
<1>1. Inv => StatusTruthful
  BY DEF Inv
<1> QED
  BY <1>1, Invariance, PTL

(* A call of send_to that holds the read guard sees its entry unchanged.   *)
THEOREM GuardPins == Spec => []GuardPinsChannel
<1>1. Inv => GuardPinsChannel
  BY DEF Inv
<1> QED
  BY <1>1, Invariance, PTL

(* One step of send_to puts a message where it belongs.                    *)
LEMMA AcceptStep ==
    ASSUME Inv, [Next]_vars,
           NEW s \in Sender, NEW t \in Task,
           sender[s].pc = "sending", sender'[s].pc = "idle",
           queue'[t] > queue[t]
    PROVE  Serving(t, sender[s].to)
<1> USE DEF Inv
<1>1. ~UNCHANGED sender
  OBVIOUS
<1>2. PICK r \in Sender : SenderStep(r)
  BY <1>1, TasksRespectGuards DEF Next, vars
<1>3. r = s
  BY <1>2 DEF SenderStep, CallSend, LookUp, SendOk, SendFails, TypeOK
<1>4. SendOk(s) \/ SendFails(s)
  BY <1>2, <1>3 DEF SenderStep, CallSend, LookUp
<1>5. queue[t] \in Nat
  BY DEF TypeOK
<1>6. SendOk(s)
  BY <1>4, <1>5 DEF SendFails
<1>7. t = sender[s].tx
  BY <1>5, <1>6 DEF SendOk, TypeOK
<1>8. sender[s].to \in DOMAIN peers /\ peers[sender[s].to] = Up(t)
  BY <1>7 DEF GuardPinsChannel, Readers
<1> QED
  BY <1>8 DEF StatusTruthful

(* Every message send_to accepts is in the channel of a task serving the   *)
(* addressed peer.                                                         *)
THEOREM AcceptedWhereServed == Spec => AcceptedByServingTask
<1>1. ASSUME Inv, [Next]_vars
      PROVE  [\A s \in Sender, t \in Task :
                /\ sender[s].pc = "sending" /\ sender'[s].pc = "idle"
                /\ queue'[t] > queue[t]
                => Serving(t, sender[s].to)]_vars
  BY <1>1, AcceptStep
<1> QED
  BY <1>1, Invariance, PTL DEF Spec, AcceptedByServingTask

-----------------------------------------------------------------------------
(* A running outbound connection without an inbound rival.                 *)

Unrivalled == \A i \in Inbound : inPeer[i] \notin Configured

(* From registration to cleanup the entry is the outbound task's.          *)
LinkInv ==
    \A p \in Configured : out[p] \in {"greeting", "running", "ended"} =>
        p \in DOMAIN peers /\ peers[p] = Up(p)

LEMMA LinkStep == TypeOK /\ Unrivalled /\ LinkInv /\ [Next]_vars => LinkInv'
<1> SUFFICES ASSUME TypeOK, Unrivalled, LinkInv, [Next]_vars, NEW p \in Configured,
                    out'[p] \in {"greeting", "running", "ended"}
             PROVE  p \in DOMAIN peers' /\ peers'[p] = Up(p)
  BY DEF LinkInv
<1>1. out \in [Configured -> OutState] /\ Configured \cap Inbound = {}
  BY PeerAssumption DEF TypeOK
<1>2. ASSUME peers' = peers, out[p] \in {"greeting", "running", "ended"}
      PROVE  p \in DOMAIN peers' /\ peers'[p] = Up(p)
  BY <1>2 DEF LinkInv
<1>3. CASE UNCHANGED vars
  BY <1>2, <1>3 DEF vars
<1>4. ASSUME NEW q \in Configured, OutboundStep(q)
      PROVE  p \in DOMAIN peers' /\ peers'[p] = Up(p)
  <2>1. CASE RegisterOutbound(q)
    BY <1>1, <2>1 DEF RegisterOutbound, Insert, LinkInv
  <2>2. CASE UnregisterOutbound(q)
    BY <1>1, <2>2 DEF UnregisterOutbound, MarkDown, LinkInv
  <2>3. CASE ConnectOk(q) \/ ConnectFails(q) \/ SendHello(q) \/ WriteOutbound(q)
             \/ OutboundEnds(q) \/ Wake(q)
    BY <1>1, <1>2, <2>3
       DEF ConnectOk, ConnectFails, SendHello, WriteOutbound, OutboundEnds, Wake
  <2> QED
    BY <1>4, <2>1, <2>2, <2>3 DEF OutboundStep
<1>5. ASSUME NEW i \in Inbound, InboundStep(i)
      PROVE  p \in DOMAIN peers' /\ peers'[p] = Up(p)
  <2>1. inPeer[i] # p /\ out' = out
    BY <1>5 DEF Unrivalled, InboundStep, Accept, CloseBeforeHello, ReadHello, CheckRegistry,
                TouchLastSeen, ReadOnlyEnds, RegisterInbound, WriteInbound, BidirEnds,
                UnregisterInbound
  <2>2. CASE RegisterInbound(i)
    BY <2>1, <2>2 DEF RegisterInbound, Insert, LinkInv
  <2>3. CASE UnregisterInbound(i)
    BY <2>1, <2>3 DEF UnregisterInbound, MarkDown, LinkInv
  <2>4. CASE ~RegisterInbound(i) /\ ~UnregisterInbound(i)
    BY <1>2, <1>5, <2>1, <2>4
       DEF InboundStep, Accept, CloseBeforeHello, ReadHello, CheckRegistry,
           TouchLastSeen, ReadOnlyEnds, WriteInbound, BidirEnds
  <2> QED
    BY <2>2, <2>3, <2>4
<1>6. ASSUME NEW s \in Sender, SenderStep(s)
      PROVE  p \in DOMAIN peers' /\ peers'[p] = Up(p)
  BY <1>2, <1>6 DEF SenderStep, CallSend, LookUp, SendOk, SendFails
<1> QED
  BY <1>3, <1>4, <1>5, <1>6 DEF Next

(* As long as no inbound connection names a configured peer, a running     *)
(* outbound connection is the one that its peer's entry points at.         *)
THEOREM UnrivalledIsLinked == Spec => UnrivalledOutboundIsLinked
<1>1. Init => LinkInv
  BY DEF Init, LinkInv
<1>2. LinkInv => (\A p \in Configured : out[p] = "running" => p \in DOMAIN peers /\ peers[p] = Up(p))
  BY DEF LinkInv
<1> QED
  BY <1>1, <1>2, LinkStep, TypeCorrect, PTL DEF Spec, UnrivalledOutboundIsLinked, Unrivalled

-----------------------------------------------------------------------------
(* The backoff                                                             *)

LEMMA Doubles ==
    ASSUME NEW b \in Doublings \cup {MaxBackoff}
    PROVE  NextBackoff(b) \in Doublings \cup {MaxBackoff}
<1>1. CASE 2 * b < MaxBackoff
  <2>1. b \in Doublings /\ b \in 0 .. MaxBackoff
    BY <1>1, BackoffAssumption DEF Doublings
  <2>2. 2 * b \in 0 .. MaxBackoff
    BY <1>1, <2>1, BackoffAssumption
  <2>3. ASSUME NEW S \in SUBSET (0 .. MaxBackoff), InitialBackoff \in S,
               \A c \in S : 2 * c <= MaxBackoff => 2 * c \in S
        PROVE  2 * b \in S
    <3>1. b \in S
      BY <2>1, <2>3 DEF Doublings
    <3> QED
      BY <1>1, <2>3, <3>1, BackoffAssumption
  <2> QED
    BY <1>1, <2>2, <2>3 DEF Doublings, NextBackoff
<1>2. CASE ~(2 * b < MaxBackoff)
  BY <1>2 DEF NextBackoff
<1> QED
  BY <1>1, <1>2

LEMMA BackoffStep == TypeOK /\ BackoffOnSchedule /\ [Next]_vars => BackoffOnSchedule'
<1> SUFFICES ASSUME TypeOK, BackoffOnSchedule, [Next]_vars, NEW p \in Configured
             PROVE  /\ backoff'[p] \in Doublings \cup {MaxBackoff}
                    /\ out'[p] \notin {"connecting", "sleeping"} => backoff'[p] = InitialBackoff
  BY DEF BackoffOnSchedule
<1>1. /\ out \in [Configured -> OutState] /\ backoff \in [Configured -> InitialBackoff .. MaxBackoff]
      /\ backoff[p] \in Doublings \cup {MaxBackoff}
      /\ out[p] \notin {"connecting", "sleeping"} => backoff[p] = InitialBackoff
  BY DEF TypeOK, BackoffOnSchedule
<1>2. CASE UNCHANGED <<out, backoff>>
  BY <1>1, <1>2
<1>3. ASSUME NEW q \in Configured, OutboundStep(q)
      PROVE  /\ backoff'[p] \in Doublings \cup {MaxBackoff}
             /\ out'[p] \notin {"connecting", "sleeping"} => backoff'[p] = InitialBackoff
  <2>1. CASE ConnectOk(q)
    <3>1. InitialBackoff \in Doublings
      BY BackoffAssumption DEF Doublings
    <3> QED
      BY <1>1, <2>1, <3>1 DEF ConnectOk
  <2>2. CASE Wake(q)
    <3>1. NextBackoff(backoff[p]) \in Doublings \cup {MaxBackoff}
      BY <1>1, Doubles
    <3> QED
      BY <1>1, <2>2, <3>1 DEF Wake
  <2>3. CASE ConnectFails(q) \/ RegisterOutbound(q) \/ SendHello(q) \/ WriteOutbound(q)
             \/ OutboundEnds(q) \/ UnregisterOutbound(q)
    BY <1>1, <2>3
       DEF ConnectFails, RegisterOutbound, SendHello, WriteOutbound, OutboundEnds,
           UnregisterOutbound
  <2> QED
    BY <1>3, <2>1, <2>2, <2>3 DEF OutboundStep
<1>4. ASSUME NEW i \in Inbound, InboundStep(i) PROVE UNCHANGED <<out, backoff>>
  BY <1>4 DEF InboundStep, Accept, CloseBeforeHello, ReadHello, CheckRegistry, TouchLastSeen,
              ReadOnlyEnds, RegisterInbound, WriteInbound, BidirEnds, UnregisterInbound
<1>5. ASSUME NEW s \in Sender, SenderStep(s) PROVE UNCHANGED <<out, backoff>>
  BY <1>5 DEF SenderStep, CallSend, LookUp, SendOk, SendFails
<1>6. CASE UNCHANGED vars
  BY <1>2, <1>6 DEF vars
<1> QED
  BY <1>2, <1>3, <1>4, <1>5, <1>6 DEF Next

(* The backoff is the first one, doubled some times, or the cap; and from  *)
(* a successful connect until the task next retries it is the first one,   *)
(* however long its peer had been away.                                    *)
THEOREM BackoffKept == Spec => []BackoffOnSchedule
<1>1. Init => BackoffOnSchedule
  <2>1. InitialBackoff \in Doublings
    BY BackoffAssumption DEF Doublings
  <2> QED
    BY <2>1 DEF Init, BackoffOnSchedule
<1> QED
  BY <1>1, BackoffStep, TypeCorrect, PTL DEF Spec
=============================================================================
