------------------------------ MODULE FlowControl ------------------------------
(***************************************************************************)
(* The bounded channels of one node, and who waits for room in them: the   *)
(* SFU loop (crates/sfu/src/lib.rs), forward_sfu_events and                *)
(* dispatch_inbound (crates/meshd/src/main.rs), the loop of a peer's       *)
(* connection (peer/connection.rs), and the WebSocket bridge               *)
(* (bridge/ws.rs).                                                         *)
(*                                                                         *)
(*     sfu --evt--> fwd --peer--> conn <==socket==> far                    *)
(*      ^                    ^      |                                      *)
(*      |cmd                 |    inbound                                  *)
(*      +------ disp <-------|------+                                      *)
(*      |         +--bridge--> brg                                         *)
(*      +---------------------+ (brg sends to cmd and to peer)             *)
(*                                                                         *)
(* Each of these tasks awaits a send with what it took in its hands, and   *)
(* takes nothing else meanwhile: so does a connection, which neither reads *)
(* while it writes nor writes while it hands a message on.  far is the     *)
(* same loop at the other end of the socket, on a node whose dispatcher    *)
(* keeps up.                                                               *)
(*                                                                         *)
(* A channel is the number of messages in it.  What a message turns out to *)
(* be is chosen where the code looks at it: no task looks ahead.           *)
(*                                                                         *)
(* One peer and one bridge, which stay; the lock around the channels of    *)
(* peers is in PeerManager, the coming and going of bridges in             *)
(* BridgeDispatch.                                                         *)
(***************************************************************************)
EXTENDS Naturals

CONSTANTS
    CmdCap,       \* commands to the SFU (256 in the code)
    EvtCap,       \* events of the SFU (256)
    PeerCap,      \* messages to a peer (256)
    InboundCap,   \* messages from all peers (1024)
    BridgeCap,    \* messages to the bridge (1024)
    SocketCap,    \* what a socket takes in one direction before writes wait
    MaxBurst      \* relayed packets of one turn of the SFU: a bound of the model

ASSUME FlowAssumption ==
    {CmdCap, EvtCap, PeerCap, InboundCap, BridgeCap, SocketCap, MaxBurst}
        \subseteq Nat \ {0}

VARIABLES
    cmd, evt, peer, inbound, bridge,   \* how many messages are in each channel
    sockOut, sockIn,                   \* and in the socket, to far and from it
    sfu,      \* how many events the SFU has yet to send in this turn
    fwd,      \* what the forwarder has in its hands
    conn,     \* what the connection is doing
    disp,     \* what the dispatcher has in its hands
    brg,      \* and the bridge, coming from Laravel
    far       \* what the far end is doing

channels == <<cmd, evt, peer, inbound, bridge>>
sockets  == <<sockOut, sockIn>>
vars == <<channels, sockets, sfu, fwd, conn, disp, brg, far>>

None == "none"

ConnOpen == conn # "down"

-----------------------------------------------------------------------------
(* sfu_loop: a turn of the select, then the sends of that turn *)

(* An offer is answered, or refused without an answer; a relay command and *)
(* media from another node, which go to local sessions by UDP, have none.  *)
SfuCommand ==
    /\ sfu = 0
    /\ cmd > 0
    /\ cmd' = cmd - 1
    /\ sfu' \in {0, 1}
    /\ UNCHANGED <<evt, peer, inbound, bridge, sockets, fwd, conn, disp, brg, far>>

(* A packet or a timeout: an event for each packet and each node that has  *)
(* subscribed.                                                             *)
SfuMedia ==
    /\ sfu = 0
    /\ sfu' \in 1 .. MaxBurst
    /\ UNCHANGED <<channels, sockets, fwd, conn, disp, brg, far>>

(* Fault: the room is off by one.                                          *)
SfuSendOffByOne ==
    /\ sfu > 0
    /\ evt <= EvtCap
    /\ evt' = evt + 1
    /\ sfu' = sfu - 1
    /\ UNCHANGED <<cmd, peer, inbound, bridge, sockets, fwd, conn, disp, brg, far>>

SfuSend ==
    /\ sfu > 0
    /\ evt < EvtCap
    /\ evt' = evt + 1
    /\ sfu' = sfu - 1
    /\ UNCHANGED <<cmd, peer, inbound, bridge, sockets, fwd, conn, disp, brg, far>>

-----------------------------------------------------------------------------
(* forward_sfu_events *)

FwdTake ==
    /\ fwd = None
    /\ evt > 0
    /\ evt' = evt - 1
    /\ fwd' \in {"answer", "relay"}
    /\ UNCHANGED <<cmd, peer, inbound, bridge, sockets, sfu, conn, disp, brg, far>>

(* The answer is posted; an error drops it.                                *)
FwdPost ==
    /\ fwd = "answer"
    /\ fwd' = None
    /\ UNCHANGED <<channels, sockets, sfu, conn, disp, brg, far>>

(* Fault: without a connection the send waits for one.                     *)
FwdSendWaits ==
    /\ fwd = "relay"
    /\ ConnOpen /\ peer < PeerCap
    /\ peer' = peer + 1
    /\ fwd' = None
    /\ UNCHANGED <<cmd, evt, inbound, bridge, sockets, sfu, conn, disp, brg, far>>

(* send_to fails at once when there is no connection, and when it ends.    *)
FwdSend ==
    /\ fwd = "relay"
    /\ \/ ConnOpen /\ peer < PeerCap /\ peer' = peer + 1
       \/ ~ConnOpen /\ UNCHANGED peer
    /\ fwd' = None
    /\ UNCHANGED <<cmd, evt, inbound, bridge, sockets, sfu, conn, disp, brg, far>>

-----------------------------------------------------------------------------
(* run_connection *)

ConnTake ==
    /\ conn = "select"
    /\ peer > 0
    /\ conn' = "writing"
    /\ peer' = peer - 1
    /\ UNCHANGED <<cmd, evt, inbound, bridge, sockets, sfu, fwd, disp, brg, far>>

ConnKeepalive ==
    /\ conn = "select"
    /\ conn' = "writing"
    /\ UNCHANGED <<channels, sockets, sfu, fwd, disp, brg, far>>

ConnWrite ==
    /\ conn = "writing"
    /\ sockOut < SocketCap
    /\ sockOut' = sockOut + 1
    /\ conn' = "select"
    /\ UNCHANGED <<channels, sockIn, sfu, fwd, disp, brg, far>>

ConnRead ==
    /\ conn = "select"
    /\ sockIn > 0
    /\ conn' \in {"select", "handing"}
    /\ sockIn' = sockIn - 1
    /\ UNCHANGED <<channels, sockOut, sfu, fwd, disp, brg, far>>

ConnHandOn ==
    /\ conn = "handing"
    /\ inbound < InboundCap
    /\ inbound' = inbound + 1
    /\ conn' = "select"
    /\ UNCHANGED <<cmd, evt, peer, bridge, sockets, sfu, fwd, disp, brg, far>>

(* Fault: the hand-over is given up when the socket fails.                 *)
ConnBreaksAnywhere ==
    /\ ConnOpen
    /\ conn' = "down"
    /\ peer' = 0
    /\ sockOut' = 0 /\ sockIn' = 0 /\ far' = "select"
    /\ UNCHANGED <<cmd, evt, inbound, bridge, sfu, fwd, disp, brg>>

(* The socket fails or is closed: noticed by a read or a write, and not    *)
(* while a message is handed on.  The channel goes with the connection.    *)
ConnBreaks ==
    /\ ConnOpen
    /\ conn # "handing"
    /\ conn' = "down"
    /\ peer' = 0
    /\ sockOut' = 0 /\ sockIn' = 0 /\ far' = "select"
    /\ UNCHANGED <<cmd, evt, inbound, bridge, sfu, fwd, disp, brg>>

Reconnect ==
    /\ conn = "down"
    /\ conn' = "select"
    /\ UNCHANGED <<channels, sockets, sfu, fwd, disp, brg, far>>

-----------------------------------------------------------------------------
(* dispatch_inbound *)

DispTake ==
    /\ disp = None
    /\ inbound > 0
    /\ disp' \in {"relay", "app"}
    /\ inbound' = inbound - 1
    /\ UNCHANGED <<cmd, evt, peer, bridge, sockets, sfu, fwd, conn, brg, far>>

DispToSfu ==
    /\ disp = "relay"
    /\ cmd < CmdCap
    /\ cmd' = cmd + 1
    /\ disp' = None
    /\ UNCHANGED <<evt, peer, inbound, bridge, sockets, sfu, fwd, conn, brg, far>>

DispToBridge ==
    /\ disp = "app"
    /\ bridge < BridgeCap
    /\ bridge' = bridge + 1
    /\ disp' = None
    /\ UNCHANGED <<cmd, evt, peer, inbound, sockets, sfu, fwd, conn, brg, far>>

-----------------------------------------------------------------------------
(* bridge_loop and route_outbound; handle_send *)

BrgForward ==
    /\ brg = None
    /\ bridge > 0
    /\ bridge' = bridge - 1
    /\ UNCHANGED <<cmd, evt, peer, inbound, sockets, sfu, fwd, conn, disp, brg, far>>

(* A frame from Laravel: an SFU command for this node or something to      *)
(* route to the peer.                                                      *)
BrgTake ==
    /\ brg = None
    /\ brg' \in {"offer", "app"}
    /\ UNCHANGED <<channels, sockets, sfu, fwd, conn, disp, far>>

BrgToSfu ==
    /\ brg = "offer"
    /\ cmd < CmdCap
    /\ cmd' = cmd + 1
    /\ brg' = None
    /\ UNCHANGED <<evt, peer, inbound, bridge, sockets, sfu, fwd, conn, disp, far>>

BrgToPeer ==
    /\ brg = "app"
    /\ \/ ConnOpen /\ peer < PeerCap /\ peer' = peer + 1
       \/ ~ConnOpen /\ UNCHANGED peer
    /\ brg' = None
    /\ UNCHANGED <<cmd, evt, inbound, bridge, sockets, sfu, fwd, conn, disp, far>>

(* A POST /send is a task of its own, on which nobody waits: it is here    *)
(* once it has room.                                                       *)
HandleSend ==
    /\ \/ cmd < CmdCap /\ cmd' = cmd + 1 /\ UNCHANGED peer
       \/ ConnOpen /\ peer < PeerCap /\ peer' = peer + 1 /\ UNCHANGED cmd
    /\ UNCHANGED <<evt, inbound, bridge, sockets, sfu, fwd, conn, disp, brg, far>>

-----------------------------------------------------------------------------
(* The connection's loop at the far end *)

FarTake ==
    /\ far = "select"
    /\ ConnOpen
    /\ far' = "writing"
    /\ UNCHANGED <<channels, sockets, sfu, fwd, conn, disp, brg>>

FarWrite ==
    /\ far = "writing"
    /\ sockIn < SocketCap
    /\ sockIn' = sockIn + 1
    /\ far' = "select"
    /\ UNCHANGED <<channels, sockOut, sfu, fwd, conn, disp, brg>>

FarRead ==
    /\ far = "select"
    /\ sockOut > 0
    /\ sockOut' = sockOut - 1
    /\ UNCHANGED <<channels, sockIn, sfu, fwd, conn, disp, brg, far>>

-----------------------------------------------------------------------------
Init ==
    /\ cmd = 0 /\ evt = 0 /\ peer = 0 /\ inbound = 0 /\ bridge = 0
    /\ sockOut = 0 /\ sockIn = 0
    /\ sfu = 0
    /\ conn = "down"
    /\ fwd = None /\ disp = None /\ brg = None /\ far = "select"

(* What a task does with what there is, and what brings more.              *)
SfuWork  == SfuCommand \/ SfuSend
FwdWork  == FwdTake \/ FwdPost \/ FwdSend
ConnWork == ConnTake \/ ConnWrite \/ ConnRead \/ ConnHandOn
DispWork == DispTake \/ DispToSfu \/ DispToBridge
BrgWork  == BrgForward \/ BrgToSfu \/ BrgToPeer
FarWork  == FarWrite \/ FarRead

Work  == SfuWork \/ FwdWork \/ ConnWork \/ DispWork \/ BrgWork \/ FarWork
Input == SfuMedia \/ BrgTake \/ HandleSend \/ FarTake

Next == Work \/ Input \/ ConnKeepalive \/ ConnBreaks \/ Reconnect

Spec == Init /\ [][Next]_vars

(* Tasks are polled (WF).  select! tries its ready branches in random      *)
(* order, so that keepalives do not shut out the channel or the socket     *)
(* (SF).  That Laravel answers a POST and reads its bridge, and that the   *)
(* far node's dispatcher takes what its connection hands it, are assumed.  *)
Fairness ==
    /\ WF_vars(SfuWork)
    /\ WF_vars(FwdWork)
    /\ WF_vars(ConnWork)
    /\ SF_vars(ConnTake)
    /\ SF_vars(ConnRead)
    /\ WF_vars(DispWork)
    /\ WF_vars(BrgWork)
    /\ WF_vars(FarWork)

FairSpec == Spec /\ Fairness

-----------------------------------------------------------------------------
(* Types: what each task may have in its hands, and each channel keeps to  *)
(* its capacity and to what belongs in it.                                 *)
TypeOK ==
    /\ cmd \in 0 .. CmdCap
    /\ evt \in 0 .. EvtCap
    /\ peer \in 0 .. PeerCap
    /\ inbound \in 0 .. InboundCap
    /\ bridge \in 0 .. BridgeCap
    /\ sockOut \in 0 .. SocketCap
    /\ sockIn \in 0 .. SocketCap
    /\ sfu \in 0 .. MaxBurst
    /\ fwd \in {"answer", "relay", None}
    /\ conn \in {"down", "select", "writing", "handing"}
    /\ disp \in {"relay", "app", None}
    /\ brg \in {"offer", "app", None}
    /\ far \in {"select", "writing"}
    /\ ~ConnOpen => peer = 0 /\ sockOut = 0 /\ sockIn = 0 /\ far = "select"

-----------------------------------------------------------------------------
(* Who waits for room, and for whom to make it *)

SfuWaits     == sfu > 0 /\ evt = EvtCap                     \* for fwd
FwdWaits     == fwd = "relay" /\ ConnOpen /\ peer = PeerCap     \* for conn
WriteWaits   == conn = "writing" /\ sockOut = SocketCap       \* for far
HandWaits    == conn = "handing" /\ inbound = InboundCap     \* for disp
CommandWaits == disp = "relay" /\ cmd = CmdCap                  \* for sfu
ForwardWaits == disp = "app" /\ bridge = BridgeCap              \* for brg
OfferWaits   == brg = "offer" /\ cmd = CmdCap                   \* for sfu
RouteWaits   == brg = "app" /\ ConnOpen /\ peer = PeerCap       \* for conn
FarWaits     == far = "writing" /\ sockIn = SocketCap                \* for conn

(* The circles.  Two ends write to each other and neither reads; media go  *)
(* out while media come in; the bridge sends to the peer whose messages it *)
(* should take; and all of it together.                                    *)
SocketCircle == WriteWaits /\ FarWaits
MediaCircle  == SfuWaits /\ FwdWaits /\ HandWaits /\ CommandWaits
BridgeCircle == RouteWaits /\ HandWaits /\ ForwardWaits
LongCircle   == SfuWaits /\ FwdWaits /\ HandWaits /\ ForwardWaits /\ OfferWaits

Circle == SocketCircle \/ MediaCircle \/ BridgeCircle \/ LongCircle

(* Nothing waits and nobody has anything in his hands.                     *)
Drained ==
    /\ cmd = 0 /\ evt = 0 /\ peer = 0 /\ inbound = 0 /\ bridge = 0
    /\ sockIn = 0
    /\ sfu = 0 /\ fwd = None /\ disp = None /\ brg = None /\ far = "select"

(* These four are the only ways to come to a stop: unless one of them      *)
(* closes, with all its channels full at once, everything that came in has *)
(* been dealt with some time after the last of it, whatever the waits for  *)
(* room on its way (lib.rs:207, 365; main.rs:171, 181; connection.rs:38,   *)
(* 61; ws.rs:103, 114).                                                    *)
Drains == (<>[][~Input]_vars /\ []~Circle) => <>[]Drained

(* A circle that goes through the node itself is there for good: nothing   *)
(* in it has a timeout, and the connection does not look at its socket     *)
(* while it waits, so that closing the socket does not help.               *)
CirclesStay ==
    [][/\ MediaCircle => MediaCircle'
       /\ BridgeCircle => BridgeCircle'
       /\ LongCircle => LongCircle']_vars
=============================================================================
