--------------------------- MODULE FlowControlProofs ---------------------------
(***************************************************************************)
(* What TLAPS proves of FlowControl, for every capacity of the channels:   *)
(* channels keep to their capacities, the circles that go through the node *)
(* are there for good, and with the one over the socket they are the only  *)
(* ways in which all tasks can come to wait.                               *)
(***************************************************************************)
EXTENDS FlowControl, TLAPS

LEMMA Capacities ==
    /\ CmdCap \in Nat /\ CmdCap > 0
    /\ EvtCap \in Nat /\ EvtCap > 0
    /\ PeerCap \in Nat /\ PeerCap > 0
    /\ InboundCap \in Nat /\ InboundCap > 0
    /\ BridgeCap \in Nat /\ BridgeCap > 0
    /\ SocketCap \in Nat /\ SocketCap > 0
    /\ MaxBurst \in Nat /\ MaxBurst > 0
BY FlowAssumption

-----------------------------------------------------------------------------
LEMMA InitType == Init => TypeOK
BY Capacities DEF Init, TypeOK, None, ConnOpen

(* One lemma for each task.                                                *)
LEMMA SfuType ==
    ASSUME TypeOK, SfuCommand \/ SfuSend \/ SfuMedia
    PROVE  TypeOK'
<1>1. CASE SfuCommand
  BY <1>1, Capacities DEF SfuCommand, TypeOK, ConnOpen, sockets
<1>2. CASE SfuSend
  BY <1>2, Capacities DEF SfuSend, TypeOK, ConnOpen, sockets
<1>3. CASE SfuMedia
  BY <1>3, Capacities DEF SfuMedia, TypeOK, ConnOpen, channels, sockets
<1> QED
  BY <1>1, <1>2, <1>3

LEMMA FwdType ==
    ASSUME TypeOK, FwdWork
    PROVE  TypeOK'
<1>1. CASE FwdTake
  BY <1>1, Capacities DEF FwdTake, TypeOK, ConnOpen, sockets
<1>2. CASE FwdPost
  BY <1>2, Capacities DEF FwdPost, TypeOK, ConnOpen, channels, sockets
<1>3. CASE FwdSend
  BY <1>3, Capacities DEF FwdSend, TypeOK, ConnOpen, sockets
<1> QED
  BY <1>1, <1>2, <1>3 DEF FwdWork

LEMMA ConnType ==
    ASSUME TypeOK, ConnWork \/ ConnKeepalive \/ ConnBreaks \/ Reconnect
    PROVE  TypeOK'
<1>1. CASE ConnTake
  BY <1>1, Capacities DEF ConnTake, TypeOK, ConnOpen, sockets
<1>2. CASE ConnWrite
  BY <1>2, Capacities DEF ConnWrite, TypeOK, ConnOpen, channels
<1>3. CASE ConnRead
  BY <1>3, Capacities DEF ConnRead, TypeOK, ConnOpen, channels
<1>4. CASE ConnHandOn
  BY <1>4, Capacities DEF ConnHandOn, TypeOK, ConnOpen, sockets
<1>5. CASE ConnKeepalive
  BY <1>5, Capacities DEF ConnKeepalive, TypeOK, ConnOpen, channels, sockets
<1>6. CASE ConnBreaks
  BY <1>6, Capacities DEF ConnBreaks, TypeOK, ConnOpen
<1>7. CASE Reconnect
  BY <1>7, Capacities DEF Reconnect, TypeOK, ConnOpen, channels, sockets
<1> QED
  BY <1>1, <1>2, <1>3, <1>4, <1>5, <1>6, <1>7 DEF ConnWork

LEMMA DispType ==
    ASSUME TypeOK, DispWork
    PROVE  TypeOK'
<1>1. CASE DispTake
  BY <1>1, Capacities DEF DispTake, TypeOK, ConnOpen, sockets
<1>2. CASE DispToSfu
  BY <1>2, Capacities DEF DispToSfu, TypeOK, ConnOpen, sockets
<1>3. CASE DispToBridge
  BY <1>3, Capacities DEF DispToBridge, TypeOK, ConnOpen, sockets
<1> QED
  BY <1>1, <1>2, <1>3 DEF DispWork

LEMMA BrgType ==
    ASSUME TypeOK, BrgWork \/ BrgTake \/ HandleSend
    PROVE  TypeOK'
<1>1. CASE BrgForward
  BY <1>1, Capacities DEF BrgForward, TypeOK, ConnOpen, sockets
<1>2. CASE BrgTake
  BY <1>2, Capacities DEF BrgTake, TypeOK, ConnOpen, channels, sockets
<1>3. CASE BrgToSfu
  BY <1>3, Capacities DEF BrgToSfu, TypeOK, ConnOpen, sockets
<1>4. CASE BrgToPeer
  BY <1>4, Capacities DEF BrgToPeer, TypeOK, ConnOpen, sockets
<1>5. CASE HandleSend
  BY <1>5, Capacities DEF HandleSend, TypeOK, ConnOpen, sockets
<1> QED
  BY <1>1, <1>2, <1>3, <1>4, <1>5 DEF BrgWork

LEMMA FarType ==
    ASSUME TypeOK, FarWork \/ FarTake
    PROVE  TypeOK'
<1>1. CASE FarTake
  BY <1>1, Capacities DEF FarTake, TypeOK, ConnOpen, channels, sockets
<1>2. CASE FarWrite
  BY <1>2, Capacities DEF FarWrite, TypeOK, ConnOpen, channels
<1>3. CASE FarRead
  BY <1>3, Capacities DEF FarRead, TypeOK, ConnOpen, channels
<1> QED
  BY <1>1, <1>2, <1>3 DEF FarWork

LEMMA TypeStep == TypeOK /\ [Next]_vars => TypeOK'
<1> SUFFICES ASSUME TypeOK, [Next]_vars PROVE TypeOK'
  OBVIOUS
<1>1. CASE UNCHANGED vars
  BY <1>1 DEF vars, channels, sockets, TypeOK, ConnOpen
<1> QED
  BY <1>1, SfuType, FwdType, ConnType, DispType, BrgType, FarType
     DEF Next, Work, Input, SfuWork

(* Each channel keeps to its capacity, and a connection that is down has   *)
(* nothing in its channel or on its socket, whatever was in hand when it   *)
(* went.                                                                   *)
THEOREM TypeCorrect == Spec => []TypeOK
BY InitType, TypeStep, PTL DEF Spec

-----------------------------------------------------------------------------
(* The circles are for good.                                               *)

(* What goes on around a connection that hands on a message for which      *)
(* there is no room leaves it where it is, and so does what waits for it.  *)
LEMMA MediaStays == MediaCircle /\ [Next]_vars => MediaCircle'
<1> SUFFICES ASSUME MediaCircle, [Next]_vars PROVE MediaCircle'
  OBVIOUS
<1> USE Capacities
    DEF MediaCircle, SfuWaits, FwdWaits, HandWaits, CommandWaits, ConnOpen, None
<1>1. CASE UNCHANGED vars
  BY <1>1 DEF vars, channels, sockets
<1>2. CASE SfuWork \/ SfuMedia
  BY <1>2 DEF SfuWork, SfuCommand, SfuSend, SfuMedia
<1>3. CASE FwdWork
  BY <1>3 DEF FwdWork, FwdTake, FwdPost, FwdSend
<1>4. CASE ConnWork \/ ConnKeepalive \/ ConnBreaks \/ Reconnect
  BY <1>4 DEF ConnWork, ConnTake, ConnWrite, ConnRead, ConnHandOn, ConnKeepalive,
              ConnBreaks, Reconnect
<1>5. CASE DispWork
  BY <1>5 DEF DispWork, DispTake, DispToSfu, DispToBridge
<1>6. CASE BrgWork \/ BrgTake \/ HandleSend
  BY <1>6 DEF BrgWork, BrgForward, BrgToSfu, BrgToPeer, BrgTake, HandleSend, channels
<1>7. CASE FarWork \/ FarTake
  BY <1>7 DEF FarWork, FarWrite, FarRead, FarTake, channels
<1> QED
  BY <1>1, <1>2, <1>3, <1>4, <1>5, <1>6, <1>7 DEF Next, Work, Input

LEMMA BridgeStays == BridgeCircle /\ [Next]_vars => BridgeCircle'
<1> SUFFICES ASSUME BridgeCircle, [Next]_vars PROVE BridgeCircle'
  OBVIOUS
<1> USE Capacities
    DEF BridgeCircle, RouteWaits, HandWaits, ForwardWaits, ConnOpen, None
<1>1. CASE UNCHANGED vars
  BY <1>1 DEF vars, channels, sockets
<1>2. CASE SfuWork \/ SfuMedia
  BY <1>2 DEF SfuWork, SfuCommand, SfuSend, SfuMedia, channels
<1>3. CASE FwdWork
  BY <1>3 DEF FwdWork, FwdTake, FwdPost, FwdSend, channels
<1>4. CASE ConnWork \/ ConnKeepalive \/ ConnBreaks \/ Reconnect
  BY <1>4 DEF ConnWork, ConnTake, ConnWrite, ConnRead, ConnHandOn, ConnKeepalive,
              ConnBreaks, Reconnect
<1>5. CASE DispWork
  BY <1>5 DEF DispWork, DispTake, DispToSfu, DispToBridge
<1>6. CASE BrgWork \/ BrgTake \/ HandleSend
  BY <1>6 DEF BrgWork, BrgForward, BrgToSfu, BrgToPeer, BrgTake, HandleSend
<1>7. CASE FarWork \/ FarTake
  BY <1>7 DEF FarWork, FarWrite, FarRead, FarTake, channels
<1> QED
  BY <1>1, <1>2, <1>3, <1>4, <1>5, <1>6, <1>7 DEF Next, Work, Input

LEMMA LongStays == LongCircle /\ [Next]_vars => LongCircle'
<1> SUFFICES ASSUME LongCircle, [Next]_vars PROVE LongCircle'
  OBVIOUS
<1> USE Capacities
    DEF LongCircle, SfuWaits, FwdWaits, HandWaits, ForwardWaits, OfferWaits, ConnOpen, None
<1>1. CASE UNCHANGED vars
  BY <1>1 DEF vars, channels, sockets
<1>2. CASE SfuWork \/ SfuMedia
  BY <1>2 DEF SfuWork, SfuCommand, SfuSend, SfuMedia
<1>3. CASE FwdWork
  BY <1>3 DEF FwdWork, FwdTake, FwdPost, FwdSend
<1>4. CASE ConnWork \/ ConnKeepalive \/ ConnBreaks \/ Reconnect
  BY <1>4 DEF ConnWork, ConnTake, ConnWrite, ConnRead, ConnHandOn, ConnKeepalive,
              ConnBreaks, Reconnect
<1>5. CASE DispWork
  BY <1>5 DEF DispWork, DispTake, DispToSfu, DispToBridge
<1>6. CASE BrgWork \/ BrgTake \/ HandleSend
  BY <1>6 DEF BrgWork, BrgForward, BrgToSfu, BrgToPeer, BrgTake, HandleSend
<1>7. CASE FarWork \/ FarTake
  BY <1>7 DEF FarWork, FarWrite, FarRead, FarTake, channels
<1> QED
  BY <1>1, <1>2, <1>3, <1>4, <1>5, <1>6, <1>7 DEF Next, Work, Input

(* Nothing that the environment or a task of the node can do dissolves one *)
(* of the circles that go through the node: closing the socket, too, is    *)
(* not noticed by a connection that waits to hand on.                      *)
THEOREM CirclesForGood == Spec => CirclesStay
BY MediaStays, BridgeStays, LongStays, PTL DEF Spec, CirclesStay

-----------------------------------------------------------------------------
(* Nothing but the circles stops the node.                                 *)

(* The guards of each task's work.                                         *)
SfuCan  == (sfu = 0 /\ cmd > 0) \/ (sfu > 0 /\ evt < EvtCap)
FwdCan  == \/ fwd = None /\ evt > 0
           \/ fwd = "answer"
           \/ fwd = "relay" /\ (ConnOpen => peer < PeerCap)
ConnCan == \/ conn = "select" /\ (peer > 0 \/ sockIn > 0)
           \/ conn = "writing" /\ sockOut < SocketCap
           \/ conn = "handing" /\ inbound < InboundCap
DispCan == \/ disp = None /\ inbound > 0
           \/ disp = "relay" /\ cmd < CmdCap
           \/ disp = "app" /\ bridge < BridgeCap
BrgCan  == \/ brg = None /\ bridge > 0
           \/ brg = "offer" /\ cmd < CmdCap
           \/ brg = "app" /\ (ConnOpen => peer < PeerCap)
FarCan  == \/ far = "writing" /\ sockIn < SocketCap
           \/ far = "select" /\ sockOut > 0

CanWork == SfuCan \/ FwdCan \/ ConnCan \/ DispCan \/ BrgCan \/ FarCan

(* Where no task has work it can do there is no work left or a circle.     *)
StopsOnlyInCircle == CanWork \/ Drained \/ Circle

(* The guards are those of the actions: no task works without them.        *)
LEMMA WorkNeedsGuard == TypeOK /\ Work => CanWork
<1> SUFFICES ASSUME TypeOK, Work PROVE CanWork
  OBVIOUS
<1> USE Capacities DEF CanWork, TypeOK
<1>1. CASE SfuWork
  BY <1>1 DEF SfuWork, SfuCommand, SfuSend, SfuCan
<1>2. CASE FwdWork
  BY <1>2 DEF FwdWork, FwdTake, FwdPost, FwdSend, FwdCan
<1>3. CASE ConnWork
  BY <1>3 DEF ConnWork, ConnTake, ConnWrite, ConnRead, ConnHandOn, ConnCan
<1>4. CASE DispWork
  BY <1>4 DEF DispWork, DispTake, DispToSfu, DispToBridge, DispCan
<1>5. CASE BrgWork
  BY <1>5 DEF BrgWork, BrgForward, BrgToSfu, BrgToPeer, BrgCan
<1>6. CASE FarWork
  BY <1>6 DEF FarWork, FarWrite, FarRead, FarCan
<1> QED
  BY <1>1, <1>2, <1>3, <1>4, <1>5, <1>6 DEF Work

LEMMA TypeStops == TypeOK => StopsOnlyInCircle
<1> SUFFICES ASSUME TypeOK, ~CanWork, ~Circle PROVE Drained
  BY DEF StopsOnlyInCircle
<1> USE Capacities
    DEF TypeOK, None, CanWork, Circle, SocketCircle, MediaCircle, BridgeCircle, LongCircle
<1>1. ~WriteWaits
  <2>1. conn = "writing" /\ sockOut = SocketCap => far = "writing" /\ sockIn = SocketCap
    BY DEF FarCan
  <2> QED
    BY <2>1 DEF WriteWaits, FarWaits
<1>2. conn # "writing" /\ (conn = "select" => peer = 0 /\ sockIn = 0)
      /\ (conn = "handing" => HandWaits)
  BY <1>1 DEF WriteWaits, ConnCan, HandWaits
<1>3. /\ disp = None => inbound = 0
      /\ disp = "relay" => CommandWaits
      /\ disp = "app" => ForwardWaits
  BY DEF DispCan, CommandWaits, ForwardWaits
<1>4. /\ brg = None => bridge = 0
      /\ brg = "offer" => OfferWaits
      /\ brg = "app" => RouteWaits
  BY DEF BrgCan, OfferWaits, RouteWaits, ConnOpen
<1>5. /\ sfu = 0 => cmd = 0
      /\ sfu > 0 => SfuWaits
  BY DEF SfuCan, SfuWaits
<1>6. /\ fwd = None => evt = 0
      /\ fwd # None => FwdWaits
  BY DEF FwdCan, FwdWaits, ConnOpen
<1>7. ~HandWaits
  <2> SUFFICES ASSUME HandWaits PROVE FALSE
    OBVIOUS
  <2>1. disp # None
    BY <1>3 DEF HandWaits
  <2>2. CASE disp = "relay"
    BY <1>3, <1>5, <1>6, <2>2 DEF CommandWaits, SfuWaits
  <2>3. CASE disp = "app"
    BY <1>3, <1>4, <1>5, <1>6, <2>3 DEF ForwardWaits, OfferWaits, SfuWaits
  <2> QED
    BY <2>1, <2>2, <2>3
<1>8. peer = 0 /\ sockIn = 0
  BY <1>2, <1>7 DEF ConnOpen
<1>9. fwd = None /\ evt = 0 /\ sfu = 0 /\ cmd = 0
  BY <1>5, <1>6, <1>8 DEF FwdWaits, SfuWaits
<1>10. brg = None /\ bridge = 0 /\ disp = None /\ inbound = 0
  BY <1>3, <1>4, <1>8, <1>9 DEF OfferWaits, RouteWaits, CommandWaits, ForwardWaits
<1>11. far = "select"
  BY <1>8 DEF FarCan
<1> QED
  BY <1>8, <1>9, <1>10, <1>11 DEF Drained

(* With every capacity, a node in which no task can go on has dealt with   *)
(* all it was given, or is in one of the four circles: there is no other   *)
(* deadlock among the channels (lib.rs:207, 365; main.rs:171, 181;         *)
(* connection.rs:38, 61; ws.rs:103, 114).                                  *)
THEOREM OnlyCirclesStop == Spec => []StopsOnlyInCircle
BY TypeCorrect, TypeStops, PTL
=============================================================================
