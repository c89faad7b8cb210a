---------------------------- MODULE BridgeDispatch ----------------------------
(***************************************************************************)
(* How messages from peers reach Laravel: the dispatcher task of           *)
(* crates/meshd/src/main.rs and the WebSocket bridges of bridge/server.rs  *)
(* and bridge/ws.rs that hand themselves over to it.                       *)
(*                                                                         *)
(* A GET /ws runs handle_ws_upgrade in a task of its own: it loads a flag, *)
(* makes a channel, sends the sending half to the dispatcher, stores the   *)
(* flag, runs the bridge loop, clears the flag.  The dispatcher selects    *)
(* between registrations and messages; a message goes into the channel of  *)
(* the bridge registered last, and to the HTTP callback when there is none *)
(* or its receiver is gone.                                                *)
(*                                                                         *)
(* Messages are the numbers 1 .. LastMsg in the order peers sent them.  The   *)
(* name of a handler is used again once nothing refers to its channel.     *)
(* Laravel's own messages (ws_rx) change nothing here.                     *)
(***************************************************************************)
EXTENDS Naturals, Sequences, SequencesExt

CONSTANTS
    Handler,       \* upgraded sockets whose channels can exist at one time
    LastMsg,       \* number of messages: a bound of the model
    SfuCommands,   \* the messages that are commands for the local SFU
    Cap,           \* capacity of a bridge's channel (1024 in the code)
    None

ASSUME BridgeAssumption ==
    /\ None \notin Handler
    /\ LastMsg \in Nat
    /\ SfuCommands \subseteq 1 .. LastMsg
    /\ Cap \in Nat \ {0}

VARIABLES
    pc,       \* where each handle_ws_upgrade is
    flag,     \* ws_bridge_connected
    reg,      \* the registration channel, of capacity one
    sink,     \* the dispatcher's ws_sink
    chan,     \* the messages in each bridge's channel
    dpc,      \* where the dispatcher is
    cur,      \* the message in its hands
    next,     \* the next message to take from inbound_rx
    seen,     \* what Laravel got, in order
    toSfu,    \* what the SFU got
    lost      \* what nobody got

handlerVars    == <<pc, chan>>
dispatcherVars == <<sink, dpc, cur, next>>
fateVars       == <<seen, toSfu, lost>>
vars == <<pc, flag, reg, sink, chan, dpc, cur, next, seen, toSfu, lost>>

Msg == 1 .. LastMsg
NoMsg == 0

(* The receiver exists from the creation of the channel to the end of      *)
(* bridge_loop.                                                            *)
ReceiverOpen(h) == h \in Handler /\ pc[h] \in {"register", "announce", "loop"}

(* Somebody still has the sending half.                                    *)
HasSender(h) == pc[h] = "register" \/ reg = h \/ sink = h

-----------------------------------------------------------------------------
(* handle_ws_upgrade *)

(* With the flag set the socket is dropped: nothing changes.               *)
Admit(h) ==
    /\ pc[h] = "free"
    /\ ~HasSender(h)
    /\ ~flag
    /\ pc' = [pc EXCEPT ![h] = "register"]
    /\ UNCHANGED <<flag, reg, chan, dispatcherVars, fateVars>>

Register(h) ==
    /\ pc[h] = "register"
    /\ reg = None
    /\ reg' = h
    /\ pc' = [pc EXCEPT ![h] = "announce"]
    /\ UNCHANGED <<flag, chan, dispatcherVars, fateVars>>

Announce(h) ==
    /\ pc[h] = "announce"
    /\ flag' = TRUE
    /\ pc' = [pc EXCEPT ![h] = "loop"]
    /\ UNCHANGED <<reg, chan, dispatcherVars, fateVars>>

(* The loop takes a message from its channel and writes it to the socket.  *)
Forward(h) ==
    /\ pc[h] = "loop"
    /\ chan[h] # << >>
    /\ seen' = Append(seen, Head(chan[h]))
    /\ chan' = [chan EXCEPT ![h] = Tail(@)]
    /\ UNCHANGED <<pc, flag, reg, dispatcherVars, toSfu, lost>>

(* Fault: the channel outlives the loop.                                   *)
HangUpKeepingChannel(h) ==
    /\ pc[h] = "loop"
    /\ pc' = [pc EXCEPT ![h] = "leaving"]
    /\ UNCHANGED <<flag, reg, chan, dispatcherVars, fateVars>>

(* The socket is closed, fails or a write on it fails; what the channel    *)
(* holds goes with it.                                                     *)
HangUp(h) ==
    /\ pc[h] = "loop"
    /\ pc' = [pc EXCEPT ![h] = "leaving"]
    /\ lost' = lost \cup ToSet(chan[h])
    /\ chan' = [chan EXCEPT ![h] = << >>]
    /\ UNCHANGED <<flag, reg, dispatcherVars, seen, toSfu>>

(* Fault: a bridge whose sender is gone waits on.                          *)
StayDeaf(h) == pc[h] = "loop" /\ UNCHANGED vars

(* inbound_rx.recv() gives None: the channel is empty and has no sender.   *)
SenderGone(h) ==
    /\ pc[h] = "loop"
    /\ chan[h] = << >>
    /\ ~HasSender(h)
    /\ pc' = [pc EXCEPT ![h] = "leaving"]
    /\ UNCHANGED <<flag, reg, chan, dispatcherVars, fateVars>>

(* Fault: a bridge that leaves does not clear the flag.                    *)
LeaveFlag(h) ==
    /\ pc[h] = "leaving"
    /\ pc' = [pc EXCEPT ![h] = "free"]
    /\ UNCHANGED <<flag, reg, chan, dispatcherVars, fateVars>>

Leave(h) ==
    /\ pc[h] = "leaving"
    /\ flag' = FALSE
    /\ pc' = [pc EXCEPT ![h] = "free"]
    /\ UNCHANGED <<reg, chan, dispatcherVars, fateVars>>

-----------------------------------------------------------------------------
(* dispatch_inbound *)

(* Fault: a bridge is turned away while another one is registered.         *)
TakeFirstOnly ==
    /\ dpc = "select"
    /\ reg # None
    /\ sink' = IF sink = None THEN reg ELSE sink
    /\ reg' = None
    /\ UNCHANGED <<handlerVars, flag, dpc, cur, next, fateVars>>

TakeRegistration ==
    /\ dpc = "select"
    /\ reg # None
    /\ sink' = reg
    /\ reg' = None
    /\ UNCHANGED <<handlerVars, flag, dpc, cur, next, fateVars>>

(* Fault: any message is taken for an SFU command.                         *)
TakeAnyAsSfuCommand ==
    /\ dpc = "select"
    /\ next \in Msg
    /\ next' = next + 1
    /\ toSfu' = toSfu \cup {next}
    /\ UNCHANGED <<handlerVars, flag, reg, sink, dpc, cur, seen, lost>>

(* An SFU command is sent on, or dropped when the SFU task has ended.      *)
TakeSfuCommand ==
    /\ dpc = "select"
    /\ next \in SfuCommands
    /\ next' = next + 1
    /\ \/ toSfu' = toSfu \cup {next} /\ UNCHANGED lost
       \/ lost' = lost \cup {next} /\ UNCHANGED toSfu
    /\ UNCHANGED <<handlerVars, flag, reg, sink, dpc, cur, seen>>

TakeMessage ==
    /\ dpc = "select"
    /\ next \in Msg \ SfuCommands
    /\ next' = next + 1
    /\ cur' = next
    /\ dpc' = IF sink = None THEN "posting" ELSE "sending"
    /\ UNCHANGED <<handlerVars, flag, reg, sink, fateVars>>

(* Fault: the message is posted as well.                                   *)
SendAndPost ==
    /\ dpc = "sending"
    /\ ReceiverOpen(sink)
    /\ Len(chan[sink]) < Cap
    /\ chan' = [chan EXCEPT ![sink] = Append(@, cur)]
    /\ dpc' = "posting"
    /\ UNCHANGED <<pc, flag, reg, sink, cur, next, fateVars>>

SendToBridge ==
    /\ dpc = "sending"
    /\ ReceiverOpen(sink)
    /\ Len(chan[sink]) < Cap
    /\ chan' = [chan EXCEPT ![sink] = Append(@, cur)]
    /\ dpc' = "select"
    /\ cur' = NoMsg
    /\ UNCHANGED <<pc, flag, reg, sink, next, fateVars>>

(* Fault: a send to a bridge that is gone is given up and taken up again.  *)
FailSend ==
    /\ dpc = "sending"
    /\ ~ReceiverOpen(sink)
    /\ UNCHANGED vars

(* Fault: a full channel is taken for a closed one.                        *)
FallBackWhenFull ==
    /\ dpc = "sending"
    /\ ReceiverOpen(sink) => Len(chan[sink]) = Cap
    /\ sink' = None
    /\ flag' = FALSE
    /\ dpc' = "posting"
    /\ UNCHANGED <<handlerVars, reg, cur, next, fateVars>>

(* The send fails, at once or while it waits for room.                     *)
FallBack ==
    /\ dpc = "sending"
    /\ ~ReceiverOpen(sink)
    /\ sink' = None
    /\ flag' = FALSE
    /\ dpc' = "posting"
    /\ UNCHANGED <<handlerVars, reg, cur, next, fateVars>>

(* The POST is awaited.  An error drops the message, whether or not        *)
(* Laravel had taken it.                                                   *)
Post ==
    /\ dpc = "posting"
    /\ dpc' = "select"
    /\ cur' = NoMsg
    /\ \/ seen' = Append(seen, cur) /\ UNCHANGED lost
       \/ lost' = lost \cup {cur} /\ UNCHANGED seen
    /\ UNCHANGED <<handlerVars, flag, reg, sink, next, toSfu>>

-----------------------------------------------------------------------------
Init ==
    /\ pc = [h \in Handler |-> "free"]
    /\ flag = FALSE
    /\ reg = None
    /\ sink = None
    /\ chan = [h \in Handler |-> << >>]
    /\ dpc = "select"
    /\ cur = NoMsg
    /\ next = 1
    /\ seen = << >>
    /\ toSfu = {}
    /\ lost = {}

HandlerStep(h) ==
    \/ Admit(h)
    \/ Register(h)
    \/ Announce(h)
    \/ Forward(h)
    \/ HangUp(h)
    \/ SenderGone(h)
    \/ Leave(h)

Dispatch ==
    \/ TakeRegistration
    \/ TakeSfuCommand
    \/ TakeMessage
    \/ SendToBridge
    \/ FallBack
    \/ Post

Next == Dispatch \/ \E h \in Handler : HandlerStep(h)

Spec == Init /\ [][Next]_vars

(* Tasks are polled.  select! tries its ready branches in random order, so *)
(* a branch that is ready again and again is taken: SF for the two         *)
(* branches of the dispatcher and of the loop.  The one place in the       *)
(* registration channel is given in FIFO order.  That Laravel reads its    *)
(* socket and answers a POST is assumed; that a socket closes is not.      *)
Fairness ==
    /\ SF_vars(TakeRegistration)
    /\ SF_vars(TakeMessage \/ TakeSfuCommand)
    /\ WF_vars(SendToBridge)
    /\ WF_vars(FallBack)
    /\ WF_vars(Post)
    /\ \A h \in Handler :
          /\ SF_vars(Register(h))
          /\ WF_vars(Announce(h))
          /\ SF_vars(Forward(h))
          /\ SF_vars(SenderGone(h))
          /\ WF_vars(Leave(h))

FairSpec == Spec /\ Fairness

-----------------------------------------------------------------------------
TypeOK ==
    /\ pc \in [Handler -> {"free", "register", "announce", "loop", "leaving"}]
    /\ flag \in BOOLEAN
    /\ reg \in Handler \cup {None}
    /\ sink \in Handler \cup {None}
    /\ chan \in [Handler -> Seq(Msg)]
    /\ dpc \in {"select", "sending", "posting"}
    /\ cur \in Msg \cup {NoMsg}
    /\ next \in 1 .. LastMsg + 1
    /\ seen \in Seq(Msg)
    /\ toSfu \subseteq SfuCommands
    /\ lost \subseteq Msg

(* A set flag is always somebody's, who will clear it: it never outlives   *)
(* the bridge that set it, which would lock every later bridge out.        *)
FlagHasOwner == flag => \E h \in Handler : pc[h] \in {"loop", "leaving"}

(* The messages in a channel are in the order they came and newer than     *)
(* what their bridge wrote; a channel holds no more than its capacity, and *)
(* nothing once its receiver is gone.                                      *)
ChannelsInOrder ==
    \A h \in Handler :
        /\ Len(chan[h]) <= Cap
        /\ chan[h] # << >> => ReceiverOpen(h)
        /\ \A j, k \in 1 .. Len(chan[h]) : j < k => chan[h][j] < chan[h][k]

Live == {h \in Handler : ReceiverOpen(h)}
AtMostOneLive == \A g, h \in Live : g = h

(* As long as two bridges never overlap, Laravel gets the messages in the  *)
(* order they came, whatever becomes of bridges: HTTP and WebSocket        *)
(* deliveries are never out of turn.                                       *)
InOrderWhileSingle ==
    []AtMostOneLive =>
        [](\A j, k \in 1 .. Len(seen) : j < k => seen[j] < seen[k])

-----------------------------------------------------------------------------
(* The dispatcher implements Delivery.                                     *)

InChannel(m) == \E h \in Handler : m \in ToSet(chan[h])

Places == {"waiting", "held", "laravel", "sfu", "lost"}

Where(m) == {f \in Places : CASE f = "waiting" -> m >= next
                              [] f = "held"    -> m = cur \/ InChannel(m)
                              [] f = "laravel" -> Cardinality({j \in DOMAIN seen : seen[j] = m}) = 1
                              [] f = "sfu"     -> m \in toSfu
                              [] f = "lost"    -> m \in lost}

Fate(m) == IF \E f \in Places : Where(m) = {f}
             THEN CHOOSE f \in Places : Where(m) = {f}
             ELSE "astray"

D == INSTANCE Delivery WITH fate <- [m \in Msg |-> Fate(m)]

(* Every message is in one place at any time and ends in one: each is      *)
(* taken in its turn, and none is forgotten on the way, brought back from  *)
(* an end it reached, or handed to Laravel twice, by WebSocket, by HTTP or *)
(* by both, whatever bridges come and go.                                  *)
ImplementsDelivery == D!DeliverySpec

-----------------------------------------------------------------------------
(* A bridge in the registration channel comes to be the one that messages  *)
(* go to, although the select may prefer messages and a send to the bridge *)
(* before it may have to wait.                                             *)
RegistrationTaken ==
    \A h \in Handler : reg = h ~> sink = h

(* Each message the dispatcher takes leaves its hands: it is not stuck on  *)
(* a bridge that stopped taking messages.                                  *)
DispatcherFree == dpc # "select" ~> dpc = "select"

(* A bridge that another one has displaced does not linger: it closes once *)
(* it has written what it was given.                                       *)
DisplacedCloses ==
    \A h \in Handler :
        (pc[h] = "loop" /\ sink # h /\ reg # h) ~> pc[h] # "loop"

-----------------------------------------------------------------------------
(* What comments say, and the code does not do.                            *)

(* bridge/server.rs:71: "Only one bridge at a time".                       *)
OneBridgeAtATime == \A g, h \in Handler :
    pc[g] = "loop" /\ pc[h] = "loop" => g = h
=============================================================================
