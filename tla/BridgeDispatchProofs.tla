------------------------- MODULE BridgeDispatchProofs -------------------------
(***************************************************************************)
(* What TLAPS proves of BridgeDispatch, for every set of sockets, number   *)
(* of messages and capacity: the flag has an owner, channels are in order  *)
(* and die with their receiver, the dispatcher implements Delivery, and    *)
(* Laravel gets messages in order as long as bridges do not overlap.       *)
(***************************************************************************)
EXTENDS BridgeDispatch, SequenceTheorems, FiniteSetTheorems, TLAPS

(* The message in the dispatcher's hands is the newest it took.            *)
InHands ==
    /\ dpc = "select" => cur = NoMsg
    /\ dpc # "select" => cur \in Msg
    /\ dpc = "sending" => sink \in Handler
    /\ cur < next

(* What waits in a channel was taken before it.                            *)
ChannelsOlder ==
    \A h \in Handler : \A j \in 1 .. Len(chan[h]) :
        /\ chan[h][j] < next
        /\ cur # NoMsg => chan[h][j] < cur

Inv == TypeOK /\ FlagHasOwner /\ ChannelsInOrder /\ InHands /\ ChannelsOlder

-----------------------------------------------------------------------------
(* Sequences *)

LEMMA EmptyFacts ==
    /\ \A S : << >> \in Seq(S)
    /\ Len(<< >>) = 0
    /\ ToSet(<< >>) = {}
BY DEF ToSet

LEMMA AppendFacts ==
    ASSUME NEW S, NEW s \in Seq(S), NEW e \in S
    PROVE  /\ Append(s, e) \in Seq(S)
           /\ Append(s, e) # << >>
           /\ Len(s) \in Nat
           /\ Len(Append(s, e)) = Len(s) + 1
           /\ \A j \in 1 .. Len(s) : Append(s, e)[j] = s[j]
           /\ Append(s, e)[Len(s) + 1] = e
           /\ \A j \in 1 .. Len(s) + 1 : j \in 1 .. Len(s) \/ j = Len(s) + 1
BY AppendProperties

LEMMA TailFacts ==
    ASSUME NEW S, NEW s \in Seq(S), s # << >>
    PROVE  /\ Head(s) \in S /\ Head(s) = s[1]
           /\ Tail(s) \in Seq(S)
           /\ Len(s) \in Nat \ {0}
           /\ Len(Tail(s)) = Len(s) - 1
           /\ \A j \in 1 .. Len(s) - 1 : Tail(s)[j] = s[j + 1]
           /\ \A j \in 1 .. Len(s) - 1 : j + 1 \in 1 .. Len(s)
BY HeadTailProperties

LEMMA NoneApart == None \notin Handler
BY BridgeAssumption

-----------------------------------------------------------------------------
LEMMA InitInv == Init => Inv
<1> SUFFICES ASSUME Init PROVE Inv
  OBVIOUS
<1>1. TypeOK
  <2>1. next \in 1 .. LastMsg + 1
    BY BridgeAssumption DEF Init
  <2>2. chan \in [Handler -> Seq(Msg)] /\ seen \in Seq(Msg)
    BY EmptyFacts DEF Init
  <2> QED
    BY <2>1, <2>2 DEF Init, TypeOK
<1>2. \A h \in Handler : chan[h] = << >>
  BY DEF Init
<1>3. ChannelsInOrder /\ ChannelsOlder
  BY <1>2, BridgeAssumption, EmptyFacts DEF ChannelsInOrder, ChannelsOlder
<1> QED
  BY <1>1, <1>3 DEF Init, Inv, FlagHasOwner, InHands, NoMsg

(* A message leaves the head of a channel.                                 *)
LEMMA ForwardKeeps ==
    ASSUME Inv, NEW h \in Handler, Forward(h)
    PROVE  Inv'
<1> DEFINE c == chan[h]
<1>1. chan \in [Handler -> Seq(Msg)] /\ c \in Seq(Msg) /\ c # << >> /\ seen \in Seq(Msg)
  BY DEF Inv, TypeOK, Forward
<1>2. /\ Head(c) \in Msg /\ Tail(c) \in Seq(Msg) /\ Len(c) \in Nat \ {0}
      /\ Len(Tail(c)) = Len(c) - 1
      /\ \A j \in 1 .. Len(c) - 1 : Tail(c)[j] = c[j + 1] /\ j + 1 \in 1 .. Len(c)
  BY <1>1, TailFacts
<1>3. /\ chan' = [chan EXCEPT ![h] = Tail(c)]
      /\ seen' = Append(seen, Head(c))
      /\ UNCHANGED <<pc, flag, reg, sink, dpc, cur, next, toSfu, lost>>
      /\ pc[h] = "loop"
  BY DEF Forward, dispatcherVars
<1>4. chan'[h] = Tail(c) /\ \A g \in Handler \ {h} : chan'[g] = chan[g]
  BY <1>1, <1>3
<1>5. seen' \in Seq(Msg) /\ chan' \in [Handler -> Seq(Msg)]
  BY <1>1, <1>2, <1>3, AppendFacts
<1>6. TypeOK' /\ FlagHasOwner' /\ InHands'
  BY <1>3, <1>5 DEF Inv, TypeOK, FlagHasOwner, InHands
<1>7. ChannelsInOrder' /\ ChannelsOlder'
  <2>1. ASSUME NEW g \in Handler
        PROVE  /\ Len(chan'[g]) <= Cap
               /\ chan'[g] # << >> => ReceiverOpen(g)'
               /\ \A j, k \in 1 .. Len(chan'[g]) : j < k => chan'[g][j] < chan'[g][k]
               /\ \A j \in 1 .. Len(chan'[g]) :
                     chan'[g][j] < next' /\ (cur' # NoMsg => chan'[g][j] < cur')
    <3>1. CASE g # h
      BY <1>3, <1>4, <3>1 DEF Inv, ChannelsInOrder, ChannelsOlder, ReceiverOpen
    <3>2. CASE g = h
      <4>1. /\ Len(c) <= Cap
            /\ \A j, k \in 1 .. Len(c) : j < k => c[j] < c[k]
            /\ \A j \in 1 .. Len(c) : c[j] < next /\ (cur # NoMsg => c[j] < cur)
        BY DEF Inv, ChannelsInOrder, ChannelsOlder
      <4> HIDE DEF c
      <4>2. Len(Tail(c)) <= Cap
        BY <1>2, <4>1, BridgeAssumption
      <4>3. \A j, k \in 1 .. Len(Tail(c)) : j < k => Tail(c)[j] < Tail(c)[k]
        BY <1>2, <4>1
      <4>4. \A j \in 1 .. Len(Tail(c)) : Tail(c)[j] < next /\ (cur # NoMsg => Tail(c)[j] < cur)
        BY <1>2, <4>1
      <4>5. ReceiverOpen(h)'
        BY <1>3 DEF ReceiverOpen
      <4>6. chan'[g] = Tail(c) /\ next' = next /\ cur' = cur
        BY <1>3, <1>4, <3>2
      <4> QED
        BY <3>2, <4>2, <4>3, <4>4, <4>5, <4>6, Zenon
    <3> QED
      BY <3>1, <3>2
  <2>2. ChannelsInOrder'
    BY <2>1, Zenon DEF ChannelsInOrder
  <2> QED
    BY <2>1, <2>2 DEF ChannelsOlder
<1> QED
  BY <1>6, <1>7 DEF Inv

(* Steps that touch no channel keep them in order as long as no receiver   *)
(* of a channel with messages goes.                                        *)
LEMMA ChannelsKept ==
    ASSUME Inv, UNCHANGED chan,
           \A h \in Handler : chan[h] # << >> /\ ReceiverOpen(h) => ReceiverOpen(h)'
    PROVE  ChannelsInOrder'
BY Zenon DEF Inv, ChannelsInOrder

(* The steps of a handler other than writing what its channel holds.       *)
LEMMA HandlerKeeps ==
    ASSUME Inv, NEW h \in Handler,
           \/ Admit(h) \/ Register(h) \/ Announce(h)
           \/ HangUp(h) \/ SenderGone(h) \/ Leave(h)
    PROVE  Inv'
<1>1. pc \in [Handler -> {"free", "register", "announce", "loop", "leaving"}]
  BY DEF Inv, TypeOK
<1>2. /\ UNCHANGED <<sink, dpc, cur, next>>
      /\ InHands'
  BY DEF Admit, Register, Announce, HangUp, SenderGone, Leave, dispatcherVars, Inv, InHands
<1>3. CASE Admit(h)
  <2>1. TypeOK' /\ FlagHasOwner'
    BY <1>1, <1>3 DEF Admit, dispatcherVars, fateVars, Inv, TypeOK, FlagHasOwner
  <2>2. ChannelsInOrder' /\ ChannelsOlder'
    BY <1>1, <1>3, ChannelsKept DEF Admit, dispatcherVars, Inv, ChannelsOlder, ReceiverOpen
  <2> QED
    BY <1>2, <2>1, <2>2 DEF Inv
<1>4. CASE Register(h)
  <2>1. TypeOK' /\ FlagHasOwner'
    BY <1>1, <1>4 DEF Register, dispatcherVars, fateVars, Inv, TypeOK, FlagHasOwner
  <2>2. ChannelsInOrder' /\ ChannelsOlder'
    BY <1>1, <1>4, ChannelsKept DEF Register, dispatcherVars, Inv, ChannelsOlder, ReceiverOpen
  <2> QED
    BY <1>2, <2>1, <2>2 DEF Inv
<1>5. CASE Announce(h)
  <2>1. TypeOK' /\ FlagHasOwner'
    BY <1>1, <1>5 DEF Announce, dispatcherVars, fateVars, Inv, TypeOK, FlagHasOwner
  <2>2. ChannelsInOrder' /\ ChannelsOlder'
    BY <1>1, <1>5, ChannelsKept DEF Announce, dispatcherVars, Inv, ChannelsOlder, ReceiverOpen
  <2> QED
    BY <1>2, <2>1, <2>2 DEF Inv
<1>6. CASE HangUp(h)
  <2>1. /\ chan' = [chan EXCEPT ![h] = << >>]
        /\ pc' = [pc EXCEPT ![h] = "leaving"]
        /\ lost' = lost \cup ToSet(chan[h])
        /\ UNCHANGED <<flag, reg, sink, dpc, cur, next, seen, toSfu>>
    BY <1>6 DEF HangUp, dispatcherVars
  <2>2. chan \in [Handler -> Seq(Msg)] /\ lost \subseteq Msg
    BY DEF Inv, TypeOK
  <2>3. ToSet(chan[h]) \subseteq Msg
    BY <2>2 DEF ToSet
  <2>4. chan' \in [Handler -> Seq(Msg)]
    BY <2>1, <2>2, EmptyFacts
  <2>5. TypeOK'
    BY <1>1, <2>1, <2>2, <2>3, <2>4 DEF Inv, TypeOK
  <2>6. FlagHasOwner'
    BY <1>1, <2>1 DEF Inv, FlagHasOwner
  <2>7. chan'[h] = << >> /\ \A g \in Handler \ {h} : chan'[g] = chan[g] /\ pc'[g] = pc[g]
    BY <1>1, <2>1, <2>2
  <2>8. ASSUME NEW g \in Handler
        PROVE  /\ Len(chan'[g]) <= Cap
               /\ chan'[g] # << >> => ReceiverOpen(g)'
               /\ \A j, k \in 1 .. Len(chan'[g]) : j < k => chan'[g][j] < chan'[g][k]
               /\ \A j \in 1 .. Len(chan'[g]) :
                     chan'[g][j] < next' /\ (cur' # NoMsg => chan'[g][j] < cur')
    <3>1. CASE g = h
      BY <2>7, <3>1, BridgeAssumption, EmptyFacts
    <3>2. CASE g # h
      <4>1. chan'[g] = chan[g] /\ (ReceiverOpen(g)' <=> ReceiverOpen(g))
        BY <2>7, <3>2 DEF ReceiverOpen
      <4> QED
        BY <2>1, <4>1 DEF Inv, ChannelsInOrder, ChannelsOlder
    <3> QED
      BY <3>1, <3>2
  <2>9. ChannelsInOrder'
    BY <2>8, Zenon DEF ChannelsInOrder
  <2>10. ChannelsOlder'
    BY <2>8 DEF ChannelsOlder
  <2> QED
    BY <1>2, <2>5, <2>6, <2>9, <2>10 DEF Inv
<1>7. CASE SenderGone(h)
  <2>1. TypeOK' /\ FlagHasOwner'
    BY <1>1, <1>7 DEF SenderGone, dispatcherVars, fateVars, Inv, TypeOK, FlagHasOwner
  <2>2. ChannelsInOrder' /\ ChannelsOlder'
    BY <1>1, <1>7, ChannelsKept DEF SenderGone, dispatcherVars, Inv, ChannelsOlder, ReceiverOpen
  <2> QED
    BY <1>2, <2>1, <2>2 DEF Inv
<1>8. CASE Leave(h)
  <2>1. TypeOK' /\ FlagHasOwner'
    BY <1>1, <1>8 DEF Leave, dispatcherVars, fateVars, Inv, TypeOK, FlagHasOwner
  <2>2. ChannelsInOrder' /\ ChannelsOlder'
    BY <1>1, <1>8, ChannelsKept DEF Leave, dispatcherVars, Inv, ChannelsOlder, ReceiverOpen
  <2> QED
    BY <1>2, <2>1, <2>2 DEF Inv
<1> QED
  BY <1>3, <1>4, <1>5, <1>6, <1>7, <1>8

-----------------------------------------------------------------------------
(* A message goes into the channel of the bridge.                          *)
LEMMA SendKeeps ==
    ASSUME Inv, SendToBridge
    PROVE  Inv'
<1> DEFINE c == chan[sink]
<1>1. /\ sink \in Handler /\ cur \in Msg /\ cur # NoMsg
      /\ chan \in [Handler -> Seq(Msg)] /\ c \in Seq(Msg)
  BY DEF Inv, TypeOK, InHands, SendToBridge, Msg, NoMsg
<1>2. /\ chan' = [chan EXCEPT ![sink] = Append(c, cur)]
      /\ dpc' = "select" /\ cur' = NoMsg
      /\ UNCHANGED <<pc, flag, reg, sink, next, seen, toSfu, lost>>
      /\ ReceiverOpen(sink) /\ Len(c) < Cap
  BY DEF SendToBridge, fateVars
<1>3. chan'[sink] = Append(c, cur) /\ \A g \in Handler \ {sink} : chan'[g] = chan[g]
  BY <1>1, <1>2
<1>4. /\ Append(c, cur) \in Seq(Msg) /\ Len(c) \in Nat
      /\ Len(Append(c, cur)) = Len(c) + 1
      /\ \A j \in 1 .. Len(c) : Append(c, cur)[j] = c[j]
      /\ Append(c, cur)[Len(c) + 1] = cur
      /\ \A j \in 1 .. Len(c) + 1 : j \in 1 .. Len(c) \/ j = Len(c) + 1
  BY <1>1, AppendFacts
<1>5. TypeOK' /\ FlagHasOwner' /\ InHands'
  <2>1. chan' \in [Handler -> Seq(Msg)]
    BY <1>1, <1>2, <1>4
  <2>2. next \in Nat /\ 0 < next
    BY BridgeAssumption DEF Inv, TypeOK
  <2> QED
    BY <1>2, <2>1, <2>2 DEF Inv, TypeOK, FlagHasOwner, InHands, NoMsg
<1>6. ASSUME NEW g \in Handler
      PROVE  /\ Len(chan'[g]) <= Cap
             /\ chan'[g] # << >> => ReceiverOpen(g)'
             /\ \A j, k \in 1 .. Len(chan'[g]) : j < k => chan'[g][j] < chan'[g][k]
             /\ \A j \in 1 .. Len(chan'[g]) :
                   chan'[g][j] < next' /\ (cur' # NoMsg => chan'[g][j] < cur')
  <2>1. ReceiverOpen(g)' <=> ReceiverOpen(g)
    BY <1>2 DEF ReceiverOpen
  <2>2. CASE g # sink
    BY <1>2, <1>3, <2>1, <2>2 DEF Inv, ChannelsInOrder, ChannelsOlder
  <2>3. CASE g = sink
    <3> DEFINE a == Append(c, cur)
    <3>1. /\ \A j, k \in 1 .. Len(c) : j < k => c[j] < c[k]
          /\ \A j \in 1 .. Len(c) : c[j] < cur
          /\ cur < next /\ next \in Nat
      BY <1>1, BridgeAssumption DEF Inv, ChannelsInOrder, ChannelsOlder, InHands, TypeOK
    <3>2. \A j \in 1 .. Len(c) : c[j] \in Nat
      <4>1. \A j \in 1 .. Len(c) : c[j] \in Msg
        BY <1>1, ElementOfSeq, Zenon
      <4> QED
        BY <4>1, BridgeAssumption DEF Msg
    <3>3. cur \in Nat
      BY <1>1 DEF Msg
    <3> HIDE DEF c
    <3>4. Len(a) <= Cap
      BY <1>2, <1>4, BridgeAssumption
    <3>5. \A j, k \in 1 .. Len(c) + 1 : j < k => a[j] < a[k]
      <4> SUFFICES ASSUME NEW j \in 1 .. Len(c) + 1, NEW k \in 1 .. Len(c) + 1, j < k
                   PROVE  a[j] < a[k]
        OBVIOUS
      <4>1. j \in 1 .. Len(c)
        BY <1>4
      <4>2. CASE k \in 1 .. Len(c)
        BY <1>4, <3>1, <4>1, <4>2
      <4>3. CASE k = Len(c) + 1
        BY <1>4, <3>1, <4>1, <4>3
      <4> QED
        BY <1>4, <4>2, <4>3
    <3>6. \A j \in 1 .. Len(c) + 1 : a[j] < next
      BY <1>4, <3>1, <3>2, <3>3
    <3>7. Len(a) = Len(c) + 1 /\ chan'[g] = a /\ next' = next /\ cur' = NoMsg /\ ReceiverOpen(g)'
      BY <1>2, <1>3, <1>4, <2>1, <2>3
    <3> HIDE DEF a
    <3> QED
      BY <3>4, <3>5, <3>6, <3>7
  <2> QED
    BY <2>2, <2>3
<1>7. ChannelsInOrder'
  BY <1>6, Zenon DEF ChannelsInOrder
<1>8. ChannelsOlder'
  BY <1>6 DEF ChannelsOlder
<1> QED
  BY <1>5, <1>7, <1>8 DEF Inv

(* The steps of the dispatcher that touch no channel.                      *)
LEMMA DispatcherKeeps ==
    ASSUME Inv, TakeRegistration \/ TakeSfuCommand \/ TakeMessage \/ FallBack \/ Post
    PROVE  Inv'
<1>1. /\ chan \in [Handler -> Seq(Msg)] /\ chan' = chan /\ pc' = pc
      /\ next \in Nat /\ 0 < next /\ LastMsg \in Nat
      /\ \A h \in Handler : ReceiverOpen(h)' <=> ReceiverOpen(h)
  BY BridgeAssumption
     DEF Inv, TypeOK, TakeRegistration, TakeSfuCommand, TakeMessage, FallBack, Post,
         handlerVars, ReceiverOpen
<1>2. FlagHasOwner' /\ ChannelsInOrder'
  <2>1. flag' => flag
    BY DEF TakeRegistration, TakeSfuCommand, TakeMessage, FallBack, Post
  <2> QED
    BY <1>1, <2>1, ChannelsKept DEF Inv, FlagHasOwner
<1>3. \A h \in Handler : \A j \in 1 .. Len(chan[h]) : chan[h][j] \in Nat
  <2>1. \A h \in Handler : \A j \in 1 .. Len(chan[h]) : chan[h][j] \in Msg
    BY <1>1, ElementOfSeq, Zenon
  <2> QED
    BY <2>1, BridgeAssumption DEF Msg
<1>4. CASE TakeRegistration
  <2>1. TypeOK' /\ InHands'
    BY <1>4 DEF TakeRegistration, handlerVars, fateVars, Inv, TypeOK, InHands
  <2>2. ChannelsOlder'
    BY <1>4 DEF TakeRegistration, handlerVars, Inv, ChannelsOlder
  <2> QED
    BY <1>2, <2>1, <2>2 DEF Inv
<1>5. CASE TakeSfuCommand
  <2>1. /\ next \in SfuCommands /\ next \in Msg /\ next' = next + 1
        /\ toSfu' \subseteq toSfu \cup {next} /\ lost' \subseteq lost \cup {next}
        /\ dpc' = dpc /\ cur' = cur /\ dpc = "select"
        /\ UNCHANGED <<flag, reg, sink, seen>>
    BY <1>5, BridgeAssumption DEF TakeSfuCommand, Msg
  <2>2. next' \in 1 .. LastMsg + 1
    BY <1>1, <2>1 DEF Msg
  <2>3. TypeOK'
    BY <1>1, <2>1, <2>2 DEF Inv, TypeOK
  <2>4. InHands'
    BY <1>1, <2>1 DEF Inv, InHands, NoMsg
  <2>5. ChannelsOlder'
    BY <1>1, <1>3, <1>5 DEF TakeSfuCommand, handlerVars, Inv, ChannelsOlder
  <2> QED
    BY <1>2, <2>3, <2>4, <2>5 DEF Inv
<1>6. CASE TakeMessage
  <2>1. TypeOK' /\ InHands'
    BY <1>1, <1>6, BridgeAssumption
       DEF TakeMessage, handlerVars, fateVars, Inv, TypeOK, InHands, Msg, NoMsg
  <2>2. ChannelsOlder'
    BY <1>1, <1>3, <1>6 DEF TakeMessage, handlerVars, Inv, ChannelsOlder
  <2> QED
    BY <1>2, <2>1, <2>2 DEF Inv
<1>7. CASE FallBack
  <2>1. TypeOK' /\ InHands'
    BY <1>7 DEF FallBack, handlerVars, fateVars, Inv, TypeOK, InHands
  <2>2. ChannelsOlder'
    BY <1>7 DEF FallBack, handlerVars, Inv, ChannelsOlder
  <2> QED
    BY <1>2, <2>1, <2>2 DEF Inv
<1>8. CASE Post
  <2>1. cur \in Msg /\ dpc' = "select" /\ cur' = NoMsg
        /\ UNCHANGED <<pc, chan, flag, reg, sink, next, toSfu>>
    BY <1>8 DEF Post, handlerVars, Inv, InHands
  <2>2. seen' \in Seq(Msg) /\ lost' \subseteq Msg
    <3>1. seen \in Seq(Msg) /\ lost \subseteq Msg
      BY DEF Inv, TypeOK
    <3>2. Append(seen, cur) \in Seq(Msg)
      BY <2>1, <3>1, AppendFacts
    <3> QED
      BY <1>8, <2>1, <3>1, <3>2 DEF Post
  <2>3. TypeOK' /\ InHands'
    BY <1>1, <2>1, <2>2 DEF Inv, TypeOK, InHands, NoMsg
  <2>4. ChannelsOlder'
    BY <2>1 DEF Inv, ChannelsOlder
  <2> QED
    BY <1>2, <2>3, <2>4 DEF Inv
<1> QED
  BY <1>4, <1>5, <1>6, <1>7, <1>8

LEMMA InvStep == Inv /\ [Next]_vars => Inv'
<1> SUFFICES ASSUME Inv, [Next]_vars PROVE Inv'
  OBVIOUS
<1>1. CASE UNCHANGED vars
  <2>1. TypeOK' /\ FlagHasOwner' /\ InHands'
    BY <1>1 DEF vars, Inv, TypeOK, FlagHasOwner, InHands
  <2>2. ChannelsInOrder' /\ ChannelsOlder'
    BY <1>1, ChannelsKept DEF vars, Inv, ChannelsOlder, ReceiverOpen
  <2> QED
    BY <2>1, <2>2 DEF Inv
<1>2. CASE Dispatch
  BY <1>2, SendKeeps, DispatcherKeeps DEF Dispatch
<1>3. ASSUME NEW h \in Handler, HandlerStep(h) PROVE Inv'
  BY <1>3, ForwardKeeps, HandlerKeeps DEF HandlerStep
<1> QED
  BY <1>1, <1>2, <1>3 DEF Next

(* The inductive invariant: types, the flag's owner and the channels, and  *)
(* that what is in hand or in a channel was taken from the peers before.   *)
THEOREM Invariance == Spec => []Inv
BY InitInv, InvStep, PTL DEF Spec

-----------------------------------------------------------------------------
(* Every variable keeps its range: the dispatcher takes no message twice   *)
(* and what it hands to the SFU are the SFU's commands.                    *)
THEOREM TypeCorrect == Spec => []TypeOK
<1>1. Inv => TypeOK
  BY DEF Inv
<1> QED
  BY <1>1, Invariance, PTL

(* ws_bridge_connected is set only while a bridge runs that will clear it. *)
THEOREM FlagOwned == Spec => []FlagHasOwner
<1>1. Inv => FlagHasOwner
  BY DEF Inv
<1> QED
  BY <1>1, Invariance, PTL

(* A bridge's channel keeps the order of the messages and its capacity,    *)
(* and holds nothing once its receiver is dropped.                         *)
THEOREM ChannelsOrdered == Spec => []ChannelsInOrder
<1>1. Inv => ChannelsInOrder
  BY DEF Inv
<1> QED
  BY <1>1, Invariance, PTL

-----------------------------------------------------------------------------
(* The dispatcher implements Delivery.                                     *)

(* Message m is in place f, as Where has it but for Laravel's count.       *)
At(m, f) ==
    \/ f = "waiting" /\ m >= next
    \/ f = "held"    /\ (m = cur \/ InChannel(m))
    \/ f = "laravel" /\ m \in ToSet(seen)
    \/ f = "sfu"     /\ m \in toSfu
    \/ f = "lost"    /\ m \in lost

OnePlace == \A m \in Msg : \E f \in Places : \A g \in Places : At(m, g) <=> g = f

SeenOnce == \A j, k \in 1 .. Len(seen) : seen[j] = seen[k] => j = k

ChannelsApart == \A g, h \in Handler : g # h => ToSet(chan[g]) \cap ToSet(chan[h]) = {}

PlaceInv == Inv /\ OnePlace /\ SeenOnce /\ ChannelsApart

(* The messages of ms, and no other ones, go to place f.                   *)
Moves(ms, f) ==
    \A m \in Msg, g \in Places : At(m, g)' <=> IF m \in ms THEN g = f ELSE At(m, g)

(* The moves that Delivery allows.                                         *)
Legal(ms, f) ==
    \/ ms = {next} /\ f \in {"held", "sfu", "lost"}
    \/ f = "laravel" /\ \E m \in ms : ms = {m} /\ At(m, "held")
    \/ f = "lost" /\ \A m \in ms : At(m, "held")

LEMMA AppendSet ==
    ASSUME NEW S, NEW s \in Seq(S), NEW e \in S
    PROVE  ToSet(Append(s, e)) = ToSet(s) \cup {e}
<1>1. /\ Append(s, e) \in Seq(S) /\ Len(s) \in Nat
      /\ Len(Append(s, e)) = Len(s) + 1
      /\ \A j \in 1 .. Len(s) : Append(s, e)[j] = s[j]
      /\ Append(s, e)[Len(s) + 1] = e
      /\ \A j \in 1 .. Len(s) + 1 : j \in 1 .. Len(s) \/ j = Len(s) + 1
  BY AppendFacts
<1>2. DOMAIN s = 1 .. Len(s) /\ DOMAIN Append(s, e) = 1 .. Len(s) + 1
  BY <1>1, LenProperties
<1>3. Len(s) + 1 \in 1 .. Len(s) + 1 /\ \A j \in 1 .. Len(s) : j \in 1 .. Len(s) + 1
  BY <1>1
<1> QED
  BY <1>1, <1>2, <1>3, Zenon DEF ToSet

LEMMA AppendOnce ==
    ASSUME NEW S, NEW s \in Seq(S), NEW e \in S \ ToSet(s),
           \A j, k \in 1 .. Len(s) : s[j] = s[k] => j = k
    PROVE  \A j, k \in 1 .. Len(Append(s, e)) :
              Append(s, e)[j] = Append(s, e)[k] => j = k
<1>1. /\ Len(Append(s, e)) = Len(s) + 1
      /\ \A j \in 1 .. Len(s) : Append(s, e)[j] = s[j]
      /\ Append(s, e)[Len(s) + 1] = e
      /\ \A j \in 1 .. Len(s) + 1 : j \in 1 .. Len(s) \/ j = Len(s) + 1
  BY AppendFacts
<1>2. \A j \in 1 .. Len(s) : s[j] # e
  BY LenProperties DEF ToSet
<1> QED
  BY <1>1, <1>2, Zenon

(* Without its head an ordered sequence has its other elements.            *)
LEMMA TailSet ==
    ASSUME NEW s \in Seq(Msg), s # << >>,
           \A j, k \in 1 .. Len(s) : j < k => s[j] < s[k]
    PROVE  Head(s) \in ToSet(s) /\ ToSet(Tail(s)) = ToSet(s) \ {Head(s)}
<1>1. /\ Head(s) \in Msg /\ Head(s) = s[1]
      /\ Tail(s) \in Seq(Msg) /\ Len(s) \in Nat \ {0}
      /\ Len(Tail(s)) = Len(s) - 1
      /\ \A j \in 1 .. Len(s) - 1 : Tail(s)[j] = s[j + 1] /\ j + 1 \in 1 .. Len(s)
  BY TailFacts
<1>2. DOMAIN s = 1 .. Len(s) /\ DOMAIN Tail(s) = 1 .. Len(s) - 1
  BY <1>1, LenProperties
<1>3. \A j \in 1 .. Len(s) : s[j] \in Nat
  <2>1. \A j \in 1 .. Len(s) : s[j] \in Msg
    BY ElementOfSeq, Zenon
  <2> QED
    BY <2>1, BridgeAssumption DEF Msg
<1>4. 1 \in 1 .. Len(s)
  BY <1>1
<1>5. \A j \in 1 .. Len(s) - 1 : s[j + 1] # s[1]
  <2> SUFFICES ASSUME NEW j \in 1 .. Len(s) - 1 PROVE s[j + 1] # s[1]
    OBVIOUS
  <2>1. j + 1 \in 1 .. Len(s) /\ 1 < j + 1
    BY <1>1
  <2>2. s[1] < s[j + 1]
    BY <1>4, <2>1
  <2> QED
    BY <1>3, <1>4, <2>1, <2>2
<1>6. \A k \in 1 .. Len(s) : k = 1 \/ \E j \in 1 .. Len(s) - 1 : k = j + 1
  <2> SUFFICES ASSUME NEW k \in 1 .. Len(s), k # 1
               PROVE  \E j \in 1 .. Len(s) - 1 : k = j + 1
    OBVIOUS
  <2>1. k - 1 \in 1 .. Len(s) - 1 /\ k = (k - 1) + 1
    BY <1>1
  <2> QED
    BY <2>1
<1>7. ToSet(Tail(s)) \subseteq ToSet(s) \ {s[1]}
  <2> SUFFICES ASSUME NEW j \in 1 .. Len(s) - 1
               PROVE  Tail(s)[j] \in ToSet(s) /\ Tail(s)[j] # s[1]
    BY <1>2, Zenon DEF ToSet
  <2>1. Tail(s)[j] = s[j + 1] /\ j + 1 \in 1 .. Len(s)
    BY <1>1, Zenon
  <2> QED
    BY <1>2, <1>5, <2>1, Zenon DEF ToSet
<1>8. ToSet(s) \ {s[1]} \subseteq ToSet(Tail(s))
  <2> SUFFICES ASSUME NEW k \in 1 .. Len(s), s[k] # s[1]
               PROVE  s[k] \in ToSet(Tail(s))
    BY <1>2, Zenon DEF ToSet
  <2>1. PICK j \in 1 .. Len(s) - 1 : k = j + 1
    BY <1>6, Zenon
  <2>2. s[k] = Tail(s)[j]
    BY <1>1, <2>1
  <2> QED
    BY <1>2, <2>2, Zenon DEF ToSet
<1> QED
  BY <1>1, <1>2, <1>4, <1>7, <1>8, Zenon DEF ToSet

(* Where a message is, is what Fate says.                                  *)
LEMMA WhereIsAt ==
    PlaceInv => \A m \in Msg, f \in Places : f \in Where(m) <=> At(m, f)
<1> SUFFICES ASSUME PlaceInv, NEW m \in Msg, NEW f \in Places
             PROVE  f \in Where(m) <=> At(m, f)
  OBVIOUS
<1> DEFINE js == {j \in DOMAIN seen : seen[j] = m}
<1>1. Cardinality(js) = 1 <=> m \in ToSet(seen)
  <2>1. DOMAIN seen = 1 .. Len(seen)
    BY LenProperties DEF PlaceInv, Inv, TypeOK
  <2>2. CASE m \in ToSet(seen)
    <3>1. PICK j \in DOMAIN seen : seen[j] = m
      BY <2>2 DEF ToSet
    <3>2. js = {j}
      BY <2>1, <3>1 DEF PlaceInv, SeenOnce
    <3> QED
      BY <2>2, <3>2, FS_Singleton
  <2>3. CASE m \notin ToSet(seen)
    <3>1. js = {}
      BY <2>3 DEF ToSet
    <3> QED
      BY <2>3, <3>1, FS_EmptySet
  <2> QED
    BY <2>2, <2>3
<1> HIDE DEF js
<1>2. CASE f = "waiting"
  BY <1>2 DEF Where, At
<1>3. CASE f = "held"
  BY <1>3 DEF Where, At
<1>4. CASE f = "laravel"
  <2>1. f \in Where(m) <=> Cardinality(js) = 1
    BY <1>4 DEF Where, js
  <2> QED
    BY <1>1, <1>4, <2>1 DEF At
<1>5. CASE f = "sfu"
  BY <1>5 DEF Where, At
<1>6. CASE f = "lost"
  BY <1>6 DEF Where, At
<1> QED
  BY <1>2, <1>3, <1>4, <1>5, <1>6 DEF Places

FateTold ==
    \A m \in Msg : /\ Fate(m) \in Places
                   /\ \A f \in Places : Fate(m) = f <=> At(m, f)

LEMMA FateIsAt == PlaceInv => FateTold
<1> SUFFICES ASSUME PlaceInv, NEW m \in Msg
             PROVE  Fate(m) \in Places /\ \A f \in Places : Fate(m) = f <=> At(m, f)
  BY DEF FateTold
<1>1. PICK f \in Places : \A g \in Places : At(m, g) <=> g = f
  BY DEF PlaceInv, OnePlace
<1>2. \A g \in Places : Where(m) = {g} <=> g = f
  <2>1. Where(m) \subseteq Places
    BY DEF Where
  <2> QED
    BY <1>1, <2>1, WhereIsAt
<1>3. Fate(m) = f
  BY <1>2 DEF Fate
<1> QED
  BY <1>1, <1>3

LEMMA InitPlaces == Init => PlaceInv
<1> SUFFICES ASSUME Init PROVE PlaceInv
  OBVIOUS
<1>1. Inv
  BY InitInv
<1>2. seen = << >> /\ \A h \in Handler : ToSet(chan[h]) = {}
  BY EmptyFacts DEF Init
<1>3. SeenOnce /\ ChannelsApart
  BY <1>2, EmptyFacts DEF SeenOnce, ChannelsApart
<1>4. ASSUME NEW m \in Msg
      PROVE  \A g \in Places : At(m, g) <=> g = "waiting"
  <2>1. m >= next /\ m # cur
    BY BridgeAssumption DEF Init, Msg, NoMsg
  <2>2. ~InChannel(m) /\ m \notin ToSet(seen) /\ m \notin toSfu /\ m \notin lost
    BY <1>2, EmptyFacts DEF Init, InChannel
  <2> QED
    BY <2>1, <2>2 DEF At, Places
<1>5. OnePlace
  BY <1>4 DEF OnePlace, Places
<1> QED
  BY <1>1, <1>3, <1>5 DEF PlaceInv

(* Messages that stay where they are.                                      *)
LEMMA StayPut ==
    ASSUME PlaceInv, UNCHANGED <<chan, cur, next, seen, toSfu, lost>>
    PROVE  Moves({}, "lost") /\ SeenOnce' /\ ChannelsApart'
<1>1. \A m \in Msg : InChannel(m)' <=> InChannel(m)
  BY DEF InChannel
<1>2. Moves({}, "lost")
  BY <1>1 DEF Moves, At
<1> QED
  BY <1>2 DEF PlaceInv, SeenOnce, ChannelsApart

LEMMA ForwardMoves ==
    ASSUME PlaceInv, NEW h \in Handler, Forward(h)
    PROVE  /\ SeenOnce' /\ ChannelsApart'
           /\ \E m \in Msg : At(m, "held") /\ Moves({m}, "laravel")
<1> DEFINE c == chan[h]
           m == Head(c)
<1>1. /\ chan \in [Handler -> Seq(Msg)] /\ c \in Seq(Msg) /\ c # << >>
      /\ seen \in Seq(Msg)
      /\ chan' = [chan EXCEPT ![h] = Tail(c)]
      /\ seen' = Append(seen, m)
      /\ UNCHANGED <<cur, next, toSfu, lost>>
  BY DEF PlaceInv, Inv, TypeOK, Forward, dispatcherVars
<1>2. m \in ToSet(c) /\ ToSet(Tail(c)) = ToSet(c) \ {m}
  <2>1. \A j, k \in 1 .. Len(c) : j < k => c[j] < c[k]
    BY DEF PlaceInv, Inv, ChannelsInOrder
  <2> HIDE DEF c
  <2> QED
    BY <1>1, <2>1, TailSet
<1>3. m \in Msg
  BY <1>1, TailFacts
<1>4. m # cur
  <2>1. PICK j \in 1 .. Len(c) : m = c[j]
    BY <1>1, <1>2, LenProperties DEF ToSet
  <2>2. cur # NoMsg => c[j] < cur
    BY DEF PlaceInv, Inv, ChannelsOlder
  <2> QED
    BY <1>3, <2>1, <2>2, BridgeAssumption DEF Msg, NoMsg
<1>5. /\ ToSet(chan'[h]) = ToSet(c) \ {m}
      /\ \A g \in Handler \ {h} : chan'[g] = chan[g] /\ m \notin ToSet(chan[g])
  BY <1>1, <1>2 DEF PlaceInv, ChannelsApart
<1>6. At(m, "held")
  BY <1>2 DEF At, InChannel
<1>7. m \notin ToSet(seen)
  BY <1>3, <1>6 DEF PlaceInv, OnePlace, At, Places
<1> HIDE DEF m
<1>8. ToSet(seen') = ToSet(seen) \cup {m}
  BY <1>1, <1>3, AppendSet
<1>9. SeenOnce'
  <2>1. \A j, k \in 1 .. Len(seen) : seen[j] = seen[k] => j = k
    BY DEF PlaceInv, SeenOnce
  <2>2. m \in Msg \ ToSet(seen)
    BY <1>3, <1>7
  <2>3. \A j, k \in 1 .. Len(Append(seen, m)) : Append(seen, m)[j] = Append(seen, m)[k] => j = k
    BY <1>1, <2>1, <2>2, AppendOnce
  <2> QED
    BY <1>1, <2>3 DEF SeenOnce
<1>10. ChannelsApart'
  BY <1>5 DEF PlaceInv, ChannelsApart
<1>11. \A k \in Msg : InChannel(k)' <=> InChannel(k) /\ k # m
  BY <1>5 DEF InChannel
<1>12. Moves({m}, "laravel")
  <2> SUFFICES ASSUME NEW k \in Msg, NEW g \in Places
               PROVE  At(k, g)' <=> IF k \in {m} THEN g = "laravel" ELSE At(k, g)
    BY DEF Moves
  <2>1. CASE k = m
    <3>1. ~At(k, "waiting") /\ ~At(k, "sfu") /\ ~At(k, "lost")
      BY <1>6, <2>1 DEF PlaceInv, OnePlace, Places
    <3> QED
      BY <1>1, <1>4, <1>8, <1>11, <2>1, <3>1 DEF At, Places
  <2>2. CASE k # m
    BY <1>1, <1>8, <1>11, <2>2 DEF At, Places
  <2> QED
    BY <2>1, <2>2
<1> QED
  BY <1>3, <1>6, <1>9, <1>10, <1>12

LEMMA HangUpMoves ==
    ASSUME PlaceInv, NEW h \in Handler, HangUp(h)
    PROVE  /\ SeenOnce' /\ ChannelsApart'
           /\ \E ms \in SUBSET Msg : (\A m \in ms : At(m, "held")) /\ Moves(ms, "lost")
<1> DEFINE ms == ToSet(chan[h])
<1>1. /\ chan \in [Handler -> Seq(Msg)]
      /\ chan' = [chan EXCEPT ![h] = << >>]
      /\ lost' = lost \cup ms
      /\ UNCHANGED <<cur, next, seen, toSfu>>
  BY DEF PlaceInv, Inv, TypeOK, HangUp, dispatcherVars
<1>2. ms \subseteq Msg
  BY <1>1 DEF ToSet
<1>3. ToSet(chan'[h]) = {} /\ \A g \in Handler \ {h} : chan'[g] = chan[g]
  BY <1>1, EmptyFacts
<1>4. SeenOnce' /\ ChannelsApart'
  BY <1>1, <1>3 DEF PlaceInv, SeenOnce, ChannelsApart
<1>5. \A m \in ms : At(m, "held")
  BY DEF At, InChannel
<1>6. cur \notin ms
  <2> SUFFICES ASSUME cur \in ms PROVE FALSE
    OBVIOUS
  <2>1. PICK j \in 1 .. Len(chan[h]) : cur = chan[h][j]
    BY <1>1, LenProperties DEF ToSet
  <2>2. cur \in Msg /\ (cur # NoMsg => chan[h][j] < cur)
    BY <1>2 DEF PlaceInv, Inv, ChannelsOlder
  <2> QED
    BY <2>1, <2>2, BridgeAssumption DEF Msg, NoMsg
<1>7. \A k \in Msg : InChannel(k)' <=> InChannel(k) /\ k \notin ms
  BY <1>3 DEF InChannel, PlaceInv, ChannelsApart
<1>8. Moves(ms, "lost")
  <2> SUFFICES ASSUME NEW k \in Msg, NEW g \in Places
               PROVE  At(k, g)' <=> IF k \in ms THEN g = "lost" ELSE At(k, g)
    BY DEF Moves
  <2>1. CASE k \in ms
    <3>1. ~At(k, "waiting") /\ ~At(k, "sfu") /\ ~At(k, "laravel")
      BY <1>5, <2>1 DEF PlaceInv, OnePlace, Places
    <3> QED
      BY <1>1, <1>6, <1>7, <2>1, <3>1 DEF At, Places
  <2>2. CASE k \notin ms
    BY <1>1, <1>7, <2>2 DEF At, Places
  <2> QED
    BY <2>1, <2>2
<1> QED
  BY <1>2, <1>4, <1>5, <1>8

(* From the dispatcher's hands into a channel: a message stays held.       *)
LEMMA SendMoves ==
    ASSUME PlaceInv, SendToBridge
    PROVE  SeenOnce' /\ ChannelsApart' /\ Moves({}, "lost")
<1>1. /\ sink \in Handler /\ cur \in Msg
      /\ chan \in [Handler -> Seq(Msg)]
      /\ chan' = [chan EXCEPT ![sink] = Append(@, cur)]
      /\ cur' = NoMsg
      /\ UNCHANGED <<next, seen, toSfu, lost>>
  BY DEF PlaceInv, Inv, TypeOK, InHands, SendToBridge, fateVars
<1>2. /\ ToSet(chan'[sink]) = ToSet(chan[sink]) \cup {cur}
      /\ \A g \in Handler \ {sink} : chan'[g] = chan[g]
  BY <1>1, AppendSet
<1>3. \A h \in Handler : cur \notin ToSet(chan[h])
  <2> SUFFICES ASSUME NEW h \in Handler, cur \in ToSet(chan[h]) PROVE FALSE
    OBVIOUS
  <2>1. PICK j \in 1 .. Len(chan[h]) : cur = chan[h][j]
    BY <1>1, LenProperties DEF ToSet
  <2>2. cur # NoMsg => chan[h][j] < cur
    BY DEF PlaceInv, Inv, ChannelsOlder
  <2> QED
    BY <1>1, <2>1, <2>2, BridgeAssumption DEF Msg, NoMsg
<1>4. ChannelsApart'
  <2> SUFFICES ASSUME NEW g \in Handler, NEW h \in Handler, g # h
               PROVE  ToSet(chan'[g]) \cap ToSet(chan'[h]) = {}
    BY DEF ChannelsApart
  <2>1. ToSet(chan[g]) \cap ToSet(chan[h]) = {}
    BY DEF PlaceInv, ChannelsApart
  <2>2. CASE g = sink
    BY <1>2, <1>3, <2>1, <2>2
  <2>3. CASE h = sink
    BY <1>2, <1>3, <2>1, <2>3
  <2>4. CASE g # sink /\ h # sink
    BY <1>2, <2>1, <2>4
  <2> QED
    BY <2>2, <2>3, <2>4
<1>5. \A k \in Msg : k = cur' \/ InChannel(k)' <=> k = cur \/ InChannel(k)
  <2>1. \A k \in Msg : k # NoMsg
    BY BridgeAssumption DEF Msg, NoMsg
  <2>2. \A k \in Msg : InChannel(k)' <=> InChannel(k) \/ k = cur
    BY <1>1, <1>2 DEF InChannel
  <2> QED
    BY <1>1, <2>1, <2>2
<1>6. Moves({}, "lost")
  BY <1>1, <1>5 DEF Moves, At
<1> QED
  BY <1>1, <1>4, <1>6 DEF PlaceInv, SeenOnce

(* The next message, to the SFU or into the dispatcher's hands.            *)
LEMMA TakeMoves ==
    ASSUME PlaceInv, TakeSfuCommand \/ TakeMessage
    PROVE  /\ SeenOnce' /\ ChannelsApart' /\ next \in Msg
           /\ \E f \in {"held", "sfu", "lost"} : Moves({next}, f)
<1>1. /\ next \in Msg /\ next \in Nat /\ next' = next + 1
      /\ \A k \in Msg : k \in Nat
      /\ UNCHANGED <<chan, seen>>
  <2>1. next \in Msg
    BY BridgeAssumption DEF TakeSfuCommand, TakeMessage, Msg
  <2>2. next' = next + 1 /\ UNCHANGED <<chan, seen>>
    BY DEF TakeSfuCommand, TakeMessage, handlerVars, fateVars
  <2>3. \A k \in Msg : k \in Nat
    BY BridgeAssumption DEF Msg
  <2> QED
    BY <2>1, <2>2, <2>3
<1>2. SeenOnce' /\ ChannelsApart'
  BY <1>1 DEF PlaceInv, SeenOnce, ChannelsApart
<1>3. \A k \in Msg : /\ k >= next' <=> k >= next /\ k # next
                     /\ InChannel(k)' <=> InChannel(k)
  <2>1. \A k \in Msg : k >= next' <=> k >= next /\ k # next
    BY <1>1
  <2> QED
    BY <1>1, <2>1 DEF InChannel
<1>4. At(next, "waiting")
  BY <1>1 DEF At
<1>5. \A g \in Places : At(next, g) <=> g = "waiting"
  BY <1>1, <1>4 DEF PlaceInv, OnePlace, Places
<1>6. next # cur /\ ~InChannel(next) /\ next \notin ToSet(seen)
      /\ next \notin toSfu /\ next \notin lost
  BY <1>5 DEF At, Places
<1>7. CASE TakeSfuCommand /\ toSfu' = toSfu \cup {next} /\ lost' = lost
  <2>1. cur' = cur
    BY <1>7 DEF TakeSfuCommand
  <2>2. Moves({next}, "sfu")
    BY <1>1, <1>3, <1>6, <1>7, <2>1 DEF Moves, At, Places
  <2> QED
    BY <1>1, <1>2, <2>2
<1>8. CASE TakeSfuCommand /\ lost' = lost \cup {next} /\ toSfu' = toSfu
  <2>1. cur' = cur
    BY <1>8 DEF TakeSfuCommand
  <2>2. Moves({next}, "lost")
    BY <1>1, <1>3, <1>6, <1>8, <2>1 DEF Moves, At, Places
  <2> QED
    BY <1>1, <1>2, <2>2
<1>9. CASE TakeMessage
  <2>1. cur = NoMsg /\ cur' = next /\ UNCHANGED <<toSfu, lost>>
    BY <1>9 DEF TakeMessage, fateVars, PlaceInv, Inv, InHands
  <2>2. \A k \in Msg : k # cur
    BY <2>1, BridgeAssumption DEF Msg, NoMsg
  <2>3. Moves({next}, "held")
    BY <1>1, <1>3, <1>6, <2>1, <2>2 DEF Moves, At, Places
  <2> QED
    BY <1>1, <1>2, <2>3
<1> QED
  BY <1>7, <1>8, <1>9 DEF TakeSfuCommand

LEMMA PostMoves ==
    ASSUME PlaceInv, Post
    PROVE  /\ SeenOnce' /\ ChannelsApart'
           /\ cur \in Msg /\ At(cur, "held")
           /\ Moves({cur}, "laravel") \/ Moves({cur}, "lost")
<1>1. /\ cur \in Msg /\ seen \in Seq(Msg) /\ cur' = NoMsg
      /\ UNCHANGED <<chan, next, toSfu>>
  BY DEF Post, handlerVars, PlaceInv, Inv, TypeOK, InHands
<1>2. At(cur, "held")
  BY DEF At
<1>3. \A g \in Places : At(cur, g) <=> g = "held"
  BY <1>1, <1>2 DEF PlaceInv, OnePlace, Places
<1>4. /\ ~(cur >= next) /\ cur \notin ToSet(seen)
      /\ cur \notin toSfu /\ cur \notin lost
  BY <1>3 DEF At, Places
<1>5. \A h \in Handler : cur \notin ToSet(chan[h])
  <2> SUFFICES ASSUME NEW h \in Handler, cur \in ToSet(chan[h]) PROVE FALSE
    OBVIOUS
  <2>1. PICK j \in 1 .. Len(chan[h]) : cur = chan[h][j]
    BY LenProperties DEF ToSet, PlaceInv, Inv, TypeOK
  <2>2. cur # NoMsg => chan[h][j] < cur
    BY DEF PlaceInv, Inv, ChannelsOlder
  <2> QED
    BY <1>1, <2>1, <2>2, BridgeAssumption DEF Msg, NoMsg
<1>6. \A k \in Msg : (k = cur' \/ InChannel(k)') <=> (k = cur \/ InChannel(k)) /\ k # cur
  <2>1. \A k \in Msg : k # NoMsg
    BY BridgeAssumption DEF Msg, NoMsg
  <2> QED
    BY <1>1, <1>5, <2>1 DEF InChannel
<1>7. ChannelsApart'
  BY <1>1 DEF PlaceInv, ChannelsApart
<1>8. CASE seen' = Append(seen, cur) /\ lost' = lost
  <2>1. ToSet(seen') = ToSet(seen) \cup {cur}
    BY <1>1, <1>8, AppendSet
  <2>2. SeenOnce'
    <3>1. \A j, k \in 1 .. Len(seen) : seen[j] = seen[k] => j = k
      BY DEF PlaceInv, SeenOnce
    <3>2. cur \in Msg \ ToSet(seen)
      BY <1>1, <1>4
    <3>3. \A j, k \in 1 .. Len(Append(seen, cur)) :
             Append(seen, cur)[j] = Append(seen, cur)[k] => j = k
      BY <1>1, <3>1, <3>2, AppendOnce
    <3> QED
      BY <1>8, <3>3 DEF SeenOnce
  <2>3. Moves({cur}, "laravel")
    BY <1>1, <1>4, <1>6, <1>8, <2>1 DEF Moves, At, Places
  <2> QED
    BY <1>1, <1>2, <1>7, <2>2, <2>3
<1>9. CASE lost' = lost \cup {cur} /\ seen' = seen
  <2>1. Moves({cur}, "lost")
    BY <1>1, <1>4, <1>6, <1>9 DEF Moves, At, Places
  <2> QED
    BY <1>1, <1>2, <1>7, <1>9, <2>1 DEF PlaceInv, SeenOnce
<1> QED
  BY <1>8, <1>9 DEF Post

(* Every step is a move that Delivery allows.                              *)
LEMMA StepMoves ==
    ASSUME PlaceInv, [Next]_vars
    PROVE  /\ SeenOnce' /\ ChannelsApart'
           /\ \E ms \in SUBSET Msg, f \in Places : Legal(ms, f) /\ Moves(ms, f)
<1> USE DEF Legal
<1>1. ASSUME UNCHANGED <<chan, cur, next, seen, toSfu, lost>>
      PROVE  /\ SeenOnce' /\ ChannelsApart'
             /\ \E ms \in SUBSET Msg, f \in Places : Legal(ms, f) /\ Moves(ms, f)
  BY <1>1, StayPut DEF Places
<1>2. CASE UNCHANGED vars \/ TakeRegistration \/ FallBack
  BY <1>1, <1>2 DEF vars, TakeRegistration, FallBack, handlerVars, fateVars
<1>3. CASE SendToBridge
  BY <1>3, SendMoves DEF Places
<1>4. CASE TakeSfuCommand \/ TakeMessage
  <2>1. /\ SeenOnce' /\ ChannelsApart' /\ next \in Msg
        /\ \E f \in {"held", "sfu", "lost"} : Moves({next}, f)
    BY <1>4, TakeMoves
  <2>2. \A f \in {"held", "sfu", "lost"} : f \in Places
    BY DEF Places
  <2>3. {next} \in SUBSET Msg
    BY <2>1
  <2> QED
    BY <2>1, <2>2, <2>3
<1>5. CASE Post
  <2>1. /\ SeenOnce' /\ ChannelsApart'
        /\ cur \in Msg /\ At(cur, "held")
        /\ Moves({cur}, "laravel") \/ Moves({cur}, "lost")
    BY <1>5, PostMoves
  <2>2. {cur} \in SUBSET Msg /\ "laravel" \in Places /\ "lost" \in Places
    BY <2>1 DEF Places
  <2>3. Legal({cur}, "laravel") /\ Legal({cur}, "lost")
    BY <2>1
  <2> QED
    BY <2>1, <2>2, <2>3, Zenon
<1>6. ASSUME NEW h \in Handler, Forward(h)
      PROVE  /\ SeenOnce' /\ ChannelsApart'
             /\ \E ms \in SUBSET Msg, f \in Places : Legal(ms, f) /\ Moves(ms, f)
  <2>1. PICK m \in Msg : At(m, "held") /\ Moves({m}, "laravel")
    BY <1>6, ForwardMoves
  <2>2. {m} \in SUBSET Msg /\ "laravel" \in Places
    BY DEF Places
  <2>3. Legal({m}, "laravel")
    BY <2>1
  <2> QED
    BY <1>6, <2>1, <2>2, <2>3, ForwardMoves, Zenon
<1>7. ASSUME NEW h \in Handler, HangUp(h)
      PROVE  /\ SeenOnce' /\ ChannelsApart'
             /\ \E ms \in SUBSET Msg, f \in Places : Legal(ms, f) /\ Moves(ms, f)
  BY <1>7, HangUpMoves DEF Places
<1>8. ASSUME NEW h \in Handler,
             Admit(h) \/ Register(h) \/ Announce(h) \/ SenderGone(h) \/ Leave(h)
      PROVE  /\ SeenOnce' /\ ChannelsApart'
             /\ \E ms \in SUBSET Msg, f \in Places : Legal(ms, f) /\ Moves(ms, f)
  BY <1>1, <1>8
     DEF Admit, Register, Announce, SenderGone, Leave, dispatcherVars, fateVars
<1> QED
  BY <1>2, <1>3, <1>4, <1>5, <1>6, <1>7, <1>8 DEF Next, Dispatch, HandlerStep

LEMMA PlaceStep == PlaceInv /\ [Next]_vars => PlaceInv'
<1> SUFFICES ASSUME PlaceInv, [Next]_vars PROVE PlaceInv'
  OBVIOUS
<1>1. Inv'
  BY InvStep DEF PlaceInv
<1>2. PICK ms \in SUBSET Msg, f \in Places : Moves(ms, f)
  BY StepMoves
<1>3. ASSUME NEW m \in Msg
      PROVE  \E g \in Places : \A e \in Places : At(m, e)' <=> e = g
  <2>1. PICK g \in Places : \A e \in Places : At(m, e) <=> e = g
    BY DEF PlaceInv, OnePlace
  <2>2. CASE m \in ms
    BY <1>2, <2>2, Zenon DEF Moves
  <2>3. CASE m \notin ms
    BY <1>2, <2>1, <2>3, Zenon DEF Moves
  <2> QED
    BY <2>2, <2>3
<1>4. OnePlace'
  BY <1>3, Zenon DEF OnePlace
<1> QED
  BY <1>1, <1>4, StepMoves DEF PlaceInv

(* A message is in one place at any time: not yet taken, in hand, in one   *)
(* channel, or at one of its ends.                                         *)
THEOREM Placement == Spec => []PlaceInv
BY InitPlaces, PlaceStep, PTL DEF Spec

-----------------------------------------------------------------------------
(* The refinement mapping.                                                 *)
fateNow == [m \in Msg |-> Fate(m)]

LEMMA RefInit == Init => D!DeliveryInit
<1> SUFFICES ASSUME Init PROVE fateNow = [m \in Msg |-> "waiting"]
  BY DEF D!DeliveryInit, D!Msg, Msg, fateNow
<1>1. PlaceInv
  BY InitPlaces
<1>2. ASSUME NEW m \in Msg PROVE Fate(m) = "waiting"
  <2>1. At(m, "waiting")
    BY BridgeAssumption DEF Init, At, Msg
  <2> QED
    BY <1>1, <2>1, FateIsAt DEF FateTold, Places
<1> QED
  BY <1>2 DEF fateNow

LEMMA RefStep ==
    PlaceInv /\ FateTold /\ FateTold' /\ [Next]_vars => [D!DeliveryNext]_fateNow
<1> SUFFICES ASSUME PlaceInv, FateTold, FateTold', [Next]_vars PROVE [D!DeliveryNext]_fateNow
  OBVIOUS
<1>1. PICK ms \in SUBSET Msg, f \in Places : Legal(ms, f) /\ Moves(ms, f)
  BY StepMoves
<1>2. \A m \in Msg : Fate(m) \in Places /\ \A g \in Places : Fate(m) = g <=> At(m, g)
  BY DEF FateTold
<1>3. \A m \in Msg :
         /\ Fate(m)' \in Places
         /\ \A g \in Places : Fate(m)' = g <=> At(m, g)'
  BY DEF FateTold
<1>4. \A m \in Msg : Fate(m)' = IF m \in ms THEN f ELSE Fate(m)
  BY <1>1, <1>2, <1>3, Zenon DEF Moves
<1>5. fateNow' = [m \in Msg |-> IF m \in ms THEN f ELSE fateNow[m]]
  BY <1>4 DEF fateNow
<1>6. \A m \in Msg : fateNow[m] = Fate(m)
  BY DEF fateNow
<1>7. D!Msg = Msg
  BY DEF D!Msg, Msg
<1>8. CASE ms = {next} /\ f \in {"held", "sfu", "lost"}
  <2>1. next \in Msg
    BY <1>8
  <2>2. fateNow[next] = "waiting"
    BY <1>2, <1>6, <2>1, BridgeAssumption DEF At, Places, Msg
  <2>3. \A k \in 1 .. next - 1 : fateNow[k] # "waiting"
    <3> SUFFICES ASSUME NEW k \in 1 .. next - 1 PROVE fateNow[k] # "waiting"
      OBVIOUS
    <3>1. k \in Msg /\ ~(k >= next)
      BY <2>1, BridgeAssumption DEF Msg
    <3> QED
      BY <1>2, <1>6, <3>1 DEF At, Places
  <2>4. fateNow' = [fateNow EXCEPT ![next] = f]
    BY <1>5, <1>8, <2>1 DEF fateNow
  <2>5. D!Take(next)
    BY <1>8, <2>2, <2>3, <2>4 DEF D!Take, fateNow
  <2> QED
    BY <1>7, <2>1, <2>5 DEF D!DeliveryNext
<1>9. CASE f = "laravel" /\ \E m \in ms : ms = {m} /\ At(m, "held")
  <2>1. PICK m \in Msg : ms = {m} /\ At(m, "held")
    BY <1>9
  <2>2. fateNow[m] = "held"
    BY <1>2, <1>6, <2>1 DEF Places
  <2>3. fateNow' = [fateNow EXCEPT ![m] = "laravel"]
    BY <1>5, <1>9, <2>1 DEF fateNow
  <2>4. D!Settle(m, "laravel")
    BY <2>2, <2>3 DEF D!Settle, fateNow
  <2> QED
    BY <1>7, <2>4 DEF D!DeliveryNext
<1>10. CASE f = "lost" /\ \A m \in ms : At(m, "held")
  <2>1. \A m \in ms : fateNow[m] = "held"
    BY <1>2, <1>6, <1>10 DEF Places
  <2>2. D!Drop(ms)
    BY <1>5, <1>7, <1>10, <2>1 DEF D!Drop, fateNow
  <2> QED
    BY <1>7, <2>2 DEF D!DeliveryNext
<1> QED
  BY <1>1, <1>8, <1>9, <1>10 DEF Legal

(* Each message that peers sent is in one place: waiting for its turn,     *)
(* held by the dispatcher or a channel, or at one of its ends for good,    *)
(* Laravel's at most once, whatever bridges come, overlap and go.          *)
THEOREM Refinement == Spec => ImplementsDelivery
<1>1. Init => D!DeliveryInit
  BY RefInit
<1>2. PlaceInv /\ FateTold /\ FateTold' /\ [Next]_vars
        => [D!DeliveryNext]_[m \in Msg |-> Fate(m)]
  BY RefStep DEF fateNow
<1> QED
  BY <1>1, <1>2, FateIsAt, Placement, PTL DEF Spec, ImplementsDelivery, D!DeliverySpec

-----------------------------------------------------------------------------
(* Order at Laravel while bridges do not overlap.                          *)

(* Only the dispatcher's bridge has messages; a bridge that waits in the   *)
(* registration channel has no rival but those that still wait to get in.  *)
OneWay ==
    /\ \A h \in Handler : chan[h] # << >> => sink = h
    /\ \A h \in Handler : pc[h] = "register" => sink # h /\ reg # h
    /\ reg # None => \A h \in Handler : ReceiverOpen(h) /\ h # reg => pc[h] = "register"
    /\ dpc = "posting" => sink = None

(* What Laravel got is older than all that is still to come.               *)
SeenOlder ==
    \A j \in 1 .. Len(seen) :
        /\ seen[j] < next
        /\ cur # NoMsg => seen[j] < cur
        /\ \A h \in Handler : \A k \in 1 .. Len(chan[h]) : seen[j] < chan[h][k]

SeenInOrder == \A j, k \in 1 .. Len(seen) : j < k => seen[j] < seen[k]

OrderInv == OneWay /\ SeenOlder /\ SeenInOrder

LEMMA OneWayStep ==
    ASSUME Inv, AtMostOneLive, OneWay, [Next]_vars
    PROVE  OneWay'
<1>1. /\ pc \in [Handler -> {"free", "register", "announce", "loop", "leaving"}]
      /\ chan \in [Handler -> Seq(Msg)]
      /\ reg \in Handler \cup {None} /\ sink \in Handler \cup {None}
  BY DEF Inv, TypeOK
<1>2. \A h \in Handler : chan[h] # << >> => ReceiverOpen(h) /\ sink = h
  BY DEF Inv, ChannelsInOrder, OneWay
<1>3. CASE UNCHANGED vars \/ TakeSfuCommand
  BY <1>3 DEF vars, TakeSfuCommand, handlerVars, OneWay, ReceiverOpen
<1>4. CASE TakeMessage
  BY <1>4 DEF TakeMessage, handlerVars, OneWay, ReceiverOpen
<1>5. CASE Post
  BY <1>5 DEF Post, handlerVars, OneWay, ReceiverOpen
<1>6. CASE TakeRegistration
  <2>1. /\ UNCHANGED <<pc, chan, dpc>> /\ reg # None /\ sink' = reg /\ reg' = None
        /\ dpc = "select"
    BY <1>6 DEF TakeRegistration, handlerVars
  <2>2. \A h \in Handler : chan[h] # << >> => h = reg
    BY <1>2, <2>1 DEF OneWay
  <2> QED
    BY <2>1, <2>2, NoneApart DEF OneWay
<1>7. CASE SendToBridge
  <2>1. /\ UNCHANGED <<pc, reg, sink>> /\ dpc' = "select" /\ sink \in Handler
        /\ \A h \in Handler \ {sink} : chan'[h] = chan[h]
    BY <1>1, <1>7 DEF SendToBridge, Inv, InHands
  <2> QED
    BY <1>2, <2>1 DEF OneWay, ReceiverOpen
<1>8. CASE FallBack
  <2>1. /\ UNCHANGED <<pc, chan, reg>> /\ sink' = None /\ ~ReceiverOpen(sink)
    BY <1>8 DEF FallBack, handlerVars
  <2>2. \A h \in Handler : chan[h] = << >>
    BY <1>2, <2>1
  <2> QED
    BY <2>1, <2>2, NoneApart DEF OneWay, ReceiverOpen
<1>9. ASSUME NEW h \in Handler, Admit(h) PROVE OneWay'
  BY <1>1, <1>9 DEF Admit, HasSender, dispatcherVars, OneWay, ReceiverOpen
<1>10. ASSUME NEW h \in Handler, Register(h) PROVE OneWay'
  <2>1. /\ pc[h] = "register" /\ pc' = [pc EXCEPT ![h] = "announce"] /\ reg' = h
        /\ UNCHANGED <<chan, sink, dpc>>
    BY <1>10 DEF Register, dispatcherVars
  <2>2. \A g \in Handler : ReceiverOpen(g) => g = h
    BY <2>1 DEF AtMostOneLive, Live, ReceiverOpen
  <2>3. \A g \in Handler : ReceiverOpen(g)' => g = h
    BY <1>1, <2>1, <2>2 DEF ReceiverOpen
  <2>4. \A g \in Handler : pc'[g] = "register" => sink' # g /\ reg' # g
    BY <1>1, <2>1, <2>2 DEF ReceiverOpen
  <2> QED
    BY <2>1, <2>3, <2>4 DEF OneWay
<1>11. ASSUME NEW h \in Handler, Forward(h) PROVE OneWay'
  <2>1. /\ UNCHANGED <<pc, reg, sink, dpc>> /\ chan[h] # << >>
        /\ \A g \in Handler \ {h} : chan'[g] = chan[g]
    BY <1>1, <1>11 DEF Forward, dispatcherVars
  <2> QED
    BY <1>2, <2>1 DEF OneWay, ReceiverOpen
<1>12. ASSUME NEW h \in Handler, HangUp(h) PROVE OneWay'
  <2>1. /\ UNCHANGED <<reg, sink, dpc>>
        /\ pc' = [pc EXCEPT ![h] = "leaving"]
        /\ \A g \in Handler : chan'[g] # << >> => chan'[g] = chan[g]
    BY <1>1, <1>12 DEF HangUp, dispatcherVars
  <2>2. \A g \in Handler : pc'[g] = pc[g] \/ ~ReceiverOpen(g)'
    BY <1>1, <2>1 DEF ReceiverOpen
  <2> QED
    BY <1>1, <2>1, <2>2 DEF OneWay, ReceiverOpen
<1>13. ASSUME NEW h \in Handler, Announce(h) \/ SenderGone(h) \/ Leave(h) PROVE OneWay'
  BY <1>1, <1>13 DEF Announce, SenderGone, Leave, dispatcherVars, OneWay, ReceiverOpen
<1> QED
  BY <1>3, <1>4, <1>5, <1>6, <1>7, <1>8, <1>9, <1>10, <1>11, <1>12, <1>13
     DEF Next, Dispatch, HandlerStep

(* One more message for Laravel, newer than the ones it has.               *)
LEMMA AppendInOrder ==
    ASSUME NEW s \in Seq(Msg), NEW e \in Msg,
           \A j \in 1 .. Len(s) : s[j] < e,
           \A j, k \in 1 .. Len(s) : j < k => s[j] < s[k]
    PROVE  /\ \A j, k \in 1 .. Len(Append(s, e)) : j < k => Append(s, e)[j] < Append(s, e)[k]
           /\ \A j \in 1 .. Len(Append(s, e)) :
                 Append(s, e)[j] = e \/ \E i \in 1 .. Len(s) : Append(s, e)[j] = s[i]
<1> DEFINE a == Append(s, e)
<1>1. /\ Len(s) \in Nat /\ Len(a) = Len(s) + 1
      /\ \A j \in 1 .. Len(s) : a[j] = s[j]
      /\ a[Len(s) + 1] = e
      /\ \A j \in 1 .. Len(s) + 1 : j \in 1 .. Len(s) \/ j = Len(s) + 1
  BY AppendFacts
<1> HIDE DEF a
<1>2. ASSUME NEW j \in 1 .. Len(s) + 1, NEW k \in 1 .. Len(s) + 1, j < k
      PROVE  a[j] < a[k]
  <2>1. j \in 1 .. Len(s)
    BY <1>1, <1>2
  <2>2. CASE k \in 1 .. Len(s)
    BY <1>1, <1>2, <2>1, <2>2
  <2>3. CASE k = Len(s) + 1
    BY <1>1, <2>1, <2>3
  <2> QED
    BY <1>1, <2>2, <2>3
<1>3. \A j \in 1 .. Len(s) + 1 : a[j] = e \/ \E i \in 1 .. Len(s) : a[j] = s[i]
  BY <1>1, Zenon
<1> QED
  BY <1>1, <1>2, <1>3 DEF a

LEMMA SeenStep ==
    ASSUME Inv, OrderInv, [Next]_vars
    PROVE  SeenOlder' /\ SeenInOrder'
<1> USE DEF OrderInv
<1>1. /\ chan \in [Handler -> Seq(Msg)] /\ seen \in Seq(Msg)
      /\ next \in Nat /\ LastMsg \in Nat
      /\ \A j \in 1 .. Len(seen) : seen[j] \in Nat
  <2>1. chan \in [Handler -> Seq(Msg)] /\ seen \in Seq(Msg) /\ next \in Nat /\ LastMsg \in Nat
    BY BridgeAssumption DEF Inv, TypeOK
  <2>2. \A j \in 1 .. Len(seen) : seen[j] \in Msg
    BY <2>1, ElementOfSeq, Zenon
  <2> QED
    BY <2>1, <2>2 DEF Msg
<1>2. CASE UNCHANGED <<chan, cur, next, seen>>
  BY <1>2 DEF SeenOlder, SeenInOrder
<1>3. CASE TakeSfuCommand \/ TakeMessage
  <2>1. /\ UNCHANGED <<chan, seen>> /\ next' = next + 1
        /\ cur' = next \/ cur' = cur
    BY <1>3 DEF TakeSfuCommand, TakeMessage, handlerVars, fateVars
  <2> QED
    BY <1>1, <2>1 DEF SeenOlder, SeenInOrder
<1>4. CASE SendToBridge
  <2> DEFINE c == chan[sink]
  <2>1. /\ sink \in Handler /\ cur \in Msg /\ cur # NoMsg /\ c \in Seq(Msg)
        /\ chan' = [chan EXCEPT ![sink] = Append(c, cur)]
        /\ cur' = NoMsg /\ UNCHANGED <<next, seen>>
    BY <1>1, <1>4 DEF SendToBridge, fateVars, Inv, InHands, Msg, NoMsg
  <2>2. /\ Len(Append(c, cur)) = Len(c) + 1
        /\ \A k \in 1 .. Len(c) : Append(c, cur)[k] = c[k]
        /\ Append(c, cur)[Len(c) + 1] = cur
        /\ \A k \in 1 .. Len(c) + 1 : k \in 1 .. Len(c) \/ k = Len(c) + 1
    BY <2>1, AppendFacts
  <2>3. chan'[sink] = Append(c, cur) /\ \A g \in Handler \ {sink} : chan'[g] = chan[g]
    BY <1>1, <2>1
  <2>4. ASSUME NEW j \in 1 .. Len(seen), NEW h \in Handler, NEW k \in 1 .. Len(chan'[h])
        PROVE  seen[j] < chan'[h][k]
    <3>1. CASE h # sink
      BY <2>3, <3>1 DEF SeenOlder
    <3>2. CASE h = sink
      <4>1. seen[j] < cur /\ \A i \in 1 .. Len(c) : seen[j] < c[i]
        BY <2>1 DEF SeenOlder
      <4>2. chan'[h] = Append(c, cur)
        BY <2>3, <3>2
      <4> HIDE DEF c
      <4>3. k \in 1 .. Len(c) + 1
        BY <2>2, <4>2
      <4>4. CASE k \in 1 .. Len(c)
        BY <2>2, <4>1, <4>2, <4>4
      <4>5. CASE k = Len(c) + 1
        BY <2>2, <4>1, <4>2, <4>5
      <4> QED
        BY <2>2, <4>3, <4>4, <4>5
    <3> QED
      BY <3>1, <3>2
  <2> QED
    BY <2>1, <2>4 DEF SeenOlder, SeenInOrder
<1>5. ASSUME NEW h \in Handler, HangUp(h)
      PROVE  SeenOlder' /\ SeenInOrder'
  <2>1. /\ UNCHANGED <<cur, next, seen>>
        /\ chan'[h] = << >>
        /\ \A g \in Handler \ {h} : chan'[g] = chan[g]
    BY <1>1, <1>5 DEF HangUp, dispatcherVars
  <2>2. \A g \in Handler : \A k \in 1 .. Len(chan'[g]) :
           k \in 1 .. Len(chan[g]) /\ chan'[g][k] = chan[g][k]
    BY <2>1, EmptyFacts
  <2> QED
    BY <2>1, <2>2 DEF SeenOlder, SeenInOrder
<1>6. ASSUME NEW h \in Handler, Forward(h)
      PROVE  SeenOlder' /\ SeenInOrder'
  <2> DEFINE c == chan[h]
             m == Head(c)
  <2>1. /\ c \in Seq(Msg) /\ c # << >>
        /\ chan' = [chan EXCEPT ![h] = Tail(c)]
        /\ seen' = Append(seen, m)
        /\ UNCHANGED <<cur, next>>
    BY <1>1, <1>6 DEF Forward, dispatcherVars
  <2>2. /\ m \in Msg /\ m = c[1]
        /\ Len(c) \in Nat \ {0}
        /\ Len(Tail(c)) = Len(c) - 1
        /\ \A k \in 1 .. Len(c) - 1 : Tail(c)[k] = c[k + 1] /\ k + 1 \in 1 .. Len(c)
    BY <2>1, TailFacts
  <2>3. /\ \A j, k \in 1 .. Len(c) : j < k => c[j] < c[k]
        /\ \A k \in 1 .. Len(c) : c[k] < next /\ (cur # NoMsg => c[k] < cur)
        /\ \A j \in 1 .. Len(seen) : \A k \in 1 .. Len(c) : seen[j] < c[k]
    BY DEF Inv, ChannelsInOrder, ChannelsOlder, SeenOlder
  <2>4. \A g \in Handler \ {h} : chan'[g] = << >>
    BY <1>1, <2>1 DEF OneWay
  <2>5. chan'[h] = Tail(c)
    BY <1>1, <2>1
  <2> HIDE DEF c, m
  <2>6. 1 \in 1 .. Len(c)
    BY <2>2
  <2>7. \A j \in 1 .. Len(seen) : seen[j] < m
    BY <2>2, <2>3, <2>6
  <2>8. m < next /\ (cur # NoMsg => m < cur)
    BY <2>2, <2>3, <2>6
  <2>9. ASSUME NEW k \in 1 .. Len(c) - 1
        PROVE  m < Tail(c)[k] /\ \A j \in 1 .. Len(seen) : seen[j] < Tail(c)[k]
    <3>1. k + 1 \in 1 .. Len(c) /\ 1 < k + 1 /\ Tail(c)[k] = c[k + 1]
      BY <2>2
    <3> QED
      BY <2>2, <2>3, <2>6, <3>1
  <2>10. /\ \A j, k \in 1 .. Len(seen') : j < k => seen'[j] < seen'[k]
         /\ \A j \in 1 .. Len(seen') : seen'[j] = m \/ \E i \in 1 .. Len(seen) : seen'[j] = seen[i]
    BY <1>1, <2>1, <2>2, <2>7, AppendInOrder DEF SeenInOrder
  <2>11. ASSUME NEW j \in 1 .. Len(seen')
         PROVE  /\ seen'[j] < next /\ (cur # NoMsg => seen'[j] < cur)
                /\ \A g \in Handler : \A k \in 1 .. Len(chan'[g]) : seen'[j] < chan'[g][k]
    <3>1. \A g \in Handler : \A k \in 1 .. Len(chan'[g]) :
             g = h /\ k \in 1 .. Len(c) - 1 /\ chan'[g][k] = Tail(c)[k]
      BY <2>2, <2>4, <2>5, EmptyFacts
    <3>2. \A i \in 1 .. Len(seen) : seen[i] < next /\ (cur # NoMsg => seen[i] < cur)
      BY DEF SeenOlder
    <3> QED
      BY <2>8, <2>9, <2>10, <3>1, <3>2
  <2> QED
    BY <2>1, <2>10, <2>11 DEF SeenOlder, SeenInOrder
<1>7. CASE Post
  <2>1. /\ cur \in Msg /\ cur # NoMsg /\ cur < next /\ cur' = NoMsg
        /\ UNCHANGED <<chan, next>>
        /\ seen' = Append(seen, cur) \/ seen' = seen
    BY <1>7, BridgeAssumption DEF Post, handlerVars, Inv, InHands, Msg, NoMsg
  <2>2. \A h \in Handler : chan[h] = << >>
    BY <1>7, NoneApart DEF Post, OneWay
  <2>3. CASE seen' = seen
    BY <2>1, <2>3 DEF SeenOlder, SeenInOrder
  <2>4. CASE seen' = Append(seen, cur)
    <3>1. \A j \in 1 .. Len(seen) : seen[j] < cur /\ seen[j] < next
      BY <2>1 DEF SeenOlder
    <3>2. /\ \A j, k \in 1 .. Len(seen') : j < k => seen'[j] < seen'[k]
          /\ \A j \in 1 .. Len(seen') : seen'[j] = cur \/ \E i \in 1 .. Len(seen) : seen'[j] = seen[i]
      BY <1>1, <2>1, <2>4, <3>1, AppendInOrder DEF SeenInOrder
    <3>3. \A j \in 1 .. Len(seen') : seen'[j] < next
      BY <2>1, <3>1, <3>2
    <3>4. \A h \in Handler : chan'[h] = << >>
      BY <2>1, <2>2
    <3> QED
      BY <2>1, <3>2, <3>3, <3>4, EmptyFacts DEF SeenOlder, SeenInOrder
  <2> QED
    BY <2>1, <2>3, <2>4
<1>8. ASSUME NEW h \in Handler,
             Admit(h) \/ Register(h) \/ Announce(h) \/ SenderGone(h) \/ Leave(h)
      PROVE  SeenOlder' /\ SeenInOrder'
  BY <1>2, <1>8 DEF Admit, Register, Announce, SenderGone, Leave, dispatcherVars, fateVars
<1>9. CASE UNCHANGED vars \/ TakeRegistration \/ FallBack
  BY <1>2, <1>9 DEF vars, TakeRegistration, FallBack, handlerVars, fateVars
<1> QED
  BY <1>3, <1>4, <1>5, <1>6, <1>7, <1>8, <1>9 DEF Next, Dispatch, HandlerStep

(* However bridges register, close and are fallen back from, Laravel gets  *)
(* its messages in the order the dispatcher took them as long as no two    *)
(* bridges are there at one time, by WebSocket, by HTTP or by both.        *)
THEOREM OrderedWhileSingle == Spec => InOrderWhileSingle
<1>1. Init => OrderInv
  <2> SUFFICES ASSUME Init PROVE OrderInv
    OBVIOUS
  <2>1. OneWay
    BY DEF Init, OneWay
  <2>2. SeenOlder /\ SeenInOrder
    BY EmptyFacts DEF Init, SeenOlder, SeenInOrder
  <2> QED
    BY <2>1, <2>2 DEF OrderInv
<1>2. Inv /\ AtMostOneLive /\ OrderInv /\ [Next]_vars => OrderInv'
  BY OneWayStep, SeenStep DEF OrderInv
<1>3. OrderInv => \A j, k \in 1 .. Len(seen) : j < k => seen[j] < seen[k]
  BY DEF OrderInv, SeenInOrder
<1> QED
  BY <1>1, <1>2, <1>3, Invariance, PTL DEF Spec, InOrderWhileSingle

=============================================================================
