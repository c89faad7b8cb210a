--------------------------- MODULE ConnTimersProofs ---------------------------
(***************************************************************************)
(* What TLAPS proves of ConnTimers, for every tick, timeout and stall with *)
(* KeepaliveInterval + MaxStall < ReadTimeout: the read timeout of an end  *)
(* that ticks is dead code, that of an end that only reads is not.         *)
(***************************************************************************)
EXTENDS ConnTimers, TLAPS

(* A tick is overdue no longer than its loop stood still.                  *)
OverdueByStall == \A e \in End : due[e] + stalled[e] >= 0

(* Time that a read-only loop has waited is taken off its timeout; it      *)
(* stands still only with a message in hand.                               *)
WaitCounts ==
    ~Keeps("acceptor") =>
        /\ silence["acceptor"] + left["acceptor"] <= ReadTimeout
        /\ "acceptor" \in blocked => silence["acceptor"] = 0

(* While nothing is on its way to a read-only loop, its timeout is as far  *)
(* from firing as the dialer's own would be.                               *)
ReaderIsServed ==
    /\ link = "up" /\ ~Keeps("acceptor")
    /\ "acceptor" \notin blocked /\ wire["acceptor"] = 0
    => left["acceptor"] - due["dialer"] >= ReadTimeout - KeepaliveInterval

Inv == /\ TypeOK /\ OverdueByStall /\ TickRestartsTimeout /\ WaitCounts
       /\ ReaderIsServed /\ NoFalseAlarm

USE TimerAssumption DEF End

LEMMA InitInv == Init => Inv
BY DEF Init, Inv, TypeOK, OverdueByStall, TickRestartsTimeout, WaitCounts, Keeps,
       ReaderIsServed, NoFalseAlarm

LEMMA OtherEnd == Other("dialer") = "acceptor" /\ Other("acceptor") = "dialer"
BY DEF Other

(* Putting a message on the wire keeps it a count; on a link that works it *)
(* is then on its way.                                                     *)
LEMMA PutTypes ==
    ASSUME TypeOK, NEW e \in End, Put(Other(e))
    PROVE  /\ wire' \in [End -> 0 .. MaxWire]
           /\ link = "up" /\ e = "dialer" => wire'["acceptor"] > 0
           /\ e = "acceptor" => wire'["acceptor"] = wire["acceptor"]
<1>1. Other(e) \in End
  BY DEF Other
<1>2. \A n \in 0 .. MaxWire : /\ Capped(n + 1, MaxWire) \in 0 .. MaxWire
                              /\ Capped(n + 1, MaxWire) > 0
  BY DEF Capped
<1> QED
  BY <1>1, <1>2, OtherEnd DEF TypeOK, Put

LEMMA InvStep == Inv /\ [Next]_vars => Inv'
<1> SUFFICES ASSUME Inv, [Next]_vars PROVE Inv'
  OBVIOUS
<1> USE DEF Inv, TypeOK, OverdueByStall, TickRestartsTimeout, WaitCounts, Keeps, Selecting,
            ReaderIsServed, NoFalseAlarm
<1>1. ASSUME NEW e \in End, SendMessage(e) PROVE Inv'
  <2>1. /\ wire' \in [End -> 0 .. MaxWire]
        /\ link = "up" /\ e = "dialer" => wire'["acceptor"] > 0
        /\ e = "acceptor" => wire'["acceptor"] = wire["acceptor"]
    BY <1>1, PutTypes DEF SendMessage
  <2> QED
    BY <1>1, <2>1 DEF SendMessage, NextTurn
<1>2. ASSUME NEW e \in End, Keepalive(e) PROVE Inv'
  <2>1. /\ wire' \in [End -> 0 .. MaxWire]
        /\ link = "up" /\ e = "dialer" => wire'["acceptor"] > 0
        /\ e = "acceptor" => wire'["acceptor"] = wire["acceptor"]
    BY <1>2, PutTypes DEF Keepalive
  <2> QED
    BY <1>2, <2>1 DEF Keepalive, NextTurn, Reschedule
<1>3. ASSUME NEW e \in End, Read(e) PROVE Inv'
  BY <1>3 DEF Read
<1>4. ASSUME NEW e \in End, HandedOn(e) PROVE Inv'
  BY <1>4 DEF HandedOn
<1>5. ASSUME NEW e \in End, TimesOut(e) \/ Fails(e) PROVE Inv'
  <2>1. ASSUME link = "up" PROVE FALSE
    <3>1. open = End
      BY <2>1
    <3>2. ~TimesOut(e)
      <4>1. CASE Keeps(e)
        BY <3>1, <4>1 DEF TimesOut
      <4>2. CASE ~Keeps(e)
        BY <2>1, <4>2 DEF TimesOut
      <4> QED
        BY <4>1, <4>2
    <3> QED
      BY <1>5, <2>1, <3>2 DEF Fails
  <2> QED
    BY <1>5, <2>1 DEF TimesOut, Fails, Close
<1>6. CASE Cut
  BY <1>6 DEF Cut
<1>7. CASE Elapse
  BY <1>7 DEF Elapse, Ready, Capped
<1>8. CASE UNCHANGED vars
  BY <1>8 DEF vars
<1> QED
  BY <1>1, <1>2, <1>3, <1>4, <1>5, <1>6, <1>7, <1>8 DEF Next

(* The inductive invariant: how timers at the two ends of the link are     *)
(* related, in the turns of both loops (connection.rs:33).                 *)
THEOREM Invariance == Spec => []Inv
BY InitInv, InvStep, PTL DEF Spec

(* Counts stay in their bounds: no timeout runs past zero, and a tick is   *)
(* overdue no longer than the longest stall.                               *)
THEOREM TypeCorrect == Spec => []TypeOK
<1>1. Inv => TypeOK
  BY DEF Inv
<1> QED
  BY <1>1, Invariance, PTL

(* The tick of an end restarts its read timeout before it can fire.        *)
THEOREM TickFirst == Spec => []TickRestartsTimeout
<1>1. Inv => TickRestartsTimeout
  BY DEF Inv
<1> QED
  BY <1>1, Invariance, PTL

(* So an end that ticks never takes its timeout branch: a peer that is     *)
(* silent is never given up by it.                                         *)
THEOREM TimeoutIsDeadCode ==
    Spec => [][\A e \in End : Keeps(e) => ~TimesOut(e)]_vars
<1>1. Inv => \A e \in End : Keeps(e) => ~TimesOut(e)
  BY DEF Inv, TypeOK, OverdueByStall, TickRestartsTimeout, TimesOut, Selecting
<1> QED
  BY <1>1, Invariance, PTL

(* A link that works is not given up by either end.                        *)
THEOREM LinkIsKept == Spec => []NoFalseAlarm
<1>1. Inv => NoFalseAlarm
  BY DEF Inv
<1> QED
  BY <1>1, Invariance, PTL

(* An acceptor that only reads gives a silent peer up in time.             *)
THEOREM ReaderNotices == Spec => []ReadOnlyNoticesSilence
<1>1. Inv => ReadOnlyNoticesSilence
  BY DEF Inv, WaitCounts, ReadOnlyNoticesSilence, TypeOK
<1> QED
  BY <1>1, Invariance, PTL
=============================================================================
