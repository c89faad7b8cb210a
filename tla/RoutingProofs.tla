---------------------------- MODULE RoutingProofs -----------------------------
(***************************************************************************)
(* What TLAPS proves of Routing, for any nodes, requests, pollers, texts   *)
(* and order of headers: what is printed is read as the message it was,    *)
(* and so is what comes to the addressee of a message, and to nobody else; *)
(* each browser is given the answer to its own offer; nobody is told that  *)
(* a request is unknown unless somebody has its answer.                    *)
(***************************************************************************)
EXTENDS Routing, AmpAddressProofs, FiniteSetTheorems, NaturalsInduction, WellFoundedInduction

Msg == [headers : UNION {[K -> Seq(Label)] : K \in SUBSET Key}, body : Seq(Line)]

(* What the next hop reads of a message.                                   *)
Carried(m) == [headers |-> m.headers, body |-> WithNewline(m.body)]

(* What may be handed over for i.                                          *)
Source(i) == IF i \in Request THEN {OfferText(i, sdp) : sdp \in {"offer", "junk"}} ELSE Texts

(* What may come to an SFU of a message that was handed over as m.         *)
Offers(m) == {SdpOffer(x, <<noId>>) : x \in {m, Carried(m)}, noId \in {"none", "unknown"}}
Commands(m) == Offers(m) \cup ParseCommand(Carried(m))

Answered(m) == {c \in Offers(m) : IsOffer(TrimBody(c.sdp))}

IsPlace(x) ==
    /\ x = [at |-> x.at, node |-> x.node, text |-> x.text, item |-> x.item]
    /\ x.node \in Node \cup {<< >>}

(* A message is at the node that its address ends in.                      *)
Addressed(m, n) ==
    /\ IsMessage(m) /\ Has(m, "to")
    /\ n = TargetOf(m) /\ n \in Node

(* A message at x that was handed over as the text t.                      *)
MailOK(i, x, t) ==
    LET m == ParseText(t) IN
    /\ IsPlace(x)
    /\ x.at \in {"nowhere", "handed", "refused", "wire", "lost", "inbound", "laravel",
                 "sfu", "unanswered", "done"}
    /\ x.at = "nowhere" => x = Nowhere
    /\ x.at # "nowhere" => t \in Source(i)
    /\ x.at = "handed" => x.node \in Node /\ x.text = t
    /\ x.at \in {"wire", "inbound", "laravel", "sfu", "unanswered", "done"} =>
          Addressed(m, x.node)
    /\ x.at = "wire" => x.text = Wire(m)
    /\ x.at = "inbound" => x.item = Carried(m)
    /\ x.at = "laravel" =>
          x.text \in {Wire(Carried(m)), Wire(WithHeader(Carried(m), "x-mesh-peer", <<"peer">>))}
    /\ x.at = "sfu" => x.node \in SfuNode /\ x.item \in Commands(m)

(* The answer y to it.                                                     *)
AnswerOK(y, x, t) ==
    /\ IsPlace(y)
    /\ y.at \in {"nowhere", "event", "laravel", "lost"}
    /\ y.at = "nowhere" => y = Nowhere
    /\ y.at # "nowhere" =>
          /\ y.node \in SfuNode
          /\ x.at # "nowhere"
          /\ IsMessage(ParseText(t))
          /\ \E c \in Answered(ParseText(t)) :
                IF y.at = "laravel" THEN y.text = Wire(Answer(c)) ELSE y.item = Answer(c)

ReplyText(r) == <<Plain(<<"answer", r>>)>>

SlotsOK(slots) ==
    /\ DOMAIN slots \subseteq Request
    /\ \A r \in DOMAIN slots : slots[r] \in {<< >>, ReplyText(r)}

(* The pollers ps of r, when the slots are open.                           *)
PollOK(r, open, state, ps) ==
    /\ ps = [p \in Poller[r] |-> ps[p]]
    /\ state = "posting" => r \in open
    /\ state = "polling" /\ r \notin open => \E q \in Poller[r] : ps[q].at = "answered"
    /\ \A p \in Poller[r] :
          /\ IsPlace(ps[p])
          /\ ps[p].at \in {"nowhere", "asking", "taking", "answered", "unknown", "gaveup"}
          /\ ps[p].at # "nowhere" => state = "polling"
          /\ ps[p].at \in {"taking", "answered"} => ps[p].text = ReplyText(r)
          /\ ps[p].at = "unknown" => \E q \in Poller[r] : ps[q].at = "answered"

Inv ==
    /\ mail = [i \in Mail |-> mail[i]]
    /\ sent = [i \in Mail |-> sent[i]]
    /\ answer = [i \in Mail |-> answer[i]]
    /\ subs \in [SfuNode -> SUBSET (Seq(Label) \X Seq(Label))]
    /\ client \in [Request -> {"idle", "posting", "polling", "failed"}]
    /\ poll = [r \in Request |-> poll[r]]
    /\ \A i \in Mail : MailOK(i, mail[i], sent[i])
    /\ \A i \in Mail : AnswerOK(answer[i], mail[i], sent[i])
    /\ SlotsOK(pending)
    /\ \A r \in Request : client[r] = "idle" => mail[r] = Nowhere
    /\ \A r \in Request : PollOK(r, DOMAIN pending, client[r], poll[r])

-----------------------------------------------------------------------------
(* The least and the greatest of a set of numbers are in it.               *)
LEMMA MinIsIn ==
    ASSUME NEW S, S \subseteq Nat, S # {}
    PROVE  Min(S) \in S /\ \A y \in S : Min(S) <= y
<1> DEFINE R == {p \in Nat \X Nat : p[1] < p[2]}
<1>1. IsWellFoundedOn(R, Nat)
  BY NatLessThanWellFounded DEF OpToRel
<1> HIDE DEF R
<1>2. PICK x \in S : \A y \in S : <<y, x>> \notin R
  BY <1>1, WFMin, Zenon
<1>3. \A y \in S : x <= y
  <2> SUFFICES ASSUME NEW y \in S PROVE x <= y
    OBVIOUS
  <2>1. <<y, x>> \notin R /\ <<y, x>> \in Nat \X Nat
    BY <1>2
  <2>2. ~(y < x)
    BY <2>1 DEF R
  <2> QED
    BY <2>2
<1> QED
  BY <1>3 DEF Min

LEMMA MaxIsIn ==
    ASSUME NEW n \in Nat, NEW S, S \subseteq 0 .. n, S # {}
    PROVE  Max(S) \in S /\ \A y \in S : y <= Max(S)
<1> DEFINE Gaps == {n - x : x \in S}
<1>1. Gaps \subseteq Nat /\ Gaps # {}
  <2>1. ASSUME NEW x \in S PROVE n - x \in Nat
    BY x \in 0 .. n
  <2>2. PICK x \in S : TRUE
    OBVIOUS
  <2> QED
    BY <2>1, <2>2
<1>2. Min(Gaps) \in Gaps /\ \A g \in Gaps : Min(Gaps) <= g
  <2> HIDE DEF Gaps
  <2> QED
    BY <1>1, MinIsIn
<1>3. PICK x \in S : Min(Gaps) = n - x
  BY <1>2
<1>4. \A y \in S : n - x <= n - y
  BY <1>2, <1>3
<1>5. ASSUME NEW y \in S PROVE x >= y
  BY <1>4, x \in 0 .. n, y \in 0 .. n
<1> QED
  BY <1>5 DEF Max

-----------------------------------------------------------------------------
(* Addresses                                                               *)

LEMMA SuffixOfConcat ==
    ASSUME NEW T, NEW u \in Seq(T), NEW s \in Seq(T)
    PROVE  IsSuffix(s, u \o s)
<1> DEFINE t == u \o s
<1>1. t \in Seq(T) /\ Len(t) = Len(u) + Len(s)
  OBVIOUS
<1>2. \A i \in 1 .. Len(s) : t[Len(t) - i + 1] = s[Len(s) - i + 1]
  BY <1>1
<1> HIDE DEF t
<1>3. Len(Reverse(s)) = Len(s) /\ Len(Reverse(t)) = Len(t)
  BY <1>1 DEF Reverse
<1>4. SubSeq(Reverse(s), 1, Len(s)) = SubSeq(Reverse(t), 1, Len(s))
  BY <1>1, <1>2 DEF Reverse
<1> QED
  BY <1>1, <1>3, <1>4 DEF t, IsSuffix, IsPrefix

LEMMA AmpIsLabel == "amp" \in Label /\ <<"amp">> \in Seq(Label)
BY RoutingAssumption

LEMMA Regroup ==
    ASSUME NEW u \in Seq(Label), NEW n \in Seq(Label), NEW f, f = u \o n
    PROVE  f \o <<"amp">> = u \o (n \o <<"amp">>)
BY AmpIsLabel

LEMMA SplitFirst ==
    ASSUME NEW f \in Seq(Label), Len(f) = 2
    PROVE  /\ <<f[1]>> \in Seq(Label) /\ <<f[2]>> \in Seq(Label)
           /\ f \o <<"amp">> = <<f[1]>> \o (<<f[2]>> \o <<"amp">>)
<1>1. f[1] \in Label /\ f[2] \in Label
  OBVIOUS
<1>2. <<f[1]>> \in Seq(Label) /\ <<f[2]>> \in Seq(Label)
  BY <1>1
<1>3. f = <<f[1]>> \o <<f[2]>>
  OBVIOUS
<1> QED
  BY <1>2, <1>3, Regroup, Zenon

LEMMA SplitThird ==
    ASSUME NEW f \in Seq(Label), Len(f) > 2
    PROVE  /\ SubSeq(f, 1, 2) \in Seq(Label) /\ SubSeq(f, 3, Len(f)) \in Seq(Label)
           /\ f \o <<"amp">> = SubSeq(f, 1, 2) \o (SubSeq(f, 3, Len(f)) \o <<"amp">>)
<1>1. /\ SubSeq(f, 1, 2) \in Seq(Label)
      /\ SubSeq(f, 3, Len(f)) \in Seq(Label)
      /\ f = SubSeq(f, 1, 2) \o SubSeq(f, 3, Len(f))
  OBVIOUS
<1> QED
  BY <1>1, Regroup, Zenon

(* The node of an address, and what is before it.                          *)
LEMMA NodeIsLast ==
    ASSUME NEW s \in Seq(Label)
    PROVE  /\ ParseAddress(s).node \in Seq(Label)
           /\ ParseAddress(s).node # << >> =>
                 \E u \in Seq(Label) : s = u \o (ParseAddress(s).node \o <<"amp">>)
<1> DEFINE f == Front(s)
<1>1. CASE ~HasSuffix(s)
  <2>1. ParseAddress(s) = NoAddress
    BY <1>1 DEF ParseAddress
  <2> QED
    BY <2>1 DEF NoAddress
<1>2. CASE HasSuffix(s)
  <2>1. /\ f \in Seq(Label)
        /\ s = f \o <<"amp">>
        /\ Len(f) \in Nat /\ Len(f) # 0
    BY <1>2, AmpIsLabel, Suffixed, FrontLength
  <2>2. CASE Len(f) = 1
    <3>1. ParseAddress(s).node = f
      BY <2>2, <1>2, ParseNode
    <3>2. << >> \in Seq(Label) /\ f \o <<"amp">> = << >> \o (f \o <<"amp">>)
      <4> HIDE DEF f
      <4> QED
        BY <2>1, AmpIsLabel
    <3> QED
      BY <3>1, <3>2, <2>1, Zenon
  <2>3. CASE Len(f) = 2
    <3>1. ParseAddress(s).node = <<f[2]>>
      BY <2>3, <1>2, ParseApp
    <3> QED
      BY <3>1, <2>1, <2>3, SplitFirst, Zenon
  <2>4. CASE Len(f) > 2
    <3>0. Len(f) # 1 /\ Len(f) # 2
      BY <2>1, <2>4, MoreThanTwo
    <3>1. ParseAddress(s).node = SubSeq(f, 3, Len(f))
      BY <1>2, <3>0, ParsePort
    <3> QED
      BY <3>1, <2>1, <2>4, SplitThird, Zenon
  <2> QED
    BY <2>1, <2>2, <2>3, <2>4, OneTwoMore
<1> QED
  BY <1>1, <1>2

(* An address ends in the node it is routed to.                            *)
LEMMA EndsInNode ==
    ASSUME NEW s \in Seq(Label),
           NEW n, n = ParseAddress(s).node, n # << >>
    PROVE  IsSuffix(n \o <<"amp">>, s)
<1>1. PICK u \in Seq(Label) : s = u \o (n \o <<"amp">>)
  BY NodeIsLast, Zenon
<1>2. n \in Seq(Label)
  BY NodeIsLast
<1>3. n \o <<"amp">> \in Seq(Label)
  BY <1>2, AmpIsLabel
<1> QED
  BY <1>1, <1>3, SuffixOfConcat, Zenon


-----------------------------------------------------------------------------
(* Texts                                                                   *)

LEMMA LineTyped ==
    /\ Fence \in Line /\ Blank \in Line /\ Blank # Fence
    /\ \A v \in Seq(Label) : Plain(v) \in Line
    /\ \A k \in Key, v \in Seq(Label) :
          Header(k, v) \in Line /\ Header(k, v) # Fence /\ Header(k, v).kind = "header"
<1>1. <<"---">> \in Seq(Label) /\ << >> \in Seq(Label) /\ << >> # <<"---">>
  BY WireAssumption
<1>2. \A v \in Seq(Label) : Plain(v) \in Line
  BY DEF Plain, Line
<1>3. \A k \in Key, v \in Seq(Label) :
         Header(k, v) \in Line /\ Header(k, v).kind = "header" /\ Fence.kind = "plain"
  BY DEF Header, Line, Fence, Plain
<1>4. Blank # Fence
  BY <1>1 DEF Blank, Fence, Plain
<1> QED
  BY <1>1, <1>2, <1>3, <1>4 DEF Fence, Blank

LEMMA LineParts ==
    ASSUME NEW l \in Line
    PROVE  l.val \in Seq(Label) /\ (l.kind # "plain" => l.key \in Key)
BY DEF Line

(* w is the lines hs between fences, and e after them.                     *)
IsText(w, hs, e) ==
    /\ w \in Seq(Line)
    /\ Len(w) = Len(hs) + Len(e) + 2
    /\ w[1] = Fence /\ w[Len(hs) + 2] = Fence
    /\ \A i \in 1 .. Len(hs) : w[i + 1] = hs[i]
    /\ SubSeq(w, Len(hs) + 3, Len(w)) = e

LEMMA TextParts ==
    ASSUME NEW hs \in Seq(Line), NEW e \in Seq(Line), NEW w,
           w = <<Fence>> \o hs \o <<Fence>> \o e
    PROVE  IsText(w, hs, e)
<1>1. Fence \in Line
  BY LineTyped
<1> HIDE DEF Fence
<1> DEFINE u == <<Fence>> \o hs \o <<Fence>>
<1>2. /\ u \in Seq(Line) /\ Len(u) = Len(hs) + 2
      /\ u[1] = Fence /\ u[Len(hs) + 2] = Fence
      /\ \A i \in 1 .. Len(hs) : u[i + 1] = hs[i]
  BY <1>1
<1>3. w = u \o e
  OBVIOUS
<1> HIDE DEF u
<1>4. /\ w \in Seq(Line) /\ Len(w) = Len(u) + Len(e)
      /\ \A i \in 1 .. Len(u) : w[i] = u[i]
      /\ SubSeq(w, Len(u) + 1, Len(w)) = e
  BY <1>2, <1>3
<1> QED
  BY <1>2, <1>4 DEF IsText

(* The first closing fence is the one that was put there.                  *)
LEMMA FirstClosing ==
    ASSUME NEW w \in Seq(Line), NEW n \in Nat, n > 0, Len(w) > n + 2,
           w[n + 2] = Fence, \A i \in 3 .. n + 1 : w[i] # Fence
    PROVE  Closings(w) # {} /\ Min(Closings(w)) = n + 2
<1>1. Closings(w) \subseteq Nat /\ n + 2 \in Closings(w)
  BY DEF Closings
<1>2. \A i \in Closings(w) : i >= n + 2
  BY DEF Closings
<1> QED
  BY <1>1, <1>2, MinIsIn

(* The lines of S have each key of K, with the value h gives it.           *)
Writes(w, S, K, h) ==
    /\ \A i \in S : w[i].key \in K /\ w[i].val = h[w[i].key]
    /\ \A k \in K : \E i \in S : w[i].key = k

LEMMA HeadersRead ==
    ASSUME NEW K, NEW V, NEW h \in [K -> V], NEW w, NEW b \in Nat,
           NEW S \in SUBSET (0 .. b), Writes(w, S, K, h)
    PROVE  HeadersOf(w, S) = h
<1> USE DEF Writes
<1> DEFINE At(k) == {i \in S : w[i].key = k}
<1>1. {w[i].key : i \in S} = K
  OBVIOUS
<1>2. ASSUME NEW k \in K
      PROVE  w[Max(At(k))].val = h[k]
  <2>1. At(k) \subseteq 0 .. b /\ At(k) # {}
    OBVIOUS
  <2>2. Max(At(k)) \in At(k)
    <3> HIDE DEF At
    <3> QED
      BY <2>1, MaxIsIn
  <2> QED
    BY <2>2
<1> QED
  BY <1>1, <1>2 DEF HeadersOf

LEMMA ParseClosed ==
    ASSUME NEW t, t[1] = Fence, Closings(t) # {}
    PROVE  ParseText(t) = [headers |-> HeadersOf(t, HeaderLines(t, Min(Closings(t)) - 1)),
                           body    |-> SubSeq(t, Min(Closings(t)) + 1, Len(t))]
BY Zenon DEF ParseText

LEMMA MsgParts ==
    ASSUME NEW m \in Msg
    PROVE  /\ DOMAIN m.headers \subseteq Key
           /\ m.headers \in [DOMAIN m.headers -> Seq(Label)]
           /\ m.headers = [k \in DOMAIN m.headers |-> m.headers[k]]
           /\ m.body \in Seq(Line)
           /\ m = [headers |-> m.headers, body |-> m.body]
<1>1. PICK K \in SUBSET Key : m.headers \in [K -> Seq(Label)]
  BY DEF Msg
<1>2. m.body \in Seq(Line) /\ m = [headers |-> m.headers, body |-> m.body]
  BY DEF Msg
<1> QED
  BY <1>1, <1>2

LEMMA MsgMade ==
    ASSUME NEW K \in SUBSET Key, NEW h \in [K -> Seq(Label)], NEW b \in Seq(Line)
    PROVE  [headers |-> h, body |-> b] \in Msg
BY DEF Msg

(* A body with its newline.                                                *)
LEMMA NewlineTyped ==
    ASSUME NEW b \in Seq(Line), b # << >>
    PROVE  /\ WithNewline(b) \in Seq(Line) /\ WithNewline(b) # << >>
           /\ Ended(b) = WithNewline(b)
           /\ WithNewline(WithNewline(b)) = WithNewline(b)
<1>1. Blank \in Line
  BY LineTyped
<1>2. Last(Append(b, Blank)) = Blank /\ Append(b, Blank) \in Seq(Line) /\ Append(b, Blank) # << >>
  <2> HIDE DEF Blank
  <2> QED
    BY <1>1 DEF Last
<1> QED
  BY <1>2 DEF WithNewline, Ended

LEMMA CarriedTyped ==
    ASSUME NEW m \in Msg, IsMessage(m)
    PROVE  /\ Carried(m) \in Msg /\ IsMessage(Carried(m))
           /\ Carried(m).headers = m.headers /\ Carried(m).body = WithNewline(m.body)
           /\ Carried(m) = [headers |-> m.headers, body |-> WithNewline(m.body)]
           /\ Carried(Carried(m)) = Carried(m)
<1>1. m.body \in Seq(Line) /\ m.body # << >>
  BY MsgParts DEF IsMessage
<1>2. Carried(m) = [headers |-> m.headers, body |-> WithNewline(m.body)]
  BY DEF Carried
<1>3. /\ WithNewline(m.body) \in Seq(Line) /\ WithNewline(m.body) # << >>
      /\ WithNewline(WithNewline(m.body)) = WithNewline(m.body)
  BY <1>1, NewlineTyped
<1>4. Carried(m) \in Msg
  <2>1. DOMAIN m.headers \in SUBSET Key /\ m.headers \in [DOMAIN m.headers -> Seq(Label)]
    BY MsgParts
  <2> QED
    BY <1>2, <1>3, <2>1, MsgMade
<1> QED
  BY <1>2, <1>3, <1>4 DEF IsMessage, Carried

-----------------------------------------------------------------------------
(* What is read of headers between fences, and a body.                     *)
LEMMA HeadersAndBody ==
    ASSUME NEW hs \in Seq(Line), Len(hs) > 0, NEW e \in Seq(Line), e # << >>, NEW w,
           \A i \in 1 .. Len(hs) : hs[i] # Fence /\ hs[i].kind = "header",
           IsText(w, hs, e)
    PROVE  /\ w \in Seq(Line) \ {<< >>}
           /\ \A i \in 1 .. Len(hs) : w[i + 1] = hs[i]
           /\ ParseText(w) = [headers |-> HeadersOf(w, 2 .. Len(hs) + 1), body |-> e]
<1> DEFINE n == Len(hs)
<1>1. /\ w \in Seq(Line)
      /\ Len(w) = Len(hs) + Len(e) + 2
      /\ w[1] = Fence /\ w[Len(hs) + 2] = Fence
      /\ \A i \in 1 .. Len(hs) : w[i + 1] = hs[i]
      /\ SubSeq(w, Len(hs) + 3, Len(w)) = e
  BY DEF IsText
<1>2. n \in Nat /\ n > 0 /\ Len(e) \in Nat /\ Len(e) > 0
  OBVIOUS
<1>3. \A i \in 2 .. n + 1 : w[i] = hs[i - 1] /\ i - 1 \in 1 .. n
  <2> SUFFICES ASSUME NEW i \in 2 .. n + 1
               PROVE  w[i] = hs[i - 1] /\ i - 1 \in 1 .. n
    OBVIOUS
  <2>1. i - 1 \in 1 .. n /\ (i - 1) + 1 = i
    BY <1>2
  <2>2. w[(i - 1) + 1] = hs[i - 1]
    BY <2>1, <1>1
  <2> QED
    BY <2>1, <2>2
<1>4. Closings(w) # {} /\ Min(Closings(w)) = n + 2
  <2>1. \A i \in 3 .. n + 1 : w[i] # Fence
    BY <1>2, <1>3
  <2>2. Len(w) > n + 2
    BY <1>1, <1>2
  <2> QED
    BY <2>1, <2>2, <1>1, <1>2, FirstClosing
<1>5. HeaderLines(w, n + 1) = 2 .. n + 1
  <2>1. \A i \in 2 .. n + 1 : w[i].kind # "plain"
    BY <1>3
  <2> QED
    BY <2>1 DEF HeaderLines
<1>6. ParseText(w) = [headers |-> HeadersOf(w, HeaderLines(w, Min(Closings(w)) - 1)),
                      body    |-> SubSeq(w, Min(Closings(w)) + 1, Len(w))]
  BY <1>1, <1>4, ParseClosed
<1>7. (n + 2) - 1 = n + 1 /\ (n + 2) + 1 = n + 3
  BY <1>2
<1>8. ParseText(w) = [headers |-> HeadersOf(w, 2 .. n + 1), body |-> e]
  BY <1>1, <1>4, <1>5, <1>6, <1>7
<1>9. w # << >>
  BY <1>1, <1>2
<1> QED
  BY <1>1, <1>8, <1>9

LEMMA HeadersReadFromTwo ==
    ASSUME NEW K, NEW V, NEW h \in [K -> V], NEW w, NEW n \in Nat,
           Writes(w, 2 .. n + 1, K, h)
    PROVE  HeadersOf(w, 2 .. n + 1) = h
<1>1. PICK b \in Nat : b = n + 1
  OBVIOUS
<1>2. PICK S \in SUBSET (0 .. b) : S = 2 .. n + 1
  BY <1>1
<1>3. Writes(w, S, K, h)
  BY <1>2, Zenon
<1>4. HeadersOf(w, S) = h
  BY <1>3, HeadersRead, Zenon
<1> QED
  BY <1>2, <1>4, Zenon

(* Headers written one after the other are read as they were.              *)
Follow(w, n, order, K, h) ==
    /\ \A i \in 1 .. n : /\ w[i + 1].key = order[i] /\ w[i + 1].val = h[order[i]]
                         /\ order[i] \in K
    /\ \A k \in K : \E i \in 1 .. n : order[i] = k

LEMMA HeadersReadBack ==
    ASSUME NEW K, NEW V, NEW h \in [K -> V], NEW n \in Nat, NEW w, NEW order,
           Follow(w, n, order, K, h)
    PROVE  HeadersOf(w, 2 .. n + 1) = h
<1> USE DEF Follow
<1>1. \A i \in 2 .. n + 1 : w[i].key \in K /\ w[i].val = h[w[i].key]
  <2> SUFFICES ASSUME NEW i \in 2 .. n + 1
               PROVE  w[i].key \in K /\ w[i].val = h[w[i].key]
    OBVIOUS
  <2>1. i - 1 \in 1 .. n /\ (i - 1) + 1 = i
    OBVIOUS
  <2> QED
    BY <2>1
<1>2. ASSUME NEW k \in K PROVE \E i \in 2 .. n + 1 : w[i].key = k
  <2>1. PICK j \in 1 .. n : order[j] = k
    OBVIOUS
  <2>2. w[j + 1].key = k /\ j + 1 \in 2 .. n + 1
    BY <2>1
  <2> QED
    BY <2>2
<1>3. Writes(w, 2 .. n + 1, K, h)
  BY <1>1, <1>2 DEF Writes
<1> HIDE DEF Follow
<1> QED
  BY <1>3, HeadersReadFromTwo

(* Whatever the order of the headers and whatever is in the body, fences   *)
(* included, parse reads of the text that to_wire makes of a message the   *)
(* same headers and the same body, but for the newline at its end.         *)
THEOREM RoundTrip ==
    ASSUME NEW m \in Msg, IsMessage(m), DOMAIN m.headers # {},
           NEW order \in Seq(Key), Range(order) = DOMAIN m.headers
    PROVE  /\ WireIn(order, m) \in Seq(Line) \ {<< >>}
           /\ ParseText(WireIn(order, m)) = Carried(m)
<1>1. /\ m.headers \in [DOMAIN m.headers -> Seq(Label)]
      /\ DOMAIN m.headers \subseteq Key
      /\ m.headers = [k \in DOMAIN m.headers |-> m.headers[k]]
      /\ m.body \in Seq(Line) /\ m.body # << >>
  BY MsgParts DEF IsMessage
<1>2. /\ Ended(m.body) \in Seq(Line) /\ Ended(m.body) # << >>
      /\ Ended(m.body) = WithNewline(m.body)
  BY <1>1, NewlineTyped
<1>3. /\ DOMAIN order = 1 .. Len(order) /\ Len(order) \in Nat
      /\ \A i \in 1 .. Len(order) : order[i] \in DOMAIN m.headers
      /\ \A k \in DOMAIN m.headers : \E i \in 1 .. Len(order) : order[i] = k
  BY DEF Range
<1>4. Len(order) > 0
  BY <1>3
<1>5. PICK hs : hs = [i \in DOMAIN order |-> Header(order[i], m.headers[order[i]])]
  OBVIOUS
<1>6. \A i \in 1 .. Len(order) :
         /\ hs[i] \in Line /\ hs[i] # Fence /\ hs[i].kind = "header"
         /\ hs[i].key = order[i] /\ hs[i].val = m.headers[order[i]]
  BY <1>1, <1>3, <1>5, LineTyped DEF Header
<1>7. hs \in Seq(Line) /\ Len(hs) = Len(order)
  <2>1. hs \in [1 .. Len(order) -> Line]
    BY <1>3, <1>5, <1>6
  <2> QED
    BY <2>1, <1>3
<1>8. WireIn(order, m) = <<Fence>> \o hs \o <<Fence>> \o Ended(m.body)
  BY <1>5 DEF WireIn
<1>9. PICK w : w = WireIn(order, m)
  OBVIOUS
<1>10. /\ w \in Seq(Line) \ {<< >>}
       /\ \A i \in 1 .. Len(order) : w[i + 1] = hs[i]
       /\ ParseText(w) = [headers |-> HeadersOf(w, 2 .. Len(order) + 1),
                          body    |-> Ended(m.body)]
  <2>1. \A i \in 1 .. Len(hs) : hs[i] # Fence /\ hs[i].kind = "header"
    BY <1>6, <1>7
  <2>2. Len(hs) > 0
    BY <1>4, <1>7
  <2>3. IsText(w, hs, Ended(m.body))
    BY <1>2, <1>7, <1>8, <1>9, TextParts
  <2>4. /\ w \in Seq(Line) \ {<< >>}
        /\ \A i \in 1 .. Len(hs) : w[i + 1] = hs[i]
        /\ ParseText(w) = [headers |-> HeadersOf(w, 2 .. Len(hs) + 1), body |-> Ended(m.body)]
    <3>1. w \in Seq(Line) \ {<< >>}
      BY <1>2, <1>7, <2>1, <2>2, <2>3, HeadersAndBody
    <3>2. \A i \in 1 .. Len(hs) : w[i + 1] = hs[i]
      BY <1>2, <1>7, <2>1, <2>2, <2>3, HeadersAndBody
    <3>3. ParseText(w) = [headers |-> HeadersOf(w, 2 .. Len(hs) + 1), body |-> Ended(m.body)]
      BY <1>2, <1>7, <2>1, <2>2, <2>3, HeadersAndBody
    <3> QED
      BY <3>1, <3>2, <3>3
  <2> QED
    BY <2>4, <1>7, Zenon
<1>11. HeadersOf(w, 2 .. Len(order) + 1) = m.headers
  <2>1. \A i \in 1 .. Len(order) : /\ w[i + 1].key = order[i]
                                   /\ w[i + 1].val = m.headers[order[i]]
                                   /\ order[i] \in DOMAIN m.headers
    BY <1>3, <1>6, <1>10, Zenon
  <2>2. Follow(w, Len(order), order, DOMAIN m.headers, m.headers)
    BY <2>1, <1>3 DEF Follow
  <2>3. PICK n \in Nat, h \in [DOMAIN m.headers -> Seq(Label)] :
           n = Len(order) /\ h = m.headers
    BY <1>1, <1>3
  <2>4. Follow(w, n, order, DOMAIN m.headers, h)
    BY <2>2, <2>3, Zenon
  <2>5. HeadersOf(w, 2 .. n + 1) = h
    BY <2>4, HeadersReadBack, Zenon
  <2> QED
    BY <2>3, <2>5, Zenon
<1> QED
  BY <1>2, <1>9, <1>10, <1>11, Zenon DEF Carried

-----------------------------------------------------------------------------
(* The order of the hash map, which is any.                                *)

LEMMA KeysFinite ==
    ASSUME NEW K \in SUBSET Key
    PROVE  /\ Order[K] \in Seq(Key) /\ Range(Order[K]) = K
           /\ IsFiniteSet(K)
<1>1. Order[K] \in Seq(K) /\ Range(Order[K]) = K
  BY WireAssumption
<1>2. Order[K] \in [1 .. Len(Order[K]) -> K] /\ Len(Order[K]) \in Nat
  BY <1>1
<1>3. Order[K] \in Seq(Key)
  BY <1>1
<1>4. \A k \in K : \E i \in 1 .. Len(Order[K]) : Order[K][i] = k
  BY <1>1, <1>2 DEF Range
<1>5. Order[K] \in Surjection(1 .. Len(Order[K]), K)
  BY <1>2, <1>4 DEF Surjection
<1>6. IsFiniteSet(1 .. Len(Order[K]))
  BY <1>2, FS_Interval
<1> QED
  BY <1>1, <1>3, <1>5, <1>6, FS_Surjection

LEMMA OrderRange ==
    ASSUME NEW K \in SUBSET Key, NEW order \in SetToSeqs(K)
    PROVE  order \in Seq(Key) /\ Range(order) = K
<1>1. IsFiniteSet(K) /\ Cardinality(K) \in Nat
  BY KeysFinite, FS_CardinalityType
<1>2. PICK n \in Nat : n = Cardinality(K)
  BY <1>1
<1>3. /\ order \in [1 .. n -> K]
      /\ \A i, j \in 1 .. n : i # j => order[i] # order[j]
  BY <1>2 DEF SetToSeqs
<1>4. order \in Injection(1 .. n, K)
  <2>1. \A i, j \in 1 .. n : order[i] = order[j] => i = j
    BY <1>3
  <2> QED
    BY <2>1, <1>3 DEF Injection, IsInjective
<1>5. Cardinality(1 .. n) = n
  BY FS_Interval
<1>6. order \in Surjection(1 .. n, K)
  BY <1>1, <1>2, <1>4, <1>5, FS_Injection
<1>7. \A k \in K : \E i \in 1 .. n : order[i] = k
  BY <1>6 DEF Surjection
<1>8. order \in Seq(K)
  BY <1>3
<1>9. order \in Seq(Key)
  BY <1>8
<1> QED
  BY <1>3, <1>7, <1>9 DEF Range

LEMMA WireReads ==
    ASSUME NEW m \in Msg, IsMessage(m), DOMAIN m.headers # {}
    PROVE  Wire(m) \in Seq(Line) \ {<< >>} /\ ParseText(Wire(m)) = Carried(m)
<1>1. DOMAIN m.headers \in SUBSET Key
  BY MsgParts
<1>2. Order[DOMAIN m.headers] \in Seq(Key) /\ Range(Order[DOMAIN m.headers]) = DOMAIN m.headers
  BY <1>1, KeysFinite
<1> QED
  BY <1>2, RoundTrip DEF Wire

LEMMA WiresRead ==
    ASSUME NEW m \in Msg, IsMessage(m), DOMAIN m.headers # {}, NEW w \in Wires(m)
    PROVE  ParseText(w) = [m EXCEPT !.body = WithNewline(@)]
<1>1. DOMAIN m.headers \in SUBSET Key
  BY MsgParts
<1>2. PICK order \in SetToSeqs(DOMAIN m.headers) : w = WireIn(order, m)
  BY DEF Wires
<1>3. ParseText(w) = Carried(m)
  BY <1>1, <1>2, OrderRange, RoundTrip
<1>4. m = [headers |-> m.headers, body |-> m.body]
  BY MsgParts
<1>5. [m EXCEPT !.body = WithNewline(@)] = Carried(m)
  BY <1>4 DEF Carried
<1> QED
  BY <1>3, <1>5

-----------------------------------------------------------------------------
(* What is read of a text is a message, or nothing.                        *)

LEMMA HeadersTyped ==
    ASSUME NEW t \in Seq(Line), NEW S \in SUBSET {i \in 1 .. Len(t) : t[i].kind # "plain"}
    PROVE  \E K \in SUBSET Key : HeadersOf(t, S) \in [K -> Seq(Label)]
<1> DEFINE K == {t[i].key : i \in S}
           At(k) == {i \in S : t[i].key = k}
<1>1. \A i \in S : t[i].key \in Key /\ t[i].val \in Seq(Label)
  BY LineParts
<1>2. ASSUME NEW k \in K PROVE t[Max(At(k))].val \in Seq(Label)
  <2>1. At(k) \subseteq 0 .. Len(t) /\ At(k) # {} /\ Len(t) \in Nat
    <3>1. S \subseteq 1 .. Len(t) /\ Len(t) \in Nat
      OBVIOUS
    <3>2. 1 .. Len(t) \subseteq 0 .. Len(t)
      BY <3>1
    <3>3. At(k) \subseteq S /\ At(k) # {}
      BY Zenon
    <3> QED
      BY <3>1, <3>2, <3>3, Zenon
  <2>2. Max(At(k)) \in At(k)
    <3> HIDE DEF At
    <3> QED
      BY <2>1, MaxIsIn
  <2> QED
    BY <1>1, <2>2
<1>3. HeadersOf(t, S) \in [K -> Seq(Label)]
  BY <1>2 DEF HeadersOf
<1>4. K \in SUBSET Key
  BY <1>1
<1> QED
  BY <1>3, <1>4

LEMMA HeaderLinesIn ==
    ASSUME NEW t \in Seq(Line), NEW n \in Nat, n <= Len(t)
    PROVE  HeaderLines(t, n) \in SUBSET {i \in 1 .. Len(t) : t[i].kind # "plain"}
BY DEF HeaderLines

LEMMA NothingRead == NoMessage \in Msg /\ DOMAIN NoMessage.headers = {} /\ ~IsMessage(NoMessage)
<1>1. [k \in {} |-> << >>] \in [{} -> Seq(Label)]
  OBVIOUS
<1>2. << >> \in Seq(Line) /\ {} \in SUBSET Key
  OBVIOUS
<1>3. NoMessage \in Msg
  BY <1>1, <1>2, MsgMade DEF NoMessage
<1> QED
  BY <1>3 DEF NoMessage, IsMessage

LEMMA ClosedTyped ==
    ASSUME NEW t \in Seq(Line), t[1] = Fence, Closings(t) # {}
    PROVE  ParseText(t) \in Msg /\ IsMessage(ParseText(t))
<1>1. Closings(t) \subseteq Nat
  BY DEF Closings
<1>2. PICK c : c = Min(Closings(t)) /\ c \in 3 .. Len(t) - 1
  BY <1>1, MinIsIn DEF Closings
<1>3. c \in Nat /\ c - 1 \in Nat /\ c - 1 <= Len(t) /\ c < Len(t) /\ Len(t) \in Nat
  BY <1>2
<1>4. PICK K \in SUBSET Key : HeadersOf(t, HeaderLines(t, c - 1)) \in [K -> Seq(Label)]
  BY <1>3, HeaderLinesIn, HeadersTyped
<1>5. PICK b : b = SubSeq(t, c + 1, Len(t))
  OBVIOUS
<1>6. b \in Seq(Line) /\ Len(b) = Len(t) - c
  BY <1>3, <1>5
<1>7. b # << >>
  <2>1. Len(b) > 0
    BY <1>3, <1>6
  <2> QED
    BY <2>1
<1>8. PICK h \in [K -> Seq(Label)] : h = HeadersOf(t, HeaderLines(t, c - 1))
  BY <1>4
<1>9. ParseText(t) = [headers |-> h, body |-> b]
  BY <1>2, <1>5, <1>8, ParseClosed
<1>10. [headers |-> h, body |-> b] \in Msg
  BY <1>6, <1>8, MsgMade
<1> QED
  BY <1>7, <1>9, <1>10 DEF IsMessage

LEMMA CutTyped ==
    ASSUME NEW t \in Seq(Line), EndsInFence(t)
    PROVE  CutFence(t) \in Seq(Line) /\ Len(CutFence(t)) = Len(t)
<1>1. PICK n \in Nat : n = Len(t) /\ n > 2
  BY DEF EndsInFence
<1>2. PICK l \in Line : l = t[n - 1]
  BY <1>1
<1>3. l.val \in Seq(Label) /\ l.val # << >>
  BY <1>1, <1>2, LineParts DEF EndsInFence
<1>4. Front(l.val) \in Seq(Label)
  BY <1>3 DEF Front
<1>5. [l EXCEPT !.val = Front(@)] \in Line
  BY <1>4 DEF Line
<1>6. CutFence(t) = [t EXCEPT ![n - 1] = [l EXCEPT !.val = Front(@)]]
  BY <1>1, <1>2 DEF CutFence
<1> QED
  BY <1>1, <1>5, <1>6

LEMMA CutRead ==
    ASSUME NEW t \in Seq(Line), EndsInFence(t)
    PROVE  /\ [headers |-> HeadersOf(CutFence(t), HeaderLines(CutFence(t), Len(t) - 1)),
               body    |-> EmptyBody] \in Msg
           /\ EmptyBody # << >>
<1>1. CutFence(t) \in Seq(Line) /\ Len(CutFence(t)) = Len(t) /\ Len(t) > 2
  BY CutTyped DEF EndsInFence
<1>2. Len(t) - 1 \in Nat /\ Len(t) - 1 <= Len(CutFence(t))
  BY <1>1
<1>3. PICK K \in SUBSET Key :
         HeadersOf(CutFence(t), HeaderLines(CutFence(t), Len(t) - 1)) \in [K -> Seq(Label)]
  BY <1>1, <1>2, HeaderLinesIn, HeadersTyped
<1>4. EmptyBody \in Seq(Line) /\ EmptyBody # << >>
  BY LineTyped DEF EmptyBody
<1> QED
  BY <1>3, <1>4, MsgMade

(* A text is read as a message with a body, or as nothing at all.          *)
LEMMA ParseTyped ==
    ASSUME NEW t \in Seq(Line)
    PROVE  /\ ParseText(t) \in Msg
           /\ IsMessage(ParseText(t)) \/ ParseText(t) = NoMessage
<1>1. CASE t[1] = Fence /\ Closings(t) # {}
  BY <1>1, ClosedTyped
<1>2. CASE t[1] = Fence /\ Closings(t) = {} /\ EndsInFence(t)
  <2>1. ParseText(t) = [headers |-> HeadersOf(CutFence(t), HeaderLines(CutFence(t), Len(t) - 1)),
                        body    |-> EmptyBody]
    BY <1>2, Zenon DEF ParseText
  <2> QED
    BY <2>1, <1>2, CutRead DEF IsMessage
<1>3. CASE t[1] # Fence
  <2>1. ParseText(t) = NoMessage
    BY <1>3, Zenon DEF ParseText
  <2> QED
    BY <2>1, NothingRead
<1>4. CASE t[1] = Fence /\ Closings(t) = {} /\ ~EndsInFence(t)
  <2>1. ParseText(t) = NoMessage
    BY <1>4, Zenon DEF ParseText
  <2> QED
    BY <2>1, NothingRead
<1> QED
  BY <1>1, <1>2, <1>3, <1>4

-----------------------------------------------------------------------------
LEMMA WithHeaderTyped ==
    ASSUME NEW m \in Msg, IsMessage(m), NEW k \in Key, NEW v \in Seq(Label)
    PROVE  /\ WithHeader(m, k, v) \in Msg /\ IsMessage(WithHeader(m, k, v))
           /\ WithHeader(m, k, v).body = m.body
           /\ DOMAIN WithHeader(m, k, v).headers = DOMAIN m.headers \cup {k}
           /\ \A j \in DOMAIN m.headers \ {k} :
                 WithHeader(m, k, v).headers[j] = m.headers[j]
<1> DEFINE h == [j \in DOMAIN m.headers \cup {k} |-> IF j = k THEN v ELSE m.headers[j]]
<1>1. /\ DOMAIN m.headers \subseteq Key
      /\ m.headers \in [DOMAIN m.headers -> Seq(Label)]
      /\ m.body \in Seq(Line)
      /\ m = [headers |-> m.headers, body |-> m.body]
  BY MsgParts
<1>2. WithHeader(m, k, v) = [headers |-> h, body |-> m.body]
  BY DEF WithHeader
<1>3. h \in [DOMAIN m.headers \cup {k} -> Seq(Label)]
  BY <1>1
<1>4. DOMAIN m.headers \cup {k} \in SUBSET Key
  BY <1>1
<1>5. WithHeader(m, k, v) \in Msg
  BY <1>1, <1>2, <1>3, <1>4, MsgMade
<1>6. WithHeader(m, k, v).headers = h /\ WithHeader(m, k, v).body = m.body
  BY <1>2
<1> QED
  BY <1>5, <1>6 DEF IsMessage

-----------------------------------------------------------------------------
(* The offers of browsers, as the node reads them.                         *)

LEMMA LabelsTyped ==
    /\ "sdp-offer" \in Label /\ "sdp-answer" \in Label /\ "browser" \in Label
    /\ "sfu" \in Label /\ "peer" \in Label /\ "unknown" \in Label /\ "none" \in Label
    /\ "offer" \in Label /\ "junk" \in Label /\ "answer" \in Label
    /\ {"command", "from", "to", "id", "reply-to", "x-mesh-peer"} \subseteq Key
    /\ Home \in Seq(Label) /\ << >> \notin Node
    /\ Request \subseteq Label
BY RoutingAssumption, FreshRequests

LEMMA OfferRead ==
    ASSUME NEW r \in Request, NEW sdp \in {"offer", "junk"}
    PROVE  LET m == ParseText(OfferText(r, sdp)) IN
           /\ OfferText(r, sdp) \in Seq(Line) \ {<< >>}
           /\ DOMAIN m.headers = {"command", "from", "to", "id"}
           /\ m.headers["id"] = <<r>>
           /\ m.body = <<Plain(<<sdp, r>>), Blank>>
<1> DEFINE from == <<"browser">> \o Home \o <<"amp">>
           to == <<"sfu">> \o Home \o <<"amp">>
           order == <<"command", "from", "to", "id">>
           K == {"command", "from", "to", "id"}
           h == [k \in K |-> CASE k = "command" -> <<"sdp-offer">>
                               [] k = "from" -> from
                               [] k = "to" -> to
                               [] k = "id" -> <<r>>]
           hs == <<Header("command", <<"sdp-offer">>), Header("from", from),
                   Header("to", to), Header("id", <<r>>)>>
           e == <<Plain(<<sdp, r>>), Blank>>
           w == OfferText(r, sdp)
<1>1. from \in Seq(Label) /\ to \in Seq(Label) /\ <<r>> \in Seq(Label)
      /\ <<"sdp-offer">> \in Seq(Label) /\ <<sdp, r>> \in Seq(Label)
  BY LabelsTyped, AmpIsLabel
<1>2. /\ h["command"] = <<"sdp-offer">> /\ h["from"] = from
      /\ h["to"] = to /\ h["id"] = <<r>>
      /\ DOMAIN h = K
  <2> HIDE DEF from, to
  <2> QED
    BY Zenon
<1> HIDE DEF from, to
<1>3. h \in [K -> Seq(Label)]
  <2>1. \A k \in K : h[k] \in Seq(Label)
    BY <1>1, <1>2 DEF K
  <2>2. h = [k \in K |-> h[k]]
    BY Zenon
  <2> HIDE DEF h
  <2> QED
    BY <2>1, <2>2
<1> HIDE DEF h
<1>4. /\ hs[1] \in Line /\ hs[2] \in Line /\ hs[3] \in Line /\ hs[4] \in Line
      /\ \A i \in 1 .. 4 : hs[i] # Fence /\ hs[i].kind = "header"
  <2>1. /\ Header("command", <<"sdp-offer">>) \in Line
        /\ Header("command", <<"sdp-offer">>) # Fence
        /\ Header("command", <<"sdp-offer">>).kind = "header"
    BY <1>1, LabelsTyped, LineTyped
  <2>2. Header("from", from) \in Line /\ Header("from", from) # Fence
        /\ Header("from", from).kind = "header"
    BY <1>1, LabelsTyped, LineTyped
  <2>3. Header("to", to) \in Line /\ Header("to", to) # Fence /\ Header("to", to).kind = "header"
    BY <1>1, LabelsTyped, LineTyped
  <2>4. Header("id", <<r>>) \in Line /\ Header("id", <<r>>) # Fence
        /\ Header("id", <<r>>).kind = "header"
    BY <1>1, LabelsTyped, LineTyped
  <2> QED
    BY <2>1, <2>2, <2>3, <2>4
<1>5. hs \in Seq(Line) /\ Len(hs) = 4
  BY <1>4
<1>6. e \in Seq(Line) /\ e # << >>
  <2>1. Plain(<<sdp, r>>) \in Line /\ Blank \in Line
    BY <1>1, LineTyped
  <2> QED
    BY <2>1
<1>7. IsText(w, hs, e)
  <2>1. w = <<Fence, hs[1], hs[2], hs[3], hs[4], Fence, e[1], e[2]>>
    BY DEF OfferText, from, to
  <2>2. Fence \in Line /\ e[1] \in Line /\ e[2] \in Line /\ Len(e) = 2
    BY <1>6, LineTyped
  <2> HIDE DEF w, hs, e
  <2>3. w \in Seq(Line) /\ Len(w) = 8 /\ w[1] = Fence /\ w[6] = Fence
    BY <2>1, <2>2, <1>4
  <2>4. \A i \in 1 .. 4 : w[i + 1] = hs[i]
    BY <2>1
  <2>5. SubSeq(w, 7, 8) = e
    BY <2>1, <2>2, <2>3, <1>6
  <2> QED
    BY <2>2, <2>3, <2>4, <2>5, <1>5 DEF IsText
<1> HIDE DEF e, w
<1>8. PICK l \in Seq(Line), b \in Seq(Line), x \in {w} : l = hs /\ b = e /\ x = w
  BY <1>5, <1>6
<1>9. /\ Len(l) > 0 /\ Len(l) = 4 /\ b # << >>
      /\ \A i \in 1 .. Len(l) : l[i] # Fence /\ l[i].kind = "header"
      /\ IsText(x, l, b)
  BY <1>4, <1>5, <1>6, <1>7, <1>8
<1>a. l[1] = Header("command", <<"sdp-offer">>) /\ l[2] = Header("from", from)
      /\ l[3] = Header("to", to) /\ l[4] = Header("id", <<r>>)
  BY <1>8
<1> HIDE DEF hs
<1>10. x \in Seq(Line) \ {<< >>}
  BY <1>9, HeadersAndBody
<1>11. \A i \in 1 .. Len(l) : x[i + 1] = l[i]
  BY <1>9 DEF IsText
<1>12. ParseText(x) = [headers |-> HeadersOf(x, 2 .. Len(l) + 1), body |-> b]
  BY <1>9, HeadersAndBody
<1>13. Follow(x, Len(l), order, K, h)
  <2>1. /\ l[1].key = "command" /\ l[1].val = h["command"]
        /\ l[2].key = "from" /\ l[2].val = h["from"]
        /\ l[3].key = "to" /\ l[3].val = h["to"]
        /\ l[4].key = "id" /\ l[4].val = h["id"]
    BY <1>2, <1>a DEF Header
  <2>2. \A i \in 1 .. Len(l) : /\ x[i + 1].key = order[i] /\ x[i + 1].val = h[order[i]]
                               /\ order[i] \in K
    <3> SUFFICES ASSUME NEW i \in {1, 2, 3, 4}
                 PROVE  l[i].key = order[i] /\ l[i].val = h[order[i]] /\ order[i] \in K
      BY <1>9, <1>11
    <3> QED
      BY <2>1
  <2>3. \A k \in K : \E i \in 1 .. Len(l) : order[i] = k
    BY <1>9
  <2> QED
    BY <2>2, <2>3 DEF Follow
<1>14. HeadersOf(x, 2 .. Len(l) + 1) = h
  <2> HIDE DEF K, order
  <2>1. Len(l) \in Nat
    OBVIOUS
  <2> QED
    BY <2>1, <1>3, <1>13, HeadersReadBack
<1> QED
  BY <1>2, <1>8, <1>10, <1>12, <1>14 DEF e, w

LEMMA SourceTyped ==
    ASSUME NEW i \in Mail, NEW t \in Source(i)
    PROVE  t \in Seq(Line) /\ t # << >>
<1>1. CASE i \in Request
  <2>1. PICK sdp \in {"offer", "junk"} : t = OfferText(i, sdp)
    BY <1>1 DEF Source
  <2> QED
    BY <2>1, <1>1, OfferRead
<1>2. CASE i \notin Request
  BY <1>2, RoutingAssumption DEF Source
<1> QED
  BY <1>1, <1>2

-----------------------------------------------------------------------------
(* Answers                                                                 *)

LEMMA TrimTyped ==
    ASSUME NEW b \in Seq(Line)
    PROVE  TrimBody(b) \in Seq(Line)
<1> DEFINE full == {i \in DOMAIN b : b[i] # Blank}
<1>1. CASE full = {}
  BY <1>1 DEF TrimBody
<1>2. CASE full # {}
  <2>1. full \subseteq 0 .. Len(b) /\ full \subseteq Nat /\ full \subseteq 1 .. Len(b)
        /\ Len(b) \in Nat
    OBVIOUS
  <2>2. TrimBody(b) = SubSeq(b, Min(full), Max(full))
    BY <1>2 DEF TrimBody
  <2> HIDE DEF full
  <2>3. Min(full) \in full /\ Max(full) \in full
    BY <1>2, <2>1, MinIsIn, MaxIsIn
  <2>4. Min(full) \in 1 .. Len(b) /\ Max(full) \in 1 .. Len(b)
    BY <2>1, <2>3
  <2> QED
    BY <2>2, <2>4
<1> QED
  BY <1>1, <1>2

LEMMA FirstOnly ==
    ASSUME NEW S, NEW b \in Seq(S), Len(b) >= 1
    PROVE  SubSeq(b, 1, 1) = <<b[1]>>
<1>1. Len(SubSeq(b, 1, 1)) = 1 /\ SubSeq(b, 1, 1)[1] = b[1]
  OBVIOUS
<1>2. SubSeq(b, 1, 1) \in Seq(S) /\ <<b[1]>> \in Seq(S)
  OBVIOUS
<1>3. Len(<<b[1]>>) = 1 /\ <<b[1]>>[1] = b[1]
  OBVIOUS
<1>4. \A i \in 1 .. 1 : i = 1
  OBVIOUS
<1>5. \A i \in 1 .. Len(SubSeq(b, 1, 1)) : SubSeq(b, 1, 1)[i] = <<b[1]>>[i]
  BY <1>1, <1>3, <1>4
<1> QED
  BY <1>1, <1>2, <1>3, <1>5, SeqEqual

LEMMA TrimOne ==
    ASSUME NEW l \in Line, l # Blank
    PROVE  TrimBody(<<l>>) = <<l>> /\ TrimBody(<<l, Blank>>) = <<l>>
<1>1. Min({1}) = 1
  BY MinIsIn
<1>2. Max({1}) = 1
  <2>1. {1} \subseteq 0 .. 1 /\ {1} # {} /\ 1 \in Nat
    OBVIOUS
  <2> QED
    BY <2>1, MaxIsIn
<1>3. ASSUME NEW b \in {<<l>>, <<l, Blank>>}
      PROVE  TrimBody(b) = <<l>>
  <2> HIDE DEF Blank
  <2>1. {i \in DOMAIN b : b[i] # Blank} = {1}
    OBVIOUS
  <2>2. TrimBody(b) = SubSeq(b, 1, 1)
    BY <2>1, <1>1, <1>2 DEF TrimBody
  <2>3. b \in Seq(Line) /\ Len(b) >= 1 /\ b[1] = l
    <3>1. Blank \in Line
      BY LineTyped
    <3>2. CASE b = <<l>>
      BY <3>2
    <3>3. CASE b = <<l, Blank>>
      BY <3>1, <3>3
    <3> QED
      BY <3>2, <3>3
  <2>4. SubSeq(b, 1, 1) = <<b[1]>>
    BY <2>3, FirstOnly
  <2> QED
    BY <2>2, <2>3, <2>4
<1> QED
  BY <1>3

LEMMA GetTyped ==
    ASSUME NEW m \in Msg, NEW k, NEW d \in Label
    PROVE  Get(m, k, <<d>>) \in Seq(Label)
<1>1. m.headers \in [DOMAIN m.headers -> Seq(Label)]
  BY MsgParts
<1>2. <<d>> \in Seq(Label)
  OBVIOUS
<1> QED
  BY <1>1, <1>2 DEF Get

(* What an offer becomes on its way to the SFU.                            *)
LEMMA OfferParts ==
    ASSUME NEW m \in Msg, IsMessage(m), NEW c \in Offers(m)
    PROVE  /\ c.command = "sdp-offer"
           /\ c.id \in {Get(m, "id", <<d>>) : d \in {"none", "unknown"}}
           /\ c.from = Get(m, "from", <<"unknown">>) /\ c.to = Get(m, "to", <<"unknown">>)
           /\ c.id \in Seq(Label) /\ c.from \in Seq(Label) /\ c.to \in Seq(Label)
           /\ c.sdp \in {m.body, WithNewline(m.body)}
           /\ c.sdp \in Seq(Line)
<1>1. PICK x \in {m, Carried(m)}, d \in {"none", "unknown"} : c = SdpOffer(x, <<d>>)
  BY DEF Offers
<1>2. x.headers = m.headers /\ x.body \in {m.body, WithNewline(m.body)} /\ x.body \in Seq(Line)
  BY MsgParts, CarriedTyped
<1>3. \A k, v : Get(x, k, v) = Get(m, k, v)
  BY <1>2 DEF Get
<1>4. /\ c.command = "sdp-offer" /\ c.id = Get(m, "id", <<d>>)
      /\ c.from = Get(m, "from", <<"unknown">>) /\ c.to = Get(m, "to", <<"unknown">>)
      /\ c.sdp = x.body
  BY <1>1, <1>3 DEF SdpOffer
<1>5. /\ Get(m, "id", <<d>>) \in Seq(Label) /\ Get(m, "from", <<"unknown">>) \in Seq(Label)
      /\ Get(m, "to", <<"unknown">>) \in Seq(Label)
  BY LabelsTyped, GetTyped
<1> QED
  BY <1>2, <1>4, <1>5

LEMMA ReplyTyped ==
    ASSUME NEW c, NEW id \in Seq(Label), c.from \in Seq(Label), c.to \in Seq(Label)
    PROVE  /\ ReplyHeaders(c, id) \in [{"command", "from", "to", "reply-to"} -> Seq(Label)]
           /\ ReplyHeaders(c, id)["command"] = <<"sdp-answer">>
           /\ ReplyHeaders(c, id)["from"] = c.to /\ ReplyHeaders(c, id)["to"] = c.from
           /\ ReplyHeaders(c, id)["reply-to"] = id
<1> DEFINE h == ReplyHeaders(c, id)
           K == {"command", "from", "to", "reply-to"}
<1>1. /\ h["command"] = <<"sdp-answer">> /\ h["from"] = c.to
      /\ h["to"] = c.from /\ h["reply-to"] = id
      /\ h = [k \in K |-> h[k]]
  BY Zenon DEF ReplyHeaders
<1>2. <<"sdp-answer">> \in Seq(Label)
  BY LabelsTyped
<1> HIDE DEF h
<1>3. \A k \in K : h[k] \in Seq(Label)
  BY <1>1, <1>2
<1>4. h \in [K -> Seq(Label)]
  BY <1>1, <1>3
<1> QED
  BY <1>1, <1>4 DEF h

LEMMA AnswerTyped ==
    ASSUME NEW m \in Msg, IsMessage(m), NEW c \in Answered(m)
    PROVE  /\ Answer(c) \in Msg /\ IsMessage(Answer(c))
           /\ Answer(c).headers = ReplyHeaders(c, c.id)
           /\ DOMAIN Answer(c).headers = {"command", "from", "to", "reply-to"}
           /\ Answer(c).headers["from"] = c.to /\ Answer(c).headers["to"] = c.from
           /\ Answer(c).headers["reply-to"] = c.id
           /\ Answer(c).body = Accepts(c.sdp)
<1>1. /\ c \in Offers(m) /\ IsOffer(TrimBody(c.sdp))
  BY DEF Answered
<1>2. /\ c.id \in Seq(Label) /\ c.from \in Seq(Label) /\ c.to \in Seq(Label)
      /\ c.sdp \in Seq(Line)
  BY <1>1, OfferParts
<1>3. PICK l \in Line : l = TrimBody(c.sdp)[1] /\ l.val # << >>
  BY <1>1, <1>2, TrimTyped DEF IsOffer
<1>4. l.val \in Seq(Label)
  BY LineParts
<1>5. <<"answer">> \o Tail(l.val) \in Seq(Label)
  BY <1>3, <1>4, LabelsTyped
<1>6. Accepts(c.sdp) \in Seq(Line) /\ Accepts(c.sdp) # << >>
  <2>1. Accepts(c.sdp) = <<Plain(<<"answer">> \o Tail(l.val))>>
    BY <1>3 DEF Accepts
  <2>2. Plain(<<"answer">> \o Tail(l.val)) \in Line
    BY <1>5, LineTyped
  <2> QED
    BY <2>1, <2>2
<1>7. /\ ReplyHeaders(c, c.id) \in [{"command", "from", "to", "reply-to"} -> Seq(Label)]
      /\ ReplyHeaders(c, c.id)["from"] = c.to /\ ReplyHeaders(c, c.id)["to"] = c.from
      /\ ReplyHeaders(c, c.id)["reply-to"] = c.id
  BY <1>2, ReplyTyped
<1>8. {"command", "from", "to", "reply-to"} \in SUBSET Key
  BY LabelsTyped
<1>9. Answer(c) = [headers |-> ReplyHeaders(c, c.id), body |-> Accepts(c.sdp)]
  BY DEF Answer
<1>10. Answer(c) \in Msg
  BY <1>6, <1>7, <1>8, <1>9, MsgMade
<1> QED
  BY <1>6, <1>7, <1>9, <1>10 DEF IsMessage

LEMMA Pairs ==
    ASSUME NEW S, NEW a \in S, NEW b \in S
    PROVE  /\ Tail(<<a, b>>) = <<b>>
           /\ <<a>> \o <<b>> = <<a, b>>
           /\ Append(<<a>>, b) = <<a, b>>
           /\ Last(<<a>>) = a /\ Last(<<a, b>>) = b
<1>1. <<a>> \in Seq(S) /\ <<b>> \in Seq(S) /\ <<a, b>> \in Seq(S)
  OBVIOUS
<1>2. Tail(<<a, b>>) = <<b>>
  BY <1>1
<1>3. Append(<<a>>, b) = <<a, b>>
  <2>1. /\ Append(<<a>>, b) \in Seq(S) /\ Len(Append(<<a>>, b)) = 2
        /\ Append(<<a>>, b)[1] = a /\ Append(<<a>>, b)[2] = b
    BY <1>1, AppendProperties
  <2>2. Len(<<a, b>>) = 2 /\ <<a, b>>[1] = a /\ <<a, b>>[2] = b
    OBVIOUS
  <2>3. \A i \in 1 .. 2 : i = 1 \/ i = 2
    OBVIOUS
  <2>4. \A i \in 1 .. Len(Append(<<a>>, b)) : Append(<<a>>, b)[i] = <<a, b>>[i]
    BY <2>1, <2>2, <2>3
  <2> QED
    BY <2>1, <2>2, <2>4, <1>1, SeqEqual
<1>4. <<a>> \o <<b>> = Append(<<a>>, b)
  BY <1>1, AppendIsConcat
<1>5. Last(<<a>>) = a /\ Last(<<a, b>>) = b
  BY DEF Last
<1> QED
  BY <1>2, <1>3, <1>4, <1>5

(* What the SFU answers to the offer of a browser.                         *)
LEMMA AnswerToBrowser ==
    ASSUME NEW r \in Request, NEW t \in Source(r), NEW c \in Offers(ParseText(t))
    PROVE  TrimBody(WithNewline(Accepts(c.sdp))) = ReplyText(r)
<1>1. PICK s \in {"offer", "junk"} : t = OfferText(r, s)
  BY DEF Source
<1>2. PICK m : m = ParseText(t)
  OBVIOUS
<1>3. PICK p : p = Plain(<<s, r>>)
  OBVIOUS
<1>4. m.body = <<p, Blank>> /\ t \in Seq(Line)
  BY <1>1, <1>2, <1>3, OfferRead
<1>5. p \in Line /\ p # Blank /\ p.val = <<s, r>> /\ Blank \in Line
  <2>1. <<s, r>> \in Seq(Label) /\ <<s, r>> # << >>
    BY LabelsTyped
  <2>2. p.val = <<s, r>> /\ Blank.val = << >>
    BY <1>3 DEF Plain, Blank
  <2> QED
    BY <2>1, <2>2, <1>3, LineTyped
<1>6. m \in Msg /\ IsMessage(m)
  <2>1. m.body # << >>
    BY <1>4
  <2> QED
    BY <2>1, <1>2, <1>4, ParseTyped DEF IsMessage
<1>7. c.sdp \in {m.body, WithNewline(m.body)}
  BY <1>2, <1>6, OfferParts
<1> HIDE DEF Blank
<1>8. WithNewline(m.body) = <<p, Blank>>
  BY <1>4, <1>5 DEF WithNewline, Last
<1>9. TrimBody(c.sdp) = <<p>>
  BY <1>4, <1>5, <1>7, <1>8, TrimOne
<1>10. PICK a : a = Plain(<<"answer", r>>)
  OBVIOUS
<1>11. Accepts(c.sdp) = <<a>>
  <2>1. s \in Label /\ r \in Label /\ "answer" \in Label
    BY LabelsTyped
  <2>2. <<"answer">> \o Tail(<<s, r>>) = <<"answer", r>>
    BY <2>1, Pairs, Zenon
  <2>3. TrimBody(c.sdp)[1].val = <<s, r>>
    BY <1>5, <1>9
  <2> QED
    BY <2>2, <2>3, <1>10, Zenon DEF Accepts
<1>12. a \in Line /\ a # Blank
  <2>1. <<"answer", r>> \in Seq(Label) /\ <<"answer", r>> # << >>
    BY LabelsTyped
  <2>2. a.val = <<"answer", r>> /\ Blank.val = << >>
    BY <1>10 DEF Plain, Blank
  <2> QED
    BY <2>1, <2>2, <1>10, LineTyped
<1>13. WithNewline(<<a>>) = <<a, Blank>>
  <2>1. Last(<<a>>) = a /\ Append(<<a>>, Blank) = <<a, Blank>>
    BY <1>5, <1>12, Pairs, Zenon
  <2> QED
    BY <2>1, <1>12, Zenon DEF WithNewline
<1> QED
  BY <1>10, <1>11, <1>12, <1>13, TrimOne DEF ReplyText

(* No message of Laravel answers a request, nor is it one; a request is    *)
(* not an answer.                                                          *)
LEMMA Fresh ==
    ASSUME NEW i \in Mail, NEW t \in Source(i), NEW q \in Request
    PROVE  /\ Get(ParseText(t), "reply-to", << >>) # <<q>>
           /\ IsMessage(ParseText(t)) =>
                 \A c \in Offers(ParseText(t)) : c.id = <<q>> => i = q
<1> DEFINE m == ParseText(t)
<1>1. t \in Seq(Line) /\ m \in Msg
  BY SourceTyped, ParseTyped
<1>2. CASE i \in Request
  <2>1. PICK s \in {"offer", "junk"} : t = OfferText(i, s)
    BY <1>2 DEF Source
  <2>2. /\ DOMAIN m.headers = {"command", "from", "to", "id"}
        /\ m.headers["id"] = <<i>>
    BY <2>1, <1>2, OfferRead
  <2> HIDE DEF m
  <2>3. Get(m, "reply-to", << >>) = << >> /\ \A v : Get(m, "id", v) = <<i>>
    BY <2>2 DEF Get
  <2>4. << >> # <<q>> /\ (<<i>> = <<q>> => i = q)
    OBVIOUS
  <2>5. ASSUME IsMessage(m), NEW c \in Offers(m) PROVE c.id = <<i>>
    BY <2>3, <2>5, <1>1, OfferParts
  <2> QED
    BY <2>3, <2>4, <2>5 DEF m
<1>3. CASE i \notin Request
  <2>1. /\ Get(m, "id", << >>) # <<q>> /\ Get(m, "reply-to", << >>) # <<q>>
        /\ q \notin {"none", "unknown"}
    BY <1>3, FreshRequests DEF Source
  <2> HIDE DEF m
  <2>2. \A v : Get(m, "id", v) \in {v, Get(m, "id", << >>)}
    BY DEF Get
  <2>3. ASSUME IsMessage(m), NEW c \in Offers(m) PROVE c.id # <<q>>
    <3>1. PICK d \in {"none", "unknown"} : c.id = Get(m, "id", <<d>>)
      BY <2>3, <1>1, OfferParts
    <3>2. <<d>> # <<q>>
      BY <2>1
    <3> QED
      BY <3>1, <3>2, <2>1, <2>2
  <2> QED
    BY <2>1, <2>3 DEF m
<1> QED
  BY <1>2, <1>3

LEMMA NothingFiled ==
    ASSUME NEW n, NEW x, SlotsOK(pending), \A q \in Request : Get(x, "reply-to", << >>) # <<q>>
    PROVE  SlotsOK(Callback(n, x)) /\ DOMAIN Callback(n, x) = DOMAIN pending
BY DEF SlotsOK, Callback

LEMMA AnswerFiled ==
    ASSUME NEW n, NEW i \in Mail, NEW t \in Source(i), SlotsOK(pending),
           IsMessage(ParseText(t)), NEW c \in Answered(ParseText(t))
    PROVE  LET x == ParseText(Wire(Answer(c))) IN
           SlotsOK(Callback(n, x)) /\ DOMAIN Callback(n, x) = DOMAIN pending
<1> DEFINE m == ParseText(t)
           x == ParseText(Wire(Answer(c)))
<1>1. t \in Seq(Line) /\ m \in Msg /\ c \in Offers(m)
  BY SourceTyped, ParseTyped DEF Answered
<1>2. /\ Answer(c) \in Msg /\ IsMessage(Answer(c))
      /\ DOMAIN Answer(c).headers = {"command", "from", "to", "reply-to"}
      /\ Answer(c).headers["reply-to"] = c.id
      /\ Answer(c).body = Accepts(c.sdp)
  BY <1>1, AnswerTyped
<1>3. x = Carried(Answer(c))
  BY <1>2, WireReads
<1>4. x.headers = Answer(c).headers /\ x.body = WithNewline(Accepts(c.sdp))
  BY <1>2, <1>3, CarriedTyped
<1>5. Get(x, "reply-to", << >>) = c.id
  BY <1>2, <1>4 DEF Get
<1>6. ASSUME NEW q \in Request, c.id = <<q>>
      PROVE  TrimBody(x.body) = ReplyText(q)
  BY <1>1, <1>4, <1>6, Fresh, AnswerToBrowser
<1> HIDE DEF x, m
<1>7. SlotsOK(Callback(n, x))
  BY <1>5, <1>6 DEF SlotsOK, Callback
<1>8. DOMAIN Callback(n, x) = DOMAIN pending
  BY DEF Callback
<1> QED
  BY <1>7, <1>8 DEF x

-----------------------------------------------------------------------------
(* Commands                                                                *)

LEMMA RelayFromTyped ==
    ASSUME NEW m \in Msg
    PROVE  RelayFrom(m) \in Seq(Label)
<1>1. \A k \in DOMAIN m.headers : m.headers[k] \in Seq(Label)
  BY MsgParts
<1>2. \A k \in DOMAIN m.headers : ParseAddress(m.headers[k]).node \in Seq(Label)
  BY <1>1, NodeIsLast
<1> QED
  BY <1>1, <1>2 DEF RelayFrom, Has

(* What the dispatcher makes of a message for the SFU.                     *)
LEMMA CommandParts ==
    ASSUME NEW m \in Msg, NEW c \in ParseCommand(m)
    PROVE  \/ c = SdpOffer(m, <<"unknown">>)
           \/ /\ c.command \in {"relay-subscribe", "relay-unsubscribe"}
              /\ c.room \in Seq(Label) /\ c.from \in Seq(Label)
           \/ c = [command |-> "relay-data"]
<1> DEFINE O == Command(m) = <<"sdp-offer">>
           R == Command(m) \in {<<"relay-subscribe">>, <<"relay-unsubscribe">>}
           D == Command(m) = <<"relay-data">>
<1>1. (O => ~R /\ ~D) /\ (R => ~O /\ ~D) /\ (D => ~O /\ ~R)
  BY DEF O, R, D
<1>2. CASE O
  <2>1. ParseCommand(m) = {SdpOffer(m, <<"unknown">>)}
    BY <1>1, <1>2, Zenon DEF ParseCommand, O, R, D
  <2> QED
    BY <2>1
<1>3. CASE R
  <2>1. ParseCommand(m) =
           IF Has(m, "room") /\ RelayFrom(m) # << >>
             THEN {[command |-> Command(m)[1], room |-> m.headers["room"], from |-> RelayFrom(m)]}
             ELSE {}
    BY <1>1, <1>3, Zenon DEF ParseCommand, O, R, D
  <2>2. /\ Has(m, "room")
        /\ c = [command |-> Command(m)[1], room |-> m.headers["room"], from |-> RelayFrom(m)]
    BY <2>1
  <2>3. Command(m)[1] \in {"relay-subscribe", "relay-unsubscribe"}
    BY <1>3
  <2>4. m.headers["room"] \in Seq(Label)
    BY <2>2, MsgParts DEF Has
  <2> QED
    BY <2>2, <2>3, <2>4, RelayFromTyped
<1>4. CASE D
  <2>1. ParseCommand(m) = IF TrimBody(m.body) = <<Plain(<<"packet">>)>>
                            THEN {[command |-> "relay-data"]} ELSE {}
    BY <1>1, <1>4, Zenon DEF ParseCommand, O, R, D
  <2> QED
    BY <2>1
<1>5. CASE ~O /\ ~R /\ ~D
  <2>1. ParseCommand(m) = {}
    BY <1>5, Zenon DEF ParseCommand, O, R, D
  <2> QED
    BY <2>1
<1> QED
  BY <1>2, <1>3, <1>4, <1>5

(* A command at an SFU is an offer, or of the relay.                       *)
LEMMA CommandsAre ==
    ASSUME NEW m \in Msg, IsMessage(m), NEW c \in Commands(m)
    PROVE  /\ c.command = "sdp-offer" => c \in Offers(m)
           /\ c.command \in {"relay-subscribe", "relay-unsubscribe"} =>
                 c.room \in Seq(Label) /\ c.from \in Seq(Label)
<1>1. CASE c \in Offers(m)
  BY <1>1, OfferParts
<1>2. CASE c \in ParseCommand(Carried(m))
  <2>1. Carried(m) \in Msg
    BY CarriedTyped
  <2>2. CASE c = SdpOffer(Carried(m), <<"unknown">>)
    <3>1. c \in Offers(m)
      BY <2>2 DEF Offers
    <3> QED
      BY <3>1, OfferParts
  <2>3. CASE /\ c.command \in {"relay-subscribe", "relay-unsubscribe"}
             /\ c.room \in Seq(Label) /\ c.from \in Seq(Label)
    BY <2>3
  <2>4. CASE c = [command |-> "relay-data"]
    BY <2>4
  <2> QED
    BY <1>2, <2>1, <2>2, <2>3, <2>4, CommandParts
<1> QED
  BY <1>1, <1>2 DEF Commands

-----------------------------------------------------------------------------
(* The steps                                                               *)

(* A message that was handed over moves, and what else the step does is in *)
(* order.                                                                  *)
LEMMA MailMoves ==
    ASSUME Inv, NEW i \in Mail, NEW x,
           mail[i].at # "nowhere", x.at # "nowhere",
           mail' = [mail EXCEPT ![i] = x],
           MailOK(i, x, sent[i]),
           subs' \in [SfuNode -> SUBSET (Seq(Label) \X Seq(Label))],
           SlotsOK(pending'), DOMAIN pending' = DOMAIN pending,
           answer' = [k \in Mail |-> answer'[k]],
           \A k \in Mail : \/ answer'[k] = answer[k]
                           \/ k = i /\ AnswerOK(answer'[k], x, sent[i]),
           UNCHANGED <<sent, client, poll>>
    PROVE  Inv'
<1>1. mail' = [k \in Mail |-> mail'[k]] /\ mail'[i] = x
      /\ \A k \in Mail \ {i} : mail'[k] = mail[k]
  BY DEF Inv
<1>2. \A k \in Mail : MailOK(k, mail'[k], sent'[k])
  BY <1>1 DEF Inv
<1>3. \A k \in Mail : AnswerOK(answer'[k], mail'[k], sent'[k])
  <2> SUFFICES ASSUME NEW k \in Mail PROVE AnswerOK(answer'[k], mail'[k], sent[k])
    OBVIOUS
  <2>1. CASE answer'[k] = answer[k]
    <3>1. AnswerOK(answer[k], mail[k], sent[k])
      BY DEF Inv
    <3>2. mail[k].at # "nowhere" => mail'[k].at # "nowhere"
      BY <1>1
    <3> QED
      BY <2>1, <3>1, <3>2 DEF AnswerOK
  <2>2. CASE k = i /\ AnswerOK(answer'[k], x, sent[i])
    BY <2>2, <1>1
  <2> QED
    BY <2>1, <2>2
<1>4. \A r \in Request : client'[r] = "idle" => mail'[r] = Nowhere
  <2>1. Nowhere.at = "nowhere"
    BY DEF Nowhere, Text
  <2> QED
    BY <1>1, <2>1 DEF Inv, Mail
<1>5. \A r \in Request : PollOK(r, DOMAIN pending', client'[r], poll'[r])
  BY DEF Inv
<1> QED
  BY <1>1, <1>2, <1>3, <1>4, <1>5 DEF Inv

(* A message moves, and that is all.                                       *)
LEMMA OnlyMailMoves ==
    ASSUME Inv, NEW i \in Mail, NEW x,
           mail[i].at # "nowhere", x.at # "nowhere",
           mail' = [mail EXCEPT ![i] = x],
           MailOK(i, x, sent[i]),
           UNCHANGED <<sent, answer, subs, pending, client, poll>>
    PROVE  Inv'
<1>1. /\ subs' \in [SfuNode -> SUBSET (Seq(Label) \X Seq(Label))]
      /\ SlotsOK(pending') /\ DOMAIN pending' = DOMAIN pending
      /\ answer' = [k \in Mail |-> answer'[k]]
      /\ \A k \in Mail : answer'[k] = answer[k]
  BY DEF Inv
<1> QED
  BY <1>1, MailMoves

(* What is known of a message that was handed over.                        *)
LEMMA HandedOver ==
    ASSUME Inv, NEW i \in Mail, mail[i].at # "nowhere"
    PROVE  LET m == ParseText(sent[i]) IN
           /\ sent[i] \in Source(i) /\ sent[i] \in Seq(Line)
           /\ m \in Msg
           /\ \A n : Addressed(m, n) =>
                 DOMAIN m.headers # {} /\ n \in Node /\ n # << >>
<1>1. sent[i] \in Source(i)
  BY DEF Inv, MailOK
<1>2. sent[i] \in Seq(Line)
  BY <1>1, SourceTyped
<1>3. ParseText(sent[i]) \in Msg
  BY <1>2, ParseTyped
<1> QED
  BY <1>1, <1>2, <1>3, LabelsTyped DEF Addressed, Has

(* A message stops where it is.                                            *)
LEMMA Stays ==
    ASSUME Inv, NEW i \in Mail, mail[i].at # "nowhere",
           NEW a \in {"refused", "lost", "unanswered", "done"},
           a \in {"unanswered", "done"} => Addressed(ParseText(sent[i]), mail[i].node)
    PROVE  LET x == [mail[i] EXCEPT !.at = a] IN
           /\ [mail EXCEPT ![i].at = a] = [mail EXCEPT ![i] = x]
           /\ x.at = a /\ MailOK(i, x, sent[i])
<1>1. IsPlace(mail[i])
  BY DEF Inv, MailOK
<1>2. sent[i] \in Source(i)
  BY HandedOver
<1>3. PICK p, n, t, y : mail[i] = [at |-> p, node |-> n, text |-> t, item |-> y]
                        /\ n \in Node \cup {<< >>}
  BY <1>1 DEF IsPlace
<1>4. [mail[i] EXCEPT !.at = a] = [at |-> a, node |-> n, text |-> t, item |-> y]
  BY <1>3
<1>5. IsPlace([mail[i] EXCEPT !.at = a])
  BY <1>3, <1>4 DEF IsPlace
<1>6. MailOK(i, [mail[i] EXCEPT !.at = a], sent[i])
  BY <1>2, <1>4, <1>5 DEF MailOK
<1> QED
  BY <1>4, <1>6

LEMMA SendStep ==
    ASSUME Inv, NEW i \in Mail, Send(i)
    PROVE  Inv'
<1> DEFINE m == ParseText(mail[i].text)
           n == mail[i].node
<1>1. /\ mail[i].at = "handed" /\ mail[i].text = sent[i] /\ n \in Node
      /\ m = ParseText(sent[i]) /\ m \in Msg /\ sent[i] \in Source(i)
      /\ UNCHANGED <<sent, answer, subs, pending, client, poll>>
  BY HandedOver DEF Inv, MailOK, Send
<1>2. CASE /\ IsMessage(m) /\ ToLocalSfu(n, m)
           /\ \E noId \in {"none", "unknown"} :
                 mail' = [mail EXCEPT ![i] = Item("sfu", n, SdpOffer(m, <<noId>>))]
  <2>1. PICK noId \in {"none", "unknown"} :
            mail' = [mail EXCEPT ![i] = Item("sfu", n, SdpOffer(m, <<noId>>))]
    BY <1>2
  <2>2. PICK c \in Commands(m) : c = SdpOffer(m, <<noId>>)
    BY DEF Commands, Offers
  <2>3. n \in SfuNode /\ Addressed(m, n)
    BY <1>1, <1>2 DEF ToLocalSfu, Addressed
  <2> DEFINE x == Item("sfu", n, c)
  <2>4. x.at = "sfu" /\ x.node = n /\ x.item = c
    BY DEF Item
  <2>5. IsPlace(x)
    BY <1>1 DEF Item, IsPlace
  <2>6. MailOK(i, x, sent[i])
    <3> HIDE DEF x
    <3> QED
      BY <1>1, <2>3, <2>4, <2>5 DEF MailOK
  <2>7. mail' = [mail EXCEPT ![i] = x]
    BY <2>1, <2>2
  <2> HIDE DEF x, m, n
  <2> QED
    BY <1>1, <2>4, <2>6, <2>7, OnlyMailMoves
<1>3. CASE /\ IsMessage(m) /\ TargetOf(m) \in Node \ {n}
           /\ mail' = [mail EXCEPT ![i] = Text("wire", TargetOf(m), Wire(m))]
  <2>1. PICK to \in Node : to = TargetOf(m)
    BY <1>3
  <2>2. Has(m, "to")
    BY <2>1, LabelsTyped DEF TargetOf
  <2>3. Addressed(m, to)
    BY <1>3, <2>1, <2>2 DEF Addressed
  <2> DEFINE x == Text("wire", to, Wire(m))
  <2>4. x.at = "wire" /\ x.node = to /\ x.text = Wire(m)
    BY DEF Text
  <2>5. IsPlace(x)
    BY DEF Text, IsPlace
  <2>6. MailOK(i, x, sent[i])
    <3> HIDE DEF x
    <3> QED
      BY <1>1, <2>3, <2>4, <2>5 DEF MailOK
  <2>7. mail' = [mail EXCEPT ![i] = x]
    BY <1>3, <2>1
  <2> HIDE DEF x, m, n
  <2> QED
    BY <1>1, <2>4, <2>6, <2>7, OnlyMailMoves
<1>4. CASE mail' = [mail EXCEPT ![i].at = "refused"]
  BY <1>1, <1>4, Stays, OnlyMailMoves
<1> QED
  <2>1. \/ /\ IsMessage(m) /\ ToLocalSfu(n, m)
           /\ \E noId \in {"none", "unknown"} :
                 mail' = [mail EXCEPT ![i] = Item("sfu", n, SdpOffer(m, <<noId>>))]
        \/ /\ IsMessage(m) /\ TargetOf(m) \in Node \ {n}
           /\ mail' = [mail EXCEPT ![i] = Text("wire", TargetOf(m), Wire(m))]
        \/ mail' = [mail EXCEPT ![i].at = "refused"]
    BY Zenon DEF Send
  <2> QED
    BY <2>1, <1>2, <1>3, <1>4

LEMMA LoseStep ==
    ASSUME Inv, NEW i \in Mail, LoseOnTheWay(i)
    PROVE  Inv'
<1>1. /\ mail[i].at = "wire" /\ mail' = [mail EXCEPT ![i].at = "lost"]
      /\ UNCHANGED <<sent, answer, subs, pending, client, poll>>
  BY DEF LoseOnTheWay
<1> QED
  BY <1>1, Stays, OnlyMailMoves

LEMMA ReceiveStep ==
    ASSUME Inv, NEW i \in Mail, Receive(i)
    PROVE  Inv'
<1> DEFINE m == ParseText(sent[i])
           n == mail[i].node
<1>1. /\ mail[i].at = "wire" /\ mail[i].text = Wire(m) /\ Addressed(m, n)
      /\ sent[i] \in Source(i)
      /\ m \in Msg /\ IsMessage(m) /\ DOMAIN m.headers # {}
  BY HandedOver DEF Inv, MailOK, Receive, Addressed
<1>2. ParseText(mail[i].text) = Carried(m)
  BY <1>1, WireReads
<1>3. IsMessage(Carried(m)) /\ ~IsEmpty(Carried(m))
  BY <1>1, CarriedTyped DEF IsEmpty
<1> DEFINE x == Item("inbound", n, Carried(m))
<1>4. /\ mail' = [mail EXCEPT ![i] = x]
      /\ UNCHANGED <<sent, answer, subs, pending, client, poll>>
  BY <1>2, <1>3 DEF Receive, Item
<1>5. x.at = "inbound" /\ x.node = n /\ x.item = Carried(m)
  BY DEF Item
<1>6. IsPlace(x)
  BY <1>1 DEF Item, IsPlace, Addressed
<1>7. MailOK(i, x, sent[i])
  <2> HIDE DEF x
  <2> QED
    BY <1>1, <1>5, <1>6 DEF MailOK
<1> HIDE DEF x, m, n
<1> QED
  BY <1>1, <1>4, <1>5, <1>7, OnlyMailMoves

LEMMA DispatchStep ==
    ASSUME Inv, NEW i \in Mail, DispatchInbound(i)
    PROVE  Inv'
<1> DEFINE m == ParseText(sent[i])
           n == mail[i].node
           bridged == Wire(WithHeader(Carried(m), "x-mesh-peer", <<"peer">>))
           posted == Wire(Carried(m))
<1>1. /\ mail[i].at = "inbound" /\ mail[i].item = Carried(m) /\ Addressed(m, n)
      /\ sent[i] \in Source(i) /\ sent[i] \in Seq(Line) /\ n \in Node
      /\ m \in Msg /\ IsMessage(m) /\ DOMAIN m.headers # {}
      /\ UNCHANGED <<sent, answer, subs, client, poll>>
  BY HandedOver DEF Inv, MailOK, DispatchInbound, Addressed
<1>2. /\ SlotsOK(pending) /\ subs \in [SfuNode -> SUBSET (Seq(Label) \X Seq(Label))]
      /\ answer = [k \in Mail |-> answer[k]]
  BY DEF Inv
<1>3. CASE /\ UNCHANGED pending
           /\ n \in SfuNode
           /\ \E c \in ParseCommand(Carried(m)) : mail' = [mail EXCEPT ![i] = Item("sfu", n, c)]
  <2>1. PICK c \in ParseCommand(Carried(m)) : mail' = [mail EXCEPT ![i] = Item("sfu", n, c)]
    BY <1>3
  <2> DEFINE x == Item("sfu", n, c)
  <2>2. x.at = "sfu" /\ x.node = n /\ x.item = c /\ IsPlace(x) /\ c \in Commands(m)
    BY <1>1 DEF Item, IsPlace, Commands
  <2>3. MailOK(i, x, sent[i])
    <3> HIDE DEF x
    <3> QED
      BY <1>1, <1>3, <2>2 DEF MailOK
  <2> HIDE DEF x, m, n
  <2> QED
    BY <1>1, <1>3, <2>1, <2>2, <2>3, OnlyMailMoves DEF x
<1>4. ASSUME NEW t \in {posted, bridged}
      PROVE  LET x == Text("laravel", n, t) IN
             x.at = "laravel" /\ MailOK(i, x, sent[i])
  <2> DEFINE x == Text("laravel", n, t)
  <2>1. x.at = "laravel" /\ x.node = n /\ x.text = t /\ IsPlace(x)
    BY <1>1 DEF Text, IsPlace
  <2>2. MailOK(i, x, sent[i])
    <3> HIDE DEF x
    <3> QED
      BY <1>1, <2>1 DEF MailOK
  <2> QED
    BY <2>1, <2>2
<1>5. CASE UNCHANGED pending /\ mail' = [mail EXCEPT ![i] = Text("laravel", n, bridged)]
  <2> HIDE DEF m, n, posted, bridged
  <2> QED
    BY <1>1, <1>4, <1>5, OnlyMailMoves
<1>6. CASE /\ mail' = [mail EXCEPT ![i] = Text("laravel", n, posted)]
           /\ pending' = Callback(n, ParseText(posted))
  <2>1. /\ Carried(m) \in Msg /\ IsMessage(Carried(m)) /\ DOMAIN Carried(m).headers # {}
        /\ Carried(m).headers = m.headers /\ Carried(Carried(m)) = Carried(m)
    BY <1>1, CarriedTyped
  <2>2. ParseText(posted) = Carried(m)
    BY <2>1, WireReads
  <2>3. \A q \in Request : Get(Carried(m), "reply-to", << >>) # <<q>>
    BY <1>1, <2>1, Fresh DEF Get
  <2>4. SlotsOK(pending') /\ DOMAIN pending' = DOMAIN pending
    BY <1>2, <1>6, <2>2, <2>3, NothingFiled
  <2> HIDE DEF m, n, posted, bridged
  <2> QED
    BY <1>1, <1>2, <1>4, <1>6, <2>4, MailMoves
<1>7. CASE UNCHANGED pending /\ mail' = [mail EXCEPT ![i].at = "lost"]
  BY <1>1, <1>7, Stays, OnlyMailMoves
<1> QED
  <2>1. \/ /\ UNCHANGED pending
           /\ n \in SfuNode
           /\ \E c \in ParseCommand(Carried(m)) : mail' = [mail EXCEPT ![i] = Item("sfu", n, c)]
        \/ UNCHANGED pending /\ mail' = [mail EXCEPT ![i] = Text("laravel", n, bridged)]
        \/ /\ mail' = [mail EXCEPT ![i] = Text("laravel", n, posted)]
           /\ pending' = Callback(n, ParseText(posted))
        \/ UNCHANGED pending /\ mail' = [mail EXCEPT ![i].at = "lost"]
    <3> HIDE DEF m
    <3> QED
      BY <1>1 DEF DispatchInbound
  <2> QED
    BY <2>1, <1>3, <1>5, <1>6, <1>7

LEMMA TakeStep ==
    ASSUME Inv, NEW i \in Mail, TakeCommand(i)
    PROVE  Inv'
<1> DEFINE m == ParseText(sent[i])
           n == mail[i].node
           c == mail[i].item
           good == c.command = "sdp-offer" /\ IsOffer(TrimBody(c.sdp))
           a == IF c.command = "sdp-offer" /\ ~good THEN "unanswered" ELSE "done"
           x == [mail[i] EXCEPT !.at = a]
           e == Item("event", n, Answer(c))
<1>1. /\ mail[i].at = "sfu" /\ c \in Commands(m) /\ Addressed(m, n)
      /\ n \in SfuNode /\ n \in Node
      /\ m \in Msg /\ IsMessage(m)
      /\ mail' = [mail EXCEPT ![i].at = a]
      /\ answer' = IF good THEN [answer EXCEPT ![i] = e] ELSE answer
      /\ UNCHANGED <<sent, pending, client, poll>>
  BY HandedOver DEF Inv, MailOK, TakeCommand, Addressed
<1>2. /\ SlotsOK(pending) /\ subs \in [SfuNode -> SUBSET (Seq(Label) \X Seq(Label))]
      /\ answer = [k \in Mail |-> answer[k]]
  BY DEF Inv
<1>3. /\ c.command = "sdp-offer" => c \in Offers(m)
      /\ c.command \in {"relay-subscribe", "relay-unsubscribe"} =>
            c.room \in Seq(Label) /\ c.from \in Seq(Label)
  BY <1>1, CommandsAre
<1>4. mail' = [mail EXCEPT ![i] = x] /\ x.at = a /\ a \in {"unanswered", "done"}
      /\ MailOK(i, x, sent[i])
  BY <1>1, Stays
<1>5. subs' \in [SfuNode -> SUBSET (Seq(Label) \X Seq(Label))]
  <2> DEFINE J == c.command = "relay-subscribe"
             L == c.command = "relay-unsubscribe"
  <2>1. subs' = CASE J -> [subs EXCEPT ![n] = @ \cup {<<c.room, c.from>>}]
                  [] L -> [subs EXCEPT ![n] = @ \ {<<c.room, c.from>>}]
                  [] OTHER -> subs
    BY Zenon DEF TakeCommand
  <2>2. ~(J /\ L)
    OBVIOUS
  <2>3. CASE J
    <3>1. subs' = [subs EXCEPT ![n] = @ \cup {<<c.room, c.from>>}]
      <4> HIDE DEF J, L, c, n
      <4> QED
        BY <2>1, <2>2, <2>3, Zenon
    <3>2. <<c.room, c.from>> \in Seq(Label) \X Seq(Label)
      BY <1>3, <2>3
    <3> QED
      BY <1>2, <3>1, <3>2
  <2>4. CASE L
    <3>1. subs' = [subs EXCEPT ![n] = @ \ {<<c.room, c.from>>}]
      <4> HIDE DEF J, L, c, n
      <4> QED
        BY <2>1, <2>2, <2>4, Zenon
    <3> QED
      BY <1>2, <3>1
  <2>5. CASE ~J /\ ~L
    <3>1. subs' = subs
      <4> HIDE DEF J, L, c, n
      <4> QED
        BY <2>1, <2>5, Zenon
    <3> QED
      BY <1>2, <3>1
  <2> QED
    BY <2>3, <2>4, <2>5
<1>6. /\ answer' = [k \in Mail |-> answer'[k]]
      /\ \A k \in Mail : \/ answer'[k] = answer[k]
                         \/ k = i /\ AnswerOK(answer'[k], x, sent[i])
  <2>1. CASE ~good
    BY <1>1, <1>2, <2>1
  <2>2. CASE good
    <3>1. c \in Answered(m)
      BY <1>3, <2>2 DEF Answered
    <3>2. e.at = "event" /\ e.node = n /\ e.item = Answer(c) /\ IsPlace(e)
      BY <1>1 DEF Item, IsPlace
    <3> HIDE DEF e
    <3>3. AnswerOK(e, x, sent[i])
      <4> HIDE DEF c, n, x, a
      <4> QED
        BY <1>1, <1>4, <3>1, <3>2 DEF AnswerOK
    <3>4. answer' = [answer EXCEPT ![i] = e]
      BY <1>1, <2>2
    <3> QED
      <4> HIDE DEF x
      <4> QED
        BY <1>2, <3>3, <3>4
  <2> QED
    BY <2>1, <2>2
<1> HIDE DEF m, n, c, a, x, e
<1>7. SlotsOK(pending') /\ DOMAIN pending' = DOMAIN pending
  BY <1>1, <1>2
<1>8. mail[i].at # "nowhere" /\ x.at # "nowhere"
  BY <1>1, <1>4
<1> QED
  BY <1>1, <1>4, <1>5, <1>6, <1>7, <1>8, MailMoves

(* The answer to an offer, too, comes to the callback.                     *)
LEMMA PostStep ==
    ASSUME Inv, NEW i \in Mail, PostAnswer(i)
    PROVE  Inv'
<1> DEFINE o == ParseText(sent[i])
           n == answer[i].node
           t == Wire(answer[i].item)
<1>1. /\ answer[i].at = "event" /\ n \in SfuNode /\ n \in Node
      /\ mail[i].at # "nowhere" /\ AnswerOK(answer[i], mail[i], sent[i])
      /\ IsPlace(answer[i]) /\ MailOK(i, mail[i], sent[i]) /\ IsMessage(o)
      /\ UNCHANGED <<mail, sent, subs, client, poll>>
  BY RoutingAssumption DEF Inv, AnswerOK, PostAnswer
<1>2. PICK c \in Answered(o) : answer[i].item = Answer(c)
  BY <1>1 DEF AnswerOK
<1>3. /\ SlotsOK(pending) /\ subs \in [SfuNode -> SUBSET (Seq(Label) \X Seq(Label))]
      /\ answer = [k \in Mail |-> answer[k]]
      /\ mail' = [mail EXCEPT ![i] = mail[i]]
  BY <1>1 DEF Inv
<1>4. sent[i] \in Source(i)
  BY <1>1, HandedOver
<1>5. CASE /\ answer' = [answer EXCEPT ![i] = Text("laravel", n, t)]
           /\ pending' = Callback(n, ParseText(t))
  <2> DEFINE y == Text("laravel", n, t)
  <2>1. y.at = "laravel" /\ y.node = n /\ y.text = Wire(Answer(c)) /\ IsPlace(y)
    BY <1>1, <1>2 DEF Text, IsPlace
  <2> HIDE DEF y, n
  <2>2. AnswerOK(y, mail[i], sent[i])
    BY <1>1, <2>1 DEF AnswerOK
  <2>3. /\ answer' = [k \in Mail |-> answer'[k]]
        /\ \A k \in Mail : \/ answer'[k] = answer[k]
                           \/ k = i /\ AnswerOK(answer'[k], mail[i], sent[i])
    BY <1>3, <1>5, <2>2 DEF y
  <2>4. SlotsOK(pending') /\ DOMAIN pending' = DOMAIN pending
    BY <1>1, <1>2, <1>3, <1>4, <1>5, AnswerFiled
  <2> QED
    BY <1>1, <1>3, <2>3, <2>4, MailMoves
<1>6. CASE answer' = [answer EXCEPT ![i].at = "lost"] /\ UNCHANGED pending
  <2>1. PICK s, x : answer[i] = [at |-> "event", node |-> n, text |-> s, item |-> x]
    BY <1>1 DEF IsPlace
  <2> DEFINE y == [answer[i] EXCEPT !.at = "lost"]
  <2>2. /\ y.at = "lost" /\ y.node = n /\ y.item = Answer(c) /\ IsPlace(y)
        /\ answer' = [answer EXCEPT ![i] = y]
    BY <1>1, <1>2, <1>6, <2>1 DEF IsPlace
  <2> HIDE DEF y, n
  <2>3. AnswerOK(y, mail[i], sent[i])
    BY <1>1, <2>2 DEF AnswerOK
  <2>4. /\ answer' = [k \in Mail |-> answer'[k]]
        /\ \A k \in Mail : \/ answer'[k] = answer[k]
                           \/ k = i /\ AnswerOK(answer'[k], mail[i], sent[i])
    BY <1>3, <2>2, <2>3
  <2>5. SlotsOK(pending') /\ DOMAIN pending' = DOMAIN pending
    BY <1>3, <1>6
  <2> QED
    BY <1>1, <1>3, <2>4, <2>5, MailMoves
<1> QED
  BY <1>5, <1>6 DEF PostAnswer

-----------------------------------------------------------------------------
(* The test server                                                         *)

(* A slot is made, and its request handed to the node.                     *)
LEMMA SignalStep ==
    ASSUME Inv, NEW r \in Request, NEW sdp \in {"offer", "junk"}, SignalOffer(r, sdp)
    PROVE  Inv'
<1> DEFINE t == OfferText(r, sdp)
           x == Text("handed", Home, t)
<1>1. /\ client[r] = "idle" /\ mail[r] = Nowhere /\ r \in Mail
      /\ pending' = [q \in DOMAIN pending \cup {r} |-> IF q = r THEN << >> ELSE pending[q]]
      /\ client' = [client EXCEPT ![r] = "posting"]
      /\ mail' = [mail EXCEPT ![r] = x]
      /\ sent' = [sent EXCEPT ![r] = t]
      /\ UNCHANGED <<answer, subs, poll>>
  BY DEF Inv, SignalOffer, Mail
<1>2. x.at = "handed" /\ x.node = Home /\ x.text = t /\ IsPlace(x) /\ Home \in Node
  BY RoutingAssumption DEF Text, IsPlace
<1>3. t \in Source(r)
  BY DEF Source
<1> HIDE DEF t, x
<1>4. MailOK(r, x, t)
  BY <1>2, <1>3 DEF MailOK
<1>5. /\ mail' = [k \in Mail |-> mail'[k]] /\ mail'[r] = x
      /\ \A k \in Mail \ {r} : mail'[k] = mail[k]
      /\ sent' = [k \in Mail |-> sent'[k]] /\ sent'[r] = t
      /\ \A k \in Mail \ {r} : sent'[k] = sent[k]
  BY <1>1 DEF Inv
<1>6. \A k \in Mail : MailOK(k, mail'[k], sent'[k])
  BY <1>4, <1>5 DEF Inv
<1>7. \A k \in Mail : AnswerOK(answer'[k], mail'[k], sent'[k])
  <2> SUFFICES ASSUME NEW k \in Mail PROVE AnswerOK(answer[k], mail'[k], sent'[k])
    BY <1>1
  <2>1. AnswerOK(answer[k], mail[k], sent[k])
    BY DEF Inv
  <2>2. CASE k # r
    BY <1>5, <2>1, <2>2
  <2>3. CASE k = r
    <3>1. answer[k].at = "nowhere"
      BY <1>1, <2>1, <2>3 DEF AnswerOK, Nowhere, Text
    <3> QED
      BY <2>1, <3>1 DEF AnswerOK
  <2> QED
    BY <2>2, <2>3
<1>8. SlotsOK(pending')
  BY <1>1 DEF Inv, SlotsOK
<1>9. client' \in [Request -> {"idle", "posting", "polling", "failed"}]
  BY <1>1 DEF Inv
<1>10. \A q \in Request : client'[q] = "idle" => mail'[q] = Nowhere
  BY <1>1, <1>5 DEF Inv, Mail
<1>11. \A q \in Request : PollOK(q, DOMAIN pending', client'[q], poll'[q])
  <2> SUFFICES ASSUME NEW q \in Request
               PROVE  PollOK(q, DOMAIN pending \cup {r}, client'[q], poll[q])
    BY <1>1
  <2>1. PollOK(q, DOMAIN pending, client[q], poll[q])
    BY DEF Inv
  <2>2. client'[q] = IF q = r THEN "posting" ELSE client[q]
    BY <1>1 DEF Inv
  <2>3. q = r => \A p \in Poller[q] : poll[q][p].at = "nowhere"
    BY <1>1, <2>1 DEF PollOK
  <2> QED
    BY <2>1, <2>2, <2>3 DEF PollOK
<1> QED
  BY <1>1, <1>5, <1>6, <1>7, <1>8, <1>9, <1>10, <1>11 DEF Inv

(* A message of Laravel is handed to a node.                               *)
LEMMA HandStep ==
    ASSUME Inv, NEW i \in App, NEW n \in Node, NEW t \in Texts, Hand(i, n, t)
    PROVE  Inv'
<1> DEFINE x == Text("handed", n, t)
<1>1. /\ mail[i] = Nowhere /\ i \in Mail /\ i \notin Request
      /\ mail' = [mail EXCEPT ![i] = x]
      /\ sent' = [sent EXCEPT ![i] = t]
      /\ UNCHANGED <<answer, subs, pending, client, poll>>
  BY RoutingAssumption DEF Hand, Mail
<1>2. x.at = "handed" /\ x.node = n /\ x.text = t /\ IsPlace(x) /\ t \in Source(i)
  BY <1>1 DEF Text, IsPlace, Source
<1> HIDE DEF x
<1>3. MailOK(i, x, t)
  BY <1>2 DEF MailOK
<1>4. /\ mail' = [k \in Mail |-> mail'[k]] /\ mail'[i] = x
      /\ \A k \in Mail \ {i} : mail'[k] = mail[k]
      /\ sent' = [k \in Mail |-> sent'[k]] /\ sent'[i] = t
      /\ \A k \in Mail \ {i} : sent'[k] = sent[k]
  BY <1>1 DEF Inv
<1>5. \A k \in Mail : MailOK(k, mail'[k], sent'[k])
  BY <1>3, <1>4 DEF Inv
<1>6. \A k \in Mail : AnswerOK(answer'[k], mail'[k], sent'[k])
  <2> SUFFICES ASSUME NEW k \in Mail PROVE AnswerOK(answer[k], mail'[k], sent'[k])
    BY <1>1
  <2>1. AnswerOK(answer[k], mail[k], sent[k])
    BY DEF Inv
  <2>2. CASE k # i
    BY <1>4, <2>1, <2>2
  <2>3. CASE k = i
    <3>1. answer[k].at = "nowhere"
      BY <1>1, <2>1, <2>3 DEF AnswerOK, Nowhere, Text
    <3> QED
      BY <2>1, <3>1 DEF AnswerOK
  <2> QED
    BY <2>2, <2>3
<1>7. \A q \in Request : client'[q] = "idle" => mail'[q] = Nowhere
  BY <1>1, <1>4 DEF Inv, Mail
<1> QED
  BY <1>1, <1>4, <1>5, <1>6, <1>7 DEF Inv

(* A step of the test server that moves no message.                        *)
LEMMA PollingGoesOn ==
    ASSUME Inv,
           UNCHANGED <<mail, sent, answer, subs>>,
           SlotsOK(pending'),
           client' \in [Request -> {"idle", "posting", "polling", "failed"}],
           \A q \in Request : client'[q] = "idle" => client[q] = "idle",
           poll' = [q \in Request |-> poll'[q]],
           \A q \in Request : PollOK(q, DOMAIN pending', client'[q], poll'[q])
    PROVE  Inv'
BY DEF Inv

LEMMA ForwardedStep ==
    ASSUME Inv, NEW r \in Request, Forwarded(r)
    PROVE  Inv'
<1> DEFINE ps == [p \in Poller[r] |-> Text("asking", Home, << >>)]
<1>1. /\ client[r] = "posting" /\ client' = [client EXCEPT ![r] = "polling"]
      /\ poll' = [poll EXCEPT ![r] = ps]
      /\ UNCHANGED <<mail, sent, answer, subs, pending>>
  BY DEF Forwarded
<1>2. /\ SlotsOK(pending)
      /\ client' \in [Request -> {"idle", "posting", "polling", "failed"}]
      /\ client'[r] = "polling" /\ \A q \in Request \ {r} : client'[q] = client[q]
      /\ poll' = [q \in Request |-> poll'[q]]
      /\ poll'[r] = ps /\ \A q \in Request \ {r} : poll'[q] = poll[q]
  BY <1>1 DEF Inv
<1>3. PollOK(r, DOMAIN pending, "polling", ps)
  <2>1. PollOK(r, DOMAIN pending, client[r], poll[r])
    BY DEF Inv
  <2>2. r \in DOMAIN pending
    BY <1>1, <2>1 DEF PollOK
  <2>3. \A p \in Poller[r] : ps[p].at = "asking" /\ IsPlace(ps[p])
    BY RoutingAssumption DEF Text, IsPlace
  <2> QED
    BY <2>2, <2>3 DEF PollOK
<1> HIDE DEF ps
<1>4. \A q \in Request : PollOK(q, DOMAIN pending', client'[q], poll'[q])
  BY <1>1, <1>2, <1>3 DEF Inv
<1> QED
  BY <1>1, <1>2, <1>4, PollingGoesOn

(* A slot is given up, and the request with it, if no node has read it.    *)
LEMMA ForwardFailsStep ==
    ASSUME Inv, NEW r \in Request, ForwardFails(r)
    PROVE  Inv'
<1> DEFINE x == [mail[r] EXCEPT !.at = "lost"]
<1>1. /\ client[r] = "posting" /\ client' = [client EXCEPT ![r] = "failed"] /\ r \in Mail
      /\ pending' = [q \in DOMAIN pending \ {r} |-> pending[q]]
      /\ mail' = IF mail[r].at = "handed" THEN [mail EXCEPT ![r].at = "lost"] ELSE mail
      /\ UNCHANGED <<sent, answer, subs, poll>>
  BY DEF ForwardFails, Mail
<1>2. mail[r].at = "handed" =>
         /\ mail' = [mail EXCEPT ![r] = x] /\ x.at = "lost" /\ MailOK(r, x, sent[r])
  BY <1>1, Stays
<1> HIDE DEF x
<1>3. /\ mail' = [k \in Mail |-> mail'[k]]
      /\ \A k \in Mail \ {r} : mail'[k] = mail[k]
      /\ \/ mail'[r] = mail[r]
         \/ mail'[r] = x /\ x.at = "lost" /\ MailOK(r, x, sent[r]) /\ mail[r].at = "handed"
  BY <1>1, <1>2 DEF Inv
<1>4. \A k \in Mail : MailOK(k, mail'[k], sent'[k])
  BY <1>1, <1>3 DEF Inv
<1>5. \A k \in Mail : AnswerOK(answer'[k], mail'[k], sent'[k])
  <2> SUFFICES ASSUME NEW k \in Mail PROVE AnswerOK(answer[k], mail'[k], sent[k])
    BY <1>1
  <2>1. AnswerOK(answer[k], mail[k], sent[k])
    BY DEF Inv
  <2>2. mail[k].at # "nowhere" => mail'[k].at # "nowhere"
    BY <1>3
  <2> QED
    BY <2>1, <2>2 DEF AnswerOK
<1>6. SlotsOK(pending')
  BY <1>1 DEF Inv, SlotsOK
<1>7. /\ client' \in [Request -> {"idle", "posting", "polling", "failed"}]
      /\ client'[r] = "failed" /\ \A q \in Request \ {r} : client'[q] = client[q]
  BY <1>1 DEF Inv
<1>8. \A q \in Request : client'[q] = "idle" => mail'[q] = Nowhere
  BY <1>3, <1>7 DEF Inv, Mail
<1>9. \A q \in Request : PollOK(q, DOMAIN pending', client'[q], poll'[q])
  <2> SUFFICES ASSUME NEW q \in Request
               PROVE  PollOK(q, DOMAIN pending \ {r}, client'[q], poll[q])
    BY <1>1
  <2>1. PollOK(q, DOMAIN pending, client[q], poll[q])
    BY DEF Inv
  <2>2. CASE q # r
    BY <1>7, <2>1, <2>2 DEF PollOK
  <2>3. CASE q = r
    <3>1. \A p \in Poller[r] : poll[r][p].at = "nowhere"
      BY <1>1, <2>1, <2>3 DEF PollOK
    <3> QED
      BY <1>7, <2>1, <2>3, <3>1 DEF PollOK
  <2> QED
    BY <2>2, <2>3
<1> QED
  BY <1>1, <1>3, <1>4, <1>5, <1>6, <1>7, <1>8, <1>9 DEF Inv

PollerAt(r, p, x) == poll' = [poll EXCEPT ![r][p] = x]

(* A poller of r moves, and may take the slot away when it has the answer. *)
LEMMA PollerMoves ==
    ASSUME Inv, NEW r \in Request, NEW p \in Poller[r], NEW x,
           poll[r][p].at \in {"asking", "taking"},
           PollerAt(r, p, x),
           IsPlace(x),
           x.at \in {"taking", "answered", "unknown", "gaveup"},
           x.at \in {"taking", "answered"} => x.text = ReplyText(r),
           x.at = "unknown" => r \notin DOMAIN pending,
           \/ UNCHANGED pending
           \/ x.at = "answered" /\ pending' = [q \in DOMAIN pending \ {r} |-> pending[q]],
           UNCHANGED <<mail, sent, answer, subs, client>>
    PROVE  Inv'
<1> DEFINE ps == poll[r]
           qs == [ps EXCEPT ![p] = x]
<1>1. /\ poll' = [q \in Request |-> poll'[q]]
      /\ poll'[r] = qs /\ \A q \in Request \ {r} : poll'[q] = poll[q]
  BY DEF Inv, PollerAt
<1>2. PollOK(r, DOMAIN pending, client[r], ps)
  BY DEF Inv
<1>3. client[r] = "polling" /\ ps = [q \in Poller[r] |-> ps[q]]
  BY <1>2 DEF PollOK
<1>4. /\ qs = [q \in Poller[r] |-> qs[q]] /\ qs[p] = x
      /\ \A q \in Poller[r] \ {p} : qs[q] = ps[q]
  BY <1>3
<1>5. ps[p].at # "answered"
  OBVIOUS
<1> HIDE DEF ps, qs
<1>6. (\E q \in Poller[r] : ps[q].at = "answered") => \E q \in Poller[r] : qs[q].at = "answered"
  BY <1>4, <1>5
<1>7. PollOK(r, DOMAIN pending', client[r], qs)
  <2>1. r \notin DOMAIN pending' => \E q \in Poller[r] : qs[q].at = "answered"
    <3>1. CASE UNCHANGED pending
      BY <1>2, <1>3, <1>6, <3>1 DEF PollOK
    <3>2. CASE x.at = "answered"
      BY <1>4, <3>2
    <3> QED
      BY <3>1, <3>2
  <2>2. ASSUME NEW q \in Poller[r]
        PROVE  /\ IsPlace(qs[q])
               /\ qs[q].at \in {"nowhere", "asking", "taking", "answered", "unknown", "gaveup"}
               /\ qs[q].at \in {"taking", "answered"} => qs[q].text = ReplyText(r)
               /\ qs[q].at = "unknown" => \E o \in Poller[r] : qs[o].at = "answered"
    <3>1. CASE q = p
      BY <1>2, <1>3, <1>4, <1>6, <3>1 DEF PollOK
    <3>2. CASE q # p
      BY <1>2, <1>4, <1>6, <3>2 DEF PollOK
    <3> QED
      BY <3>1, <3>2
  <2> QED
    BY <1>3, <1>4, <2>1, <2>2 DEF PollOK
<1>8. SlotsOK(pending') /\ \A q \in Request \ {r} : q \in DOMAIN pending' <=> q \in DOMAIN pending
  BY DEF Inv, SlotsOK
<1>9. \A q \in Request : PollOK(q, DOMAIN pending', client'[q], poll'[q])
  <2> SUFFICES ASSUME NEW q \in Request
               PROVE  PollOK(q, DOMAIN pending', client[q], poll'[q])
    OBVIOUS
  <2>1. CASE q = r
    BY <1>1, <1>7, <2>1
  <2>2. CASE q # r
    <3>1. PollOK(q, DOMAIN pending, client[q], poll[q])
      BY DEF Inv
    <3> QED
      BY <1>1, <1>8, <2>2, <3>1 DEF PollOK
  <2> QED
    BY <2>1, <2>2
<1>10. client' \in [Request -> {"idle", "posting", "polling", "failed"}]
  BY DEF Inv
<1> QED
  BY <1>1, <1>8, <1>9, <1>10, PollingGoesOn

(* What a poller has read does not change when only its place does.        *)
LEMMA PollerStays ==
    ASSUME Inv, NEW r \in Request, NEW p \in Poller[r], NEW a,
           poll' = [poll EXCEPT ![r][p].at = a]
    PROVE  \E x : /\ PollerAt(r, p, x)
                  /\ x.at = a /\ x.text = poll[r][p].text /\ IsPlace(x)
<1>1. /\ poll = [q \in Request |-> poll[q]]
      /\ poll[r] = [q \in Poller[r] |-> poll[r][q]] /\ IsPlace(poll[r][p])
  BY DEF Inv, PollOK
<1>2. PICK b, n, t, y : poll[r][p] = [at |-> b, node |-> n, text |-> t, item |-> y]
                        /\ n \in Node \cup {<< >>}
  BY <1>1 DEF IsPlace
<1> DEFINE x == [at |-> a, node |-> n, text |-> t, item |-> y]
<1>3. x.at = a /\ x.text = poll[r][p].text /\ IsPlace(x)
  BY <1>2 DEF IsPlace
<1>4. [poll[r][p] EXCEPT !.at = a] = x
  BY <1>2
<1>5. PollerAt(r, p, x)
  BY <1>4 DEF PollerAt
<1> QED
  BY <1>3, <1>5

LEMMA PollReadStep ==
    ASSUME Inv, NEW r \in Request, NEW p \in Poller[r], PollRead(r, p)
    PROVE  Inv'
<1>1. poll[r][p].at = "asking" /\ UNCHANGED <<mail, sent, answer, subs, pending, client>>
  BY DEF PollRead
<1>2. CASE /\ r \in DOMAIN pending /\ pending[r] # << >>
           /\ poll' = [poll EXCEPT ![r][p] = Text("taking", Home, pending[r])]
  <2> DEFINE x == Text("taking", Home, pending[r])
  <2>1. pending[r] = ReplyText(r)
    BY <1>2 DEF Inv, SlotsOK
  <2>2. x.at = "taking" /\ x.text = ReplyText(r) /\ IsPlace(x)
    BY <2>1, RoutingAssumption DEF Text, IsPlace
  <2>3. PollerAt(r, p, x)
    BY <1>2 DEF PollerAt
  <2> HIDE DEF x
  <2> QED
    BY <1>1, <2>2, <2>3, PollerMoves
<1>3. CASE r \notin DOMAIN pending /\ poll' = [poll EXCEPT ![r][p].at = "unknown"]
  <2>1. PICK x : PollerAt(r, p, x) /\ x.at = "unknown" /\ IsPlace(x)
    BY <1>3, PollerStays
  <2> QED
    BY <1>1, <1>3, <2>1, PollerMoves
<1> QED
  BY <1>2, <1>3 DEF PollRead

LEMMA PollRemoveStep ==
    ASSUME Inv, NEW r \in Request, NEW p \in Poller[r], PollRemove(r, p)
    PROVE  Inv'
<1>1. /\ poll[r][p].at = "taking" /\ poll' = [poll EXCEPT ![r][p].at = "answered"]
      /\ pending' = [q \in DOMAIN pending \ {r} |-> pending[q]]
      /\ UNCHANGED <<mail, sent, answer, subs, client>>
  BY DEF PollRemove
<1>2. PICK x : /\ PollerAt(r, p, x)
               /\ x.at = "answered" /\ x.text = poll[r][p].text /\ IsPlace(x)
  BY <1>1, PollerStays, Zenon
<1>3. x.text = ReplyText(r)
  BY <1>1, <1>2 DEF Inv, PollOK
<1> QED
  BY <1>1, <1>2, <1>3, PollerMoves

LEMMA GiveUpStep ==
    ASSUME Inv, NEW r \in Request, NEW p \in Poller[r], GiveUp(r, p)
    PROVE  Inv'
<1>1. /\ poll[r][p].at = "asking" /\ poll' = [poll EXCEPT ![r][p].at = "gaveup"]
      /\ UNCHANGED <<mail, sent, answer, subs, pending, client>>
  BY DEF GiveUp
<1>2. PICK x : PollerAt(r, p, x) /\ x.at = "gaveup" /\ IsPlace(x)
  BY <1>1, PollerStays
<1> QED
  BY <1>1, <1>2, PollerMoves

-----------------------------------------------------------------------------
(* The invariant                                                           *)

LEMMA InitInv == Init => Inv
<1> SUFFICES ASSUME Init PROVE Inv
  OBVIOUS
<1>1. /\ mail = [i \in Mail |-> Nowhere] /\ sent = [i \in Mail |-> << >>]
      /\ answer = [i \in Mail |-> Nowhere]
      /\ subs = [n \in SfuNode |-> {}]
      /\ pending = << >> /\ DOMAIN pending = {}
      /\ client = [r \in Request |-> "idle"]
      /\ poll = [r \in Request |-> [p \in Poller[r] |-> Nowhere]]
  BY DEF Init
<1>2. Nowhere.at = "nowhere" /\ IsPlace(Nowhere)
  BY DEF Nowhere, Text, IsPlace
<1> HIDE DEF Nowhere
<1>3. \A i \in Mail : MailOK(i, mail[i], sent[i])
  BY <1>1, <1>2 DEF MailOK
<1>4. \A i \in Mail : AnswerOK(answer[i], mail[i], sent[i])
  BY <1>1, <1>2 DEF AnswerOK
<1>5. \A r \in Request : client[r] = "idle" => mail[r] = Nowhere
  BY <1>1 DEF Mail
<1>6. \A r \in Request : PollOK(r, DOMAIN pending, client[r], poll[r])
  BY <1>1, <1>2 DEF PollOK
<1>7. SlotsOK(pending)
  BY <1>1 DEF SlotsOK
<1> QED
  BY <1>1, <1>3, <1>4, <1>5, <1>6, <1>7 DEF Inv

LEMMA NextInv == Inv /\ [Next]_vars => Inv'
<1> SUFFICES ASSUME Inv, [Next]_vars PROVE Inv'
  OBVIOUS
<1>1. ASSUME NEW i \in Mail, NodeStep(i) PROVE Inv'
  BY <1>1, SendStep, ReceiveStep, DispatchStep, TakeStep, PostStep DEF NodeStep
<1>2. ASSUME NEW i \in Mail, LoseOnTheWay(i) PROVE Inv'
  BY <1>2, LoseStep
<1>3. ASSUME NEW i \in App, NEW n \in Node, NEW t \in Texts, Hand(i, n, t) PROVE Inv'
  BY <1>3, HandStep
<1>4. ASSUME NEW r \in Request, NEW sdp \in {"offer", "junk"}, SignalOffer(r, sdp) PROVE Inv'
  BY <1>4, SignalStep
<1>5. ASSUME NEW r \in Request, Forwarded(r) \/ ForwardFails(r) PROVE Inv'
  BY <1>5, ForwardedStep, ForwardFailsStep
<1>6. ASSUME NEW r \in Request, NEW p \in Poller[r], PollStep(r, p) \/ GiveUp(r, p) PROVE Inv'
  BY <1>6, PollReadStep, PollRemoveStep, GiveUpStep DEF PollStep
<1>7. CASE UNCHANGED vars
  BY <1>7 DEF vars, Inv
<1> QED
  BY <1>1, <1>2, <1>3, <1>4, <1>5, <1>6, <1>7, Zenon DEF Next

(* What is known of every message, answer, slot and poller at any time.    *)
THEOREM Invariance == Spec => []Inv
BY InitInv, NextInv, PTL DEF Spec

-----------------------------------------------------------------------------
(* What follows from it                                                    *)

(* Messages, answers and pollers are at places there are; an SFU's         *)
(* subscribers are read from headers, and a slot holds one answer at most. *)
THEOREM TypeCorrect == Spec => []TypeOK
<1>1. Inv => TypeOK
  <2> SUFFICES ASSUME Inv PROVE TypeOK
    OBVIOUS
  <2>1. ASSUME NEW i \in Mail
        PROVE  /\ mail[i].at \in {"nowhere", "handed", "refused", "wire", "lost", "inbound",
                                  "laravel", "sfu", "unanswered", "done"}
               /\ mail[i].node \in Node \cup {<< >>}
               /\ answer[i].at \in {"nowhere", "event", "laravel", "lost"}
               /\ answer[i].at # "nowhere" => answer[i].node \in SfuNode
    BY <2>1 DEF Inv, MailOK, AnswerOK, IsPlace
  <2>2. DOMAIN pending \subseteq Request /\ \A r \in DOMAIN pending : Len(pending[r]) <= 1
    <3>1. SlotsOK(pending)
      BY DEF Inv
    <3>2. ASSUME NEW r \in DOMAIN pending PROVE Len(pending[r]) <= 1
      <4>1. pending[r] = << >> \/ pending[r] = ReplyText(r)
        BY <3>1 DEF SlotsOK
      <4>2. PICK l : l = Plain(<<"answer", r>>)
        OBVIOUS
      <4>3. Len(<<l>>) = 1 /\ Len(<< >>) = 0
        OBVIOUS
      <4> QED
        BY <4>1, <4>2, <4>3 DEF ReplyText
    <3> QED
      BY <3>1, <3>2 DEF SlotsOK
  <2>3. \A r \in Request : \A p \in Poller[r] :
           poll[r][p].at \in {"nowhere", "asking", "taking", "answered", "unknown", "gaveup"}
    BY DEF Inv, PollOK
  <2> QED
    BY <2>1, <2>2, <2>3 DEF Inv, TypeOK
<1> QED
  BY <1>1, Invariance, PTL

(* Whatever order a hash map gives the headers, the next hop reads the     *)
(* message that the text was handed over as.                               *)
THEOREM OrderIsNoMatter == Spec => []WiresAgree
<1>1. Inv => WiresAgree
  <2> SUFFICES ASSUME Inv, NEW i \in Mail, mail[i].at = "handed",
                      DOMAIN ParseText(sent[i]).headers # {}
               PROVE  \A w \in Wires(ParseText(sent[i])) :
                         ParseText(w) = [ParseText(sent[i]) EXCEPT !.body = WithNewline(@)]
    BY DEF WiresAgree
  <2>1. PICK m \in Msg : m = ParseText(sent[i])
    BY HandedOver
  <2>2. IsMessage(m)
    BY <2>1, HandedOver, ParseTyped, NothingRead
  <2> QED
    BY <2>1, <2>2, WiresRead
<1> QED
  BY <1>1, Invariance, PTL

LEMMA SameBody ==
    ASSUME NEW m \in Msg, IsMessage(m)
    PROVE  /\ SameMessage(Carried(m), m)
           /\ SameMessage(Carried(WithHeader(Carried(m), "x-mesh-peer", <<"peer">>)), m)
<1> DEFINE c == Carried(m)
           b == WithHeader(c, "x-mesh-peer", <<"peer">>)
<1>1. /\ c \in Msg /\ IsMessage(c) /\ c.headers = m.headers /\ c.body = WithNewline(m.body)
      /\ WithNewline(c.body) = WithNewline(m.body)
  <2>1. m.body \in Seq(Line) /\ m.body # << >>
    BY MsgParts DEF IsMessage
  <2> QED
    BY <2>1, CarriedTyped, NewlineTyped
<1>2. <<"peer">> \in Seq(Label) /\ "x-mesh-peer" \in Key
  BY LabelsTyped
<1> HIDE DEF c
<1>3. /\ b \in Msg /\ IsMessage(b) /\ b.body = c.body
      /\ DOMAIN b.headers = DOMAIN c.headers \cup {"x-mesh-peer"}
      /\ \A j \in DOMAIN c.headers \ {"x-mesh-peer"} : b.headers[j] = c.headers[j]
  BY <1>1, <1>2, WithHeaderTyped
<1> HIDE DEF b
<1>4. /\ Carried(b).headers = b.headers /\ Carried(b).body = WithNewline(b.body)
      /\ WithNewline(Carried(b).body) = WithNewline(b.body)
  <2>1. b.body \in Seq(Line) /\ b.body # << >>
    BY <1>3, MsgParts DEF IsMessage
  <2> QED
    BY <1>3, <2>1, CarriedTyped, NewlineTyped
<1>5. SameMessage(c, m)
  BY <1>1 DEF SameMessage, Has
<1>6. SameMessage(Carried(b), m)
  BY <1>1, <1>3, <1>4 DEF SameMessage, Has
<1> QED
  BY <1>5, <1>6 DEF b, c

(* Headers and body are the same at the addressee as where they were       *)
(* handed over, through every text on the way; and so is an offer's body   *)
(* at the SFU.                                                             *)
THEOREM ComesUnaltered == Spec => []Unaltered
<1>1. Inv => Unaltered
  <2> SUFFICES ASSUME Inv, NEW i \in Mail
               PROVE  LET m == ParseText(sent[i]) IN
                      /\ mail[i].at \in {"wire", "laravel"} =>
                            SameMessage(ParseText(mail[i].text), m)
                      /\ mail[i].at = "sfu" /\ mail[i].item.command = "sdp-offer" =>
                            WithNewline(mail[i].item.sdp) = WithNewline(m.body)
    BY DEF Unaltered
  <2> DEFINE m == ParseText(sent[i])
             c == Carried(m)
             b == WithHeader(c, "x-mesh-peer", <<"peer">>)
  <2>1. CASE mail[i].at \in {"wire", "laravel"}
    <3>1. /\ m \in Msg /\ IsMessage(m) /\ DOMAIN m.headers # {}
          /\ mail[i].text \in {Wire(m), Wire(c), Wire(b)}
      BY <2>1, HandedOver DEF Inv, MailOK, Addressed
    <3>2. /\ c \in Msg /\ IsMessage(c) /\ c.headers = m.headers /\ Carried(c) = c
      BY <3>1, CarriedTyped
    <3>3. b \in Msg /\ IsMessage(b) /\ DOMAIN b.headers # {}
      <4>1. <<"peer">> \in Seq(Label) /\ "x-mesh-peer" \in Key
        BY LabelsTyped
      <4>2. c \in Msg /\ IsMessage(c)
        BY <3>2
      <4> HIDE DEF c
      <4>3. /\ b \in Msg /\ IsMessage(b)
            /\ DOMAIN b.headers = DOMAIN c.headers \cup {"x-mesh-peer"}
        BY <4>1, <4>2, WithHeaderTyped
      <4> QED
        BY <4>3
    <3>4. ParseText(mail[i].text) \in {c, Carried(b)}
      <4>1. ParseText(Wire(m)) = c /\ ParseText(Wire(c)) = c /\ ParseText(Wire(b)) = Carried(b)
        <5> HIDE DEF m, b
        <5> QED
          BY <3>1, <3>2, <3>3, WireReads
      <4> QED
        BY <3>1, <4>1
    <3> QED
      BY <2>1, <3>1, <3>4, SameBody
  <2>2. CASE mail[i].at = "sfu" /\ mail[i].item.command = "sdp-offer"
    <3>1. m \in Msg /\ IsMessage(m) /\ mail[i].item \in Commands(m)
      BY <2>2, HandedOver DEF Inv, MailOK, Addressed
    <3>2. mail[i].item.sdp \in {m.body, WithNewline(m.body)}
      BY <2>2, <3>1, CommandsAre, OfferParts
    <3>3. m.body \in Seq(Line) /\ m.body # << >>
      BY <3>1, MsgParts DEF IsMessage
    <3> QED
      BY <2>2, <3>2, <3>3, NewlineTyped
  <2> QED
    BY <2>1, <2>2
<1> QED
  BY <1>1, Invariance, PTL

(* A message comes to no node but the one that its address ends in.        *)
THEOREM ComesToAddressee == Spec => []ReachesAddressee
<1>1. Inv => ReachesAddressee
  <2> SUFFICES ASSUME Inv, NEW i \in Mail,
                      mail[i].at \in {"wire", "inbound", "laravel", "sfu", "unanswered", "done"}
               PROVE  IsSuffix(mail[i].node \o <<"amp">>, ParseText(sent[i]).headers["to"])
    BY DEF ReachesAddressee
  <2> DEFINE m == ParseText(sent[i])
  <2>1. Addressed(m, mail[i].node) /\ m \in Msg /\ mail[i].node # << >>
    BY HandedOver DEF Inv, MailOK
  <2>2. m.headers["to"] \in Seq(Label) /\ mail[i].node = ParseAddress(m.headers["to"]).node
    BY <2>1, MsgParts DEF Addressed, TargetOf, Has
  <2> HIDE DEF m
  <2>3. IsSuffix(mail[i].node \o <<"amp">>, m.headers["to"])
    BY <2>1, <2>2, EndsInNode
  <2> QED
    BY <2>3 DEF m
<1> QED
  BY <1>1, Invariance, PTL

(* An answer names its offer and goes back the way that came; each browser *)
(* is given the answer to its own offer, whatever else is under way.       *)
THEOREM AnswersComeBack == Spec => []AnswersMatch
<1>1. Inv => AnswersMatch
  <2> SUFFICES ASSUME Inv PROVE AnswersMatch
    OBVIOUS
  <2>1. ASSUME NEW i \in Mail, answer[i].at # "nowhere"
        PROVE  LET o == ParseText(sent[i])
                   m == IF answer[i].at = "laravel" THEN ParseText(answer[i].text)
                        ELSE answer[i].item
               IN  /\ m.headers["to"] = Get(o, "from", <<"unknown">>)
                   /\ m.headers["from"] = Get(o, "to", <<"unknown">>)
                   /\ m.headers["reply-to"] \in {Get(o, "id", <<d>>) : d \in {"none", "unknown"}}
    <3> DEFINE o == ParseText(sent[i])
               m == IF answer[i].at = "laravel" THEN ParseText(answer[i].text)
                    ELSE answer[i].item
    <3>1. /\ o \in Msg /\ IsMessage(o)
          /\ \E c \in Answered(o) : IF answer[i].at = "laravel"
                                      THEN answer[i].text = Wire(Answer(c))
                                      ELSE answer[i].item = Answer(c)
      BY <2>1, HandedOver DEF Inv, AnswerOK
    <3>2. PICK c \in Answered(o) : IF answer[i].at = "laravel"
                                     THEN answer[i].text = Wire(Answer(c))
                                     ELSE answer[i].item = Answer(c)
      BY <3>1
    <3> HIDE DEF o
    <3>3. /\ Answer(c) \in Msg /\ IsMessage(Answer(c)) /\ DOMAIN Answer(c).headers # {}
          /\ Answer(c).headers["from"] = c.to /\ Answer(c).headers["to"] = c.from
          /\ Answer(c).headers["reply-to"] = c.id
      BY <3>1, AnswerTyped
    <3>4. m.headers = Answer(c).headers
      BY <3>2, <3>3, WireReads, CarriedTyped
    <3>5. c \in Offers(o)
      BY DEF Answered
    <3>6. /\ c.from = Get(o, "from", <<"unknown">>) /\ c.to = Get(o, "to", <<"unknown">>)
          /\ c.id \in {Get(o, "id", <<d>>) : d \in {"none", "unknown"}}
      BY <3>1, <3>5, OfferParts
    <3> QED
      BY <3>3, <3>4, <3>6 DEF o
  <2>2. \A r \in DOMAIN pending : pending[r] \in {<< >>, <<Plain(<<"answer", r>>)>>}
    BY DEF Inv, SlotsOK, ReplyText
  <2>3. \A r \in Request : \A p \in Poller[r] :
           poll[r][p].at \in {"taking", "answered"} => poll[r][p].text = <<Plain(<<"answer", r>>)>>
    BY DEF Inv, PollOK, ReplyText
  <2> QED
    BY <2>1, <2>2, <2>3, Zenon DEF AnswersMatch
<1> QED
  BY <1>1, Invariance, PTL

(* Nobody who polls is told that a request is unknown unless somebody has  *)
(* its answer, although the slot is read under one lock and removed under  *)
(* another.                                                                *)
THEOREM UnknownMeansTaken == Spec => []UnknownOnceAnswered
<1>1. Inv => UnknownOnceAnswered
  BY DEF Inv, PollOK, UnknownOnceAnswered
<1> QED
  BY <1>1, Invariance, PTL
=============================================================================
