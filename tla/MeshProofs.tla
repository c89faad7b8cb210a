------------------------------ MODULE MeshProofs ------------------------------
(***************************************************************************)
(* What TLAPS proves of Mesh, for every number of connections and of       *)
(* messages: a hello is never taken for a message, the node implements     *)
(* Link, and a message is lost only where a connection broke or before its *)
(* hello.                                                                  *)
(***************************************************************************)
EXTENDS Mesh, SequenceTheorems, FiniteSetTheorems, WellFoundedInduction, TLAPS

DialEnd(c)   == <<c, c[1]>>
AcceptEnd(c) == <<c, Acceptor(c)>>

HelloIn(s) == Hello \in ToSet(s)

(* A node's line is one that it dialled.                                   *)
OwnLine == \A n \in Node : line[n] # None => line[n][1] = n

(* The acceptor is gone before its dialer, or about to go, only where the  *)
(* connection broke.                                                       *)
GoneIfBroken ==
    \A c \in Conn :
        acc[c] = "closing" \/ (acc[c] = "none" /\ line[c[1]] = c) => c \in broken

(* There is a hello on its way from dialer to acceptor, nowhere else, and  *)
(* only until the acceptor reads it.                                       *)
HelloOK(c) ==
    /\ ~HelloIn(queue[AcceptEnd(c)]) /\ ~HelloIn(wire[DialEnd(c)])
    /\ HelloIn(queue[DialEnd(c)]) =>
          /\ line[c[1]] = c /\ out[c[1]] = "running"
          /\ acc[c] \in {"hello", "none"}
          /\ ~HelloIn(wire[AcceptEnd(c)])
    /\ HelloIn(wire[AcceptEnd(c)]) => acc[c] = "hello"
    /\ line[c[1]] = c /\ out[c[1]] = "greeting" =>
          acc[c] \in {"hello", "none"} /\ ~HelloIn(wire[AcceptEnd(c)])

HelloOnItsWay == \A c \in Conn : HelloOK(c)

(* The queues and the directions of the sockets, in one.                   *)
Box == End \X {"queue", "wire"}
BoxesOf(q, w) == [b \in Box |-> IF b[2] = "queue" THEN q[b[1]] ELSE w[b[1]]]
boxes == BoxesOf(queue, wire)

NoTwice(s) == \A j, k \in 1 .. Len(s) : s[j] = s[k] => j = k

(* No box has anything twice, and no message is in two boxes.              *)
Apart(f) ==
    /\ \A b \in Box : NoTwice(f[b])
    /\ \A b, d \in Box : b # d => ToSet(f[b]) \cap ToSet(f[d]) \subseteq {Hello}

Elem == Msg \cup {Hello}

TaskInv == TypeOK /\ OwnLine /\ GoneIfBroken /\ HelloOnItsWay /\ Apart(boxes)

(* Message m has the fate f, as in Fate.                                   *)
At(m, f) ==
    \/ f = "unsent"    /\ m >= next
    \/ f = "refused"   /\ m \in refused
    \/ f = "accepted"  /\ OnTheWay(m)
    \/ f = "delivered" /\ m \in ToSet(got)
    \/ f = "lost"      /\ m \in lost

Fates == {"unsent", "refused", "accepted", "delivered", "lost"}

OneFate == \A m \in Msg : \E f \in Fates : \A g \in Fates : At(m, g) <=> g = f

Inv == TaskInv /\ OneFate

-----------------------------------------------------------------------------
(* Data *)

LEMMA MinIsIn ==
    ASSUME NEW S, S \subseteq Nat, S # {}
    PROVE  Min(S) \in S
<1> DEFINE R == {p \in Nat \X Nat : p[1] < p[2]}
<1>1. IsWellFoundedOn(R, Nat)
  BY NatLessThanWellFounded DEF OpToRel
<1> HIDE DEF R
<1>2. PICK x \in S : \A y \in S : <<y, x>> \notin R
  BY <1>1, WFMin, Zenon
<1>3. \A y \in S : x <= y
  <2> SUFFICES ASSUME NEW y \in S PROVE x <= y
    OBVIOUS
  <2>1. <<y, x>> \notin R /\ <<y, x>> \in Nat \X Nat
    BY <1>2
  <2>2. ~(y < x)
    BY <2>1 DEF R
  <2> QED
    BY <2>2
<1> QED
  BY <1>3 DEF Min

(* There are two nodes.                                                    *)
LEMMA TwoNodes ==
    /\ \A n \in Node : Other(n) \in Node /\ Other(n) # n
    /\ \A n, m \in Node : m = n \/ m = Other(n)
    /\ \A n \in Node : Other(Other(n)) = n
<1>1. IsFiniteSet(Node) /\ Cardinality(Node) = 2
  BY MeshAssumption
<1>2. ASSUME NEW n \in Node
      PROVE  \E m : Node \ {n} = {m}
  <2>1. IsFiniteSet(Node \ {n}) /\ Cardinality(Node \ {n}) = Cardinality(Node) - 1
    BY <1>1, FS_RemoveElement
  <2>2. Cardinality(Node \ {n}) = 1
    BY <1>1, <2>1
  <2> QED
    BY <2>1, <2>2, FS_Singleton
<1>3. \A n \in Node : Other(n) \in Node /\ Other(n) # n
  BY <1>2 DEF Other
<1>4. \A n, m \in Node : m = n \/ m = Other(n)
  BY <1>2, <1>3
<1> QED
  BY <1>3, <1>4

LEMMA ConnFacts ==
    /\ \A c \in Conn : /\ c[1] \in Node /\ Acceptor(c) \in Node
                       /\ Acceptor(c) # c[1]
                       /\ c # None
    /\ \A n \in Node : \A k \in 1 .. Slots[n] : <<n, k>> \in Conn
    /\ \A c \in Conn : DialEnd(c) \in End /\ AcceptEnd(c) \in End
    /\ \A e \in End : /\ e[1] \in Conn /\ e[2] \in Node
                      /\ e = DialEnd(e[1]) \/ e = AcceptEnd(e[1])
<1>1. \A c \in Conn : \E n \in Node : \E k \in 1 .. Slots[n] : c = <<n, k>>
  BY DEF Conn
<1>2. \A n \in Node : Slots[n] \in Nat
  BY MeshAssumption
<1>3. \A c \in Conn : c[1] \in Node /\ c \in Node \X Nat
  BY <1>1, <1>2
<1>4. \A c \in Conn : Acceptor(c) \in Node /\ Acceptor(c) # c[1]
  BY <1>3, TwoNodes DEF Acceptor
<1>5. \A c \in Conn : c # None
  BY <1>3, MeshAssumption
<1>6. \A n \in Node : \A k \in 1 .. Slots[n] : <<n, k>> \in Conn
  BY DEF Conn
<1>7. \A c \in Conn : DialEnd(c) \in End /\ AcceptEnd(c) \in End
  BY <1>3, <1>4 DEF DialEnd, AcceptEnd, End
<1>8. ASSUME NEW e \in End
      PROVE  /\ e[1] \in Conn /\ e[2] \in Node
             /\ e = DialEnd(e[1]) \/ e = AcceptEnd(e[1])
  <2>1. e[1] \in Conn /\ e[2] \in Node /\ e = <<e[1], e[2]>>
    BY DEF End
  <2>2. e[2] = e[1][1] \/ e[2] = Acceptor(e[1])
    BY <1>3, <2>1, TwoNodes DEF Acceptor
  <2> QED
    BY <2>1, <2>2 DEF DialEnd, AcceptEnd
<1> QED
  BY <1>3, <1>4, <1>5, <1>6, <1>7, <1>8

(* The two ends of connections are apart, and across from each other.      *)
LEMMA EndFacts ==
    /\ \A c, d \in Conn : /\ DialEnd(c) = DialEnd(d) => c = d
                          /\ AcceptEnd(c) = AcceptEnd(d) => c = d
                          /\ DialEnd(c) # AcceptEnd(d)
    /\ \A c \in Conn : /\ DialEnd(c)[1] = c /\ AcceptEnd(c)[1] = c
                       /\ <<c, Other(DialEnd(c)[2])>> = AcceptEnd(c)
                       /\ <<c, Other(AcceptEnd(c)[2])>> = DialEnd(c)
<1>1. \A c \in Conn : c[1] \in Node /\ Acceptor(c) # c[1]
  BY ConnFacts
<1> QED
  BY <1>1, TwoNodes DEF DialEnd, AcceptEnd, Acceptor

LEMMA AcrossFacts ==
    ASSUME NEW e \in End
    PROVE  /\ e[1] \in Conn
           /\ \/ e = DialEnd(e[1]) /\ <<e[1], Other(e[2])>> = AcceptEnd(e[1])
              \/ e = AcceptEnd(e[1]) /\ <<e[1], Other(e[2])>> = DialEnd(e[1])
<1>1. /\ e[1] \in Conn
      /\ e = DialEnd(e[1]) \/ e = AcceptEnd(e[1])
  BY ConnFacts
<1>2. /\ e[2] = DialEnd(e[1])[2] => <<e[1], Other(e[2])>> = AcceptEnd(e[1])
      /\ e[2] = AcceptEnd(e[1])[2] => <<e[1], Other(e[2])>> = DialEnd(e[1])
  BY <1>1, EndFacts
<1>3. e = DialEnd(e[1]) => e[2] = DialEnd(e[1])[2]
  OBVIOUS
<1>4. e = AcceptEnd(e[1]) => e[2] = AcceptEnd(e[1])[2]
  OBVIOUS
<1> QED
  BY <1>1, <1>2, <1>3, <1>4

(* The loops run at the dialer's end and at the acceptor's.                *)
LEMMA LoopFacts ==
    \A c \in Conn :
        /\ Writes(DialEnd(c)) <=> line[c[1]] = c /\ out[c[1]] = "running"
        /\ Writes(AcceptEnd(c)) <=> acc[c] = "bidir"
        /\ Reads(DialEnd(c)) <=> line[c[1]] = c /\ out[c[1]] = "running"
        /\ Reads(AcceptEnd(c)) <=> acc[c] \in {"readonly", "bidir"}
<1>1. \A c \in Conn : Acceptor(c) # c[1]
  BY ConnFacts
<1> QED
  BY <1>1 DEF Writes, Reads, DialEnd, AcceptEnd

-----------------------------------------------------------------------------
(* Sequences *)

LEMMA EmptyFacts ==
    /\ \A S : << >> \in Seq(S)
    /\ ToSet(<< >>) = {}
    /\ NoTwice(<< >>)
BY DEF ToSet, NoTwice

LEMMA ToSetIn ==
    ASSUME NEW S, NEW s \in Seq(S)
    PROVE  ToSet(s) \subseteq S
BY LenProperties DEF ToSet

LEMMA AppendFacts ==
    ASSUME NEW S, NEW s \in Seq(S), NEW e \in S
    PROVE  /\ Append(s, e) \in Seq(S)
           /\ ToSet(Append(s, e)) = ToSet(s) \cup {e}
           /\ NoTwice(s) /\ e \notin ToSet(s) => NoTwice(Append(s, e))
<1> DEFINE a == Append(s, e)
<1>1. /\ a \in Seq(S) /\ Len(s) \in Nat /\ Len(a) = Len(s) + 1
      /\ \A j \in 1 .. Len(s) : a[j] = s[j]
      /\ a[Len(s) + 1] = e
      /\ \A j \in 1 .. Len(s) + 1 : j \in 1 .. Len(s) \/ j = Len(s) + 1
      /\ Len(s) + 1 \in 1 .. Len(s) + 1
      /\ \A j \in 1 .. Len(s) : j \in 1 .. Len(s) + 1
  BY AppendProperties
<1> HIDE DEF a
<1>2. DOMAIN s = 1 .. Len(s) /\ DOMAIN a = 1 .. Len(s) + 1
  BY <1>1, LenProperties
<1>3. ToSet(a) = ToSet(s) \cup {e}
  BY <1>1, <1>2, Zenon DEF ToSet
<1>4. ASSUME NoTwice(s), e \notin ToSet(s)
      PROVE  NoTwice(a)
  <2>1. \A j \in 1 .. Len(s) : s[j] # e
    BY <1>2, <1>4, Zenon DEF ToSet
  <2>2. \A j, k \in 1 .. Len(s) : s[j] = s[k] => j = k
    BY <1>4, Zenon DEF NoTwice
  <2>3. \A j, k \in 1 .. Len(s) + 1 : a[j] = a[k] => j = k
    BY <1>1, <2>1, <2>2, Zenon
  <2> QED
    BY <1>1, <2>3, Zenon DEF NoTwice
<1> QED
  BY <1>1, <1>3, <1>4 DEF a

LEMMA TailFacts ==
    ASSUME NEW S, NEW s \in Seq(S), s # << >>
    PROVE  /\ Head(s) \in S /\ Head(s) \in ToSet(s)
           /\ Tail(s) \in Seq(S)
           /\ ToSet(Tail(s)) \subseteq ToSet(s)
           /\ ToSet(s) = ToSet(Tail(s)) \cup {Head(s)}
           /\ NoTwice(s) => NoTwice(Tail(s)) /\ Head(s) \notin ToSet(Tail(s))
<1> DEFINE t == Tail(s)
<1>1. /\ Head(s) \in S /\ Head(s) = s[1]
      /\ t \in Seq(S) /\ Len(s) \in Nat \ {0}
      /\ Len(t) = Len(s) - 1
      /\ \A j \in 1 .. Len(s) - 1 : t[j] = s[j + 1]
  BY HeadTailProperties
<1> HIDE DEF t
<1>2. DOMAIN s = 1 .. Len(s) /\ DOMAIN t = 1 .. Len(s) - 1
  BY <1>1, LenProperties
<1>3. /\ 1 \in 1 .. Len(s)
      /\ \A j \in 1 .. Len(s) - 1 : j + 1 \in 1 .. Len(s) /\ j + 1 # 1
      /\ \A j, k \in 1 .. Len(s) - 1 : j + 1 = k + 1 => j = k
  BY <1>1
<1>4. \A k \in 1 .. Len(s) : k = 1 \/ \E j \in 1 .. Len(s) - 1 : k = j + 1
  <2> SUFFICES ASSUME NEW k \in 1 .. Len(s), k # 1
               PROVE  \E j \in 1 .. Len(s) - 1 : k = j + 1
    OBVIOUS
  <2>1. k - 1 \in 1 .. Len(s) - 1 /\ k = (k - 1) + 1
    BY <1>1
  <2> QED
    BY <2>1
<1>5. ToSet(t) = {s[j + 1] : j \in 1 .. Len(s) - 1}
  BY <1>1, <1>2, Zenon DEF ToSet
<1>6. ToSet(s) = ToSet(t) \cup {s[1]}
  <2>1. \A j \in 1 .. Len(s) - 1 : s[j + 1] \in ToSet(s)
    BY <1>2, <1>3, Zenon DEF ToSet
  <2>2. ASSUME NEW k \in 1 .. Len(s)
        PROVE  s[k] \in ToSet(t) \cup {s[1]}
    BY <1>4, <1>5, Zenon
  <2> QED
    <3>1. ToSet(s) \subseteq ToSet(t) \cup {s[1]}
      BY <1>2, <2>2, Zenon DEF ToSet
    <3>2. ToSet(t) \subseteq ToSet(s)
      BY <1>5, <2>1, Zenon
    <3>3. s[1] \in ToSet(s)
      BY <1>2, <1>3, Zenon DEF ToSet
    <3> QED
      BY <3>1, <3>2, <3>3
<1>7. ASSUME NoTwice(s)
      PROVE  NoTwice(t) /\ s[1] \notin ToSet(t)
  <2>1. \A j, k \in 1 .. Len(s) : s[j] = s[k] => j = k
    BY <1>7, Zenon DEF NoTwice
  <2>2. \A j \in 1 .. Len(s) - 1 : s[j + 1] # s[1]
    BY <1>3, <2>1, Zenon
  <2>3. \A j, k \in 1 .. Len(s) - 1 : t[j] = t[k] => j = k
    BY <1>1, <1>3, <2>1, Zenon
  <2> QED
    BY <1>1, <1>5, <2>2, <2>3, Zenon DEF NoTwice
<1> QED
  BY <1>1, <1>6, <1>7 DEF t

-----------------------------------------------------------------------------
(* Boxes *)

LEMMA BoxFacts ==
    ASSUME NEW q \in [End -> Seq(Elem)], NEW w \in [End -> Seq(Elem)]
    PROVE  /\ BoxesOf(q, w) \in [Box -> Seq(Elem)]
           /\ \A e \in End : /\ <<e, "queue">> \in Box /\ BoxesOf(q, w)[<<e, "queue">>] = q[e]
                             /\ <<e, "wire">> \in Box /\ BoxesOf(q, w)[<<e, "wire">>] = w[e]
           /\ \A b \in Box : \E e \in End : b = <<e, "queue">> \/ b = <<e, "wire">>
           /\ \A d, e \in End : /\ <<d, "queue">> # <<e, "wire">>
                                /\ <<d, "queue">> = <<e, "queue">> => d = e
                                /\ <<d, "wire">> = <<e, "wire">> => d = e
BY DEF BoxesOf, Box

LEMMA BoxesNext == boxes' = BoxesOf(queue', wire')
BY DEF boxes, BoxesOf

(* Nothing new in any box.                                                 *)
LEMMA ApartLess ==
    ASSUME NEW f, NEW g, Apart(f),
           \A b \in Box : NoTwice(g[b]) /\ ToSet(g[b]) \subseteq ToSet(f[b])
    PROVE  Apart(g)
BY DEF Apart

(* Something new in one box.                                               *)
LEMMA ApartMore ==
    ASSUME NEW f, NEW g, Apart(f), NEW a \in Box, NEW m,
           \A b \in Box \ {a} : g[b] = f[b],
           NoTwice(g[a]), ToSet(g[a]) = ToSet(f[a]) \cup {m},
           m = Hello \/ \A b \in Box : m \notin ToSet(f[b])
    PROVE  Apart(g)
<1> SUFFICES ASSUME NEW b \in Box, NEW d \in Box, b # d
             PROVE  ToSet(g[b]) \cap ToSet(g[d]) \subseteq {Hello}
  BY DEF Apart
<1>1. ToSet(f[b]) \cap ToSet(f[d]) \subseteq {Hello}
  BY DEF Apart
<1>2. CASE b = a
  BY <1>1, <1>2
<1>3. CASE d = a
  BY <1>1, <1>3
<1>4. CASE b # a /\ d # a
  BY <1>1, <1>4
<1> QED
  BY <1>2, <1>3, <1>4

(* In terms of queues and sockets.                                         *)
LEMMA TakenApart ==
    ASSUME NEW q \in [End -> Seq(Elem)], NEW w \in [End -> Seq(Elem)],
           NEW q2 \in [End -> Seq(Elem)], NEW w2 \in [End -> Seq(Elem)],
           Apart(BoxesOf(q, w)),
           \A e \in End : /\ q2[e] \in {q[e], << >>, Tail(q[e])}
                          /\ q[e] = << >> => q2[e] = q[e]
                          /\ w2[e] \in {w[e], << >>, Tail(w[e])}
                          /\ w[e] = << >> => w2[e] = w[e]
    PROVE  Apart(BoxesOf(q2, w2))
<1> DEFINE f == BoxesOf(q, w)
           g == BoxesOf(q2, w2)
<1>1. /\ f \in [Box -> Seq(Elem)]
      /\ \A b \in Box : g[b] \in {f[b], << >>, Tail(f[b])} /\ (f[b] = << >> => g[b] = f[b])
  BY BoxFacts DEF BoxesOf, Box
<1> HIDE DEF f, g
<1>2. ASSUME NEW b \in Box
      PROVE  NoTwice(g[b]) /\ ToSet(g[b]) \subseteq ToSet(f[b])
  <2>1. NoTwice(f[b]) /\ f[b] \in Seq(Elem)
    BY <1>1 DEF f, Apart
  <2>2. CASE f[b] = << >> \/ g[b] = f[b]
    BY <1>1, <2>1, <2>2
  <2>3. CASE g[b] = << >>
    BY <2>3, EmptyFacts
  <2>4. CASE f[b] # << >> /\ g[b] = Tail(f[b])
    BY <2>1, <2>4, TailFacts
  <2> QED
    BY <1>1, <2>2, <2>3, <2>4
<1>3. Apart(g)
  BY <1>2, ApartLess DEF f
<1> QED
  BY <1>3 DEF g

LEMMA PutApart ==
    ASSUME NEW q \in [End -> Seq(Elem)], NEW w \in [End -> Seq(Elem)],
           NEW q2 \in [End -> Seq(Elem)], NEW w2 \in [End -> Seq(Elem)],
           Apart(BoxesOf(q, w)), NEW e \in End, NEW m \in Elem,
           \/ q2 = [q EXCEPT ![e] = Append(@, m)] /\ w2 = w /\ m \notin ToSet(q[e])
           \/ w2 = [w EXCEPT ![e] = Append(@, m)] /\ q2 = q /\ m \notin ToSet(w[e]),
           m = Hello \/ \A d \in End : m \notin ToSet(q[d]) /\ m \notin ToSet(w[d])
    PROVE  Apart(BoxesOf(q2, w2))
<1> DEFINE f == BoxesOf(q, w)
           g == BoxesOf(q2, w2)
<1>1. PICK a \in Box : /\ g[a] = Append(f[a], m) /\ m \notin ToSet(f[a]) /\ f[a] \in Seq(Elem)
                       /\ \A b \in Box \ {a} : g[b] = f[b]
  <2>1. CASE q2 = [q EXCEPT ![e] = Append(@, m)] /\ w2 = w /\ m \notin ToSet(q[e])
    <3> DEFINE a == <<e, "queue">>
    <3>1. q2[e] = Append(q[e], m) /\ \A d \in End \ {e} : q2[d] = q[d]
      BY <2>1
    <3>2. a \in Box /\ g[a] = q2[e] /\ f[a] = q[e]
      BY DEF BoxesOf, Box
    <3>3. \A b \in Box \ {a} : g[b] = f[b]
      BY <2>1, <3>1 DEF BoxesOf, Box
    <3> HIDE DEF a, f, g
    <3> QED
      BY <2>1, <3>1, <3>2, <3>3
  <2>2. CASE w2 = [w EXCEPT ![e] = Append(@, m)] /\ q2 = q /\ m \notin ToSet(w[e])
    <3> DEFINE a == <<e, "wire">>
    <3>1. w2[e] = Append(w[e], m) /\ \A d \in End \ {e} : w2[d] = w[d]
      BY <2>2
    <3>2. a \in Box /\ g[a] = w2[e] /\ f[a] = w[e]
      BY DEF BoxesOf, Box
    <3>3. \A b \in Box \ {a} : g[b] = f[b]
      BY <2>2, <3>1 DEF BoxesOf, Box
    <3> HIDE DEF a, f, g
    <3> QED
      BY <2>2, <3>1, <3>2, <3>3
  <2> QED
    BY <2>1, <2>2
<1>2. m = Hello \/ \A b \in Box : m \notin ToSet(f[b])
  <2> SUFFICES ASSUME NEW b \in Box, m # Hello
               PROVE  m \notin ToSet(f[b])
    BY Zenon
  <2>1. PICK d \in End : b = <<d, "queue">> \/ b = <<d, "wire">>
    BY BoxFacts
  <2>2. f[b] = q[d] \/ f[b] = w[d]
    BY <2>1 DEF BoxesOf
  <2>3. m \notin ToSet(q[d]) /\ m \notin ToSet(w[d])
    OBVIOUS
  <2> HIDE DEF f
  <2> QED
    BY <2>2, <2>3, Zenon
<1> HIDE DEF f, g
<1>3. Apart(f) /\ NoTwice(f[a])
  BY DEF f, Apart
<1>4. ToSet(g[a]) = ToSet(f[a]) \cup {m} /\ NoTwice(g[a])
  BY <1>1, <1>3, AppendFacts
<1>5. Apart(g)
  BY <1>1, <1>2, <1>3, <1>4, ApartMore
<1> QED
  BY <1>5 DEF g

-----------------------------------------------------------------------------
LEMMA InitTask == Init => TaskInv
<1> SUFFICES ASSUME Init PROVE TaskInv
  OBVIOUS
<1>1. \A e \in End : queue[e] = << >> /\ wire[e] = << >>
  BY DEF Init
<1>2. TypeOK
  <2>1. 1 \in 1 .. LastMsg + 1
    BY MeshAssumption
  <2>2. queue \in [End -> Seq(Elem)] /\ wire \in [End -> Seq(Elem)]
    BY EmptyFacts DEF Init
  <2> QED
    BY <2>1, <2>2, EmptyFacts DEF Init, TypeOK, Elem
<1>3. OwnLine /\ GoneIfBroken
  BY ConnFacts DEF Init, OwnLine, GoneIfBroken
<1>4. HelloOnItsWay
  BY <1>1, ConnFacts, EmptyFacts DEF Init, HelloOnItsWay, HelloOK, HelloIn
<1>5. Apart(boxes)
  <2>1. queue \in [End -> Seq(Elem)] /\ wire \in [End -> Seq(Elem)]
    BY <1>2 DEF TypeOK, Elem
  <2>2. \A b \in Box : boxes[b] = << >>
    BY <1>1 DEF boxes, BoxesOf, Box
  <2> QED
    BY <2>2, EmptyFacts DEF Apart
<1> QED
  BY <1>2, <1>3, <1>4, <1>5 DEF TaskInv

LEMMA TypeFacts ==
    ASSUME TaskInv
    PROVE  /\ out \in [Node -> {"connecting", "greeting", "running", "ended"}]
           /\ line \in [Node -> Conn \cup {None}]
           /\ \A n \in Node : line[n] = None <=> out[n] = "connecting"
           /\ acc \in [Conn -> {"none", "hello", "checking", "registering", "readonly",
                                "bidir", "closing"}]
           /\ broken \subseteq Conn
           /\ queue \in [End -> Seq(Elem)]
           /\ wire \in [End -> Seq(Elem)]
           /\ ent \in [Node -> Conn \cup {None}]
           /\ next \in 1 .. LastMsg + 1
           /\ got \in Seq(Msg)
           /\ refused \subseteq Msg
           /\ lost \subseteq Msg
           /\ OwnLine /\ GoneIfBroken /\ HelloOnItsWay /\ Apart(boxes)
BY DEF TaskInv, TypeOK, Elem

(* The steps that leave queues and sockets as they are. *)

LEMMA ConnectKeeps ==
    ASSUME TaskInv, NEW n \in Node, Connect(n)
    PROVE  TaskInv'
<1> DEFINE c0 == <<n, Min(FreeSlots(n))>>
<1>1. c0 \in Conn /\ c0[1] = n /\ acc[c0] = "none" /\ line[n] # c0
  <2>1. Min(FreeSlots(n)) \in FreeSlots(n)
    <3>1. FreeSlots(n) \subseteq Nat
      BY MeshAssumption DEF FreeSlots
    <3>2. FreeSlots(n) # {}
      BY DEF Connect
    <3> QED
      BY <3>1, <3>2, MinIsIn
  <2> QED
    BY <2>1, ConnFacts DEF FreeSlots, Free
<1>2. /\ out[n] = "connecting"
      /\ line' = [line EXCEPT ![n] = c0]
      /\ acc' = [acc EXCEPT ![c0] = "hello"]
      /\ ent' = [ent EXCEPT ![n] = c0]
      /\ out' = [out EXCEPT ![n] = "greeting"]
      /\ UNCHANGED <<broken, queue, wire, next, got, refused, lost>>
  BY DEF Connect, fateVars
<1> HIDE DEF c0
<1>3. TypeOK'
  BY <1>1, <1>2, ConnFacts, TypeFacts DEF TypeOK, Elem
<1>4. OwnLine'
  BY <1>1, <1>2, TypeFacts DEF OwnLine
<1>5. line[n] = None /\ \A c \in Conn : c # None /\ c[1] \in Node
  BY <1>2, ConnFacts, TypeFacts
<1>6. /\ acc'[c0] = "hello" /\ line'[n] = c0 /\ out'[n] = "greeting"
      /\ \A c \in Conn \ {c0} : acc'[c] = acc[c] /\ (line'[c[1]] = c <=> line[c[1]] = c)
      /\ \A m \in Node \ {n} : line'[m] = line[m] /\ out'[m] = out[m]
  BY <1>1, <1>2, <1>5, TypeFacts
<1>7. GoneIfBroken'
  BY <1>1, <1>2, <1>5, <1>6, TypeFacts DEF GoneIfBroken
<1>8. HelloOnItsWay'
  <2> SUFFICES ASSUME NEW c \in Conn PROVE HelloOK(c)'
    BY DEF HelloOnItsWay
  <2>1. HelloOK(c)
    BY TypeFacts DEF HelloOnItsWay
  <2>2. CASE c = c0
    BY <1>1, <1>2, <1>6, <2>1, <2>2 DEF HelloOK
  <2>3. CASE c # c0
    BY <1>1, <1>2, <1>5, <1>6, <2>1, <2>3 DEF HelloOK
  <2> QED
    BY <2>2, <2>3
<1>9. Apart(boxes)'
  BY <1>2, TypeFacts DEF Apart, boxes
<1> QED
  BY <1>3, <1>4, <1>7, <1>8, <1>9 DEF TaskInv

LEMMA UnregisterOutboundKeeps ==
    ASSUME TaskInv, NEW n \in Node, UnregisterOutbound(n)
    PROVE  TaskInv'
<1>1. /\ out[n] = "ended"
      /\ ent' = [ent EXCEPT ![n] = None]
      /\ out' = [out EXCEPT ![n] = "connecting"]
      /\ line' = [line EXCEPT ![n] = None]
      /\ broken' \subseteq broken
      /\ \A c \in broken : ~(acc'[c] = "none" /\ line'[c[1]] # c) => c \in broken'
      /\ UNCHANGED <<acc, queue, wire, next, got, refused, lost>>
  BY DEF UnregisterOutbound, fateVars, StillBroken, Free
<1>2. TypeOK'
  BY <1>1, TypeFacts DEF TypeOK, Elem
<1>3. OwnLine'
  BY <1>1, TypeFacts DEF OwnLine
<1>4. \A c \in Conn : /\ c # None /\ c[1] \in Node
                      /\ line'[c[1]] = c => line[c[1]] = c /\ out'[c[1]] = out[c[1]]
                      /\ line[c[1]] = c /\ out[c[1]] # "ended" => line'[c[1]] = c
  BY <1>1, ConnFacts, TypeFacts
<1>5. GoneIfBroken'
  <2> SUFFICES ASSUME NEW c \in Conn,
                      acc[c] = "closing" \/ (acc[c] = "none" /\ line'[c[1]] = c)
               PROVE  c \in broken'
    BY <1>1 DEF GoneIfBroken
  <2>1. c \in broken
    BY <1>4, TypeFacts DEF GoneIfBroken
  <2> QED
    BY <1>1, <2>1
<1>6. HelloOnItsWay'
  <2> SUFFICES ASSUME NEW c \in Conn PROVE HelloOK(c)'
    BY DEF HelloOnItsWay
  <2>1. HelloOK(c)
    BY TypeFacts DEF HelloOnItsWay
  <2> QED
    BY <1>1, <1>4, <2>1 DEF HelloOK
<1>7. Apart(boxes)'
  BY <1>1, TypeFacts DEF Apart, boxes
<1> QED
  BY <1>2, <1>3, <1>5, <1>6, <1>7 DEF TaskInv

LEMMA SteadyKeeps ==
    ASSUME TaskInv, NEW c \in Conn, CheckRegistry(c) \/ RegisterInbound(c) \/ Break(c)
    PROVE  TaskInv'
<1> DEFINE Later(d) == acc[d] \notin {"hello", "none"} /\ acc'[d] \notin {"hello", "none", "closing"}
<1>1. /\ UNCHANGED <<out, line, queue, wire, next, got, refused, lost>>
      /\ broken \subseteq broken' /\ broken' \subseteq Conn
      /\ \/ acc' = acc
         \/ /\ acc[c] \in {"checking", "registering"}
            /\ \E a \in {"readonly", "registering", "bidir"} : acc' = [acc EXCEPT ![c] = a]
      /\ ent' \in [Node -> Conn \cup {None}]
  <2>1. CASE CheckRegistry(c)
    <3>1. broken \subseteq Conn /\ ent \in [Node -> Conn \cup {None}]
      BY TypeFacts
    <3>2. acc' = [acc EXCEPT ![c] = "readonly"] \/ acc' = [acc EXCEPT ![c] = "registering"]
      BY <2>1 DEF CheckRegistry
    <3> QED
      BY <2>1, <3>1, <3>2 DEF CheckRegistry, fateVars
  <2>2. CASE RegisterInbound(c)
    <3>1. broken \subseteq Conn /\ ent \in [Node -> Conn \cup {None}]
      BY TypeFacts
    <3>2. ent' \in [Node -> Conn \cup {None}]
      BY <2>2, <3>1 DEF RegisterInbound
    <3> QED
      BY <2>2, <3>1, <3>2 DEF RegisterInbound, fateVars
  <2>3. CASE Break(c)
    <3>1. broken \subseteq Conn /\ ent \in [Node -> Conn \cup {None}]
      BY TypeFacts
    <3> QED
      BY <2>3, <3>1 DEF Break, fateVars
  <2> QED
    BY <2>1, <2>2, <2>3
<1>6. /\ acc' \in [Conn -> {"none", "hello", "checking", "registering", "readonly",
                            "bidir", "closing"}]
      /\ \A d \in Conn : acc'[d] = acc[d] \/ Later(d)
  <2>1. acc \in [Conn -> {"none", "hello", "checking", "registering", "readonly",
                         "bidir", "closing"}]
    BY TypeFacts
  <2> QED
    BY <1>1, <2>1
<1>2. TypeOK' /\ OwnLine'
  BY <1>1, <1>6, TypeFacts DEF TypeOK, Elem, OwnLine
<1>3. GoneIfBroken'
  BY <1>1, <1>6, TypeFacts DEF GoneIfBroken
<1>4. HelloOnItsWay'
  <2> SUFFICES ASSUME NEW d \in Conn PROVE HelloOK(d)'
    BY DEF HelloOnItsWay
  <2>1. HelloOK(d)
    BY TypeFacts DEF HelloOnItsWay
  <2> QED
    BY <1>1, <1>6, <2>1 DEF HelloOK
<1>5. Apart(boxes)'
  BY <1>1, TypeFacts DEF Apart, boxes
<1> QED
  BY <1>2, <1>3, <1>4, <1>5 DEF TaskInv

-----------------------------------------------------------------------------
(* The steps that change what is in the boxes.                             *)

LEMMA SendHelloKeeps ==
    ASSUME TaskInv, NEW n \in Node, SendHello(n)
    PROVE  TaskInv'
<1> DEFINE c0 == line[n]
           e0 == DialEnd(c0)
<1>1. /\ c0 \in Conn /\ c0[1] = n /\ e0 = <<line[n], n>> /\ e0 \in End
  BY TypeFacts, ConnFacts DEF SendHello, OwnLine, DialEnd
<1>2. /\ out[n] = "greeting"
      /\ queue' = [queue EXCEPT ![e0] = Append(@, Hello)]
      /\ out' = [out EXCEPT ![n] = "running"]
      /\ UNCHANGED <<line, acc, broken, wire, ent, next, got, refused, lost>>
  BY <1>1 DEF SendHello, fateVars
<1>3. /\ HelloOK(c0)
      /\ ~HelloIn(queue[e0]) /\ ~HelloIn(wire[AcceptEnd(c0)])
      /\ acc[c0] \in {"hello", "none"}
  BY <1>1, <1>2, TypeFacts DEF HelloOnItsWay, HelloOK
<1> HIDE DEF c0, e0
<1>4. /\ Append(queue[e0], Hello) \in Seq(Elem)
      /\ ToSet(Append(queue[e0], Hello)) = ToSet(queue[e0]) \cup {Hello}
      /\ NoTwice(queue[e0]) => NoTwice(Append(queue[e0], Hello))
  <2>1. queue[e0] \in Seq(Elem) /\ Hello \in Elem
    BY <1>1, TypeFacts DEF Elem
  <2> QED
    BY <1>3, <2>1, AppendFacts DEF HelloIn
<1>5. queue' \in [End -> Seq(Elem)] /\ queue'[e0] = Append(queue[e0], Hello)
      /\ \A e \in End \ {e0} : queue'[e] = queue[e]
  BY <1>1, <1>2, <1>4, TypeFacts
<1>6. TypeOK'
  BY <1>1, <1>2, <1>5, ConnFacts, TypeFacts DEF TypeOK, Elem
<1>7. OwnLine' /\ GoneIfBroken'
  BY <1>2, TypeFacts DEF OwnLine, GoneIfBroken
<1>8. HelloOnItsWay'
  <2> SUFFICES ASSUME NEW c \in Conn PROVE HelloOK(c)'
    BY DEF HelloOnItsWay
  <2>1. HelloOK(c) /\ AcceptEnd(c) # e0 /\ AcceptEnd(c) \in End /\ DialEnd(c) \in End
    BY <1>1, TypeFacts, EndFacts, ConnFacts DEF HelloOnItsWay, e0
  <2>2. CASE c = c0
    <3>1. line'[c[1]] = c /\ out'[c[1]] = "running"
      BY <1>1, <1>2, <2>2, TypeFacts DEF c0
    <3> QED
      BY <1>2, <1>3, <1>5, <2>1, <2>2, <3>1 DEF HelloOK
  <2>3. CASE c # c0
    <3>1. DialEnd(c) # e0 /\ (line[c[1]] = c => c[1] # n)
      BY <1>1, <2>3, EndFacts DEF e0, c0
    <3>2. line[c[1]] = c => out'[c[1]] = out[c[1]]
      BY <1>2, <3>1, ConnFacts, TypeFacts
    <3> QED
      BY <1>2, <1>5, <2>1, <3>1, <3>2 DEF HelloOK
  <2> QED
    BY <2>2, <2>3
<1>9. Apart(BoxesOf(queue', wire'))
  <2>1. /\ wire \in [End -> Seq(Elem)] /\ queue \in [End -> Seq(Elem)]
        /\ Apart(BoxesOf(queue, wire)) /\ Hello \in Elem
    BY TypeFacts DEF boxes, Elem
  <2> QED
    BY <1>1, <1>2, <1>3, <1>5, <2>1, PutApart DEF HelloIn
<1>10. Apart(boxes)'
  BY <1>9, BoxesNext DEF Apart
<1> QED
  BY <1>6, <1>7, <1>8, <1>10 DEF TaskInv

(* A node is through with its outbound connection: what it had is gone.    *)
LEMMA OutboundEndsKeeps ==
    ASSUME TaskInv, NEW n \in Node, OutboundEnds(n)
    PROVE  TaskInv'
<1> DEFINE c0 == line[n]
           e0 == DialEnd(c0)
<1>1. /\ c0 \in Conn /\ c0[1] = n /\ e0 = <<line[n], n>> /\ e0 \in End
  BY TypeFacts, ConnFacts DEF OutboundEnds, OwnLine, DialEnd
<1>2. /\ out[n] = "running" /\ c0 \in broken
      /\ out' = [out EXCEPT ![n] = "ended"]
      /\ queue' = [queue EXCEPT ![e0] = << >>]
      /\ wire' = [wire EXCEPT ![e0] = << >>]
      /\ lost' = lost \cup Messages(queue[e0]) \cup Messages(wire[e0])
      /\ UNCHANGED <<line, acc, broken, ent, next, got, refused>>
  BY <1>1 DEF OutboundEnds
<1> HIDE DEF c0, e0
<1>3. /\ queue' \in [End -> Seq(Elem)] /\ wire' \in [End -> Seq(Elem)]
      /\ queue'[e0] = << >> /\ wire'[e0] = << >>
      /\ \A e \in End \ {e0} : queue'[e] = queue[e] /\ wire'[e] = wire[e]
  BY <1>1, <1>2, EmptyFacts, TypeFacts
<1>4. Messages(queue[e0]) \subseteq Msg /\ Messages(wire[e0]) \subseteq Msg
  <2>1. ToSet(queue[e0]) \subseteq Elem /\ ToSet(wire[e0]) \subseteq Elem
    BY <1>1, TypeFacts, ToSetIn
  <2> QED
    BY <2>1 DEF Messages, Elem
<1>5. TypeOK'
  BY <1>1, <1>2, <1>3, <1>4, ConnFacts, TypeFacts DEF TypeOK, Elem
<1>6. OwnLine' /\ GoneIfBroken'
  BY <1>2, TypeFacts DEF OwnLine, GoneIfBroken
<1>7. HelloOnItsWay'
  <2> SUFFICES ASSUME NEW c \in Conn PROVE HelloOK(c)'
    BY DEF HelloOnItsWay
  <2>1. HelloOK(c) /\ AcceptEnd(c) # e0 /\ AcceptEnd(c) \in End /\ DialEnd(c) \in End
    BY <1>1, TypeFacts, EndFacts, ConnFacts DEF HelloOnItsWay, e0
  <2>2. CASE c = c0
    <3>1. ~HelloIn(queue'[DialEnd(c)]) /\ ~HelloIn(wire'[DialEnd(c)]) /\ out'[c[1]] = "ended"
      BY <1>1, <1>2, <1>3, <2>2, EmptyFacts, TypeFacts DEF HelloIn, e0
    <3> QED
      BY <1>2, <1>3, <2>1, <3>1 DEF HelloOK
  <2>3. CASE c # c0
    <3>1. DialEnd(c) # e0 /\ (line[c[1]] = c => c[1] # n)
      BY <1>1, <2>3, EndFacts DEF e0, c0
    <3>2. line[c[1]] = c => out'[c[1]] = out[c[1]]
      BY <1>2, <3>1, ConnFacts, TypeFacts
    <3> QED
      BY <1>2, <1>3, <2>1, <3>1, <3>2 DEF HelloOK
  <2> QED
    BY <2>2, <2>3
<1>8. Apart(BoxesOf(queue', wire'))
  <2>1. /\ wire \in [End -> Seq(Elem)] /\ queue \in [End -> Seq(Elem)]
        /\ Apart(BoxesOf(queue, wire))
    BY TypeFacts DEF boxes
  <2>2. ASSUME NEW e \in End
        PROVE  /\ queue'[e] \in {queue[e], << >>, Tail(queue[e])}
               /\ queue[e] = << >> => queue'[e] = queue[e]
               /\ wire'[e] \in {wire[e], << >>, Tail(wire[e])}
               /\ wire[e] = << >> => wire'[e] = wire[e]
    BY <1>1, <1>3
  <2> QED
    BY <1>3, <2>1, <2>2, TakenApart
<1>9. Apart(boxes)'
  BY <1>8, BoxesNext DEF Apart
<1> QED
  BY <1>5, <1>6, <1>7, <1>9 DEF TaskInv

(* The acceptor's end: its task stands for the connection while nobody has *)
(* dropped it, so what is said of hello stays so if no hello is added.     *)
LEMMA HelloSteady ==
    ASSUME TaskInv, UNCHANGED <<out, line>>,
           \A d \in Conn : acc'[d] = acc[d] \/ acc[d] = "closing",
           \A e \in End : /\ HelloIn(queue'[e]) => HelloIn(queue[e])
                          /\ HelloIn(wire'[e]) => HelloIn(wire[e])
    PROVE  HelloOnItsWay'
<1> SUFFICES ASSUME NEW d \in Conn PROVE HelloOK(d)'
  BY DEF HelloOnItsWay
<1>1. HelloOK(d) /\ AcceptEnd(d) \in End /\ DialEnd(d) \in End
  BY TypeFacts, ConnFacts DEF HelloOnItsWay
<1>2. CASE acc[d] = "closing"
  <2>1. /\ ~HelloIn(queue[AcceptEnd(d)]) /\ ~HelloIn(wire[DialEnd(d)])
        /\ ~HelloIn(queue[DialEnd(d)]) /\ ~HelloIn(wire[AcceptEnd(d)])
        /\ ~(line[d[1]] = d /\ out[d[1]] = "greeting")
    BY <1>1, <1>2 DEF HelloOK
  <2> QED
    BY <1>1, <2>1 DEF HelloOK
<1>3. CASE acc'[d] = acc[d]
  BY <1>1, <1>3 DEF HelloOK
<1> QED
  BY <1>2, <1>3

LEMMA BrokenKeeps ==
    ASSUME TaskInv, NEW c \in Conn, c \in broken, line' = line,
           \A d \in Conn \ {c} : acc'[d] = acc[d],
           broken' = StillBroken
    PROVE  GoneIfBroken' /\ broken' \subseteq broken
<1>1. broken' \subseteq broken /\ \A d \in broken : ~(acc'[d] = "none" /\ line'[d[1]] # d) => d \in broken'
  BY DEF StillBroken, Free
<1>2. \A d \in Conn : acc'[d] = "closing" \/ (acc'[d] = "none" /\ line'[d[1]] = d) => d \in broken
  BY TypeFacts DEF GoneIfBroken
<1> QED
  BY <1>1, <1>2 DEF GoneIfBroken

LEMMA SkipToHelloKeeps ==
    ASSUME TaskInv, NEW c \in Conn, SkipToHello(c)
    PROVE  TaskInv'
<1> DEFINE e0 == AcceptEnd(c)
<1>1. /\ wire[e0] # << >> /\ Head(wire[e0]) # Hello
      /\ lost' = lost \cup {Head(wire[e0])}
      /\ wire' = [wire EXCEPT ![e0] = Tail(@)]
      /\ UNCHANGED <<out, line, acc, broken, queue, ent, next, got, refused>>
  BY DEF SkipToHello, AcceptEnd, taskVars
<1>2. e0 \in End
  BY ConnFacts
<1> HIDE DEF e0
<1>3. /\ Head(wire[e0]) \in Elem /\ Tail(wire[e0]) \in Seq(Elem)
      /\ ToSet(Tail(wire[e0])) \subseteq ToSet(wire[e0])
  BY <1>1, <1>2, TypeFacts, TailFacts
<1>4. /\ wire' \in [End -> Seq(Elem)] /\ wire'[e0] = Tail(wire[e0])
      /\ \A e \in End \ {e0} : wire'[e] = wire[e]
  BY <1>1, <1>2, <1>3, TypeFacts
<1>5. TypeOK'
  BY <1>1, <1>3, <1>4, TypeFacts DEF TypeOK, Elem
<1>6. OwnLine' /\ GoneIfBroken'
  BY <1>1, TypeFacts DEF OwnLine, GoneIfBroken
<1>7. HelloOnItsWay'
  <2>1. \A e \in End : HelloIn(wire'[e]) => HelloIn(wire[e])
    BY <1>3, <1>4 DEF HelloIn
  <2> QED
    BY <1>1, <2>1, HelloSteady
<1>8. Apart(BoxesOf(queue', wire'))
  <2>1. /\ wire \in [End -> Seq(Elem)] /\ queue \in [End -> Seq(Elem)]
        /\ Apart(BoxesOf(queue, wire))
    BY TypeFacts DEF boxes
  <2>2. ASSUME NEW e \in End
        PROVE  /\ queue'[e] \in {queue[e], << >>, Tail(queue[e])}
               /\ queue[e] = << >> => queue'[e] = queue[e]
               /\ wire'[e] \in {wire[e], << >>, Tail(wire[e])}
               /\ wire[e] = << >> => wire'[e] = wire[e]
    BY <1>1, <1>4
  <2> QED
    BY <1>1, <1>4, <2>1, <2>2, TakenApart
<1>9. Apart(boxes)'
  BY <1>8, BoxesNext DEF Apart
<1> QED
  BY <1>5, <1>6, <1>7, <1>9 DEF TaskInv

LEMMA ReadHelloKeeps ==
    ASSUME TaskInv, NEW c \in Conn, ReadHello(c)
    PROVE  TaskInv'
<1> DEFINE e0 == AcceptEnd(c)
<1>1. /\ acc[c] = "hello"
      /\ wire[e0] # << >> /\ Head(wire[e0]) = Hello
      /\ wire' = [wire EXCEPT ![e0] = Tail(@)]
      /\ acc' = [acc EXCEPT ![c] = "checking"]
      /\ UNCHANGED <<out, line, broken, queue, ent, next, got, refused, lost>>
  BY DEF ReadHello, AcceptEnd, fateVars
<1>2. e0 \in End /\ wire[e0] \in Seq(Elem)
  BY ConnFacts, TypeFacts
<1> HIDE DEF e0
<1>3. /\ <<e0, "wire">> \in Box /\ boxes[<<e0, "wire">>] = wire[e0]
      /\ NoTwice(wire[e0])
  <2>1. wire \in [End -> Seq(Elem)] /\ queue \in [End -> Seq(Elem)] /\ Apart(boxes)
    BY TypeFacts
  <2>2. <<e0, "wire">> \in Box /\ boxes[<<e0, "wire">>] = wire[e0]
    BY <1>2, <2>1 DEF Box, boxes, BoxesOf
  <2> QED
    BY <2>1, <2>2 DEF Apart
<1>4. /\ Tail(wire[e0]) \in Seq(Elem)
      /\ Hello \in ToSet(wire[e0]) /\ Hello \notin ToSet(Tail(wire[e0]))
  BY <1>1, <1>2, <1>3, TailFacts
<1>5. /\ wire' \in [End -> Seq(Elem)] /\ wire'[e0] = Tail(wire[e0])
      /\ \A e \in End \ {e0} : wire'[e] = wire[e]
  BY <1>1, <1>2, <1>4, TypeFacts
<1>6. TypeOK' /\ OwnLine' /\ GoneIfBroken'
  <2>1. /\ acc' \in [Conn -> {"none", "hello", "checking", "registering", "readonly",
                              "bidir", "closing"}]
        /\ acc'[c] = "checking" /\ \A d \in Conn \ {c} : acc'[d] = acc[d]
    BY <1>1, TypeFacts
  <2>2. TypeOK'
    BY <1>1, <1>5, <2>1, TypeFacts DEF TypeOK, Elem
  <2> QED
    BY <1>1, <2>1, <2>2, TypeFacts DEF OwnLine, GoneIfBroken
<1>7. HelloOnItsWay'
  <2> SUFFICES ASSUME NEW d \in Conn PROVE HelloOK(d)'
    BY DEF HelloOnItsWay
  <2>1. HelloOK(d) /\ AcceptEnd(d) \in End /\ DialEnd(d) \in End /\ DialEnd(d) # e0
    BY TypeFacts, EndFacts, ConnFacts DEF HelloOnItsWay, e0
  <2>2. CASE d = c
    <3>1. AcceptEnd(d) = e0 /\ HelloIn(wire[e0])
      BY <1>4, <2>2 DEF e0, HelloIn
    <3>2. /\ ~HelloIn(queue[AcceptEnd(d)]) /\ ~HelloIn(wire[DialEnd(d)])
          /\ ~HelloIn(queue[DialEnd(d)])
          /\ ~(line[d[1]] = d /\ out[d[1]] = "greeting")
      BY <2>1, <3>1 DEF HelloOK
    <3>3. ~HelloIn(wire'[AcceptEnd(d)]) /\ wire'[DialEnd(d)] = wire[DialEnd(d)]
      BY <1>4, <1>5, <2>1, <3>1 DEF HelloIn
    <3> QED
      BY <1>1, <3>2, <3>3 DEF HelloOK
  <2>3. CASE d # c
    <3>1. AcceptEnd(d) # e0 /\ acc'[d] = acc[d]
      BY <1>1, <2>3, EndFacts, TypeFacts DEF e0
    <3> QED
      BY <1>1, <1>5, <2>1, <3>1 DEF HelloOK
  <2> QED
    BY <2>2, <2>3
<1>8. Apart(BoxesOf(queue', wire'))
  <2>1. /\ wire \in [End -> Seq(Elem)] /\ queue \in [End -> Seq(Elem)]
        /\ Apart(BoxesOf(queue, wire))
    BY TypeFacts DEF boxes
  <2>2. ASSUME NEW e \in End
        PROVE  /\ queue'[e] \in {queue[e], << >>, Tail(queue[e])}
               /\ queue[e] = << >> => queue'[e] = queue[e]
               /\ wire'[e] \in {wire[e], << >>, Tail(wire[e])}
               /\ wire[e] = << >> => wire'[e] = wire[e]
    BY <1>1, <1>5
  <2> QED
    BY <1>1, <1>5, <2>1, <2>2, TakenApart
<1>9. Apart(boxes)'
  BY <1>8, BoxesNext DEF Apart
<1> QED
  BY <1>6, <1>7, <1>9 DEF TaskInv

LEMMA MessagesIn ==
    ASSUME NEW s \in Seq(Elem)
    PROVE  Messages(s) \subseteq Msg
<1>1. ToSet(s) \subseteq Elem
  BY ToSetIn
<1> QED
  BY <1>1 DEF Messages, Elem

LEMMA InboundEndsKeeps ==
    ASSUME TaskInv, NEW c \in Conn, InboundEnds(c)
    PROVE  TaskInv'
<1> DEFINE e0 == AcceptEnd(c)
<1>1. /\ acc[c] \in {"hello", "readonly", "bidir"}
      /\ c \in broken
      /\ acc' = [acc EXCEPT ![c] = IF @ = "bidir" THEN "closing" ELSE "none"]
      /\ lost' = lost \cup Messages(wire[e0])
      /\ wire' = [wire EXCEPT ![e0] = << >>]
      /\ UNCHANGED <<out, line, queue, ent, next, got, refused>>
      /\ broken' = StillBroken
  BY DEF InboundEnds, AcceptEnd
<1>2. e0 \in End /\ wire[e0] \in Seq(Elem)
  BY ConnFacts, TypeFacts
<1> HIDE DEF e0
<1>3. /\ acc' \in [Conn -> {"none", "hello", "checking", "registering", "readonly",
                            "bidir", "closing"}]
      /\ acc'[c] = IF acc[c] = "bidir" THEN "closing" ELSE "none"
      /\ \A d \in Conn \ {c} : acc'[d] = acc[d]
  BY <1>1, TypeFacts
<1>4. /\ wire' \in [End -> Seq(Elem)] /\ wire'[e0] = << >>
      /\ \A e \in End \ {e0} : wire'[e] = wire[e]
  BY <1>1, <1>2, EmptyFacts, TypeFacts
<1>5. GoneIfBroken' /\ broken' \subseteq broken
  BY <1>1, <1>3, BrokenKeeps
<1>6. TypeOK' /\ OwnLine'
  BY <1>1, <1>2, <1>3, <1>4, <1>5, MessagesIn, TypeFacts DEF TypeOK, Elem, OwnLine
<1>7. HelloOnItsWay'
  <2> SUFFICES ASSUME NEW d \in Conn PROVE HelloOK(d)'
    BY DEF HelloOnItsWay
  <2>1. HelloOK(d) /\ AcceptEnd(d) \in End /\ DialEnd(d) \in End /\ DialEnd(d) # e0
    BY TypeFacts, EndFacts, ConnFacts DEF HelloOnItsWay, e0
  <2>2. CASE d = c
    <3>1. AcceptEnd(d) = e0 /\ ~HelloIn(wire'[e0]) /\ wire'[DialEnd(d)] = wire[DialEnd(d)]
      BY <1>4, <2>1, <2>2, EmptyFacts DEF e0, HelloIn
    <3>2. acc[d] \in {"hello", "none"} => acc'[d] = "none"
      BY <1>1, <1>3, <2>2
    <3> QED
      BY <1>1, <2>1, <3>1, <3>2 DEF HelloOK
  <2>3. CASE d # c
    <3>1. AcceptEnd(d) # e0 /\ acc'[d] = acc[d]
      BY <1>3, <2>3, EndFacts DEF e0
    <3> QED
      BY <1>1, <1>4, <2>1, <3>1 DEF HelloOK
  <2> QED
    BY <2>2, <2>3
<1>8. Apart(BoxesOf(queue', wire'))
  <2>1. /\ wire \in [End -> Seq(Elem)] /\ queue \in [End -> Seq(Elem)]
        /\ Apart(BoxesOf(queue, wire))
    BY TypeFacts DEF boxes
  <2>2. ASSUME NEW e \in End
        PROVE  /\ queue'[e] \in {queue[e], << >>, Tail(queue[e])}
               /\ queue[e] = << >> => queue'[e] = queue[e]
               /\ wire'[e] \in {wire[e], << >>, Tail(wire[e])}
               /\ wire[e] = << >> => wire'[e] = wire[e]
    BY <1>1, <1>4
  <2> QED
    BY <1>1, <1>4, <2>1, <2>2, TakenApart
<1>9. Apart(boxes)'
  BY <1>8, BoxesNext DEF Apart
<1> QED
  BY <1>5, <1>6, <1>7, <1>9 DEF TaskInv

LEMMA UnregisterInboundKeeps ==
    ASSUME TaskInv, NEW c \in Conn, UnregisterInbound(c)
    PROVE  TaskInv'
<1> DEFINE e0 == AcceptEnd(c)
<1>1. /\ acc[c] = "closing"
      /\ ent' = [ent EXCEPT ![Acceptor(c)] = None]
      /\ acc' = [acc EXCEPT ![c] = "none"]
      /\ lost' = lost \cup Messages(queue[e0])
      /\ queue' = [queue EXCEPT ![e0] = << >>]
      /\ UNCHANGED <<out, line, wire, next, got, refused>>
      /\ broken' = StillBroken
  BY DEF UnregisterInbound, AcceptEnd
<1>2. e0 \in End /\ queue[e0] \in Seq(Elem) /\ c \in broken
  BY <1>1, ConnFacts, TypeFacts DEF GoneIfBroken
<1> HIDE DEF e0
<1>3. /\ acc' \in [Conn -> {"none", "hello", "checking", "registering", "readonly",
                            "bidir", "closing"}]
      /\ acc'[c] = "none"
      /\ \A d \in Conn \ {c} : acc'[d] = acc[d]
      /\ ent' \in [Node -> Conn \cup {None}]
  BY <1>1, TypeFacts
<1>4. /\ queue' \in [End -> Seq(Elem)] /\ queue'[e0] = << >>
      /\ \A e \in End \ {e0} : queue'[e] = queue[e]
  BY <1>1, <1>2, EmptyFacts, TypeFacts
<1>5. GoneIfBroken' /\ broken' \subseteq broken
  BY <1>1, <1>2, <1>3, BrokenKeeps
<1>6. TypeOK' /\ OwnLine'
  BY <1>1, <1>2, <1>3, <1>4, <1>5, MessagesIn, TypeFacts DEF TypeOK, Elem, OwnLine
<1>7. HelloOnItsWay'
  <2>1. \A e \in End : HelloIn(queue'[e]) => HelloIn(queue[e])
    BY <1>4, EmptyFacts DEF HelloIn
  <2>2. \A d \in Conn : acc'[d] = acc[d] \/ acc[d] = "closing"
    BY <1>1, <1>3
  <2> QED
    BY <1>1, <2>1, <2>2, HelloSteady
<1>8. Apart(BoxesOf(queue', wire'))
  <2>1. /\ wire \in [End -> Seq(Elem)] /\ queue \in [End -> Seq(Elem)]
        /\ Apart(BoxesOf(queue, wire))
    BY TypeFacts DEF boxes
  <2>2. ASSUME NEW e \in End
        PROVE  /\ queue'[e] \in {queue[e], << >>, Tail(queue[e])}
               /\ queue[e] = << >> => queue'[e] = queue[e]
               /\ wire'[e] \in {wire[e], << >>, Tail(wire[e])}
               /\ wire[e] = << >> => wire'[e] = wire[e]
    BY <1>1, <1>4
  <2> QED
    BY <1>1, <1>4, <2>1, <2>2, TakenApart
<1>9. Apart(boxes)'
  BY <1>8, BoxesNext DEF Apart
<1> QED
  BY <1>5, <1>6, <1>7, <1>9 DEF TaskInv

LEMMA WriteKeeps ==
    ASSUME TaskInv, NEW e \in End, Write(e)
    PROVE  TaskInv'
<1> DEFINE c == e[1]
           x == <<e[1], Other(e[2])>>
           h == Head(queue[e])
<1>1. /\ Writes(e) /\ c \notin broken /\ queue[e] # << >>
      /\ queue' = [queue EXCEPT ![e] = Tail(@)]
      /\ wire' = [wire EXCEPT ![x] = Append(@, h)]
      /\ UNCHANGED <<out, line, acc, broken, ent, next, got, refused, lost>>
  BY DEF Write, taskVars, fateVars
<1>2. /\ c \in Conn
      /\ \/ e = DialEnd(c) /\ x = AcceptEnd(c)
         \/ e = AcceptEnd(c) /\ x = DialEnd(c)
  BY AcrossFacts
<1>3. x \in End /\ queue[e] \in Seq(Elem) /\ wire[x] \in Seq(Elem) /\ HelloOK(c)
  BY <1>2, ConnFacts, TypeFacts DEF HelloOnItsWay
<1> HIDE DEF c, x
<1>4. /\ <<e, "queue">> \in Box /\ boxes[<<e, "queue">>] = queue[e]
      /\ NoTwice(queue[e])
      /\ \A d \in End : ToSet(queue[e]) \cap ToSet(wire[d]) \subseteq {Hello}
      /\ \A d \in End \ {e} : ToSet(queue[e]) \cap ToSet(queue[d]) \subseteq {Hello}
  <2>1. wire \in [End -> Seq(Elem)] /\ queue \in [End -> Seq(Elem)] /\ Apart(boxes)
    BY TypeFacts
  <2>2. \A d \in End : \A k \in {"queue", "wire"} : <<d, k>> \in Box
    BY DEF Box
  <2>3. \A d \in End : boxes[<<d, "queue">>] = queue[d] /\ boxes[<<d, "wire">>] = wire[d]
    BY <2>1 DEF Box, boxes, BoxesOf
  <2>4. ASSUME NEW d \in End
        PROVE  ToSet(queue[e]) \cap ToSet(wire[d]) \subseteq {Hello}
    <3>1. <<d, "wire">> # <<e, "queue">>
      OBVIOUS
    <3>2. ToSet(boxes[<<e, "queue">>]) \cap ToSet(boxes[<<d, "wire">>]) \subseteq {Hello}
      BY <2>1, <2>2, <3>1 DEF Apart
    <3> QED
      BY <2>3, <3>2
  <2>5. ASSUME NEW d \in End \ {e}
        PROVE  ToSet(queue[e]) \cap ToSet(queue[d]) \subseteq {Hello}
    <3>1. <<d, "queue">> # <<e, "queue">>
      OBVIOUS
    <3>2. ToSet(boxes[<<e, "queue">>]) \cap ToSet(boxes[<<d, "queue">>]) \subseteq {Hello}
      BY <2>1, <2>2, <3>1 DEF Apart
    <3> QED
      BY <2>3, <3>2
  <2> QED
    BY <2>1, <2>2, <2>3, <2>4, <2>5 DEF Apart
<1>5. /\ h \in Elem /\ Tail(queue[e]) \in Seq(Elem) /\ Append(wire[x], h) \in Seq(Elem)
      /\ h \in ToSet(queue[e]) /\ h \notin ToSet(Tail(queue[e]))
      /\ ToSet(Tail(queue[e])) \subseteq ToSet(queue[e])
      /\ ToSet(Append(wire[x], h)) = ToSet(wire[x]) \cup {h}
  BY <1>1, <1>3, <1>4, AppendFacts, TailFacts
<1> HIDE DEF h
<1>6. /\ queue' \in [End -> Seq(Elem)] /\ queue'[e] = Tail(queue[e])
      /\ \A d \in End \ {e} : queue'[d] = queue[d]
      /\ wire' \in [End -> Seq(Elem)] /\ wire'[x] = Append(wire[x], h)
      /\ \A d \in End \ {x} : wire'[d] = wire[d]
  BY <1>1, <1>3, <1>5, TypeFacts
<1>7. TypeOK' /\ OwnLine' /\ GoneIfBroken'
  <2>1. TypeOK'
    BY <1>1, <1>6, TypeFacts DEF TypeOK, Elem
  <2> QED
    BY <1>1, <2>1, TypeFacts DEF OwnLine, GoneIfBroken
<1>8. h = Hello => /\ e = DialEnd(c) /\ x = AcceptEnd(c) /\ acc[c] = "hello"
                   /\ ~HelloIn(wire[x]) /\ out[c[1]] = "running"
  <2> SUFFICES ASSUME h = Hello
               PROVE  /\ e = DialEnd(c) /\ x = AcceptEnd(c) /\ acc[c] = "hello"
                      /\ ~HelloIn(wire[x]) /\ out[c[1]] = "running"
    OBVIOUS
  <2>1. HelloIn(queue[e])
    BY <1>5 DEF HelloIn
  <2>2. e = DialEnd(c) /\ x = AcceptEnd(c)
    BY <1>2, <1>3, <2>1 DEF HelloOK
  <2>3. line[c[1]] = c /\ out[c[1]] = "running" /\ acc[c] \in {"hello", "none"} /\ ~HelloIn(wire[x])
    BY <1>3, <2>1, <2>2 DEF HelloOK
  <2>4. acc[c] # "none"
    BY <1>1, <1>2, <2>3, TypeFacts DEF GoneIfBroken
  <2> QED
    BY <2>2, <2>3, <2>4
<1>9. HelloOnItsWay'
  <2>1. \A d \in End : HelloIn(queue'[d]) => HelloIn(queue[d])
    BY <1>5, <1>6 DEF HelloIn
  <2>2. CASE h # Hello
    <3>1. HelloIn(wire'[x]) => HelloIn(wire[x])
      BY <1>5, <1>6, <2>2 DEF HelloIn
    <3>2. \A d \in End : HelloIn(wire'[d]) => HelloIn(wire[d])
      BY <1>6, <3>1
    <3> QED
      BY <1>1, <2>1, <3>2, HelloSteady
  <2>3. CASE h = Hello
    <3> SUFFICES ASSUME NEW d \in Conn PROVE HelloOK(d)'
      BY DEF HelloOnItsWay
    <3>1. HelloOK(d) /\ AcceptEnd(d) \in End /\ DialEnd(d) \in End /\ DialEnd(d) # x
      BY <1>2, <1>8, <2>3, TypeFacts, EndFacts, ConnFacts DEF HelloOnItsWay
    <3>2. CASE d = c
      <4>1. ~HelloIn(queue'[DialEnd(d)])
        BY <1>5, <1>6, <1>8, <2>3, <3>2 DEF HelloIn
      <4>2. /\ ~HelloIn(queue[AcceptEnd(d)]) /\ ~HelloIn(wire[DialEnd(d)])
            /\ acc[d] = "hello" /\ out[d[1]] = "running"
        BY <1>8, <2>3, <3>1, <3>2 DEF HelloOK
      <4>3. ~HelloIn(queue'[AcceptEnd(d)]) /\ ~HelloIn(wire'[DialEnd(d)])
        BY <1>6, <2>1, <3>1, <4>2
      <4> QED
        BY <1>1, <4>1, <4>2, <4>3 DEF HelloOK
    <3>3. CASE d # c
      <4>1. AcceptEnd(d) # x
        BY <1>2, <1>8, <2>3, <3>3, EndFacts
      <4> QED
        BY <1>1, <1>6, <2>1, <3>1, <4>1 DEF HelloOK
    <3> QED
      BY <3>2, <3>3
  <2> QED
    BY <2>2, <2>3
<1>10. Apart(BoxesOf(queue', wire'))
  <2>1. /\ wire \in [End -> Seq(Elem)] /\ queue \in [End -> Seq(Elem)]
        /\ Apart(BoxesOf(queue, wire))
    BY TypeFacts DEF boxes
  <2>2. ASSUME NEW d \in End
        PROVE  /\ queue'[d] \in {queue[d], << >>, Tail(queue[d])}
               /\ queue[d] = << >> => queue'[d] = queue[d]
    BY <1>1, <1>6
  <2>3. Apart(BoxesOf(queue', wire))
    BY <1>6, <2>1, <2>2, TakenApart
  <2>4. ASSUME h # Hello, NEW d \in End
        PROVE  h \notin ToSet(queue'[d]) /\ h \notin ToSet(wire[d])
    <3>1. h \notin ToSet(wire[d])
      BY <1>4, <1>5, <2>4
    <3>2. CASE d = e
      BY <1>5, <1>6, <3>1, <3>2
    <3>3. CASE d # e
      <4>1. h \notin ToSet(queue[d]) /\ queue'[d] = queue[d]
        BY <1>4, <1>5, <1>6, <2>4, <3>3
      <4> QED
        BY <3>1, <4>1
    <3> QED
      BY <3>2, <3>3
  <2>5. h \notin ToSet(wire[x])
    BY <1>3, <1>8, <2>4 DEF HelloIn
  <2> QED
    <3>1. h = Hello \/ \A d \in End : h \notin ToSet(queue'[d]) /\ h \notin ToSet(wire[d])
      BY <2>4
    <3>2. /\ wire' = [wire EXCEPT ![x] = Append(@, h)]
          /\ x \in End /\ h \in Elem
          /\ queue' \in [End -> Seq(Elem)] /\ wire' \in [End -> Seq(Elem)]
      BY <1>1, <1>3, <1>5, <1>6
    <3> QED
      BY <2>1, <2>3, <2>5, <3>1, <3>2, PutApart
<1>11. Apart(boxes)'
  BY <1>10, BoxesNext DEF Apart
<1> QED
  BY <1>7, <1>9, <1>11 DEF TaskInv

(* What is read in the loops is a message.                                 *)
LEMMA ReadIsMessage ==
    ASSUME TaskInv, NEW e \in End, Read(e)
    PROVE  Head(wire[e]) \in Msg
<1>1. Reads(e) /\ wire[e] # << >>
  BY DEF Read
<1>2. PICK c \in Conn : e = DialEnd(c) \/ e = AcceptEnd(c)
  BY ConnFacts
<1>3. HelloOK(c)
  BY TypeFacts DEF HelloOnItsWay
<1>4. ~HelloIn(wire[e])
  <2>1. CASE e = DialEnd(c)
    BY <1>3, <2>1 DEF HelloOK
  <2>2. CASE e = AcceptEnd(c)
    BY <1>1, <1>3, <2>2, LoopFacts DEF HelloOK
  <2> QED
    BY <1>2, <2>1, <2>2
<1>5. Head(wire[e]) \in Elem /\ Head(wire[e]) \in ToSet(wire[e])
  BY <1>1, TypeFacts, TailFacts
<1> QED
  BY <1>4, <1>5 DEF Elem, HelloIn

LEMMA ReadKeeps ==
    ASSUME TaskInv, NEW e \in End, Read(e)
    PROVE  TaskInv'
<1>1. /\ wire[e] # << >>
      /\ wire' = [wire EXCEPT ![e] = Tail(@)]
      /\ got' = Append(got, Head(wire[e]))
      /\ UNCHANGED <<out, line, acc, broken, queue, ent, next, refused, lost>>
  BY DEF Read, taskVars
<1>2. got' \in Seq(Msg)
  BY <1>1, ReadIsMessage, TypeFacts, AppendFacts
<1>3. Tail(wire[e]) \in Seq(Elem) /\ ToSet(Tail(wire[e])) \subseteq ToSet(wire[e])
  BY <1>1, TypeFacts, TailFacts
<1>4. /\ wire' \in [End -> Seq(Elem)] /\ wire'[e] = Tail(wire[e])
      /\ \A d \in End \ {e} : wire'[d] = wire[d]
  BY <1>1, <1>3, TypeFacts
<1>5. TypeOK'
  BY <1>1, <1>2, <1>4, TypeFacts DEF TypeOK, Elem
<1>6. OwnLine' /\ GoneIfBroken'
  BY <1>1, TypeFacts DEF OwnLine, GoneIfBroken
<1>7. HelloOnItsWay'
  <2>1. \A d \in End : HelloIn(wire'[d]) => HelloIn(wire[d])
    BY <1>3, <1>4 DEF HelloIn
  <2> QED
    BY <1>1, <2>1, HelloSteady
<1>8. Apart(BoxesOf(queue', wire'))
  <2>1. /\ wire \in [End -> Seq(Elem)] /\ queue \in [End -> Seq(Elem)]
        /\ Apart(BoxesOf(queue, wire))
    BY TypeFacts DEF boxes
  <2>2. ASSUME NEW d \in End
        PROVE  /\ queue'[d] \in {queue[d], << >>, Tail(queue[d])}
               /\ queue[d] = << >> => queue'[d] = queue[d]
               /\ wire'[d] \in {wire[d], << >>, Tail(wire[d])}
               /\ wire[d] = << >> => wire'[d] = wire[d]
    BY <1>1, <1>4
  <2> QED
    BY <1>1, <1>4, <2>1, <2>2, TakenApart
<1>9. Apart(boxes)'
  BY <1>8, BoxesNext DEF Apart
<1> QED
  BY <1>5, <1>6, <1>7, <1>9 DEF TaskInv

(* The next message is not on its way before it is sent.                   *)
LEMMA SendKeeps ==
    ASSUME Inv, Send
    PROVE  TaskInv'
<1> DEFINE e == <<ent[Origin], Origin>>
<1>1. /\ next \in Msg /\ next' = next + 1
      /\ UNCHANGED <<out, line, acc, broken, wire, ent, got, lost>>
      /\ TaskInv
  BY DEF Send, taskVars, Inv
<1>2. next' \in 1 .. LastMsg + 1 /\ next \in Elem /\ next # Hello
  BY <1>1, MeshAssumption DEF Msg, Elem, Hello
<1>3. \A d \in End : next \notin ToSet(queue[d]) /\ next \notin ToSet(wire[d])
  <2>1. PICK f \in Fates : \A g \in Fates : At(next, g) <=> g = f
    BY <1>1 DEF Inv, OneFate
  <2>2. next >= next
    BY <1>1 DEF Msg
  <2>3. At(next, "unsent") /\ (OnTheWay(next) => At(next, "accepted"))
    BY <2>2 DEF At
  <2>4. ~OnTheWay(next)
    BY <2>1, <2>3 DEF Fates
  <2> QED
    BY <2>4, Zenon DEF OnTheWay
<1>4. CASE ent[Origin] # None /\ ReceiverOpen(e)
  <2>1. queue' = [queue EXCEPT ![e] = Append(@, next)] /\ refused' = refused
    BY <1>4 DEF Send
  <2>2. e \in End
    BY <1>1, <1>4, MeshAssumption, TypeFacts DEF End
  <2> HIDE DEF e
  <2>3. /\ Append(queue[e], next) \in Seq(Elem)
        /\ ToSet(Append(queue[e], next)) = ToSet(queue[e]) \cup {next}
    BY <1>1, <1>2, <2>2, TypeFacts, AppendFacts
  <2>4. /\ queue' \in [End -> Seq(Elem)] /\ queue'[e] = Append(queue[e], next)
        /\ \A d \in End \ {e} : queue'[d] = queue[d]
    BY <1>1, <2>1, <2>2, <2>3, TypeFacts
  <2>5. TypeOK'
    BY <1>1, <1>2, <2>1, <2>4, TypeFacts DEF TypeOK, Elem
  <2>6. OwnLine' /\ GoneIfBroken'
    BY <1>1, TypeFacts DEF OwnLine, GoneIfBroken
  <2>7. HelloOnItsWay'
    <3>1. \A d \in End : HelloIn(queue'[d]) => HelloIn(queue[d])
      BY <1>2, <2>3, <2>4 DEF HelloIn
    <3> QED
      BY <1>1, <3>1, HelloSteady
  <2>8. Apart(BoxesOf(queue', wire'))
    <3>1. /\ wire \in [End -> Seq(Elem)] /\ queue \in [End -> Seq(Elem)]
          /\ Apart(BoxesOf(queue, wire))
      BY <1>1, TypeFacts DEF boxes
    <3> QED
      BY <1>1, <1>2, <1>3, <2>1, <2>2, <2>4, <3>1, PutApart
  <2>9. Apart(boxes)'
    BY <2>8, BoxesNext DEF Apart
  <2> QED
    BY <2>5, <2>6, <2>7, <2>9 DEF TaskInv
<1>5. CASE ~(ent[Origin] # None /\ ReceiverOpen(e))
  <2>1. queue' = queue /\ refused' = refused \cup {next}
    BY <1>5 DEF Send
  <2>2. TypeOK'
    BY <1>1, <1>2, <2>1, TypeFacts DEF TypeOK, Elem
  <2>3. OwnLine' /\ GoneIfBroken'
    BY <1>1, TypeFacts DEF OwnLine, GoneIfBroken
  <2>4. HelloOnItsWay'
    BY <1>1, <2>1, HelloSteady
  <2>5. Apart(boxes)'
    BY <1>1, <2>1, TypeFacts DEF Apart, boxes
  <2> QED
    BY <2>2, <2>3, <2>4, <2>5 DEF TaskInv
<1> QED
  BY <1>4, <1>5

-----------------------------------------------------------------------------
(* What steps do to the fates of messages.                                 *)

(* The messages of ms, and no other ones, come to fate f.                  *)
Moves(ms, f) ==
    \A m \in Msg, g \in Fates : At(m, g)' <=> IF m \in ms THEN g = f ELSE At(m, g)

(* The moves that Link allows.                                             *)
Legal(ms, f) ==
    \/ f \in {"refused", "accepted"} /\ ms = {next} /\ next \in Msg
    \/ f = "delivered" /\ \E m \in ms : ms = {m} /\ At(m, "accepted")
    \/ f = "lost" /\ \A m \in ms : At(m, "accepted")

LEMMA FateFacts ==
    ASSUME Inv, NEW m \in Msg
    PROVE  /\ OnTheWay(m) => /\ ~(m >= next) /\ m \notin refused
                             /\ m \notin ToSet(got) /\ m \notin lost
           /\ m >= next => /\ ~OnTheWay(m) /\ m \notin refused
                           /\ m \notin ToSet(got) /\ m \notin lost
<1>1. PICK f \in Fates : \A g \in Fates : At(m, g) <=> g = f
  BY DEF Inv, OneFate
<1>2. /\ At(m, "unsent") <=> m >= next
      /\ At(m, "refused") <=> m \in refused
      /\ At(m, "accepted") <=> OnTheWay(m)
      /\ At(m, "delivered") <=> m \in ToSet(got)
      /\ At(m, "lost") <=> m \in lost
  BY DEF At
<1> QED
  BY <1>1, <1>2 DEF Fates

(* A message is in one box, and there once.                                *)
LEMMA InOneBox ==
    ASSUME TaskInv, NEW m \in Msg, NEW e \in End
    PROVE  /\ NoTwice(queue[e]) /\ NoTwice(wire[e])
           /\ m \in ToSet(queue[e]) =>
                 \A d \in End : m \notin ToSet(wire[d]) /\ (d # e => m \notin ToSet(queue[d]))
           /\ m \in ToSet(wire[e]) =>
                 \A d \in End : m \notin ToSet(queue[d]) /\ (d # e => m \notin ToSet(wire[d]))
<1>1. /\ queue \in [End -> Seq(Elem)] /\ wire \in [End -> Seq(Elem)]
      /\ Apart(boxes) /\ m # Hello
  BY TypeFacts DEF Msg, Hello
<1>2. /\ \A d \in End : boxes[<<d, "queue">>] = queue[d] /\ boxes[<<d, "wire">>] = wire[d]
      /\ \A d \in End : <<d, "queue">> \in Box /\ <<d, "wire">> \in Box
  BY <1>1 DEF Box, boxes, BoxesOf
<1>3. NoTwice(queue[e]) /\ NoTwice(wire[e])
  BY <1>1, <1>2 DEF Apart
<1>4. \A b, d \in Box : b # d => ~(m \in ToSet(boxes[b]) /\ m \in ToSet(boxes[d]))
  BY <1>1 DEF Apart
<1>5. ASSUME NEW d \in End
      PROVE  /\ ~(m \in ToSet(queue[e]) /\ m \in ToSet(wire[d]))
             /\ ~(m \in ToSet(wire[e]) /\ m \in ToSet(queue[d]))
             /\ d # e => /\ ~(m \in ToSet(queue[e]) /\ m \in ToSet(queue[d]))
                         /\ ~(m \in ToSet(wire[e]) /\ m \in ToSet(wire[d]))
  <2>1. <<d, "wire">> # <<e, "queue">> /\ <<e, "wire">> # <<d, "queue">>
    OBVIOUS
  <2>2. d # e => <<d, "queue">> # <<e, "queue">> /\ <<d, "wire">> # <<e, "wire">>
    OBVIOUS
  <2> QED
    BY <1>2, <1>4, <2>1, <2>2, Zenon
<1> QED
  BY <1>3, <1>5

(* Messages that stay where they are, whatever becomes of hello.           *)
LEMMA StayPut ==
    ASSUME UNCHANGED <<next, got, refused, lost>>,
           \A m \in Msg : OnTheWay(m)' <=> OnTheWay(m)
    PROVE  Moves({}, "lost")
BY DEF Moves, At

(* Messages that are on their way no more.                                 *)
LEMMA DropMoves ==
    ASSUME Inv, NEW ms \in SUBSET Msg,
           UNCHANGED <<next, got, refused>>, lost' = lost \cup ms,
           \A m \in ms : \E e \in End : m \in ToSet(queue[e]) \cup ToSet(wire[e]),
           \A m \in Msg, e \in End :
               /\ m \in ToSet(queue'[e]) <=> m \in ToSet(queue[e]) /\ m \notin ms
               /\ m \in ToSet(wire'[e]) <=> m \in ToSet(wire[e]) /\ m \notin ms
    PROVE  Legal(ms, "lost") /\ Moves(ms, "lost")
<1>3. \A m \in ms : OnTheWay(m)
  BY DEF OnTheWay
<1>4. \A m \in Msg : OnTheWay(m)' <=> OnTheWay(m) /\ m \notin ms
  BY Zenon DEF OnTheWay
<1>1. Legal(ms, "lost")
  BY <1>3 DEF Legal, At
<1>2. ASSUME NEW m \in Msg, NEW g \in Fates
      PROVE  At(m, g)' <=> IF m \in ms THEN g = "lost" ELSE At(m, g)
  <2>1. /\ At(m, "unsent")' <=> m >= next
        /\ At(m, "refused")' <=> m \in refused
        /\ At(m, "accepted")' <=> OnTheWay(m) /\ m \notin ms
        /\ At(m, "delivered")' <=> m \in ToSet(got)
        /\ At(m, "lost")' <=> m \in lost \/ m \in ms
    BY <1>4 DEF At
  <2>2. /\ At(m, "unsent") <=> m >= next
        /\ At(m, "refused") <=> m \in refused
        /\ At(m, "accepted") <=> OnTheWay(m)
        /\ At(m, "delivered") <=> m \in ToSet(got)
        /\ At(m, "lost") <=> m \in lost
    BY DEF At
  <2>3. m \in ms => ~(m >= next) /\ m \notin refused /\ m \notin ToSet(got)
    BY <1>3, FateFacts
  <2> QED
    BY <2>1, <2>2, <2>3 DEF Fates
<1> QED
  BY <1>1, <1>2 DEF Moves

LEMMA SkipToHelloMoves ==
    ASSUME Inv, NEW c \in Conn, SkipToHello(c)
    PROVE  \E ms \in SUBSET Msg : Legal(ms, "lost") /\ Moves(ms, "lost")
<1> DEFINE e0 == AcceptEnd(c)
           h == Head(wire[e0])
<1>1. /\ wire[e0] # << >> /\ h # Hello
      /\ lost' = lost \cup {h}
      /\ wire' = [wire EXCEPT ![e0] = Tail(@)]
      /\ UNCHANGED <<queue, next, got, refused>>
      /\ TaskInv
  BY DEF SkipToHello, AcceptEnd, taskVars, Inv
<1>2. e0 \in End /\ wire \in [End -> Seq(Elem)]
  BY <1>1, ConnFacts, TypeFacts
<1> HIDE DEF e0
<1>3. h \in Elem /\ h \in ToSet(wire[e0]) /\ ToSet(wire[e0]) = ToSet(Tail(wire[e0])) \cup {h}
  BY <1>1, <1>2, TailFacts
<1>4. h \in Msg
  BY <1>1, <1>3 DEF Elem
<1>5. h \notin ToSet(Tail(wire[e0]))
  BY <1>1, <1>2, <1>4, InOneBox, TailFacts
<1> HIDE DEF h
<1>6. wire'[e0] = Tail(wire[e0]) /\ \A d \in End \ {e0} : wire'[d] = wire[d]
  BY <1>1, <1>2
<1>7. \A d \in End : h \notin ToSet(queue[d]) /\ (d # e0 => h \notin ToSet(wire[d]))
  BY <1>1, <1>2, <1>3, <1>4, InOneBox
<1>8. ASSUME NEW m \in Msg, NEW e \in End
      PROVE  /\ m \in ToSet(queue'[e]) <=> m \in ToSet(queue[e]) /\ m \notin {h}
             /\ m \in ToSet(wire'[e]) <=> m \in ToSet(wire[e]) /\ m \notin {h}
  <2>1. CASE e = e0
    BY <1>1, <1>3, <1>5, <1>6, <1>7, <2>1
  <2>2. CASE e # e0
    BY <1>1, <1>6, <1>7, <2>2
  <2> QED
    BY <2>1, <2>2
<1>9. {h} \in SUBSET Msg /\ \A m \in {h} : \E e \in End : m \in ToSet(queue[e]) \cup ToSet(wire[e])
  BY <1>2, <1>3, <1>4
<1>10. Legal({h}, "lost") /\ Moves({h}, "lost")
  BY <1>1, <1>8, <1>9, DropMoves
<1> QED
  BY <1>9, <1>10

(* Boxes of one end are emptied.                                           *)
LEMMA EmptyMoves ==
    ASSUME Inv, NEW e \in End, NEW ms,
           UNCHANGED <<next, got, refused>>, lost' = lost \cup ms,
           \/ /\ queue'[e] = << >> /\ wire'[e] = << >>
              /\ ms = Messages(queue[e]) \cup Messages(wire[e])
           \/ queue'[e] = << >> /\ wire'[e] = wire[e] /\ ms = Messages(queue[e])
           \/ queue'[e] = queue[e] /\ wire'[e] = << >> /\ ms = Messages(wire[e]),
           \A d \in End \ {e} : queue'[d] = queue[d] /\ wire'[d] = wire[d]
    PROVE  ms \in SUBSET Msg /\ Legal(ms, "lost") /\ Moves(ms, "lost")
<1>1. TaskInv
  BY DEF Inv
<1>2. Messages(queue[e]) \subseteq Msg /\ Messages(wire[e]) \subseteq Msg
  BY <1>1, TypeFacts, MessagesIn
<1>3. \A m \in Msg : /\ m \in Messages(queue[e]) <=> m \in ToSet(queue[e])
                     /\ m \in Messages(wire[e]) <=> m \in ToSet(wire[e])
  BY DEF Messages, Msg, Hello
<1>4. ms \in SUBSET Msg
  BY <1>2
<1>5. \A m \in ms : m \in ToSet(queue[e]) \cup ToSet(wire[e])
  BY <1>2, <1>3
<1>6. ASSUME NEW m \in Msg, NEW d \in End
      PROVE  /\ m \in ToSet(queue'[d]) <=> m \in ToSet(queue[d]) /\ m \notin ms
             /\ m \in ToSet(wire'[d]) <=> m \in ToSet(wire[d]) /\ m \notin ms
  <2>1. CASE d = e
    <3>1. m \in ToSet(queue[e]) => m \notin ToSet(wire[e])
      BY <1>1, InOneBox
    <3> QED
      BY <1>3, <2>1, <3>1, EmptyFacts
  <2>2. CASE d # e
    <3>1. m \in ToSet(queue[d]) \cup ToSet(wire[d]) => m \notin ToSet(queue[e]) \cup ToSet(wire[e])
      BY <1>1, <2>2, InOneBox
    <3>2. queue'[d] = queue[d] /\ wire'[d] = wire[d]
      BY <2>2
    <3> QED
      BY <1>5, <3>1, <3>2
  <2> QED
    BY <2>1, <2>2
<1>7. \A m \in ms : \E d \in End : m \in ToSet(queue[d]) \cup ToSet(wire[d])
  BY <1>5
<1>8. Legal(ms, "lost") /\ Moves(ms, "lost")
  BY <1>4, <1>6, <1>7, DropMoves
<1> QED
  BY <1>4, <1>8

LEMMA EndMoves ==
    ASSUME Inv,
           \/ \E n \in Node : OutboundEnds(n)
           \/ \E c \in Conn : InboundEnds(c) \/ UnregisterInbound(c)
    PROVE  \E ms \in SUBSET Msg : Legal(ms, "lost") /\ Moves(ms, "lost")
<1>1. /\ TaskInv /\ wire \in [End -> Seq(Elem)] /\ queue \in [End -> Seq(Elem)]
  BY TypeFacts DEF Inv
<1>2. ASSUME NEW n \in Node, OutboundEnds(n)
      PROVE  \E ms \in SUBSET Msg : Legal(ms, "lost") /\ Moves(ms, "lost")
  <2> DEFINE e == <<line[n], n>>
             ms == Messages(queue[e]) \cup Messages(wire[e])
  <2>1. e \in End
    BY <1>1, <1>2, TypeFacts DEF OutboundEnds, End
  <2>2. /\ UNCHANGED <<next, got, refused>> /\ lost' = lost \cup ms
        /\ queue' = [queue EXCEPT ![e] = << >>]
        /\ wire' = [wire EXCEPT ![e] = << >>]
    BY <1>2 DEF OutboundEnds
  <2> HIDE DEF e
  <2>3. /\ queue'[e] = << >> /\ wire'[e] = << >>
        /\ \A d \in End \ {e} : queue'[d] = queue[d] /\ wire'[d] = wire[d]
    BY <1>1, <2>1, <2>2
  <2>4. ms \in SUBSET Msg /\ Legal(ms, "lost") /\ Moves(ms, "lost")
    BY <2>1, <2>2, <2>3, EmptyMoves
  <2> QED
    BY <2>4
<1>3. ASSUME NEW c \in Conn, InboundEnds(c)
      PROVE  \E ms \in SUBSET Msg : Legal(ms, "lost") /\ Moves(ms, "lost")
  <2> DEFINE e == AcceptEnd(c)
             ms == Messages(wire[e])
  <2>1. e \in End
    BY ConnFacts
  <2>2. /\ UNCHANGED <<next, got, refused, queue>> /\ lost' = lost \cup ms
        /\ wire' = [wire EXCEPT ![e] = << >>]
    BY <1>3 DEF InboundEnds, AcceptEnd
  <2> HIDE DEF e
  <2>3. /\ queue'[e] = queue[e] /\ wire'[e] = << >>
        /\ \A d \in End \ {e} : queue'[d] = queue[d] /\ wire'[d] = wire[d]
    BY <1>1, <2>1, <2>2
  <2>4. ms \in SUBSET Msg /\ Legal(ms, "lost") /\ Moves(ms, "lost")
    BY <2>1, <2>2, <2>3, EmptyMoves
  <2> QED
    BY <2>4
<1>4. ASSUME NEW c \in Conn, UnregisterInbound(c)
      PROVE  \E ms \in SUBSET Msg : Legal(ms, "lost") /\ Moves(ms, "lost")
  <2> DEFINE e == AcceptEnd(c)
             ms == Messages(queue[e])
  <2>1. e \in End
    BY ConnFacts
  <2>2. /\ UNCHANGED <<next, got, refused, wire>> /\ lost' = lost \cup ms
        /\ queue' = [queue EXCEPT ![e] = << >>]
    BY <1>4 DEF UnregisterInbound, AcceptEnd
  <2> HIDE DEF e
  <2>3. /\ queue'[e] = << >> /\ wire'[e] = wire[e]
        /\ \A d \in End \ {e} : queue'[d] = queue[d] /\ wire'[d] = wire[d]
    BY <1>1, <2>1, <2>2
  <2>4. ms \in SUBSET Msg /\ Legal(ms, "lost") /\ Moves(ms, "lost")
    BY <2>1, <2>2, <2>3, EmptyMoves
  <2> QED
    BY <2>4
<1> QED
  BY <1>2, <1>3, <1>4

LEMMA ReadMoves ==
    ASSUME Inv, NEW e \in End, Read(e)
    PROVE  /\ Legal({Head(wire[e])}, "delivered") /\ Moves({Head(wire[e])}, "delivered")
           /\ Head(wire[e]) \in Msg /\ Head(wire[e]) \notin ToSet(got)
<1> DEFINE h == Head(wire[e])
<1>1. /\ TaskInv /\ wire[e] # << >> /\ wire[e] \in Seq(Elem) /\ h \in Msg /\ got \in Seq(Msg)
      /\ wire' = [wire EXCEPT ![e] = Tail(@)]
      /\ got' = Append(got, h)
      /\ UNCHANGED <<queue, next, refused, lost>>
  BY ReadIsMessage, TypeFacts DEF Read, taskVars, Inv
<1>2. /\ h \in ToSet(wire[e]) /\ ToSet(wire[e]) = ToSet(Tail(wire[e])) \cup {h}
      /\ h \notin ToSet(Tail(wire[e]))
  BY <1>1, InOneBox, TailFacts
<1>3. ToSet(got') = ToSet(got) \cup {h}
  BY <1>1, AppendFacts
<1> HIDE DEF h
<1>4. wire'[e] = Tail(wire[e]) /\ \A d \in End \ {e} : wire'[d] = wire[d]
  BY <1>1, TypeFacts
<1>5. \A d \in End : h \notin ToSet(queue[d]) /\ (d # e => h \notin ToSet(wire[d]))
  BY <1>1, <1>2, InOneBox
<1>6. ASSUME NEW m \in Msg
      PROVE  OnTheWay(m)' <=> OnTheWay(m) /\ m # h
  <2>1. ASSUME NEW d \in End
        PROVE  /\ m \in ToSet(queue'[d]) <=> m \in ToSet(queue[d]) /\ m # h
               /\ m \in ToSet(wire'[d]) <=> m \in ToSet(wire[d]) /\ m # h
    <3>1. CASE d = e
      BY <1>1, <1>2, <1>4, <1>5, <3>1
    <3>2. CASE d # e
      BY <1>1, <1>4, <1>5, <3>2
    <3> QED
      BY <3>1, <3>2
  <2> QED
    BY <2>1, Zenon DEF OnTheWay
<1>7. OnTheWay(h)
  BY <1>2 DEF OnTheWay
<1>8. ~(h >= next) /\ h \notin refused /\ h \notin ToSet(got) /\ h \notin lost
  BY <1>1, <1>7, FateFacts
<1>9. ASSUME NEW m \in Msg, NEW g \in Fates
      PROVE  At(m, g)' <=> IF m \in {h} THEN g = "delivered" ELSE At(m, g)
  <2>1. /\ At(m, "unsent")' <=> m >= next
        /\ At(m, "refused")' <=> m \in refused
        /\ At(m, "accepted")' <=> OnTheWay(m) /\ m # h
        /\ At(m, "delivered")' <=> m \in ToSet(got) \/ m = h
        /\ At(m, "lost")' <=> m \in lost
    BY <1>1, <1>3, <1>6 DEF At
  <2>2. /\ At(m, "unsent") <=> m >= next
        /\ At(m, "refused") <=> m \in refused
        /\ At(m, "accepted") <=> OnTheWay(m)
        /\ At(m, "delivered") <=> m \in ToSet(got)
        /\ At(m, "lost") <=> m \in lost
    BY DEF At
  <2> QED
    BY <1>8, <2>1, <2>2 DEF Fates
<1>10. Legal({h}, "delivered") /\ Moves({h}, "delivered")
  BY <1>7, <1>9 DEF Legal, At, Moves
<1> QED
  BY <1>1, <1>8, <1>10 DEF h

LEMMA SendMoves ==
    ASSUME Inv, Send
    PROVE  /\ next \in Msg
           /\ \E f \in {"refused", "accepted"} : Moves({next}, f)
<1> DEFINE e == <<ent[Origin], Origin>>
<1>1. /\ TaskInv /\ next \in Msg /\ next' = next + 1 /\ next \in Elem
      /\ UNCHANGED <<wire, got, lost>>
  BY DEF Send, taskVars, Inv, Elem
<1>2. ~OnTheWay(next) /\ next \notin refused /\ next \notin ToSet(got) /\ next \notin lost
  BY <1>1, FateFacts DEF Msg
<1>3. ASSUME NEW f \in {"refused", "accepted"},
             refused' = IF f = "refused" THEN refused \cup {next} ELSE refused,
             \A m \in Msg : OnTheWay(m)' <=> OnTheWay(m) \/ (m = next /\ f = "accepted")
      PROVE  Moves({next}, f)
  <2> SUFFICES ASSUME NEW m \in Msg, NEW g \in Fates
               PROVE  At(m, g)' <=> IF m \in {next} THEN g = f ELSE At(m, g)
    BY DEF Moves
  <2>1. /\ At(m, "unsent")' <=> m >= next + 1
        /\ At(m, "refused")' <=> m \in refused \/ (m = next /\ f = "refused")
        /\ At(m, "accepted")' <=> OnTheWay(m) \/ (m = next /\ f = "accepted")
        /\ At(m, "delivered")' <=> m \in ToSet(got)
        /\ At(m, "lost")' <=> m \in lost
    BY <1>1, <1>3 DEF At
  <2>2. /\ At(m, "unsent") <=> m >= next
        /\ At(m, "refused") <=> m \in refused
        /\ At(m, "accepted") <=> OnTheWay(m)
        /\ At(m, "delivered") <=> m \in ToSet(got)
        /\ At(m, "lost") <=> m \in lost
    BY DEF At
  <2>3. m >= next + 1 <=> m >= next /\ m # next
    BY <1>1 DEF Msg
  <2>4. f = "refused" \/ f = "accepted"
    OBVIOUS
  <2> QED
    BY <1>2, <2>1, <2>2, <2>3, <2>4 DEF Fates
<1>4. CASE ent[Origin] # None /\ ReceiverOpen(e)
  <2>1. queue' = [queue EXCEPT ![e] = Append(@, next)] /\ refused' = refused
    BY <1>4 DEF Send
  <2>2. e \in End
    BY <1>1, <1>4, MeshAssumption, TypeFacts DEF End
  <2> HIDE DEF e
  <2>3. /\ queue'[e] = Append(queue[e], next)
        /\ ToSet(Append(queue[e], next)) = ToSet(queue[e]) \cup {next}
        /\ \A d \in End \ {e} : queue'[d] = queue[d]
    BY <1>1, <2>1, <2>2, TypeFacts, AppendFacts
  <2>4. ASSUME NEW m \in Msg
        PROVE  OnTheWay(m)' <=> OnTheWay(m) \/ m = next
    <3>1. \A d \in End \ {e} : queue'[d] = queue[d] /\ wire'[d] = wire[d]
      BY <1>1, <2>3
    <3>2. m \in ToSet(queue'[e]) <=> m \in ToSet(queue[e]) \/ m = next
      BY <2>3
    <3>3. wire' = wire
      BY <1>1
    <3> QED
      BY <2>2, <3>1, <3>2, <3>3, Zenon DEF OnTheWay
  <2>5. Moves({next}, "accepted")
    BY <1>3, <2>1, <2>4
  <2> QED
    BY <1>1, <2>5
<1>5. CASE ~(ent[Origin] # None /\ ReceiverOpen(e))
  <2>1. queue' = queue /\ refused' = refused \cup {next}
    BY <1>5 DEF Send
  <2>2. \A m \in Msg : OnTheWay(m)' <=> OnTheWay(m)
    BY <1>1, <2>1 DEF OnTheWay
  <2>3. Moves({next}, "refused")
    BY <1>3, <2>1, <2>2
  <2> QED
    BY <1>1, <2>3
<1> QED
  BY <1>4, <1>5

LEMMA WriteStays ==
    ASSUME Inv, NEW e \in End, Write(e)
    PROVE  Moves({}, "lost")
<1> DEFINE x == <<e[1], Other(e[2])>>
           h == Head(queue[e])
<1>1. /\ TaskInv /\ queue[e] # << >>
      /\ queue' = [queue EXCEPT ![e] = Tail(@)]
      /\ wire' = [wire EXCEPT ![x] = Append(@, h)]
      /\ UNCHANGED <<next, got, refused, lost>>
  BY DEF Write, fateVars, Inv
<1>2. x \in End
  BY AcrossFacts, ConnFacts
<1>3. queue[e] \in Seq(Elem) /\ wire[x] \in Seq(Elem)
  BY <1>1, <1>2, TypeFacts
<1> HIDE DEF x
<1>4. /\ h \in Elem /\ ToSet(queue[e]) = ToSet(Tail(queue[e])) \cup {h}
      /\ ToSet(Append(wire[x], h)) = ToSet(wire[x]) \cup {h}
  BY <1>1, <1>3, AppendFacts, TailFacts
<1> HIDE DEF h
<1>5. /\ queue'[e] = Tail(queue[e]) /\ \A d \in End \ {e} : queue'[d] = queue[d]
      /\ wire'[x] = Append(wire[x], h) /\ \A d \in End \ {x} : wire'[d] = wire[d]
  BY <1>1, <1>2, TypeFacts
<1>6. ASSUME NEW m \in Msg
      PROVE  OnTheWay(m)' <=> OnTheWay(m)
  <2>1. /\ m \in ToSet(queue[e]) <=> m \in ToSet(queue'[e]) \/ m = h
        /\ m \in ToSet(wire'[x]) <=> m \in ToSet(wire[x]) \/ m = h
    BY <1>4, <1>5
  <2>2. OnTheWay(m) => OnTheWay(m)'
    BY <1>2, <1>5, <2>1, Zenon DEF OnTheWay
  <2>3. OnTheWay(m)' => OnTheWay(m)
    BY <1>2, <1>5, <2>1, Zenon DEF OnTheWay
  <2> QED
    BY <2>2, <2>3
<1> QED
  BY <1>1, <1>6, StayPut

(* Hello comes and goes.                                                   *)
LEMMA HelloStays ==
    ASSUME Inv,
           \/ \E n \in Node : SendHello(n)
           \/ \E c \in Conn : ReadHello(c)
    PROVE  Moves({}, "lost")
<1>1. TaskInv /\ wire \in [End -> Seq(Elem)] /\ queue \in [End -> Seq(Elem)]
  BY TypeFacts DEF Inv
<1>2. Hello \in Elem /\ Hello \notin Msg
  BY DEF Elem, Msg, Hello
<1>3. ASSUME NEW n \in Node, SendHello(n)
      PROVE  Moves({}, "lost")
  <2> DEFINE e == <<line[n], n>>
  <2>1. e \in End
    BY <1>1, <1>3, TypeFacts DEF SendHello, End
  <2>2. /\ queue' = [queue EXCEPT ![e] = Append(@, Hello)]
        /\ UNCHANGED <<wire, next, got, refused, lost>>
    BY <1>3 DEF SendHello, fateVars
  <2> HIDE DEF e
  <2>3. /\ ToSet(queue'[e]) = ToSet(queue[e]) \cup {Hello}
        /\ \A d \in End \ {e} : queue'[d] = queue[d]
    BY <1>1, <1>2, <2>1, <2>2, AppendFacts
  <2>4. \A m \in Msg, d \in End : m \in ToSet(queue'[d]) <=> m \in ToSet(queue[d])
    BY <1>2, <2>3
  <2>5. \A m \in Msg : OnTheWay(m)' <=> OnTheWay(m)
    BY <2>2, <2>4, Zenon DEF OnTheWay
  <2> QED
    BY <2>2, <2>5, StayPut
<1>4. ASSUME NEW c \in Conn, ReadHello(c)
      PROVE  Moves({}, "lost")
  <2> DEFINE e == AcceptEnd(c)
  <2>1. e \in End
    BY ConnFacts
  <2>2. /\ wire[e] # << >> /\ Head(wire[e]) = Hello
        /\ wire' = [wire EXCEPT ![e] = Tail(@)]
        /\ UNCHANGED <<queue, next, got, refused, lost>>
    BY <1>4 DEF ReadHello, AcceptEnd, fateVars
  <2> HIDE DEF e
  <2>3. /\ ToSet(wire[e]) = ToSet(wire'[e]) \cup {Hello}
        /\ \A d \in End \ {e} : wire'[d] = wire[d]
    BY <1>1, <2>1, <2>2, TailFacts
  <2>4. \A m \in Msg, d \in End : m \in ToSet(wire'[d]) <=> m \in ToSet(wire[d])
    BY <1>2, <2>3
  <2>5. \A m \in Msg : OnTheWay(m)' <=> OnTheWay(m)
    BY <2>2, <2>4, Zenon DEF OnTheWay
  <2> QED
    BY <2>2, <2>5, StayPut
<1> QED
  BY <1>3, <1>4

LEMMA StillBoxes ==
    ASSUME UNCHANGED <<queue, wire, next, got, refused, lost>>
    PROVE  Moves({}, "lost")
<1>1. \A m \in Msg : OnTheWay(m)' <=> OnTheWay(m)
  BY DEF OnTheWay
<1> QED
  BY <1>1, StayPut

(* Every step is a move that Link allows.                                  *)
LEMMA StepMoves ==
    ASSUME Inv, [Next]_vars
    PROVE  \E ms \in SUBSET Msg, f \in Fates : Legal(ms, f) /\ Moves(ms, f)
<1>1. ASSUME Moves({}, "lost")
      PROVE  \E ms \in SUBSET Msg, f \in Fates : Legal(ms, f) /\ Moves(ms, f)
  <2>1. Legal({}, "lost") /\ {} \in SUBSET Msg /\ "lost" \in Fates
    BY DEF Legal, Fates
  <2> QED
    BY <1>1, <2>1, Zenon
<1>2. ASSUME \E ms \in SUBSET Msg : Legal(ms, "lost") /\ Moves(ms, "lost")
      PROVE  \E ms \in SUBSET Msg, f \in Fates : Legal(ms, f) /\ Moves(ms, f)
  <2>1. "lost" \in Fates
    BY DEF Fates
  <2> QED
    BY <1>2, <2>1, Zenon
<1>3. CASE UNCHANGED vars
  BY <1>1, <1>3, StillBoxes DEF vars
<1>4. ASSUME NEW n \in Node, DialerStep(n)
      PROVE  \E ms \in SUBSET Msg, f \in Fates : Legal(ms, f) /\ Moves(ms, f)
  <2>1. CASE Connect(n) \/ UnregisterOutbound(n)
    BY <1>1, <2>1, StillBoxes DEF Connect, UnregisterOutbound, fateVars
  <2>2. CASE SendHello(n)
    BY <1>1, <2>2, HelloStays
  <2>3. CASE OutboundEnds(n)
    BY <1>2, <2>3, EndMoves
  <2> QED
    BY <1>4, <2>1, <2>2, <2>3 DEF DialerStep
<1>5. ASSUME NEW c \in Conn, AcceptorStep(c) \/ Break(c)
      PROVE  \E ms \in SUBSET Msg, f \in Fates : Legal(ms, f) /\ Moves(ms, f)
  <2>1. CASE CheckRegistry(c) \/ RegisterInbound(c) \/ Break(c)
    BY <1>1, <2>1, StillBoxes DEF CheckRegistry, RegisterInbound, Break, fateVars
  <2>2. CASE ReadHello(c)
    BY <1>1, <2>2, HelloStays
  <2>3. CASE SkipToHello(c)
    BY <1>2, <2>3, SkipToHelloMoves
  <2>4. CASE InboundEnds(c) \/ UnregisterInbound(c)
    BY <1>2, <2>4, EndMoves
  <2> QED
    BY <1>5, <2>1, <2>2, <2>3, <2>4 DEF AcceptorStep
<1>6. ASSUME NEW e \in End, Write(e) \/ Read(e)
      PROVE  \E ms \in SUBSET Msg, f \in Fates : Legal(ms, f) /\ Moves(ms, f)
  <2>1. CASE Write(e)
    BY <1>1, <2>1, WriteStays
  <2>2. CASE Read(e)
    <3>1. {Head(wire[e])} \in SUBSET Msg /\ "delivered" \in Fates
      BY <2>2, ReadMoves DEF Fates
    <3> QED
      BY <2>2, <3>1, ReadMoves, Zenon
  <2> QED
    BY <1>6, <2>1, <2>2
<1>7. CASE Send
  <2>1. PICK f \in {"refused", "accepted"} : Moves({next}, f) /\ next \in Msg
    BY <1>7, SendMoves
  <2>2. {next} \in SUBSET Msg /\ f \in Fates /\ Legal({next}, f)
    BY <2>1 DEF Legal, Fates
  <2> QED
    BY <2>1, <2>2, Zenon
<1> QED
  BY <1>3, <1>4, <1>5, <1>6, <1>7 DEF Next

-----------------------------------------------------------------------------
LEMMA InitInv == Init => Inv
<1> SUFFICES ASSUME Init PROVE Inv
  OBVIOUS
<1>1. ASSUME NEW m \in Msg
      PROVE  \A g \in Fates : At(m, g) <=> g = "unsent"
  <2>1. m >= next
    BY DEF Init, Msg
  <2>2. ~OnTheWay(m) /\ m \notin ToSet(got) /\ m \notin refused /\ m \notin lost
    BY EmptyFacts DEF Init, OnTheWay
  <2> QED
    BY <2>1, <2>2 DEF At, Fates
<1>2. OneFate
  BY <1>1 DEF OneFate, Fates
<1> QED
  BY <1>2, InitTask DEF Inv

LEMMA TaskStep ==
    ASSUME Inv, [Next]_vars
    PROVE  TaskInv'
<1>1. TaskInv
  BY DEF Inv
<1>2. CASE UNCHANGED vars
  <2>1. TypeOK' /\ OwnLine' /\ GoneIfBroken'
    BY <1>1, <1>2 DEF vars, TaskInv, TypeOK, OwnLine, GoneIfBroken
  <2>2. HelloOnItsWay'
    BY <1>1, <1>2, HelloSteady DEF vars
  <2>3. Apart(boxes)'
    BY <1>1, <1>2, TypeFacts DEF vars, Apart, boxes
  <2> QED
    BY <2>1, <2>2, <2>3 DEF TaskInv
<1>3. ASSUME NEW n \in Node, DialerStep(n) PROVE TaskInv'
  BY <1>1, <1>3, ConnectKeeps, SendHelloKeeps, OutboundEndsKeeps, UnregisterOutboundKeeps
     DEF DialerStep
<1>4. ASSUME NEW c \in Conn, AcceptorStep(c) \/ Break(c) PROVE TaskInv'
  BY <1>1, <1>4, SkipToHelloKeeps, ReadHelloKeeps, SteadyKeeps, InboundEndsKeeps,
     UnregisterInboundKeeps DEF AcceptorStep
<1>5. ASSUME NEW e \in End, Write(e) \/ Read(e) PROVE TaskInv'
  BY <1>1, <1>5, WriteKeeps, ReadKeeps
<1>6. CASE Send
  BY <1>6, SendKeeps
<1> QED
  BY <1>2, <1>3, <1>4, <1>5, <1>6 DEF Next

LEMMA InvStep == Inv /\ [Next]_vars => Inv'
<1> SUFFICES ASSUME Inv, [Next]_vars PROVE Inv'
  OBVIOUS
<1>1. TaskInv'
  BY TaskStep
<1>2. PICK ms \in SUBSET Msg, f \in Fates : Moves(ms, f)
  BY StepMoves
<1>3. ASSUME NEW m \in Msg
      PROVE  \E g \in Fates : \A h \in Fates : At(m, h)' <=> h = g
  <2>1. PICK g \in Fates : \A h \in Fates : At(m, h) <=> h = g
    BY DEF Inv, OneFate
  <2>2. CASE m \in ms
    BY <1>2, <2>2, Zenon DEF Moves
  <2>3. CASE m \notin ms
    BY <1>2, <2>1, <2>3, Zenon DEF Moves
  <2> QED
    BY <2>2, <2>3
<1>4. OneFate'
  BY <1>3, Zenon DEF OneFate
<1> QED
  BY <1>1, <1>4 DEF Inv

(* The inductive invariant: what the tasks at both ends know of each other *)
(* (OwnLine, GoneIfBroken, HelloOnItsWay), and that no message is in two   *)
(* boxes, or comes to more than one fate.                                  *)
THEOREM Invariance == Spec => []Inv
BY InitInv, InvStep, PTL DEF Spec

(* Every variable has its type; in particular, what the dispatcher of the  *)
(* other node is given is never a hello, in whatever order connections     *)
(* come and break, and each phase of the code takes the one it waits for.  *)
THEOREM TypeCorrect == Spec => []TypeOK
<1>1. Inv => TypeOK
  BY DEF Inv, TaskInv
<1> QED
  BY <1>1, Invariance, PTL

LEMMA GotOnceStep == Inv /\ NoTwice(got) /\ [Next]_vars => NoTwice(got)'
<1> SUFFICES ASSUME Inv, NoTwice(got), [Next]_vars PROVE NoTwice(got')
  BY DEF NoTwice
<1>1. CASE got' = got
  BY <1>1 DEF NoTwice
<1>2. ASSUME NEW e \in End, Read(e) PROVE NoTwice(got')
  <2>1. got' = Append(got, Head(wire[e])) /\ got \in Seq(Msg)
    BY <1>2, TypeFacts DEF Read, Inv
  <2>2. Head(wire[e]) \in Msg /\ Head(wire[e]) \notin ToSet(got)
    BY <1>2, ReadMoves
  <2> QED
    BY <2>1, <2>2, AppendFacts
<1>3. ASSUME NEW n \in Node, DialerStep(n) PROVE got' = got
  BY <1>3 DEF DialerStep, Connect, SendHello, OutboundEnds, UnregisterOutbound, fateVars
<1>4. ASSUME NEW c \in Conn, AcceptorStep(c) \/ Break(c) PROVE got' = got
  BY <1>4 DEF AcceptorStep, SkipToHello, ReadHello, CheckRegistry, RegisterInbound,
              InboundEnds, UnregisterInbound, Break, fateVars
<1>5. ASSUME NEW e \in End, Write(e) PROVE got' = got
  BY <1>5 DEF Write, fateVars
<1>6. CASE Send \/ UNCHANGED vars
  BY <1>1, <1>6 DEF Send, vars
<1> QED
  BY <1>1, <1>2, <1>3, <1>4, <1>5, <1>6 DEF Next

(* The other node's dispatcher is given each message once at most,         *)
(* whatever connections overlap.                                           *)
THEOREM DeliveredOnce == Spec => []NoTwice(got)
<1>1. Init => NoTwice(got)
  BY EmptyFacts DEF Init
<1> QED
  BY <1>1, GotOnceStep, Invariance, PTL DEF Spec

-----------------------------------------------------------------------------
(* What is lost.                                                           *)

LEMMA LossStep == Inv /\ [Next]_vars => LossHasReason \/ UNCHANGED vars
<1> SUFFICES ASSUME Inv, Next PROVE LossHasReason
  OBVIOUS
<1>1. TaskInv
  BY DEF Inv
<1>2. CASE lost' = lost
  BY <1>2 DEF LossHasReason
<1>3. ASSUME NEW n \in Node, DialerStep(n) PROVE LossHasReason
  <2>1. CASE OutboundEnds(n)
    <3>1. /\ line[n] \in broken /\ out[n] = "running" /\ out' = [out EXCEPT ![n] = "ended"]
          /\ line[n][1] = n
      BY <1>1, <2>1, TypeFacts, ConnFacts DEF OutboundEnds, OwnLine
    <3>2. out'[n] # out[n]
      BY <1>1, <3>1, TypeFacts
    <3> QED
      BY <3>1, <3>2 DEF LossHasReason
  <2> QED
    BY <1>2, <1>3, <2>1 DEF DialerStep, Connect, SendHello, UnregisterOutbound, fateVars
<1>4. ASSUME NEW c \in Conn, AcceptorStep(c) \/ Break(c) PROVE LossHasReason
  <2>1. CASE SkipToHello(c)
    <3> DEFINE e == <<c, Acceptor(c)>>
    <3>1. acc[c] = "hello" /\ wire[e] # << >> /\ lost' = lost \cup {Head(wire[e])}
      BY <2>1 DEF SkipToHello
    <3>2. e \in End
      BY ConnFacts DEF AcceptEnd
    <3>3. Head(wire[e]) \in ToSet(wire[e])
      BY <1>1, <3>1, <3>2, TypeFacts, TailFacts
    <3> QED
      BY <3>1, <3>3 DEF LossHasReason
  <2>2. CASE InboundEnds(c) \/ UnregisterInbound(c)
    <3>1. c \in broken
      BY <1>1, <2>2, TypeFacts DEF InboundEnds, UnregisterInbound, GoneIfBroken
    <3>2. acc'[c] # acc[c]
      BY <1>1, <2>2, TypeFacts DEF InboundEnds, UnregisterInbound
    <3> QED
      BY <3>1, <3>2 DEF LossHasReason
  <2> QED
    BY <1>2, <1>4, <2>1, <2>2
       DEF AcceptorStep, ReadHello, CheckRegistry, RegisterInbound, Break, fateVars
<1>5. ASSUME NEW e \in End, Write(e) \/ Read(e) PROVE lost' = lost
  BY <1>5 DEF Write, Read, fateVars
<1>6. CASE Send
  BY <1>2, <1>6 DEF Send
<1> QED
  BY <1>2, <1>3, <1>4, <1>5, <1>6 DEF Next

(* A message that was accepted is lost only where one of the two tasks of  *)
(* a connection that broke gives up, or ahead of its connection's hello.   *)
THEOREM LossReason == Spec => LostWithReason
<1>1. Inv /\ [Next]_vars => [LossHasReason]_vars
  BY LossStep
<1> QED
  BY <1>1, Invariance, PTL DEF Spec, LostWithReason

-----------------------------------------------------------------------------
(* The refinement mapping.                                                 *)
Where(m) == {f \in Fates : CASE f = "unsent"    -> m >= next
                             [] f = "refused"   -> m \in refused
                             [] f = "accepted"  -> OnTheWay(m)
                             [] f = "delivered" -> m \in ToSet(got)
                             [] f = "lost"      -> m \in lost}

LEMMA FateOfWhere ==
    ASSUME NEW m
    PROVE  Fate(m) = IF Cardinality(Where(m)) = 1 THEN CHOOSE f \in Where(m) : TRUE ELSE "astray"
BY DEF Fate, Where, Fates

FateTold ==
    \A m \in Msg : /\ Fate(m) \in Fates
                   /\ \A f \in Fates : Fate(m) = f <=> At(m, f)

LEMMA FateIsAt == Inv => FateTold
<1> SUFFICES ASSUME Inv, NEW m \in Msg
             PROVE  Fate(m) \in Fates /\ \A f \in Fates : Fate(m) = f <=> At(m, f)
  BY DEF FateTold
<1>1. PICK f \in Fates : \A g \in Fates : At(m, g) <=> g = f
  BY DEF Inv, OneFate
<1>2. ASSUME NEW g \in Fates PROVE g \in Where(m) <=> At(m, g)
  BY DEF Where, At, Fates
<1>3. Where(m) = {f}
  <2>1. Where(m) \subseteq Fates
    BY DEF Where
  <2> QED
    BY <1>1, <1>2, <2>1
<1>4. Cardinality(Where(m)) = 1 /\ (CHOOSE g \in Where(m) : TRUE) = f
  BY <1>3, FS_Singleton
<1>5. Fate(m) = f
  BY <1>4, FateOfWhere
<1> QED
  BY <1>1, <1>5

fateNow == [m \in Msg |-> Fate(m)]

LEMMA RefInit == Init => L!LinkInit
<1> SUFFICES ASSUME Init PROVE fateNow = [m \in Msg |-> "unsent"]
  BY DEF L!LinkInit, L!Msg, Msg, fateNow
<1>1. Inv
  BY InitInv
<1>2. ASSUME NEW m \in Msg PROVE Fate(m) = "unsent"
  <2>1. At(m, "unsent")
    BY DEF Init, At, Msg
  <2> QED
    BY <1>1, <2>1, FateIsAt DEF FateTold, Fates
<1> QED
  BY <1>2 DEF fateNow

LEMMA RefStep ==
    Inv /\ FateTold /\ FateTold' /\ [Next]_vars => [L!LinkNext]_fateNow
<1> SUFFICES ASSUME Inv, FateTold, FateTold', [Next]_vars PROVE [L!LinkNext]_fateNow
  OBVIOUS
<1>1. PICK ms \in SUBSET Msg, f \in Fates : Legal(ms, f) /\ Moves(ms, f)
  BY StepMoves
<1>2. \A m \in Msg : Fate(m) \in Fates /\ \A g \in Fates : Fate(m) = g <=> At(m, g)
  BY DEF FateTold
<1>3. \A m \in Msg : Fate(m)' \in Fates /\ \A g \in Fates : Fate(m)' = g <=> At(m, g)'
  BY DEF FateTold
<1>4. \A m \in Msg : Fate(m)' = IF m \in ms THEN f ELSE Fate(m)
  BY <1>1, <1>2, <1>3, Zenon DEF Moves
<1>5. fateNow' = [m \in Msg |-> IF m \in ms THEN f ELSE fateNow[m]]
  BY <1>4 DEF fateNow
<1>6. \A m \in Msg : fateNow[m] = Fate(m)
  BY DEF fateNow
<1>7. L!Msg = Msg
  BY DEF L!Msg, Msg
<1>8. CASE f \in {"refused", "accepted"} /\ ms = {next} /\ next \in Msg
  <2>1. fateNow[next] = "unsent"
    BY <1>2, <1>6, <1>8 DEF At, Fates, Msg
  <2>2. fateNow' = [fateNow EXCEPT ![next] = f]
    BY <1>5, <1>8 DEF fateNow
  <2>3. L!Offer(next)
    BY <1>8, <2>1, <2>2 DEF L!Offer, fateNow
  <2> QED
    BY <1>7, <1>8, <2>3 DEF L!LinkNext
<1>9. CASE f = "delivered" /\ \E m \in ms : ms = {m} /\ At(m, "accepted")
  <2>1. PICK m \in Msg : ms = {m} /\ At(m, "accepted")
    BY <1>9
  <2>2. fateNow[m] = "accepted"
    BY <1>2, <1>6, <2>1 DEF Fates
  <2>3. fateNow' = [fateNow EXCEPT ![m] = "delivered"]
    BY <1>5, <1>9, <2>1 DEF fateNow
  <2>4. L!Deliver(m)
    BY <2>2, <2>3 DEF L!Deliver, fateNow
  <2> QED
    BY <1>7, <2>4 DEF L!LinkNext
<1>10. CASE f = "lost" /\ \A m \in ms : At(m, "accepted")
  <2>1. \A m \in ms : fateNow[m] = "accepted"
    BY <1>2, <1>6, <1>10 DEF Fates
  <2>2. L!Lose(ms)
    BY <1>5, <1>7, <1>10, <2>1 DEF L!Lose, fateNow
  <2> QED
    BY <1>7, <2>2 DEF L!LinkNext
<1> QED
  BY <1>1, <1>8, <1>9, <1>10 DEF Legal

(* For a message that send_to accepted there is one place at any time: a   *)
(* queue, a socket, the other node's dispatcher or none any more; it comes *)
(* to one end and is not brought back from there, however many connections *)
(* there are, displace each other's entries and break.                     *)
THEOREM Refinement == Spec => ImplementsLink
<1>1. Init => L!LinkInit
  BY RefInit
<1>2. Inv /\ FateTold /\ FateTold' /\ [Next]_vars
        => [L!LinkNext]_[m \in Msg |-> Fate(m)]
  BY RefStep DEF fateNow
<1> QED
  BY <1>1, <1>2, FateIsAt, Invariance, PTL DEF Spec, ImplementsLink, L!LinkSpec
=============================================================================
