--------------------------- MODULE AmpAddressProofs ---------------------------
(***************************************************************************)
(* What parsing and showing addresses keep, for labels of any kind and any *)
(* number.                                                                 *)
(***************************************************************************)
EXTENDS AmpAddress, SequenceTheorems, TLAPS

-----------------------------------------------------------------------------
(* The three forms of an address, by the labels before the suffix.         *)

LEMMA ParseNode ==
    ASSUME NEW s, HasSuffix(s), Len(Front(s)) = 1
    PROVE  ParseAddress(s) = [node |-> Front(s)]
  BY DEF ParseAddress

LEMMA ParseApp ==
    ASSUME NEW s, HasSuffix(s), Len(Front(s)) = 2
    PROVE  ParseAddress(s) = [app |-> Front(s)[1], node |-> <<Front(s)[2]>>]
  BY DEF ParseAddress

LEMMA ParsePort ==
    ASSUME NEW s, HasSuffix(s), Len(Front(s)) # 1, Len(Front(s)) # 2
    PROVE  ParseAddress(s) = [port |-> Front(s)[1], app |-> Front(s)[2],
                              node |-> SubSeq(Front(s), 3, Len(Front(s)))]
  BY DEF ParseAddress

LEMMA ShowNode ==
    ASSUME NEW a, NEW n, a = [node |-> n]
    PROVE  ShowAddress(a) = (<< >> \o << >>) \o n \o <<"amp">>
  BY DEF ShowAddress

LEMMA ShowApp ==
    ASSUME NEW a, NEW n, NEW p, a = [app |-> p, node |-> n]
    PROVE  ShowAddress(a) = << >> \o <<p>> \o n \o <<"amp">>
  BY DEF ShowAddress

LEMMA ShowPort ==
    ASSUME NEW a, NEW n, NEW p, NEW q, a = [port |-> q, app |-> p, node |-> n]
    PROVE  ShowAddress(a) = <<q>> \o <<p>> \o n \o <<"amp">>
  BY DEF ShowAddress

LEMMA Suffixed ==
    ASSUME NEW Label, "amp" \in Label, NEW s \in Seq(Label), HasSuffix(s)
    PROVE  /\ Front(s) \in Seq(Label)
           /\ Len(Front(s)) = Len(s) - 1
           /\ Len(s) > 1
           /\ s = Front(s) \o <<"amp">>
  BY DEF HasSuffix, Front, Last

LEMMA OneTwoMore ==
    ASSUME NEW n \in Nat, n # 0
    PROVE  n = 1 \/ n = 2 \/ n > 2
  OBVIOUS

LEMMA MoreThanTwo ==
    ASSUME NEW n \in Nat, n > 2
    PROVE  n # 1 /\ n # 2
  OBVIOUS

LEMMA OneLess ==
    ASSUME NEW n \in Nat, n > 1
    PROVE  n - 1 \in Nat /\ n - 1 # 0
  OBVIOUS

LEMMA FrontLength ==
    ASSUME NEW Label, "amp" \in Label, NEW s \in Seq(Label), HasSuffix(s)
    PROVE  Len(Front(s)) \in Nat /\ Len(Front(s)) # 0
<1>1. Len(Front(s)) = Len(s) - 1 /\ Len(s) > 1
  BY Suffixed
<1>2. Len(s) \in Nat
  OBVIOUS
<1> QED BY <1>1, <1>2, OneLess

LEMMA SplitTwo ==
    ASSUME NEW Label, NEW s \in Seq(Label), Len(s) = 2
    PROVE  s = << >> \o <<s[1]>> \o <<s[2]>>
  OBVIOUS

LEMMA SplitMore ==
    ASSUME NEW Label, NEW s \in Seq(Label), Len(s) > 2
    PROVE  s = <<s[1]>> \o <<s[2]>> \o SubSeq(s, 3, Len(s))
  OBVIOUS

-----------------------------------------------------------------------------
(* An address that can be parsed shows as what it was parsed from: whoever *)
(* passes it on in its parsed form names the same endpoint (address.rs:28, *)
(* 63).                                                                    *)
THEOREM ShowsAsParsed ==
    ASSUME NEW Label, "amp" \in Label, NEW s \in Seq(Label), HasSuffix(s)
    PROVE  ShowAddress(ParseAddress(s)) = s
<1>1. /\ Front(s) \in Seq(Label)
      /\ Len(Front(s)) \in Nat
      /\ s = Front(s) \o <<"amp">>
  BY Suffixed, FrontLength
<1>a. Len(Front(s)) = 1 \/ Len(Front(s)) = 2 \/ Len(Front(s)) > 2
  BY FrontLength, OneTwoMore
<1>2. CASE Len(Front(s)) = 1
  <2>1. ShowAddress(ParseAddress(s)) = (<< >> \o << >>) \o Front(s) \o <<"amp">>
    BY <1>2, ParseNode, ShowNode
  <2> QED BY <2>1, <1>1
<1>3. CASE Len(Front(s)) = 2
  <2>1. ShowAddress(ParseAddress(s)) = << >> \o <<Front(s)[1]>> \o <<Front(s)[2]>> \o <<"amp">>
    BY <1>3, ParseApp, ShowApp
  <2>2. Front(s) = << >> \o <<Front(s)[1]>> \o <<Front(s)[2]>>
    BY <1>1, <1>3, SplitTwo
  <2> QED BY <2>1, <2>2, <1>1
<1>4. CASE Len(Front(s)) > 2
  <2>1. ShowAddress(ParseAddress(s))
          = <<Front(s)[1]>> \o <<Front(s)[2]>> \o SubSeq(Front(s), 3, Len(Front(s))) \o <<"amp">>
    <3>1. Len(Front(s)) # 1 /\ Len(Front(s)) # 2
      BY <1>1, <1>4, MoreThanTwo
    <3> QED BY <3>1, ParsePort, ShowPort
  <2>2. Front(s) = <<Front(s)[1]>> \o <<Front(s)[2]>> \o SubSeq(Front(s), 3, Len(Front(s)))
    BY <1>1, <1>4, SplitMore
  <2> QED BY <2>1, <2>2, <1>1
<1> QED BY <1>a, <1>2, <1>3, <1>4

(* A node that says hello is known by all of its address but the suffix,   *)
(* while a message is routed to the node that its address is parsed to:    *)
(* on the address of a node they agree if its name has no dot, and only    *)
(* then (manager.rs:163, 324).                                             *)
THEOREM HelloAgreesWithRoute ==
    ASSUME NEW Label, "amp" \in Label, NEW s \in Seq(Label), HasSuffix(s)
    PROVE  HelloName(s) = ParseAddress(s).node <=> Len(Front(s)) = 1
<1>1. Front(s) \in Seq(Label) /\ Len(Front(s)) \in Nat
  BY Suffixed, FrontLength
<1>a. Len(Front(s)) = 1 \/ Len(Front(s)) = 2 \/ Len(Front(s)) > 2
  BY FrontLength, OneTwoMore
<1>2. HelloName(s) = Front(s)
  BY DEF HelloName
<1>3. CASE Len(Front(s)) = 1
  BY <1>2, <1>3, ParseNode
<1>4. CASE Len(Front(s)) = 2
  <2>1. ParseAddress(s).node = <<Front(s)[2]>>
    BY <1>4, ParseApp
  <2>2. Len(<<Front(s)[2]>>) = 1
    OBVIOUS
  <2>3. ParseAddress(s).node # Front(s)
    BY <2>1, <2>2, <1>4
  <2> QED BY <2>3, <1>2, <1>4
<1>5. CASE Len(Front(s)) > 2
  <2>1. Len(Front(s)) # 1 /\ Len(Front(s)) # 2
    BY <1>1, <1>5, MoreThanTwo
  <2>2. ParseAddress(s).node = SubSeq(Front(s), 3, Len(Front(s)))
    BY <2>1, ParsePort
  <2>3. Len(SubSeq(Front(s), 3, Len(Front(s)))) = Len(Front(s)) - 2
    BY <1>1, <1>5
  <2>4. ParseAddress(s).node # Front(s)
    BY <2>2, <2>3, <1>1
  <2> QED BY <2>1, <2>4, <1>2
<1> QED BY <1>a, <1>3, <1>4, <1>5
=============================================================================
