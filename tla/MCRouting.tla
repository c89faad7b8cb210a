------------------------------ MODULE MCRouting -------------------------------
(***************************************************************************)
(* A small instance of Routing: two nodes with an SFU each, the test       *)
(* server beside a, and texts of every form that the code tells apart.     *)
(***************************************************************************)
EXTENDS Routing

A == <<"a">>
B == <<"b">>
MCNode == {A, B}

MCPoller == [r1 |-> {"p", "q"}, r2 |-> {"p"}]

Names == <<"to", "command", "id", "from", "reply-to", "room", "from-node", "x-mesh-peer">>
MCKey == ToSet(Names)
MCLabel == STRING
MCOrder == [K \in SUBSET MCKey |-> SelectSeq(Names, LAMBDA k : k \in K)]

To(v)   == Header("to", v)
Cmd(c)  == Header("command", <<c>>)
SfuOf(n) == <<"sfu">> \o n \o <<"amp">>

MCTexts == {
    \* a body without a final newline; a line to drop, blanks, a key twice
    <<Fence, Ragged("to", <<"port", "app", "b", "amp">>), Plain(<<"note">>),
      Header("to", <<"app", "b", "amp">>), Cmd("chat"), Fence, Plain(<<"text">>)>>,
    \* a body that looks like a message
    <<Fence, Cmd("chat"), To(<<"b", "amp">>), Fence, Fence, Cmd("sdp-offer"), Fence, Blank>>,
    \* no closing line; a closing line that a header runs into
    <<Fence, Cmd("chat"), To(<<"b", "amp">>), Blank>>,
    <<Fence, Cmd("chat"), To(<<"b", "amp", "---">>), Blank>>,
    \* no headers; the empty message
    <<Fence, Fence, Plain(<<"text">>), Blank>>,
    <<Fence, Fence, Blank>>,
    \* a fourth label before the node's
    <<Fence, Cmd("chat"), To(<<"x", "port", "app", "b", "amp">>), Fence, Blank>>,
    \* offers, one without an id and a sender
    <<Fence, Cmd("sdp-offer"), To(SfuOf(B)), Fence, Plain(<<"offer", "m">>), Blank>>,
    <<Fence, Cmd("sdp-offer"), To(SfuOf(A)), Header("id", <<"m">>),
      Header("from", <<"b", "amp">>), Fence, Plain(<<"offer", "m">>)>>,
    \* relay commands: complete, without a room, with the sender's address
    <<Fence, Cmd("relay-subscribe"), To(SfuOf(B)), Header("room", <<"k">>),
      Header("from-node", A), Fence, Blank>>,
    <<Fence, Cmd("relay-subscribe"), To(SfuOf(B)), Fence, Blank>>,
    <<Fence, Cmd("relay-unsubscribe"), To(SfuOf(B)), Header("room", <<"k">>),
      Header("from", SfuOf(A)), Fence, Blank>>,
    <<Fence, Cmd("relay-data"), To(SfuOf(B)), Fence, Plain(<<"packet">>), Blank>> }
=============================================================================
