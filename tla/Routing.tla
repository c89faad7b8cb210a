------------------------------- MODULE Routing --------------------------------
(***************************************************************************)
(* The way of a message: from Laravel to the node it runs beside           *)
(* (bridge/server.rs, bridge/ws.rs), to the local SFU or over the mesh to  *)
(* the node that its address names (PeerManager::route), and there to the  *)
(* SFU or to that node's Laravel (dispatch_inbound); the SFU's answer to   *)
(* an offer; and the test server (tools/sfu-test), which stands for        *)
(* Laravel on one node, Home: it hands offers of browsers to the node,     *)
(* keeps a slot for each answer and lets browsers poll for it.             *)
(*                                                                         *)
(* Texts are those of AmpWire, so that what a text becomes at each hop is  *)
(* part of the model.  How channels fill up is in FlowControl, how links   *)
(* come and go in Mesh: here a link is there or not, and may lose what is  *)
(* on it.                                                                  *)
(***************************************************************************)
EXTENDS AmpWire, AmpAddress

CONSTANTS
    Node,       \* names of nodes, as sequences of labels
    SfuNode,    \* those that run an SFU
    Home,       \* the one with the test server
    Request,    \* ids of the offers that go through the test server
    App,        \* messages of Laravel
    Texts,      \* what Laravel may hand to a node
    Poller      \* those who ask for the answer to each

ASSUME RoutingAssumption ==
    /\ SfuNode \subseteq Node /\ Home \in Node
    /\ Request \cap App = {}
    /\ Node \subseteq Seq(Label) \ {<< >>}
    /\ Texts \subseteq Seq(Line) \ {<< >>}
    /\ {"command", "from", "to", "id", "reply-to", "x-mesh-peer"} \subseteq Key
    /\ {"amp", "sdp-offer", "sdp-answer", "browser", "sfu", "peer", "unknown", "none",
        "offer", "junk", "answer"} \subseteq Label

(* The test server makes up its ids (uuid::Uuid::now_v7): no message of    *)
(* Laravel has one of them.                                                *)
ASSUME FreshRequests ==
    /\ Request \subseteq Label \ {"none", "unknown"}
    /\ \A t \in Texts, r \in Request :
          /\ Get(ParseText(t), "id", << >>) # <<r>>
          /\ Get(ParseText(t), "reply-to", << >>) # <<r>>

Mail == Request \cup App

VARIABLES
    mail,       \* where each message is, at which node, and what it is there
    sent,       \* the text it was when it was handed to a node
    answer,     \* likewise for the SFU's answer to it
    subs,       \* which nodes each SFU relays rooms to
    pending,    \* the test server's slots
    client,     \* each POST /signal
    poll        \* each poller of each answer, and what it was given

vars == <<mail, sent, answer, subs, pending, client, poll>>

(* A text at a place on a node, or what has been read from it.             *)
Text(place, node, t) == [at |-> place, node |-> node, text |-> t, item |-> NoMessage]
Item(place, node, x) == [at |-> place, node |-> node, text |-> << >>, item |-> x]
Nowhere == Text("nowhere", << >>, << >>)

SfuCommands == {"sdp-offer", "relay-subscribe", "relay-unsubscribe", "relay-data"}

Command(m) == Get(m, "command", << >>)
IsSfuCommand(m) == \E c \in SfuCommands : Command(m) = <<c>>

(* The offer, as it goes to the SFU.                                       *)
SdpOffer(m, noId) ==
    [command |-> "sdp-offer", id |-> Get(m, "id", noId), from |-> Get(m, "from", <<"unknown">>),
     to |-> Get(m, "to", <<"unknown">>), sdp |-> m.body]

-----------------------------------------------------------------------------
(* Laravel hands a text to the node: POST /send, or a frame of the bridge. *)

Hand(i, n, t) ==
    /\ i \in App /\ mail[i] = Nowhere
    /\ mail' = [mail EXCEPT ![i] = Text("handed", n, t)]
    /\ sent' = [sent EXCEPT ![i] = t]
    /\ UNCHANGED <<answer, subs, pending, client, poll>>

TargetOf(m) == IF Has(m, "to") THEN ParseAddress(m.headers["to"]).node ELSE << >>

(* Fault: any command of the SFU goes to the one here, wherever it is for. *)
ToLocalSfuAlways(n, m) == n \in SfuNode /\ IsSfuCommand(m) /\ Has(m, "to")

(* Whatever the command, it is passed on as an offer.                      *)
ToLocalSfu(n, m) ==
    n \in SfuNode /\ IsSfuCommand(m) /\ Has(m, "to") /\ TargetOf(m) = n

(* handle_send, route_outbound and route; they differ in what stands for   *)
(* an id that is missing.                                                  *)
Send(i) ==
    /\ mail[i].at = "handed"
    /\ \E m \in {ParseText(mail[i].text)} :
          LET n == mail[i].node
              local == IsMessage(m) /\ ToLocalSfu(n, m)
          IN  \/ /\ local
                 /\ \E noId \in {"none", "unknown"} :
                       mail' = [mail EXCEPT ![i] = Item("sfu", n, SdpOffer(m, <<noId>>))]
              \/ /\ IsMessage(m) /\ ~local
                 /\ TargetOf(m) \in Node \ {n}
                 /\ mail' = [mail EXCEPT ![i] = Text("wire", TargetOf(m), Wire(m))]
              \/ /\ ~local
                 /\ mail' = [mail EXCEPT ![i].at = "refused"]
    /\ UNCHANGED <<sent, answer, subs, pending, client, poll>>

-----------------------------------------------------------------------------
(* The node that it is for *)

LoseOnTheWay(i) ==
    /\ mail[i].at = "wire"
    /\ mail' = [mail EXCEPT ![i].at = "lost"]
    /\ UNCHANGED <<sent, answer, subs, pending, client, poll>>

(* run_connection, handle_inbound                                          *)
Receive(i) ==
    /\ mail[i].at = "wire"
    /\ LET m == ParseText(mail[i].text)
           place == IF IsMessage(m) /\ ~IsEmpty(m) THEN "inbound" ELSE "lost"
       IN  mail' = [mail EXCEPT ![i] = Item(place, @.node, m)]
    /\ UNCHANGED <<sent, answer, subs, pending, client, poll>>

RelayFrom(m) ==
    IF Has(m, "from-node") THEN m.headers["from-node"]
    ELSE IF Has(m, "from") THEN ParseAddress(m.headers["from"]).node ELSE << >>

(* parse_command; {} for None.  A packet's body is <<Plain(<<"packet">>)>>. *)
ParseCommand(m) ==
    CASE Command(m) = <<"sdp-offer">> -> {SdpOffer(m, <<"unknown">>)}
      [] Command(m) \in {<<"relay-subscribe">>, <<"relay-unsubscribe">>} ->
            IF Has(m, "room") /\ RelayFrom(m) # << >>
              THEN {[command |-> Command(m)[1], room |-> m.headers["room"], from |-> RelayFrom(m)]}
              ELSE {}
      [] Command(m) = <<"relay-data">> ->
            IF TrimBody(m.body) = <<Plain(<<"packet">>)>> THEN {[command |-> "relay-data"]} ELSE {}
      [] OTHER -> {}

(* Fault: the answer is filed under an id of its own.                      *)
CallbackById(n, m) ==
    IF n = Home /\ IsMessage(m) /\ Command(m) = <<"sdp-answer">>
      THEN [q \in DOMAIN pending |-> IF Get(m, "id", << >>) = <<q>> THEN TrimBody(m.body)
                                     ELSE pending[q]]
      ELSE pending

(* Fault: a slot is made for an answer that has none.                      *)
CallbackInserts(n, m) ==
    IF n = Home /\ IsMessage(m) /\ Command(m) = <<"sdp-answer">> /\ Has(m, "reply-to")
      THEN LET id == m.headers["reply-to"][1] IN
           [q \in DOMAIN pending \cup {id} |-> IF q = id THEN TrimBody(m.body) ELSE pending[q]]
      ELSE pending

(* The test server's mesh_callback, and any other Laravel: pending' for a  *)
(* text that is read as m at node n's callback.                            *)
Callback(n, m) ==
    IF n = Home /\ IsMessage(m) /\ Command(m) = <<"sdp-answer">>
      THEN [q \in DOMAIN pending |-> IF Get(m, "reply-to", << >>) = <<q>> THEN TrimBody(m.body)
                                     ELSE pending[q]]
      ELSE pending

(* Relay commands that parse go to the SFU, whatever their address says;   *)
(* the rest goes to the bridge, with the peer's name, or to the callback.  *)
DispatchInbound(i) ==
    /\ mail[i].at = "inbound"
    /\ LET n == mail[i].node
           m == mail[i].item
           commands == IF n \in SfuNode /\ IsSfuCommand(m) THEN ParseCommand(m) ELSE {}
           bridged  == Wire(WithHeader(m, "x-mesh-peer", <<"peer">>))
           posted   == Wire(m)
       IN  \/ \E c \in commands :
                 mail' = [mail EXCEPT ![i] = Item("sfu", n, c)] /\ UNCHANGED pending
           \/ /\ commands = {}
              /\ \/ mail' = [mail EXCEPT ![i] = Text("laravel", n, bridged)] /\ UNCHANGED pending
                 \/ /\ mail' = [mail EXCEPT ![i] = Text("laravel", n, posted)]
                    /\ pending' = Callback(n, ParseText(posted))
                 \/ mail' = [mail EXCEPT ![i].at = "lost"] /\ UNCHANGED pending
    /\ UNCHANGED <<sent, answer, subs, client, poll>>

-----------------------------------------------------------------------------
(* The SFU, and the forwarder of its events *)

IsOffer(sdp) == Len(sdp) = 1 /\ sdp[1].val # << >> /\ Head(sdp[1].val) = "offer"

(* What str0m makes of an offer.                                           *)
Accepts(sdp)   == <<Plain(<<"answer">> \o Tail(TrimBody(sdp)[1].val))>>

ReplyHeaders(c, id) ==
    [k \in {"command", "from", "to", "reply-to"} |->
        CASE k = "command"  -> <<"sdp-answer">>
          [] k = "from"     -> c.to
          [] k = "to"       -> c.from
          [] k = "reply-to" -> id]

(* Fault: the answer refers to the sender of the offer.                    *)
AnswerToSender(c) == [headers |-> ReplyHeaders(c, c.from), body |-> Accepts(c.sdp)]

(* handle_sdp_offer: it is addressed to the sender, by its own address.    *)
Answer(c) == [headers |-> ReplyHeaders(c, c.id), body |-> Accepts(c.sdp)]

(* An offer that is refused is logged, and that is all.                    *)
TakeCommand(i) ==
    /\ mail[i].at = "sfu"
    /\ LET n == mail[i].node
           c == mail[i].item
           good == c.command = "sdp-offer" /\ IsOffer(TrimBody(c.sdp))
       IN  /\ mail' = [mail EXCEPT ![i].at = IF c.command = "sdp-offer" /\ ~good THEN "unanswered"
                                             ELSE "done"]
           /\ answer' = IF good THEN [answer EXCEPT ![i] = Item("event", n, Answer(c))] ELSE answer
           /\ subs' = CASE c.command = "relay-subscribe" ->
                             [subs EXCEPT ![n] = @ \cup {<<c.room, c.from>>}]
                        [] c.command = "relay-unsubscribe" ->
                             [subs EXCEPT ![n] = @ \ {<<c.room, c.from>>}]
                        [] OTHER -> subs
    /\ UNCHANGED <<sent, pending, client, poll>>

(* Answers go to the callback of the SFU's own node, whatever their        *)
(* address and whether or not there is a bridge.                           *)
PostAnswer(i) ==
    /\ answer[i].at = "event"
    /\ LET n == answer[i].node IN
          \/ \E t \in {Wire(answer[i].item)} :
                \E m \in {ParseText(t)} :
                   /\ answer' = [answer EXCEPT ![i] = Text("laravel", n, t)]
                   /\ pending' = Callback(n, m)
          \/ answer' = [answer EXCEPT ![i].at = "lost"] /\ UNCHANGED pending
    /\ UNCHANGED <<mail, sent, subs, client, poll>>

-----------------------------------------------------------------------------
(* The test server *)

(* Browsers' descriptions are JSON of type offer, but need not be good.    *)
OfferText(r, sdp) ==
    <<Fence, Header("command", <<"sdp-offer">>), Header("from", <<"browser">> \o Home \o <<"amp">>),
      Header("to", <<"sfu">> \o Home \o <<"amp">>), Header("id", <<r>>), Fence,
      Plain(<<sdp, r>>), Blank>>

SignalOffer(r, sdp) ==
    /\ client[r] = "idle"
    /\ pending' = [q \in DOMAIN pending \cup {r} |-> IF q = r THEN << >> ELSE pending[q]]
    /\ client' = [client EXCEPT ![r] = "posting"]
    /\ mail' = [mail EXCEPT ![r] = Text("handed", Home, OfferText(r, sdp))]
    /\ sent' = [sent EXCEPT ![r] = OfferText(r, sdp)]
    /\ UNCHANGED <<answer, subs, poll>>

(* The node's answer, whatever its status: a refusal counts as well.       *)
Forwarded(r) ==
    /\ client[r] = "posting"
    /\ mail[r].at # "handed"
    /\ client' = [client EXCEPT ![r] = "polling"]
    /\ poll' = [poll EXCEPT ![r] = [p \in Poller[r] |-> Text("asking", Home, << >>)]]
    /\ UNCHANGED <<mail, sent, answer, subs, pending>>

(* The socket fails, before or after the node has read the request.        *)
ForwardFails(r) ==
    /\ client[r] = "posting"
    /\ client' = [client EXCEPT ![r] = "failed"]
    /\ pending' = [q \in DOMAIN pending \ {r} |-> pending[q]]
    /\ mail' = IF mail[r].at = "handed" THEN [mail EXCEPT ![r].at = "lost"] ELSE mail
    /\ UNCHANGED <<sent, answer, subs, poll>>

(* signal_poll: the read lock is given back, and then the slot is removed. *)
PollRead(r, p) ==
    /\ poll[r][p].at = "asking"
    /\ IF r \in DOMAIN pending
         THEN /\ pending[r] # << >>
              /\ poll' = [poll EXCEPT ![r][p] = Text("taking", Home, pending[r])]
         ELSE poll' = [poll EXCEPT ![r][p].at = "unknown"]
    /\ UNCHANGED <<mail, sent, answer, subs, pending, client>>

PollRemove(r, p) ==
    /\ poll[r][p].at = "taking"
    /\ pending' = [q \in DOMAIN pending \ {r} |-> pending[q]]
    /\ poll' = [poll EXCEPT ![r][p].at = "answered"]
    /\ UNCHANGED <<mail, sent, answer, subs, client>>

(* Fault: who gives up takes the slot with it.                             *)
GiveUpAndRemove(r, p) ==
    /\ poll[r][p].at = "asking"
    /\ poll' = [poll EXCEPT ![r][p].at = "gaveup"]
    /\ pending' = [q \in DOMAIN pending \ {r} |-> pending[q]]
    /\ UNCHANGED <<mail, sent, answer, subs, client>>

(* The page asks thirty times, others once.                                *)
GiveUp(r, p) ==
    /\ poll[r][p].at = "asking"
    /\ poll' = [poll EXCEPT ![r][p].at = "gaveup"]
    /\ UNCHANGED <<mail, sent, answer, subs, pending, client>>

-----------------------------------------------------------------------------
Init ==
    /\ mail = [i \in Mail |-> Nowhere]
    /\ sent = [i \in Mail |-> << >>]
    /\ answer = [i \in Mail |-> Nowhere]
    /\ subs = [n \in SfuNode |-> {}]
    /\ pending = << >>
    /\ client = [r \in Request |-> "idle"]
    /\ poll = [r \in Request |-> [p \in Poller[r] |-> Nowhere]]

NodeStep(i) ==
    \/ Send(i)
    \/ Receive(i)
    \/ DispatchInbound(i)
    \/ TakeCommand(i)
    \/ PostAnswer(i)

PollStep(r, p) == PollRead(r, p) \/ PollRemove(r, p)

Next ==
    \/ \E i \in Mail : NodeStep(i) \/ LoseOnTheWay(i)
    \/ \E i \in App, n \in Node, t \in Texts : Hand(i, n, t)
    \/ \E r \in Request, sdp \in {"offer", "junk"} : SignalOffer(r, sdp)
    \/ \E r \in Request : Forwarded(r) \/ ForwardFails(r)
    \/ \E r \in Request : \E p \in Poller[r] : PollStep(r, p) \/ GiveUp(r, p)

Spec == Init /\ [][Next]_vars

(* Tasks are polled, and a poller that has not given up asks again.  That  *)
(* Laravel's messages get on is not needed.                                *)
Fairness ==
    /\ \A r \in Request : WF_vars(NodeStep(r))
    /\ \A r \in Request : WF_vars(Forwarded(r))
    /\ \A r \in Request : \A p \in Poller[r] : WF_vars(PollStep(r, p))

FairSpec == Spec /\ Fairness

-----------------------------------------------------------------------------
TypeOK ==
    /\ \A i \in Mail :
          /\ mail[i].at \in {"nowhere", "handed", "refused", "wire", "lost", "inbound", "laravel",
                            "sfu", "unanswered", "done"}
          /\ mail[i].node \in Node \cup {<< >>}
          /\ answer[i].at \in {"nowhere", "event", "laravel", "lost"}
          /\ answer[i].at # "nowhere" => answer[i].node \in SfuNode
    /\ subs \in [SfuNode -> SUBSET (Seq(Label) \X Seq(Label))]
    /\ DOMAIN pending \subseteq Request
    /\ \A r \in DOMAIN pending : Len(pending[r]) <= 1
    /\ client \in [Request -> {"idle", "posting", "polling", "failed"}]
    /\ \A r \in Request : \A p \in Poller[r] :
          poll[r][p].at \in {"nowhere", "asking", "taking", "answered", "unknown", "gaveup"}

-----------------------------------------------------------------------------
WithNewline(b) == IF Last(b) = Blank THEN b ELSE Append(b, Blank)

(* Whatever order the hash map has the headers in, a message that has any  *)
(* reads the same at the next hop, but for a newline at the end of its     *)
(* body.                                                                   *)
WiresAgree ==
    \A i \in Mail : mail[i].at = "handed" =>
        LET m == ParseText(sent[i]) IN
        DOMAIN m.headers # {} =>
            \A w \in Wires(m) : ParseText(w) = [m EXCEPT !.body = WithNewline(@)]

SameMessage(m, n) ==
    /\ WithNewline(m.body) = WithNewline(n.body)
    /\ \A k \in (DOMAIN m.headers \cup DOMAIN n.headers) \ {"x-mesh-peer"} :
          Has(m, k) /\ Has(n, k) /\ m.headers[k] = n.headers[k]

(* Headers and body come to the addressee as they were handed over, after  *)
(* up to three times through text; the same holds of an offer's body when  *)
(* it comes to the SFU.  A body without headers, which as text would not   *)
(* be a message, is never put on a wire.                                   *)
Unaltered ==
    \A i \in Mail :
        LET m == ParseText(sent[i]) IN
        /\ mail[i].at \in {"wire", "laravel"} => SameMessage(ParseText(mail[i].text), m)
        /\ mail[i].at = "sfu" /\ mail[i].item.command = "sdp-offer" =>
              WithNewline(mail[i].item.sdp) = WithNewline(m.body)

(* A message comes to no node but the one its address ends in, although    *)
(* the dispatcher there passes commands to its SFU without a look at the   *)
(* address.                                                                *)
ReachesAddressee ==
    \A i \in Mail :
        mail[i].at \in {"wire", "inbound", "laravel", "sfu", "unanswered", "done"} =>
            IsSuffix(mail[i].node \o <<"amp">>, ParseText(sent[i]).headers["to"])

(* An answer names the offer it is the answer to and goes back the way     *)
(* the offer came; whatever is under way at a time, each browser is given  *)
(* the answer to its own offer.                                            *)
AnswersMatch ==
    /\ \A i \in Mail : answer[i].at # "nowhere" =>
          LET o == ParseText(sent[i])
              m == IF answer[i].at = "laravel" THEN ParseText(answer[i].text) ELSE answer[i].item
          IN  /\ m.headers["to"] = Get(o, "from", <<"unknown">>)
              /\ m.headers["from"] = Get(o, "to", <<"unknown">>)
              /\ m.headers["reply-to"] \in {Get(o, "id", <<d>>) : d \in {"none", "unknown"}}
    /\ \A r \in DOMAIN pending : pending[r] \in {<< >>, <<Plain(<<"answer", r>>)>>}
    /\ \A r \in Request : \A p \in Poller[r] :
          poll[r][p].at \in {"taking", "answered"} => poll[r][p].text = <<Plain(<<"answer", r>>)>>

(* The slot is looked up under one lock and removed under another: two     *)
(* may be given the same answer, but nobody is told that a request is      *)
(* unknown unless somebody has its answer.                                 *)
UnknownOnceAnswered ==
    \A r \in Request : \A p \in Poller[r] :
        poll[r][p].at = "unknown" => \E q \in Poller[r] : poll[r][q].at = "answered"

(* The node refused the offer, which the test server takes for success;    *)
(* the SFU refused it, and does not answer; or the answer was not taken.   *)
Unanswerable(r) ==
    mail[r].at \in {"refused", "unanswered"} \/ answer[r].at = "lost"

(* Whoever keeps asking is given the answer, or told that somebody else    *)
(* was, unless there will be none; then it is "pending" for ever.          *)
OffersSettle ==
    \A r \in Request : \A p \in Poller[r] :
        poll[r][p].at = "asking" ~> (poll[r][p].at # "asking" \/ Unanswerable(r))
=============================================================================
