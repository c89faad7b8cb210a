------------------------------- MODULE AmpWire --------------------------------
(***************************************************************************)
(* Messages and the text they travel as (crates/amp/src/message.rs).       *)
(*                                                                         *)
(* A text is the sequence of what lies between its newlines, so that one   *)
(* that ends in a newline has a blank last line and "" is <<Blank>>.  A    *)
(* line is its key and its value if it holds ": ", and a value else;       *)
(* values are sequences of the parts that matter.  A ragged line has blanks *)
(* around its key or value.                                                *)
(***************************************************************************)
EXTENDS Naturals, Sequences, SequencesExt, FiniteSets, FiniteSetsExt, Functions

CONSTANTS
    Label,      \* the parts of values
    Key,        \* names of headers
    Order       \* the order a hash map has them in

ASSUME WireAssumption ==
    /\ "---" \in Label
    /\ \A K \in SUBSET Key : Order[K] \in Seq(K) /\ IsInjective(Order[K]) /\ Range(Order[K]) = K

Line == [kind : {"plain"}, key : {""}, val : Seq(Label)]
        \cup [kind : {"header", "ragged"}, key : Key, val : Seq(Label)]

Plain(v)     == [kind |-> "plain", key |-> "", val |-> v]
Header(k, v) == [kind |-> "header", key |-> k, val |-> v]
Ragged(k, v) == [kind |-> "ragged", key |-> k, val |-> v]

Blank == Plain(<< >>)
Fence == Plain(<<"---">>)

NoMessage == [headers |-> [k \in {} |-> << >>], body |-> << >>]
EmptyBody == <<Blank>>

IsMessage(m) == m.body # << >>
IsEmpty(m)   == DOMAIN m.headers = {} /\ m.body = EmptyBody

Get(m, k, default) == IF k \in DOMAIN m.headers THEN m.headers[k] ELSE default
Has(m, k) == k \in DOMAIN m.headers

-----------------------------------------------------------------------------
(* Fault: the line after the opening fence is passed over.                 *)
HeaderLinesAfterFirst(t, last) == {i \in 3 .. last : t[i].kind # "plain"}

(* A line without ": " is dropped.                                         *)
HeaderLines(t, last) == {i \in 2 .. last : t[i].kind # "plain"}

(* Of two lines with one key the last counts; blanks around keys and       *)
(* values go.                                                              *)
HeadersOf(t, lines) ==
    [k \in {t[i].key : i \in lines} |-> t[Max({i \in lines : t[i].key = k})].val]

(* Fences with a newline before them, in what follows the opening fence,   *)
(* and one after them.                                                     *)
Closings(t) == {i \in 3 .. Len(t) - 1 : t[i] = Fence}

(* A text that ends in "---\n"; that may be the end of a header, too.      *)
EndsInFence(t) ==
    LET n == Len(t) IN
    n > 2 /\ t[n] = Blank /\ t[n - 1].val # << >> /\ Last(t[n - 1].val) = "---"
CutFence(t) == [t EXCEPT ![Len(t) - 1].val = Front(@)]

(* The first closing fence ends the headers; without one, a text that ends *)
(* in "---\n" is all headers.                                              *)
ParseText(t) ==
    LET close == Min(Closings(t)) IN
    CASE t[1] # Fence -> NoMessage
      [] t[1] = Fence /\ Closings(t) # {} ->
            [headers |-> HeadersOf(t, HeaderLines(t, close - 1)),
             body    |-> SubSeq(t, close + 1, Len(t))]
      [] t[1] = Fence /\ Closings(t) = {} /\ EndsInFence(t) ->
            [headers |-> HeadersOf(CutFence(t), HeaderLines(CutFence(t), Len(t) - 1)),
             body    |-> EmptyBody]
      [] OTHER -> NoMessage

-----------------------------------------------------------------------------
(* Fault: a newline is put after the body, whether it has one or not.      *)
EndedAgain(b) == IF b = EmptyBody THEN b ELSE Append(b, Blank)

(* A body that is not empty gets a newline at its end.                     *)
Ended(b) == IF Last(b) = Blank THEN b ELSE Append(b, Blank)

WireIn(order, m) ==
    <<Fence>> \o [i \in DOMAIN order |-> Header(order[i], m.headers[order[i]])]
        \o <<Fence>> \o Ended(m.body)

(* to_wire: the headers are in the order of the hash map, which is any.    *)
Wires(m) == {WireIn(order, m) : order \in SetToSeqs(DOMAIN m.headers)}

(* One of them: that it does not matter which is WiresAgree in Routing.    *)
Wire(m) == WireIn(Order[DOMAIN m.headers], m)

WithHeader(m, k, v) ==
    [headers |-> [j \in DOMAIN m.headers \cup {k} |-> IF j = k THEN v ELSE m.headers[j]],
     body    |-> m.body]

(* str::trim                                                               *)
TrimBody(b) ==
    LET full == {i \in DOMAIN b : b[i] # Blank} IN
    IF full = {} THEN << >> ELSE SubSeq(b, Min(full), Max(full))
=============================================================================
