------------------------------ MODULE AmpAddress ------------------------------
(***************************************************************************)
(* Addresses of the mesh (crates/amp/src/address.rs).  A string is modelled *)
(* by the labels between its dots: "sfu.b.amp" is <<"sfu", "b", "amp">>.   *)
(* A node's name may hold dots itself, so that it is a sequence of labels. *)
(***************************************************************************)
EXTENDS Naturals, Sequences, SequencesExt

NoAddress == [node |-> << >>]

HasSuffix(s) == Len(s) > 1 /\ Last(s) = "amp"

(* AmpAddress::parse.  What follows the second dot is the node, dots and   *)
(* all.                                                                    *)
ParseAddress(s) ==
    LET labels == Front(s) IN
    IF ~HasSuffix(s) THEN NoAddress
    ELSE CASE Len(labels) = 1  -> [node |-> labels]
           [] Len(labels) = 2  -> [app |-> labels[1], node |-> <<labels[2]>>]
           [] OTHER            -> [port |-> labels[1], app |-> labels[2],
                                   node |-> SubSeq(labels, 3, Len(labels))]

(* Display                                                                 *)
ShowAddress(a) ==
    (IF "port" \in DOMAIN a THEN <<a.port>> ELSE << >>)
        \o (IF "app" \in DOMAIN a THEN <<a.app>> ELSE << >>) \o a.node \o <<"amp">>

(* strip_suffix(".amp") on the from of a hello: all of the rest is the     *)
(* name of the peer.                                                       *)
HelloName(s) == IF HasSuffix(s) THEN Front(s) ELSE << >>
=============================================================================
