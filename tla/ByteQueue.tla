------------------------------ MODULE ByteQueue ------------------------------
(***************************************************************************)
(* What a connection's buffer promises: a queue of bytes.  "in" is the     *)
(* data of the operation just made, "out" the data it returned.            *)
(***************************************************************************)
EXTENDS Naturals, Sequences

CONSTANT Byte

VARIABLES content, in, out

Init == content = <<>> /\ in = <<>> /\ out = <<>>

First(n) == SubSeq(content, 1, n)

(* Bytes come in at the end. *)
Put ==
    /\ in' \in Seq(Byte)
    /\ content' = content \o in'
    /\ out' = <<>>

(* The first bytes are returned, and may stay. *)
Peek ==
    /\ in' = <<>>
    /\ \E n \in 0..Len(content) : out' = First(n)
    /\ UNCHANGED content

(* The first bytes go, and may be returned. *)
Take ==
    /\ in' = <<>>
    /\ \E n \in 0..Len(content) :
         /\ content' = SubSeq(content, n + 1, Len(content))
         /\ out' \in {<<>>, First(n)}

(* The last bytes go. *)
UnPut ==
    /\ in' = <<>> /\ out' = <<>>
    /\ \E n \in 0..Len(content) : content' = First(n)

(* Bytes come in before the first. *)
PutBack ==
    /\ in' \in Seq(Byte)
    /\ content' = in' \o content
    /\ out' = <<>>

Next == Put \/ PutBack \/ Peek \/ Take \/ UnPut

Spec == Init /\ [][Next]_<<content, in, out>>
=============================================================================
