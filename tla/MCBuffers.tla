------------------------------ MODULE MCBuffers ------------------------------
(* Buffers for TLC: the other constants are in Buffers.cfg. *)
EXTENDS Buffers

(* The types that endian_transform.h converts exactly: the unsigned ones and *)
(* int32_t, here of two bytes.                                               *)
ExactTypes == {[size |-> 1, unsigned |-> TRUE], [size |-> 2, unsigned |-> TRUE],
               [size |-> 3, unsigned |-> TRUE], [size |-> 2, unsigned |-> FALSE]}

SoughtStrings == {<<1>>, <<3, 1>>}

-----------------------------------------------------------------------------
(* The iterators of old_buffer.h, over blocks that hold their own places.    *)

Blocks == 4
Iterators == [it : 1..Blocks, off : 0..(BlockSize - 1)]
Place(i) == BlockSize * (i.it - 1) + i.off
Numbered == [list |-> [j \in 1..Blocks |->
                [k \in 1..BlockSize |-> Place([it |-> j, off |-> k - 1])]]]

(* A random-access iterator: stepping, jumping, measuring and comparing      *)
(* agree with the places of the bytes, over the seams of the blocks too.     *)
ASSUME IteratorsRight ==
    /\ \A i, j \in Iterators :
         /\ O!Minus(i, j) = Place(i) - Place(j)
         /\ O!Advance(j, O!Minus(i, j)) = i
         /\ O!Less(i, j) = (Place(i) < Place(j)) /\ O!AtMost(i, j) = ~O!Less(j, i)
         /\ O!AtIndex(Numbered, i, O!Minus(j, i)) = Place(j)
    /\ \A i \in Iterators :
         /\ Place(O!Inc(i)) = Place(i) + 1
         /\ O!IncAfter(i) = [result |-> i, after |-> O!Advance(i, 1)]
         /\ O!Minus(O!EndMark(Blocks + 1), i) = BlockSize * Blocks - Place(i)

(* operator-- is no inverse of operator++: it goes back from the first byte  *)
(* of a block only, and leaves every other iterator where it is.             *)
ASSUME DecrementsAtSeamsOnly ==
    \A i \in Iterators :
        O!DecAfter(i).after = IF i.off = 0 THEN O!Advance(i, -1) ELSE i
=============================================================================
