------------------------------ MODULE OldBuffer ------------------------------
(***************************************************************************)
(* muzi::Buffer of muzi/net/old_buffer.{h,cc}, the buffer that ChainBuffer *)
(* replaced and that include/buffer.h still holds: a vector of blocks, an  *)
(* iterator that walks over their seams, and room for kCheapPrepend bytes  *)
(* before the data.                                                        *)
(*                                                                         *)
(* An __BufferIterator is the index "it" of its block and the offset "off" *)
(* of cur_ in it.  The index after the last block is not a block:          *)
(* MoveBuffer to it is undefined.  An operation is a function of the       *)
(* buffer b; the actions are those of Buffers.                             *)
(***************************************************************************)
EXTENDS Integers, Sequences, SequencesExt

CONSTANTS BlockSize,     \* kBufferSize
          CheapPrepend,  \* kCheapPrepend
          ExtraSize,     \* kExtraBufferSize
          LongSize,      \* the bytes that htonl and ntohl swap
          MaxByte        \* the greatest byte

(* make_unique<BufferBlock>() *)
AllocateBuffer(n) == [j \in 1..n |-> [k \in 1..BlockSize |-> 0]]

-----------------------------------------------------------------------------
(* The iterator. *)

(* The first byte of a block; and the end, whose pointers are all null. *)
FirstOf(n) == [it |-> n, off |-> 0]
EndMark(n) == [it |-> n, off |-> 0]

IsInSameBuffer(l, r) == l.it = r.it

MoveToNextBuffer(i) == FirstOf(i.it + 1)

Minus(l, r) == BlockSize * ((l.it - r.it) - 1) + l.off + (BlockSize - r.off)

(* operator++ *)
Inc(i) == IF i.off + 1 = BlockSize THEN MoveToNextBuffer(i) ELSE [i EXCEPT !.off = @ + 1]

(* operator--: cur_ is moved only when it is at first_. *)
Dec(i) == IF i.off = 0 THEN [it |-> i.it - 1, off |-> BlockSize - 1] ELSE i

(* The suffix operators: what they return, and the iterator after them. *)
IncAfter(i) == [result |-> i, after |-> Inc(i)]
DecAfter(i) == [result |-> i, after |-> Dec(i)]

(* operator+=, and with a negative n operator-= *)
Advance(i, n) ==
    LET offset == n + i.off
        blocks == IF offset > 0 THEN offset \div BlockSize
                                ELSE -((-offset - 1) \div BlockSize) - 1
    IN IF offset \in 0..(BlockSize - 1)
         THEN [i EXCEPT !.off = @ + n]
         ELSE [it |-> i.it + blocks, off |-> offset - blocks * BlockSize]

(* operator< and operator<= *)
Less(l, r) == IF IsInSameBuffer(l, r) THEN l.off < r.off ELSE l.it < r.it
AtMost(l, r) == IF IsInSameBuffer(l, r) THEN l.off <= r.off ELSE l.it < r.it

(* operator* and operator[] *)
At(b, i) == b.list[i.it][i.off + 1]
AtIndex(b, i, n) == At(b, Advance(i, n))

(* The bytes from one iterator to another. *)
RECURSIVE Between(_, _, _)
Between(b, i, j) == IF i = j THEN <<>> ELSE <<At(b, i)>> \o Between(b, Inc(i), j)

(* std::copy of data to an iterator. *)
RECURSIVE Copied(_, _, _)
Copied(list, i, data) ==
    IF data = <<>> THEN list
    ELSE Copied([list EXCEPT ![i.it][i.off + 1] = Head(data)], Inc(i), Tail(data))

(* std::search for str in the readable bytes: its place, or the end. *)
RECURSIVE Search(_, _, _)
Search(b, i, str) ==
    IF Minus(b.write, i) < Len(str) THEN b.write
    ELSE IF Between(b, i, Advance(i, Len(str))) = str THEN i
    ELSE Search(b, Inc(i), str)

-----------------------------------------------------------------------------
(* The buffer. *)

Start == Advance(FirstOf(1), CheapPrepend)

NewBuffer == [list |-> AllocateBuffer(1), read |-> Start, write |-> Start]

Valid(b) == /\ {b.read.it, b.write.it} \subseteq 1..Len(b.list)
            /\ {b.read.off, b.write.off} \subseteq 0..(BlockSize - 1)
            /\ AtMost(b.read, b.write)

ReadableBytes(b) == Minus(b.write, b.read)
WritableBytes(b) ==
    LET n == Minus(EndMark(Len(b.list) + 1), b.write) - 1 IN IF n > 0 THEN n ELSE 0
GetPrependableBytes(b) == Minus(b.read, FirstOf(1))

PeekAllAsString(b) == Between(b, b.read, b.write)

(* The bytes that hold no data are 0: what they held is never told apart.    *)
Scrubbed(b) ==
    [b EXCEPT !.list = [j \in DOMAIN @ |-> [k \in 1..BlockSize |->
        LET i == [it |-> j, off |-> k - 1]
        IN IF AtMost(b.read, i) /\ ~AtMost(b.write, i) THEN @[j][k] ELSE 0]]]

ResetIndex(b) == [b EXCEPT !.read = Start, !.write = Start]

Retrived(b, len) ==
    IF len < ReadableBytes(b) THEN [b EXCEPT !.read = Advance(@, len)] ELSE ResetIndex(b)

RetriveUtil(b, util) == Retrived(b, Minus(util, b.read))

(* The blocks left..right change places with those from idle on, which all   *)
(* lie before left.                                                          *)
Swapped(list, left, right, idle) ==
    [j \in DOMAIN list |-> IF j \in idle..(idle + right - left) THEN list[left + j - idle]
                           ELSE IF j \in left..right THEN list[idle + j - left]
                           ELSE list[j]]

(* Mutant: write_index_ is looked for in the block of read_index_. *)
ExtendSpaceOneBlock(b, len) ==
    LET left == b.read.it
        use == (Len(b.list) - left + 1) + (len - 1) \div BlockSize + 1
        idle == IF b.read.off >= CheapPrepend THEN 1 ELSE 2
    IN IF Len(b.list) > 2 * use
         THEN [list |-> Swapped(b.list, left, b.write.it, idle),
               read |-> [b.read EXCEPT !.it = idle],
               write |-> [b.write EXCEPT !.it = idle]]
         ELSE [b EXCEPT !.list = @ \o AllocateBuffer(Len(@))]

ExtendSpace(b, len) ==
    LET left == b.read.it
        right == b.write.it
        add == (len - 1) \div BlockSize + 1                  \* buffers_to_add
        use == (Len(b.list) - left + 1) + add                \* buffers_to_use
        idle == IF b.read.off >= CheapPrepend THEN 1 ELSE 2
    IN IF Len(b.list) > 2 * use
         THEN [list |-> Swapped(b.list, left, right, idle),
               read |-> [b.read EXCEPT !.it = idle],
               write |-> [b.write EXCEPT !.it = idle + right - left]]
         ELSE [b EXCEPT !.list = @ \o AllocateBuffer(Len(@))]

RECURSIVE EnsureWritableBytes(_, _)
EnsureWritableBytes(b, len) ==
    IF len <= WritableBytes(b) THEN b
    ELSE EnsureWritableBytes(ExtendSpace(b, len - WritableBytes(b)), len)

(* Append, in each of its forms. *)
Appended(b, data) ==
    LET e == EnsureWritableBytes(b, Len(data))
    IN [e EXCEPT !.list = Copied(@, e.write, data), !.write = Advance(@, Len(data))]

UnWritten(b, len) == [b EXCEPT !.write = Advance(@, -len)]

Prepended(b, data) ==
    LET first == Advance(b.read, -Len(data))
    IN [b EXCEPT !.read = first, !.list = Copied(@, first, data)]

(* readv has put data into the free blocks, all but their last byte, and the *)
(* rest into extra_buf.                                                      *)
ReadFrom(b, data) ==
    LET writable == WritableBytes(b)
        kept == IF Len(data) <= writable THEN data ELSE SubSeq(data, 1, writable)
        filled == [b EXCEPT !.list = Copied(@, b.write, kept), !.write = Advance(@, Len(kept))]
    IN IF Len(data) <= writable THEN filled
       ELSE Appended(filled, SubSeq(data, writable + 1, Len(data)))

(* writev has taken the first n bytes. *)
WrittenTo(b, n) == [b EXCEPT !.read = Advance(@, n)]

-----------------------------------------------------------------------------
(* Integers, as the bytes of a little-endian host.                           *)

(* A conversion between integer types: bytes are dropped, or added.          *)
Resized(bytes, n, fill) ==
    [k \in 1..n |-> IF k <= Len(bytes) THEN bytes[k] ELSE fill]

(* The byte that a signed value is extended with. *)
Sign(bytes) == IF 2 * Last(bytes) > MaxByte THEN MaxByte ELSE 0

(* htonl and ntohl take and return a uint32_t. *)
SwapLong(bytes) ==
    Resized(Reverse(Resized(bytes, LongSize, Sign(bytes))), Len(bytes), 0)

(* endian::HostToNet and endian::NetToHost: only the unsigned types have a   *)
(* specialisation that keeps their width.                                    *)
HostToNet(bytes, unsigned) == IF unsigned THEN Reverse(bytes) ELSE SwapLong(bytes)

NetToHost(bytes, unsigned) == IF unsigned THEN Reverse(bytes) ELSE SwapLong(bytes)
=============================================================================
