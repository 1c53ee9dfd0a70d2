----------------------------- MODULE ChainBuffer -----------------------------
(***************************************************************************)
(* muzi::ChainBuffer (muzi/net/chain_buffer.{h,cc}): the buffer of a       *)
(* connection, a list of blocks of kBufferSize bytes that is read at one   *)
(* place and written at another; a block that was read is moved to the end *)
(* of the list.                                                            *)
(*                                                                         *)
(* An iterator into the list is the index of its block: 0 and the index    *)
(* after the last one are not blocks, and the model stops there, where the *)
(* behaviour of the code is undefined.  A position p in a block has p      *)
(* bytes before it.  The loops are the recursive operators.                *)
(***************************************************************************)
EXTENDS Integers, Sequences, SequencesExt

CONSTANTS BufferSize,   \* kBufferSize
          MaxVecSize,   \* the entries of an iovec
          ExtraSpace,   \* the bytes of extra_buf
          MaxByte,      \* the greatest byte
          MaxLen,       \* bound: the length of the data of one call
          MaxReadable,  \* bound: the bytes in the buffer
          AtBoundary    \* whether UnWrite may go back to the start of a block

ASSUME BufferAssumption ==
    /\ BufferSize \in Nat \ {0}
    /\ MaxVecSize \in Nat \ {0, 1}
    /\ ExtraSpace \in Nat /\ MaxLen \in Nat /\ MaxReadable \in Nat
    /\ MaxByte \in Nat \ {0}
    /\ AtBoundary \in BOOLEAN

VARIABLES
    buf,                \* the ChainBuffer
    in, out             \* the data given to and returned by the last call

vars == <<buf, in, out>>

Byte == 0..MaxByte
Block == [1..BufferSize -> Byte]
NewBlock == [k \in 1..BufferSize |-> 0]

InBounds(b) == b.readBuffer \in 1..Len(b.buffers) /\ b.writeBuffer \in 1..Len(b.buffers)

TypeOK ==
    /\ buf.buffers \in Seq(Block)
    /\ buf.readBuffer \in Nat /\ buf.writeBuffer \in Nat
    /\ buf.readPos \in 0..BufferSize /\ buf.writePos \in 0..BufferSize
    /\ buf.readableBytes \in Nat
    /\ in \in Seq(Byte) /\ out \in Seq(Byte)

Init ==
    /\ buf = [buffers |-> <<NewBlock>>,
              readBuffer |-> 1, readPos |-> 0,
              writeBuffer |-> 1, writePos |-> 0,
              readableBytes |-> 0]
    /\ in = <<>> /\ out = <<>>

-----------------------------------------------------------------------------
(* Helpers. *)

SlowReadableBytes(b) ==
    (b.writeBuffer * BufferSize + b.writePos) - (b.readBuffer * BufferSize + b.readPos)

WritableBytes(b) == (Len(b.buffers) - b.writeBuffer + 1) * BufferSize - b.writePos

(* The bytes that hold no data are 0: what they held is never told apart.    *)
Scrubbed(b) ==
    LET from == b.readBuffer * BufferSize + b.readPos
        to == b.writeBuffer * BufferSize + b.writePos
    IN [b EXCEPT !.buffers = [j \in DOMAIN @ |-> [k \in 1..BufferSize |->
            IF j * BufferSize + k \in (from + 1)..to THEN @[j][k] ELSE 0]]]

(* The first n bytes of the data, or all of it. *)
Upto(data, n) == IF n < Len(data) THEN SubSeq(data, 1, n) ELSE data

(* The blocks after data has been copied to them from a position on, one     *)
(* block after the other.                                                    *)
Scatter(blocks, i, p, data) ==
    [j \in DOMAIN blocks |-> [k \in 1..BufferSize |->
        IF j < i \/ (j = i /\ k <= p) \/ (j - i) * BufferSize + k - p > Len(data)
          THEN blocks[j][k]
          ELSE data[(j - i) * BufferSize + k - p]]]

RECURSIVE Forward(_, _, _)
Forward(i, p, len) ==
    LET n == BufferSize - p
    IN IF len = 0 THEN <<i, p>>
       ELSE IF n > len THEN <<i, p + len>>
       ELSE Forward(i + 1, 0, len - n)

RECURSIVE BackWard(_, _, _)
BackWard(i, p, len) ==
    IF len = 0 \/ i = 0 THEN <<i, p>>
    ELSE IF p > len THEN <<i, p - len>>
    ELSE BackWard(i - 1, BufferSize, len - p)

(* The copying loop of Append. *)
RECURSIVE Appended(_, _)
Appended(b, data) ==
    LET m == BufferSize - b.writePos
        copied == Scatter(b.buffers, b.writeBuffer, b.writePos, Upto(data, m))
    IN IF data = <<>> THEN b
       ELSE IF m > Len(data)
         THEN [b EXCEPT !.buffers = Scatter(@, b.writeBuffer, b.writePos, data),
                        !.writePos = @ + Len(data)]
         ELSE Appended([b EXCEPT !.buffers = IF b.writeBuffer = Len(@)
                                               THEN Append(copied, NewBlock) ELSE copied,
                                 !.writeBuffer = @ + 1,
                                 !.writePos = 0],
                       SubSeq(data, m + 1, Len(data)))

(* Append(data, len). *)
Add(b, data) == Appended([b EXCEPT !.readableBytes = @ + Len(data)], data)

(* The block that was read goes to the end of the list, and an iterator to   *)
(* it goes with it.                                                          *)
Splice(b) ==
    LET r == b.readBuffer
        moved(i) == IF i = r THEN Len(b.buffers) ELSE IF i > r THEN i - 1 ELSE i
    IN [b EXCEPT !.buffers = Append(RemoveAt(@, r), @[r]),
                 !.readBuffer = IF r = Len(b.buffers) THEN r + 1 ELSE r,
                 !.readPos = 0,
                 !.writeBuffer = moved(@)]

(* The loop of Retrive. *)
RECURSIVE Retrived(_, _)
Retrived(b, len) ==
    LET m == BufferSize - b.readPos
    IN IF len = 0 \/ ~InBounds(b) THEN b
       ELSE IF m > len THEN [b EXCEPT !.readPos = @ + len]
       ELSE Retrived(Splice(b), len - m)

(* Retrive(len). *)
Drop(b, len) == Retrived([b EXCEPT !.readableBytes = @ - len], len)

Cleared(b) ==
    [b EXCEPT !.readBuffer = 1, !.writeBuffer = 1, !.readPos = 0, !.writePos = 0,
              !.readableBytes = 0]

(* The loop of PeekAsString. *)
RECURSIVE Peeked(_, _, _, _)
Peeked(b, i, p, len) ==
    LET m == BufferSize - p
    IN IF len = 0 THEN <<>>
       ELSE IF m > len THEN SubSeq(b.buffers[i], p + 1, p + len)
       ELSE SubSeq(b.buffers[i], p + 1, BufferSize) \o Peeked(b, i + 1, 0, len - m)

PeekAsString(b, len) == Peeked(b, b.readBuffer, b.readPos, len)

-----------------------------------------------------------------------------
(* The operations. *)

Fits(n) == buf.readableBytes + n <= MaxReadable

(* Fresh data: bytes that count on from the last ones in the buffer. *)
Data(n) ==
    LET last == IF buf.readableBytes = 0 THEN 0 ELSE PeekAsString(buf, buf.readableBytes)[buf.readableBytes]
    IN [k \in 1..n |-> ((last + k - 1) % MaxByte) + 1]

Call(data, result) ==
    /\ InBounds(buf)
    /\ in' = data
    /\ out' = result

AppendData(n) ==
    /\ Fits(n)
    /\ Call(Data(n), <<>>)
    /\ buf' = Add(buf, Data(n))

(* Append(const ChainBuffer &): one Append for each of its blocks. *)
AppendBuffer(n, m) ==
    /\ Fits(n + m)
    /\ Call(Data(n + m), <<>>)
    /\ buf' = Add(Add(buf, SubSeq(Data(n + m), 1, n)), SubSeq(Data(n + m), n + 1, n + m))

Retrive(n) ==
    /\ n <= buf.readableBytes
    /\ Call(<<>>, <<>>)
    /\ buf' = Scrubbed(Drop(buf, n))

RetriveAsString(n) ==
    /\ n <= buf.readableBytes
    /\ Call(<<>>, PeekAsString(buf, n))
    /\ buf' = Scrubbed(Drop(buf, n))

PeekString(n) ==
    /\ n <= buf.readableBytes
    /\ Call(<<>>, PeekAsString(buf, n))
    /\ UNCHANGED buf

RetriveAll ==
    /\ Call(<<>>, <<>>)
    /\ buf' = Scrubbed(Cleared(buf))

RetriveAllAsString ==
    /\ Call(<<>>, PeekAsString(buf, buf.readableBytes))
    /\ buf' = Scrubbed(Cleared(buf))

(* Without AtBoundary the callers stop inside a block. *)
UnWrite(n) ==
    /\ n <= buf.readableBytes
    /\ AtBoundary \/ (buf.writePos - n) % BufferSize # 0
    /\ Call(<<>>, <<>>)
    /\ LET back == BackWard(buf.writeBuffer, buf.writePos, n)
       IN buf' = Scrubbed([buf EXCEPT !.writeBuffer = back[1], !.writePos = back[2],
                                      !.readableBytes = @ - n])

Shrink(reserve) ==
    /\ WritableBytes(buf) > reserve
    /\ Call(<<>>, <<>>)
    /\ LET peek == Forward(buf.writeBuffer, buf.writePos, reserve)
       IN buf' = [buf EXCEPT !.buffers = SubSeq(@, 1, peek[1])]

(* The last block in the iovec of ReadFd, and the bytes of the blocks in it. *)
LastRead == LET last == buf.writeBuffer + MaxVecSize - 2
            IN IF last < Len(buf.buffers) THEN last ELSE Len(buf.buffers)
ReadSpace == (LastRead - buf.writeBuffer + 1) * BufferSize - buf.writePos

(* readv has put n bytes into the blocks, and the rest into extra_buf. *)
Read(n) == [buf EXCEPT !.buffers = Scatter(@, buf.writeBuffer, buf.writePos,
                                            Upto(Data(n), ReadSpace))]
Rest(n) == SubSeq(Data(n), ReadSpace + 1, n)

(* Mutant: the blocks are taken to be full when the iovec is. *)
ReadFdLast(n) ==
    /\ Fits(n) /\ n <= ReadSpace + ExtraSpace
    /\ Call(Data(n), <<>>)
    /\ buf' = IF n < ReadSpace
                THEN LET fwd == Forward(buf.writeBuffer, buf.writePos, n)
                     IN [Read(n) EXCEPT !.writeBuffer = fwd[1], !.writePos = fwd[2],
                                        !.readableBytes = @ + n]
                ELSE Add([Read(n) EXCEPT !.buffers = Append(@, NewBlock),
                                         !.writeBuffer = Len(buf.buffers) + 1,
                                         !.writePos = 0,
                                         !.readableBytes = @ + ReadSpace], Rest(n))

ReadFd(n) ==
    /\ Fits(n) /\ n <= ReadSpace + ExtraSpace
    /\ Call(Data(n), <<>>)
    /\ buf' = IF n < ReadSpace
                THEN LET fwd == Forward(buf.writeBuffer, buf.writePos, n)      \* HasWrite
                     IN [Read(n) EXCEPT !.writeBuffer = fwd[1], !.writePos = fwd[2],
                                        !.readableBytes = @ + n]
                ELSE Add([Read(n) EXCEPT !.buffers = IF LastRead = Len(@) THEN Append(@, NewBlock)
                                                                          ELSE @,
                                         !.writeBuffer = LastRead + 1,
                                         !.writePos = 0,
                                         !.readableBytes = @ + ReadSpace], Rest(n))

(* The bytes in the iovec of WriteFd. *)
Offered ==
    IF buf.writeBuffer - buf.readBuffer < MaxVecSize
      THEN SlowReadableBytes(buf)
      ELSE MaxVecSize * BufferSize - buf.readPos

(* writev takes the first n of the bytes offered. *)
WriteFd(n) ==
    /\ n <= Offered
    /\ Call(<<>>, PeekAsString(buf, n))
    /\ buf' = Scrubbed(Drop(buf, n))

Next ==
    \/ \E n \in 0..MaxLen : \/ AppendData(n) \/ Retrive(n) \/ RetriveAsString(n)
                            \/ PeekString(n) \/ UnWrite(n) \/ Shrink(n)
                            \/ ReadFd(n) \/ WriteFd(n)
    \/ \E n, m \in 0..MaxLen : AppendBuffer(n, m)
    \/ RetriveAll \/ RetriveAllAsString

Spec == Init /\ [][Next]_vars

-----------------------------------------------------------------------------
(* Properties. *)

(* The iterators point to blocks of the list and the positions lie inside    *)
(* them: no operation is left with undefined behaviour.                      *)
IteratorsValid == /\ InBounds(buf)
                  /\ buf.readPos < BufferSize /\ buf.writePos < BufferSize

(* chain_buffer.h:42-43, the formula in the comment of ReadableBytes:        *)
(* "return std::distance(read_buffer_, write_buffer_) * kBufferSize + ...":  *)
(* the counter readable_bytes_ is the distance between the two places.       *)
ReadableExact == InBounds(buf) => buf.readableBytes = SlowReadableBytes(buf)

Contents == LET from == (buf.readBuffer - 1) * BufferSize + buf.readPos - 1
            IN [k \in 1..buf.readableBytes |->
                  buf.buffers[(from + k) \div BufferSize + 1][((from + k) % BufferSize) + 1]]

Queue == INSTANCE ByteQueue WITH content <- Contents

(* The buffer is a queue of bytes: whatever the blocks, the iovecs and the   *)
(* splicing, bytes come out as they went in.                                 *)
ImplementsByteQueue == Queue!Spec
=============================================================================
