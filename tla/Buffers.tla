------------------------------- MODULE Buffers -------------------------------
(***************************************************************************)
(* The two buffers of muzi/net side by side: every call is made on a       *)
(* ChainBuffer and on a Buffer (old_buffer.h), so that buffer.h may        *)
(* typedef either of them.  Where only one of them has the operation, the  *)
(* other does what a caller would write instead.                           *)
(***************************************************************************)
EXTENDS ChainBuffer

CONSTANTS BlockSize, CheapPrepend, ExtraSize, LongSize,   \* of OldBuffer
          IntTypes,     \* the integer types: their size, and whether they are unsigned
          Strings       \* the strings looked for: FindEOL, FindCRLF, Find

O == INSTANCE OldBuffer

ASSUME OldAssumption ==
    /\ BlockSize \in Nat \ {0} /\ CheapPrepend \in 0..(BlockSize - 1)
    /\ ExtraSize \in Nat /\ LongSize \in Nat \ {0}
    /\ IntTypes \subseteq [size : 1..MaxLen, unsigned : BOOLEAN]
    /\ Strings \subseteq Seq(Byte) \ {<<>>}

VARIABLES old,          \* the Buffer
          oldOut,       \* the data it returned from the last call
          prepended     \* the bytes put before the first since the indices were last reset

allVars == <<buf, in, out, old, oldOut, prepended>>

BothInit == Init /\ old = O!NewBuffer /\ oldOut = <<>> /\ prepended = 0

(* The call leaves the Buffer as b and returns result. *)
OldCall(b, result) ==
    /\ O!Valid(old)
    /\ old' = O!Scrubbed(b)
    /\ oldOut' = result
    /\ prepended' = IF b = O!ResetIndex(b) THEN 0 ELSE prepended

(* A string that ends n bytes after the first. *)
Util(n) == O!Advance(old.read, n)

BothAppend(n) == AppendData(n) /\ OldCall(O!Appended(old, Data(n)), <<>>)

BothAppendBuffer(n, m) == AppendBuffer(n, m) /\ OldCall(O!Appended(old, Data(n + m)), <<>>)

BothRetrive(n) == Retrive(n) /\ OldCall(O!Retrived(old, n), <<>>)

BothRetriveAsString(n) ==
    /\ RetriveAsString(n)
    /\ OldCall(O!RetriveUtil(old, Util(n)), O!Between(old, old.read, Util(n)))

BothPeekAll == PeekString(buf.readableBytes) /\ OldCall(old, O!PeekAllAsString(old))

BothRetriveAll == RetriveAll /\ OldCall(O!ResetIndex(old), <<>>)

BothRetriveAllAsString ==
    /\ RetriveAllAsString
    /\ OldCall(O!RetriveUtil(old, old.write), O!PeekAllAsString(old))

BothUnWrite(n) == UnWrite(n) /\ OldCall(O!UnWritten(old, n), <<>>)

BothReadFd(n) ==
    /\ n <= O!WritableBytes(old) + ExtraSize
    /\ ReadFd(n)
    /\ OldCall(O!ReadFrom(old, Data(n)), <<>>)

BothWriteFd(n) ==
    /\ WriteFd(n)
    /\ OldCall(O!WrittenTo(old, n), O!Between(old, old.read, Util(n)))

ShrinkChain(n) == Shrink(n) /\ OldCall(old, <<>>)

(* Prepend: the ChainBuffer, which is given the bytes chain, is filled anew. *)
PrependBoth(chain, bytes) ==
    /\ Fits(Len(bytes)) /\ Len(bytes) <= O!GetPrependableBytes(old)
    /\ Call(chain, <<>>)
    /\ buf' = Add(Scrubbed(Cleared(buf)), chain \o PeekAsString(buf, buf.readableBytes))
    /\ O!Valid(old) /\ old' = O!Prepended(old, bytes) /\ oldOut' = <<>>
    /\ prepended' = IF prepended + Len(bytes) < CheapPrepend THEN prepended + Len(bytes)
                                                            ELSE CheapPrepend

PrependOld(n) == PrependBoth(Data(n), Data(n))

PrependInt(type) ==
    LET host == Data(type.size) IN PrependBoth(Reverse(host), O!HostToNet(host, type.unsigned))

(* AppendInt: the ChainBuffer is given the bytes in network order. *)
AppendInt(type) ==
    LET host == Data(type.size)
    IN /\ Fits(type.size)
       /\ Call(Reverse(host), <<>>)
       /\ buf' = Add(buf, Reverse(host))
       /\ OldCall(O!Appended(old, O!HostToNet(host, type.unsigned)), <<>>)

(* ReadInt: PeekInt and Retrive. *)
ReadInt(type) ==
    LET n == type.size
    IN /\ RetriveAsString(n)
       /\ OldCall(O!Retrived(old, n),
                  Reverse(O!NetToHost(O!Between(old, old.read, Util(n)), type.unsigned)))

(* RetriveAsString up to what FindEOL, FindCRLF or Find returns. *)
RetriveUpTo(str) ==
    LET all == PeekAsString(buf, buf.readableBytes)
        at == {k \in 1..(Len(all) - Len(str) + 1) : SubSeq(all, k, k + Len(str) - 1) = str}
        n == IF at = {} THEN Len(all) ELSE (CHOOSE k \in at : \A j \in at : k <= j) - 1
        util == O!Search(old, old.read, str)
    IN /\ RetriveAsString(n)
       /\ OldCall(O!RetriveUtil(old, util), O!Between(old, old.read, util))

BothNext ==
    \/ \E n \in 0..MaxLen : \/ BothAppend(n) \/ BothRetrive(n) \/ BothRetriveAsString(n)
                            \/ BothUnWrite(n) \/ BothReadFd(n) \/ BothWriteFd(n)
                            \/ ShrinkChain(n) \/ PrependOld(n)
    \/ \E n, m \in 0..MaxLen : BothAppendBuffer(n, m)
    \/ BothPeekAll \/ BothRetriveAll \/ BothRetriveAllAsString
    \/ \E type \in IntTypes : AppendInt(type) \/ ReadInt(type) \/ PrependInt(type)
    \/ \E str \in Strings : RetriveUpTo(str)

BothSpec == BothInit /\ [][BothNext]_allVars

-----------------------------------------------------------------------------
(* Properties. *)

(* The two buffers are interchangeable: after any calls they hold the same   *)
(* bytes and have returned the same ones, whatever blocks they keep, swap,   *)
(* splice or double, and no iterator of Buffer is left outside its list.     *)
BuffersAgree == /\ O!Valid(old)
                /\ Contents = O!PeekAllAsString(old)
                /\ out = oldOut

(* kCheapPrepend: whatever was read, appended and moved, that many bytes may *)
(* still be put before the first one, less those already put there.          *)
StaysPrependable == O!GetPrependableBytes(old) >= CheapPrepend - prepended
=============================================================================
