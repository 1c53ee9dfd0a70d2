------------------------------- MODULE MCLogger -------------------------------
(* Logger for TLC: the values of the constants are in Logger.cfg.            *)
EXTENDS Logger

P == INSTANCE StringProxy

(* The sizes of the lines that a stream of SmallSize bytes can hold. *)
LineSizes == 1..(SmallSize - 1)

MCTexts == {NullPointer, 0, 3}

(* A process that logs to an AsyncOutputer from the beginning, one that goes *)
(* through the outputers of the library, and one that turns to an            *)
(* AsyncOutputer and back while its threads log.                             *)
MCProcesses ==
    {[first |-> "async", outputers |-> {}, thresholds |-> {}, starts |-> TRUE,
      levels |-> {2, 5}, hexes |-> {0}, maxLines |-> 3, maxTime |-> PerSecond],
     [first |-> "stdout", outputers |-> {"stdout", "stderr", "closed"}, thresholds |-> {0, 3},
      starts |-> FALSE, levels |-> {2, 4, 5}, hexes |-> {0, 2, 5}, maxLines |-> 2,
      maxTime |-> 2 * PerSecond],
     [first |-> "stdout", outputers |-> {"stdout", "async"}, thresholds |-> {},
      starts |-> TRUE, levels |-> {5}, hexes |-> {0, 2}, maxLines |-> 2, maxTime |-> PerSecond]}

-----------------------------------------------------------------------------
(* The conversions, on small numbers. *)

Numbers == -40..40

(* What a sequence of digits stands for. *)
RECURSIVE Value(_, _)
Value(digits, r) == IF digits = <<>> THEN 0 ELSE r * Value(Front(digits), r) + Last(digits)

(* A number reads back as itself and has no leading zero. *)
ASSUME ConversionsRight ==
    /\ \A v \in Numbers : LET s == ConvertIneger(v)
                              digits == IF s[1] = MinusSign THEN Tail(s) ELSE s
                          IN /\ (s[1] = MinusSign) = (v < 0)
                             /\ Value(digits, Radix) = Abs(v)
                             /\ v # 0 => digits[1] # 0
    /\ \A v \in Numbers \cap Nat : LET s == ConvertHex(v)
                                 IN /\ SubSeq(s, 1, 2) = <<0, LetterX>>
                                    /\ v = Value(SubSeq(s, 3, Len(s)), HexRadix)
    /\ \A v \in Numbers : v = PerSecond * GetSecs(v) + GetUsecs(v)

(* The location of a line holds no directory.  (logger.h:57 says "basename", *)
(* but the slash before it is kept.)                                         *)
ASSUME SourceFileShort ==
    \A path \in SeqOf({"/", "c"}, 4) :
        LET s == SourceFile(path, "/")
        IN /\ IsSuffix(s, path)
           /\ \A i \in 2..Len(s) : s[i] # "/"
           /\ s = path \/ s[1] = "/"

-----------------------------------------------------------------------------
(* StringProxy, over the strings that lie in small memories.                 *)

Memories == [1..4 -> 0..2]
Proxies == {P!OfRange(ptr, len) : ptr \in 1..3, len \in 0..2}

(* The order of the dictionary. *)
RECURSIVE Before(_, _)
Before(s, t) ==
    t # <<>> /\ (\/ s = <<>> \/ Head(s) < Head(t)
                 \/ Head(s) = Head(t) /\ Before(Tail(s), Tail(t)))

(* A proxy compares as the std::string that it stands for, wherever it lies  *)
(* in memory and also where two of them overlap.                             *)
ASSUME ProxiesCompare ==
    \A mem \in Memories : \A l, r \in Proxies :
        LET s == P!ToString(mem, l)
            t == P!ToString(mem, r)
        IN /\ P!Equal(mem, l, r) = (s = t)
           /\ P!LessThan(mem, l, r) = Before(s, t)
           /\ P!LessOrEqual(mem, l, r) = ~Before(t, s)
           /\ P!GreaterThan(mem, l, r) = Before(t, s)
           /\ P!GreaterOrEqual(mem, l, r) = ~Before(s, t)
           /\ (P!Compare(mem, l, r) < 0) = Before(s, t)
           /\ (P!Compare(mem, l, r) = 0) = (s = t)
           /\ \A i \in 1..Len(s) : P!CharAt(mem, l, i - 1) = s[i]

(* A C string is taken up to its end.  An array is taken whole but for its   *)
(* last character: it is the C string in it only when nothing follows that.  *)
ASSUME ProxiesOfMemory ==
    \A mem \in {m \in Memories : m[4] = 0} : \A ptr \in 1..4 :
        LET c == P!OfPointer(mem, ptr)
            a == P!OfArray(ptr, 5 - ptr)
        IN /\ 0 \notin ToSet(P!ToString(mem, c)) /\ mem[P!End(c)] = 0
           /\ P!Equal(mem, c, a) = (\A i \in ptr..3 : mem[i] # 0)
           /\ P!Equal(mem, P!OfString(ptr, c.length), c)
           /\ P!IsEmpty(c) = (mem[ptr] = 0) /\ P!IsEmpty(P!NullProxy)
=============================================================================
