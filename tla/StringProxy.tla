----------------------------- MODULE StringProxy -----------------------------
(***************************************************************************)
(* muzi::StringProxy (muzi/base/string_proxy.h): a pointer into memory     *)
(* that it does not own, and a length.  Memory is a sequence of            *)
(* characters, a pointer a place in it; 0 ends a C string and is the null  *)
(* pointer.                                                                *)
(***************************************************************************)
EXTENDS Integers, Sequences, FiniteSetsExt

StrLen(mem, ptr) == Min({n \in 0..(Len(mem) - ptr) : mem[ptr + n] = 0})

(* StringProxy() and reset() *)
NullProxy == [ptr |-> 0, length |-> 0]

(* From a char *, from a char[n], from a pointer and a length, and from a    *)
(* std::string of n characters at ptr; reset() with the same arguments.      *)
OfPointer(mem, ptr) == [ptr |-> ptr, length |-> StrLen(mem, ptr)]
OfArray(ptr, n) == [ptr |-> ptr, length |-> n - 1]
OfRange(ptr, len) == [ptr |-> ptr, length |-> len]
OfString(ptr, n) == [ptr |-> ptr, length |-> n]

IsEmpty(s) == s.length = 0
End(s) == s.ptr + s.length

(* operator[] *)
CharAt(mem, s, index) == mem[s.ptr + index]

(* ToString and CopyToString *)
ToString(mem, s) == SubSeq(mem, s.ptr, End(s) - 1)

-----------------------------------------------------------------------------
(* Comparison. *)

(* The difference of the first characters that differ, of n: characters are  *)
(* compared as unsigned.                                                     *)
MemCmp(mem, p, q, n) ==
    LET differ == {i \in 0..(n - 1) : mem[p + i] # mem[q + i]}
    IN IF differ = {} THEN 0 ELSE mem[p + Min(differ)] - mem[q + Min(differ)]

Shorter(l, r) == IF l.length > r.length THEN r.length ELSE l.length

(* memcmp over the length that both have. *)
CommonCmp(mem, l, r) == MemCmp(mem, l.ptr, r.ptr, Shorter(l, r))

(* operator== ; operator!= is its negation. *)
Equal(mem, l, r) == l.length = r.length /\ MemCmp(mem, l.ptr, r.ptr, l.length) = 0

Compare(mem, l, r) ==
    LET res == CommonCmp(mem, l, r)
    IN IF res # 0 THEN res
       ELSE IF l.length > r.length THEN 1 ELSE IF l.length < r.length THEN -1 ELSE 0

(* COMPARE_OPERATOR(op, aux_op): aux is "res aux_op 0" and op "length_ op    *)
(* rhs.length_", res being what memcmp returned.                             *)
CompareOperator(res, op, aux) == aux \/ (res = 0 /\ op)

LessThan(mem, l, r) ==
    LET res == CommonCmp(mem, l, r) IN CompareOperator(res, l.length < r.length, res < 0)
LessOrEqual(mem, l, r) ==
    LET res == CommonCmp(mem, l, r) IN CompareOperator(res, l.length <= r.length, res < 0)
GreaterThan(mem, l, r) ==
    LET res == CommonCmp(mem, l, r) IN CompareOperator(res, l.length > r.length, res > 0)
GreaterOrEqual(mem, l, r) ==
    LET res == CommonCmp(mem, l, r) IN CompareOperator(res, l.length >= r.length, res > 0)
=============================================================================
