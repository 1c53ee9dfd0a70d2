------------------------------ MODULE LogStream ------------------------------
(***************************************************************************)
(* muzi::LogStream (muzi/base/log_stream.{h,cc}) over a FixedBuffer        *)
(* (fixed_buffer.h), and the times that a line begins with (timestamp.h).  *)
(*                                                                         *)
(* What a stream holds is the number of its bytes: an operation takes the  *)
(* size of the buffer to its new size.  The conversions of numbers give    *)
(* the digits themselves.                                                  *)
(***************************************************************************)
EXTENDS Timestamp, Sequences, SequencesExt

CONSTANTS SmallSize,    \* kSmallBuffSize
          SizeRange,    \* the number of values of a size_t
          MaxNumeric,   \* kMaxNumericSize
          MaxHex,       \* kMaxHexSize
          NullLen,      \* the length of "(null)"
          Radix, HexRadix     \* 10 and 16

-----------------------------------------------------------------------------
(* FixedBuffer. *)

(* A size_t, which wraps around when the buffer is overrun. *)
GetAvail(size) == (SmallSize - size - 1) % SizeRange

AppendText(size, len) == size + (IF len < GetAvail(size) THEN len ELSE GetAvail(size))

(* operator<< of a text in each of its forms: a C string, which may be a     *)
(* null pointer, an array, a std::string, a StringProxy, another buffer.     *)
NullPointer == -1
AppendMessage(size, len) == AppendText(size, IF len = NullPointer THEN NullLen ELSE len)

-----------------------------------------------------------------------------
(* Numbers.  "/" and "%" round towards zero, so a digit may be negative:     *)
(* kZero[i % 10] is its absolute value.                                      *)

(* The digits of v, the last first: the loops of the two conversions.        *)
RECURSIVE Digits(_, _)
Digits(v, r) == <<Abs(Remainder(v, r))>> \o
                (IF Quotient(v, r) = 0 THEN <<>> ELSE Digits(Quotient(v, r), r))

(* The characters that are not digits. *)
MinusSign == -1
LetterX == -2

ConvertIneger(v) == Reverse(Digits(v, Radix) \o (IF v < 0 THEN <<MinusSign>> ELSE <<>>))

ConvertHex(v) == Reverse(Digits(v, HexRadix) \o <<LetterX, 0>>)

(* Mutant: a number is written without room for the longest one. *)
AppendNumberAnyway(size, digits) == IF GetAvail(size) > 0 THEN size + digits ELSE size

(* operator<< of an integer, of a double and of a pointer: what is converted *)
(* to so many characters is left out when the longest might not fit.         *)
AppendNumber(size, digits) == IF GetAvail(size) >= MaxNumeric THEN size + digits ELSE size

AppendHex(size, digits) == IF GetAvail(size) >= MaxHex THEN size + digits ELSE size

-----------------------------------------------------------------------------
(* SourceFile: the path from its last slash on. *)
SourceFile(path, slash) ==
    LET right == {i \in DOMAIN path : path[i] = slash}
    IN IF right = {} THEN path ELSE SubSeq(path, Max(right), Len(path))

-----------------------------------------------------------------------------
(* The time that a line begins with. *)

(* ToFormatString, in a thread whose last_second and t_time_buf are in the   *)
(* cache: t_time_buf holds the second that was converted.                    *)
ToFormatString(time, cache) ==
    IF GetSecs(time) # cache.last THEN [last |-> GetSecs(time), tm |-> GetSecs(time)] ELSE cache
=============================================================================
