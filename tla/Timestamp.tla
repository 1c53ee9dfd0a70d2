------------------------------ MODULE Timestamp ------------------------------
(***************************************************************************)
(* muzi::Timestamp (muzi/base/timestamp.{h,cc}), a number of microseconds, *)
(* and the conversions of it that the library hands to the system: the     *)
(* it_value of a timerfd (timer_queue.cc), the deadline of a condition     *)
(* (condition.cc), a second of the two time zones (timezone.h).            *)
(***************************************************************************)
EXTENDS Integers

CONSTANTS PerSecond,    \* kMicrosecondsPerSecond
          PerMicro,     \* the nanoseconds of a microsecond
          ShortDelay    \* the microseconds given to a timer that has expired

ASSUME TimeAssumption ==
    /\ PerSecond \in Nat \ {0}
    /\ PerMicro \in Nat \ {0}
    /\ ShortDelay \in Nat \ {0}

NanosPerSecond == PerSecond * PerMicro      \* kNanosecondsPerSecond

-----------------------------------------------------------------------------
(* "/" and "%" round towards zero. *)

Abs(v) == IF v < 0 THEN -v ELSE v
Quotient(v, r) == IF v < 0 THEN -(Abs(v) \div r) ELSE v \div r
Remainder(v, r) == v - r * Quotient(v, r)

-----------------------------------------------------------------------------
(* Seconds and fractions. *)

GetSecs(time) == Quotient(time, PerSecond)
GetUsecs(time) == Remainder(time, PerSecond)

GetTimeval(time) == [sec |-> GetSecs(time), usec |-> GetUsecs(time)]

(* Timestamp(tv), and Timestamp() with the tv of gettimeofday. *)
TimestampOf(tv) == tv.sec * PerSecond + tv.usec

ToTimeSpec(usec) == [sec |-> GetSecs(usec), nsec |-> GetUsecs(usec) * PerMicro]

(* kLocalTimeZone.Convert and kUtcTimeZone.Convert: "timezone" is the C      *)
(* library's number of seconds west of Greenwich.                            *)
GetLocalTime(time, timezone) == GetSecs(time)
GetUtcTime(time, timezone) == GetSecs(time) - timezone

-----------------------------------------------------------------------------
(* Arithmetic. *)

(* operator- and operator-=, operator+ and operator+= *)
TimeMinus(l, r) == l - r
TimePlus(l, r) == l + r

(* operator<, and operator> with the sides exchanged *)
Earlier(l, r) == l < r

(* The interval is n / d of a second: what is below a microsecond is cut off. *)
AddTime(time, n, d) == TimePlus(time, Quotient(n * PerSecond, d))

GetInvalid == -1
IsValid(time) == time > 0

-----------------------------------------------------------------------------
(* What the system is given. *)

(* The delay for which ResetTimerFd arms the timerfd, relative to now. *)
DelayOf(time, now) ==
    LET left == TimeMinus(time, now) IN IF IsValid(left) THEN left ELSE ShortDelay

(* new_value.it_value in ResetTimerFd *)
ItValue(time, now) == [sec |-> GetSecs(DelayOf(time, now)),
                       nsec |-> GetUsecs(DelayOf(time, now)) * PerMicro]

(* The timespec that WaitForSeconds(n / d) makes of the time ts: the part of *)
(* a second is added to tv_nsec with no carry.                               *)
WaitDeadline(ts, n, d) ==
    [sec |-> ts.sec + Quotient(n, d),
     nsec |-> ts.nsec + Quotient(Remainder(n, d) * NanosPerSecond, d)]

(* SleepUsec *)
SleepUsec(usec) == ToTimeSpec(usec)

(* A timespec that nanosleep, timerfd_settime and pthread_cond_timedwait     *)
(* take; the others are EINVAL.                                              *)
ValidSpec(ts) == ts.sec >= 0 /\ ts.nsec \in 0..(NanosPerSecond - 1)

(* timerfd_settime takes the zero timespec as "disarm". *)
Arms(ts) == ValidSpec(ts) /\ (ts.sec > 0 \/ ts.nsec > 0)

-----------------------------------------------------------------------------
(* The length of a valid timespec in nanoseconds. *)
Nanos(ts) == ts.sec * NanosPerSecond + ts.nsec
=============================================================================
