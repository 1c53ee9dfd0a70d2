---------------------------- MODULE MCTimerQueue ----------------------------
(* TimerQueue for TLC: the values of the constants are in TimerQueue.cfg.    *)
EXTENDS TimerQueue, Timestamp

T == INSTANCE TimerSet

-----------------------------------------------------------------------------
(* The set of timers and the times that the timerfd is given, on small       *)
(* instances.                                                                *)

Entries == [exp : 0..2, ptr : 1..2]

(* CompareEntry is a strict total order of the timers, so that two timers of *)
(* the same expiration are both kept; GetExpired takes out exactly those     *)
(* that are due ("Due" of TimerQueue), the earliest first; and Insert        *)
(* returns true exactly when the timer is before all the others, which is    *)
(* how AddTimerInLoop is written in TimerQueue.                              *)
ASSUME TimerSetRight ==
    /\ \A l, r \in Entries :
         /\ (l # r) = (T!CompareEntry(l, r) \/ T!CompareEntry(r, l))
         /\ ~(T!CompareEntry(l, r) /\ T!CompareEntry(r, l))
         /\ \A m \in Entries : T!CompareEntry(l, m) /\ T!CompareEntry(m, r)
                                 => T!CompareEntry(l, r)
    /\ \A set \in SUBSET Entries, t \in 0..3 :
         LET res == T!GetExpired(set, t)
         IN /\ res.timers = {e \in set : e.exp > t}
            /\ T!ToSet(res.expired) = {e \in set : e.exp <= t}
            /\ \A i, j \in DOMAIN res.expired :
                 i < j => res.expired[i].exp <= res.expired[j].exp
            /\ \A e \in set : T!CompareEntryTime(e, t) => e \notin res.timers
    /\ \A set \in SUBSET Entries : \A e \in Entries \ set :
         T!Insert(set, e).earliest = (\A f \in set : e.exp < f.exp)

(* The timerfd expires at the expiration of the timer it was armed for, or   *)
(* after the shortest delay ("ResetTimerFd" of TimerQueue); it is armed      *)
(* whatever the times are.                                                   *)
ASSUME ArmedForTimer ==
    \A time, at \in -4..8 :
        /\ Arms(ItValue(time, at))
        /\ Nanos(ItValue(time, at)) = PerMicro * (IF time > at THEN time - at ELSE ShortDelay)

(* Times and their parts.  GetTimeval of a time before the epoch holds a     *)
(* negative part, and Timestamp(tv) still reads it back.                     *)
ASSUME TimesRight ==
    \A time \in -7..7 :
        /\ TimestampOf(GetTimeval(time)) = time
        /\ TimeMinus(TimePlus(time, 3), 3) = time
        /\ IsValid(time) => ~IsValid(GetInvalid) /\ GetLocalTime(time, 1) >= 0
        /\ \A n \in 0..6 : LET t == AddTime(time, n, 4)
                           IN /\ 4 * (t - time) <= n * PerSecond
                              /\ n * PerSecond < 4 * (t - time + 1)
        /\ time >= 0 => Nanos(SleepUsec(time)) = time * PerMicro

(* WaitForSeconds gives a deadline that pthread_cond_timedwait accepts for   *)
(* whole seconds.  For a part of a second it may not: the sum of the         *)
(* nanoseconds is not carried, and the wait returns at once.                 *)
ASSUME DeadlineValid ==
    LET Specs == [sec : 0..1, nsec : 0..(NanosPerSecond - 1)]
    IN /\ \A ts \in Specs, n \in 0..3 : ValidSpec(WaitDeadline(ts, n, 1))
       /\ \E ts \in Specs : ~ValidSpec(WaitDeadline(ts, 1, 2))
       /\ \A ts \in Specs, n \in 0..3 :
            Nanos(WaitDeadline(ts, n, 2)) - Nanos(ts) = (n * NanosPerSecond) \div 2
=============================================================================
