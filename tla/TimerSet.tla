------------------------------- MODULE TimerSet -------------------------------
(***************************************************************************)
(* The std::set of timers of muzi::TimerQueue (muzi/net/timer_queue.h,     *)
(* CompareEntry) and the two functions that rely on its order, GetExpired  *)
(* and Insert.  A timer is the record of its expiration and its address.   *)
(***************************************************************************)
EXTENDS Timestamp, Sequences, SequencesExt

(* CompareEntry of two timers, of a timer and a time, of a time and a timer. *)
CompareEntry(l, r) == Earlier(l.exp, r.exp) \/ (l.exp = r.exp /\ l.ptr < r.ptr)
CompareEntryTime(l, when) == Earlier(l.exp, when)
CompareTimeEntry(when, r) == Earlier(when, r.exp)

(* The timers as the iterators of the set visit them. *)
InOrder(timers) == SetToSortSeq(timers, CompareEntry)

(* upper_bound(now): the place of the first timer that is after now. *)
UpperBound(order, now) ==
    LET after == {i \in 1..Len(order) : CompareTimeEntry(now, order[i])}
    IN IF after = {} THEN Len(order) + 1 ELSE Min(after)

(* expired_timers_ and timers_ after GetExpired(now). *)
GetExpired(timers, now) ==
    LET order == InOrder(timers)
        end == UpperBound(order, now)
    IN [expired |-> SubSeq(order, 1, end - 1),
        timers |-> ToSet(SubSeq(order, end, Len(order)))]

(* timers_ after Insert(timer), and what it returns. *)
Insert(timers, timer) ==
    [timers |-> timers \cup {timer},
     earliest |-> timers = {} \/ Earlier(timer.exp, InOrder(timers)[1].exp)]
=============================================================================
