----------------------------- MODULE TimerQueue -----------------------------
(***************************************************************************)
(* muzi::TimerQueue (muzi/net/timer_queue.{h,cc}, timer.{h,cc}): the       *)
(* timers of one EventLoop, kept in a set ordered by expiration and served *)
(* by one timerfd.                                                         *)
(*                                                                         *)
(* The loop thread goes round poll - handlers - functors as in EventLoop.  *)
(* Its user code (the handlers of other channels, functors, and the timer  *)
(* callbacks themselves) may add and cancel timers at once; other threads  *)
(* do so through the functor queue of the loop.                            *)
(*                                                                         *)
(* Time is a number of ticks that stops at the horizon MaxTime, where      *)
(* every timer is due; a tick is the shortest delay the timerfd is given   *)
(* (10us).  The wall clock of Timestamp() and the monotonic clock of the   *)
(* timerfd are taken to advance together.                                  *)
(***************************************************************************)
EXTENDS Naturals, Sequences

CONSTANTS Ids,          \* TimerIds; each AddTimer takes a fresh one
          None,         \* no timer
          MaxTime,      \* the horizon
          Whens,        \* the expirations that callers ask for
          Intervals,    \* the intervals that callers ask for; 0 for one shot
          MaxQueue      \* bound: functors that wait in the loop's queue

ASSUME TimerAssumption ==
    /\ None \notin Ids
    /\ MaxTime \in Nat \ {0}
    /\ Whens \subseteq 1..MaxTime
    /\ Intervals \subseteq Nat
    /\ MaxQueue \in Nat

Off == 0                \* the timerfd is not armed

VARIABLES
    now,                \* the clock
    fdAt,               \* when the timerfd expires (or expired, unread), or Off
    created,            \* the TimerIds handed out
    exp, interval,      \* Timer::expiration_ and Timer::interval_
    timers,             \* timers_
    active,             \* the keys of active_timers_
    expired,            \* expired_timers_
    toRun,              \* those of expired_timers_ the loop of HandleRead has not reached
    running,            \* the timer whose callback is running
    canceling,          \* canceling_timers_
    executing,          \* is_executing_timers_
    readAt,             \* "now" in HandleRead
    timerActive,        \* timer_channel_ is still to be handled in active_channels_
    lpc,                \* where the loop thread is
    queue,              \* functors_ of the loop: AddTimerInLoop and CancelTimerInLoop
    batch,              \* cur_functors of ExecuteFunctors
    cancelled,          \* history: timers that CancelTimerInLoop met in the queue
    askedInLoop,        \* history: timers that the loop thread called Cancel() for
    fired               \* history: timers whose callback has started

fdVars     == <<fdAt>>
timerVars  == <<exp, interval, created>>
setVars    == <<timers, active, canceling>>
batchVars  == <<expired, toRun, running, executing, readAt>>
loopVars   == <<timerActive, lpc>>
queueVars  == <<queue, batch>>
history    == <<cancelled, askedInLoop, fired>>
vars == <<now, fdVars, timerVars, setVars, batchVars, loopVars, queueVars, history>>

Functor == [op : {"add", "cancel"}, id : Ids]

TypeOK ==
    /\ now \in 1..MaxTime
    /\ fdAt \in 0..MaxTime
    /\ created \in SUBSET Ids
    /\ exp \in [Ids -> 0..MaxTime]
    /\ interval \in [Ids -> Nat]
    /\ timers \in SUBSET Ids
    /\ active \in SUBSET Ids
    /\ expired \in SUBSET Ids
    /\ toRun \in SUBSET Ids
    /\ running \in Ids \cup {None}
    /\ canceling \in SUBSET Ids
    /\ executing \in BOOLEAN
    /\ readAt \in 0..MaxTime
    /\ timerActive \in BOOLEAN
    /\ lpc \in {"poll", "handle", "callbacks", "functors"}
    /\ queue \in Seq(Functor)
    /\ batch \in Seq(Functor)
    /\ cancelled \in SUBSET Ids
    /\ askedInLoop \in SUBSET Ids
    /\ fired \in SUBSET Ids

Init ==
    /\ now = 1
    /\ fdAt = Off
    /\ created = {}
    /\ exp = [i \in Ids |-> 0]
    /\ interval = [i \in Ids |-> 0]
    /\ timers = {} /\ active = {} /\ expired = {} /\ toRun = {} /\ canceling = {}
    /\ running = None
    /\ executing = FALSE
    /\ readAt = 0
    /\ timerActive = FALSE
    /\ lpc = "poll"
    /\ queue = <<>> /\ batch = <<>>
    /\ cancelled = {} /\ askedInLoop = {} /\ fired = {}

-----------------------------------------------------------------------------
(* The clock and the timerfd. *)

Cap(t) == IF t < MaxTime THEN t ELSE MaxTime

FdReadable == fdAt # Off /\ fdAt <= now

(* ResetTimerFd: arm it for e, or for the shortest delay if e has passed. *)
ResetTimerFd(e) == Cap(IF e > now THEN e ELSE now + 1)

Tick ==
    /\ now < MaxTime
    /\ now' = now + 1
    /\ UNCHANGED <<fdVars, timerVars, setVars, batchVars, loopVars, queueVars, history>>

-----------------------------------------------------------------------------
(* Adding and cancelling, in the loop thread. *)

(* Mutant: the timerfd is armed only for the first timer of an empty queue. *)
AddTimerFirstOnly(i, e) ==
    /\ timers' = timers \cup {i}
    /\ active' = active \cup {i}
    /\ fdAt' = IF timers = {} THEN ResetTimerFd(e) ELSE fdAt

(* AddTimerInLoop(timer) with Insert(timer): e is the timer's expiration;    *)
(* the timerfd is armed again only when the timer is before all the others.  *)
AddTimerInLoop(i, e) ==
    /\ timers' = timers \cup {i}
    /\ active' = active \cup {i}
    /\ fdAt' = IF \A j \in timers : e < exp[j] THEN ResetTimerFd(e) ELSE fdAt

(* Mutant: a timer of the batch that is running is not remembered. *)
CancelForgetsBatch(i) ==
    /\ active' = active \ {i}
    /\ timers' = timers \ {i}
    /\ canceling' = canceling
    /\ cancelled' = IF i \in active \cup expired THEN cancelled \cup {i} ELSE cancelled

CancelTimerInLoop(i) ==
    /\ IF i \in active
         THEN /\ active' = active \ {i}
              /\ timers' = timers \ {i}
              /\ canceling' = canceling
         ELSE /\ canceling' = IF executing THEN canceling \cup {i} ELSE canceling
              /\ UNCHANGED <<active, timers>>
    /\ cancelled' = IF i \in active \cup expired THEN cancelled \cup {i} ELSE cancelled

(* new Timer(cb, when, interval) *)
NewTimer(i, when, iv) ==
    /\ i \notin created
    /\ created' = created \cup {i}
    /\ exp' = [exp EXCEPT ![i] = when]
    /\ interval' = [interval EXCEPT ![i] = iv]

(* Code of the user that the loop thread is running. *)
InUserCode == \/ lpc \in {"handle", "functors"}
              \/ lpc = "callbacks" /\ running # None

(* AddTimer called in the loop thread (RunAt, RunAfter, RunEvery). *)
AddTimerOwn(i, when, iv) ==
    /\ InUserCode
    /\ NewTimer(i, when, iv)
    /\ AddTimerInLoop(i, when)
    /\ UNCHANGED <<now, canceling, batchVars, loopVars, queueVars, history>>

(* Cancel called in the loop thread. *)
CancelOwn(i) ==
    /\ InUserCode
    /\ i \in created
    /\ CancelTimerInLoop(i)
    /\ askedInLoop' = askedInLoop \cup {i}
    /\ UNCHANGED <<now, fdVars, timerVars, batchVars, loopVars, queueVars, fired>>

(* AddTimer and Cancel called by another thread: RunInLoop queues them. *)
AddTimer(i, when, iv) ==
    /\ Len(queue) < MaxQueue
    /\ NewTimer(i, when, iv)
    /\ queue' = Append(queue, [op |-> "add", id |-> i])
    /\ UNCHANGED <<now, fdVars, setVars, batchVars, loopVars, batch, history>>

Cancel(i) ==
    /\ Len(queue) < MaxQueue
    /\ i \in created
    /\ queue' = Append(queue, [op |-> "cancel", id |-> i])
    /\ UNCHANGED <<now, fdVars, timerVars, setVars, batchVars, loopVars, batch, history>>

-----------------------------------------------------------------------------
(* HandleRead. *)

Due == {i \in timers : exp[i] <= now}

(* From the entry to the loop over expired_timers_: read the timerfd (which  *)
(* gives nothing if it was armed again after the poll), then GetExpired.     *)
HandleReadBegin ==
    /\ lpc = "handle"
    /\ timerActive
    /\ timerActive' = FALSE
    /\ readAt' = now
    /\ fdAt' = IF FdReadable THEN Off ELSE fdAt
    /\ expired' = Due
    /\ toRun' = Due
    /\ timers' = timers \ Due
    /\ active' = active \ Due
    /\ executing' = TRUE
    /\ lpc' = "callbacks"
    /\ UNCHANGED <<now, timerVars, canceling, running, queueVars, history>>

(* timer->Run(), in the order of expirations; timers that expire together    *)
(* run in the order of their addresses, which is arbitrary.                  *)
RunTimer(i) ==
    /\ lpc = "callbacks"
    /\ running = None
    /\ i \in toRun
    /\ \A j \in toRun : exp[i] <= exp[j]
    /\ running' = i
    /\ toRun' = toRun \ {i}
    /\ fired' = fired \cup {i}
    /\ UNCHANGED <<now, fdVars, timerVars, setVars, expired, executing, readAt,
                   loopVars, queueVars, cancelled, askedInLoop>>

TimerReturns ==
    /\ running # None
    /\ running' = None
    /\ UNCHANGED <<now, fdVars, timerVars, setVars, expired, toRun, executing, readAt,
                   loopVars, queueVars, history>>

(* The timers of the batch that repeat and were not cancelled during it. *)
Again == {i \in expired : interval[i] > 0 /\ i \notin canceling}

(* Timer::Restart(now) *)
Restarted == [i \in Ids |-> IF i \in Again THEN Cap(readAt + interval[i]) ELSE exp[i]]

(* Mutant: the timerfd is not armed again. *)
HandleReadEndUnarmed ==
    /\ lpc = "callbacks"
    /\ running = None
    /\ toRun = {}
    /\ executing' = FALSE
    /\ exp' = Restarted
    /\ timers' = timers \cup Again
    /\ active' = active \cup Again
    /\ expired' = {}
    /\ canceling' = {}
    /\ lpc' = "handle"
    /\ UNCHANGED <<now, fdVars, interval, created, toRun, running, readAt, timerActive,
                   queueVars, history>>

(* The end of HandleRead: ResetTimer(now). *)
HandleReadEnd ==
    /\ lpc = "callbacks"
    /\ running = None
    /\ toRun = {}
    /\ executing' = FALSE
    /\ exp' = Restarted
    /\ timers' = timers \cup Again
    /\ active' = active \cup Again
    /\ expired' = {}
    /\ canceling' = {}
    /\ \/ timers \cup Again = {} /\ fdAt' = fdAt
       \/ \E first \in timers \cup Again :          \* *timers_.begin()
            /\ \A j \in timers \cup Again : Restarted[first] <= Restarted[j]
            /\ fdAt' = ResetTimerFd(Restarted[first])
    /\ lpc' = "handle"
    /\ UNCHANGED <<now, interval, created, toRun, running, readAt, timerActive,
                   queueVars, history>>

-----------------------------------------------------------------------------
(* The loop around it: see EventLoop. *)

Poll ==
    /\ lpc = "poll"
    /\ timerActive' = FdReadable
    /\ lpc' = "handle"
    /\ UNCHANGED <<now, fdVars, timerVars, setVars, batchVars, queueVars, history>>

(* Poll returns for the timerfd or for functors that other threads queued ... *)
PollReady == (FdReadable \/ queue # <<>>) /\ Poll

(* ... or for other channels. *)
PollOther == ~FdReadable /\ queue = <<>> /\ Poll

SwapFunctors ==
    /\ lpc = "handle"
    /\ ~timerActive
    /\ batch' = queue
    /\ queue' = <<>>
    /\ lpc' = "functors"
    /\ UNCHANGED <<now, fdVars, timerVars, setVars, batchVars, timerActive, history>>

RunAdd ==
    /\ lpc = "functors"
    /\ batch # <<>>
    /\ Head(batch).op = "add"
    /\ AddTimerInLoop(Head(batch).id, exp[Head(batch).id])
    /\ batch' = Tail(batch)
    /\ UNCHANGED <<now, timerVars, canceling, batchVars, loopVars, queue, history>>

RunCancel ==
    /\ lpc = "functors"
    /\ batch # <<>>
    /\ Head(batch).op = "cancel"
    /\ CancelTimerInLoop(Head(batch).id)
    /\ batch' = Tail(batch)
    /\ UNCHANGED <<now, fdVars, timerVars, batchVars, loopVars, queue, askedInLoop, fired>>

FunctorsDone ==
    /\ lpc = "functors"
    /\ batch = <<>>
    /\ lpc' = "poll"
    /\ UNCHANGED <<now, fdVars, timerVars, setVars, batchVars, timerActive, queueVars,
                   history>>

-----------------------------------------------------------------------------
LoopStep == \/ PollReady \/ HandleReadBegin \/ TimerReturns \/ HandleReadEnd
            \/ SwapFunctors \/ RunAdd \/ RunCancel \/ FunctorsDone
            \/ \E i \in Ids : RunTimer(i)

UserStep == \E i \in Ids :
               \/ CancelOwn(i)
               \/ Cancel(i)
               \/ \E when \in Whens, iv \in Intervals :
                     AddTimerOwn(i, when, iv) \/ AddTimer(i, when, iv)

Next == Tick \/ LoopStep \/ PollOther \/ UserStep

Spec == Init /\ [][Next]_vars

(* Time passes and the loop thread keeps running; other channels may stay    *)
(* silent.                                                                   *)
FairSpec == Spec /\ WF_vars(Tick) /\ WF_vars(LoopStep)

-----------------------------------------------------------------------------
(* Properties. *)

(* The assertions of timer_queue.cc: timers_ and active_timers_ hold the     *)
(* same timers, and HandleRead leaves expired_timers_ and canceling_timers_  *)
(* empty.                                                                    *)
SetsAgree ==
    /\ timers = active
    /\ lpc # "callbacks" => expired = {} /\ canceling = {}

(* Outside HandleRead, while there are timers the timerfd is armed, for the  *)
(* earliest of them or for the shortest delay from now: no timer is missed,  *)
(* whatever is added and cancelled in whatever order (AddTimerInLoop re-arms *)
(* only for a new earliest timer, CancelTimerInLoop never does).             *)
FdArmed ==
    lpc # "callbacks" =>
        \A i \in timers : fdAt # Off /\ (fdAt <= exp[i] \/ fdAt <= now + 1)

(* A timer that CancelTimerInLoop found, waiting or in the batch that is     *)
(* running, is never put back: not by ResetTimer, not by anybody.            *)
CancelledStaysOut == cancelled \cap timers = {}

(* A callback runs only when its timer is due, also when the clock has moved *)
(* on and timers have been restarted since.                                  *)
NeverEarly == running # None => exp[running] <= readAt /\ readAt <= now

(* The callback of a one-shot timer never starts a second time. *)
OneShotOnce ==
    [][\A i \in Ids : RunTimer(i) /\ interval[i] = 0 => i \notin fired]_vars

(* Every timer in the queue is run or cancelled. *)
TimersRun == \A i \in Ids : i \in timers ~> (running = i \/ i \in cancelled)

(* timer_queue.h:30: Cancel is "an uniform interface to cancel timers in     *)
(* loop thread or not": after the loop thread's Cancel(i), i is not (or no   *)
(* longer, if it was in the running batch) put in the queue.                 *)
LoopCancelWorks == askedInLoop \cap timers = {}
=============================================================================
