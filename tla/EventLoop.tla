------------------------------ MODULE EventLoop ------------------------------
(***************************************************************************)
(* muzi::EventLoop (muzi/net/event_loop.{h,cc}): one thread that runs      *)
(* Loop(), and other threads that hand it functors with QueueInLoop,       *)
(* RunInLoop and RunAndWait, or stop it with Quit.                         *)
(*                                                                         *)
(* The functors themselves, and the handlers of the other channels, are    *)
(* arbitrary user code run by the loop thread; they too may call           *)
(* QueueInLoop and Quit.  RunInLoop called in the loop thread runs its     *)
(* argument at once and so is part of that user code; called elsewhere it  *)
(* is QueueInLoop.  The eventfd counter is abstracted to "readable".       *)
(***************************************************************************)
EXTENDS Naturals, Sequences, Functions

CONSTANTS Callers,      \* the threads other than the loop thread
          Tasks,        \* the functors; each is queued at most once
          None          \* no thread, no functor

ASSUME NoneAssumption == None \notin Callers /\ None \notin Tasks

VARIABLES
    looping,            \* looping_: written by the loop thread without lock_
    quit,               \* quit_: atomic
    functors,           \* functors_: guarded by lock_
    curFunctors,        \* cur_functors of ExecuteFunctors; its head is running
    callingFunctors,    \* calling_functors_: only used by the loop thread
    wakeupFd,           \* the eventfd is readable
    wakeupActive,       \* wakeup_channel_ is still to be handled in active_channels_
    lock,               \* the holder of lock_, when it is held across steps
    condWaiters,        \* the threads blocked in cond_.Wait()
    lpc,                \* where the loop thread is
    pc,                 \* where each other thread is
    waits,              \* the functor whose latch a RunAndWait is waiting for
    early,              \* history: functors queued by the loop thread before Loop()
    pushed,             \* history: the functors queued, in order
    ran,                \* history: the functors that finished, in order
    quitCalled,         \* history: another thread has called Quit()
    quitReturned        \* history: the threads whose Quit() waited and returned

loopVars   == <<looping, curFunctors, callingFunctors, wakeupActive, lpc, ran>>
quitVars   == <<lock, condWaiters, quitCalled, quitReturned>>
vars == <<looping, quit, functors, curFunctors, callingFunctors, wakeupFd,
          wakeupActive, lock, condWaiters, lpc, pc, waits, early, pushed, ran,
          quitCalled, quitReturned>>

LoopPositions == {"created", "check", "poll", "handle", "run", "stopping",
                  "notify", "done"}
QuitPositions == {"q_cas", "q_wake", "q_lock", "q_test", "q_wait", "q_blocked"}
CallerPositions == {"idle", "wake", "latch"} \cup QuitPositions

TypeOK ==
    /\ looping \in BOOLEAN
    /\ quit \in BOOLEAN
    /\ functors \in Seq(Tasks)
    /\ curFunctors \in Seq(Tasks)
    /\ callingFunctors \in BOOLEAN
    /\ wakeupFd \in BOOLEAN
    /\ wakeupActive \in BOOLEAN
    /\ lock \in Callers \cup {None}
    /\ condWaiters \in SUBSET Callers
    /\ lpc \in LoopPositions
    /\ pc \in [Callers -> CallerPositions]
    /\ waits \in [Callers -> Tasks \cup {None}]
    /\ early \in SUBSET Tasks
    /\ pushed \in Seq(Tasks)
    /\ ran \in Seq(Tasks)
    /\ quitCalled \in BOOLEAN
    /\ quitReturned \in SUBSET Callers

(* The constructor. *)
Init ==
    /\ looping = FALSE
    /\ quit = FALSE
    /\ functors = <<>>
    /\ curFunctors = <<>>
    /\ callingFunctors = FALSE
    /\ wakeupFd = FALSE
    /\ wakeupActive = FALSE
    /\ lock = None
    /\ condWaiters = {}
    /\ lpc = "created"
    /\ pc = [c \in Callers |-> "idle"]
    /\ waits = [c \in Callers |-> None]
    /\ early = {}
    /\ pushed = <<>>
    /\ ran = <<>>
    /\ quitCalled = FALSE
    /\ quitReturned = {}

-----------------------------------------------------------------------------
(* QueueInLoop. *)

(* The critical section: functors_.push_back(cb) under lock_. *)
Push(t) ==
    /\ lock = None
    /\ t \notin Range(pushed)
    /\ functors' = Append(functors, t)
    /\ pushed' = Append(pushed, t)

(* Mutant: "if (!IsInLoopThread())" without "|| calling_functors_". *)
QueueInLoopOwnSilent(t) ==
    /\ Push(t)
    /\ early' = IF lpc = "created" THEN early \cup {t} ELSE early
    /\ UNCHANGED <<loopVars, quitVars, quit, wakeupFd, pc, waits>>

(* QueueInLoop called in the loop thread, by an init callback before Loop(), *)
(* by the handler of a channel or by a functor: the eventfd is written only  *)
(* when calling_functors_ is set.                                            *)
QueueInLoopOwn(t) ==
    /\ Push(t)
    /\ wakeupFd' = (wakeupFd \/ callingFunctors)
    /\ early' = IF lpc = "created" THEN early \cup {t} ELSE early
    /\ UNCHANGED <<loopVars, quitVars, quit, pc, waits>>

(* QueueInLoop (or RunInLoop) called by another thread up to its WakeUp(). *)
QueueInLoop(c, t) ==
    /\ pc[c] = "idle"
    /\ Push(t)
    /\ pc' = [pc EXCEPT ![c] = "wake"]
    /\ UNCHANGED <<loopVars, quitVars, quit, wakeupFd, waits, early>>

(* RunAndWait called by another thread: the same, and then latch.Wait(). *)
RunAndWait(c, t) ==
    /\ pc[c] = "idle"
    /\ Push(t)
    /\ pc' = [pc EXCEPT ![c] = "wake"]
    /\ waits' = [waits EXCEPT ![c] = t]
    /\ UNCHANGED <<loopVars, quitVars, quit, wakeupFd, early>>

(* WakeUp() at the end of QueueInLoop. *)
WakeUp(c) ==
    /\ pc[c] = "wake"
    /\ wakeupFd' = TRUE
    /\ pc' = [pc EXCEPT ![c] = IF waits[c] = None THEN "idle" ELSE "latch"]
    /\ UNCHANGED <<loopVars, quitVars, quit, functors, waits, early, pushed>>

(* latch.Wait() returns: RunAndNotify has counted down after its functor. *)
LatchWait(c) ==
    /\ pc[c] = "latch"
    /\ waits[c] \in Range(ran)
    /\ pc' = [pc EXCEPT ![c] = "idle"]
    /\ waits' = [waits EXCEPT ![c] = None]
    /\ UNCHANGED <<loopVars, quitVars, quit, functors, wakeupFd, early, pushed>>

-----------------------------------------------------------------------------
(* Quit. *)

(* The user code that the loop thread is running. *)
InUserCode == lpc = "handle" \/ (lpc = "run" /\ curFunctors # <<>>)

(* Quit() called in the loop thread. *)
QuitOwn ==
    /\ InUserCode
    /\ quit' = TRUE
    /\ UNCHANGED <<loopVars, quitVars, functors, wakeupFd, pc, waits, early, pushed>>

(* Quit() called by another thread: "if (!looping_) return;". *)
QuitCheck(c) ==
    /\ pc[c] = "idle"
    /\ quitCalled' = TRUE
    /\ pc' = [pc EXCEPT ![c] = IF looping THEN "q_cas" ELSE "idle"]
    /\ UNCHANGED <<loopVars, lock, condWaiters, quitReturned, quit, functors,
                   wakeupFd, waits, early, pushed>>

(* quit_.compare_exchange_strong: only the first to set it goes on. *)
QuitCas(c) ==
    /\ pc[c] = "q_cas"
    /\ quit' = TRUE
    /\ pc' = [pc EXCEPT ![c] = IF quit THEN "idle" ELSE "q_wake"]
    /\ UNCHANGED <<loopVars, quitVars, functors, wakeupFd, waits, early, pushed>>

QuitWakeUp(c) ==
    /\ pc[c] = "q_wake"
    /\ wakeupFd' = TRUE
    /\ pc' = [pc EXCEPT ![c] = "q_lock"]
    /\ UNCHANGED <<loopVars, quitVars, quit, functors, waits, early, pushed>>

(* MutexLockGuard guard(lock_), or the end of a cond_.Wait(). *)
QuitLock(c) ==
    /\ \/ pc[c] = "q_lock"
       \/ pc[c] = "q_blocked" /\ c \notin condWaiters
    /\ lock = None
    /\ lock' = c
    /\ pc' = [pc EXCEPT ![c] = "q_test"]
    /\ UNCHANGED <<loopVars, condWaiters, quitCalled, quitReturned, quit,
                   functors, wakeupFd, waits, early, pushed>>

(* Mutant: Quit() does not wait for looping_ to become false. *)
QuitTestOnce(c) ==
    /\ pc[c] = "q_test"
    /\ pc' = [pc EXCEPT ![c] = "idle"]
    /\ lock' = None
    /\ quitReturned' = quitReturned \cup {c}
    /\ UNCHANGED <<loopVars, condWaiters, quitCalled, quit, functors, wakeupFd,
                   waits, early, pushed>>

(* while (looping_): with lock_ held, but looping_ is not guarded by it. *)
QuitTest(c) ==
    /\ pc[c] = "q_test"
    /\ IF looping
         THEN /\ pc' = [pc EXCEPT ![c] = "q_wait"]
              /\ UNCHANGED <<lock, quitReturned>>
         ELSE /\ pc' = [pc EXCEPT ![c] = "idle"]
              /\ lock' = None
              /\ quitReturned' = quitReturned \cup {c}
    /\ UNCHANGED <<loopVars, condWaiters, quitCalled, quit, functors, wakeupFd,
                   waits, early, pushed>>

(* cond_.Wait(): release lock_ and block, in one step. *)
QuitWait(c) ==
    /\ pc[c] = "q_wait"
    /\ lock' = None
    /\ condWaiters' = condWaiters \cup {c}
    /\ pc' = [pc EXCEPT ![c] = "q_blocked"]
    /\ UNCHANGED <<loopVars, quitCalled, quitReturned, quit, functors, wakeupFd,
                   waits, early, pushed>>

(* pthread_cond_wait may return without a notification. *)
SpuriousWakeup(c) ==
    /\ c \in condWaiters
    /\ condWaiters' = condWaiters \ {c}
    /\ UNCHANGED <<loopVars, lock, quitCalled, quitReturned, quit, functors,
                   wakeupFd, pc, waits, early, pushed>>

-----------------------------------------------------------------------------
(* Loop, in the loop thread. *)

(* What the steps of Loop never change. *)
loopFrame == <<quit, lock, waits, pc, early, pushed, quitCalled, quitReturned>>

LoopEnter ==
    /\ lpc = "created"
    /\ looping' = TRUE
    /\ lpc' = "check"
    /\ UNCHANGED <<loopFrame, functors, curFunctors, callingFunctors, wakeupFd,
                   wakeupActive, condWaiters, ran>>

(* while (!quit_) *)
LoopCheck ==
    /\ lpc = "check"
    /\ lpc' = IF quit THEN "stopping" ELSE "poll"
    /\ UNCHANGED <<loopFrame, looping, functors, curFunctors, callingFunctors,
                   wakeupFd, wakeupActive, condWaiters, ran>>

(* poller_->Poll(...) returns with the channels that are ready now. *)
Poll ==
    /\ lpc = "poll"
    /\ wakeupActive' = wakeupFd
    /\ lpc' = "handle"
    /\ UNCHANGED <<loopFrame, looping, functors, curFunctors, callingFunctors,
                   wakeupFd, condWaiters, ran>>

(* It returns because the eventfd is readable ... *)
PollWakeup == wakeupFd /\ Poll

(* ... or for another channel, or after kPollTimeMs. *)
PollOther == ~wakeupFd /\ Poll

(* eventfd_read takes every write made so far, also those after the poll. *)
HandleWakeupRead ==
    /\ lpc = "handle"
    /\ wakeupActive
    /\ wakeupFd' = FALSE
    /\ wakeupActive' = FALSE
    /\ UNCHANGED <<loopFrame, looping, functors, curFunctors, callingFunctors,
                   condWaiters, lpc, ran>>

(* ExecuteFunctors: calling_functors_ = true; swap under lock_. *)
SwapFunctors ==
    /\ lpc = "handle"
    /\ ~wakeupActive
    /\ lock = None
    /\ callingFunctors' = TRUE
    /\ curFunctors' = functors
    /\ functors' = <<>>
    /\ lpc' = "run"
    /\ UNCHANGED <<loopFrame, looping, wakeupFd, wakeupActive, condWaiters, ran>>

(* Mutant: the whole batch counts as done when its first functor returns. *)
FunctorReturnBatch ==
    /\ lpc = "run"
    /\ curFunctors # <<>>
    /\ ran' = ran \o curFunctors
    /\ curFunctors' = <<>>
    /\ UNCHANGED <<loopFrame, looping, functors, callingFunctors, wakeupFd,
                   wakeupActive, condWaiters, lpc>>

(* The functor at the head returns. *)
FunctorReturn ==
    /\ lpc = "run"
    /\ curFunctors # <<>>
    /\ ran' = Append(ran, Head(curFunctors))
    /\ curFunctors' = Tail(curFunctors)
    /\ UNCHANGED <<loopFrame, looping, functors, callingFunctors, wakeupFd,
                   wakeupActive, condWaiters, lpc>>

(* The end of ExecuteFunctors. *)
ExecuteDone ==
    /\ lpc = "run"
    /\ curFunctors = <<>>
    /\ callingFunctors' = FALSE
    /\ lpc' = "check"
    /\ UNCHANGED <<loopFrame, looping, functors, curFunctors, wakeupFd,
                   wakeupActive, condWaiters, ran>>

(* looping_ = false, without lock_ ... *)
StopLooping ==
    /\ lpc = "stopping"
    /\ looping' = FALSE
    /\ lpc' = "notify"
    /\ UNCHANGED <<loopFrame, functors, curFunctors, callingFunctors, wakeupFd,
                   wakeupActive, condWaiters, ran>>

(* ... and cond_.NotifyAll(), without lock_. *)
NotifyAll ==
    /\ lpc = "notify"
    /\ condWaiters' = {}
    /\ lpc' = "done"
    /\ UNCHANGED <<loopFrame, looping, functors, curFunctors, callingFunctors,
                   wakeupFd, wakeupActive, ran>>

-----------------------------------------------------------------------------
(* The user code of the loop thread: an init callback before Loop(), the     *)
(* handlers of the other channels, the functor that is running.              *)
UserQueue == \E t \in Tasks : (lpc = "created" \/ InUserCode) /\ QueueInLoopOwn(t)

(* The steps of Loop() that the code takes by itself. *)
LoopStep == \/ LoopEnter \/ LoopCheck \/ PollWakeup \/ HandleWakeupRead
            \/ SwapFunctors \/ FunctorReturn \/ ExecuteDone
            \/ StopLooping \/ NotifyAll

(* The steps that finish a call another thread has begun. *)
CallerStep(c) == \/ WakeUp(c) \/ LatchWait(c)
                 \/ QuitCas(c) \/ QuitWakeUp(c) \/ QuitLock(c) \/ QuitTest(c)
                 \/ QuitWait(c)

(* The calls that other threads may begin. *)
CallerCall(c) == \/ \E t \in Tasks : QueueInLoop(c, t) \/ RunAndWait(c, t)
                 \/ QuitCheck(c)

Next == \/ LoopStep
        \/ PollOther
        \/ UserQueue
        \/ QuitOwn
        \/ \E c \in Callers : CallerCall(c) \/ CallerStep(c) \/ SpuriousWakeup(c)

Spec == Init /\ [][Next]_vars

(* The loop thread and a thread inside a call keep running, and the loop     *)
(* thread is not for ever overtaken at lock_ (a thread that wakes up         *)
(* spuriously takes lock_ again and again).  Nothing is assumed of           *)
(* PollOther: other channels may stay silent, and the poll timeout of ten    *)
(* seconds is not what is meant to run a functor.                            *)
Fairness == /\ WF_vars(LoopStep)
            /\ SF_vars(SwapFunctors)
            /\ \A c \in Callers : WF_vars(CallerStep(c))

FairSpec == Spec /\ Fairness

-----------------------------------------------------------------------------
(* Properties. *)

(* A functor that is not one of those queued before Loop() is waiting. *)
FunctorWaiting == \E i \in DOMAIN functors : functors[i] \notin early

(* The loop never blocks in the poller with a functor queued unless a write  *)
(* of the eventfd has been made, or is about to be made by the thread that   *)
(* queued it (QueueInLoop's "!IsInLoopThread() || calling_functors_").       *)
(* Functors that the loop thread queued before Loop() are the exception.     *)
NoSleepOnFunctors ==
    lpc = "poll" /\ FunctorWaiting => wakeupFd \/ \E c \in Callers : pc[c] = "wake"

(* The loop never blocks in the poller after quit_ has been set unless the   *)
(* thread in Quit() has written the eventfd or is about to.                  *)
NoSleepThroughQuit ==
    lpc = "poll" /\ quit => wakeupFd \/ \E c \in Callers : pc[c] = "q_wake"

(* When Quit() has returned to the thread it made wait, Loop() is past its   *)
(* last iteration: no functor is running or will run again.                  *)
QuitReturnsStopped == quitReturned # {} => lpc \in {"notify", "done"}

(* Every functor queued is in exactly one of three places, and they keep the *)
(* order in which they were queued: already run, in the batch of             *)
(* ExecuteFunctors, or in functors_.                                         *)
FunctorsInOrder == pushed = ran \o curFunctors \o functors

(* EventLoop implements SerialExecutor. *)
Executor == INSTANCE SerialExecutor WITH submitted <- pushed, completed <- ran
ImplementsExecutor == Executor!Spec

(* A functor queued by another thread, or by the user code of the running    *)
(* loop, runs without the help of another channel or of the poll timeout,    *)
(* unless somebody quits the loop.                                           *)
FunctorsRun ==
    \A t \in Tasks : (t \in Range(pushed) \ early)
                        ~> (t \in Range(ran) \/ quit)

(* RunAndWait returns unless somebody quits the loop.  (Once quit_ is set a  *)
(* functor may stay in functors_ for ever, and its RunAndWait with it.)      *)
RunAndWaitReturns ==
    \A c \in Callers : pc[c] = "latch" ~> (pc[c] = "idle" \/ quit)

(* Once quit_ is set, by whatever thread, Loop() returns. *)
QuitStopsRunningLoop == quit ~> lpc = "done"

(* test/event_loop_test1.cc: a thread calls Quit() on a loop another thread  *)
(* has created and is about to run, and joins that thread.                   *)
QuitStopsLoop == quitCalled ~> lpc = "done"

(* test/event_loop_test1.cc: main() returns from Quit() while the other      *)
(* thread is leaving Loop().                                                 *)
QuitReturns == \A c \in Callers : pc[c] \in QuitPositions ~> pc[c] = "idle"
=============================================================================
