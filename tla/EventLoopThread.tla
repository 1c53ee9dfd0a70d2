--------------------------- MODULE EventLoopThread ---------------------------
(***************************************************************************)
(* muzi::EventLoopThread (muzi/net/event_loop_thread.{h,cc}) and the       *)
(* life of an EventLoopThreadPool (event_loop_thread_pool.{h,cc}): an      *)
(* owner starts N threads, each with an EventLoop on its stack, and stops  *)
(* them.  The threads are started as Thread says; of the EventLoop only    *)
(* looping_, quit_ and Quit are kept.                                      *)
(***************************************************************************)
EXTENDS Thread

CONSTANTS PoolQuits,    \* whether ~EventLoopThreadPool quits the loops first
          SelfQuit      \* the phases of the owner in which functors quit their own loop

Phases == {"start", "quit", "stop"}

ASSUME PoolAssumption == PoolQuits \in BOOLEAN /\ SelfQuit \subseteq Phases

VARIABLES
    tpc,                \* where each thread is in ThreadFunc
    loop,               \* loop_ is set
    looping, quit,      \* looping_ and quit_ of the EventLoop
    lock,               \* lock_ is held by the owner
    cpc,                \* where the owner is
    phase,              \* what the owner does: start, quit, or stop
    i                   \* the thread it does it to

threadVars == <<tpc, loop, looping>>
ownerVars == <<cpc, phase, i, lock, quit>>
loopThreadVars == <<threadVars, ownerVars>>
vars == <<startVars, loopThreadVars>>

(* Where the EventLoop exists. *)
LoopLives(t) == tpc[t] \in {"set", "loop", "ending", "ended"}

TypeOK ==
    /\ StartTypeOK
    /\ tpc \in [Threads -> {"off", "set", "loop", "ending", "ended", "unwind", "exit"}]
    /\ loop \in [Threads -> BOOLEAN] /\ looping \in [Threads -> BOOLEAN]
    /\ \A t \in Threads : looping[t] <=> tpc[t] = "loop"
    /\ quit \in [Threads -> BOOLEAN] /\ lock \in [Threads -> BOOLEAN]
    /\ cpc \in {"begin", "starting", "check", "waiting", "quit", "looks", "sleeps", "asleep",
               "over"}
    /\ phase \in Phases /\ i \in Threads

Init ==
    /\ StartInit
    /\ tpc = [t \in Threads |-> "off"]
    /\ loop = [t \in Threads |-> FALSE] /\ looping = [t \in Threads |-> FALSE]
    /\ quit = [t \in Threads |-> FALSE] /\ lock = [t \in Threads |-> FALSE]
    /\ cpc = "begin" /\ phase = "start" /\ i = 1

-----------------------------------------------------------------------------
(* ThreadFunc. *)

(* Notify and NotifyAll of cond_: the owner goes on, if it waits for t. *)
Woken(t) == IF cpc = "waiting" /\ i = t THEN "check" ELSE cpc

ThreadSet(t) ==
    /\ at[t].runner = "out" /\ tpc[t] = "off" /\ ~lock[t]
    /\ tpc' = [tpc EXCEPT ![t] = "set"]
    /\ loop' = [loop EXCEPT ![t] = TRUE]
    /\ cpc' = Woken(t)
    /\ UNCHANGED <<startVars, looping, phase, i, lock, quit>>

(* init_cb_ is done and Loop begins. *)
LoopBegins(t) ==
    /\ tpc[t] = "set"
    /\ tpc' = [tpc EXCEPT ![t] = "loop"]
    /\ looping' = [looping EXCEPT ![t] = TRUE]
    /\ UNCHANGED <<startVars, loop, ownerVars>>

QuitsItself(t) ==
    /\ phase \in SelfQuit /\ tpc[t] = "loop" /\ ~quit[t]
    /\ quit' = [quit EXCEPT ![t] = TRUE]
    /\ UNCHANGED <<startVars, threadVars, cpc, phase, i, lock>>

LoopEnds(t) ==
    /\ tpc[t] = "loop" /\ quit[t]
    /\ tpc' = [tpc EXCEPT ![t] = "ending"]
    /\ looping' = [looping EXCEPT ![t] = FALSE]
    /\ UNCHANGED <<startVars, loop, ownerVars>>

(* NotifyAll at the end of Loop, without the lock of the EventLoop. *)
LoopNotifies(t) ==
    /\ tpc[t] = "ending"
    /\ tpc' = [tpc EXCEPT ![t] = "ended"]
    /\ cpc' = IF cpc = "asleep" /\ i = t THEN "looks" ELSE cpc
    /\ UNCHANGED <<startVars, loop, looping, phase, i, lock, quit>>

(* Mutant: loop_ is cleared without lock_. *)
ThreadClearsUnlocked(t) ==
    /\ tpc[t] = "ended"
    /\ tpc' = [tpc EXCEPT ![t] = "unwind"]
    /\ loop' = [loop EXCEPT ![t] = FALSE]
    /\ cpc' = Woken(t)
    /\ UNCHANGED <<startVars, looping, phase, i, lock, quit>>

ThreadClears(t) ==
    /\ tpc[t] = "ended" /\ ~lock[t]
    /\ tpc' = [tpc EXCEPT ![t] = "unwind"]
    /\ loop' = [loop EXCEPT ![t] = FALSE]
    /\ cpc' = Woken(t)
    /\ UNCHANGED <<startVars, looping, phase, i, lock, quit>>

(* ~EventLoop, and the thread is over. *)
ThreadExits(t) ==
    /\ tpc[t] = "unwind"
    /\ tpc' = [tpc EXCEPT ![t] = "exit"]
    /\ UNCHANGED <<startVars, loop, looping, ownerVars>>

-----------------------------------------------------------------------------
(* The owner: Start of the pool, its destructor, and the destructors of its  *)
(* EventLoopThreads.                                                         *)

(* The owner is done with thread i. *)
Done ==
    IF i < N THEN cpc' = "begin" /\ i' = i + 1 /\ UNCHANGED phase
    ELSE /\ i' = 1
         /\ phase' = IF phase = "start" /\ PoolQuits THEN "quit" ELSE "stop"
         /\ cpc' = IF phase = "stop" THEN "over" ELSE "begin"

(* StartLoop: Thread::Start is called, and returns. *)
StartLoop ==
    /\ phase = "start" /\ cpc = "begin"
    /\ Start(i) \/ StartFails(i)
    /\ cpc' = "starting"
    /\ UNCHANGED <<threadVars, phase, i, lock, quit>>

StartReturned ==
    /\ cpc = "starting" /\ at[i].starter \in {"out", "failed"}
    /\ cpc' = "check"
    /\ UNCHANGED <<startVars, threadVars, phase, i, lock, quit>>

(* StartLoop: the wait for loop_. *)
StartWait ==
    /\ phase = "start" /\ cpc = "check"
    /\ IF loop[i] THEN Done ELSE cpc' = "waiting" /\ UNCHANGED <<phase, i>>
    /\ UNCHANGED <<startVars, threadVars, lock, quit>>

(* ~EventLoopThreadPool calls Quit, without lock_. *)
PoolQuit ==
    /\ phase = "quit" /\ cpc = "begin"
    /\ cpc' = "quit"
    /\ UNCHANGED <<startVars, threadVars, phase, i, lock, quit>>

(* Stop: lock_ is taken, and Quit called when there is a loop. *)
Stop ==
    /\ phase = "stop" /\ cpc = "begin"
    /\ IF loop[i] THEN /\ cpc' = "quit" /\ lock' = [lock EXCEPT ![i] = TRUE]
                       /\ UNCHANGED <<phase, i>>
                  ELSE Done /\ UNCHANGED lock
    /\ UNCHANGED <<startVars, threadVars, quit>>

(* What follows Quit. *)
QuitReturns == IF phase = "quit" THEN Done ELSE cpc' = "check" /\ UNCHANGED <<phase, i>>

(* What a member of an EventLoop may read as: anything when it is gone. *)
Reads(t, member) == IF LoopLives(t) THEN {member[t]} ELSE BOOLEAN

(* EventLoop::Quit: nothing to do when the loop does not run yet or was quit *)
(* before.                                                                   *)
Quit ==
    /\ cpc = "quit"
    /\ \/ /\ TRUE \in Reads(i, looping) /\ FALSE \in Reads(i, quit)
          /\ quit' = [quit EXCEPT ![i] = TRUE]
          /\ cpc' = "looks" /\ UNCHANGED <<phase, i>>
       \/ /\ FALSE \in Reads(i, looping) \/ TRUE \in Reads(i, quit)
          /\ QuitReturns /\ UNCHANGED quit
    /\ UNCHANGED <<startVars, threadVars, lock>>

(* EventLoop::Quit: while (looping_) Wait, in three steps, for Loop notifies *)
(* without the lock.                                                         *)
QuitLooks ==
    /\ cpc = "looks"
    /\ \/ TRUE \in Reads(i, looping) /\ cpc' = "sleeps" /\ UNCHANGED <<phase, i>>
       \/ FALSE \in Reads(i, looping) /\ QuitReturns
    /\ UNCHANGED <<startVars, threadVars, lock, quit>>

QuitSleeps ==
    /\ cpc = "sleeps"
    /\ cpc' = "asleep"
    /\ UNCHANGED <<startVars, threadVars, phase, i, lock, quit>>

(* Mutant: Stop does not wait. *)
StopWaitNot ==
    /\ phase = "stop" /\ cpc = "check"
    /\ Done
    /\ lock' = [lock EXCEPT ![i] = FALSE]
    /\ UNCHANGED <<startVars, threadVars, quit>>

(* Stop: while (loop_ != nullptr) Wait. *)
StopWait ==
    /\ phase = "stop" /\ cpc = "check"
    /\ IF loop[i] THEN cpc' = "waiting" /\ UNCHANGED <<phase, i>> ELSE Done
    /\ lock' = [lock EXCEPT ![i] = FALSE]
    /\ UNCHANGED <<startVars, threadVars, quit>>

-----------------------------------------------------------------------------
ThreadFunc(t) == \/ ThreadSet(t) \/ LoopBegins(t) \/ LoopEnds(t) \/ LoopNotifies(t)
                 \/ ThreadClears(t) \/ ThreadExits(t)

OwnerStep == \/ StartLoop \/ StartReturned \/ StartWait \/ PoolQuit \/ Stop \/ Quit \/ QuitLooks
             \/ QuitSleeps \/ StopWait

StarterRuns(t) == StarterStep(t) /\ UNCHANGED loopThreadVars

RunnerRuns(t) == RunnerStep(t) /\ UNCHANGED loopThreadVars

StarterWakes(t) == WakesSpuriously(t) /\ UNCHANGED loopThreadVars

Next == OwnerStep \/ \E t \in Threads : \/ StarterRuns(t) \/ RunnerRuns(t) \/ StarterWakes(t)
                                       \/ ThreadFunc(t) \/ QuitsItself(t)

Spec == Init /\ [][Next]_vars

(* The owner and the threads run, and a thread gets a mutex that is unlocked *)
(* again and again.                                                          *)
FairSpec ==
    /\ Spec /\ WF_vars(OwnerStep)
    /\ \A t \in Threads : /\ WF_vars(ThreadFunc(t))
                          /\ SF_vars(StarterRuns(t)) /\ SF_vars(RunnerRuns(t))

-----------------------------------------------------------------------------
(* Properties. *)

(* Stop calls Quit on an EventLoop that exists, and it exists until Quit     *)
(* returns: lock_ keeps the thread from leaving it.  (~EventLoopThreadPool   *)
(* calls Quit without lock_, and for it this does not hold.)                 *)
QuitOnLive ==
    phase = "stop" /\ cpc \in {"quit", "looks", "sleeps", "asleep"} => LoopLives(i)

(* When an EventLoopThread was stopped its loop does not run, and the thread *)
(* does not touch lock_, cond_ or loop_ any more.                            *)
StoppedQuiet ==
    \A t \in Threads :
        phase = "stop" /\ (t < i \/ cpc = "over") => tpc[t] \in {"unwind", "exit"} /\ ~loop[t]

(* event_loop_thread.h:37, "@return A pointer to the EventLoop. Pay          *)
(* attention that the pointer may be a dangling pointer.": StartLoop         *)
(* returns, whether Notify comes before the wait or after it.                *)
StartLoopReturns == phase = "start" ~> phase # "start"

(* event_loop_thread.h:15, "When EventLoopThread is destroyed, it will quit  *)
(* the loop and wait the thread to exit": the destructor quits the loop.     *)
StopQuits == (phase = "stop") ~> (cpc = "over")

(* event_loop_thread.h:15: the thread has exited by then. *)
ThreadExited == cpc = "over" => \A t \in Threads : tpc[t] = "exit"
=============================================================================
