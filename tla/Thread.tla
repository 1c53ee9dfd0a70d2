-------------------------------- MODULE Thread --------------------------------
(***************************************************************************)
(* muzi::Thread (muzi/base/thread.{h,cc}), its CountdownLatch              *)
(* (countdown_latch.{h,cc}), and the MutexLock and Condition under it      *)
(* (mutex.h, condition.h): Start makes a thread and waits on latch_ until  *)
(* the thread has stored its tid_ and counted down.                        *)
(*                                                                         *)
(* Thread object t is used by its "starter" and its "runner".  The mutex   *)
(* is latch_.mutex_; pthread_cond_wait releases it and sleeps in one step, *)
(* and may return though nobody notified.                                  *)
(***************************************************************************)
EXTENDS Naturals

CONSTANT N              \* the number of Threads

ASSUME ThreadAssumption == N \in Nat \ {0}

Threads == 1..N
Users == {"starter", "runner"}

VARIABLES
    at,                 \* where the two users of a Thread are
    started,            \* started_
    tid,                \* tid_ is stored
    mutex,              \* who has locked mutex_ of latch_, or "none"
    holder,             \* holder_ of that MutexLock: a user, or "none"
    count               \* count_ of latch_

latchVars == <<mutex, holder, count>>
startVars == <<at, started, tid, latchVars>>

StarterPlaces == {"idle", "failed", "lock", "assign", "in", "guard", "wait", "asleep",
                  "awake", "unassign", "unlock", "out"}
RunnerPlaces == {"off", "tid", "lock", "assign", "in", "unassign", "unlock", "out"}

StartTypeOK ==
    /\ at \in [Threads -> [starter : StarterPlaces, runner : RunnerPlaces]]
    /\ started \in [Threads -> BOOLEAN] /\ tid \in [Threads -> BOOLEAN]
    /\ mutex \in [Threads -> Users \cup {"none"}]
    /\ holder \in [Threads -> Users \cup {"none"}]
    /\ count \in [Threads -> {0, 1}]

StartInit ==
    /\ at = [t \in Threads |-> [starter |-> "idle", runner |-> "off"]]
    /\ started = [t \in Threads |-> FALSE] /\ tid = [t \in Threads |-> FALSE]
    /\ mutex = [t \in Threads |-> "none"] /\ holder = [t \in Threads |-> "none"]
    /\ count = [t \in Threads |-> 1]

Go(t, u, from, to) == at[t][u] = from /\ at' = [at EXCEPT ![t][u] = to]

-----------------------------------------------------------------------------
(* MutexLock, for either user. *)

MutexLocks(t, u) ==
    /\ mutex[t] = "none"
    /\ Go(t, u, "lock", "assign")
    /\ mutex' = [mutex EXCEPT ![t] = u]
    /\ UNCHANGED <<started, tid, holder, count>>

AssignHolder(t, u) ==
    /\ Go(t, u, "assign", "in")
    /\ holder' = [holder EXCEPT ![t] = u]
    /\ UNCHANGED <<started, tid, mutex, count>>

UnassignHolder(t, u) ==
    /\ Go(t, u, "unassign", "unlock")
    /\ holder' = [holder EXCEPT ![t] = "none"]
    /\ UNCHANGED <<started, tid, mutex, count>>

MutexUnlocks(t, u) ==
    /\ Go(t, u, "unlock", "out")
    /\ mutex' = [mutex EXCEPT ![t] = "none"]
    /\ UNCHANGED <<started, tid, holder, count>>

-----------------------------------------------------------------------------
(* RunThread, up to func_. *)

StoreTid(t) ==
    /\ Go(t, "runner", "tid", "lock")
    /\ tid' = [tid EXCEPT ![t] = TRUE]
    /\ UNCHANGED <<started, latchVars>>

(* Mutant: nobody is notified. *)
CountDownSilently(t) ==
    /\ Go(t, "runner", "in", "unassign")
    /\ count' = [count EXCEPT ![t] = @ - 1]
    /\ UNCHANGED <<started, tid, mutex, holder>>

(* CountDown: NotifyAll when count_ is 0. *)
CountDown(t) ==
    /\ at[t].runner = "in"
    /\ count' = [count EXCEPT ![t] = @ - 1]
    /\ at' = [at EXCEPT ![t] = [starter |-> IF @.starter = "asleep" /\ count[t] = 1
                                              THEN "awake" ELSE @.starter,
                                runner |-> "unassign"]]
    /\ UNCHANGED <<started, tid, mutex, holder>>

-----------------------------------------------------------------------------
(* Thread::Start. *)

(* pthread_create makes the thread. *)
Start(t) ==
    /\ at[t] = [starter |-> "idle", runner |-> "off"]
    /\ started' = [started EXCEPT ![t] = TRUE]
    /\ at' = [at EXCEPT ![t] = [starter |-> "lock", runner |-> "tid"]]
    /\ UNCHANGED <<tid, latchVars>>

(* pthread_create fails: started_ is reset, and Start returns. *)
StartFails(t) ==
    /\ Go(t, "starter", "idle", "failed")
    /\ UNCHANGED <<started, tid, latchVars>>

(* CountdownLatch::Wait: the test of count_. *)
WaitTests(t) ==
    /\ Go(t, "starter", "in", IF count[t] > 0 THEN "guard" ELSE "unassign")
    /\ UNCHANGED <<started, tid, latchVars>>

(* Condition::Wait: the HolderGuard, and pthread_cond_wait. *)
WaitGuards(t) ==
    /\ Go(t, "starter", "guard", "wait")
    /\ holder' = [holder EXCEPT ![t] = "none"]
    /\ UNCHANGED <<started, tid, mutex, count>>

WaitSleeps(t) ==
    /\ Go(t, "starter", "wait", "asleep")
    /\ mutex' = [mutex EXCEPT ![t] = "none"]
    /\ UNCHANGED <<started, tid, holder, count>>

WakesSpuriously(t) == Go(t, "starter", "asleep", "awake") /\ UNCHANGED <<started, tid, latchVars>>

(* Mutant: the wakeup is taken for the count. *)
WaitReturnsOnce(t) ==
    /\ mutex[t] = "none"
    /\ Go(t, "starter", "awake", "unassign")
    /\ mutex' = [mutex EXCEPT ![t] = "starter"]
    /\ UNCHANGED <<started, tid, holder, count>>

(* pthread_cond_wait returns with the mutex, and ~HolderGuard assigns the    *)
(* holder.                                                                   *)
WaitReturns(t) ==
    /\ mutex[t] = "none"
    /\ Go(t, "starter", "awake", "assign")
    /\ mutex' = [mutex EXCEPT ![t] = "starter"]
    /\ UNCHANGED <<started, tid, holder, count>>

StarterStep(t) ==
    \/ MutexLocks(t, "starter") \/ AssignHolder(t, "starter") \/ UnassignHolder(t, "starter")
    \/ MutexUnlocks(t, "starter")
    \/ WaitTests(t) \/ WaitGuards(t) \/ WaitSleeps(t) \/ WaitReturns(t)

RunnerStep(t) ==
    \/ StoreTid(t) \/ CountDown(t)
    \/ MutexLocks(t, "runner") \/ AssignHolder(t, "runner") \/ UnassignHolder(t, "runner")
    \/ MutexUnlocks(t, "runner")

StartNext ==
    \E t \in Threads : \/ Start(t) \/ StartFails(t) \/ StarterStep(t) \/ WakesSpuriously(t)
                      \/ RunnerStep(t)

StartSpec == StartInit /\ [][StartNext]_startVars

-----------------------------------------------------------------------------
(* Properties. *)

(* holder_ is right about mutex_: a thread that is named by it has locked    *)
(* the mutex, and IsLockedByThisThread holds wherever the lock protects      *)
(* something (mutex.h:33), also after a wait.                                *)
HolderLocked ==
    \A t \in Threads : /\ holder[t] # "none" => mutex[t] = holder[t]
                       /\ \A u \in Users : at[t][u] = "in" => holder[t] = u

(* When Start has returned, tid_ is stored, and the new thread is done with  *)
(* latch_ and tid_: the Thread may be destroyed at once.                     *)
StartedForGood ==
    \A t \in Threads :
        at[t].starter = "out" => started[t] /\ tid[t] /\ at[t].runner = "out"

(* Start returns, whether the new thread counts down before the wait, in the *)
(* middle of it, or after a wakeup that nobody caused.                       *)
StartReturns == \A t \in Threads : at[t].starter = "lock" ~> at[t].starter = "out"
=============================================================================
