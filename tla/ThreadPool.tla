----------------------------- MODULE ThreadPool -----------------------------
(***************************************************************************)
(* muzi::ThreadPool (muzi/base/thread_pool.{h,cc}): worker threads, a task *)
(* queue with an optional limit, and the two conditions that go with       *)
(* lock_.  Callers call Run; the owner calls Start and Stop.               *)
(*                                                                         *)
(* running_ is read and written without lock_, so each such access is a    *)
(* step of its own, and so is each Notify made after the unlock.  A task   *)
(* runs to its end; one that throws a std::exception is only logged.       *)
(***************************************************************************)
EXTENDS Integers, Sequences, FiniteSets

CONSTANTS Workers,      \* the threads that Start may create
          Callers,      \* the threads that call Run
          MaxTasks,     \* bound: the calls of Run
          MaxQueueSize, \* max_queue_size, no limit unless positive
          MaxStarts,    \* bound: calls of Start
          Nobody        \* no thread, no task

Threads == Workers \cup Callers

(* The tasks, numbered in the order of the calls of Run. *)
Tasks == 1..MaxTasks

ASSUME PoolAssumption ==
    /\ Workers \cap Callers = {}
    /\ Nobody \notin Threads \cup Tasks
    /\ MaxTasks \in Nat
    /\ MaxQueueSize \in Int
    /\ MaxStarts \in Nat
    /\ IsFiniteSet(Workers) /\ IsFiniteSet(Callers)

VARIABLES
    running,            \* running_
    queue,              \* queue_
    holder,             \* the thread that holds lock_, or Nobody
    notEmpty, notFull,  \* the threads blocked in the Wait of each condition
    pc,                 \* where each worker and each caller is
    task,               \* the task each worker runs, each caller brings, or Nobody
    opc,                \* where the owner is
    starting,           \* the threads Start has still to create
    list,               \* thread_list_
    joining,            \* the threads Stop has still to join
    joined,             \* the threads whose joined_ is set
    starts,             \* the number of calls of Start that were not refused
    pushed, taken,      \* history: the tasks put into and taken out of queue_
    given,              \* history: the number of tasks given to Run
    failed              \* history: the assertion of Thread::Join has failed

ownerVars == <<opc, starting, list, joining, joined, starts, failed>>
vars == <<running, queue, holder, notEmpty, notFull, pc, task, ownerVars, pushed, taken, given>>

WorkerPositions == {"new", "check", "lock", "test", "block", "waiting", "woken", "alive",
                    "notify", "task", "done"}
CallerPositions == {"idle", "lock", "test", "block", "waiting", "woken", "alive", "notify"}
OwnerPositions == {"idle", "start", "notEmptyAll", "notFullAll", "join"}

TypeOK ==
    /\ running \in BOOLEAN
    /\ queue \in Seq(Tasks)
    /\ holder \in Threads \cup {Nobody}
    /\ notEmpty \in SUBSET Workers /\ notFull \in SUBSET Callers
    /\ pc \in [Threads -> WorkerPositions \cup CallerPositions]
    /\ \A w \in Workers : pc[w] \in WorkerPositions
    /\ \A c \in Callers : pc[c] \in CallerPositions
    /\ task \in [Threads -> Tasks \cup {Nobody}]
    /\ opc \in OwnerPositions
    /\ starting \in SUBSET Workers /\ list \in SUBSET Workers
    /\ joining \in SUBSET Workers /\ joined \in SUBSET Workers
    /\ starts \in 0..MaxStarts
    /\ pushed \in Seq(Tasks) /\ taken \in Seq(Tasks)
    /\ given \in 0..MaxTasks
    /\ failed \in BOOLEAN

Init ==
    /\ running = FALSE
    /\ queue = <<>>
    /\ holder = Nobody
    /\ notEmpty = {} /\ notFull = {}
    /\ pc = [t \in Threads |-> IF t \in Workers THEN "new" ELSE "idle"]
    /\ task = [t \in Threads |-> Nobody]
    /\ opc = "idle"
    /\ starting = {} /\ list = {} /\ joining = {} /\ joined = {}
    /\ starts = 0
    /\ pushed = <<>> /\ taken = <<>> /\ given = 0
    /\ failed = FALSE

-----------------------------------------------------------------------------
(* lock_ and its conditions. *)

Goto(t, from, to) == pc[t] = from /\ pc' = [pc EXCEPT ![t] = to]

(* A step of one worker or caller that leaves the tasks and the owner alone. *)
Frame == UNCHANGED <<running, ownerVars, pushed, taken, given, task, queue>>

Lock(t) ==
    /\ holder = Nobody
    /\ holder' = t
    /\ Goto(t, "lock", "test")
    /\ UNCHANGED <<notEmpty, notFull>>
    /\ Frame

(* Condition::Wait begins: the thread is blocked and lock_ is free. *)
Block(t) ==
    /\ Goto(t, "block", "waiting")
    /\ holder' = Nobody
    /\ notEmpty' = IF t \in Workers THEN notEmpty \cup {t} ELSE notEmpty
    /\ notFull' = IF t \in Callers THEN notFull \cup {t} ELSE notFull
    /\ Frame

(* Condition::Wait ends when the thread was woken and lock_ is free. *)
Relock(t) ==
    /\ Goto(t, "woken", "alive")
    /\ holder = Nobody
    /\ holder' = t
    /\ UNCHANGED <<notEmpty, notFull>>
    /\ Frame

Wake(ts) == [t \in Threads |-> IF t \in ts THEN "woken" ELSE pc[t]]

SpuriousWakeup(t) ==
    /\ t \in notEmpty \cup notFull
    /\ pc' = Wake({t})
    /\ notEmpty' = notEmpty \ {t}
    /\ notFull' = notFull \ {t}
    /\ UNCHANGED holder
    /\ Frame

(* Mutant: the notification is forgotten. *)
NotifyNobody(t, waiting, left, to) == left = waiting /\ pc' = [pc EXCEPT ![t] = to]

(* Condition::Notify by thread t, which goes on at "to": it wakes one of     *)
(* those that wait, if any does.                                             *)
Notify(t, waiting, left, to) ==
    \E woken \in IF waiting = {} THEN {{}} ELSE {{u} : u \in waiting} :
       /\ left = waiting \ woken
       /\ pc' = [Wake(woken) EXCEPT ![t] = to]

-----------------------------------------------------------------------------
(* RunThread. *)

WorkerCheck(w) ==
    /\ Goto(w, "check", IF running THEN "lock" ELSE "done")
    /\ UNCHANGED <<holder, notEmpty, notFull>>
    /\ Frame

(* queue_.empty() is tested, and the first task taken. *)
WorkerTest(w) ==
    /\ IF queue = <<>>
         THEN /\ Goto(w, "test", "block")
              /\ UNCHANGED <<queue, task, taken, holder>>
         ELSE /\ Goto(w, "test", "notify")
              /\ task' = [task EXCEPT ![w] = Head(queue)]
              /\ taken' = Append(taken, Head(queue))
              /\ queue' = Tail(queue)
              /\ holder' = Nobody
    /\ UNCHANGED <<running, notEmpty, notFull, ownerVars, pushed, given>>

(* running_ is read after Wait, with lock_ held. *)
WorkerAlive(w) ==
    /\ Goto(w, "alive", IF running THEN "test" ELSE "done")
    /\ holder' = IF running THEN w ELSE Nobody
    /\ UNCHANGED <<notEmpty, notFull>>
    /\ Frame

WorkerNotify(w) ==
    /\ pc[w] = "notify"
    /\ Notify(w, notFull, notFull', "task")
    /\ UNCHANGED <<notEmpty, holder>>
    /\ Frame

TaskReturns(w) ==
    /\ Goto(w, "task", "check")
    /\ task' = [task EXCEPT ![w] = Nobody]
    /\ UNCHANGED <<running, queue, holder, notEmpty, notFull, ownerVars, pushed, taken, given>>

-----------------------------------------------------------------------------
(* Run. *)

IsFull == MaxQueueSize > 0 /\ Len(queue) >= MaxQueueSize

Run(c, x) ==
    /\ pc[c] = "idle"
    /\ x = given + 1
    /\ given' = x
    /\ IF running
         THEN Goto(c, "idle", "lock") /\ task' = [task EXCEPT ![c] = x]
         ELSE UNCHANGED <<pc, task>>
    /\ UNCHANGED <<running, queue, holder, notEmpty, notFull, ownerVars, pushed, taken>>

RunTest(c) ==
    /\ IF IsFull
         THEN Goto(c, "test", "block") /\ UNCHANGED <<queue, task, pushed, holder>>
         ELSE /\ Goto(c, "test", "notify")
              /\ queue' = Append(queue, task[c])
              /\ pushed' = Append(pushed, task[c])
              /\ task' = [task EXCEPT ![c] = Nobody]
              /\ holder' = Nobody
    /\ UNCHANGED <<running, notEmpty, notFull, ownerVars, taken, given>>

RunAlive(c) ==
    /\ Goto(c, "alive", IF running THEN "test" ELSE "idle")
    /\ holder' = IF running THEN c ELSE Nobody
    /\ task' = IF running THEN task ELSE [task EXCEPT ![c] = Nobody]
    /\ UNCHANGED <<running, queue, notEmpty, notFull, ownerVars, pushed, taken, given>>

(* Mutant: only a queue that was empty is worth a notification. *)
RunNotifyFirst(c) ==
    /\ pc[c] = "notify"
    /\ IF Len(queue) = 1
         THEN Notify(c, notEmpty, notEmpty', "idle")
         ELSE Goto(c, "notify", "idle") /\ UNCHANGED notEmpty
    /\ UNCHANGED <<notFull, holder>>
    /\ Frame

RunNotify(c) ==
    /\ pc[c] = "notify"
    /\ Notify(c, notEmpty, notEmpty', "idle")
    /\ UNCHANGED <<notFull, holder>>
    /\ Frame

-----------------------------------------------------------------------------
(* Start and Stop. *)

poolFrame == <<queue, holder, task, pushed, taken, given>>

(* Start(|ws|) is not refused. *)
Start(ws) ==
    /\ opc = "idle"
    /\ ~running
    /\ starts < MaxStarts
    /\ ws # {} /\ ws \cap list = {}
    /\ running' = TRUE
    /\ starting' = ws
    /\ starts' = starts + 1
    /\ opc' = "start"
    /\ UNCHANGED <<pc, notEmpty, notFull, list, joining, joined, failed, poolFrame>>

(* Thread::Start returns when the new thread runs. *)
StartThread(w) ==
    /\ opc = "start"
    /\ w \in starting
    /\ Goto(w, "new", "check")
    /\ starting' = starting \ {w}
    /\ list' = list \cup {w}
    /\ opc' = IF starting' = {} THEN "idle" ELSE "start"
    /\ UNCHANGED <<running, notEmpty, notFull, joining, joined, starts, failed, poolFrame>>

Stop ==
    /\ opc = "idle"
    /\ running
    /\ running' = FALSE
    /\ opc' = "notEmptyAll"
    /\ UNCHANGED <<pc, notEmpty, notFull, starting, list, joining, joined, starts, failed,
                   poolFrame>>

StopNotEmpty ==
    /\ opc = "notEmptyAll"
    /\ pc' = Wake(notEmpty)
    /\ notEmpty' = {}
    /\ opc' = "notFullAll"
    /\ UNCHANGED <<running, notFull, starting, list, joining, joined, starts, failed, poolFrame>>

StopNotFull ==
    /\ opc = "notFullAll"
    /\ pc' = Wake(notFull)
    /\ notFull' = {}
    /\ joining' = list
    /\ opc' = "join"
    /\ UNCHANGED <<running, notEmpty, starting, list, joined, starts, failed, poolFrame>>

(* Mutant: the threads are not waited for. *)
JoinDetached(w) ==
    /\ opc = "join"
    /\ w \in joining
    /\ failed' = (failed \/ w \in joined)
    /\ joined' = joined \cup {w}
    /\ joining' = joining \ {w}
    /\ opc' = IF joining' = {} THEN "idle" ELSE "join"
    /\ UNCHANGED <<running, pc, notEmpty, notFull, starting, list, starts, poolFrame>>

(* Thread::Join returns when the thread has ended. *)
Join(w) ==
    /\ opc = "join"
    /\ w \in joining
    /\ pc[w] = "done"
    /\ failed' = (failed \/ w \in joined)
    /\ joined' = joined \cup {w}
    /\ joining' = joining \ {w}
    /\ opc' = IF joining' = {} THEN "idle" ELSE "join"
    /\ UNCHANGED <<running, pc, notEmpty, notFull, starting, list, starts, poolFrame>>

-----------------------------------------------------------------------------
WorkerStep(w) == \/ Lock(w) \/ Block(w) \/ Relock(w)
                 \/ WorkerCheck(w) \/ WorkerTest(w) \/ WorkerAlive(w) \/ WorkerNotify(w)
                 \/ TaskReturns(w)

RunStep(c) == \/ Lock(c) \/ Block(c) \/ Relock(c)
              \/ RunTest(c) \/ RunAlive(c) \/ RunNotify(c)

OwnerStep == \/ \E w \in Workers : StartThread(w) \/ Join(w)
             \/ StopNotEmpty \/ StopNotFull

Next == \/ \E w \in Workers : WorkerStep(w)
        \/ \E c \in Callers : RunStep(c) \/ \E x \in Tasks : Run(c, x)
        \/ \E t \in Threads : SpuriousWakeup(t)
        \/ \E ws \in SUBSET Workers : Start(ws)
        \/ Stop
        \/ OwnerStep

Spec == Init /\ [][Next]_vars

(* Threads run, those that want lock_ get it, and the owner's calls go on;   *)
(* nobody has to call Start, Stop or Run.                                    *)
FairSpec == /\ Spec
            /\ \A w \in Workers : SF_vars(WorkerStep(w))
            /\ \A c \in Callers : SF_vars(RunStep(c))
            /\ WF_vars(OwnerStep)

-----------------------------------------------------------------------------
(* Properties. *)

(* Tasks leave queue_ in the order in which they entered it, each once,      *)
(* whoever pushes and whoever takes.                                         *)
TasksInOrder == taken \o queue = pushed

(* max_queue_size is kept, though a caller that was woken may find the room  *)
(* taken by another one.                                                     *)
QueueBounded == MaxQueueSize > 0 => Len(queue) <= MaxQueueSize

(* When every worker sleeps in not_empty_cond_ and there is a task, a        *)
(* notification is on its way: the Notify after the unlock is never lost.    *)
NoSleepOnTasks ==
    queue # <<>> /\ list # {} /\ list \subseteq notEmpty => \E c \in Callers : pc[c] = "notify"

Waking(ts) == {t \in ts : pc[t] \in {"woken", "alive", "test"}}
Notifying(ts) == {t \in ts : pc[t] = "notify"}

(* No worker sleeps that could have run a task: while one waits, there are   *)
(* as many notifications and awakened workers as there are tasks.            *)
TasksSpread ==
    running /\ notEmpty # {} =>
        Len(queue) <= Cardinality(Notifying(Callers)) + Cardinality(Waking(Workers))

(* No caller sleeps in not_full_cond_ next to room in the queue: while one   *)
(* waits, there are as many notifications and awakened callers as free       *)
(* places.                                                                   *)
RoomOffered ==
    running /\ notFull # {} =>
        MaxQueueSize - Len(queue) <= Cardinality(Notifying(Workers)) + Cardinality(Waking(Callers))

(* When Stop has returned no worker runs: it has joined every thread that    *)
(* Start has made.                                                           *)
StoppedIsQuiet == opc = "idle" /\ ~running => \A w \in Workers : pc[w] \in {"new", "done"}

(* A task that was queued is taken, unless the pool is stopped. *)
TaskRuns == queue # <<>> ~> (queue = <<>> \/ ~running)

(* The calls of Run return, however full the queue is, unless the pool is    *)
(* stopped.                                                                  *)
RunReturns == (\E c \in Callers : pc[c] # "idle")
                ~> ((\A c \in Callers : pc[c] = "idle") \/ ~running)

(* base/test/thread_pool_test.cc:43-44, "::usleep(1000 * 10);    // 10ms"    *)
(* and the "return 0;" after it: the pool goes out of scope at the end of    *)
(* main, so the Stop of its destructor returns.                              *)
StopReturns == opc \in {"notEmptyAll", "notFullAll", "join"} ~> opc = "idle"

(* thread.cc:39, assert(started_ && !joined_): a thread is joined once.      *)
JoinedOnce == ~failed
=============================================================================
