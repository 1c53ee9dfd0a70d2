-------------------------- MODULE ThreadPoolProofs --------------------------
(***************************************************************************)
(* Proofs about ThreadPool, for any number of workers, callers and tasks,  *)
(* any max_queue_size and any number of calls of Start and Stop.           *)
(***************************************************************************)
EXTENDS ThreadPool, FiniteSetTheorems, TLAPS

(* lock_ is held by the thread whose position says so. *)
LockHeld == \A t \in Threads : holder = t <=> pc[t] \in {"test", "block", "alive"}

(* The threads blocked in a condition are those whose position says so. *)
Waiters ==
    /\ \A w \in Workers : w \in notEmpty <=> pc[w] = "waiting"
    /\ \A c \in Callers : c \in notFull <=> pc[c] = "waiting"

(* A caller inside Run has its task until it has pushed it. *)
Bringing == \A c \in Callers : pc[c] \notin {"idle", "notify"} => task[c] \in Tasks

(* What the owner may conclude from where it is: every thread in thread_list_ *)
(* that Stop has joined has ended, and running_ is set from Start to Stop.   *)
OwnerKnows ==
    /\ \A w \in Workers : w \in list <=> pc[w] # "new"
    /\ opc = "start" => running
    /\ opc \in {"notEmptyAll", "notFullAll", "join"} => ~running
    /\ opc = "idle" /\ ~running => \A w \in list : pc[w] = "done"
    /\ opc = "join" => \A w \in list \ joining : pc[w] = "done"

(* A worker about to Wait still holds lock_, so no task has come since it    *)
(* looked.                                                                   *)
BlockedOnEmpty == \A w \in Workers : pc[w] = "block" => queue = <<>>

ControlInv == TypeOK /\ LockHeld /\ Waiters /\ Bringing /\ OwnerKnows /\ BlockedOnEmpty

-----------------------------------------------------------------------------
(* How the program counters change. *)

(* Workers and callers are different threads. *)
LEMMA Apart == \A w \in Workers, c \in Callers : w # c
BY PoolAssumption

(* The threads are the workers and the callers. *)
LEMMA InThreads == /\ \A w \in Workers : w \in Threads
                   /\ \A c \in Callers : c \in Threads
                   /\ \A t \in Threads : t # Nobody /\ (t \in Workers \/ t \in Callers)
BY PoolAssumption DEF Threads

(* A step of one thread moves that thread only. *)
LEMMA GotoMoves ==
    ASSUME TypeOK, NEW t \in Threads, NEW from, NEW to, Goto(t, from, to)
    PROVE  /\ pc[t] = from /\ pc'[t] = to
           /\ pc' = [pc EXCEPT ![t] = to]
           /\ \A u \in Threads : u # t => pc'[u] = pc[u]
BY DEF Goto, TypeOK

(* A notification moves the threads it wakes, and only those. *)
LEMMA WakeMoves ==
    ASSUME TypeOK, NEW ts, pc' = Wake(ts)
    PROVE  \A u \in Threads : pc'[u] = IF u \in ts THEN "woken" ELSE pc[u]
BY DEF Wake

(* Notify: one thread that waits, if there is one, is woken, and the thread  *)
(* that notifies moves on.                                                   *)
LEMMA NotifyMoves ==
    ASSUME TypeOK, NEW t \in Threads, NEW waiting \in SUBSET Threads, NEW left, NEW to,
           Notify(t, waiting, left, to), t \notin waiting
    PROVE  /\ pc' \in [Threads -> WorkerPositions \cup CallerPositions \cup {to}]
           /\ pc'[t] = to
           /\ \/ /\ waiting = {} /\ left = waiting
                 /\ \A u \in Threads : u # t => pc'[u] = pc[u]
              \/ \E v \in waiting : /\ left = waiting \ {v} /\ pc'[v] = "woken"
                                    /\ \A u \in Threads : u # t /\ u # v => pc'[u] = pc[u]
<1>1. PICK woken \in IF waiting = {} THEN {{}} ELSE {{u} : u \in waiting} :
           /\ left = waiting \ woken
           /\ pc' = [Wake(woken) EXCEPT ![t] = to]
  BY Zenon DEF Notify
<1>2. /\ pc'[t] = to
      /\ \A u \in Threads : u # t => pc'[u] = IF u \in woken THEN "woken" ELSE pc[u]
      /\ pc' \in [Threads -> WorkerPositions \cup CallerPositions \cup {to}]
  BY <1>1 DEF Wake, TypeOK, WorkerPositions
<1>3. CASE waiting = {}
  <2>1. woken = {}
    BY <1>3
  <2> QED
    BY <1>1, <1>2, <1>3, <2>1
<1>4. CASE waiting # {}
  <2>1. PICK v \in waiting : woken = {v}
    BY <1>4
  <2>2. pc'[v] = "woken" /\ left = waiting \ {v}
    BY <1>1, <1>2, <2>1
  <2> QED
    BY <1>2, <2>1, <2>2
<1> QED
  BY <1>3, <1>4

-----------------------------------------------------------------------------
(* The positions and lock_. *)

(* The invariant holds for a pool that was just made. *)
LEMMA InitControl == Init => ControlInv
<1> SUFFICES ASSUME Init PROVE ControlInv
  OBVIOUS
<1>1. \A t \in Threads : pc[t] = IF t \in Workers THEN "new" ELSE "idle"
  BY DEF Init
<1>2. TypeOK
  <2>1. /\ pc \in [Threads -> WorkerPositions \cup CallerPositions]
        /\ \A w \in Workers : pc[w] \in WorkerPositions
        /\ \A c \in Callers : pc[c] \in CallerPositions
    BY <1>1, Apart, InThreads DEF Init, WorkerPositions, CallerPositions
  <2>2. queue \in Seq(Tasks) /\ pushed \in Seq(Tasks) /\ taken \in Seq(Tasks)
    BY DEF Init
  <2>3. starts \in 0..MaxStarts /\ given \in 0..MaxTasks
    BY PoolAssumption DEF Init
  <2>4. task \in [Threads -> Tasks \cup {Nobody}] /\ opc \in OwnerPositions
    BY DEF Init, OwnerPositions
  <2>5. /\ running \in BOOLEAN /\ holder \in Threads \cup {Nobody}
        /\ notEmpty \in SUBSET Workers /\ notFull \in SUBSET Callers
        /\ starting \in SUBSET Workers /\ list \in SUBSET Workers
        /\ joining \in SUBSET Workers /\ joined \in SUBSET Workers
        /\ failed \in BOOLEAN
    BY Zenon DEF Init
  <2> QED
    BY <2>1, <2>2, <2>3, <2>4, <2>5 DEF TypeOK
<1> QED
  BY <1>1, <1>2, Apart, InThreads
     DEF Init, ControlInv, LockHeld, Waiters, Bringing, OwnerKnows, BlockedOnEmpty

PcTypeOK ==
    /\ pc \in [Threads -> WorkerPositions \cup CallerPositions]
    /\ \A w \in Workers : pc[w] \in WorkerPositions
    /\ \A c \in Callers : pc[c] \in CallerPositions

(* A thread that moves to a position of its kind keeps the types. *)
LEMMA PcType ==
    ASSUME TypeOK, NEW t \in Threads, NEW to, pc' = [pc EXCEPT ![t] = to],
           \/ t \in Workers /\ to \in WorkerPositions
           \/ t \in Callers /\ to \in CallerPositions
    PROVE  PcTypeOK'
<1>1. pc \in [Threads -> WorkerPositions \cup CallerPositions] /\ PcTypeOK
  BY DEF TypeOK, PcTypeOK
<1>2. to \in WorkerPositions \cup CallerPositions
  OBVIOUS
<1>3. pc' \in [Threads -> WorkerPositions \cup CallerPositions]
  BY <1>1, <1>2
<1>4. pc'[t] = to /\ \A u \in Threads : u # t => pc'[u] = pc[u]
  BY <1>1
<1> QED
  BY <1>1, <1>3, <1>4, Apart, InThreads, Zenon DEF PcTypeOK

(* A step that moves one thread and none of the others, and leaves the tasks *)
(* and the owner alone.                                                      *)
LEMMA LockControl ==
    ASSUME ControlInv, NEW t \in Threads, Lock(t) \/ Block(t) \/ Relock(t)
    PROVE  ControlInv'
<1> USE DEF ControlInv
<1>1. /\ UNCHANGED <<running, pushed, taken, given, task, queue, opc, starting, list, joining,
                     joined, starts, failed>>
      /\ \A u \in Threads : u # t => pc'[u] = pc[u]
      /\ pc' = [pc EXCEPT ![t] = pc'[t]]
      /\ \/ /\ pc[t] = "lock" /\ pc'[t] = "test" /\ holder = Nobody /\ holder' = t
            /\ UNCHANGED <<notEmpty, notFull>>
         \/ /\ pc[t] = "woken" /\ pc'[t] = "alive" /\ holder = Nobody /\ holder' = t
            /\ UNCHANGED <<notEmpty, notFull>>
         \/ /\ pc[t] = "block" /\ pc'[t] = "waiting" /\ holder' = Nobody
            /\ notEmpty' = IF t \in Workers THEN notEmpty \cup {t} ELSE notEmpty
            /\ notFull' = IF t \in Callers THEN notFull \cup {t} ELSE notFull
  BY GotoMoves DEF Lock, Block, Relock, Frame, ownerVars, Goto, TypeOK
<1>2. TypeOK'
  <2>1. /\ t \in Workers \/ t \in Callers
        /\ pc'[t] \in WorkerPositions \cap CallerPositions
    BY <1>1, InThreads DEF WorkerPositions, CallerPositions
  <2>2. PcTypeOK'
    BY <1>1, <2>1, PcType
  <2>3. /\ holder' \in Threads \cup {Nobody}
        /\ notEmpty' \in SUBSET Workers /\ notFull' \in SUBSET Callers
    BY <1>1 DEF TypeOK
  <2> QED
    BY <1>1, <2>2, <2>3 DEF TypeOK, PcTypeOK
<1>3. LockHeld'
  BY <1>1, InThreads DEF LockHeld
<1>4. Waiters'
  BY <1>1, InThreads, Apart DEF Waiters
<1>5. Bringing' /\ BlockedOnEmpty'
  BY <1>1, InThreads, Apart DEF Bringing, BlockedOnEmpty
<1>6. OwnerKnows'
  BY <1>1, InThreads DEF OwnerKnows, TypeOK
<1> QED
  BY <1>2, <1>3, <1>4, <1>5, <1>6

(* A worker that takes the lock, tests and runs keeps the invariant. *)
LEMMA WorkerControl ==
    ASSUME ControlInv, NEW w \in Workers,
           WorkerCheck(w) \/ WorkerTest(w) \/ WorkerAlive(w) \/ TaskReturns(w)
    PROVE  ControlInv'
<1> USE DEF ControlInv
<1>0. w \in Threads /\ w # Nobody /\ w \notin Callers
  BY InThreads, Apart
<1>1. /\ UNCHANGED <<running, notEmpty, notFull, pushed, given, opc, starting, list, joining,
                     joined, starts, failed>>
      /\ \A u \in Threads : u # w => pc'[u] = pc[u]
      /\ pc' = [pc EXCEPT ![w] = pc'[w]]
      /\ \/ /\ pc[w] = "check" /\ pc'[w] = IF running THEN "lock" ELSE "done"
            /\ UNCHANGED <<holder, queue, task, taken>>
         \/ /\ pc[w] = "test" /\ pc'[w] = "block" /\ queue = <<>>
            /\ UNCHANGED <<holder, queue, task, taken>>
         \/ /\ pc[w] = "test" /\ pc'[w] = "notify" /\ queue # <<>> /\ holder' = Nobody
            /\ task' = [task EXCEPT ![w] = Head(queue)] /\ queue' = Tail(queue)
            /\ taken' = Append(taken, Head(queue))
         \/ /\ pc[w] = "alive" /\ pc'[w] = IF running THEN "test" ELSE "done"
            /\ holder' = IF running THEN w ELSE Nobody
            /\ UNCHANGED <<queue, task, taken>>
         \/ /\ pc[w] = "task" /\ pc'[w] = "check"
            /\ UNCHANGED <<holder, queue, taken>> /\ task' = [task EXCEPT ![w] = Nobody]
  <2>1. CASE WorkerCheck(w)
    BY <1>0, <2>1, GotoMoves DEF WorkerCheck, Frame, ownerVars
  <2>2. CASE WorkerTest(w)
    BY <1>0, <2>2, GotoMoves DEF WorkerTest, ownerVars
  <2>3. CASE WorkerAlive(w)
    BY <1>0, <2>3, GotoMoves DEF WorkerAlive, Frame, ownerVars
  <2>4. CASE TaskReturns(w)
    BY <1>0, <2>4, GotoMoves DEF TaskReturns, Frame, ownerVars
  <2> QED
    BY <2>1, <2>2, <2>3, <2>4, Zenon
<1>2. /\ queue' \in Seq(Tasks) /\ taken' \in Seq(Tasks)
      /\ task' \in [Threads -> Tasks \cup {Nobody}]
      /\ \A c \in Callers : task'[c] = task[c]
  <2>1. /\ queue \in Seq(Tasks) /\ taken \in Seq(Tasks)
        /\ task \in [Threads -> Tasks \cup {Nobody}]
    BY DEF TypeOK
  <2>2. queue # <<>> => Head(queue) \in Tasks /\ Tail(queue) \in Seq(Tasks)
    BY <2>1
  <2>3. \A x \in Tasks : Append(taken, x) \in Seq(Tasks)
    BY <2>1
  <2>4. queue' \in Seq(Tasks) /\ taken' \in Seq(Tasks)
    BY <1>1, <2>1, <2>2, <2>3, Zenon
  <2>5. task' \in [Threads -> Tasks \cup {Nobody}]
    BY <1>0, <1>1, <2>1, <2>2, InThreads, Zenon
  <2>6. \A c \in Callers : c \in Threads /\ c # w
    BY <1>0, InThreads, Apart
  <2>7. \A c \in Callers : task'[c] = task[c]
    BY <1>1, <2>1, <2>6
  <2> QED
    BY <2>4, <2>5, <2>7
<1>3. TypeOK'
  <2>1. pc'[w] \in WorkerPositions
    BY <1>1 DEF WorkerPositions
  <2>2. PcTypeOK'
    BY <1>0, <1>1, <2>1, PcType
  <2>3. holder' \in Threads \cup {Nobody}
    BY <1>0, <1>1 DEF TypeOK
  <2> QED
    BY <1>1, <1>2, <2>2, <2>3 DEF TypeOK, PcTypeOK
<1>4. LockHeld'
  BY <1>0, <1>1, InThreads DEF LockHeld
<1>5. Waiters'
  BY <1>0, <1>1, InThreads, Apart DEF Waiters
<1>6. Bringing'
  BY <1>0, <1>1, <1>2, InThreads, Apart DEF Bringing
<1>7. BlockedOnEmpty'
  <2>1. \A u \in Workers : u # w /\ pc[u] = "block" => pc[w] # "test"
    BY <1>0, InThreads DEF LockHeld
  <2>2. pc[w] # "test" => queue' = queue
    BY <1>1
  <2> QED
    BY <1>0, <1>1, <2>1, <2>2, InThreads DEF BlockedOnEmpty
<1>8. OwnerKnows'
  <2>1. pc[w] # "new" /\ pc[w] # "done" /\ pc'[w] # "new"
    BY <1>1
  <2>2. \A u \in Workers : u # w => pc'[u] = pc[u]
    BY <1>1, InThreads
  <2> QED
    BY <1>1, <2>1, <2>2 DEF OwnerKnows, TypeOK
<1> QED
  BY <1>3, <1>4, <1>5, <1>6, <1>7, <1>8

(* A caller of Run keeps the invariant until it notifies. *)
LEMMA RunControl ==
    ASSUME ControlInv, NEW c \in Callers,
           (\E x \in Tasks : Run(c, x)) \/ RunTest(c) \/ RunAlive(c)
    PROVE  ControlInv'
<1> USE DEF ControlInv
<1>0. c \in Threads /\ c # Nobody /\ c \notin Workers
  BY InThreads, Apart
<1>1. /\ UNCHANGED <<running, notEmpty, notFull, taken, opc, starting, list, joining, joined,
                     starts, failed>>
      /\ \A u \in Threads : u # c => pc'[u] = pc[u]
      /\ pc' = [pc EXCEPT ![c] = pc'[c]]
      /\ \/ /\ pc[c] = "idle" /\ pc'[c] = "idle" /\ given' \in Tasks
            /\ UNCHANGED <<holder, queue, task, pushed>>
         \/ /\ pc[c] = "idle" /\ pc'[c] = "lock" /\ given' \in Tasks
            /\ task' = [task EXCEPT ![c] = given'] /\ UNCHANGED <<holder, queue, pushed>>
         \/ /\ pc[c] = "test" /\ pc'[c] = "block"
            /\ UNCHANGED <<holder, queue, task, pushed, given>>
         \/ /\ pc[c] = "test" /\ pc'[c] = "notify" /\ holder' = Nobody /\ given' = given
            /\ queue' = Append(queue, task[c]) /\ pushed' = Append(pushed, task[c])
            /\ task' = [task EXCEPT ![c] = Nobody]
         \/ /\ pc[c] = "alive" /\ pc'[c] = "test" /\ holder' = c
            /\ UNCHANGED <<queue, task, pushed, given>>
         \/ /\ pc[c] = "alive" /\ pc'[c] = "idle" /\ holder' = Nobody
            /\ UNCHANGED <<queue, pushed, given>> /\ task' = [task EXCEPT ![c] = Nobody]
  <2>1. CASE \E x \in Tasks : Run(c, x)
    <3>1. PICK x \in Tasks : Run(c, x)
      BY <2>1
    <3>2. CASE running
      BY <1>0, <3>1, <3>2, GotoMoves DEF Run, ownerVars
    <3>3. CASE ~running
      BY <1>0, <3>1, <3>3 DEF Run, ownerVars, TypeOK
    <3> QED
      BY <3>2, <3>3
  <2>2. CASE RunTest(c)
    BY <1>0, <2>2, GotoMoves DEF RunTest, ownerVars
  <2>3. CASE RunAlive(c)
    BY <1>0, <2>3, GotoMoves DEF RunAlive, ownerVars
  <2> QED
    BY <2>1, <2>2, <2>3
<1>2. /\ queue' \in Seq(Tasks) /\ pushed' \in Seq(Tasks)
      /\ task' \in [Threads -> Tasks \cup {Nobody}]
      /\ \A d \in Callers : d # c => task'[d] = task[d]
      /\ pc'[c] \notin {"idle", "notify"} => task'[c] \in Tasks
      /\ given' \in 0..MaxTasks
  <2>1. /\ queue \in Seq(Tasks) /\ pushed \in Seq(Tasks) /\ given \in 0..MaxTasks
        /\ task \in [Threads -> Tasks \cup {Nobody}]
    BY DEF TypeOK
  <2>2. pc[c] \in {"test", "alive"} => task[c] \in Tasks
    BY DEF Bringing
  <2>3. \A x \in Tasks : Append(queue, x) \in Seq(Tasks) /\ Append(pushed, x) \in Seq(Tasks)
    BY <2>1
  <2>4. \A x \in Tasks : x \in 0..MaxTasks
    BY PoolAssumption DEF Tasks
  <2>5. queue' \in Seq(Tasks) /\ pushed' \in Seq(Tasks) /\ given' \in 0..MaxTasks
    BY <1>1, <2>1, <2>2, <2>3, <2>4, Zenon
  <2>6. task' = task \/ \E x \in Tasks \cup {Nobody} : task' = [task EXCEPT ![c] = x]
    BY <1>1
  <2>7. /\ task' \in [Threads -> Tasks \cup {Nobody}]
        /\ \A d \in Callers : d # c => task'[d] = task[d]
    BY <1>0, <2>1, <2>6, InThreads
  <2>8. pc'[c] \notin {"idle", "notify"} => task'[c] \in Tasks
    BY <1>0, <1>1, <2>1, <2>2
  <2> QED
    BY <2>5, <2>7, <2>8
<1>3. TypeOK'
  <2>1. pc'[c] \in CallerPositions
    BY <1>1 DEF CallerPositions
  <2>2. PcTypeOK'
    BY <1>0, <1>1, <2>1, PcType
  <2>3. holder' \in Threads \cup {Nobody}
    BY <1>0, <1>1 DEF TypeOK
  <2> QED
    BY <1>1, <1>2, <2>2, <2>3 DEF TypeOK, PcTypeOK
<1>4. LockHeld'
  BY <1>0, <1>1, InThreads DEF LockHeld
<1>5. Waiters'
  BY <1>0, <1>1, InThreads, Apart DEF Waiters
<1>6. Bringing'
  BY <1>0, <1>1, <1>2, InThreads DEF Bringing
<1>7. BlockedOnEmpty'
  <2>1. \A u \in Workers : pc[u] = "block" => pc[c] # "test"
    BY <1>0, InThreads DEF LockHeld
  <2>2. pc[c] # "test" => queue' = queue
    BY <1>1
  <2> QED
    BY <1>0, <1>1, <2>1, <2>2, InThreads, Apart DEF BlockedOnEmpty
<1>8. OwnerKnows'
  <2>1. \A u \in Workers : pc'[u] = pc[u]
    BY <1>1, InThreads, Apart
  <2> QED
    BY <1>1, <2>1 DEF OwnerKnows, TypeOK
<1> QED
  BY <1>3, <1>4, <1>5, <1>6, <1>7, <1>8

(* The threads ts that wait are woken, and those in moved go on after Notify. *)
Woken(ts, moved) ==
    /\ notEmpty' = notEmpty \ ts /\ notFull' = notFull \ ts
    /\ UNCHANGED <<queue, holder, task, pushed, taken, given, list, starts, failed, joined>>
    /\ PcTypeOK'
    /\ \A u \in Threads \ moved : pc'[u] = IF u \in ts THEN "woken" ELSE pc[u]
    /\ \A u \in moved : /\ pc[u] = "notify"
                       /\ pc'[u] = IF u \in Workers THEN "task" ELSE "idle"

(* Waking threads that wait keeps the invariant: they are no longer waiters  *)
(* and do not hold the lock yet.                                             *)
LEMMA WakeControl ==
    ASSUME ControlInv, NEW ts \in SUBSET (notEmpty \cup notFull), NEW moved \in SUBSET Threads,
           Woken(ts, moved)
    PROVE  LockHeld' /\ Waiters' /\ Bringing' /\ BlockedOnEmpty'
           /\ \A w \in Workers : (pc[w] = "new" <=> pc'[w] = "new") /\ (pc[w] = "done" => pc'[w] = "done")
<1> USE DEF Woken
<1> USE DEF ControlInv
<1>1. ASSUME NEW u \in ts PROVE u \in Threads /\ pc[u] = "waiting"
  BY InThreads DEF TypeOK, Waiters
<1>2. LockHeld'
  BY <1>1 DEF LockHeld
<1>3. Waiters'
  <2>1. ASSUME NEW u \in Threads, u \notin ts PROVE pc[u] = "waiting" <=> pc'[u] = "waiting"
    BY <1>1, <2>1
  <2>2. ASSUME NEW u \in ts PROVE pc'[u] = "woken"
    BY <1>1, <2>2
  <2> QED
    BY <2>1, <2>2, InThreads DEF Waiters
<1>4. Bringing'
  BY <1>1, InThreads, Apart DEF Bringing
<1>5. BlockedOnEmpty'
  BY <1>1, InThreads DEF BlockedOnEmpty
<1>6. ASSUME NEW w \in Workers
      PROVE  (pc[w] = "new" <=> pc'[w] = "new") /\ (pc[w] = "done" => pc'[w] = "done")
  BY <1>1, InThreads
<1> QED
  BY <1>2, <1>3, <1>4, <1>5, <1>6

(* The notifications of workers and callers keep the invariant. *)
LEMMA NotifyControl ==
    ASSUME ControlInv,
           \/ \E w \in Workers : WorkerNotify(w)
           \/ \E c \in Callers : RunNotify(c)
    PROVE  ControlInv'
<1> USE DEF ControlInv
<1>1. /\ UNCHANGED <<running, opc, starting, joining>>
      /\ UNCHANGED <<queue, holder, task, pushed, taken, given, list, starts, failed, joined>>
  BY DEF WorkerNotify, RunNotify, Frame, ownerVars
<1>2. PICK t \in Threads, ts \in SUBSET (notEmpty \cup notFull) :
         /\ notEmpty' = notEmpty \ ts /\ notFull' = notFull \ ts
         /\ pc[t] = "notify" /\ pc'[t] = IF t \in Workers THEN "task" ELSE "idle"
         /\ \A u \in Threads : u # t => pc'[u] = IF u \in ts THEN "woken" ELSE pc[u]
         /\ pc' \in [Threads -> WorkerPositions \cup CallerPositions]
  <2>1. ASSUME NEW w \in Workers, WorkerNotify(w)
        PROVE  \E ts \in SUBSET notFull :
                 /\ notEmpty' = notEmpty \ ts /\ notFull' = notFull \ ts
                 /\ pc[w] = "notify" /\ pc'[w] = "task"
                 /\ \A u \in Threads : u # w => pc'[u] = IF u \in ts THEN "woken" ELSE pc[u]
                 /\ pc' \in [Threads -> WorkerPositions \cup CallerPositions]
    <3>1. /\ pc[w] = "notify" /\ Notify(w, notFull, notFull', "task") /\ notEmpty' = notEmpty
          /\ w \in Threads /\ w \notin notFull /\ notFull \in SUBSET Threads
          /\ notFull \cap notEmpty = {}
      BY <2>1, InThreads, Apart DEF WorkerNotify, TypeOK
    <3>2. /\ pc' \in [Threads -> WorkerPositions \cup CallerPositions]
          /\ pc'[w] = "task"
          /\ \/ /\ notFull = {} /\ notFull' = notFull
                /\ \A u \in Threads : u # w => pc'[u] = pc[u]
             \/ \E v \in notFull : /\ notFull' = notFull \ {v} /\ pc'[v] = "woken"
                                   /\ \A u \in Threads : u # w /\ u # v => pc'[u] = pc[u]
      <4>1. WorkerPositions \cup CallerPositions \cup {"task"} = WorkerPositions \cup CallerPositions
        BY DEF WorkerPositions
      <4> QED
        BY <3>1, <4>1, NotifyMoves
    <3>3. CASE notFull = {} /\ notFull' = notFull /\ \A u \in Threads : u # w => pc'[u] = pc[u]
      <4> WITNESS {} \in SUBSET notFull
      <4> QED
        BY <3>1, <3>2, <3>3
    <3>4. ASSUME NEW v \in notFull, notFull' = notFull \ {v}, pc'[v] = "woken",
                 \A u \in Threads : u # w /\ u # v => pc'[u] = pc[u]
          PROVE  \E ts \in SUBSET notFull :
                 /\ notEmpty' = notEmpty \ ts /\ notFull' = notFull \ ts
                 /\ pc[w] = "notify" /\ pc'[w] = "task"
                 /\ \A u \in Threads : u # w => pc'[u] = IF u \in ts THEN "woken" ELSE pc[u]
                 /\ pc' \in [Threads -> WorkerPositions \cup CallerPositions]
      <4> WITNESS {v} \in SUBSET notFull
      <4> QED
        BY <3>1, <3>2, <3>4
    <3> QED
      BY <3>2, <3>3, <3>4
  <2>2. ASSUME NEW c \in Callers, RunNotify(c)
        PROVE  \E ts \in SUBSET notEmpty :
                 /\ notEmpty' = notEmpty \ ts /\ notFull' = notFull \ ts
                 /\ pc[c] = "notify" /\ pc'[c] = "idle"
                 /\ \A u \in Threads : u # c => pc'[u] = IF u \in ts THEN "woken" ELSE pc[u]
                 /\ pc' \in [Threads -> WorkerPositions \cup CallerPositions]
    <3>1. /\ pc[c] = "notify" /\ Notify(c, notEmpty, notEmpty', "idle") /\ notFull' = notFull
          /\ c \in Threads /\ c \notin notEmpty /\ notEmpty \in SUBSET Threads
          /\ notFull \cap notEmpty = {}
      BY <2>2, InThreads, Apart DEF RunNotify, TypeOK
    <3>2. /\ pc' \in [Threads -> WorkerPositions \cup CallerPositions]
          /\ pc'[c] = "idle"
          /\ \/ /\ notEmpty = {} /\ notEmpty' = notEmpty
                /\ \A u \in Threads : u # c => pc'[u] = pc[u]
             \/ \E v \in notEmpty : /\ notEmpty' = notEmpty \ {v} /\ pc'[v] = "woken"
                                    /\ \A u \in Threads : u # c /\ u # v => pc'[u] = pc[u]
      <4>1. WorkerPositions \cup CallerPositions \cup {"idle"} = WorkerPositions \cup CallerPositions
        BY DEF CallerPositions
      <4> QED
        BY <3>1, <4>1, NotifyMoves
    <3>3. CASE notEmpty = {} /\ notEmpty' = notEmpty /\ \A u \in Threads : u # c => pc'[u] = pc[u]
      <4> WITNESS {} \in SUBSET notEmpty
      <4> QED
        BY <3>1, <3>2, <3>3
    <3>4. ASSUME NEW v \in notEmpty, notEmpty' = notEmpty \ {v}, pc'[v] = "woken",
                 \A u \in Threads : u # c /\ u # v => pc'[u] = pc[u]
          PROVE  \E ts \in SUBSET notEmpty :
                 /\ notEmpty' = notEmpty \ ts /\ notFull' = notFull \ ts
                 /\ pc[c] = "notify" /\ pc'[c] = "idle"
                 /\ \A u \in Threads : u # c => pc'[u] = IF u \in ts THEN "woken" ELSE pc[u]
                 /\ pc' \in [Threads -> WorkerPositions \cup CallerPositions]
      <4> WITNESS {v} \in SUBSET notEmpty
      <4> QED
        BY <3>1, <3>2, <3>4
    <3> QED
      BY <3>2, <3>3, <3>4
  <2>3. /\ \A ts \in SUBSET notFull : ts \in SUBSET (notEmpty \cup notFull)
        /\ \A ts \in SUBSET notEmpty : ts \in SUBSET (notEmpty \cup notFull)
    OBVIOUS
  <2>4. CASE \E w \in Workers : WorkerNotify(w)
    BY <2>1, <2>3, <2>4, InThreads
  <2>5. CASE \E c \in Callers : RunNotify(c)
    BY <2>2, <2>3, <2>5, InThreads, Apart
  <2> QED
    BY <2>4, <2>5
<1>3. PcTypeOK'
  <2>1. ASSUME NEW u \in ts PROVE u \in Threads /\ pc[u] = "waiting"
    BY InThreads DEF TypeOK, Waiters
  <2>2. ASSUME NEW w \in Workers PROVE pc'[w] \in WorkerPositions
    BY <1>2, InThreads DEF TypeOK, WorkerPositions
  <2>3. ASSUME NEW c \in Callers PROVE pc'[c] \in CallerPositions
    BY <1>2, InThreads, Apart, Zenon DEF TypeOK, CallerPositions
  <2> QED
    BY <1>2, <2>2, <2>3 DEF PcTypeOK
<1>4. /\ LockHeld' /\ Waiters' /\ Bringing' /\ BlockedOnEmpty'
      /\ \A w \in Workers : (pc[w] = "new" <=> pc'[w] = "new") /\ (pc[w] = "done" => pc'[w] = "done")
  <2>1. {t} \in SUBSET Threads /\ Woken(ts, {t})
    BY <1>1, <1>2, <1>3 DEF Woken
  <2> QED
    BY <2>1, WakeControl
<1>5. TypeOK'
  BY <1>1, <1>2, <1>3 DEF TypeOK, PcTypeOK
<1>6. OwnerKnows'
  BY <1>1, <1>4 DEF OwnerKnows, TypeOK
<1> QED
  BY <1>4, <1>5, <1>6

(* Threads that are woken are at a position of their kind. *)
LEMMA WakenType ==
    ASSUME ControlInv, NEW ts \in SUBSET (notEmpty \cup notFull), pc' = Wake(ts)
    PROVE  /\ PcTypeOK'
           /\ \A u \in Threads : pc'[u] = IF u \in ts THEN "woken" ELSE pc[u]
<1> USE DEF ControlInv
<1>1. \A u \in Threads : pc'[u] = IF u \in ts THEN "woken" ELSE pc[u]
  BY WakeMoves
<1>2. pc' \in [Threads -> WorkerPositions \cup CallerPositions]
  BY DEF Wake, TypeOK, WorkerPositions
<1>3. ASSUME NEW w \in Workers PROVE pc'[w] \in WorkerPositions
  BY <1>1, InThreads DEF TypeOK, WorkerPositions
<1>4. ASSUME NEW c \in Callers PROVE pc'[c] \in CallerPositions
  BY <1>1, InThreads DEF TypeOK, CallerPositions
<1> QED
  BY <1>1, <1>2, <1>3, <1>4 DEF PcTypeOK

(* The steps that only wake threads. *)
LEMMA WakeOnlyControl ==
    ASSUME ControlInv, (\E t \in Threads : SpuriousWakeup(t)) \/ StopNotEmpty \/ StopNotFull
    PROVE  ControlInv'
<1> USE DEF ControlInv
<1>1. PICK ts \in SUBSET (notEmpty \cup notFull) :
         /\ pc' = Wake(ts)
         /\ notEmpty' = notEmpty \ ts /\ notFull' = notFull \ ts
         /\ UNCHANGED <<queue, holder, task, pushed, taken, given, list, starts, failed, joined>>
         /\ running' = running /\ starting' = starting
         /\ \/ UNCHANGED <<opc, joining>>
            \/ opc = "notEmptyAll" /\ opc' = "notFullAll" /\ joining' = joining
            \/ opc = "notFullAll" /\ opc' = "join" /\ joining' = list
  <2>0. notEmpty \cap notFull = {}
    BY Apart DEF TypeOK
  <2>1. ASSUME NEW t \in Threads, SpuriousWakeup(t)
        PROVE  /\ {t} \in SUBSET (notEmpty \cup notFull) /\ pc' = Wake({t})
               /\ notEmpty' = notEmpty \ {t} /\ notFull' = notFull \ {t}
               /\ UNCHANGED <<queue, holder, task, pushed, taken, given, list, starts, failed, joined>>
               /\ running' = running /\ starting' = starting /\ UNCHANGED <<opc, joining>>
    BY <2>1 DEF SpuriousWakeup, Frame, ownerVars
  <2>2. CASE \E t \in Threads : SpuriousWakeup(t)
    BY <2>1, <2>2, Zenon
  <2>3. CASE StopNotEmpty
    <3>1. notEmpty \in SUBSET (notEmpty \cup notFull) /\ notFull' = notFull \ notEmpty
          /\ notEmpty' = notEmpty \ notEmpty
      BY <2>0, <2>3 DEF StopNotEmpty
    <3> QED
      BY <2>3, <3>1 DEF StopNotEmpty, poolFrame
  <2>4. CASE StopNotFull
    <3>1. notFull \in SUBSET (notEmpty \cup notFull) /\ notEmpty' = notEmpty \ notFull
          /\ notFull' = notFull \ notFull
      BY <2>0, <2>4 DEF StopNotFull
    <3> QED
      BY <2>4, <3>1 DEF StopNotFull, poolFrame
  <2> QED
    BY <2>2, <2>3, <2>4
<1>2. /\ PcTypeOK'
      /\ \A u \in Threads : pc'[u] = IF u \in ts THEN "woken" ELSE pc[u]
  BY <1>1, WakenType
<1>3. {} \in SUBSET Threads /\ Woken(ts, {})
  BY <1>1, <1>2 DEF Woken
<1>4. /\ LockHeld' /\ Waiters' /\ Bringing' /\ BlockedOnEmpty'
      /\ \A w \in Workers : (pc[w] = "new" <=> pc'[w] = "new") /\ (pc[w] = "done" => pc'[w] = "done")
  BY <1>3, WakeControl
<1>5. TypeOK'
  BY <1>1, <1>2 DEF TypeOK, PcTypeOK, OwnerPositions
<1>6. OwnerKnows'
  BY <1>1, <1>4 DEF OwnerKnows, TypeOK
<1> QED
  BY <1>4, <1>5, <1>6

(* The steps of the owner that wake nobody. *)
LEMMA OwnerControl ==
    ASSUME ControlInv,
           \/ \E ws \in SUBSET Workers : Start(ws)
           \/ \E w \in Workers : StartThread(w) \/ Join(w)
           \/ Stop
    PROVE  ControlInv'
<1> USE DEF ControlInv
<1>1. ASSUME NEW ws \in SUBSET Workers, Start(ws) PROVE ControlInv'
  <2>1. /\ opc = "idle" /\ ~running /\ running' = TRUE /\ starting' = ws /\ opc' = "start"
        /\ UNCHANGED <<pc, notEmpty, notFull, list, joining, joined, failed, queue, holder, task,
                       pushed, taken, given>>
        /\ starts < MaxStarts /\ starts' = starts + 1
    BY <1>1 DEF Start, poolFrame
  <2>2. TypeOK'
    BY <2>1, PoolAssumption DEF TypeOK, OwnerPositions
  <2> QED
    BY <2>1, <2>2 DEF LockHeld, Waiters, Bringing, BlockedOnEmpty, OwnerKnows
<1>2. CASE Stop
  <2>1. /\ opc = "idle" /\ running' = FALSE /\ opc' = "notEmptyAll"
        /\ UNCHANGED <<pc, notEmpty, notFull, list, starting, starts, joining, joined, failed,
                       queue, holder, task, pushed, taken, given>>
    BY <1>2 DEF Stop, poolFrame
  <2>2. TypeOK'
    BY <2>1, Zenon DEF TypeOK, OwnerPositions
  <2> QED
    BY <2>1, <2>2 DEF LockHeld, Waiters, Bringing, BlockedOnEmpty, OwnerKnows
<1>3. ASSUME NEW w \in Workers, StartThread(w) PROVE ControlInv'
  <2>1. /\ opc = "start" /\ pc[w] = "new" /\ pc' = [pc EXCEPT ![w] = "check"] /\ pc'[w] = "check"
        /\ \A u \in Threads : u # w => pc'[u] = pc[u]
        /\ starting' = starting \ {w} /\ list' = list \cup {w} /\ opc' \in {"idle", "start"}
        /\ UNCHANGED <<running, notEmpty, notFull, joining, joined, starts, failed, queue, holder,
                       task, pushed, taken, given>>
    BY <1>3, GotoMoves, InThreads DEF StartThread, poolFrame
  <2>2. PcTypeOK'
    BY <2>1, PcType, InThreads, Zenon DEF WorkerPositions
  <2>3. TypeOK'
    BY <2>1, <2>2 DEF TypeOK, PcTypeOK, OwnerPositions
  <2>4. LockHeld'
    BY <2>1, InThreads DEF LockHeld
  <2>5. Waiters'
    BY <2>1, InThreads, Apart DEF Waiters
  <2>6. Bringing' /\ BlockedOnEmpty'
    BY <2>1, InThreads, Apart DEF Bringing, BlockedOnEmpty
  <2>7. OwnerKnows'
    BY <2>1, InThreads DEF OwnerKnows
  <2> QED
    BY <2>3, <2>4, <2>5, <2>6, <2>7
<1>4. ASSUME NEW w \in Workers, Join(w) PROVE ControlInv'
  <2>1. /\ opc = "join" /\ pc[w] = "done"
        /\ joined' = joined \cup {w} /\ joining' = joining \ {w} /\ failed' \in BOOLEAN
        /\ opc' = IF joining' = {} THEN "idle" ELSE "join"
        /\ UNCHANGED <<running, pc, notEmpty, notFull, starting, list, starts, queue, holder, task,
                       pushed, taken, given>>
    BY <1>4 DEF Join, poolFrame, TypeOK
  <2>2. TypeOK'
    BY <2>1 DEF TypeOK, OwnerPositions
  <2>3. OwnerKnows'
    BY <2>1 DEF OwnerKnows
  <2> QED
    BY <2>1, <2>2, <2>3 DEF LockHeld, Waiters, Bringing, BlockedOnEmpty
<1> QED
  BY <1>1, <1>2, <1>3, <1>4

(* A step that changes nothing keeps the invariant. *)
LEMMA StutterControl == ControlInv /\ UNCHANGED vars => ControlInv'
BY DEF ControlInv, TypeOK, LockHeld, Waiters, Bringing, BlockedOnEmpty, OwnerKnows, vars, ownerVars

(* The invariant is inductive: one step for each kind of action. *)
LEMMA NextControl == ControlInv /\ [Next]_vars => ControlInv'
BY InThreads, LockControl, WorkerControl, RunControl, NotifyControl, WakeOnlyControl, OwnerControl,
   StutterControl
   DEF Next, WorkerStep, RunStep, OwnerStep

(* The types, the mutual exclusion of lock_ and the other facts that         *)
(* ControlInv states hold in every reachable state of ThreadPool.            *)
THEOREM PoolControl == Spec => []ControlInv
BY InitControl, NextControl, PTL DEF Spec

(* When Stop has returned (or Start has never been called) no worker runs:   *)
(* Stop joins every thread that any Start has made, and only a thread that   *)
(* has ended is joined.                                                      *)
THEOREM StopIsQuiet == Spec => []StoppedIsQuiet
<1>1. ControlInv => StoppedIsQuiet
  BY DEF ControlInv, OwnerKnows, StoppedIsQuiet
<1> QED
  BY <1>1, PoolControl, PTL

-----------------------------------------------------------------------------
(* Tasks and notifications. *)

(* The notifications under way and the workers awake can be counted. *)
LEMMA Counts ==
    /\ IsFiniteSet(Notifying(Callers)) /\ Cardinality(Notifying(Callers)) \in Nat
    /\ IsFiniteSet(Waking(Workers)) /\ Cardinality(Waking(Workers)) \in Nat
<1>1. Notifying(Callers) \subseteq Callers /\ Waking(Workers) \subseteq Workers
  BY DEF Notifying, Waking
<1>2. IsFiniteSet(Notifying(Callers)) /\ IsFiniteSet(Waking(Workers))
  BY <1>1, FS_Subset, PoolAssumption
<1> QED
  BY <1>2, FS_CardinalityType

(* And so in the next state. *)
LEMMA CountsNext ==
    /\ IsFiniteSet(Notifying(Callers)') /\ Cardinality(Notifying(Callers)') \in Nat
    /\ IsFiniteSet(Waking(Workers)') /\ Cardinality(Waking(Workers)') \in Nat
<1>1. Notifying(Callers)' \subseteq Callers /\ Waking(Workers)' \subseteq Workers
  BY DEF Notifying, Waking
<1>2. IsFiniteSet(Notifying(Callers)') /\ IsFiniteSet(Waking(Workers)')
  BY <1>1, FS_Subset, PoolAssumption
<1> QED
  BY <1>2, FS_CardinalityType

(* The step puts no worker to sleep, brings no task and uses up neither a    *)
(* notification nor a worker that was awakened.                              *)
LEMMA SpreadMonotone ==
    ASSUME TypeOK, TypeOK', TasksSpread, running' => running, notEmpty' # {} => notEmpty # {},
           queue' = queue,
           \A c \in Callers : pc[c] = "notify" => pc'[c] = "notify",
           \A w \in Workers : pc[w] \in {"woken", "alive", "test"}
                                  => pc'[w] \in {"woken", "alive", "test"}
    PROVE  TasksSpread'
<1>1. Notifying(Callers) \subseteq Notifying(Callers)' /\ Waking(Workers) \subseteq Waking(Workers)'
  BY DEF Notifying, Waking
<1>2. /\ Cardinality(Notifying(Callers)) <= Cardinality(Notifying(Callers)')
      /\ Cardinality(Waking(Workers)) <= Cardinality(Waking(Workers)')
  BY <1>1, CountsNext, FS_Subset
<1>3. Len(queue) \in Nat
  BY DEF TypeOK
<1> QED
  BY <1>2, <1>3, Counts, CountsNext DEF TasksSpread

(* A task is pushed, and its caller is to notify. *)
LEMMA SpreadPush ==
    ASSUME TypeOK, TasksSpread, running' = running, notEmpty' = notEmpty,
           NEW c \in Callers, queue' = Append(queue, task[c]), task[c] \in Tasks,
           pc[c] # "notify", pc'[c] = "notify", \A u \in Threads : u # c => pc'[u] = pc[u]
    PROVE  TasksSpread'
<1>1. /\ Notifying(Callers)' = Notifying(Callers) \cup {c} /\ c \notin Notifying(Callers)
      /\ Waking(Workers)' = Waking(Workers)
  BY InThreads, Apart DEF Notifying, Waking
<1>2. Cardinality(Notifying(Callers)') = Cardinality(Notifying(Callers)) + 1
  BY <1>1, Counts, FS_AddElement, Zenon
<1>3. Len(queue) \in Nat /\ Len(queue') = Len(queue) + 1
  BY DEF TypeOK
<1> HIDE DEF Notifying, Waking
<1> QED
  BY <1>1, <1>2, <1>3, Counts DEF TasksSpread

(* A task is taken by a worker that was awake. *)
LEMMA SpreadTake ==
    ASSUME TypeOK, TasksSpread, running' = running, notEmpty' = notEmpty,
           NEW w \in Workers, queue # <<>>, queue' = Tail(queue),
           pc[w] = "test", pc'[w] = "notify", \A u \in Threads : u # w => pc'[u] = pc[u]
    PROVE  TasksSpread'
<1>1. /\ Notifying(Callers)' = Notifying(Callers)
      /\ Waking(Workers)' = Waking(Workers) \ {w} /\ w \in Waking(Workers)
  BY InThreads, Apart DEF Notifying, Waking
<1>2. Cardinality(Waking(Workers)') = Cardinality(Waking(Workers)) - 1
  BY <1>1, Counts, FS_RemoveElement, Zenon
<1>3. Len(queue) \in Nat /\ Len(queue') = Len(queue) - 1
  BY DEF TypeOK
<1> QED
  BY <1>1, <1>2, <1>3, Counts DEF TasksSpread

(* A notification is made, and wakes a worker if one waits. *)
LEMMA SpreadNotify ==
    ASSUME ControlInv, TasksSpread, NEW c \in Callers, RunNotify(c)
    PROVE  TasksSpread'
<1>1. /\ pc[c] = "notify" /\ Notify(c, notEmpty, notEmpty', "idle") /\ queue' = queue
      /\ running' = running
      /\ c \in Threads /\ c \notin notEmpty /\ notEmpty \in SUBSET Threads
  BY InThreads, Apart DEF RunNotify, ControlInv, TypeOK, Frame
<1>2. /\ pc'[c] = "idle"
      /\ \/ notEmpty = {} /\ notEmpty' = notEmpty
         \/ \E v \in notEmpty : /\ notEmpty' = notEmpty \ {v} /\ pc'[v] = "woken"
                                /\ \A u \in Threads : u # c /\ u # v => pc'[u] = pc[u]
  BY <1>1, NotifyMoves DEF ControlInv
<1>3. CASE notEmpty = {} /\ notEmpty' = notEmpty
  BY <1>3 DEF TasksSpread
<1>4. ASSUME NEW v \in notEmpty, notEmpty' = notEmpty \ {v}, pc'[v] = "woken",
             \A u \in Threads : u # c /\ u # v => pc'[u] = pc[u]
      PROVE  TasksSpread'
  <2>1. v \in Workers /\ pc[v] = "waiting" /\ v # c
    BY Apart DEF ControlInv, TypeOK, Waiters
  <2>2. Notifying(Callers)' = Notifying(Callers) \ {c} /\ c \in Notifying(Callers)
    BY <1>1, <1>2, <1>4, <2>1, InThreads, Apart DEF Notifying
  <2>3. Waking(Workers)' = Waking(Workers) \cup {v} /\ v \notin Waking(Workers)
    BY <1>1, <1>2, <1>4, <2>1, InThreads, Apart DEF Waking
  <2>4. Cardinality(Notifying(Callers)') = Cardinality(Notifying(Callers)) - 1
    BY <2>2, Counts, FS_RemoveElement, Zenon
  <2>5. Cardinality(Waking(Workers)') = Cardinality(Waking(Workers)) + 1
    BY <2>3, Counts, FS_AddElement, Zenon
  <2>6. Len(queue) \in Nat
    BY DEF ControlInv, TypeOK
  <2> QED
    BY <1>1, <2>4, <2>5, <2>6, Counts DEF TasksSpread
<1> QED
  BY <1>2, <1>3, <1>4

(* An empty queue needs nobody. *)
LEMMA EmptySpread == TypeOK /\ TypeOK' /\ queue' = <<>> => TasksSpread'
<1>1. Len(<<>>) = 0
  OBVIOUS
<1> QED
  BY <1>1, CountsNext DEF TasksSpread

(* A worker leaves a notification or an awakened worker for each task that   *)
(* is left.                                                                  *)
LEMMA WorkerSpread ==
    ASSUME ControlInv, ControlInv', TasksSpread, NEW w \in Workers, WorkerStep(w)
    PROVE  TasksSpread'
<1> USE DEF ControlInv
<1>0. w \in Threads /\ w \notin Callers
  BY InThreads, Apart
<1>1. CASE \/ Lock(w) \/ Relock(w) \/ WorkerCheck(w) \/ TaskReturns(w)
           \/ WorkerAlive(w) /\ running
  <2>1. /\ UNCHANGED <<running, notEmpty, queue>>
        /\ \A u \in Threads : u # w => pc'[u] = pc[u]
        /\ pc[w] \in {"check", "task"} \/ pc'[w] \in {"alive", "test"}
    BY <1>0, <1>1, GotoMoves DEF Lock, Relock, WorkerCheck, TaskReturns, WorkerAlive, Frame
  <2> QED
    BY <1>0, <2>1, InThreads, SpreadMonotone
<1>2. CASE WorkerAlive(w) /\ ~running
  BY <1>2 DEF WorkerAlive, Frame, TasksSpread
<1>3. CASE Block(w)
  <2>1. queue = <<>> /\ queue' = queue
    BY <1>3 DEF Block, Goto, Frame, BlockedOnEmpty
  <2> QED
    BY <2>1, EmptySpread
<1>4. CASE WorkerTest(w) /\ queue = <<>>
  BY <1>4, EmptySpread DEF WorkerTest
<1>5. CASE WorkerTest(w) /\ queue # <<>>
  BY <1>0, <1>5, GotoMoves, SpreadTake DEF WorkerTest
<1>6. CASE WorkerNotify(w)
  <2>1. /\ pc[w] = "notify" /\ Notify(w, notFull, notFull', "task") /\ queue' = queue
        /\ running' = running /\ notEmpty' = notEmpty
        /\ w \notin notFull /\ notFull \in SUBSET Threads
    BY <1>0, <1>6, InThreads DEF WorkerNotify, TypeOK, Frame
  <2>2. \/ \A u \in Threads : u # w => pc'[u] = pc[u]
        \/ \E v \in notFull : \A u \in Threads : u # w /\ u # v => pc'[u] = pc[u]
    BY <1>0, <2>1, NotifyMoves
  <2>3. \A v \in notFull : pc[v] = "waiting" /\ v \notin Workers
    BY Apart DEF Waiters, TypeOK
  <2> QED
    BY <1>0, <2>1, <2>2, <2>3, InThreads, SpreadMonotone
<1>7. \/ Lock(w) \/ Block(w) \/ Relock(w) \/ WorkerCheck(w) \/ WorkerTest(w)
      \/ WorkerAlive(w) \/ WorkerNotify(w) \/ TaskReturns(w)
  BY DEF WorkerStep
<1> HIDE DEF ControlInv
<1> QED
  BY <1>1, <1>2, <1>3, <1>4, <1>5, <1>6, <1>7, Zenon

(* A caller brings a notification with each task. *)
LEMMA CallerSpread ==
    ASSUME ControlInv, ControlInv', TasksSpread, NEW c \in Callers,
           RunStep(c) \/ \E x \in Tasks : Run(c, x)
    PROVE  TasksSpread'
<1> USE DEF ControlInv
<1>0. c \in Threads /\ c \notin Workers
  BY InThreads, Apart
<1>1. ASSUME UNCHANGED <<running, notEmpty, queue>>, pc[c] # "notify",
             \A u \in Threads : u # c => pc'[u] = pc[u]
      PROVE  TasksSpread'
  BY <1>0, <1>1, InThreads, SpreadMonotone
<1>2. CASE Lock(c) \/ Relock(c) \/ Block(c) \/ RunAlive(c)
  BY <1>0, <1>1, <1>2, GotoMoves DEF Lock, Relock, Block, RunAlive, Frame
<1>3. CASE \E x \in Tasks : Run(c, x)
  BY <1>0, <1>1, <1>3, GotoMoves DEF Run, Frame
<1>4. CASE RunTest(c)
  <2>1. CASE IsFull
    BY <1>0, <1>1, <1>4, <2>1, GotoMoves DEF RunTest
  <2>2. CASE ~IsFull
    <3>1. pc[c] = "test" => task[c] \in Tasks
      BY DEF Bringing
    <3>2. /\ running' = running /\ notEmpty' = notEmpty /\ queue' = Append(queue, task[c])
          /\ pc[c] = "test" /\ pc'[c] = "notify"
          /\ \A u \in Threads : u # c => pc'[u] = pc[u]
      BY <1>0, <1>4, <2>2, GotoMoves DEF RunTest
    <3> QED
      BY <3>1, <3>2, SpreadPush
  <2> QED
    BY <2>1, <2>2
<1>5. CASE RunNotify(c)
  BY <1>5, SpreadNotify
<1> HIDE DEF ControlInv
<1> QED
  BY <1>2, <1>3, <1>4, <1>5 DEF RunStep

(* Start, Stop and spurious wakeups take no notification away. *)
LEMMA OwnerSpread ==
    ASSUME ControlInv, ControlInv', TasksSpread,
           \/ \E t \in Threads : SpuriousWakeup(t)
           \/ \E ws \in SUBSET Workers : Start(ws)
           \/ Stop \/ OwnerStep \/ UNCHANGED vars
    PROVE  TasksSpread'
<1> USE DEF ControlInv
<1>1. ASSUME NEW t \in Threads, SpuriousWakeup(t) PROVE TasksSpread'
  <2>0. t \in notEmpty \cup notFull /\ pc' = Wake({t}) /\ notEmpty' = notEmpty \ {t}
    BY <1>1 DEF SpuriousWakeup
  <2>1. /\ UNCHANGED <<running, queue>> /\ (notEmpty' # {} => notEmpty # {})
        /\ pc[t] = "waiting" /\ pc'[t] = "woken"
        /\ \A u \in Threads : u # t => pc'[u] = pc[u]
    <3>1. \A u \in Threads : pc'[u] = IF u \in {t} THEN "woken" ELSE pc[u]
      BY <2>0, WakeMoves
    <3>2. pc[t] = "waiting"
      BY <2>0 DEF Waiters, TypeOK
    <3> QED
      BY <1>1, <2>0, <3>1, <3>2 DEF SpuriousWakeup, Frame
  <2> QED
    BY <2>1, InThreads, SpreadMonotone
<1>2. ASSUME NEW ws \in SUBSET Workers, Start(ws) PROVE TasksSpread'
  <2>1. \A w \in Workers : pc[w] # "waiting"
    BY <1>2 DEF Start, OwnerKnows
  <2>2. notEmpty' = {}
    BY <1>2, <2>1 DEF Start, Waiters, TypeOK
  <2> QED
    BY <2>2 DEF TasksSpread
<1>3. CASE Stop \/ StopNotEmpty \/ StopNotFull \/ \E w \in Workers : Join(w)
  <2>1. ~running'
    BY <1>3 DEF Stop, StopNotEmpty, StopNotFull, Join, OwnerKnows
  <2> QED
    BY <2>1 DEF TasksSpread
<1>4. ASSUME NEW w \in Workers, StartThread(w) PROVE TasksSpread'
  <2>1. /\ UNCHANGED <<running, notEmpty, queue>> /\ pc[w] = "new"
        /\ \A u \in Threads : u # w => pc'[u] = pc[u]
    BY <1>4, InThreads, GotoMoves DEF StartThread, poolFrame
  <2> QED
    BY <2>1, InThreads, Apart, SpreadMonotone
<1>5. CASE UNCHANGED vars
  BY <1>5, SpreadMonotone DEF vars
<1> QED
  BY <1>1, <1>2, <1>3, <1>4, <1>5 DEF OwnerStep

(* While the pool runs and a worker waits in not_empty_cond_, the queued     *)
(* tasks are no more than the workers that are awake for one and the Notify  *)
(* calls still to come: no notification made after the unlock is lost, and   *)
(* no wakeup is wasted, whatever the order of pushes, takes, spurious        *)
(* wakeups and restarts.                                                     *)
THEOREM NoTaskLeftAsleep == Spec => []TasksSpread
<1>1. Init => TasksSpread
  BY DEF Init, TasksSpread
<1>2. ControlInv /\ ControlInv' /\ TasksSpread /\ [Next]_vars => TasksSpread'
  BY WorkerSpread, CallerSpread, OwnerSpread DEF Next
<1> QED
  BY <1>1, <1>2, PoolControl, PTL DEF Spec

-----------------------------------------------------------------------------
(* The queue. *)


(* Taking the first task leaves the order. *)
LEMMA TaskTaken ==
    ASSUME NEW t \in Seq(Tasks), NEW q \in Seq(Tasks), q # <<>>
    PROVE  Append(t, Head(q)) \o Tail(q) = t \o q
<1>1. Head(q) \in Tasks /\ Tail(q) \in Seq(Tasks) /\ q = <<Head(q)>> \o Tail(q)
  OBVIOUS
<1>2. <<Head(q)>> \in Seq(Tasks) /\ Append(t, Head(q)) = t \o <<Head(q)>>
  BY <1>1
<1>3. (t \o <<Head(q)>>) \o Tail(q) = t \o (<<Head(q)>> \o Tail(q))
  BY <1>1, <1>2
<1> QED
  BY <1>1, <1>2, <1>3

(* Queueing a task at the end leaves the order. *)
LEMMA TaskPushed ==
    ASSUME NEW t \in Seq(Tasks), NEW q \in Seq(Tasks), NEW x \in Tasks
    PROVE  t \o Append(q, x) = Append(t \o q, x)
<1>1. <<x>> \in Seq(Tasks) /\ Append(q, x) = q \o <<x>> /\ t \o q \in Seq(Tasks)
  OBVIOUS
<1>2. Append(t \o q, x) = (t \o q) \o <<x>>
  BY <1>1
<1> QED
  BY <1>1, <1>2

(* What a step does to the tasks: nothing, one is taken off the front of     *)
(* queue_, or one is put at its back when there is room.                     *)
LEMMA TaskStep ==
    ASSUME ControlInv, [Next]_vars
    PROVE  \/ UNCHANGED <<queue, taken, pushed>>
           \/ /\ queue # <<>> /\ queue' = Tail(queue) /\ taken' = Append(taken, Head(queue))
              /\ pushed' = pushed
           \/ \E x \in Tasks : /\ ~IsFull
                               /\ queue' = Append(queue, x) /\ pushed' = Append(pushed, x)
                               /\ taken' = taken
<1>1. ASSUME NEW w \in Workers, WorkerTest(w)
      PROVE  \/ UNCHANGED <<queue, taken, pushed>>
             \/ /\ queue # <<>> /\ queue' = Tail(queue) /\ taken' = Append(taken, Head(queue))
                /\ pushed' = pushed
  BY <1>1 DEF WorkerTest
<1>2. ASSUME NEW c \in Callers, RunTest(c)
      PROVE  \/ UNCHANGED <<queue, taken, pushed>>
             \/ \E x \in Tasks : /\ ~IsFull
                                 /\ queue' = Append(queue, x) /\ pushed' = Append(pushed, x)
                                 /\ taken' = taken
  <2>1. pc[c] = "test" => task[c] \in Tasks
    BY DEF ControlInv, Bringing
  <2> QED
    BY <1>2, <2>1 DEF RunTest, Goto
<1>3. ASSUME NEW w \in Workers, WorkerStep(w), ~WorkerTest(w)
      PROVE  UNCHANGED <<queue, taken, pushed>>
  BY <1>3 DEF WorkerStep, Lock, Block, Relock, WorkerCheck, WorkerAlive, WorkerNotify, TaskReturns,
              Frame
<1>4. ASSUME NEW c \in Callers, RunStep(c) \/ \E x \in Tasks : Run(c, x), ~RunTest(c)
      PROVE  UNCHANGED <<queue, taken, pushed>>
  BY <1>4 DEF RunStep, Run, Lock, Block, Relock, RunAlive, RunNotify, Frame
<1>5. CASE \/ \E t \in Threads : SpuriousWakeup(t)
           \/ \E ws \in SUBSET Workers : Start(ws)
           \/ Stop \/ OwnerStep \/ UNCHANGED vars
  BY <1>5, Zenon DEF SpuriousWakeup, Frame, Start, Stop, OwnerStep, StartThread, Join, StopNotEmpty,
              StopNotFull, poolFrame, vars
<1> QED
  BY <1>1, <1>2, <1>3, <1>4, <1>5 DEF Next

(* Tasks are taken in the order in which Run has pushed them, each once and  *)
(* none lost, and the queue never grows beyond max_queue_size, whatever the  *)
(* number of callers and workers and however Stop and Start intervene.       *)
THEOREM QueueIsKept == Spec => [](TasksInOrder /\ QueueBounded)
<1>1. Init => TasksInOrder /\ QueueBounded
  <2>1. <<>> \o <<>> = <<>> /\ Len(<<>>) = 0
    OBVIOUS
  <2>2. Init => TasksInOrder
    BY <2>1 DEF Init, TasksInOrder
  <2>3. Init => QueueBounded
    BY <2>1, PoolAssumption DEF Init, QueueBounded
  <2> QED
    BY <2>2, <2>3
<1>2. ControlInv /\ TasksInOrder /\ [Next]_vars => TasksInOrder'
  <2> SUFFICES ASSUME ControlInv, TasksInOrder, [Next]_vars PROVE TasksInOrder'
    OBVIOUS
  <2>0. queue \in Seq(Tasks) /\ taken \in Seq(Tasks)
    BY DEF ControlInv, TypeOK
  <2>1. CASE UNCHANGED <<queue, taken, pushed>>
    BY <2>1 DEF TasksInOrder
  <2>2. CASE /\ queue # <<>> /\ queue' = Tail(queue) /\ taken' = Append(taken, Head(queue))
             /\ pushed' = pushed
    BY <2>0, <2>2, TaskTaken DEF TasksInOrder
  <2>3. ASSUME NEW x \in Tasks, queue' = Append(queue, x), pushed' = Append(pushed, x), taken' = taken
        PROVE  TasksInOrder'
    BY <2>0, <2>3, TaskPushed DEF TasksInOrder
  <2> QED
    BY <2>1, <2>2, <2>3, TaskStep
<1>3. ControlInv /\ QueueBounded /\ [Next]_vars => QueueBounded'
  <2> SUFFICES ASSUME ControlInv, QueueBounded, [Next]_vars PROVE QueueBounded'
    OBVIOUS
  <2>0. queue \in Seq(Tasks) /\ Len(queue) \in Nat /\ MaxQueueSize \in Int
    BY PoolAssumption DEF ControlInv, TypeOK
  <2>1. CASE UNCHANGED <<queue, taken, pushed>>
    BY <2>1 DEF QueueBounded
  <2>2. CASE queue # <<>> /\ queue' = Tail(queue)
    <3>1. Len(queue') = Len(queue) - 1
      BY <2>0, <2>2
    <3> QED
      BY <2>0, <3>1 DEF QueueBounded
  <2>3. ASSUME NEW x \in Tasks, ~IsFull, queue' = Append(queue, x)
        PROVE  QueueBounded'
    <3>1. Len(queue') = Len(queue) + 1
      BY <2>0, <2>3
    <3> QED
      BY <2>0, <2>3, <3>1 DEF QueueBounded, IsFull
  <2> QED
    BY <2>1, <2>2, <2>3, TaskStep
<1> QED
  BY <1>1, <1>2, <1>3, PoolControl, PTL DEF Spec
=============================================================================
