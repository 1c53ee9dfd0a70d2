----------------------------- MODULE ThreadProofs -----------------------------
(***************************************************************************)
(* Proofs about Thread and about EventLoopThread, which starts its threads *)
(* with it, for any number of threads; and about Acceptor, which shares    *)
(* the descriptors of the process with other threads, for any number of    *)
(* descriptors and peers.                                                  *)
(***************************************************************************)
EXTENDS EventLoopThread, Acceptor, FiniteSetTheorems, TLAPS

Holding == {"assign", "in", "guard", "wait", "unassign", "unlock"}
Named == {"in", "guard", "unassign"}
Counted == {"unassign", "unlock", "out"}

(* mutex_ and holder_ are where the program counters say, count_ is 0 and    *)
(* tid_ stored when the runner is past them, and the starter is past the     *)
(* test of count_ only when the runner has unlocked the mutex.               *)
LatchRight(t) ==
    /\ \A u \in Users : /\ mutex[t] = u <=> at[t][u] \in Holding
                        /\ holder[t] = u <=> at[t][u] \in Named
    /\ count[t] = 0 <=> at[t].runner \in Counted
    /\ tid[t] <=> at[t].runner \notin {"off", "tid"}
    /\ started[t] <=> at[t].runner # "off"
    /\ at[t].starter \in Counted => at[t].runner = "out"

StartInv == StartTypeOK /\ \A t \in Threads : LatchRight(t)

(* What a thread and the owner of its EventLoopThread know of each other:    *)
(* loop_ is set exactly while there is an EventLoop, lock_ is held from Stop *)
(* until it waits, and a thread that the owner is past has been in           *)
(* ThreadFunc.                                                               *)
Quitting == {"quit", "looks", "sleeps", "asleep"}

OwnerInv ==
    /\ \A t \in Threads : loop[t] <=> LoopLives(t)
    /\ \A t \in Threads : phase # "start" \/ t < i => tpc[t] # "off"
    /\ cpc \in Quitting => phase # "start"
    /\ phase = "stop" /\ cpc \in Quitting => lock[i] /\ loop[i]
    /\ \A t \in Threads : phase = "stop" /\ (t < i \/ cpc = "over") => ~loop[t]
    /\ cpc = "over" => phase = "stop"

LoopThreadInv == TypeOK /\ OwnerInv

-----------------------------------------------------------------------------
(* Thread. *)

(* A new Thread has not been started. *)
LEMMA StartInitInv == StartInit => StartInv
BY DEF StartInit, StartInv, StartTypeOK, LatchRight, StarterPlaces, RunnerPlaces, Users, Holding,
       Named, Counted

(* What MutexLock does keeps mutex_ and holder_ right, whoever does it. *)
LEMMA MutexInv ==
    ASSUME StartInv, NEW t \in Threads, NEW u \in Users,
           \/ MutexLocks(t, u) \/ AssignHolder(t, u)
           \/ UnassignHolder(t, u) \/ MutexUnlocks(t, u)
    PROVE  StartInv'
<1> USE DEF StartInv, StartTypeOK, LatchRight, Go, StarterPlaces, RunnerPlaces, Users, Holding,
            Named, Counted
<1>1. CASE MutexLocks(t, u)
  BY <1>1, SMTT(60) DEF MutexLocks
<1>2. CASE AssignHolder(t, u)
  BY <1>2, SMTT(30) DEF AssignHolder
<1>3. CASE UnassignHolder(t, u)
  BY <1>3, SMTT(30) DEF UnassignHolder
<1>4. CASE MutexUnlocks(t, u)
  BY <1>4, SMTT(30) DEF MutexUnlocks
<1> QED
  BY <1>1, <1>2, <1>3, <1>4, Zenon

(* Start, RunThread and Wait keep the invariant. *)
LEMMA StartNextInv == StartInv /\ [StartNext]_startVars => StartInv'
<1> SUFFICES ASSUME StartInv, [StartNext]_startVars PROVE StartInv'
  OBVIOUS
<1>1. CASE UNCHANGED startVars
  BY <1>1 DEF startVars, latchVars, StartInv, StartTypeOK, LatchRight
<1>2. ASSUME NEW t \in Threads,
             Start(t) \/ StartFails(t) \/ StarterStep(t) \/ WakesSpuriously(t) \/ RunnerStep(t)
      PROVE  StartInv'
  <2>m. ASSUME NEW u \in Users,
               \/ MutexLocks(t, u) \/ AssignHolder(t, u)
               \/ UnassignHolder(t, u) \/ MutexUnlocks(t, u)
        PROVE  StartInv'
    BY <2>m, MutexInv
  <2>u. "starter" \in Users /\ "runner" \in Users
    BY DEF Users
  <2> USE DEF StartInv, StartTypeOK, LatchRight, Go, latchVars, StarterPlaces, RunnerPlaces, Users,
              Holding, Named, Counted
  <2>1. CASE Start(t)
    BY <2>1, SMTT(30) DEF Start
  <2>2. CASE StartFails(t)
    BY <2>2, SMTT(30) DEF StartFails
  <2>3. CASE StoreTid(t)
    BY <2>3, SMTT(30) DEF StoreTid
  <2>4. CASE CountDown(t)
    BY <2>4, SMTT(60) DEF CountDown
  <2>5. CASE WaitTests(t)
    BY <2>5, SMTT(30) DEF WaitTests
  <2>6. CASE WaitGuards(t)
    BY <2>6, SMTT(30) DEF WaitGuards
  <2>7. CASE WaitSleeps(t)
    BY <2>7, SMTT(30) DEF WaitSleeps
  <2>8. CASE WakesSpuriously(t)
    BY <2>8, SMTT(30) DEF WakesSpuriously
  <2>9. CASE WaitReturns(t)
    BY <2>9, SMTT(60) DEF WaitReturns
  <2> HIDE DEF StartInv, Users
  <2> QED
    BY <1>2, <2>m, <2>u, <2>1, <2>2, <2>3, <2>4, <2>5, <2>6, <2>7, <2>8, <2>9
       DEF StarterStep, RunnerStep
<1> QED
  BY <1>1, <1>2 DEF StartNext

(* Every step of an EventLoopThread starts its Thread, runs it, or leaves it *)
(* alone.                                                                    *)
LEMMA NextStarts == TypeOK /\ [Next]_vars => [StartNext]_startVars
<1> SUFFICES ASSUME TypeOK, [Next]_vars PROVE [StartNext]_startVars
  OBVIOUS
<1>1. CASE UNCHANGED vars
  BY <1>1 DEF vars
<1>2. CASE OwnerStep
  BY <1>2 DEF TypeOK, OwnerStep, StartLoop, StartReturned, StartWait, PoolQuit, Stop, Quit,
     QuitLooks, QuitSleeps, StopWait, StartNext
<1>3. ASSUME NEW t \in Threads,
             \/ StarterRuns(t) \/ RunnerRuns(t) \/ StarterWakes(t)
             \/ ThreadFunc(t) \/ QuitsItself(t)
      PROVE  [StartNext]_startVars
  BY <1>3 DEF StarterRuns, RunnerRuns, StarterWakes, ThreadFunc, ThreadSet, LoopBegins, LoopEnds,
     LoopNotifies, ThreadClears, ThreadExits, QuitsItself, StartNext
<1> QED
  BY <1>1, <1>2, <1>3 DEF Next

-----------------------------------------------------------------------------
(* EventLoopThread. *)

(* A thread that was not started yet has no loop. *)
LEMMA LoopThreadInitInv == Init => LoopThreadInv
BY ThreadAssumption, StartInitInv DEF Init, StartInv, LoopThreadInv, TypeOK, OwnerInv, LoopLives,
   Quitting, Phases, Threads

(* Thread keeps its own types. *)
LEMMA StartTypeKept == StartInv /\ TypeOK /\ [Next]_vars => StartInv'
BY StartNextInv, NextStarts

(* A thread in ThreadFunc keeps the invariant: it leaves its EventLoop only  *)
(* when the owner does not hold lock_.                                       *)
LEMMA ThreadFuncInv ==
    ASSUME LoopThreadInv, StartTypeOK', NEW t \in Threads, ThreadFunc(t) \/ QuitsItself(t)
    PROVE  LoopThreadInv'
<1> USE DEF LoopThreadInv, TypeOK, OwnerInv, LoopLives, Quitting, Woken, threadVars, ownerVars
<1>1. CASE ThreadSet(t)
  BY <1>1 DEF ThreadSet
<1>2. CASE LoopBegins(t)
  BY <1>2 DEF LoopBegins
<1>3. CASE QuitsItself(t)
  BY <1>3 DEF QuitsItself
<1>4. CASE LoopEnds(t)
  BY <1>4 DEF LoopEnds
<1>5. CASE LoopNotifies(t)
  BY <1>5 DEF LoopNotifies
<1>6. CASE ThreadClears(t)
  BY <1>6 DEF ThreadClears
<1>7. CASE ThreadExits(t)
  BY <1>7 DEF ThreadExits
<1> QED
  BY <1>1, <1>2, <1>3, <1>4, <1>5, <1>6, <1>7 DEF ThreadFunc

(* When the owner is done with thread i, it is past it. *)
LEMMA DoneInv ==
    ASSUME LoopThreadInv, StartTypeOK', Done, UNCHANGED threadVars,
           tpc[i] # "off", phase = "stop" => ~loop[i], cpc # "over",
           quit' \in [Threads -> BOOLEAN], lock' \in [Threads -> BOOLEAN]
    PROVE  LoopThreadInv'
<1> USE DEF LoopThreadInv, TypeOK, OwnerInv, LoopLives, Quitting, threadVars, Phases
<1>1. CASE i < N
  <2>1. i + 1 \in Threads /\ \A t \in Threads : t < i + 1 => t < i \/ t = i
    BY <1>1, ThreadAssumption DEF Threads
  <2> QED
    BY <1>1, <2>1 DEF Done
<1>2. CASE ~(i < N)
  <2>1. 1 \in Threads /\ (\A t \in Threads : ~(t < 1)) /\ \A t \in Threads : t < i \/ t = i
    BY <1>2, ThreadAssumption DEF Threads
  <2>2. i' = 1 /\ phase' = (IF phase = "start" /\ PoolQuits THEN "quit" ELSE "stop")
        /\ cpc' = (IF phase = "stop" THEN "over" ELSE "begin")
    BY <1>2 DEF Done
  <2>3. TypeOK'
    BY <2>1, <2>2
  <2>4. OwnerInv'
    BY <2>1, <2>2
  <2> QED
    BY <2>3, <2>4
<1> QED
  BY <1>1, <1>2

(* Every step of the owner keeps it. *)
LEMMA OwnerStepInv ==
    ASSUME LoopThreadInv, StartTypeOK', OwnerStep
    PROVE  LoopThreadInv'
<1> USE DEF LoopThreadInv, TypeOK, OwnerInv, LoopLives, Quitting, threadVars
<1>0. i \in Threads
  OBVIOUS
<1>1. CASE StartLoop
  BY <1>1 DEF StartLoop
<1>2. CASE StartReturned
  BY <1>2 DEF StartReturned
<1>3. CASE StartWait
  <2>1. CASE loop[i]
    <3>1. Done /\ UNCHANGED <<threadVars, lock, quit>>
      BY <1>3, <2>1 DEF StartWait
    <3>2. tpc[i] # "off" /\ phase # "stop" /\ cpc # "over"
      BY <1>0, <1>3, <2>1 DEF StartWait
    <3>3. quit' \in [Threads -> BOOLEAN] /\ lock' \in [Threads -> BOOLEAN]
      BY <3>1
    <3> HIDE DEF LoopThreadInv
    <3> QED
      BY <3>1, <3>2, <3>3, DoneInv
  <2> QED
    BY <1>3, <2>1 DEF StartWait
<1>4. CASE PoolQuit
  BY <1>4 DEF PoolQuit
<1>5. CASE Stop
  <2>1. CASE loop[i]
    BY <1>0, <1>5, <2>1 DEF Stop
  <2>2. CASE ~loop[i]
    <3>1. Done /\ UNCHANGED <<threadVars, lock, quit>> /\ cpc # "over"
      BY <1>5, <2>2 DEF Stop
    <3>2. tpc[i] # "off"
      BY <1>0, <1>5 DEF Stop
    <3>3. quit' \in [Threads -> BOOLEAN] /\ lock' \in [Threads -> BOOLEAN]
      BY <3>1
    <3> HIDE DEF LoopThreadInv
    <3> QED
      BY <2>2, <3>1, <3>2, <3>3, DoneInv
  <2> QED
    BY <2>1, <2>2
<1>q. ASSUME QuitReturns, cpc \in Quitting, UNCHANGED <<threadVars, lock>>,
             quit' \in [Threads -> BOOLEAN]
      PROVE  LoopThreadInv'
  <2>1. CASE phase = "quit"
    <3>1. Done
      BY <1>q, <2>1 DEF QuitReturns
    <3>2. tpc[i] # "off" /\ cpc # "over" /\ phase # "stop"
      BY <1>0, <1>q, <2>1
    <3>3. lock' \in [Threads -> BOOLEAN]
      BY <1>q
    <3> HIDE DEF LoopThreadInv
    <3> QED
      BY <1>q, <3>1, <3>2, <3>3, DoneInv
  <2> QED
    BY <1>q, <2>1 DEF QuitReturns
<1>6. CASE Quit
  <2>1. CASE quit' = [quit EXCEPT ![i] = TRUE] /\ cpc' = "looks" /\ UNCHANGED <<phase, i>>
    BY <1>0, <1>6, <2>1 DEF Quit
  <2>2. CASE QuitReturns /\ UNCHANGED quit
    <3>1. cpc \in Quitting /\ UNCHANGED <<threadVars, lock>> /\ quit' \in [Threads -> BOOLEAN]
      BY <1>6, <2>2 DEF Quit
    <3> QED
      BY <1>q, <2>2, <3>1
  <2> QED
    BY <1>6, <2>1, <2>2 DEF Quit
<1>7. CASE QuitLooks
  <2>1. CASE cpc' = "sleeps" /\ UNCHANGED <<phase, i>>
    BY <1>7, <2>1 DEF QuitLooks
  <2>2. CASE QuitReturns
    <3>1. cpc \in Quitting /\ UNCHANGED <<threadVars, lock>> /\ quit' \in [Threads -> BOOLEAN]
      BY <1>7, <2>2 DEF QuitLooks
    <3> QED
      BY <1>q, <2>2, <3>1
  <2> QED
    BY <1>7, <2>1, <2>2 DEF QuitLooks
<1>8. CASE QuitSleeps
  BY <1>8 DEF QuitSleeps
<1>9. CASE StopWait
  <2>1. UNCHANGED threadVars /\ UNCHANGED quit /\ lock' \in [Threads -> BOOLEAN]
        /\ phase = "stop" /\ cpc = "check"
    BY <1>9 DEF StopWait
  <2>2. CASE loop[i]
    BY <1>9, <2>1, <2>2 DEF StopWait
  <2>3. CASE ~loop[i]
    <3>1. Done /\ tpc[i] # "off" /\ cpc # "over"
      BY <1>0, <1>9, <2>3 DEF StopWait
    <3>2. quit' \in [Threads -> BOOLEAN]
      BY <2>1
    <3> HIDE DEF LoopThreadInv
    <3> QED
      BY <2>1, <2>3, <3>1, <3>2, DoneInv
  <2> QED
    BY <2>2, <2>3
<1> QED
  BY <1>1, <1>2, <1>3, <1>4, <1>5, <1>6, <1>7, <1>8, <1>9 DEF OwnerStep

(* The invariant of Thread and of EventLoopThread together. *)
THEOREM Invariance == Spec => [](StartInv /\ LoopThreadInv)
<1>1. Init => StartInv /\ LoopThreadInv
  BY StartInitInv, LoopThreadInitInv DEF Init
<1>2. StartInv /\ LoopThreadInv /\ [Next]_vars => (StartInv /\ LoopThreadInv)'
  <2> SUFFICES ASSUME StartInv, LoopThreadInv, [Next]_vars
               PROVE  StartInv' /\ LoopThreadInv'
    OBVIOUS
  <2>1. StartInv' /\ StartTypeOK'
    BY StartTypeKept DEF LoopThreadInv, StartInv
  <2>2. CASE OwnerStep
    BY <2>1, <2>2, OwnerStepInv
  <2>3. ASSUME NEW t \in Threads, ThreadFunc(t) \/ QuitsItself(t)
        PROVE  LoopThreadInv'
    BY <2>1, <2>3, ThreadFuncInv
  <2>4. ASSUME UNCHANGED loopThreadVars
        PROVE  LoopThreadInv'
    BY <2>1, <2>4 DEF loopThreadVars, threadVars, ownerVars, LoopThreadInv, TypeOK, OwnerInv,
       LoopLives
  <2> QED
    BY <2>1, <2>2, <2>3, <2>4 DEF Next, vars, StarterRuns, RunnerRuns, StarterWakes
<1> QED
  BY <1>1, <1>2, PTL DEF Spec

(* holder_ names the thread that has locked the mutex, and inside the lock   *)
(* it is the thread itself (mutex.h:33), for any number of threads.          *)
THEOREM HolderIsRight == Spec => []HolderLocked
<1>1. StartInv => HolderLocked
  BY SMTT(30) DEF StartInv, StartTypeOK, LatchRight, HolderLocked, Users, Holding, Named
<1> QED
  BY Invariance, <1>1, PTL

(* Thread::Start returns only when the new thread has stored tid_ and is     *)
(* done with latch_ (thread.cc:47-50, 93).                                   *)
THEOREM StartIsSafe == Spec => []StartedForGood
<1>1. StartInv => StartedForGood
  BY DEF StartInv, LatchRight, StartedForGood, Counted
<1> QED
  BY Invariance, <1>1, PTL

(* EventLoopThread::Stop never calls Quit on an EventLoop that is gone       *)
(* (event_loop_thread.cc:22-25).                                             *)
THEOREM StopQuitsLiveLoop == Spec => []QuitOnLive
<1>1. LoopThreadInv => QuitOnLive
  BY DEF LoopThreadInv, TypeOK, OwnerInv, QuitOnLive, Quitting
<1> QED
  BY Invariance, <1>1, PTL

(* When Stop has returned, the thread does not use the EventLoopThread again *)
(* (event_loop_thread.cc:26-27, 80-84).                                      *)
THEOREM StopLeavesQuiet == Spec => []StoppedQuiet
<1>1. LoopThreadInv => StoppedQuiet
  BY DEF LoopThreadInv, TypeOK, OwnerInv, StoppedQuiet, LoopLives
<1> QED
  BY Invariance, <1>1, PTL

-----------------------------------------------------------------------------
(* Acceptor: HandleRead loses no connection, at the limit of the           *)
(* descriptors too, and the process survives that limit.                   *)

(* What dummy_fd_ is at each step of HandleRead. *)
DummyRight ==
    /\ apc \in {"new", "wait", "accept"} => dummy = "idle"
    /\ apc \in {"given", "reopen"} => dummy = "closed"
    /\ apc = "taken" => dummy \in {"socket", "closed"}
    /\ apc = "dead" => dummy \in {"idle", "closed"}
    /\ zero = "dummy" => dummy # "closed"

(* The peers are accepted or refused in the order in which they connect, so  *)
(* that the connections handed to cb_ are of peers that left the backlog.    *)
InTurn ==
    /\ backlog <= peers
    /\ \A c \in DOMAIN peerAddr : c <= peers - backlog
    /\ open <= Cardinality(DOMAIN peerAddr)
    /\ sharing \subseteq DOMAIN peerAddr

(* The descriptor that HandleRead gave up is free until another thread takes *)
(* it.                                                                       *)
RoomKept ==
    apc \in {"given", "taken", "reopen"} /\ "stolen" \notin mishaps =>
        open + others < MaxFds \/ zero \in {"free", "dummy"}

(* Why the process ended, and what cb_ was called with. *)
Mishaps ==
    /\ aborted = "open" => "stolen" \in mishaps
    /\ aborted = "ENFILE" => "ENFILE" \in mishaps
    /\ bad => mishaps \cap {"EINTR", "ECONNABORTED"} # {}

AcceptorInv == AcceptorTypeOK /\ DummyRight /\ InTurn /\ NoneLost /\ RoomKept /\ Mishaps

-----------------------------------------------------------------------------
(* The connections handed to cb_ can be counted. *)
LEMMA Countable ==
    ASSUME AcceptorTypeOK
    PROVE  /\ IsFiniteSet(DOMAIN peerAddr)
           /\ Cardinality(DOMAIN peerAddr) \in Nat
<1>1. IsFiniteSet(Peers)
  BY FS_Interval, AcceptorAssumption DEF Peers
<1>2. IsFiniteSet(DOMAIN peerAddr)
  BY <1>1, FS_Subset DEF AcceptorTypeOK
<1> QED
  BY <1>2, FS_CardinalityType

(* Accept takes the oldest waiting connection: no connection handed to cb_   *)
(* before has its number.                                                    *)
LEMMA AcceptKeeps ==
    ASSUME AcceptorInv, AcceptNew
    PROVE  AcceptorInv'
<1> DEFINE p == peers - backlog + 1
<1>1. /\ p \in Peers /\ p \in Nat /\ p \notin DOMAIN peerAddr
      /\ \A c \in DOMAIN peerAddr : c \in Nat /\ c <= p
  BY AcceptorAssumption DEF AcceptorInv, AcceptorTypeOK, InTurn, AcceptNew, Peers
<1>2. /\ sharing' = IF zero # "free" /\ cb THEN sharing \cup {p} ELSE sharing
      /\ open' = IF zero # "free" /\ cb THEN open + 1 ELSE open
      /\ DOMAIN peerAddr' = sharing' \cup DOMAIN peerAddr
      /\ refused' = IF zero # "free" /\ ~cb THEN refused + 1 ELSE refused
      /\ zero' = IF zero = "free" THEN "stray" ELSE zero
      /\ apc' = IF zero = "free" THEN "wait" ELSE apc
      /\ backlog' = backlog - 1 /\ backlog > 0 /\ ~Full /\ apc = "accept"
      /\ UNCHANGED <<listening, dummy, others, peers, mishaps, bad, aborted, localAddr, cb>>
  BY DEF AcceptNew
<1> HIDE DEF p
<1>3. /\ dummy = "idle" /\ sharing \subseteq DOMAIN peerAddr
      /\ peers \in Nat /\ backlog \in Nat /\ backlog <= peers /\ refused \in Nat
      /\ open \in Nat /\ others \in Nat /\ Cardinality(DOMAIN peerAddr) \in Nat
      /\ peers <= MaxPeers /\ MaxPeers \in Nat /\ MaxFds \in Nat
  BY <1>2, Countable, AcceptorAssumption DEF AcceptorInv, AcceptorTypeOK, DummyRight, InTurn
<1>4. CASE zero # "free" /\ cb
  <2>1. DOMAIN peerAddr' = DOMAIN peerAddr \cup {p} /\ sharing' = sharing \cup {p}
    BY <1>2, <1>3, <1>4
  <2>2. Cardinality(DOMAIN peerAddr') = Cardinality(DOMAIN peerAddr) + 1
    BY <1>1, <2>1, Countable, FS_AddElement DEF AcceptorInv
  <2>3. /\ open' = open + 1 /\ refused' = refused /\ zero' = zero /\ apc' = apc
        /\ backlog' = backlog - 1
    BY <1>2, <1>4
  <2>4. AcceptorTypeOK'
    <3>1. open' \in 0..MaxPeers /\ backlog' \in 0..MaxPeers
      BY <1>2, <1>3, <2>3 DEF AcceptorInv, AcceptorTypeOK, InTurn, NoneLost
    <3>2. sharing' \subseteq Peers /\ DOMAIN peerAddr' \subseteq Peers
      BY <1>1, <2>1 DEF AcceptorInv, AcceptorTypeOK
    <3>3. Taken' <= MaxFds
      BY <1>2, <1>3, <1>4, <2>3 DEF AcceptorInv, AcceptorTypeOK, Full, Taken
    <3> QED
      BY <1>2, <2>3, <3>1, <3>2, <3>3 DEF AcceptorInv, AcceptorTypeOK
  <2>5. NoneLost'
    BY <1>2, <1>3, <2>2, <2>3 DEF AcceptorInv, NoneLost
  <2>6. InTurn'
    <3>1. \A c \in DOMAIN peerAddr' : c <= peers' - backlog'
      <4> SUFFICES ASSUME NEW c \in DOMAIN peerAddr' PROVE c <= peers' - backlog'
        OBVIOUS
      <4>1. CASE c = p
        BY <1>2, <1>3, <2>3, <4>1 DEF p
      <4>2. CASE c \in DOMAIN peerAddr
        BY <1>1, <1>2, <1>3, <2>3, <4>2 DEF AcceptorInv, InTurn
      <4> QED
        BY <2>1, <4>1, <4>2
    <3>2. open' <= Cardinality(DOMAIN peerAddr') /\ backlog' <= peers'
      BY <1>2, <1>3, <2>2, <2>3 DEF AcceptorInv, InTurn
    <3> QED
      BY <1>3, <2>1, <3>1, <3>2 DEF InTurn
  <2>7. DummyRight' /\ RoomKept' /\ Mishaps'
    BY <1>2, <1>3, <2>3 DEF AcceptorInv, DummyRight, RoomKept, Mishaps
  <2> QED
    BY <2>4, <2>5, <2>6, <2>7 DEF AcceptorInv
<1>5. CASE ~(zero # "free" /\ cb)
  <2>1. DOMAIN peerAddr' = DOMAIN peerAddr /\ sharing' = sharing /\ open' = open
    BY <1>2, <1>3, <1>5
  <2>2. \/ zero = "free" /\ zero' = "stray" /\ apc' = "wait" /\ refused' = refused
        \/ zero # "free" /\ zero' = zero /\ apc' = apc /\ refused' = refused + 1
    BY <1>2, <1>5
  <2>3. NoneLost'
    BY <1>2, <1>3, <2>1, <2>2 DEF AcceptorInv, NoneLost
  <2>4. InTurn'
    <3>1. \A c \in DOMAIN peerAddr : c <= peers' - backlog'
      BY <1>1, <1>2, <1>3 DEF AcceptorInv, InTurn
    <3> QED
      BY <1>2, <1>3, <2>1, <3>1 DEF AcceptorInv, InTurn
  <2>5. AcceptorTypeOK'
    <3>1. Taken' <= MaxFds
      BY <1>2, <1>3, <2>1, <2>2 DEF AcceptorInv, AcceptorTypeOK, Taken
    <3>2. refused' \in 0..MaxPeers /\ backlog' \in 0..MaxPeers
      BY <1>2, <1>3, <2>1, <2>2 DEF AcceptorInv, NoneLost
    <3> QED
      BY <1>2, <2>1, <2>2, <3>1, <3>2 DEF AcceptorInv, AcceptorTypeOK
  <2>6. DummyRight' /\ RoomKept' /\ Mishaps'
    BY <1>2, <1>3, <2>2 DEF AcceptorInv, DummyRight, RoomKept, Mishaps
  <2> QED
    BY <2>3, <2>4, <2>5, <2>6 DEF AcceptorInv
<1> QED
  BY <1>4, <1>5

(* Every step keeps the counts of connections and descriptors.               *)
LEMMA NextKeeps ==
    ASSUME AcceptorInv, [AcceptorNext]_acceptorVars
    PROVE  AcceptorInv'
<1>1. /\ Cardinality(DOMAIN peerAddr) \in Nat
      /\ MaxFds \in Nat /\ MaxPeers \in Nat /\ MaxOthers \in Nat
  BY Countable, AcceptorAssumption DEF AcceptorInv
<1>2. /\ backlog \in Nat /\ peers \in Nat /\ refused \in Nat /\ open \in Nat /\ others \in Nat
      /\ \A c \in DOMAIN peerAddr : c \in Nat
  BY DEF AcceptorInv, AcceptorTypeOK, Peers
<1>3. CASE Bind
  BY <1>1, <1>2, <1>3 DEF Bind, AcceptorInv, AcceptorTypeOK, Taken, DummyRight, InTurn, NoneLost,
     RoomKept, Mishaps, historyVars, addrVars
<1>4. CASE Listen
  BY <1>1, <1>2, <1>4 DEF Listen, AcceptorInv, AcceptorTypeOK, Taken, DummyRight, InTurn, NoneLost,
     RoomKept, Mishaps, historyVars, addrVars
<1>5. CASE BindOrListenFails
  BY <1>1, <1>2, <1>5 DEF BindOrListenFails, AcceptorInv, AcceptorTypeOK, Taken, DummyRight, InTurn, NoneLost,
     RoomKept, Mishaps, historyVars, addrVars
<1>6. CASE AcceptNone
  BY <1>1, <1>2, <1>6 DEF AcceptNone, AcceptorInv, AcceptorTypeOK, Taken, DummyRight, InTurn, NoneLost,
     RoomKept, Mishaps, historyVars, addrVars
<1>7. CASE HandleRead
  BY <1>1, <1>2, <1>7 DEF HandleRead, AcceptorInv, AcceptorTypeOK, Taken, DummyRight, InTurn, NoneLost,
     RoomKept, Mishaps, historyVars, addrVars
<1>8. CASE AcceptFull
  <2>1. AcceptorTypeOK'
    BY <1>1, <1>2, <1>8 DEF AcceptFull, DummyCloses, Full, Taken, AcceptorInv, AcceptorTypeOK, DummyRight,
       historyVars, addrVars
  <2>2. DummyRight' /\ RoomKept' /\ Mishaps'
    BY <1>1, <1>2, <1>8 DEF AcceptFull, DummyCloses, Full, Taken, AcceptorInv, AcceptorTypeOK, DummyRight, RoomKept,
       Mishaps, historyVars
  <2>3. InTurn' /\ NoneLost'
    BY <1>1, <1>2, <1>8 DEF AcceptFull, DummyCloses, AcceptorInv, AcceptorTypeOK, DummyRight, InTurn, NoneLost,
       historyVars, addrVars
  <2> QED
    BY <2>1, <2>2, <2>3 DEF AcceptorInv
<1>9. CASE AcceptInPlace
  <2>1. AcceptorTypeOK'
    BY <1>1, <1>2, <1>9 DEF AcceptInPlace, DummyOpens, Full, Taken, AcceptorInv, AcceptorTypeOK, DummyRight,
       historyVars, addrVars
  <2>2. DummyRight' /\ RoomKept' /\ Mishaps'
    BY <1>1, <1>2, <1>9 DEF AcceptInPlace, DummyOpens, Full, Taken, AcceptorInv, AcceptorTypeOK, DummyRight, RoomKept,
       Mishaps, historyVars
  <2>3. InTurn' /\ NoneLost'
    BY <1>1, <1>2, <1>9 DEF AcceptInPlace, DummyOpens, AcceptorInv, AcceptorTypeOK, DummyRight, InTurn, NoneLost,
       historyVars, addrVars
  <2> QED
    BY <2>1, <2>2, <2>3 DEF AcceptorInv
<1>10. CASE Refuse
  <2>1. AcceptorTypeOK'
    <3>1. Taken' <= MaxFds /\ zero' \in {"process", "dummy", "stray", "free"} /\ dummy' = "closed"
      BY <1>1, <1>2, <1>10 DEF Refuse, DummyCloses, Taken, AcceptorInv, AcceptorTypeOK, DummyRight
    <3>2. refused' \in 0..MaxPeers
      BY <1>1, <1>2, <1>10 DEF Refuse, AcceptorInv, AcceptorTypeOK, NoneLost
    <3> QED
      BY <1>10, <3>1, <3>2 DEF Refuse, AcceptorInv, AcceptorTypeOK, historyVars, addrVars
  <2>2. DummyRight' /\ RoomKept' /\ Mishaps'
    BY <1>1, <1>2, <1>10 DEF Refuse, DummyCloses, Full, Taken, AcceptorInv, AcceptorTypeOK, DummyRight, RoomKept,
       Mishaps, historyVars
  <2>3. InTurn' /\ NoneLost'
    BY <1>1, <1>2, <1>10 DEF Refuse, DummyCloses, AcceptorInv, AcceptorTypeOK, DummyRight, InTurn, NoneLost,
       historyVars, addrVars
  <2> QED
    BY <2>1, <2>2, <2>3 DEF AcceptorInv
<1>11. CASE OpenIdleFile
  <2>1. AcceptorTypeOK'
    BY <1>1, <1>2, <1>11 DEF OpenIdleFile, DummyOpens, Full, Taken, AcceptorInv, AcceptorTypeOK, DummyRight,
       historyVars, addrVars
  <2>2. DummyRight' /\ RoomKept' /\ Mishaps'
    BY <1>1, <1>2, <1>11 DEF OpenIdleFile, DummyOpens, Full, Taken, AcceptorInv, AcceptorTypeOK, DummyRight, RoomKept,
       Mishaps, historyVars
  <2>3. InTurn' /\ NoneLost'
    BY <1>1, <1>2, <1>11 DEF OpenIdleFile, DummyOpens, AcceptorInv, AcceptorTypeOK, DummyRight, InTurn, NoneLost,
       historyVars, addrVars
  <2> QED
    BY <2>1, <2>2, <2>3 DEF AcceptorInv
<1>12. CASE Destroy
  <2>1. AcceptorTypeOK'
    <3>1. Taken' <= MaxFds /\ zero' \in {"process", "dummy", "stray", "free"} /\ dummy' = "closed"
      BY <1>1, <1>2, <1>12 DEF Destroy, DummyCloses, Taken, AcceptorInv, AcceptorTypeOK, DummyRight
    <3>2. refused' = refused
      BY <1>12 DEF Destroy, historyVars
    <3> QED
      BY <1>12, <3>1, <3>2 DEF Destroy, AcceptorInv, AcceptorTypeOK, historyVars, addrVars
  <2>2. DummyRight' /\ RoomKept' /\ Mishaps'
    BY <1>1, <1>2, <1>12 DEF Destroy, DummyCloses, Full, Taken, AcceptorInv, AcceptorTypeOK, DummyRight, RoomKept,
       Mishaps, historyVars
  <2>3. InTurn' /\ NoneLost'
    BY <1>1, <1>2, <1>12 DEF Destroy, DummyCloses, AcceptorInv, AcceptorTypeOK, DummyRight, InTurn, NoneLost,
       historyVars, addrVars
  <2> QED
    BY <2>1, <2>2, <2>3 DEF AcceptorInv
<1>13. CASE OthersOpen
  <2>1. AcceptorTypeOK'
    BY <1>1, <1>2, <1>13 DEF OthersOpen, Full, Taken, AcceptorInv, AcceptorTypeOK, DummyRight,
       historyVars, addrVars
  <2>2. DummyRight' /\ RoomKept' /\ Mishaps'
    BY <1>1, <1>2, <1>13 DEF OthersOpen, Full, Taken, AcceptorInv, AcceptorTypeOK, DummyRight, RoomKept,
       Mishaps, historyVars
  <2>3. InTurn' /\ NoneLost'
    BY <1>1, <1>2, <1>13 DEF OthersOpen, AcceptorInv, AcceptorTypeOK, DummyRight, InTurn, NoneLost,
       historyVars, addrVars
  <2> QED
    BY <2>1, <2>2, <2>3 DEF AcceptorInv
<1>14. CASE Closes
  <2>1. AcceptorTypeOK'
    BY <1>1, <1>2, <1>14 DEF Closes, Full, Taken, AcceptorInv, AcceptorTypeOK, DummyRight,
       historyVars, addrVars
  <2>2. DummyRight' /\ RoomKept' /\ Mishaps'
    BY <1>1, <1>2, <1>14 DEF Closes, Full, Taken, AcceptorInv, AcceptorTypeOK, DummyRight, RoomKept,
       Mishaps, historyVars
  <2>3. InTurn' /\ NoneLost'
    BY <1>1, <1>2, <1>14 DEF Closes, AcceptorInv, AcceptorTypeOK, DummyRight, InTurn, NoneLost,
       historyVars, addrVars
  <2> QED
    BY <2>1, <2>2, <2>3 DEF AcceptorInv
<1>15. ASSUME NEW e \in Errors, AcceptError(e) PROVE AcceptorInv'
  <2>1. /\ e \in {"EINTR", "ECONNABORTED"} \/ e \notin AcceptPasses
        /\ e \notin AcceptPasses => e = "ENFILE"
    BY <1>15, AcceptorAssumption DEF AcceptError, AcceptPasses
  <2> QED
    BY <1>2, <1>15, <2>1 DEF AcceptError, AcceptorInv, AcceptorTypeOK, Taken, DummyRight, InTurn, NoneLost,
       RoomKept, Mishaps, addrVars
<1>16. CASE PeerConnects
  BY <1>1, <1>2, <1>16 DEF PeerConnects, AcceptorInv, AcceptorTypeOK, Taken, DummyRight, InTurn, NoneLost,
     RoomKept, Mishaps, historyVars, addrVars
<1>17. CASE UNCHANGED acceptorVars
  BY <1>2, <1>17 DEF acceptorVars, AcceptorInv, AcceptorTypeOK, Taken, DummyRight, InTurn, NoneLost, RoomKept,
     Mishaps, historyVars, addrVars
<1> QED
  BY <1>3, <1>4, <1>5, <1>6, <1>7, <1>8, <1>9, <1>10, <1>11, <1>12, <1>13, <1>14, <1>15, <1>16, <1>17,
     AcceptKeeps DEF AcceptorNext, HandlerStep

-----------------------------------------------------------------------------
(* The invariant holds in every state of an Acceptor, however many           *)
(* descriptors and peers there are and whatever accept() returns.            *)
THEOREM AcceptorInvariant == AcceptorSpec => []AcceptorInv
<1>1. AcceptorInit => AcceptorInv
  <2> SUFFICES ASSUME AcceptorInit PROVE AcceptorInv
    OBVIOUS
  <2>1. DOMAIN peerAddr = {}
    BY DEF AcceptorInit
  <2>2. Cardinality(DOMAIN peerAddr) = 0
    BY <2>1, FS_EmptySet
  <2>3. AcceptorTypeOK
    <3>1. 0 \in 0..MaxPeers /\ 0 \in 0..MaxOthers /\ Taken <= MaxFds
      BY AcceptorAssumption DEF AcceptorInit, Taken
    <3> QED
      BY <2>1, <3>1 DEF AcceptorInit, AcceptorTypeOK
  <2>4. InTurn /\ NoneLost
    BY <2>1, <2>2 DEF AcceptorInit, InTurn, NoneLost
  <2>5. DummyRight /\ RoomKept /\ Mishaps
    BY DEF AcceptorInit, DummyRight, RoomKept, Mishaps
  <2> QED
    BY <2>3, <2>4, <2>5 DEF AcceptorInv
<1>2. AcceptorInv /\ [AcceptorNext]_acceptorVars => AcceptorInv'
  BY NextKeeps
<1> QED
  BY <1>1, <1>2, PTL DEF AcceptorSpec

(* Each connection that left the backlog was handed to cb_ or closed, or is  *)
(* in dummy_fd_ about to be closed (acceptor.cc:99-108), or is the one that  *)
(* accept() gave descriptor 0 (acceptor.cc:82).                              *)
THEOREM NoConnectionLost == AcceptorSpec => []NoneLost
<1>1. AcceptorInv => NoneLost
  BY DEF AcceptorInv
<1> QED
  BY <1>1, AcceptorInvariant, PTL

(* dummy_fd_ is held whenever Accept is called (acceptor.cc:99-108), and the *)
(* process does not end for want of descriptors unless another thread took   *)
(* the one HandleRead gave up or the system has none left.                   *)
THEOREM LimitIsSurvived == AcceptorSpec => [](ReserveHeld /\ NotAborted)
<1>1. AcceptorInv => ReserveHeld /\ NotAborted
  <2> SUFFICES ASSUME AcceptorInv PROVE ReserveHeld /\ NotAborted
    OBVIOUS
  <2>1. ReserveHeld
    BY DEF AcceptorInv, DummyRight, ReserveHeld
  <2>2. NotAborted
    BY DEF AcceptorInv, Mishaps, AcceptorTypeOK, NotAborted
  <2> QED
    BY <2>1, <2>2
<1> QED
  BY <1>1, AcceptorInvariant, PTL
=============================================================================
