------------------------------ MODULE TcpServer ------------------------------
(***************************************************************************)
(* muzi::TcpServer (muzi/net/tcp_server.{h,cc}) and EventLoopThreadPool's  *)
(* GetNextLoop: who keeps a TcpConnection alive, from NewConnection to the *)
(* end of ~TcpServer.                                                      *)
(*                                                                         *)
(* Loop 0 is the server's loop, 1..threadNums are those of the pool.  A    *)
(* connection lives as long as connections_, the user, or a functor that   *)
(* was not run refers to it; HandleEvent refers to it too, but a handler   *)
(* is one step.  The user's connection_callback_ may keep each connection  *)
(* that is up, or none, as the default one; a connection is closed by its  *)
(* peer, in its own message_callback_, by other threads, and with some     *)
(* users by another handler of its loop.  The server is destroyed after    *)
(* its loop has ended.                                                     *)
(***************************************************************************)
EXTENDS Naturals, Sequences, FiniteSets, FiniteSetsExt

CONSTANTS ThreadNums,   \* the values thread_nums_ may have
          Starters,     \* the threads that call Start
          MaxConns,     \* bound: the connections
          MaxForced     \* bound: the ForceClose calls of other threads

ASSUME ServerAssumption ==
    /\ ThreadNums \subseteq Nat /\ ThreadNums # {}
    /\ MaxConns \in Nat /\ MaxForced \in Nat

VARIABLES
    keeps,              \* whether connection_callback_ keeps a reference
    others,             \* whether handlers close connections other than their own
    threadNums,         \* thread_nums_, set before Start
    started,            \* started_
    spc,                \* where each thread is in Start
    pool,               \* started_ of the thread pool
    listening,          \* how often Listen ran
    next,               \* next_ of the pool, counting from 1
    map,                \* connections_
    dpc, todo,          \* where the destructor is, and what its loop has still to visit
    \* connections
    conns,              \* conn_sequence_
    loopOf,             \* loop_
    state,              \* state_
    watched,            \* those whose channel is watched for events
    used,               \* those whose channel is in_using_
    removed,            \* how often DestroyConnection ran
    kept,               \* those the user refers to
    \* loops
    lpc,                \* where each loop is
    quit,               \* quit_
    active,             \* active_channels_ that are not handled yet
    queue, batch,       \* functors_ and cur_functors
    forced              \* history: the ForceClose calls of other threads

startVars == <<keeps, others, threadNums, started, spc, pool, listening>>
connVars == <<state, watched, used, removed, kept>>
loopVars == <<lpc, quit, active, batch>>
endVars == <<dpc, todo>>
vars == <<startVars, next, map, endVars, conns, loopOf, connVars, loopVars, queue, forced>>

Conns == 1..MaxConns
Loops == 0..threadNums
IoLoops == 1..threadNums
Functor == [op : {"listen", "establish", "forceClose", "remove", "destroy"}, c : 0..MaxConns]

TypeOK ==
    /\ keeps \in BOOLEAN /\ others \in BOOLEAN /\ threadNums \in ThreadNums
    /\ started \in BOOLEAN /\ pool \in BOOLEAN /\ listening \in 0..1
    /\ spc \in [Starters -> {"idle", "pool", "listen", "done"}]
    /\ next \in 1..(IF threadNums = 0 THEN 1 ELSE threadNums)
    /\ map \subseteq 1..conns /\ conns \in 0..MaxConns
    /\ dpc \in {"alive", "destroying", "quitting", "dead"} /\ todo \subseteq map
    /\ loopOf \in [Conns -> Loops]
    /\ state \in [Conns -> {"none", "kConnecting", "kConnected", "kDisConnected"}]
    /\ watched \subseteq used /\ used \subseteq Conns /\ kept \subseteq Conns
    /\ removed \in [Conns -> Nat]
    /\ lpc \in [Loops -> {"poll", "handle", "functors", "over"}]
    /\ quit \in [Loops -> BOOLEAN]
    /\ active \in [Loops -> SUBSET Conns]
    /\ queue \in [Loops -> Seq(Functor)] /\ batch \in [Loops -> Seq(Functor)]
    /\ forced \in 0..MaxForced

Init ==
    /\ keeps \in BOOLEAN /\ others \in BOOLEAN /\ threadNums \in ThreadNums
    /\ started = FALSE /\ spc = [t \in Starters |-> "idle"]
    /\ pool = FALSE /\ listening = 0 /\ next = 1
    /\ map = {} /\ dpc = "alive" /\ todo = {} /\ conns = 0
    /\ loopOf = [c \in Conns |-> 0] /\ state = [c \in Conns |-> "none"]
    /\ watched = {} /\ used = {} /\ kept = {} /\ removed = [c \in Conns |-> 0]
    /\ lpc = [l \in Loops |-> "poll"] /\ quit = [l \in Loops |-> FALSE]
    /\ active = [l \in Loops |-> {}]
    /\ queue = [l \in Loops |-> <<>>] /\ batch = [l \in Loops |-> <<>>]
    /\ forced = 0

F(op, c) == [op |-> op, c |-> c]
Queued(l, f) == [queue EXCEPT ![l] = Append(@, f)]

(* Some shared_ptr refers to the connection. *)
RefersTo(fs, c) == \E i \in DOMAIN fs : fs[i].c = c
Alive(c) == \/ c \in map \cup kept
            \/ \E l \in Loops : RefersTo(queue[l], c) \/ RefersTo(batch[l], c)

-----------------------------------------------------------------------------
(* Start, in any thread. *)

Start(t) ==
    /\ spc[t] = "idle"
    /\ spc' = [spc EXCEPT ![t] = IF started THEN "done" ELSE "pool"]
    /\ started' = TRUE
    /\ UNCHANGED <<keeps, others, threadNums, pool, listening, next, map, endVars, conns, loopOf, connVars,
                   loopVars, queue, forced>>

PoolStart(t) ==
    /\ spc[t] = "pool"
    /\ spc' = [spc EXCEPT ![t] = "listen"]
    /\ pool' = TRUE
    /\ UNCHANGED <<keeps, others, threadNums, started, listening, next, map, endVars, conns, loopOf, connVars,
                   loopVars, queue, forced>>

QueueListen(t) ==
    /\ spc[t] = "listen"
    /\ spc' = [spc EXCEPT ![t] = "done"]
    /\ queue' = Queued(0, F("listen", 0))
    /\ UNCHANGED <<keeps, others, threadNums, started, pool, listening, next, map, endVars, conns, loopOf,
                   connVars, loopVars, forced>>

-----------------------------------------------------------------------------
(* What TcpConnection does in its loop. *)

(* Mutant: the events of the channel stay. *)
DestroyConnectionWatched(cs) ==
    /\ state' = [c \in Conns |-> IF c \in cs THEN "kDisConnected" ELSE state[c]]
    /\ removed' = [c \in Conns |-> IF c \in cs THEN removed[c] + 1 ELSE removed[c]]
    /\ UNCHANGED <<watched, used>>

(* Mutant: the channel stays in the poller. *)
DestroyConnectionKeeps(cs) ==
    /\ state' = [c \in Conns |-> IF c \in cs THEN "kDisConnected" ELSE state[c]]
    /\ watched' = watched \ cs
    /\ removed' = [c \in Conns |-> IF c \in cs THEN removed[c] + 1 ELSE removed[c]]
    /\ UNCHANGED used

DestroyConnection(cs) ==
    /\ state' = [c \in Conns |-> IF c \in cs THEN "kDisConnected" ELSE state[c]]
    /\ watched' = watched \ cs
    /\ used' = used \ cs
    /\ removed' = [c \in Conns |-> IF c \in cs THEN removed[c] + 1 ELSE removed[c]]

(* Mutant: RemoveConnection leaves the connection in connections_. *)
HandleCloseKeeps(l, c) ==
    /\ kept' = kept \ {c}
    /\ IF l = 0
         THEN DestroyConnection({c}) /\ UNCHANGED <<map, queue>>
         ELSE /\ state' = [state EXCEPT ![c] = "kDisConnected"]
              /\ watched' = watched \ {c}
              /\ UNCHANGED <<map, used, removed, queue>>

(* HandleClose in loop l: connection_callback_, then close_callback_, which  *)
(* is RemoveConnection: its loop is the server's, or the server's loop has   *)
(* to do the rest.                                                           *)
HandleClose(l, c) ==
    /\ kept' = kept \ {c}
    /\ IF l = 0
         THEN map' = map \ {c} /\ DestroyConnection({c}) /\ UNCHANGED queue
         ELSE /\ state' = [state EXCEPT ![c] = "kDisConnected"]
              /\ watched' = watched \ {c}
              /\ queue' = Queued(0, F("remove", c))
              /\ UNCHANGED <<map, used, removed>>

EstablishConnection(c) ==
    /\ state' = [state EXCEPT ![c] = "kConnected"]
    /\ watched' = watched \cup {c}
    /\ used' = used \cup {c}
    /\ kept' = IF keeps THEN kept \cup {c} ELSE kept
    /\ UNCHANGED removed

-----------------------------------------------------------------------------
(* A loop: poll and handlers. *)

Poll(l) ==
    /\ lpc[l] = "poll"
    /\ lpc' = [lpc EXCEPT ![l] = "handle"]
    /\ \E cs \in SUBSET {c \in watched : loopOf[c] = l} : active' = [active EXCEPT ![l] = cs]
    /\ UNCHANGED <<startVars, next, map, endVars, conns, loopOf, connVars, quit, batch, queue,
                   forced>>

(* GetNextLoop: what next_ becomes. *)
NextLoop == (next % threadNums) + 1

(* GetLoopForHash and GetAllLoops, which the server itself does not call:    *)
(* "loops" is event_loops_.                                                  *)
GetLoopForHash(loops, base, hashcode) ==
    IF loops = <<>> THEN base ELSE loops[(hashcode % Len(loops)) + 1]
GetAllLoops(loops, base) == IF loops = <<>> THEN <<base>> ELSE loops

(* The acceptor's HandleRead calls NewConnection. *)
NewConnection ==
    /\ lpc[0] = "handle"
    /\ listening = 1
    /\ conns < MaxConns
    /\ conns' = conns + 1
    /\ map' = map \cup {conns'}
    /\ IF threadNums = 0
         THEN /\ EstablishConnection(conns')
              /\ UNCHANGED <<loopOf, next, queue>>
         ELSE /\ loopOf' = [loopOf EXCEPT ![conns'] = next]
              /\ next' = NextLoop
              /\ state' = [state EXCEPT ![conns'] = "kConnecting"]
              /\ queue' = Queued(next, F("establish", conns'))
              /\ UNCHANGED <<watched, used, removed, kept>>
    /\ UNCHANGED <<startVars, endVars, loopVars, forced>>

(* Channel::HandleEvent of a channel that is not destroyed: the peer has     *)
(* closed or message_callback_ closes the connection, or neither.  Nothing   *)
(* is defined for a channel that is: the loop goes no further.               *)
HandleEvent(l) ==
    /\ lpc[l] = "handle"
    /\ \E c \in active[l] :
        /\ Alive(c)
        /\ active' = [active EXCEPT ![l] = @ \ {c}]
        /\ \/ HandleClose(l, c)
           \/ UNCHANGED <<map, connVars, queue>>
    /\ UNCHANGED <<startVars, next, endVars, conns, loopOf, lpc, quit, batch, forced>>

(* Another handler or functor of its loop closes a connection: the timer     *)
(* that ForceCloseWithDelay has left, with a weak_ptr to it, or a callback   *)
(* of the user that refers to it.                                            *)
CloseOther(l, c) ==
    /\ others
    /\ lpc[l] \in {"handle", "functors"}
    /\ Alive(c) /\ loopOf[c] = l /\ state[c] = "kConnected"
    /\ HandleClose(l, c)
    /\ UNCHANGED <<startVars, next, endVars, conns, loopOf, loopVars, forced>>

(* ForceClose of another thread. *)
ForceClose(c) ==
    /\ forced < MaxForced
    /\ c \in kept /\ state[c] = "kConnected"
    /\ lpc[loopOf[c]] # "over"
    /\ forced' = forced + 1
    /\ queue' = Queued(loopOf[c], F("forceClose", c))
    /\ UNCHANGED <<startVars, next, map, endVars, conns, loopOf, connVars, loopVars>>

-----------------------------------------------------------------------------
(* A loop: functors. *)

ExecuteFunctors(l) ==
    /\ lpc[l] = "handle"
    /\ active[l] = {}
    /\ lpc' = [lpc EXCEPT ![l] = "functors"]
    /\ batch' = [batch EXCEPT ![l] = queue[l]]
    /\ queue' = [queue EXCEPT ![l] = <<>>]
    /\ UNCHANGED <<startVars, next, map, endVars, conns, loopOf, connVars, quit, active, forced>>

NextFunctor(l, op) ==
    /\ lpc[l] = "functors"
    /\ batch[l] # <<>>
    /\ Head(batch[l]).op = op
    /\ batch' = [batch EXCEPT ![l] = Tail(@)]
    /\ UNCHANGED <<keeps, others, threadNums, started, spc, pool, next, endVars, conns, loopOf, lpc, quit, active,
                   forced>>

RunListen ==
    /\ NextFunctor(0, "listen")
    /\ listening' = listening + 1
    /\ UNCHANGED <<map, connVars, queue>>

RunEstablish(l) ==
    /\ NextFunctor(l, "establish")
    /\ EstablishConnection(Head(batch[l]).c)
    /\ UNCHANGED <<listening, map, queue>>

RunForceClose(l) ==
    /\ NextFunctor(l, "forceClose")
    /\ LET c == Head(batch[l]).c
       IN IF state[c] = "kConnected" THEN HandleClose(l, c)
                                     ELSE UNCHANGED <<map, connVars, queue>>
    /\ UNCHANGED listening

RemoveConnectionInLoop ==
    /\ NextFunctor(0, "remove")
    /\ LET c == Head(batch[0]).c
       IN /\ map' = map \ {c}
          /\ queue' = Queued(loopOf[c], F("destroy", c))
    /\ UNCHANGED <<listening, connVars>>

RunDestroy(l) ==
    /\ NextFunctor(l, "destroy")
    /\ DestroyConnection({Head(batch[l]).c})
    /\ UNCHANGED <<listening, map, kept, queue>>

(* A loop that was quit ends; ~EventLoop drops the functors that are left,   *)
(* and ~TcpConnection destroys a connection that is still up.                *)
FunctorsDone(l) ==
    /\ lpc[l] = "functors"
    /\ batch[l] = <<>>
    /\ IF quit[l]
         THEN /\ lpc' = [lpc EXCEPT ![l] = "over"]
              /\ IF l = 0
                   THEN UNCHANGED <<queue, connVars>>
                   ELSE /\ queue' = [queue EXCEPT ![l] = <<>>]
                        /\ DestroyConnection({c \in Conns : /\ RefersTo(queue[l], c)
                                                            /\ state[c] # "kDisConnected"
                                                            /\ c \notin map \cup kept})
                        /\ UNCHANGED kept
         ELSE lpc' = [lpc EXCEPT ![l] = "poll"] /\ UNCHANGED <<queue, connVars>>
    /\ UNCHANGED <<startVars, next, map, endVars, conns, loopOf, quit, active, batch, forced>>

-----------------------------------------------------------------------------
(* The end: the server's loop is quit, and the server destroyed. *)

QuitBase ==
    /\ ~quit[0] /\ \A t \in Starters : spc[t] = "done"
    /\ quit' = [quit EXCEPT ![0] = TRUE]
    /\ UNCHANGED <<startVars, next, map, endVars, conns, loopOf, connVars, lpc, active, batch,
                   queue, forced>>

DestroyServer ==
    /\ dpc = "alive" /\ lpc[0] = "over"
    /\ dpc' = "destroying"
    /\ todo' = map
    /\ UNCHANGED <<startVars, next, map, conns, loopOf, connVars, loopVars, queue, forced>>

(* One turn of the destructor's loop. *)
DestroyNext(c) ==
    /\ c \in todo
    /\ todo' = todo \ {c}
    /\ IF threadNums = 0
         THEN DestroyConnection({c}) /\ UNCHANGED queue
         ELSE /\ queue' = Queued(loopOf[c], F("destroy", c))
              /\ UNCHANGED <<state, watched, used, removed>>
    /\ UNCHANGED <<startVars, next, map, dpc, conns, loopOf, kept, loopVars, forced>>

(* connections_ is destroyed before the pool, which quits its loops. *)
ConnectionsDestroyed ==
    /\ dpc = "destroying" /\ todo = {}
    /\ dpc' = "quitting"
    /\ map' = {}
    /\ UNCHANGED <<startVars, next, todo, conns, loopOf, connVars, loopVars, queue, forced>>

QuitIo(l) ==
    /\ dpc = "quitting"
    /\ ~quit[l]
    /\ \A k \in 1..(l - 1) : lpc[k] = "over"
    /\ quit' = [quit EXCEPT ![l] = TRUE]
    /\ UNCHANGED <<startVars, next, map, endVars, conns, loopOf, connVars, lpc, active, batch,
                   queue, forced>>

(* The server is gone, and after it its loop with the functors left there. *)
ServerDestroyed ==
    /\ dpc = "quitting"
    /\ \A l \in IoLoops : lpc[l] = "over"
    /\ dpc' = "dead"
    /\ queue' = [queue EXCEPT ![0] = <<>>]
    /\ UNCHANGED <<startVars, next, map, todo, conns, loopOf, connVars, loopVars, forced>>

-----------------------------------------------------------------------------
LoopStep(l) == \/ Poll(l) \/ HandleEvent(l) \/ ExecuteFunctors(l)
               \/ RunEstablish(l) \/ RunForceClose(l) \/ RunDestroy(l) \/ FunctorsDone(l)

BaseStep == RunListen \/ RemoveConnectionInLoop

StartStep(t) == Start(t) \/ PoolStart(t) \/ QueueListen(t)

EndStep == \/ DestroyServer \/ (\E c \in Conns : DestroyNext(c))
           \/ ConnectionsDestroyed \/ ServerDestroyed

Next == \/ \E l \in Loops : LoopStep(l)
        \/ BaseStep \/ NewConnection
        \/ \E t \in Starters : StartStep(t)
        \/ \E c \in Conns : ForceClose(c) \/ \E l \in Loops : CloseOther(l, c)
        \/ QuitBase \/ EndStep
        \/ \E l \in IoLoops : QuitIo(l)

Spec == Init /\ [][Next]_vars

(* The loops turn. *)
FairSpec == /\ Spec
            /\ WF_vars(BaseStep)
            /\ \A l \in 0..Max(ThreadNums) : WF_vars(l \in Loops /\ LoopStep(l))

-----------------------------------------------------------------------------
(* Properties. *)

(* Who closes connections leaves the rounds of the loops alone: the server   *)
(* has a pool, or only a connection's own handler and functors close it.     *)
Orderly == threadNums > 0 \/ ~others

(* tcp_server.cc:116, "But with channel->Tie(), we have guaranteed that the  *)
(* conn will not be destroyed afther this": a loop never comes to a channel  *)
(* in active_channels_ whose connection is gone.  With a pool that holds     *)
(* whoever closes connections, since DestroyConnection is queued; without    *)
(* one RunInLoop destroys at once, and it holds as long as no handler but    *)
(* the connection's own closes it (no ForceCloseWithDelay, for one).         *)
NoDangling == Orderly => \A l \in Loops : \A c \in active[l] : Alive(c)

(* tcp_server.cc:111, assert(n == 1): unless handlers close connections of   *)
(* others, the connection is in connections_ when RemoveConnectionInLoop     *)
(* runs.                                                                     *)
ErasedOnce ==
    ~others => \A i \in DOMAIN batch[0] :
        batch[0][i].op = "remove" =>
            /\ batch[0][i].c \in map
            /\ \A j \in DOMAIN batch[0] : batch[0][j] = batch[0][i] => i = j

(* However closes, forced closes and the destructor meet, DestroyConnection  *)
(* takes the channel out and leaves it down, never before                    *)
(* EstablishConnection; and it runs once, unless handlers close connections  *)
(* of others.                                                                *)
DestroyedOnce ==
    \A c \in Conns :
        /\ removed[c] > 0 => c \notin used /\ state[c] = "kDisConnected"
        /\ ~others => removed[c] <= 1

(* channel.cc:22, assert(!in_using_): a connection that is gone has taken    *)
(* its channel out of the poller.                                            *)
ChannelRemoved == \A c \in 1..conns : ~Alive(c) => c \notin used

(* A connection that is gone has taken its channel out of the poller, the    *)
(* destructor of the server included, except when a loop of the pool, told   *)
(* to quit, has ended before it ran the DestroyConnection queued for it.     *)
RemovedInTime ==
    \A c \in 1..conns :
        ~Alive(c) /\ c \in used => loopOf[c] \in IoLoops /\ lpc[loopOf[c]] = "over"

(* tcp_server.h:26, "Thread safe, and can be called multiple times": Start   *)
(* makes the server listen once, and its pool is up by then.                 *)
ListensOnce ==
    /\ listening <= 1
    /\ listening = 1 => pool

(* GetNextLoop deals connections out evenly to the loops of the pool. *)
Balanced ==
    LET Load(l) == Cardinality({c \in 1..conns : loopOf[c] = l})
    IN \A k, l \in IoLoops : Load(k) <= Load(l) + 1

(* The connections that were closed and are not freed yet. *)
Lingers == {c \in Conns : state[c] = "kDisConnected" /\ Alive(c)}

(* Connections that were closed are all freed in the end: nothing keeps them *)
(* in connections_ or in a functor (given that the loops come past the       *)
(* channels of each round, as NoDangling says).                              *)
Reclaimed == Orderly /\ Lingers # {} ~> Lingers = {} \/ quit[0]
=============================================================================
