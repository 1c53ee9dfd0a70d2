------------------------------ MODULE TcpClient ------------------------------
(***************************************************************************)
(* muzi::TcpClient (muzi/net/tcp_client.{h,cc}) with its Connector         *)
(* (connector.{h,cc}), in one event loop.                                  *)
(*                                                                         *)
(* The loop thread goes round poll - handlers - functors; threads call     *)
(* Connect, Stop and DisConnect, some wait in GetConnection, and the owner *)
(* destroys the client.  The kernel decides how an attempt to connect      *)
(* ends, the peer when a connection closes; a TcpConnection is only up or  *)
(* down.  Connector::HandleError is left out: nothing calls it.  Addresses *)
(* and the errors of connect() are those of SocketOps.                     *)
(***************************************************************************)
EXTENDS SocketOps, FiniteSets

CONSTANTS Threads,      \* the threads that use the client
          Owner,        \* the one of them that destroys it
          Getters,      \* the threads that call GetConnection
          Users,        \* what may happen to the client: see User
          Addresses,    \* addresses
          InitDelay, MaxDelay,  \* kInitRetryDelayMs, kMaxRetryDelayMs
          MaxConns,     \* bound: the connections that are made
          None          \* nobody

Waiters == {Owner} \cup Getters

(* What user code in the loop thread calls; whether users call Connect only  *)
(* when connect_ is false and do not call Stop when is_retry is set; the     *)
(* bound on the calls of Connect, Stop and DisConnect; the threads whose     *)
(* condition waits may end spuriously; the server, the address this end has, *)
(* and the errno values with which connect() may end.                        *)
User == [own : SUBSET {"connect", "stop", "disConnect", "forceClose"},
         patient : BOOLEAN,
         maxCalls : Nat,
         spurious : SUBSET Waiters,
         server : Addresses, locals : SUBSET Addresses,
         errnos : SUBSET Errnos]

ASSUME ClientAssumption ==
    /\ Owner \in Threads /\ Getters \cap Threads = {}
    /\ None \notin Threads \cup Getters
    /\ \A addr \in Addresses : addr.family \in Families
    /\ Users \subseteq User
    /\ InitDelay \in Nat /\ MaxDelay \in Nat /\ InitDelay <= MaxDelay
    /\ MaxConns \in Nat

VARIABLES
    user,               \* the user of this client
    \* Connector
    connect,            \* connect_
    state,              \* state_
    channel,            \* channel_ is set
    watched,            \* the poller has a channel of the connector
    delay,              \* retry_delay_
    lastTimer,          \* the timer of timer_id_ is pending
    fresh,              \* that timer was set since the last poll
    otherTimers,        \* the number of other timers pending
    \* TcpClient
    toConnect,          \* to_connect_
    retry,              \* is_retry
    connection,         \* the number of connection_, or 0
    conns,              \* sequence_
    up,                 \* the connections that are up
    detached,           \* the connections whose close_callback_ was replaced
    lock,               \* the thread that holds lock_ of the client, or None
    conditionWait,      \* the threads blocked in condition_ of the client
    stopWait,           \* whether the owner is blocked in condition_ of the connector
    \* the loop
    lpc,                \* where the loop thread is
    back,               \* where it goes on after a call of the client or the connector
    active,             \* the connector's channel is in active_channels_
    ended,              \* the connections in active_channels_ that the peer has closed
    queue, batch,       \* functors_ of the loop and cur_functors of ExecuteFunctors
    \* threads and history
    pc,                 \* where each thread is
    calls,              \* history: the number of calls
    failed,             \* history: assert(!channel_) of Connecting has failed
    late                \* history: the client was used after it was destroyed

connectorVars == <<connect, state, channel, watched, delay, lastTimer, fresh, otherTimers,
                   failed>>
clientVars == <<user, toConnect, retry, connection, conns, up, detached, lock, late>>
waitVars == <<conditionWait, stopWait, pc, calls>>
loopVars == <<lpc, back, active, ended, queue, batch>>
vars == <<connectorVars, clientVars, waitVars, loopVars>>

ConnectorStates == {"kDisConnected", "kConnecting", "kConnected"}
FunctorOps == {"start", "stop", "stopNotify", "reset", "disable", "setClose"}
Functor == [op : FunctorOps, t : Threads \cup {None}]
ThreadPositions == {"idle", "start", "stop1", "stop2", "stopping",
                    "disable", "disabling", "disabled", "halt", "halting", "halted",
                    "taken", "setting", "dead", "get", "getting", "got"}

TypeOK ==
    /\ user \in Users
    /\ connect \in BOOLEAN /\ state \in ConnectorStates
    /\ channel \in BOOLEAN /\ watched \in BOOLEAN
    /\ delay \in InitDelay..MaxDelay
    /\ lastTimer \in BOOLEAN /\ fresh \in BOOLEAN /\ otherTimers \in Nat
    /\ toConnect \in BOOLEAN /\ retry \in BOOLEAN
    /\ connection \in 0..MaxConns /\ conns \in 0..MaxConns
    /\ up \in SUBSET (1..MaxConns) /\ detached \in SUBSET (1..MaxConns)
    /\ lock \in Threads \cup {None}
    /\ conditionWait \in SUBSET Waiters /\ stopWait \in BOOLEAN
    /\ lpc \in {"poll", "handle", "callback", "remove", "start", "stop", "retry", "functors"}
    /\ back \in {"handle", "callback", "functors"}
    /\ active \in BOOLEAN /\ ended \in SUBSET (1..MaxConns)
    /\ queue \in Seq(Functor) /\ batch \in Seq(Functor)
    /\ pc \in [Threads \cup Getters -> ThreadPositions]
    /\ calls \in 0..user.maxCalls
    /\ failed \in BOOLEAN /\ late \in BOOLEAN

(* EnableRetry, if it is called, is called before Connect. *)
Init ==
    /\ user \in Users
    /\ connect = FALSE /\ state = "kDisConnected"
    /\ channel = FALSE /\ watched = FALSE
    /\ delay = InitDelay
    /\ lastTimer = FALSE /\ fresh = FALSE /\ otherTimers = 0
    /\ toConnect = FALSE /\ retry \in BOOLEAN
    /\ connection = 0 /\ conns = 0 /\ up = {} /\ detached = {}
    /\ lock = None /\ conditionWait = {} /\ stopWait = FALSE
    /\ lpc = "poll" /\ back = "handle" /\ active = FALSE /\ ended = {}
    /\ queue = <<>> /\ batch = <<>>
    /\ pc = [t \in Threads \cup Getters |-> "idle"]
    /\ calls = 0
    /\ failed = FALSE /\ late = FALSE

F(op, t) == [op |-> op, t |-> t]
Goto(t, from, to) == pc[t] = from /\ pc' = [pc EXCEPT ![t] = to]
Dead == pc[Owner] = "dead"

(* The destructor has not begun: no thread uses the client from then on. *)
InUse == pc[Owner] \in {"idle", "start", "stop1", "stop2", "stopping"}

-----------------------------------------------------------------------------
(* Connector, in the loop thread. *)

Connecting ==
    /\ failed' = (failed \/ channel)
    /\ state' = "kConnecting"
    /\ channel' = TRUE
    /\ watched' = TRUE

(* Mutant: state_ is left alone. *)
RetryKeepsState(on, last, other) ==
    /\ lastTimer' = (on \/ last) /\ fresh' = (on \/ fresh)
    /\ otherTimers' = IF on /\ last THEN other + 1 ELSE other
    /\ UNCHANGED <<state, delay>>

(* Retry, when "last" and "other" timers are pending and connect_ is "on". *)
Retry(on, last, other) ==
    /\ state' = "kDisConnected"
    /\ IF on
         THEN /\ lastTimer' = TRUE /\ fresh' = TRUE
              /\ otherTimers' = IF last THEN other + 1 ELSE other
              /\ delay' = IF 2 * delay < MaxDelay THEN 2 * delay ELSE MaxDelay
         ELSE /\ lastTimer' = last /\ otherTimers' = other
              /\ UNCHANGED <<fresh, delay>>

(* How connect() may end.  The socket is always made for IPv4: the default   *)
(* argument of CreateNonBlockingSockOrDie.                                   *)
Outcome(class) ==
    ConnectErrnos("PF_INET", user.server, user.errnos) \cap ConnectErrors[class] # {}

(* Connect, by the outcome of connect(). *)
Connect(on, last, other) ==
    \/ /\ Outcome("progress")
       /\ Connecting
       /\ lastTimer' = last /\ otherTimers' = other /\ UNCHANGED <<fresh, delay>>
    \/ /\ Outcome("retry")
       /\ Retry(on, last, other)
       /\ UNCHANGED <<channel, watched, failed>>
    \/ /\ Outcome("close")
       /\ lastTimer' = last /\ otherTimers' = other
       /\ UNCHANGED <<state, channel, watched, delay, fresh, failed>>

(* Mutant: state_ is not looked at. *)
StartInLoopAnyway(on, last, other) ==
    IF on
      THEN Connect(on, last, other)
      ELSE /\ lastTimer' = last /\ otherTimers' = other
           /\ UNCHANGED <<state, channel, watched, delay, fresh, failed>>

StartInLoop(on, last, other) ==
    IF on /\ state = "kDisConnected"
      THEN Connect(on, last, other)
      ELSE /\ lastTimer' = last /\ otherTimers' = other
           /\ UNCHANGED <<state, channel, watched, delay, fresh, failed>>

(* ReStartInLoop: state_ and retry_delay_ are set before StartInLoop.        *)
ReStartInLoop ==
    /\ connect' = TRUE
    /\ \/ /\ Outcome("progress")
          /\ Connecting
          /\ delay' = InitDelay
          /\ UNCHANGED <<lastTimer, fresh, otherTimers>>
       \/ /\ Outcome("retry")
          /\ state' = "kDisConnected"
          /\ lastTimer' = TRUE /\ fresh' = TRUE
          /\ otherTimers' = IF lastTimer THEN otherTimers + 1 ELSE otherTimers
          /\ delay' = IF 2 * InitDelay < MaxDelay THEN 2 * InitDelay ELSE MaxDelay
          /\ UNCHANGED <<channel, watched, failed>>
       \/ /\ Outcome("close")
          /\ state' = "kDisConnected"
          /\ delay' = InitDelay
          /\ UNCHANGED <<lastTimer, fresh, otherTimers, channel, watched, failed>>

-----------------------------------------------------------------------------
(* The loop thread: poll and handlers. *)

PollStep ==
    /\ lpc = "poll"
    /\ lpc' = "handle"
    /\ active' \in {FALSE, watched}
    /\ ended' \in SUBSET up
    /\ fresh' = FALSE
    /\ UNCHANGED <<connect, state, channel, watched, delay, lastTimer, otherTimers, failed, clientVars,
                   waitVars, back, queue, batch>>

(* Notify of condition_: some thread that waits wakes up. *)
NotifyClient(woken) == woken \in IF conditionWait = {} THEN {None} ELSE conditionWait
AwakeClient(woken) ==
    /\ conditionWait' = conditionWait \ {woken}
    /\ pc' = [t \in DOMAIN pc |->
                IF t # woken THEN pc[t] ELSE IF t = Owner THEN "disabled" ELSE "got"]

(* The socket that is being connected, with the local end the kernel chose. *)
Sock(local) == [local |-> local, peer |-> user.server]

(* HandleWrite: GetSocketError has an error, or the socket is connected to   *)
(* itself: Retry.                                                            *)
HandleWriteError ==
    /\ lpc = "handle"
    /\ active /\ state = "kConnecting"
    /\ active' = FALSE
    /\ watched' = FALSE
    /\ queue' = Append(queue, F("reset", None))
    /\ Retry(connect, lastTimer, otherTimers)
    /\ UNCHANGED <<connect, channel, failed, clientVars, waitVars, lpc, back, ended, batch>>

ConnectedToOther(local) == ~IsSelfConnect(Sock(local), 0)

(* HandleWrite succeeds: NewConnection, up to connection_callback_ in        *)
(* EstablishConnection, which runs in position "callback".                   *)
HandleWrite ==
    /\ lpc = "handle"
    /\ active /\ state = "kConnecting"
    /\ conns < MaxConns
    /\ lock = None
    /\ active' = FALSE
    /\ watched' = FALSE
    /\ queue' = Append(queue, F("reset", None))
    /\ state' = "kConnected"
    /\ conns' = conns + 1
    /\ connection' = conns'
    /\ up' = up \cup {conns'}
    /\ late' = (late \/ Dead)
    /\ \E local \in user.locals : ConnectedToOther(local)
    /\ \E woken \in Threads \cup Getters \cup {None} : NotifyClient(woken) /\ AwakeClient(woken)
    /\ lpc' = "callback"
    /\ UNCHANGED <<connect, channel, delay, lastTimer, fresh, otherTimers, failed, toConnect, user, retry,
                   detached, lock, stopWait, calls, back, ended, batch>>

(* HandleWrite of an attempt that was stopped after poll. *)
HandleWriteStopped ==
    /\ lpc = "handle"
    /\ active /\ state # "kConnecting"
    /\ active' = FALSE
    /\ UNCHANGED <<connectorVars, clientVars, waitVars, lpc, back, ended, queue, batch>>

CallbackReturns ==
    /\ lpc = "callback"
    /\ lpc' = "handle"
    /\ UNCHANGED <<connectorVars, clientVars, waitVars, back, active, ended, queue, batch>>

(* A timer runs StartInLoop.  The handlers of one iteration take less time   *)
(* than kInitRetryDelayMs, so one that was just set waits for the next poll. *)
TimerFires ==
    /\ lpc = "handle"
    /\ \/ lastTimer /\ ~fresh /\ StartInLoop(connect, FALSE, otherTimers)
       \/ otherTimers > 0 /\ StartInLoop(connect, lastTimer, otherTimers - 1)
    /\ UNCHANGED <<connect, clientVars, waitVars, loopVars>>

(* A connection comes down: HandleClose, and close_callback_, which is       *)
(* RemoveConnection up to its test, or DetachedRemoveConnection.             *)
Close(c) ==
    /\ c \in up
    /\ lock = None
    /\ up' = up \ {c}
    /\ IF c \in detached
         THEN UNCHANGED <<connection, late, lpc, back>>
         ELSE /\ connection' = IF connection = c THEN 0 ELSE connection
              /\ late' = (late \/ Dead)
              /\ IF toConnect /\ retry THEN lpc' = "remove" /\ back' = lpc
                                      ELSE UNCHANGED <<lpc, back>>
    /\ UNCHANGED <<connectorVars, toConnect, user, retry, conns, detached, lock, waitVars,
                   active, queue, batch>>

PeerCloses ==
    /\ lpc = "handle"
    /\ \E c \in ended : Close(c) /\ ended' = ended \ {c}

(* The end of RemoveConnection. *)
RemoveRestarts ==
    /\ lpc = "remove"
    /\ ReStartInLoop
    /\ lpc' = back
    /\ UNCHANGED <<clientVars, waitVars, back, active, ended, queue, batch>>

(* User code in the loop thread, in a handler or in connection_callback_. *)
OwnConnect ==
    /\ "connect" \in user.own
    /\ toConnect' = TRUE /\ connect' = TRUE
    /\ lpc' = "start" /\ back' = lpc

OwnStop ==
    /\ "stop" \in user.own
    /\ toConnect' = FALSE /\ connect' = FALSE
    /\ lpc' = "stop" /\ back' = lpc

(* DisConnect: ShutDown makes the peer close sooner or later. *)
OwnDisConnect ==
    /\ "disConnect" \in user.own
    /\ lock = None
    /\ toConnect' = FALSE
    /\ UNCHANGED <<connect, lpc, back>>

OwnCall ==
    /\ lpc \in {"handle", "callback"}
    /\ ~Dead
    /\ calls < user.maxCalls
    /\ calls' = calls + 1
    /\ OwnConnect \/ OwnStop \/ OwnDisConnect
    /\ UNCHANGED <<state, channel, watched, delay, lastTimer, fresh, otherTimers, failed,
                   user, retry, connection, conns, up, detached, lock, late,
                   conditionWait, stopWait, pc, active, ended, queue, batch>>

(* Start and Stop of the connector go on: connect_, which other threads      *)
(* write, is read again.                                                     *)
OwnStart ==
    /\ lpc = "start"
    /\ StartInLoop(connect, lastTimer, otherTimers)
    /\ lpc' = back
    /\ UNCHANGED <<connect, clientVars, waitVars, back, active, ended, queue, batch>>

OwnForceClose ==
    /\ "forceClose" \in user.own
    /\ lpc = "callback"
    /\ Close(connection)
    /\ UNCHANGED ended

-----------------------------------------------------------------------------
(* The loop thread: functors. *)

SwapFunctors ==
    /\ lpc = "handle"
    /\ ~active /\ ended = {}
    /\ batch' = queue /\ queue' = <<>>
    /\ lpc' = "functors"
    /\ UNCHANGED <<connectorVars, clientVars, waitVars, back, active, ended>>

NextFunctor(op) ==
    /\ lpc = "functors"
    /\ batch # <<>>
    /\ Head(batch).op = op
    /\ batch' = Tail(batch)
    /\ UNCHANGED <<lpc, back, active, ended>>

RunStart ==
    /\ NextFunctor("start")
    /\ StartInLoop(connect, lastTimer, otherTimers)
    /\ UNCHANGED <<connect, clientVars, waitVars, queue>>

(* The end of StopInLoop: Notify, made without lock_, wakes the owner in     *)
(* StopAndWait, and the functor of a Stop by RunAndWait ends with the latch. *)
StopReturns(to) ==
    LET ran == to = "functors"
        released == IF ran /\ Head(batch).op = "stop" THEN [pc EXCEPT ![Head(batch).t] = "idle"]
                                                     ELSE pc
    IN /\ lpc' = to
       /\ batch' = IF ran THEN Tail(batch) ELSE batch
       /\ stopWait' = FALSE
       /\ pc' = IF stopWait THEN [released EXCEPT ![Owner] = "halted"] ELSE released

(* StopInLoop, as a functor or called by user code in the loop thread, up to *)
(* the test of connect_ in Retry, which reads it a second time.              *)
StopInLoop ==
    LET to == IF lpc = "stop" THEN back ELSE "functors"
    IN /\ \/ lpc = "stop"
          \/ lpc = "functors" /\ batch # <<>> /\ Head(batch).op \in {"stop", "stopNotify"}
       /\ lastTimer' = FALSE
       /\ IF ~connect /\ state = "kConnecting"
            THEN /\ watched' = FALSE                        \* RemoveAndResetChannel
                 /\ queue' = Append(queue, F("reset", None))
                 /\ state' = "kDisConnected"                \* Retry
                 /\ lpc' = "retry" /\ back' = to
                 /\ UNCHANGED <<batch, stopWait, pc>>
            ELSE /\ StopReturns(to)
                 /\ UNCHANGED <<watched, queue, state, back>>
       /\ UNCHANGED <<connect, channel, delay, fresh, otherTimers, failed, clientVars,
                      conditionWait, calls, active, ended>>

StopRetries ==
    /\ lpc = "retry"
    /\ Retry(connect, lastTimer, otherTimers)
    /\ StopReturns(back)
    /\ UNCHANGED <<connect, channel, watched, failed, clientVars, conditionWait, calls,
                   back, active, ended, queue>>

(* Mutant: channel_ is kept. *)
ResetChannelNot ==
    /\ NextFunctor("reset")
    /\ UNCHANGED <<connectorVars, clientVars, waitVars, queue>>

ResetChannel ==
    /\ NextFunctor("reset")
    /\ channel' = FALSE
    /\ UNCHANGED <<connect, state, watched, delay, lastTimer, fresh, otherTimers, failed, clientVars,
                   waitVars, queue>>

(* Mutant: to_connect_ is left as it is. *)
DisableConnectNot ==
    /\ NextFunctor("disable")
    /\ late' = (late \/ Dead)
    /\ \E woken \in Threads \cup Getters \cup {None} : NotifyClient(woken) /\ AwakeClient(woken)
    /\ UNCHANGED <<connectorVars, toConnect, user, retry, connection, conns, up, detached, lock,
                   stopWait, calls, queue>>

DisableConnectInLoop ==
    /\ NextFunctor("disable")
    /\ toConnect' = FALSE
    /\ late' = (late \/ Dead)
    /\ \E woken \in Threads \cup Getters \cup {None} : NotifyClient(woken) /\ AwakeClient(woken)
    /\ UNCHANGED <<connectorVars, user, retry, connection, conns, up, detached, lock, stopWait,
                   calls, queue>>

(* Mutant: close_callback_ is kept. *)
SetCloseCallbackNot ==
    /\ NextFunctor("setClose")
    /\ Goto(Owner, "setting", "dead")
    /\ UNCHANGED <<connectorVars, clientVars, conditionWait, stopWait, calls, queue>>

(* SetCloseCallbackInLoop for the connection the destructor has taken, which *)
(* is the last one made.                                                     *)
SetCloseCallbackInLoop ==
    /\ NextFunctor("setClose")
    /\ detached' = detached \cup {conns}
    /\ Goto(Owner, "setting", "dead")
    /\ UNCHANGED <<connectorVars, toConnect, user, retry, connection, conns, up, lock, late,
                   conditionWait, stopWait, calls, queue>>

FunctorsDone ==
    /\ lpc = "functors"
    /\ batch = <<>>
    /\ lpc' = "poll"
    /\ UNCHANGED <<connectorVars, clientVars, waitVars, back, active, ended, queue, batch>>

-----------------------------------------------------------------------------
(* Other threads: Connect, Stop, DisConnect and GetConnection. *)

ThreadFrame == UNCHANGED <<state, channel, watched, delay, lastTimer, fresh, otherTimers, failed,
                           user, retry, conns, up, detached, late, lpc, back, active, ended,
                           batch>>

Calling(t) == InUse /\ calls < user.maxCalls /\ calls' = calls + 1 /\ pc[t] = "idle"

ClientConnect(t) ==
    /\ Calling(t)
    /\ user.patient => ~connect
    /\ toConnect' = TRUE /\ connect' = TRUE
    /\ Goto(t, "idle", "start")
    /\ UNCHANGED <<connection, lock, conditionWait, stopWait, queue>>
    /\ ThreadFrame

QueueStart(t) ==
    /\ Goto(t, "start", "idle")
    /\ queue' = Append(queue, F("start", None))
    /\ UNCHANGED <<connect, toConnect, connection, lock, conditionWait, stopWait, calls>>
    /\ ThreadFrame

ClientStop(t) ==
    /\ Calling(t)
    /\ user.patient => ~retry
    /\ toConnect' = FALSE
    /\ Goto(t, "idle", "stop1")
    /\ UNCHANGED <<connect, connection, lock, conditionWait, stopWait, queue>>
    /\ ThreadFrame

Stop(t) ==
    /\ Goto(t, "stop1", "stop2")
    /\ connect' = FALSE
    /\ UNCHANGED <<toConnect, connection, lock, conditionWait, stopWait, queue, calls>>
    /\ ThreadFrame

QueueStop(t) ==
    /\ Goto(t, "stop2", "stopping")
    /\ queue' = Append(queue, F("stop", t))
    /\ UNCHANGED <<connect, toConnect, connection, lock, conditionWait, stopWait, calls>>
    /\ ThreadFrame

DisConnect(t) ==
    /\ Calling(t)
    /\ lock = None
    /\ toConnect' = FALSE
    /\ UNCHANGED <<pc, connect, connection, lock, conditionWait, stopWait, queue>>
    /\ ThreadFrame

(* GetConnection begins, or goes on after Wait. *)
GetConnection(g) ==
    /\ ~Dead /\ lock = None
    /\ pc[g] \in {"idle", "got"}
    /\ pc[g] = "idle" => InUse
    /\ IF connection # 0
         THEN pc' = [pc EXCEPT ![g] = "get"] /\ UNCHANGED conditionWait
         ELSE pc' = [pc EXCEPT ![g] = "getting"] /\ conditionWait' = conditionWait \cup {g}
    /\ UNCHANGED <<connect, toConnect, connection, lock, stopWait, queue, calls>>
    /\ ThreadFrame

SpuriousWakeup(t) ==
    /\ t \in user.spurious
    /\ \/ /\ t \in conditionWait
          /\ AwakeClient(t)
          /\ UNCHANGED stopWait
       \/ /\ t = Owner /\ stopWait
          /\ stopWait' = FALSE
          /\ Goto(Owner, "halting", "halted")
          /\ UNCHANGED conditionWait
    /\ UNCHANGED <<connect, toConnect, connection, lock, queue, calls>>
    /\ ThreadFrame

-----------------------------------------------------------------------------
(* The destructor, in a thread that is not the loop thread.  Nobody uses the *)
(* client then.                                                              *)

(* DisableConnectAndWait: lock_ is held until Wait. *)
DisableConnect ==
    /\ Goto(Owner, "idle", "disable")
    /\ \A t \in Threads \ {Owner} : pc[t] = "idle"
    /\ \A g \in Getters : pc[g] \in {"idle", "get"}
    /\ lock' = Owner
    /\ queue' = Append(queue, F("disable", None))
    /\ UNCHANGED <<connect, toConnect, connection, conditionWait, stopWait, calls>>
    /\ ThreadFrame

DisableWait ==
    /\ Goto(Owner, "disable", "disabling")
    /\ lock' = None
    /\ conditionWait' = conditionWait \cup {Owner}
    /\ UNCHANGED <<connect, toConnect, connection, stopWait, queue, calls>>
    /\ ThreadFrame

(* StopAndWait: the connector's lock_ is held until Wait. *)
StopAndWait ==
    /\ Goto(Owner, "disabled", "halt")
    /\ connect' = FALSE
    /\ queue' = Append(queue, F("stopNotify", None))
    /\ UNCHANGED <<toConnect, connection, lock, conditionWait, stopWait, calls>>
    /\ ThreadFrame

StopAndWaitWait ==
    /\ Goto(Owner, "halt", "halting")
    /\ stopWait' = TRUE
    /\ UNCHANGED <<connect, toConnect, connection, lock, conditionWait, queue, calls>>
    /\ ThreadFrame

(* connection_ is taken; a client without one is destroyed. *)
TakeConnection ==
    /\ Goto(Owner, "halted", IF connection = 0 THEN "dead" ELSE "taken")
    /\ connection' = 0
    /\ UNCHANGED <<connect, toConnect, lock, conditionWait, stopWait, queue, calls>>
    /\ ThreadFrame

SetCloseCallbackAndWait ==
    /\ Goto(Owner, "taken", "setting")
    /\ queue' = Append(queue, F("setClose", None))
    /\ UNCHANGED <<connect, toConnect, connection, lock, conditionWait, stopWait, calls>>
    /\ ThreadFrame

-----------------------------------------------------------------------------
LoopStep == \/ HandleWriteStopped \/ CallbackReturns \/ RemoveRestarts
            \/ SwapFunctors \/ RunStart \/ OwnStart \/ StopInLoop \/ StopRetries \/ ResetChannel
            \/ DisableConnectInLoop \/ SetCloseCallbackInLoop \/ FunctorsDone \/ PollStep

HandleWriteStep == HandleWrite \/ HandleWriteError

UserCall(t) == ClientConnect(t) \/ ClientStop(t) \/ DisConnect(t)

ThreadStep(t) == QueueStart(t) \/ Stop(t) \/ QueueStop(t)

DestroyStep == DisableWait \/ StopAndWait \/ StopAndWaitWait \/ TakeConnection
               \/ SetCloseCallbackAndWait

Next == \/ LoopStep \/ HandleWriteStep \/ TimerFires
        \/ PeerCloses \/ OwnCall \/ OwnForceClose
        \/ \E t \in Threads : UserCall(t) \/ ThreadStep(t)
        \/ \E g \in Getters : GetConnection(g)
        \/ \E t \in Waiters : SpuriousWakeup(t)
        \/ DisableConnect \/ DestroyStep

Spec == Init /\ [][Next]_vars

(* The threads run, timers fire, a socket that is being connected becomes    *)
(* writable, and of attempts made again and again one succeeds in the end.   *)
FairSpec ==
    /\ Spec
    /\ WF_vars(LoopStep)
    /\ SF_vars(TimerFires)
    /\ SF_vars(TimerFires /\ state' = "kConnecting")
    /\ SF_vars(PollStep /\ active')
    /\ WF_vars(HandleWriteStep)
    /\ SF_vars(HandleWrite)
    /\ \A t \in Threads : WF_vars(ThreadStep(t))
    /\ \A g \in Getters : WF_vars(GetConnection(g) /\ pc[g] = "got")
    /\ WF_vars(DestroyStep)

-----------------------------------------------------------------------------
(* Properties. *)

(* Users are patient, and the owner's condition waits end when notified. *)
Calm == user.patient /\ Owner \notin user.spurious

(* With patient users an attempt to connect is watched as long as it is      *)
(* under way, and the poller never holds a channel of the connector that was *)
(* destroyed.                                                                *)
AttemptWatched == user.patient => /\ state = "kConnecting" <=> watched
                                  /\ watched => channel

(* With patient users an attempt begins when the channel of the one before   *)
(* is gone.                                                                  *)
FreshWhenPatient == user.patient => ~failed

(* connector.cc:185, assert(!channel_): an attempt begins when the channel   *)
(* of the one before is gone.                                                *)
ChannelFresh == ~failed

(* However Connect, Stop, retries and reconnections meet, a client has one   *)
(* connection at a time, and it is connection_ until the destructor takes    *)
(* it.                                                                       *)
OneConnection == /\ Cardinality(up) <= 1
                 /\ ~(pc[Owner] \in {"taken", "setting", "dead"}) => up \subseteq {connection}

(* When the destructor has returned no attempt is under way or can begin,    *)
(* for users that are Calm: neither a functor or a timer on its way, nor a   *)
(* connection that closes with is_retry set (tcp_client.cc:153-156), brings  *)
(* the connector back.                                                       *)
DestroyedQuiet == Calm /\ Dead => ~connect /\ ~watched /\ state # "kConnecting"

(* The loop thread does not use a client that was destroyed. *)
NotUsedLate == Calm => ~late

(* No thread in GetConnection sleeps on a connection that is there           *)
(* (tcp_client.cc:95-98, 130).                                               *)
GetterAwake == connection # 0 => conditionWait \cap Getters = {}

(* A client that is to connect gets there, however often the attempts fail,  *)
(* unless one fails for good or user code in the loop thread interferes.     *)
Connects == connect /\ Calm /\ user.own = {} /\ ~Outcome("close")
              ~> (state = "kConnected" \/ ~connect \/ conns = MaxConns)

(* connector.h:30, "Synchronously stop the connector, wait if necessary.":   *)
(* StopAndWait returns.                                                      *)
StopAndWaitReturns == pc[Owner] = "halt" ~> pc[Owner] \notin {"halt", "halting"}

(* tcp_client.h:42, "Just make to_connect_ be false in loop_, and wait if    *)
(* necessaey.": DisableConnectAndWait returns.                               *)
DisableReturns == pc[Owner] = "disable" ~> pc[Owner] \notin {"disable", "disabling"}

(* inet_address.h:17, "It hide the concrete type of the address (ipv4 or     *)
(* ipv6)": a client gets connected whatever the family of the server.        *)
ConnectsAnywhere == connect /\ Calm /\ user.own = {} /\ user.errnos \cap ConnectErrors["close"] = {}
                      ~> (state = "kConnected" \/ ~connect \/ conns = MaxConns)
====
