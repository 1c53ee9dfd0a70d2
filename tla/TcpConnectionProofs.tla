------------------------ MODULE TcpConnectionProofs -------------------------
(***************************************************************************)
(* Proofs about TcpConnection, for any threads, messages, sizes and users. *)
(* The invariant and the steps of the loop thread are in TcpConnectionLemmas.*)
(***************************************************************************)
EXTENDS TcpConnectionLemmas

(* A call that user code makes in the loop thread keeps the invariant,       *)
(* whichever callback it is made in.                                         *)
LEMMA OwnCallKeeps ==
    ASSUME ConnInv, NEW call \in CallNames, OwnCall(call), Broken => Broken',
           CloseIsQueued /\ call = "forceClose" => high = <<>> /\ lpc # "handle",
           InCallback \/ lpc = "handle"
    PROVE  Kept
<1> USE ConnParts
<1>1. /\ state # "kConnecting"
      /\ UNCHANGED <<outVars, loopVars, queue, pc, user>>
      /\ \/ ForceCloseInLoop /\ (CloseIsQueued => high = <<>> /\ lpc # "handle")
         \/ StartReadInLoop \/ StopReadInLoop \/ ShutDownOwn
  BY Zenon DEF OwnCall, CallNames
<1>2. /\ state' # "kConnecting" /\ (inMap => inMap') /\ Life'
      /\ state = "kDisConnected" => index' = index
  BY <1>1, CallLife DEF outVars, loopVars
<1>3. Rounds' /\ OwnFunctors'
  BY <1>1, <1>2 DEF Rounds, InCallback, OwnFunctors, NoneIs, outVars, loopVars
<1>4. CloseIsQueued => NoLateClose'
  <2> SUFFICES ASSUME CloseIsQueued PROVE NoLateClose'
    OBVIOUS
  <2>1. NoLateClose
    OBVIOUS
  <2>2. CASE state = "kDisConnected"
    BY <1>1, <1>2, <2>1, <2>2 DEF NoLateClose, loopVars
  <2>3. CASE state # "kDisConnected"
    <3>1. state' = "kDisConnected" => lpc # "handle"
      BY <1>1, <2>3 DEF StartReadInLoop, StopReadInLoop, ShutDownOwn
    <3> QED
      BY <1>1, <1>2, <2>1, <3>1 DEF NoLateClose, loopVars, Rounds, InCallback
  <2> QED
    BY <2>2, <2>3
<1> QED
  BY <1>1, <1>2, <1>3, <1>4 DEF Kept, CloseIsQueued

(* User code in callbacks keeps the invariant. *)
LEMMA UsersKeep ==
    ASSUME ConnInv, Broken => Broken', UserStep
    PROVE  Kept
<1> USE ConnParts
<1>1. user.calls \subseteq CallNames
  BY UserCalls
<1>2. CASE UserCall
  BY <1>1, <1>2, OwnCallKeeps DEF UserCall, InCallback
<1>3. CASE OtherCall
  BY <1>1, <1>3, OwnCallKeeps DEF OtherCall, CloseIsQueued
<1>4. CASE HighWaterCall
  BY <1>1, <1>4, OwnCallKeeps DEF HighWaterCall, CloseIsQueued, Rounds
<1>5. ASSUME NEW m \in Msgs, SendOwn(m) PROVE Kept
  <2>1. /\ InCallback \/ lpc = "handle"
        /\ state = "kConnected"
        /\ SendInLoop(m) \/ SendBufferInLoop(m)
        /\ UNCHANGED <<user, state, closeVars, loopVars, queue, pc>>
    BY <1>5 DEF SendOwn, Rounds
  <2>2. Up
    BY <2>1 DEF Life, Alive
  <2>3. Agrees' /\ (events' # {} => index' = "kAdded") /\ (outBuf' # <<>> <=> IsWritting')
    BY <2>1, <2>2, SendUp
  <2>4. Up'
    BY <2>1, <2>2, <2>3 DEF Up, NonePending, NoneIs, closeVars, loopVars
  <2>5. Rounds' /\ OwnFunctors'
    BY <2>1 DEF Rounds, InCallback, OwnFunctors, NoneIs, loopVars
  <2>6. CloseIsQueued => NoLateClose'
    BY <2>1, <2>2, <2>4 DEF NoLateClose, Up, Agrees, loopVars
  <2> QED
    BY <2>1, <2>4, <2>5, <2>6 DEF Kept, Life, Alive, CloseIsQueued
<1> QED
  BY <1>2, <1>3, <1>4, <1>5 DEF UserStep

(* A functor that is neither of the life cycle's is queued, or on its way. *)
LEMMA ThreadsKeep ==
    ASSUME ConnInv, Broken => Broken', NEW t \in Threads, ThreadStep(t)
    PROVE  Kept
<1> USE ConnParts
<1>a. ASSUME NEW f, Call(t, f), f.op \notin {"establish", "destroy"}, user' = user,
             \/ state' = state
             \/ state = "kConnected" /\ state' = "kDisConnecting"
      PROVE  Kept
  <2>1. /\ state # "kConnecting" /\ pc' = [pc EXCEPT ![t] = f]
        /\ UNCHANGED <<outVars, pollVars, loopVars, queue, closeVars>>
    BY <1>a DEF Call
  <2> USE DEF outVars, pollVars, loopVars, closeVars
  <2>2. OwnFunctors'
    BY <1>a, <2>1, Types DEF OwnFunctors, NoneIs
  <2>3. Rounds'
    BY <1>a, <2>1 DEF Rounds, InCallback
  <2>4. CloseIsQueued => NoLateClose'
    BY <1>a, <2>1 DEF NoLateClose
  <2>5. (Up => Up') /\ (Down => Down')
    BY <2>1 DEF Up, Down, Agrees, NonePending, OnePending, NoneIs, Single, IsWritting
  <2>6. Life'
    BY <1>a, <2>1, <2>5 DEF Life, Alive, CloseIsQueued
  <2> QED
    BY <1>a, <2>2, <2>3, <2>4, <2>6 DEF Kept, CloseIsQueued
<1>1. CASE \E m \in Msgs : Send(t, m)
  BY <1>1, <1>a DEF Send
<1>2. CASE ShutDown(t)
  BY <1>2, <1>a DEF ShutDown
<1>3. CASE ForceClose(t)
  BY <1>3, <1>a DEF ForceClose
<1>4. CASE StartOrStopRead(t)
  BY <1>4, <1>a DEF StartOrStopRead
<1>5. CASE Queue(t)
  <2>1. /\ pc[t] # None /\ queue' = Append(queue, pc[t]) /\ pc' = [pc EXCEPT ![t] = None]
        /\ UNCHANGED <<state, outVars, pollVars, loopVars, user, closeVars>>
    BY <1>5 DEF Queue
  <2>2. queue \in Seq(Functor) /\ pc[t] \in Functor /\ pc[t].op \notin {"establish", "destroy"}
    BY <2>1, Types DEF OwnFunctors
  <2>3. state # "kConnecting"
    BY <2>1 DEF Life, NotYetUp
  <2>4. /\ NoneIs("establish", queue) => NoneIs("establish", queue')
        /\ NoneIs("destroy", queue) => NoneIs("destroy", queue')
        /\ Single(queue) => Single(queue')
    BY <2>1, <2>2, NoneAppended, SingleAppended
  <2> USE DEF outVars, pollVars, loopVars, closeVars
  <2>5. OwnFunctors'
    BY <2>1, <2>3, <2>4, Types DEF OwnFunctors, NoneIs
  <2>6. Rounds'
    BY <2>1 DEF Rounds, InCallback
  <2>7. CloseIsQueued => NoLateClose'
    BY <2>1 DEF NoLateClose
  <2>8. (NonePending => NonePending') /\ (OnePending => OnePending')
    BY <2>1, <2>4 DEF NonePending, OnePending, NoneIs, Single
  <2>9. (Up => Up') /\ (Down => Down')
    BY <2>1, <2>8 DEF Up, Down, Agrees, IsWritting
  <2>10. Life'
    BY <2>1, <2>3, <2>9 DEF Life, Alive, CloseIsQueued
  <2> QED
    BY <2>1, <2>5, <2>6, <2>7, <2>10 DEF Kept, CloseIsQueued
<1> QED
  BY <1>1, <1>2, <1>3, <1>4, <1>5 DEF ThreadStep

(* RemoveConnectionInLoop of the server keeps the invariant. *)
LEMMA RemovalKeeps ==
    ASSUME ConnInv, Broken => Broken', RemoveConnectionInLoop
    PROVE  Kept
<1> USE ConnParts
<1> DEFINE f == [op |-> "destroy", m |-> None]
<1>1. /\ removes > 0 /\ removes' = removes - 1 /\ queue' = Append(queue, f)
      /\ UNCHANGED <<state, outVars, pollVars, loopVars, pc, user>>
  BY DEF RemoveConnectionInLoop
<1>2. queue \in Seq(Functor) /\ f \in Functor /\ removes \in Nat
  BY Types DEF Functor, FunctorOps, CallNames
<1>3. state = "kDisConnected" /\ ~NonePending
  <2>1. ~NonePending
    BY <1>1 DEF NonePending
  <2>2. ~Alive
    BY <2>1 DEF Life, Up
  <2>3. removes # 0
    BY <1>1
  <2>4. state # "kConnecting"
    BY <2>3 DEF Life, NotYetUp
  <2>5. state \in States
    BY Types
  <2> QED
    BY <2>1, <2>2, <2>4, <2>5 DEF Alive, States
<1>4. /\ NoneIs("establish", queue) => NoneIs("establish", queue')
      /\ NoneIs("destroy", queue) /\ Single(queue) => Single(queue')
  BY <1>1, <1>2, NoneAppended, SingleAppended
<1> USE DEF outVars, pollVars, loopVars
<1>5. OwnFunctors'
  BY <1>1, <1>4 DEF OwnFunctors, NoneIs
<1>6. Rounds'
  BY <1>1 DEF Rounds, InCallback
<1>7. CloseIsQueued => NoLateClose'
  BY <1>1 DEF NoLateClose
<1>8. OnePending => OnePending'
  <2>1. OnePending => removes = 1
    BY <1>1, <1>2 DEF OnePending
  <2>2. OnePending => /\ removes' = 0 /\ batch' = batch
                      /\ Single(queue') /\ Single(batch) /\ NoneIs("destroy", batch)
    BY <1>1, <1>4, <2>1 DEF OnePending
  <2>3. OnePending => removes' <= 1 /\ removes' # 1
    BY <2>2
  <2> QED
    BY <2>2, <2>3, Zenon DEF OnePending
<1>9. Down => Down'
  BY <1>1, <1>3, <1>8 DEF Down, Agrees
<1> QED
  BY <1>1, <1>3, <1>5, <1>6, <1>7, <1>9 DEF Kept, Life, Alive, CloseIsQueued

(* Once write() fails it goes on failing. *)
LEMMA BrokenStays ==
    ASSUME TypeOK, Next, Broken
    PROVE  Broken'
<1> USE DEF Broken, sockVars
<1>1. CASE LoopStep \/ PollOther
  <2>1. CASE Poll \/ HandleEvent \/ MessageReturns \/ HandleHup \/ SwapFunctors
    BY <2>1 DEF Poll, HandleEvent, MessageReturns, HandleHup, SwapFunctors
  <2>2. CASE HandleRead \/ CompleteReturns
    BY <2>2, Zenon DEF HandleRead, CompleteReturns, ShutDownInLoop
  <2>3. CASE HandleWrite
    BY <2>3 DEF HandleWrite
  <2>4. CASE EstablishConnection \/ UpReturns \/ DestroyConnection \/ FunctorsDone \/ HighWaterReturns
    BY <2>4 DEF EstablishConnection, UpReturns, DestroyConnection, FunctorsDone, HighWaterReturns
  <2>5. CASE RunSend
    BY <2>5, Zenon DEF RunSend, SendInLoop
  <2>6. CASE RunShutDown \/ RunCall
    BY <2>6, Zenon DEF RunShutDown, RunCall, ShutDownInLoop, ForceCloseInLoop, StartReadInLoop, StopReadInLoop
  <2> QED
    BY <1>1, <2>1, <2>2, <2>3, <2>4, <2>5, <2>6 DEF LoopStep, PollReady, PollOther
<1>2. CASE UserStep
  <2>1. ASSUME NEW call, OwnCall(call) PROVE Broken' \/ call \notin CallNames
    BY <2>1, Zenon DEF OwnCall, ShutDownOwn, ShutDownInLoop, ForceCloseInLoop, StartReadInLoop,
       StopReadInLoop, CallNames
  <2>2. user.calls \subseteq CallNames
    BY UserCalls
  <2>3. ASSUME NEW m, SendOwn(m) PROVE Broken'
    <3>1. UNCHANGED <<wrShut, reset>>
      BY <2>3 DEF SendOwn, SendInLoop, SendBufferInLoop
    <3> QED
      BY <3>1
  <2> QED
    BY <1>2, <2>1, <2>2, <2>3 DEF UserStep, UserCall, OtherCall, HighWaterCall
<1>3. CASE RemoveConnectionInLoop
  BY <1>3 DEF RemoveConnectionInLoop
<1>4. CASE PeerStep
  BY <1>4 DEF PeerStep, PeerReads, PeerSends, PeerCloses, PeerResets, environmentFrame
<1>5. ASSUME NEW t \in Threads, ThreadStep(t) PROVE Broken'
  BY <1>5 DEF ThreadStep, Send, ShutDown, ForceClose, StartOrStopRead, Queue, Call
<1> QED
  BY <1>1, <1>2, <1>3, <1>4, <1>5 DEF Next

(* The invariant is inductive: one step for each kind of action. *)
LEMMA NextConnInv == ConnInv /\ [Next]_vars => ConnInv'
<1> SUFFICES ASSUME ConnInv, [Next]_vars PROVE ConnInv'
  OBVIOUS
<1>1. TypeOK'
  BY NextType DEF ConnInv
<1>2. CASE UNCHANGED vars
  <2>1. Rounds'
    BY <1>2 DEF ConnInv, Rounds, InCallback, Broken, vars, outVars, loopVars, sockVars
  <2>2. CloseIsQueued => NoLateClose'
    BY <1>2 DEF ConnInv, NoLateClose, vars, pollVars, loopVars
  <2> QED
    BY <1>1, <1>2, <2>1, <2>2, OthersKept DEF vars, outVars, loopVars, closeVars, Kept, ConnInv
<1>3. CASE Next
  <2>1. TypeOK /\ (Broken => Broken')
    BY <1>3, BrokenStays DEF ConnInv
  <2>2. CASE LoopStep \/ PollOther
    BY <2>1, <2>2, HandlersKeep, FunctorsKeep, <1>1 DEF LoopStep, PollReady, PollOther, Kept, ConnInv
  <2>3. CASE UserStep
    BY <2>1, <2>3, UsersKeep, <1>1 DEF Kept, ConnInv
  <2>4. CASE RemoveConnectionInLoop
    BY <2>1, <2>4, RemovalKeeps, <1>1 DEF Kept, ConnInv
  <2>5. CASE PeerStep
    <3>1. UNCHANGED environmentFrame
      BY <2>5 DEF PeerStep, PeerReads, PeerSends, PeerCloses, PeerResets
    <3>2. Rounds'
      BY <2>1, <3>1 DEF ConnInv, Rounds, InCallback, environmentFrame, outVars, loopVars
    <3>3. CloseIsQueued => NoLateClose'
      BY <3>1 DEF ConnInv, NoLateClose, environmentFrame, pollVars, loopVars
    <3> QED
      BY <1>1, <3>1, <3>2, <3>3, OthersKept
         DEF environmentFrame, outVars, loopVars, closeVars, Kept, ConnInv
  <2>6. ASSUME NEW t \in Threads, ThreadStep(t) PROVE ConnInv'
    BY <1>1, <2>1, <2>6, ThreadsKeep DEF Kept, ConnInv
  <2> QED
    BY <1>3, <2>2, <2>3, <2>4, <2>5, <2>6 DEF Next
<1> QED
  BY <1>2, <1>3

(* The invariant of a connection, its channel and its poller: which state_,  *)
(* events, index and functors go together at each position of the loop,      *)
(* whatever the user and the peer do.                                        *)
THEOREM ConnInvariant == Spec => []ConnInv
BY InitConnInv, NextConnInv, PTL DEF Spec

-----------------------------------------------------------------------------
(* What the invariant says. *)

(* While a connection is up, POLLOUT is watched exactly while bytes wait in  *)
(* ouput_buffer_, whatever a user calls and wherever.                        *)
THEOREM OutputIsWatched == Spec => []WriteWatched
<1>1. ConnInv => WriteWatched
  BY Types, ConnParts DEF Life, Up, Agrees, WriteWatched, IsWritting
<1> QED
  BY <1>1, ConnInvariant, PTL

(* EpollPoller and epoll agree, so that no epoll_ctl fails: for every user   *)
(* that calls ForceClose in own callbacks, functors and threads only.        *)
THEOREM PollerAgrees == Spec => []EpollAgrees
<1>1. ConnInv => EpollAgrees
  BY Types, ConnParts DEF Life, NotYetUp, Alive, Up, Agrees, Down, EpollAgrees, States
<1> QED
  BY <1>1, ConnInvariant, PTL

(* The socket is shut down for writing after the last byte that SendInLoop   *)
(* took, whichever of ShutDownInLoop's callers does it.                      *)
THEOREM ShutdownIsLast == Spec => ShutdownAfterFlush
<1> DEFINE Step == wrShut' # wrShut =>
                     \/ state = "kDisConnected"
                     \/ outBuf = <<>> /\ (high = <<>> \/ "shutDown" \in user.high)
<1>1. ASSUME ConnInv, Next PROVE Step
  <2> USE <1>1, ConnParts
  <2>1. /\ ~IsWritting /\ state # "kDisConnected" => outBuf = <<>>
        /\ InCallback \/ lpc = "handle" \/ high = <<>>
        /\ IsWritting \in BOOLEAN /\ wrShut \in BOOLEAN
    <3>1. ~IsWritting /\ state # "kDisConnected" => outBuf = <<>>
      BY Types DEF Life, NotYetUp, Alive, Up, States
    <3>2. InCallback \/ lpc = "handle" \/ high = <<>>
      BY DEF Rounds
    <3> QED
      BY <3>1, <3>2, Types DEF IsWritting
  <2>2. CASE LoopStep \/ PollOther
    <3> USE DEF sockVars
    <3>1. CASE Poll \/ HandleEvent \/ MessageReturns \/ HandleHup \/ SwapFunctors \/ HandleRead
      BY <3>1 DEF Poll, HandleEvent, MessageReturns, HandleHup, SwapFunctors, HandleRead
    <3>2. CASE CompleteReturns
      BY <2>1, <3>2 DEF CompleteReturns, ShutDownInLoop
    <3>3. CASE HandleWrite
      BY <3>3 DEF HandleWrite
    <3>4. CASE EstablishConnection \/ UpReturns \/ DestroyConnection \/ FunctorsDone \/ HighWaterReturns
      BY <3>4, Zenon DEF EstablishConnection, UpReturns, DestroyConnection, FunctorsDone, HighWaterReturns
    <3>5. CASE RunSend
      BY <3>5, Zenon DEF RunSend, SendInLoop
    <3>6. CASE RunShutDown
      BY <2>1, <3>6, Zenon DEF RunShutDown, ShutDownInLoop, NextFunctor
    <3>7. CASE RunCall
      BY <3>7 DEF RunCall, ForceCloseInLoop, StartReadInLoop, StopReadInLoop
    <3> QED
      BY <2>2, <3>1, <3>2, <3>3, <3>4, <3>5, <3>6, <3>7 DEF LoopStep, PollReady, PollOther
  <2>3. CASE UserStep
    <3>1. user.calls \subseteq CallNames
      BY UserCalls
    <3>2. ASSUME NEW call \in CallNames, OwnCall(call)
          PROVE  wrShut' # wrShut => call = "shutDown" /\ ~IsWritting /\ state = "kConnected"
      <4>1. CASE call = "shutDown"
        BY <2>1, <3>2, <4>1 DEF OwnCall, ShutDownOwn, ShutDownInLoop
      <4>2. CASE call # "shutDown"
        BY <3>2, <4>2, Zenon DEF OwnCall, CallNames, ForceCloseInLoop, StartReadInLoop, StopReadInLoop
      <4> QED
        BY <4>1, <4>2
    <3>3. ASSUME NEW m, SendOwn(m) PROVE Step
      BY <3>3 DEF SendOwn, SendInLoop, SendBufferInLoop, sockVars
    <3>4. CASE UserCall
      BY <2>1, <3>1, <3>2, <3>4 DEF UserCall
    <3>5. CASE OtherCall
      BY <2>1, <3>1, <3>2, <3>5 DEF OtherCall, InCallback
    <3>6. CASE HighWaterCall
      BY <2>1, <3>1, <3>2, <3>6 DEF HighWaterCall
    <3> QED
      BY <2>3, <3>3, <3>4, <3>5, <3>6 DEF UserStep
  <2>4. CASE RemoveConnectionInLoop \/ PeerStep
    BY <2>4 DEF RemoveConnectionInLoop, sockVars, PeerStep, PeerReads, PeerSends, PeerCloses,
       PeerResets, environmentFrame
  <2>5. ASSUME NEW t \in Threads, ThreadStep(t) PROVE Step
    BY <2>5 DEF ThreadStep, Send, ShutDown, ForceClose, StartOrStopRead, Queue, Call, sockVars
  <2> QED
    BY <1>1, <2>2, <2>3, <2>4, <2>5 DEF Next
<1>2. ConnInv /\ [Next]_vars => [Step]_vars
  BY <1>1
<1> QED
  BY <1>2, ConnInvariant, PTL DEF Spec, ShutdownAfterFlush

-----------------------------------------------------------------------------
(* The stream of bytes. *)

(* Each call of Send makes one functor, which is in one place: about to be   *)
(* queued, in the queue or in the batch.  SendInLoop takes its message when  *)
(* the functor has left the batch.                                           *)
IsSend(f) == f # None /\ f.op = "send"

Untaken(f, acc, n) == IsSend(f) => f.m <= n /\ f.m \notin Range(acc)

Apart(f, g) == IsSend(f) /\ IsSend(g) => f.m # g.m

(* The messages acc were taken of the first n, and the others are in hand of *)
(* threads (p), in the queue (q) or in the batch (b).                        *)
Sends(acc, n, q, b, p) ==
    /\ \A i \in DOMAIN acc : acc[i] <= n
    /\ \A i \in DOMAIN q : Untaken(q[i], acc, n)
    /\ \A i \in DOMAIN b : Untaken(b[i], acc, n)
    /\ \A t \in Threads : Untaken(p[t], acc, n)
    /\ \A i, j \in DOMAIN q : i # j => Apart(q[i], q[j])
    /\ \A i, j \in DOMAIN b : i # j => Apart(b[i], b[j])
    /\ \A i \in DOMAIN q, j \in DOMAIN b : Apart(q[i], b[j])
    /\ \A t, u \in Threads : t # u => Apart(p[t], p[u])
    /\ \A t \in Threads : /\ \A i \in DOMAIN q : Apart(p[t], q[i])
                         /\ \A i \in DOMAIN b : Apart(p[t], b[i])

SendsOnce == Sends(accepted, used, queue, batch, pc)

(* Unless the user Sends in high_water_callback_, one SendInLoop at a time   *)
(* has bytes in hand.                                                        *)
Ordered == "send" \notin user.high => AlwaysInOrder /\ Len(high) <= 1

(* No byte of a message that was taken is lost. *)
KeepsAll == Range(accepted) \X (1..MsgLen) \subseteq Held

StreamInv == KeepsAll /\ Ordered /\ SendsOnce

(* Two runs of bytes of a message that follow each other are one run. *)
LEMMA BytesJoin ==
    ASSUME NEW m \in Msgs, NEW w \in Nat, NEW n \in Nat
    PROVE  Bytes(m, 1, w) \o Bytes(m, w + 1, n) = Bytes(m, 1, w + n)
<1> DEFINE a == Bytes(m, 1, w)
           b == Bytes(m, w + 1, n)
           c == Bytes(m, 1, w + n)
<1>1. a \in Seq(Byte) /\ Len(a) = w /\ b \in Seq(Byte) /\ Len(b) = n
  BY BytesType
<1>2. c \in Seq(Byte) /\ Len(c) = w + n
  BY BytesType
<1> HIDE DEF a, b, c
<1>3. /\ a \o b \in Seq(Byte) /\ Len(a \o b) = w + n
      /\ \A i \in 1..(w + n) : (a \o b)[i] = IF i <= w THEN a[i] ELSE b[i - w]
  BY <1>1
<1>4. ASSUME NEW i \in 1..(w + n) PROVE (a \o b)[i] = c[i]
  <2>1. CASE i <= w
    BY <1>3, <2>1 DEF a, c, Bytes
  <2>2. CASE ~(i <= w)
    <3>1. i - w \in 1..n /\ (w + 1) + (i - w) - 1 = 1 + i - 1
      BY <2>2
    <3>2. b[i - w] = <<m, (w + 1) + (i - w) - 1>> /\ c[i] = <<m, 1 + i - 1>>
      BY <3>1 DEF b, c, Bytes
    <3> QED
      BY <1>3, <2>2, <3>1, <3>2, Zenon
  <2> QED
    BY <2>1, <2>2, Zenon
<1>5. a \o b = c
  BY <1>2, <1>3, <1>4
<1> QED
  BY <1>5, Zenon DEF a, b, c

(* Bytes may be appended in any grouping. *)
LEMMA BytesAssociative ==
    \A s, t, u \in Seq(Byte) : (s \o t) \o u = s \o (t \o u)
OBVIOUS

(* What write() took and what is left are the whole. *)
LEMMA SplitSeq ==
    ASSUME NEW s \in Seq(Byte), NEW w \in 0..Len(s)
    PROVE  /\ SubSeq(s, 1, w) \in Seq(Byte) /\ SubSeq(s, w + 1, Len(s)) \in Seq(Byte)
           /\ SubSeq(s, 1, w) \o SubSeq(s, w + 1, Len(s)) = s
<1> DEFINE a == SubSeq(s, 1, w)
           b == SubSeq(s, w + 1, Len(s))
           c == a \o b
<1>1. Len(s) \in Nat /\ w \in Nat /\ w <= Len(s)
  OBVIOUS
<1>2. a \in Seq(Byte) /\ Len(a) = w /\ \A i \in 1..w : a[i] = s[i]
  BY <1>1
<1>3. b \in Seq(Byte) /\ Len(b) = Len(s) - w /\ \A i \in 1..(Len(s) - w) : b[i] = s[w + i]
  BY <1>1
<1> HIDE DEF a, b
<1>4. /\ c \in Seq(Byte) /\ Len(c) = Len(s)
      /\ \A i \in 1..w : c[i] = a[i]
      /\ \A i \in 1..(Len(s) - w) : c[w + i] = b[i]
  BY <1>1, <1>2, <1>3
<1> HIDE DEF c
<1>5. \A i \in (w + 1)..Len(s) : i - w \in 1..(Len(s) - w) /\ w + (i - w) = i
  BY <1>1
<1>6. ASSUME NEW i \in 1..Len(s) PROVE c[i] = s[i]
  <2>1. CASE i \in 1..w
    BY <1>2, <1>4, <2>1, Zenon
  <2>2. CASE i \in (w + 1)..Len(s)
    <3>1. c[w + (i - w)] = b[i - w] /\ b[i - w] = s[w + (i - w)]
      BY <1>3, <1>4, <1>5, <2>2, Zenon
    <3> QED
      BY <1>5, <2>2, <3>1, Zenon
  <2> QED
    BY <1>1, <2>1, <2>2
<1>7. c = s
  BY <1>4, <1>6
<1> QED
  BY <1>2, <1>3, <1>7, Zenon DEF a, b, c

(* The same bytes follow on the wire.                                        *)
LEMMA SplitOutput ==
    ASSUME NEW v \in Seq(Byte), NEW s \in Seq(Byte), NEW w \in 0..Len(s)
    PROVE  (v \o SubSeq(s, 1, w)) \o SubSeq(s, w + 1, Len(s)) = v \o s
<1> DEFINE a == SubSeq(s, 1, w)
           b == SubSeq(s, w + 1, Len(s))
<1>1. a \in Seq(Byte) /\ b \in Seq(Byte)
  BY SplitSeq
<1>2. a \o b = s
  BY SplitSeq, Zenon
<1> HIDE DEF a, b
<1>3. (v \o a) \o b = v \o (a \o b)
  BY <1>1, BytesAssociative, Zenon
<1>4. (v \o a) \o b = v \o s
  BY <1>2, <1>3, Zenon
<1> QED
  BY <1>4, Zenon DEF a, b

(* What is in hand are bytes. *)
LEMMA HandType == TypeOK => Hand \in Seq(Byte)
BY InHand DEF Hand

(* What SendInLoop does to the output: it appends the message, and perhaps   *)
(* bytes from beyond its end.                                                *)
LEMMA SendOutput ==
    ASSUME TypeOK, high = <<>>, NEW m \in Msgs, SendInLoop(m) \/ SendBufferInLoop(m)
    PROVE  /\ accepted' = Append(accepted, m)
           /\ \E n \in Nat : n >= MsgLen /\ Output' = Output \o Bytes(m, 1, n)
           /\ Len(high') <= 1
<1>a. accepted' = Append(accepted, m)
  BY DEF SendInLoop, SendBufferInLoop
<1>b. MsgLen \in Nat
  BY ConnectionAssumption
<1>c. wire \in Seq(Byte) /\ outBuf \in Seq(Byte)
  BY Types
<1>d. ASSUME NEW bytes \in Seq(Byte), NEW r, Buffer(bytes, r)
      PROVE  /\ outBuf' \o Hand' = outBuf \o bytes
             /\ outBuf' \in Seq(Byte) /\ Hand' \in Seq(Byte)
  <2>1. CASE outBuf' = outBuf \o bytes /\ high' = <<>>
    <3>1. outBuf \o bytes \in Seq(Byte)
      BY <1>c
    <3>2. (outBuf \o bytes) \o <<>> = outBuf \o bytes
      BY <3>1
    <3>3. <<>> \in Seq(Byte) /\ Hand' = <<>>
      BY <2>1 DEF Hand
    <3> QED
      BY <2>1, <3>1, <3>2, <3>3
  <2>2. CASE outBuf' = outBuf /\ high' = <<bytes>> \o <<>>
    <3>1. high' = <<bytes>>
      BY <2>2
    <3>2. high' # <<>> /\ Head(high') = bytes
      BY <3>1
    <3>3. Hand' = bytes
      BY <3>2 DEF Hand
    <3> QED
      BY <1>c, <2>2, <3>3
  <2> QED
    BY <1>d, <2>1, <2>2 DEF Buffer, PutOut
<1>e. ASSUME NEW bytes \in Seq(Byte), NEW r, Buffer(bytes, r)
      PROVE  Len(high') <= 1
  <2>1. high' = <<>> \/ high' = <<bytes>> \o <<>>
    BY <1>e DEF Buffer
  <2>2. Len(<<bytes>> \o <<>>) = 1 /\ Len(<<>>) = 0
    OBVIOUS
  <2>3. Len(high') = 1 \/ Len(high') = 0
    BY <2>1, <2>2, Zenon
  <2>4. \A n : n = 1 \/ n = 0 => n <= 1
    OBVIOUS
  <2> QED
    BY <2>3, <2>4, Zenon
<1>1. CASE SendInLoop(m) /\ ~IsWritting /\ outBuf = <<>>
  <2>1. PICK w \in Written(MsgLen) :
          /\ wire' = wire \o Bytes(m, 1, w)
          /\ IF w = MsgLen THEN UNCHANGED <<outBuf, high, pollVars>>
                           ELSE Buffer(Bytes(m, w + 1, MsgLen), MsgLen - w)
    BY <1>1 DEF SendInLoop
  <2>2. w \in Nat /\ Bytes(m, 1, w) \in Seq(Byte) /\ Bytes(m, w + 1, MsgLen) \in Seq(Byte)
    BY <1>b, <2>1, WrittenType, BytesType
  <2>3. Output = wire
    BY <1>1, <1>c DEF Output, Hand
  <2>4. wire' \in Seq(Byte)
    BY <1>c, <2>1, <2>2
  <2>5. CASE w = MsgLen
    <3>1. Output' = wire'
      BY <1>1, <2>1, <2>4, <2>5 DEF Output, Hand
    <3>2. Len(high') <= 1
      BY <2>1, <2>5
    <3> QED
      BY <1>a, <1>b, <2>1, <2>3, <2>5, <3>1, <3>2
  <2>6. CASE w # MsgLen
    <3>1. /\ outBuf' \o Hand' = outBuf \o Bytes(m, w + 1, MsgLen)
          /\ outBuf' \in Seq(Byte) /\ Hand' \in Seq(Byte)
      BY <1>d, <2>1, <2>2, <2>6, Zenon
    <3>2. outBuf' \o Hand' = Bytes(m, w + 1, MsgLen)
      BY <1>1, <2>2, <3>1
    <3>3. Output' = wire' \o Bytes(m, w + 1, MsgLen)
      <4>1. Output' = (wire' \o outBuf') \o Hand'
        BY DEF Output
      <4>2. Output' = wire' \o (outBuf' \o Hand')
        BY <2>4, <3>1, <4>1, BytesAssociative, Zenon
      <4> QED
        BY <3>2, <4>2
    <3>4. Output' = wire \o (Bytes(m, 1, w) \o Bytes(m, w + 1, MsgLen))
      <4>1. Output' = (wire \o Bytes(m, 1, w)) \o Bytes(m, w + 1, MsgLen)
        BY <2>1, <3>3
      <4> QED
        BY <1>c, <2>2, <4>1, BytesAssociative, Zenon
    <3>5. Output' = Output \o Bytes(m, 1, w + MsgLen)
      BY <1>b, <2>2, <2>3, <3>4, BytesJoin, Zenon
    <3>6. w + MsgLen \in Nat /\ w + MsgLen >= MsgLen
      BY <1>b, <2>2
    <3>7. Len(high') <= 1
      BY <1>e, <2>1, <2>2, <2>6
    <3> QED
      BY <1>a, <3>5, <3>6, <3>7, Zenon
  <2> QED
    BY <2>5, <2>6
<1>2. CASE Buffer(Bytes(m, 1, MsgLen), MsgLen) /\ wire' = wire
  <2>1. Bytes(m, 1, MsgLen) \in Seq(Byte)
    BY <1>b, BytesType
  <2>2. /\ outBuf' \o Hand' = outBuf \o Bytes(m, 1, MsgLen)
        /\ outBuf' \in Seq(Byte) /\ Hand' \in Seq(Byte)
    BY <1>d, <1>2, <2>1
  <2>3. Output' = wire \o (outBuf \o Bytes(m, 1, MsgLen))
    <3>1. Output' = (wire \o outBuf') \o Hand'
      BY <1>2 DEF Output
    <3>2. Output' = wire \o (outBuf' \o Hand')
      BY <1>c, <2>2, <3>1, BytesAssociative, Zenon
    <3> QED
      BY <2>2, <3>2
  <2>4. Output = wire \o outBuf
    BY <1>c DEF Output, Hand
  <2>5. Output' = Output \o Bytes(m, 1, MsgLen)
    BY <1>c, <2>1, <2>3, <2>4, BytesAssociative, Zenon
  <2>6. MsgLen >= MsgLen /\ Len(high') <= 1
    BY <1>b, <1>e, <1>2, <2>1
  <2> QED
    BY <1>a, <1>b, <2>5, <2>6, Zenon
<1> QED
  BY <1>1, <1>2 DEF SendInLoop, SendBufferInLoop

(* A message that has not been taken yet may be appended. *)
LEMMA StreamExtends ==
    ASSUME NEW taken \in Seq(Msgs), NEW output \in Seq(Byte), IsStream(taken, output),
           NEW m \in Msgs, m \notin Range(taken), NEW n \in Nat, n >= MsgLen
    PROVE  IsStream(Append(taken, m), output \o Bytes(m, 1, n))
<1> DEFINE taken2  == Append(taken, m)
           output2 == output \o Bytes(m, 1, n)
           k == Len(taken)
           l == Len(output)
<1>1. MsgLen \in Nat
  BY ConnectionAssumption
<1>a. /\ k \in Nat /\ DOMAIN taken = 1..k /\ DOMAIN taken2 = 1..(k + 1)
      /\ \A p \in 1..k : taken2[p] = taken[p]
      /\ taken2[k + 1] = m
  <2>1. k \in Nat /\ DOMAIN taken = 1..k
    OBVIOUS
  <2>2. /\ taken2 \in Seq(Msgs) /\ Len(taken2) = k + 1 /\ taken2[k + 1] = m
        /\ \A p \in 1..k : taken2[p] = taken[p]
    OBVIOUS
  <2>3. DOMAIN taken2 = 1..(k + 1)
    BY <2>2
  <2> QED
    BY <2>1, <2>2, <2>3
<1>b. /\ l \in Nat /\ DOMAIN output = 1..l /\ DOMAIN output2 = 1..(l + n)
      /\ \A i \in 1..l : output2[i] = output[i]
      /\ \A i \in 1..n : output2[l + i] = <<m, i>>
  <2>1. l \in Nat /\ DOMAIN output = 1..l
    OBVIOUS
  <2>2. Bytes(m, 1, n) \in Seq(Byte) /\ Len(Bytes(m, 1, n)) = n
    BY BytesType
  <2>3. /\ output2 \in Seq(Byte) /\ Len(output2) = l + n
        /\ \A i \in 1..(l + n) : output2[i] = IF i <= l THEN output[i] ELSE Bytes(m, 1, n)[i - l]
    <3>1. /\ output2 \in Seq(Byte) /\ Len(output2) = l + Len(Bytes(m, 1, n))
          /\ \A i \in 1..(l + Len(Bytes(m, 1, n))) :
               output2[i] = IF i <= l THEN output[i] ELSE Bytes(m, 1, n)[i - l]
      BY <2>2
    <3> QED
      BY <2>2, <3>1, Zenon
  <2>4. DOMAIN output2 = 1..(l + n)
    BY <2>3
  <2> HIDE DEF l, output2
  <2>5. \A i \in 1..l : output2[i] = output[i]
    BY <2>1, <2>3
  <2>6. ASSUME NEW i \in 1..n PROVE output2[l + i] = <<m, i>>
    <3>1. l + i \in 1..(l + n) /\ ~(l + i <= l) /\ (l + i) - l = i
      BY <2>1
    <3>2. Bytes(m, 1, n)[i] = <<m, i>>
      BY DEF Bytes
    <3> QED
      BY <2>3, <3>1, <3>2
  <2> QED
    BY <2>1, <2>4, <2>5, <2>6, Zenon
<1> HIDE DEF taken2, output2, k, l
<1>2. \A i \in 1..(l + n) : i \in 1..l \/ \E j \in 1..n : i = l + j
  <2>1. ASSUME NEW i \in 1..(l + n), i \notin 1..l PROVE i - l \in 1..n /\ i = l + (i - l)
    BY <1>b, <2>1
  <2> QED
    BY <2>1
<1>3. IsInjective(taken2)
  <2>1. \A p \in 1..(k + 1) : p = k + 1 \/ p \in 1..k
    BY <1>a
  <2>2. \A p \in 1..k : taken2[p] # m
    BY <1>a DEF Range
  <2>3. ASSUME NEW p \in 1..(k + 1), NEW q \in 1..(k + 1), taken2[p] = taken2[q] PROVE p = q
    BY <1>a, <2>1, <2>2, <2>3 DEF IsStream, IsInjective
  <2> QED
    BY <1>a, <2>3 DEF IsInjective
<1>4. Range(taken2) = Range(taken) \cup {m}
  BY <1>a DEF Range
<1>5. \A i \in 1..l : InMessage(output[i]) => output[i] \in Range(taken) \X (1..MsgLen)
  BY <1>b DEF IsStream, Range
<1>6. {b \in Range(output2) : InMessage(b)} = Range(taken2) \X (1..MsgLen)
  <2>1. ASSUME NEW i \in 1..(l + n), InMessage(output2[i])
        PROVE  output2[i] \in Range(taken2) \X (1..MsgLen)
    <3>1. CASE i \in 1..l
      BY <1>b, <1>4, <1>5, <2>1, <3>1
    <3>2. ASSUME NEW j \in 1..n, i = l + j PROVE output2[i] \in Range(taken2) \X (1..MsgLen)
      <4>1. output2[i] = <<m, j>>
        BY <1>b, <3>2
      <4>2. j \in 1..MsgLen
        BY <1>1, <2>1, <4>1 DEF InMessage
      <4> QED
        BY <1>4, <4>1, <4>2
    <3> QED
      BY <1>2, <3>1, <3>2
  <2>2. ASSUME NEW a \in Range(taken2), NEW j \in 1..MsgLen
        PROVE  <<a, j>> \in Range(output2) /\ InMessage(<<a, j>>)
    <3>1. InMessage(<<a, j>>)
      BY <1>1 DEF InMessage
    <3>2. CASE a = m
      <4>1. l + j \in 1..(l + n) /\ output2[l + j] = <<a, j>>
        <5>1. j \in 1..n /\ l + j \in 1..(l + n)
          BY <1>1, <1>b
        <5> QED
          BY <1>b, <3>2, <5>1, Zenon
      <4> QED
        BY <1>b, <3>1, <4>1 DEF Range
    <3>3. CASE a # m
      <4>1. <<a, j>> \in Range(output)
        BY <1>4, <3>3 DEF IsStream
      <4>2. PICK i \in 1..l : output[i] = <<a, j>>
        BY <1>b, <4>1 DEF Range
      <4>3. i \in 1..(l + n) /\ output2[i] = <<a, j>>
        BY <1>b, <4>2
      <4> QED
        BY <1>b, <3>1, <4>3 DEF Range
    <3> QED
      BY <3>2, <3>3
  <2>3. \A b \in Range(output2) : InMessage(b) => b \in Range(taken2) \X (1..MsgLen)
    BY <1>b, <2>1 DEF Range
  <2> QED
    BY <2>2, <2>3
<1>7. ASSUME NEW i \in 1..(l + n), NEW j \in 1..(l + n), i < j, InMessage(output2[i]),
             InMessage(output2[j])
      PROVE  Precedes(taken2, output2[i], output2[j])
  <2>1. CASE j \in 1..l
    <3>1. i \in 1..l
      BY <1>b, <1>7, <2>1
    <3>2. output2[i] = output[i] /\ output2[j] = output[j]
      BY <1>b, <2>1, <3>1
    <3>3. Precedes(taken, output[i], output[j])
      BY <1>b, <1>7, <2>1, <3>1, <3>2 DEF IsStream
    <3>4. CASE output[i][1] = output[j][1]
      BY <3>2, <3>3, <3>4 DEF Precedes
    <3>5. CASE output[i][1] # output[j][1]
      <4>1. PICK p, q \in 1..k : p < q /\ taken[p] = output[i][1] /\ taken[q] = output[j][1]
        BY <1>a, <3>3, <3>5 DEF Precedes
      <4>2. p \in 1..(k + 1) /\ q \in 1..(k + 1) /\ taken2[p] = taken[p] /\ taken2[q] = taken[q]
        <5>1. k \in Nat
          BY <1>a
        <5>2. p \in 1..(k + 1) /\ q \in 1..(k + 1)
          BY <5>1
        <5> QED
          BY <1>a, <5>2, Zenon
      <4>3. taken2[p] = output2[i][1] /\ taken2[q] = output2[j][1]
        BY <3>2, <4>1, <4>2
      <4>4. output2[i][1] # output2[j][1]
        BY <3>2, <3>5
      <4> QED
        BY <1>a, <4>1, <4>2, <4>3, <4>4, Zenon DEF Precedes
    <3> QED
      BY <3>4, <3>5
  <2>2. ASSUME i \in 1..l, NEW y \in 1..n, j = l + y
        PROVE  Precedes(taken2, output2[i], output2[j])
    <3>1. output2[i] = output[i] /\ output2[j] = <<m, y>>
      BY <1>b, <2>2
    <3>2. output[i][1] \in Range(taken)
      BY <1>5, <1>7, <2>2, <3>1
    <3>3. PICK p \in 1..k : taken[p] = output[i][1]
      BY <1>a, <3>2 DEF Range
    <3>4. p \in 1..(k + 1) /\ k + 1 \in 1..(k + 1) /\ p < k + 1
      BY <1>a
    <3>5. taken2[p] = output2[i][1] /\ taken2[k + 1] = output2[j][1]
      <4>1. taken2[p] = taken[p] /\ taken2[k + 1] = m
        BY <1>a, Zenon
      <4> QED
        BY <3>1, <3>3, <4>1
    <3>6. output2[i][1] # output2[j][1]
      <4>1. output[i][1] # m
        BY <3>2
      <4> QED
        BY <3>1, <4>1
    <3> QED
      BY <1>a, <3>4, <3>5, <3>6, Zenon DEF Precedes
  <2>3. ASSUME NEW x \in 1..n, i = l + x, NEW y \in 1..n, j = l + y
        PROVE  Precedes(taken2, output2[i], output2[j])
    <3>1. output2[i] = <<m, x>> /\ output2[j] = <<m, y>>
      BY <1>b, <2>3
    <3>2. l \in Nat /\ l + x < l + y
      BY <1>b, <1>7, <2>3
    <3>3. x < y
      BY <3>2
    <3> QED
      BY <3>1, <3>3 DEF Precedes
  <2>4. i \notin 1..l => j \notin 1..l
    <3>1. l \in Nat
      BY <1>b
    <3> QED
      BY <1>7, <3>1
  <2> QED
    BY <1>2, <2>1, <2>2, <2>3, <2>4
<1>8. IsStream(taken2, output2)
  BY <1>b, <1>3, <1>6, <1>7 DEF IsStream
<1> QED
  BY <1>8 DEF taken2, output2

(* A message that was never taken before, appended whole to the output,      *)
(* keeps the order.                                                          *)
LEMMA StreamGrows ==
    ASSUME TypeOK, AlwaysInOrder, NEW m \in Msgs, m \notin Range(accepted), NEW n \in Nat, n >= MsgLen,
           accepted' = Append(accepted, m), Output' = Output \o Bytes(m, 1, n)
    PROVE  AlwaysInOrder'
<1>1. Output \in Seq(Byte) /\ accepted \in Seq(Msgs)
  BY Types, HandType DEF Output
<1>2. IsStream(Append(accepted, m), Output \o Bytes(m, 1, n))
  BY <1>1, StreamExtends DEF AlwaysInOrder
<1>3. IsStream(accepted', Output')
  BY <1>2
<1> QED
  BY <1>3, Zenon DEF AlwaysInOrder, IsStream, Precedes, InMessage

(* What a step does to the output and to the messages taken: nothing, or one *)
(* message is taken, from the user or from the head of the batch.            *)
OutputSame == Output' = Output /\ accepted' = accepted

OutputGrows(m) ==
    /\ accepted' = Append(accepted, m)
    /\ \E n \in Nat : n >= MsgLen /\ Output' = Output \o Bytes(m, 1, n)

(* Steps that leave the wire, the buffer and the bytes in hand alone leave   *)
(* the output alone.                                                         *)
LEMMA OutputKept == UNCHANGED outVars => OutputSame
BY DEF outVars, OutputSame, Output, Hand

(* The order only depends on the output and the messages taken. *)
LEMMA StreamSame == AlwaysInOrder /\ OutputSame => AlwaysInOrder'
BY DEF AlwaysInOrder, OutputSame, IsStream, Precedes, InMessage

(* HandleWrite moves bytes from the buffer to the wire: the output stays the *)
(* same.                                                                     *)
LEMMA HandleWriteOutput == TypeOK /\ HandleWrite => OutputSame
<1> SUFFICES ASSUME TypeOK, HandleWrite PROVE OutputSame
  OBVIOUS
<1>0. /\ UNCHANGED <<high, accepted>>
      /\ wire \in Seq(Byte) /\ outBuf \in Seq(Byte) /\ Hand' = Hand
  BY Types DEF HandleWrite, Hand
<1>1. CASE UNCHANGED <<wire, outBuf>>
  BY <1>0, <1>1 DEF OutputSame, Output
<1>2. ASSUME NEW w \in Written(Len(outBuf)), wire' = wire \o SubSeq(outBuf, 1, w),
             outBuf' = SubSeq(outBuf, w + 1, Len(outBuf))
      PROVE  OutputSame
  <2>1. Len(outBuf) \in Nat
    BY <1>0
  <2>2. w \in 0..Len(outBuf)
    BY <1>2, <2>1, WrittenType
  <2>3. (wire \o SubSeq(outBuf, 1, w)) \o SubSeq(outBuf, w + 1, Len(outBuf)) = wire \o outBuf
    BY <1>0, <2>2, SplitOutput, Zenon
  <2>4. wire' \o outBuf' = wire \o outBuf
    BY <1>2, <2>3, Zenon
  <2> QED
    BY <1>0, <2>4, Zenon DEF OutputSame, Output
<1> QED
  BY <1>1, <1>2, Zenon DEF HandleWrite

(* Nothing follows the only element of a sequence. *)
LEMMA OnlyOne ==
    ASSUME NEW S, NEW s \in Seq(S), s # <<>>, Len(s) <= 1
    PROVE  Tail(s) = <<>>
<1>1. Len(s) \in Nat /\ Len(s) # 0
  OBVIOUS
<1>2. Tail(s) \in Seq(S) /\ Len(Tail(s)) = Len(s) - 1
  OBVIOUS
<1>3. Len(Tail(s)) = 0
  BY <1>1, <1>2
<1> QED
  BY <1>2, <1>3

(* When high_water_callback_ returns, the bytes in hand go to the buffer:    *)
(* the output stays the same.                                                *)
LEMMA HighWaterOutput == TypeOK /\ HighWaterReturns /\ Len(high) <= 1 => OutputSame /\ high' = <<>>
<1> SUFFICES ASSUME TypeOK, HighWaterReturns, Len(high) <= 1 PROVE OutputSame /\ high' = <<>>
  OBVIOUS
<1>1. /\ wire' = wire /\ accepted' = accepted /\ outBuf' = outBuf \o Hand
      /\ high # <<>> /\ high' = Tail(high)
      /\ wire \in Seq(Byte) /\ outBuf \in Seq(Byte) /\ Hand \in Seq(Byte)
  BY Types, HandType DEF HighWaterReturns, PutOut, Hand
<1>2. high' = <<>> /\ Hand' = <<>>
  <2>1. high \in Seq(Seq(Byte) \ {<<>>})
    BY Types
  <2>2. Tail(high) = <<>>
    BY <1>1, <2>1, OnlyOne
  <2> QED
    BY <1>1, <2>2 DEF Hand
<1>3. outBuf \o Hand \in Seq(Byte) /\ wire \o (outBuf \o Hand) \in Seq(Byte)
  BY <1>1
<1>4. (wire \o (outBuf \o Hand)) \o <<>> = wire \o (outBuf \o Hand)
  BY <1>3
<1>5. wire \o (outBuf \o Hand) = (wire \o outBuf) \o Hand
  BY <1>1, BytesAssociative, Zenon
<1> QED
  BY <1>1, <1>2, <1>4, <1>5, Zenon DEF OutputSame, Output

(* The elements of a sequence that was appended to. *)
LEMMA AppendedElements ==
    ASSUME NEW S, NEW s \in Seq(S), NEW e \in S
    PROVE  /\ DOMAIN Append(s, e) = DOMAIN s \cup {Len(s) + 1}
           /\ Len(s) + 1 \notin DOMAIN s
           /\ \A i \in DOMAIN s : Append(s, e)[i] = s[i]
           /\ Append(s, e)[Len(s) + 1] = e
           /\ Range(Append(s, e)) = Range(s) \cup {e}
<1>1. /\ Len(s) \in Nat /\ DOMAIN s = 1..Len(s)
      /\ DOMAIN Append(s, e) = 1..(Len(s) + 1)
      /\ \A i \in 1..Len(s) : Append(s, e)[i] = s[i]
      /\ Append(s, e)[Len(s) + 1] = e
  OBVIOUS
<1> DEFINE t == Append(s, e)
           n == Len(s)
<1>2. n \in Nat /\ DOMAIN s = 1..n /\ DOMAIN t = 1..(n + 1) /\ t[n + 1] = e
      /\ \A i \in 1..n : t[i] = s[i]
  BY <1>1
<1> HIDE DEF t, n
<1>3. DOMAIN t = DOMAIN s \cup {n + 1} /\ n + 1 \notin DOMAIN s
  BY <1>2
<1>4. Range(t) = Range(s) \cup {e}
  BY <1>2, <1>3 DEF Range
<1> QED
  BY <1>2, <1>3, <1>4 DEF t, n

(* The elements of the tail of a sequence. *)
LEMMA TailElements ==
    ASSUME NEW S, NEW s \in Seq(S), s # <<>>
    PROVE  /\ Head(s) = s[1] /\ 1 \in DOMAIN s
           /\ \A i \in DOMAIN Tail(s) : /\ i + 1 \in DOMAIN s /\ i + 1 # 1 /\ i \in Nat
                                       /\ Tail(s)[i] = s[i + 1]
<1>1. /\ Len(s) \in Nat /\ DOMAIN s = 1..Len(s) /\ Len(s) # 0
      /\ Tail(s) \in Seq(S) /\ Len(Tail(s)) = Len(s) - 1 /\ Head(s) = s[1]
      /\ \A i \in 1..Len(Tail(s)) : Tail(s)[i] = s[i + 1]
  OBVIOUS
<1>2. DOMAIN Tail(s) = 1..Len(Tail(s))
  BY <1>1
<1> QED
  BY <1>1, <1>2

(* The bytes of two runs, one after the other, are the bytes of both.        *)
LEMMA RangeJoined ==
    ASSUME NEW s \in Seq(Byte), NEW t \in Seq(Byte)
    PROVE  Range(s \o t) = Range(s) \cup Range(t)
<1> DEFINE c == s \o t
           k == Len(s)
           l == Len(t)
<1>1. k \in Nat /\ l \in Nat /\ DOMAIN s = 1..k /\ DOMAIN t = 1..l
  OBVIOUS
<1>2. /\ DOMAIN c = 1..(k + l)
      /\ \A i \in 1..k : c[i] = s[i]
      /\ \A i \in 1..l : c[k + i] = t[i]
  OBVIOUS
<1> HIDE DEF c, k, l
<1>3. /\ \A i \in 1..k : i \in 1..(k + l)
      /\ \A i \in 1..l : k + i \in 1..(k + l)
      /\ \A i \in 1..(k + l) : i \in 1..k \/ (i - k \in 1..l /\ k + (i - k) = i)
  BY <1>1
<1>4. ASSUME NEW i \in 1..(k + l) PROVE c[i] \in Range(s) \cup Range(t)
  <2>1. CASE i \in 1..k
    BY <1>1, <1>2, <2>1, Zenon DEF Range
  <2>2. CASE i - k \in 1..l /\ k + (i - k) = i
    <3>1. c[k + (i - k)] = t[i - k]
      BY <1>2, <2>2, Zenon
    <3> QED
      BY <1>1, <2>2, <3>1, Zenon DEF Range
  <2> QED
    BY <1>3, <2>1, <2>2, Zenon
<1>5. Range(c) \subseteq Range(s) \cup Range(t)
  <2>1. ASSUME NEW x \in Range(c) PROVE x \in Range(s) \cup Range(t)
    <3>1. PICK i \in DOMAIN c : x = c[i]
      BY Zenon DEF Range
    <3> QED
      BY <1>2, <1>4, <3>1, Zenon
  <2> QED
    BY <2>1, Zenon
<1>6. Range(s) \subseteq Range(c)
  BY <1>1, <1>2, <1>3, Zenon DEF Range
<1>7. Range(t) \subseteq Range(c)
  <2>1. ASSUME NEW i \in 1..l PROVE t[i] \in Range(c)
    <3>1. k + i \in DOMAIN c /\ c[k + i] = t[i]
      BY <1>2, <1>3, Zenon
    <3> QED
      BY <3>1, Zenon DEF Range
  <2> QED
    BY <1>1, <2>1, Zenon DEF Range
<1> QED
  BY <1>5, <1>6, <1>7, Zenon DEF c

(* No byte is lost when the bytes held stay and no message is taken. *)
LEMMA KeepsSame ==
    ASSUME KeepsAll, Held \subseteq Held', accepted' = accepted
    PROVE  KeepsAll'
BY DEF KeepsAll

(* Steps that leave the wire, the buffer and the bytes in hand alone leave   *)
(* the bytes held alone.                                                     *)
LEMMA HeldKept == UNCHANGED outVars => Held' = Held /\ accepted' = accepted /\ high' = high
BY DEF outVars, Held

(* What HandleWrite takes from the buffer is on the wire. *)
LEMMA HeldWritten == TypeOK /\ HandleWrite => Held' = Held
<1> SUFFICES ASSUME TypeOK, HandleWrite PROVE Held' = Held
  OBVIOUS
<1>0. wire \in Seq(Byte) /\ outBuf \in Seq(Byte) /\ high' = high /\ Len(outBuf) \in Nat
  BY Types DEF HandleWrite
<1>1. CASE UNCHANGED <<wire, outBuf>>
  BY <1>0, <1>1 DEF Held
<1>2. ASSUME NEW w \in Written(Len(outBuf)), wire' = wire \o SubSeq(outBuf, 1, w),
             outBuf' = SubSeq(outBuf, w + 1, Len(outBuf))
      PROVE  Held' = Held
  <2>1. w \in 0..Len(outBuf)
    BY <1>0, <1>2, WrittenType
  <2> DEFINE a == SubSeq(outBuf, 1, w)
             b == SubSeq(outBuf, w + 1, Len(outBuf))
  <2>2. a \in Seq(Byte) /\ b \in Seq(Byte) /\ a \o b = outBuf
    BY <1>0, <2>1, SplitSeq, Zenon
  <2>3. wire' = wire \o a /\ outBuf' = b
    BY <1>2
  <2> HIDE DEF a, b
  <2>4. Range(outBuf) = Range(a) \cup Range(b)
    BY <2>2, RangeJoined
  <2>5. Range(wire') = Range(wire) \cup Range(a)
    BY <1>0, <2>2, <2>3, RangeJoined
  <2> DEFINE hands == UNION {Range(high[i]) : i \in DOMAIN high}
  <2>6. Held = (Range(wire) \cup Range(outBuf)) \cup hands
    BY DEF Held
  <2>7. Held' = (Range(wire') \cup Range(outBuf')) \cup hands
    BY <1>0 DEF Held
  <2>8. Range(wire') \cup Range(outBuf') = Range(wire) \cup Range(outBuf)
    BY <2>3, <2>4, <2>5
  <2> HIDE DEF hands
  <2> QED
    BY <2>6, <2>7, <2>8, Zenon
<1> QED
  BY <1>1, <1>2, Zenon DEF HandleWrite

(* What was in hand is in the buffer when high_water_callback_ returns. *)
LEMMA HeldReturned == TypeOK /\ HighWaterReturns => Held \subseteq Held'
<1> SUFFICES ASSUME TypeOK, HighWaterReturns PROVE Held \subseteq Held'
  OBVIOUS
<1>1. /\ wire' = wire /\ outBuf' = outBuf \o Head(high) /\ high # <<>> /\ high' = Tail(high)
      /\ outBuf \in Seq(Byte) /\ high \in Seq(Seq(Byte) \ {<<>>})
  BY Types DEF HighWaterReturns, PutOut
<1>2. Range(outBuf') = Range(outBuf) \cup Range(high[1])
  <2>1. Head(high) \in Seq(Byte) /\ Head(high) = high[1]
    BY <1>1, InHand
  <2> QED
    BY <1>1, <2>1, RangeJoined
<1>3. ASSUME NEW i \in DOMAIN high, i # 1
      PROVE  i - 1 \in DOMAIN high' /\ high'[i - 1] = high[i]
  <2>1. /\ Len(high) \in Nat /\ DOMAIN high = 1..Len(high)
        /\ Tail(high) \in Seq(Seq(Byte) \ {<<>>}) /\ Len(Tail(high)) = Len(high) - 1
        /\ \A j \in 1..Len(Tail(high)) : Tail(high)[j] = high[j + 1]
    BY <1>1
  <2>2. DOMAIN Tail(high) = 1..Len(Tail(high))
    BY <2>1
  <2>3. i - 1 \in 1..Len(Tail(high)) /\ (i - 1) + 1 = i
    BY <1>3, <2>1
  <2> QED
    BY <1>1, <2>1, <2>2, <2>3
<1>4. ASSUME NEW i \in DOMAIN high PROVE Range(high[i]) \subseteq Held'
  <2>1. CASE i = 1
    BY <1>2, <2>1, Zenon DEF Held
  <2>2. CASE i # 1
    BY <1>3, <2>2, Zenon DEF Held
  <2> QED
    BY <2>1, <2>2
<1>5. Range(wire) \subseteq Held' /\ Range(outBuf) \subseteq Held'
  BY <1>1, <1>2, Zenon DEF Held
<1> QED
  BY <1>4, <1>5, Zenon DEF Held

(* Bytes that are buffered, at once or later, are held. *)
LEMMA HeldBuffered ==
    ASSUME TypeOK, NEW bytes \in Seq(Byte), bytes # <<>>, NEW r, Buffer(bytes, r),
           Range(wire) \subseteq Range(wire')
    PROVE  Held \cup Range(bytes) \subseteq Held'
<1>0. outBuf \in Seq(Byte) /\ high \in Seq(Seq(Byte) \ {<<>>})
  BY Types
<1>1. CASE outBuf' = outBuf \o bytes /\ high' = high
  <2>1. Range(outBuf') = Range(outBuf) \cup Range(bytes)
    BY <1>0, <1>1, RangeJoined
  <2> QED
    BY <1>1, <2>1, Zenon DEF Held
<1>2. CASE outBuf' = outBuf /\ high' = <<bytes>> \o high
  <2>1. /\ high' \in Seq(Seq(Byte) \ {<<>>}) /\ Len(high') = Len(high) + 1
        /\ high'[1] = bytes /\ \A i \in DOMAIN high : high'[i + 1] = high[i]
    <3> DEFINE h == <<bytes>> \o high
    <3>1. bytes \in Seq(Byte) \ {<<>>}
      OBVIOUS
    <3>2. /\ h \in Seq(Seq(Byte) \ {<<>>}) /\ Len(h) = Len(high) + 1
          /\ h[1] = bytes /\ \A i \in DOMAIN high : h[i + 1] = high[i]
      <4> DEFINE S == Seq(Byte) \ {<<>>}
      <4>1. bytes \in S /\ high \in Seq(S)
        BY <1>0, <3>1
      <4> HIDE DEF S
      <4>2. /\ h \in Seq(S) /\ Len(h) = Len(high) + 1
            /\ h[1] = bytes /\ \A i \in DOMAIN high : h[i + 1] = high[i]
        BY <4>1, Pushed
      <4> QED
        BY <4>2 DEF S
    <3>3. high' = h
      BY <1>2
    <3> HIDE DEF h
    <3> QED
      BY <3>2, <3>3, Zenon
  <2>2. 1 \in DOMAIN high' /\ \A i \in DOMAIN high : i + 1 \in DOMAIN high'
    <3>1. Len(high) \in Nat /\ DOMAIN high = 1..Len(high) /\ DOMAIN high' = 1..Len(high')
      BY <1>0, <2>1
    <3> QED
      BY <2>1, <3>1
  <2>3. Range(bytes) \subseteq Held'
    BY <2>1, <2>2, Zenon DEF Held
  <2>4. ASSUME NEW i \in DOMAIN high PROVE Range(high[i]) \subseteq Held'
    BY <2>1, <2>2, Zenon DEF Held
  <2>5. UNION {Range(high[i]) : i \in DOMAIN high} \subseteq Held'
    BY <2>4, Zenon
  <2>6. Range(wire) \subseteq Held' /\ Range(outBuf) \subseteq Held'
    BY <1>2, Zenon DEF Held
  <2>7. Held = Range(wire) \cup Range(outBuf) \cup UNION {Range(high[i]) : i \in DOMAIN high}
    BY DEF Held
  <2> QED
    BY <2>3, <2>5, <2>6, <2>7, Zenon
<1> QED
  BY <1>1, <1>2 DEF Buffer, PutOut

(* All bytes of the message that SendInLoop takes are held. *)
LEMMA HeldSent ==
    ASSUME TypeOK, KeepsAll, NEW m \in Msgs, SendInLoop(m) \/ SendBufferInLoop(m)
    PROVE  KeepsAll'
<1>a. MsgLen \in Nat /\ MsgLen > 0
  BY ConnectionAssumption
<1>b. wire \in Seq(Byte) /\ accepted \in Seq(Msgs)
  BY Types
<1>c. Range(accepted') = Range(accepted) \cup {m}
  <2>1. accepted' = Append(accepted, m)
    BY DEF SendInLoop, SendBufferInLoop
  <2> QED
    BY <1>b, <2>1, AppendedElements
<1>d. ASSUME Held \subseteq Held', \A k \in 1..MsgLen : <<m, k>> \in Held'
      PROVE  KeepsAll'
  <2>1. ASSUME NEW a \in Range(accepted'), NEW k \in 1..MsgLen PROVE <<a, k>> \in Held'
    <3>1. CASE a = m
      BY <1>d, <3>1
    <3>2. CASE a \in Range(accepted)
      BY <1>d, <3>2 DEF KeepsAll
    <3> QED
      BY <1>c, <3>1, <3>2
  <2> QED
    BY <2>1 DEF KeepsAll
<1>e. ASSUME NEW first \in Nat \ {0}, NEW n \in Nat, NEW k \in Nat, first <= k, k <= first + n - 1
      PROVE  <<m, k>> \in Range(Bytes(m, first, n))
  <2>1. k - first + 1 \in 1..n /\ first + (k - first + 1) - 1 = k
    BY <1>e
  <2>2. Bytes(m, first, n)[k - first + 1] = <<m, k>> /\ DOMAIN Bytes(m, first, n) = 1..n
    BY <2>1 DEF Bytes
  <2> QED
    BY <2>1, <2>2, Zenon DEF Range
<1>1. CASE SendInLoop(m) /\ ~IsWritting /\ outBuf = <<>>
  <2>1. PICK w \in Written(MsgLen) :
          /\ wire' = wire \o Bytes(m, 1, w)
          /\ IF w = MsgLen THEN UNCHANGED <<outBuf, high, pollVars>>
                           ELSE Buffer(Bytes(m, w + 1, MsgLen), MsgLen - w)
    BY <1>1 DEF SendInLoop
  <2>2. /\ w \in Nat /\ Bytes(m, 1, w) \in Seq(Byte)
        /\ Bytes(m, w + 1, MsgLen) \in Seq(Byte) /\ Bytes(m, w + 1, MsgLen) # <<>>
    <3>1. w \in Nat
      BY <1>a, <2>1, WrittenType
    <3> QED
      BY <1>a, <3>1, BytesType
  <2>3. Range(wire') = Range(wire) \cup Range(Bytes(m, 1, w))
    BY <1>b, <2>1, <2>2, RangeJoined
  <2>4. /\ \A k \in 1..MsgLen : k \in Nat /\ ((1 <= k /\ k <= 1 + w - 1)
                                         \/ (w + 1 <= k /\ k <= w + 1 + MsgLen - 1))
        /\ 1 \in Nat \ {0} /\ w + 1 \in Nat \ {0}
    BY <1>a, <2>2
  <2>5. \A k \in 1..MsgLen : \/ <<m, k>> \in Range(Bytes(m, 1, w))
                             \/ <<m, k>> \in Range(Bytes(m, w + 1, MsgLen))
    BY <1>a, <1>e, <2>2, <2>4, Zenon
  <2>6. CASE w = MsgLen
    <3>1. \A k \in 1..MsgLen : k \in Nat /\ 1 <= k /\ k <= 1 + w - 1
      BY <1>a, <2>6
    <3>2. \A k \in 1..MsgLen : <<m, k>> \in Range(Bytes(m, 1, w))
      BY <1>e, <2>2, <2>4, <3>1, Zenon
    <3>3. outBuf' = outBuf /\ high' = high
      BY <2>1, <2>6
    <3>4. Held \subseteq Held' /\ Range(Bytes(m, 1, w)) \subseteq Held'
      BY <2>3, <3>3, Zenon DEF Held
    <3> QED
      BY <1>d, <3>2, <3>4, Zenon
  <2>7. CASE w # MsgLen
    <3>1. Held \cup Range(Bytes(m, w + 1, MsgLen)) \subseteq Held'
      BY <2>1, <2>2, <2>3, <2>7, HeldBuffered, Zenon
    <3>2. Range(Bytes(m, 1, w)) \subseteq Held'
      BY <2>3, Zenon DEF Held
    <3> QED
      BY <1>d, <2>5, <3>1, <3>2, Zenon
  <2> QED
    BY <2>6, <2>7
<1>2. CASE Buffer(Bytes(m, 1, MsgLen), MsgLen) /\ wire' = wire
  <2>1. Bytes(m, 1, MsgLen) \in Seq(Byte) /\ Bytes(m, 1, MsgLen) # <<>>
    BY <1>a, BytesType
  <2>2. Held \cup Range(Bytes(m, 1, MsgLen)) \subseteq Held'
    BY <1>2, <2>1, HeldBuffered, Zenon
  <2>3. \A k \in 1..MsgLen : k \in Nat /\ 1 <= k /\ k <= 1 + MsgLen - 1 /\ 1 \in Nat \ {0}
    BY <1>a
  <2>4. \A k \in 1..MsgLen : <<m, k>> \in Range(Bytes(m, 1, MsgLen))
    BY <1>a, <1>e, <2>3, Zenon
  <2> QED
    BY <1>d, <2>2, <2>4, Zenon
<1> QED
  BY <1>1, <1>2, Zenon DEF SendInLoop, SendBufferInLoop

(* Messages are sent once when neither functors nor threads change. *)
LEMMA SendsSame ==
    SendsOnce /\ UNCHANGED <<accepted, used, queue, batch, pc>> => SendsOnce'
BY DEF SendsOnce

(* Swapping functors_ for the batch moves every "send" once. *)
LEMMA SendsSwapped ==
    ASSUME TypeOK, SendsOnce, batch = <<>>, batch' = queue, queue' = <<>>,
           UNCHANGED <<accepted, used, pc>>
    PROVE  SendsOnce'
<1>1. DOMAIN queue' = {}
  OBVIOUS
<1> QED
  BY <1>1 DEF SendsOnce, Sends

(* Which functors are apart does not change with what is taken. *)
LEMMA SendsApart ==
    ASSUME SendsOnce, NEW b, NEW n, NEW acc,
           \A i \in DOMAIN acc : acc[i] <= n,
           \A i \in DOMAIN queue : Untaken(queue[i], acc, n),
           \A i \in DOMAIN b : Untaken(b[i], acc, n),
           \A t \in Threads : Untaken(pc[t], acc, n),
           \A i, j \in DOMAIN b : i # j => Apart(b[i], b[j]),
           \A i \in DOMAIN queue, j \in DOMAIN b : Apart(queue[i], b[j]),
           \A t \in Threads : \A i \in DOMAIN b : Apart(pc[t], b[i])
    PROVE  Sends(acc, n, queue, b, pc)
BY DEF SendsOnce, Sends

(* A "send" that runs and hands its message over leaves no other "send" of   *)
(* it.                                                                       *)
LEMMA SendsRun ==
    ASSUME TypeOK, SendsOnce, batch # <<>>, batch' = Tail(batch), UNCHANGED <<used, queue, pc>>,
           \/ accepted' = accepted
           \/ IsSend(Head(batch)) /\ accepted' = Append(accepted, Head(batch).m)
    PROVE  SendsOnce'
<1>0. batch \in Seq(Functor) /\ accepted \in Seq(Msgs)
  BY Types
<1>1. /\ Head(batch) = batch[1] /\ 1 \in DOMAIN batch
      /\ \A i \in DOMAIN batch' : /\ i + 1 \in DOMAIN batch /\ i + 1 # 1 /\ i \in Nat
                                 /\ batch'[i] = batch[i + 1]
  BY <1>0, TailElements
<1>2. \A i, j \in DOMAIN batch' : i # j => i + 1 # j + 1
  BY <1>1
<1>3. /\ \A i, j \in DOMAIN batch' : i # j => Apart(batch'[i], batch'[j])
      /\ \A i \in DOMAIN queue, j \in DOMAIN batch' : Apart(queue[i], batch'[j])
      /\ \A t \in Threads : \A i \in DOMAIN batch' : Apart(pc[t], batch'[i])
  <2>0. /\ \A i, j \in DOMAIN batch : i # j => Apart(batch[i], batch[j])
        /\ \A i \in DOMAIN queue, j \in DOMAIN batch : Apart(queue[i], batch[j])
        /\ \A t \in Threads : \A i \in DOMAIN batch : Apart(pc[t], batch[i])
    BY Zenon DEF SendsOnce, Sends
  <2>1. ASSUME NEW i \in DOMAIN batch', NEW j \in DOMAIN batch', i # j
        PROVE  Apart(batch'[i], batch'[j])
    BY <1>1, <1>2, <2>0, <2>1, Zenon
  <2>2. ASSUME NEW i \in DOMAIN queue, NEW j \in DOMAIN batch' PROVE Apart(queue[i], batch'[j])
    BY <1>1, <2>0, <2>2, Zenon
  <2>3. ASSUME NEW t \in Threads, NEW i \in DOMAIN batch' PROVE Apart(pc[t], batch'[i])
    BY <1>1, <2>0, <2>3, Zenon
  <2> QED
    BY <2>1, <2>2, <2>3
<1>4. /\ \A i \in DOMAIN batch' : Untaken(batch'[i], accepted, used) /\ Apart(batch[1], batch'[i])
      /\ \A i \in DOMAIN queue : Untaken(queue[i], accepted, used) /\ Apart(queue[i], batch[1])
      /\ \A t \in Threads : Untaken(pc[t], accepted, used) /\ Apart(pc[t], batch[1])
      /\ \A i \in DOMAIN accepted : accepted[i] <= used
      /\ Untaken(batch[1], accepted, used)
  BY <1>1 DEF SendsOnce, Sends
<1>5. CASE accepted' = accepted
  <2>1. Sends(accepted, used, queue, batch', pc)
    BY <1>3, <1>4, SendsApart, Zenon
  <2> QED
    BY <1>5, <2>1 DEF SendsOnce
<1>6. CASE IsSend(Head(batch)) /\ accepted' = Append(accepted, Head(batch).m)
  <2>1. PICK m : m = batch[1].m
    OBVIOUS
  <2>2. batch[1] \in Functor /\ IsSend(batch[1])
    BY <1>0, <1>1, <1>6
  <2>3. m \in Msgs /\ accepted' = Append(accepted, m)
    BY <1>1, <1>6, <2>1, <2>2 DEF Functor, IsSend
  <2>4. m <= used
    BY <1>4, <2>1, <2>2 DEF Untaken
  <2>5. /\ DOMAIN accepted' = DOMAIN accepted \cup {Len(accepted) + 1}
        /\ \A i \in DOMAIN accepted : accepted'[i] = accepted[i]
        /\ accepted'[Len(accepted) + 1] = m
        /\ Range(accepted') = Range(accepted) \cup {m}
    BY <1>0, <2>3, AppendedElements
  <2>6. \A i \in DOMAIN accepted' : accepted'[i] <= used
    BY <1>4, <2>4, <2>5
  <2>7. \A f : Untaken(f, accepted, used) /\ (Apart(f, batch[1]) \/ Apart(batch[1], f))
               => Untaken(f, accepted', used)
    BY <2>1, <2>2, <2>5 DEF Untaken, Apart
  <2>8. /\ \A i \in DOMAIN batch' : Untaken(batch'[i], accepted', used)
        /\ \A i \in DOMAIN queue : Untaken(queue[i], accepted', used)
        /\ \A t \in Threads : Untaken(pc[t], accepted', used)
    BY <1>4, <2>7
  <2>9. Sends(accepted', used, queue, batch', pc)
    BY <1>3, <2>6, <2>8, SendsApart, Zenon
  <2> QED
    BY <2>9 DEF SendsOnce
<1> QED
  BY <1>5, <1>6

(* Messages are numbered by the calls of Send, and the ones taken were sent  *)
(* before.                                                                   *)
LEMMA Numbers ==
    ASSUME TypeOK, SendsOnce
    PROVE  /\ used \in Nat
           /\ \A g \in Functor \cup {None} : IsSend(g) => g.m \in Nat
           /\ \A m \in Range(accepted) : m \in Nat /\ m <= used
           /\ \A i \in DOMAIN accepted : accepted[i] \in Nat /\ accepted[i] <= used
<1>0. used \in 0..MaxMsgs /\ accepted \in Seq(Msgs)
  BY Types, Zenon
<1>1. used \in Nat /\ accepted \in Seq(Msgs) /\ Msgs \subseteq Nat
  BY <1>0, ConnectionAssumption DEF Msgs
<1>2. ASSUME NEW g \in Functor \cup {None}, IsSend(g) PROVE g.m \in Nat
  <2>1. g \in [op : {"send"}, m : Msgs]
    BY <1>2 DEF IsSend, Functor
  <2> QED
    BY <1>1, <2>1, Zenon
<1>3. \A i \in DOMAIN accepted : accepted[i] \in Nat /\ accepted[i] <= used
  <2>1. \A i \in DOMAIN accepted : accepted[i] <= used
    BY DEF SendsOnce, Sends
  <2>2. \A i \in DOMAIN accepted : accepted[i] \in Nat
    <3>1. \A i \in DOMAIN accepted : accepted[i] \in Msgs
      BY <1>1
    <3> QED
      BY <1>1, <3>1, Zenon
  <2> QED
    BY <2>1, <2>2
<1> QED
  BY <1>1, <1>2, <1>3 DEF Range

(* A functor joins the queue: the one thread t had in hand, or a destroy.    *)
LEMMA SendsQueued ==
    ASSUME TypeOK, SendsOnce, NEW f \in Functor, queue' = Append(queue, f),
           UNCHANGED <<accepted, used, batch>>,
           \/ ~IsSend(f) /\ pc' = pc
           \/ \E t \in Threads : pc[t] = f /\ pc' = [pc EXCEPT ![t] = None]
    PROVE  SendsOnce'
<1>0. queue \in Seq(Functor) /\ pc \in [Threads -> Functor \cup {None}]
  BY Types
<1>1. PICK n : /\ DOMAIN queue' = DOMAIN queue \cup {n}
               /\ \A i \in DOMAIN queue : queue'[i] = queue[i]
               /\ queue'[n] = f
  BY <1>0, AppendedElements
<1>2. \A g, h : Apart(g, h) => Apart(h, g)
  BY DEF Apart
<1>3. ASSUME Untaken(f, accepted, used),
             \A i \in DOMAIN queue : Apart(f, queue[i]),
             \A i \in DOMAIN batch : Apart(f, batch[i]),
             \A u \in Threads : Untaken(pc'[u], accepted, used) /\ Apart(pc'[u], f),
             \A u, v \in Threads : u # v => Apart(pc'[u], pc'[v]),
             \A u \in Threads : /\ \A i \in DOMAIN queue : Apart(pc'[u], queue[i])
                               /\ \A i \in DOMAIN batch : Apart(pc'[u], batch[i])
      PROVE  SendsOnce'
  <2>0. /\ \A i \in DOMAIN queue : Untaken(queue[i], accepted, used)
        /\ \A i, j \in DOMAIN queue : i # j => Apart(queue[i], queue[j])
        /\ \A i \in DOMAIN queue, j \in DOMAIN batch : Apart(queue[i], batch[j])
    BY DEF SendsOnce, Sends
  <2>1. \A i \in DOMAIN queue' : Untaken(queue'[i], accepted, used)
    BY <1>1, <1>3, <2>0
  <2>2. \A i, j \in DOMAIN queue' : i # j => Apart(queue'[i], queue'[j])
    <3>1. \A i \in DOMAIN queue : Apart(queue[i], f)
      BY <1>2, <1>3
    <3>2. ASSUME NEW i \in DOMAIN queue', NEW j \in DOMAIN queue', i # j
          PROVE  Apart(queue'[i], queue'[j])
      <4>1. CASE i \in DOMAIN queue /\ j \in DOMAIN queue
        BY <1>1, <2>0, <3>2, <4>1, Zenon
      <4>2. CASE i \in DOMAIN queue /\ j \notin DOMAIN queue
        BY <1>1, <3>1, <4>2, Zenon
      <4>3. CASE i \notin DOMAIN queue /\ j \in DOMAIN queue
        BY <1>1, <1>3, <4>3, Zenon
      <4>4. i \in DOMAIN queue \/ j \in DOMAIN queue
        BY <1>1, <3>2, Zenon
      <4> QED
        BY <4>1, <4>2, <4>3, <4>4, Zenon
    <3> QED
      BY <3>2, Zenon
  <2>3. \A i \in DOMAIN queue', j \in DOMAIN batch : Apart(queue'[i], batch[j])
    BY <1>1, <1>3, <2>0
  <2>4. \A u \in Threads : \A i \in DOMAIN queue' : Apart(pc'[u], queue'[i])
    BY <1>1, <1>3
  <2>5. /\ \A i \in DOMAIN accepted : accepted[i] <= used
        /\ \A i \in DOMAIN batch : Untaken(batch[i], accepted, used)
        /\ \A i, j \in DOMAIN batch : i # j => Apart(batch[i], batch[j])
    BY DEF SendsOnce, Sends
  <2>6. Sends(accepted, used, queue', batch, pc')
    <3> HIDE DEF SendsOnce
    <3> QED
      BY <1>3, <2>1, <2>2, <2>3, <2>4, <2>5 DEF Sends
  <2> QED
    BY <2>6 DEF SendsOnce
<1>4. CASE ~IsSend(f) /\ pc' = pc
  <2>1. Untaken(f, accepted, used) /\ \A g : Apart(f, g) /\ Apart(g, f)
    BY <1>4 DEF Untaken, Apart
  <2>2. /\ \A u \in Threads : Untaken(pc'[u], accepted, used)
        /\ \A u, v \in Threads : u # v => Apart(pc'[u], pc'[v])
        /\ \A u \in Threads : /\ \A i \in DOMAIN queue : Apart(pc'[u], queue[i])
                             /\ \A i \in DOMAIN batch : Apart(pc'[u], batch[i])
    BY <1>4 DEF SendsOnce, Sends
  <2> QED
    BY <1>3, <2>1, <2>2
<1>5. ASSUME NEW t \in Threads, pc[t] = f, pc' = [pc EXCEPT ![t] = None]
      PROVE  SendsOnce'
  <2>1. /\ pc'[t] = None
        /\ \A u \in Threads : u # t => pc'[u] = pc[u]
    BY <1>0, <1>5
  <2>2. /\ Untaken(None, accepted, used)
        /\ \A g : Apart(None, g) /\ Apart(g, None)
    BY DEF IsSend, Untaken, Apart
  <2>3. /\ Untaken(f, accepted, used)
        /\ \A i \in DOMAIN queue : Apart(f, queue[i])
        /\ \A i \in DOMAIN batch : Apart(f, batch[i])
        /\ \A u \in Threads : u # t => Apart(pc[u], f)
    BY <1>5 DEF SendsOnce, Sends
  <2>5. \A u \in Threads : Untaken(pc'[u], accepted, used) /\ Apart(pc'[u], f)
    <3>1. \A u \in Threads : Untaken(pc[u], accepted, used)
      BY DEF SendsOnce, Sends
    <3> QED
      BY <2>1, <2>2, <2>3, <3>1
  <2>6. \A u, v \in Threads : u # v => Apart(pc'[u], pc'[v])
    <3>1. \A u, v \in Threads : u # v => Apart(pc[u], pc[v])
      BY DEF SendsOnce, Sends
    <3> QED
      BY <2>1, <2>2, <3>1
  <2>7. \A u \in Threads : \A i \in DOMAIN queue : Apart(pc'[u], queue[i])
    <3>1. \A u \in Threads : \A i \in DOMAIN queue : Apart(pc[u], queue[i])
      BY DEF SendsOnce, Sends
    <3> QED
      BY <2>1, <2>2, <3>1
  <2>8. \A u \in Threads : \A i \in DOMAIN batch : Apart(pc'[u], batch[i])
    <3>1. \A u \in Threads : \A i \in DOMAIN batch : Apart(pc[u], batch[i])
      BY DEF SendsOnce, Sends
    <3> QED
      BY <2>1, <2>2, <3>1
  <2> QED
    BY <1>3, <2>3, <2>5, <2>6, <2>7, <2>8
<1> QED
  BY <1>4, <1>5

(* Threads other than t have in hand what they had. *)
LEMMA SendsInHand ==
    ASSUME SendsOnce, NEW t \in Threads, NEW f, NEW p, NEW n,
           p[t] = f, \A u \in Threads : u # t => p[u] = pc[u],
           \A i \in DOMAIN accepted : accepted[i] <= n,
           \A i \in DOMAIN queue : Untaken(queue[i], accepted, n) /\ Apart(f, queue[i]),
           \A i \in DOMAIN batch : Untaken(batch[i], accepted, n) /\ Apart(f, batch[i]),
           \A u \in Threads : u # t => /\ Untaken(pc[u], accepted, n)
                                      /\ Apart(f, pc[u]) /\ Apart(pc[u], f),
           Untaken(f, accepted, n)
    PROVE  Sends(accepted, n, queue, batch, p)
<1>1. \A u \in Threads : Untaken(p[u], accepted, n)
  OBVIOUS
<1>2. \A u, v \in Threads : u # v => Apart(p[u], p[v])
  <2>1. \A u, v \in Threads : u # v => Apart(pc[u], pc[v])
    BY DEF SendsOnce, Sends
  <2> QED
    BY <2>1
<1>3. \A u \in Threads : /\ \A i \in DOMAIN queue : Apart(p[u], queue[i])
                        /\ \A i \in DOMAIN batch : Apart(p[u], batch[i])
  <2>1. \A u \in Threads : /\ \A i \in DOMAIN queue : Apart(pc[u], queue[i])
                          /\ \A i \in DOMAIN batch : Apart(pc[u], batch[i])
    BY DEF SendsOnce, Sends
  <2> QED
    BY <2>1
<1>4. /\ \A i, j \in DOMAIN queue : i # j => Apart(queue[i], queue[j])
      /\ \A i, j \in DOMAIN batch : i # j => Apart(batch[i], batch[j])
      /\ \A i \in DOMAIN queue, j \in DOMAIN batch : Apart(queue[i], batch[j])
  BY DEF SendsOnce, Sends
<1> QED
  BY <1>1, <1>2, <1>3, <1>4 DEF Sends

(* A thread takes a functor in hand: a send has the next number. *)
LEMMA SendsCalled ==
    ASSUME TypeOK, SendsOnce, NEW t \in Threads, NEW f \in Functor,
           pc' = [pc EXCEPT ![t] = f], UNCHANGED <<accepted, queue, batch>>,
           \/ ~IsSend(f) /\ used' = used
           \/ f.m = used + 1 /\ used' = used + 1
    PROVE  SendsOnce'
<1>a. /\ accepted \in Seq(Msgs)
      /\ queue \in Seq(Functor) /\ batch \in Seq(Functor)
      /\ pc \in [Threads -> Functor \cup {None}]
  BY Types, Zenon
<1>b. used \in Nat
  BY Numbers, Zenon
<1>0. /\ accepted \in Seq(Msgs) /\ used \in Nat
      /\ queue \in Seq(Functor) /\ batch \in Seq(Functor)
      /\ pc \in [Threads -> Functor \cup {None}]
  BY <1>a, <1>b, Zenon
<1>1. /\ pc'[t] = f
      /\ \A u \in Threads : u # t => pc'[u] = pc[u]
  BY <1>0
<1>2. /\ \A i \in DOMAIN queue : queue[i] \in Functor /\ Untaken(queue[i], accepted, used)
      /\ \A i \in DOMAIN batch : batch[i] \in Functor /\ Untaken(batch[i], accepted, used)
      /\ \A u \in Threads : pc[u] \in Functor \cup {None} /\ Untaken(pc[u], accepted, used)
  <2>1. /\ \A i \in DOMAIN queue : queue[i] \in Functor
        /\ \A i \in DOMAIN batch : batch[i] \in Functor
        /\ \A u \in Threads : pc[u] \in Functor \cup {None}
    BY <1>0
  <2>2. /\ \A i \in DOMAIN queue : Untaken(queue[i], accepted, used)
        /\ \A i \in DOMAIN batch : Untaken(batch[i], accepted, used)
        /\ \A u \in Threads : Untaken(pc[u], accepted, used)
    BY DEF SendsOnce, Sends
  <2> QED
    BY <2>1, <2>2, Zenon
<1>3. /\ \A g \in Functor \cup {None} :
           Untaken(g, accepted, used) => /\ Apart(f, g) /\ Apart(g, f)
                                         /\ Untaken(g, accepted, used')
      /\ Untaken(f, accepted, used')
      /\ \A i \in DOMAIN accepted : accepted[i] <= used'
  <2>1. CASE ~IsSend(f) /\ used' = used
    BY <2>1, Numbers DEF Untaken, Apart
  <2>2. CASE f.m = used + 1 /\ used' = used + 1
    <3>1. /\ \A g \in Functor \cup {None} : IsSend(g) => g.m \in Nat
          /\ \A m \in Range(accepted) : m \in Nat /\ m <= used
      BY Numbers
    <3>2. ASSUME NEW g \in Functor \cup {None}, Untaken(g, accepted, used)
          PROVE  Apart(f, g) /\ Apart(g, f) /\ Untaken(g, accepted, used')
      BY <1>0, <2>2, <3>1, <3>2 DEF Untaken, Apart
    <3>3. Untaken(f, accepted, used')
      BY <1>0, <2>2, <3>1 DEF Untaken
    <3>4. \A i \in DOMAIN accepted : accepted[i] <= used'
      BY <1>0, <2>2, Numbers
    <3> QED
      BY <3>2, <3>3, <3>4
  <2> QED
    BY <2>1, <2>2
<1>4. Sends(accepted, used', queue, batch, pc')
  BY <1>1, <1>2, <1>3, SendsInHand, Zenon
<1> QED
  BY <1>4 DEF SendsOnce

(* The loop thread sends the next message at once. *)
LEMMA SendsOwn ==
    ASSUME TypeOK, SendsOnce, NEW m \in Msgs, m = used + 1, used' = m,
           accepted' = Append(accepted, m), UNCHANGED <<queue, batch, pc>>
    PROVE  SendsOnce' /\ m \notin Range(accepted)
<1>a. /\ accepted \in Seq(Msgs) /\ used \in 0..MaxMsgs
      /\ queue \in Seq(Functor) /\ batch \in Seq(Functor)
      /\ pc \in [Threads -> Functor \cup {None}]
  BY Types, Zenon
<1>b. used \in Nat /\ m \in Nat
  BY <1>a, ConnectionAssumption DEF Msgs
<1>0. /\ accepted \in Seq(Msgs) /\ used \in Nat /\ m \in Nat
      /\ queue \in Seq(Functor) /\ batch \in Seq(Functor)
      /\ pc \in [Threads -> Functor \cup {None}]
  BY <1>a, <1>b, Zenon
<1>1. /\ \A g \in Functor \cup {None} : IsSend(g) => g.m \in Nat
      /\ \A k \in Range(accepted) : k \in Nat /\ k <= used
  BY Numbers
<1>2. /\ DOMAIN accepted' = DOMAIN accepted \cup {Len(accepted) + 1}
      /\ \A i \in DOMAIN accepted : accepted'[i] = accepted[i]
      /\ accepted'[Len(accepted) + 1] = m
      /\ Range(accepted') = Range(accepted) \cup {m}
  BY <1>0, AppendedElements
<1>3. m \notin Range(accepted)
  BY <1>0, <1>1
<1>4. \A i \in DOMAIN accepted' : accepted'[i] <= used'
  <2>1. \A i \in DOMAIN accepted : accepted[i] <= used'
    BY <1>0, Numbers
  <2> QED
    BY <1>0, <1>2, <2>1
<1>5. ASSUME NEW g \in Functor \cup {None}, Untaken(g, accepted, used)
      PROVE  Untaken(g, accepted', used')
  BY <1>0, <1>1, <1>2, <1>5 DEF Untaken
<1>6. /\ \A i \in DOMAIN queue : queue[i] \in Functor /\ Untaken(queue[i], accepted, used)
      /\ \A i \in DOMAIN batch : batch[i] \in Functor /\ Untaken(batch[i], accepted, used)
      /\ \A u \in Threads : pc[u] \in Functor \cup {None} /\ Untaken(pc[u], accepted, used)
  <2>1. /\ \A i \in DOMAIN queue : queue[i] \in Functor
        /\ \A i \in DOMAIN batch : batch[i] \in Functor
        /\ \A u \in Threads : pc[u] \in Functor \cup {None}
    BY <1>0
  <2>2. /\ \A i \in DOMAIN queue : Untaken(queue[i], accepted, used)
        /\ \A i \in DOMAIN batch : Untaken(batch[i], accepted, used)
        /\ \A u \in Threads : Untaken(pc[u], accepted, used)
    BY DEF SendsOnce, Sends
  <2> QED
    BY <2>1, <2>2, Zenon
<1>7. /\ \A i \in DOMAIN queue : Untaken(queue[i], accepted', used')
      /\ \A i \in DOMAIN batch : Untaken(batch[i], accepted', used')
      /\ \A u \in Threads : Untaken(pc[u], accepted', used')
  BY <1>5, <1>6
<1>8. /\ \A i, j \in DOMAIN batch : i # j => Apart(batch[i], batch[j])
      /\ \A i \in DOMAIN queue, j \in DOMAIN batch : Apart(queue[i], batch[j])
      /\ \A t \in Threads : \A i \in DOMAIN batch : Apart(pc[t], batch[i])
  BY DEF SendsOnce, Sends
<1>9. Sends(accepted', used', queue, batch, pc)
  BY <1>4, <1>7, <1>8, SendsApart, Zenon
<1> QED
  BY <1>3, <1>9 DEF SendsOnce

(* The "send" that runs next has a message. *)
LEMMA SendHead ==
    ASSUME TypeOK, NextFunctor("send")
    PROVE  IsSend(Head(batch)) /\ Head(batch).m \in Msgs /\ Head(batch) = batch[1]
<1>1. batch \in Seq(Functor) /\ batch # <<>> /\ Head(batch).op = "send"
  BY Types DEF NextFunctor
<1>2. Head(batch) \in Functor /\ Head(batch) = batch[1]
  BY <1>1
<1>3. Head(batch) \in [op : {"send"}, m : Msgs]
  BY <1>1, <1>2 DEF Functor
<1> QED
  BY <1>1, <1>2, <1>3, NoneIsNoFunctor DEF IsSend

(* A step that leaves the output alone. *)
LEMMA OutputStays ==
    ASSUME KeepsAll, Ordered, UNCHANGED outVars, user' = user
    PROVE  KeepsAll' /\ Ordered'
<1>1. KeepsAll'
  BY HeldKept, KeepsSame
<1>2. OutputSame /\ high' = high
  BY OutputKept, HeldKept
<1>3. AlwaysInOrder => AlwaysInOrder'
  BY <1>2, StreamSame
<1> QED
  BY <1>1, <1>2, <1>3 DEF Ordered

(* A message that was never taken before is appended to the output, unless   *)
(* it is taken inside another SendInLoop; either way it is held.             *)
LEMMA OutputTaken ==
    ASSUME TypeOK, KeepsAll, Ordered, NEW m \in Msgs, m \notin Range(accepted),
           SendInLoop(m) \/ SendBufferInLoop(m), user' = user,
           high = <<>> \/ "send" \in user.high
    PROVE  KeepsAll' /\ Ordered'
<1>1. KeepsAll'
  BY HeldSent
<1>2. CASE "send" \in user.high
  BY <1>1, <1>2 DEF Ordered
<1>3. CASE high = <<>> /\ "send" \notin user.high
  <2>1. AlwaysInOrder
    BY <1>3 DEF Ordered
  <2>2. OutputGrows(m) /\ Len(high') <= 1
    BY <1>3, SendOutput DEF OutputGrows
  <2>3. AlwaysInOrder'
    BY <2>1, <2>2, StreamGrows, Zenon DEF OutputGrows
  <2> QED
    BY <1>1, <2>2, <2>3 DEF Ordered
<1> QED
  BY <1>2, <1>3

(* The loop thread keeps the order of the output. *)
LEMMA LoopStream ==
    ASSUME ConnInv, StreamInv, LoopStep \/ PollOther
    PROVE  StreamInv'
<1> USE ConnParts DEF StreamInv
<1>1. CASE \/ PollReady \/ PollOther \/ HandleEvent \/ HandleRead \/ MessageReturns
           \/ CompleteReturns \/ HandleHup \/ UpReturns \/ FunctorsDone
  <2>1. UNCHANGED outVars /\ UNCHANGED <<user, used, queue, batch, pc>>
    BY <1>1 DEF PollReady, PollOther, Poll, HandleEvent, HandleRead, MessageReturns,
                CompleteReturns, HandleHup, UpReturns, FunctorsDone, handleFrame
  <2> QED
    BY <2>1, OutputStays, SendsSame DEF outVars
<1>2. CASE HandleWrite
  <2>1. OutputSame /\ UNCHANGED <<user, high, used, queue, batch, pc>>
    BY <1>2, HandleWriteOutput, Zenon DEF HandleWrite, handleFrame
  <2>2. KeepsAll'
    BY <1>2, <2>1, HeldWritten, KeepsSame DEF OutputSame
  <2>3. Ordered'
    BY <2>1, StreamSame DEF Ordered
  <2> QED
    BY <2>1, <2>2, <2>3, SendsSame DEF OutputSame
<1>h. CASE HighWaterReturns
  <2>1. accepted' = accepted /\ UNCHANGED <<user, used, queue, batch, pc>>
    BY <1>h DEF HighWaterReturns, loopVars
  <2>2. KeepsAll'
    BY <1>h, <2>1, HeldReturned, KeepsSame
  <2>3. Ordered'
    <3> SUFFICES ASSUME "send" \notin user.high PROVE AlwaysInOrder' /\ Len(high') <= 1
      BY <2>1 DEF Ordered
    <3>1. OutputSame /\ high' = <<>>
      BY <1>h, HighWaterOutput DEF Ordered
    <3> QED
      BY <3>1, StreamSame DEF Ordered
  <2> QED
    BY <2>1, <2>2, <2>3, SendsSame
<1>3. CASE SwapFunctors
  <2>1. /\ UNCHANGED outVars /\ UNCHANGED <<user, used, pc>>
        /\ batch' = queue /\ queue' = <<>> /\ lpc = "handle"
    BY <1>3 DEF SwapFunctors
  <2>2. batch = <<>>
    BY <2>1 DEF Rounds
  <2> QED
    BY <2>1, <2>2, OutputStays, SendsSwapped DEF outVars
<1>4. CASE \/ EstablishConnection \/ RunShutDown \/ RunCall \/ DestroyConnection
           \/ RunSend /\ state = "kDisConnected"
  <2>1. UNCHANGED outVars /\ batch # <<>> /\ batch' = Tail(batch) /\ UNCHANGED <<user, used, queue, pc>>
    BY <1>4 DEF EstablishConnection, RunShutDown, RunCall, DestroyConnection, RunSend,
                NextFunctor
  <2> QED
    BY <2>1, OutputStays, SendsRun DEF outVars
<1>5. CASE RunSend /\ state # "kDisConnected"
  <2> DEFINE m == Head(batch).m
  <2>1. /\ high = <<>> /\ batch # <<>> /\ batch' = Tail(batch) /\ UNCHANGED <<user, used, queue, pc>>
        /\ SendInLoop(m) /\ NextFunctor("send")
    BY <1>5 DEF RunSend, NextFunctor
  <2>2. IsSend(Head(batch)) /\ m \in Msgs
    BY <2>1, SendHead
  <2>3. m \notin Range(accepted)
    <3>1. Head(batch) = batch[1] /\ 1 \in DOMAIN batch
      BY <2>1, TailElements, Types
    <3> QED
      BY <2>2, <3>1, Zenon DEF SendsOnce, Sends, Untaken
  <2> HIDE DEF m
  <2>4. accepted' = Append(accepted, m)
    BY <2>1 DEF SendInLoop
  <2>5. KeepsAll' /\ Ordered'
    BY <2>1, <2>2, <2>3, OutputTaken, Zenon
  <2>6. SendsOnce'
    BY <2>1, <2>2, <2>4, SendsRun DEF m
  <2> QED
    BY <2>5, <2>6
<1> QED
  BY <1>1, <1>2, <1>h, <1>3, <1>4, <1>5 DEF LoopStep

(* User code in callbacks keeps the order of the output. *)
LEMMA UserStream ==
    ASSUME ConnInv, StreamInv, UserStep
    PROVE  StreamInv'
<1> USE ConnParts DEF StreamInv
<1>1. CASE UserCall \/ OtherCall \/ HighWaterCall
  <2>1. UNCHANGED outVars /\ UNCHANGED <<user, used, queue, batch, pc>>
    BY <1>1, Zenon DEF UserCall, OtherCall, HighWaterCall, OwnCall, loopVars
  <2> QED
    BY <2>1, OutputStays, SendsSame DEF outVars
<1>2. ASSUME NEW m \in Msgs, SendOwn(m) PROVE StreamInv'
  <2>1. /\ high = <<>> \/ "send" \in user.high
        /\ m = used + 1 /\ used' = m /\ UNCHANGED <<user, queue, batch, pc>>
        /\ SendInLoop(m) \/ SendBufferInLoop(m)
    BY <1>2 DEF SendOwn, loopVars
  <2>2. accepted' = Append(accepted, m)
    BY <2>1 DEF SendInLoop, SendBufferInLoop
  <2>3. SendsOnce' /\ m \notin Range(accepted)
    BY <2>1, <2>2, SendsOwn
  <2>4. KeepsAll' /\ Ordered'
    BY <2>1, <2>3, OutputTaken
  <2> QED
    BY <2>3, <2>4
<1> QED
  BY <1>1, <1>2 DEF UserStep

(* The calls of other threads keep the order of the output. *)
LEMMA ThreadStream ==
    ASSUME ConnInv, StreamInv, NEW t \in Threads, ThreadStep(t)
    PROVE  StreamInv'
<1> USE ConnParts DEF StreamInv
<1>1. UNCHANGED outVars /\ UNCHANGED <<user, batch>>
  BY DEF ThreadStep, Send, ShutDown, ForceClose, StartOrStopRead, Queue, Call, loopVars
<1>2. KeepsAll' /\ Ordered' /\ accepted' = accepted
  BY <1>1, OutputStays DEF outVars
<1>3. ASSUME NEW m \in Msgs, Send(t, m) PROVE SendsOnce'
  <2> DEFINE f == [op |-> "send", m |-> m]
  <2>1. f \in Functor /\ f.m = m
    BY DEF Functor
  <2>2. pc' = [pc EXCEPT ![t] = f] /\ queue' = queue /\ f.m = used + 1 /\ used' = used + 1
    BY <1>3 DEF Send, Call
  <2> HIDE DEF f
  <2> QED
    BY <1>1, <1>2, <2>1, <2>2, SendsCalled, Zenon
<1>4. CASE ShutDown(t) \/ ForceClose(t) \/ StartOrStopRead(t)
  <2>1. PICK op \in CallNames : /\ pc' = [pc EXCEPT ![t] = [op |-> op, m |-> None]]
                               /\ queue' = queue /\ used' = used
    BY <1>4, Zenon DEF ShutDown, ForceClose, StartOrStopRead, Call, CallNames
  <2> DEFINE f == [op |-> op, m |-> None]
  <2>2. f \in Functor /\ ~IsSend(f)
    BY DEF Functor, FunctorOps, CallNames, IsSend
  <2>3. pc' = [pc EXCEPT ![t] = f]
    BY <2>1
  <2> HIDE DEF f
  <2> QED
    BY <1>1, <1>2, <2>1, <2>2, <2>3, SendsCalled, Zenon
<1>5. CASE Queue(t)
  <2>1. /\ pc[t] # None /\ queue' = Append(queue, pc[t]) /\ pc' = [pc EXCEPT ![t] = None]
        /\ used' = used
    BY <1>5 DEF Queue
  <2>2. pc[t] \in Functor
    BY <2>1, Types
  <2> QED
    BY <1>1, <1>2, <2>1, <2>2, SendsQueued, Zenon
<1> QED
  BY <1>2, <1>3, <1>4, <1>5 DEF ThreadStep

(* Removing the connection keeps the order of the output. *)
LEMMA RemovalStream ==
    ASSUME ConnInv, StreamInv, RemoveConnectionInLoop
    PROVE  StreamInv'
<1> USE ConnParts DEF StreamInv
<1> DEFINE f == [op |-> "destroy", m |-> None]
<1>1. /\ UNCHANGED outVars /\ UNCHANGED <<user, batch, used>> /\ pc' = pc
      /\ queue' = Append(queue, f)
  BY DEF RemoveConnectionInLoop, loopVars
<1>2. f \in Functor /\ ~IsSend(f)
  BY DEF Functor, FunctorOps, CallNames, IsSend
<1> HIDE DEF f
<1>3. KeepsAll' /\ Ordered' /\ accepted' = accepted
  BY <1>1, OutputStays DEF outVars
<1> QED
  BY <1>1, <1>2, <1>3, SendsQueued

(* The peer leaves the output as it is. *)
LEMMA PeerStream ==
    ASSUME ConnInv, StreamInv, PeerStep \/ UNCHANGED vars
    PROVE  StreamInv'
<1>1. UNCHANGED outVars /\ UNCHANGED <<user, used, queue, batch, pc>>
  BY DEF PeerStep, PeerReads, PeerSends, PeerCloses, PeerResets, environmentFrame, loopVars, vars
<1> QED
  BY <1>1, OutputStays, SendsSame DEF outVars, StreamInv

(* Nothing was sent in a connection that was just made. *)
LEMMA InitStream == Init => StreamInv
<1> SUFFICES ASSUME Init PROVE StreamInv
  OBVIOUS
<1>1. Output = <<>>
  BY DEF Init, Output, Hand
<1>2. accepted = <<>> /\ Range(<<>>) = {} /\ DOMAIN <<>> = {}
  BY DEF Init, Range
<1>3. KeepsAll /\ Ordered
  <2>1. AlwaysInOrder
    BY <1>1, <1>2 DEF AlwaysInOrder, IsStream, IsInjective, Range
  <2>2. Len(high) <= 1
    BY DEF Init
  <2>3. KeepsAll
    BY <1>2 DEF KeepsAll
  <2> QED
    BY <2>1, <2>2, <2>3 DEF Ordered
<1>4. SendsOnce
  <2>1. batch = <<>> /\ DOMAIN queue = {1} /\ ~IsSend(queue[1]) /\ \A t \in Threads : pc[t] = None
    BY DEF Init, IsSend
  <2>2. ~IsSend(None)
    BY DEF IsSend
  <2> QED
    BY <1>2, <2>1, <2>2 DEF SendsOnce, Sends, Untaken, Apart
<1> QED
  BY <1>3, <1>4 DEF StreamInv

(* Whatever calls of Send by whatever threads and wherever in the loop       *)
(* thread, however the socket takes the bytes, and whatever fails, is        *)
(* buffered, flushed by HandleWrite or closed meanwhile: what the socket has *)
(* taken, what waits in ouput_buffer_ and what waits for high_water_callback_*)
(* to return holds every byte of every message that SendInLoop took.  Unless *)
(* the user Sends in high_water_callback_ itself, no message is taken twice  *)
(* and the bytes are in the order in which the messages were taken.          *)
THEOREM StreamIsKept == Spec => []StreamInOrder
<1>1. Init => StreamInv
  BY InitStream
<1>2. ConnInv /\ StreamInv /\ [Next]_vars => StreamInv'
  <2> SUFFICES ASSUME ConnInv, StreamInv, [Next]_vars PROVE StreamInv'
    OBVIOUS
  <2> QED
    BY LoopStream, UserStream, ThreadStream, RemovalStream, PeerStream DEF Next
<1>3. StreamInv => StreamInOrder
  BY DEF StreamInv, StreamInOrder, KeepsAll, Ordered, AlwaysInOrder
<1> QED
  BY <1>1, <1>2, <1>3, ConnInvariant, PTL DEF Spec
=============================================================================
