---------------------------- MODULE TcpConnection ----------------------------
(***************************************************************************)
(* muzi::TcpConnection (muzi/net/tcp_connection.{h,cc}) with its Channel   *)
(* (channel.{h,cc}) and its entry in the EpollPoller                       *)
(* (poller/epoll_poller.cc), in an I/O loop that is not the loop of its    *)
(* TcpServer.                                                              *)
(*                                                                         *)
(* The loop thread goes round poll - handlers - functors.  User code runs  *)
(* in it (callbacks of this connection, handlers of other channels, other  *)
(* functors) and in other threads.  The kernel and the peer are            *)
(* environment: they drain the socket, send data, close or reset.          *)
(*                                                                         *)
(* Bytes are pairs <<message, position>>; a position beyond MsgLen is      *)
(* memory after the end of the message.  Assertions are off, as in the     *)
(* default build: the model goes on after one that fails, and remembers it *)
(* in "failed".  After "aborted" its steps mean nothing.                   *)
(***************************************************************************)
EXTENDS Naturals, Sequences, Functions

CONSTANTS Threads,      \* the threads other than the loop thread
          MaxMsgs,      \* bound: the number of calls of Send
          MsgLen,       \* the length of a message
          SockCap,      \* the room in the socket's send buffer
          HighWater,    \* high_water_mark_
          Users,        \* the users of the connection: what their code calls
          MaxQueue,     \* bound: functors waiting when a thread begins a call
          None          \* no functor, no message

CallNames == {"shutDown", "forceClose", "stopRead", "startRead"}

(* What a user's code calls: in threads, own callbacks and functors, where   *)
(* it may Send as well; in handlers of other channels and timers; in         *)
(* high_water_callback_.  A Send that is written at once calls               *)
(* write_complete_callback_, and so what that calls, wherever it is made.    *)
User == {u \in [calls : SUBSET CallNames,
                other : SUBSET (CallNames \cup {"send"}),
                high  : SUBSET (CallNames \cup {"send"})] :
           \A place \in {u.other, u.high} : "send" \in place => u.calls \subseteq place}

ASSUME ConnectionAssumption ==
    /\ MaxMsgs \in Nat /\ None \notin 1..MaxMsgs
    /\ MsgLen \in Nat \ {0} /\ SockCap \in Nat \ {0} /\ HighWater \in Nat \ {0}
    /\ MaxQueue \in Nat
    /\ Users \subseteq User

VARIABLES
    user,               \* the user of this connection
    state,              \* state_
    isReading,          \* is_reading
    outBuf,             \* ouput_buffer_
    events,             \* Channel::events_
    index,              \* Channel::index_
    revents,            \* Channel::revents_ of a channel in active_channels_, or {}
    inMap,              \* EpollPoller::channels_ has the fd
    inEpoll,            \* epoll watches the fd (with events)
    room,               \* free bytes in the socket's send buffer
    wrShut,             \* the socket is shut down for writing
    inData,             \* there is data to read
    fin, reset,         \* the peer has closed its side, has reset the connection
    sockErr,            \* an error is pending on the socket
    lpc,                \* where the loop thread is
    high,               \* for each SendInLoop that is in high_water_callback_, the
                        \* innermost first: the bytes that it appends afterwards
    queue, batch,       \* functors_ of the loop and cur_functors of ExecuteFunctors
    pc,                 \* the functor that each thread is about to queue, or None
    removes,            \* RemoveConnectionInLoop functors in the server's loop
    wire,               \* history: the bytes the socket has taken
    accepted,           \* history: the messages SendInLoop has taken
    used,               \* history: the number of calls of Send
    closes,             \* history: the number of calls of HandleClose
    failed,             \* history: the assertions that failed
    aborted             \* an epoll_ctl has failed and LOG_SYSFAT has ended the program

sockVars   == <<room, wrShut, inData, fin, reset, sockErr>>
pollVars   == <<events, index, inMap, inEpoll, aborted>>
outVars    == <<outBuf, high, wire, accepted>>
loopVars   == <<lpc, revents, batch>>
closeVars  == <<removes, closes>>
vars == <<user, state, isReading, outVars, pollVars, loopVars, sockVars, queue, pc, used,
          closeVars, failed>>

States == {"kConnecting", "kConnected", "kDisConnecting", "kDisConnected"}
FunctorOps == CallNames \cup {"establish", "send", "destroy"}
(* The messages, numbered in the order of the calls of Send. *)
Msgs == 1..MaxMsgs
Functor == [op : FunctorOps \ {"send"}, m : {None}] \cup [op : {"send"}, m : Msgs]
ASSUME NoneIsNoFunctor == None \notin Functor
Byte == Msgs \X Nat
LoopPositions == {"poll", "handle", "read", "message", "write", "complete", "hup",
                  "functors", "up"}

TypeOK ==
    /\ user \in Users
    /\ state \in States
    /\ isReading \in BOOLEAN
    /\ outBuf \in Seq(Byte)
    /\ events \in SUBSET {"read", "write"}
    /\ index \in {"kNew", "kAdded", "kDeleted"}
    /\ revents \in SUBSET {"IN", "OUT", "HUP", "ERR"}
    /\ inMap \in BOOLEAN /\ inEpoll \in BOOLEAN
    /\ room \in 0..SockCap
    /\ wrShut \in BOOLEAN /\ inData \in BOOLEAN /\ fin \in BOOLEAN /\ reset \in BOOLEAN
    /\ sockErr \in BOOLEAN
    /\ lpc \in LoopPositions
    /\ high \in Seq(Seq(Byte) \ {<<>>})
    /\ queue \in Seq(Functor) /\ batch \in Seq(Functor)
    /\ pc \in [Threads -> Functor \cup {None}]
    /\ removes \in Nat
    /\ wire \in Seq(Byte)
    /\ accepted \in Seq(Msgs)
    /\ used \in 0..MaxMsgs
    /\ closes \in Nat
    /\ failed \in SUBSET {"HandleClose", "Remove"}
    /\ aborted \in BOOLEAN

(* TcpServer::NewConnection has made the connection and queued               *)
(* EstablishConnection in the I/O loop.                                      *)
Init ==
    /\ user \in Users
    /\ state = "kConnecting"
    /\ isReading = TRUE
    /\ outBuf = <<>> /\ high = <<>>
    /\ events = {} /\ index = "kNew" /\ revents = {}
    /\ inMap = FALSE /\ inEpoll = FALSE
    /\ room = SockCap
    /\ wrShut = FALSE /\ inData = FALSE /\ fin = FALSE /\ reset = FALSE /\ sockErr = FALSE
    /\ lpc = "poll"
    /\ queue = <<[op |-> "establish", m |-> None]>> /\ batch = <<>>
    /\ pc = [t \in Threads |-> None]
    /\ removes = 0 /\ closes = 0
    /\ wire = <<>> /\ accepted = <<>> /\ used = 0
    /\ failed = {} /\ aborted = FALSE

-----------------------------------------------------------------------------
(* Channel and EpollPoller. *)

IsWritting == "write" \in events

(* Mutant: SetIndex(kDeleted) is forgotten after EPOLL_CTL_DEL. *)
UpdateKeepsIndex(e) ==
    /\ events' = e
    /\ index' = "kAdded"
    /\ inEpoll' = (index # "kAdded" \/ e # {})
    /\ inMap' = (inMap \/ index = "kNew")
    /\ aborted' = (aborted \/ (inEpoll <=> index # "kAdded"))

(* Channel::Update with EpollPoller::UpdateChannel, for the new events e.    *)
UpdateChannel(e) ==
    /\ events' = e
    /\ IF index \in {"kNew", "kDeleted"}
         THEN /\ index' = "kAdded" /\ inEpoll' = TRUE                \* EPOLL_CTL_ADD
              /\ inMap' = (inMap \/ index = "kNew")
              /\ aborted' = (aborted \/ inEpoll)
         ELSE /\ IF e = {}
                   THEN index' = "kDeleted" /\ inEpoll' = FALSE      \* EPOLL_CTL_DEL
                   ELSE UNCHANGED <<index, inEpoll>>                 \* EPOLL_CTL_MOD
              /\ inMap' = inMap
              /\ aborted' = (aborted \/ ~inEpoll)

(* Channel::Remove with EpollPoller::RemoveChannel. *)
Remove ==
    /\ failed' = IF events = {} THEN failed ELSE failed \cup {"Remove"}
    /\ inMap' = FALSE
    /\ inEpoll' = (inEpoll /\ index # "kAdded")
    /\ aborted' = (aborted \/ (index = "kAdded" /\ ~inEpoll))
    /\ UNCHANGED <<events, index>>

(* What epoll reports for the socket. *)
Ready ==
    {e \in {"IN", "OUT", "HUP", "ERR"} :
       /\ inEpoll
       /\ CASE e = "IN"  -> "read" \in events /\ (inData \/ fin \/ reset)
            [] e = "OUT" -> IsWritting /\ (room > 0 \/ wrShut \/ reset)
            [] e = "HUP" -> reset \/ (fin /\ wrShut)
            [] e = "ERR" -> sockErr}

-----------------------------------------------------------------------------
(* The operations of the connection in the loop thread. *)

Bytes(m, first, n) == [k \in 1..n |-> <<m, first + k - 1>>]

Broken == wrShut \/ reset               \* write() and writev() fail

(* How much a write of n bytes may take; 0 for EAGAIN and for errors.        *)
Written(n) == IF Broken \/ room = 0 THEN {0} ELSE 1..(IF n < room THEN n ELSE room)

(* Mutant: EnableWritting is forgotten. *)
PutOutSilent(bytes) == outBuf' = outBuf \o bytes /\ UNCHANGED pollVars

(* The end of both SendInLoop: append, and EnableWritting unless it is on.   *)
PutOut(bytes) ==
    /\ outBuf' = outBuf \o bytes
    /\ IF IsWritting THEN UNCHANGED pollVars
                     ELSE UpdateChannel(events \cup {"write"})

(* high_water_callback_ is called when "remaining" bytes are to be appended. *)
CrossesHighWater(remaining) ==
    Len(outBuf) + remaining >= HighWater /\ Len(outBuf) < HighWater

(* Append the bytes, at once or when high_water_callback_ has returned.      *)
Buffer(bytes, remaining) ==
    IF CrossesHighWater(remaining)
      THEN high' = <<bytes>> \o high /\ UNCHANGED <<outBuf, pollVars>>
      ELSE PutOut(bytes) /\ UNCHANGED high

(* Mutant: bytes that wait are overtaken. *)
SendInLoopDirect(m) ==
    /\ accepted' = Append(accepted, m)
    /\ \E w \in Written(MsgLen) :
         /\ wire' = wire \o Bytes(m, 1, w)
         /\ room' = room - w
         /\ sockErr' = (sockErr /\ ~Broken)
         /\ IF w = MsgLen THEN UNCHANGED <<outBuf, high, pollVars>>
                          ELSE Buffer(Bytes(m, w + 1, MsgLen), MsgLen - w)
    /\ UNCHANGED <<wrShut, inData, fin, reset>>

(* SendInLoop(first, len).  When a part has been written directly, the       *)
(* bytes appended start where it ended, but they are "len" of them and not   *)
(* "remaining".  Nothing follows write_complete_callback_, so what it calls  *)
(* is user code like any other.                                              *)
SendInLoop(m) ==
    /\ accepted' = Append(accepted, m)
    /\ IF ~IsWritting /\ outBuf = <<>>
         THEN \E w \in Written(MsgLen) :
                /\ wire' = wire \o Bytes(m, 1, w)
                /\ room' = room - w
                /\ sockErr' = (sockErr /\ ~Broken)
                /\ IF w = MsgLen THEN UNCHANGED <<outBuf, high, pollVars>>
                                 ELSE Buffer(Bytes(m, w + 1, MsgLen), MsgLen - w)
         ELSE /\ Buffer(Bytes(m, 1, MsgLen), MsgLen)
              /\ UNCHANGED <<wire, room, sockErr>>
    /\ UNCHANGED <<wrShut, inData, fin, reset>>

(* SendInLoop(const Buffer &): nothing is written directly. *)
SendBufferInLoop(m) ==
    /\ accepted' = Append(accepted, m)
    /\ Buffer(Bytes(m, 1, MsgLen), MsgLen)
    /\ UNCHANGED <<wire, sockVars>>

(* Mutant: IsWritting() is not looked at. *)
ShutDownNow == wrShut' = TRUE

ShutDownInLoop == wrShut' = (wrShut \/ ~IsWritting)

Alive == state \in {"kConnected", "kDisConnecting"}

(* connection_callback_ can do nothing more to a connection that is          *)
(* kDisConnected; close_callback_ is TcpServer::RemoveConnection.            *)
HandleClose ==
    /\ failed' = IF Alive THEN failed ELSE failed \cup {"HandleClose"}
    /\ state' = "kDisConnected"
    /\ UpdateChannel({})
    /\ closes' = closes + 1
    /\ removes' = removes + 1

ForceCloseInLoop ==
    /\ IF Alive THEN HandleClose ELSE UNCHANGED <<state, pollVars, failed, closeVars>>
    /\ UNCHANGED <<isReading, wrShut>>

StartReadInLoop ==
    /\ IF (~isReading \/ "read" \notin events) /\ Alive
         THEN UpdateChannel(events \cup {"read"}) /\ isReading' = TRUE
         ELSE UNCHANGED <<pollVars, isReading>>
    /\ UNCHANGED <<state, failed, closeVars, wrShut>>

StopReadInLoop ==
    /\ IF (isReading \/ "read" \in events) /\ state # "kDisConnected"
         THEN UpdateChannel(events \ {"read"}) /\ isReading' = FALSE
         ELSE UNCHANGED <<pollVars, isReading>>
    /\ UNCHANGED <<state, failed, closeVars, wrShut>>

(* ShutDown called in the loop thread. *)
ShutDownOwn ==
    /\ IF state = "kConnected" THEN state' = "kDisConnecting" /\ ShutDownInLoop
                               ELSE UNCHANGED <<state, wrShut>>
    /\ UNCHANGED <<pollVars, isReading, failed, closeVars>>

(* A call made in the loop thread, where it acts at once. *)
OwnCall(call) ==
    /\ CASE call = "shutDown"   -> ShutDownOwn
         [] call = "forceClose" -> ForceCloseInLoop
         [] call = "startRead"  -> StartReadInLoop
         [] call = "stopRead"   -> StopReadInLoop
    /\ state # "kConnecting"
    /\ UNCHANGED <<outVars, room, inData, fin, reset, sockErr, loopVars, queue, pc, user, used>>

-----------------------------------------------------------------------------
(* User code in the loop thread. *)

InCallback == lpc \in {"message", "complete", "up", "functors"}

UserCall == high = <<>> /\ InCallback /\ \E call \in user.calls : OwnCall(call)

(* The handler of another channel, before or after this channel's, or a      *)
(* timer: among them the one of ForceCloseWithDelay.                         *)
OtherCall == high = <<>> /\ lpc = "handle" /\ \E call \in user.other \cap CallNames : OwnCall(call)

HighWaterCall == high # <<>> /\ \E call \in user.high \cap CallNames : OwnCall(call)

(* Send called in the loop thread, with a string or with a Buffer.  In       *)
(* high_water_callback_ it runs inside another SendInLoop, before that one   *)
(* appends its bytes.                                                        *)
SendOwn(m) ==
    /\ IF high = <<>> THEN InCallback \/ (lpc = "handle" /\ "send" \in user.other)
                      ELSE "send" \in user.high
    /\ state = "kConnected"
    /\ m = used + 1
    /\ used' = m
    /\ SendInLoop(m) \/ SendBufferInLoop(m)
    /\ UNCHANGED <<user, state, isReading, failed, closeVars, loopVars, queue, pc>>

(* high_water_callback_ returns; the innermost SendInLoop goes on. *)
HighWaterReturns ==
    /\ high # <<>>
    /\ high' = Tail(high)
    /\ PutOut(Head(high))
    /\ UNCHANGED <<state, isReading, failed, closeVars, wire, accepted, sockVars, loopVars,
                   queue, pc, user, used>>

-----------------------------------------------------------------------------
(* Other threads: look at state_, then queue a functor. *)

Call(t, f) ==
    /\ pc[t] = None
    /\ Len(queue) < MaxQueue
    /\ state # "kConnecting"
    /\ pc' = [pc EXCEPT ![t] = f]
    /\ UNCHANGED <<isReading, outVars, pollVars, loopVars, sockVars, queue, closeVars,
                   failed>>

Send(t, m) ==
    /\ state = "kConnected"
    /\ m = used + 1
    /\ used' = m
    /\ Call(t, [op |-> "send", m |-> m])
    /\ UNCHANGED <<user, state>>

(* ShutDown: the compare_exchange_strong, then RunInLoop. *)
ShutDown(t) ==
    /\ "shutDown" \in user.calls
    /\ state = "kConnected"
    /\ state' = "kDisConnecting"
    /\ Call(t, [op |-> "shutDown", m |-> None])
    /\ UNCHANGED <<user, used>>

ForceClose(t) ==
    /\ "forceClose" \in user.calls
    /\ Alive
    /\ Call(t, [op |-> "forceClose", m |-> None])
    /\ UNCHANGED <<state, user, used>>

StartOrStopRead(t) ==
    /\ \E call \in user.calls \cap {"startRead", "stopRead"} : Call(t, [op |-> call, m |-> None])
    /\ UNCHANGED <<state, user, used>>

(* RunInLoop by another thread: the functor is queued. *)
Queue(t) ==
    /\ pc[t] # None
    /\ queue' = Append(queue, pc[t])
    /\ pc' = [pc EXCEPT ![t] = None]
    /\ UNCHANGED <<state, isReading, outVars, pollVars, loopVars, sockVars, user, used, closeVars,
                   failed>>

(* RemoveConnectionInLoop in the loop of the server. *)
RemoveConnectionInLoop ==
    /\ removes > 0
    /\ removes' = removes - 1
    /\ queue' = Append(queue, [op |-> "destroy", m |-> None])
    /\ UNCHANGED <<state, isReading, outVars, pollVars, loopVars, sockVars, pc, user, used, closes,
                   failed>>

-----------------------------------------------------------------------------
(* The loop thread: poll, Channel::HandleEvent, functors. *)

(* What only Poll and the steps that use revents or functors change. *)
handleFrame == <<queue, batch, pc, user, used>>

Poll ==
    /\ lpc = "poll"
    /\ revents' = Ready
    /\ lpc' = "handle"
    /\ UNCHANGED <<state, isReading, outVars, pollVars, sockVars, closeVars, failed,
                   handleFrame>>

(* epoll_wait returns for this channel or for queued functors ... *)
PollReady == (Ready # {} \/ queue # <<>>) /\ Poll

(* ... or for another channel, or after its timeout. *)
PollOther == Ready = {} /\ queue = <<>> /\ Poll

(* HandleEventWithGuard begins; HandleError takes the pending error. *)
HandleEvent ==
    /\ lpc = "handle"
    /\ high = <<>>
    /\ revents # {}
    /\ lpc' = "read"
    /\ sockErr' = (sockErr /\ "ERR" \notin revents)
    /\ UNCHANGED <<state, isReading, outVars, pollVars, revents, room, wrShut, inData, fin,
                   reset, closeVars, failed, handleFrame>>

(* read_callback_: data goes to message_callback_, an error is only logged,  *)
(* and the end of the stream closes.                                         *)
HandleRead ==
    /\ lpc = "read"
    /\ LET reading == "IN" \in revents
           closing == reading /\ ~sockErr /\ ~inData /\ (fin \/ reset)
           message == reading /\ inData
       IN /\ sockErr' = (sockErr /\ (inData \/ ~reading))
          /\ inData' = (inData /\ ~message)
          /\ IF closing THEN HandleClose
                        ELSE UNCHANGED <<state, pollVars, closeVars, failed>>
          /\ lpc' = IF message THEN "message" ELSE "write"
    /\ UNCHANGED <<isReading, outVars, revents, room, wrShut, fin, reset, handleFrame>>

MessageReturns ==
    /\ lpc = "message"
    /\ high = <<>>
    /\ lpc' = "write"
    /\ UNCHANGED <<state, isReading, outVars, pollVars, revents, sockVars, closeVars, failed,
                   handleFrame>>

(* write_callback_, with ChainBuffer::WriteFd and its Retrive. *)
HandleWrite ==
    /\ lpc = "write"
    /\ IF "OUT" \in revents /\ IsWritting
         THEN \E w \in Written(Len(outBuf)) :
                /\ wire' = wire \o SubSeq(outBuf, 1, w)
                /\ outBuf' = SubSeq(outBuf, w + 1, Len(outBuf))
                /\ room' = room - w
                /\ sockErr' = (sockErr /\ ~Broken)
                /\ IF w = Len(outBuf)
                     THEN UpdateChannel(events \ {"write"}) /\ lpc' = "complete"
                     ELSE UNCHANGED pollVars /\ lpc' = "hup"
         ELSE UNCHANGED <<wire, outBuf, room, sockErr, pollVars>> /\ lpc' = "hup"
    /\ UNCHANGED <<state, isReading, high, accepted, revents, wrShut, inData, fin, reset,
                   closeVars, failed, handleFrame>>

(* Mutant: the ShutDown that waited is forgotten. *)
CompleteForgets ==
    /\ lpc = "complete"
    /\ high = <<>>
    /\ lpc' = "hup"
    /\ UNCHANGED <<state, isReading, outVars, pollVars, revents, sockVars, closeVars, failed,
                   handleFrame>>

(* write_complete_callback_ returns: a ShutDown that waited is done now. *)
CompleteReturns ==
    /\ lpc = "complete"
    /\ high = <<>>
    /\ IF state = "kDisConnecting" THEN ShutDownInLoop ELSE UNCHANGED wrShut
    /\ lpc' = "hup"
    /\ UNCHANGED <<state, isReading, outVars, pollVars, revents, room, inData, fin, reset,
                   sockErr, closeVars, failed, handleFrame>>

(* close_callback_, and the end of HandleEventWithGuard. *)
HandleHup ==
    /\ lpc = "hup"
    /\ IF "HUP" \in revents /\ "IN" \notin revents
         THEN HandleClose
         ELSE UNCHANGED <<state, pollVars, closeVars, failed>>
    /\ revents' = {}
    /\ lpc' = "handle"
    /\ UNCHANGED <<isReading, outVars, sockVars, handleFrame>>

SwapFunctors ==
    /\ lpc = "handle"
    /\ high = <<>>
    /\ revents = {}
    /\ batch' = queue
    /\ queue' = <<>>
    /\ lpc' = "functors"
    /\ UNCHANGED <<state, isReading, outVars, pollVars, revents, sockVars, closeVars, failed,
                   pc, user, used>>

(* The functor at the head of the batch. *)
NextFunctor(op) ==
    /\ lpc = "functors"
    /\ high = <<>>
    /\ batch # <<>>
    /\ Head(batch).op = op
    /\ batch' = Tail(batch)
    /\ UNCHANGED <<revents, queue, pc, user, used>>

(* EstablishConnection; connection_callback_ is called in position "up". *)
EstablishConnection ==
    /\ NextFunctor("establish")
    /\ state' = "kConnected"
    /\ UpdateChannel(events \cup {"read"})
    /\ lpc' = "up"
    /\ UNCHANGED <<isReading, outVars, sockVars, closeVars, failed>>

UpReturns ==
    /\ lpc = "up"
    /\ high = <<>>
    /\ lpc' = "functors"
    /\ UNCHANGED <<state, isReading, outVars, pollVars, revents, sockVars, closeVars, failed,
                   handleFrame>>

RunSend ==
    /\ NextFunctor("send")
    /\ IF state = "kDisConnected"
         THEN UNCHANGED <<outVars, pollVars, sockVars>>
         ELSE SendInLoop(Head(batch).m)
    /\ UNCHANGED <<state, isReading, lpc, closeVars, failed>>

RunShutDown ==
    /\ NextFunctor("shutDown")
    /\ ShutDownInLoop
    /\ UNCHANGED <<state, isReading, outVars, pollVars, lpc, room, inData, fin, reset, sockErr,
                   closeVars, failed>>

RunCall ==
    /\ \/ NextFunctor("forceClose") /\ ForceCloseInLoop
       \/ NextFunctor("startRead") /\ StartReadInLoop
       \/ NextFunctor("stopRead") /\ StopReadInLoop
    /\ UNCHANGED <<outVars, lpc, room, inData, fin, reset, sockErr>>

(* DestroyConnection, queued by the server after HandleClose. *)
DestroyConnection ==
    /\ NextFunctor("destroy")
    /\ Remove
    /\ UNCHANGED <<state, isReading, outVars, lpc, sockVars, closeVars>>

FunctorsDone ==
    /\ lpc = "functors"
    /\ high = <<>>
    /\ batch = <<>>
    /\ lpc' = "poll"
    /\ UNCHANGED <<state, isReading, outVars, pollVars, revents, sockVars, closeVars, failed,
                   handleFrame>>

-----------------------------------------------------------------------------
(* The kernel and the peer. *)

environmentFrame == <<state, isReading, outVars, pollVars, loopVars, queue, pc, user, used,
                      closeVars, failed, wrShut>>

PeerReads ==
    /\ room < SockCap
    /\ room' = room + 1
    /\ UNCHANGED <<environmentFrame, inData, fin, reset, sockErr>>

PeerSends ==
    /\ ~fin /\ ~reset
    /\ inData' = TRUE
    /\ UNCHANGED <<environmentFrame, room, fin, reset, sockErr>>

PeerCloses ==
    /\ ~reset
    /\ fin' = TRUE
    /\ UNCHANGED <<environmentFrame, room, inData, reset, sockErr>>

PeerResets ==
    /\ ~reset
    /\ reset' = TRUE
    /\ sockErr' = TRUE
    /\ UNCHANGED <<environmentFrame, room, inData, fin>>

-----------------------------------------------------------------------------
LoopStep == \/ PollReady \/ HandleEvent \/ HandleRead \/ MessageReturns \/ HandleWrite
            \/ CompleteReturns \/ HandleHup \/ SwapFunctors \/ EstablishConnection
            \/ UpReturns \/ RunSend \/ RunShutDown \/ RunCall \/ DestroyConnection
            \/ FunctorsDone \/ HighWaterReturns

UserStep == \/ UserCall \/ OtherCall \/ HighWaterCall
            \/ \E m \in Msgs : SendOwn(m)

ThreadStep(t) == \/ \E m \in Msgs : Send(t, m)
                 \/ ShutDown(t) \/ ForceClose(t) \/ StartOrStopRead(t) \/ Queue(t)

PeerStep == PeerReads \/ PeerSends \/ PeerCloses \/ PeerResets

Next == \/ LoopStep \/ PollOther \/ UserStep \/ RemoveConnectionInLoop \/ PeerStep
        \/ \E t \in Threads : ThreadStep(t)

Spec == Init /\ [][Next]_vars

(* The loop threads run, a thread inside a call goes on, and the peer goes   *)
(* on reading.                                                               *)
FairSpec == /\ Spec
            /\ WF_vars(LoopStep)
            /\ WF_vars(RemoveConnectionInLoop)
            /\ WF_vars(PeerReads)
            /\ \A t \in Threads : WF_vars(Queue(t))

-----------------------------------------------------------------------------
(* Properties. *)

InMessage(b) == b[2] <= MsgLen

(* The bytes that the innermost SendInLoop has in hand. *)
Hand == IF high = <<>> THEN <<>> ELSE Head(high)

(* What the socket took and what waits to be written, in that order.         *)
Output == wire \o outBuf \o Hand

(* All the bytes that the socket took, that wait or that are in hand.        *)
Held == Range(wire) \cup Range(outBuf) \cup UNION {Range(high[i]) : i \in DOMAIN high}

(* In the stream of the messages taken, b comes after a. *)
Precedes(taken, a, b) ==
    IF a[1] = b[1]
      THEN a[2] < b[2]
      ELSE \E p, q \in DOMAIN taken : p < q /\ taken[p] = a[1] /\ taken[q] = b[1]

(* No message is taken twice, and leaving aside bytes from beyond the end of *)
(* a message, the output has the bytes of the messages taken and has them in *)
(* the order of the stream.                                                  *)
IsStream(taken, output) ==
    /\ IsInjective(taken)
    /\ {b \in Range(output) : InMessage(b)} = Range(taken) \X (1..MsgLen)
    /\ \A i, j \in DOMAIN output :
         i < j /\ InMessage(output[i]) /\ InMessage(output[j])
           => Precedes(taken, output[i], output[j])

(* Whatever is written directly, buffered, or flushed by HandleWrite, and    *)
(* whatever fails or closes meanwhile, no byte of a message that SendInLoop  *)
(* has taken is lost.  For a user that does not Send in high_water_callback_,*)
(* none is duplicated or overtaken either: what the socket took and what     *)
(* waits is the stream of the messages.                                      *)
StreamInOrder ==
    /\ Range(accepted) \X (1..MsgLen) \subseteq Held
    /\ "send" \notin user.high => IsStream(accepted, Output)

(* The same order for every user.  A Send in high_water_callback_            *)
(* (tcp_connection.cc:114 and :175) overtakes the bytes that the outer       *)
(* SendInLoop appends only when the callback has returned.                   *)
AlwaysInOrder == IsStream(accepted, Output)

(* Bytes wait in ouput_buffer_ exactly while epoll watches for POLLOUT: they *)
(* are never stranded, and the loop never spins on an empty buffer.          *)
WriteWatched == Alive => /\ (outBuf # <<>> <=> IsWritting)
                         /\ (IsWritting => inEpoll)

(* The socket of a connection that is up is shut down for writing only when  *)
(* everything that SendInLoop took before has been written.  Only a ShutDown *)
(* that high_water_callback_ calls may come before the bytes in hand.        *)
ShutdownAfterFlush ==
    [][wrShut' # wrShut => \/ state = "kDisConnected"
                           \/ outBuf = <<>> /\ (high = <<>> \/ "shutDown" \in user.high)]_vars

(* Nothing is written after the connection is down. *)
SilentAfterClose == [][state = "kDisConnected" => wire' = wire]_vars

(* The user calls ForceClose only in the connection's own callbacks, in      *)
(* functors and in other threads.                                            *)
CloseIsQueued == "forceClose" \notin user.other \cup user.high

(* EpollPoller's view of the channel is that of epoll, so epoll_ctl never    *)
(* fails, and a channel that is removed is not watched.                      *)
EpollAgrees == CloseIsQueued => /\ ~aborted
                                /\ inMap => (inEpoll <=> index = "kAdded")
                                /\ ~inMap => ~inEpoll

(* A connection that only its own callbacks, functors and other threads      *)
(* close, and that goes on reading, goes through HandleClose once, whatever  *)
(* the peer does meanwhile.                                                  *)
QueuedCloseOnce ==
    CloseIsQueued /\ "stopRead" \notin user.calls \cup user.other \cup user.high
      => closes <= 1 /\ "HandleClose" \notin failed

(* tcp_connection.cc:402, assert(state_ == kConnected || ...): HandleClose   *)
(* is called once, for a connection that is up.                              *)
ClosedOnce == "HandleClose" \notin failed

(* channel.cc:77, assert(IsNoneEvent()): a channel is removed only when it   *)
(* waits for no event.                                                       *)
RemovedIdle == "Remove" \notin failed

(* epoll_poller.cc:142, "If no event to monitor, delete it from epoll": a    *)
(* channel without events is not watched.                                    *)
NoEventNotWatched == events = {} => ~inEpoll

(* tcp_connection.cc:164, "Write the remaining bytes to output buffer.":     *)
(* the bytes sent and to be sent are bytes of messages.                      *)
OnlyMessages == \A b \in Range(wire) \cup Range(outBuf) : InMessage(b)

(* A ShutDown is carried out, however many bytes wait when it is called. *)
ShutDownHappens == state = "kDisConnecting" ~> (wrShut \/ state = "kDisConnected")

(* The messages that were taken are written, unless the connection is shut   *)
(* down or breaks.                                                           *)
MessagesSent ==
    accepted # <<>> ~> \/ \A m \in Range(accepted) : <<m, MsgLen>> \in Range(wire)
                       \/ wrShut \/ reset \/ state = "kDisConnected"

(* A connection that came down is removed from the poller. *)
CloseRemoves == state = "kDisConnected" ~> ~inMap
=============================================================================
