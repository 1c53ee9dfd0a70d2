------------------------ MODULE TcpConnectionLemmas -------------------------
(***************************************************************************)
(* The types and the invariant of TcpConnection, and lemmas that the handlers*)
(* and the functors of the loop thread keep them.                          *)
(***************************************************************************)
EXTENDS TcpConnection, TLAPS

Establish == [op |-> "establish", m |-> None]

(* The poller's view of a channel in its map is that of epoll. *)
Agrees == inMap /\ ~aborted /\ index # "kNew" /\ (inEpoll <=> index = "kAdded")

NoneIs(op, s) == \A i \in DOMAIN s : s[i].op # op

(* DestroyConnection is on its way at most once, or not at all. *)
Single(s) == \A i, j \in DOMAIN s : s[i].op = "destroy" /\ s[j].op = "destroy" => i = j

OnePending ==
    /\ removes <= 1 /\ Single(queue) /\ Single(batch)
    /\ removes = 1 => NoneIs("destroy", queue) /\ NoneIs("destroy", batch)
    /\ NoneIs("destroy", queue) \/ NoneIs("destroy", batch)

NonePending == removes = 0 /\ NoneIs("destroy", queue) /\ NoneIs("destroy", batch)

(* Before EstablishConnection, which is queued once, the connection is not   *)
(* in use.                                                                   *)
NotYetUp ==
    /\ index = "kNew" /\ ~inMap /\ ~inEpoll /\ ~aborted /\ events = {}
    /\ outBuf = <<>> /\ high = <<>> /\ removes = 0
    /\ \/ queue = <<Establish>> /\ batch = <<>>
       \/ queue = <<>> /\ batch = <<Establish>>
    /\ \A t \in Threads : pc[t] = None

(* While it is up, nothing has asked for its removal, the channel is in the  *)
(* poller's map, and the output buffer is watched.                           *)
Up ==
    /\ Agrees /\ NonePending
    /\ events # {} => index = "kAdded"
    /\ outBuf # <<>> <=> IsWritting

(* Once it is down the channel waits for nothing.  It may be in epoll all    *)
(* the same (when the user had stopped reading, HandleClose adds it), and    *)
(* then it is removed once; a hangup that epoll still reports takes it out.  *)
Down ==
    /\ events = {} /\ high = <<>> /\ ~aborted /\ index # "kNew"
    /\ IF inMap THEN Agrees ELSE ~inEpoll
    /\ index = "kAdded" => IF inMap THEN OnePending ELSE NonePending

(* Functors of the life cycle come from the server alone and only once.      *)
OwnFunctors ==
    /\ state # "kConnecting" => NoneIs("establish", queue) /\ NoneIs("establish", batch)
    /\ \A t \in Threads : pc[t] # None => pc[t].op \notin {"establish", "destroy"}

(* An event is handled in the round that polled it, and user code is called  *)
(* with bytes in hand in callbacks and in handlers of other channels only.   *)
Rounds ==
    /\ revents # {} => state # "kConnecting" /\ lpc \notin {"poll", "functors", "up"}
    /\ lpc \in {"read", "message", "write", "complete", "hup"} => revents # {}
    /\ lpc = "message" => "IN" \in revents
    /\ "HUP" \in revents => Broken
    /\ high # <<>> => InCallback \/ lpc = "handle"
    /\ batch # <<>> => lpc \in {"functors", "up"}

(* A handler closes a connection that is down only if it was down when the   *)
(* hangup was polled, so that its channel was in epoll: HandleWrite empties  *)
(* no buffer of a broken connection.                                         *)
NoLateClose ==
    /\ revents # {} => inMap
    /\ lpc = "complete" => "HUP" \notin revents
    /\ state = "kDisConnected" =>
         /\ "HUP" \in revents /\ "IN" \notin revents => index = "kAdded"
         /\ lpc \in {"handle", "read"} => "IN" \notin revents

Life ==
    /\ state = "kConnecting" => NotYetUp
    /\ Alive => Up
    /\ CloseIsQueued /\ state = "kDisConnected" => Down

ConnInv == TypeOK /\ Rounds /\ OwnFunctors /\ Life /\ (CloseIsQueued => NoLateClose)

-----------------------------------------------------------------------------
(* Types. *)

(* The types in parts, so that a step shows only those of what it changes. *)
StateType == /\ state \in States /\ isReading \in BOOLEAN
             /\ failed \in SUBSET {"HandleClose", "Remove"}
OutType == /\ outBuf \in Seq(Byte) /\ high \in Seq(Seq(Byte) \ {<<>>})
           /\ wire \in Seq(Byte) /\ accepted \in Seq(Msgs)
PollType == /\ events \in SUBSET {"read", "write"} /\ index \in {"kNew", "kAdded", "kDeleted"}
            /\ inMap \in BOOLEAN /\ inEpoll \in BOOLEAN /\ aborted \in BOOLEAN
SockType == /\ room \in 0..SockCap /\ wrShut \in BOOLEAN /\ inData \in BOOLEAN
            /\ fin \in BOOLEAN /\ reset \in BOOLEAN /\ sockErr \in BOOLEAN
PosType == lpc \in LoopPositions /\ revents \in SUBSET {"IN", "OUT", "HUP", "ERR"}
FrameType == /\ user \in Users /\ queue \in Seq(Functor) /\ batch \in Seq(Functor)
             /\ pc \in [Threads -> Functor \cup {None}] /\ used \in 0..MaxMsgs
CountType == removes \in Nat /\ closes \in Nat

(* The parts make up the whole. *)
LEMMA TypeParts ==
    TypeOK <=> /\ StateType /\ OutType /\ PollType /\ SockType /\ PosType /\ FrameType
               /\ CountType
BY DEF TypeOK, StateType, OutType, PollType, SockType, PosType, FrameType, CountType

(* The parts make up the whole after a step. *)
LEMMA PartsType ==
    ASSUME StateType', OutType', PollType', SockType', PosType', FrameType', CountType'
    PROVE  TypeOK'
BY DEF TypeOK, StateType, OutType, PollType, SockType, PosType, FrameType, CountType

(* A part that a step leaves alone. *)
LEMMA PartsKept ==
    ASSUME TypeOK
    PROVE  /\ UNCHANGED <<state, isReading, failed>> => StateType'
           /\ UNCHANGED outVars => OutType'
           /\ UNCHANGED pollVars => PollType'
           /\ UNCHANGED sockVars => SockType'
           /\ UNCHANGED <<lpc, revents>> => PosType'
           /\ UNCHANGED handleFrame => FrameType'
           /\ UNCHANGED closeVars => CountType'
<1>1. StateType /\ OutType /\ PollType /\ SockType /\ PosType /\ FrameType /\ CountType
  BY TypeParts
<1>2. UNCHANGED <<state, isReading, failed>> => StateType'
  BY <1>1 DEF StateType
<1>3. UNCHANGED outVars => OutType'
  BY <1>1 DEF OutType, outVars
<1>4. UNCHANGED pollVars => PollType'
  BY <1>1 DEF PollType, pollVars
<1>5. UNCHANGED sockVars => SockType'
  BY <1>1 DEF SockType, sockVars
<1>6. UNCHANGED <<lpc, revents>> => PosType'
  BY <1>1 DEF PosType
<1>7. UNCHANGED handleFrame => FrameType'
  BY <1>1 DEF FrameType, handleFrame
<1>8. UNCHANGED closeVars => CountType'
  BY <1>1 DEF CountType, closeVars
<1> QED
  BY <1>2, <1>3, <1>4, <1>5, <1>6, <1>7, <1>8

(* What the types say of each variable. *)
LEMMA Types ==
    TypeOK =>
        /\ user \in Users
        /\ state \in States
        /\ isReading \in BOOLEAN
        /\ outBuf \in Seq(Byte)
        /\ events \in SUBSET {"read", "write"}
        /\ index \in {"kNew", "kAdded", "kDeleted"}
        /\ revents \in SUBSET {"IN", "OUT", "HUP", "ERR"}
        /\ inMap \in BOOLEAN /\ inEpoll \in BOOLEAN
        /\ room \in 0..SockCap
        /\ wrShut \in BOOLEAN /\ inData \in BOOLEAN /\ fin \in BOOLEAN /\ reset \in BOOLEAN
        /\ sockErr \in BOOLEAN
        /\ lpc \in LoopPositions
        /\ high \in Seq(Seq(Byte) \ {<<>>})
        /\ queue \in Seq(Functor) /\ batch \in Seq(Functor)
        /\ pc \in [Threads -> Functor \cup {None}]
        /\ removes \in Nat
        /\ wire \in Seq(Byte)
        /\ accepted \in Seq(Msgs)
        /\ used \in 0..MaxMsgs
        /\ closes \in Nat
        /\ failed \in SUBSET {"HandleClose", "Remove"}
        /\ aborted \in BOOLEAN
BY DEF TypeOK

(* What the invariant consists of. *)
LEMMA ConnParts ==
    ConnInv <=> TypeOK /\ Rounds /\ OwnFunctors /\ Life /\ (CloseIsQueued => NoLateClose)
BY DEF ConnInv

(* What users call are calls of TcpConnection. *)
LEMMA UserCalls == TypeOK => user.calls \subseteq CallNames
<1> SUFFICES ASSUME TypeOK PROVE user.calls \subseteq CallNames
  OBVIOUS
<1>1. user \in [calls : SUBSET CallNames,
               other : SUBSET (CallNames \cup {"send"}),
               high  : SUBSET (CallNames \cup {"send"})]
  BY ConnectionAssumption, Types DEF User
<1> QED
  BY <1>1

(* A SendInLoop that begins is the innermost one, and the others follow it.  *)
LEMMA Pushed ==
    ASSUME NEW S, NEW s \in Seq(S), NEW e \in S
    PROVE  /\ <<e>> \o s \in Seq(S) /\ Len(<<e>> \o s) = Len(s) + 1
           /\ <<e>> \o s # <<>> /\ Head(<<e>> \o s) = e
           /\ (<<e>> \o s)[1] = e /\ \A i \in DOMAIN s : (<<e>> \o s)[i + 1] = s[i]
<1>1. <<e>> \in Seq(S) /\ Len(<<e>>) = 1 /\ <<e>>[1] = e
  OBVIOUS
<1> DEFINE t == <<e>> \o s
<1>2. /\ t \in Seq(S) /\ Len(t) = Len(s) + 1 /\ t[1] = e
      /\ \A i \in 1..Len(s) : t[i + 1] = s[i]
  BY <1>1
<1>3. Len(s) \in Nat /\ DOMAIN s = 1..Len(s)
  OBVIOUS
<1> HIDE DEF t
<1>4. t # <<>> /\ Head(t) = e
  BY <1>2, <1>3
<1> QED
  BY <1>2, <1>3, <1>4 DEF t

(* What the innermost SendInLoop has in hand are bytes. *)
LEMMA InHand ==
    ASSUME TypeOK, high # <<>>
    PROVE  /\ Head(high) \in Seq(Byte) /\ Head(high) # <<>> /\ Head(high) = high[1]
           /\ Tail(high) \in Seq(Seq(Byte) \ {<<>>})
<1>1. high \in Seq(Seq(Byte) \ {<<>>})
  BY Types
<1>2. Head(high) \in Seq(Byte) \ {<<>>} /\ Tail(high) \in Seq(Seq(Byte) \ {<<>>}) /\ Head(high) = high[1]
  BY <1>1
<1> QED
  BY <1>2

(* The n bytes of a message from one of them on are n bytes. *)
LEMMA BytesType ==
    ASSUME NEW m \in Msgs, NEW first \in Nat \ {0}, NEW n \in Nat
    PROVE  Bytes(m, first, n) \in Seq(Byte) /\ Len(Bytes(m, first, n)) = n
BY DEF Bytes, Byte

(* Channel::Update and EpollPoller keep the types of what they set. *)
LEMMA UpdateType ==
    ASSUME TypeOK, NEW e \in SUBSET {"read", "write"}, UpdateChannel(e)
    PROVE  /\ events' \in SUBSET {"read", "write"}
           /\ index' \in {"kNew", "kAdded", "kDeleted"}
           /\ inMap' \in BOOLEAN /\ inEpoll' \in BOOLEAN /\ aborted' \in BOOLEAN
BY Types, Zenon DEF UpdateChannel

(* Buffering the rest of a message keeps the types. *)
LEMMA BufferType ==
    ASSUME TypeOK, NEW bytes \in Seq(Byte), bytes # <<>>, NEW n \in Nat, Buffer(bytes, n)
    PROVE  /\ events' \in SUBSET {"read", "write"}
           /\ index' \in {"kNew", "kAdded", "kDeleted"}
           /\ inMap' \in BOOLEAN /\ inEpoll' \in BOOLEAN /\ aborted' \in BOOLEAN
           /\ outBuf' \in Seq(Byte) /\ high' \in Seq(Seq(Byte) \ {<<>>})
<1>1. CASE PutOut(bytes) /\ UNCHANGED high /\ ~IsWritting
  <2>1. UpdateChannel(events \cup {"write"})
    BY <1>1 DEF PutOut
  <2>2. events \cup {"write"} \in SUBSET {"read", "write"}
    BY Types
  <2> QED
    BY <1>1, <2>1, <2>2, UpdateType DEF PutOut, TypeOK
<1>2. CASE PutOut(bytes) /\ UNCHANGED high /\ IsWritting
  <2>1. outBuf' = outBuf \o bytes /\ UNCHANGED <<pollVars, high>>
    BY <1>2 DEF PutOut
  <2> QED
    BY <2>1, Types DEF pollVars
<1>3. CASE high' = <<bytes>> \o high /\ UNCHANGED <<outBuf, pollVars>>
  <2>1. bytes \in Seq(Byte) \ {<<>>} /\ high \in Seq(Seq(Byte) \ {<<>>})
    BY Types
  <2>2. high' \in Seq(Seq(Byte) \ {<<>>})
    BY <1>3, <2>1, Pushed
  <2> QED
    BY <1>3, <2>2, Types DEF pollVars
<1> QED
  BY <1>1, <1>2, <1>3 DEF Buffer

(* write() takes no more than it is given and than there is room for, and    *)
(* something when it can.                                                    *)
LEMMA WrittenType ==
    ASSUME TypeOK, NEW n \in Nat, NEW w \in Written(n)
    PROVE  w \in Nat /\ w <= n /\ w <= room /\ room - w \in 0..SockCap /\ (Broken \/ room = 0 \/ n = 0 \/ w > 0)
BY ConnectionAssumption DEF TypeOK, Written

(* SendInLoop keeps the types, and leaves the peer alone. *)
LEMMA SendType ==
    ASSUME TypeOK, NEW m \in Msgs, SendInLoop(m) \/ SendBufferInLoop(m)
    PROVE  /\ events' \in SUBSET {"read", "write"}
           /\ index' \in {"kNew", "kAdded", "kDeleted"}
           /\ inMap' \in BOOLEAN /\ inEpoll' \in BOOLEAN /\ aborted' \in BOOLEAN
           /\ outBuf' \in Seq(Byte) /\ high' \in Seq(Seq(Byte) \ {<<>>}) /\ wire' \in Seq(Byte)
           /\ accepted' \in Seq(Msgs)
           /\ room' \in 0..SockCap /\ sockErr' \in BOOLEAN
           /\ UNCHANGED <<wrShut, inData, fin, reset>>
<1> USE ConnectionAssumption
<1>a. accepted' \in Seq(Msgs) /\ UNCHANGED <<wrShut, inData, fin, reset>>
  <2>1. accepted' = Append(accepted, m) /\ UNCHANGED <<wrShut, inData, fin, reset>>
    BY DEF SendInLoop, SendBufferInLoop, sockVars
  <2> QED
    BY <2>1, Types
<1>b. MsgLen \in Nat /\ Bytes(m, 1, MsgLen) \in Seq(Byte) /\ Bytes(m, 1, MsgLen) # <<>>
  BY BytesType
<1>1. CASE SendInLoop(m) /\ ~IsWritting /\ outBuf = <<>>
  <2>1. PICK w \in Written(MsgLen) :
                /\ wire' = wire \o Bytes(m, 1, w)
                /\ room' = room - w
                /\ sockErr' = (sockErr /\ ~Broken)
                /\ IF w = MsgLen THEN UNCHANGED <<outBuf, high, pollVars>>
                                 ELSE Buffer(Bytes(m, w + 1, MsgLen), MsgLen - w)
    BY <1>1 DEF SendInLoop
  <2>2. w \in Nat /\ w <= MsgLen /\ room' \in 0..SockCap
    BY <1>b, <2>1, WrittenType
  <2>3. /\ Bytes(m, 1, w) \in Seq(Byte) /\ MsgLen - w \in Nat
        /\ Bytes(m, w + 1, MsgLen) \in Seq(Byte) /\ Bytes(m, w + 1, MsgLen) # <<>>
    BY <1>b, <2>2, BytesType
  <2>4. wire' \in Seq(Byte) /\ sockErr' \in BOOLEAN
    BY <2>1, <2>3, Types
  <2>5. CASE w = MsgLen
    BY <1>a, <2>1, <2>2, <2>4, <2>5, Types DEF pollVars
  <2>6. CASE w # MsgLen
    BY <1>a, <2>1, <2>2, <2>3, <2>4, <2>6, BufferType
  <2> QED
    BY <2>5, <2>6
<1>2. CASE Buffer(Bytes(m, 1, MsgLen), MsgLen) /\ UNCHANGED <<wire, room, sockErr>>
  <2>1. wire' \in Seq(Byte) /\ room' \in 0..SockCap /\ sockErr' \in BOOLEAN
    BY <1>2, Types
  <2> QED
    BY <1>a, <1>b, <1>2, <2>1, BufferType
<1> QED
  BY <1>1, <1>2, Zenon DEF SendInLoop, SendBufferInLoop, sockVars

(* What the calls of a user change in the loop thread. *)
CallType ==
    /\ state' \in States /\ isReading' \in BOOLEAN /\ wrShut' \in BOOLEAN
    /\ events' \in SUBSET {"read", "write"}
    /\ index' \in {"kNew", "kAdded", "kDeleted"}
    /\ inMap' \in BOOLEAN /\ inEpoll' \in BOOLEAN /\ aborted' \in BOOLEAN
    /\ failed' \in SUBSET {"HandleClose", "Remove"}
    /\ removes' \in Nat /\ closes' \in Nat

(* HandleClose keeps the types. *)
LEMMA CloseType ==
    ASSUME TypeOK, HandleClose, isReading' \in BOOLEAN, wrShut' \in BOOLEAN
    PROVE  CallType
<1>1. {} \in SUBSET {"read", "write"} /\ UpdateChannel({})
  BY DEF HandleClose
<1>2. removes \in Nat /\ closes \in Nat /\ failed \in SUBSET {"HandleClose", "Remove"}
  BY Types, Zenon
<1>3. /\ state' \in States /\ removes' \in Nat /\ closes' \in Nat
      /\ failed' \in SUBSET {"HandleClose", "Remove"}
  BY <1>2 DEF HandleClose, States
<1> QED
  BY <1>1, <1>3, UpdateType, Zenon DEF CallType

(* The calls that user code makes in the loop thread keep the types. *)
LEMMA LoopCallType ==
    ASSUME TypeOK, \/ ForceCloseInLoop \/ StartReadInLoop \/ StopReadInLoop \/ ShutDownOwn
    PROVE  CallType
<1>1. CASE ForceCloseInLoop /\ Alive
  BY <1>1, CloseType, Types DEF ForceCloseInLoop
<1>2. CASE ForceCloseInLoop /\ ~Alive
  BY <1>2, Types DEF ForceCloseInLoop, CallType, pollVars, closeVars
<1>3. CASE StartReadInLoop
  <2>1. events \cup {"read"} \in SUBSET {"read", "write"}
    BY Types
  <2>2. CASE UpdateChannel(events \cup {"read"}) /\ isReading' = TRUE
    BY <1>3, <2>1, <2>2, UpdateType, Types, Zenon DEF StartReadInLoop, CallType, closeVars
  <2>3. CASE UNCHANGED <<pollVars, isReading>>
    BY <1>3, <2>3, Types DEF StartReadInLoop, CallType, closeVars, pollVars
  <2> QED
    BY <1>3, <2>2, <2>3, Zenon DEF StartReadInLoop
<1>4. CASE StopReadInLoop
  <2>1. events \ {"read"} \in SUBSET {"read", "write"}
    BY Types
  <2>2. CASE UpdateChannel(events \ {"read"}) /\ isReading' = FALSE
    BY <1>4, <2>1, <2>2, UpdateType, Types, Zenon DEF StopReadInLoop, CallType, closeVars
  <2>3. CASE UNCHANGED <<pollVars, isReading>>
    BY <1>4, <2>3, Types DEF StopReadInLoop, CallType, closeVars, pollVars
  <2> QED
    BY <1>4, <2>2, <2>3, Zenon DEF StopReadInLoop
<1>5. CASE ShutDownOwn
  BY <1>5, Types, Zenon DEF ShutDownOwn, ShutDownInLoop, CallType, pollVars, closeVars, States
<1> QED
  BY <1>1, <1>2, <1>3, <1>4, <1>5

(* Whatever user code in the loop thread calls, the types are kept. *)
LEMMA OwnCallType ==
    ASSUME TypeOK, NEW call \in CallNames, OwnCall(call)
    PROVE  TypeOK'
<1>1. CallType
  BY LoopCallType, Zenon DEF OwnCall, CallNames
<1> QED
  BY <1>1 DEF TypeOK, OwnCall, CallType, outVars, loopVars

(* The functor that runs next is a functor, and a "send" carries a message. *)
LEMMA FunctorType ==
    ASSUME TypeOK, NEW op, NextFunctor(op)
    PROVE  /\ Head(batch) \in Functor /\ batch' \in Seq(Functor)
           /\ op = "send" => Head(batch).m \in Msgs
<1>1. batch \in Seq(Functor) /\ batch # <<>>
  BY Types DEF NextFunctor
<1>2. Head(batch) \in Functor /\ Tail(batch) \in Seq(Functor)
  BY <1>1
<1> QED
  BY <1>2 DEF NextFunctor, Functor, FunctorOps, CallNames

(* HandleClose changes what CallType says, and leaves the output alone. *)
LEMMA CallParts ==
    ASSUME TypeOK, CallType
    PROVE  /\ StateType' /\ PollType' /\ CountType'
           /\ UNCHANGED <<room, inData, fin, reset, sockErr>> => SockType'
<1>1. StateType' /\ PollType' /\ CountType'
  BY DEF CallType, StateType, PollType, CountType
<1>2. UNCHANGED <<room, inData, fin, reset, sockErr>> => SockType'
  BY TypeParts DEF CallType, SockType
<1> QED
  BY <1>1, <1>2

(* The steps that handle events. *)
LEMMA HandlerType ==
    ASSUME TypeOK, \/ Poll \/ HandleEvent \/ HandleRead \/ MessageReturns \/ HandleWrite
                   \/ CompleteReturns \/ HandleHup \/ SwapFunctors
    PROVE  TypeOK'
<1> USE DEF LoopPositions
<1>1. CASE Poll
  <2>1. Ready \in SUBSET {"IN", "OUT", "HUP", "ERR"}
    BY Zenon DEF Ready
  <2>2. PosType'
    BY <1>1, <2>1 DEF Poll, PosType
  <2> QED
    BY <1>1, <2>2, PartsKept, PartsType DEF Poll
<1>2. CASE HandleEvent
  <2>1. PosType' /\ SockType'
    BY <1>2, TypeParts DEF HandleEvent, PosType, SockType
  <2> QED
    BY <1>2, <2>1, PartsKept, PartsType DEF HandleEvent
<1>3. CASE HandleRead
  <2>1. isReading' = isReading /\ PosType' /\ SockType' /\ UNCHANGED <<outVars, handleFrame>>
    BY <1>3, TypeParts DEF HandleRead, PosType, SockType
  <2>2. CASE HandleClose
    <3>1. isReading' \in BOOLEAN /\ wrShut' \in BOOLEAN
      BY <2>1, TypeParts DEF SockType, StateType
    <3>2. CallType
      BY <2>2, <3>1, CloseType
    <3> QED
      BY <2>1, <3>2, CallParts, PartsKept, PartsType
  <2>3. CASE UNCHANGED <<state, pollVars, closeVars, failed>>
    BY <2>1, <2>3, PartsKept, PartsType
  <2> QED
    BY <1>3, <2>2, <2>3 DEF HandleRead
<1>4. CASE MessageReturns
  <2>1. PosType'
    BY <1>4, TypeParts DEF MessageReturns, PosType
  <2> QED
    BY <1>4, <2>1, PartsKept, PartsType DEF MessageReturns
<1>5. CASE HandleWrite
  <2>0. UNCHANGED <<state, isReading, high, accepted, revents, wrShut, inData, fin, reset,
                    closeVars, failed, handleFrame>>
    BY <1>5 DEF HandleWrite
  <2>1. ASSUME NEW w \in Written(Len(outBuf)),
               wire' = wire \o SubSeq(outBuf, 1, w),
               outBuf' = SubSeq(outBuf, w + 1, Len(outBuf)),
               room' = room - w,
               sockErr' = (sockErr /\ ~Broken),
               \/ UpdateChannel(events \ {"write"}) /\ lpc' = "complete"
               \/ UNCHANGED pollVars /\ lpc' = "hup"
        PROVE  TypeOK'
    <3>1. Len(outBuf) \in Nat /\ outBuf \in Seq(Byte) /\ wire \in Seq(Byte)
      BY Types
    <3>2. w \in Nat /\ w <= Len(outBuf) /\ room' \in 0..SockCap
      BY <2>1, <3>1, WrittenType
    <3>3. SubSeq(outBuf, 1, w) \in Seq(Byte) /\ SubSeq(outBuf, w + 1, Len(outBuf)) \in Seq(Byte)
      BY <3>1, <3>2
    <3>a. wire' \in Seq(Byte) /\ outBuf' \in Seq(Byte)
      <4>1. wire \o SubSeq(outBuf, 1, w) \in Seq(Byte)
        BY <3>1, <3>3
      <4> QED
        BY <2>1, <3>3, <4>1, Zenon
    <3>4. wire' \in Seq(Byte) /\ outBuf' \in Seq(Byte) /\ sockErr' \in BOOLEAN
      BY <2>1, <3>a, Types, Zenon
    <3>5. /\ events' \in SUBSET {"read", "write"}
          /\ index' \in {"kNew", "kAdded", "kDeleted"}
          /\ inMap' \in BOOLEAN /\ inEpoll' \in BOOLEAN /\ aborted' \in BOOLEAN
      <4>1. events \ {"write"} \in SUBSET {"read", "write"}
        BY Types
      <4> QED
        BY <2>1, <4>1, UpdateType, Types, Zenon DEF pollVars
    <3>6. OutType' /\ PollType' /\ SockType' /\ PosType'
      <4>1. OutType'
        BY <2>0, <3>4, Types DEF OutType
      <4>2. PollType'
        BY <3>5 DEF PollType
      <4>3. SockType'
        BY <2>0, <3>2, <3>4, Types DEF SockType
      <4>4. PosType'
        BY <2>0, <2>1, Types, Zenon DEF PosType
      <4> QED
        BY <4>1, <4>2, <4>3, <4>4
    <3> QED
      BY <2>0, <3>6, PartsKept, PartsType
  <2>2. CASE UNCHANGED <<wire, outBuf, room, sockErr, pollVars>> /\ lpc' = "hup"
    <3>1. OutType' /\ SockType' /\ PosType'
      BY <2>0, <2>2, TypeParts DEF OutType, SockType, PosType
    <3> QED
      BY <2>0, <2>2, <3>1, PartsKept, PartsType
  <2> QED
    BY <1>5, <2>1, <2>2, Zenon DEF HandleWrite
<1>6. CASE CompleteReturns
  <2>1. wrShut' \in BOOLEAN
    BY <1>6, Types, Zenon DEF CompleteReturns, ShutDownInLoop
  <2>2. PosType' /\ SockType'
    BY <1>6, <2>1, TypeParts DEF CompleteReturns, PosType, SockType
  <2> QED
    BY <1>6, <2>2, PartsKept, PartsType DEF CompleteReturns
<1>7. CASE HandleHup
  <2>1. isReading' = isReading /\ PosType' /\ UNCHANGED <<outVars, sockVars, handleFrame>>
    BY <1>7 DEF HandleHup, PosType
  <2>2. CASE HandleClose
    <3>1. isReading' \in BOOLEAN /\ wrShut' \in BOOLEAN
      BY <2>1, TypeParts DEF SockType, StateType, sockVars
    <3>2. CallType
      BY <2>2, <3>1, CloseType
    <3> QED
      BY <2>1, <3>2, CallParts, PartsKept, PartsType
  <2>3. CASE UNCHANGED <<state, pollVars, closeVars, failed>>
    BY <2>1, <2>3, PartsKept, PartsType
  <2> QED
    BY <1>7, <2>2, <2>3 DEF HandleHup
<1>8. CASE SwapFunctors
  <2>1. PosType' /\ FrameType'
    BY <1>8, TypeParts DEF SwapFunctors, PosType, FrameType
  <2> QED
    BY <1>8, <2>1, PartsKept, PartsType DEF SwapFunctors
<1> QED
  BY <1>1, <1>2, <1>3, <1>4, <1>5, <1>6, <1>7, <1>8

(* A functor leaves the batch. *)
LEMMA NextFunctorType ==
    ASSUME TypeOK, NEW op, NextFunctor(op)
    PROVE  FrameType' /\ revents' = revents /\ lpc = "functors"
<1>1. batch' \in Seq(Functor)
  BY FunctorType
<1> QED
  BY <1>1, TypeParts DEF NextFunctor, FrameType

(* The functors of the loop. *)
LEMMA FunctorsType ==
    ASSUME TypeOK, \/ EstablishConnection \/ UpReturns \/ RunSend \/ RunShutDown \/ RunCall
                   \/ DestroyConnection \/ FunctorsDone \/ HighWaterReturns
    PROVE  TypeOK'
<1> USE DEF LoopPositions
<1>1. CASE EstablishConnection
  <2>1. events \cup {"read"} \in SUBSET {"read", "write"}
    BY Types
  <2>2. FrameType' /\ revents' = revents
    BY <1>1, NextFunctorType DEF EstablishConnection
  <2>3. PollType'
    BY <1>1, <2>1, UpdateType DEF EstablishConnection, PollType
  <2>4. StateType' /\ PosType'
    BY <1>1, <2>2, TypeParts DEF EstablishConnection, StateType, PosType, States
  <2> QED
    BY <1>1, <2>2, <2>3, <2>4, PartsKept, PartsType DEF EstablishConnection
<1>2. CASE UpReturns
  <2>1. PosType'
    BY <1>2, TypeParts DEF UpReturns, PosType
  <2> QED
    BY <1>2, <2>1, PartsKept, PartsType DEF UpReturns
<1>3. CASE RunSend
  <2>1. FrameType' /\ revents' = revents /\ Head(batch).m \in Msgs
    BY <1>3, FunctorType, NextFunctorType DEF RunSend
  <2>2. StateType' /\ PosType' /\ CountType'
    BY <1>3, <2>1, PartsKept DEF RunSend
  <2>3. CASE UNCHANGED <<outVars, pollVars, sockVars>>
    BY <2>1, <2>2, <2>3, PartsKept, PartsType
  <2>4. CASE SendInLoop(Head(batch).m)
    <3>1. OutType' /\ PollType' /\ SockType'
      BY <2>1, <2>4, SendType, TypeParts DEF OutType, PollType, SockType
    <3> QED
      BY <2>1, <2>2, <3>1, PartsType
  <2> QED
    BY <1>3, <2>3, <2>4 DEF RunSend
<1>4. CASE RunShutDown
  <2>1. FrameType' /\ revents' = revents
    BY <1>4, NextFunctorType DEF RunShutDown
  <2>2. SockType'
    BY <1>4, TypeParts DEF RunShutDown, ShutDownInLoop, SockType
  <2> QED
    BY <1>4, <2>1, <2>2, PartsKept, PartsType DEF RunShutDown
<1>5. CASE RunCall
  <2>1. FrameType' /\ revents' = revents
    BY <1>5, NextFunctorType DEF RunCall
  <2>2. CallType
    BY <1>5, LoopCallType DEF RunCall
  <2> QED
    BY <1>5, <2>1, <2>2, CallParts, PartsKept, PartsType DEF RunCall
<1>6. CASE DestroyConnection
  <2>1. FrameType' /\ revents' = revents
    BY <1>6, NextFunctorType DEF DestroyConnection
  <2>2. StateType'
    BY <1>6, TypeParts DEF DestroyConnection, Remove, StateType
  <2>3. PollType'
    BY <1>6, TypeParts, Zenon DEF DestroyConnection, Remove, PollType
  <2> QED
    BY <1>6, <2>1, <2>2, <2>3, PartsKept, PartsType DEF DestroyConnection
<1>7. CASE FunctorsDone
  <2>1. PosType'
    BY <1>7, TypeParts DEF FunctorsDone, PosType
  <2> QED
    BY <1>7, <2>1, PartsKept, PartsType DEF FunctorsDone
<1>8. CASE HighWaterReturns
  <2>1. /\ events' \in SUBSET {"read", "write"}
        /\ index' \in {"kNew", "kAdded", "kDeleted"}
        /\ inMap' \in BOOLEAN /\ inEpoll' \in BOOLEAN /\ aborted' \in BOOLEAN
        /\ outBuf' \in Seq(Byte) /\ high' \in Seq(Seq(Byte) \ {<<>>})
    <3>1. outBuf' = outBuf \o Head(high) /\ high' = Tail(high) /\ outBuf \in Seq(Byte) /\ high # <<>>
      BY <1>8, Types DEF HighWaterReturns, PutOut
    <3>2. outBuf' \in Seq(Byte) /\ high' \in Seq(Seq(Byte) \ {<<>>})
      BY <3>1, InHand
    <3>3. CASE UpdateChannel(events \cup {"write"})
      <4>1. events \cup {"write"} \in SUBSET {"read", "write"}
        BY Types
      <4> QED
        BY <3>2, <3>3, <4>1, UpdateType
    <3>4. CASE UNCHANGED pollVars
      BY <3>2, <3>4, Types DEF pollVars
    <3> QED
      BY <1>8, <3>3, <3>4 DEF HighWaterReturns, PutOut
  <2>2. OutType' /\ PollType'
    BY <1>8, <2>1, TypeParts DEF HighWaterReturns, OutType, PollType
  <2>3. UNCHANGED <<state, isReading, failed, closeVars, sockVars, lpc, revents, handleFrame>>
    BY <1>8 DEF HighWaterReturns, loopVars, handleFrame
  <2> QED
    BY <2>2, <2>3, PartsKept, PartsType
<1> QED
  BY <1>1, <1>2, <1>3, <1>4, <1>5, <1>6, <1>7, <1>8

(* Users, other threads, the server's loop, and the peer. *)
LEMMA UserType ==
    ASSUME TypeOK, UserCall \/ OtherCall \/ HighWaterCall \/ \E m \in Msgs : SendOwn(m)
    PROVE  TypeOK'
<1>1. user.calls \subseteq CallNames
  BY UserCalls
<1>2. CASE UserCall \/ OtherCall \/ HighWaterCall
  BY <1>1, <1>2, OwnCallType DEF UserCall, OtherCall, HighWaterCall
<1>3. ASSUME NEW m \in Msgs, SendOwn(m) PROVE TypeOK'
  <2>1. /\ UNCHANGED <<user, state, isReading, failed, closeVars, lpc, revents, batch, queue, pc>>
        /\ used' = m
        /\ SendInLoop(m) \/ SendBufferInLoop(m)
    BY <1>3 DEF SendOwn, loopVars
  <2>2. used' \in 0..MaxMsgs
    BY <2>1, ConnectionAssumption DEF Msgs
  <2>3. FrameType'
    BY <2>1, <2>2, TypeParts DEF FrameType
  <2>4. OutType' /\ PollType' /\ SockType'
    BY <2>1, SendType, TypeParts DEF OutType, PollType, SockType
  <2> QED
    BY <2>1, <2>3, <2>4, PartsKept, PartsType
<1> QED
  BY <1>2, <1>3

(* The calls of other threads keep the types. *)
LEMMA ThreadType ==
    ASSUME TypeOK, NEW t \in Threads, ThreadStep(t)
    PROVE  TypeOK'
<1>1. ASSUME NEW f \in Functor, Call(t, f), state' \in States, user' = user, used' \in 0..MaxMsgs
      PROVE  TypeOK'
  <2>1. UNCHANGED <<isReading, outVars, pollVars, lpc, revents, batch, sockVars, queue, closeVars, failed>>
    BY <1>1 DEF Call, loopVars
  <2>2. StateType'
    BY <1>1, <2>1, TypeParts DEF StateType
  <2>3. pc' \in [Threads -> Functor \cup {None}]
    BY <1>1, TypeParts DEF Call, FrameType
  <2>4. FrameType'
    BY <1>1, <2>1, <2>3, TypeParts DEF FrameType
  <2> QED
    BY <2>1, <2>2, <2>4, PartsKept, PartsType
<1>0. state \in States /\ used \in 0..MaxMsgs
  BY Types
<1>2. CASE \E m \in Msgs : Send(t, m)
  <2>1. PICK m \in Msgs : Send(t, m)
    BY <1>2
  <2>2. [op |-> "send", m |-> m] \in Functor
    BY Zenon DEF Functor
  <2>3. m \in 0..MaxMsgs
    BY ConnectionAssumption DEF Msgs
  <2> QED
    BY <1>0, <1>1, <2>1, <2>2, <2>3 DEF Send
<1>3. CASE ShutDown(t)
  <2>1. [op |-> "shutDown", m |-> None] \in Functor
    BY Zenon DEF Functor, FunctorOps, CallNames
  <2> QED
    BY <1>0, <1>1, <1>3, <2>1, Zenon DEF ShutDown, States
<1>4. CASE ForceClose(t)
  <2>1. [op |-> "forceClose", m |-> None] \in Functor
    BY DEF Functor, FunctorOps, CallNames
  <2> QED
    BY <1>0, <1>1, <1>4, <2>1, Zenon DEF ForceClose
<1>5. CASE StartOrStopRead(t)
  <2>1. /\ [op |-> "startRead", m |-> None] \in Functor
        /\ [op |-> "stopRead", m |-> None] \in Functor
    BY DEF Functor, FunctorOps, CallNames
  <2> QED
    BY <1>0, <1>1, <1>5, <2>1 DEF StartOrStopRead
<1>6. CASE Queue(t)
  <2>0. /\ queue \in Seq(Functor) /\ pc \in [Threads -> Functor \cup {None}]
        /\ pc[t] # None /\ queue' = Append(queue, pc[t]) /\ pc' = [pc EXCEPT ![t] = None]
        /\ UNCHANGED <<state, isReading, outVars, pollVars, lpc, revents, batch, sockVars, user, used,
                       closeVars, failed>>
    BY <1>6, TypeParts DEF Queue, FrameType, loopVars
  <2>1. pc[t] \in Functor /\ pc' \in [Threads -> Functor \cup {None}]
    BY <2>0
  <2>2. queue' \in Seq(Functor)
    BY <2>0, <2>1
  <2>3. FrameType'
    BY <2>0, <2>1, <2>2, TypeParts DEF FrameType
  <2> QED
    BY <2>0, <2>3, PartsKept, PartsType
<1> QED
  BY <1>2, <1>3, <1>4, <1>5, <1>6 DEF ThreadStep

(* Type correctness: every step keeps the types. *)
LEMMA NextType == TypeOK /\ [Next]_vars => TypeOK'
<1> SUFFICES ASSUME TypeOK, [Next]_vars PROVE TypeOK'
  OBVIOUS
<1>1. CASE UNCHANGED vars
  <2>1. UNCHANGED <<user, state, isReading, outVars, pollVars, lpc, revents, batch, sockVars, queue, pc,
                    used, closeVars, failed>>
    BY <1>1 DEF vars, loopVars
  <2>2. UNCHANGED handleFrame
    BY <2>1 DEF handleFrame
  <2> QED
    BY <2>1, <2>2, PartsKept, PartsType
<1>2. CASE LoopStep \/ PollOther
  BY <1>2, HandlerType, FunctorsType DEF LoopStep, PollReady, PollOther
<1>3. CASE UserStep
  BY <1>3, UserType DEF UserStep
<1>4. CASE RemoveConnectionInLoop
  <2>0. /\ UNCHANGED <<state, isReading, outVars, pollVars, lpc, revents, batch, sockVars, pc, user, used,
                       closes, failed>>
        /\ queue' = Append(queue, [op |-> "destroy", m |-> None])
        /\ removes > 0 /\ removes' = removes - 1
    BY <1>4 DEF RemoveConnectionInLoop, loopVars
  <2>1. [op |-> "destroy", m |-> None] \in Functor
    BY DEF Functor, FunctorOps, CallNames
  <2>2. queue' \in Seq(Functor)
    BY <2>0, <2>1, Types
  <2>3. FrameType'
    BY <2>0, <2>2, TypeParts DEF FrameType
  <2>4. CountType'
    BY <2>0, TypeParts DEF CountType
  <2> QED
    BY <2>0, <2>3, <2>4, PartsKept, PartsType
<1>5. CASE PeerStep
  <2>1. /\ UNCHANGED <<state, isReading, outVars, pollVars, lpc, revents, batch, queue, pc, user, used,
                       closeVars, failed, wrShut>>
        /\ \/ room < SockCap /\ room' = room + 1 /\ UNCHANGED <<inData, fin, reset, sockErr>>
           \/ inData' = TRUE /\ UNCHANGED <<room, fin, reset, sockErr>>
           \/ fin' = TRUE /\ UNCHANGED <<room, inData, reset, sockErr>>
           \/ reset' = TRUE /\ sockErr' = TRUE /\ UNCHANGED <<room, inData, fin>>
    BY <1>5 DEF PeerStep, PeerReads, PeerSends, PeerCloses, PeerResets, environmentFrame, loopVars
  <2>2. room' \in 0..SockCap
    <3>1. room \in 0..SockCap /\ SockCap \in Nat
      BY ConnectionAssumption, Types
    <3>2. room' = room \/ (room < SockCap /\ room' = room + 1)
      BY <2>1
    <3> QED
      BY <3>1, <3>2
  <2>3. SockType'
    BY <2>1, <2>2, TypeParts, Zenon DEF SockType
  <2>4. UNCHANGED handleFrame
    BY <2>1 DEF handleFrame
  <2> QED
    BY <2>1, <2>3, <2>4, PartsKept, PartsType
<1>6. CASE \E t \in Threads : ThreadStep(t)
  BY <1>6, ThreadType
<1> QED
  BY <1>1, <1>2, <1>3, <1>4, <1>5, <1>6 DEF Next

-----------------------------------------------------------------------------
(* The life of the connection. *)

(* The invariant holds in a connection that was just made. *)
LEMMA InitConnInv == Init => ConnInv
<1> SUFFICES ASSUME Init PROVE ConnInv
  OBVIOUS
<1>1. TypeOK
  <2>1. Establish \in Functor
    BY DEF Establish, Functor, FunctorOps, CallNames
  <2>2. queue \in Seq(Functor)
    BY <2>1 DEF Init, Establish
  <2>3. room \in 0..SockCap /\ used \in 0..MaxMsgs /\ batch \in Seq(Functor)
    BY ConnectionAssumption DEF Init
  <2>4. /\ outBuf \in Seq(Byte) /\ high \in Seq(Seq(Byte) \ {<<>>}) /\ wire \in Seq(Byte)
        /\ accepted \in Seq(Msgs) /\ pc \in [Threads -> Functor \cup {None}]
    BY DEF Init
  <2>5. /\ events \in SUBSET {"read", "write"} /\ revents \in SUBSET {"IN", "OUT", "HUP", "ERR"}
        /\ failed \in SUBSET {"HandleClose", "Remove"}
    BY DEF Init
  <2> QED
    BY <2>2, <2>3, <2>4, <2>5, Zenon DEF Init, TypeOK, States, LoopPositions
<1>2. Rounds /\ OwnFunctors /\ Life /\ NoLateClose
  BY DEF Init, Rounds, OwnFunctors, Life, NotYetUp, Alive, Establish, NoLateClose
<1> QED
  BY <1>1, <1>2 DEF ConnInv

(* An update of a channel on which poller and epoll agree leaves it so. *)
LEMMA UpdateAgrees ==
    ASSUME TypeOK, Agrees, NEW e, UpdateChannel(e)
    PROVE  Agrees' /\ events' = e /\ (e # {} => index' = "kAdded")
BY Types, Zenon DEF Agrees, UpdateChannel

(* Queueing a functor of another kind adds none of this kind. *)
LEMMA NoneAppended ==
    ASSUME NEW s \in Seq(Functor), NEW f \in Functor, NEW op, NoneIs(op, s), f.op # op
    PROVE  NoneIs(op, Append(s, f))
BY DEF NoneIs

(* Running a functor adds none. *)
LEMMA NoneInTail ==
    ASSUME NEW s \in Seq(Functor), s # <<>>, NEW op, NoneIs(op, s)
    PROVE  NoneIs(op, Tail(s)) /\ Head(s).op # op
BY DEF NoneIs

(* When at most one "destroy" waits, none is left once it runs. *)
LEMMA SingleInTail ==
    ASSUME NEW s \in Seq(Functor), s # <<>>, Single(s)
    PROVE  Single(Tail(s)) /\ (Head(s).op = "destroy" => NoneIs("destroy", Tail(s)))
BY DEF Single, NoneIs

(* A "destroy" that is queued when none waits is the only one. *)
LEMMA SingleAppended ==
    ASSUME NEW s \in Seq(Functor), NEW f \in Functor, Single(s),
           f.op = "destroy" => NoneIs("destroy", s)
    PROVE  Single(Append(s, f))
BY DEF Single, NoneIs

(* Bytes that are appended to the output buffer are watched. *)
LEMMA PutOutUp ==
    ASSUME TypeOK, Agrees, events # {} => index = "kAdded", NEW bytes \in Seq(Byte), bytes # <<>>,
           PutOut(bytes)
    PROVE  /\ Agrees' /\ (events' # {} => index' = "kAdded")
           /\ outBuf' # <<>> /\ IsWritting'
<1>1. outBuf' # <<>>
  <2>1. outBuf \in Seq(Byte) /\ outBuf' = outBuf \o bytes
    BY Types DEF PutOut
  <2>2. Len(outBuf') = Len(outBuf) + Len(bytes)
    BY <2>1
  <2>3. Len(bytes) > 0 /\ Len(outBuf) >= 0
    BY <2>1
  <2> QED
    BY <2>2, <2>3
<1>2. CASE UpdateChannel(events \cup {"write"})
  BY <1>1, <1>2, UpdateAgrees DEF IsWritting
<1>3. CASE IsWritting /\ UNCHANGED pollVars
  BY <1>1, <1>3 DEF pollVars, IsWritting, Agrees
<1> QED
  BY <1>2, <1>3 DEF PutOut

(* In a connection that is up, buffering bytes makes the channel watch for   *)
(* POLLOUT and epoll agrees.                                                 *)
LEMMA BufferUp ==
    ASSUME TypeOK, Up, NEW bytes \in Seq(Byte), bytes # <<>>, NEW n, Buffer(bytes, n)
    PROVE  Agrees' /\ (events' # {} => index' = "kAdded") /\ (outBuf' # <<>> <=> IsWritting')
<1>1. CASE PutOut(bytes)
  BY <1>1, PutOutUp DEF Up
<1>2. CASE UNCHANGED <<outBuf, pollVars>>
  BY <1>2 DEF Up, Agrees, pollVars, IsWritting
<1> QED
  BY <1>1, <1>2 DEF Buffer

(* SendInLoop leaves the channel watching for POLLOUT exactly when bytes     *)
(* wait.                                                                     *)
LEMMA SendUp ==
    ASSUME TypeOK, Up, NEW m \in Msgs, SendInLoop(m) \/ SendBufferInLoop(m)
    PROVE  Agrees' /\ (events' # {} => index' = "kAdded") /\ (outBuf' # <<>> <=> IsWritting')
<1>a. MsgLen \in Nat /\ MsgLen > 0
  BY ConnectionAssumption
<1>b. Bytes(m, 1, MsgLen) \in Seq(Byte) /\ Bytes(m, 1, MsgLen) # <<>>
  BY <1>a, BytesType
<1>1. CASE SendInLoop(m) /\ ~IsWritting /\ outBuf = <<>>
  <2>1. PICK w \in Written(MsgLen) :
                IF w = MsgLen THEN UNCHANGED <<outBuf, high, pollVars>>
                              ELSE Buffer(Bytes(m, w + 1, MsgLen), MsgLen - w)
    BY <1>1 DEF SendInLoop
  <2>2. w \in Nat
    BY <1>a, <2>1, WrittenType
  <2>3. Bytes(m, w + 1, MsgLen) \in Seq(Byte) /\ Bytes(m, w + 1, MsgLen) # <<>>
    BY <1>a, <2>2, BytesType
  <2>4. CASE w = MsgLen
    BY <2>1, <2>4 DEF Up, Agrees, pollVars, IsWritting
  <2>5. CASE w # MsgLen
    BY <2>1, <2>3, <2>5, BufferUp
  <2> QED
    BY <2>4, <2>5
<1>2. CASE Buffer(Bytes(m, 1, MsgLen), MsgLen)
  BY <1>b, <1>2, BufferUp
<1> QED
  BY <1>1, <1>2, Zenon DEF SendInLoop, SendBufferInLoop

(* HandleClose, in an event or in a call, leaves a channel that waits for    *)
(* nothing.                                                                  *)
LEMMA CloseLife ==
    ASSUME ConnInv, state # "kConnecting", HandleClose, UNCHANGED <<user, high, queue>>,
           NoneIs("destroy", batch) => NoneIs("destroy", batch'),
           CloseIsQueued => /\ inMap /\ high = <<>>
                            /\ state = "kDisConnected" => index = "kAdded"
    PROVE  state' = "kDisConnected" /\ (inMap => inMap') /\ Life'
<1> USE ConnParts
<1>1. /\ state' = "kDisConnected" /\ (inMap => inMap') /\ UpdateChannel({}) /\ events' = {}
      /\ removes' = removes + 1
  BY Types DEF HandleClose, UpdateChannel
<1>2. CASE CloseIsQueued
  <2>1. Agrees /\ (Alive => NonePending)
    BY <1>2, Types DEF Life, Alive, Up, Down, States
  <2>2. Agrees'
    BY <1>1, <2>1, UpdateAgrees
  <2>3. Alive => OnePending'
    BY <1>1, <2>1 DEF NonePending, OnePending, NoneIs, Single
  <2>4. ~Alive => index' = "kDeleted"
    BY <1>1, <1>2, Types, Zenon DEF UpdateChannel, Alive, States
  <2> QED
    BY <1>1, <1>2, <2>2, <2>3, <2>4 DEF Life, Down, Alive, Agrees
<1>3. CASE ~CloseIsQueued
  BY <1>1, <1>3 DEF Life, Alive, CloseIsQueued
<1> QED
  BY <1>2, <1>3

(* What a user's call does in the loop thread, in a callback or as a functor.*)
LEMMA CallLife ==
    ASSUME ConnInv, state # "kConnecting",
           \/ ForceCloseInLoop /\ (CloseIsQueued => high = <<>>)
           \/ StartReadInLoop \/ StopReadInLoop \/ ShutDownOwn,
           UNCHANGED <<user, outBuf, high, queue>>,
           \/ batch' = batch
           \/ \E op : NextFunctor(op) /\ op # "destroy" /\ op # "establish"
    PROVE  /\ state' # "kConnecting" /\ (inMap => inMap') /\ Life'
           /\ state = "kDisConnected" => index' = index
<1> USE ConnParts
<1>a. state \in States /\ (Alive => Up)
  BY Types DEF Life
<1>b. /\ NoneIs("destroy", batch) => NoneIs("destroy", batch')
      /\ Single(batch) => Single(batch')
  <2>1. CASE \E op : NextFunctor(op)
    <3>1. batch' = Tail(batch) /\ batch # <<>> /\ batch \in Seq(Functor)
      BY <2>1, Types DEF NextFunctor
    <3> QED
      BY <3>1, NoneInTail, SingleInTail
  <2> QED
    BY <2>1
<1>1. CASE ForceCloseInLoop /\ (CloseIsQueued => high = <<>>) /\ Alive
  <2>1. HandleClose /\ inMap /\ state # "kDisConnected"
    BY <1>1, <1>a DEF ForceCloseInLoop, Up, Agrees, Alive
  <2> QED
    BY <1>1, <1>b, <2>1, CloseLife
<1>u. ASSUME UNCHANGED <<state, pollVars, removes>>
      PROVE  /\ state' # "kConnecting" /\ (inMap => inMap') /\ Life'
             /\ state = "kDisConnected" => index' = index
  <2>1. (NonePending => NonePending') /\ (OnePending => OnePending')
    BY <1>b, <1>u DEF NonePending, OnePending
  <2> QED
    BY <1>u, <2>1 DEF Life, Alive, Up, Agrees, Down, pollVars, IsWritting, CloseIsQueued
<1>2. CASE ForceCloseInLoop /\ ~Alive
  BY <1>2, <1>u DEF ForceCloseInLoop, closeVars
<1>e. ASSUME NEW e, UpdateChannel(e), e \in {events \cup {"read"}, events \ {"read"}}, Alive,
             UNCHANGED <<state, removes>>
      PROVE  /\ state' # "kConnecting" /\ (inMap => inMap') /\ Life'
             /\ state = "kDisConnected" => index' = index
  <2>1. Up
    BY <1>a, <1>e
  <2>2. Agrees' /\ events' = e /\ (e # {} => index' = "kAdded")
    BY <1>e, <2>1, UpdateAgrees DEF Up
  <2>3. IsWritting' <=> IsWritting
    BY <1>e, <2>2 DEF IsWritting
  <2>4. Up'
    BY <1>b, <1>e, <2>1, <2>2, <2>3 DEF Up, NonePending
  <2> QED
    BY <1>e, <2>2, <2>4 DEF Life, Alive, Agrees
<1>3. CASE StartReadInLoop
  BY <1>3, <1>u, <1>e DEF StartReadInLoop, closeVars
<1>4. CASE StopReadInLoop
  BY <1>3, <1>4, <1>a, <1>u, <1>e DEF StopReadInLoop, closeVars, States, Alive
<1>5. CASE ShutDownOwn /\ state = "kConnected"
  <2>1. state' = "kDisConnecting" /\ UNCHANGED <<pollVars, removes>>
    BY <1>5 DEF ShutDownOwn, closeVars
  <2>2. Up
    BY <1>5, <1>a DEF Alive
  <2>3. Up'
    BY <1>b, <2>1, <2>2 DEF Up, Agrees, NonePending, pollVars, IsWritting
  <2> QED
    BY <1>5, <2>1, <2>3 DEF Life, Alive, Up, Agrees
<1>6. CASE ShutDownOwn /\ state # "kConnected"
  BY <1>6, <1>u DEF ShutDownOwn, closeVars
<1> QED
  BY <1>1, <1>2, <1>3, <1>4, <1>5, <1>6

Kept == Rounds' /\ OwnFunctors' /\ Life' /\ (CloseIsQueued => NoLateClose)'

(* A step that leaves the connection, its channel and its output alone. *)
LEMMA OthersKept ==
    ASSUME ConnInv, UNCHANGED <<user, state, pollVars, outBuf, high, removes, queue, batch, pc>>,
           Rounds', CloseIsQueued => NoLateClose'
    PROVE  Kept
<1> USE ConnParts DEF pollVars
<1>1. OwnFunctors'
  BY DEF OwnFunctors, NoneIs
<1>2. Life'
  BY DEF Life, NotYetUp, Alive, Up, Agrees, Down, IsWritting, CloseIsQueued, NoneIs, NonePending,
     OnePending, Single
<1> QED
  BY <1>1, <1>2 DEF Kept, CloseIsQueued

(* The steps that handle events. *)
LEMMA HandlersKeep ==
    ASSUME ConnInv, Broken => Broken',
           \/ Poll \/ HandleEvent \/ HandleRead \/ MessageReturns \/ HandleWrite
           \/ CompleteReturns \/ HandleHup \/ SwapFunctors
    PROVE  Kept
<1> USE ConnParts
<1>1. CASE Poll
  <2>1. /\ Ready # {} => inEpoll
        /\ "IN" \in Ready => events # {}
        /\ "HUP" \in Ready => Broken
    BY Zenon DEF Ready, Broken
  <2>2. inEpoll => state # "kConnecting" /\ (CloseIsQueued => Agrees)
    BY Types DEF Life, NotYetUp, Alive, Up, Agrees, Down, States
  <2>3. state = "kDisConnected" /\ CloseIsQueued => events = {}
    BY DEF Life, Down
  <2>4. /\ lpc = "poll" /\ lpc' = "handle" /\ revents' = Ready
        /\ UNCHANGED <<state, outVars, pollVars, closeVars, handleFrame>>
    BY <1>1 DEF Poll
  <2>5. Rounds'
    BY <2>1, <2>2, <2>4 DEF Rounds, InCallback, outVars, handleFrame
  <2>6. CloseIsQueued => NoLateClose'
    BY <2>1, <2>2, <2>3, <2>4 DEF NoLateClose, Agrees, pollVars
  <2> QED
    BY <2>4, <2>5, <2>6, OthersKept DEF outVars, closeVars, handleFrame
<1>2. CASE HandleEvent
  <2>1. /\ lpc = "handle" /\ lpc' = "read" /\ revents # {} /\ high = <<>>
        /\ UNCHANGED <<state, outVars, pollVars, revents, closeVars, handleFrame>>
    BY <1>2 DEF HandleEvent
  <2>2. Rounds'
    BY <2>1 DEF Rounds, InCallback, outVars, handleFrame
  <2>3. CloseIsQueued => NoLateClose'
    BY <2>1 DEF NoLateClose, pollVars
  <2> QED
    BY <2>1, <2>2, <2>3, OthersKept DEF outVars, closeVars, handleFrame
<1>3. CASE HandleRead
  <2>1. /\ lpc = "read" /\ UNCHANGED <<outVars, revents, handleFrame>>
        /\ lpc' = "write" \/ (lpc' = "message" /\ "IN" \in revents)
        /\ \/ HandleClose /\ "IN" \in revents
           \/ UNCHANGED <<state, pollVars, closeVars, failed>>
    BY <1>3 DEF HandleRead
  <2>2. /\ revents # {} /\ state # "kConnecting" /\ high = <<>>
        /\ CloseIsQueued => inMap
        /\ CloseIsQueued /\ "IN" \in revents => state # "kDisConnected"
    BY <2>1 DEF Rounds, InCallback, NoLateClose
  <2>3. CASE HandleClose /\ "IN" \in revents
    <3>1. state' = "kDisConnected" /\ (inMap => inMap') /\ Life'
      BY <2>1, <2>2, <2>3, CloseLife DEF outVars, handleFrame
    <3>2. Rounds'
      BY <2>1, <2>2, <3>1 DEF Rounds, InCallback, outVars, handleFrame
    <3>3. OwnFunctors'
      BY <2>1, <2>2, <3>1 DEF OwnFunctors, NoneIs, handleFrame
    <3>4. CloseIsQueued => NoLateClose'
      BY <2>1, <2>2, <2>3, <3>1 DEF NoLateClose
    <3> QED
      BY <2>1, <3>1, <3>2, <3>3, <3>4 DEF Kept, CloseIsQueued, handleFrame
  <2>4. CASE UNCHANGED <<state, pollVars, closeVars, failed>>
    <3>1. Rounds'
      BY <2>1, <2>2, <2>4 DEF Rounds, InCallback, outVars, pollVars, handleFrame
    <3>2. CloseIsQueued => NoLateClose'
      BY <2>1, <2>2, <2>4 DEF NoLateClose, pollVars
    <3> QED
      BY <2>1, <2>4, <3>1, <3>2, OthersKept DEF outVars, closeVars, handleFrame
  <2> QED
    BY <2>1, <2>3, <2>4
<1>4. CASE MessageReturns
  <2>1. /\ lpc = "message" /\ lpc' = "write" /\ high = <<>>
        /\ UNCHANGED <<state, outVars, pollVars, revents, closeVars, handleFrame>>
    BY <1>4 DEF MessageReturns
  <2>2. Rounds'
    BY <2>1 DEF Rounds, InCallback, outVars, handleFrame
  <2>3. CloseIsQueued => NoLateClose'
    BY <2>1 DEF NoLateClose, pollVars
  <2> QED
    BY <2>1, <2>2, <2>3, OthersKept DEF outVars, closeVars, handleFrame
<1>5. CASE HandleWrite
  <2>1. /\ lpc = "write" /\ UNCHANGED <<state, high, revents, closeVars, handleFrame>>
        /\ \/ lpc' = "hup" /\ UNCHANGED <<outBuf, pollVars>>
           \/ /\ IsWritting
              /\ \E w \in Written(Len(outBuf)) :
                   /\ outBuf' = SubSeq(outBuf, w + 1, Len(outBuf))
                   /\ IF w = Len(outBuf)
                        THEN UpdateChannel(events \ {"write"}) /\ lpc' = "complete"
                        ELSE UNCHANGED pollVars /\ lpc' = "hup"
    BY <1>5, Zenon DEF HandleWrite
  <2>2. /\ revents # {} /\ state # "kConnecting" /\ high = <<>>
        /\ CloseIsQueued => inMap
    BY <2>1 DEF Rounds, InCallback, NoLateClose
  <2>a. ASSUME lpc' \in {"complete", "hup"}
        PROVE  Rounds' /\ OwnFunctors'
    BY <2>1, <2>2, <2>a DEF Rounds, InCallback, OwnFunctors, NoneIs, handleFrame
  <2>3. CASE lpc' = "hup" /\ UNCHANGED <<outBuf, pollVars>>
    <3>1. CloseIsQueued => NoLateClose'
      BY <2>1, <2>3 DEF NoLateClose, pollVars
    <3> QED
      BY <2>1, <2>a, <2>3, <3>1, OthersKept DEF closeVars, handleFrame
  <2>4. ASSUME IsWritting, NEW w \in Written(Len(outBuf)),
               outBuf' = SubSeq(outBuf, w + 1, Len(outBuf)),
               IF w = Len(outBuf)
                 THEN UpdateChannel(events \ {"write"}) /\ lpc' = "complete"
                 ELSE UNCHANGED pollVars /\ lpc' = "hup"
        PROVE  Kept
    <3>1. Len(outBuf) \in Nat /\ outBuf \in Seq(Byte)
      BY Types
    <3>2. w \in Nat /\ w <= Len(outBuf) /\ (Broken => w = 0)
      BY <2>4, <3>1, WrittenType DEF Written
    <3>3. outBuf' = <<>> <=> w = Len(outBuf)
      <4>1. /\ outBuf' \in Seq(Byte)
            /\ Len(outBuf') = IF w + 1 <= Len(outBuf) THEN Len(outBuf) - (w + 1) + 1 ELSE 0
        BY <2>4, <3>1, <3>2
      <4> QED
        BY <3>1, <3>2, <4>1
    <3>4. inMap => inMap'
      BY <2>4, Types, Zenon DEF UpdateChannel, pollVars
    <3>5. state = "kDisConnected" => ~CloseIsQueued
      BY <2>4 DEF Life, Down, IsWritting
    <3>6. ASSUME Alive PROVE Up' /\ (Broken => w # Len(outBuf))
      <4>1. Up
        BY <3>6 DEF Life
      <4>2. Broken => w # Len(outBuf)
        BY <2>4, <3>1, <3>2, <4>1 DEF Up
      <4>3. NonePending'
        BY <2>1, <4>1 DEF Up, NonePending, NoneIs, closeVars, handleFrame
      <4>4. CASE w = Len(outBuf)
        <5>1. Agrees' /\ events' = events \ {"write"} /\ (events' # {} => index' = "kAdded")
          BY <2>4, <4>1, <4>4, UpdateAgrees DEF Up
        <5> QED
          BY <3>3, <4>2, <4>3, <4>4, <5>1 DEF Up, IsWritting
      <4>5. CASE w # Len(outBuf)
        BY <2>4, <3>3, <4>1, <4>2, <4>3, <4>5, Zenon DEF Up, Agrees, IsWritting, pollVars
      <4> QED
        BY <4>4, <4>5
    <3>7. Life'
      BY <2>1, <2>2, <3>5, <3>6 DEF Life, Alive, CloseIsQueued, handleFrame
    <3>8. CloseIsQueued => NoLateClose'
      <4> SUFFICES ASSUME CloseIsQueued PROVE NoLateClose'
        OBVIOUS
      <4>1. Alive /\ inMap'
        BY <2>2, <3>4, <3>5, Types DEF Alive, States
      <4>2. lpc' = "complete" => "HUP" \notin revents'
        BY <2>1, <2>4, <3>6, <4>1 DEF Rounds
      <4> QED
        BY <2>1, <2>4, <4>1, <4>2 DEF NoLateClose, Alive
    <3> QED
      BY <2>1, <2>4, <2>a, <3>7, <3>8 DEF Kept, CloseIsQueued, handleFrame
  <2> QED
    BY <2>1, <2>3, <2>4, Zenon
<1>6. CASE CompleteReturns
  <2>1. /\ lpc = "complete" /\ lpc' = "hup" /\ high = <<>>
        /\ UNCHANGED <<state, outVars, pollVars, revents, closeVars, handleFrame>>
    BY <1>6 DEF CompleteReturns
  <2>2. Rounds'
    BY <2>1 DEF Rounds, InCallback, outVars, handleFrame
  <2>3. CloseIsQueued => NoLateClose'
    BY <2>1 DEF NoLateClose, pollVars
  <2> QED
    BY <2>1, <2>2, <2>3, OthersKept DEF outVars, closeVars, handleFrame
<1>7. CASE HandleHup
  <2>1. /\ lpc = "hup" /\ lpc' = "handle" /\ revents' = {} /\ UNCHANGED <<outVars, handleFrame>>
        /\ \/ HandleClose /\ "HUP" \in revents /\ "IN" \notin revents
           \/ UNCHANGED <<state, pollVars, closeVars, failed>>
    BY <1>7 DEF HandleHup
  <2>2. /\ state # "kConnecting" /\ high = <<>> /\ batch = <<>>
        /\ CloseIsQueued => inMap
        /\ CloseIsQueued /\ "HUP" \in revents /\ "IN" \notin revents /\ state = "kDisConnected"
             => index = "kAdded"
    BY <2>1 DEF Rounds, InCallback, NoLateClose
  <2>3. Rounds'
    BY <2>1, <2>2 DEF Rounds, InCallback, outVars, handleFrame
  <2>4. NoLateClose'
    BY <2>1 DEF NoLateClose
  <2>5. CASE HandleClose /\ "HUP" \in revents /\ "IN" \notin revents
    <3>1. state' = "kDisConnected" /\ Life'
      BY <2>1, <2>2, <2>5, CloseLife DEF outVars, handleFrame
    <3>2. OwnFunctors'
      BY <2>1, <2>2, <3>1 DEF OwnFunctors, NoneIs, handleFrame
    <3> QED
      BY <2>3, <2>4, <3>1, <3>2 DEF Kept
  <2>6. CASE UNCHANGED <<state, pollVars, closeVars, failed>>
    BY <2>1, <2>3, <2>4, <2>6, OthersKept DEF outVars, closeVars, handleFrame
  <2> QED
    BY <2>1, <2>5, <2>6
<1>8. CASE SwapFunctors
  <2>0. /\ lpc = "handle" /\ lpc' = "functors" /\ batch' = queue /\ queue' = <<>>
        /\ revents = {} /\ batch = <<>> /\ high = <<>>
        /\ UNCHANGED <<state, outVars, pollVars, revents, closeVars, pc, user>>
    BY <1>8 DEF SwapFunctors, Rounds
  <2> USE <2>0 DEF outVars, pollVars, closeVars
  <2>1. Rounds' /\ NoLateClose'
    BY DEF Rounds, InCallback, NoLateClose
  <2>2. OwnFunctors'
    BY DEF OwnFunctors, NoneIs
  <2>3. state = "kConnecting" => NotYetUp'
    BY DEF Life, NotYetUp
  <2>4. (NonePending => NonePending') /\ (OnePending => OnePending')
    BY DEF NonePending, OnePending, NoneIs, Single
  <2>5. Alive => Up'
    BY <2>4 DEF Life, Up, Agrees, IsWritting
  <2>6. state = "kDisConnected" /\ CloseIsQueued => Down'
    BY <2>4 DEF Life, Down, Agrees
  <2> QED
    BY <2>1, <2>2, <2>3, <2>5, <2>6 DEF Kept, Life, Alive, CloseIsQueued
<1> QED
  BY <1>1, <1>2, <1>3, <1>4, <1>5, <1>6, <1>7, <1>8

(* A functor leaves the batch. *)
LEMMA TailKeeps ==
    ASSUME ConnInv, NEW op, NextFunctor(op)
    PROVE  /\ lpc = "functors" /\ high = <<>> /\ revents = {}
           /\ UNCHANGED <<revents, queue, pc, user, used>>
           /\ \A o : NoneIs(o, batch) => NoneIs(o, batch') /\ op # o
           /\ Single(batch) => Single(batch') /\ (op = "destroy" => NoneIs("destroy", batch'))
           /\ state = "kConnecting" => op = "establish" /\ batch' = <<>> /\ queue = <<>>
<1> USE ConnParts
<1>1. /\ batch \in Seq(Functor) /\ batch' = Tail(batch) /\ batch # <<>> /\ Head(batch).op = op
      /\ lpc = "functors" /\ high = <<>> /\ UNCHANGED <<revents, queue, pc, user, used>>
  BY Types DEF NextFunctor
<1>2. ASSUME state = "kConnecting"
      PROVE  op = "establish" /\ batch' = <<>> /\ queue = <<>>
  <2>1. batch = <<Establish>> /\ queue = <<>>
    BY <1>1, <1>2 DEF Life, NotYetUp
  <2> QED
    BY <1>1, <2>1 DEF Establish
<1>3. ASSUME NEW o, NoneIs(o, batch) PROVE NoneIs(o, batch') /\ op # o
  BY <1>1, <1>3, NoneInTail
<1>4. Single(batch) => Single(batch') /\ (op = "destroy" => NoneIs("destroy", batch'))
  BY <1>1, SingleInTail
<1> QED
  BY <1>1, <1>2, <1>3, <1>4 DEF Rounds

(* The functors of the loop. *)
LEMMA FunctorsKeep ==
    ASSUME ConnInv, Broken => Broken',
           \/ EstablishConnection \/ UpReturns \/ RunSend \/ RunShutDown \/ RunCall
           \/ DestroyConnection \/ FunctorsDone \/ HighWaterReturns
    PROVE  Kept
<1> USE ConnParts
<1>a. ASSUME NEW op, NextFunctor(op), state' # "kConnecting" => state # "kConnecting",
             lpc' = lpc, Life'
      PROVE  Kept
  <2>1. /\ lpc = "functors" /\ high = <<>> /\ revents = {} /\ UNCHANGED <<revents, queue, pc, user>>
        /\ NoneIs("establish", batch) => NoneIs("establish", batch')
    BY <1>a, TailKeeps
  <2>2. Rounds' /\ NoLateClose'
    BY <1>a, <2>1 DEF Rounds, InCallback, NoLateClose
  <2>3. OwnFunctors'
    BY <1>a, <2>1 DEF OwnFunctors, NoneIs
  <2> QED
    BY <1>a, <2>2, <2>3 DEF Kept
<1>p. ASSUME NEW op, NextFunctor(op), removes' = removes
      PROVE  /\ NonePending => NonePending'
             /\ OnePending => OnePending' /\ (op = "destroy" => NonePending')
  <2>1. /\ queue' = queue /\ (Single(batch) => Single(batch'))
        /\ NoneIs("destroy", batch) => NoneIs("destroy", batch') /\ op # "destroy"
        /\ Single(batch) /\ op = "destroy" => NoneIs("destroy", batch')
    BY <1>p, TailKeeps
  <2>2. NonePending => NonePending'
    BY <1>p, <2>1 DEF NonePending
  <2>3. OnePending => OnePending'
    BY <1>p, <2>1 DEF OnePending
  <2>4. OnePending /\ op = "destroy" => NonePending'
    <3>1. removes \in Nat
      BY Types
    <3>2. OnePending /\ op = "destroy" => removes = 0 /\ NoneIs("destroy", queue)
      BY <2>1, <3>1 DEF OnePending
    <3> QED
      BY <1>p, <2>1, <3>2 DEF NonePending, OnePending
  <2> QED
    BY <2>2, <2>3, <2>4
<1>1. CASE EstablishConnection
  <2>1. /\ lpc = "functors" /\ high = <<>> /\ revents = {} /\ UNCHANGED <<revents, queue, pc, user>>
        /\ state' = "kConnected" /\ lpc' = "up" /\ UNCHANGED <<outVars, closeVars>>
        /\ UpdateChannel(events \cup {"read"})
    BY <1>1, TailKeeps DEF EstablishConnection
  <2>2. state = "kConnecting" /\ queue = <<>> /\ batch' = <<>>
    <3>1. ~NoneIs("establish", batch)
      BY <1>1, TailKeeps DEF EstablishConnection
    <3>2. state = "kConnecting"
      BY <3>1 DEF OwnFunctors
    <3> QED
      BY <1>1, <3>2, TailKeeps DEF EstablishConnection
  <2>3. NotYetUp
    BY <2>2 DEF Life
  <2>4. Agrees' /\ events' = {"read"} /\ index' = "kAdded"
    BY <2>1, <2>3, Zenon DEF NotYetUp, UpdateChannel, Agrees
  <2>5. Up'
    BY <2>1, <2>2, <2>3, <2>4 DEF Up, NotYetUp, NonePending, NoneIs, IsWritting, outVars, closeVars
  <2>6. Rounds' /\ OwnFunctors' /\ NoLateClose'
    <3>1. Rounds'
      BY <2>1, <2>2 DEF Rounds, InCallback, outVars
    <3>2. NoneIs("establish", queue') /\ NoneIs("establish", batch')
      BY <2>1, <2>2 DEF NoneIs
    <3>3. OwnFunctors'
      BY <2>1, <3>2 DEF OwnFunctors
    <3>4. NoLateClose'
      BY <2>1 DEF NoLateClose
    <3> QED
      BY <3>1, <3>3, <3>4
  <2> QED
    BY <2>1, <2>5, <2>6 DEF Kept, Life, Alive
<1>2. CASE UpReturns
  <2>1. /\ lpc = "up" /\ lpc' = "functors" /\ high = <<>> /\ revents = {}
        /\ UNCHANGED <<state, outVars, pollVars, revents, closeVars, handleFrame>>
    BY <1>2 DEF UpReturns, Rounds
  <2>2. Rounds' /\ NoLateClose'
    BY <2>1 DEF Rounds, InCallback, NoLateClose, outVars, handleFrame
  <2> QED
    BY <2>1, <2>2, OthersKept DEF outVars, closeVars, handleFrame
<1>3. CASE RunSend
  <2>1. /\ state # "kConnecting" /\ high = <<>> /\ UNCHANGED <<user, state, lpc, closeVars>>
    <3>1. NextFunctor("send") /\ UNCHANGED <<state, lpc, closeVars>>
      BY <1>3 DEF RunSend
    <3>2. high = <<>> /\ user' = user /\ (state = "kConnecting" => "send" = "establish")
      BY <3>1, TailKeeps
    <3> QED
      BY <3>1, <3>2
  <2>2. Head(batch).m \in Msgs
    BY <1>3, FunctorType DEF RunSend
  <2>3. (NonePending => NonePending') /\ (OnePending => OnePending')
    BY <1>3, <1>p, <2>1 DEF RunSend, closeVars
  <2>4. CASE state = "kDisConnected"
    <3>1. UNCHANGED <<outVars, pollVars>>
      BY <1>3, <2>4 DEF RunSend
    <3>2. Life'
      BY <2>1, <2>3, <2>4, <3>1 DEF Life, Alive, Down, Agrees, CloseIsQueued, outVars, pollVars
    <3> QED
      BY <1>3, <1>a, <2>1, <3>2 DEF RunSend
  <2>5. CASE state # "kDisConnected"
    <3>1. SendInLoop(Head(batch).m) /\ Alive /\ Up
      BY <1>3, <2>1, <2>5, Types DEF RunSend, States, Alive, Life
    <3>2. Agrees' /\ (events' # {} => index' = "kAdded") /\ (outBuf' # <<>> <=> IsWritting')
      BY <2>1, <2>2, <3>1, SendUp
    <3>3. Up'
      BY <2>3, <3>1, <3>2 DEF Up
    <3>4. Life'
      BY <2>1, <2>5, <3>3 DEF Life
    <3> QED
      BY <1>3, <1>a, <2>1, <3>4, Zenon DEF RunSend
  <2> QED
    BY <2>4, <2>5
<1>4. CASE RunShutDown
  <2>1. NextFunctor("shutDown") /\ UNCHANGED <<lpc, outVars, pollVars, state, closeVars>>
    BY <1>4 DEF RunShutDown
  <2>2. state # "kConnecting" /\ user' = user
    BY <2>1, TailKeeps
  <2>3. (NonePending => NonePending') /\ (OnePending => OnePending')
    BY <1>p, <2>1 DEF closeVars
  <2>4. Life'
    BY <2>1, <2>2, <2>3
       DEF Life, Alive, Up, Down, Agrees, CloseIsQueued, IsWritting, outVars, pollVars
  <2> QED
    BY <1>a, <2>1, <2>4
<1>5. CASE RunCall
  <2>1. PICK op \in {"forceClose", "startRead", "stopRead"} :
          NextFunctor(op) /\ (ForceCloseInLoop \/ StartReadInLoop \/ StopReadInLoop)
    BY <1>5 DEF RunCall
  <2>2. high = <<>> /\ state # "kConnecting" /\ UNCHANGED <<queue, user, lpc, outVars>>
    BY <1>5, <2>1, TailKeeps DEF RunCall
  <2>3. Life'
    BY <2>1, <2>2, CallLife DEF outVars
  <2> QED
    BY <1>a, <2>1, <2>2, <2>3
<1>6. CASE DestroyConnection
  <2>1. /\ state # "kConnecting" /\ UNCHANGED <<user, state, lpc, outVars, closeVars>>
        /\ NextFunctor("destroy") /\ ~NoneIs("destroy", batch)
    BY <1>6, TailKeeps DEF DestroyConnection
  <2>2. ~Alive /\ ~NonePending
    BY <2>1 DEF Life, Up, NonePending
  <2>3. OnePending => NonePending'
    BY <1>p, <2>1 DEF closeVars
  <2>4. Down => Down'
    BY <1>6, <2>1, <2>2, <2>3, Zenon DEF DestroyConnection, Remove, Down, Agrees, outVars
  <2>5. Life'
    BY <2>1, <2>2, <2>4, Zenon DEF Life, Alive, CloseIsQueued
  <2> QED
    BY <1>a, <2>1, <2>5
<1>7. CASE FunctorsDone
  <2>1. /\ lpc = "functors" /\ lpc' = "poll" /\ high = <<>> /\ batch = <<>> /\ revents = {}
        /\ UNCHANGED <<state, outVars, pollVars, revents, closeVars, handleFrame>>
    BY <1>7 DEF FunctorsDone, Rounds
  <2>2. Rounds' /\ NoLateClose'
    BY <2>1 DEF Rounds, InCallback, NoLateClose, outVars, handleFrame
  <2> QED
    BY <2>1, <2>2, OthersKept DEF outVars, closeVars, handleFrame
<1>8. CASE HighWaterReturns
  <2>1. /\ high # <<>> /\ high' = Tail(high) /\ PutOut(Head(high))
        /\ UNCHANGED <<user, state, loopVars, queue, pc, closeVars>>
    BY <1>8 DEF HighWaterReturns
  <2>2. inMap => inMap'
    BY <2>1, Types, Zenon DEF PutOut, UpdateChannel, pollVars
  <2>3. Rounds' /\ OwnFunctors'
    BY <2>1, <2>2 DEF Rounds, InCallback, OwnFunctors, NoneIs, loopVars
  <2>4. state # "kConnecting" /\ (state = "kDisConnected" => ~CloseIsQueued)
    BY <2>1 DEF Life, NotYetUp, Down
  <2>5. Alive => Up'
    <3> SUFFICES ASSUME Alive PROVE Up'
      OBVIOUS
    <3>1. Up /\ Head(high) \in Seq(Byte) /\ Head(high) # <<>>
      BY <2>1, InHand DEF Life
    <3>2. Agrees' /\ (events' # {} => index' = "kAdded") /\ outBuf' # <<>> /\ IsWritting'
      BY <2>1, <3>1, PutOutUp DEF Up
    <3> QED
      BY <2>1, <3>1, <3>2 DEF Up, NonePending, NoneIs, loopVars, closeVars
  <2>6. CloseIsQueued => NoLateClose'
    BY <2>1, <2>2, <2>4 DEF NoLateClose, loopVars
  <2> QED
    BY <2>1, <2>3, <2>4, <2>5, <2>6 DEF Kept, Life, Alive, CloseIsQueued
<1> QED
  BY <1>1, <1>2, <1>3, <1>4, <1>5, <1>6, <1>7, <1>8
=============================================================================
