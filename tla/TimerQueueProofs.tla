-------------------------- MODULE TimerQueueProofs --------------------------
(***************************************************************************)
(* Proofs about TimerQueue, for any set of timers and any horizon, and     *)
(* about the timespecs of Timestamp, for every time and every unit.        *)
(***************************************************************************)
EXTENDS TimerQueue, Timestamp, TLAPS

(* s holds a functor that will add timer i. *)
WillAdd(s, i) == \E k \in DOMAIN s : s[k].op = "add" /\ s[k].id = i

AddsOnce(s) ==
    \A k, l \in DOMAIN s : s[k].op = "add" /\ s[l].op = "add" /\ s[k].id = s[l].id
                              => k = l

(* A timer is in at most one place: on its way through the functor queue, in *)
(* timers_, or in the batch that is running; and it goes only forward.       *)
PlaceInv ==
    /\ timers \cup expired \cup fired \subseteq created
    /\ expired \cap timers = {}
    /\ AddsOnce(queue) /\ AddsOnce(batch)
    /\ \A i \in Ids : WillAdd(queue, i) => ~WillAdd(batch, i)
    /\ \A i \in Ids : WillAdd(queue, i) \/ WillAdd(batch, i)
          => i \in created /\ i \notin timers \cup expired \cup cancelled \cup fired

BatchInv ==
    /\ executing <=> lpc = "callbacks"
    /\ lpc # "callbacks" => running = None /\ toRun = {}
    /\ toRun \subseteq expired
    /\ running # None => running \in expired
    /\ readAt <= now
    /\ \A i \in expired : exp[i] <= readAt

(* A cancelled timer that is in the running batch is in canceling_timers_. *)
CancelInv ==
    /\ cancelled \subseteq created
    /\ cancelled \cap expired \subseteq canceling

FiredInv == \A i \in fired : interval[i] = 0 => i \notin timers \cup toRun

Inv == /\ TypeOK
       /\ SetsAgree
       /\ PlaceInv
       /\ BatchInv
       /\ CancelInv
       /\ CancelledStaysOut
       /\ FiredInv
       /\ FdArmed

-----------------------------------------------------------------------------
(* ResetTimerFd arms the timerfd, no later than asked or after the shortest  *)
(* delay.                                                                    *)
LEMMA ResetArms ==
    ASSUME TypeOK, NEW e \in 0..MaxTime
    PROVE  /\ ResetTimerFd(e) \in 1..MaxTime
           /\ ResetTimerFd(e) <= e \/ ResetTimerFd(e) <= now + 1
BY TimerAssumption DEF TypeOK, ResetTimerFd, Cap

(* The clock stays within its bound. *)
LEMMA NowType ==
    ASSUME TypeOK
    PROVE  now \in Nat /\ MaxTime \in Nat \ {0} /\ now <= MaxTime
<1>1. now \in 1..MaxTime
  BY Zenon DEF TypeOK
<1>2. MaxTime \in Nat \ {0}
  BY TimerAssumption, Zenon DEF TimerAssumption
<1> QED BY <1>1, <1>2

(* The constructor establishes the types. *)
LEMMA InitType == Init => TypeOK
<1> SUFFICES ASSUME Init PROVE TypeOK
  OBVIOUS
<1>1. executing \in BOOLEAN /\ timerActive \in BOOLEAN
  BY Zenon DEF Init
<1>2. queue \in Seq(Functor) /\ batch \in Seq(Functor)
  BY DEF Init
<1> QED BY <1>1, <1>2, TimerAssumption DEF Init, TypeOK, Off

(* Every step keeps the types. *)
LEMMA NextType == TypeOK /\ [Next]_vars => TypeOK'
<1> SUFFICES ASSUME TypeOK, [Next]_vars PROVE TypeOK'
  OBVIOUS
<1>0. \A e \in 0..MaxTime : ResetTimerFd(e) \in 0..MaxTime
  <2>1. 1..MaxTime \subseteq 0..MaxTime BY TimerAssumption
  <2> QED BY <2>1, ResetArms
<1> USE TimerAssumption DEF TypeOK, fdVars, timerVars, setVars, batchVars, loopVars,
        queueVars, history, Off
<1>1. CASE Tick BY <1>1 DEF Tick
<1>2. CASE PollReady \/ PollOther
  <2>1. Poll BY <1>2 DEF PollReady, PollOther
  <2>2. timerActive' \in BOOLEAN BY <2>1, Zenon DEF Poll, FdReadable
  <2>3. lpc' = "handle" BY <2>1 DEF Poll
  <2> QED BY <2>1, <2>2, <2>3 DEF Poll
<1>3. CASE HandleReadBegin
  <2>1. timerActive' \in BOOLEAN /\ executing' \in BOOLEAN
    BY <1>3, Zenon DEF HandleReadBegin
  <2>2. Due \subseteq Ids BY DEF Due
  <2> QED BY <1>3, <2>1, <2>2 DEF HandleReadBegin
<1>4. CASE TimerReturns BY <1>4 DEF TimerReturns
<1>5. CASE HandleReadEnd
  <2>1. Again \subseteq Ids BY DEF Again
  <2>2. \A i \in Again : Cap(readAt + interval[i]) \in 0..MaxTime BY <2>1 DEF Cap
  <2>3. Restarted \in [Ids -> 0..MaxTime] BY <2>2 DEF Restarted
  <2>4. fdAt' \in 0..MaxTime
    <3>1. \A i \in Ids : ResetTimerFd(Restarted[i]) \in 0..MaxTime
      BY <2>3, <1>0
    <3> QED BY <1>5, <2>1, <3>1 DEF HandleReadEnd
  <2> QED BY <1>5, <2>1, <2>3, <2>4, Zenon DEF HandleReadEnd
<1>6. CASE SwapFunctors BY <1>6 DEF SwapFunctors
<1>7. CASE RunAdd
  <2>1. Head(batch) \in Functor /\ Tail(batch) \in Seq(Functor)
    BY <1>7 DEF RunAdd
  <2>2. exp[Head(batch).id] \in 0..MaxTime /\ Head(batch).id \in Ids BY <2>1 DEF Functor
  <2>3. ResetTimerFd(exp[Head(batch).id]) \in 0..MaxTime BY <2>2, <1>0, Zenon
  <2>4. fdAt' \in 0..MaxTime BY <1>7, <2>3 DEF RunAdd, AddTimerInLoop
  <2>5. timers' \in SUBSET Ids /\ active' \in SUBSET Ids
    BY <1>7, <2>2 DEF RunAdd, AddTimerInLoop
  <2> QED BY <1>7, <2>1, <2>4, <2>5 DEF RunAdd
<1>8. CASE RunCancel
  <2>0. Head(batch) \in Functor /\ Tail(batch) \in Seq(Functor)
    BY <1>8 DEF RunCancel
  <2>1. Head(batch).id \in Ids BY <2>0 DEF Functor
  <2>2. /\ timers' \in SUBSET Ids /\ active' \in SUBSET Ids
        /\ canceling' \in SUBSET Ids /\ cancelled' \in SUBSET Ids
    BY <1>8, <2>1 DEF RunCancel, CancelTimerInLoop
  <2> QED BY <1>8, <2>0, <2>2 DEF RunCancel
<1>9. CASE FunctorsDone BY <1>9 DEF FunctorsDone
<1>10. ASSUME NEW i \in Ids, RunTimer(i) PROVE TypeOK'
  BY <1>10 DEF RunTimer
<1>11. ASSUME NEW i \in Ids, CancelOwn(i) PROVE TypeOK'
  BY <1>11 DEF CancelOwn, CancelTimerInLoop
<1>12. ASSUME NEW i \in Ids, Cancel(i) PROVE TypeOK'
  <2>1. [op |-> "cancel", id |-> i] \in Functor BY DEF Functor
  <2>2. queue' \in Seq(Functor)
    BY <1>12, <2>1 DEF Cancel
  <2> QED BY <1>12, <2>2, Zenon DEF Cancel
<1>13. ASSUME NEW i \in Ids, NEW when \in Whens, NEW iv \in Intervals,
              AddTimerOwn(i, when, iv)
       PROVE TypeOK'
  <2>1. when \in 0..MaxTime /\ iv \in Nat OBVIOUS
  <2>2. ResetTimerFd(when) \in 0..MaxTime BY <2>1, <1>0
  <2>3. /\ exp' \in [Ids -> 0..MaxTime] /\ interval' \in [Ids -> Nat]
        /\ created' \in SUBSET Ids
    BY <1>13, <2>1 DEF AddTimerOwn, NewTimer
  <2>4. /\ timers' \in SUBSET Ids /\ active' \in SUBSET Ids /\ fdAt' \in 0..MaxTime
    BY <1>13, <2>2 DEF AddTimerOwn, AddTimerInLoop
  <2> QED BY <1>13, <2>3, <2>4, Zenon DEF AddTimerOwn
<1>14. ASSUME NEW i \in Ids, NEW when \in Whens, NEW iv \in Intervals,
              AddTimer(i, when, iv)
       PROVE TypeOK'
  <2>1. [op |-> "add", id |-> i] \in Functor BY DEF Functor
  <2>2. when \in 0..MaxTime /\ iv \in Nat OBVIOUS
  <2>3. queue' \in Seq(Functor)
    BY <1>14, <2>1 DEF AddTimer
  <2>4. /\ exp' \in [Ids -> 0..MaxTime] /\ interval' \in [Ids -> Nat]
        /\ created' \in SUBSET Ids
    BY <1>14, <2>2 DEF AddTimer, NewTimer
  <2> QED BY <1>14, <2>3, <2>4, Zenon DEF AddTimer
<1>15. CASE UNCHANGED vars BY <1>15 DEF vars
<1> QED BY <1>1, <1>2, <1>3, <1>4, <1>5, <1>6, <1>7, <1>8, <1>9, <1>10, <1>11,
           <1>12, <1>13, <1>14, <1>15, Zenon DEF Next, LoopStep, UserStep

(* Type correctness of the timer queue. *)
THEOREM TypeCorrect == Spec => []TypeOK
BY InitType, NextType, PTL DEF Spec

-----------------------------------------------------------------------------
(* What appending a functor does to the additions on their way. *)
LEMMA AppendAdds ==
    ASSUME NEW s \in Seq(Functor), NEW f \in Functor
    PROVE  /\ \A i \in Ids : WillAdd(Append(s, f), i)
                               <=> WillAdd(s, i) \/ (f.op = "add" /\ f.id = i)
           /\ AddsOnce(s) /\ ~(f.op = "add" /\ WillAdd(s, f.id))
                 => AddsOnce(Append(s, f))
<1> DEFINE t == Append(s, f)
<1>1. /\ Len(s) \in Nat /\ DOMAIN s = 1..Len(s) /\ DOMAIN t = 1..(Len(s) + 1)
      /\ t[Len(s) + 1] = f /\ \A k \in 1..Len(s) : t[k] = s[k]
  OBVIOUS
<1> HIDE DEF t
<1>2. \A i \in Ids : WillAdd(t, i) <=> WillAdd(s, i) \/ (f.op = "add" /\ f.id = i)
  BY <1>1 DEF WillAdd
<1>3. AddsOnce(s) /\ ~(f.op = "add" /\ WillAdd(s, f.id)) => AddsOnce(t)
  <2> SUFFICES ASSUME AddsOnce(s), ~(f.op = "add" /\ WillAdd(s, f.id)),
                      NEW k \in DOMAIN t, NEW l \in DOMAIN t,
                      t[k].op = "add", t[l].op = "add", t[k].id = t[l].id
               PROVE  k = l
    BY DEF AddsOnce
  <2>1. CASE k \in DOMAIN s /\ l \in DOMAIN s BY <1>1, <2>1 DEF AddsOnce
  <2>2. CASE k = Len(s) + 1 /\ l \in DOMAIN s BY <1>1, <2>2 DEF WillAdd
  <2>3. CASE k \in DOMAIN s /\ l = Len(s) + 1 BY <1>1, <2>3 DEF WillAdd
  <2> QED BY <1>1, <2>1, <2>2, <2>3
<1> QED BY <1>2, <1>3 DEF t

(* What removing the first functor does to them. *)
LEMMA TailAdds ==
    ASSUME NEW s \in Seq(Functor), s # <<>>
    PROVE  /\ \A i \in Ids : WillAdd(Tail(s), i) => WillAdd(s, i)
           /\ AddsOnce(s) => AddsOnce(Tail(s))
           /\ Head(s).op = "add" => /\ WillAdd(s, Head(s).id)
                                    /\ AddsOnce(s) => ~WillAdd(Tail(s), Head(s).id)
<1> DEFINE t == Tail(s)
<1>1. /\ Len(s) \in Nat \ {0} /\ DOMAIN s = 1..Len(s) /\ DOMAIN t = 1..(Len(s) - 1)
      /\ Head(s) = s[1] /\ \A k \in 1..(Len(s) - 1) : t[k] = s[k + 1]
  OBVIOUS
<1> HIDE DEF t
<1>2. \A i \in Ids : WillAdd(t, i) => WillAdd(s, i)
  <2> SUFFICES ASSUME NEW k \in DOMAIN t
               PROVE  k + 1 \in DOMAIN s /\ t[k] = s[k + 1]
    BY DEF WillAdd
  <2> QED BY <1>1
<1>3. AddsOnce(s) => AddsOnce(t)
  <2> SUFFICES ASSUME AddsOnce(s), NEW k \in DOMAIN t, NEW l \in DOMAIN t,
                      t[k].op = "add", t[l].op = "add", t[k].id = t[l].id
               PROVE  k = l
    BY DEF AddsOnce
  <2>1. k + 1 \in DOMAIN s /\ l + 1 \in DOMAIN s /\ t[k] = s[k + 1] /\ t[l] = s[l + 1]
    BY <1>1
  <2>2. k + 1 = l + 1 BY <2>1 DEF AddsOnce
  <2> QED BY <1>1, <2>2
<1>4. Head(s).op = "add" => WillAdd(s, Head(s).id)
  BY <1>1 DEF WillAdd
<1>5. Head(s).op = "add" /\ AddsOnce(s) => ~WillAdd(t, Head(s).id)
  <2> SUFFICES ASSUME s[1].op = "add", AddsOnce(s), NEW k \in DOMAIN t,
                      t[k].op = "add", t[k].id = s[1].id
               PROVE  FALSE
    BY <1>1 DEF WillAdd
  <2>1. k + 1 \in DOMAIN s /\ 1 \in DOMAIN s /\ t[k] = s[k + 1] BY <1>1
  <2>2. k + 1 = 1 BY <2>1 DEF AddsOnce
  <2> QED BY <1>1, <2>2
<1> QED BY <1>2, <1>3, <1>4, <1>5 DEF t

-----------------------------------------------------------------------------
(* AddTimerInLoop leaves the timerfd armed in time for every timer. *)
LEMMA AddKeepsArmed ==
    ASSUME TypeOK, FdArmed, NEW i \in Ids, NEW e \in 0..MaxTime, AddTimerInLoop(i, e),
           exp'[i] = e, \A j \in timers : exp'[j] = exp[j], now' = now, lpc' = lpc
    PROVE  FdArmed'
<1> SUFFICES ASSUME lpc # "callbacks", NEW k \in timers \cup {i}
             PROVE  fdAt' # Off /\ (fdAt' <= exp'[k] \/ fdAt' <= now + 1)
  BY DEF FdArmed, AddTimerInLoop
<1> USE DEF TypeOK, Off
<1>0. \A j \in timers : exp[j] \in 0..MaxTime OBVIOUS
<1>1. CASE \A j \in timers : e < exp[j]
  <2>1. fdAt' = ResetTimerFd(e) BY <1>1 DEF AddTimerInLoop
  <2>2. exp'[k] \in 0..MaxTime /\ e <= exp'[k] BY <1>0, <1>1, SMTT(30)
  <2>3. fdAt' \in 1..MaxTime /\ (fdAt' <= e \/ fdAt' <= now + 1) BY <2>1, ResetArms
  <2> QED BY <2>2, <2>3, SMTT(30)
<1>2. CASE ~\A j \in timers : e < exp[j]
  <2>1. PICK j \in timers : exp[j] <= e BY <1>0, <1>2
  <2>2. fdAt' = fdAt /\ fdAt # Off /\ (fdAt <= exp[j] \/ fdAt <= now + 1)
    BY <1>2 DEF AddTimerInLoop, FdArmed
  <2>3. CASE k \in timers BY <2>2, <2>3 DEF FdArmed
  <2>4. CASE k = i BY <1>0, <2>1, <2>2, <2>4
  <2> QED BY <2>3, <2>4
<1> QED BY <1>1, <1>2

(* The initial state satisfies the invariant. *)
LEMMA InitInv == Init => Inv
<1> SUFFICES ASSUME Init PROVE Inv
  OBVIOUS
<1>1. TypeOK BY InitType
<1>2. ~executing BY DEF Init
<1>3. DOMAIN queue = {} /\ DOMAIN batch = {} BY DEF Init
<1> QED BY <1>1, <1>2, <1>3 DEF Init, Inv, SetsAgree, PlaceInv, BatchInv, CancelInv,
        CancelledStaysOut, FiredInv, FdArmed, WillAdd, AddsOnce

(* The steps of HandleRead keep the invariant. *)
LEMMA HandleReadInv ==
    ASSUME Inv, TypeOK',
           HandleReadBegin \/ TimerReturns \/ HandleReadEnd \/ \E i \in Ids : RunTimer(i)
    PROVE  Inv'
<1> USE DEF fdVars, timerVars, setVars, batchVars, loopVars, queueVars, history
<1>1. CASE HandleReadBegin
  <2>1. SetsAgree' BY <1>1 DEF Inv, SetsAgree, HandleReadBegin
  <2>2. PlaceInv' BY <1>1 DEF Inv, PlaceInv, HandleReadBegin, SetsAgree, Due
  <2>3. BatchInv'
    <3>1. now \in Nat /\ \A i \in Due : exp[i] <= now BY DEF Inv, TypeOK, Due
    <3>2. running = None BY <1>1 DEF Inv, BatchInv, HandleReadBegin
    <3> QED BY <1>1, <3>1, <3>2 DEF BatchInv, HandleReadBegin
  <2>4. CancelInv' BY <1>1 DEF Inv, CancelInv, CancelledStaysOut, HandleReadBegin, Due
  <2>5. CancelledStaysOut' BY <1>1 DEF Inv, CancelledStaysOut, HandleReadBegin
  <2>6. FiredInv' BY <1>1 DEF Inv, FiredInv, HandleReadBegin, Due
  <2>7. FdArmed' BY <1>1 DEF FdArmed, HandleReadBegin
  <2> QED BY <2>1, <2>2, <2>3, <2>4, <2>5, <2>6, <2>7 DEF Inv
<1>2. CASE TimerReturns
  BY <1>2 DEF Inv, TimerReturns, SetsAgree, PlaceInv, BatchInv, CancelInv,
              CancelledStaysOut, FiredInv, FdArmed
<1>3. ASSUME NEW i \in Ids, RunTimer(i) PROVE Inv'
  <2>1. SetsAgree' BY <1>3 DEF Inv, SetsAgree, RunTimer
  <2>2. PlaceInv'
    <3>1. i \in expired /\ \A k \in Ids : (WillAdd(queue, k) \/ WillAdd(batch, k)) => k # i
      BY <1>3 DEF Inv, PlaceInv, BatchInv, RunTimer
    <3>2. /\ \A k \in Ids : /\ WillAdd(queue, k)' <=> WillAdd(queue, k)
                            /\ WillAdd(batch, k)' <=> WillAdd(batch, k)
          /\ AddsOnce(queue)' <=> AddsOnce(queue)
          /\ AddsOnce(batch)' <=> AddsOnce(batch)
      BY <1>3 DEF RunTimer, WillAdd, AddsOnce
    <3> QED BY <1>3, <3>1, <3>2 DEF Inv, PlaceInv, RunTimer
  <2>3. BatchInv' BY <1>3 DEF Inv, BatchInv, RunTimer
  <2>4. CancelInv' BY <1>3 DEF Inv, CancelInv, RunTimer
  <2>5. CancelledStaysOut' BY <1>3 DEF Inv, CancelledStaysOut, RunTimer
  <2>6. FiredInv'
    <3>1. i \notin timers BY <1>3 DEF Inv, PlaceInv, BatchInv, RunTimer
    <3> QED BY <1>3, <3>1 DEF Inv, FiredInv, RunTimer
  <2>7. FdArmed' BY <1>3 DEF Inv, FdArmed, RunTimer
  <2> QED BY <2>1, <2>2, <2>3, <2>4, <2>5, <2>6, <2>7 DEF Inv
<1>4. CASE HandleReadEnd
  <2>0. Again \subseteq expired /\ \A i \in Again : interval[i] > 0 /\ i \notin canceling
    BY DEF Again
  <2>1. SetsAgree' BY <1>4 DEF Inv, SetsAgree, HandleReadEnd
  <2>2. PlaceInv' BY <1>4, <2>0 DEF Inv, PlaceInv, HandleReadEnd
  <2>3. BatchInv' BY <1>4 DEF Inv, BatchInv, HandleReadEnd
  <2>4. CancelInv' BY <1>4 DEF Inv, CancelInv, HandleReadEnd
  <2>5. CancelledStaysOut'
    BY <1>4, <2>0 DEF Inv, CancelInv, CancelledStaysOut, HandleReadEnd
  <2>6. FiredInv'
    <3>1. \A i \in Again : interval[i] # 0 BY <2>0, SMTT(30) DEF Inv, TypeOK
    <3> QED BY <1>4, <3>1 DEF Inv, FiredInv, HandleReadEnd
  <2>7. FdArmed'
    <3> SUFFICES ASSUME NEW k \in timers \cup Again
                 PROVE  fdAt' # Off /\ (fdAt' <= exp'[k] \/ fdAt' <= now + 1)
      BY <1>4 DEF FdArmed, HandleReadEnd
    <3>1. PICK first \in timers \cup Again :
             /\ \A j \in timers \cup Again : exp'[first] <= exp'[j]
             /\ fdAt' = ResetTimerFd(exp'[first])
      BY <1>4 DEF HandleReadEnd
    <3>2. first \in Ids /\ k \in Ids BY <2>0 DEF Inv, TypeOK
    <3>3. exp'[first] \in 0..MaxTime /\ exp'[k] \in 0..MaxTime BY <3>2 DEF TypeOK
    <3>4. exp'[first] <= exp'[k] BY <3>1
    <3>5. TypeOK BY DEF Inv
    <3>6. now \in Nat /\ MaxTime \in Nat \ {0} /\ now <= MaxTime
      BY <3>5, NowType, Zenon
    <3>7. fdAt' \in 1..MaxTime /\ (fdAt' <= exp'[first] \/ fdAt' <= now + 1)
      BY <3>1, <3>3, <3>6, SMTT(30) DEF ResetTimerFd, Cap
    <3> QED BY <3>3, <3>4, <3>6, <3>7 DEF Off
  <2> QED BY <2>1, <2>2, <2>3, <2>4, <2>5, <2>6, <2>7 DEF Inv
<1> QED BY <1>1, <1>2, <1>3, <1>4

(* CancelTimerInLoop keeps what the invariant says of the sets it changes. *)
LEMMA CancelTimerInv ==
    ASSUME Inv, TypeOK', NEW i \in Ids, CancelTimerInLoop(i),
           \A j \in Ids : WillAdd(batch, j)' => WillAdd(batch, j),
           AddsOnce(batch)',
           UNCHANGED <<now, fdAt, exp, interval, created, batchVars, loopVars, queue, fired>>
    PROVE  Inv'
<1> USE DEF batchVars, loopVars
<1>1. SetsAgree' BY DEF Inv, SetsAgree, BatchInv, CancelTimerInLoop
<1>2. PlaceInv'
  <2>1. timers' \subseteq timers /\ \A j \in cancelled' : j \in cancelled \cup timers \cup expired
    BY DEF Inv, SetsAgree, CancelTimerInLoop
  <2>2. /\ AddsOnce(queue)' <=> AddsOnce(queue)
        /\ \A j \in Ids : WillAdd(queue, j)' <=> WillAdd(queue, j)
    BY DEF AddsOnce, WillAdd
  <2> QED BY <2>1, <2>2 DEF Inv, PlaceInv
<1>3. BatchInv' BY DEF Inv, BatchInv
<1>4. CancelInv' BY DEF Inv, CancelInv, PlaceInv, SetsAgree, BatchInv, CancelTimerInLoop
<1>5. CancelledStaysOut'
  BY DEF Inv, CancelledStaysOut, PlaceInv, SetsAgree, CancelTimerInLoop
<1>6. FiredInv' BY DEF Inv, FiredInv, SetsAgree, CancelTimerInLoop
<1>7. FdArmed' BY DEF Inv, FdArmed, SetsAgree, CancelTimerInLoop
<1> QED BY <1>1, <1>2, <1>3, <1>4, <1>5, <1>6, <1>7 DEF Inv

(* The loop around HandleRead, and the clock, keep the invariant. *)
LEMMA LoopInv ==
    ASSUME Inv, TypeOK',
           Tick \/ PollReady \/ PollOther \/ SwapFunctors \/ RunAdd \/ RunCancel
             \/ FunctorsDone
    PROVE  Inv'
<1> USE DEF fdVars, timerVars, setVars, batchVars, loopVars, queueVars, history
<1>1. CASE Tick
  <2>1. SetsAgree' /\ PlaceInv' BY <1>1 DEF Inv, Tick, SetsAgree, PlaceInv
  <2>0. now \in Nat /\ readAt \in Nat /\ fdAt \in Nat /\ readAt <= now
    <3>1. now \in 1..MaxTime /\ readAt \in 0..MaxTime /\ fdAt \in 0..MaxTime /\ readAt <= now
      BY Zenon DEF Inv, TypeOK, BatchInv
    <3> QED BY <3>1, TimerAssumption
  <2>2. BatchInv'
    <3>1. readAt' <= now' BY <1>1, <2>0 DEF Tick
    <3> QED BY <1>1, <3>1, Zenon DEF Inv, Tick, BatchInv
  <2>3. CancelInv' /\ CancelledStaysOut' /\ FiredInv'
    BY <1>1 DEF Inv, Tick, CancelInv, CancelledStaysOut, FiredInv
  <2>4. FdArmed'
    <3>1. fdAt <= now + 1 => fdAt <= now' + 1 BY <1>1, <2>0 DEF Tick
    <3> QED BY <1>1, <3>1, Zenon DEF Inv, Tick, FdArmed
  <2> QED BY <2>1, <2>2, <2>3, <2>4 DEF Inv
<1>2. CASE PollReady \/ PollOther
  <2>1. Poll BY <1>2 DEF PollReady, PollOther
  <2>2. SetsAgree' /\ PlaceInv' BY <2>1 DEF Inv, Poll, SetsAgree, PlaceInv
  <2>3. BatchInv' BY <2>1 DEF Inv, Poll, BatchInv
  <2>4. CancelInv' /\ CancelledStaysOut' /\ FiredInv'
    BY <2>1 DEF Inv, Poll, CancelInv, CancelledStaysOut, FiredInv
  <2>5. FdArmed' BY <2>1 DEF Inv, Poll, FdArmed
  <2> QED BY <2>2, <2>3, <2>4, <2>5 DEF Inv
<1>3. CASE FunctorsDone
  BY <1>3 DEF Inv, FunctorsDone, SetsAgree, PlaceInv, BatchInv, CancelInv,
              CancelledStaysOut, FiredInv, FdArmed
<1>4. CASE SwapFunctors
  <2>1. PlaceInv'
    <3>0. DOMAIN <<>> = {} OBVIOUS
    <3>1. \A i \in Ids : ~WillAdd(<<>>, i) BY <3>0, Zenon DEF WillAdd
    <3>2. AddsOnce(<<>>) BY <3>0, Zenon DEF AddsOnce
    <3> QED BY <1>4, <3>1, <3>2 DEF Inv, PlaceInv, SwapFunctors
  <2> QED BY <1>4, <2>1 DEF Inv, SwapFunctors, SetsAgree, BatchInv, CancelInv,
              CancelledStaysOut, FiredInv, FdArmed
<1>5. CASE RunAdd
  <2> DEFINE i == Head(batch).id
  <2>0. batch \in Seq(Functor) /\ batch # <<>> /\ Head(batch).op = "add" /\ TypeOK
    BY <1>5, Zenon DEF Inv, TypeOK, RunAdd
  <2>1. i \in Ids
    <3>1. Head(batch) \in Functor BY <2>0
    <3> QED BY <3>1 DEF Functor
  <2>2. /\ WillAdd(batch, i) /\ ~WillAdd(Tail(batch), i) /\ AddsOnce(Tail(batch))
        /\ \A j \in Ids : WillAdd(Tail(batch), j) => WillAdd(batch, j)
    BY <2>0, TailAdds DEF Inv, PlaceInv
  <2>3. i \in created /\ i \notin timers \cup expired \cup cancelled \cup fired
    BY <2>1, <2>2 DEF Inv, PlaceInv
  <2> HIDE DEF i
  <2>4. /\ lpc = "functors" /\ AddTimerInLoop(i, exp[i]) /\ batch' = Tail(batch)
        /\ UNCHANGED <<now, timerVars, canceling, batchVars, loopVars, queue, history>>
    BY <1>5 DEF RunAdd, i
  <2>5. PlaceInv' BY <2>1, <2>2, <2>3, <2>4 DEF Inv, PlaceInv, AddTimerInLoop
  <2>6. FdArmed'
    <3>1. exp[i] \in 0..MaxTime BY <2>0, <2>1 DEF TypeOK
    <3>2. FdArmed BY DEF Inv
    <3> QED BY <2>0, <2>1, <2>4, <3>1, <3>2, AddKeepsArmed
  <2>7. SetsAgree' /\ CancelInv' /\ CancelledStaysOut'
    BY <2>3, <2>4 DEF Inv, SetsAgree, CancelInv, CancelledStaysOut, AddTimerInLoop
  <2>8. BatchInv' BY <2>4 DEF Inv, BatchInv
  <2>9. FiredInv' BY <2>3, <2>4 DEF Inv, FiredInv, AddTimerInLoop
  <2> QED BY <2>5, <2>6, <2>7, <2>8, <2>9 DEF Inv
<1>6. CASE RunCancel
  <2>0. batch \in Seq(Functor) /\ batch # <<>> /\ batch' = Tail(batch)
    BY <1>6 DEF Inv, TypeOK, RunCancel
  <2>1. Head(batch).id \in Ids
    <3>1. Head(batch) \in Functor BY <2>0
    <3> QED BY <3>1 DEF Functor
  <2>2. AddsOnce(Tail(batch)) /\ \A j \in Ids : WillAdd(Tail(batch), j) => WillAdd(batch, j)
    BY <2>0, TailAdds DEF Inv, PlaceInv
  <2>3. CancelTimerInLoop(Head(batch).id) BY <1>6 DEF RunCancel
  <2>4. UNCHANGED <<now, fdAt, exp, interval, created, batchVars, loopVars, queue, fired>>
    BY <1>6 DEF RunCancel
  <2>5. AddsOnce(batch)' /\ \A j \in Ids : WillAdd(batch, j)' => WillAdd(batch, j)
    BY <2>0, <2>2
  <2> QED BY <2>1, <2>3, <2>4, <2>5, CancelTimerInv
<1> QED BY <1>1, <1>2, <1>3, <1>4, <1>5, <1>6

(* The calls of users, in the loop thread and in others, keep the invariant. *)
LEMMA UserInv ==
    ASSUME Inv, TypeOK', UserStep
    PROVE  Inv'
<1> USE DEF fdVars, timerVars, setVars, batchVars, loopVars, queueVars, history
<1>0. TypeOK BY DEF Inv
<1>1. ASSUME NEW i \in Ids, CancelOwn(i) PROVE Inv'
  <2>1. /\ CancelTimerInLoop(i)
        /\ UNCHANGED <<now, fdAt, exp, interval, created, batchVars, loopVars, queue,
                       batch, fired>>
    BY <1>1 DEF CancelOwn
  <2>2. AddsOnce(batch)' /\ \A j \in Ids : WillAdd(batch, j)' => WillAdd(batch, j)
    BY <2>1 DEF Inv, PlaceInv
  <2> QED BY <2>1, <2>2, CancelTimerInv
<1>2. ASSUME NEW i \in Ids, Cancel(i) PROVE Inv'
  <2> DEFINE f == [op |-> "cancel", id |-> i]
  <2>1. f \in Functor /\ queue \in Seq(Functor) BY <1>0 DEF Functor, TypeOK
  <2>2. f.op # "add" OBVIOUS
  <2> HIDE DEF f
  <2>3. /\ \A j \in Ids : WillAdd(Append(queue, f), j) <=> WillAdd(queue, j)
        /\ AddsOnce(Append(queue, f))
    BY <2>1, <2>2, AppendAdds DEF Inv, PlaceInv
  <2>4. queue' = Append(queue, f) BY <1>2 DEF Cancel, f
  <2>5. /\ \A j \in Ids : WillAdd(queue', j) <=> WillAdd(queue, j)
        /\ AddsOnce(queue')
    BY <2>3, <2>4
  <2>6. PlaceInv' BY <1>2, <2>5 DEF Inv, PlaceInv, Cancel
  <2> QED BY <1>2, <2>6 DEF Inv, Cancel, SetsAgree, BatchInv, CancelInv,
              CancelledStaysOut, FiredInv, FdArmed
<1>3. ASSUME NEW i \in Ids, NEW when \in Whens, NEW iv \in Intervals,
             AddTimerOwn(i, when, iv)
      PROVE  Inv'
  <2>1. /\ i \notin created /\ created' = created \cup {i}
        /\ exp' = [exp EXCEPT ![i] = when] /\ interval' = [interval EXCEPT ![i] = iv]
        /\ timers' = timers \cup {i} /\ active' = active \cup {i}
        /\ UNCHANGED <<now, canceling, batchVars, loopVars, queueVars, history>>
    BY <1>3 DEF AddTimerOwn, NewTimer, AddTimerInLoop
  <2>2. \A j \in Ids \ {i} : exp'[j] = exp[j] /\ interval'[j] = interval[j]
    BY <1>0, <2>1 DEF TypeOK
  <2>3. i \notin timers \cup expired \cup fired \cup cancelled
    BY <2>1 DEF Inv, PlaceInv, CancelInv
  <2>4. PlaceInv' BY <2>1, <2>3 DEF Inv, PlaceInv
  <2>5. SetsAgree' /\ CancelInv' /\ CancelledStaysOut'
    BY <2>1, <2>3 DEF Inv, SetsAgree, CancelInv, CancelledStaysOut
  <2>6. BatchInv' BY <1>0, <2>1, <2>2, <2>3 DEF Inv, BatchInv, TypeOK
  <2>7. FiredInv'
    <3>1. fired \subseteq Ids \ {i} /\ fired' = fired /\ toRun' = toRun
      BY <2>1, <2>3 DEF Inv, TypeOK
    <3> QED BY <2>1, <2>2, <3>1 DEF Inv, FiredInv
  <2>8. FdArmed'
    <3>1. when \in 0..MaxTime /\ exp'[i] = when BY <1>0, <2>1, TimerAssumption DEF TypeOK
    <3>2. \A j \in timers : exp'[j] = exp[j] BY <1>0, <2>2, <2>3 DEF TypeOK
    <3>3. AddTimerInLoop(i, when) /\ now' = now /\ lpc' = lpc /\ FdArmed
      BY <1>3 DEF AddTimerOwn, Inv
    <3> QED BY <1>0, <3>1, <3>2, <3>3, AddKeepsArmed
  <2> QED BY <2>4, <2>5, <2>6, <2>7, <2>8 DEF Inv
<1>4. ASSUME NEW i \in Ids, NEW when \in Whens, NEW iv \in Intervals,
             AddTimer(i, when, iv)
      PROVE  Inv'
  <2> DEFINE f == [op |-> "add", id |-> i]
  <2>1. f \in Functor /\ queue \in Seq(Functor) BY <1>0 DEF Functor, TypeOK
  <2>2. f.id = i OBVIOUS
  <2> HIDE DEF f
  <2>3. /\ i \notin created /\ created' = created \cup {i}
        /\ exp' = [exp EXCEPT ![i] = when] /\ interval' = [interval EXCEPT ![i] = iv]
        /\ queue' = Append(queue, f)
        /\ UNCHANGED <<now, fdVars, setVars, batchVars, loopVars, batch, history>>
    BY <1>4 DEF AddTimer, NewTimer, f
  <2>4. \A j \in Ids \ {i} : exp'[j] = exp[j] /\ interval'[j] = interval[j]
    BY <1>0, <2>3 DEF TypeOK
  <2>5. /\ i \notin timers \cup expired \cup fired \cup cancelled
        /\ ~WillAdd(queue, i) /\ ~WillAdd(batch, i)
    BY <2>3 DEF Inv, PlaceInv, CancelInv
  <2>6. /\ \A j \in Ids : WillAdd(Append(queue, f), j) => WillAdd(queue, j) \/ j = i
        /\ AddsOnce(Append(queue, f))
    BY <2>1, <2>2, <2>5, AppendAdds DEF Inv, PlaceInv
  <2>7. /\ \A j \in Ids : WillAdd(queue', j) => WillAdd(queue, j) \/ j = i
        /\ AddsOnce(queue')
    BY <2>3, <2>6
  <2>8. PlaceInv' BY <2>3, <2>5, <2>7 DEF Inv, PlaceInv
  <2>9. SetsAgree' /\ CancelInv' /\ CancelledStaysOut'
    BY <2>3 DEF Inv, SetsAgree, CancelInv, CancelledStaysOut
  <2>10. BatchInv' BY <1>0, <2>3, <2>4, <2>5 DEF Inv, BatchInv, TypeOK
  <2>11. FiredInv' BY <1>0, <2>3, <2>4, <2>5 DEF Inv, FiredInv, TypeOK
  <2>12. FdArmed' BY <1>0, <2>3, <2>4, <2>5 DEF Inv, FdArmed, TypeOK
  <2> QED BY <2>8, <2>9, <2>10, <2>11, <2>12 DEF Inv
<1> QED BY <1>1, <1>2, <1>3, <1>4 DEF UserStep

-----------------------------------------------------------------------------
(* Inv is an inductive invariant of the timer queue. *)
THEOREM Invariance == Spec => []Inv
<1>1. Inv /\ [Next]_vars => Inv'
  <2> SUFFICES ASSUME Inv, [Next]_vars PROVE Inv'
    OBVIOUS
  <2>1. TypeOK' BY NextType DEF Inv
  <2>2. CASE UNCHANGED vars
    BY <2>1, <2>2 DEF vars, fdVars, timerVars, setVars, batchVars, loopVars, queueVars,
        history, Inv, SetsAgree, PlaceInv, BatchInv, CancelInv, CancelledStaysOut,
        FiredInv, FdArmed
  <2> QED BY <2>1, <2>2, HandleReadInv, LoopInv, UserInv DEF Next, LoopStep
<1> QED BY <1>1, InitInv, PTL DEF Spec

(* No timer is missed: outside HandleRead the timerfd is always armed for    *)
(* the earliest timer or for the shortest delay.                             *)
THEOREM NoTimerMissed == Spec => []FdArmed
BY Invariance, PTL DEF Inv

(* The assertions of timer_queue.cc hold. *)
THEOREM AssertionsHold == Spec => []SetsAgree
BY Invariance, PTL DEF Inv

(* A timer that CancelTimerInLoop found never comes back. *)
THEOREM CancelIsFinal == Spec => []CancelledStaysOut
BY Invariance, PTL DEF Inv

(* A callback never runs before its expiration. *)
THEOREM TimersNotEarly == Spec => []NeverEarly
<1>1. Inv => NeverEarly BY DEF Inv, BatchInv, NeverEarly
<1> QED BY <1>1, Invariance, PTL

(* The callback of a one-shot timer starts once. *)
THEOREM OneShotRunsOnce == Spec => OneShotOnce
<1>1. Inv /\ [Next]_vars =>
        [\A i \in Ids : RunTimer(i) /\ interval[i] = 0 => i \notin fired]_vars
  BY DEF Inv, FiredInv, RunTimer
<1> QED BY <1>1, Invariance, PTL DEF Spec, OneShotOnce

-----------------------------------------------------------------------------
(* The timespecs that the timerfd, nanosleep and condition variables are   *)
(* given, for every time and every unit.                                   *)

(* Division of what is not negative: "/" and "%" are then those of TLA+. *)
LEMMA Division ==
    ASSUME NEW v \in Nat
    PROVE  /\ GetSecs(v) \in Nat
           /\ GetUsecs(v) \in 0..(PerSecond - 1)
           /\ v = PerSecond * GetSecs(v) + GetUsecs(v)
<1>1. /\ v \div PerSecond \in Nat
      /\ v % PerSecond \in 0..(PerSecond - 1)
      /\ v = PerSecond * (v \div PerSecond) + (v % PerSecond)
  BY TimeAssumption, SMT
<1>2. GetSecs(v) = v \div PerSecond
  BY DEF GetSecs, Quotient
<1>3. GetUsecs(v) = v - PerSecond * (v \div PerSecond)
  BY <1>2 DEF GetUsecs, Remainder, GetSecs
<1> QED
  BY <1>1, <1>2, <1>3, TimeAssumption

(* A number of microseconds below a second, in nanoseconds, is below one too. *)
LEMMA NanosBelow ==
    ASSUME NEW u \in 0..(PerSecond - 1)
    PROVE  u * PerMicro \in 0..(NanosPerSecond - 1)
<1> DEFINE d == PerSecond - u
<1>1. d \in Nat /\ d > 0 /\ PerSecond = u + d
  BY TimeAssumption
<1> HIDE DEF d
<1>2. PerSecond * PerMicro = u * PerMicro + d * PerMicro
  BY <1>1, TimeAssumption
<1>3. d * PerMicro \in Nat \ {0} /\ u * PerMicro \in Nat
  BY <1>1, TimeAssumption
<1> QED
  BY <1>2, <1>3 DEF NanosPerSecond

(* ToTimeSpec (SleepUsec and the timerfd) gives nanosleep a timespec that it *)
(* accepts and that is exactly as long as it was asked for, for every time   *)
(* that is not negative.                                                     *)
THEOREM TimeSpecExact ==
    ASSUME NEW usec \in Nat
    PROVE  ValidSpec(ToTimeSpec(usec)) /\ Nanos(ToTimeSpec(usec)) = usec * PerMicro
<1> DEFINE s == GetSecs(usec)
           u == GetUsecs(usec)
<1>1. s \in Nat /\ u \in 0..(PerSecond - 1) /\ usec = PerSecond * s + u
  BY Division
<1>2. u * PerMicro \in 0..(NanosPerSecond - 1)
  BY <1>1, NanosBelow
<1>3. ToTimeSpec(usec).sec = s /\ ToTimeSpec(usec).nsec = u * PerMicro
  BY DEF ToTimeSpec
<1> HIDE DEF s, u
<1>4. ValidSpec(ToTimeSpec(usec))
  BY <1>1, <1>2, <1>3 DEF ValidSpec
<1>5. s * (PerSecond * PerMicro) + u * PerMicro = (PerSecond * s + u) * PerMicro
  BY <1>1, TimeAssumption
<1> QED
  BY <1>1, <1>3, <1>4, <1>5 DEF Nanos, NanosPerSecond

(* ResetTimerFd always arms the timerfd: whatever the expiration and the     *)
(* clock, and however late the call, it_value is a timespec that             *)
(* timerfd_settime accepts, and never the zero one, which would disarm it.   *)
THEOREM AlwaysArms ==
    ASSUME NEW time \in Int, NEW clock \in Int
    PROVE  Arms(ItValue(time, clock))
<1> DEFINE left == DelayOf(time, clock)
<1>1. left \in Nat /\ left > 0
  BY TimeAssumption DEF DelayOf, TimeMinus, IsValid
<1>2. ItValue(time, clock) = ToTimeSpec(left)
  BY DEF ItValue, ToTimeSpec
<1> HIDE DEF left
<1>3. ValidSpec(ToTimeSpec(left)) /\ Nanos(ToTimeSpec(left)) = left * PerMicro
  BY <1>1, TimeSpecExact
<1>4. left * PerMicro > 0
  BY <1>1, TimeAssumption
<1>5. ToTimeSpec(left).sec \in Int /\ ToTimeSpec(left).nsec \in Int
  BY <1>1, Division, TimeAssumption DEF ToTimeSpec
<1>6. ToTimeSpec(left).sec > 0 \/ ToTimeSpec(left).nsec > 0
  <2> SUFFICES ASSUME ToTimeSpec(left).sec = 0, ToTimeSpec(left).nsec = 0
               PROVE  FALSE
    BY <1>3, <1>5 DEF ValidSpec
  <2>1. Nanos(ToTimeSpec(left)) = 0
    BY TimeAssumption DEF Nanos, NanosPerSecond
  <2> QED
    BY <2>1, <1>3, <1>4
<1> QED
  BY <1>2, <1>3, <1>6 DEF Arms

(* WaitForSeconds of a whole number of seconds, as AsyncOutputer::Run calls  *)
(* it, gives pthread_cond_timedwait a timespec that it accepts.              *)
THEOREM WholeSecondsValid ==
    ASSUME NEW ts, ValidSpec(ts), ts.sec \in Int, NEW n \in Nat
    PROVE  ValidSpec(WaitDeadline(ts, n, 1))
<1>1. Quotient(n, 1) = n
  BY DEF Quotient
<1>2. Remainder(n, 1) = 0
  BY <1>1 DEF Remainder
<1>3. Quotient(0 * NanosPerSecond, 1) = 0
  BY TimeAssumption DEF Quotient, NanosPerSecond
<1>4. WaitDeadline(ts, n, 1) = [sec |-> ts.sec + n, nsec |-> ts.nsec + 0]
  BY <1>1, <1>2, <1>3 DEF WaitDeadline
<1>5. ts.nsec + 0 = ts.nsec
  BY TimeAssumption DEF ValidSpec, NanosPerSecond
<1> QED
  BY <1>4, <1>5 DEF ValidSpec
=============================================================================
