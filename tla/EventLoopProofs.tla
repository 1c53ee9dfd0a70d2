--------------------------- MODULE EventLoopProofs ---------------------------
(***************************************************************************)
(* Proofs about EventLoop, for any sets of threads and functors.           *)
(***************************************************************************)
EXTENDS EventLoop, TLAPS

(* How the flags of the loop thread follow its position. *)
PhaseInv ==
    /\ looping <=> lpc \in {"check", "poll", "handle", "run", "stopping"}
    /\ callingFunctors <=> lpc = "run"
    /\ lpc # "run" => curFunctors = <<>>

(* NoSleepOnFunctors holds in the poller because it holds from the end of    *)
(* one batch (or from the construction) to the next poll.                    *)
WakeInv ==
    lpc \in {"created", "check", "poll", "run"} /\ FunctorWaiting
        => wakeupFd \/ \E c \in Callers : pc[c] = "wake"

(* A thread that goes on in Quit() has seen looping_ set. *)
QuitInv == \A c \in Callers : pc[c] \in QuitPositions => lpc # "created"

Inv == /\ TypeOK
       /\ PhaseInv
       /\ WakeInv
       /\ NoSleepThroughQuit
       /\ QuitInv
       /\ QuitReturnsStopped

-----------------------------------------------------------------------------
(* The constructor establishes the types. *)
LEMMA InitType == Init => TypeOK
<1> SUFFICES ASSUME Init PROVE TypeOK
  OBVIOUS
<1>1. /\ looping \in BOOLEAN /\ quit \in BOOLEAN /\ callingFunctors \in BOOLEAN
      /\ wakeupFd \in BOOLEAN /\ wakeupActive \in BOOLEAN /\ quitCalled \in BOOLEAN
  BY Zenon DEF Init
<1>2. /\ functors \in Seq(Tasks) /\ curFunctors \in Seq(Tasks)
      /\ pushed \in Seq(Tasks) /\ ran \in Seq(Tasks)
  BY DEF Init
<1>3. /\ lock \in Callers \cup {None} /\ condWaiters \in SUBSET Callers
      /\ early \in SUBSET Tasks /\ quitReturned \in SUBSET Callers
      /\ lpc \in LoopPositions
      /\ pc \in [Callers -> CallerPositions]
      /\ waits \in [Callers -> Tasks \cup {None}]
  BY DEF Init, LoopPositions, CallerPositions
<1> QED BY <1>1, <1>2, <1>3 DEF TypeOK

(* Type correctness: every variable of the loop keeps its type. *)
THEOREM TypeCorrect == Spec => []TypeOK
<1>2. TypeOK /\ [Next]_vars => TypeOK'
  <2> SUFFICES ASSUME TypeOK, [Next]_vars PROVE TypeOK'
    OBVIOUS
  <2> USE DEF TypeOK, LoopPositions, CallerPositions, QuitPositions, loopVars,
              quitVars, loopFrame
  <2>1. CASE LoopStep \/ PollOther
    <3>1. CASE LoopEnter BY <3>1 DEF LoopEnter
    <3>2. CASE LoopCheck BY <3>2 DEF LoopCheck
    <3>3. CASE PollWakeup \/ PollOther BY <3>3 DEF PollWakeup, PollOther, Poll
    <3>4. CASE HandleWakeupRead BY <3>4, Zenon DEF HandleWakeupRead
    <3>5. CASE SwapFunctors BY <3>5 DEF SwapFunctors
    <3>6. CASE FunctorReturn BY <3>6 DEF FunctorReturn
    <3>7. CASE ExecuteDone BY <3>7, Zenon DEF ExecuteDone
    <3>8. CASE StopLooping BY <3>8, Zenon DEF StopLooping
    <3>9. CASE NotifyAll BY <3>9 DEF NotifyAll
    <3> QED BY <2>1, <3>1, <3>2, <3>3, <3>4, <3>5, <3>6, <3>7, <3>8, <3>9 DEF LoopStep
  <2>2. CASE UserQueue
    BY <2>2 DEF UserQueue, QueueInLoopOwn, Push
  <2>3. CASE QuitOwn BY <2>3 DEF QuitOwn
  <2>4. ASSUME NEW c \in Callers, CallerCall(c) \/ CallerStep(c) \/ SpuriousWakeup(c)
        PROVE TypeOK'
    <3>0. ASSUME NEW t \in Tasks, QueueInLoop(c, t) PROVE TypeOK'
      BY <3>0 DEF QueueInLoop, Push
    <3>1. ASSUME NEW t \in Tasks, RunAndWait(c, t) PROVE TypeOK'
      BY <3>1 DEF RunAndWait, Push
    <3>2. CASE QuitCheck(c) BY <3>2 DEF QuitCheck
    <3>3. CASE WakeUp(c) BY <3>3 DEF WakeUp
    <3>4. CASE LatchWait(c) BY <3>4 DEF LatchWait
    <3>5. CASE QuitCas(c) BY <3>5 DEF QuitCas
    <3>6. CASE QuitWakeUp(c) BY <3>6 DEF QuitWakeUp
    <3>7. CASE QuitLock(c) BY <3>7 DEF QuitLock
    <3>8. CASE QuitTest(c)
      <4>1. CASE looping
        <5>1. pc' \in [Callers -> CallerPositions]
          BY <3>8, <4>1, Zenon DEF QuitTest
        <5> QED BY <3>8, <4>1, <5>1, Zenon DEF QuitTest
      <4>2. CASE ~looping
        <5>1. quitReturned' \in SUBSET Callers /\ lock' \in Callers \cup {None}
          BY <3>8, <4>2 DEF QuitTest
        <5>2. pc' \in [Callers -> CallerPositions]
          BY <3>8, <4>2, Zenon DEF QuitTest
        <5> QED BY <3>8, <4>2, <5>1, <5>2, Zenon DEF QuitTest
      <4> QED BY <4>1, <4>2
    <3>9. CASE QuitWait(c) BY <3>9 DEF QuitWait
    <3>10. CASE SpuriousWakeup(c) BY <3>10 DEF SpuriousWakeup
    <3> QED BY <2>4, <3>0, <3>1, <3>2, <3>3, <3>4, <3>5, <3>6, <3>7, <3>8, <3>9, <3>10
            DEF CallerCall, CallerStep
  <2>5. CASE UNCHANGED vars BY <2>5 DEF vars
  <2> QED BY <2>1, <2>2, <2>3, <2>4, <2>5 DEF Next
<1> QED BY InitType, <1>2, PTL DEF Spec

-----------------------------------------------------------------------------
(* The steps of the loop thread keep Inv. *)
LEMMA LoopThreadInv ==
    ASSUME Inv, TypeOK', LoopStep \/ PollOther \/ UserQueue \/ QuitOwn
    PROVE  Inv'
<1> USE DEF Inv, PhaseInv, WakeInv, NoSleepThroughQuit, QuitInv, QuitReturnsStopped,
            FunctorWaiting, TypeOK, loopVars, quitVars, loopFrame, QuitPositions
<1>1. CASE LoopEnter BY <1>1 DEF LoopEnter
<1>2. CASE LoopCheck BY <1>2 DEF LoopCheck
<1>3. CASE PollWakeup \/ PollOther BY <1>3 DEF PollWakeup, PollOther, Poll
<1>4. CASE HandleWakeupRead BY <1>4 DEF HandleWakeupRead
<1>5. CASE SwapFunctors BY <1>5 DEF SwapFunctors
<1>6. CASE FunctorReturn BY <1>6 DEF FunctorReturn
<1>7. CASE ExecuteDone BY <1>7 DEF ExecuteDone
<1>8. CASE StopLooping BY <1>8 DEF StopLooping
<1>9. CASE NotifyAll BY <1>9 DEF NotifyAll
<1>10. ASSUME NEW t \in Tasks, lpc = "created" \/ InUserCode, QueueInLoopOwn(t)
       PROVE Inv'
  <2>1. CASE lpc = "created"
    <3>1. functors' = Append(functors, t) /\ early' = early \cup {t}
      BY <1>10, <2>1 DEF QueueInLoopOwn, Push
    <3>2. FunctorWaiting' => FunctorWaiting
      BY <3>1, SMTT(30)
    <3> HIDE DEF FunctorWaiting, TypeOK
    <3> QED BY <1>10, <2>1, <3>2, ZenonT(30) DEF QueueInLoopOwn
  <2>2. CASE lpc # "created"
    <3> HIDE DEF FunctorWaiting, TypeOK
    <3>1. CASE lpc = "handle"
      BY <1>10, <2>2, <3>1 DEF QueueInLoopOwn
    <3>2. CASE lpc = "run"
      <4>1. callingFunctors BY <3>2
      <4>2. wakeupFd' BY <1>10, <4>1, Zenon DEF QueueInLoopOwn
      <4> QED BY <1>10, <2>2, <3>2, <4>2 DEF QueueInLoopOwn
    <3> QED BY <1>10, <2>2, <3>1, <3>2, Zenon DEF InUserCode
  <2> QED BY <2>1, <2>2
<1>11. CASE QuitOwn BY <1>11 DEF QuitOwn, InUserCode
<1> QED BY <1>1, <1>2, <1>3, <1>4, <1>5, <1>6, <1>7, <1>8, <1>9, <1>10, <1>11, Zenon
        DEF LoopStep, UserQueue

(* The steps of the other threads keep Inv. *)
LEMMA CallerInv ==
    ASSUME Inv, TypeOK', NEW c \in Callers,
           CallerCall(c) \/ CallerStep(c) \/ SpuriousWakeup(c)
    PROVE  Inv'
<1> USE DEF Inv, PhaseInv, WakeInv, NoSleepThroughQuit, QuitInv, QuitReturnsStopped,
            FunctorWaiting, TypeOK, loopVars, quitVars, QuitPositions
<1>1. ASSUME NEW t \in Tasks, QueueInLoop(c, t) PROVE Inv'
  BY <1>1 DEF QueueInLoop, Push
<1>2. ASSUME NEW t \in Tasks, RunAndWait(c, t) PROVE Inv'
  BY <1>2 DEF RunAndWait, Push
<1>3. CASE QuitCheck(c) BY <1>3 DEF QuitCheck
<1>4. CASE WakeUp(c) BY <1>4 DEF WakeUp
<1>5. CASE LatchWait(c) BY <1>5 DEF LatchWait
<1>6. CASE QuitCas(c) BY <1>6 DEF QuitCas
<1>7. CASE QuitWakeUp(c) BY <1>7 DEF QuitWakeUp
<1>8. CASE QuitLock(c) BY <1>8 DEF QuitLock
<1>9. CASE QuitTest(c)
  <2>1. CASE looping BY <1>9, <2>1, SMTT(60) DEF QuitTest
  <2>2. CASE ~looping
    <3>1. lpc \in {"notify", "done"}
      BY <1>9, <2>2 DEF QuitTest, LoopPositions
    <3> QED BY <1>9, <2>2, <3>1 DEF QuitTest
  <2> QED BY <2>1, <2>2
<1>10. CASE QuitWait(c) BY <1>10 DEF QuitWait
<1>11. CASE SpuriousWakeup(c) BY <1>11 DEF SpuriousWakeup
<1> QED BY <1>1, <1>2, <1>3, <1>4, <1>5, <1>6, <1>7, <1>8, <1>9, <1>10, <1>11, Zenon
        DEF CallerCall, CallerStep

(* The inductive invariant of the loop. *)
THEOREM Invariance == Spec => []Inv
<1>1. Init => Inv
  <2> SUFFICES ASSUME Init PROVE PhaseInv /\ WakeInv /\ NoSleepThroughQuit
                                  /\ QuitInv /\ QuitReturnsStopped /\ TypeOK
    BY DEF Inv
  <2>1. TypeOK BY InitType
  <2>2. PhaseInv BY DEF Init, PhaseInv
  <2>3. WakeInv /\ NoSleepThroughQuit BY DEF Init, WakeInv, FunctorWaiting, NoSleepThroughQuit
  <2>4. QuitInv /\ QuitReturnsStopped BY DEF Init, QuitInv, QuitReturnsStopped, QuitPositions
  <2> QED BY <2>1, <2>2, <2>3, <2>4
<1>2. Inv /\ TypeOK' /\ [Next]_vars => Inv'
  <2>1. CASE UNCHANGED vars
    BY <2>1 DEF Inv, PhaseInv, WakeInv, NoSleepThroughQuit, QuitInv,
                QuitReturnsStopped, FunctorWaiting, vars, TypeOK
  <2> QED BY <2>1, LoopThreadInv, CallerInv DEF Next
<1> QED BY <1>1, <1>2, TypeCorrect, PTL DEF Spec

(* QueueInLoop's wakeup is never missing: the loop does not block in the     *)
(* poller with a functor queued and no write of the eventfd made or due.     *)
THEOREM WakeupNeverLost == Spec => []NoSleepOnFunctors
<1>1. Inv => NoSleepOnFunctors BY DEF Inv, WakeInv, NoSleepOnFunctors
<1> QED BY <1>1, Invariance, PTL

(* Quit's wakeup is never missing either. *)
THEOREM QuitWakeupNeverLost == Spec => []NoSleepThroughQuit
<1>1. Inv => NoSleepThroughQuit BY DEF Inv
<1> QED BY <1>1, Invariance, PTL

(* Quit() returns to a thread it made wait only after the last iteration.    *)
THEOREM QuitWaitsForLoop == Spec => []QuitReturnsStopped
<1>1. Inv => QuitReturnsStopped BY DEF Inv
<1> QED BY <1>1, Invariance, PTL

-----------------------------------------------------------------------------
(* Order of the functors, and the refinement of SerialExecutor. *)

(* Moving the head of the second sequence to the end of the first. *)
LEMMA MoveHead ==
    \A a, b \in Seq(Tasks) : b # <<>> => Append(a, Head(b)) \o Tail(b) = a \o b
<1> SUFFICES ASSUME NEW a \in Seq(Tasks), NEW b \in Seq(Tasks), b # <<>>
             PROVE  Append(a, Head(b)) \o Tail(b) = a \o b
  BY Zenon
<1>1. /\ Head(b) \in Tasks /\ Tail(b) \in Seq(Tasks) /\ Append(a, Head(b)) \in Seq(Tasks)
      /\ Append(a, Head(b)) \o Tail(b) \in Seq(Tasks) /\ a \o b \in Seq(Tasks)
  OBVIOUS
<1>2. Len(Append(a, Head(b)) \o Tail(b)) = Len(a \o b)
  BY <1>1
<1>3. \A i \in 1..Len(a \o b) : (Append(a, Head(b)) \o Tail(b))[i] = (a \o b)[i]
  BY <1>1
<1> QED BY <1>1, <1>2, <1>3

(* What the head of the batch is, seen from the history of the queue. *)
LEMMA NextInOrder ==
    \A a, b, c \in Seq(Tasks) :
        b # <<>> => /\ Len(a) < Len(a \o b \o c)
                    /\ (a \o b \o c)[Len(a) + 1] = Head(b)
<1> SUFFICES ASSUME NEW a \in Seq(Tasks), NEW b \in Seq(Tasks), NEW c \in Seq(Tasks), b # <<>>
             PROVE  /\ Len(a) < Len(a \o b \o c)
                    /\ (a \o b \o c)[Len(a) + 1] = Head(b)
  BY Zenon
<1>1. a \o b \in Seq(Tasks) OBVIOUS
<1>2. Len(b) > 0 OBVIOUS
<1>3. (a \o b)[Len(a) + 1] = Head(b)
  BY <1>2
<1> QED BY <1>1, <1>2, <1>3

(* What is put at the end of the queue is at the end of its history. *)
LEMMA PushAtEnd ==
    \A a, b \in Seq(Tasks) : \A t \in Tasks : Append(a \o b, t) = a \o Append(b, t)
<1> TAKE a, b \in Seq(Tasks)
<1> TAKE t \in Tasks
<1>1. /\ a \o b \in Seq(Tasks) /\ Append(b, t) \in Seq(Tasks)
      /\ Append(a \o b, t) \in Seq(Tasks) /\ a \o Append(b, t) \in Seq(Tasks)
  OBVIOUS
<1>2. Len(Append(a \o b, t)) = Len(a \o Append(b, t))
  BY <1>1
<1>3. \A i \in 1..Len(Append(a \o b, t)) : Append(a \o b, t)[i] = (a \o Append(b, t))[i]
  BY <1>1
<1> QED BY <1>1, <1>2, <1>3

(* Functors are neither lost nor duplicated nor reordered between            *)
(* QueueInLoop and the end of their execution.                               *)
THEOREM OrderKept == Spec => [](Inv /\ FunctorsInOrder)
<1>1. Init => FunctorsInOrder
  BY DEF Init, FunctorsInOrder
<1>2. Inv /\ FunctorsInOrder /\ [Next]_vars => FunctorsInOrder'
  <2> SUFFICES ASSUME Inv, FunctorsInOrder, [Next]_vars PROVE FunctorsInOrder'
    OBVIOUS
  <2> USE DEF FunctorsInOrder
  <2>0. /\ functors \in Seq(Tasks) /\ curFunctors \in Seq(Tasks)
        /\ pushed \in Seq(Tasks) /\ ran \in Seq(Tasks)
    BY DEF Inv, TypeOK
  <2>1. ASSUME NEW t \in Tasks, Push(t), UNCHANGED <<curFunctors, ran>>
        PROVE FunctorsInOrder'
    <3>1. /\ pushed' = Append(pushed, t) /\ functors' = Append(functors, t)
          /\ curFunctors' = curFunctors /\ ran' = ran
      BY <2>1 DEF Push
    <3> DEFINE before == ran \o curFunctors
    <3>2. before \in Seq(Tasks) /\ before' = before /\ pushed = before \o functors
      BY <2>0, <3>1
    <3>3. functors \in Seq(Tasks) /\ before \in Seq(Tasks)
      BY <2>0, <3>2
    <3> HIDE DEF before, FunctorsInOrder
    <3>4. Append(before \o functors, t) = before \o Append(functors, t)
      BY <3>3, PushAtEnd, Zenon
    <3>5. pushed' = before \o functors'
      BY <3>1, <3>2, <3>4, Zenon
    <3> QED BY <3>2, <3>5 DEF before, FunctorsInOrder
  <2>2. CASE SwapFunctors
    <3>1. curFunctors = <<>> BY <2>2 DEF Inv, PhaseInv, SwapFunctors
    <3>2. /\ pushed' = pushed /\ ran' = ran
          /\ curFunctors' = functors /\ functors' = <<>>
      BY <2>2 DEF SwapFunctors, loopFrame
    <3>3. ran \o <<>> = ran /\ ran \o functors \o <<>> = ran \o functors
      <4>1. ran \o functors \in Seq(Tasks) BY <2>0
      <4>2. \A s \in Seq(Tasks) : s \o <<>> = s OBVIOUS
      <4> QED BY <2>0, <4>1, <4>2, Zenon
    <3> QED BY <3>1, <3>2, <3>3
  <2>3. CASE FunctorReturn
    <3>1. /\ pushed' = pushed /\ functors' = functors /\ curFunctors # <<>>
          /\ ran' = Append(ran, Head(curFunctors)) /\ curFunctors' = Tail(curFunctors)
      BY <2>3 DEF FunctorReturn, loopFrame
    <3>2. ran' \o curFunctors' = ran \o curFunctors
      BY <2>0, <3>1, MoveHead, Zenon
    <3> QED BY <3>1, <3>2
  <2>4. CASE UNCHANGED <<pushed, ran, curFunctors, functors>>
    BY <2>4
  <2> QED
    <3>1. CASE LoopStep \/ PollOther
      BY <2>2, <2>3, <2>4, <3>1, Zenon
         DEF LoopStep, PollOther, PollWakeup, Poll, LoopEnter, LoopCheck,
             HandleWakeupRead, ExecuteDone, StopLooping, NotifyAll, loopFrame
    <3>2. CASE UserQueue
      BY <2>1, <3>2 DEF UserQueue, QueueInLoopOwn, loopVars
    <3>3. CASE QuitOwn BY <2>4, <3>3 DEF QuitOwn, loopVars
    <3>4. ASSUME NEW c \in Callers, CallerCall(c) \/ CallerStep(c) \/ SpuriousWakeup(c)
          PROVE FunctorsInOrder'
      BY <2>1, <2>4, <3>4, Zenon
         DEF CallerCall, CallerStep, SpuriousWakeup, QueueInLoop, RunAndWait,
             QuitCheck, WakeUp, LatchWait, QuitCas, QuitWakeUp, QuitLock, QuitTest,
             QuitWait, loopVars
    <3>5. CASE UNCHANGED vars BY <2>4, <3>5 DEF vars
    <3> QED BY <3>1, <3>2, <3>3, <3>4, <3>5 DEF Next
<1> QED BY <1>1, <1>2, Invariance, PTL DEF Spec

(* EventLoop implements SerialExecutor: QueueInLoop, from whatever thread,   *)
(* is Submit, the return of a functor is Complete, the rest are stutters.    *)
THEOREM Refinement == Spec => ImplementsExecutor
<1>1. Init => Executor!Init
  BY DEF Init, Executor!Init
<1>2. Inv /\ FunctorsInOrder /\ [Next]_vars => [Executor!Next]_Executor!vars
  <2> SUFFICES ASSUME Inv, FunctorsInOrder, [Next]_vars
               PROVE [Executor!Next]_Executor!vars
    OBVIOUS
  <2>0. /\ functors \in Seq(Tasks) /\ curFunctors \in Seq(Tasks)
        /\ pushed \in Seq(Tasks) /\ ran \in Seq(Tasks)
    BY DEF Inv, TypeOK
  <2>1. ASSUME NEW t \in Tasks, Push(t), UNCHANGED ran
        PROVE Executor!Next
    <3>1. ~Executor!Accepted(t)
      BY <2>0, <2>1 DEF Push, Range, Executor!Accepted
    <3> QED BY <2>1, <3>1 DEF Push, Executor!Next, Executor!Submit
  <2>2. CASE FunctorReturn
    <3>1. Len(ran) < Len(pushed) /\ pushed[Len(ran) + 1] = Head(curFunctors)
      <4>1. curFunctors # <<>> BY <2>2 DEF FunctorReturn
      <4> QED BY <2>0, <4>1, NextInOrder, Zenon DEF FunctorsInOrder
    <3>2. ran' = Append(ran, Head(curFunctors)) /\ pushed' = pushed
      BY <2>2 DEF FunctorReturn, loopFrame
    <3> QED BY <3>1, <3>2 DEF Executor!Next, Executor!Complete
  <2>3. CASE UNCHANGED <<pushed, ran>>
    BY <2>3 DEF Executor!vars
  <2> QED
    <3>1. CASE LoopStep \/ PollOther
      BY <2>2, <2>3, <3>1
         DEF LoopStep, PollOther, PollWakeup, Poll, LoopEnter, LoopCheck, SwapFunctors,
             HandleWakeupRead, ExecuteDone, StopLooping, NotifyAll, loopFrame
    <3>2. CASE UserQueue
      BY <2>1, <3>2 DEF UserQueue, QueueInLoopOwn, loopVars
    <3>3. CASE QuitOwn BY <2>3, <3>3 DEF QuitOwn, loopVars
    <3>4. ASSUME NEW c \in Callers, CallerCall(c) \/ CallerStep(c) \/ SpuriousWakeup(c)
          PROVE [Executor!Next]_Executor!vars
      BY <2>1, <2>3, <3>4
         DEF CallerCall, CallerStep, SpuriousWakeup, QueueInLoop, RunAndWait,
             QuitCheck, WakeUp, LatchWait, QuitCas, QuitWakeUp, QuitLock, QuitTest,
             QuitWait, loopVars
    <3>5. CASE UNCHANGED vars BY <2>3, <3>5 DEF vars
    <3> QED BY <3>1, <3>2, <3>3, <3>4, <3>5 DEF Next
<1> QED BY <1>1, <1>2, OrderKept, PTL DEF Spec, ImplementsExecutor, Executor!Spec
=============================================================================
