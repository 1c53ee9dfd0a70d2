-------------------------- MODULE TcpServerProofs ---------------------------
(***************************************************************************)
(* Proofs about TcpServer, for any number of loops, connections, threads   *)
(* that call Start and ForceClose calls, whether or not the user keeps its *)
(* connections and its handlers close connections of others; where a       *)
(* result depends on that, its formula says so.  The invariant and the     *)
(* first half of the steps are in TcpServerLemmas.                         *)
(***************************************************************************)
EXTENDS TcpServerLemmas

(* ForceCloseInLoop. *)
LEMMA RunForceCloseInv ==
    ASSUME ServerInv, NEW l \in Loops, RunForceClose(l)
    PROVE  ServerInv'
<1> USE DEF ServerInv
<1>0. NextFunctor(l, "forceClose")
  BY DEF RunForceClose
<1>1. PICK f : f = Head(batch[l])
  OBVIOUS
<1>2. /\ UNCHANGED <<keeps, others, threadNums, started, spc, pool, next, dpc, todo, conns, loopOf, lpc, quit, active,
                     forced, listening>>
      /\ Loops' = Loops /\ 0 \in Loops
      /\ lpc[l] = "functors" /\ batch[l] # <<>> /\ batch' = [batch EXCEPT ![l] = Tail(@)]
      /\ f \in Functor /\ f \in Fs(l) /\ f.op = "forceClose" /\ Placed(l, f)
      /\ active[l] = {}
  BY <1>0, <1>1, FunctorRuns, Zenon DEF RunForceClose
<1>3. /\ batch' \in [Loops -> Seq(Functor)] /\ Ordered(Pend(l))
      /\ \A k \in Loops : batch'[k] # <<>> => lpc'[k] = "functors"
  BY <1>0, FunctorRuns, Zenon
<1>4. PICK c \in Conns : c = f.c
  BY <1>2, ConnOfFunctor
<1>5. loopOf[c] = l /\ c \in 1..conns
  BY <1>2, <1>4 DEF Placed
<1>6. /\ state[c] = "kConnected" => HandleClose(l, c)
      /\ state[c] # "kConnected" => UNCHANGED <<map, state, watched, used, removed, kept, queue>>
  BY <1>1, <1>4 DEF RunForceClose, connVars
<1>7. CASE state[c] # "kConnected"
  <2>1. UNCHANGED <<map, state, watched, used, removed, kept, queue>>
    BY <1>6, <1>7
  <2>2. Runs(l) /\ \A k \in Loops : k # l => Pend(k)' = Pend(k)
    BY <1>2, <2>1, BatchRuns, Zenon
  <2>3. /\ Fs(l) = Fs(l)' \cup {f} /\ Ordered(Pend(l)')
        /\ \A k \in Loops : k # l => Fs(k)' = Fs(k)
    BY <1>1, <1>3, <2>2, RunsSet DEF Fs
  <2>4. TypeOK'
    BY <1>2, <1>3, <2>1 DEF TypeOK
  <2>5. LoopsRight'
    BY <1>2, <1>3, <2>1, LoopsStay, Zenon
  <2>6. StartRight'
    <3>1. F("listen", 0) \notin Fs(0) => F("listen", 0) \notin Fs(0)'
      BY <1>2, <2>3
    <3>2. F("listen", 0) \notin Fs(0) => (F("listen", 0) \notin Fs(0))'
      BY <3>1 DEF F
    <3> QED
      BY <1>2, <3>2, Zenon DEF StartRight
  <2>7. FunctorsRight'
    <3>1. \A k \in Loops : Ordered(Pend(k))'
      BY <1>2, <2>2, <2>3, OrderedPrimed DEF FunctorsRight
    <3>2. ASSUME NEW k \in Loops, NEW g \in Fs(k)' PROVE Placed(k, g)' /\ Due(g)'
      <4>1. Placed(k, g) /\ Due(g)
        BY <2>3, <3>2 DEF FunctorsRight
      <4> QED
        BY <1>2, <2>1, <4>1 DEF Placed, Due
    <3> QED
      BY <1>2, <3>1, <3>2 DEF FunctorsRight
  <2>8. \A d \in Conns : ConnRight(d)'
    <3>1. \A k \in Loops : \A g : g.op \in {"remove", "destroy"} => (g \in Fs(k)' <=> g \in Fs(k))
      BY <1>2, <2>3
    <3> QED
      BY <1>2, <2>1, <3>1, ConnsKept
  <2> QED
    BY <2>4, <2>5, <2>6, <2>7, <2>8
<1>8. CASE state[c] = "kConnected"
  <2>0. HandleClose(l, c)
    BY <1>6, <1>8
  <2>1. CloseQueues(l, c) /\ queue' \in [Loops -> Seq(Functor)]
    <3>1. CASE l = 0
      <4>1. queue' = queue
        BY <2>0, <3>1 DEF HandleClose
      <4>2. Runs(l) /\ \A k \in Loops : k # l => Pend(k)' = Pend(k)
        BY <1>2, <4>1, BatchRuns, Zenon
      <4>3. /\ Fs(l) = Fs(l)' \cup {f} /\ Ordered(Pend(l)')
            /\ \A k \in Loops : k # l => Fs(k)' = Fs(k)
        BY <1>1, <1>3, <4>2, RunsSet DEF Fs
      <4>4. \A k \in Loops : Ordered(Pend(k))'
        BY <1>2, <4>2, <4>3, OrderedPrimed DEF FunctorsRight
      <4>5. CloseQueues(l, c)
        BY <1>2, <3>1, <4>3, <4>4 DEF CloseQueues
      <4> QED
        BY <4>1, <4>5 DEF TypeOK
    <3>2. CASE l # 0
      <4>1. PICK h : h = F("remove", c)
        OBVIOUS
      <4>2. queue' = Queued(0, h)
        BY <2>0, <3>2, <4>1 DEF HandleClose
      <4>3. h \in Functor /\ h.op = "remove" /\ h.c = c
        <5>1. c \in 0..MaxConns
          BY ServerAssumption DEF Conns
        <5> QED
          BY <4>1, <5>1, NewFunctor
      <4>4. Runs(l) /\ Joins(0, h) /\ \A k \in Loops : k # l /\ k # 0 => Pend(k)' = Pend(k)
        BY <1>2, <3>2, <4>2, <4>3, BatchRunsAndJoins, Zenon
      <4>5. Ordered(Pend(0)) /\ h \notin Fs(0)
        BY <1>2, <1>8, <4>3, Zenon DEF FunctorsRight, Due
      <4>6. Fs(0)' = Fs(0) \cup {h} /\ Ordered(Pend(0)')
        BY <1>2, <4>3, <4>4, <4>5, JoinsSet, Zenon
      <4>7. /\ Fs(l) = Fs(l)' \cup {f} /\ Ordered(Pend(l)')
            /\ \A k \in Loops : k # l /\ k # 0 => Fs(k)' = Fs(k)
        BY <1>1, <1>3, <4>4, RunsSet, Zenon DEF Fs
      <4>8. \A k \in Loops : Ordered(Pend(k))'
        BY <1>2, <4>4, <4>6, <4>7, OrderedPrimed DEF FunctorsRight
      <4>9. queue' \in [Loops -> Seq(Functor)]
        BY <1>2, <4>2, <4>3, RangeAppend DEF TypeOK, Queued
      <4>10. CloseQueues(l, c)
        <5>1. f.op = "forceClose"
          BY <1>2, Zenon
        <5> QED
          BY <3>2, <4>1, <4>3, <4>6, <4>7, <4>8, <5>1 DEF CloseQueues
      <4> QED
        BY <4>9, <4>10
    <3> QED
      BY <3>1, <3>2
  <2>2. /\ active' \in [Loops -> SUBSET Conns]
        /\ \A k \in Loops : active'[k] \subseteq active[k] /\ c \notin active'[k]
    <3>1. active' = active /\ active[l] = {}
      BY <1>2, Zenon
    <3>2. \A k \in Loops : c \notin active[k]
      BY <1>5, <3>1 DEF LoopsRight
    <3> QED
      BY <3>1, <3>2 DEF TypeOK
  <2>3. lpc[l] # "over"
    BY <1>2
  <2>4. ClosesIn(l, c)
    BY <1>2, <1>3, <1>5, <1>8, <2>0, <2>1, <2>2, <2>3 DEF ClosesIn
  <2> QED
    BY <2>4, CloseInv
<1> QED
  BY <1>7, <1>8

-----------------------------------------------------------------------------
(* A new connection. *)

(* Before it is accepted nothing knows of connection conns + 1. *)
LEMMA FreshConn ==
    ASSUME ServerInv, conns < MaxConns
    PROVE  /\ conns \in Nat /\ conns + 1 \in Conns /\ state[conns + 1] = "none"
           /\ removed[conns + 1] = 0 /\ conns + 1 \notin used \cup kept \cup watched \cup map \cup todo
           /\ \A l \in Loops : \A f \in Fs(l) : f.c # conns + 1
           /\ \A l \in Loops : \A c \in active[l] : c # conns + 1
<1> USE DEF ServerInv
<1>1. conns \in Nat /\ conns + 1 \in Conns /\ conns + 1 > conns
  BY ServerAssumption DEF TypeOK, Conns
<1>2. /\ state[conns + 1] = "none" /\ removed[conns + 1] = 0
      /\ conns + 1 \notin used \cup kept \cup watched
  BY <1>1 DEF ConnRight
<1>3. conns + 1 \notin map \cup todo
  BY <1>1 DEF TypeOK
<1>4. \A l \in Loops : \A f \in Fs(l) : f.c # conns + 1
  <2> SUFFICES ASSUME NEW l \in Loops, NEW f \in Fs(l), f.c = conns + 1 PROVE FALSE
    OBVIOUS
  <2>1. f.c \in 1..conns \/ f.c = 0
    BY DEF FunctorsRight, Placed
  <2> QED
    BY <1>1, <2>1
<1>5. \A l \in Loops : \A c \in active[l] : c # conns + 1
  BY <1>2 DEF LoopsRight, ActiveRight
<1> QED
  BY <1>1, <1>2, <1>3, <1>4, <1>5

(* GetNextLoop gives a loop of the pool. *)
LEMMA NextLoopType == ASSUME TypeOK, threadNums # 0 PROVE next \in IoLoops /\ NextLoop \in IoLoops
<1>1. threadNums \in Nat \ {0} /\ next \in 1..threadNums
  BY BaseLoop DEF TypeOK
<1>2. next % threadNums \in 0..(threadNums - 1)
  BY <1>1
<1> QED
  BY <1>1, <1>2 DEF IoLoops, NextLoop

(* NewConnection keeps the invariant. *)
LEMMA NewConnectionInv ==
    ASSUME ServerInv, NewConnection
    PROVE  ServerInv'
<1> USE DEF ServerInv
<1>1. PICK c : c = conns + 1
  OBVIOUS
<1>2. /\ lpc[0] = "handle" /\ conns < MaxConns /\ conns' = c /\ map' = map \cup {c}
      /\ UNCHANGED <<keeps, others, threadNums, started, spc, pool, listening, dpc, todo, lpc, quit, active, batch,
                     forced, removed>>
  BY <1>1 DEF NewConnection, EstablishConnection, startVars, endVars, loopVars
<1>3. /\ conns \in Nat /\ c \in Conns /\ state[c] = "none" /\ removed[c] = 0
      /\ c \notin used \cup kept \cup watched \cup map \cup todo
      /\ \A l \in Loops : \A f \in Fs(l) : f.c # c
      /\ \A l \in Loops : \A d \in active[l] : d # c
  BY <1>1, <1>2, FreshConn
<1>4. Loops' = Loops /\ 0 \in Loops /\ threadNums \in Nat /\ dpc = "alive"
  <2>1. dpc = "alive"
    BY <1>2 DEF LoopsRight
  <2> QED
    BY <1>2, <2>1, LoopsKept, BaseLoop
<1>5. /\ c \in 1..conns' /\ ~(c > conns') /\ 1..conns \subseteq 1..conns'
      /\ \A d \in Conns \ {c} : (d > conns' <=> d > conns) /\ (d <= conns' <=> d <= conns)
  <2> HIDE DEF ServerInv
  <2>1. conns \in Nat /\ c = conns + 1 /\ conns' = conns + 1
    BY <1>1, <1>2, <1>3
  <2>2. c \in 1..conns' /\ ~(c > conns') /\ 1..conns \subseteq 1..conns'
    BY <2>1
  <2>3. ASSUME NEW d \in Conns \ {c}
        PROVE  (d > conns' <=> d > conns) /\ (d <= conns' <=> d <= conns)
    <3>1. d \in Nat /\ d # conns + 1
      BY <2>1, ConnNumber
    <3> QED
      BY <2>1, <3>1
  <2> QED
    BY <2>2, <2>3
<1>6. /\ \A d \in Conns \ {c} : ConnSame(d) /\ loopOf'[d] = loopOf[d]
      /\ loopOf' \in [Conns -> Loops] /\ (loopOf'[c] = 0 <=> threadNums = 0)
      /\ \/ /\ threadNums = 0 /\ state'[c] = "kConnected" /\ c \in watched' \cap used'
            /\ next' = next /\ queue' = queue
         \/ /\ threadNums # 0 /\ state'[c] = "kConnecting" /\ UNCHANGED <<watched, used, kept>>
            /\ next' \in IoLoops
            /\ loopOf'[c] \in Loops \ {0} /\ queue' = Queued(loopOf'[c], F("establish", c))
      /\ state' \in [Conns -> {"none", "kConnecting", "kConnected", "kDisConnected"}]
      /\ watched' \subseteq used' /\ used' \subseteq Conns /\ kept' \subseteq Conns
  <2>1. CASE threadNums = 0
    <3>1. /\ state' = [state EXCEPT ![c] = "kConnected"] /\ watched' = watched \cup {c}
          /\ used' = used \cup {c} /\ kept' \in {kept, kept \cup {c}} /\ UNCHANGED <<loopOf, next, queue>>
      BY <1>2, <2>1 DEF NewConnection, EstablishConnection
    <3>2. loopOf[c] = 0
      BY <1>3, <2>1 DEF TypeOK, Loops
    <3>3. \A d \in Conns \ {c} : ConnSame(d)
      BY <1>2, <3>1 DEF ConnSame, TypeOK
    <3>4. /\ state' \in [Conns -> {"none", "kConnecting", "kConnected", "kDisConnected"}]
          /\ watched' \subseteq used' /\ used' \subseteq Conns /\ kept' \subseteq Conns
          /\ loopOf' \in [Conns -> Loops] /\ state'[c] = "kConnected"
      BY <1>3, <3>1 DEF TypeOK
    <3> QED
      BY <2>1, <3>1, <3>2, <3>3, <3>4
  <2>2. CASE threadNums # 0
    <3>1. /\ state' = [state EXCEPT ![c] = "kConnecting"] /\ UNCHANGED <<watched, used, kept>>
          /\ loopOf' = [loopOf EXCEPT ![c] = next] /\ next' = NextLoop
          /\ queue' = Queued(next, F("establish", c))
      BY <1>2, <2>2 DEF NewConnection
    <3>2. next \in Loops \ {0} /\ next' \in IoLoops
      BY <1>4, <2>2, <3>1, NextLoopType DEF IoLoops, Loops
    <3>3. \A d \in Conns \ {c} : ConnSame(d) /\ loopOf'[d] = loopOf[d]
      BY <1>2, <3>1 DEF ConnSame, TypeOK
    <3>4. /\ state' \in [Conns -> {"none", "kConnecting", "kConnected", "kDisConnected"}]
          /\ watched' \subseteq used' /\ used' \subseteq Conns /\ kept' \subseteq Conns
          /\ loopOf' \in [Conns -> Loops] /\ state'[c] = "kConnecting" /\ loopOf'[c] = next
      BY <1>3, <3>1, <3>2 DEF TypeOK
    <3> QED
      BY <2>2, <3>1, <3>2, <3>3, <3>4
  <2> QED
    BY <2>1, <2>2
<1>7. PICK l \in Loops : l = loopOf'[c]
  BY <1>3, <1>6, Zenon
<1>8. PICK h : h = F("establish", c)
  OBVIOUS
<1>9. h \in Functor /\ h.op = "establish" /\ h.c = c
  <2>1. c \in 0..MaxConns
    BY <1>3, ConnNumber
  <2> QED
    BY <1>8, <2>1, NewFunctor
<1>10. /\ queue' \in [Loops -> Seq(Functor)]
       /\ \A k \in Loops : Ordered(Pend(k))'
       /\ \A k \in Loops : \A g : g \in Fs(k)' <=> g \in Fs(k) \/ (threadNums # 0 /\ k = l /\ g = h)
  <2>1. CASE threadNums = 0
    <3>1. \A k \in Loops : Pend(k)' = Pend(k) /\ Fs(k)' = Fs(k)
      BY <1>2, <1>6, <2>1, Zenon DEF Pend, Fs
    <3>2. \A k \in Loops : Ordered(Pend(k))'
      BY <1>2, <3>1, OrderedPrimed DEF FunctorsRight
    <3>3. queue' \in [Loops -> Seq(Functor)]
      BY <1>6, <2>1 DEF TypeOK
    <3> QED
      BY <2>1, <3>1, <3>2, <3>3
  <2>2. CASE threadNums # 0
    <3>1. queue' = Queued(l, h) /\ batch' = batch
      BY <1>2, <1>6, <1>7, <1>8, <2>2
    <3>2. Joins(l, h) /\ \A k \in Loops : k # l => Pend(k)' = Pend(k)
      BY <1>9, <3>1, QueueJoins
    <3>3. Ordered(Pend(l)) /\ h \notin Fs(l) /\ \A g \in Fs(l) : g.c # h.c
      BY <1>3, <1>9 DEF FunctorsRight
    <3>4. Fs(l)' = Fs(l) \cup {h} /\ Ordered(Pend(l)') /\ \A k \in Loops : k # l => Fs(k)' = Fs(k)
      BY <1>9, <3>2, <3>3, JoinsSet DEF Fs
    <3>5. \A k \in Loops : Ordered(Pend(k))'
      BY <1>2, <3>2, <3>4, OrderedPrimed DEF FunctorsRight
    <3>6. queue' \in [Loops -> Seq(Functor)]
      BY <1>9, <3>1, RangeAppend DEF TypeOK, Queued
    <3> QED
      BY <2>2, <3>4, <3>5, <3>6
  <2> QED
    BY <2>1, <2>2
<1>11. TypeOK'
  <2>1. next' \in 1..(IF threadNums = 0 THEN 1 ELSE threadNums)
    BY <1>6 DEF TypeOK, IoLoops
  <2>2. map' \subseteq 1..conns' /\ conns' \in 0..MaxConns /\ todo \subseteq map'
    <3>1. map \subseteq 1..conns /\ todo \subseteq map
      BY DEF TypeOK
    <3> HIDE DEF ServerInv
    <3>2. conns' \in 0..MaxConns
      BY <1>2, <1>3, ConnNumber
    <3>3. 1..conns \subseteq 1..conns' /\ c \in 1..conns'
      BY <1>5
    <3> QED
      BY <1>2, <3>1, <3>2, <3>3
  <2> QED
    BY <1>2, <1>4, <1>6, <1>10, <2>1, <2>2, Zenon DEF TypeOK
<1>12. LoopsRight'
  <2>1. \A k \in Loops : \A d \in active[k] : d \in Conns \ {c}
    BY <1>3 DEF TypeOK
  <2>2. \A d \in Conns \ {c} :
           state'[d] = state[d] /\ loopOf'[d] = loopOf[d] /\ (d \in used => d \in used')
    BY <1>6, Zenon DEF ConnSame
  <2> QED
    BY <1>2, <1>4, <2>1, <2>2, LoopsSame
<1>13. StartRight'
  <2>1. F("listen", 0) \notin Fs(0) => F("listen", 0) \notin Fs(0)'
    BY <1>4, <1>9, <1>10 DEF F
  <2>2. F("listen", 0) \notin Fs(0) => (F("listen", 0) \notin Fs(0))'
    BY <2>1 DEF F
  <2> QED
    BY <1>2, <2>2 DEF StartRight
<1>14. FunctorsRight'
  <2>1. ASSUME NEW k \in Loops, NEW g \in Fs(k)' PROVE Placed(k, g)' /\ Due(g)'
    <3>1. CASE g \notin Fs(k)
      <4>1. threadNums # 0 /\ k = l /\ g = h
        BY <1>10, <2>1, <3>1
      <4>2. l # 0 /\ state'[c] = "kConnecting"
        BY <1>6, <1>7, <4>1
      <4> QED
        BY <1>5, <1>7, <1>9, <4>1, <4>2 DEF Placed, Due
    <3>2. CASE g \in Fs(k)
      <4>1. Placed(k, g) /\ Due(g) /\ g.c # c
        BY <1>3, <3>2 DEF FunctorsRight
      <4>2. CASE g.op = "listen"
        BY <1>2, <4>1, <4>2 DEF Placed, Due
      <4>3. CASE g.op # "listen"
        <5>1. g.c \in Conns \ {c} /\ g.c \in 1..conns
          BY <3>2, <4>1, <4>3, ConnOfFunctor
        <5>2. loopOf'[g.c] = loopOf[g.c] /\ ConnSame(g.c) /\ g.c \in 1..conns'
          <6> HIDE DEF ServerInv
          <6>1. 1..conns \subseteq 1..conns'
            BY <1>5
          <6>2. loopOf'[g.c] = loopOf[g.c] /\ ConnSame(g.c)
            BY <1>6, <5>1
          <6> QED
            BY <5>1, <6>1, <6>2
        <5>3. Placed(k, g)'
          BY <4>1, <4>3, <5>2 DEF Placed
        <5>4. Due(g)'
          BY <1>2, <4>1, <4>3, <5>2, Zenon DEF Due, ConnSame
        <5> QED
          BY <5>3, <5>4
      <4> QED
        BY <4>2, <4>3
    <3> QED
      BY <3>1, <3>2
  <2> QED
    BY <1>4, <1>10, <2>1 DEF FunctorsRight
<1>15. \A d \in Conns : ConnRight(d)'
  <2>1. ASSUME NEW d \in Conns, d # c PROVE ConnRight(d)'
    <3>1. PICK k \in Loops : k = loopOf[d]
      BY DEF TypeOK
    <3>2. /\ F("remove", d) \in Fs(0)' <=> F("remove", d) \in Fs(0)
          /\ F("destroy", d) \in Fs(k)' <=> F("destroy", d) \in Fs(k)
      BY <1>4, <1>9, <1>10 DEF F
    <3>3. /\ (F("remove", d) \in Fs(0))' <=> F("remove", d) \in Fs(0)
          /\ (F("destroy", d) \in Fs(loopOf[d]))' <=> F("destroy", d) \in Fs(loopOf[d])
      BY <1>6, <2>1, <3>1, <3>2 DEF F
    <3>4. /\ ConnSame(d) /\ loopOf'[d] = loopOf[d] /\ UNCHANGED <<others, threadNums, dpc, lpc>>
          /\ d > conns' <=> d > conns
          /\ d <= conns' <=> d <= conns
      BY <1>2, <1>5, <1>6, <2>1
    <3>5. ConnRight(d)
      OBVIOUS
    <3>6. WillLeave(d) => WillLeave(d)'
      BY <3>3, <3>4, Zenon DEF WillLeave, ConnSame
    <3> QED
      BY <3>3, <3>4, <3>5, <3>6, Zenon DEF ConnRight, ConnSame
  <2>2. ConnRight(c)'
    <3> HIDE DEF ServerInv
    <3>1. /\ ~(c > conns') /\ (loopOf'[c] = 0 <=> threadNums' = 0) /\ c \in map' /\ c \notin todo'
          /\ removed'[c] = 0 /\ dpc' = "alive"
      <4>1. ~(c > conns')
        BY <1>5
      <4>2. loopOf'[c] = 0 <=> threadNums' = 0
        BY <1>2, <1>6, Zenon
      <4> QED
        BY <1>2, <1>3, <1>4, <4>1, <4>2, Zenon
    <3>2. CASE threadNums = 0
      <4>1. state'[c] = "kConnected" /\ c \in watched' \cap used'
        BY <1>6, <3>2
      <4> QED
        BY <1>2, <3>1, <3>2, <4>1, EstablishedConn
    <3>3. CASE threadNums # 0
      <4>1. state'[c] = "kConnecting" /\ c \notin watched' \cup used' \cup kept'
        BY <1>3, <1>6, <3>3
      <4> QED
        BY <1>2, <3>1, <3>3, <4>1, MadeConn
    <3> QED
      BY <3>2, <3>3
  <2> QED
    BY <2>1, <2>2
<1> QED
  BY <1>11, <1>12, <1>13, <1>14, <1>15

-----------------------------------------------------------------------------
(* The end of the server. *)

(* Once the server is being destroyed little is asked of a connection. *)
LEMMA EndConn ==
    ASSUME NEW c, ConnRight(c), dpc' # "alive", UNCHANGED <<others, threadNums, conns, loopOf>>,
           state'[c] = state[c], removed'[c] = removed[c],
           c \in used' <=> c \in used, c \in kept' <=> c \in kept, c \in watched' <=> c \in watched,
           c \in todo' => /\ dpc' = "destroying" /\ removed[c] = 0
                         /\ (F("destroy", c) \notin Fs(loopOf[c]))',
           c \in used \/ state[c] = "kConnecting" => WillLeave(c)'
    PROVE  ConnRight(c)'
BY DEF ConnRight

(* The functors stay right when the destructor moves on. *)
LEMMA EndFunctor ==
    ASSUME NEW l, NEW g, Placed(l, g), Due(g), dpc' # "alive",
           UNCHANGED <<others, pool, listening, conns, loopOf, state, removed>>
    PROVE  Placed(l, g)' /\ Due(g)'
BY DEF Placed, Due

(* The beginning of the destructor keeps the invariant. *)
LEMMA DestroyServerInv ==
    ASSUME ServerInv, DestroyServer
    PROVE  ServerInv'
<1> USE DEF ServerInv
<1>1. /\ UNCHANGED <<keeps, others, threadNums, started, spc, pool, listening, next, map, conns, loopOf, state, watched,
                     used, removed, kept, lpc, quit, active, batch, queue, forced>>
      /\ dpc = "alive" /\ lpc[0] = "over" /\ dpc' = "destroying" /\ todo' = map
  BY DEF DestroyServer, startVars, connVars, loopVars
<1>2. Loops' = Loops /\ 0 \in Loops
  BY <1>1, LoopsKept, BaseLoop
<1>3. \A k \in Loops : Pend(k)' = Pend(k) /\ Fs(k)' = Fs(k)
  BY <1>1 DEF Pend, Fs
<1>4. TypeOK'
  BY <1>1, <1>2 DEF TypeOK
<1>5. LoopsRight'
  BY <1>1, LoopsEnd
<1>6. StartRight'
  BY <1>1, <1>2, <1>3, StartKept
<1>7. FunctorsRight'
  <2>1. \A k \in Loops : Ordered(Pend(k))'
    BY <1>1, <1>3, OrderedPrimed DEF FunctorsRight
  <2>2. \A k \in Loops : \A g \in Fs(k)' : Placed(k, g)' /\ Due(g)'
    BY <1>1, <1>3, EndFunctor DEF FunctorsRight
  <2> QED
    BY <1>2, <2>1, <2>2 DEF FunctorsRight
<1>8. ASSUME NEW c \in Conns PROVE ConnRight(c)'
  <2>1. PICK l \in Loops : l = loopOf[c]
    BY DEF TypeOK
  <2>2. c \in map => removed[c] = 0
    BY <1>1 DEF ConnRight
  <2>3. ASSUME c \in map PROVE F("destroy", c) \notin Fs(l)
    <3>1. F("destroy", c).op = "destroy" /\ F("destroy", c).c = c
      BY DEF F
    <3> QED
      BY <1>1, <2>3, <3>1 DEF FunctorsRight, Due
  <2>4. c \in map => (F("destroy", c) \notin Fs(loopOf[c]))'
    BY <1>1, <1>3, <2>1, <2>3 DEF F
  <2>5. ASSUME c \in used \/ state[c] = "kConnecting" PROVE WillLeave(c)'
    <3>1. CASE state[c] # "kDisConnected"
      <4>1. ConnRight(c) /\ state[c] \in {"none", "kConnecting", "kConnected", "kDisConnected"}
        BY DEF TypeOK
      <4>2. c \in map
        BY <1>1, <2>5, <3>1, <4>1 DEF ConnRight
      <4> QED
        BY <1>1, <4>2 DEF WillLeave
    <3>2. CASE state[c] = "kDisConnected"
      <4>1. WillLeave(c)
        BY <2>5 DEF ConnRight
      <4>2. /\ (F("remove", c) \in Fs(0))' <=> F("remove", c) \in Fs(0)
            /\ (F("destroy", c) \in Fs(loopOf[c]))' <=> F("destroy", c) \in Fs(loopOf[c])
        BY <1>1, <1>2, <1>3, <2>1 DEF F
      <4>3. c \in todo => c \in map
        BY DEF TypeOK
      <4> QED
        BY <1>1, <3>2, <4>1, <4>2, <4>3 DEF WillLeave
    <3> QED
      BY <3>1, <3>2
  <2> QED
    BY <1>1, <2>2, <2>4, <2>5, EndConn
<1> QED
  BY <1>4, <1>5, <1>6, <1>7, <1>8

(* The end of the loop in the destructor keeps the invariant. *)
LEMMA ConnectionsDestroyedInv ==
    ASSUME ServerInv, ConnectionsDestroyed
    PROVE  ServerInv'
<1> USE DEF ServerInv
<1>1. /\ UNCHANGED <<keeps, others, threadNums, started, spc, pool, listening, next, todo, conns, loopOf, state, watched,
                     used, removed, kept, lpc, quit, active, batch, queue, forced>>
      /\ dpc = "destroying" /\ todo = {} /\ dpc' = "quitting" /\ map' = {}
  BY DEF ConnectionsDestroyed, startVars, connVars, loopVars
<1>2. Loops' = Loops /\ 0 \in Loops
  BY <1>1, LoopsKept, BaseLoop
<1>3. \A k \in Loops : Pend(k)' = Pend(k) /\ Fs(k)' = Fs(k)
  BY <1>1 DEF Pend, Fs
<1>4. TypeOK'
  BY <1>1, <1>2 DEF TypeOK
<1>5. LoopsRight'
  <2>1. lpc[0] = "over"
    BY <1>1 DEF LoopsRight
  <2> QED
    BY <1>1, <2>1, LoopsEnd
<1>6. StartRight'
  BY <1>1, <1>2, <1>3, StartKept
<1>7. FunctorsRight'
  <2>1. \A k \in Loops : Ordered(Pend(k))'
    BY <1>1, <1>3, OrderedPrimed DEF FunctorsRight
  <2>2. \A k \in Loops : \A g \in Fs(k)' : Placed(k, g)' /\ Due(g)'
    BY <1>1, <1>3, EndFunctor DEF FunctorsRight
  <2> QED
    BY <1>2, <2>1, <2>2 DEF FunctorsRight
<1>8. ASSUME NEW c \in Conns PROVE ConnRight(c)'
  <2>1. PICK l \in Loops : l = loopOf[c]
    BY DEF TypeOK
  <2>2. /\ (F("remove", c) \in Fs(0))' <=> F("remove", c) \in Fs(0)
        /\ (F("destroy", c) \in Fs(loopOf[c]))' <=> F("destroy", c) \in Fs(loopOf[c])
    BY <1>1, <1>2, <1>3, <2>1 DEF F
  <2>3. WillLeave(c) => WillLeave(c)'
    BY <1>1, <2>2 DEF WillLeave
  <2>4. c \in used \/ state[c] = "kConnecting" => WillLeave(c)'
    BY <2>3 DEF ConnRight
  <2> QED
    BY <1>1, <2>4, EndConn
<1> QED
  BY <1>4, <1>5, <1>6, <1>7, <1>8

(* What is left of a loop that drops its functors. *)
LEMMA NothingPending ==
    ASSUME NEW l, batch'[l] = <<>>, queue'[l] = <<>>, others' = others
    PROVE  Fs(l)' = {} /\ Ordered(Pend(l))'
<1>1. <<>> \in Seq(Functor) /\ <<>> \o <<>> = <<>>
  OBVIOUS
<1>2. Pend(l)' = <<>>
  BY <1>1 DEF Pend
<1>3. DOMAIN <<>> = {}
  OBVIOUS
<1>4. Fs(l)' = {}
  BY <1>2, <1>3 DEF Fs, Range
<1>5. Ordered(<<>>)
  BY <1>3 DEF Ordered
<1> QED
  BY <1>2, <1>4, <1>5, OrderedPrimed

(* The end of the destructor keeps the invariant. *)
LEMMA ServerDestroyedInv ==
    ASSUME ServerInv, ServerDestroyed
    PROVE  ServerInv'
<1> USE DEF ServerInv
<1>1. /\ UNCHANGED <<keeps, others, threadNums, started, spc, pool, listening, next, map, todo, conns, loopOf, state,
                     watched, used, removed, kept, lpc, quit, active, batch, forced>>
      /\ dpc = "quitting" /\ dpc' = "dead" /\ queue' = [queue EXCEPT ![0] = <<>>]
      /\ \A l \in IoLoops : lpc[l] = "over"
  BY DEF ServerDestroyed, startVars, connVars, loopVars
<1>2. Loops' = Loops /\ 0 \in Loops
  BY <1>1, LoopsKept, BaseLoop
<1>3. batch'[0] = <<>> /\ queue'[0] = <<>> /\ \A k \in Loops : k # 0 => queue'[k] = queue[k]
  <2>1. lpc[0] = "over"
    BY <1>1 DEF LoopsRight
  <2>2. batch[0] = <<>>
    BY <1>2, <2>1 DEF LoopsRight
  <2> QED
    BY <1>1, <1>2, <2>2 DEF TypeOK
<1>4. /\ Fs(0)' = {} /\ Ordered(Pend(0))'
      /\ \A k \in Loops : k # 0 => Pend(k)' = Pend(k) /\ Fs(k)' = Fs(k)
  BY <1>1, <1>3, NothingPending, Zenon DEF Pend, Fs
<1>5. TypeOK'
  <2>0. <<>> \in Seq(Functor)
    OBVIOUS
  <2>1. queue' \in [Loops -> Seq(Functor)]
    BY <1>1, <2>0, Zenon DEF TypeOK
  <2> QED
    BY <1>1, <1>2, <2>1 DEF TypeOK
<1>6. LoopsRight'
  <2>1. lpc[0] = "over" /\ map = {}
    BY <1>1 DEF LoopsRight
  <2> QED
    BY <1>1, <2>1, LoopsEnd
<1>7. StartRight'
  BY <1>1, <1>4 DEF StartRight
<1>8. FunctorsRight'
  <2>1. \A k \in Loops : Ordered(Pend(k))'
    BY <1>1, <1>4, OrderedPrimed DEF FunctorsRight
  <2>2. ASSUME NEW k \in Loops, NEW g \in Fs(k)' PROVE Placed(k, g)' /\ Due(g)'
    BY <1>1, <1>4, <2>2, EndFunctor DEF FunctorsRight
  <2> QED
    BY <1>2, <2>1, <2>2 DEF FunctorsRight
<1>9. ASSUME NEW c \in Conns PROVE ConnRight(c)'
  <2>1. c \notin todo
    BY <1>1 DEF ConnRight
  <2>2. PICK l \in Loops : l = loopOf[c]
    BY DEF TypeOK
  <2>3. CASE l # 0
    <3>1. lpc'[loopOf'[c]] = "over"
      BY <1>1, <2>2, <2>3 DEF Loops, IoLoops
    <3> QED
      BY <1>1, <2>1, <2>2, <2>3, <3>1, EndConn DEF WillLeave
  <2>4. CASE l = 0
    <3>0. /\ F("remove", c).op = "remove" /\ F("remove", c).c = c
          /\ F("destroy", c).op = "destroy"
      BY DEF F
    <3>1. F("remove", c) \notin Fs(0)
      <4>1. ~Placed(0, F("remove", c))
        BY <2>2, <2>4, <3>0 DEF Placed
      <4> QED
        BY <1>2, <4>1, Zenon DEF FunctorsRight
    <3>4. F("destroy", c) \notin Fs(l)
      <4>1. ~Placed(l, F("destroy", c))
        BY <2>4, <3>0 DEF Placed
      <4> QED
        BY <4>1, Zenon DEF FunctorsRight
    <3>2. ~WillLeave(c)
      BY <1>1, <2>1, <2>2, <2>4, <3>1, <3>4 DEF WillLeave
    <3>3. ~(c \in used \/ state[c] = "kConnecting")
      BY <3>2 DEF ConnRight
    <3> QED
      BY <1>1, <2>1, <3>3, EndConn
  <2> QED
    BY <2>3, <2>4
<1> QED
  BY <1>5, <1>6, <1>7, <1>8, <1>9

(* Each turn of the loop in the destructor keeps the invariant. *)
LEMMA DestroyNextInv ==
    ASSUME ServerInv, NEW c \in Conns, DestroyNext(c)
    PROVE  ServerInv'
<1> USE DEF ServerInv
<1>1. /\ UNCHANGED <<keeps, others, threadNums, started, spc, pool, listening, next, map, dpc, conns, loopOf, kept, lpc,
                     quit, active, batch, forced>>
      /\ c \in todo /\ todo' = todo \ {c}
      /\ threadNums = 0 => DestroyConnection({c}) /\ queue' = queue
      /\ threadNums # 0 => /\ queue' = Queued(loopOf[c], F("destroy", c))
                           /\ UNCHANGED <<state, watched, used, removed>>
  BY DEF DestroyNext, startVars, loopVars
<1>2. Loops' = Loops /\ 0 \in Loops
  BY <1>1, LoopsKept, BaseLoop
<1>3. PICK l \in Loops : l = loopOf[c]
  BY DEF TypeOK
<1>4. /\ dpc = "destroying" /\ removed[c] = 0 /\ F("destroy", c) \notin Fs(l)
      /\ c \in 1..conns /\ (l = 0 <=> threadNums = 0) /\ ~(c > conns) /\ state[c] # "none"
  <2>1. dpc = "destroying" /\ removed[c] = 0 /\ F("destroy", c) \notin Fs(l)
    BY <1>1, <1>3 DEF ConnRight
  <2>2. c \in 1..conns /\ conns \in Nat
    BY <1>1, ServerAssumption DEF TypeOK
  <2>3. c <= conns /\ ~(c > conns)
    BY <2>2
  <2> QED
    BY <1>3, <2>1, <2>2, <2>3 DEF ConnRight
<1>5. \A d \in Conns \ {c} : ConnSame(d)
  <2>1. CASE threadNums = 0
    BY <1>1, <2>1 DEF ConnSame, DestroyConnection
  <2>2. CASE threadNums # 0
    BY <1>1, <2>2 DEF ConnSame
  <2> QED
    BY <2>1, <2>2
<1>7. CASE threadNums = 0
  <2>1. /\ DestroyConnection({c}) /\ queue' = queue /\ l = 0
        /\ state'[c] = "kDisConnected" /\ removed'[c] = 1 /\ c \notin watched' \cup used'
    BY <1>1, <1>4, <1>7 DEF DestroyConnection
  <2>2. \A k \in Loops : Pend(k)' = Pend(k) /\ Fs(k)' = Fs(k)
    BY <1>1, <2>1 DEF Pend, Fs
  <2>3. TypeOK'
    <3>1. /\ state' \in [Conns -> {"none", "kConnecting", "kConnected", "kDisConnected"}]
          /\ removed' \in [Conns -> Nat] /\ watched' \subseteq used' /\ used' \subseteq Conns
      BY <2>1, DestroyTypes
    <3> QED
      BY <1>1, <1>2, <2>1, <3>1, Zenon DEF TypeOK
  <2>4. LoopsRight'
    <3>1. \A k \in Loops : active[k] = {}
      <4>1. \A k \in Loops : k = 0
        BY <1>7 DEF Loops
      <4>2. lpc[0] = "over"
        BY <1>4 DEF LoopsRight
      <4> QED
        BY <4>1, <4>2 DEF LoopsRight
    <3>2. \A k \in Loops : batch'[k] # <<>> => lpc'[k] = "functors"
      BY <1>1 DEF LoopsRight
    <3> QED
      BY <1>1, <1>2, <3>1, <3>2, LoopsStay
  <2>5. StartRight'
    BY <1>1, <1>2, <2>2, StartKept
  <2>6. FunctorsRight'
    <3>1. \A k \in Loops : Ordered(Pend(k))'
      BY <1>1, <2>2, OrderedPrimed DEF FunctorsRight
    <3>2. ASSUME NEW k \in Loops, NEW g \in Fs(k)'
          PROVE  (g \in Fs(k) /\ g.c # c) \/ (Placed(k, g)' /\ Due(g)')
      <4> SUFFICES ASSUME g.c = c PROVE Placed(k, g)' /\ Due(g)'
        BY <2>2, <3>2
      <4>1. Placed(k, g) /\ g.op = "forceClose"
        <5>1. Placed(k, g)
          BY <2>2, <3>2 DEF FunctorsRight
        <5> QED
          BY <1>3, <1>4, <2>1, <5>1 DEF Placed
      <4> QED
        BY <1>1, <4>1 DEF Placed, Due
    <3> QED
      BY <1>1, <1>5, <3>1, <3>2, OneConnFunctors
  <2>7. \A d \in Conns : ConnRight(d)'
    <3>1. \A k \in Loops : \A g : g.c # c /\ g.op # "forceClose" => (g \in Fs(k)' <=> g \in Fs(k))
      BY <2>2
    <3>2. ConnRight(c)'
      <4> HIDE DEF ServerInv
      <4>1. c \notin todo' /\ dpc' # "alive" /\ ~(c > conns') /\ (loopOf'[c] = 0 <=> threadNums' = 0)
        BY <1>1, <1>3, <1>4, Zenon
      <4>2. removed'[c] # 0
        BY <2>1
      <4> QED
        BY <2>1, <4>1, <4>2, DestroyedConn, Zenon
    <3> QED
      BY <1>1, <1>5, <3>1, <3>2, OneConn, Zenon
  <2> QED
    BY <2>3, <2>4, <2>5, <2>6, <2>7
<1>8. CASE threadNums # 0
  <2>1. PICK h : h = F("destroy", c)
    OBVIOUS
  <2>2. h \in Functor /\ h.op = "destroy" /\ h.c = c
    <3>1. c \in 0..MaxConns
      BY ConnNumber
    <3> QED
      BY <2>1, <3>1, NewFunctor
  <2>3. queue' = Queued(l, h) /\ UNCHANGED <<state, watched, used, removed>>
    BY <1>1, <1>3, <1>8, <2>1
  <2>4. Joins(l, h) /\ \A k \in Loops : k # l => Pend(k)' = Pend(k)
    BY <1>1, <2>2, <2>3, QueueJoins, Zenon
  <2>5. Ordered(Pend(l)) /\ h \notin Fs(l) /\ l # 0
    BY <1>4, <1>8, <2>1 DEF FunctorsRight
  <2>6. Fs(l)' = Fs(l) \cup {h} /\ Ordered(Pend(l)') /\ \A k \in Loops : k # l => Fs(k)' = Fs(k)
    BY <2>2, <2>4, <2>5, JoinsSet DEF Fs
  <2>7. TypeOK'
    <3>1. queue' \in [Loops -> Seq(Functor)]
      BY <2>2, <2>3, RangeAppend DEF TypeOK, Queued
    <3> QED
      BY <1>1, <1>2, <2>3, <3>1, Zenon DEF TypeOK
  <2>8. LoopsRight'
    <3>1. \A k \in Loops : batch'[k] # <<>> => lpc'[k] = "functors"
      BY <1>1 DEF LoopsRight
    <3> QED
      BY <1>1, <1>2, <2>3, <3>1, LoopsStay
  <2>9. StartRight'
    BY <1>1, <1>2, <2>5, <2>6, StartKept
  <2>10. FunctorsRight'
    <3>1. \A k \in Loops : Ordered(Pend(k))'
      BY <1>1, <2>4, <2>6, OrderedPrimed DEF FunctorsRight
    <3>2. ASSUME NEW k \in Loops, NEW g \in Fs(k)' PROVE Placed(k, g)' /\ Due(g)'
      <4>1. CASE g \in Fs(k)
        <5>1. Placed(k, g) /\ Due(g) /\ dpc' # "alive"
          BY <1>1, <1>4, <4>1 DEF FunctorsRight
        <5> QED
          BY <1>1, <2>3, <5>1, EndFunctor
      <4>2. CASE g \notin Fs(k)
        <5>1. k = l /\ g = h
          BY <2>6, <3>2, <4>2
        <5> QED
          BY <1>1, <1>3, <1>4, <2>2, <2>3, <2>5, <5>1 DEF Placed, Due
      <4> QED
        BY <4>1, <4>2
    <3> QED
      BY <1>2, <3>1, <3>2 DEF FunctorsRight
  <2>11. \A d \in Conns : ConnRight(d)'
    <3>1. \A k \in Loops : \A g : g.c # c /\ g.op # "forceClose" => (g \in Fs(k)' <=> g \in Fs(k))
      BY <2>2, <2>6
    <3>2. ConnRight(c)'
      <4>1. F("destroy", c) \in Fs(l)'
        BY <2>1, <2>6
      <4>2. (F("destroy", c) \in Fs(loopOf[c]))'
        BY <1>1, <1>3, <4>1 DEF F
      <4>3. WillLeave(c)'
        BY <4>2 DEF WillLeave
      <4> QED
        BY <1>1, <1>4, <2>3, <4>3, EndConn
    <3> QED
      BY <1>1, <1>5, <3>1, <3>2, OneConn
  <2> QED
    BY <2>7, <2>8, <2>9, <2>10, <2>11
<1> QED
  BY <1>7, <1>8

(* The loop of the pool that is over drops its functors. *)
LEMMA LoopEndsInv ==
    ASSUME ServerInv, NEW l \in Loops, FunctorsDone(l), l # 0, quit[l]
    PROVE  ServerInv'
<1> USE DEF ServerInv
<1>1. PICK cs : cs = {c \in Conns : /\ RefersTo(queue[l], c)
                                    /\ state[c] # "kDisConnected"
                                    /\ c \notin map \cup kept}
  BY Zenon
<1>2. /\ UNCHANGED <<keeps, others, threadNums, started, spc, pool, listening, next, map, dpc, todo, conns, loopOf, kept,
                     quit, active, batch, forced>>
      /\ lpc[l] = "functors" /\ batch[l] = <<>> /\ lpc' = [lpc EXCEPT ![l] = "over"]
      /\ queue' = [queue EXCEPT ![l] = <<>>] /\ DestroyConnection(cs)
  BY <1>1 DEF FunctorsDone, startVars, endVars
<1>3. Loops' = Loops /\ 0 \in Loops /\ dpc \in {"quitting", "dead"}
  BY <1>2, LoopsKept, BaseLoop DEF LoopsRight
<1>4. /\ Fs(l)' = {} /\ Ordered(Pend(l))'
      /\ \A k \in Loops : k # l => Pend(k)' = Pend(k) /\ Fs(k)' = Fs(k)
  <2>1. batch'[l] = <<>> /\ queue'[l] = <<>> /\ \A k \in Loops : k # l => queue'[k] = queue[k]
    BY <1>2 DEF TypeOK
  <2> QED
    BY <1>2, <2>1, NothingPending, Zenon DEF Pend, Fs
<1>5. ASSUME NEW c \in cs
      PROVE  /\ c \in Conns /\ c \in 1..conns /\ loopOf[c] = l
             /\ state[c] \in {"kConnecting", "kConnected"} /\ removed[c] = 0
  <2>1. c \in Conns /\ RefersTo(queue[l], c) /\ state[c] # "kDisConnected" /\ c \notin map \cup kept
    BY <1>1, <1>5
  <2>2. PICK f \in Range(queue[l]) : f.c = c
    BY <2>1 DEF RefersTo, Range
  <2>3. f \in Fs(l)
    BY PendType
  <2>4. c \in 1..conns /\ loopOf[c] = l
    BY <2>2, <2>3 DEF FunctorsRight, Placed
  <2>5. ~(c > conns)
    BY <2>4, ServerAssumption DEF TypeOK
  <2>6. ConnRight(c) /\ state[c] \in {"none", "kConnecting", "kConnected", "kDisConnected"}
    BY <2>1 DEF TypeOK
  <2>7. state[c] \in {"kConnecting", "kConnected"}
    BY <2>1, <2>5, <2>6 DEF ConnRight
  <2> QED
    BY <2>1, <2>4, <2>6, <2>7 DEF ConnRight
<1>6. /\ \A c \in Conns : c \notin cs => state'[c] = state[c] /\ removed'[c] = removed[c]
      /\ \A c \in cs : state'[c] = "kDisConnected" /\ removed'[c] = 1
      /\ watched' = watched \ cs /\ used' = used \ cs
  <2> HIDE DEF ServerInv
  <2>1. /\ \A c \in Conns : c \notin cs => state'[c] = state[c] /\ removed'[c] = removed[c]
        /\ \A c \in cs : c \in Conns => state'[c] = "kDisConnected" /\ removed'[c] = removed[c] + 1
        /\ watched' = watched \ cs /\ used' = used \ cs
    BY <1>2 DEF DestroyConnection
  <2>2. \A c \in cs : c \in Conns /\ removed[c] = 0
    BY <1>5
  <2>3. \A c \in cs : state'[c] = "kDisConnected" /\ removed'[c] = 1
    BY <2>1, <2>2
  <2> QED
    BY <2>1, <2>2, <2>3
<1>7. TypeOK'
  <2>1. /\ state' \in [Conns -> {"none", "kConnecting", "kConnected", "kDisConnected"}]
        /\ removed' \in [Conns -> Nat]
    BY <1>2, DestroyTypes
  <2>2. lpc' \in [Loops -> {"poll", "handle", "functors", "over"}] /\ queue' \in [Loops -> Seq(Functor)]
    BY <1>2 DEF TypeOK
  <2> QED
    BY <1>2, <1>3, <1>6, <2>1, <2>2 DEF TypeOK
<1>8. LoopsRight'
  <2>1. \A k \in Loops : \A d \in active[k] : d \in Conns /\ loopOf[d] = k
    BY DEF LoopsRight, TypeOK
  <2>2. \A k \in Loops : k # l => \A d \in active[k] :
           state'[d] = state[d] /\ (d \in used => d \in used')
    BY <1>5, <1>6, <2>1
  <2>3. active[l] = {} /\ lpc'[l] = "over" /\ \A k \in Loops : k # l => lpc'[k] = lpc[k]
    <3>1. lpc' = [lpc EXCEPT ![l] = "over"] /\ lpc[l] = "functors"
      BY <1>2
    <3>2. active[l] = {}
      BY <3>1 DEF LoopsRight
    <3>3. lpc \in [Loops -> {"poll", "handle", "functors", "over"}]
      BY DEF TypeOK
    <3> QED
      BY <3>1, <3>2, <3>3
  <2> QED
    BY <1>2, <1>3, <2>2, <2>3, LoopsTurn
<1>9. StartRight'
  BY <1>2, <1>3, <1>4, StartKept
<1>10. FunctorsRight'
  <2>1. \A k \in Loops : Ordered(Pend(k))'
    BY <1>2, <1>4, OrderedPrimed DEF FunctorsRight
  <2>2. ASSUME NEW k \in Loops, NEW g \in Fs(k)' PROVE Placed(k, g)' /\ Due(g)'
    <3>1. k # l /\ g \in Fs(k) /\ Placed(k, g) /\ Due(g)
      BY <1>4, <2>2 DEF FunctorsRight
    <3>2. Placed(k, g)'
      BY <1>2, <3>1 DEF Placed
    <3>3. CASE g.op = "listen"
      BY <1>2, <3>1, <3>3, OtherFunctor
    <3>4. CASE g.op # "listen"
      <4>1. g.c \in Conns
        BY <3>1, <3>4, ConnOfFunctor
      <4>2. g.op \in {"establish", "destroy", "remove"} => g.c \notin cs
        BY <1>5, <3>1 DEF Placed, Due
      <4>3. g.op \in {"establish", "destroy", "remove"}
              => state'[g.c] = state[g.c] /\ removed'[g.c] = removed[g.c]
        BY <1>6, <4>1, <4>2
      <4> QED
        BY <1>2, <1>3, <3>1, <3>2, <3>4, <4>3, Zenon DEF Due
    <3> QED
      BY <3>2, <3>3, <3>4
  <2> QED
    BY <1>3, <2>1, <2>2 DEF FunctorsRight
<1>11. ASSUME NEW c \in Conns PROVE ConnRight(c)'
  <2>1. ConnRight(c) /\ c \notin todo
    BY <1>3 DEF ConnRight
  <2>2. CASE c \notin cs
    <3>1. PICK k \in Loops : k = loopOf[c]
      BY DEF TypeOK
    <3>2. c \in used \/ state[c] = "kConnecting" => WillLeave(c)'
      <4>1. CASE k = l
        <5>1. lpc'[l] = "over"
          BY <1>2 DEF TypeOK
        <5> QED
          BY <1>2, <3>1, <4>1, <5>1 DEF WillLeave
      <4>2. CASE k # l
        <5>1. /\ (F("remove", c) \in Fs(0))' <=> F("remove", c) \in Fs(0)
              /\ (F("destroy", c) \in Fs(loopOf[c]))' <=> F("destroy", c) \in Fs(loopOf[c])
          BY <1>2, <1>3, <1>4, <3>1, <4>2 DEF F
        <5>2. lpc'[k] = lpc[k]
          BY <1>2, <4>2 DEF TypeOK
        <5>3. WillLeave(c) => WillLeave(c)'
          BY <1>2, <1>3, <3>1, <5>1, <5>2 DEF WillLeave
        <5> QED
          BY <2>1, <5>3 DEF ConnRight
      <4> QED
        BY <4>1, <4>2
    <3> QED
      BY <1>2, <1>3, <1>6, <2>1, <2>2, <3>2, EndConn, Zenon
  <2>3. CASE c \in cs
    <3> HIDE DEF ServerInv
    <3>1. /\ c \notin used' /\ c \notin watched' /\ state'[c] = "kDisConnected" /\ removed'[c] = 1
          /\ state[c] # "none"
      BY <1>5, <1>6, <2>3
    <3>2. ~(c > conns) /\ (loopOf[c] = 0 <=> threadNums = 0)
      BY <3>1, KnownConn
    <3> QED
      BY <1>2, <1>3, <2>1, <3>1, <3>2, DestroyedConn
  <2> QED
    BY <2>2, <2>3
<1> QED
  BY <1>7, <1>8, <1>9, <1>10, <1>11

-----------------------------------------------------------------------------
(* The invariant and what follows from it. *)

(* The invariant holds for a server that was just made. *)
LEMMA InitInv == Init => ServerInv
<1> SUFFICES ASSUME Init PROVE ServerInv
  OBVIOUS
<1>1. threadNums \in Nat /\ 0 \in Loops /\ MaxConns \in Nat /\ MaxForced \in Nat
  BY ServerAssumption DEF Init, Loops
<1>2. TypeOK
  <2>1. <<>> \in Seq(Functor)
    OBVIOUS
  <2>2. next \in 1..(IF threadNums = 0 THEN 1 ELSE threadNums)
    BY <1>1 DEF Init
  <2>0. /\ keeps \in BOOLEAN /\ others \in BOOLEAN /\ threadNums \in ThreadNums
        /\ started \in BOOLEAN /\ pool \in BOOLEAN
        /\ spc \in [Starters -> {"idle", "pool", "listen", "done"}]
        /\ dpc \in {"alive", "destroying", "quitting", "dead"}
        /\ map = {} /\ todo = {} /\ listening = 0 /\ conns = 0 /\ forced = 0
    BY Zenon DEF Init
  <2>3. /\ listening \in 0..1 /\ map \subseteq 1..conns /\ conns \in 0..MaxConns
        /\ todo \subseteq map /\ forced \in 0..MaxForced
    BY <1>1, <2>0
  <2>4. /\ loopOf \in [Conns -> Loops]
        /\ state \in [Conns -> {"none", "kConnecting", "kConnected", "kDisConnected"}]
        /\ watched \subseteq used /\ used \subseteq Conns /\ kept \subseteq Conns
        /\ removed \in [Conns -> Nat]
    BY <1>1 DEF Init
  <2>5. /\ lpc \in [Loops -> {"poll", "handle", "functors", "over"}] /\ quit \in [Loops -> BOOLEAN]
        /\ active \in [Loops -> SUBSET Conns]
        /\ queue \in [Loops -> Seq(Functor)] /\ batch \in [Loops -> Seq(Functor)]
    BY <2>1 DEF Init
  <2> QED
    BY <2>0, <2>2, <2>3, <2>4, <2>5, Zenon DEF TypeOK
<1>3. \A l \in Loops : Fs(l) = {} /\ Ordered(Pend(l))
  <2> SUFFICES ASSUME NEW l \in Loops PROVE Fs(l) = {} /\ Ordered(Pend(l))
    OBVIOUS
  <2>1. <<>> \in Seq(Functor) /\ <<>> \o <<>> = <<>> /\ DOMAIN <<>> = {}
    OBVIOUS
  <2>2. Pend(l) = <<>>
    BY <2>1 DEF Init, Pend
  <2> QED
    BY <2>1, <2>2 DEF Fs, Range, Ordered
<1>4. FunctorsRight
  BY <1>3 DEF FunctorsRight
<1>5. LoopsRight
  BY <1>1 DEF Init, LoopsRight
<1>6. StartRight
  BY <1>1, <1>3 DEF Init, StartRight
<1>7. \A c \in Conns : ConnRight(c)
  <2> SUFFICES ASSUME NEW c \in Conns PROVE ConnRight(c)
    OBVIOUS
  <2>1. c > 0 /\ ~(c <= 0)
    BY <1>1 DEF Conns
  <2>2. /\ conns = 0 /\ loopOf[c] = 0 /\ state[c] = "none" /\ removed[c] = 0 /\ todo = {}
        /\ watched = {} /\ used = {} /\ kept = {}
    BY DEF Init
  <2> QED
    BY <2>1, <2>2 DEF ConnRight
<1> QED
  BY <1>2, <1>4, <1>5, <1>6, <1>7 DEF ServerInv

(* The invariant is inductive: one step for each action. *)
LEMMA NextInv == ASSUME ServerInv, [Next]_vars PROVE ServerInv'
<1>1. CASE UNCHANGED vars
  BY <1>1, QuietSteps
<1>2. ASSUME NEW l \in Loops, LoopStep(l) PROVE ServerInv'
  <2>1. CASE Poll(l) \/ ExecuteFunctors(l)
    BY <2>1, QuietSteps
  <2>2. CASE HandleEvent(l)
    BY <2>2, HandleEventInv
  <2>3. CASE RunEstablish(l)
    BY <2>3, RunEstablishInv
  <2>4. CASE RunForceClose(l)
    BY <2>4, RunForceCloseInv
  <2>5. CASE RunDestroy(l)
    BY <2>5, RunDestroyInv
  <2>6. CASE FunctorsDone(l) /\ (l = 0 \/ ~quit[l])
    BY <2>6, QuietSteps
  <2>7. CASE FunctorsDone(l) /\ l # 0 /\ quit[l]
    BY <2>7, LoopEndsInv
  <2> QED
    BY <1>2, <2>1, <2>2, <2>3, <2>4, <2>5, <2>6, <2>7 DEF LoopStep
<1>3. CASE BaseStep
  BY <1>3, RunListenInv, RemoveInv DEF BaseStep
<1>4. CASE NewConnection
  BY <1>4, NewConnectionInv
<1>5. ASSUME NEW t \in Starters, StartStep(t) PROVE ServerInv'
  BY <1>5, StartSteps, QueueListenInv DEF StartStep
<1>6. ASSUME NEW c \in Conns, ForceClose(c) PROVE ServerInv'
  BY <1>6, ForceCloseInv
<1>9. ASSUME NEW c \in Conns, NEW l \in Loops, CloseOther(l, c) PROVE ServerInv'
  BY <1>9, CloseOtherInv
<1>7. CASE QuitBase \/ \E l \in IoLoops : QuitIo(l)
  BY <1>7, QuietSteps
<1>8. CASE EndStep
  BY <1>8, DestroyServerInv, DestroyNextInv, ConnectionsDestroyedInv, ServerDestroyedInv DEF EndStep
<1> QED
  BY <1>1, <1>2, <1>3, <1>4, <1>5, <1>6, <1>7, <1>8, <1>9 DEF Next

(* A connection is established before it is destroyed, is in the poller      *)
(* exactly while it is up or waits for its removal, and each functor that    *)
(* TcpServer and TcpConnection queue for it finds it in the state it was     *)
(* queued for, in the loop it belongs to; this holds for any pool and in any *)
(* order of closes, ForceClose calls and the destructor's steps.             *)
THEOREM ServerInvariant == Spec => []ServerInv
<1>1. Init => ServerInv
  BY InitInv
<1>2. ServerInv /\ [Next]_vars => ServerInv'
  BY NextInv
<1> QED
  BY <1>1, <1>2, PTL DEF Spec

(* A functor that waits holds its connection. *)
LEMMA FunctorHolds ==
    ASSUME TypeOK, NEW l \in Loops, NEW f \in Fs(l)
    PROVE  Alive(f.c)
<1>1. f \in Range(batch[l]) \cup Range(queue[l])
  BY PendType
<1> QED
  BY <1>1 DEF Alive, RefersTo, Range

(* A connection in the poller of a loop that has not ended is there: in      *)
(* connections_, or held by the functor that will take it out.               *)
LEMMA PolledIsAlive ==
    ASSUME ServerInv, NEW c \in Conns, c \in used,
           ~(loopOf[c] # 0 /\ lpc[loopOf[c]] = "over")
    PROVE  Alive(c)
<1>1. /\ ConnRight(c) /\ loopOf[c] \in Loops /\ 0 \in Loops
      /\ state[c] \in {"none", "kConnecting", "kConnected", "kDisConnected"} /\ todo \subseteq map
  BY BaseLoop DEF ServerInv, TypeOK
<1>2. WillLeave(c)
  BY <1>1 DEF ConnRight
<1>3. CASE dpc = "alive" /\ state[c] # "kDisConnected"
  BY <1>1, <1>3 DEF ConnRight, Alive
<1>4. CASE c \in todo
  BY <1>1, <1>4 DEF Alive
<1>5. CASE F("remove", c) \in Fs(0) \/ F("destroy", c) \in Fs(loopOf[c])
  <2>1. F("remove", c).c = c /\ F("destroy", c).c = c
    BY DEF F
  <2> QED
    BY <1>1, <1>5, <2>1, FunctorHolds DEF ServerInv
<1> QED
  BY <1>2, <1>3, <1>4, <1>5 DEF WillLeave

(* tcp_server.cc:116: a loop never comes to a channel in active_channels_    *)
(* whose connection is gone, in a server with a pool and, without one, when  *)
(* no handler closes another's connection.                                   *)
THEOREM NeverDangling == Spec => []NoDangling
<1>1. ServerInv => NoDangling
  <2> SUFFICES ASSUME ServerInv, Orderly, NEW l \in Loops, NEW c \in active[l] PROVE Alive(c)
    BY DEF NoDangling
  <2>1. /\ c \in Conns /\ loopOf[c] = l /\ lpc[l] # "over"
        /\ c \in used
    BY DEF ServerInv, LoopsRight, ActiveRight, TypeOK
  <2> QED
    BY <2>1, PolledIsAlive
<1> QED
  BY <1>1, ServerInvariant, PTL

(* Once TcpConnection::DestroyConnection ran, EstablishConnection never runs *)
(* after it, whoever removes the connection: RemoveConnection, ~TcpServer or *)
(* ~TcpConnection in a loop that ends; and it runs at most once unless       *)
(* handlers close connections of others.                                     *)
THEOREM NeverDestroyedTwice == Spec => []DestroyedOnce
<1>1. ServerInv => DestroyedOnce
  <2> SUFFICES ASSUME ServerInv, NEW c \in Conns
               PROVE  /\ removed[c] > 0 => c \notin used /\ state[c] = "kDisConnected"
                      /\ ~others => removed[c] <= 1
    BY DEF DestroyedOnce
  <2> QED
    BY DEF ServerInv, ConnRight
<1> QED
  BY <1>1, ServerInvariant, PTL

(* channel.cc:22: a connection goes away with its channel in the poller only *)
(* when a loop of the pool ended before it ran the DestroyConnection queued  *)
(* for it; never in a server without a pool.                                 *)
THEOREM ChannelsRemoved == Spec => []RemovedInTime
<1>1. ServerInv => RemovedInTime
  <2> SUFFICES ASSUME ServerInv, NEW c \in 1..conns, ~Alive(c), c \in used
               PROVE  loopOf[c] \in IoLoops /\ lpc[loopOf[c]] = "over"
    BY DEF RemovedInTime
  <2>1. c \in Conns /\ loopOf[c] \in Loops
    BY DEF ServerInv, TypeOK
  <2>2. loopOf[c] # 0 /\ lpc[loopOf[c]] = "over"
    BY <2>1, PolledIsAlive
  <2> QED
    BY <2>1, <2>2 DEF Loops, IoLoops
<1> QED
  BY <1>1, ServerInvariant, PTL

(* tcp_server.cc:111, assert(n == 1): a connection that RemoveConnection-    *)
(* InLoop is to erase is in connections_, and is to be erased once, unless   *)
(* handlers close connections of others.                                     *)
THEOREM ErasesOne == Spec => []ErasedOnce
<1>1. ServerInv => ErasedOnce
  <2> SUFFICES ASSUME ServerInv, ~others, NEW i \in DOMAIN batch[0], batch[0][i].op = "remove"
               PROVE  /\ batch[0][i].c \in map
                      /\ \A j \in DOMAIN batch[0] : batch[0][j] = batch[0][i] => i = j
    BY DEF ErasedOnce
  <2>1. 0 \in Loops /\ batch[0] \in Seq(Functor) /\ queue[0] \in Seq(Functor)
    BY BaseLoop, PendType DEF ServerInv
  <2>2. batch[0] # <<>>
    BY <2>1
  <2>3. dpc = "alive"
    BY <2>1, <2>2 DEF ServerInv, LoopsRight, TypeOK
  <2>4. \A j \in DOMAIN batch[0] : j \in DOMAIN Pend(0) /\ Pend(0)[j] = batch[0][j]
    <3>1. PICK s \in Seq(Functor), t \in Seq(Functor) : s = batch[0] /\ t = queue[0]
      BY <2>1
    <3>2. \A j \in DOMAIN s : j \in DOMAIN (s \o t) /\ (s \o t)[j] = s[j]
      OBVIOUS
    <3> QED
      BY <3>1, <3>2, Zenon DEF Pend
  <2>5. batch[0][i] \in Fs(0)
    BY <2>4 DEF Fs, Range
  <2>6. batch[0][i].c \in map
    BY <2>1, <2>3, <2>5 DEF ServerInv, FunctorsRight, Due
  <2>7. Ordered(Pend(0))
    BY <2>1 DEF ServerInv, FunctorsRight
  <2>8. ASSUME NEW j \in DOMAIN batch[0], batch[0][j] = batch[0][i] PROVE i = j
    BY <2>4, <2>7, <2>8 DEF Ordered, Repeats
  <2> QED
    BY <2>6, <2>8
<1> QED
  BY <1>1, ServerInvariant, PTL

(* tcp_server.h:26: however many threads call Start, the server listens once *)
(* and only after the thread pool was started.                               *)
THEOREM StartListensOnce == Spec => []ListensOnce
<1>1. ServerInv => ListensOnce
  <2> SUFFICES ASSUME ServerInv PROVE ListensOnce
    OBVIOUS
  <2>1. listening \in 0..1
    BY DEF ServerInv, TypeOK
  <2>2. listening = 1 => pool
    BY DEF ServerInv, StartRight
  <2> QED
    BY <2>1, <2>2 DEF ListensOnce
<1> QED
  BY <1>1, ServerInvariant, PTL
=============================================================================
