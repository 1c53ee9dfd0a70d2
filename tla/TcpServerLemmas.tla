-------------------------- MODULE TcpServerLemmas ---------------------------
(***************************************************************************)
(* The invariant of TcpServer, and lemmas about the steps that keep it: those*)
(* of Start, of the rounds of the loops, and of a connection that is       *)
(* established, handled, closed, removed and destroyed.                    *)
(***************************************************************************)
EXTENDS TcpServer, Functions, TLAPS

(* The functors that loop l has still to run, in the order in which it will. *)
Pend(l) == batch[l] \o queue[l]
Fs(l) == Range(Pend(l))

(* A functor is in the loop that is to run it. *)
Placed(l, f) ==
    \/ f.op = "listen" /\ l = 0 /\ f.c = 0
    \/ f.op \in {"establish", "destroy"} /\ l # 0 /\ f.c \in 1..conns /\ loopOf[f.c] = l
    \/ f.op = "forceClose" /\ f.c \in 1..conns /\ loopOf[f.c] = l
    \/ f.op = "remove" /\ l = 0 /\ f.c \in 1..conns /\ loopOf[f.c] # 0

(* What a functor that waits says of the connection (or of the listening). *)
Due(f) ==
    /\ f.op = "listen" => listening = 0 /\ pool
    /\ f.op = "establish" => state[f.c] = "kConnecting"
    /\ f.op = "destroy" => /\ ~others => removed[f.c] = 0
                           /\ dpc = "alive" => f.c \notin map /\ state[f.c] = "kDisConnected"
    /\ f.op = "remove" => /\ state[f.c] = "kDisConnected"
                          /\ dpc = "alive" /\ ~others => f.c \in map /\ removed[f.c] = 0

(* ForceClose may wait twice for a connection and, when handlers close       *)
(* connections of others, so may its removal.                                *)
Repeats(f) == f.op = "forceClose" \/ (others /\ f.op \in {"remove", "destroy"})

(* Nothing else waits twice, and a connection is established before it is    *)
(* destroyed.                                                                *)
Ordered(fs) ==
    \A i, j \in DOMAIN fs :
        /\ fs[i] = fs[j] /\ ~Repeats(fs[i]) => i = j
        /\ i < j /\ fs[i].op = "destroy" /\ fs[j].op = "establish" => fs[i].c # fs[j].c

FunctorsRight ==
    \A l \in Loops : Ordered(Pend(l)) /\ \A f \in Fs(l) : Placed(l, f) /\ Due(f)

(* A connection that a loop has an event for was up when it polled, and is   *)
(* still up, or at least still in the poller.                                *)
ActiveRight(c) ==
    /\ state[c] \in {"kConnected", "kDisConnected"}
    /\ ~others => state[c] = "kConnected"
    /\ Orderly => c \in used

(* Handlers and functors run in their phases of the loop; the loops of the   *)
(* pool are quit, and connections_ is empty, only late in ~TcpServer, when   *)
(* the server's loop has ended.                                              *)
LoopsRight ==
    /\ \A l \in Loops :
         /\ active[l] # {} => lpc[l] = "handle"
         /\ batch[l] # <<>> => lpc[l] = "functors"
         /\ \A c \in active[l] : loopOf[c] = l /\ ActiveRight(c)
         /\ l # 0 /\ quit[l] => dpc \in {"quitting", "dead"}
    /\ dpc # "alive" => lpc[0] = "over"
    /\ dpc \in {"quitting", "dead"} => map = {}

(* A connection that is in the poller, or will be, has a functor that will   *)
(* take it out once it is down or the server is destroyed, until its loop    *)
(* ends.                                                                     *)
WillLeave(c) ==
    \/ dpc = "alive" /\ state[c] # "kDisConnected"
    \/ c \in todo
    \/ F("remove", c) \in Fs(0) \/ F("destroy", c) \in Fs(loopOf[c])
    \/ loopOf[c] # 0 /\ lpc[loopOf[c]] = "over"

(* The life of a connection. *)
ConnRight(c) ==
    /\ state[c] = "none" <=> c > conns
    /\ c <= conns => (loopOf[c] = 0 <=> threadNums = 0)
    /\ state[c] \in {"none", "kConnecting"} => c \notin used \cup kept /\ removed[c] = 0
    /\ state[c] = "kConnecting" => threadNums # 0
    /\ state[c] = "kConnected" => c \in used /\ removed[c] = 0
    /\ c \in watched <=> state[c] = "kConnected"
    /\ ~others => removed[c] \in 0..1
    /\ removed[c] # 0 => c \notin used /\ state[c] = "kDisConnected" /\ (dpc = "alive" => c \notin map)
    /\ dpc = "alive" /\ state[c] \in {"kConnecting", "kConnected"} => c \in map
    /\ threadNums = 0 /\ state[c] = "kDisConnected" => c \notin used
    /\ c \in todo => /\ dpc = "destroying" /\ removed[c] = 0
                     /\ F("destroy", c) \notin Fs(loopOf[c])
    /\ c \in used \/ state[c] = "kConnecting" => WillLeave(c)

(* One thread at most is on its way through Start to the one Listen. *)
StartRight ==
    /\ \A t \in Starters : spc[t] # "idle" => started
    /\ \A t, u \in Starters : spc[t] \in {"pool", "listen"} /\ spc[u] \in {"pool", "listen"} => t = u
    /\ (~started \/ \E t \in Starters : spc[t] \in {"pool", "listen"})
         => listening = 0 /\ F("listen", 0) \notin Fs(0)
    /\ \A t \in Starters : spc[t] = "listen" => pool
    /\ listening = 1 => pool

ServerInv ==
    TypeOK /\ StartRight /\ FunctorsRight /\ LoopsRight /\ \A c \in Conns : ConnRight(c)

-----------------------------------------------------------------------------
(* Sequences of functors. *)

(* The functors of two queues one after the other. *)
LEMMA RangeConcat ==
    ASSUME NEW s \in Seq(Functor), NEW t \in Seq(Functor)
    PROVE  /\ s \o t \in Seq(Functor)
           /\ Range(s \o t) = Range(s) \cup Range(t)
<1> DEFINE u == s \o t
           m == Len(s)
           n == Len(t)
<1>1. /\ u \in Seq(Functor) /\ m \in Nat /\ n \in Nat
      /\ DOMAIN s = 1..m /\ DOMAIN t = 1..n /\ Len(u) = m + n
      /\ \A i \in 1..(m + n) : u[i] = IF i <= m THEN s[i] ELSE t[i - m]
  OBVIOUS
<1>2. DOMAIN u = 1..(m + n)
  BY <1>1
<1> HIDE DEF u, m, n
<1>3. \A i \in 1..m : i \in 1..(m + n) /\ u[i] = s[i]
  BY <1>1
<1>4. \A i \in 1..n : m + i \in 1..(m + n) /\ u[m + i] = t[i]
  BY <1>1
<1>5. \A i \in 1..(m + n) : i \notin 1..m => i - m \in 1..n /\ u[i] = t[i - m]
  BY <1>1
<1>6. Range(u) = Range(s) \cup Range(t)
  <2>1. \A x \in Range(u) : x \in Range(s) \cup Range(t)
    BY <1>1, <1>2, <1>3, <1>5, Zenon DEF Range
  <2>2. \A x \in Range(s) : x \in Range(u)
    BY <1>1, <1>2, <1>3 DEF Range
  <2>3. ASSUME NEW x \in Range(t) PROVE x \in Range(u)
    <3>1. PICK i \in 1..n : x = t[i]
      BY <1>1 DEF Range
    <3>2. m + i \in DOMAIN u /\ u[m + i] = x
      BY <1>2, <1>4, <3>1
    <3> QED
      BY <3>2 DEF Range
  <2> QED
    BY <2>1, <2>2, <2>3
<1> QED
  BY <1>1, <1>6 DEF u

(* The functors of a queue with one more. *)
LEMMA RangeAppend ==
    ASSUME NEW s \in Seq(Functor), NEW f \in Functor
    PROVE  /\ Append(s, f) \in Seq(Functor)
           /\ Range(Append(s, f)) = Range(s) \cup {f}
           /\ DOMAIN Append(s, f) = DOMAIN s \cup {Len(s) + 1}
           /\ Append(s, f)[Len(s) + 1] = f
           /\ \A i \in DOMAIN s : i < Len(s) + 1 /\ Append(s, f)[i] = s[i]
<1> DEFINE t == Append(s, f)
           n == Len(s)
<1>1. /\ t \in Seq(Functor) /\ n \in Nat /\ DOMAIN s = 1..n /\ Len(t) = n + 1 /\ t[n + 1] = f
      /\ \A i \in 1..n : t[i] = s[i]
  OBVIOUS
<1>2. DOMAIN t = 1..(n + 1)
  BY <1>1
<1> HIDE DEF t, n
<1>3. DOMAIN t = DOMAIN s \cup {n + 1} /\ \A i \in DOMAIN s : i < n + 1
  BY <1>1, <1>2
<1>4. Range(t) = Range(s) \cup {f}
  BY <1>1, <1>3 DEF Range
<1> QED
  BY <1>1, <1>3, <1>4 DEF t, n

(* A functor joins: it is a new one, or may wait twice. *)
LEMMA OrderedAppend ==
    ASSUME NEW s \in Seq(Functor), NEW f \in Functor, Ordered(s),
           Repeats(f) \/ f \notin Range(s),
           f.op = "establish" => \A g \in Range(s) : g.op = "destroy" => g.c # f.c
    PROVE  Ordered(Append(s, f))
<1> DEFINE t == Append(s, f)
           n == Len(s) + 1
<1>1. /\ DOMAIN t = DOMAIN s \cup {n} /\ t[n] = f
      /\ \A i \in DOMAIN s : i < n /\ t[i] = s[i] /\ s[i] \in Range(s)
      /\ n \in Nat /\ \A i \in DOMAIN s : i \in Nat
  BY RangeAppend DEF Range
<1> HIDE DEF t, n
<1>2. ASSUME NEW i \in DOMAIN t, NEW j \in DOMAIN t, t[i] = t[j], ~Repeats(t[i])
      PROVE  i = j
  BY <1>1, <1>2 DEF Ordered
<1>3. ASSUME NEW i \in DOMAIN t, NEW j \in DOMAIN t, i < j, t[i].op = "destroy", t[j].op = "establish"
      PROVE  t[i].c # t[j].c
  <2>1. i \in DOMAIN s
    BY <1>1, <1>3
  <2> QED
    BY <1>1, <1>3, <2>1 DEF Ordered
<1> QED
  BY <1>2, <1>3 DEF Ordered, t

(* Ordered of the next queue, with the prime where a proof needs it. *)
LEMMA OrderedPrimed ==
    ASSUME NEW l, others' = others
    PROVE  Ordered(Pend(l))' <=> Ordered(Pend(l)')
BY DEF Ordered, Repeats

(* The first functor is run. *)
LEMMA OrderedTail ==
    ASSUME NEW s \in Seq(Functor), s # <<>>, Ordered(s)
    PROVE  /\ Tail(s) \in Seq(Functor) /\ Head(s) \in Range(s) /\ Head(s) \in Functor
           /\ Ordered(Tail(s))
           /\ Range(s) = Range(Tail(s)) \cup {Head(s)}
           /\ ~Repeats(Head(s)) => Head(s) \notin Range(Tail(s))
           /\ Head(s).op = "destroy"
                => \A g \in Range(Tail(s)) : g.op = "establish" => g.c # Head(s).c
<1> DEFINE t == Tail(s)
           n == Len(s)
<1>1. /\ t \in Seq(Functor) /\ n \in Nat \ {0} /\ DOMAIN s = 1..n /\ Len(t) = n - 1
      /\ Head(s) = s[1] /\ Head(s) \in Functor
      /\ \A i \in 1..(n - 1) : t[i] = s[i + 1]
  OBVIOUS
<1>2. DOMAIN t = 1..(n - 1)
  BY <1>1
<1> HIDE DEF t, n
<1>3. \A i \in DOMAIN t : i \in Nat /\ i + 1 \in DOMAIN s /\ 1 < i + 1 /\ t[i] = s[i + 1]
  BY <1>1, <1>2
<1>4. \A i \in DOMAIN s : i # 1 => i - 1 \in DOMAIN t /\ t[i - 1] = s[i]
  BY <1>1, <1>2
<1>5. 1 \in DOMAIN s
  BY <1>1
<1>6. Range(s) = Range(t) \cup {s[1]}
  BY <1>3, <1>4, <1>5 DEF Range
<1>7. Ordered(t)
  <2>1. ASSUME NEW i \in DOMAIN t, NEW j \in DOMAIN t, t[i] = t[j], ~Repeats(t[i])
        PROVE  i = j
    <3>1. i + 1 = j + 1
      BY <1>3, <2>1 DEF Ordered
    <3> QED
      BY <1>3, <3>1
  <2>2. ASSUME NEW i \in DOMAIN t, NEW j \in DOMAIN t, i < j, t[i].op = "destroy", t[j].op = "establish"
        PROVE  t[i].c # t[j].c
    <3>1. i + 1 < j + 1
      BY <1>3, <2>2
    <3> QED
      BY <1>3, <2>2, <3>1 DEF Ordered
  <2> QED
    BY <2>1, <2>2 DEF Ordered
<1>8. ~Repeats(s[1]) => s[1] \notin Range(t)
  <2> SUFFICES ASSUME NEW i \in DOMAIN t, t[i] = s[1], ~Repeats(s[1]) PROVE FALSE
    BY DEF Range
  <2>1. s[i + 1] = s[1] /\ i + 1 \in DOMAIN s /\ 1 < i + 1
    BY <1>3
  <2>2. i + 1 = 1
    BY <1>5, <2>1 DEF Ordered
  <2> QED
    BY <2>1, <2>2
<1>9. s[1].op = "destroy" => \A g \in Range(t) : g.op = "establish" => g.c # s[1].c
  BY <1>3, <1>5 DEF Ordered, Range
<1> QED
  BY <1>1, <1>5, <1>6, <1>7, <1>8, <1>9 DEF t, Range

(* The first functor of two queues is that of the first, when there is one. *)
LEMMA ConcatTail ==
    ASSUME NEW s \in Seq(Functor), NEW t \in Seq(Functor), s # <<>>
    PROVE  s \o t # <<>> /\ Head(s \o t) = Head(s) /\ Tail(s \o t) = Tail(s) \o t
<1>1. /\ Len(s) \in Nat \ {0} /\ Len(t) \in Nat
      /\ s \o t \in Seq(Functor) /\ Len(s \o t) = Len(s) + Len(t)
      /\ \A i \in 1..(Len(s) + Len(t)) : (s \o t)[i] = IF i <= Len(s) THEN s[i] ELSE t[i - Len(s)]
      /\ Tail(s) \in Seq(Functor) /\ Len(Tail(s)) = Len(s) - 1 /\ Head(s) = s[1]
      /\ \A i \in 1..(Len(s) - 1) : Tail(s)[i] = s[i + 1]
  OBVIOUS
<1>2. s \o t # <<>>
  BY <1>1
<1> DEFINE u == Tail(s \o t)
           v == Tail(s) \o t
           m == Len(s)
           n == Len(t)
<1>3. /\ u \in Seq(Functor) /\ Len(u) = m + n - 1 /\ Head(s \o t) = (s \o t)[1]
      /\ \A i \in 1..(m + n - 1) : u[i] = (s \o t)[i + 1]
  BY <1>1, <1>2
<1>4. /\ v \in Seq(Functor) /\ Len(v) = (m - 1) + n
      /\ \A i \in 1..((m - 1) + n) : v[i] = IF i <= m - 1 THEN Tail(s)[i] ELSE t[i - (m - 1)]
  BY <1>1
<1> HIDE DEF u, v
<1>5. ASSUME NEW i \in 1..(m + n - 1) PROVE u[i] = v[i]
  <2>1. u[i] = IF i + 1 <= m THEN s[i + 1] ELSE t[i + 1 - m]
    BY <1>1, <1>3
  <2>2. v[i] = IF i <= m - 1 THEN s[i + 1] ELSE t[i + 1 - m]
    BY <1>1, <1>4
  <2> QED
    BY <1>1, <2>1, <2>2
<1>6. u = v
  BY <1>1, <1>3, <1>4, <1>5
<1>7. (s \o t)[1] = s[1]
  BY <1>1
<1> QED
  BY <1>1, <1>2, <1>3, <1>6, <1>7 DEF u, v

(* A functor queued last is last of all that wait. *)
LEMMA ConcatAppend ==
    ASSUME NEW s \in Seq(Functor), NEW t \in Seq(Functor), NEW f \in Functor
    PROVE  s \o Append(t, f) = Append(s \o t, f)
<1>1. <<f>> \in Seq(Functor) /\ Append(t, f) = t \o <<f>> /\ s \o t \in Seq(Functor)
  OBVIOUS
<1>2. Append(s \o t, f) = (s \o t) \o <<f>>
  BY <1>1
<1> QED
  BY <1>1, <1>2

-----------------------------------------------------------------------------
(* How steps change what is pending. *)

(* What waits in a loop is its batch and then its queue. *)
LEMMA PendType ==
    ASSUME TypeOK, NEW l \in Loops
    PROVE  /\ queue[l] \in Seq(Functor) /\ batch[l] \in Seq(Functor)
           /\ Pend(l) \in Seq(Functor)
           /\ Fs(l) = Range(batch[l]) \cup Range(queue[l])
           /\ Fs(l) \subseteq Functor
<1>1. queue[l] \in Seq(Functor) /\ batch[l] \in Seq(Functor)
  BY DEF TypeOK
<1>2. Pend(l) \in Seq(Functor) /\ Fs(l) = Range(batch[l]) \cup Range(queue[l])
  BY <1>1, RangeConcat DEF Pend, Fs
<1>3. Fs(l) \subseteq Functor
  BY <1>2 DEF Fs, Range
<1> QED
  BY <1>1, <1>2, <1>3

(* A functor is queued in loop l. *)
Joins(l, f) == Pend(l)' = Append(Pend(l), f)
(* The first functor of loop l is run. *)
Runs(l) == /\ Pend(l) # <<>> /\ batch[l] # <<>> /\ Head(Pend(l)) = Head(batch[l])
           /\ Pend(l)' = Tail(Pend(l))

(* QueueInLoop adds a functor at the end of one loop and nowhere else. *)
LEMMA QueueJoins ==
    ASSUME TypeOK, NEW l \in Loops, NEW f \in Functor, queue' = Queued(l, f), batch' = batch
    PROVE  Joins(l, f) /\ \A k \in Loops : k # l => Pend(k)' = Pend(k)
<1>1. queue'[l] = Append(queue[l], f) /\ \A k \in Loops : k # l => queue'[k] = queue[k]
  BY DEF TypeOK, Queued
<1>2. queue[l] \in Seq(Functor) /\ batch[l] \in Seq(Functor)
  BY PendType
<1>3. batch[l] \o Append(queue[l], f) = Append(batch[l] \o queue[l], f)
  BY <1>2, ConcatAppend, Zenon
<1>4. Joins(l, f)
  BY <1>1, <1>3, Zenon DEF Joins, Pend
<1> QED
  BY <1>1, <1>4, Zenon DEF Pend

(* The functor that runs is the first that waits, in one loop only. *)
LEMMA BatchRuns ==
    ASSUME TypeOK, NEW l \in Loops, batch[l] # <<>>, batch' = [batch EXCEPT ![l] = Tail(@)],
           queue' = queue
    PROVE  Runs(l) /\ \A k \in Loops : k # l => Pend(k)' = Pend(k)
<1>1. batch'[l] = Tail(batch[l]) /\ \A k \in Loops : k # l => batch'[k] = batch[k]
  BY DEF TypeOK
<1>2. queue[l] \in Seq(Functor) /\ batch[l] \in Seq(Functor)
  BY PendType
<1>3. /\ batch[l] \o queue[l] # <<>> /\ Head(batch[l] \o queue[l]) = Head(batch[l])
      /\ Tail(batch[l] \o queue[l]) = Tail(batch[l]) \o queue[l]
  BY <1>2, ConcatTail, Zenon
<1>4. Runs(l)
  BY <1>1, <1>3, Zenon DEF Runs, Pend
<1> QED
  BY <1>1, <1>4, Zenon DEF Pend

(* A functor runs in one loop and queues another in a second loop. *)
LEMMA BatchRunsAndJoins ==
    ASSUME TypeOK, NEW l \in Loops, batch[l] # <<>>, batch' = [batch EXCEPT ![l] = Tail(@)],
           NEW k \in Loops, k # l, NEW f \in Functor, queue' = Queued(k, f)
    PROVE  Runs(l) /\ Joins(k, f) /\ \A j \in Loops : j # l /\ j # k => Pend(j)' = Pend(j)
<1>1. /\ batch'[l] = Tail(batch[l]) /\ \A j \in Loops : j # l => batch'[j] = batch[j]
      /\ queue'[k] = Append(queue[k], f) /\ \A j \in Loops : j # k => queue'[j] = queue[j]
  BY DEF TypeOK, Queued
<1>2. /\ queue[l] \in Seq(Functor) /\ batch[l] \in Seq(Functor)
      /\ queue[k] \in Seq(Functor) /\ batch[k] \in Seq(Functor)
  BY PendType
<1>3. /\ batch[l] \o queue[l] # <<>> /\ Head(batch[l] \o queue[l]) = Head(batch[l])
      /\ Tail(batch[l] \o queue[l]) = Tail(batch[l]) \o queue[l]
  BY <1>2, ConcatTail, Zenon
<1>4. Runs(l)
  BY <1>1, <1>3, Zenon DEF Runs, Pend
<1>5. batch[k] \o Append(queue[k], f) = Append(batch[k] \o queue[k], f)
  BY <1>2, ConcatAppend, Zenon
<1>6. Joins(k, f)
  BY <1>1, <1>5, Zenon DEF Joins, Pend
<1> QED
  BY <1>1, <1>4, <1>6, Zenon DEF Pend

(* What this means for the set of pending functors and for their order. *)
LEMMA JoinsSet ==
    ASSUME TypeOK, NEW l \in Loops, Ordered(Pend(l)), NEW f \in Functor, Joins(l, f)
    PROVE  /\ Fs(l)' = Fs(l) \cup {f}
           /\ (Repeats(f) \/ f \notin Fs(l))
              /\ (f.op = "establish" => \A g \in Fs(l) : g.op = "destroy" => g.c # f.c)
                => Ordered(Pend(l)')
BY PendType, RangeAppend, OrderedAppend DEF Joins, Fs

(* A functor that may not wait twice waits no more when it runs, and no      *)
(* "establish" is left behind the "destroy" of its connection.               *)
LEMMA RunsSet ==
    ASSUME TypeOK, NEW l \in Loops, Ordered(Pend(l)), Runs(l)
    PROVE  LET f == Head(batch[l])
           IN /\ f \in Functor /\ f \in Fs(l) /\ Fs(l) = Fs(l)' \cup {f}
              /\ ~Repeats(f) => f \notin Fs(l)'
              /\ f.op = "destroy" => \A g \in Fs(l)' : g.op = "establish" => g.c # f.c
              /\ Ordered(Pend(l)')
BY PendType, OrderedTail DEF Runs, Fs

-----------------------------------------------------------------------------
(* Steps that touch no connection and leave the functors as they are. *)

PendSame == \A k \in Loops : Pend(k)' = Pend(k)

(* The loops stay the same when the number of threads does. *)
LEMMA LoopsKept ==
    ASSUME threadNums' = threadNums
    PROVE  Loops' = Loops /\ IoLoops' = IoLoops
BY DEF Loops, IoLoops

(* The base loop is a loop. *)
LEMMA BaseLoop == TypeOK => 0 \in Loops /\ threadNums \in Nat
BY ServerAssumption DEF TypeOK, Loops

(* A step that moves no functor and touches no connection keeps the          *)
(* invariant.                                                                *)
LEMMA QuietInv ==
    ASSUME ServerInv, PendSame, pool => pool',
           \A k \in Loops : lpc[k] = "over" => lpc'[k] = "over",
           UNCHANGED <<keeps, others, threadNums, listening, map, dpc, todo, conns, loopOf, state, watched, used, removed,
                       kept>>,
           TypeOK', LoopsRight', StartRight'
    PROVE  ServerInv'
<1>1. Loops' = Loops /\ 0 \in Loops
  BY LoopsKept, BaseLoop DEF ServerInv
<1>2. \A k \in Loops : Fs(k)' = Fs(k)
  BY DEF PendSame, Fs
<1>3. \A l, f : Placed(l, f) /\ Due(f) => Placed(l, f)' /\ Due(f)'
  BY DEF Placed, Due
<1>4. FunctorsRight'
  BY <1>1, <1>2, <1>3, OrderedPrimed DEF ServerInv, FunctorsRight, PendSame
<1>5. ASSUME NEW c \in Conns PROVE ConnRight(c)'
  <2>1. ConnRight(c) /\ loopOf[c] \in Loops
    BY DEF ServerInv, TypeOK
  <2>2. /\ (F("remove", c) \in Fs(0))' <=> F("remove", c) \in Fs(0)
        /\ (F("destroy", c) \in Fs(loopOf[c]))' <=> F("destroy", c) \in Fs(loopOf[c])
    BY <1>1, <1>2, <2>1 DEF F
  <2>3. WillLeave(c) => WillLeave(c)'
    BY <2>1, <2>2 DEF WillLeave
  <2> QED
    BY <2>1, <2>2, <2>3 DEF ConnRight
<1> QED
  BY <1>4, <1>5 DEF ServerInv

-----------------------------------------------------------------------------
(* How steps change the phases of the loops. *)

(* The connections whose events a loop handles. *)
LEMMA ActiveConns ==
    ASSUME LoopsRight, NEW l \in Loops, NEW c \in active[l]
    PROVE  loopOf[c] = l /\ ActiveRight(c)
BY DEF LoopsRight

(* A connection whose state stays, and that stays in the poller. *)
LEMMA ActiveStays ==
    ASSUME NEW c, ActiveRight(c), UNCHANGED <<others, threadNums>>, state'[c] = state[c],
           c \in used => c \in used'
    PROVE  ActiveRight(c)'
BY DEF ActiveRight, Orderly

(* The phases of the loops, when a handler or a functor runs. *)
LEMMA LoopsRun ==
    ASSUME LoopsRight, Loops' = Loops, UNCHANGED <<lpc, quit, dpc, loopOf>>,
           \A k \in Loops : active'[k] \subseteq active[k],
           \A k \in Loops : batch'[k] # <<>> => lpc'[k] = "functors",
           \A k \in Loops : \A d \in active'[k] : ActiveRight(d)',
           dpc \in {"quitting", "dead"} => map' = map
    PROVE  LoopsRight'
BY DEF LoopsRight

(* The same, when those with an event stay as they are. *)
LEMMA LoopsStay ==
    ASSUME LoopsRight, Loops' = Loops, UNCHANGED <<others, threadNums, lpc, quit, dpc, loopOf>>,
           \A k \in Loops : active'[k] \subseteq active[k],
           \A k \in Loops : batch'[k] # <<>> => lpc'[k] = "functors",
           \A k \in Loops : \A d \in active'[k] : state'[d] = state[d] /\ (d \in used => d \in used'),
           dpc \in {"quitting", "dead"} => map' = map
    PROVE  LoopsRight'
<1>1. ASSUME NEW k \in Loops, NEW d \in active'[k] PROVE ActiveRight(d)'
  <2>1. ActiveRight(d)
    BY <1>1, ActiveConns
  <2> QED
    BY <1>1, <2>1, ActiveStays
<1> QED
  BY <1>1, LoopsRun

(* The phases of the loops, when no loop moves on. *)
LEMMA LoopsSame ==
    ASSUME LoopsRight, UNCHANGED <<others, threadNums, lpc, quit, active, batch, dpc>>,
           \A k \in Loops : \A d \in active[k] :
               state'[d] = state[d] /\ loopOf'[d] = loopOf[d] /\ (d \in used => d \in used'),
           dpc \in {"quitting", "dead"} => map' = map
    PROVE  LoopsRight'
<1>1. ASSUME NEW k \in Loops, NEW d \in active[k] PROVE loopOf'[d] = k /\ ActiveRight(d)'
  <2>1. loopOf[d] = k /\ ActiveRight(d)
    BY <1>1, ActiveConns
  <2> QED
    BY <1>1, <2>1, ActiveStays
<1> QED
  BY <1>1 DEF LoopsRight, Loops

(* The phases of the loops, when one of them moves on. *)
LEMMA LoopsTurn ==
    ASSUME LoopsRight, UNCHANGED <<others, threadNums, quit, dpc, loopOf, map>>, 0 \in Loops,
           NEW l \in Loops, lpc[l] # "over",
           \A k \in Loops : k # l => lpc'[k] = lpc[k] /\ active'[k] = active[k] /\ batch'[k] = batch[k],
           \A k \in Loops : k # l => \A d \in active[k] : state'[d] = state[d] /\ (d \in used => d \in used'),
           active'[l] # {} => lpc'[l] = "handle",
           batch'[l] # <<>> => lpc'[l] = "functors",
           \A d \in active'[l] : loopOf[d] = l /\ ActiveRight(d)'
    PROVE  LoopsRight'
<1>1. Loops' = Loops
  BY DEF Loops
<1>2. dpc' # "alive" => lpc'[0] = "over"
  <2>1. dpc # "alive" => lpc[0] = "over"
    BY DEF LoopsRight
  <2> QED
    BY <2>1
<1>3. ASSUME NEW k \in Loops, NEW c \in active'[k] PROVE loopOf'[c] = k /\ ActiveRight(c)'
  <2>1. CASE k = l
    BY <1>3, <2>1
  <2>2. CASE k # l
    <3>1. c \in active[k]
      BY <1>3, <2>2
    <3>2. loopOf[c] = k /\ ActiveRight(c)
      BY <3>1, ActiveConns
    <3> QED
      BY <2>2, <3>1, <3>2, ActiveStays
  <2> QED
    BY <2>1, <2>2
<1>4. \A k \in Loops :
        /\ active'[k] # {} => lpc'[k] = "handle"
        /\ batch'[k] # <<>> => lpc'[k] = "functors"
        /\ k # 0 /\ quit'[k] => dpc' \in {"quitting", "dead"}
  BY DEF LoopsRight
<1> QED
  BY <1>1, <1>2, <1>3, <1>4 DEF LoopsRight

(* The phases of the loops, when one of them is told to quit. *)
LEMMA LoopsQuit ==
    ASSUME LoopsRight, UNCHANGED <<others, threadNums, lpc, active, batch, dpc, loopOf, state, used, map>>, NEW l,
           \A k \in Loops : k # l => quit'[k] = quit[k],
           l = 0 \/ dpc = "quitting"
    PROVE  LoopsRight'
BY DEF LoopsRight, Loops, ActiveRight, Orderly

(* The phases of the loops, when the destructor moves on. *)
LEMMA LoopsEnd ==
    ASSUME LoopsRight, UNCHANGED <<others, threadNums, lpc, quit, active, batch, loopOf, state, used>>,
           lpc[0] = "over", dpc \in {"quitting", "dead"} => dpc' \in {"quitting", "dead"},
           dpc' \in {"quitting", "dead"} => map' = {}
    PROVE  LoopsRight'
BY DEF LoopsRight, Loops, ActiveRight, Orderly

(* What is said of a functor does not change with the phases of the loops. *)
LEMMA SameFunctor ==
    ASSUME UNCHANGED <<others, listening, pool, dpc, conns, loopOf, state, removed, map>>, NEW l, NEW g,
           Placed(l, g), Due(g)
    PROVE  Placed(l, g)' /\ Due(g)'
BY DEF Placed, Due

(* Connections have numbers from one. *)
LEMMA ConnNumber == \A c \in Conns : c \in 0..MaxConns /\ c \in Nat /\ c # 0
BY ServerAssumption DEF Conns

(* A connection that is in some state was made. *)
LEMMA KnownConn ==
    ASSUME ServerInv, NEW c \in Conns, state[c] # "none"
    PROVE  /\ c \in 1..conns /\ c <= conns /\ ~(c > conns)
           /\ loopOf[c] = 0 <=> threadNums = 0
<1>1. ConnRight(c) /\ conns \in Nat /\ c \in Nat /\ c # 0
  BY ConnNumber, ServerAssumption DEF ServerInv, TypeOK
<1>2. ~(c > conns)
  BY <1>1 DEF ConnRight
<1>3. c \in 1..conns /\ c <= conns
  BY <1>1, <1>2
<1> QED
  BY <1>1, <1>2, <1>3 DEF ConnRight

(* DestroyConnection keeps the types. *)
LEMMA DestroyTypes ==
    ASSUME TypeOK, NEW cs, DestroyConnection(cs)
    PROVE  /\ state' \in [Conns -> {"none", "kConnecting", "kConnected", "kDisConnected"}]
           /\ removed' \in [Conns -> Nat] /\ watched' \subseteq used' /\ used' \subseteq Conns
<1>1. state \in [Conns -> {"none", "kConnecting", "kConnected", "kDisConnected"}]
  BY DEF TypeOK
<1>2. removed \in [Conns -> Nat]
  BY DEF TypeOK
<1>3. watched \subseteq used /\ used \subseteq Conns
  BY DEF TypeOK
<1> HIDE DEF TypeOK
<1>4. state' \in [Conns -> {"none", "kConnecting", "kConnected", "kDisConnected"}]
  BY <1>1 DEF DestroyConnection
<1>5. removed' \in [Conns -> Nat]
  BY <1>2 DEF DestroyConnection
<1>6. watched' \subseteq used' /\ used' \subseteq Conns
  BY <1>3 DEF DestroyConnection
<1> QED
  BY <1>4, <1>5, <1>6

-----------------------------------------------------------------------------
(* Start and the rounds of the loops. *)

(* Start keeps the invariant until it queues Listen. *)
LEMMA StartSteps ==
    ASSUME ServerInv, NEW t \in Starters, Start(t) \/ PoolStart(t)
    PROVE  ServerInv'
<1>1. /\ UNCHANGED <<keeps, others, threadNums, listening, next, map, dpc, todo, conns, loopOf, state, watched, used,
                     removed, kept, lpc, quit, active, batch, queue, forced>>
      /\ \A u \in Starters : u # t => spc'[u] = spc[u]
      /\ spc' = [spc EXCEPT ![t] = spc'[t]]
      /\ \/ /\ spc[t] = "idle" /\ spc'[t] = IF started THEN "done" ELSE "pool"
            /\ started' = TRUE /\ pool' = pool
         \/ /\ spc[t] = "pool" /\ spc'[t] = "listen" /\ started' = started /\ pool' = TRUE
  BY DEF Start, PoolStart, connVars, loopVars, endVars, ServerInv, TypeOK
<1>2. Loops' = Loops /\ 0 \in Loops /\ PendSame
  BY <1>1, LoopsKept, BaseLoop DEF ServerInv, PendSame, Pend
<1>3. TypeOK'
  BY <1>1, <1>2, Zenon DEF ServerInv, TypeOK
<1>4. LoopsRight'
  BY <1>1, LoopsSame DEF ServerInv
<1>5. StartRight'
  <2>1. Fs(0)' = Fs(0)
    BY <1>2 DEF PendSame, Fs
  <2>2. (F("listen", 0) \notin Fs(0))' <=> F("listen", 0) \notin Fs(0)
    BY <2>1 DEF F
  <2>3. StartRight /\ started \in BOOLEAN
    BY DEF ServerInv, TypeOK
  <2>4. \A u \in Starters : spc'[u] # "idle" => started'
    BY <1>1, <2>3 DEF StartRight
  <2>5. \A u, v \in Starters :
           spc'[u] \in {"pool", "listen"} /\ spc'[v] \in {"pool", "listen"} => u = v
    BY <1>1, <2>3 DEF StartRight
  <2>6. (~started' \/ \E u \in Starters : spc'[u] \in {"pool", "listen"})
          => listening = 0 /\ F("listen", 0) \notin Fs(0)
    BY <1>1, <2>3 DEF StartRight
  <2>7. /\ \A u \in Starters : spc'[u] = "listen" => pool'
        /\ listening = 1 => pool'
    BY <1>1, <2>3 DEF StartRight
  <2> QED
    BY <1>1, <2>2, <2>4, <2>5, <2>6, <2>7 DEF StartRight
<1>6. pool => pool'
  BY <1>1, Zenon
<1> QED
  BY <1>1, <1>2, <1>3, <1>4, <1>5, <1>6, QuietInv

(* The same start of Start when what it looks at has not changed. *)
LEMMA StartKept ==
    ASSUME StartRight, UNCHANGED <<started, spc, pool, listening>>, Fs(0)' = Fs(0)
    PROVE  StartRight'
BY DEF StartRight, F

(* The rounds of the loops and Quit keep the invariant. *)
LEMMA QuietSteps ==
    ASSUME ServerInv,
           \/ \E l \in Loops : \/ Poll(l) \/ ExecuteFunctors(l)
                               \/ FunctorsDone(l) /\ (l = 0 \/ ~quit[l])
           \/ QuitBase \/ (\E l \in IoLoops : QuitIo(l)) \/ UNCHANGED vars
    PROVE  ServerInv'
<1> USE DEF ServerInv
<1>1. UNCHANGED <<keeps, others, threadNums, started, spc, pool, listening, next, map, dpc, todo, conns, loopOf, state,
                  watched, used, removed, kept, forced>>
  BY Zenon DEF Poll, ExecuteFunctors, FunctorsDone, QuitBase, QuitIo, vars, startVars, connVars, endVars
<1>2. Loops' = Loops /\ IoLoops' = IoLoops /\ 0 \in Loops /\ IoLoops \subseteq Loops
      /\ \A l \in IoLoops : l # 0
  BY <1>1, LoopsKept, BaseLoop DEF Loops, IoLoops
<1>3. PendSame /\ TypeOK' /\ LoopsRight'
  <2>1. ASSUME NEW l \in Loops, Poll(l) PROVE PendSame /\ TypeOK' /\ LoopsRight'
    <3>1. /\ lpc[l] = "poll" /\ lpc' = [lpc EXCEPT ![l] = "handle"] /\ UNCHANGED <<quit, batch, queue>>
      BY <2>1 DEF Poll
    <3>2. PICK cs \in SUBSET {c \in watched : loopOf[c] = l} : active' = [active EXCEPT ![l] = cs]
      BY <2>1, Zenon DEF Poll
    <3>3. /\ cs \subseteq Conns
          /\ \A c \in cs : loopOf[c] = l /\ state[c] = "kConnected" /\ c \in used
      BY DEF TypeOK, ConnRight
    <3>4. TypeOK'
      BY <1>1, <1>2, <3>1, <3>2, <3>3 DEF TypeOK
    <3>5. LoopsRight'
      <4>1. /\ lpc'[l] = "handle" /\ active'[l] = cs /\ batch[l] = <<>>
            /\ \A k \in Loops : k # l => lpc'[k] = lpc[k] /\ active'[k] = active[k]
        BY <3>1, <3>2 DEF TypeOK, LoopsRight
      <4>2. \A c \in cs : ActiveRight(c)'
        BY <1>1, <3>3 DEF ActiveRight
      <4> QED
        BY <1>1, <1>2, <3>1, <3>3, <4>1, <4>2, LoopsTurn
    <3> QED
      BY <3>1, <3>4, <3>5 DEF PendSame, Pend
  <2>2. ASSUME NEW l \in Loops, ExecuteFunctors(l) PROVE PendSame /\ TypeOK' /\ LoopsRight'
    <3>1. /\ lpc[l] = "handle" /\ active[l] = {} /\ lpc' = [lpc EXCEPT ![l] = "functors"]
          /\ batch' = [batch EXCEPT ![l] = queue[l]] /\ queue' = [queue EXCEPT ![l] = <<>>]
          /\ UNCHANGED <<quit, active>>
      BY <2>2 DEF ExecuteFunctors
    <3>2. batch[l] = <<>> /\ <<>> \in Seq(Functor)
      BY <3>1 DEF LoopsRight
    <3>3. <<>> \o queue[l] = queue[l] \o <<>>
      BY PendType
    <3>4. PendSame
      BY <3>1, <3>2, <3>3, Zenon DEF PendSame, Pend, TypeOK
    <3>5. TypeOK'
      BY <1>1, <1>2, <3>1, <3>2 DEF TypeOK
    <3>6. LoopsRight'
      <4>1. /\ lpc'[l] = "functors" /\ active'[l] = {}
            /\ \A k \in Loops : k # l => lpc'[k] = lpc[k] /\ batch'[k] = batch[k]
        BY <3>1 DEF TypeOK
      <4> QED
        BY <1>1, <1>2, <3>1, <4>1, LoopsTurn
    <3> QED
      BY <3>4, <3>5, <3>6
  <2>3. ASSUME NEW l \in Loops, FunctorsDone(l), l = 0 \/ ~quit[l]
        PROVE  PendSame /\ TypeOK' /\ LoopsRight'
    <3>1. /\ lpc[l] = "functors" /\ batch[l] = <<>>
          /\ \E to \in {"over", "poll"} : lpc' = [lpc EXCEPT ![l] = to]
          /\ UNCHANGED <<quit, active, batch, queue>>
      BY <2>3 DEF FunctorsDone
    <3>2. PICK to \in {"over", "poll"} : lpc' = [lpc EXCEPT ![l] = to]
      BY <3>1, Zenon
    <3>3. TypeOK'
      <4>1. lpc' \in [Loops -> {"poll", "handle", "functors", "over"}]
        BY <3>2 DEF TypeOK
      <4> QED
        BY <1>1, <1>2, <3>1, <4>1 DEF TypeOK
    <3>4. LoopsRight'
      <4>1. \A k \in Loops : k # l => lpc'[k] = lpc[k]
        BY <3>2 DEF TypeOK
      <4>2. active[l] = {}
        BY <3>1 DEF LoopsRight
      <4> QED
        BY <1>1, <1>2, <3>1, <4>1, <4>2, LoopsTurn
    <3> QED
      BY <3>1, <3>3, <3>4 DEF PendSame, Pend
  <2>4. CASE QuitBase
    <3>1. quit' = [quit EXCEPT ![0] = TRUE] /\ UNCHANGED <<lpc, active, batch, queue>>
      BY <2>4 DEF QuitBase
    <3>2. TypeOK'
      <4>1. quit' \in [Loops -> BOOLEAN]
        BY <1>2, <3>1 DEF TypeOK
      <4> QED
        BY <1>1, <1>2, <3>1, <4>1 DEF TypeOK
    <3>3. LoopsRight'
      <4>1. \A k \in Loops : k # 0 => quit'[k] = quit[k]
        BY <3>1 DEF TypeOK
      <4> QED
        BY <1>1, <3>1, <4>1, LoopsQuit, Zenon
    <3> QED
      BY <3>1, <3>2, <3>3 DEF PendSame, Pend
  <2>5. ASSUME NEW l \in IoLoops, QuitIo(l) PROVE PendSame /\ TypeOK' /\ LoopsRight'
    <3>1. /\ quit' = [quit EXCEPT ![l] = TRUE] /\ UNCHANGED <<lpc, active, batch, queue>>
          /\ dpc = "quitting"
      BY <2>5 DEF QuitIo
    <3>2. TypeOK'
      <4>1. quit' \in [Loops -> BOOLEAN]
        BY <1>2, <3>1 DEF TypeOK
      <4> QED
        BY <1>1, <1>2, <3>1, <4>1 DEF TypeOK
    <3>3. LoopsRight'
      <4>1. \A k \in Loops : k # l => quit'[k] = quit[k]
        BY <3>1 DEF TypeOK
      <4> QED
        BY <1>1, <3>1, <4>1, LoopsQuit, Zenon
    <3> QED
      BY <3>1, <3>2, <3>3 DEF PendSame, Pend
  <2>6. CASE UNCHANGED vars
    <3>1. UNCHANGED <<lpc, quit, active, batch, queue>>
      BY <2>6 DEF vars, loopVars, endVars
    <3>2. PendSame
      BY <3>1 DEF PendSame, Pend
    <3>3. TypeOK'
      BY <1>1, <1>2, <3>1 DEF TypeOK
    <3>4. LoopsRight'
      BY <1>1, <3>1, LoopsSame
    <3> QED
      BY <3>2, <3>3, <3>4
  <2> QED
    BY <2>1, <2>2, <2>3, <2>4, <2>5, <2>6
<1>4. StartRight'
  <2>1. Fs(0)' = Fs(0)
    BY <1>2, <1>3 DEF PendSame, Fs
  <2> QED
    BY <1>1, <2>1, StartKept
<1>5. \A k \in Loops : lpc[k] = "over" => lpc'[k] = "over"
  <2>1. \/ \E l \in Loops : \E to : lpc[l] # "over" /\ lpc' = [lpc EXCEPT ![l] = to]
        \/ lpc' = lpc
    BY DEF Poll, ExecuteFunctors, FunctorsDone, QuitBase, QuitIo, vars, loopVars
  <2>2. lpc \in [Loops -> {"poll", "handle", "functors", "over"}]
    BY DEF TypeOK
  <2> QED
    BY <2>1, <2>2
<1> QED
  BY <1>1, <1>3, <1>4, <1>5, QuietInv

-----------------------------------------------------------------------------
(* Steps that queue or run a functor and touch no connection. *)

(* What the code queues are functors. *)
LEMMA NewFunctor == \A op \in {"listen", "establish", "forceClose", "remove", "destroy"} :
                       \A c \in 0..MaxConns : /\ F(op, c) \in Functor
                                             /\ F(op, c).op = op /\ F(op, c).c = c
BY DEF F, Functor

(* What is pending does not matter for the types, the phases and the         *)
(* connections but for the functors that take connections out of the poller. *)
LEMMA ConnsKept ==
    ASSUME ServerInv,
           UNCHANGED <<keeps, others, threadNums, map, dpc, todo, conns, loopOf, lpc, state, watched, used,
                       removed, kept>>,
           \A l \in Loops : \A f : f.op \in {"remove", "destroy"} => (f \in Fs(l)' <=> f \in Fs(l))
    PROVE  \A c \in Conns : ConnRight(c)'
<1> SUFFICES ASSUME NEW c \in Conns PROVE ConnRight(c)'
  OBVIOUS
<1>1. ConnRight(c) /\ loopOf[c] \in Loops /\ 0 \in Loops
  BY BaseLoop DEF ServerInv, TypeOK
<1>2. PICK l \in Loops : l = loopOf[c]
  BY <1>1
<1>3. /\ F("remove", c) \in Fs(0)' <=> F("remove", c) \in Fs(0)
      /\ F("destroy", c) \in Fs(l)' <=> F("destroy", c) \in Fs(l)
  BY <1>1 DEF F
<1>4. /\ (F("remove", c) \in Fs(0))' <=> F("remove", c) \in Fs(0)
      /\ (F("destroy", c) \in Fs(loopOf[c]))' <=> F("destroy", c) \in Fs(loopOf[c])
  BY <1>2, <1>3 DEF F
<1> QED
  BY <1>1, <1>4 DEF ConnRight, WillLeave

(* Queueing Listen keeps the invariant. *)
LEMMA QueueListenInv ==
    ASSUME ServerInv, NEW t \in Starters, QueueListen(t)
    PROVE  ServerInv'
<1> USE DEF ServerInv
<1> DEFINE f == F("listen", 0)
<1>1. /\ UNCHANGED <<keeps, others, threadNums, started, pool, listening, next, map, dpc, todo, conns, loopOf, state,
                     watched, used, removed, kept, lpc, quit, active, batch, forced>>
      /\ spc[t] = "listen" /\ spc' = [spc EXCEPT ![t] = "done"] /\ queue' = Queued(0, f)
  BY DEF QueueListen, connVars, loopVars, endVars
<1>2. Loops' = Loops /\ 0 \in Loops /\ f \in Functor /\ f.op = "listen" /\ f.c = 0
  BY <1>1, LoopsKept, BaseLoop, NewFunctor, ServerAssumption
<1> HIDE DEF f
<1>3. Joins(0, f) /\ \A k \in Loops : k # 0 => Pend(k)' = Pend(k)
  BY <1>1, <1>2, QueueJoins
<1>4. Ordered(Pend(0)) /\ f \notin Fs(0) /\ listening = 0 /\ pool
  BY <1>1, <1>2 DEF FunctorsRight, StartRight, f
<1>5. Fs(0)' = Fs(0) \cup {f} /\ Ordered(Pend(0)') /\ \A k \in Loops : k # 0 => Fs(k)' = Fs(k)
  BY <1>2, <1>3, <1>4, JoinsSet DEF Fs
<1>6. TypeOK'
  <2>1. queue' \in [Loops -> Seq(Functor)]
    BY <1>1, <1>2, RangeAppend DEF TypeOK, Queued
  <2> QED
    BY <1>1, <1>2, <2>1 DEF TypeOK
<1>7. LoopsRight'
  BY <1>1, LoopsSame
<1>8. StartRight'
  <2>1. \A u \in Starters : spc'[u] \notin {"pool", "listen"} /\ (spc'[u] # "idle" => started')
    BY <1>1 DEF StartRight, TypeOK
  <2>2. started'
    BY <1>1 DEF StartRight
  <2> QED
    BY <1>1, <1>4, <2>1, <2>2 DEF StartRight
<1>9. FunctorsRight'
  <2>1. \A l, g : Placed(l, g) /\ Due(g) => Placed(l, g)' /\ Due(g)'
    BY <1>1, SameFunctor
  <2>2. Placed(0, f)' /\ Due(f)'
    BY <1>1, <1>2, <1>4 DEF Placed, Due
  <2>3. ASSUME NEW l \in Loops
        PROVE  Ordered(Pend(l))' /\ \A g \in Fs(l)' : Placed(l, g)' /\ Due(g)'
    BY <1>1, <1>3, <1>5, <2>1, <2>2, OrderedPrimed DEF FunctorsRight
  <2> QED
    BY <1>2, <2>3 DEF FunctorsRight
<1>10. \A c \in Conns : ConnRight(c)'
  <2>1. \A k \in Loops : \A g : g.op \in {"remove", "destroy"} => (g \in Fs(k)' <=> g \in Fs(k))
    BY <1>2, <1>5
  <2> QED
    BY <1>1, <2>1, ConnsKept
<1> QED
  BY <1>6, <1>7, <1>8, <1>9, <1>10

(* ForceClose of any thread keeps the invariant. *)
LEMMA ForceCloseInv ==
    ASSUME ServerInv, NEW c \in Conns, ForceClose(c)
    PROVE  ServerInv'
<1> USE DEF ServerInv
<1> DEFINE f == F("forceClose", c)
<1>0. PICK l \in Loops : l = loopOf[c]
  BY DEF TypeOK
<1>1. /\ UNCHANGED <<keeps, others, threadNums, started, spc, pool, listening, next, map, dpc, todo, conns, loopOf, state,
                     watched, used, removed, kept, lpc, quit, active, batch>>
      /\ state[c] = "kConnected" /\ queue' = Queued(l, f)
      /\ forced < MaxForced /\ forced' = forced + 1
  BY <1>0 DEF ForceClose, startVars, connVars, loopVars, endVars
<1>2. /\ Loops' = Loops /\ 0 \in Loops /\ c \in 1..conns
      /\ f \in Functor /\ f.op = "forceClose" /\ f.c = c
  <2>1. c \in 0..MaxConns /\ c \in Nat
    BY ConnNumber
  <2>2. c \in 1..conns
    BY <1>1, KnownConn
  <2>3. f \in Functor /\ f.op = "forceClose" /\ f.c = c
    BY <2>1, NewFunctor
  <2> QED
    BY <1>1, <2>2, <2>3, LoopsKept, BaseLoop, Zenon DEF TypeOK
<1> HIDE DEF f
<1>3. Joins(l, f) /\ \A k \in Loops : k # l => Pend(k)' = Pend(k)
  BY <1>1, <1>2, QueueJoins
<1>4. Ordered(Pend(l))
  BY <1>2 DEF FunctorsRight
<1>5. Fs(l)' = Fs(l) \cup {f} /\ Ordered(Pend(l)') /\ \A k \in Loops : k # l => Fs(k)' = Fs(k)
  BY <1>2, <1>3, <1>4, JoinsSet DEF Fs, Repeats
<1>6. TypeOK'
  <2>1. queue' \in [Loops -> Seq(Functor)]
    BY <1>1, <1>2, RangeAppend DEF TypeOK, Queued
  <2>2. forced' \in 0..MaxForced
    BY <1>1, ServerAssumption DEF TypeOK
  <2> QED
    BY <1>1, <1>2, <2>1, <2>2, Zenon DEF TypeOK
<1>7. LoopsRight'
  BY <1>1, LoopsSame
<1>8. StartRight'
  <2>1. (F("listen", 0) \notin Fs(0))' <=> F("listen", 0) \notin Fs(0)
    BY <1>2, <1>5 DEF F
  <2> QED
    BY <1>1, <2>1 DEF StartRight
<1>9. FunctorsRight'
  <2>1. \A k, g : Placed(k, g) /\ Due(g) => Placed(k, g)' /\ Due(g)'
    BY <1>1, SameFunctor
  <2>2. Placed(l, f)' /\ Due(f)'
    BY <1>0, <1>1, <1>2 DEF Placed, Due
  <2>3. ASSUME NEW k \in Loops
        PROVE  Ordered(Pend(k))' /\ \A g \in Fs(k)' : Placed(k, g)' /\ Due(g)'
    BY <1>1, <1>3, <1>5, <2>1, <2>2, OrderedPrimed DEF FunctorsRight
  <2> QED
    BY <1>2, <2>3 DEF FunctorsRight
<1>10. \A d \in Conns : ConnRight(d)'
  <2>1. \A k \in Loops : \A g : g.op \in {"remove", "destroy"} => (g \in Fs(k)' <=> g \in Fs(k))
    BY <1>2, <1>5
  <2> QED
    BY <1>1, <2>1, ConnsKept
<1> QED
  BY <1>6, <1>7, <1>8, <1>9, <1>10

(* What NextFunctor does. *)
LEMMA FunctorRuns ==
    ASSUME ServerInv, NEW l \in Loops, NEW op, NextFunctor(l, op)
    PROVE  /\ UNCHANGED <<keeps, others, threadNums, started, spc, pool, next, dpc, todo, conns, loopOf, lpc, quit, active,
                          forced>>
           /\ Loops' = Loops /\ 0 \in Loops
           /\ lpc[l] = "functors" /\ batch[l] # <<>> /\ batch' = [batch EXCEPT ![l] = Tail(@)]
           /\ batch' \in [Loops -> Seq(Functor)]
           /\ LET f == Head(batch[l])
              IN f \in Functor /\ f \in Fs(l) /\ f.op = op /\ Placed(l, f) /\ Due(f)
           /\ Ordered(Pend(l))
           /\ active[l] = {}
           /\ \A k \in Loops : batch'[k] # <<>> => lpc'[k] = "functors"
<1>1. /\ UNCHANGED <<keeps, others, threadNums, started, spc, pool, next, dpc, todo, conns, loopOf, lpc, quit, active,
                     forced>>
      /\ lpc[l] = "functors" /\ batch[l] # <<>> /\ batch' = [batch EXCEPT ![l] = Tail(@)]
      /\ Head(batch[l]).op = op
  BY DEF NextFunctor, endVars
<1>2. batch[l] \in Seq(Functor) /\ batch \in [Loops -> Seq(Functor)]
  BY DEF ServerInv, TypeOK
<1>3. Head(batch[l]) \in Functor /\ Tail(batch[l]) \in Seq(Functor) /\ Head(batch[l]) \in Range(batch[l])
  <2>1. Head(batch[l]) = batch[l][1] /\ 1 \in DOMAIN batch[l]
    BY <1>1, <1>2
  <2> QED
    BY <1>1, <1>2, <2>1 DEF Range
<1>4. Head(batch[l]) \in Fs(l)
  BY <1>3, PendType DEF ServerInv
<1>5. Placed(l, Head(batch[l])) /\ Due(Head(batch[l])) /\ Ordered(Pend(l))
  BY <1>4 DEF ServerInv, FunctorsRight
<1>6. batch' \in [Loops -> Seq(Functor)]
  BY <1>1, <1>2, <1>3
<1>7. \A k \in Loops : batch'[k] # <<>> => lpc'[k] = "functors"
  BY <1>1, <1>2 DEF ServerInv, LoopsRight
<1>8. active[l] = {}
  BY <1>1 DEF ServerInv, LoopsRight
<1> QED
  BY <1>1, <1>3, <1>4, <1>5, <1>6, <1>7, <1>8, LoopsKept, BaseLoop DEF ServerInv

(* Listen in the base loop keeps the invariant. *)
LEMMA RunListenInv ==
    ASSUME ServerInv, RunListen
    PROVE  ServerInv'
<1> USE DEF ServerInv
<1>0. 0 \in Loops /\ NextFunctor(0, "listen")
  BY BaseLoop DEF RunListen
<1> DEFINE f == Head(batch[0])
<1>1. /\ UNCHANGED <<keeps, others, threadNums, started, spc, pool, next, dpc, todo, conns, loopOf, lpc, quit, active,
                     forced, map, state, watched, used, removed, kept, queue>>
      /\ listening' = listening + 1
      /\ Loops' = Loops /\ batch[0] # <<>> /\ batch' = [batch EXCEPT ![0] = Tail(@)]
      /\ batch' \in [Loops -> Seq(Functor)]
      /\ f \in Fs(0) /\ f.op = "listen" /\ Placed(0, f) /\ Due(f) /\ Ordered(Pend(0))
      /\ \A k \in Loops : batch'[k] # <<>> => lpc'[k] = "functors"
  BY <1>0, FunctorRuns DEF RunListen, connVars, endVars
<1>2. listening = 0 /\ pool /\ listening' = 1 /\ f = F("listen", 0)
  <2>1. f \in Functor
    BY <1>0, FunctorRuns
  <2>2. listening = 0 /\ pool
    BY <1>1 DEF Due
  <2>3. f.c = 0
    BY <1>1 DEF Placed
  <2>4. f = F("listen", 0)
    BY <1>1, <2>1, <2>3 DEF Functor, F
  <2> QED
    BY <1>1, <2>2, <2>4
<1>3. Runs(0) /\ \A k \in Loops : k # 0 => Pend(k)' = Pend(k)
  BY <1>0, <1>1, BatchRuns, Zenon
<1>4. /\ Fs(0) = Fs(0)' \cup {f} /\ f \notin Fs(0)' /\ Ordered(Pend(0)')
      /\ \A k \in Loops : k # 0 => Fs(k)' = Fs(k)
  BY <1>0, <1>1, <1>3, RunsSet DEF Fs, Repeats
<1> HIDE DEF f
<1>5. TypeOK'
  BY <1>1, <1>2 DEF TypeOK
<1>6. LoopsRight'
  BY <1>1, LoopsStay
<1>7. StartRight'
  <2>1. started /\ \A t \in Starters : spc[t] \notin {"pool", "listen"}
    BY <1>1, <1>2 DEF StartRight, TypeOK
  <2> QED
    BY <1>1, <1>2, <2>1 DEF StartRight
<1>8. FunctorsRight'
  <2>1. ASSUME NEW l \in Loops, NEW g \in Fs(l)' PROVE Placed(l, g)' /\ Due(g)'
    <3>1. g \in Fs(l) /\ g # f
      <4>1. CASE l = 0
        BY <1>4, <4>1
      <4>2. CASE l # 0
        <5>1. g \in Fs(l)
          BY <1>4, <4>2
        <5> QED
          BY <1>1, <4>2, <5>1 DEF FunctorsRight, Placed
      <4> QED
        BY <4>1, <4>2
    <3>2. Placed(l, g) /\ Due(g) /\ g \in Functor
      BY <3>1, PendType DEF FunctorsRight
    <3>3. g.op # "listen"
      BY <1>2, <3>1, <3>2 DEF Placed, Functor, F
    <3> QED
      BY <1>1, <3>2, <3>3 DEF Placed, Due
  <2>2. ASSUME NEW l \in Loops PROVE Ordered(Pend(l))'
    BY <1>1, <1>3, <1>4, OrderedPrimed DEF FunctorsRight
  <2> QED
    BY <1>1, <2>1, <2>2 DEF FunctorsRight
<1>9. \A c \in Conns : ConnRight(c)'
  <2>1. \A k \in Loops : \A g : g.op \in {"remove", "destroy"} => (g \in Fs(k)' <=> g \in Fs(k))
    BY <1>1, <1>4
  <2> QED
    BY <1>1, <2>1, ConnsKept
<1> QED
  BY <1>5, <1>6, <1>7, <1>8, <1>9

-----------------------------------------------------------------------------
(* Steps on one connection. *)

ConnSame(d) ==
    /\ state'[d] = state[d] /\ removed'[d] = removed[d]
    /\ d \in used' <=> d \in used
    /\ d \in kept' <=> d \in kept
    /\ d \in watched' <=> d \in watched
    /\ d \in map' <=> d \in map
    /\ d \in todo' <=> d \in todo

(* A connection that a step leaves alone stays right. *)
LEMMA OtherConn ==
    ASSUME ServerInv, UNCHANGED <<keeps, others, threadNums, dpc, conns, loopOf, lpc>>, NEW d \in Conns,
           ConnSame(d),
           \A l \in Loops : \A f : f.c = d /\ f.op # "forceClose" => (f \in Fs(l)' <=> f \in Fs(l))
    PROVE  ConnRight(d)'
<1>1. ConnRight(d) /\ loopOf[d] \in Loops /\ 0 \in Loops
  BY BaseLoop DEF ServerInv, TypeOK
<1>2. PICK l \in Loops : l = loopOf[d]
  BY <1>1
<1>3. /\ F("remove", d) \in Fs(0)' <=> F("remove", d) \in Fs(0)
      /\ F("destroy", d) \in Fs(l)' <=> F("destroy", d) \in Fs(l)
  BY <1>1 DEF F
<1>4. /\ (F("remove", d) \in Fs(0))' <=> F("remove", d) \in Fs(0)
      /\ (F("destroy", d) \in Fs(loopOf[d]))' <=> F("destroy", d) \in Fs(loopOf[d])
  BY <1>2, <1>3 DEF F
<1>5. WillLeave(d) => WillLeave(d)'
  BY <1>4 DEF WillLeave, ConnSame
<1> QED
  BY <1>1, <1>4, <1>5 DEF ConnRight, ConnSame

(* A functor of a connection that a step leaves alone stays right. *)
LEMMA OtherFunctor ==
    ASSUME UNCHANGED <<others, listening, pool, dpc, conns, loopOf>>, NEW l, NEW g, Placed(l, g), Due(g),
           g.op \in {"establish", "destroy", "remove"} => ConnSame(g.c)
    PROVE  Placed(l, g)' /\ Due(g)'
BY DEF Placed, Due, ConnSame

(* A connection that was destroyed in its loop. *)
LEMMA DestroyedConn ==
    ASSUME NEW c, ~(c > conns'), loopOf'[c] = 0 <=> threadNums' = 0,
           state'[c] = "kDisConnected", removed'[c] # 0, ~others' => removed'[c] = 1,
           c \notin watched', c \notin used', c \notin todo', dpc' = "alive" => c \notin map'
    PROVE  ConnRight(c)'
BY DEF ConnRight

(* A connection that was established. *)
LEMMA EstablishedConn ==
    ASSUME NEW c, ~(c > conns'), loopOf'[c] = 0 <=> threadNums' = 0,
           state'[c] = "kConnected", removed'[c] = 0,
           c \in watched', c \in used', c \notin todo', dpc' = "alive", c \in map'
    PROVE  ConnRight(c)'
BY DEF ConnRight, WillLeave

(* A connection that was made for a loop of the pool. *)
LEMMA MadeConn ==
    ASSUME NEW c, ~(c > conns'), loopOf'[c] # 0, threadNums' # 0,
           state'[c] = "kConnecting", removed'[c] = 0,
           c \notin watched', c \notin used', c \notin kept', c \notin todo', c \in map', dpc' = "alive"
    PROVE  ConnRight(c)'
BY DEF ConnRight, WillLeave

(* A connection of a loop of the pool that closed, and waits to be removed. *)
LEMMA ClosedConn ==
    ASSUME NEW c, ConnRight(c), UNCHANGED <<keeps, others, threadNums, dpc, conns, loopOf, todo, map, used, removed>>,
           state[c] \in {"kConnected", "kDisConnected"}, threadNums # 0,
           state'[c] = "kDisConnected", c \notin watched', (F("remove", c) \in Fs(0))',
           (F("destroy", c) \in Fs(loopOf[c]))' <=> F("destroy", c) \in Fs(loopOf[c])
    PROVE  ConnRight(c)'
BY DEF ConnRight, WillLeave

(* The connections, when only c changes. *)
LEMMA OneConn ==
    ASSUME ServerInv, UNCHANGED <<keeps, others, threadNums, dpc, conns, loopOf, lpc>>, NEW c \in Conns,
           \A d \in Conns \ {c} : ConnSame(d),
           \A l \in Loops : \A f : f.c # c /\ f.op # "forceClose" => (f \in Fs(l)' <=> f \in Fs(l)),
           ConnRight(c)'
    PROVE  \A d \in Conns : ConnRight(d)'
<1> SUFFICES ASSUME NEW d \in Conns, d # c PROVE ConnRight(d)'
  OBVIOUS
<1>1. \A l \in Loops : \A f : f.c = d /\ f.op # "forceClose" => (f \in Fs(l)' <=> f \in Fs(l))
  OBVIOUS
<1> QED
  BY <1>1, OtherConn

(* A functor that names a connection names one that was made, with its loop. *)
LEMMA ConnOfFunctor ==
    ASSUME ServerInv, NEW l \in Loops, NEW f \in Fs(l), f.op # "listen"
    PROVE  /\ f \in Functor /\ f.c \in Conns /\ f.c \in 1..conns /\ f = F(f.op, f.c)
           /\ loopOf[f.c] \in Loops
<1>1. f \in Functor /\ f.c \in 1..conns
  BY PendType DEF ServerInv, FunctorsRight, Placed
<1>2. f.c \in Conns
  BY <1>1, ServerAssumption DEF ServerInv, TypeOK, Conns
<1>3. f = F(f.op, f.c)
  BY <1>1 DEF Functor, F
<1> QED
  BY <1>1, <1>2, <1>3 DEF ServerInv, TypeOK

(* The functors, when only c changes: those of c and the new ones are left   *)
(* to look at.                                                               *)
LEMMA OneConnFunctors ==
    ASSUME ServerInv, UNCHANGED <<keeps, others, threadNums, listening, pool, dpc, conns, loopOf>>, NEW c \in Conns,
           \A d \in Conns \ {c} : ConnSame(d),
           \A l \in Loops : Ordered(Pend(l))',
           \A l \in Loops : \A g \in Fs(l)' : (g \in Fs(l) /\ g.c # c) \/ (Placed(l, g)' /\ Due(g)')
    PROVE  FunctorsRight'
<1>1. Loops' = Loops
  BY LoopsKept
<1>2. ASSUME NEW l \in Loops, NEW g \in Fs(l)' PROVE Placed(l, g)' /\ Due(g)'
  <2>1. CASE g \in Fs(l) /\ g.c # c
    <3>1. Placed(l, g) /\ Due(g)
      BY <2>1 DEF ServerInv, FunctorsRight
    <3>2. g.op \in {"establish", "destroy", "remove"} => g.c \in Conns
      BY <2>1, ConnOfFunctor
    <3> QED
      BY <2>1, <3>1, <3>2, OtherFunctor
  <2> QED
    BY <1>2, <2>1
<1> QED
  BY <1>1, <1>2 DEF FunctorsRight

(* EstablishConnection keeps the invariant. *)
LEMMA RunEstablishInv ==
    ASSUME ServerInv, NEW l \in Loops, RunEstablish(l)
    PROVE  ServerInv'
<1> USE DEF ServerInv
<1>0. NextFunctor(l, "establish")
  BY DEF RunEstablish
<1>1. PICK f : f = Head(batch[l])
  OBVIOUS
<1>2. /\ UNCHANGED <<keeps, others, threadNums, started, spc, pool, next, dpc, todo, conns, loopOf, lpc, quit, active,
                     forced, listening, map, queue, removed>>
      /\ Loops' = Loops /\ 0 \in Loops
      /\ batch[l] # <<>> /\ batch' = [batch EXCEPT ![l] = Tail(@)]
      /\ batch' \in [Loops -> Seq(Functor)]
      /\ f \in Functor /\ f \in Fs(l) /\ f.op = "establish" /\ Placed(l, f) /\ Due(f)
      /\ Ordered(Pend(l)) /\ active[l] = {}
      /\ \A k \in Loops : batch'[k] # <<>> => lpc'[k] = "functors"
  BY <1>0, <1>1, FunctorRuns DEF RunEstablish, EstablishConnection, endVars
<1>3. PICK c \in Conns : c = f.c
  BY <1>2, ConnOfFunctor, Zenon
<1>4. /\ state' = [state EXCEPT ![c] = "kConnected"] /\ watched' = watched \cup {c}
      /\ used' = used \cup {c} /\ kept' \in {kept, kept \cup {c}}
  BY <1>1, <1>3 DEF RunEstablish, EstablishConnection, endVars
<1>5. Runs(l) /\ \A k \in Loops : k # l => Pend(k)' = Pend(k)
  BY <1>2, BatchRuns, Zenon
<1>6. /\ Fs(l) = Fs(l)' \cup {f} /\ f \notin Fs(l)' /\ Ordered(Pend(l)')
      /\ \A k \in Loops : k # l => Fs(k)' = Fs(k)
  BY <1>1, <1>2, <1>5, RunsSet DEF Fs, Repeats
<1>7. l # 0 /\ loopOf[c] = l /\ state[c] = "kConnecting" /\ c \in 1..conns /\ f = F("establish", c)
  BY <1>2, <1>3, ConnOfFunctor DEF Placed, Due
<1>8. \A d \in Conns \ {c} : ConnSame(d)
  <2>1. \A d \in Conns \ {c} : state'[d] = state[d]
    BY <1>4 DEF TypeOK
  <2> HIDE DEF ServerInv
  <2> QED
    BY <1>2, <1>4, <2>1, Zenon DEF ConnSame
<1>9. TypeOK'
  BY <1>2, <1>4 DEF TypeOK
<1>10. LoopsRight'
  <2>1. \A k \in Loops : \A d \in active[k] : d # c
    BY <1>7, ActiveConns DEF ActiveRight
  <2>2. \A k \in Loops : \A d \in active[k] : state'[d] = state[d] /\ (d \in used => d \in used')
    BY <1>4, <2>1 DEF TypeOK
  <2> QED
    BY <1>2, <2>2, LoopsStay, Zenon
<1>11. StartRight'
  BY <1>2, <1>6, <1>7, StartKept
<1>12. FunctorsRight'
  <2>1. ASSUME NEW k \in Loops, NEW g \in Fs(k)'
        PROVE  (g \in Fs(k) /\ g.c # c) \/ (Placed(k, g)' /\ Due(g)')
    <3> SUFFICES ASSUME g.c = c PROVE Placed(k, g)' /\ Due(g)'
      BY <1>6, <2>1
    <3>1. g \in Fs(k) /\ Placed(k, g) /\ Due(g)
      BY <1>6, <2>1 DEF FunctorsRight
    <3>2. g.op # "remove" /\ g.op # "listen"
      <4>1. g.op # "listen"
        BY <1>7, <3>1 DEF Placed
      <4> QED
        BY <1>7, <3>1, <4>1 DEF Due
    <3>3. g.op # "establish"
      <4> SUFFICES ASSUME g.op = "establish" PROVE FALSE
        OBVIOUS
      <4>1. k = l
        BY <1>7, <3>1 DEF Placed
      <4>2. g = f
        BY <1>7, <3>1, ConnOfFunctor
      <4> QED
        BY <1>6, <2>1, <4>1, <4>2
    <3>4. g.op = "destroy" => dpc # "alive"
      BY <1>7, <3>1 DEF Due
    <3>5. Placed(k, g)'
      BY <1>2, <3>1, Zenon DEF Placed
    <3> QED
      BY <1>2, <3>1, <3>2, <3>3, <3>4, <3>5 DEF Due
  <2>2. \A k \in Loops : Ordered(Pend(k))'
    BY <1>2, <1>5, <1>6, OrderedPrimed DEF FunctorsRight
  <2> QED
    BY <1>2, <1>8, <2>1, <2>2, OneConnFunctors
<1>13. \A d \in Conns : ConnRight(d)'
  <2>1. \A k \in Loops : \A g : g.c # c /\ g.op # "forceClose" => (g \in Fs(k)' <=> g \in Fs(k))
    BY <1>3, <1>6
  <2>2. ConnRight(c)
    OBVIOUS
  <2>3. state'[c] = "kConnected" /\ c \in watched' /\ c \in used'
    BY <1>4 DEF TypeOK
  <2>4. F("destroy", c) # f /\ F("remove", c) # f
    BY <1>7 DEF F
  <2>5. /\ (F("destroy", c) \in Fs(loopOf[c]))' <=> F("destroy", c) \in Fs(loopOf[c])
        /\ (F("remove", c) \in Fs(0))' <=> F("remove", c) \in Fs(0)
    BY <1>2, <1>6, <1>7, <2>4 DEF F
  <2>6. WillLeave(c)'
    <3>1. WillLeave(c)
      BY <1>7, <2>2 DEF ConnRight
    <3> QED
      BY <1>2, <2>3, <2>5, <3>1 DEF WillLeave
  <2>7. ConnRight(c)'
    BY <1>2, <1>7, <2>2, <2>3, <2>5, <2>6, Zenon DEF ConnRight
  <2> QED
    BY <1>2, <1>8, <2>1, <2>7, OneConn
<1> QED
  BY <1>9, <1>10, <1>11, <1>12, <1>13

(* DestroyConnection in the loop of the connection keeps the invariant. *)
LEMMA RunDestroyInv ==
    ASSUME ServerInv, NEW l \in Loops, RunDestroy(l)
    PROVE  ServerInv'
<1> USE DEF ServerInv
<1>0. NextFunctor(l, "destroy")
  BY DEF RunDestroy
<1>1. PICK f : f = Head(batch[l])
  OBVIOUS
<1>2. /\ UNCHANGED <<keeps, others, threadNums, started, spc, pool, next, dpc, todo, conns, loopOf, lpc, quit, active,
                     forced, listening, map, queue, kept>>
      /\ Loops' = Loops /\ 0 \in Loops
      /\ batch[l] # <<>> /\ batch' = [batch EXCEPT ![l] = Tail(@)]
      /\ batch' \in [Loops -> Seq(Functor)]
      /\ f \in Functor /\ f \in Fs(l) /\ f.op = "destroy" /\ Placed(l, f) /\ Due(f)
      /\ Ordered(Pend(l)) /\ active[l] = {}
      /\ \A k \in Loops : batch'[k] # <<>> => lpc'[k] = "functors"
  BY <1>0, <1>1, FunctorRuns, Zenon DEF RunDestroy
<1>3. PICK c \in Conns : c = f.c
  BY <1>2, ConnOfFunctor
<1>4. DestroyConnection({c})
  BY <1>1, <1>3 DEF RunDestroy
<1>5. Runs(l) /\ \A k \in Loops : k # l => Pend(k)' = Pend(k)
  BY <1>2, BatchRuns, Zenon
<1>6. /\ Fs(l) = Fs(l)' \cup {f} /\ (~Repeats(f) => f \notin Fs(l)') /\ Ordered(Pend(l)')
      /\ \A g \in Fs(l)' : g.op = "establish" => g.c # c
      /\ \A k \in Loops : k # l => Fs(k)' = Fs(k)
  BY <1>1, <1>2, <1>3, <1>5, RunsSet, Zenon DEF Fs
<1>7. /\ l # 0 /\ loopOf[c] = l /\ c \in 1..conns /\ f = F("destroy", c)
      /\ ~others => removed[c] = 0
      /\ dpc = "alive" => c \notin map
  BY <1>2, <1>3, ConnOfFunctor, Zenon DEF Placed, Due
<1>8. /\ \A d \in Conns \ {c} : ConnSame(d)
      /\ state'[c] = "kDisConnected" /\ c \notin watched' /\ c \notin used'
      /\ removed'[c] # 0 /\ (~others => removed'[c] = 1)
  <2>0. removed[c] \in Nat
    BY DEF TypeOK
  <2> HIDE DEF ServerInv
  <2>1. \A d \in Conns \ {c} : ConnSame(d)
    BY <1>2, <1>4 DEF ConnSame, DestroyConnection
  <2>2. state'[c] = "kDisConnected" /\ c \notin watched' /\ c \notin used' /\ removed'[c] = removed[c] + 1
    BY <1>4 DEF DestroyConnection
  <2> QED
    BY <1>7, <2>0, <2>1, <2>2
<1>9. TypeOK'
  <2>1. /\ state' \in [Conns -> {"none", "kConnecting", "kConnected", "kDisConnected"}]
        /\ removed' \in [Conns -> Nat] /\ watched' \subseteq used' /\ used' \subseteq Conns
    BY <1>4, DestroyTypes
  <2> QED
    BY <1>2, <2>1 DEF TypeOK
<1>10. LoopsRight'
  <2>1. \A k \in Loops : \A d \in active[k] : d # c
    <3>1. active[l] = {}
      BY <1>2
    <3> QED
      BY <1>7, <3>1, ActiveConns
  <2>2. \A k \in Loops : \A d \in active[k] : state'[d] = state[d] /\ (d \in used => d \in used')
    BY <1>8, <2>1 DEF TypeOK, ConnSame
  <2> QED
    BY <1>2, <2>2, LoopsStay, Zenon
<1>11. StartRight'
  BY <1>2, <1>6, <1>7, StartKept
<1>12. FunctorsRight'
  <2>1. ASSUME NEW k \in Loops, NEW g \in Fs(k)'
        PROVE  (g \in Fs(k) /\ g.c # c) \/ (Placed(k, g)' /\ Due(g)')
    <3> SUFFICES ASSUME g.c = c PROVE Placed(k, g)' /\ Due(g)'
      BY <1>6, <2>1
    <3>1. g \in Fs(k) /\ Placed(k, g) /\ Due(g)
      BY <1>6, <2>1 DEF FunctorsRight
    <3>2. g.op # "listen"
      BY <1>7, <3>1 DEF Placed
    <3>3. g.op \in {"establish", "destroy"} => k = l
      BY <1>7, <3>1 DEF Placed
    <3>4. g.op # "establish"
      BY <1>6, <2>1, <3>3
    <3>5. g.op = "destroy" => others
      <4> SUFFICES ASSUME g.op = "destroy", ~others PROVE FALSE
        OBVIOUS
      <4>1. g = f
        BY <1>7, <3>1, ConnOfFunctor
      <4>2. ~Repeats(f)
        BY <1>2 DEF Repeats
      <4> QED
        BY <1>6, <2>1, <3>3, <4>1, <4>2
    <3>6. g.op = "remove" => dpc # "alive" \/ others
      BY <1>7, <3>1 DEF Due
    <3>7. Placed(k, g)'
      BY <1>2, <3>1 DEF Placed
    <3> QED
      BY <1>2, <1>7, <1>8, <3>2, <3>4, <3>5, <3>6, <3>7 DEF Due
  <2>2. \A k \in Loops : Ordered(Pend(k))'
    BY <1>2, <1>5, <1>6, OrderedPrimed DEF FunctorsRight
  <2> QED
    BY <1>2, <1>8, <2>1, <2>2, OneConnFunctors, Zenon
<1>13. \A d \in Conns : ConnRight(d)'
  <2>1. \A k \in Loops : \A g : g.c # c /\ g.op # "forceClose" => (g \in Fs(k)' <=> g \in Fs(k))
    BY <1>3, <1>6, Zenon
  <2>2. ConnRight(c) /\ conns \in Nat /\ F("destroy", c) \in Fs(loopOf[c])
    <3>1. F("destroy", c) \in Fs(loopOf[c])
      BY <1>2, <1>7, Zenon
    <3>2. conns \in Nat
      BY ServerAssumption DEF TypeOK
    <3> QED
      BY <3>1, <3>2
  <2>3. ConnRight(c)'
    <3> HIDE DEF ServerInv
    <3>1. c <= conns /\ ~(c > conns)
      BY <1>7, <2>2
    <3>2. state[c] # "none" /\ (loopOf[c] = 0 <=> threadNums = 0) /\ c \notin todo
      BY <2>2, <3>1 DEF ConnRight
    <3> QED
      BY <1>2, <1>7, <1>8, <3>1, <3>2, DestroyedConn
  <2> QED
    BY <1>2, <1>8, <2>1, <2>3, OneConn, Zenon
<1> QED
  BY <1>9, <1>10, <1>11, <1>12, <1>13

(* RemoveConnectionInLoop, which erases the connection and queues its        *)
(* DestroyConnection, keeps the invariant.                                   *)
LEMMA RemoveInv ==
    ASSUME ServerInv, RemoveConnectionInLoop
    PROVE  ServerInv'
<1> USE DEF ServerInv
<1>0. NextFunctor(0, "remove") /\ 0 \in Loops
  BY BaseLoop DEF RemoveConnectionInLoop
<1>1. PICK f : f = Head(batch[0])
  OBVIOUS
<1>2. /\ UNCHANGED <<keeps, others, threadNums, started, spc, pool, next, dpc, todo, conns, loopOf, lpc, quit, active,
                     forced, listening, kept, state, watched, used, removed>>
      /\ Loops' = Loops
      /\ lpc[0] = "functors" /\ batch[0] # <<>> /\ batch' = [batch EXCEPT ![0] = Tail(@)]
      /\ batch' \in [Loops -> Seq(Functor)]
      /\ f \in Functor /\ f \in Fs(0) /\ f.op = "remove" /\ Placed(0, f) /\ Due(f)
      /\ Ordered(Pend(0))
      /\ \A k \in Loops : batch'[k] # <<>> => lpc'[k] = "functors"
  BY <1>0, <1>1, FunctorRuns DEF RemoveConnectionInLoop, connVars, endVars
<1>3. PICK c \in Conns : c = f.c
  BY <1>0, <1>2, ConnOfFunctor
<1>4. PICK l \in Loops : l = loopOf[c]
  BY DEF TypeOK
<1>5. PICK h : h = F("destroy", c)
  OBVIOUS
<1>6. map' = map \ {c} /\ queue' = Queued(l, h)
  BY <1>1, <1>3, <1>4, <1>5, Zenon DEF RemoveConnectionInLoop
<1>7. /\ l # 0 /\ dpc = "alive" /\ state[c] = "kDisConnected"
      /\ ~others => c \in map /\ removed[c] = 0
      /\ c \in 1..conns /\ f = F("remove", c)
      /\ h \in Functor /\ h.op = "destroy" /\ h.c = c
  <2>1. l # 0 /\ c \in 1..conns /\ f = F("remove", c)
    BY <1>0, <1>2, <1>3, <1>4, ConnOfFunctor DEF Placed
  <2>2. dpc = "alive"
    BY <1>2 DEF LoopsRight, TypeOK
  <2>3. state[c] = "kDisConnected" /\ (~others => c \in map /\ removed[c] = 0)
    BY <1>2, <1>3, <2>2 DEF Due
  <2>4. c \in 0..MaxConns
    BY ServerAssumption DEF Conns
  <2> QED
    BY <1>5, <2>1, <2>2, <2>3, <2>4, NewFunctor
<1>8. Runs(0) /\ Joins(l, h) /\ \A k \in Loops : k # 0 /\ k # l => Pend(k)' = Pend(k)
  BY <1>0, <1>2, <1>6, <1>7, BatchRunsAndJoins, Zenon
<1>9. /\ Fs(0) = Fs(0)' \cup {f} /\ (~Repeats(f) => f \notin Fs(0)') /\ Ordered(Pend(0)')
      /\ \A k \in Loops : k # 0 /\ k # l => Fs(k)' = Fs(k)
  BY <1>0, <1>1, <1>2, <1>8, RunsSet, Zenon DEF Fs
<1>10. (Repeats(h) \/ h \notin Fs(l)) /\ Ordered(Pend(l))
  BY <1>7 DEF FunctorsRight, Due, Repeats
<1>11. Fs(l)' = Fs(l) \cup {h} /\ Ordered(Pend(l)')
  BY <1>7, <1>8, <1>10, JoinsSet
<1>12. \A d \in Conns \ {c} : ConnSame(d)
  BY <1>2, <1>6 DEF ConnSame
<1>13. TypeOK'
  <2>1. queue' \in [Loops -> Seq(Functor)]
    BY <1>6, <1>7, RangeAppend, Zenon DEF TypeOK, Queued
  <2>2. c \notin todo
    BY <1>7 DEF ConnRight
  <2> QED
    BY <1>2, <1>6, <2>1, <2>2, Zenon DEF TypeOK
<1>14. LoopsRight'
  BY <1>2, <1>6, <1>7, LoopsStay, Zenon
<1>15. StartRight'
  <2>1. F("listen", 0) \notin Fs(0) => (F("listen", 0) \notin Fs(0))'
    BY <1>9, Zenon DEF F
  <2> QED
    BY <1>2, <2>1 DEF StartRight
<1>16. FunctorsRight'
  <2>1. ASSUME NEW k \in Loops, NEW g \in Fs(k)'
        PROVE  (g \in Fs(k) /\ g.c # c) \/ (Placed(k, g)' /\ Due(g)')
    <3>1. CASE g = h
      <4>1. k = l
        <5>1. g \notin Fs(k) => k = l
          BY <1>9, <2>1, <3>1
        <5>2. g \in Fs(k) => k = l
          BY <1>4, <1>7, <3>1 DEF FunctorsRight, Placed
        <5> QED
          BY <5>1, <5>2
      <4> QED
        BY <1>2, <1>4, <1>6, <1>7, <3>1, <4>1, Zenon DEF Placed, Due
    <3>2. CASE g # h
      <4>1. g \in Fs(k) /\ Placed(k, g) /\ Due(g)
        BY <1>9, <1>11, <2>1, <3>2 DEF FunctorsRight
      <4> SUFFICES ASSUME g.c = c PROVE Placed(k, g)' /\ Due(g)'
        BY <4>1
      <4>2. g.op # "listen" /\ g.op # "establish" /\ g.op # "destroy"
        <5>1. g.op # "listen"
          BY <1>7, <4>1 DEF Placed
        <5>2. g.op # "destroy"
          BY <1>5, <3>2, <4>1, <5>1, ConnOfFunctor
        <5> QED
          BY <1>7, <4>1, <5>1, <5>2 DEF Due
      <4>3. g.op = "remove" => others
        <5> SUFFICES ASSUME g.op = "remove", ~others PROVE FALSE
          OBVIOUS
        <5>1. k = 0 /\ g = f
          BY <1>7, <4>1, ConnOfFunctor DEF Placed
        <5>2. ~Repeats(f)
          BY <1>2 DEF Repeats
        <5> QED
          BY <1>9, <2>1, <5>1, <5>2
      <4> QED
        BY <1>2, <1>7, <4>1, <4>2, <4>3 DEF Placed, Due
    <3> QED
      BY <3>1, <3>2
  <2>2. \A k \in Loops : Ordered(Pend(k))'
    BY <1>2, <1>8, <1>9, <1>11, OrderedPrimed DEF FunctorsRight
  <2> QED
    BY <1>2, <1>12, <2>1, <2>2, OneConnFunctors
<1>17. \A d \in Conns : ConnRight(d)'
  <2>1. \A k \in Loops : \A g : g.c # c /\ g.op # "forceClose" => (g \in Fs(k)' <=> g \in Fs(k))
    <3>1. \A g : g.c # c => g # f /\ g # h
      BY <1>3, <1>7
    <3> QED
      BY <1>9, <1>11, <3>1
  <2>2. ConnRight(c) /\ F("destroy", c) \in Fs(l)'
    BY <1>5, <1>11
  <2>3. (F("destroy", c) \in Fs(loopOf[c]))'
    BY <1>2, <1>4, <2>2 DEF F
  <2>4. ConnRight(c)'
    BY <1>2, <1>6, <1>7, <2>2, <2>3, Zenon DEF ConnRight, WillLeave
  <2> QED
    BY <1>2, <1>12, <2>1, <2>4, OneConn
<1> QED
  BY <1>13, <1>14, <1>15, <1>16, <1>17

(* How HandleClose changes what is pending: it may queue a removal.  The     *)
(* functor of ForceClose that led to it may be gone.                         *)
CloseQueues(l, c) ==
    /\ \A k \in Loops : Ordered(Pend(k))'
    /\ \A k \in Loops : \A g : g.op # "forceClose" =>
         (g \in Fs(k)' <=> g \in Fs(k) \/ (l # 0 /\ k = 0 /\ g = F("remove", c)))
    /\ \A k \in Loops : \A g \in Fs(k)' : g.op = "forceClose" => g \in Fs(k)

(* The rest of a step that runs HandleClose: an event or a functor. *)
ClosesIn(l, c) ==
    /\ l \in Loops /\ c \in Conns /\ loopOf[c] = l /\ lpc[l] # "over"
    /\ state[c] \in {"kConnected", "kDisConnected"} /\ (~others => state[c] = "kConnected")
    /\ HandleClose(l, c) /\ CloseQueues(l, c)
    /\ UNCHANGED <<keeps, others, threadNums, started, spc, pool, listening, next, dpc, todo, conns, loopOf, lpc,
                   quit, forced>>
    /\ active' \in [Loops -> SUBSET Conns] /\ batch' \in [Loops -> Seq(Functor)]
    /\ queue' \in [Loops -> Seq(Functor)]
    /\ \A k \in Loops : active'[k] \subseteq active[k] /\ (~others => c \notin active'[k])
    /\ \A k \in Loops : batch'[k] # <<>> => lpc'[k] = "functors"

(* What HandleClose changes: in the base loop without a pool the connection  *)
(* is removed at once, in an I/O loop the removal is queued.                 *)
LEMMA CloseFrame ==
    ASSUME ServerInv, NEW l, NEW c, ClosesIn(l, c)
    PROVE  /\ Loops' = Loops /\ 0 \in Loops /\ c \in 1..conns /\ (~others => removed[c] = 0)
           /\ l = 0 <=> threadNums = 0
           /\ l = 0 => dpc = "alive" /\ todo = {}
           /\ state'[c] = "kDisConnected" /\ c \notin kept' /\ c \notin watched'
           /\ l = 0 => /\ c \notin map' /\ c \notin used'
                       /\ removed'[c] # 0 /\ (~others => removed'[c] = 1)
           /\ l # 0 => UNCHANGED <<map, used, removed>>
           /\ \A d \in Conns \ {c} : ConnSame(d)
<1> USE DEF ServerInv
<1>1. /\ l \in Loops /\ c \in Conns /\ loopOf[c] = l /\ lpc[l] # "over"
      /\ state[c] \in {"kConnected", "kDisConnected"} /\ (~others => state[c] = "kConnected")
      /\ HandleClose(l, c) /\ threadNums' = threadNums /\ todo' = todo
  BY DEF ClosesIn
<1>2. Loops' = Loops /\ 0 \in Loops
  BY <1>1, LoopsKept, BaseLoop
<1>3. c \in 1..conns /\ (~others => removed[c] = 0) /\ (l = 0 <=> threadNums = 0) /\ removed[c] \in Nat
  <2>1. c \in 1..conns /\ (l = 0 <=> threadNums = 0)
    BY <1>1, KnownConn
  <2>2. ~others => removed[c] = 0
    BY <1>1 DEF ConnRight
  <2>3. removed[c] \in Nat
    BY <1>1 DEF TypeOK
  <2> QED
    BY <2>1, <2>2, <2>3
<1>4. l = 0 => dpc = "alive" /\ todo = {}
  <2>1. l = 0 => dpc = "alive"
    BY <1>1 DEF LoopsRight
  <2>2. dpc = "alive" => \A d \in Conns : d \notin todo
    BY DEF ConnRight
  <2>3. todo \subseteq Conns
    BY ServerAssumption DEF TypeOK, Conns
  <2> QED
    BY <2>1, <2>2, <2>3
<1>5. CASE l = 0
  <2>1. map' = map \ {c} /\ kept' = kept \ {c} /\ DestroyConnection({c})
    BY <1>1, <1>5 DEF HandleClose
  <2>2. /\ state'[c] = "kDisConnected" /\ c \notin watched' /\ c \notin used'
        /\ removed'[c] = removed[c] + 1
        /\ \A d \in Conns \ {c} : ConnSame(d)
    BY <1>1, <2>1 DEF DestroyConnection, ConnSame, TypeOK
  <2>3. removed'[c] # 0 /\ (~others => removed'[c] = 1)
    BY <1>3, <2>2
  <2> QED
    BY <1>2, <1>3, <1>4, <1>5, <2>1, <2>2, <2>3
<1>6. CASE l # 0
  <2>1. /\ kept' = kept \ {c} /\ state' = [state EXCEPT ![c] = "kDisConnected"]
        /\ watched' = watched \ {c} /\ UNCHANGED <<map, used, removed>>
    BY <1>1, <1>6 DEF HandleClose
  <2>2. state'[c] = "kDisConnected" /\ \A d \in Conns \ {c} : ConnSame(d)
    BY <1>1, <2>1 DEF ConnSame, TypeOK
  <2> QED
    BY <1>2, <1>3, <1>4, <1>6, <2>1, <2>2
<1> QED
  BY <1>5, <1>6

(* HandleClose keeps the invariant, whichever handler or functor calls it. *)
LEMMA CloseInv ==
    ASSUME ServerInv, NEW l, NEW c, ClosesIn(l, c)
    PROVE  ServerInv'
<1> USE DEF ServerInv
<1>1. /\ l \in Loops /\ c \in Conns /\ loopOf[c] = l
      /\ state[c] \in {"kConnected", "kDisConnected"} /\ (~others => state[c] = "kConnected")
      /\ UNCHANGED <<keeps, others, threadNums, started, spc, pool, listening, next, dpc, todo, conns, loopOf, lpc,
                     quit, forced>>
  BY DEF ClosesIn
<1>2. CloseQueues(l, c)
  BY DEF ClosesIn
<1>3. /\ Loops' = Loops /\ 0 \in Loops /\ c \in 1..conns /\ (~others => removed[c] = 0)
      /\ l = 0 <=> threadNums = 0
      /\ l = 0 => dpc = "alive" /\ todo = {}
      /\ state'[c] = "kDisConnected" /\ c \notin kept' /\ c \notin watched'
      /\ l = 0 => /\ c \notin map' /\ c \notin used'
                  /\ removed'[c] # 0 /\ (~others => removed'[c] = 1)
      /\ l # 0 => UNCHANGED <<map, used, removed>>
  BY CloseFrame
<1>4. \A d \in Conns \ {c} : ConnSame(d)
  BY CloseFrame
<1>5. TypeOK'
  <2>1. /\ active' \in [Loops -> SUBSET Conns] /\ batch' \in [Loops -> Seq(Functor)]
        /\ queue' \in [Loops -> Seq(Functor)]
    BY DEF ClosesIn
  <2>2. /\ state' \in [Conns -> {"none", "kConnecting", "kConnected", "kDisConnected"}]
        /\ removed' \in [Conns -> Nat] /\ watched' \subseteq used' /\ used' \subseteq Conns
        /\ kept' \subseteq Conns /\ map' \subseteq map
    <3>1. HandleClose(l, c)
      BY DEF ClosesIn
    <3>2. /\ state \in [Conns -> {"none", "kConnecting", "kConnected", "kDisConnected"}]
          /\ removed \in [Conns -> Nat] /\ watched \subseteq used /\ used \subseteq Conns
          /\ kept \subseteq Conns
      BY DEF TypeOK
    <3>3. CASE l = 0
      <4>1. map' = map \ {c} /\ kept' = kept \ {c} /\ DestroyConnection({c})
        BY <3>1, <3>3 DEF HandleClose
      <4> QED
        BY <3>2, <4>1 DEF DestroyConnection
    <3>4. CASE l # 0
      <4>1. /\ kept' = kept \ {c} /\ state' = [state EXCEPT ![c] = "kDisConnected"]
            /\ watched' = watched \ {c} /\ UNCHANGED <<map, used, removed>>
        BY <3>1, <3>4 DEF HandleClose
      <4> QED
        BY <3>2, <4>1, Zenon
    <3> QED
      BY <3>3, <3>4
  <2>3. todo' \subseteq map'
    BY <1>1, <1>3 DEF TypeOK
  <2> QED
    BY <1>1, <1>3, <2>1, <2>2, <2>3, Zenon DEF TypeOK
<1>6. LoopsRight'
  <2>1. /\ \A k \in Loops : active'[k] \subseteq active[k] /\ active[k] \subseteq Conns
        /\ \A k \in Loops : ~others => c \notin active'[k]
        /\ \A k \in Loops : batch'[k] # <<>> => lpc'[k] = "functors"
    BY DEF ClosesIn, TypeOK
  <2>2. ASSUME NEW k \in Loops, NEW d \in active'[k] PROVE ActiveRight(d)'
    <3>1. ActiveRight(d) /\ d \in Conns
      BY <2>1, <2>2, ActiveConns
    <3>2. CASE d # c
      BY <1>1, <1>4, <3>1, <3>2, ActiveStays DEF ConnSame
    <3>3. CASE d = c
      <4>1. others
        BY <2>1, <2>2, <3>3
      <4>2. Orderly' => c \in used'
        BY <1>1, <1>3, <3>1, <3>3, <4>1, BaseLoop DEF ActiveRight, Orderly
      <4> QED
        BY <1>1, <1>3, <3>3, <4>1, <4>2 DEF ActiveRight
    <3> QED
      BY <3>2, <3>3
  <2>3. dpc \in {"quitting", "dead"} => map' = map
    BY <1>3
  <2> QED
    BY <1>1, <1>3, <2>1, <2>2, <2>3, LoopsRun
<1>7. StartRight'
  <2>1. F("listen", 0) \notin Fs(0) => F("listen", 0) \notin Fs(0)'
    BY <1>2, <1>3 DEF CloseQueues, F
  <2>2. F("listen", 0) \notin Fs(0) => (F("listen", 0) \notin Fs(0))'
    BY <2>1 DEF F
  <2> QED
    BY <1>1, <2>2 DEF StartRight
<1>8. PICK h : h = F("remove", c) /\ h.op = "remove" /\ h.c = c
  <2>1. F("remove", c).op = "remove" /\ F("remove", c).c = c
    BY DEF F
  <2> QED
    BY <2>1
<1>9. FunctorsRight'
  <2>1. ASSUME NEW k \in Loops, NEW g \in Fs(k)'
        PROVE  (g \in Fs(k) /\ g.c # c) \/ (Placed(k, g)' /\ Due(g)')
    <3>1. CASE g \notin Fs(k)
      <4>1. l # 0 /\ k = 0 /\ g = h
        BY <1>2, <1>8, <2>1, <3>1 DEF CloseQueues
      <4>2. Placed(k, g)'
        BY <1>1, <1>3, <1>8, <4>1 DEF Placed
      <4>3. dpc = "alive" /\ ~others => c \in map
        BY <1>1 DEF ConnRight
      <4>4. Due(g)'
        BY <1>1, <1>3, <1>8, <4>1, <4>3 DEF Due
      <4> QED
        BY <4>2, <4>4
    <3>2. CASE g \in Fs(k)
      <4> SUFFICES ASSUME g.c = c PROVE Placed(k, g)' /\ Due(g)'
        BY <3>2
      <4>1. Placed(k, g) /\ Due(g)
        BY <3>2 DEF FunctorsRight
      <4>2. Placed(k, g)'
        BY <1>1, <4>1 DEF Placed
      <4>3. g.op # "listen"
        BY <1>3, <4>1 DEF Placed
      <4>4. g.op # "establish" /\ (g.op = "remove" => others) /\ (g.op = "destroy" => l # 0)
        BY <1>1, <4>1, <4>3 DEF Due, Placed
      <4>5. Due(g)'
        BY <1>1, <1>3, <4>1, <4>3, <4>4 DEF Due
      <4> QED
        BY <4>2, <4>5
    <3> QED
      BY <3>1, <3>2
  <2>2. \A k \in Loops : Ordered(Pend(k))'
    BY <1>2 DEF CloseQueues
  <2> QED
    BY <1>1, <1>4, <2>1, <2>2, OneConnFunctors
<1>10. \A d \in Conns : ConnRight(d)'
  <2>1. \A k \in Loops : \A g : g.c # c /\ g.op # "forceClose" => (g \in Fs(k)' <=> g \in Fs(k))
    BY <1>2, <1>8 DEF CloseQueues
  <2>2. l # 0 => F("remove", c) \in Fs(0)'
    BY <1>2, <1>3, <1>8 DEF CloseQueues
  <2>3. l # 0 => (F("remove", c) \in Fs(0))'
    BY <2>2 DEF F
  <2>4. F("destroy", c) \in Fs(l)' <=> F("destroy", c) \in Fs(l)
    BY <1>1, <1>2 DEF CloseQueues, F
  <2>5. (F("destroy", c) \in Fs(loopOf[c]))' <=> F("destroy", c) \in Fs(loopOf[c])
    BY <1>1, <2>4 DEF F
  <2>6. ConnRight(c)
    BY <1>1
  <2>7. ConnRight(c)'
    <3> HIDE DEF ServerInv
    <3>1. CASE l # 0
      BY <1>1, <1>3, <2>3, <2>5, <2>6, <3>1, ClosedConn
    <3>2. CASE l = 0
      <4>1. ~(c > conns) /\ (loopOf[c] = 0 <=> threadNums = 0)
        BY <1>1, KnownConn
      <4> QED
        BY <1>1, <1>3, <3>2, <4>1, DestroyedConn
    <3> QED
      BY <3>1, <3>2
  <2> QED
    BY <1>1, <1>4, <2>1, <2>7, OneConn
<1> QED
  BY <1>5, <1>6, <1>7, <1>9, <1>10

(* The removal that HandleClose in an event queues. *)
LEMMA CloseQueued ==
    ASSUME ServerInv, NEW l \in Loops, NEW c \in Conns, ~others => state[c] = "kConnected",
           HandleClose(l, c), UNCHANGED <<others, threadNums, batch>>
    PROVE  CloseQueues(l, c) /\ queue' \in [Loops -> Seq(Functor)]
<1> USE DEF ServerInv
<1>1. 0 \in Loops
  BY BaseLoop
<1>2. CASE l = 0
  <2>1. queue' = queue
    BY <1>2 DEF HandleClose
  <2>2. \A k \in Loops : Pend(k)' = Pend(k) /\ Fs(k)' = Fs(k) /\ Ordered(Pend(k))
    BY <2>1 DEF Pend, Fs, FunctorsRight
  <2>3. \A k \in Loops : Ordered(Pend(k))'
    BY <2>2, OrderedPrimed
  <2> QED
    BY <1>2, <2>1, <2>2, <2>3 DEF CloseQueues, TypeOK
<1>3. CASE l # 0
  <2>1. PICK h : h = F("remove", c)
    OBVIOUS
  <2>2. queue' = Queued(0, h)
    BY <1>3, <2>1 DEF HandleClose
  <2>3. h \in Functor /\ h.op = "remove" /\ h.c = c
    <3>1. c \in 0..MaxConns
      BY ConnNumber
    <3> QED
      BY <2>1, <3>1, NewFunctor
  <2>4. Joins(0, h) /\ \A k \in Loops : k # 0 => Pend(k)' = Pend(k)
    BY <1>1, <2>2, <2>3, QueueJoins
  <2>5. Ordered(Pend(0)) /\ (Repeats(h) \/ h \notin Fs(0))
    BY <1>1, <2>3 DEF FunctorsRight, Due, Repeats
  <2>6. Fs(0)' = Fs(0) \cup {h} /\ Ordered(Pend(0)') /\ \A k \in Loops : k # 0 => Fs(k)' = Fs(k)
    BY <1>1, <2>3, <2>4, <2>5, JoinsSet DEF Fs
  <2>7. \A k \in Loops : Ordered(Pend(k))'
    BY <2>4, <2>6, OrderedPrimed DEF FunctorsRight
  <2>8. queue' \in [Loops -> Seq(Functor)]
    BY <1>1, <2>2, <2>3, RangeAppend DEF TypeOK, Queued
  <2>9. CloseQueues(l, c)
    BY <1>3, <2>1, <2>3, <2>6, <2>7 DEF CloseQueues
  <2> QED
    BY <2>8, <2>9
<1> QED
  BY <1>2, <1>3

(* Channel::HandleEvent: the connection that has the event may close. *)
LEMMA HandleEventInv ==
    ASSUME ServerInv, NEW l \in Loops, HandleEvent(l)
    PROVE  ServerInv'
<1> USE DEF ServerInv
<1>1. /\ lpc[l] = "handle"
      /\ UNCHANGED <<keeps, others, threadNums, started, spc, pool, listening, next, dpc, todo, conns, loopOf, lpc,
                     quit, batch, forced>>
  BY DEF HandleEvent, startVars, endVars
<1>2. PICK c \in active[l] :
        /\ active' = [active EXCEPT ![l] = @ \ {c}]
        /\ HandleClose(l, c) \/ UNCHANGED <<map, connVars, queue>>
  BY Zenon DEF HandleEvent
<1>3. Loops' = Loops /\ 0 \in Loops
  BY <1>1, LoopsKept, BaseLoop
<1>4. /\ c \in Conns /\ loopOf[c] = l
      /\ state[c] \in {"kConnected", "kDisConnected"} /\ (~others => state[c] = "kConnected")
  BY DEF LoopsRight, TypeOK, ActiveRight
<1>5. /\ active' \in [Loops -> SUBSET Conns]
      /\ \A k \in Loops : active'[k] \subseteq active[k] \ {c}
      /\ \A k \in Loops : batch'[k] # <<>> => lpc'[k] = "functors"
  <2>1. active' \in [Loops -> SUBSET Conns]
    BY <1>2 DEF TypeOK
  <2>2. \A k \in Loops : active'[k] \subseteq active[k] \ {c}
    BY <1>2, <1>4 DEF TypeOK, LoopsRight
  <2>3. \A k \in Loops : batch'[k] # <<>> => lpc'[k] = "functors"
    BY <1>1 DEF LoopsRight
  <2> QED
    BY <2>1, <2>2, <2>3
<1>6. CASE UNCHANGED <<map, connVars, queue>>
  <2>1. UNCHANGED <<map, state, watched, used, removed, kept, queue>>
    BY <1>6 DEF connVars
  <2>2. PendSame
    BY <1>1, <2>1 DEF PendSame, Pend
  <2>3. TypeOK'
    BY <1>1, <1>3, <1>5, <2>1 DEF TypeOK
  <2>4. LoopsRight'
    BY <1>1, <1>3, <1>5, <2>1, LoopsStay
  <2>5. StartRight'
    <3>1. Fs(0)' = Fs(0)
      BY <1>3, <2>2 DEF PendSame, Fs
    <3> QED
      BY <1>1, <3>1, StartKept
  <2> QED
    BY <1>1, <2>1, <2>2, <2>3, <2>4, <2>5, QuietInv
<1>7. CASE HandleClose(l, c)
  <2>1. CloseQueues(l, c) /\ queue' \in [Loops -> Seq(Functor)]
    BY <1>1, <1>4, <1>7, CloseQueued
  <2>2. batch' \in [Loops -> Seq(Functor)] /\ lpc[l] # "over"
    BY <1>1 DEF TypeOK
  <2>3. ClosesIn(l, c)
    BY <1>1, <1>4, <1>5, <1>7, <2>1, <2>2 DEF ClosesIn
  <2> QED
    BY <2>3, CloseInv
<1> QED
  BY <1>2, <1>6, <1>7

(* Another handler or functor of the loop closes the connection. *)
LEMMA CloseOtherInv ==
    ASSUME ServerInv, NEW l \in Loops, NEW c \in Conns, CloseOther(l, c)
    PROVE  ServerInv'
<1> USE DEF ServerInv
<1>1. /\ others /\ lpc[l] # "over" /\ loopOf[c] = l /\ state[c] = "kConnected" /\ HandleClose(l, c)
      /\ UNCHANGED <<keeps, others, threadNums, started, spc, pool, listening, next, dpc, todo, conns,
                     loopOf, lpc, quit, active, batch, forced>>
  BY DEF CloseOther, startVars, endVars, loopVars
<1>2. CloseQueues(l, c) /\ queue' \in [Loops -> Seq(Functor)]
  BY <1>1, CloseQueued
<1>3. /\ active' \in [Loops -> SUBSET Conns] /\ batch' \in [Loops -> Seq(Functor)]
      /\ \A k \in Loops : active'[k] \subseteq active[k]
      /\ \A k \in Loops : batch'[k] # <<>> => lpc'[k] = "functors"
  BY <1>1 DEF TypeOK, LoopsRight
<1>4. ClosesIn(l, c)
  BY <1>1, <1>2, <1>3 DEF ClosesIn
<1> QED
  BY <1>4, CloseInv
=============================================================================
