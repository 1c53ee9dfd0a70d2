---------------------------- MODULE AsyncOutputer ----------------------------
(***************************************************************************)
(* muzi::AsyncOutputer (muzi/base/async_outputer.{h,cc}): threads append   *)
(* log messages to current_buffer_ under mutex_, and the logging thread    *)
(* takes the full buffers and writes them.                                 *)
(*                                                                         *)
(* A message is a number and a size, a buffer is the sequence of messages  *)
(* in it.  next_buffer_, new_buffer1 and new_buffer2 are empty when they   *)
(* are set.  Each critical section is one step.  WaitForSeconds may return *)
(* at any time, so what Notify does is to make it return sooner.           *)
(***************************************************************************)
EXTENDS Naturals, Sequences, SequencesExt

CONSTANTS Sizes,        \* the sizes of messages
          LargeSize,    \* kLargeBuffSize
          MaxBuffers,   \* 25, the buffers written in one round before some are dropped
          MaxMessages,  \* bound: the messages
          MaxFlushes    \* bound: the calls of Flush

ASSUME OutputerAssumption ==
    /\ LargeSize \in Nat /\ Sizes \subseteq 1..(LargeSize - 1)
    /\ MaxBuffers \in Nat /\ MaxBuffers >= 2
    /\ MaxMessages \in Nat /\ MaxFlushes \in Nat

VARIABLES
    running,            \* running_
    current,            \* current_buffer_
    hasNext,            \* next_buffer_ is set
    buffers,            \* buffers_
    \* the logging thread
    wpc,                \* where it is in Run
    lastWrite,          \* last_write
    new1, new2,         \* new_buffer1 and new_buffer2 are set
    toWrite,            \* buffers_to_write
    \* the file, the thread that stops, and history
    file,               \* what was written
    spc,                \* where the thread is that calls Start and Stop
    logged,             \* the number of messages
    flushes,            \* the number of calls of Flush
    dropped,            \* the messages that were dropped
    before              \* the number of messages when Stop was called

frontVars == <<current, hasNext, buffers, logged, flushes>>
runVars == <<wpc, lastWrite, new1, new2, toWrite, file, dropped>>
stopVars == <<running, spc, before>>
vars == <<frontVars, runVars, stopVars>>

Message == [id : 1..MaxMessages, size : Sizes]

TypeOK ==
    /\ running \in BOOLEAN /\ hasNext \in BOOLEAN
    /\ lastWrite \in BOOLEAN /\ new1 \in BOOLEAN /\ new2 \in BOOLEAN
    /\ current \in Seq(Message) /\ file \in Seq(Message)
    /\ buffers \in Seq(Seq(Message)) /\ toWrite \in Seq(Seq(Message))
    /\ wpc \in {"off", "test", "mark", "lock", "wait", "write", "refill", "done"}
    /\ wpc \in {"off", "test", "mark", "lock", "wait", "done"} => toWrite = <<>>
    /\ spc \in {"idle", "started", "joining", "stopped"}
    /\ logged \in 0..MaxMessages /\ flushes \in 0..MaxFlushes
    /\ dropped \subseteq 1..MaxMessages /\ before \in 0..MaxMessages

Init ==
    /\ running = FALSE
    /\ current = <<>> /\ hasNext = TRUE /\ buffers = <<>>
    /\ wpc = "off" /\ lastWrite = TRUE /\ new1 = TRUE /\ new2 = TRUE
    /\ toWrite = <<>> /\ file = <<>>
    /\ spc = "idle"
    /\ logged = 0 /\ flushes = 0 /\ dropped = {} /\ before = 0

Ids(b) == {b[i].id : i \in DOMAIN b}
Size(b) == FoldLeft(LAMBDA n, m : n + m.size, 0, b)

-----------------------------------------------------------------------------
(* Any thread. *)

Avail(b) == LargeSize - Size(b) - 1

(* current_buffer_ goes to buffers_; next_buffer_ or a new one takes its     *)
(* place.                                                                    *)
PushCurrent ==
    /\ buffers' = Append(buffers, current)
    /\ hasNext' = FALSE

Output(m) ==
    /\ logged < MaxMessages
    /\ m.id = logged + 1
    /\ logged' = logged + 1
    /\ IF m.size > Avail(current)
         THEN PushCurrent /\ current' = <<m>>
         ELSE current' = Append(current, m) /\ UNCHANGED <<hasNext, buffers>>
    /\ UNCHANGED <<flushes, runVars, stopVars>>

(* Mutant: the buffer is put in front. *)
FlushFront ==
    /\ flushes < MaxFlushes
    /\ flushes' = flushes + 1
    /\ buffers' = <<current>> \o buffers
    /\ hasNext' = FALSE
    /\ current' = <<>>
    /\ UNCHANGED <<logged, runVars, stopVars>>

Flush ==
    /\ flushes < MaxFlushes
    /\ flushes' = flushes + 1
    /\ PushCurrent
    /\ current' = <<>>
    /\ UNCHANGED <<logged, runVars, stopVars>>

(* Start returns when the logging thread has counted latch_ down. *)
Start ==
    /\ spc = "idle"
    /\ spc' = "started"
    /\ running' = TRUE
    /\ wpc' = "test"
    /\ UNCHANGED <<frontVars, lastWrite, new1, new2, toWrite, file, dropped, before>>

Stop ==
    /\ spc = "started"
    /\ spc' = "joining"
    /\ running' = FALSE
    /\ before' = logged
    /\ UNCHANGED <<frontVars, runVars>>

Join ==
    /\ spc = "joining"
    /\ wpc = "done"
    /\ spc' = "stopped"
    /\ UNCHANGED <<frontVars, runVars, running, before>>

-----------------------------------------------------------------------------
(* The logging thread. *)

RunFrame == UNCHANGED <<frontVars, stopVars>>

(* Mutant: last_write is not looked at. *)
RunTestRunning ==
    /\ wpc = "test"
    /\ wpc' = IF running THEN "mark" ELSE "done"
    /\ UNCHANGED <<lastWrite, new1, new2, toWrite, file, dropped>>
    /\ RunFrame

RunTest ==
    /\ wpc = "test"
    /\ wpc' = IF running \/ lastWrite THEN "mark" ELSE "done"
    /\ UNCHANGED <<lastWrite, new1, new2, toWrite, file, dropped>>
    /\ RunFrame

(* Mutant: last_write is never cleared. *)
RunMarkNot ==
    /\ wpc = "mark"
    /\ wpc' = "lock"
    /\ UNCHANGED <<lastWrite, new1, new2, toWrite, file, dropped>>
    /\ RunFrame

RunMark ==
    /\ wpc = "mark"
    /\ wpc' = "lock"
    /\ lastWrite' = running
    /\ UNCHANGED <<new1, new2, toWrite, file, dropped>>
    /\ RunFrame

RunWait ==
    /\ wpc = "lock"
    /\ buffers = <<>>
    /\ wpc' = "wait"
    /\ UNCHANGED <<lastWrite, new1, new2, toWrite, file, dropped>>
    /\ RunFrame

RunSwap ==
    /\ (wpc = "lock" /\ buffers # <<>>) \/ wpc = "wait"
    /\ wpc' = "write"
    /\ toWrite' = Append(buffers, current)
    /\ current' = <<>>
    /\ buffers' = toWrite
    /\ new1' = FALSE
    /\ hasNext' = (hasNext \/ new2)
    /\ new2' = (new2 /\ hasNext)
    /\ UNCHANGED <<lastWrite, file, dropped, logged, flushes, stopVars>>

(* What is left when there is too much to write. *)
Kept(bs) == IF Len(bs) > MaxBuffers THEN SubSeq(bs, 1, 2) ELSE bs

(* The buffers are written, and no more than two are left. *)
RunWrite ==
    /\ wpc = "write"
    /\ wpc' = "refill"
    /\ LET kept == Kept(toWrite)
           gone == SubSeq(toWrite, Len(kept) + 1, Len(toWrite))
       IN /\ file' = file \o FlattenSeq(kept)
          /\ dropped' = dropped \cup UNION {Ids(b) : b \in ToSet(gone)}
          /\ toWrite' = [i \in 1..(IF Len(kept) > 2 THEN 2 ELSE Len(kept)) |-> <<>>]
    /\ UNCHANGED <<lastWrite, new1, new2>>
    /\ RunFrame

RunRefill ==
    /\ wpc = "refill"
    /\ wpc' = "test"
    /\ new1' = TRUE /\ new2' = TRUE
    /\ toWrite' = <<>>
    /\ UNCHANGED <<lastWrite, file, dropped>>
    /\ RunFrame

-----------------------------------------------------------------------------
Run == RunTest \/ RunMark \/ RunWait \/ RunSwap \/ RunWrite \/ RunRefill

Next == \/ \E m \in Message : Output(m)
        \/ Flush \/ Start \/ Stop \/ Join
        \/ Run

Spec == Init /\ [][Next]_vars

(* The logging thread runs, WaitForSeconds ends, and a thread in Join goes   *)
(* on when the logging thread has exited.                                    *)
FairSpec == Spec /\ WF_vars(Run) /\ WF_vars(Join)

-----------------------------------------------------------------------------
(* Properties. *)

Pending == FlattenSeq(toWrite) \o FlattenSeq(buffers) \o current

(* Messages reach the file in the order of their Output, each once, and none *)
(* is missing but those dropped for overload (async_outputer.cc:94-99).      *)
InOrder ==
    LET all == file \o Pending
    IN /\ \A i, j \in DOMAIN all : i < j => all[i].id < all[j].id
       /\ Ids(all) = (1..logged) \ dropped

(* A buffer is at hand whenever one is moved: new_buffer1 and new_buffer2    *)
(* are set at the swap, and buffers_to_write.back() exists at the refill.    *)
BuffersAtHand ==
    /\ wpc \in {"lock", "wait"} => new1 /\ new2
    /\ wpc = "refill" => Len(toWrite) >= (IF new2 THEN 1 ELSE 2)

(* When Stop has returned, what was logged before it is in the file, but for *)
(* what overload has dropped.                                                *)
FlushedAtStop == spc = "stopped" => 1..before \subseteq Ids(file) \cup dropped
=============================================================================
