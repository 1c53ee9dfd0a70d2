-------------------------------- MODULE Logger --------------------------------
(***************************************************************************)
(* muzi::Logger and StackWritter (muzi/base/logger.{h,cc}) with the        *)
(* Outputers (outputer.h): threads execute LOG_INFO, LOG_ERROR, LOG_FATAL  *)
(* and the like, others set the level and the outputer of the logger, and  *)
(* the AsyncOutputer runs beside them.                                     *)
(*                                                                         *)
(* A line is made in the LogStream of a StackWritter, which no other       *)
(* thread sees, and its destructor hands it to the outputer: making it is  *)
(* one step.  Of what stdout and stderr are given only the fatal lines are *)
(* told apart, one for each thread: "stdio" holds those that stdout was    *)
(* given and has not written yet, "screen" those that were written.        *)
(***************************************************************************)
EXTENDS AsyncOutputer, LogStream

CONSTANTS Writers,      \* the threads that log
          Processes,    \* what a process does with the logger: see Process
          HeaderLen, TailLen,   \* the lengths of the text before and after the message
          TraceLen,     \* the length of a stack trace
          Texts,        \* the lengths of the text of a message, or NullPointer
          LineDigits    \* the digits of a line number

kError == 4
kFatal == 5

Outputers == {"stdout", "stderr", "closed", "async"}

(* The outputer that main sets, the arguments of later calls of SetOutputer  *)
(* and SetLogLevel, whether an AsyncOutputer is started, the levels that the *)
(* threads log at, the lengths of the addresses that they log, 0 for none;   *)
(* and bounds: the number of lines, and the clock.                           *)
Process == [first : {"stdout", "async"},
            outputers : SUBSET Outputers,
            thresholds : SUBSET (0..kFatal),
            starts : BOOLEAN,
            levels : SUBSET (0..kFatal),
            hexes : SUBSET Nat,
            maxLines : Nat,
            maxTime : Nat]

ASSUME LoggerAssumption ==
    /\ Processes \subseteq Process
    /\ {HeaderLen, TailLen, TraceLen, SmallSize} \subseteq Nat
    /\ SizeRange \in Nat /\ SizeRange > SmallSize
    /\ Texts \subseteq Nat \cup {NullPointer}
    /\ LineDigits \in 1..MaxNumeric
    /\ Sizes = 1..(SmallSize - 1)

VARIABLES
    process,            \* what this process does
    level, outputer,    \* log_level_ and outputer_ of gDefaultLogger
    writer,             \* the StackWritter of each thread
    cache,              \* last_second and t_time_buf of each thread
    clock,              \* gettimeofday
    stdio, screen,
    lines,              \* the number of lines
    aborted             \* the process has called abort

settings == <<process, level, outputer>>
lineVars == <<writer, cache, lines>>
stdVars == <<stdio, screen>>
allVars == <<vars, settings, lineVars, stdVars, clock, aborted>>

(* No StackWritter. *)
Idle == [at |-> "idle", level |-> 0, size |-> 0, hex |-> 0, time |-> 0, shown |-> 0,
         id |-> 0, to |-> "none", flushed |-> "none"]

LogInit ==
    /\ Init
    /\ process \in Processes
    /\ level = 0 /\ outputer = process.first
    /\ writer = [t \in Writers |-> Idle]
    /\ cache = [t \in Writers |-> [last |-> 0, tm |-> 0]]
    /\ clock = PerSecond
    /\ stdio = {} /\ screen = {}
    /\ lines = 0
    /\ aborted = FALSE

-----------------------------------------------------------------------------
(* A statement. *)

(* LOG_TRACE to LOG_WARN look at the level, the others do not. *)
Enabled(l) == l >= kError \/ level <= l

(* Finish, and the stack trace of an error. *)
Finished(size, l) ==
    LET line == AppendText(AppendNumber(size, LineDigits), TailLen)
    IN IF l >= kError THEN AppendText(line, TraceLen) ELSE line

(* The macro, the constructor, a message and the destructor up to Output.    *)
(* What a thread does that has written past the end of its stream is not     *)
(* followed.                                                                 *)
Write(t, l, len, hex) ==
    LET stamp == ToFormatString(clock, cache[t])
        message == AppendMessage(AppendText(0, HeaderLen), len)
        size == Finished(IF hex = 0 THEN message ELSE AppendHex(message, hex), l)
    IN /\ ~aborted
       /\ writer[t].at = "idle" /\ lines < process.maxLines
       /\ l \in process.levels /\ Enabled(l)
       /\ lines' = lines + 1
       /\ cache' = [cache EXCEPT ![t] = stamp]
       /\ writer' = [writer EXCEPT ![t] =
                       [Idle EXCEPT !.at = IF size < SmallSize THEN "output" ELSE "overrun",
                                    !.level = l, !.hex = hex, !.size = size,
                                    !.time = clock, !.shown = stamp.tm]]
       /\ UNCHANGED <<vars, settings, stdVars, clock, aborted>>

(* The number of the next line in the AsyncOutputer. *)
Id == IF outputer = "async" THEN logged + 1 ELSE 0

(* What the thread does when Output has returned. *)
Handed(t) ==
    /\ ~aborted
    /\ writer[t].at = "output"
    /\ writer' = [writer EXCEPT ![t] = IF @.level = kFatal
                                         THEN [Idle EXCEPT !.at = "flush", !.level = kFatal,
                                                           !.to = outputer, !.id = Id]
                                         ELSE Idle]
    /\ UNCHANGED <<cache, lines, settings, clock, aborted>>

(* The line of t, if it is fatal. *)
Line(t) == IF writer[t].level = kFatal THEN {t} ELSE {}

OutputStdout(t) ==
    /\ outputer = "stdout" /\ Handed(t)
    /\ stdio' = stdio \cup Line(t)
    /\ UNCHANGED <<vars, screen>>

OutputStderr(t) ==
    /\ outputer = "stderr" /\ Handed(t)
    /\ screen' = screen \cup Line(t)
    /\ UNCHANGED <<vars, stdio>>

OutputClosed(t) == outputer = "closed" /\ Handed(t) /\ UNCHANGED <<vars, stdVars>>

OutputAsync(t) ==
    /\ outputer = "async" /\ Handed(t)
    /\ Output([id |-> logged + 1, size |-> writer[t].size])
    /\ UNCHANGED stdVars

(* A fatal line is flushed: GetOutputer is called again. *)
Flushes(t, o) ==
    /\ ~aborted
    /\ writer[t].at = "flush" /\ outputer = o
    /\ writer' = [writer EXCEPT ![t].at = "abort", ![t].flushed = o]
    /\ UNCHANGED <<cache, lines, settings, clock, aborted>>

(* Mutant: stdout is not flushed. *)
FlushStdoutNot(t) == Flushes(t, "stdout") /\ UNCHANGED <<vars, stdVars>>

FlushStdout(t) ==
    /\ Flushes(t, "stdout")
    /\ screen' = screen \cup stdio /\ stdio' = {}
    /\ UNCHANGED vars

FlushNothing(t) ==
    /\ \E o \in {"stderr", "closed"} : Flushes(t, o)
    /\ UNCHANGED <<vars, stdVars>>

FlushAsync(t) == Flushes(t, "async") /\ Flush /\ UNCHANGED stdVars

Abort(t) ==
    /\ ~aborted
    /\ writer[t].at = "abort"
    /\ aborted' = TRUE
    /\ UNCHANGED <<vars, settings, lineVars, stdVars, clock>>

-----------------------------------------------------------------------------
(* The rest of the process. *)

SetLogLevel(l) ==
    /\ ~aborted /\ l \in process.thresholds /\ level # l
    /\ level' = l
    /\ UNCHANGED <<vars, process, outputer, lineVars, stdVars, clock, aborted>>

SetOutputer(o) ==
    /\ ~aborted /\ o \in process.outputers /\ outputer # o
    /\ outputer' = o
    /\ UNCHANGED <<vars, process, level, lineVars, stdVars, clock, aborted>>

(* stdout writes what it holds when its buffer is full. *)
StdioWrites ==
    /\ ~aborted /\ stdio # {}
    /\ screen' = screen \cup stdio /\ stdio' = {}
    /\ UNCHANGED <<vars, settings, lineVars, clock, aborted>>

Tick ==
    /\ ~aborted /\ clock < process.maxTime
    /\ clock' = clock + 1
    /\ UNCHANGED <<vars, settings, lineVars, stdVars, aborted>>

(* The AsyncOutputer's own steps, until the process ends. *)
Beside == ~aborted /\ UNCHANGED <<settings, lineVars, stdVars, clock, aborted>>

OutputerRuns == Run /\ Beside
OutputerFlush == Flush /\ Beside
OutputerStart == process.starts /\ Start /\ Beside
OutputerStop == Stop /\ Beside
OutputerJoin == Join /\ Beside

LogNext ==
    \/ \E t \in Writers : \/ \E l \in 0..kFatal, len \in Texts, hex \in process.hexes : Write(t, l, len, hex)
                          \/ OutputStdout(t) \/ OutputStderr(t) \/ OutputClosed(t)
                          \/ OutputAsync(t)
                          \/ FlushStdout(t) \/ FlushNothing(t) \/ FlushAsync(t) \/ Abort(t)
    \/ \E l \in 0..kFatal : SetLogLevel(l)
    \/ \E o \in Outputers : SetOutputer(o)
    \/ StdioWrites \/ Tick
    \/ OutputerRuns \/ OutputerFlush \/ OutputerStart \/ OutputerStop \/ OutputerJoin

LogSpec == LogInit /\ [][LogNext]_allVars

(* The fairness of AsyncOutputer. *)
LogFairSpec == LogSpec /\ WF_allVars(OutputerRuns) /\ WF_allVars(OutputerJoin)

-----------------------------------------------------------------------------
(* Properties. *)

(* LOG_FATAL is seen: when the process ends, the line that ended it has been *)
(* written, if stdout or stderr was given it and was the one flushed.        *)
FatalShown ==
    aborted => \A t \in Writers :
        writer[t].at = "abort" /\ writer[t].to \in {"stdout", "stderr"}
          /\ writer[t].flushed = writer[t].to
        => t \in screen

(* The same of an AsyncOutputer, whose Flush only wakes the logging thread.  *)
FatalWritten ==
    aborted => \A t \in Writers :
        writer[t].at = "abort" /\ writer[t].to = "async" /\ writer[t].flushed = "async"
        => writer[t].id \in Ids(file) \cup dropped

(* The buffer of a stream keeps a byte free at its end (fixed_buffer.h:26),  *)
(* although numbers are converted in place and before their length is known, *)
(* as long as no address is longer than the room that is asked for it,       *)
(* kMaxHexSize (log_stream.h:111).                                           *)
LineFits == \A t \in Writers : writer[t].hex <= MaxHex => writer[t].size < SmallSize

(* The same of every address.                                                *)
AnyLineFits == \A t \in Writers : writer[t].size < SmallSize

(* The date of a line is that of its own second, though each thread converts *)
(* a second only once.                                                       *)
StampRight == \A t \in Writers : writer[t].at # "idle" => writer[t].shown = GetSecs(writer[t].time)

(* A line given to an AsyncOutputer is written in the end, though no buffer  *)
(* is ever full and Notify may come before the wait (async_outputer.cc:85),  *)
(* unless the outputer is stopped or the process aborts.                     *)
Written ==
    \A k \in 1..MaxMessages :
        (running /\ logged >= k) ~> (k \in Ids(file) \cup dropped \/ ~running \/ aborted)

(* AsyncOutputer::Stop returns, whatever the threads log meanwhile and       *)
(* although its Notify is made without mutex_, unless the process aborts.    *)
StopReturns == spc = "joining" ~> (spc = "stopped" \/ aborted)
=============================================================================
