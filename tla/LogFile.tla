------------------------------- MODULE LogFile -------------------------------
(***************************************************************************)
(* muzi::LogFile (muzi/base/log_file.{h,cc}) over UnlockedWriteFile        *)
(* (muzi/base/file_utils.h): the log is appended to a file that is replaced *)
(* by a new one when it has grown to kRollSize bytes or is a day old.  The *)
(* name of a file is the second of local time it was opened in, which comes *)
(* again when the local clock is set back, and opening truncates.          *)
(*                                                                         *)
(* A message is its number, its length, the second it was appended in and  *)
(* the number of the file it was appended to.                              *)
(* "disk" holds what each file contains, "stdio" what was given to fwrite  *)
(* and is not in the file yet.  One thread owns a LogFile ("not thread     *)
(* safe", log_file.h:13), so a call is one step.                           *)
(***************************************************************************)
EXTENDS Integers, Sequences, SequencesExt, FiniteSets

CONSTANTS RollSize,       \* kRollSize
          CheckEveryN,    \* kCheckEveryN
          FlushInterval,  \* kFlushIntervalSeconds
          RollInterval,   \* kRollIntervalSeconds
          MaxLen,         \* the longest message
          MaxMessages,    \* bound: the messages appended
          MaxTime,        \* bound: the clock
          MaxRestarts,    \* bound: the LogFiles made after the first
          SetBackTimes,   \* when the local clock may be set back
          SetBackBy       \* by how much

ASSUME LogFileAssumption ==
    /\ {RollSize, CheckEveryN, FlushInterval, RollInterval, MaxLen} \subseteq Nat \ {0}
    /\ {MaxMessages, MaxTime, MaxRestarts, SetBackBy} \cup SetBackTimes \subseteq Nat
    /\ \A t \in SetBackTimes : SetBackBy < t

VARIABLES
    now,                                    \* ::time(NULL)
    setBack,                                \* when the local clock is set back
    written_bytes, last_roll, last_flush, count,
    name,                                   \* the file that is open
    disk, stdio,
    appended,                               \* history: the messages so far
    opened,                                 \* history: the names opened so far
    restarts                                \* history: the LogFiles made after the first

counters == <<written_bytes, last_roll, last_flush, count>>
vars == <<now, setBack, counters, name, disk, stdio, appended, opened, restarts>>

Message == [id : 1..MaxMessages, len : 1..MaxLen, at : 1..MaxTime, file : Nat]

TypeOK ==
    /\ now \in 1..MaxTime /\ setBack \in SetBackTimes /\ restarts \in 0..MaxRestarts
    /\ written_bytes \in Nat
    /\ {last_roll, last_flush, name} \subseteq 1..now
    /\ count \in 0..(CheckEveryN - 1)
    /\ name \in DOMAIN disk /\ DOMAIN disk \subseteq 1..now
    /\ \A f \in DOMAIN disk : disk[f] \in Seq(Message)
    /\ {stdio, appended} \subseteq Seq(Message) /\ opened \in Seq(DOMAIN disk)

-----------------------------------------------------------------------------
(* The file. *)

(* GetLogFileName: localtime_r and strftime tell seconds apart, but for      *)
(* those that the local clock shows twice.                                   *)
GetLogFileName(t) == IF t >= setBack THEN t - SetBackBy ELSE t

Flushed == [disk EXCEPT ![name] = @ \o stdio]

(* Reset: the open file is closed, which flushes it, and the file of the     *)
(* given name is opened empty.                                               *)
Reset(d, file) == [f \in DOMAIN d \cup {file} |-> IF f = file THEN <<>> ELSE d[f]]

(* stdio writes what it holds whenever its own buffer is full. *)
StdioWrites ==
    /\ stdio # <<>>
    /\ disk' = Flushed /\ stdio' = <<>>
    /\ UNCHANGED <<now, setBack, counters, name, appended, opened, restarts>>

Tick ==
    /\ now < MaxTime
    /\ now' = now + 1
    /\ UNCHANGED <<setBack, counters, name, disk, stdio, appended, opened, restarts>>

-----------------------------------------------------------------------------
(* The operations. *)

(* Mutant: the old file is neither flushed nor closed. *)
RollFileUnflushed(d) ==
    /\ last_roll' = now /\ last_flush' = now
    /\ name' = GetLogFileName(now)
    /\ disk' = Reset(disk, name')
    /\ stdio' = <<>>
    /\ opened' = Append(opened, name')

(* RollFile, from a state of the disk in which everything is flushed. *)
RollFile(d) ==
    /\ last_roll' = now /\ last_flush' = now
    /\ name' = GetLogFileName(now)
    /\ disk' = Reset(d, name')
    /\ stdio' = <<>>
    /\ opened' = Append(opened, name')

(* The constructor rolls to the first file. *)
Init ==
    /\ now = 1 /\ setBack \in SetBackTimes
    /\ written_bytes = 0 /\ count = 0
    /\ last_roll = now /\ last_flush = now
    /\ name = GetLogFileName(now)
    /\ disk = [f \in {name} |-> <<>>]
    /\ stdio = <<>> /\ appended = <<>> /\ opened = <<name>> /\ restarts = 0

(* The destructor closes the file, and another LogFile is made. *)
Restart ==
    /\ restarts < MaxRestarts
    /\ restarts' = restarts + 1
    /\ written_bytes' = 0 /\ count' = 0
    /\ RollFile(Flushed)
    /\ UNCHANGED <<now, setBack, appended>>

IsFull(bytes) == bytes >= RollSize

(* Mutant: the flush is put off when the counter wraps. *)
CheckTimeNoFlush(d, pending) ==
    IF now - last_roll >= RollInterval
      THEN RollFile(d)
      ELSE /\ last_flush' = IF now - last_flush >= FlushInterval THEN now ELSE last_flush
           /\ disk' = disk /\ stdio' = pending
           /\ UNCHANGED <<last_roll, name, opened>>

(* Every kCheckEveryN messages Append looks at the clock.  d is the disk     *)
(* with all that is pending written to it.                                   *)
CheckTime(d, pending) ==
    IF now - last_roll >= RollInterval
      THEN RollFile(d)
      ELSE IF now - last_flush >= FlushInterval
        THEN /\ last_flush' = now
             /\ disk' = d /\ stdio' = <<>>
             /\ UNCHANGED <<last_roll, name, opened>>
        ELSE /\ disk' = disk /\ stdio' = pending
             /\ UNCHANGED <<last_flush, last_roll, name, opened>>

Counted == IF count + 1 >= CheckEveryN THEN 0 ELSE count + 1

AppendMessage(len) ==
    LET m == [id |-> Len(appended) + 1, len |-> len, at |-> now, file |-> Len(opened)]
        pending == Append(stdio, m)
        d == [disk EXCEPT ![name] = @ \o pending]
        bytes == written_bytes + len
    IN /\ Len(appended) < MaxMessages
       /\ appended' = Append(appended, m)
       /\ UNCHANGED <<now, setBack, restarts>>
       /\ \/ /\ IsFull(bytes)
             /\ written_bytes' = 0
             /\ RollFile(d)
             /\ UNCHANGED count
          \/ /\ ~IsFull(bytes)
             /\ written_bytes' = bytes
             /\ count' = Counted
             /\ \/ /\ count + 1 >= CheckEveryN
                   /\ CheckTime(d, pending)
                \/ /\ count + 1 < CheckEveryN
                   /\ stdio' = pending
                   /\ UNCHANGED <<last_roll, last_flush, name, disk, opened>>

(* AsyncOutputer flushes after each batch. *)
Flush ==
    /\ disk' = Flushed /\ stdio' = <<>>
    /\ UNCHANGED <<now, setBack, counters, name, appended, opened, restarts>>

Next == Tick \/ StdioWrites \/ Flush \/ Restart \/ \E len \in 1..MaxLen : AppendMessage(len)

Spec == Init /\ [][Next]_vars

-----------------------------------------------------------------------------
(* Properties. *)

Bytes(s) == FoldLeft(LAMBDA n, m : n + m.len, 0, s)

(* What a file of this name will hold. *)
Contents(f) == disk[f] \o (IF f = name THEN stdio ELSE <<>>)

LastOpened(f) == CHOOSE k \in DOMAIN opened : opened[k] = f /\ \A i \in DOMAIN opened : opened[i] = f => i <= k

(* A file holds every message appended since it was last opened, in order,   *)
(* and no other: whether files are replaced for their size, for their age or *)
(* by another LogFile (log_file.cc:45-58, 83), a message is lost only when   *)
(* the name of its file is opened again, and never at a roll.                *)
LogComplete ==
    \A f \in DOMAIN disk : Contents(f) = SelectSeq(appended, LAMBDA m : m.file = LastOpened(f))

(* The files, in the order in which they were opened, are the log.           *)
LogWhole == FlattenSeq([k \in DOMAIN opened |-> Contents(opened[k])]) = appended

(* No file is longer than kRollSize but for the message that filled it,      *)
(* although written_bytes_ is not reset when a file is replaced for its age. *)
FileBounded ==
    \A f \in DOMAIN disk :
      Bytes(disk[f]) + (IF f = name THEN Bytes(stdio) ELSE 0) < RollSize + MaxLen

Late(s, since, interval) == {i \in DOMAIN s : s[i].at >= since + interval}

(* A message waits in stdio for a flush for kFlushIntervalSeconds and fewer  *)
(* than kCheckEveryN further messages: the counter also counts across rolls, *)
(* and last_flush_ is not set by the flushes of AsyncOutputer.               *)
FlushedInTime ==
    stdio # <<>> => Cardinality(Late(stdio, stdio[1].at, FlushInterval)) < CheckEveryN

(* Once the open file is older than kRollIntervalSeconds it takes fewer than *)
(* kCheckEveryN messages before it is replaced.                              *)
RolledInTime ==
    Cardinality(Late(disk[name] \o stdio, last_roll, RollInterval)) < CheckEveryN
=============================================================================
