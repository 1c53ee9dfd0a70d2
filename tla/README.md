# A TLA+ verification of muzi

muzi is a C++ network library in the style of a reactor: an event loop per
thread, non-blocking TCP connections on top of it, and the threads, timers,
buffers and logging they need. This directory models its components in TLA+,
model-checks them with TLC on small instances, and proves with TLAPS, for every
instance, the central results about the event loop, the timer queue, connections with
their channel and poller, the server, the acceptor, the thread pool, the start and stop
of threads, and the times given to the kernel.

Paths below are relative to `src/muzi/`. The models describe the default
(Release) build: `assert` is compiled out, `LOG_FATAL` and `LOG_SYSFAT` abort.

    tlc -workers 2 -config EventLoop.cfg MCEventLoop            # a run
    tlapm EventLoopProofs.tla                                   # the proofs

`PROJECT.json` lists the runs, the lines each definition models, the hazards,
the mutants every property is tested against, and the theorems.

## 1. The system

| Component | State | Operations | Interacts with |
|---|---|---|---|
| `EventLoop` | `looping_`, `quit_`, `functors_`, the eventfd | `Loop`, `Quit`, `QueueInLoop`, `RunInLoop`, `RunAndWait` | everything |
| `TimerQueue`, `Timer` | `timers_`, `active_timers_`, `canceling_timers_`, the timerfd | `AddTimer`, `Cancel`, `HandleRead` | the functor queue |
| `Channel`, `EpollPoller` | events, index, tie; the map of channels, epoll's set | `Update`, `Remove`, `Poll`, `HandleEvent` | connections, loop |
| `Buffer` (the former buffer) | vector of blocks, two iterators over its seams | the same, `Prepend`, searches, integers | |
| `ChainBuffer` | list of blocks, two positions, `readable_bytes_` | `Append`, `Retrive`, `UnWrite`, `ReadFd`, `WriteFd`, `Shrink` | connections |
| `TcpConnection` | `state_`, output buffer, its channel | `Send`, `ShutDown`, `ForceClose`, `StartRead`, `StopRead`, handlers | channel, loop, server or client |
| `Acceptor` | listening, the reserve descriptor | `Listen`, `HandleRead`, destructor | server |
| `TcpServer` | `connections_`, `started_`, loops | `Start`, `NewConnection`, `RemoveConnection`, destructor | acceptor, pool of loops |
| `Connector`, `TcpClient` | `connect_`, `state_`, `channel_`, retry timer; `connection_`, `to_connect_` | `Connect`, `DisConnect`, `Stop`, `GetConnection`, destructor | timers, loop |
| `Thread`, `CountdownLatch`, `MutexLock` | `started_`, `tid_`; `count_`; `holder_` | `Start`, `RunThread`; `Wait`, `CountDown` | every class with a thread |
| `EventLoopThread`, `EventLoopThreadPool` | `loop_`, the thread | `StartLoop`, `Stop`, `Start`, destructors | loop |
| `ThreadPool` | `queue_`, `running_`, two conditions | `Start`, `Run`, `Stop`, workers | |
| `Logger`, `LogStream` | level, outputer; a fixed buffer per line | `LOG_*`, `SetLogLevel`, `SetOutputer`, `operator<<` | the outputers |
| `AsyncOutputer` | the front-end buffers, the writer's buffers | `Output`, `Flush`, `Start`, `Stop`, `Run` | `LogFile` |
| `LogFile` | counters, the open file | `Append`, `Flush`, `RollFile` | |

What makes it hard is the same everywhere. State that belongs to a loop is
touched by one thread only, and other threads send functors; so what a caller
has checked may be stale when its functor runs. Callbacks run inside handlers
and call back into the object that is handling an event. Objects are destroyed
by one thread while functors, timers and events that name them are on their way.
Several flags and notifications are written without the lock that their readers
hold. The hazards in `PROJECT.json` give the line for each.

## 2. The modules

| Module | Models | Notes |
|---|---|---|
| `EventLoop` | `net/event_loop.*` | the loop thread statement by statement, any number of callers; functors are user code that may call back |
| `SerialExecutor` | the promise of the loop | functors complete one after the other in the order submitted; `EventLoop` refines it |
| `TimerQueue` | `net/timer_queue.*`, `net/timer.*` | a discrete clock; callbacks may add and cancel timers |
| `TcpConnection` | `net/tcp_connection.*`, `net/channel.*`, `net/poller/epoll_poller.*` | a connection, its channel, its poller and its peer together, in an I/O loop that is not the loop of its server; the calls of `SendInLoop` that wait for a high-water callback are a stack |
| `ChainBuffer` | `net/chain_buffer.*` | block by block; the loops of the code are recursive operators |
| `ByteQueue` | the promise of a buffer | `ChainBuffer` refines it |
| `OldBuffer` | `net/old_buffer.*`, `net/endian_transform.h` | functions of a buffer; `operator--` and integers of every width as the code has them |
| `Buffers` | both buffers side by side | each action makes the same call on both |
| `TimerSet` | `TimerQueue::TimerSet`, `GetExpired` | the ordered set, as functions |
| `Timestamp` | `base/timestamp.*`, `ResetTimerFd`, `Condition::WaitForSeconds` | times, their parts, and the timespecs made of them |
| `TcpClient` | `net/connector.*`, `net/tcp_client.*` | the two composed, with the loop that runs them |
| `TcpServer` | `net/tcp_server.*` with the lifetimes in `tcp_connection` and `channel` | a base loop and `threadNums` I/O loops; references are counted by where a `shared_ptr` is held; each turn of the destructor's loop is a step, so that the I/O loops run between two turns; whether the user keeps its connections (`keeps`) and whether handlers close connections other than their own (`others`: a timer of `ForceCloseWithDelay`, for one) is chosen at the start |
| `SocketOps` | `net/socket_ops.*`, `net/inet_address.*`, `net/socket.*` | addresses, what of them fits where they are put, classes of errors, text; an operator that reads bytes the kernel did not fill takes them as a parameter |
| `Acceptor` | `net/acceptor.*`, `socket::Accept` | the descriptor table is a number of descriptors in use and descriptor 0, which the program may close; with and without a callback; the address that the connections of one `HandleRead` share |
| `Thread` | `base/thread.*`, `base/countdown_latch.*`, `base/mutex.h` | `Start` and `RunThread` around a latch, lock by lock |
| `EventLoopThread` | `net/event_loop_thread.*`, `net/event_loop_thread_pool.*` | an owner and `N` threads, which it starts as `Thread` does |
| `ThreadPool` | `base/thread_pool.*` | the lock and both conditions step by step |
| `AsyncOutputer` | `base/async_outputer.*` | messages have lengths, buffers a size |
| `LogStream` | `base/log_stream.*`, `base/fixed_buffer.h` | a stream is the number of its bytes; conversions are sequences of digits |
| `Logger` | `base/logger.*`, `base/outputer.h` | `StackWritter` from constructor to `abort`, on top of `AsyncOutputer`; the outputer may change at any moment |
| `StringProxy` | `base/string_proxy.h` | string views over a memory, as functions |
| `LogFile` | `base/log_file.*`, `base/file_utils.h` | files are sequences of messages; a file is named by the second of local time it is opened in, which comes again when the clock is set back; a second `LogFile` may follow the first |

Each `MC` module instantiates its module for TLC and names the cfg that gives the
constants their values; `MCTcpConnection` and `MCTcpClient` also define the users. Pure functions are
checked there too, by an `ASSUME` that compares them with what they should compute over
every small input (TLC evaluates it before the run). The modules whose names end in
`Proofs` or `Lemmas` hold the theorems (section 6). Variables carry the names of the
members they model, without the trailing underscore; a program counter per thread says
between which two statements it is; variables called history in the comments
exist for the properties only. Operators marked "Mutant" are deliberate mistakes,
used only to test that a property can fail.

Conventions shared by the models:

* A block under a lock is one step where nothing inside it blocks or touches
  state that is read without the lock; otherwise it is one step per access.
* `Condition::Wait` releases the lock and sleeps in one step. `Notify` wakes one
  sleeper, nondeterministically. Sleepers that test a condition in a loop may
  wake spuriously; where the code does not loop, a profile of the user (`spurious`)
  says which may.
* The outcome of a system call (`write`, `connect`, `accept`, `readv`) is a
  nondeterministic choice among those the code tells apart.
* Memory that the code reads without having filled it holds anything.
* A socket has room for `SockCap` bytes; the peer drains it, sends, closes or
  resets.

## 3. The runs

One run per component, with the properties of the component on the same
instance, and one run for a comment the code contradicts. The longest takes about
two minutes on two cores. Where a component is used in ways that differ (what user
code calls from callbacks and threads, which outputer a process logs to), the way is
part of the initial state, so that one run covers all of them; a property that a way
breaks names the ways it holds for, and section 4 shows the break.

| Run | Instance | What it shows |
|---|---|---|
| `loop` | two callers, two functors | the loop never polls without a wakeup while a functor waits (`NoSleepOnFunctors`); a `Quit` that waits returns after the loop has stopped (`QuitReturnsStopped`); the loop is a `SerialExecutor` (`ImplementsExecutor`); functors run unless the loop is quit (`FunctorsRun`) |
| `timers` | two timers, due at 2 or 3, once or every 2 ticks, clock to 4 | the timerfd is armed in time for the earliest timer (`FdArmed`), a cancelled timer stays out (`CancelledStaysOut`) and timers run (`TimersRun`). Before: `TimerSet` keeps the order that `TimerQueue` assumes (`TimerSetRight`), the timerfd is given the time meant (`ArmedForTimer`), and times are taken apart and put together right (`TimesRight`, `DeadlineValid`) |
| `connection` | two messages of two bytes, a socket that takes one, a high-water mark of two, one more thread, four users | no byte of a message that was taken is lost, and the bytes go out in the order of the messages unless the user calls `Send` inside the high-water callback (`StreamInOrder`); buffered output is watched (`WriteWatched`), the write side is shut after the last buffered byte (`ShutdownAfterFlush`) and in the end (`ShutDownHappens`), epoll watches what the channel says (`EpollAgrees`) |
| `partial_write` | the same | violated: after a partial write only the rest of the message is buffered (`OnlyMessages`) |
| `thread_pool` | two workers, two callers, three tasks, a queue of two | while a worker sleeps there is a notification or an awakened worker for each task (`TasksSpread`), a blocked `Run` returns (`RunReturns`), and after `Stop` no worker runs (`StoppedIsQuiet`) |
| `buffer` | blocks of two bytes, iovecs of two, calls of up to three bytes, four bytes held | the `ChainBuffer` is a `ByteQueue` (`ImplementsByteQueue`), and the old buffer holds and returns the same bytes whatever is called (`BuffersAgree`). Before: the iterator over the seams is a random-access iterator but for `operator--` (`IteratorsRight`, `DecrementsAtSeamsOnly`) |
| `client` | an owner thread, a thread in `GetConnection`, two connections, four users, IPv4 and IPv6 servers | whatever users call, a client has one connection at a time, which is `connection_` (`OneConnection`); with patient users `channel_` is empty when an attempt begins (`FreshWhenPatient`), and, when the wait of the destructor does not end spuriously, nothing calls into a destroyed client (`NotUsedLate`), no attempt is under way or begins when the destructor has returned (`DestroyedQuiet`), and a client that tries on connects (`Connects`). Before: ports, addresses, their text and the retries of the blocking `Socket` (`PortsRight`, `AddressesRight`, `SelfConnectExact`, `TextWhole`, `SockAddrHolds`, `BlockingRetries`) |
| `server` | none, one or two I/O loops, two threads in `Start`, two connections, users that keep connections or not and that close connections of others or not | no loop handles an event of a connection that was freed (`NoDangling`) and a closed one is freed in the end (`Reclaimed`), both with a pool, or when only a connection's own handlers and functors close it (`Orderly`); one that is gone has taken its channel out of the poller (`RemovedInTime`); one that was destroyed stays down and out of the poller and, unless handlers close connections of others, is destroyed once (`DestroyedOnce`). Before: `GetLoopForHash` spreads hash codes evenly (`HashSpreads`) |
| `accept` | four descriptors and descriptor 0, four peers, two other users of descriptors, all errors of `accept`, with and without a callback, IPv4 and IPv6 | every connection that left the backlog was handed to the callback or closed, but for one that is given descriptor 0 (`NoneLost`); the process does not end for want of descriptors (`NotAborted`), and peers are served or refused in the end (`Served`), unless another thread takes the descriptor given up or the system has none |
| `loop_thread` | a pool of three loops, `pthread_create` that may fail | `Thread::Start` returns (`StartReturns`), and only when the new thread has stored `tid_` and left the latch for good (`StartedForGood`); `Stop` calls `Quit` on a loop that exists (`QuitOnLive`), and a stopped `EventLoopThread` is not touched by its thread (`StoppedQuiet`) |
| `logging` | two threads; a process that logs to an `AsyncOutputer`, one that goes through the other outputers and one that turns to an `AsyncOutputer` and back; at most three lines, streams of six bytes, large buffers of nine | the file and the buffers hold every message but the dropped ones, in order (`InOrder`), nothing is left when `Stop` has returned (`FlushedAtStop`), and it returns (`StopReturns`) although its `Notify` may be lost; a fatal line that stdout or stderr was given and that was flushed there is seen (`FatalShown`); no line outgrows its stream, unless an address in it is longer than the room asked for (`LineFits`). Before: digits and addresses in hexadecimal denote the number (`ConversionsRight`), the file name has no directory (`SourceFileShort`), string views compare as strings (`ProxiesCompare`, `ProxiesOfMemory`) |
| `logfile` | six messages, five seconds, files of five bytes or three seconds, a second `LogFile`, a local clock that may be set back | a file holds exactly what was appended since it was last opened (`LogComplete`): messages are lost only when the name of their file comes again; and what is written is flushed in time (`FlushedInTime`) |

Why these bounds are enough:

* `loop`: two functors make a batch of two, a functor queued while a batch runs and
  one queued by a functor; two callers make two concurrent `Quit`s and a `Quit`
  against a `QueueInLoop`.
* `timers`: two timers are enough for a timer that cancels itself or the other of
  its batch, for equal due times and for an earlier timer added later.
* `connection`: with messages of two bytes and room for one, a message is written
  in part at once, buffered, crosses the mark, and is followed by another, which the
  high-water callback of the first may send.
* `thread_pool`: a queue of two and three tasks make two notifications in flight at
  once, and a caller that waits for room.
* `buffer`: every call crosses zero, one and two block boundaries and the iovec limit,
  and the vector of the old buffer grows to eight blocks, where `ExtendSpace` begins to
  move blocks to the front.
* `client`, `server`: the second connection is what a reconnection, a stale functor
  or a second event of the same round needs.
* `accept`: four descriptors are below, at and, with the reserve given up, beyond
  the limit. The handler's behaviour depends on the last free one only.
* `logfile`: files of five bytes and messages of up to two make two rolls by size, in one
  second or not, and five seconds one by age between them.
* `logging`: three buffers full or in part are one more than the overload leaves; two
  threads make a change of the outputer between the `Output` and the `Flush` of a line,
  and an abort of one thread while the other logs.
* `loop_thread`: a latch belongs to one thread and its starter, so that one thread shows
  all of `Thread`; three show a pool that is stopped in the middle.

Deadlock is checked for `timers`, `connection`, `buffer` and `logfile`; the other
systems stop when their users have made all their calls or their destructor is done.

**Further properties.** The modules state more than the runs check, as aims for
proofs and for use while a model is changed; each holds on the instance of its
module's run (add it to the cfg): every `TypeOK` and `StartTypeOK`; `FunctorsInOrder`,
`NoSleepThroughQuit`, `RunAndWaitReturns`, `QuitStopsRunningLoop`; `NeverEarly`,
`SetsAgree`, `OneShotOnce`; `RemovedIdle`, `SilentAfterClose`, `QueuedCloseOnce`,
`MessagesSent`, `CloseRemoves`; `TasksInOrder`, `QueueBounded`, `NoSleepOnTasks`,
`RoomOffered`, `TaskRuns`; `IteratorsValid`, `ReadableExact`, `StaysPrependable`;
`AttemptWatched`, `GetterAwake`; `ErasedOnce`, `ListensOnce`,
`Balanced`; `ReserveHeld`, `CallbackGetsSocket`; `HolderLocked`;
`BuffersAtHand`, `StampRight`, `Written`; `FileBounded`, `RolledInTime`. Section 6 says
which of them are also proved.

## 4. Where the code and its comments, assertions or tests disagree

Each line is a property of a module that TLC refutes; where the last column quotes nothing, no
text promises it and the line shows a limit of the code. To reproduce it, replace the
properties of the module's cfg by the one named and make the change given, if any.
Liveness properties are refuted under `FairSpec`.

| Property | Change | What happens, and what says otherwise |
|---|---|---|
| `EventLoop!QuitStopsLoop` | | `Quit` before `Loop` has set `looping_` is forgotten (`net/event_loop.cc:124`); `net/test/event_loop_test1.cc:22-33` relies on it |
| `EventLoop!QuitReturns` | | `Loop` announces its end without the lock (`net/event_loop.cc:118`); a `Quit` that has just read `looping_` sleeps for ever |
| `TimerQueue!LoopCancelWorks` | | a `Cancel` in the loop thread overtakes the queued `AddTimer` of another thread; `net/timer_queue.h:30` promises "An uniform interface to cancel timers in loop thread or not" |
| `TcpConnection!OnlyMessages` | run `partial_write` | `net/tcp_connection.cc:181` appends as many bytes from beyond the message as were written; line 164: "Write the remaining bytes to output buffer." |
| `TcpConnection!ClosedOnce` | | another handler closes the connection while its end of file is pending; `HandleClose` runs twice, against its assertion (`net/tcp_connection.cc:402`) |
| `TcpConnection!RemovedIdle` | a user with `high \|-> {"forceClose"}` in `MCUsers` | the high-water callback closes the connection and `SendInLoop` watches its channel again; `net/channel.cc:77` asserts `IsNoneEvent()` |
| `TcpConnection!QueuedCloseOnce` | without its condition on `stopRead`, and a user with `calls \|-> {"stopRead", "forceClose"}` | the user has stopped reading and then closes: `HandleClose` puts the channel, which epoll no longer had, back into it, and when the peer resets the connection `HandleClose` runs again (`net/tcp_connection.cc:402` asserts that it is up) |
| `TcpConnection!ShutdownAfterFlush` | without its condition on `user.high` | a `ShutDown` that the high-water callback calls finds nothing buffered and shuts the write side before `SendInLoop` appends the bytes in hand; `net/tcp_connection.cc:164`: "Write the remaining bytes to output buffer." |
| `TcpConnection!AlwaysInOrder` | | a `Send` inside the high-water callback is appended before the bytes of the message that crossed the mark, which `SendInLoop` appends when the callback has returned (`net/tcp_connection.cc:114`, `175`); the comment there asks "Do need to put this to loop's functors quque?" |
| `TcpConnection!NoEventNotWatched` | | a channel without events is put back into epoll (`net/poller/epoll_poller.cc:117`); line 142: "If no event to monitor, delete it from epoll" |
| `ThreadPool!StopReturns` | | `Stop` writes `running_` without the lock; a worker sleeps on. `base/thread_pool.h:46`: `running_ GUARDED_BY(lock_)` |
| `ThreadPool!JoinedOnce` | `MaxStarts = 2`, `MaxTasks = 1` | the second `Stop` joins the first threads again; `base/thread.cc:39` asserts `!joined_` |
| `Buffers!ReadableExact` and `BuffersAgree` | `AtBoundary = TRUE`, `CHECK_DEADLOCK FALSE` | `UnWrite` to the start of a block leaves the position at the end of the block before (`net/chain_buffer.h:257`), and the count of `net/chain_buffer.h:42-43` is off |
| `Buffers!BuffersAgree` | a signed type of another size than two in `ExactTypes` | `HostToNet` and `NetToHost` of the types without a specialisation go through the 32 bits of `htonl` (`net/endian_transform.h`), so that `AppendInt` of an `int16_t` or `int64_t` does not read back |
| `TcpClient!ChannelFresh` | | a start that runs before the queued `ResetChannel` finds `channel_` set; `net/connector.cc:185`: `assert(!channel_)` |
| `TcpClient!StopAndWaitReturns` | | the wait has no condition to test and misses its notification (`net/connector.cc:86`); `net/connector.h:30`: "Synchronously stop the connector, wait if necessary." |
| `TcpClient!DisableReturns` | | the same in the destructor (`net/tcp_client.cc:87`, `164`) |
| `TcpClient!GetterAwake` | `Getters = {g1, g2}` | `Notify` wakes one thread in `GetConnection` (`net/tcp_client.cc:130`) and the other sleeps next to a connection that is there |
| `TcpClient!ConnectsAnywhere` | | `Connect` makes its socket without a family, which is then `PF_INET` (`net/connector.cc:145`), and an IPv6 server is never reached; `net/inet_address.h:17`: "It hide the concrete type of the address (ipv4 or ipv6)." |
| `TcpServer!NoDangling` | without its condition `Orderly` | in a server without a pool a timer of `ForceCloseWithDelay` or another handler closes a connection, which is freed while its event is in the list of active channels; `net/tcp_server.cc:116-117` says `Tie` prevents it |
| `TcpServer!ErasedOnce` | without its condition `~others` | that connection, whose own event closes it again, is erased twice; `net/tcp_server.cc:111`: `assert(n == 1)` |
| `TcpServer!ChannelRemoved` | | a loop told to quit ends before it has destroyed the connections queued for it; `net/channel.cc:22`: `assert(!in_using_)` |
| `Acceptor!HandlerReturns` | | at the limit, `accept4` fails with `EMFILE` before it looks for a peer, so the handler goes round until a descriptor is closed; `net/acceptor.cc:89-95` means to prevent a busy loop |
| `Acceptor!EnfilePasses` | | `ENFILE` is fatal (`net/socket_ops.cc:195`); lines 183-184: "we allow ENFILE and EMFILE error to pass" |
| `Acceptor!PeerAddressRight` | | connections accepted in one `HandleRead` share one `Address` (`net/acceptor.cc:80`), which holds the last peer; that of an IPv6 peer is cut to the 16 bytes of a `sockaddr`. `net/tcp_connection.h:100` returns it as the address of the peer |
| `Acceptor!NoneStray` | | the loop of `HandleRead` ends when `Accept` returns 0 (`net/acceptor.cc:82`), which is a descriptor like any other once the program has closed its standard input: that connection is open and nobody has it |
| `EventLoopThread!StopQuits` | | `Stop` waits for a loop that its `Quit` did not reach; `net/event_loop_thread.h:15-16`: "it will quit the loop and wait the thread to exit" |
| `EventLoopThread!ThreadExited` | | `Stop` returns before the thread has ended, against the same comment |
| `EventLoopThread!StartLoopReturns` | | when `pthread_create` fails, `Thread::Start` logs it and returns (`base/thread.cc:85-91`), and `StartLoop` waits for a loop that no thread makes; with `SelfQuit = {"start"}` it also hangs when a loop ends at once and has cleared `loop_` before `StartLoop` looks. `net/event_loop_thread.h:37-38` promises a pointer |
| `Logger!FatalWritten` | | `AsyncOutputer::Flush` only wakes the logging thread, and `abort()` follows at once (`base/logger.cc:67-68`): the fatal line is lost |
| `Logger!AnyLineFits` | | an address takes up to 18 characters, but `operator<<(const void *)` asks for the room of `kMaxHexSize`, which is 8 (`base/log_stream.h:111`) |
| `LogFile!LogWhole` | | two rolls or a new `LogFile` within one second, or a local clock that is set back, open the same name again, which truncates what was written (`base/log_file.cc:83`); nothing says that the log is whole |

More limits are conditions of properties that hold: `CallbackGetsSocket` leaves
out what follows an `EINTR` or `ECONNABORTED` (the callback gets -1);
`NotAborted` and `Served` leave out a descriptor stolen by another thread (reopening
the reserve aborts); `NotUsedLate` leaves out a spurious wakeup of the destructor's
wait (it goes on too early). `NoSleepOnFunctors` leaves out functors that the loop's
own thread queues before `Loop`: those wait for the poll timeout of ten seconds. `Connects` leaves out
the errors of `connect` that are given up, `EHOSTUNREACH` and `ETIMEDOUT` among them.

The conditions of the client are narrower than one would like; TLC shows with other users
than those of `MCUsers` that each is needed. `FreshWhenPatient` is about one patient
thread: when the `Stop` of one thread overlaps the `Connect` of another, the start may run
before the reset again. A patient user whose code in the loop thread also calls
`ForceClose` or `Connect` breaks `NotUsedLate`, `DestroyedQuiet`, `FreshWhenPatient` and
`AttemptWatched`; one that calls `Stop` there, the last two. `OneConnection` holds for all of them.
`GetterAwake` is about one thread in `GetConnection`, as `Notify` wakes one only.

The `ASSUME`s of the MC modules record smaller ones, as the code has them:
`operator--` of the old iterator moves only from the first byte of a block
(`net/old_buffer.h:122`, "Prefix self-decrease"); `IsSelfConnect` is never true for IPv6,
as it compares with `memcpy() == 0` (`net/socket_ops.cc:298`); `ToIpPort` into a buffer with
exactly six bytes left cuts a port of five digits; `SourceFile` keeps the slash before the
name (`base/logger.h:57`: "Get the source file's basename"); a `StringProxy` of an array
takes all of it but the last character; and the deadline of `WaitForSeconds` with a part of
a second is invalid when the nanoseconds reach a second (`base/condition.cc:16`), so that the
wait ends at once. Its one caller waits for whole seconds.

## 5. Fairness

Safety needs none. For liveness, weak fairness is assumed of every thread's own
steps (the operating system runs threads), and of timers and timed waits. Strong
fairness is assumed only of taking a lock that others also take (`EventLoop`,
`ThreadPool`, and the latch of `Thread`, where a starter may wake spuriously again and
again) and of outcomes that depend on the world outside: a connection
attempt that is made again and again succeeds in the end (`TcpClient`), an
`accept` that is possible again and again is made in the end, whatever errors come
before (`Acceptor`), and the peer goes on reading (`TcpConnection`). Nothing is assumed of users, of spurious wakeups, of other
channels, or of the poll timeout. The liveness counterexamples of section 4
arise under the same fairness.

## 6. What is proved

For any sets of threads and functors (`EventLoopProofs`; assumption: `None` is
neither) the theorems are type correctness, `WakeupNeverLost`,
`QuitWakeupNeverLost`, `QuitWaitsForLoop`, `OrderKept`, and `Refinement`, that the
loop implements `SerialExecutor`. "The loop does not sleep in the poller on a
functor" is not inductive: it must hold from the end of one batch to the next
poll. The invariant `Inv` says how the flags follow the position of the loop
thread (`PhaseInv`), that a waiting functor has a wakeup made or on its way from
`run` on (`WakeInv`: while a batch runs, `calling_functors_` is set and every
`QueueInLoop` wakes), and that a thread inside `Quit` has seen the loop begin
(`QuitInv`). Order is a statement about sequences: what ran, the rest of the
batch and the queue, in this order, are what was queued. The refinement maps that
to the sequence submitted.

For any set of timers, any due times and intervals and any horizon
(`TimerQueueProofs`; assumptions: the constants are naturals within the horizon)
the theorems are type correctness, `NoTimerMissed` (`FdArmed`), `AssertionsHold`
(`SetsAgree`), `CancelIsFinal`, `TimersNotEarly` and `OneShotRunsOnce`. The
invariant says that a timer is in one place only (queued, in the set, or in the
batch) and moves forward (`PlaceInv`), that everything in the batch is due
(`BatchInv`), that a cancelled timer still in the batch is in
`canceling_timers_` (`CancelInv`), and that a one-shot timer that fired is nowhere
(`FiredInv`).

For any number of threads (`ThreadProofs`; assumption: there is at least one) the
theorems are `HolderIsRight` (`HolderLocked`), `StartIsSafe` (`StartedForGood`),
`StopQuitsLiveLoop` (`QuitOnLive`) and `StopLeavesQuiet` (`StoppedQuiet`). That `Start`
is safe to return is not inductive: the invariant (`StartInv`) ties `mutex_`,
`holder_`, `count_` and `tid_` of every latch to the places of its two threads, and says
that a starter that has seen `count_` at 0 got the mutex from a runner that is done with
it. `OwnerInv` says that `loop_` is set exactly while the `EventLoop` exists and that
`lock_` is held from the test in `Stop` until its wait. Every step of `EventLoopThread`
is a step of `Thread` or leaves it alone (`NextStarts`), so that the invariant of the
one carries over to the other.

For every unit of time and every time (also in `TimerQueueProofs`; assumption: the units are
positive, as is the shortest delay) `TimeSpecExact` says what `ToTimeSpec` computes,
`AlwaysArms` that `ResetTimerFd` never disarms the timerfd, however late it is, and
`WholeSecondsValid` that the deadline of `WaitForSeconds` is valid for whole seconds.

For any messages, sizes, threads and users (`TcpConnectionProofs`, on the lemmas of
`TcpConnectionLemmas`; assumptions: messages,
socket and mark are not empty, and `None` is neither a message nor a functor) the
theorems are `OutputIsWatched` (`WriteWatched`), `PollerAgrees` (`EpollAgrees`),
`ShutdownIsLast` (`ShutdownAfterFlush`, an action property) and `StreamIsKept`
(`StreamInOrder`). What epoll watches is decided by the last `Update`, but who may still
update or remove the channel depends on the stage of the connection. `ConnInv` describes
each stage (`NotYetUp`, `Up`, `Down`), which life-cycle functors exist in it
(`OwnFunctors`, `OnePending`), and which events a round may still hold (`Rounds`,
`NoLateClose`); that a late hangup cannot close a connection twice is the part that took
finding. `StreamIsKept` has two parts. That no byte
is lost holds for every user (`KeepsAll`): the bytes of a message are on the wire, in the
buffer, or in the hands of one of the calls of `SendInLoop` that a high-water callback
interrupts, however deep they are nested. That the bytes are in order holds for users that do
not `Send` in that callback (`Ordered`): each message is taken once (`SendsOnce`, over the
threads, the queue and the batch), one call at most has bytes in hand, and every step either
leaves wire, buffer and bytes in hand together as they were or appends one whole message at
the end.

For any number of workers, callers and tasks (`ThreadPoolProofs`; assumption: the threads
are finite sets and apart) the theorems are `StopIsQuiet` (`StoppedIsQuiet`),
`NoTaskLeftAsleep` (`TasksSpread`) and `QueueIsKept` (`TasksInOrder` and `QueueBounded`).
`ControlInv` says who holds the lock (`LockHeld`), who waits on which condition
(`Waiters`), and that a worker blocks on an empty queue only (`BlockedOnEmpty`).
`TasksSpread` counts: a task that is queued brings a notification, and a worker that takes
a task was one of those awake, so that there are enough for the tasks left.

For any number of I/O loops, connections and threads in `Start` (`TcpServerProofs`, on the
lemmas of `TcpServerLemmas`; the bounds are naturals, and nothing is assumed of the user) the theorems are `NeverDangling` (`NoDangling`), `NeverDestroyedTwice` (`DestroyedOnce`),
`ChannelsRemoved` (`RemovedInTime`), `ErasesOne` (`ErasedOnce`) and `StartListensOnce`
(`ListensOnce`). Where a result needs that handlers close no connection of others, its formula
says so; the invariant covers both kinds of users. A connection is freed when the last reference is gone, and the references
are spread over the map, the functors of two loops and the user. `ServerInv` says in which
loop each functor may be and what it means for its connection that it still waits
(`Placed`, `Due`), which functors may wait twice (`Repeats`), that a connection is
established before it is destroyed (`Ordered`), that a connection with an event to handle is
still in the poller (`ActiveRight`), that one in the poller has a functor on its way that will
take it out unless its loop ended (`WillLeave`), and, for each connection, which of state,
map, poller and pending functors go together while the server lives and while it is
destroyed (`ConnRight`).

For any number of descriptors and peers and any errors (in `ThreadProofs`; assumption:
there is room for the reserve) the theorems are `NoConnectionLost` (`NoneLost`) and
`LimitIsSurvived` (`ReserveHeld` and `NotAborted`). The invariant adds what `dummy_fd_` and
descriptor 0 are at each step (`DummyRight`), that peers leave the backlog in order
(`InTurn`), that the descriptor given up is free until another thread takes it (`RoomKept`),
and why the process ended (`Mishaps`).

Only model-checked: all liveness (the prover does not handle fairness); the buffers
and the conversions of the log, whose recursive loops are out of its reach; the properties
of the client, the logging thread and the log file; and of the thread pool `NoSleepOnTasks`
and `RoomOffered`, the second of which is false when a pool is started again.

## 7. What is not modelled

`FixedMemPool`, which nothing uses; the layout of dates and times as text, and
`SetTimeZone` (whose effect the cached second of `ToFormatString` hides until the next
second); the digits of floating-point numbers in the log, which `snprintf` makes; `LocalAddress`, a path;
socket options and the wrappers of system calls without logic of their own;
`Connector::HandleError`, which no channel is given and which never runs; the growth of
the epoll array and failures of `epoll_wait`; the default names of threads, the cached
thread id and exceptions of thread functions, which end the process; `Singleton` and
`AtomicInteger`, wrappers that nothing uses; stack traces and process information; the
example programs and benchmarks, which call the library and add no mechanism. One clock stands for wall and monotonic time.
A connection in `TcpConnection` belongs to a server with a pool: `HandleClose` queues its
removal and `DestroyConnection` follows in a later functor. In a server without a pool and in a
client `RunInLoop` runs it inside `HandleClose` (`net/tcp_server.cc:100`, `119`;
`net/tcp_client.cc:151`); `TcpServer` models both ways, `TcpConnection` the first.
`TcpConnection::Send(Buffer &)` leaves its argument as it is (as its comment in
`net/tcp_connection.cc:317` says and the one in `net/tcp_connection.h:109` denies).

## 8. Plan

1. Done: the core (event loop, timers, connection with channel and poller),
   its users (client, server, acceptor, threads), the thread pool, both buffers, the
   addresses, the logger with its streams and outputers, and the log file; the proofs of
   section 6.
2. Model next: the poller with several channels and reused descriptors; `TcpServer` on top
   of the detailed `EventLoopThread`; `TcpConnection` on top of `ChainBuffer`.
3. Prove next: `TcpClient` (`NotUsedLate`, `OneConnection`), `AsyncOutputer`
   (`InOrder`, `BuffersAtHand`), `LogFile` (`LogComplete`).
