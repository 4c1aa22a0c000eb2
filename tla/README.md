# A TLA+ model of cppio

cppio is a small C++20 runtime: coroutines (`task<T>`) are spawned on a reactor,
threads run them, and `co_await` on a sleep, a socket or another coroutine
suspends them. This directory holds TLA+ modules of that runtime, TLC
configurations that check them on small instances, and proofs that TLAPS checks
for every instance. Paths below are relative to `src/src/cppio` unless they start
with `src/`.

## 1. The system

| Component | State | Operations | Talks to |
|---|---|---|---|
| reactor (`impl/basic_reactor.inl`, `impl/abstract_reactor.*`, `cppio.*`) | run queue `m_tasks`, `m_active_tasks`, `m_running`, worker threads | `initialize`, `spawn`, `wait_for_all`, `run`, `process_tasks`, destructor | calls the timers and epoll, resumes tasks |
| tasks (`basic_task.*`, `task.hpp`, `future.*`) | atomic `m_state`, chain of coroutine frames, notifier | `one_step`, `wait`, `wake`, `co_await`, `future::get` | scheduled by the reactor; a frame runs library calls |
| timers (`impl/timer_pool.*`, `sleep.*`) | set of (deadline, task), lock | `add`, `get_delay` | wakes tasks |
| epoll (`impl/posix/epoll.*`, `basic_overlapped.*`) | oneshot registrations with a pointer into a frame | `run`, `add_for_read/write/all` | wakes tasks |
| socket objects (`network/base_socket.*` and subclasses) | `m_socket`, `m_out_socket` | connect, create, accept, bind, move, assign, destroy | descriptor table |
| TCP and UDP transfer (`network/posix/*`, `network/tcp_socket.cpp`) | offsets of the loops | `read`, `read_exactly`, `write` | wait through epoll |
| IOCP and win32 sockets (`impl/win32`, `network/win32`) | requests in the kernel, packets on the port, an `OVERLAPPED` in a frame | `run`, `notify_one`, connect, accept, read, write | wakes tasks |
| HTTP messages, URL encoding (`network/http`) | `request`, `response`, `header_map` objects | setters, copy, move, `serialize`, `create` | the peer's text |
| addresses (`network/ip.cpp`, `endpoint.cpp`) | address and port | `parse`, `to_string`, `fill`, setters | `sockaddr` |

What is hard: every thread of `run()` polls epoll, wakes timers and pops tasks, so
the same task is touched by several threads with nothing but an atomic `m_state`
between them; a descriptor is armed while its coroutine still executes; the clock,
the kernel and the peer act at any time; descriptors run out and are reused;
sends and receives are split arbitrarily.

What makes each part correct:

* reactor: a task is resumed by one thread at a time, none is forgotten,
  `wait_for_all` returns when all are done, and it does return;
* timers: a sleep is not short, a due timer wakes its task;
* epoll: no event is lost, none refers to a dead frame;
* sockets: each descriptor has one owner and is closed once;
* transfer: bytes arrive in order, once and completely; both sides return;
* completion port: a completion finds the frame it belongs to and resumes it once,
  and a thread that leaves wakes the next;
* messages and addresses: what is written is what is read back, or the difference
  is known.

`PROJECT.json` lists the components, the hazards at their lines, the runs, the
mutants that show each property can fail, and the map from definitions to source.

## 2. The modules

| Module | Models |
|---|---|
| `TaskPool` | what `spawn` and `wait_for_all` promise: the life cycle of a task, with no queue, timer, epoll or thread in it |
| `Reactor` | `run()` on POSIX with any number of threads: queue, active set, timers, epoll set, tasks; and all its properties |
| `MCReactor` | values for the constants of `Reactor` |
| `ReactorProofs` | the inductive invariant of `Reactor` and its consequences, and the proof that it implements `TaskPool` |
| `ReactorWake` | the proof that no task is lost, with any number of threads |
| `ReactorTokens` | the proofs for one thread, and for tasks that do not wait |
| `SocketHandles`, `MCSocketHandles` | who owns which descriptor |
| `SocketHandlesProofs` | its inductive invariant |
| `ByteChannel` | what one direction of a connection promises: bytes handed over, delivered in order, a break |
| `TcpStream` | one direction of a TCP connection: the two loops, the kernel and the events between them |
| `TcpStreamProofs` | its inductive invariant, and the proof that it implements `ByteChannel` |
| `Iocp`, `MCIocp` | `run()` on Windows over the completion port, and the operations of the win32 sockets |
| `IocpProofs` | the inductive invariant of `Iocp` and its consequences |
| `HttpMessages`, `MCHttpMessages` | request and response objects, headers, URL encoding |
| `HttpProofs` | its inductive invariant, and the proofs about texts of any length |
| `Addresses`, `MCAddresses` | `endpoint`, `ip::v4`, `ip::v6`: texts and `sockaddr` |
| `AddressProofs` | the proofs about every address, port and number |

`Reactor` composes the queue, the timers, epoll and the tasks, and implements
`TaskPool`. `TcpStream` and `SocketHandles` take the reactor as "a suspended
coroutine runs when its event has come", which is what `NoLostWakeup` and
`NoDanglingOverlapped` say of it. `Iocp` has its own `run()`, because on Windows an
operation is asked for first and reported later. `HttpMessages` and `Addresses` are
sequential.

### Reactor

`pc[w]` says where thread `w` is in `run()`; `p_task`, `result`, `curr`,
`wait_time`, `tnow`, `events` are its locals. One action is one stretch of code in
which no other thread can interfere:

* a critical section of `abstract_reactor::m_lock` is one step (`Pop`, `Finish`,
  `add`, `schedule`). The unlocked `m_tasks.empty()` and `m_active_tasks.empty()`
  read one word; they are modelled as a read of the current value;
* `timer_pool::m_lock` is a variable, because `get_delay` keeps it while it wakes
  tasks (`LockTimers`, `WakeTimer`, `PushTimer`, `EndDelay`), and the clock is read
  before it is taken (`ReadClock`);
* `wake()` is two steps, the store of `kRun` and the push (`WakeTimer`/`PushTimer`,
  `WakeEvent`/`PushEvent`);
* `is_waiting()` in `process_tasks`, the test inside `one_step`, `resume()`, the
  suspension, `curr.done()` and `return m_state` are separate steps (`IsWaiting`,
  `TestWaiting` or `StepWhileWaiting`, `Resume`, `Suspend`, `NotDone`, `ReadState`,
  `Finish`): whatever one of them has seen may have changed before the next.

A task is its `m_state`, the number of its live frames `depth`, and what the
innermost frame is suspended on. What a coroutine does between two suspensions is
a free choice among the operations in `Ops`: `AwaitTask`, `SpawnTask`, `Sleep`,
`Read` (every operation that calls `wait()` and then registers: TCP and UDP read
and write), `Accept` (the ones that register first: accept and connect), `Get`,
`Return`. Two coroutine frames are told apart by their level: `curr[w]` is the
level of the frame `one_step` is looking at, so `FrameReturned` can tell that
another thread has completed it meanwhile.

Undefined behaviour: resuming a coroutine that another thread is executing
(`ResumeExecuting`), and reading an inner frame that another thread has completed
and destroyed (`FrameReturned`), send the thread to the label `ub`, where it stays.
`NoUB` says that this has not happened. Where it can happen (run `v_resume`) the
other results say what holds apart from the thread concerned. They do not say what
a compiled program does after undefined behaviour.

`orphaned` is a history variable: the tasks whose wake-up the code threw
away (a timer with an equal deadline, a replaced registration, a failed
`epoll_ctl`, and the `kRun` that the late `wait()` of `accept` or `connect`
overwrites after the event was delivered). `NoLostWakeup` and `Completes` exclude
them, so the two show that nothing else is ever lost. `LossIsExplained` is about
them, with one thread: the step that adds a task to `orphaned` inserts its timer beside
that of another sleeper (`SameDeadline`), registers another task on the descriptor it is
suspended on (`Displaced`), or is its own failed `epoll_ctl` (`NotRegistered`). So the
late `wait()` overwrites nothing there, and no stale timer or registration of a task that
has gone on displaces another. `NoOrphan` says that nothing is lost at all, and is false.

### TaskPool and the refinement

The mapping is `Status(t)`: new (not spawned), done (no frames), running (some
thread executes it), waiting or ready by `m_state`; `returned` is "main is past
`wait_for_all`". A pool step is the change of one task's status. The constant
`Exact` says whether a waiting task must become ready before it runs. It is given
the value `SingleThread`: with one thread it must; with several, a thread that has
passed the test of `is_waiting()` at `basic_task.cpp:42` can resume a task that is
waiting again (`Early`).

### SocketHandles

The descriptor table gives out the lowest free number, so that a number closed is
used again at once and a second close would be seen. A call goes through
`opened`, `configured`, `ready`; each stage can fail the way the code does.
`leaked` records what `AttachFails` abandons, `assigned` the objects that took part in
`operator=` (a moved-to object inherits the mark), `readonly` the files of which `dup()`
was refused, and `torn` those of which an `assigned` object was destroyed, so that the
known defects can be separated from the rest. `BothWays` looks at a connection from its
two ends: `operator=` exchanges the reading sides only, so two objects may each read one
connection and write another, but no side is lost or held twice on the way, objects
outside of `assigned` read and write the same connection, and an object without a writing
side never gets one.

### TcpStream

Bytes are their positions in the writer's buffer, so order and completeness are
equations between numbers. The reactor is abstracted to: an event marks a
suspended side runnable, and it runs later. `Reset` may cut off what has not
reached the reader.

It implements `ByteChannel` with `sent` as what has been handed over, `Delivered` (the
part of `p_buffer` that is filled) as what has been delivered, and `reset` as the break;
`Seen` calls a side busy until its call has returned. Partial sends, full buffers,
suspensions and the end of the stream are not seen there.

### Iocp

A task is a root frame that awaits library calls, one at a time. `co` says where it
is, `frame` numbers the frames of its calls and `overlapped` is what the completion
stores in the frame. A request is in `inflight`, its packet on `port`; `Dequeue` is
`iocp::run`, and a packet whose frame is gone sends the thread to `ub`. One step of a
coroutine goes from one suspension to the next: threads that do I/O together race as
in `Reactor`, and the module keeps to programs in which one thread does I/O, or
several compute. `StateAtIssue` and `StateAtRefusal` are `m_state` after the call:
a `connect`, `accept`, `read` or datagram whose first request is refused leaves its task
in `kWait` (no code calls `cancel_wait()`), which is what `Abandoned` describes; a `write`
calls `wait()` after its request and is not among them. `respun` marks the tasks in
which `accept` has made another request without `wait()`.

### HttpMessages

A text is a sequence of symbols. Everything the code searches for (blank, colon, `?`,
`&`, `=`, `%`, `+`, line end) and every encoded byte is a symbol of its own; words it
only copies or compares whole (a method, a version, a header's name, a decimal
numeral) are one. `npos` arithmetic is kept: `Before` and `After` of a text without
the character are the whole text. The `unordered_map` of parameters is written in any
order. The objects go through setters, copies, moves, `serialize` and `create` in any
sequence, because `response::serialize` changes its object and a text read back is
serialised again. `Receive` is a well-formed request of a peer. What follows the colon
of its headers is one of `HeaderTexts`: a blank and a value, a value alone, or nothing.
The code drops the character after the colon whatever it is, and where there is none
`substr` throws in a `noexcept` function: `create` gives the status `throws`, after which
nothing more is called, since the program has ended. `CreateOutcome` says when that
happens, when a text is refused and what the headers are otherwise.

The loops that cut, decode and collect (`Pieces`, `url_decode`, `CreateHeaders`,
`ParseQuery`, `get`) are recursive functions over the number of turns, with one turn as an
operator of its own (`CutOne`, `DecodeOne`, `AddLine`, `AddParameter`). The multimap is the
sequence its iterators go through, and `upper_bound` is where `emplace` puts an equal
name. `HttpAssumption` says what a program gives to the setters: texts of the bytes 1 to
127 without a carriage return, which is half of a line end, and paths without a blank or
a `?`. These end a path or a line for `create`, and `serialize` does not escape them, so a
message that has them in these places is not the one the program meant.

### Addresses

A v4 address is four bytes, a v6 address eight words, on a little-endian host.
`PtonV4`, `PtonV6` and `stoul` do what the library functions do for the texts that
`to_string` and a user can make of an address and a number.

## 3. The runs

Passing runs:

| Run | Instance | Shows |
|---|---|---|
| `single` | 1 thread, 2 tasks that both use both of 2 descriptors, delays 1 and 2, 2 suspensions each, nesting 2 | `OneToken`, `NoLostWakeup`, `LossIsExplained`, `NoDanglingOverlapped`, `SleepNotShort`; `TaskPool` is implemented; `Completes` |
| `mt_compute` | 2 threads, 3 tasks that await, spawn and block in `get` | `OneToken`, `NoConcurrentResume`, `WaitForAllComplete`, `Completes` |
| `mt_io` | 2 threads, 1 task, everything but `get` | the inductive invariant, `NoLostWakeup`, `TaskPool`, `Completes` |
| `handles` | 5 descriptors, 3 connections, 3 objects, 2 calls, 1 UDP write | ownership, leaks, and who reads and writes a connection |
| `stream` | sizes 0 to 6, buffer 3, may break at any time | order, completeness, `ByteChannel` is implemented, breaks noticed, both sides return |
| `iocp` | 4 programs: 1 task with every call; 2 tasks that read and write; computation with 1 and 2 workers | `CompletionFindsFrame`, `WaitingIsAnswered`, `ReportedIsTransferred`, `ShutdownChain`, `IocpCompletes` |
| `http` | 2 objects, 5 calls, 7 queries and 4 lists of headers of a peer | what `create` reads of what was serialised or received |
| `address` | 16 v4 and 384 v6 addresses, 2 ports, 3 numbers | `EndpointReadsBack`, `CanonicalV6Text`, `SockaddrInNetworkOrder`, `NoPortIsCut`, `BareV6Text` |

So: with one thread (`initialize(0)`, `wait_for_all` does the work) the scheduling
is right for every operation; with several threads it is right for tasks that only
compute, spawn and await, what `wait_for_all` promises holds always, and as long as
nothing undefined has happened the only wake-ups lost are those in `orphaned`.
`CreateOutcome`, `ParametersRunTogether`, `LastLengthIsRight` and `BareV6Text`
describe exactly what the code does, its limits included: a message without headers
is refused, a peer's header with nothing after its colon ends the program, of several
parameters one is found and carries a NUL, a message may state several lengths of which
the last is right, and some v6 addresses without brackets end the program.

Runs that show a disagreement with what the repository says (the quotes are in
`PROJECT.json`):

| Run | What happens |
|---|---|
| `v_resume` | with 2 threads, a coroutine in `read` is resumed by a second thread before it has suspended |
| `v_timer` | two sleeps with one deadline: one is dropped |
| `v_eof` | `read` at the end of the stream loops for ever |
| `v_accept` | on Windows, `accept` gives an `OVERLAPPED` that is in use to `AcceptEx` again |

Known and visible in the model, without a run of their own: with several threads the
assertion at the top of `one_step` can fail (`StepWhileWaiting` in a debug build;
the model goes on as a release build does); `accept` and `connect` overwrite a
wake-up with `wait()` (`LateWait` puts the task in `orphaned`); `epoll_wait` is given
the time to the next timer although a task is queued (`ChooseWait`); `future::get` in
a coroutine can block the only thread that would run the other task (the second
disjunct of `Completes`, which excuses a program only when every thread that has not
left `run()` is in `get()` for good); a first request that is refused on Windows leaves
its task waiting (`Abandoned`).

### Bounds

`MaxOps` (suspensions of a task), `MaxDepth` (nesting of `co_await`) and the sets
of threads, tasks, descriptors and delays are the bounds of `Reactor`; time needs
none, since it only advances to the latest pending deadline. Two threads are enough
for every race found, each of which is between one waker and one executor; a third
task makes the queue longer than the number of threads. Two suspensions let a stale
wake-up of the first meet the second. In `single` each task may wait for either of two
descriptors: both tasks on one of them displace each other, and with one on each, both
can be ready while `MaxEvents = 1` makes epoll's array too small. In `handles` two
connections with their duplicates use four descriptors and a third connection the
fifth, so its `dup()` is refused; three objects allow a move after an assignment. In `stream` the buffer is smaller, equal and larger than the message,
and earlier writes may have left any part of it full.
In `iocp` a write of two bytes is done in one request or in two, two calls of a task
let a late completion of the first meet the second, two tasks interleave on the port,
and two workers make the chain of `notify_one()` longer than one link. In `http` five
calls reach set, serialise, read back, change, serialise again; the texts hold a
character that is encoded and one that is not, and the empty text; the path holds a
colon; and a peer sends no header, a header without a blank and one with it, an empty one,
and an empty one after another. In `address` the words are zero or not in all 256 patterns.
Symmetry is used in `handles` and `http`, over files, objects and calls, which are
interchangeable, and only invariants are checked there.

Deadlock is checked in `single`, `handles` and `address`. In `mt_io` a thread may stop at
`ub`, in `mt_compute` all threads may be in `get`, and a stream is at its end when
both sides have returned. In `iocp` a refused call leaves a thread in its wait, and in
`http` the calls run out.

### Fairness

`FairSpec`: weak fairness for each thread (the operating system schedules it; every
wait in `epoll_wait` has a finite timeout), for `main`, for the clock and for each
descriptor becoming ready (the peer does something). Without the last one a program
that waits for a silent peer would rightly never end. The mutex of the timers is
strongly fair for each thread: it is released and taken again by threads that loop
through `get_delay`, with a wait in `epoll_wait` outside it, and a thread that asks
for it gets it in the end. `FairIocpSpec`: weak fairness for the threads and for the
completion of each request. Nothing is assumed of the end of a one-second wait, so
`IocpCompletes` rests on packets alone. `FairStreamSpec`: weak fairness
for the two coroutines, which the reactor gives, and for the destruction of the
writer's socket. A break is never fair.

## 4. The proofs

The constants are arbitrary up to the `ASSUME` of each module (`ReactorAssumption`,
`HandlesAssumption`, `StreamAssumption`, `IocpAssumption`, `HttpAssumption`,
`AddressAssumption`). Every invariant the runs check is a theorem, and so are the action
properties `SleepNotShort` and `LossIsExplained` and the two refinements.

| Theorem | Says | For |
|---|---|---|
| `SafetyInvariant`, `TypeCorrect`, `WaitForAllIsComplete` | `SafetyInv`, `TypeOK`, `WaitForAllComplete` | any number of threads |
| `Refinement` | `ImplementsTaskPool` | any number of threads |
| `WakeInvariant`, `NoTaskIsLost` | `WakeInv`, `NoLostWakeup` | any number of threads |
| `SequentialInvariant`, `TokensAreSingle`, `NobodyResumesTwice`, `OverlappedIsAlive`, `SleepLastsLongEnough` | `SeqInv`, `OneToken`, `NoConcurrentResume`, `NoDanglingOverlapped`, `SleepNotShort` | `Sequential` |
| `LossInvariant`, `LossesAreExplained` | `TimersAsleep` and `LateRegistered`, `LossIsExplained` | `Sequential` |
| `HandlesInvariant`, `HandlesTypeCorrect`, `NoDoubleClose`, `NothingElseLeaks`, `BothWaysHolds` | `HandlesInv`, `HandlesTypeOK`, `OwnedOnce`, `OnlyFailedSetupLeaks`, `BothWays` | any number of descriptors, connections, objects, calls |
| `StreamInvariant`, `StreamTypeCorrect`, `BytesInOrder`, `PipeIsTheRest`, `ValueIsComplete`, `ChannelRefinement` | `StreamInv`, `StreamTypeOK`, `InOrder`, `PipeContinues`, `ValueMeansComplete`, `ImplementsChannel` | any sizes, any split |
| `IocpInvariant`, `CompletionsFindFrames`, `NoWriteAfterFree`, `WaitingTasksAreAnswered`, `ReportsAreTransfers`, `ShutdownReachesAll` | `IocpInv`, `CompletionFindsFrame`, no label `ub`, `WaitingIsAnswered`, `ReportedIsTransferred`, `ShutdownChain` | any number of threads, any program in which they do not do I/O together |
| `HttpInvariant`, `LengthOfResponse`, `OutcomeOfCreate`, `ReadsBack`, `OneParameterIsRead`, `QueryIsRead` | `HttpInv`, `LastLengthIsRight`, `CreateOutcome`, `MessageReadsBack`, `ParametersRunTogether`, `QueryIsUnderstood` | texts, headers, parameters and queries of any length, any number of calls |
| `AddressInvariant`, `ReadsBackHolds`, `CanonicalHolds`, `NetworkOrderHolds`, `NoPortIsCutHolds`, `BareV6Holds` | `AddressInv`, `EndpointReadsBack`, `CanonicalV6Text`, `SockaddrInNetworkOrder`, `NoPortIsCut`, `BareV6Text` | every address, port and number |

### Reactor, any number of threads

* `SafetyInv` is the conjunction of `TypeOK`, `OnlySpawned`, `OneExecutor`,
  `ActiveUntilDone` and `ResumeAfterWake`. None of them is inductive alone. The goal
  is `ActiveUntilDone`: `m_active_tasks` contains every spawned task with frames.
  `Finish` erases on `kDone`, so a `kDone` in hand must mean that the task has no
  frames, and stays so; a frame is added only by the executor of a task with frames,
  hence `OneExecutor`. Whoever holds a task must hold a spawned one, hence
  `OnlySpawned`, which also gives the types of `p_task` and `target` where they index
  functions. There is one lemma per conjunct and one step per action; `SameExecutor`
  and `BodyExecutor` carry the steps that leave the executor of a task as it is.
* `Refinement`: `QuietStep` covers the steps that the pool does not see;
  `ExecutorStatus` and `OtherStatusSame` reduce a step of an executor to one status;
  `SpawnMoves` and `WakeMoves` cover `add` and the store in `wake()`. With one thread
  `Resume` must map to "ready to running", for which `ResumeAfterWake` says that the
  task was not put back to `kWait` after the test.
* `NoLostWakeup` is not inductive: it is content with a thread that holds the task,
  and a thread that has read `kWait` from `one_step` drops it in its next step. So
  `WakeInv` asks for something that is of use (`Useful`: the queue, a timer, a
  registration, an event, a push under way, or a thread that will not drop the
  task), and `Awaited` says why the drop is harmless: a task in `kWait` that is not
  `orphaned` has a timer, a registration or an event that will store `kRun`, or its
  frame is on its way to make one. `EventsTaken` is why leaving the loop over epoll's
  array loses none, `ParkedBody` why the registration is for what the frame waits for.
  The promise holds as long as no coroutine was resumed twice (`NoUB`), and `Awaited`
  even after that.

### Reactor, one thread or tasks that do not wait

These theorems assume `Sequential`: there is one thread, or no task sleeps, reads
or accepts. Run `v_resume` shows that without it `NoConcurrentResume` is false, of the
smallest program that has two threads and a `read`: the assumption is the boundary
between what the scheduler gets right and what it does not. `single` is an instance
of its first case and `mt_compute` of its second.

`OneToken` is not inductive. A waiting task must not be put back in the queue
while it is registered: `KeptWaiting` says that `one_step` reports `kWait` for it.
`FrameReturned` and `ResumeExecuting` are impossible because `curr` is the innermost
frame and alive (`CurrentFrame`), which holds because no other thread has the task,
which is `OneToken`. Both need to know that with several threads there is nothing to wait
for (`NeverWaits`). `Deadlines` is for the sleeps: the timer of a sleeping task is at
its deadline, and whatever has it queued or in hand does so only when that has passed. A task may be
in places of different sorts, so `OneTokenIsSingle` restates `OneToken` as "at most one
queue entry, at most one place outside of the queue, and not both" (`Single`), and
each step is one lemma about where a token moves to.

`LossIsExplained` needs to know who else may be touched by a registration or a timer.
`NoDanglingOverlapped` says that the task whose registration is replaced waits for that
descriptor, `TimersAsleep` that the timer in the way belongs to a task that is asleep, and
`Deadlines` that it sleeps until then. `LateRegistered` says that with one thread the
registration of an `accept` or `connect` is still there when it calls `wait()`, since
nothing but this thread could have taken the event.

### SocketHandles

`OwnedOnce` alone is not inductive, since the kernel gives out any number that
is closed: `HeldIsOpen` says that whatever holds a number holds an open one (so a
number that is given out is held by nobody), and that leaked numbers stay open.
A constructor overwrites the handles of dead storage, so `DeadHoldNothing` says that
it has none to lose, and `CallsHold` that a call that goes on has its descriptor.
`BothWays` is inductive with these and `SockAlone`: the descriptor of a call is the only
one of its connection, and no `dup()` of it has been refused yet, so that when it is
attached nobody reads or writes the connection. A second close or a shared number would
change a connection under an object that took no part in the step, which `HeldOnce`
excludes.

### TcpStream

`InOrder`, `PipeContinues` and `ValueMeansComplete` are inductive together with
the types. `PipeSend`, `PipeRecv` and `PipeReset` say what the three operations of the
kernel do to a sequence of bytes.

`ChannelRefinement` needs more. A side is woken without success, and gives up, only
after a break, and it waits only while its call is incomplete, so that no failure in
`TcpStream` is one the channel does not allow; and what is accepted must fit in the
channel, `sent <= total_read + Capacity`, which after a break no longer follows from the
length of the pipe. `Suspended` says these things and is inductive together with
`StreamInv`. A `recv` is the channel's `Deliver` because `PrefixOfBuffer` reads
`InOrder` as "the buffer is filled with the first bytes of the message".

### Iocp

Requests and packets live outside of the coroutine. `OneStands` says that a request in
the kernel, its packet, the queue entry its completion makes and the thread that
executes the task exclude each other, and each is there once; `Answered` that one of
them is there while the coroutine is suspended. Both need `Runnable`, since `Pop`
drops an entry of a task in `kWait`, and `Unspawned`. They are about the tasks that
did not repeat an `accept` (`respun`), and the label `ub` is reached only when there
is one. For the bytes, `Counted` follows one operation: nothing is left from an earlier
frame (`Begun`, `FramesPast`), what the kernel has moved is what is counted plus what
the open packet carries (`Open`, `Settled`). This part is for every task, also for
those with a repeated `accept`, since an accept transfers nothing, and a program that
repeats one has no workers (`OpsInv`). `ShutdownChain` counts a thread that is about
to wait as one that carries the chain on; `ShutdownInv` does not, and so is stronger.
`IocpAssumption` says that `None` is no task: it marks the packet of `notify_one()`, which in
the code is an `OVERLAPPED` pointer of null.

### HttpMessages

`HttpInv` has three parts. `HttpTypeOK`: every object, also one that was read back or moved
from, is well formed, and its headers are sorted by name. `WireWritten` and `WireReceived`:
the text is what `serialize` makes of `sent`, with the parameters in some order and the
length added last, or what the peer makes of `query` and `values`; and `back` is what `create` makes of
it. The parts need each other: what is read back becomes an object, so `create` must
give well-formed objects for every text of either origin. The five properties follow
from the invariant and from what the operators do, which is the larger part:

* *Induction.* The library's induction takes an operator as a parameter. `LeastNat` (a set
  of numbers has a least element) and `NatSet` replace it: the turns with a property are
  a set. `CutLoop`, `DecodeLoop`, `GetLoop`, `HeadersLoop`, `QueryLoop` and `FlattenLoop`
  give the values of the loops turn by turn, and are used in place of the definitions.
* *Cutting.* `Split` says what `find`, `Before` and `After` make of a text around the first
  `c`; `PiecesLemma`, that texts without `c`, joined by it, are cut into themselves. The lines
  of a head, and the parameters of a query, are cases of it.
* *Lines.* `RawLineRead` is one turn of `header_map::create` on a name, a colon and
  whatever follows: the value is that text without its first character, and there is none
  exactly when the text is empty. `LinesJoined` and `LinesRead` put the turns together for
  any number of lines; `HeadersRead` (what `serialize` writes) and `PeerHeadersRead` (what
  a peer writes) are cases of them, the second with the first line that throws.
* *Headers.* `UpperBound` and `AddLemma`: `add` keeps a map sorted and puts a header behind
  all of its name. `GetLast`: so the last value `get` returns is the one added last, which
  is `LastLengthIsRight`. A map that is written is read in the same order,
  because each header belongs after all earlier ones (`AddAtEnd`). A *block* is
  lines with no empty one among them, so `HeadIs` finds the end of the head.
* *Encoding.* `Coded(t, s)` says that `t` is a text `url_decode` reads as `s`, character by
  character: each stands for itself, unless it is a `%` or a `+`, or is escaped. `EncodeIs`:
  `url_encode(s)` without its NUL codes `s`, in characters with no meaning in a first line;
  `CodedJoin`: texts that are coded can be put together; `Decoded`: `url_decode` gives `s`
  back. So `ParametersAre` can say that parameters that run together are one name and
  one coded value, which is all `ParametersRunTogether` allows.
* *The query of a peer.* `UpTo(q, n, map)` is the invariant of the loop in `create`: after n
  pieces the map has the encoded names of the first n pairs, each with its last value.
  `OneMore` is one turn, and needs that two names encoded alike are the same (`EncOnce`).

### Addresses

Here the work is in the functions, and the invariant only says where their arguments
come from: `AddressInv` says that the endpoint is one of either kind, that the storage is
one `fill` has made of such an endpoint (`StorageInv`), and the text one that `to_string`
has made, or an address with a number after it (`TextInv`); the endpoint is set from
either, so the three go together.

* The loops of `v6::to_string` are recursive functions. `LeastNat` (a set of numbers has
  a least element) gives what induction they need. `KnowsRuns` is the invariant of the
  first loop: the run being counted, the longest one so far and that none is as long
  before it. `ZeroRunLemma` concludes that it finds the first of the longest runs, and
  `V6TextLemma` that the second loop writes `Body`, a closed form of the two sides of the
  gap.
* Reading a v6 text back is `RunsLemma`: a text of joined words has one reading as words
  with or without a gap (`ReadsWithoutGap`, `ReadsWithGap`), whose words are those of the
  address. `Brackets`, `WithPort` and `BareReads` carry it through `endpoint::parse`,
  which cuts at the last colon.
* `NetworkOrder` is the arithmetic of `htons` on a little-endian host, `SockaddrLemma`
  the layout it gives.

### What TLC has checked of it

`SafetyInv` and `ImplementsTaskPool` are properties of `mt_io`. The other inductive
invariants were checked as invariants before they were proved: `WakeInv` with the
constants of `single`, `mt_compute` and `mt_io`, `SeqInv` with those of `single` and
`mt_compute`, `HandlesInv` with those of `handles`, `IocpInv` with those of `iocp` and
`v_accept` (where `respun` is not empty), `TimersAsleep` and `LateRegistered` with those
of `single`, `StreamInv` and `Suspended` with those of
`stream`, `AddressInv` with those of `address`, and `HttpInv` with those of `http`, with the
sets that TLC cannot enumerate (`ParameterMap`, the maps `m` of `WireWritten`) replaced by
equivalent tests.

### Only model-checked

* All liveness (`Completes`, `BothReturn`, `ResetIsNoticed`, `IocpCompletes`): it
  needs fairness and `ENABLED`, which the prover does not handle.

Everything else that a passing run checks is proved.

## 5. Not modelled

* The conversion of the wait time to milliseconds; a wait may end at any time.
* The values coroutines return, and a second `get()` on a task.
* The inner and outer handles of `one_step`: a chain of frames is its length.
* The contents, truncation and loss of datagrams. `udp_socket` suspends and registers
  as in `Reactor` and `Iocp`, and its descriptors are in `SocketHandles`.
* On Windows: several threads that do I/O together (see `Iocp` above), and the
  creation of sockets, which has no waiting in it.
* Texts that are not well-formed messages, beyond the ones `serialize` makes, and the
  responses of a peer: `response::create` calls `std::stoul` on the status (line 37), which
  throws when that is no number. What is read is what `serialize` wrote, where it is one.
  `url_decode` joins two hexadecimal digits with `<< 4 |` in a `char`; the model adds them,
  which is the same for digits and not for the other characters a malformed escape has.
* Undefined behaviour without a reader: `add_for_write` and `add_for_all`
  (`impl/posix/epoll.cpp:59-63`, `71-75`) end without a `return` after a successful
  `EPOLL_CTL_MOD`. The callers ignore the result, and `EpollCtl` takes the call for a
  success, which it is.
* `base_socket(socket_t)` of an invalid handle, which leaves `m_out_socket`
  uninitialised (`network/base_socket.cpp:17`): the functions that are modelled construct
  an object only of a handle they have just opened.
* Signals: `send()` with no flags on a broken connection raises SIGPIPE, which ends a
  program that does not ignore it. `TcpStream` is about one that does.
* The destruction of a coroutine that is suspended, and with it of the sockets in its
  frame.
* `std::to_string` of an address (returns an empty string), `network/resolver.cpp`
  (empty) and `error_code.hpp` (a constant table).

## 6. Plan

The components that hold state are modelled, and their safety is proved. What is
left is detail below the present level:

1. The frame chain of `one_step` with its handles, refining `depth`.
2. The contents of datagrams, with their truncation and loss.
3. The conversion of the wait time of `epoll_wait` to an `int` of milliseconds.
