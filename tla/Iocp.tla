-------------------------------- MODULE Iocp --------------------------------
(***************************************************************************)
(* The reactor on Windows: run() over an I/O completion port, and the      *)
(* socket operations of network/win32, each an inner coroutine that hands  *)
(* its basic_overlapped to the kernel and is resumed when the completion   *)
(* of it is taken from the port.                                           *)
(*                                                                         *)
(* Threads that do I/O concurrently race as Reactor shows, on any system.  *)
(* Here a program either does I/O on the thread of wait_for_all() or has   *)
(* workers and tasks that only compute, so what a coroutine does between   *)
(* two suspensions, and a wake(), is one step.  There are no timers, so    *)
(* the wait of run() is a second, or nothing when a task is queued.        *)
(***************************************************************************)
EXTENDS Integers, Sequences, FiniteSets

CONSTANTS
  Main,      \* the thread that calls wait_for_all()
  Workers,   \* the threads initialize() can start
  Tasks,     \* the tasks main() can spawn
  Programs,  \* what the program is: [workers, tasks, ops]
  Size,      \* the size passed to read and write
  MaxOps,    \* bound: operations of one task
  MaxIssues, \* bound: requests made by one operation
  None

Calls == {"connect", "accept", "read", "write", "udpRead", "udpWrite"}
Transfers == {"read", "write", "udpRead", "udpWrite"}

ASSUME IocpAssumption ==
  /\ Main \notin Workers
  /\ None \notin Tasks
  /\ \A p \in Programs :
       /\ p.workers \subseteq Workers /\ p.tasks \subseteq Tasks
       /\ p.ops \subseteq Calls \cup {"compute"}
       /\ p.workers = {} \/ p.ops \subseteq {"compute"}
  /\ Size \in Nat \ {0} /\ MaxOps \in Nat /\ MaxIssues \in Nat \ {0}

VARIABLES
  program,        \* the program that runs
  m_tasks, m_active_tasks, m_running, spawned,
  m_state,        \* basic_task::m_state
  co,             \* the coroutine: [at, op, frame, total, issued]
  overlapped,     \* the basic_overlapped of its frame: [success, bytes]
  inflight,       \* the requests the kernel has not completed
  port,           \* the packets queued on the completion port
  pc, p_task, result, \* run() and process_tasks(), per thread
  blocking,       \* the thread waits in GetQueuedCompletionStatus
  moved,          \* history: bytes the kernel has moved for the operation
  last,           \* history: what the last operation returned
  respun          \* history: tasks that made a request without wait()

schedVars == <<m_tasks, m_active_tasks, spawned>>
taskVars  == <<m_state, co, overlapped, last, respun>>
kernelVars == <<inflight, port, moved>>
threadVars == <<pc, p_task, result, blocking>>
iocpVars == <<program, m_running, schedVars, taskVars, kernelVars, threadVars>>

Threads == program.workers \cup {Main}
Error == -1
NoResult == -2

IocpInit ==
  /\ program \in Programs
  /\ m_tasks = <<>> /\ m_active_tasks = {} /\ spawned = {} /\ m_running = TRUE
  /\ m_state = [t \in Tasks |-> "kRun"]
  /\ co = [t \in Tasks |-> [at |-> "root", op |-> "compute", frame |-> 0,
                            total |-> 0, issued |-> 0]]
  /\ overlapped = [t \in Tasks |-> [success |-> FALSE, bytes |-> 0]]
  /\ inflight = {} /\ port = <<>>
  /\ pc = [w \in Threads |-> IF w = Main THEN "main" ELSE "check"]
  /\ p_task = [w \in Threads |-> None]
  /\ result = [w \in Threads |-> "kWait"]
  /\ blocking = [w \in Threads |-> FALSE]
  /\ moved = [t \in Tasks |-> 0]
  /\ last = [t \in Tasks |-> NoResult]
  /\ respun = {}

Goto(w, label) == pc' = [pc EXCEPT ![w] = label]

\* A step that only moves w on.
Jump(w, label) ==
  /\ Goto(w, label)
  /\ UNCHANGED <<program, m_running, schedVars, taskVars, kernelVars, p_task,
                 result, blocking>>

-----------------------------------------------------------------------------
(* main(), run() and the completion port.                                  *)

SpawnRoot(t) ==
  /\ pc[Main] = "main" /\ t \in program.tasks \ spawned
  /\ spawned' = spawned \cup {t}
  /\ m_tasks' = Append(m_tasks, t)
  /\ m_active_tasks' = m_active_tasks \cup {t}
  /\ UNCHANGED <<program, m_running, taskVars, kernelVars, threadVars>>

wait_for_all ==
  /\ pc[Main] = "main"
  /\ Jump(Main, "check")

\* ~basic_reactor(): m_running = false, then the jthreads are joined.
Destroy ==
  /\ pc[Main] = "returned"
  /\ m_running' = FALSE
  /\ Goto(Main, "joining")
  /\ UNCHANGED <<program, schedVars, taskVars, kernelVars, p_task, result,
                 blocking>>

Join ==
  /\ pc[Main] = "joining"
  /\ \A w \in program.workers : pc[w] = "returned"
  /\ Jump(Main, "joined")

NotifyPacket == [task |-> None, frame |-> 0, success |-> TRUE, bytes |-> 0]

\* Mutant of notify_one: as on POSIX, it does nothing.
NotifyNobody == port' = port

\* iocp::notify_one
notify_one == port' = Append(port, NotifyPacket)

CheckActive(w) ==
  /\ pc[w] = "check"
  /\ Jump(w, IF m_active_tasks = {} THEN "notify" ELSE "delay")

\* The wait: none when a task is queued, otherwise a second.
ChooseWait(w) ==
  /\ pc[w] = "delay"
  /\ blocking' = [blocking EXCEPT ![w] = m_tasks = <<>>]
  /\ Goto(w, "wait")
  /\ UNCHANGED <<program, m_running, schedVars, taskVars, kernelVars, p_task,
                 result>>

Leave(w) ==
  /\ pc[w] = "notify"
  /\ notify_one
  /\ Goto(w, "returned")
  /\ UNCHANGED <<program, m_running, schedVars, taskVars, inflight, moved,
                 p_task, result, blocking>>

\* Mutant of Transferred: bytes_transferred is not copied.
TransferredNothing(p) == [success |-> p.success, bytes |-> 0]

\* What iocp::run stores in the overlapped of a packet.
Transferred(p) == [success |-> p.success, bytes |-> p.bytes]

\* The coroutine frame that holds the overlapped of p is suspended in it.
FrameAlive(p) == co[p.task].frame = p.frame /\ co[p.task].at = "pending"

\* iocp::run: a packet of notify_one() carries no overlapped; a completion
\* is stored in its overlapped and wakes the task of it.  When the frame is
\* gone that is a write to freed memory.
Dequeue(w) ==
  LET p == Head(port) IN
  /\ pc[w] = "wait"
  /\ port # <<>>
  /\ port' = Tail(port)
  /\ IF p.task = None
     THEN Goto(w, "running") /\ UNCHANGED <<m_tasks, m_state, overlapped>>
     ELSE IF FrameAlive(p)
     THEN /\ overlapped' = [overlapped EXCEPT ![p.task] = Transferred(p)]
          /\ m_state' = [m_state EXCEPT ![p.task] = "kRun"]
          /\ m_tasks' = Append(m_tasks, p.task)
          /\ Goto(w, "running")
     ELSE Goto(w, "ub") /\ UNCHANGED <<m_tasks, m_state, overlapped>>
  /\ UNCHANGED <<program, m_running, m_active_tasks, spawned, co, last,
                 respun, inflight, moved, p_task, result, blocking>>

\* Nothing on the port: a wait of no time returns at once, one of a second
\* when it is over.
PollEmpty(w) ==
  /\ pc[w] = "wait" /\ ~blocking[w] /\ port = <<>>
  /\ Jump(w, "running")

WaitExpires(w) ==
  /\ pc[w] = "wait" /\ blocking[w] /\ port = <<>>
  /\ Jump(w, "running")

CheckRunning(w) ==
  /\ pc[w] = "running"
  /\ Jump(w, IF m_running THEN "process" ELSE "notify")

\* process_tasks(): the loop, and the test of is_waiting().
Pop(w) ==
  /\ pc[w] = "process" /\ m_tasks # <<>>
  /\ p_task' = [p_task EXCEPT ![w] = Head(m_tasks)]
  /\ m_tasks' = Tail(m_tasks)
  /\ Goto(w, IF m_state[Head(m_tasks)] = "kWait" THEN "process" ELSE "step")
  /\ UNCHANGED <<program, m_running, m_active_tasks, spawned, taskVars,
                 kernelVars, result, blocking>>

Drained(w) ==
  /\ pc[w] = "process" /\ m_tasks = <<>>
  /\ Jump(w, "check")

Finish(w) ==
  LET t == p_task[w] IN
  /\ pc[w] = "finish"
  /\ m_tasks' = IF result[w] = "kRun" THEN Append(m_tasks, t) ELSE m_tasks
  /\ m_active_tasks' = IF result[w] = "kDone" THEN m_active_tasks \ {t}
                                              ELSE m_active_tasks
  /\ Goto(w, "process")
  /\ UNCHANGED <<program, m_running, spawned, taskVars, kernelVars, p_task,
                 result, blocking>>

-----------------------------------------------------------------------------
(* one_step(): what the coroutine of p_task does until it suspends.        *)

Stepping(w, at) == pc[w] = "step" /\ co[p_task[w]].at = at

\* one_step() ends with the frame suspended, and returns m_state.
Suspend(w, state) ==
  /\ m_state' = [m_state EXCEPT ![p_task[w]] = state]
  /\ result' = [result EXCEPT ![w] = state]
  /\ Goto(w, "finish")

\* co_await of a library call, or of any coroutine: its frame is created and
\* started by the next one_step().
Await(w, op) ==
  LET t == p_task[w] IN
  /\ Stepping(w, "root")
  /\ co[t].frame < MaxOps
  /\ co' = [co EXCEPT ![t] = [at |-> "start", op |-> op, frame |-> @.frame + 1,
                              total |-> 0, issued |-> 0]]
  /\ overlapped' = [overlapped EXCEPT ![t] = [success |-> FALSE, bytes |-> 0]]
  /\ moved' = [moved EXCEPT ![t] = 0]
  /\ last' = [last EXCEPT ![t] = NoResult]
  /\ Suspend(w, m_state[t])
  /\ UNCHANGED <<respun, inflight, port>>

\* The root frame returns, or has returned when a second queue entry of the
\* task is popped.
RootReturn(w) ==
  /\ Stepping(w, "root") \/ Stepping(w, "done")
  /\ co' = [co EXCEPT ![p_task[w]].at = "done"]
  /\ result' = [result EXCEPT ![w] = "kDone"]
  /\ Goto(w, "finish")
  /\ UNCHANGED <<m_state, overlapped, last, respun, kernelVars>>

\* co_return from the operation.  one_step() goes on with the root frame
\* unless the task is waiting; then it returns kWait.
Return(w, value, state) ==
  LET t == p_task[w] IN
  /\ last' = [last EXCEPT ![t] = value]
  /\ co' = [co EXCEPT ![t].at = "root"]
  /\ m_state' = [m_state EXCEPT ![t] = state]
  /\ result' = [result EXCEPT ![w] = state]
  /\ Goto(w, IF state = "kWait" THEN "finish" ELSE "step")
  /\ UNCHANGED <<overlapped, respun, kernelVars>>

\* wsa_buf.len
Remaining(total) == Size - total

\* The call starts a request (at once or pending, there is a packet for it
\* in both cases), and the coroutine suspends.
Issue(w, total, state) ==
  LET t == p_task[w] IN
  /\ co[t].issued < MaxIssues
  /\ inflight' = inflight \cup
       {[task |-> t, frame |-> co[t].frame, id |-> co[t].issued,
         size |-> Remaining(total)]}
  /\ co' = [co EXCEPT ![t].at = "pending", ![t].total = total,
                      ![t].issued = @ + 1]
  /\ Suspend(w, state)
  /\ UNCHANGED <<overlapped, last, port, moved>>

\* Mutant of StateAtIssue: wait() is forgotten.
StateNotSet(op) == "kRun"

\* m_state when the kernel has accepted the request: every operation calls
\* wait() before or, in write, right after the call.
StateAtIssue(op) == "kWait"

\* m_state when the call is refused: only write has not called wait() yet,
\* and nobody calls cancel_wait().
StateAtRefusal(op) == IF op = "write" THEN "kRun" ELSE "kWait"

\* A coroutine of the program itself: nothing to wait for.
Computed(w) ==
  /\ Stepping(w, "start") /\ co[p_task[w]].op = "compute"
  /\ Return(w, 0, "kRun")

\* connect and accept return before wait() when they get no socket.
SetupFails(w) ==
  /\ Stepping(w, "start") /\ co[p_task[w]].op \in {"connect", "accept"}
  /\ Return(w, Error, "kRun")

\* Mutant of Start: a call that succeeds at once returns at once.
StartNoSuspend(w) ==
  /\ Stepping(w, "start") /\ co[p_task[w]].op \in Calls
  /\ inflight' = inflight \cup {[task |-> p_task[w], frame |-> co[p_task[w]].frame,
                                 id |-> 0, size |-> Size]}
  /\ co' = [co EXCEPT ![p_task[w]].at = "root"]
  /\ Suspend(w, "kRun")
  /\ UNCHANGED <<overlapped, last, respun, port, moved>>

\* ConnectEx, AcceptEx, WSARecv, WSASend, WSARecvFrom, WSASendTo.  accept
\* calls again for as long as it gets WSAECONNRESET.
Start(w) ==
  /\ Stepping(w, "start") /\ co[p_task[w]].op \in Calls
  /\ Issue(w, 0, StateAtIssue(co[p_task[w]].op))
  /\ UNCHANGED respun

StartRefused(w) ==
  /\ Stepping(w, "start") /\ co[p_task[w]].op \in Calls
  /\ Return(w, Error, StateAtRefusal(co[p_task[w]].op))

\* write: total += bytes_transferred
Total(t) == co[t].total + overlapped[t].bytes

\* The coroutine goes on after the completion of its request.
Resumed(w, ok) ==
  Stepping(w, "pending") /\ overlapped[p_task[w]].success = ok

\* write goes on until all is sent.
Unsent(t) == co[t].op = "write" /\ Total(t) < Size

Succeeded(w) ==
  /\ Resumed(w, TRUE) /\ ~Unsent(p_task[w])
  /\ Return(w, Total(p_task[w]), "kRun")

WriteMore(w) ==
  /\ Resumed(w, TRUE) /\ Unsent(p_task[w])
  /\ Issue(w, Total(p_task[w]), StateAtIssue("write"))
  /\ UNCHANGED respun

WriteRefused(w) ==
  /\ Resumed(w, TRUE) /\ Unsent(p_task[w])
  /\ Return(w, Error, "kRun")

\* Resumed by one that failed: the reads return 0, the others an error.
Failed(w) ==
  LET op == co[p_task[w]].op IN
  /\ Resumed(w, FALSE) /\ op # "accept"
  /\ Return(w, IF op \in {"read", "udpRead"} THEN 0 ELSE Error, "kRun")

\* accept makes another request with the same overlapped, and suspends
\* without having called wait() again: the task is still in kRun.
AcceptAgain(w) ==
  /\ Resumed(w, FALSE) /\ co[p_task[w]].op = "accept"
  /\ Issue(w, 0, m_state[p_task[w]])
  /\ respun' = respun \cup {p_task[w]}

AcceptRefused(w) ==
  /\ Resumed(w, FALSE) /\ co[p_task[w]].op = "accept"
  /\ Return(w, Error, m_state[p_task[w]])

-----------------------------------------------------------------------------
\* The kernel completes r, having moved n bytes.
Complete(r, ok, n) ==
  /\ inflight' = inflight \ {r}
  /\ port' = Append(port, [task |-> r.task, frame |-> r.frame,
                           success |-> ok, bytes |-> n])
  /\ moved' = IF r.frame = co[r.task].frame
              THEN [moved EXCEPT ![r.task] = @ + n] ELSE moved
  /\ UNCHANGED <<program, m_running, schedVars, taskVars, threadVars>>

\* A read may find the end of the stream or an empty datagram; connect and
\* accept move nothing.
Bytes(r) ==
  CASE co[r.task].op = "write" -> 1 .. r.size
    [] co[r.task].op \in Transfers -> 0 .. r.size
    [] OTHER -> {0}

KernelStep(t) ==
  \E r \in inflight :
    /\ r.task = t
    /\ \/ \E n \in Bytes(r) : Complete(r, TRUE, n)
       \/ Complete(r, FALSE, 0)

MainStep == (\E t \in Tasks : SpawnRoot(t)) \/ wait_for_all \/ Destroy \/ Join

\* Whatever the coroutine does, the queue and the other threads are as before.
BodyStep(w) ==
  /\ \/ \E op \in program.ops : Await(w, op)
     \/ RootReturn(w) \/ Computed(w) \/ SetupFails(w) \/ Start(w)
     \/ StartRefused(w) \/ Succeeded(w) \/ WriteMore(w) \/ WriteRefused(w)
     \/ Failed(w) \/ AcceptAgain(w) \/ AcceptRefused(w)
  /\ UNCHANGED <<program, m_running, schedVars, p_task, blocking>>

ThreadStep(w) ==
  \/ CheckActive(w) \/ ChooseWait(w) \/ Leave(w) \/ Dequeue(w) \/ PollEmpty(w)
  \/ CheckRunning(w) \/ Pop(w) \/ Drained(w) \/ Finish(w) \/ BodyStep(w)

Terminated == pc[Main] = "joined" /\ UNCHANGED iocpVars

IocpNext ==
  \/ MainStep \/ Terminated
  \/ \E w \in Threads : ThreadStep(w) \/ WaitExpires(w)
  \/ \E t \in Tasks : KernelStep(t)

IocpSpec == IocpInit /\ [][IocpNext]_iocpVars

\* Threads are scheduled and every request is completed in the end.  The
\* end of a one-second wait is not relied on: what happens must happen
\* because a packet was posted.
FairIocpSpec ==
  /\ IocpSpec
  /\ WF_iocpVars(MainStep)
  /\ \A w \in Workers \cup {Main} :
       WF_iocpVars(w \in Threads /\ ThreadStep(w))
  /\ \A t \in Tasks : WF_iocpVars(KernelStep(t))

-----------------------------------------------------------------------------
(* Properties.                                                             *)

\* The requests made with the overlapped of t that are still to be answered:
\* in the kernel, or completed and on the port.
Requests(t) == {r \in inflight : r.task = t}
Packets(t) == {i \in DOMAIN port : port[i].task = t}

\* The overlapped a completion refers to is that of a coroutine suspended in
\* the operation that made the request (the comments in read and write say
\* why they suspend even when the call has succeeded at once).
CompletionFindsFrame ==
  \A t \in Tasks \ respun :
    /\ \A r \in Requests(t) : FrameAlive(r)
    /\ \A i \in Packets(t) : FrameAlive(port[i])

\* An OVERLAPPED is given to the kernel again only after its completion, by
\* accept too: "If we started the IO, suspend and wait to be resumed".
AcceptSuspends ==
  \A t \in Tasks : Cardinality(Requests(t)) + Cardinality(Packets(t)) <= 1

\* The first call of accept, connect or read was refused: wait() has run, no
\* request was made, and one_step finds the coroutine ended but its task in
\* kWait.
Abandoned(t) ==
  /\ co[t].at = "root" /\ m_state[t] = "kWait"
  /\ last[t] = Error /\ co[t].issued = 0
  /\ co[t].op \notin {"write", "compute"}

\* A coroutine suspended in an operation is going to be resumed, and it is
\* resumed by the completion only: while the request is open the task is
\* neither queued nor executed.
WaitingIsAnswered ==
  \A t \in Tasks \ respun :
    co[t].at = "pending" =>
      Cardinality(Requests(t)) + Cardinality(Packets(t))
      + Cardinality({i \in DOMAIN m_tasks : m_tasks[i] = t})
      + Cardinality({w \in Threads : pc[w] = "step" /\ p_task[w] = t}) = 1

\* What read and write report is what was transferred, over all the requests
\* of the operation, and write reports no less than it was asked to send.
ReportedIsTransferred ==
  \A t \in Tasks :
    co[t].op \in Transfers /\ last[t] >= 0 =>
      /\ last[t] = moved[t]
      /\ co[t].op = "write" => last[t] = Size

\* "Forces another worker that is waiting for event to wake, that will in
\* turn wake another worker etc...": once nothing is active, no thread stays
\* in its wait without a packet to end it or a thread on its way to post one.
ShutdownChain ==
  m_active_tasks = {} /\ pc[Main] # "main" =>
    \/ \A w \in Threads : pc[w] # "wait"
    \/ port # <<>>
    \/ \E w \in Threads : pc[w] \notin {"wait", "returned", "joining", "joined"}

\* wait_for_all() returns and the workers are joined though no wait expires.
\* Two things only can prevent it: a task whose first call was refused stays
\* in kWait, and an accept whose completion failed is repeated at once.
IocpCompletes ==
  <>(pc[Main] = "joined" \/ respun # {} \/ \E t \in Tasks : Abandoned(t))
=============================================================================
