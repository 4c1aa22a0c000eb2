------------------------------ MODULE Reactor ------------------------------
(***************************************************************************)
(* The cppio reactor on POSIX: the threads that execute                    *)
(* basic_reactor<posix::epoll>::run(), the run queue and active set of     *)
(* abstract_reactor, the timer_pool, the epoll set, and the tasks whose    *)
(* coroutines the threads resume.                                          *)
(*                                                                         *)
(* A critical section of abstract_reactor::m_lock is one step (nothing in  *)
(* it blocks or takes another lock); timer_pool::m_lock is explicit, since *)
(* get_delay() holds it while it wakes tasks one after the other.  Each    *)
(* read or write of the atomic m_state is a step of its own wherever       *)
(* another thread can act in between.                                      *)
(***************************************************************************)
EXTENDS Naturals, Sequences, FiniteSets

CONSTANTS
  Threads,    \* every thread that executes run(): the workers and Main
  Main,       \* the thread that spawns the roots and calls wait_for_all()
  Tasks,      \* the tasks that can be spawned
  Roots,      \* the tasks main() spawns
  Fds,        \* the descriptors the coroutines wait on
  UsesFd,     \* task -> the descriptors its coroutines wait on
  Ops,        \* task -> what its coroutines may do
  Delays,     \* the delays passed to cppio::sleep, in clock ticks
  MaxEvents,  \* std::size(ev) in epoll::run
  MaxDepth,   \* bound: nesting of co_await
  MaxOps,     \* bound: suspensions of one task
  None        \* no thread, no task, no descriptor

OpKinds == {"await", "spawn", "sleep", "read", "accept", "get"}

ASSUME ReactorAssumption ==
  /\ Main \in Threads
  /\ Roots \subseteq Tasks
  /\ UsesFd \in [Tasks -> SUBSET Fds]
  /\ Ops \in [Tasks -> SUBSET OpKinds]
  /\ Delays \subseteq Nat
  /\ MaxEvents \in Nat \ {0}
  /\ MaxDepth \in Nat \ {0}
  /\ MaxOps \in Nat
  /\ None \notin Threads \cup Tasks \cup Fds

VARIABLES
  m_tasks,        \* abstract_reactor::m_tasks, the run queue
  m_active_tasks, \* abstract_reactor::m_active_tasks
  m_running,      \* basic_reactor::m_running
  spawned,        \* the tasks passed to spawn() so far
  m_state,        \* basic_task::m_state
  depth,          \* coroutine frames of the task alive: 0 when it is done
  parked,         \* what the innermost frame is suspended on
  fd,             \* the descriptor its basic_overlapped is registered for
  until,          \* the deadline of its last sleep
  budget,         \* suspensions the task may still make (bound MaxOps)
  m_timers,       \* timer_pool::m_tasks
  timer_lock,     \* holder of timer_pool::m_lock
  now,            \* high_resolution_clock
  armed,          \* epoll set: descriptor -> task of the armed overlapped
  ready,          \* descriptors the kernel finds readable or writable
  orphaned,       \* history: tasks whose wake-up was thrown away
  pc,             \* where each thread is in run()
  p_task,         \* process_tasks(): p_task
  result,         \* process_tasks(): result
  curr,           \* one_step(): curr, as the level of the frame it points to
  wait_time,      \* run(): wait_time
  tnow,           \* timer_pool::get_delay(): now
  events,         \* epoll::run(): the events not handled yet
  target          \* the task a wake() or a future::get() is about

schedVars  == <<m_tasks, m_active_tasks, spawned>>
taskVars   == <<m_state, depth, parked, fd, until, budget>>
timerVars  == <<m_timers, timer_lock, now>>
epollVars  == <<armed, ready>>
localVars  == <<p_task, result, curr, wait_time, tnow, events, target>>
vars == <<schedVars, m_running, taskVars, timerVars, epollVars, orphaned,
          pc, localVars>>

\* Where a thread is while the frame of p_task is executing.
BodyLabels == {"body", "get", "armTimer", "armFd", "lateWait", "suspending"}

Labels == BodyLabels \cup
  {"main", "check", "delay", "lock", "timers", "timerPush", "idle", "poll",
   "events", "eventPush", "running", "process", "popped", "step", "resume",
   "suspended", "load", "finish", "returned", "joining", "joined", "ub"}

Init ==
  /\ m_tasks = <<>>
  /\ m_active_tasks = {}
  /\ m_running = TRUE
  /\ spawned = {}
  /\ m_state = [t \in Tasks |-> "kRun"]
  /\ depth = [t \in Tasks |-> 1]
  /\ parked = [t \in Tasks |-> "none"]
  /\ fd = [t \in Tasks |-> None]
  /\ until = [t \in Tasks |-> 0]
  /\ budget = [t \in Tasks |-> MaxOps]
  /\ m_timers = {}
  /\ timer_lock = None
  /\ now = 0
  /\ armed = [f \in Fds |-> None]
  /\ ready = {}
  /\ orphaned = {}
  /\ pc = [w \in Threads |-> IF w = Main THEN "main" ELSE "check"]
  /\ p_task = [w \in Threads |-> None]
  /\ result = [w \in Threads |-> "kWait"]
  /\ curr = [w \in Threads |-> 0]
  /\ wait_time = [w \in Threads |-> "zero"]
  /\ tnow = [w \in Threads |-> 0]
  /\ events = [w \in Threads |-> {}]
  /\ target = [w \in Threads |-> None]

-----------------------------------------------------------------------------
(* Small operations the steps below are made of.                           *)

Goto(w, label) == pc' = [pc EXCEPT ![w] = label]

\* abstract_reactor::schedule
schedule(t) == m_tasks' = Append(m_tasks, t)

\* Mutant of add: the active set is forgotten.
AddInactive(t) ==
  /\ t \notin spawned
  /\ spawned' = spawned \cup {t}
  /\ m_tasks' = Append(m_tasks, t)
  /\ m_active_tasks' = m_active_tasks

\* abstract_reactor::add, called by spawn()
add(t) ==
  /\ t \notin spawned
  /\ spawned' = spawned \cup {t}
  /\ m_tasks' = Append(m_tasks, t)
  /\ m_active_tasks' = m_active_tasks \cup {t}

\* The first half of basic_task::wake(); the second half is schedule().
SetRun(t) == m_state' = [m_state EXCEPT ![t] = "kRun"]

\* basic_task::wait()
SetWait(t) == m_state' = [m_state EXCEPT ![t] = "kWait"]

\* Mutant of Disarm: the registration is not EPOLLONESHOT.
StayArmed(E) == armed' = armed

\* What EPOLLONESHOT does to the registrations of the events E it returns.
Disarm(E) == armed' = [f \in Fds |-> IF f \in E THEN None ELSE armed[f]]

\* The frame of t is being executed by w.
Executing(w, t) == pc[w] \in BodyLabels /\ p_task[w] = t

MainReturned == pc[Main] \in {"returned", "joining", "joined"}

Done(t) == t \in spawned /\ depth[t] = 0

-----------------------------------------------------------------------------
(* main(): spawn(), wait_for_all(), and the destruction of s_reactor.      *)

SpawnRoot(t) ==
  /\ pc[Main] = "main"
  /\ add(t)
  /\ UNCHANGED <<m_running, taskVars, timerVars, epollVars, orphaned, pc,
                 localVars>>

wait_for_all ==
  /\ pc[Main] = "main"
  /\ Goto(Main, "check")
  /\ UNCHANGED <<schedVars, m_running, taskVars, timerVars, epollVars,
                 orphaned, localVars>>

\* ~basic_reactor(): m_running = false, then the jthreads are joined.
Destroy ==
  /\ pc[Main] = "returned"
  /\ m_running' = FALSE
  /\ Goto(Main, "joining")
  /\ UNCHANGED <<schedVars, taskVars, timerVars, epollVars, orphaned,
                 localVars>>

Join ==
  /\ pc[Main] = "joining"
  /\ \A w \in Threads \ {Main} : pc[w] = "returned"
  /\ Goto(Main, "joined")
  /\ UNCHANGED <<schedVars, m_running, taskVars, timerVars, epollVars,
                 orphaned, localVars>>

-----------------------------------------------------------------------------
(* run(): the loop head, the timers, epoll_wait.                           *)

\* Mutant of CheckActive: the loop tests the run queue.
CheckQueue(w) ==
  /\ pc[w] = "check"
  /\ Goto(w, IF m_tasks = <<>> THEN "returned" ELSE "delay")
  /\ UNCHANGED <<schedVars, m_running, taskVars, timerVars, epollVars,
                 orphaned, localVars>>

\* while (!m_active_tasks.empty()); notify_one() does nothing on POSIX.
CheckActive(w) ==
  /\ pc[w] = "check"
  /\ Goto(w, IF m_active_tasks = {} THEN "returned" ELSE "delay")
  /\ UNCHANGED <<schedVars, m_running, taskVars, timerVars, epollVars,
                 orphaned, localVars>>

\* get_delay() reads the clock before it takes the lock.
ReadClock(w) ==
  /\ pc[w] = "delay"
  /\ tnow' = [tnow EXCEPT ![w] = now]
  /\ Goto(w, "lock")
  /\ UNCHANGED <<schedVars, m_running, taskVars, timerVars, epollVars,
                 orphaned, p_task, result, curr, wait_time, events, target>>

LockTimers(w) ==
  /\ pc[w] = "lock"
  /\ timer_lock = None
  /\ timer_lock' = w
  /\ Goto(w, "timers")
  /\ UNCHANGED <<schedVars, m_running, taskVars, m_timers, now, epollVars,
                 orphaned, localVars>>

\* m_tasks.begin() of the timer pool, and whether it is due.
IsFirst(e) == \A o \in m_timers : e.when <= o.when

\* Mutant of IsDue: a deadline in the current tick counts as reached.
DueEarly(w, e) == e.when <= tnow[w] + 1

IsDue(w, e) == e.when <= tnow[w]

\* One due timer: wake() sets m_state and then schedules.  The entry is
\* erased after that; the pool is locked, so nobody sees the difference.
WakeTimer(w, e) ==
  /\ pc[w] = "timers"
  /\ IsFirst(e) /\ IsDue(w, e)
  /\ SetRun(e.task)
  /\ m_timers' = m_timers \ {e}
  /\ target' = [target EXCEPT ![w] = e.task]
  /\ Goto(w, "timerPush")
  /\ UNCHANGED <<schedVars, m_running, depth, parked, fd, until, budget,
                 timer_lock, now, epollVars, orphaned, p_task, result, curr,
                 wait_time, tnow, events>>

PushTimer(w) ==
  /\ pc[w] = "timerPush"
  /\ schedule(target[w])
  /\ Goto(w, "timers")
  /\ UNCHANGED <<m_active_tasks, spawned, m_running, taskVars, timerVars,
                 epollVars, orphaned, localVars>>

EndDelay(w) ==
  /\ pc[w] = "timers"
  /\ \A e \in m_timers : ~IsDue(w, e)
  /\ wait_time' = [wait_time EXCEPT ![w] =
                     IF m_timers = {} THEN "zero" ELSE "timer"]
  /\ timer_lock' = None
  /\ Goto(w, "idle")
  /\ UNCHANGED <<schedVars, m_running, taskVars, m_timers, now, epollVars,
                 orphaned, p_task, result, curr, tnow, events, target>>

\* Nothing queued and no timer pending: wait for a second.
ChooseWait(w) ==
  /\ pc[w] = "idle"
  /\ wait_time' = [wait_time EXCEPT ![w] =
                     IF m_tasks = <<>> /\ @ = "zero" THEN "second" ELSE @]
  /\ Goto(w, "poll")
  /\ UNCHANGED <<schedVars, m_running, taskVars, timerVars, epollVars,
                 orphaned, p_task, result, curr, tnow, events, target>>

\* What epoll_wait can report.
ReadyFds == {f \in ready : armed[f] # None}

\* epoll_wait returns as many of the ready descriptors as ev[] holds.
EpollEvents(w, E) ==
  /\ pc[w] = "poll"
  /\ E # {}
  /\ Cardinality(E) <= MaxEvents
  /\ E = ReadyFds \/ Cardinality(E) = MaxEvents
  /\ Disarm(E)
  /\ events' = [events EXCEPT ![w] = {<<f, armed[f]>> : f \in E}]
  /\ Goto(w, "events")
  /\ UNCHANGED <<schedVars, m_running, taskVars, timerVars, ready, orphaned,
                 p_task, result, curr, wait_time, tnow, target>>

\* epoll_wait returns no event: the timeout expired, or a signal came.
EpollTimeout(w) ==
  /\ pc[w] = "poll"
  /\ ReadyFds = {}
  /\ Goto(w, "running")
  /\ UNCHANGED <<schedVars, m_running, taskVars, timerVars, epollVars,
                 orphaned, localVars>>

\* p_overlapped->task->wake() of one event, in two steps.
WakeEvent(w, ev) ==
  /\ pc[w] = "events"
  /\ SetRun(ev[2])
  /\ events' = [events EXCEPT ![w] = @ \ {ev}]
  /\ target' = [target EXCEPT ![w] = ev[2]]
  /\ Goto(w, "eventPush")
  /\ UNCHANGED <<schedVars, m_running, depth, parked, fd, until, budget,
                 timerVars, epollVars, orphaned, p_task, result, curr,
                 wait_time, tnow>>

PushEvent(w) ==
  /\ pc[w] = "eventPush"
  /\ schedule(target[w])
  /\ Goto(w, "events")
  /\ UNCHANGED <<m_active_tasks, spawned, m_running, taskVars, timerVars,
                 epollVars, orphaned, localVars>>

EndEvents(w) ==
  /\ pc[w] = "events"
  /\ events[w] = {}
  /\ Goto(w, "running")
  /\ UNCHANGED <<schedVars, m_running, taskVars, timerVars, epollVars,
                 orphaned, localVars>>

CheckRunning(w) ==
  /\ pc[w] = "running"
  /\ Goto(w, IF m_running THEN "process" ELSE "returned")
  /\ UNCHANGED <<schedVars, m_running, taskVars, timerVars, epollVars,
                 orphaned, localVars>>

-----------------------------------------------------------------------------
(* process_tasks() and basic_task::one_step().                             *)

\* Mutant of Pop: pop_front() is missing.
PopKeeps(w) ==
  /\ pc[w] = "process"
  /\ m_tasks # <<>>
  /\ p_task' = [p_task EXCEPT ![w] = Head(m_tasks)]
  /\ Goto(w, "popped")
  /\ UNCHANGED <<schedVars, m_running, taskVars, timerVars, epollVars, orphaned,
                 result, curr, wait_time, tnow, events, target>>

\* The unlocked m_tasks.empty() only decides whether the lock is taken; the
\* queue is tested again under the lock.
Pop(w) ==
  /\ pc[w] = "process"
  /\ m_tasks # <<>>
  /\ p_task' = [p_task EXCEPT ![w] = Head(m_tasks)]
  /\ m_tasks' = Tail(m_tasks)
  /\ Goto(w, "popped")
  /\ UNCHANGED <<m_active_tasks, spawned, m_running, taskVars, timerVars,
                 epollVars, orphaned, result, curr, wait_time, tnow, events,
                 target>>

Drained(w) ==
  /\ pc[w] = "process"
  /\ m_tasks = <<>>
  /\ Goto(w, "check")
  /\ UNCHANGED <<schedVars, m_running, taskVars, timerVars, epollVars,
                 orphaned, localVars>>

\* A task that is waiting when it is popped is dropped: result stays kWait.
IsWaiting(w) ==
  /\ pc[w] = "popped"
  /\ Goto(w, IF m_state[p_task[w]] = "kWait" THEN "process" ELSE "step")
  /\ UNCHANGED <<schedVars, m_running, taskVars, timerVars, epollVars,
                 orphaned, localVars>>

\* one_step() of a task whose root frame is done.
AlreadyDone(w) ==
  /\ pc[w] = "step"
  /\ depth[p_task[w]] = 0
  /\ result' = [result EXCEPT ![w] = "kDone"]
  /\ Goto(w, "finish")
  /\ UNCHANGED <<schedVars, m_running, taskVars, timerVars, epollVars,
                 orphaned, p_task, curr, wait_time, tnow, events, target>>

\* one_step() of a task that went back to waiting since is_waiting() was
\* tested: its assert fails, and without assertions nothing is resumed.
StepWhileWaiting(w) ==
  LET t == p_task[w] IN
  /\ pc[w] = "step"
  /\ depth[t] > 0 /\ m_state[t] = "kWait"
  /\ curr' = [curr EXCEPT ![w] = depth[t]]
  /\ Goto(w, "suspended")
  /\ UNCHANGED <<schedVars, m_running, taskVars, timerVars, epollVars,
                 orphaned, p_task, result, wait_time, tnow, events, target>>

\* while (!curr.done() && !is_waiting()): both tests let the loop go on, and
\* nothing keeps them true until curr.resume().
TestWaiting(w) ==
  LET t == p_task[w] IN
  /\ pc[w] = "step"
  /\ depth[t] > 0 /\ m_state[t] # "kWait"
  /\ curr' = [curr EXCEPT ![w] = depth[t]]
  /\ Goto(w, "resume")
  /\ UNCHANGED <<schedVars, m_running, taskVars, timerVars, epollVars,
                 orphaned, p_task, result, wait_time, tnow, events, target>>

\* The frame curr points to is still the innermost one, and suspended.
Resumable(w, t) ==
  /\ depth[t] > 0 /\ depth[t] = curr[w]
  /\ \A v \in Threads : ~Executing(v, t)

\* curr.resume() of the innermost frame.  The operation it was waiting for
\* takes what made its descriptor ready.
Resume(w) ==
  LET t == p_task[w] IN
  /\ pc[w] = "resume"
  /\ Resumable(w, t)
  /\ ready' = IF parked[t] = "fd" THEN ready \ {fd[t]} ELSE ready
  /\ parked' = [parked EXCEPT ![t] = "none"]
  /\ fd' = [fd EXCEPT ![t] = None]
  /\ Goto(w, "body")
  /\ UNCHANGED <<schedVars, m_running, m_state, depth, until, budget,
                 timerVars, armed, orphaned, localVars>>

\* Resuming a coroutine that another thread is executing, has completed or
\* has left in an inner frame is undefined behaviour or reads a result that
\* is not there: nothing is said of the thread after it.
ResumeExecuting(w) ==
  /\ pc[w] = "resume"
  /\ ~Resumable(w, p_task[w])
  /\ Goto(w, "ub")
  /\ UNCHANGED <<schedVars, m_running, taskVars, timerVars, epollVars,
                 orphaned, localVars>>

-----------------------------------------------------------------------------
(* What the executing frame does until it suspends or returns.             *)

May(w, op) == pc[w] = "body" /\ op \in Ops[p_task[w]]

SpendBudget(t) ==
  /\ budget[t] > 0
  /\ budget' = [budget EXCEPT ![t] = @ - 1]

\* co_await of another coroutine: task<T>::await_suspend links the frames.
AwaitTask(w) ==
  LET t == p_task[w] IN
  /\ May(w, "await")
  /\ depth[t] < MaxDepth
  /\ SpendBudget(t)
  /\ depth' = [depth EXCEPT ![t] = @ + 1]
  /\ Goto(w, "suspending")
  /\ UNCHANGED <<schedVars, m_running, m_state, parked, fd, until, timerVars,
                 epollVars, orphaned, localVars>>

\* cppio::spawn() from a coroutine.
SpawnTask(w, t) ==
  /\ May(w, "spawn")
  /\ add(t)
  /\ UNCHANGED <<m_running, taskVars, timerVars, epollVars, orphaned, pc,
                 localVars>>

\* sleep::await_suspend: wait(), then start_timer().
Sleep(w) ==
  LET t == p_task[w] IN
  /\ May(w, "sleep")
  /\ SpendBudget(t)
  /\ SetWait(t)
  /\ parked' = [parked EXCEPT ![t] = "sleep"]
  /\ Goto(w, "armTimer")
  /\ UNCHANGED <<schedVars, m_running, depth, fd, until, timerVars,
                 epollVars, orphaned, localVars>>

\* timer_pool::add: a std::set ordered by `when` alone, so an entry whose
\* deadline is already present is not inserted and the result is ignored.
InsertTimer(t, when) ==
  IF \E e \in m_timers : e.when = when
  THEN m_timers' = m_timers /\ orphaned' = orphaned \cup {t}
  ELSE /\ m_timers' = m_timers \cup {[when |-> when, task |-> t]}
       /\ orphaned' = orphaned

StartTimer(w, delay) ==
  LET t == p_task[w] IN
  /\ pc[w] = "armTimer"
  /\ timer_lock = None
  /\ InsertTimer(t, now + delay)
  /\ until' = [until EXCEPT ![t] = now + delay]
  /\ Goto(w, "suspending")
  /\ UNCHANGED <<schedVars, m_running, m_state, depth, parked, fd, budget,
                 timer_lock, now, epollVars, localVars>>

\* Mutant of EpollCtl: DEL and ADD instead of MOD.  When ADD fails, the
\* registration that was there is gone too.
EpollCtlReAdd(t, f) ==
  \/ /\ armed' = [armed EXCEPT ![f] = t]
     /\ orphaned' = orphaned \cup ({armed[f]} \ {None, t})
  \/ /\ armed' = [armed EXCEPT ![f] = None]
     /\ orphaned' = orphaned \cup ({t, armed[f]} \ {None})

\* epoll_ctl MOD or ADD.  Re-arming a descriptor replaces the overlapped it
\* was armed with, and the result of a failed call is ignored.
EpollCtl(t, f) ==
  \/ /\ armed' = [armed EXCEPT ![f] = t]
     /\ orphaned' = orphaned \cup ({armed[f]} \ {None, t})
  \/ /\ armed' = armed
     /\ orphaned' = orphaned \cup {t}

\* read and write have to wait: wait(), register, suspend.  They also do so
\* on a ready descriptor, at end of file or after a partial send.
Read(w, f) ==
  LET t == p_task[w] IN
  /\ May(w, "read")
  /\ SpendBudget(t)
  /\ SetWait(t)
  /\ parked' = [parked EXCEPT ![t] = "fd"]
  /\ fd' = [fd EXCEPT ![t] = f]
  /\ Goto(w, "armFd")
  /\ UNCHANGED <<schedVars, m_running, depth, until, timerVars, epollVars,
                 orphaned, localVars>>

ArmFd(w) ==
  /\ pc[w] = "armFd"
  /\ EpollCtl(p_task[w], fd[p_task[w]])
  /\ Goto(w, "suspending")
  /\ UNCHANGED <<schedVars, m_running, taskVars, timerVars, ready, localVars>>

\* accept and connect: register first, wait() afterwards.
Accept(w, f) ==
  LET t == p_task[w] IN
  /\ May(w, "accept")
  /\ SpendBudget(t)
  /\ EpollCtl(t, f)
  /\ parked' = [parked EXCEPT ![t] = "fd"]
  /\ fd' = [fd EXCEPT ![t] = f]
  /\ Goto(w, "lateWait")
  /\ UNCHANGED <<schedVars, m_running, m_state, depth, until, timerVars,
                 ready, localVars>>

\* The event of f has been delivered to t: wake() has stored kRun.
Delivered(t, f) == armed[f] # t /\ \A w \in Threads : <<f, t>> \notin events[w]

LateWait(w) ==
  LET t == p_task[w] IN
  /\ pc[w] = "lateWait"
  /\ SetWait(t)
  /\ orphaned' = IF Delivered(t, fd[t]) THEN orphaned \cup {t} ELSE orphaned
  /\ Goto(w, "suspending")
  /\ UNCHANGED <<schedVars, m_running, depth, parked, fd, until, budget,
                 timerVars, epollVars, localVars>>

\* future<T>::get() blocks the thread on the notifier of the other task.
Get(w, t) ==
  /\ May(w, "get")
  /\ t # p_task[w]
  /\ SpendBudget(p_task[w])
  /\ target' = [target EXCEPT ![w] = t]
  /\ Goto(w, "get")
  /\ UNCHANGED <<schedVars, m_running, m_state, depth, parked, fd, until,
                 timerVars, epollVars, orphaned, p_task, result, curr,
                 wait_time, tnow, events>>

GetReturns(w) ==
  /\ pc[w] = "get"
  /\ Done(target[w])
  /\ Goto(w, "body")
  /\ UNCHANGED <<schedVars, m_running, taskVars, timerVars, epollVars,
                 orphaned, localVars>>

\* co_return of the innermost frame.  one_step() goes on with the outer frame
\* unless the task is waiting; co_return of the root frame resolves the
\* notifier and ends the task.
Return(w) ==
  LET t == p_task[w] IN
  /\ pc[w] = "body"
  /\ depth' = [depth EXCEPT ![t] = @ - 1]
  /\ curr' = [curr EXCEPT ![w] = depth[t] - 1]
  /\ IF depth[t] = 1
     THEN result' = [result EXCEPT ![w] = "kDone"] /\ Goto(w, "finish")
     ELSE /\ result' = result
          /\ Goto(w, IF m_state[t] = "kWait" THEN "suspended" ELSE "body")
  /\ UNCHANGED <<schedVars, m_running, m_state, parked, fd, until, budget,
                 timerVars, epollVars, orphaned, p_task, wait_time, tnow,
                 events, target>>

\* The frame is suspended: from here another thread may resume it.
Suspend(w) ==
  /\ pc[w] = "suspending"
  /\ Goto(w, "suspended")
  /\ UNCHANGED <<schedVars, m_running, taskVars, timerVars, epollVars,
                 orphaned, localVars>>

\* one_step: if (!curr.done()) return m_state, a test and then a load.
NotDone(w) ==
  /\ pc[w] = "suspended"
  /\ depth[p_task[w]] >= curr[w]
  /\ curr' = [curr EXCEPT ![w] = 0]
  /\ Goto(w, "load")
  /\ UNCHANGED <<schedVars, m_running, taskVars, timerVars, epollVars,
                 orphaned, p_task, result, wait_time, tnow, events, target>>

ReadState(w) ==
  /\ pc[w] = "load"
  /\ result' = [result EXCEPT ![w] = m_state[p_task[w]]]
  /\ Goto(w, "finish")
  /\ UNCHANGED <<schedVars, m_running, taskVars, timerVars, epollVars,
                 orphaned, p_task, curr, wait_time, tnow, events, target>>

\* one_step: another thread has resumed curr meanwhile and it has returned.
\* A root frame lives as long as the task, and kDone is reported; an inner
\* one is destroyed by the frame that awaited it, so curr.done() is a use
\* after free.
FrameReturned(w) ==
  /\ pc[w] = "suspended"
  /\ depth[p_task[w]] < curr[w]
  /\ curr' = [curr EXCEPT ![w] = 0]
  /\ IF curr[w] = 1
     THEN result' = [result EXCEPT ![w] = "kDone"] /\ Goto(w, "finish")
     ELSE result' = result /\ Goto(w, "ub")
  /\ UNCHANGED <<schedVars, m_running, taskVars, timerVars, epollVars,
                 orphaned, p_task, wait_time, tnow, events, target>>

\* Mutants of Requeue and Retire: a task that yielded is not pushed back; a
\* waiting task is erased with the finished ones; a finished one is kept.
RequeueNever(t, r) == m_tasks' = m_tasks
RetireWaiting(t, r) ==
  m_active_tasks' = IF r # "kRun" THEN m_active_tasks \ {t} ELSE m_active_tasks
RetireNever(t, r) == m_active_tasks' = m_active_tasks

\* process_tasks: what is done with the result of one_step.
Requeue(t, r) ==
  m_tasks' = IF r = "kRun" THEN Append(m_tasks, t) ELSE m_tasks
Retire(t, r) ==
  m_active_tasks' = IF r = "kDone" THEN m_active_tasks \ {t} ELSE m_active_tasks

Finish(w) ==
  /\ pc[w] = "finish"
  /\ Requeue(p_task[w], result[w])
  /\ Retire(p_task[w], result[w])
  /\ Goto(w, "process")
  /\ UNCHANGED <<spawned, m_running, taskVars, timerVars, epollVars,
                 orphaned, localVars>>

-----------------------------------------------------------------------------
(* The environment.                                                        *)

\* Time passes; it is only observed while a timer is pending.
Tick ==
  /\ \E e \in m_timers : now < e.when
  /\ now' = now + 1
  /\ UNCHANGED <<schedVars, m_running, taskVars, m_timers, timer_lock,
                 epollVars, orphaned, pc, localVars>>

\* The peer makes a descriptor readable or writable (or it fails).
BecomeReady(f) ==
  /\ f \notin ready
  /\ ready' = ready \cup {f}
  /\ UNCHANGED <<schedVars, m_running, taskVars, timerVars, armed, orphaned,
                 pc, localVars>>

-----------------------------------------------------------------------------
MainStep == (\E t \in Roots : SpawnRoot(t)) \/ wait_for_all \/ Destroy \/ Join

RunStep(w) ==
  \/ CheckActive(w) \/ ReadClock(w) \/ LockTimers(w)
  \/ \E e \in m_timers : WakeTimer(w, e)
  \/ PushTimer(w) \/ EndDelay(w) \/ ChooseWait(w)
  \/ \E E \in SUBSET ReadyFds : EpollEvents(w, E)
  \/ EpollTimeout(w)
  \/ \E ev \in events[w] : WakeEvent(w, ev)
  \/ PushEvent(w) \/ EndEvents(w) \/ CheckRunning(w)

TaskStep(w) ==
  \/ Pop(w) \/ Drained(w) \/ IsWaiting(w)
  \/ AlreadyDone(w) \/ StepWhileWaiting(w) \/ TestWaiting(w)
  \/ Resume(w) \/ ResumeExecuting(w)
  \/ AwaitTask(w)
  \/ \E t \in Tasks : SpawnTask(w, t)
  \/ Sleep(w)
  \/ \E d \in Delays : StartTimer(w, d)
  \/ pc[w] = "body" /\ \E f \in UsesFd[p_task[w]] : Read(w, f) \/ Accept(w, f)
  \/ ArmFd(w) \/ LateWait(w)
  \/ \E t \in spawned : Get(w, t)
  \/ GetReturns(w) \/ Return(w) \/ Suspend(w) \/ NotDone(w) \/ ReadState(w)
  \/ FrameReturned(w) \/ Finish(w)

ThreadStep(w) == RunStep(w) \/ TaskStep(w)

EnvStep == Tick \/ \E f \in Fds : BecomeReady(f)

\* main() has returned and every worker is joined.
Terminated == pc[Main] = "joined" /\ UNCHANGED vars

Next ==
  \/ MainStep
  \/ \E w \in Threads : ThreadStep(w)
  \/ EnvStep
  \/ Terminated

Spec == Init /\ [][Next]_vars

\* The operating system schedules every thread and lets it have m_timers'
\* mutex in the end (every holder gives it back at once, and no thread holds
\* it while it waits), the clock advances, and the peer of every descriptor
\* eventually does something.
Fairness ==
  /\ WF_vars(MainStep)
  /\ \A w \in Threads : WF_vars(ThreadStep(w))
  /\ \A w \in Threads : SF_vars(\/ LockTimers(w)
                                 \/ \E d \in Delays : StartTimer(w, d))
  /\ WF_vars(Tick)
  /\ \A f \in Fds : WF_vars(BecomeReady(f))

FairSpec == Spec /\ Fairness

-----------------------------------------------------------------------------
(* Properties.                                                             *)

TypeOK ==
  /\ m_tasks \in Seq(Tasks)
  /\ m_active_tasks \subseteq spawned
  /\ spawned \subseteq Tasks
  /\ m_running \in BOOLEAN
  /\ m_state \in [Tasks -> {"kRun", "kWait"}]
  /\ depth \in [Tasks -> 0 .. MaxDepth]
  /\ parked \in [Tasks -> {"none", "sleep", "fd"}]
  /\ fd \in [Tasks -> Fds \cup {None}]
  /\ until \in [Tasks -> Nat]
  /\ budget \in [Tasks -> 0 .. MaxOps]
  /\ m_timers \subseteq [when : Nat, task : Tasks]
  /\ timer_lock \in Threads \cup {None}
  /\ now \in Nat
  /\ armed \in [Fds -> Tasks \cup {None}]
  /\ ready \subseteq Fds
  /\ orphaned \subseteq Tasks
  /\ pc \in [Threads -> Labels]
  /\ p_task \in [Threads -> Tasks \cup {None}]
  /\ result \in [Threads -> {"kRun", "kWait", "kDone"}]
  /\ curr \in [Threads -> 0 .. MaxDepth]
  /\ wait_time \in [Threads -> {"zero", "timer", "second"}]
  /\ tnow \in [Threads -> Nat]
  /\ events \in [Threads -> SUBSET (Fds \X Tasks)]
  /\ target \in [Threads -> Tasks \cup {None}]

\* No thread has resumed a coroutine that was being executed, or looked at a
\* frame that was destroyed under it.  What such a thread does next is
\* undefined, and the model says nothing of it: it takes no further step.
NoUB == \A w \in Threads : pc[w] # "ub"

\* wait_for_all() returns only when every task that was spawned is done:
\* run() leaves its loop on an empty m_active_tasks, and process_tasks()
\* erases a task only when one_step() reports kDone.
WaitForAllComplete ==
  NoUB /\ MainReturned =>
    \A t \in spawned : depth[t] = 0

\* Labels at which p_task of a thread is a task it has popped.
HoldLabels ==
  BodyLabels \cup {"popped", "step", "resume", "suspended", "load", "finish"}

\* Only spawned tasks are queued, timed, registered or held, and a task that
\* is not spawned yet is as its constructor left it.
OnlySpawned ==
  /\ \A t \in Tasks \ spawned : depth[t] > 0 /\ m_state[t] = "kRun"
  /\ \A i \in DOMAIN m_tasks : m_tasks[i] \in spawned
  /\ \A e \in m_timers : e.task \in spawned
  /\ \A f \in Fds : armed[f] \in spawned \cup {None}
  /\ \A w \in Threads :
       /\ pc[w] \in HoldLabels => p_task[w] \in spawned
       /\ pc[w] \in {"timerPush", "eventPush"} => target[w] \in spawned
       /\ \A ev \in events[w] : ev[2] \in spawned

\* A coroutine is executed by one thread, and only while it has frames.
OneExecutor ==
  \A w \in Threads : pc[w] \in BodyLabels =>
    /\ depth[p_task[w]] > 0
    /\ pc[w] = "armFd" => fd[p_task[w]] \in Fds
    /\ \A v \in Threads : pc[v] \in BodyLabels /\ p_task[v] = p_task[w] => v = w

\* m_active_tasks loses a task only after its root frame has returned, and
\* nothing becomes active again once wait_for_all() has seen it empty.
ActiveUntilDone ==
  /\ \A t \in spawned : depth[t] > 0 => t \in m_active_tasks
  /\ \A w \in Threads :
       pc[w] = "finish" /\ result[w] = "kDone" => depth[p_task[w]] = 0
  /\ MainReturned => m_active_tasks = {}
  /\ m_running \/ MainReturned

\* run() is executed by main() alone: no worker was started.
SingleThread == Threads = {Main}

\* With one thread, what is_waiting() said still holds at curr.resume().
ResumeAfterWake ==
  SingleThread /\ pc[Main] = "resume" => m_state[p_task[Main]] = "kRun"

\* The inductive invariant behind WaitForAllComplete and the refinement:
\* wait_for_all() is right for any number of threads, whatever the races
\* between wait(), wake() and one_step() do to the run queue.
SafetyInv ==
  TypeOK /\ OnlySpawned /\ OneExecutor /\ ActiveUntilDone /\ ResumeAfterWake

\* The life cycle of a task as a user of the library sees it.
Status(t) ==
  IF t \notin spawned THEN "new"
  ELSE IF depth[t] = 0 THEN "done"
  ELSE IF \E w \in Threads : Executing(w, t) THEN "running"
  ELSE IF m_state[t] = "kWait" THEN "waiting" ELSE "ready"

Pool == INSTANCE TaskPool WITH Exact <- SingleThread,
                               status <- [t \in Tasks |-> Status(t)],
                               returned <- MainReturned

\* run(), the queue, the timers and epoll implement the life cycle promised
\* by spawn() and wait_for_all(), with any number of threads, as long as
\* NoUB holds (NoConcurrentResume says where it does).  With several threads
\* a task can be resumed although it is waiting again.
ImplementsTaskPool == Pool!PoolSpec

\* w is committed to running t, or to putting it back in the queue.
Holds(w, t) ==
  /\ p_task[w] = t
  /\ \/ pc[w] \in {"popped", "step", "resume", "body", "get", "armTimer",
                   "armFd"}
     \/ /\ pc[w] \in {"suspending", "suspended", "load", "finish"}
        /\ parked[t] = "none"

Pushing(w, t) == pc[w] \in {"timerPush", "eventPush"} /\ target[w] = t

\* Everything that will make some thread pop or resume t.
Tokens(t) ==
  {<<"queue", i>> : i \in {j \in DOMAIN m_tasks : m_tasks[j] = t}}
  \cup {<<"thread", w>> : w \in {v \in Threads : Holds(v, t)}}
  \cup {<<"push", w>> : w \in {v \in Threads : Pushing(v, t)}}
  \cup {<<"timer", e.when>> : e \in {o \in m_timers : o.task = t}}
  \cup {<<"armed", f>> : f \in {g \in Fds : armed[g] = t}}
  \cup {<<"event", x>> : x \in
          {y \in Threads \X Fds : <<y[2], t>> \in events[y[1]]}}

\* A task is never scheduled twice: one queue entry, one holder, one timer,
\* one armed descriptor or one undelivered event, and not two of them.  This
\* is what keeps two threads from resuming the same coroutine.
OneToken == \A t \in Tasks : \A x, y \in Tokens(t) : x = y

\* A task that is not done is always going to run again, with any number of
\* threads, unless its timer or its registration was discarded or accept() or
\* connect() has overwritten the kRun of its wake-up: nothing else is lost
\* between wait(), the registration, the suspension and the wake().
NoLostWakeup ==
  NoUB => \A t \in spawned \ orphaned : depth[t] > 0 => Tokens(t) # {}

\* ev.data.ptr never dangles: an armed registration, and an event epoll_wait
\* has returned, refer to a basic_overlapped of a frame that is still waiting
\* for that descriptor.
NoDanglingOverlapped ==
  \A t \in Tasks, f \in Fds :
    (armed[f] = t \/ \E w \in Threads : <<f, t>> \in events[w]) =>
      parked[t] = "fd" /\ fd[t] = f

\* A coroutine in co_await sleep(d) is not resumed before its deadline.
SleepNotShort ==
  [][\A t \in Tasks :
       parked[t] = "sleep" /\ parked'[t] = "none" => until[t] <= now]_vars

\* Why t lost its wake-up in this step.  It goes to sleep until the deadline
\* of another task that is asleep:
SameDeadline(t) ==
  \E w \in Threads, e \in m_timers :
    /\ Executing(w, t) /\ pc[w] = "armTimer"
    /\ e.task # t /\ e.when = until'[t]
    /\ parked[e.task] = "sleep" /\ until[e.task] = e.when

\* or it is suspended on a descriptor that another task registers now,
Displaced(t) ==
  /\ parked[t] = "fd" /\ \A w \in Threads : ~Executing(w, t)
  /\ armed[fd[t]] = t /\ armed'[fd[t]] \notin {t, None}
  /\ parked'[armed'[fd[t]]] = "fd" /\ fd'[armed'[fd[t]]] = fd[t]

\* or its own epoll_ctl fails, and no other registration changes.
NotRegistered(t) ==
  /\ \E w \in Threads : Executing(w, t) /\ pc[w] \in {"body", "armFd"}
  /\ parked'[t] = "fd" /\ armed' = armed

\* With one thread a wake-up is thrown away in these three ways only: the
\* late wait() of accept() and connect() overwrites nothing, a failed
\* epoll_ctl harms nobody but its caller, and the registration or the timer
\* that is replaced or refused is never one that nobody waits for.
LossIsExplained ==
  [][\A t \in orphaned' \ orphaned :
       SameDeadline(t) \/ Displaced(t) \/ NotRegistered(t)]_vars

\* wait_for_all() returns and the workers are joined, unless a wake-up was
\* thrown away or behaviour is undefined, or every thread that has not left
\* run() is blocked in future::get() for ever, on a task of which no thread
\* is left to execute it.  As long as one thread is free the tasks go on.
Completes ==
  \/ <>(pc[Main] = "joined" \/ orphaned # {} \/ ~NoUB)
  \/ <>[](\A w \in Threads : pc[w] \in {"get", "returned"})

\* Two threads never execute the same coroutine, and none uses a frame that
\* another thread has completed.
NoConcurrentResume == NoUB

\* No task is abandoned: neither std::set::insert nor epoll_ctl discards it.
NoOrphan == orphaned = {}
=============================================================================
