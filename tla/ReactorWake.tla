---------------------------- MODULE ReactorWake ----------------------------
(***************************************************************************)
(* A task is not lost, for every number of threads, tasks, descriptors and *)
(* delays (NoLostWakeup).                                                  *)
(*                                                                         *)
(* WakeInv says more than NoLostWakeup, and has to: a thread that has read *)
(* kWait from one_step() still refers to the task, and will drop it.  What *)
(* counts is that something useful is left (Useful), and that a task in    *)
(* kWait has a timer, a registration or an event that will store kRun, or  *)
(* is about to (Awaited).                                                  *)
(***************************************************************************)
EXTENDS ReactorProofs

\* What will make a thread pop or resume t.  A thread that has read kWait
\* from one_step() and is about to drop the task is of no use to it.
Queued(t) == \E i \in DOMAIN m_tasks : m_tasks[i] = t
Pending(t) ==
  \/ \E e \in m_timers : e.task = t
  \/ \E f \in Fds : armed[f] = t
  \/ \E w \in Threads, f \in Fds : <<f, t>> \in events[w]
Arms(w, t) == pc[w] \in {"armTimer", "armFd"} /\ p_task[w] = t
Resumes(w, t) == Holds(w, t) /\ (pc[w] = "finish" => result[w] = "kRun")
Useful(t) ==
  Queued(t) \/ Pending(t) \/ \E w \in Threads : Pushing(w, t) \/ Resumes(w, t)

\* epoll::run leaves its loop when every event is handled.
EventsTaken ==
  \A w \in Threads : pc[w] \notin {"events", "eventPush"} => events[w] = {}

\* What the frame that is being executed is going to wait for.
ParkedBody ==
  \A w \in Threads :
    /\ pc[w] \in {"body", "get"} => parked[p_task[w]] = "none"
    /\ pc[w] = "armTimer" => parked[p_task[w]] = "sleep"
    /\ pc[w] \in {"armFd", "lateWait"} =>
         parked[p_task[w]] = "fd" /\ fd[p_task[w]] \in Fds

\* A task is in kWait only as long as something will store kRun again.
Awaited(t) ==
  m_state[t] = "kWait" => Pending(t) \/ \E w \in Threads : Arms(w, t)

WakeInv ==
  /\ EventsTaken /\ ParkedBody
  /\ \A t \in Tasks \ orphaned : Awaited(t)
  /\ NoUB => \A t \in spawned \ orphaned : depth[t] > 0 => Useful(t)

-----------------------------------------------------------------------------
(* Steps.                                                                  *)

\* run() outside of the loops over timers, events and tasks.
Loops(w) ==
  \/ CheckActive(w) \/ ReadClock(w) \/ LockTimers(w) \/ EndDelay(w)
  \/ ChooseWait(w) \/ EpollTimeout(w) \/ EndEvents(w) \/ CheckRunning(w)
  \/ Drained(w)

\* Labels of a thread that is in none of the places the tasks circulate in.
LoopLabels ==
  {"main", "check", "delay", "lock", "timers", "idle", "poll", "running",
   "process", "returned", "joining", "joined"}

\* The steps of Next, by what they are about.
LEMMA Steps ==
  ASSUME [Next]_vars
  PROVE  \/ UNCHANGED vars \/ Tick \/ (\E f \in Fds : BecomeReady(f))
         \/ wait_for_all \/ Destroy \/ Join
         \/ \E t \in Roots : SpawnRoot(t)
         \/ \E w \in Threads : Loops(w)
         \/ \E w \in Threads : (\E e \in m_timers : WakeTimer(w, e)) \/ PushTimer(w)
         \/ \E w \in Threads : \E E \in SUBSET ReadyFds : EpollEvents(w, E)
         \/ \E w \in Threads : (\E ev \in events[w] : WakeEvent(w, ev)) \/ PushEvent(w)
         \/ \E w \in Threads : Pop(w) \/ IsWaiting(w) \/ AlreadyDone(w)
              \/ StepWhileWaiting(w) \/ TestWaiting(w) \/ Resume(w) \/ ResumeExecuting(w)
         \/ \E w \in Threads : AwaitTask(w) \/ (\E t \in Tasks : SpawnTask(w, t))
              \/ Sleep(w) \/ \E d \in Delays : StartTimer(w, d)
         \/ \E w \in Threads :
              \/ pc[w] = "body" /\ \E f \in UsesFd[p_task[w]] : Read(w, f) \/ Accept(w, f)
              \/ ArmFd(w) \/ LateWait(w)
         \/ \E w \in Threads : (\E t \in spawned : Get(w, t)) \/ GetReturns(w)
              \/ Return(w) \/ Suspend(w) \/ NotDone(w) \/ ReadState(w)
              \/ FrameReturned(w) \/ Finish(w)
BY DEF Next, MainStep, ThreadStep, RunStep, TaskStep, EnvStep, Terminated, Loops

\* The parts of the state a step of the loop does not touch.
Circulation ==
  <<m_tasks, spawned, m_state, depth, parked, fd, until, m_timers, armed,
    orphaned, p_task, result, curr, events, target>>

\* A step of the loop, of main() or of the environment: it changes none of the
\* places a task can be in, and a thread moves only where it holds no task.
Quiet ==
  /\ UNCHANGED Circulation
  /\ \A w \in Threads :
       \/ pc'[w] = pc[w]
       \/ pc[w] \in LoopLabels /\ pc'[w] \in LoopLabels
       \/ pc[w] = "events" /\ events[w] = {} /\ pc'[w] = "running"

\* The steps that move no task around.
LEMMA QuietSteps ==
  ASSUME SafetyInv,
         \/ UNCHANGED vars \/ Tick \/ (\E f \in Fds : BecomeReady(f))
         \/ wait_for_all \/ Destroy \/ Join
         \/ \E w \in Threads : Loops(w)
  PROVE  Quiet
<1> USE DEF Circulation, schedVars, taskVars, timerVars, epollVars, localVars
<1>1. pc \in [Threads -> Labels] /\ Main \in Threads
  BY ReactorAssumption DEF SafetyInv, TypeOK
<1>2. CASE UNCHANGED vars \/ Tick \/ (\E f \in Fds : BecomeReady(f))
  BY <1>2 DEF Quiet, vars, Tick, BecomeReady
<1>3. CASE wait_for_all \/ Destroy \/ Join
  BY <1>1, <1>3 DEF Quiet, wait_for_all, Destroy, Join, Goto, LoopLabels
<1>4. ASSUME NEW w \in Threads, Loops(w)
      PROVE  /\ UNCHANGED Circulation
             /\ \E l \in LoopLabels : pc' = [pc EXCEPT ![w] = l]
             /\ \/ pc[w] \in LoopLabels
                \/ pc[w] = "events" /\ events[w] = {} /\ pc'[w] = "running"
  BY <1>1, <1>4 DEF Loops, CheckActive, ReadClock, LockTimers, EndDelay, ChooseWait,
     EpollTimeout, EndEvents, CheckRunning, Drained, Goto, LoopLabels
<1>5. ASSUME NEW w \in Threads, Loops(w)
      PROVE  Quiet
  <2>1. PICK l \in LoopLabels : pc' = [pc EXCEPT ![w] = l]
    BY <1>4, <1>5
  <2>2. UNCHANGED Circulation
    BY <1>4, <1>5
  <2>3. \/ pc[w] \in LoopLabels
        \/ pc[w] = "events" /\ events[w] = {} /\ pc'[w] = "running"
    BY <1>4, <1>5
  <2> HIDE DEF Circulation, LoopLabels
  <2> QED BY <1>1, <2>1, <2>2, <2>3 DEF Quiet
<1> QED BY <1>2, <1>3, <1>5

\* The steps that move tasks around.
TaskMoves(w) ==
  \/ (\E e \in m_timers : WakeTimer(w, e)) \/ PushTimer(w)
  \/ \E E \in SUBSET ReadyFds : EpollEvents(w, E)
  \/ (\E ev \in events[w] : WakeEvent(w, ev)) \/ PushEvent(w)
  \/ Pop(w) \/ IsWaiting(w) \/ AlreadyDone(w) \/ StepWhileWaiting(w)
  \/ TestWaiting(w) \/ Resume(w) \/ ResumeExecuting(w)
  \/ AwaitTask(w) \/ Sleep(w) \/ \E d \in Delays : StartTimer(w, d)
  \/ pc[w] = "body" /\ \E f \in UsesFd[p_task[w]] : Read(w, f) \/ Accept(w, f)
  \/ ArmFd(w) \/ LateWait(w)
  \/ (\E t \in spawned : Get(w, t)) \/ GetReturns(w)
  \/ Return(w) \/ Suspend(w) \/ NotDone(w) \/ ReadState(w)
  \/ FrameReturned(w) \/ Finish(w)

\* A thread changes no local variable of another one.
LEMMA OthersSame ==
  ASSUME SafetyInv, NEW w \in Threads, TaskMoves(w), NEW v \in Threads, v # w
  PROVE  /\ pc'[v] = pc[v] /\ p_task'[v] = p_task[v] /\ result'[v] = result[v]
         /\ curr'[v] = curr[v] /\ tnow'[v] = tnow[v] /\ events'[v] = events[v]
         /\ target'[v] = target[v]
<1> DEFINE Same == /\ pc'[v] = pc[v] /\ p_task'[v] = p_task[v] /\ result'[v] = result[v]
                   /\ curr'[v] = curr[v] /\ tnow'[v] = tnow[v] /\ events'[v] = events[v]
                   /\ target'[v] = target[v]
<1> USE DEF localVars, Goto
<1>1. /\ pc \in [Threads -> Labels] /\ DOMAIN p_task = Threads /\ DOMAIN result = Threads
      /\ DOMAIN curr = Threads /\ DOMAIN events = Threads /\ DOMAIN target = Threads
  BY DEF SafetyInv, TypeOK
<1>2. ASSUME (\E e \in m_timers : WakeTimer(w, e)) \/ PushTimer(w)
             \/ (\E E \in SUBSET ReadyFds : EpollEvents(w, E))
             \/ (\E ev \in events[w] : WakeEvent(w, ev)) \/ PushEvent(w)
      PROVE  Same
  BY <1>1, <1>2 DEF WakeTimer, PushTimer, EpollEvents, WakeEvent, PushEvent
<1>3. ASSUME Pop(w) \/ IsWaiting(w) \/ AlreadyDone(w) \/ StepWhileWaiting(w)
             \/ TestWaiting(w) \/ Resume(w) \/ ResumeExecuting(w)
      PROVE  Same
  BY <1>1, <1>3 DEF Pop, IsWaiting, AlreadyDone, StepWhileWaiting, TestWaiting, Resume,
     ResumeExecuting
<1>4. ASSUME AwaitTask(w) \/ Sleep(w) \/ (\E d \in Delays : StartTimer(w, d))
             \/ (\E f \in UsesFd[p_task[w]] : Read(w, f) \/ Accept(w, f))
             \/ ArmFd(w) \/ LateWait(w)
      PROVE  Same
  BY <1>1, <1>4 DEF AwaitTask, Sleep, StartTimer, Read, Accept, ArmFd, LateWait
<1>5. ASSUME (\E t \in spawned : Get(w, t)) \/ GetReturns(w) \/ Return(w) \/ Suspend(w)
             \/ NotDone(w) \/ ReadState(w) \/ FrameReturned(w) \/ Finish(w)
      PROVE  Same
  BY <1>1, <1>5 DEF Get, GetReturns, Return, Suspend, NotDone, ReadState, FrameReturned,
     Finish
<1> QED BY <1>2, <1>3, <1>4, <1>5 DEF TaskMoves

\* A step is quiet, or spawns a task, or moves one.
LEMMA StepKinds ==
  ASSUME SafetyInv, [Next]_vars
  PROVE  \/ Quiet
         \/ \E t \in Tasks :
              /\ add(t)
              /\ UNCHANGED <<m_state, depth, parked, fd, until, m_timers, armed, orphaned,
                             pc, p_task, result, curr, events, target, tnow, now>>
         \/ \E w \in Threads : TaskMoves(w)
<1>1. ASSUME NEW t \in Roots, SpawnRoot(t)
      PROVE  t \in Tasks /\ add(t) /\ UNCHANGED <<m_state, depth, parked, fd, until,
               m_timers, armed, orphaned, pc, p_task, result, curr, events, target, tnow, now>>
  BY <1>1, ReactorAssumption DEF SpawnRoot, taskVars, timerVars, epollVars, localVars
<1>2. ASSUME NEW w \in Threads, NEW t \in Tasks, SpawnTask(w, t)
      PROVE  add(t) /\ UNCHANGED <<m_state, depth, parked, fd, until, m_timers, armed,
               orphaned, pc, p_task, result, curr, events, target, tnow, now>>
  BY <1>2 DEF SpawnTask, taskVars, timerVars, epollVars, localVars
<1>3. ASSUME \/ UNCHANGED vars \/ Tick \/ (\E f \in Fds : BecomeReady(f))
             \/ wait_for_all \/ Destroy \/ Join
             \/ \E w \in Threads : Loops(w)
      PROVE  Quiet
  BY <1>3, QuietSteps
<1> QED BY <1>1, <1>2, <1>3, Steps DEF TaskMoves

-----------------------------------------------------------------------------
(* No task is lost.                                                        *)

\* What the lemmas below use of SafetyInv.
LEMMA Held ==
  ASSUME SafetyInv
  PROVE  /\ pc \in [Threads -> Labels] /\ p_task \in [Threads -> Tasks \cup {None}]
         /\ parked \in [Tasks -> {"none", "sleep", "fd"}]
         /\ m_state \in [Tasks -> {"kRun", "kWait"}]
         /\ events \in [Threads -> SUBSET (Fds \X Tasks)]
         /\ armed \in [Fds -> Tasks \cup {None}]
         /\ m_tasks \in Seq(Tasks) /\ spawned \subseteq Tasks
         /\ \A w \in Threads : pc[w] \in HoldLabels => p_task[w] \in spawned
         /\ \A w \in Threads : pc[w] \in {"timerPush", "eventPush"} => target[w] \in spawned
         /\ None \notin Tasks
BY ReactorAssumption DEF SafetyInv, TypeOK, OnlySpawned

\* No thread leaves the loop over the events before it has handled them.
LEMMA EventsTakenNext ==
  ASSUME SafetyInv, EventsTaken, [Next]_vars
  PROVE  EventsTaken'
<1>0. events \in [Threads -> SUBSET (Fds \X Tasks)] /\ pc \in [Threads -> Labels]
  BY DEF SafetyInv, TypeOK
<1>1. CASE Quiet
  BY <1>1 DEF Quiet, EventsTaken, Circulation, LoopLabels
<1>2. ASSUME UNCHANGED <<pc, events>> PROVE EventsTaken'
  BY <1>2 DEF EventsTaken
<1>3. ASSUME NEW w \in Threads, TaskMoves(w) PROVE EventsTaken'
  <2>1. CASE pc'[w] \in {"events", "eventPush"}
    BY <1>3, <2>1, OthersSame DEF EventsTaken
  <2>2. CASE pc'[w] \notin {"events", "eventPush"}
    <3> USE <1>0 DEF Goto, localVars
    <3>1. pc[w] \notin {"events", "eventPush"} /\ events' = events
      <4>1. CASE (\E e \in m_timers : WakeTimer(w, e)) \/ PushTimer(w)
                 \/ (\E E \in SUBSET ReadyFds : EpollEvents(w, E))
                 \/ (\E ev \in events[w] : WakeEvent(w, ev)) \/ PushEvent(w)
        BY <2>2, <4>1 DEF WakeTimer, PushTimer, EpollEvents, WakeEvent, PushEvent
      <4>2. CASE Pop(w) \/ IsWaiting(w) \/ AlreadyDone(w) \/ StepWhileWaiting(w)
                 \/ TestWaiting(w) \/ Resume(w) \/ ResumeExecuting(w)
        BY <4>2 DEF Pop, IsWaiting, AlreadyDone, StepWhileWaiting, TestWaiting, Resume,
           ResumeExecuting
      <4>3. CASE AwaitTask(w) \/ Sleep(w) \/ (\E d \in Delays : StartTimer(w, d))
                 \/ (\E f \in UsesFd[p_task[w]] : Read(w, f) \/ Accept(w, f))
                 \/ ArmFd(w) \/ LateWait(w)
        BY <4>3 DEF AwaitTask, May, Sleep, StartTimer, Read, Accept, ArmFd, LateWait
      <4>4. CASE (\E t \in spawned : Get(w, t)) \/ GetReturns(w) \/ Return(w) \/ Suspend(w)
                 \/ NotDone(w) \/ ReadState(w) \/ FrameReturned(w) \/ Finish(w)
        BY <4>4 DEF Get, May, GetReturns, Return, Suspend, NotDone, ReadState,
           FrameReturned, Finish
      <4> QED BY <1>3, <4>1, <4>2, <4>3, <4>4 DEF TaskMoves
    <3> QED BY <1>3, <3>1, OthersSame DEF EventsTaken
  <2> QED BY <2>1, <2>2
<1> QED BY <1>1, <1>2, <1>3, StepKinds

\* Only the thread that executes a frame changes what it is parked on, and
\* the one that resumes it, when nobody executes it.
LEMMA ParkedBodyNext ==
  ASSUME SafetyInv, ParkedBody, [Next]_vars
  PROVE  ParkedBody'
<1>0. /\ pc \in [Threads -> Labels] /\ parked \in [Tasks -> {"none", "sleep", "fd"}]
      /\ fd \in [Tasks -> Fds \cup {None}] /\ UsesFd \in [Tasks -> SUBSET Fds]
      /\ \A w \in Threads : pc[w] \in HoldLabels => p_task[w] \in Tasks
  BY Held, ReactorAssumption DEF SafetyInv, TypeOK
<1>1. CASE Quiet
  BY <1>1 DEF Quiet, ParkedBody, Circulation, LoopLabels
<1>2. ASSUME UNCHANGED <<pc, p_task, parked, fd>> PROVE ParkedBody'
  BY <1>2 DEF ParkedBody
\* What is to be shown of a step of w.
<1>3. ASSUME NEW w \in Threads, TaskMoves(w),
             \A v \in Threads : v # w /\ pc[v] \in BodyLabels =>
               /\ parked'[p_task[v]] = parked[p_task[v]]
               /\ fd'[p_task[v]] = fd[p_task[v]],
             pc'[w] \in {"body", "get"} => parked'[p_task'[w]] = "none",
             pc'[w] = "armTimer" => parked'[p_task'[w]] = "sleep",
             pc'[w] \in {"armFd", "lateWait"} =>
               parked'[p_task'[w]] = "fd" /\ fd'[p_task'[w]] \in Fds
      PROVE  ParkedBody'
  BY <1>3, OthersSame DEF ParkedBody, BodyLabels
<1>4. ASSUME NEW w \in Threads, TaskMoves(w), UNCHANGED <<parked, p_task, fd>>,
             pc'[w] \in {"body", "get", "armTimer", "armFd", "lateWait"} =>
               pc'[w] = pc[w] \/ (pc[w] \in {"body", "get"} /\ pc'[w] \in {"body", "get"})
      PROVE  ParkedBody'
  BY <1>3, <1>4 DEF ParkedBody
<1>5. ASSUME NEW w \in Threads, NEW k, NEW g, pc[w] \in BodyLabels,
             parked' = [parked EXCEPT ![p_task[w]] = k],
             fd' = fd \/ fd' = [fd EXCEPT ![p_task[w]] = g]
      PROVE  \A v \in Threads : v # w /\ pc[v] \in BodyLabels =>
               /\ parked'[p_task[v]] = parked[p_task[v]]
               /\ fd'[p_task[v]] = fd[p_task[v]]
  <2> SUFFICES ASSUME NEW v \in Threads, v # w, pc[v] \in BodyLabels
               PROVE  parked'[p_task[v]] = parked[p_task[v]] /\ fd'[p_task[v]] = fd[p_task[v]]
    OBVIOUS
  <2>1. p_task[v] \in Tasks /\ p_task[v] # p_task[w]
    BY <1>0, <1>5 DEF SafetyInv, OneExecutor, HoldLabels
  <2> QED BY <1>0, <1>5, <2>1
<1>6. ASSUME NEW w \in Threads, TaskMoves(w) PROVE ParkedBody'
  <2> USE <1>0 DEF Goto, localVars, taskVars
  <2>1. CASE (\E e \in m_timers : WakeTimer(w, e)) \/ PushTimer(w)
             \/ (\E E \in SUBSET ReadyFds : EpollEvents(w, E))
             \/ (\E ev \in events[w] : WakeEvent(w, ev)) \/ PushEvent(w)
    <3>1. UNCHANGED <<parked, p_task, fd>>
          /\ pc'[w] \in {"timerPush", "timers", "events", "eventPush"}
      BY <2>1 DEF WakeTimer, PushTimer, EpollEvents, WakeEvent, PushEvent
    <3> QED BY <1>4, <1>6, <3>1
  <2>2. CASE Pop(w)
    <3>1. parked' = parked /\ fd' = fd /\ pc'[w] = "popped"
      BY <2>2 DEF Pop
    <3> QED BY <1>3, <1>6, <3>1
  <2>3. CASE IsWaiting(w) \/ AlreadyDone(w) \/ StepWhileWaiting(w) \/ TestWaiting(w)
             \/ ResumeExecuting(w) \/ AwaitTask(w) \/ ArmFd(w) \/ LateWait(w)
             \/ (\E d \in Delays : StartTimer(w, d))
    <3>1. UNCHANGED <<parked, p_task, fd>>
      BY <2>3 DEF IsWaiting, AlreadyDone, StepWhileWaiting, TestWaiting, ResumeExecuting,
         AwaitTask, ArmFd, LateWait, StartTimer
    <3>2. pc'[w] \in {"process", "step", "finish", "suspended", "resume", "ub", "suspending"}
      BY <2>3 DEF IsWaiting, AlreadyDone, StepWhileWaiting, TestWaiting, ResumeExecuting,
         AwaitTask, ArmFd, LateWait, StartTimer
    <3> QED BY <1>4, <1>6, <3>1, <3>2
  <2>4. CASE Resume(w)
    <3>1. /\ parked' = [parked EXCEPT ![p_task[w]] = "none"] /\ pc'[w] = "body"
          /\ fd' = [fd EXCEPT ![p_task[w]] = None]
          /\ p_task' = p_task /\ p_task[w] \in Tasks
          /\ \A v \in Threads : pc[v] \in BodyLabels => p_task[v] # p_task[w]
      BY <2>4 DEF Resume, Resumable, Executing, HoldLabels
    <3>2. \A v \in Threads : pc[v] \in BodyLabels =>
            parked'[p_task[v]] = parked[p_task[v]] /\ fd'[p_task[v]] = fd[p_task[v]]
      BY <3>1
    <3> QED BY <1>3, <1>6, <3>1, <3>2
  <2>5. CASE Sleep(w)
    <3>1. /\ parked' = [parked EXCEPT ![p_task[w]] = "sleep"] /\ pc'[w] = "armTimer"
          /\ p_task' = p_task /\ pc[w] = "body" /\ p_task[w] \in Tasks /\ fd' = fd
      BY <2>5 DEF Sleep, May, HoldLabels, BodyLabels
    <3>2. parked'[p_task[w]] = "sleep" /\ pc[w] \in BodyLabels
      BY <3>1 DEF BodyLabels
    <3>3. \A v \in Threads : v # w /\ pc[v] \in BodyLabels =>
            parked'[p_task[v]] = parked[p_task[v]] /\ fd'[p_task[v]] = fd[p_task[v]]
      BY <1>5, <3>1, <3>2
    <3> QED BY <1>3, <1>6, <3>1, <3>2, <3>3
  <2>6. ASSUME NEW f \in Fds, Read(w, f) \/ Accept(w, f) PROVE ParkedBody'
    <3>1. /\ parked' = [parked EXCEPT ![p_task[w]] = "fd"]
          /\ pc'[w] \in {"armFd", "lateWait"}
          /\ p_task' = p_task /\ pc[w] = "body" /\ p_task[w] \in Tasks
          /\ fd' = [fd EXCEPT ![p_task[w]] = f]
      BY <2>6 DEF Read, Accept, May, HoldLabels, BodyLabels
    <3>2. parked'[p_task[w]] = "fd" /\ fd'[p_task[w]] = f /\ pc[w] \in BodyLabels
      BY <3>1 DEF BodyLabels
    <3>3. \A v \in Threads : v # w /\ pc[v] \in BodyLabels =>
            parked'[p_task[v]] = parked[p_task[v]] /\ fd'[p_task[v]] = fd[p_task[v]]
      BY <1>5, <3>1, <3>2
    <3> QED BY <1>3, <1>6, <3>1, <3>2, <3>3
  <2>7. CASE (\E t \in spawned : Get(w, t)) \/ GetReturns(w) \/ Return(w) \/ Suspend(w)
             \/ NotDone(w) \/ ReadState(w) \/ FrameReturned(w) \/ Finish(w)
    <3>1. UNCHANGED <<parked, p_task, fd>>
      BY <2>7 DEF Get, GetReturns, Return, Suspend, NotDone, ReadState, FrameReturned,
         Finish
    <3>2. \/ pc'[w] \in {"suspended", "load", "finish", "ub", "process"}
          \/ pc[w] \in {"body", "get"} /\ pc'[w] \in {"body", "get"}
      BY <2>7 DEF Get, May, GetReturns, Return, Suspend, NotDone, ReadState, FrameReturned,
         Finish
    <3> QED BY <1>4, <1>6, <3>1, <3>2
  <2>8. pc[w] = "body" => UsesFd[p_task[w]] \subseteq Fds
    BY DEF HoldLabels, BodyLabels
  <2> QED BY <1>6, <2>1, <2>2, <2>3, <2>4, <2>5, <2>6, <2>7, <2>8 DEF TaskMoves
<1> QED BY <1>1, <1>2, <1>3, <1>6, StepKinds

\* What a timer, a registration or an event becomes: another one of them, or
\* a wake() that has stored kRun.
LEMMA PendingNext ==
  ASSUME SafetyInv, EventsTaken, NEW w \in Threads, TaskMoves(w),
         NEW t \in Tasks, t \notin orphaned', Pending(t)
  PROVE  Pending(t)' \/ (m_state'[t] = "kRun" /\ Pushing(w, t)')
<1>0. /\ pc \in [Threads -> Labels] /\ m_state \in [Tasks -> {"kRun", "kWait"}]
      /\ target \in [Threads -> Tasks \cup {None}]
      /\ events \in [Threads -> SUBSET (Fds \X Tasks)]
      /\ armed \in [Fds -> Tasks \cup {None}] /\ None \notin Tasks
      /\ m_timers \subseteq [when : Nat, task : Tasks]
  BY Held DEF SafetyInv, TypeOK
<1>1. ASSUME UNCHANGED <<m_timers, armed, events>> PROVE Pending(t)'
  BY <1>1 DEF Pending
<1>2. ASSUME NEW e \in m_timers, WakeTimer(w, e)
      PROVE  Pending(t)' \/ (m_state'[t] = "kRun" /\ Pushing(w, t)')
  <2>1. CASE e.task = t
    BY <1>0, <1>2, <2>1 DEF WakeTimer, SetRun, Goto, Pushing
  <2>2. CASE e.task # t
    <3>1. m_timers' = m_timers \ {e} /\ UNCHANGED <<armed, events>>
      BY <1>2 DEF WakeTimer, epollVars
    <3> QED BY <2>2, <3>1 DEF Pending
  <2> QED BY <2>1, <2>2
<1>3. ASSUME NEW E \in SUBSET ReadyFds, EpollEvents(w, E) PROVE Pending(t)'
  <2>1. /\ armed' = [f \in Fds |-> IF f \in E THEN None ELSE armed[f]]
        /\ events' = [events EXCEPT ![w] = {<<f, armed[f]>> : f \in E}]
        /\ m_timers' = m_timers /\ events[w] = {}
    BY <1>3 DEF EpollEvents, Disarm, timerVars, EventsTaken
  <2>2. ASSUME NEW f \in Fds, armed[f] = t PROVE Pending(t)'
    <3>1. CASE f \in E
      <4>1. <<f, t>> \in events'[w]
        BY <1>0, <2>1, <2>2, <3>1
      <4> QED BY <4>1 DEF Pending
    <3>2. CASE f \notin E
      BY <2>1, <2>2, <3>2 DEF Pending
    <3> QED BY <3>1, <3>2
  <2>3. ASSUME NEW v \in Threads, NEW f \in Fds, <<f, t>> \in events[v] PROVE Pending(t)'
    <3>1. events'[v] = events[v]
      BY <1>0, <2>1, <2>3
    <3> QED BY <2>3, <3>1 DEF Pending
  <2>4. ASSUME NEW e \in m_timers, e.task = t PROVE Pending(t)'
    BY <2>1, <2>4 DEF Pending
  <2> QED BY <2>2, <2>3, <2>4 DEF Pending
<1>4. ASSUME NEW ev \in events[w], WakeEvent(w, ev)
      PROVE  Pending(t)' \/ (m_state'[t] = "kRun" /\ Pushing(w, t)')
  <2>1. CASE ev[2] = t
    BY <1>0, <1>4, <2>1 DEF WakeEvent, SetRun, Goto, Pushing
  <2>2. CASE ev[2] # t
    <3>1. /\ events' = [events EXCEPT ![w] = events[w] \ {ev}]
          /\ UNCHANGED <<armed, m_timers>>
      BY <1>4 DEF WakeEvent, timerVars, epollVars
    <3>2. \A f : <<f, t>> # ev
      BY <2>2
    <3>3. \A v \in Threads, f \in Fds : <<f, t>> \in events[v] => <<f, t>> \in events'[v]
      BY <1>0, <3>1, <3>2
    <3> QED BY <3>1, <3>3 DEF Pending
  <2> QED BY <2>1, <2>2
<1>5. ASSUME NEW d \in Delays, StartTimer(w, d) PROVE Pending(t)'
  <2>1. m_timers \subseteq m_timers' /\ UNCHANGED <<armed, events>>
    BY <1>5 DEF StartTimer, InsertTimer, epollVars, localVars
  <2> QED BY <2>1 DEF Pending
<1>6. ASSUME NEW u, NEW g, EpollCtl(u, g), UNCHANGED <<m_timers, events>> PROVE Pending(t)'
  <2>1. CASE armed' = armed
    BY <1>1, <1>6, <2>1
  <2>2. CASE armed' = [armed EXCEPT ![g] = u]
                /\ orphaned' = orphaned \cup ({armed[g]} \ {None, u})
    <3>1. \A f \in Fds : armed[f] = t => armed'[f] = t
      BY <1>0, <2>2
    <3> QED BY <1>6, <3>1 DEF Pending
  <2> QED BY <1>6, <2>1, <2>2 DEF EpollCtl
<1>7. ASSUME PushTimer(w) \/ PushEvent(w) \/ Pop(w) \/ IsWaiting(w) \/ AlreadyDone(w)
             \/ StepWhileWaiting(w) \/ TestWaiting(w) \/ Resume(w) \/ ResumeExecuting(w)
             \/ AwaitTask(w) \/ Sleep(w)
      PROVE  Pending(t)'
  <2>1. UNCHANGED <<m_timers, armed, events>>
    BY <1>7 DEF PushTimer, PushEvent, Pop, IsWaiting, AlreadyDone, StepWhileWaiting,
       TestWaiting, Resume, ResumeExecuting, AwaitTask, Sleep, timerVars, epollVars, localVars
  <2> QED BY <1>1, <2>1
<1>8. ASSUME (\E f \in UsesFd[p_task[w]] : Read(w, f)) \/ LateWait(w)
             \/ (\E u \in spawned : Get(w, u)) \/ GetReturns(w) \/ Return(w) \/ Suspend(w)
             \/ NotDone(w) \/ ReadState(w) \/ FrameReturned(w) \/ Finish(w)
      PROVE  Pending(t)'
  <2>1. UNCHANGED <<m_timers, armed, events>>
    BY <1>8 DEF Read, LateWait, Get, GetReturns, Return, Suspend, NotDone, ReadState,
       FrameReturned, Finish, timerVars, epollVars, localVars
  <2> QED BY <1>1, <2>1
<1>9. ASSUME (\E f \in UsesFd[p_task[w]] : Accept(w, f)) \/ ArmFd(w) PROVE Pending(t)'
  <2>1. UNCHANGED <<m_timers, events>> /\ \E u, g : EpollCtl(u, g)
    BY <1>9 DEF Accept, ArmFd, timerVars, localVars
  <2> QED BY <1>6, <2>1
<1> QED BY <1>2, <1>3, <1>4, <1>5, <1>7, <1>8, <1>9 DEF TaskMoves

\* A frame that is about to start its timer or register its descriptor does
\* so, or is orphaned.
LEMMA ArmsNext ==
  ASSUME SafetyInv, NEW w \in Threads, TaskMoves(w),
         NEW t \in Tasks, t \notin orphaned', Arms(w, t)
  PROVE  Pending(t)'
<1>0. /\ pc[w] \in {"armTimer", "armFd"} /\ p_task[w] = t
      /\ armed \in [Fds -> Tasks \cup {None}]
      /\ pc[w] = "armFd" => fd[t] \in Fds
  BY Held DEF Arms, SafetyInv, OneExecutor, BodyLabels
<1>1. ASSUME NEW d \in Delays, StartTimer(w, d) PROVE Pending(t)'
  <2>1. [when |-> now + d, task |-> t] \in m_timers'
    BY <1>0, <1>1 DEF StartTimer, InsertTimer
  <2> QED BY <2>1 DEF Pending
<1>2. CASE ArmFd(w)
  <2>1. armed'[fd[t]] = t /\ fd[t] \in Fds
    BY <1>0, <1>2 DEF ArmFd, EpollCtl
  <2> QED BY <2>1 DEF Pending
<1>3. (\E d \in Delays : StartTimer(w, d)) \/ ArmFd(w)
  <2> USE <1>0
  <2>1. ~((\E e \in m_timers : WakeTimer(w, e)) \/ PushTimer(w)
          \/ (\E E \in SUBSET ReadyFds : EpollEvents(w, E))
          \/ (\E ev \in events[w] : WakeEvent(w, ev)) \/ PushEvent(w)
          \/ Pop(w) \/ IsWaiting(w) \/ AlreadyDone(w) \/ StepWhileWaiting(w)
          \/ TestWaiting(w) \/ Resume(w) \/ ResumeExecuting(w))
    BY DEF WakeTimer, PushTimer, EpollEvents, WakeEvent, PushEvent, Pop, IsWaiting,
       AlreadyDone, StepWhileWaiting, TestWaiting, Resume, ResumeExecuting
  <2>2. ~(AwaitTask(w) \/ Sleep(w) \/ (\E f \in UsesFd[p_task[w]] : Read(w, f) \/ Accept(w, f))
          \/ LateWait(w) \/ (\E u \in spawned : Get(w, u)) \/ GetReturns(w) \/ Return(w)
          \/ Suspend(w) \/ NotDone(w) \/ ReadState(w) \/ FrameReturned(w) \/ Finish(w))
    BY DEF AwaitTask, Sleep, Read, Accept, LateWait, Get, May, GetReturns, Return, Suspend,
       NotDone, ReadState, FrameReturned, Finish
  <2> QED BY <2>1, <2>2 DEF TaskMoves
<1> QED BY <1>1, <1>2, <1>3

\* Whoever stores kWait has something that will store kRun.
LEMMA AwaitedNext ==
  ASSUME SafetyInv, WakeInv, [Next]_vars, NEW t \in Tasks, t \notin orphaned'
  PROVE  Awaited(t)'
<1>0. /\ m_state \in [Tasks -> {"kRun", "kWait"}] /\ pc \in [Threads -> Labels]
      /\ \A w \in Threads : pc[w] \in HoldLabels => p_task[w] \in Tasks
  BY Held
<1>1. CASE Quiet
  BY <1>1 DEF Quiet, WakeInv, Awaited, Pending, Arms, Circulation, LoopLabels
<1>2. CASE UNCHANGED <<m_state, m_timers, armed, orphaned, pc, p_task, events>>
  BY <1>2 DEF WakeInv, Awaited, Pending, Arms
<1>3. ASSUME NEW w \in Threads, TaskMoves(w) PROVE Awaited(t)'
  <2> SUFFICES ASSUME m_state'[t] = "kWait"
               PROVE  Pending(t)' \/ \E v \in Threads : Arms(v, t)'
    BY DEF Awaited
  <2> USE <1>0 DEF Goto
  <2>1. CASE m_state[t] = "kWait" /\ t \notin orphaned
    <3>1. Pending(t) \/ \E v \in Threads : Arms(v, t)
      BY <2>1 DEF WakeInv, Awaited
    <3>2. ASSUME NEW v \in Threads, v # w, Arms(v, t) PROVE Arms(v, t)'
      BY <1>3, <3>2, OthersSame DEF Arms
    <3> QED BY <1>3, <3>1, <3>2, PendingNext, ArmsNext DEF WakeInv
  <2>2. CASE m_state'[t] # m_state[t]
    <3>1. Sleep(w) \/ (\E f \in UsesFd[p_task[w]] : Read(w, f)) \/ LateWait(w)
          \/ m_state' = m_state \/ \E u : SetRun(u)
      <4>1. CASE \/ (\E e \in m_timers : WakeTimer(w, e)) \/ PushTimer(w)
                 \/ (\E E \in SUBSET ReadyFds : EpollEvents(w, E))
                 \/ (\E ev \in events[w] : WakeEvent(w, ev)) \/ PushEvent(w)
                 \/ Pop(w) \/ IsWaiting(w) \/ AlreadyDone(w) \/ StepWhileWaiting(w)
                 \/ TestWaiting(w) \/ Resume(w) \/ ResumeExecuting(w)
        BY <4>1 DEF WakeTimer, PushTimer, EpollEvents, WakeEvent, PushEvent, Pop,
           IsWaiting, AlreadyDone, StepWhileWaiting, TestWaiting, Resume,
           ResumeExecuting, taskVars
      <4>2. CASE \/ AwaitTask(w) \/ (\E d \in Delays : StartTimer(w, d)) \/ ArmFd(w)
                 \/ (\E f \in UsesFd[p_task[w]] : Accept(w, f))
                 \/ (\E u \in spawned : Get(w, u)) \/ GetReturns(w) \/ Return(w)
                 \/ Suspend(w) \/ NotDone(w) \/ ReadState(w) \/ FrameReturned(w)
                 \/ Finish(w)
        BY <4>2 DEF AwaitTask, StartTimer, ArmFd, Accept, Get, GetReturns, Return,
           Suspend, NotDone, ReadState, FrameReturned, Finish, taskVars
      <4> QED BY <1>3, <4>1, <4>2 DEF TaskMoves
    <3>2. ASSUME NEW u, SetRun(u) PROVE m_state'[t] \in {m_state[t], "kRun"}
      BY <3>2 DEF SetRun
    <3>3. CASE Sleep(w) \/ \E f \in UsesFd[p_task[w]] : Read(w, f)
      <4>1. p_task[w] = t /\ p_task' = p_task /\ pc'[w] \in {"armTimer", "armFd"}
        BY <2>2, <3>3 DEF Sleep, Read, SetWait, localVars
      <4> QED BY <4>1 DEF Arms
    <3>4. CASE LateWait(w)
      <4>1. /\ p_task[w] = t /\ ~Delivered(t, fd[t]) /\ UNCHANGED <<armed, events>>
            /\ fd[t] \in Fds
        BY <2>2, <3>4 DEF LateWait, SetWait, epollVars, localVars, WakeInv, ParkedBody
      <4> QED BY <4>1 DEF Delivered, Pending
    <3> QED BY <2>2, <3>1, <3>2, <3>3, <3>4
  <2>3. orphaned \subseteq orphaned'
    <3>1. CASE \/ (\E e \in m_timers : WakeTimer(w, e)) \/ PushTimer(w)
               \/ (\E E \in SUBSET ReadyFds : EpollEvents(w, E))
               \/ (\E ev \in events[w] : WakeEvent(w, ev)) \/ PushEvent(w)
               \/ Pop(w) \/ IsWaiting(w) \/ AlreadyDone(w) \/ StepWhileWaiting(w)
               \/ TestWaiting(w) \/ Resume(w) \/ ResumeExecuting(w)
      BY <3>1 DEF WakeTimer, PushTimer, EpollEvents, WakeEvent, PushEvent, Pop,
         IsWaiting, AlreadyDone, StepWhileWaiting, TestWaiting, Resume, ResumeExecuting
    <3>2. CASE \/ AwaitTask(w) \/ (\E d \in Delays : StartTimer(w, d)) \/ ArmFd(w)
               \/ Sleep(w) \/ (\E f \in UsesFd[p_task[w]] : Read(w, f) \/ Accept(w, f))
               \/ LateWait(w) \/ (\E u \in spawned : Get(w, u)) \/ GetReturns(w)
               \/ Return(w) \/ Suspend(w) \/ NotDone(w) \/ ReadState(w)
               \/ FrameReturned(w) \/ Finish(w)
      BY <3>2 DEF AwaitTask, StartTimer, InsertTimer, ArmFd, Sleep, Read, Accept, EpollCtl,
         LateWait, Get, GetReturns, Return, Suspend, NotDone, ReadState, FrameReturned,
         Finish
    <3> QED BY <1>3, <3>1, <3>2 DEF TaskMoves
  <2> QED BY <2>1, <2>2, <2>3
<1> QED BY <1>1, <1>2, <1>3, StepKinds

\* A thread that has a task resumes it, puts it back in the queue, or drops
\* it because something else is going to wake it.
LEMMA ResumesNext ==
  ASSUME SafetyInv, WakeInv, NEW w \in Threads, TaskMoves(w), NoUB',
         NEW t \in spawned \ orphaned, t \notin orphaned', depth'[t] > 0, Resumes(w, t)
  PROVE  Useful(t)'
<1>0. /\ pc \in [Threads -> Labels] /\ result \in [Threads -> {"kRun", "kWait", "kDone"}]
      /\ depth \in [Tasks -> 0 .. MaxDepth] /\ MaxDepth \in Nat
      /\ parked \in [Tasks -> {"none", "sleep", "fd"}]
      /\ m_state \in [Tasks -> {"kRun", "kWait"}] /\ m_tasks \in Seq(Tasks)
      /\ p_task[w] = t /\ t \in Tasks
      /\ pc[w] \in {"popped", "step", "resume", "body", "get", "armTimer", "armFd",
                    "suspending", "suspended", "load", "finish"}
      /\ pc[w] \in {"body", "get", "suspending", "suspended", "load", "finish"}
           => parked[t] = "none"
      /\ pc[w] = "finish" => result[w] = "kRun"
  BY Held, ReactorAssumption DEF SafetyInv, TypeOK, Resumes, Holds, WakeInv, ParkedBody
\* It is enough that the thread goes on with the task.
<1>1. ASSUME p_task' = p_task, pc'[w] \in {"popped", "step", "resume", "body", "get",
               "armTimer", "armFd", "suspending", "suspended", "load", "finish"},
             pc'[w] \in {"suspending", "suspended", "load", "finish"} =>
               parked'[t] = "none",
             pc'[w] = "finish" => result'[w] = "kRun"
      PROVE  Useful(t)'
  <2>1. Resumes(w, t)'
    BY <1>0, <1>1 DEF Resumes, Holds
  <2> QED BY <2>1 DEF Useful
\* Or that it is waiting.
<1>2. ASSUME m_state[t] = "kWait", pc[w] \notin {"armTimer", "armFd"} PROVE Useful(t)'
  <2>1. Pending(t) \/ \E v \in Threads : Arms(v, t)
    BY <1>0, <1>2 DEF WakeInv, Awaited
  <2>2. ASSUME NEW v \in Threads, Arms(v, t) PROVE Resumes(v, t)'
    BY <1>2, <2>2, OthersSame DEF Arms, Resumes, Holds
  <2>3. CASE Pending(t)
    BY <1>0, <2>3, PendingNext DEF WakeInv, Useful
  <2> QED BY <2>1, <2>2, <2>3 DEF Useful
<1>3. CASE Arms(w, t)
  BY <1>0, <1>3, ArmsNext DEF Useful
<1> USE <1>0 DEF Goto, localVars, taskVars
<1>4. CASE IsWaiting(w) \/ StepWhileWaiting(w) \/ TestWaiting(w) \/ AlreadyDone(w)
  <2>1. CASE m_state[t] = "kWait"
    BY <1>2, <1>4, <2>1 DEF IsWaiting, StepWhileWaiting, TestWaiting, AlreadyDone
  <2>2. CASE m_state[t] # "kWait"
    <3>1. p_task' = p_task /\ pc'[w] \in {"step", "resume"}
      BY <1>4, <2>2 DEF IsWaiting, StepWhileWaiting, TestWaiting, AlreadyDone
    <3> QED BY <1>1, <3>1
  <2> QED BY <2>1, <2>2
<1>5. CASE Resume(w)
  BY <1>1, <1>5 DEF Resume
<1>6. CASE ResumeExecuting(w)
  BY <1>6 DEF ResumeExecuting, NoUB
<1>7. CASE AwaitTask(w) \/ Suspend(w) \/ NotDone(w)
  <2>1. UNCHANGED <<p_task, parked>> /\ pc'[w] \in {"suspending", "suspended", "load"}
        /\ pc[w] \in {"body", "suspending", "suspended"}
    BY <1>7 DEF AwaitTask, May, Suspend, NotDone
  <2> QED BY <1>1, <2>1
<1>8. CASE Sleep(w) \/ \E f \in UsesFd[p_task[w]] : Read(w, f)
  BY <1>1, <1>8 DEF Sleep, Read
<1>9. ASSUME NEW f \in UsesFd[t], Accept(w, f) PROVE Useful(t)'
  <2>1. f \in Fds /\ armed \in [Fds -> Tasks \cup {None}]
    BY ReactorAssumption DEF SafetyInv, TypeOK
  <2>2. armed'[f] = t
    BY <1>9, <2>1 DEF Accept, EpollCtl
  <2> QED BY <2>1, <2>2 DEF Useful, Pending
<1>10. CASE (\E d \in Delays : StartTimer(w, d)) \/ ArmFd(w)
  BY <1>3, <1>10 DEF StartTimer, ArmFd, Arms
<1>11. CASE LateWait(w)
  BY <1>11 DEF LateWait
<1>12. CASE (\E u \in spawned : Get(w, u)) \/ GetReturns(w)
  <2>1. p_task' = p_task /\ pc'[w] \in {"body", "get"}
    BY <1>12 DEF Get, GetReturns
  <2> QED BY <1>1, <2>1
<1>13. CASE Return(w)
  <2>1. depth'[t] = depth[t] - 1
    BY <1>13 DEF Return
  <2>2. depth[t] # 1
    BY <2>1
  <2>3. UNCHANGED <<p_task, parked>> /\ pc'[w] \in {"body", "suspended"} /\ pc[w] = "body"
    BY <1>13, <2>2 DEF Return
  <2> QED BY <1>1, <2>3
<1>14. CASE ReadState(w)
  <2>1. CASE m_state[t] = "kWait"
    BY <1>2, <1>14, <2>1 DEF ReadState
  <2>2. CASE m_state[t] = "kRun"
    <3>1. /\ UNCHANGED <<p_task, parked>> /\ pc'[w] = "finish" /\ pc[w] = "load"
          /\ result'[w] = "kRun"
      BY <1>14, <2>2 DEF ReadState
    <3> QED BY <1>1, <3>1
  <2> QED BY <2>1, <2>2
<1>15. CASE FrameReturned(w)
  <2>1. depth' = depth /\ depth[t] < curr[w]
    BY <1>15 DEF FrameReturned
  <2>2. curr[w] # 1 /\ curr[w] \in Nat
    BY <2>1 DEF SafetyInv, TypeOK
  <2>3. pc'[w] = "ub"
    BY <1>15, <2>2 DEF FrameReturned
  <2> QED BY <2>3 DEF NoUB
<1>16. CASE Finish(w)
  <2>1. m_tasks' = Append(m_tasks, t)
    BY <1>16 DEF Finish, Requeue
  <2>2. m_tasks'[Len(m_tasks) + 1] = t /\ Len(m_tasks) + 1 \in DOMAIN m_tasks'
    BY <2>1
  <2> QED BY <2>2 DEF Useful, Queued
<1>17. CASE \/ (\E e \in m_timers : WakeTimer(w, e)) \/ PushTimer(w)
            \/ (\E E \in SUBSET ReadyFds : EpollEvents(w, E))
            \/ (\E ev \in events[w] : WakeEvent(w, ev)) \/ PushEvent(w) \/ Pop(w)
  BY <1>17 DEF WakeTimer, PushTimer, EpollEvents, WakeEvent, PushEvent, Pop
<1> QED
  BY <1>4, <1>5, <1>6, <1>7, <1>8, <1>9, <1>10, <1>11, <1>12, <1>13, <1>14, <1>15,
     <1>16, <1>17 DEF TaskMoves

\* The queue loses a task only to the thread that pops it.
LEMMA QueuedNext ==
  ASSUME SafetyInv, NEW w \in Threads, TaskMoves(w), NEW t \in Tasks, Queued(t)
  PROVE  Queued(t)' \/ Resumes(w, t)'
<1>0. m_tasks \in Seq(Tasks) /\ pc \in [Threads -> Labels]
      /\ p_task \in [Threads -> Tasks \cup {None}]
  BY Held
<1>1. ASSUME NEW u, m_tasks' = Append(m_tasks, u) PROVE Queued(t)'
  <2>1. \A i \in DOMAIN m_tasks : i \in DOMAIN m_tasks' /\ m_tasks'[i] = m_tasks[i]
    BY <1>0, <1>1
  <2> QED BY <2>1 DEF Queued
<1>2. CASE Pop(w)
  <2>1. /\ m_tasks # <<>> /\ m_tasks' = Tail(m_tasks) /\ p_task'[w] = Head(m_tasks)
        /\ pc'[w] = "popped"
    BY <1>0, <1>2 DEF Pop, Goto
  <2>2. PICK i \in DOMAIN m_tasks : m_tasks[i] = t
    BY DEF Queued
  <2>3. CASE i = 1
    <3>1. p_task'[w] = t
      BY <1>0, <2>1, <2>2, <2>3
    <3> QED BY <2>1, <3>1 DEF Resumes, Holds
  <2>4. CASE i # 1
    <3>1. i - 1 \in DOMAIN m_tasks' /\ m_tasks'[i - 1] = t
      BY <1>0, <2>1, <2>2, <2>4
    <3> QED BY <3>1 DEF Queued
  <2> QED BY <2>3, <2>4
<1>3. ASSUME m_tasks' = m_tasks PROVE Queued(t)'
  BY <1>3 DEF Queued
<1>4. CASE \/ (\E e \in m_timers : WakeTimer(w, e)) \/ PushTimer(w)
           \/ (\E E \in SUBSET ReadyFds : EpollEvents(w, E))
           \/ (\E ev \in events[w] : WakeEvent(w, ev)) \/ PushEvent(w)
           \/ IsWaiting(w) \/ AlreadyDone(w) \/ StepWhileWaiting(w)
           \/ TestWaiting(w) \/ Resume(w) \/ ResumeExecuting(w)
  <2>1. m_tasks' = m_tasks \/ m_tasks' = Append(m_tasks, target[w])
    BY <1>4 DEF WakeTimer, PushTimer, EpollEvents, WakeEvent, PushEvent, schedule,
       IsWaiting, AlreadyDone, StepWhileWaiting, TestWaiting, Resume, ResumeExecuting,
       schedVars
  <2> QED BY <1>1, <1>3, <2>1
<1>5. CASE \/ AwaitTask(w) \/ (\E d \in Delays : StartTimer(w, d)) \/ ArmFd(w)
           \/ Sleep(w) \/ (\E f \in UsesFd[p_task[w]] : Read(w, f) \/ Accept(w, f))
           \/ LateWait(w) \/ (\E u \in spawned : Get(w, u)) \/ GetReturns(w)
           \/ Return(w) \/ Suspend(w) \/ NotDone(w) \/ ReadState(w)
           \/ FrameReturned(w) \/ Finish(w)
  <2>1. m_tasks' = m_tasks \/ m_tasks' = Append(m_tasks, p_task[w])
    BY <1>5 DEF AwaitTask, StartTimer, ArmFd, Sleep, Read, Accept, LateWait, Get,
       GetReturns, Return, Suspend, NotDone, ReadState, FrameReturned, Finish, Requeue,
       schedVars
  <2> QED BY <1>1, <1>3, <2>1
<1> QED BY <1>2, <1>4, <1>5 DEF TaskMoves

\* A wake() that has stored kRun schedules the task.
LEMMA PushingNext ==
  ASSUME SafetyInv, NEW w \in Threads, TaskMoves(w), NEW t, Pushing(w, t)
  PROVE  Queued(t)'
<1>1. pc[w] \in {"timerPush", "eventPush"} /\ target[w] = t
  BY DEF Pushing
<1>2. PushTimer(w) \/ PushEvent(w)
  <2> USE <1>1
  <2>1. ~((\E e \in m_timers : WakeTimer(w, e))
          \/ (\E E \in SUBSET ReadyFds : EpollEvents(w, E))
          \/ (\E ev \in events[w] : WakeEvent(w, ev))
          \/ Pop(w) \/ IsWaiting(w) \/ AlreadyDone(w) \/ StepWhileWaiting(w)
          \/ TestWaiting(w) \/ Resume(w) \/ ResumeExecuting(w) \/ AwaitTask(w) \/ Sleep(w))
    BY DEF WakeTimer, EpollEvents, WakeEvent, Pop, IsWaiting, AlreadyDone,
       StepWhileWaiting, TestWaiting, Resume, ResumeExecuting, AwaitTask, May, Sleep
  <2>2. ~((\E f \in UsesFd[p_task[w]] : Read(w, f) \/ Accept(w, f))
          \/ (\E d \in Delays : StartTimer(w, d)) \/ ArmFd(w)
          \/ LateWait(w) \/ (\E u \in spawned : Get(w, u)) \/ GetReturns(w) \/ Return(w)
          \/ Suspend(w) \/ NotDone(w) \/ ReadState(w) \/ FrameReturned(w) \/ Finish(w))
    BY DEF Read, Accept, StartTimer, ArmFd, LateWait, Get, May, GetReturns, Return,
       Suspend, NotDone, ReadState, FrameReturned, Finish
  <2> QED BY <2>1, <2>2 DEF TaskMoves
<1>3. m_tasks' = Append(m_tasks, t) /\ m_tasks \in Seq(Tasks)
  BY <1>1, <1>2, Held DEF PushTimer, PushEvent, schedule
<1>4. m_tasks'[Len(m_tasks) + 1] = t /\ Len(m_tasks) + 1 \in DOMAIN m_tasks'
  BY <1>3
<1> QED BY <1>4 DEF Queued

\* What a thread does to the frames of a task: it ends one it executes, or
\* parks it on what it is going to arm.
LEMMA FrameSteps ==
  ASSUME SafetyInv, NEW w \in Threads, TaskMoves(w), NEW t \in Tasks
  PROVE  /\ depth'[t] > 0 => depth[t] > 0
         /\ \/ parked'[t] \in {parked[t], "none"}
            \/ Arms(w, t)' \/ \E f \in UsesFd[t] : Accept(w, f) /\ p_task[w] = t
         /\ spawned' = spawned /\ orphaned \subseteq orphaned'
         /\ pc[w] # "ub"
<1>0. /\ depth \in [Tasks -> 0 .. MaxDepth] /\ MaxDepth \in Nat
      /\ parked \in [Tasks -> {"none", "sleep", "fd"}]
      /\ pc \in [Threads -> Labels]
      /\ \A v \in Threads : pc[v] \in HoldLabels => p_task[v] \in Tasks
  BY Held, ReactorAssumption DEF SafetyInv, TypeOK
<1> DEFINE Goal == /\ depth'[t] > 0 => depth[t] > 0
                   /\ \/ parked'[t] \in {parked[t], "none"}
                      \/ Arms(w, t)' \/ \E f \in UsesFd[t] : Accept(w, f) /\ p_task[w] = t
                   /\ spawned' = spawned /\ orphaned \subseteq orphaned'
                   /\ pc[w] # "ub"
<1> USE DEF Goto, localVars, taskVars, schedVars
<1>1. CASE \/ (\E e \in m_timers : WakeTimer(w, e)) \/ PushTimer(w)
           \/ (\E E \in SUBSET ReadyFds : EpollEvents(w, E))
           \/ (\E ev \in events[w] : WakeEvent(w, ev)) \/ PushEvent(w)
           \/ Pop(w) \/ IsWaiting(w) \/ AlreadyDone(w) \/ StepWhileWaiting(w)
           \/ TestWaiting(w) \/ ResumeExecuting(w)
  <2>1. UNCHANGED <<depth, parked, spawned, orphaned>> /\ pc[w] # "ub"
    BY <1>1 DEF WakeTimer, PushTimer, EpollEvents, WakeEvent, PushEvent, Pop,
       IsWaiting, AlreadyDone, StepWhileWaiting, TestWaiting, ResumeExecuting
  <2> QED BY <2>1
<1>2. CASE Resume(w)
  BY <1>0, <1>2 DEF Resume
<1>3. CASE AwaitTask(w)
  <2>1. depth[p_task[w]] > 0
    BY <1>3 DEF SafetyInv, OneExecutor, AwaitTask, May, BodyLabels
  <2>2. depth' = [depth EXCEPT ![p_task[w]] = @ + 1] /\ UNCHANGED <<parked, spawned, orphaned>>
        /\ pc[w] # "ub"
    BY <1>3 DEF AwaitTask, May
  <2>3. t # p_task[w] => depth'[t] = depth[t]
    BY <1>0, <2>2
  <2> QED BY <2>1, <2>2, <2>3
<1>4. CASE Sleep(w) \/ \E f \in UsesFd[p_task[w]] : Read(w, f)
  <2>1. PICK k : parked' = [parked EXCEPT ![p_task[w]] = k]
    BY <1>4 DEF Sleep, Read
  <2>2. /\ UNCHANGED <<depth, spawned, orphaned, p_task>> /\ pc[w] = "body"
        /\ pc'[w] \in {"armTimer", "armFd"}
    BY <1>0, <1>4 DEF Sleep, Read, May
  <2>3. CASE p_task[w] = t
    BY <2>2, <2>3 DEF Arms
  <2>4. CASE p_task[w] # t
    BY <1>0, <2>1, <2>2, <2>4
  <2> QED BY <2>3, <2>4
<1>5. ASSUME NEW f \in UsesFd[p_task[w]], Accept(w, f) PROVE Goal
  <2>1. parked' = [parked EXCEPT ![p_task[w]] = "fd"]
    BY <1>5 DEF Accept
  <2>2. UNCHANGED <<depth, spawned>> /\ pc[w] = "body" /\ orphaned \subseteq orphaned'
    BY <1>5 DEF Accept, EpollCtl, May
  <2>3. CASE p_task[w] = t
    BY <1>5, <2>2, <2>3
  <2>4. CASE p_task[w] # t
    BY <1>0, <2>1, <2>2, <2>4
  <2> QED BY <2>3, <2>4
<1>6. CASE Return(w)
  <2>1. /\ depth' = [depth EXCEPT ![p_task[w]] = @ - 1] /\ UNCHANGED <<parked, spawned, orphaned>>
        /\ pc[w] = "body"
    BY <1>6 DEF Return
  <2>2. p_task[w] \in Tasks
    BY <1>0, <2>1 DEF HoldLabels, BodyLabels
  <2>3. depth'[t] \in {depth[t], depth[t] - 1} /\ depth[t] \in Nat
    BY <1>0, <2>1, <2>2
  <2> QED BY <2>1, <2>3
<1>7. CASE (\E d \in Delays : StartTimer(w, d)) \/ ArmFd(w) \/ LateWait(w)
  <2>1. UNCHANGED <<depth, parked, spawned>> /\ pc[w] # "ub" /\ orphaned \subseteq orphaned'
    BY <1>7 DEF StartTimer, InsertTimer, ArmFd, EpollCtl, LateWait
  <2> QED BY <2>1
<1>8. CASE \/ (\E u \in spawned : Get(w, u)) \/ GetReturns(w)
           \/ Suspend(w) \/ NotDone(w) \/ ReadState(w)
           \/ FrameReturned(w) \/ Finish(w)
  <2>1. UNCHANGED <<depth, parked, spawned, orphaned>> /\ pc[w] # "ub"
    BY <1>8 DEF Get, May, GetReturns, Suspend, NotDone, ReadState, FrameReturned, Finish
  <2> QED BY <2>1
<1> HIDE DEF Goal
<1>9. Goal
  BY <1>1, <1>2, <1>3, <1>4, <1>5, <1>6, <1>7, <1>8 DEF TaskMoves, Goal
<1> QED BY <1>9 DEF Goal

\* A task that was going to run again still is.
LEMMA UsefulNext ==
  ASSUME SafetyInv, WakeInv, [Next]_vars, NoUB',
         NEW t \in spawned' \ orphaned', depth'[t] > 0
  PROVE  Useful(t)'
<1>0. /\ m_tasks \in Seq(Tasks) /\ spawned \subseteq Tasks
      /\ \A w \in Threads : pc[w] \in HoldLabels => p_task[w] \in Tasks
  BY Held
<1>1. CASE Quiet
  <2>1. \A w \in Threads : /\ Pushing(w, t)' <=> Pushing(w, t)
                           /\ Resumes(w, t)' <=> Resumes(w, t)
    BY <1>1 DEF Quiet, Circulation, LoopLabels, Pushing, Resumes, Holds
  <2>2. NoUB
    BY <1>1 DEF Quiet, NoUB, LoopLabels
  <2>3. Useful(t)
    BY <1>1, <2>2 DEF Quiet, WakeInv, Circulation
  <2> QED BY <1>1, <2>1, <2>3 DEF Quiet, Circulation, Useful, Queued, Pending
<1>2. ASSUME NEW u \in Tasks, add(u),
             UNCHANGED <<depth, parked, m_timers, armed, orphaned, pc, p_task, result,
                         events, target>>
      PROVE  Useful(t)'
  <2>1. m_tasks' = Append(m_tasks, u) /\ spawned' = spawned \cup {u}
    BY <1>2 DEF add
  <2>2. /\ \A i \in DOMAIN m_tasks : i \in DOMAIN m_tasks' /\ m_tasks'[i] = m_tasks[i]
        /\ m_tasks'[Len(m_tasks) + 1] = u /\ Len(m_tasks) + 1 \in DOMAIN m_tasks'
    BY <1>0, <1>2, <2>1
  <2>3. CASE t = u
    BY <2>2, <2>3 DEF Useful, Queued
  <2>4. CASE t # u
    <3>1. Useful(t)
      BY <1>2, <2>1, <2>4 DEF WakeInv, NoUB
    <3>2. Queued(t) => Queued(t)'
      BY <2>2 DEF Queued
    <3>3. \A w \in Threads : /\ Pushing(w, t)' <=> Pushing(w, t)
                             /\ Resumes(w, t)' <=> Resumes(w, t)
      BY <1>2 DEF Pushing, Resumes, Holds
    <3> QED BY <1>2, <3>1, <3>2, <3>3 DEF Useful, Pending
  <2> QED BY <2>3, <2>4
<1>3. ASSUME NEW w \in Threads, TaskMoves(w) PROVE Useful(t)'
  <2>1. /\ t \in Tasks /\ t \in spawned \ orphaned /\ t \notin orphaned' /\ depth[t] > 0
        /\ pc[w] # "ub"
    <3>1. t \in Tasks
      BY TypeStep DEF TypeOK
    <3> QED BY <1>3, <3>1, FrameSteps
  <2>2. Useful(t)
    <3>1. NoUB
      BY <1>3, <2>1, OthersSame DEF NoUB
    <3> QED BY <2>1, <3>1 DEF WakeInv
  <2>3. CASE Pending(t)
    BY <1>3, <2>1, <2>3, PendingNext DEF WakeInv, Useful
  <2>4. CASE Queued(t)
    BY <1>3, <2>1, <2>4, QueuedNext DEF Useful
  <2>5. ASSUME NEW v \in Threads, Pushing(v, t) PROVE Useful(t)'
    <3>1. CASE v = w
      BY <1>3, <2>5, <3>1, PushingNext DEF Useful
    <3>2. CASE v # w
      <4>1. Pushing(v, t)'
        BY <1>3, <2>5, <3>2, OthersSame DEF Pushing
      <4> QED BY <4>1 DEF Useful
    <3> QED BY <3>1, <3>2
  <2>6. ASSUME NEW v \in Threads, Resumes(v, t) PROVE Useful(t)'
    <3>1. CASE v = w
      BY <1>3, <2>1, <2>6, <3>1, ResumesNext
    <3>2. CASE v # w /\ parked'[t] \in {parked[t], "none"}
      <4>1. Resumes(v, t)'
        BY <1>3, <2>6, <3>2, OthersSame DEF Resumes, Holds
      <4> QED BY <4>1 DEF Useful
    <3>3. CASE Arms(w, t)'
      <4>1. Resumes(w, t)'
        BY <3>3 DEF Arms, Resumes, Holds
      <4> QED BY <4>1 DEF Useful
    <3>4. ASSUME NEW f \in UsesFd[t], Accept(w, f), p_task[w] = t PROVE Useful(t)'
      <4>1. f \in Fds /\ armed \in [Fds -> Tasks \cup {None}]
        BY <2>1, ReactorAssumption DEF SafetyInv, TypeOK
      <4>2. armed'[f] = t
        BY <2>1, <3>4, <4>1 DEF Accept, EpollCtl
      <4> QED BY <4>1, <4>2 DEF Useful, Pending
    <3> QED BY <1>3, <2>1, <3>1, <3>2, <3>3, <3>4, FrameSteps
  <2> QED BY <2>2, <2>3, <2>4, <2>5, <2>6 DEF Useful
<1> QED BY <1>1, <1>2, <1>3, StepKinds

\* A task that is waiting has something that will store kRun, and a task
\* that is not done something that will make it run again, unless its timer
\* or registration was thrown away.
THEOREM WakeInvariant == Spec => []WakeInv
<1>1. Init => WakeInv
  BY ReactorAssumption DEF Init, WakeInv, EventsTaken, ParkedBody, Awaited
<1>2. SafetyInv /\ WakeInv /\ [Next]_vars => WakeInv'
  <2> SUFFICES ASSUME SafetyInv, WakeInv, [Next]_vars PROVE WakeInv'
    OBVIOUS
  <2>1. EventsTaken' /\ ParkedBody'
    BY EventsTakenNext, ParkedBodyNext DEF WakeInv
  <2>2. \A t \in Tasks \ orphaned' : Awaited(t)'
    BY AwaitedNext
  <2>3. NoUB' => \A t \in spawned' \ orphaned' : depth'[t] > 0 => Useful(t)'
    BY UsefulNext
  <2> QED BY <2>1, <2>2, <2>3 DEF WakeInv
<1> QED BY <1>1, <1>2, SafetyInvariant, PTL DEF Spec

\* wait(), the registration, the suspension and wake() lose no task with any
\* number of threads: one that is not done is queued, held, timed, registered
\* or in the hands of a thread that is waking it, unless std::set::insert or
\* epoll_ctl has discarded what it waits for, or accept() and connect() have
\* overwritten its kRun.
THEOREM NoTaskIsLost == Spec => []NoLostWakeup
<1>1. SafetyInv /\ WakeInv => NoLostWakeup
  <2> SUFFICES ASSUME SafetyInv, WakeInv, NoUB, NEW t \in spawned \ orphaned, depth[t] > 0
               PROVE  Tokens(t) # {}
    BY DEF NoLostWakeup
  <2>1. Useful(t)
    BY DEF WakeInv
  <2>2. ASSUME NEW w \in Threads, Resumes(w, t) \/ Pushing(w, t) PROVE Tokens(t) # {}
    <3>1. <<"thread", w>> \in Tokens(t) \/ <<"push", w>> \in Tokens(t)
      BY <2>2 DEF Resumes, Tokens
    <3> QED BY <3>1
  <2>3. ASSUME NEW i \in DOMAIN m_tasks, m_tasks[i] = t PROVE Tokens(t) # {}
    <3>1. <<"queue", i>> \in Tokens(t)
      BY <2>3 DEF Tokens
    <3> QED BY <3>1
  <2>4. ASSUME NEW e \in m_timers, e.task = t PROVE Tokens(t) # {}
    <3>1. <<"timer", e.when>> \in Tokens(t)
      BY <2>4 DEF Tokens
    <3> QED BY <3>1
  <2>5. ASSUME NEW f \in Fds, armed[f] = t PROVE Tokens(t) # {}
    <3>1. <<"armed", f>> \in Tokens(t)
      BY <2>5 DEF Tokens
    <3> QED BY <3>1
  <2>6. ASSUME NEW w \in Threads, NEW f \in Fds, <<f, t>> \in events[w]
        PROVE  Tokens(t) # {}
    <3>1. <<"event", <<w, f>>>> \in Tokens(t)
      BY <2>6 DEF Tokens
    <3> QED BY <3>1
  <2> QED BY <2>1, <2>2, <2>3, <2>4, <2>5, <2>6 DEF Useful, Queued, Pending
<1> QED BY <1>1, SafetyInvariant, WakeInvariant, PTL
=============================================================================
