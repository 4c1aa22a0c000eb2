--------------------------- MODULE ReactorProofs ---------------------------
(***************************************************************************)
(* Theorems about Reactor, for every number of threads, tasks and          *)
(* descriptors.                                                            *)
(*                                                                         *)
(* SafetyInv is inductive.  Its parts depend on each other: a step keeps   *)
(* the types only because p_task is a spawned task wherever it is used     *)
(* (OnlySpawned) and because Return finds a frame (OneExecutor);           *)
(* m_active_tasks is complete (ActiveUntilDone) only because nobody leaves *)
(* a frame of a task that another thread executes (OneExecutor).  One      *)
(* lemma per part, one step per action.                                    *)
(***************************************************************************)
EXTENDS Reactor, TLAPS

\* What Append and Tail do to the elements of a queue.
LEMMA QueueAppend ==
  ASSUME NEW T, NEW S, NEW q \in Seq(T), NEW x \in S,
         \A i \in DOMAIN q : q[i] \in S
  PROVE  \A i \in DOMAIN Append(q, x) : Append(q, x)[i] \in S
<1>1. DOMAIN Append(q, x) = 1 .. Len(q) + 1
  OBVIOUS
<1>2. \A i \in 1 .. Len(q) : Append(q, x)[i] = q[i] /\ i \in DOMAIN q
  OBVIOUS
<1>3. Append(q, x)[Len(q) + 1] = x
  OBVIOUS
<1> QED
  BY <1>1, <1>2, <1>3

\* A queue without its first element has no element that it had not.
LEMMA QueueTail ==
  ASSUME NEW T, NEW S, NEW q \in Seq(T), q # <<>>,
         \A i \in DOMAIN q : q[i] \in S
  PROVE  \A i \in DOMAIN Tail(q) : Tail(q)[i] \in S
<1>1. DOMAIN Tail(q) = 1 .. Len(q) - 1
  OBVIOUS
<1>2. \A i \in 1 .. Len(q) - 1 : Tail(q)[i] = q[i + 1] /\ i + 1 \in DOMAIN q
  OBVIOUS
<1> QED
  BY <1>1, <1>2

\* Every step keeps the variables in their types.  The other parts of the
\* invariant say that p_task and target are tasks where a step uses them, and
\* that Return finds a frame to leave.
LEMMA TypeStep ==
  ASSUME SafetyInv, [Next]_vars
  PROVE  TypeOK'
<1> USE ReactorAssumption DEF SafetyInv, TypeOK, Labels, BodyLabels, HoldLabels,
                              schedVars, taskVars, timerVars, epollVars, localVars,
                              vars, Goto
<1>1. ASSUME NEW t \in Roots, SpawnRoot(t) PROVE TypeOK'
  <2>1. m_tasks' \in Seq(Tasks)
    BY <1>1 DEF SpawnRoot, add
  <2> QED
    BY <1>1, <2>1 DEF SpawnRoot, add
<1>2. CASE wait_for_all
  BY <1>2 DEF wait_for_all, OnlySpawned, OneExecutor
<1>3. CASE Destroy
  BY <1>3 DEF Destroy, OnlySpawned, OneExecutor
<1>4. CASE Join
  BY <1>4 DEF Join, OnlySpawned, OneExecutor
<1>5. ASSUME NEW w \in Threads, CheckActive(w) PROVE TypeOK'
  BY <1>5 DEF CheckActive, OnlySpawned, OneExecutor
<1>6. ASSUME NEW w \in Threads, ReadClock(w) PROVE TypeOK'
  BY <1>6 DEF ReadClock, OnlySpawned, OneExecutor
<1>7. ASSUME NEW w \in Threads, LockTimers(w) PROVE TypeOK'
  BY <1>7 DEF LockTimers, OnlySpawned, OneExecutor
<1>8. ASSUME NEW w \in Threads, NEW e \in m_timers, WakeTimer(w, e) PROVE
       TypeOK'
  BY <1>8 DEF WakeTimer, SetRun, OnlySpawned, OneExecutor
<1>9. ASSUME NEW w \in Threads, PushTimer(w) PROVE TypeOK'
  <2>1. m_tasks' \in Seq(Tasks)
    BY <1>9 DEF PushTimer, schedule, OnlySpawned
  <2> QED
    BY <1>9, <2>1 DEF PushTimer
<1>10. ASSUME NEW w \in Threads, EndDelay(w) PROVE TypeOK'
  BY <1>10 DEF EndDelay, OnlySpawned, OneExecutor
<1>11. ASSUME NEW w \in Threads, ChooseWait(w) PROVE TypeOK'
  BY <1>11 DEF ChooseWait, OnlySpawned, OneExecutor
<1>12. ASSUME NEW w \in Threads, NEW E \in SUBSET ReadyFds, EpollEvents(w, E)
       PROVE TypeOK'
  <2>1. armed' \in [Fds -> Tasks \cup {None}]
    BY <1>12 DEF EpollEvents, Disarm
  <2>2. {<<f, armed[f]>> : f \in E} \subseteq Fds \X Tasks
    BY <1>12 DEF ReadyFds
  <2>3. events' \in [Threads -> SUBSET (Fds \X Tasks)]
    BY <1>12, <2>2 DEF EpollEvents
  <2> QED
    BY <1>12, <2>1, <2>2, <2>3 DEF EpollEvents
<1>13. ASSUME NEW w \in Threads, EpollTimeout(w) PROVE TypeOK'
  BY <1>13 DEF EpollTimeout, OnlySpawned, OneExecutor
<1>14. ASSUME NEW w \in Threads, NEW ev \in events[w], WakeEvent(w, ev) PROVE
       TypeOK'
  BY <1>14 DEF WakeEvent, SetRun, OnlySpawned, OneExecutor
<1>15. ASSUME NEW w \in Threads, PushEvent(w) PROVE TypeOK'
  <2>1. m_tasks' \in Seq(Tasks)
    BY <1>15 DEF PushEvent, schedule, OnlySpawned
  <2> QED
    BY <1>15, <2>1 DEF PushEvent
<1>16. ASSUME NEW w \in Threads, EndEvents(w) PROVE TypeOK'
  BY <1>16 DEF EndEvents, OnlySpawned, OneExecutor
<1>17. ASSUME NEW w \in Threads, CheckRunning(w) PROVE TypeOK'
  BY <1>17 DEF CheckRunning, OnlySpawned, OneExecutor
<1>18. ASSUME NEW w \in Threads, Pop(w) PROVE TypeOK'
  <2>1. m_tasks' \in Seq(Tasks) /\ Head(m_tasks) \in Tasks
    BY <1>18 DEF Pop
  <2> QED
    BY <1>18, <2>1 DEF Pop
<1>19. ASSUME NEW w \in Threads, Drained(w) PROVE TypeOK'
  BY <1>19 DEF Drained, OnlySpawned, OneExecutor
<1>20. ASSUME NEW w \in Threads, IsWaiting(w) PROVE TypeOK'
  BY <1>20 DEF IsWaiting, OnlySpawned, OneExecutor
<1>21. ASSUME NEW w \in Threads, AlreadyDone(w) PROVE TypeOK'
  BY <1>21 DEF AlreadyDone, OnlySpawned, OneExecutor
<1>22. ASSUME NEW w \in Threads, StepWhileWaiting(w) PROVE TypeOK'
  <2>1. p_task[w] \in Tasks
    BY <1>22 DEF StepWhileWaiting, OnlySpawned
  <2> QED
    BY <1>22, <2>1 DEF StepWhileWaiting
<1>23. ASSUME NEW w \in Threads, Resume(w) PROVE TypeOK'
  <2>1. p_task[w] \in Tasks
    BY <1>23 DEF Resume, OnlySpawned
  <2> QED
    BY <1>23, <2>1 DEF Resume
<1>24. ASSUME NEW w \in Threads, ResumeExecuting(w) PROVE TypeOK'
  BY <1>24 DEF ResumeExecuting
<1>25. ASSUME NEW w \in Threads, AwaitTask(w) PROVE TypeOK'
  <2>1. p_task[w] \in Tasks
    BY <1>25 DEF AwaitTask, May, OnlySpawned
  <2>2. budget' \in [Tasks -> 0 .. MaxOps]
    BY <1>25, <2>1 DEF AwaitTask, SpendBudget
  <2>3. depth' \in [Tasks -> 0 .. MaxDepth]
    BY <1>25, <2>1 DEF AwaitTask
  <2> QED
    BY <1>25, <2>1, <2>2, <2>3 DEF AwaitTask, OnlySpawned, OneExecutor
<1>26. ASSUME NEW w \in Threads, NEW t \in Tasks, SpawnTask(w, t) PROVE TypeOK'
  <2>1. m_tasks' \in Seq(Tasks)
    BY <1>26 DEF SpawnTask, add
  <2> QED
    BY <1>26, <2>1 DEF SpawnTask, add
<1>27. ASSUME NEW w \in Threads, Sleep(w) PROVE TypeOK'
  <2>1. budget' \in [Tasks -> 0 .. MaxOps]
    BY <1>27 DEF Sleep, SpendBudget, May, OnlySpawned
  <2> QED
    BY <1>27, <2>1 DEF Sleep, SetWait, OnlySpawned, OneExecutor
<1>28. ASSUME NEW w \in Threads, NEW d \in Delays, StartTimer(w, d) PROVE
       TypeOK'
  <2>1. p_task[w] \in Tasks /\ now + d \in Nat
    <3>1. p_task[w] \in Tasks
      BY <1>28 DEF StartTimer, OnlySpawned
    <3>2. now \in Nat /\ d \in Nat
      OBVIOUS
    <3> QED
      BY <3>1, <3>2
  <2>2. /\ m_timers' \in {m_timers, m_timers \cup {[when |-> now + d, task |-> p_task[w]]}}
        /\ orphaned' \in {orphaned, orphaned \cup {p_task[w]}}
    <3> HIDE DEF SafetyInv, TypeOK
    <3> QED
      BY <1>28 DEF StartTimer, InsertTimer
  <2>3. m_timers' \subseteq [when : Nat, task : Tasks] /\ orphaned' \subseteq Tasks
    BY <2>1, <2>2
  <2> QED
    BY <1>28, <2>1, <2>2, <2>3 DEF StartTimer
<1>29. ASSUME NEW w \in Threads, NEW f \in UsesFd[p_task[w]], Read(w, f) PROVE
       TypeOK'
  <2>1. p_task[w] \in Tasks /\ f \in Fds
    BY <1>29 DEF Read, May, OnlySpawned
  <2>2. budget' \in [Tasks -> 0 .. MaxOps]
    BY <1>29, <2>1 DEF Read, SpendBudget
  <2>3. fd' \in [Tasks -> Fds \cup {None}]
    BY <1>29, <2>1 DEF Read
  <2> QED
    BY <1>29, <2>1, <2>2, <2>3 DEF Read, SetWait
<1>30. ASSUME NEW w \in Threads, NEW f \in UsesFd[p_task[w]], Accept(w, f)
       PROVE TypeOK'
  <2>1. p_task[w] \in Tasks /\ f \in Fds
    BY <1>30 DEF Accept, May, OnlySpawned
  <2>2. budget' \in [Tasks -> 0 .. MaxOps]
    BY <1>30, <2>1 DEF Accept, SpendBudget
  <2>3. armed' \in [Fds -> Tasks \cup {None}]
    BY <1>30, <2>1 DEF Accept, EpollCtl
  <2>4. orphaned' \subseteq Tasks
    BY <1>30, <2>1 DEF Accept, EpollCtl
  <2> QED
    BY <1>30, <2>1, <2>2, <2>3, <2>4 DEF Accept
<1>31. ASSUME NEW w \in Threads, ArmFd(w) PROVE TypeOK'
  <2>1. p_task[w] \in Tasks /\ fd[p_task[w]] \in Fds
    BY <1>31 DEF ArmFd, OnlySpawned, OneExecutor
  <2>2. armed' \in [Fds -> Tasks \cup {None}]
    BY <1>31, <2>1 DEF ArmFd, EpollCtl
  <2>3. orphaned' \subseteq Tasks
    BY <1>31, <2>1 DEF ArmFd, EpollCtl
  <2> QED
    BY <1>31, <2>1, <2>2, <2>3 DEF ArmFd
<1>32. ASSUME NEW w \in Threads, LateWait(w) PROVE TypeOK'
  BY <1>32 DEF LateWait, SetWait, OnlySpawned, OneExecutor
<1>33. ASSUME NEW w \in Threads, NEW t \in spawned, Get(w, t) PROVE TypeOK'
  <2>1. budget' \in [Tasks -> 0 .. MaxOps]
    BY <1>33, SMTT(30) DEF Get, SpendBudget, May, OnlySpawned
  <2> QED
    BY <1>33, <2>1 DEF Get, OnlySpawned, OneExecutor
<1>34. ASSUME NEW w \in Threads, GetReturns(w) PROVE TypeOK'
  BY <1>34 DEF GetReturns, OnlySpawned, OneExecutor
<1>35. ASSUME NEW w \in Threads, Return(w) PROVE TypeOK'
  <2>1. depth' \in [Tasks -> 0 .. MaxDepth]
    BY <1>35, SMTT(30) DEF Return, OneExecutor, OnlySpawned
  <2>2. result' \in {result, [result EXCEPT ![w] = "kDone"]}
    <3> HIDE DEF SafetyInv, TypeOK
    <3> QED
      BY <1>35 DEF Return
  <2>3. \E l \in {"finish", "suspended", "body"} : pc' = [pc EXCEPT ![w] = l]
    BY <1>35 DEF Return
  <2>4. pc' \in [Threads -> Labels]
    BY <1>35, <2>3
  <2>5. curr' \in [Threads -> 0 .. MaxDepth]
    BY <1>35 DEF Return, OneExecutor, OnlySpawned
  <2> QED
    BY <1>35, <2>1, <2>2, <2>3, <2>4, <2>5 DEF Return
<1>36. ASSUME NEW w \in Threads, Suspend(w) PROVE TypeOK'
  BY <1>36 DEF Suspend, OnlySpawned, OneExecutor
<1>37. ASSUME NEW w \in Threads, ReadState(w) PROVE TypeOK'
  <2>1. p_task[w] \in Tasks
    BY <1>37 DEF ReadState, OnlySpawned
  <2>2. result' \in [Threads -> {"kRun", "kWait", "kDone"}]
    BY <1>37, <2>1 DEF ReadState
  <2> QED
    BY <1>37, <2>2 DEF ReadState
<1>38. ASSUME NEW w \in Threads, Finish(w) PROVE TypeOK'
  <2>1. m_tasks' \in Seq(Tasks)
    BY <1>38 DEF Finish, Requeue, OnlySpawned
  <2> QED
    BY <1>38, <2>1 DEF Finish, Retire
<1>39. CASE Tick
  <2>1. now' \in Nat
    BY <1>39 DEF Tick
  <2> QED
    BY <1>39, <2>1 DEF Tick
<1>40. ASSUME NEW f \in Fds, BecomeReady(f) PROVE TypeOK'
  BY <1>40 DEF BecomeReady, OnlySpawned, OneExecutor
<1>41. CASE Terminated
  BY <1>41 DEF Terminated, OnlySpawned, OneExecutor
<1>42. CASE UNCHANGED vars
  BY <1>42 DEF OnlySpawned, OneExecutor
<1>43. ASSUME NEW w \in Threads, FrameReturned(w) PROVE TypeOK'
  <2>1. result' \in {result, [result EXCEPT ![w] = "kDone"]}
    <3> HIDE DEF SafetyInv, TypeOK
    <3> QED
      BY <1>43 DEF FrameReturned
  <2>2. curr' \in [Threads -> 0 .. MaxDepth]
    BY <1>43 DEF FrameReturned
  <2>3. PICK l \in {"finish", "ub"} : pc' = [pc EXCEPT ![w] = l]
    BY <1>43 DEF FrameReturned
  <2>4. pc' \in [Threads -> Labels]
    BY <2>3
  <2> QED
    BY <1>43, <2>1, <2>2, <2>4 DEF FrameReturned
<1>44. ASSUME NEW w \in Threads, TestWaiting(w) PROVE TypeOK'
  <2>1. p_task[w] \in Tasks
    BY <1>44 DEF TestWaiting, OnlySpawned
  <2> QED
    BY <1>44, <2>1 DEF TestWaiting
<1>45. ASSUME NEW w \in Threads, NotDone(w) PROVE TypeOK'
  <2>1. curr' \in [Threads -> 0 .. MaxDepth]
    BY <1>45 DEF NotDone
  <2> QED
    BY <1>45, <2>1 DEF NotDone
<1> QED
  BY <1>1, <1>2, <1>3, <1>4, <1>5, <1>6, <1>7, <1>8, <1>9, <1>10, <1>11, <1>12,
       <1>13, <1>14, <1>15, <1>16, <1>17, <1>18, <1>19, <1>20, <1>21, <1>22,
       <1>23, <1>24, <1>25, <1>26, <1>27, <1>28, <1>29, <1>30, <1>31, <1>32,
       <1>33, <1>34, <1>35, <1>36, <1>37, <1>38, <1>39, <1>40, <1>41, <1>42,
       <1>43, <1>44, <1>45 DEF Next, MainStep, ThreadStep, RunStep, TaskStep, EnvStep

\* What a step puts into the queue, the timers or the epoll set is a task
\* that add() has seen.
LEMMA OnlySpawnedStep ==
  ASSUME SafetyInv, [Next]_vars
  PROVE  OnlySpawned'
<1> USE ReactorAssumption DEF SafetyInv, TypeOK, Labels, BodyLabels, HoldLabels,
                              schedVars, taskVars, timerVars, epollVars, localVars,
                              vars, Goto
<1>1. CASE wait_for_all \/ Destroy \/ Join
  BY <1>1 DEF wait_for_all, Destroy, Join, OnlySpawned
<1>2. ASSUME NEW w \in Threads,
              CheckActive(w) \/ ReadClock(w) \/ LockTimers(w) \/ EndDelay(w)
              \/ ChooseWait(w) \/ EpollTimeout(w) \/ EndEvents(w)
              \/ CheckRunning(w) \/ Drained(w)
       PROVE  OnlySpawned'
  <2>1. PICK l \in {"returned", "delay", "lock", "timers", "idle", "poll",
                    "running", "process", "check"} : pc' = [pc EXCEPT ![w] = l]
    BY <1>2 DEF CheckActive, ReadClock, LockTimers, EndDelay, ChooseWait,
         EpollTimeout, EndEvents, CheckRunning, Drained
  <2>2. UNCHANGED <<schedVars, m_state, depth, m_timers, armed, p_task, target,
                    events>>
    BY <1>2 DEF CheckActive, ReadClock, LockTimers, EndDelay, ChooseWait,
         EpollTimeout, EndEvents, CheckRunning, Drained
  <2> QED
    BY <2>1, <2>2 DEF OnlySpawned
<1>3. ASSUME NEW w \in Threads,
              IsWaiting(w) \/ AlreadyDone(w) \/ StepWhileWaiting(w)
              \/ TestWaiting(w) \/ NotDone(w)
              \/ Suspend(w) \/ ReadState(w) \/ GetReturns(w)
              \/ ResumeExecuting(w) \/ FrameReturned(w)
       PROVE  OnlySpawned'
  <2>1. PICK l \in {"process", "step", "resume", "finish", "suspended", "load",
                    "body", "ub"} :
          pc' = [pc EXCEPT ![w] = l]
    BY <1>3 DEF IsWaiting, AlreadyDone, StepWhileWaiting, Suspend, ReadState,
         GetReturns, ResumeExecuting, FrameReturned, TestWaiting, NotDone
  <2>2. UNCHANGED <<schedVars, m_state, depth, m_timers, armed, p_task, target,
                    events>>
    BY <1>3 DEF IsWaiting, AlreadyDone, StepWhileWaiting, Suspend, ReadState,
         GetReturns, ResumeExecuting, FrameReturned, TestWaiting, NotDone
  <2>3. pc[w] \in HoldLabels
    BY <1>3 DEF IsWaiting, AlreadyDone, StepWhileWaiting, Suspend, ReadState,
         GetReturns, ResumeExecuting, FrameReturned, TestWaiting, NotDone
  <2> QED
    BY <2>1, <2>2, <2>3 DEF OnlySpawned
<1>4. ASSUME NEW t \in Roots, SpawnRoot(t) PROVE OnlySpawned'
  <2>1. \A i \in DOMAIN m_tasks : m_tasks[i] \in spawned'
    BY <1>4 DEF SpawnRoot, add, OnlySpawned
  <2>2. \A i \in DOMAIN m_tasks' : m_tasks'[i] \in spawned'
    BY <1>4, <2>1, QueueAppend DEF SpawnRoot, add
  <2> QED
    BY <1>4, <2>1, <2>2 DEF SpawnRoot, add, OnlySpawned
<1>5. ASSUME NEW w \in Threads, NEW e \in m_timers, WakeTimer(w, e) PROVE
       OnlySpawned'
  BY <1>5 DEF WakeTimer, SetRun, OnlySpawned
<1>6. ASSUME NEW w \in Threads, PushTimer(w) PROVE OnlySpawned'
  <2>1. \A i \in DOMAIN m_tasks' : m_tasks'[i] \in spawned'
    BY <1>6, QueueAppend DEF PushTimer, schedule, OnlySpawned
  <2> QED
    BY <1>6, <2>1 DEF PushTimer, OnlySpawned
<1>7. ASSUME NEW w \in Threads, NEW E \in SUBSET ReadyFds, EpollEvents(w, E)
       PROVE OnlySpawned'
  BY <1>7 DEF EpollEvents, Disarm, ReadyFds, OnlySpawned
<1>8. ASSUME NEW w \in Threads, NEW ev \in events[w], WakeEvent(w, ev) PROVE
       OnlySpawned'
  BY <1>8 DEF WakeEvent, SetRun, OnlySpawned
<1>9. ASSUME NEW w \in Threads, PushEvent(w) PROVE OnlySpawned'
  <2>1. \A i \in DOMAIN m_tasks' : m_tasks'[i] \in spawned'
    BY <1>9, QueueAppend DEF PushEvent, schedule, OnlySpawned
  <2> QED
    BY <1>9, <2>1 DEF PushEvent, OnlySpawned
<1>10. ASSUME NEW w \in Threads, Pop(w) PROVE OnlySpawned'
  <2>1. Head(m_tasks) \in spawned
    BY <1>10 DEF Pop, OnlySpawned
  <2>2. \A i \in DOMAIN m_tasks' : m_tasks'[i] \in spawned'
    BY <1>10, QueueTail DEF Pop, OnlySpawned
  <2> QED
    BY <1>10, <2>1, <2>2 DEF Pop, OnlySpawned
<1>11. ASSUME NEW w \in Threads, Resume(w) PROVE OnlySpawned'
  BY <1>11 DEF Resume, Resumable, OnlySpawned
<1>12. ASSUME NEW w \in Threads, AwaitTask(w) PROVE OnlySpawned'
  BY <1>12 DEF AwaitTask, May, SpendBudget, OnlySpawned
<1>13. ASSUME NEW w \in Threads, NEW t \in Tasks, SpawnTask(w, t) PROVE
       OnlySpawned'
  <2>1. \A i \in DOMAIN m_tasks : m_tasks[i] \in spawned'
    BY <1>13 DEF SpawnTask, add, OnlySpawned
  <2>2. \A i \in DOMAIN m_tasks' : m_tasks'[i] \in spawned'
    BY <1>13, <2>1, QueueAppend DEF SpawnTask, add
  <2> QED
    BY <1>13, <2>1, <2>2 DEF SpawnTask, May, add, OnlySpawned
<1>14. ASSUME NEW w \in Threads, Sleep(w) PROVE OnlySpawned'
  BY <1>14 DEF Sleep, May, SpendBudget, SetWait, OnlySpawned
<1>15. ASSUME NEW w \in Threads, NEW d \in Delays, StartTimer(w, d) PROVE
       OnlySpawned'
  <2>1. \A e \in m_timers' : e.task \in spawned
    <3>1. m_timers' \in {m_timers, m_timers \cup {[when |-> now + d, task |-> p_task[w]]}}
      <4> HIDE DEF SafetyInv, TypeOK
      <4> QED
        BY <1>15 DEF StartTimer, InsertTimer
    <3>2. p_task[w] \in spawned
      BY <1>15 DEF StartTimer, OnlySpawned
    <3> QED
      BY <3>1, <3>2 DEF OnlySpawned
  <2> QED
    BY <1>15, <2>1 DEF StartTimer, OnlySpawned
<1>16. ASSUME NEW w \in Threads, NEW f \in UsesFd[p_task[w]], Read(w, f) PROVE
       OnlySpawned'
  BY <1>16 DEF Read, May, SpendBudget, SetWait, OnlySpawned
<1>17. ASSUME NEW w \in Threads, NEW f \in UsesFd[p_task[w]], Accept(w, f)
       PROVE OnlySpawned'
  <2>1. \A g \in Fds : armed'[g] \in spawned \cup {None}
    <3>1. armed' \in {armed, [armed EXCEPT ![f] = p_task[w]]}
      <4> HIDE DEF SafetyInv, TypeOK
      <4> QED
        BY <1>17 DEF Accept, EpollCtl
    <3>2. p_task[w] \in spawned
      BY <1>17 DEF Accept, May, OnlySpawned
    <3>3. OnlySpawned /\ armed \in [Fds -> Tasks \cup {None}]
      OBVIOUS
    <3> QED
      <4> HIDE DEF SafetyInv, TypeOK
      <4> QED
        BY <3>1, <3>2, <3>3 DEF OnlySpawned
  <2> QED
    BY <1>17, <2>1 DEF Accept, May, SpendBudget, OnlySpawned
<1>18. ASSUME NEW w \in Threads, ArmFd(w) PROVE OnlySpawned'
  <2>1. \A g \in Fds : armed'[g] \in spawned \cup {None}
    BY <1>18 DEF ArmFd, May, EpollCtl, OnlySpawned
  <2> QED
    BY <1>18, <2>1 DEF ArmFd, OnlySpawned
<1>19. ASSUME NEW w \in Threads, NEW t \in spawned, Get(w, t) PROVE
       OnlySpawned'
  BY <1>19 DEF Get, May, SpendBudget, OnlySpawned
<1>20. ASSUME NEW w \in Threads, Return(w) PROVE OnlySpawned'
  <2>1. PICK l \in {"finish", "suspended", "body"} : pc' = [pc EXCEPT ![w] = l]
    BY <1>20 DEF Return
  <2>2. \A t \in Tasks \ spawned : depth'[t] = depth[t]
    BY <1>20 DEF Return, OnlySpawned
  <2> QED
    BY <1>20, <2>1, <2>2 DEF Return, OnlySpawned
<1>21. ASSUME NEW w \in Threads, Finish(w) PROVE OnlySpawned'
  <2>1. \A i \in DOMAIN m_tasks' : m_tasks'[i] \in spawned'
    BY <1>21, QueueAppend DEF Finish, Requeue, OnlySpawned
  <2> QED
    BY <1>21, <2>1 DEF Finish, Retire, OnlySpawned
<1>22. CASE Tick
  BY <1>22 DEF Tick, OnlySpawned
<1>23. ASSUME NEW f \in Fds, BecomeReady(f) PROVE OnlySpawned'
  BY <1>23 DEF BecomeReady, OnlySpawned
<1>24. CASE Terminated
  BY <1>24 DEF Terminated, OnlySpawned
<1>25. CASE UNCHANGED vars
  BY <1>25 DEF OnlySpawned
<1>26. ASSUME NEW w \in Threads, LateWait(w) PROVE OnlySpawned'
  BY <1>26 DEF LateWait, SetWait, OnlySpawned
<1> QED
  BY <1>1, <1>2, <1>3, <1>4, <1>5, <1>6, <1>7, <1>8, <1>9, <1>10, <1>11, <1>12,
       <1>13, <1>14, <1>15, <1>16, <1>17, <1>18, <1>19, <1>20, <1>21, <1>22,
       <1>23, <1>24, <1>25, <1>26 DEF Next, MainStep, ThreadStep, RunStep, TaskStep,
       EnvStep

\* A step that moves one thread, leaves p_task alone, ends no frame and does
\* not begin to execute one keeps one executor per task.
LEMMA SameExecutor ==
  ASSUME SafetyInv,
         NEW w \in Threads, NEW l \in Labels,
         pc' = [pc EXCEPT ![w] = l],
         l \in BodyLabels => pc[w] \in BodyLabels,
         p_task' = p_task,
         \A t \in Tasks : depth[t] > 0 => depth'[t] > 0,
         \A t \in Tasks : fd[t] \in Fds => fd'[t] \in Fds,
         l = "armFd" => fd'[p_task[w]] \in Fds
  PROVE  OneExecutor'
<1>1. pc \in [Threads -> Labels]
  BY DEF SafetyInv, TypeOK
<1>2. \A v \in Threads : pc[v] \in BodyLabels => p_task[v] \in Tasks
  BY DEF SafetyInv, TypeOK, OnlySpawned, HoldLabels
<1>3. \A v \in Threads : pc'[v] = (IF v = w THEN l ELSE pc[v])
  BY <1>1
<1>4. \A v \in Threads : pc'[v] \in BodyLabels => pc[v] \in BodyLabels
  BY <1>3
<1>5. OneExecutor
  BY DEF SafetyInv
<1>6. \A v \in Threads : pc'[v] = "armFd" => fd'[p_task[v]] \in Fds
  BY <1>2, <1>3, <1>5 DEF OneExecutor, BodyLabels
<1> QED
  BY <1>2, <1>4, <1>5, <1>6 DEF OneExecutor

\* The steps a coroutine takes without leaving the thread that executes it.
LEMMA BodyExecutor ==
  ASSUME SafetyInv, NEW w \in Threads,
         \/ AwaitTask(w) \/ Sleep(w) \/ ArmFd(w) \/ LateWait(w)
         \/ GetReturns(w) \/ Suspend(w)
         \/ \E d \in Delays : StartTimer(w, d)
         \/ \E f \in UsesFd[p_task[w]] : Read(w, f) \/ Accept(w, f)
         \/ \E t \in spawned : Get(w, t)
  PROVE  OneExecutor'
<1>1. /\ depth \in [Tasks -> 0 .. MaxDepth] /\ fd \in [Tasks -> Fds \cup {None}]
      /\ MaxDepth \in Nat /\ UsesFd \in [Tasks -> SUBSET Fds]
      /\ pc[w] \in BodyLabels => p_task[w] \in Tasks
  BY ReactorAssumption DEF SafetyInv, TypeOK, OnlySpawned, HoldLabels
<1> USE DEF Labels, BodyLabels, Goto, localVars, taskVars
<1>2. CASE AwaitTask(w)
  <2>1. \A t \in Tasks : depth[t] > 0 => depth'[t] > 0
    BY <1>1, <1>2 DEF AwaitTask, May
  <2> QED
    BY <1>2, <2>1, SameExecutor DEF AwaitTask, May
<1>3. CASE Sleep(w)
  BY <1>3, SameExecutor DEF Sleep, May
<1>4. CASE ArmFd(w)
  BY <1>4, SameExecutor DEF ArmFd
<1>5. CASE LateWait(w)
  BY <1>5, SameExecutor DEF LateWait
<1>6. CASE GetReturns(w)
  BY <1>6, SameExecutor DEF GetReturns
<1>7. CASE Suspend(w)
  BY <1>7, SameExecutor DEF Suspend
<1>8. ASSUME NEW d \in Delays, StartTimer(w, d) PROVE OneExecutor'
  BY <1>8, SameExecutor DEF StartTimer
<1>9. ASSUME NEW f \in UsesFd[p_task[w]], Read(w, f) PROVE OneExecutor'
  BY <1>1, <1>9, SameExecutor DEF Read, May
<1>10. ASSUME NEW f \in UsesFd[p_task[w]], Accept(w, f) PROVE OneExecutor'
  BY <1>1, <1>10, SameExecutor DEF Accept, May
<1>11. ASSUME NEW t \in spawned, Get(w, t) PROVE OneExecutor'
  BY <1>11, SameExecutor DEF Get, May
<1> QED
  BY <1>2, <1>3, <1>4, <1>5, <1>6, <1>7, <1>8, <1>9, <1>10, <1>11

\* A frame is entered in Resume only when nobody executes it, and the depth
\* of a task changes only in the hands of the thread that executes it.
LEMMA OneExecutorStep ==
  ASSUME SafetyInv, [Next]_vars
  PROVE  OneExecutor'
<1> USE ReactorAssumption DEF SafetyInv, TypeOK, Labels, BodyLabels, HoldLabels,
                              schedVars, taskVars, timerVars, epollVars, localVars,
                              vars, Goto
<1>1. CASE wait_for_all \/ Destroy \/ Join
  BY <1>1, SameExecutor DEF wait_for_all, Destroy, Join
<1>2. ASSUME NEW t \in Roots, SpawnRoot(t) PROVE OneExecutor'
  BY <1>2 DEF SpawnRoot, add, OneExecutor, OnlySpawned
<1>3. ASSUME NEW w \in Threads, CheckActive(w) PROVE OneExecutor'
  BY <1>3 DEF CheckActive, OneExecutor, OnlySpawned
<1>4. ASSUME NEW w \in Threads, ReadClock(w) PROVE OneExecutor'
  BY <1>4 DEF ReadClock, OneExecutor, OnlySpawned
<1>5. ASSUME NEW w \in Threads, LockTimers(w) PROVE OneExecutor'
  BY <1>5 DEF LockTimers, OneExecutor, OnlySpawned
<1>6. ASSUME NEW w \in Threads, NEW e \in m_timers, WakeTimer(w, e) PROVE
       OneExecutor'
  BY <1>6 DEF WakeTimer, SetRun, OneExecutor, OnlySpawned
<1>7. ASSUME NEW w \in Threads, PushTimer(w) PROVE OneExecutor'
  BY <1>7 DEF PushTimer, schedule, OneExecutor, OnlySpawned
<1>8. ASSUME NEW w \in Threads, EndDelay(w) PROVE OneExecutor'
  BY <1>8 DEF EndDelay, OneExecutor, OnlySpawned
<1>9. ASSUME NEW w \in Threads, ChooseWait(w) PROVE OneExecutor'
  BY <1>9 DEF ChooseWait, OneExecutor, OnlySpawned
<1>10. ASSUME NEW w \in Threads, NEW E \in SUBSET ReadyFds, EpollEvents(w, E)
       PROVE OneExecutor'
  BY <1>10 DEF EpollEvents, Disarm, ReadyFds, OneExecutor, OnlySpawned
<1>11. ASSUME NEW w \in Threads, EpollTimeout(w) PROVE OneExecutor'
  BY <1>11 DEF EpollTimeout, OneExecutor, OnlySpawned
<1>12. ASSUME NEW w \in Threads, NEW ev \in events[w], WakeEvent(w, ev) PROVE
       OneExecutor'
  BY <1>12 DEF WakeEvent, SetRun, OneExecutor, OnlySpawned
<1>13. ASSUME NEW w \in Threads, PushEvent(w) PROVE OneExecutor'
  BY <1>13 DEF PushEvent, schedule, OneExecutor, OnlySpawned
<1>14. ASSUME NEW w \in Threads, EndEvents(w) PROVE OneExecutor'
  BY <1>14 DEF EndEvents, OneExecutor, OnlySpawned
<1>15. ASSUME NEW w \in Threads, CheckRunning(w) PROVE OneExecutor'
  BY <1>15 DEF CheckRunning, OneExecutor, OnlySpawned
<1>16. ASSUME NEW w \in Threads, Pop(w) PROVE OneExecutor'
  BY <1>16, SMTT(30) DEF Pop, OneExecutor, OnlySpawned
<1>17. ASSUME NEW w \in Threads, Drained(w) PROVE OneExecutor'
  BY <1>17 DEF Drained, OneExecutor, OnlySpawned
<1>18. ASSUME NEW w \in Threads, IsWaiting(w) PROVE OneExecutor'
  BY <1>18 DEF IsWaiting, OneExecutor, OnlySpawned
<1>19. ASSUME NEW w \in Threads, AlreadyDone(w) PROVE OneExecutor'
  BY <1>19 DEF AlreadyDone, OneExecutor, OnlySpawned
<1>20. ASSUME NEW w \in Threads, StepWhileWaiting(w) PROVE OneExecutor'
  BY <1>20 DEF StepWhileWaiting, OneExecutor, OnlySpawned
<1>21. ASSUME NEW w \in Threads, Resume(w) PROVE OneExecutor'
  BY <1>21, SMTT(30) DEF Resume, Resumable, Executing, OneExecutor, OnlySpawned
<1>22. ASSUME NEW w \in Threads, ResumeExecuting(w) PROVE OneExecutor'
  BY <1>22 DEF ResumeExecuting, OneExecutor, OnlySpawned
<1>23. ASSUME NEW w \in Threads, AwaitTask(w) PROVE OneExecutor'
  BY <1>23, BodyExecutor
<1>24. ASSUME NEW w \in Threads, NEW t \in Tasks, SpawnTask(w, t) PROVE
       OneExecutor'
  BY <1>24 DEF SpawnTask, May, add, OneExecutor, OnlySpawned
<1>25. ASSUME NEW w \in Threads, Sleep(w) PROVE OneExecutor'
  BY <1>25, BodyExecutor
<1>26. ASSUME NEW w \in Threads, NEW d \in Delays, StartTimer(w, d) PROVE
       OneExecutor'
  BY <1>26, BodyExecutor
<1>27. ASSUME NEW w \in Threads, NEW f \in UsesFd[p_task[w]], Read(w, f) PROVE
       OneExecutor'
  BY <1>27, BodyExecutor
<1>28. ASSUME NEW w \in Threads, NEW f \in UsesFd[p_task[w]], Accept(w, f)
       PROVE OneExecutor'
  BY <1>28, BodyExecutor
<1>29. ASSUME NEW w \in Threads, ArmFd(w) PROVE OneExecutor'
  BY <1>29, BodyExecutor
<1>30. ASSUME NEW w \in Threads, LateWait(w) PROVE OneExecutor'
  BY <1>30, BodyExecutor
<1>31. ASSUME NEW w \in Threads, NEW t \in spawned, Get(w, t) PROVE
       OneExecutor'
  BY <1>31, BodyExecutor
<1>32. ASSUME NEW w \in Threads, GetReturns(w) PROVE OneExecutor'
  BY <1>32, BodyExecutor
<1>33. ASSUME NEW w \in Threads, Return(w) PROVE OneExecutor'
  <2>1. \A v \in Threads : v # w /\ pc'[v] \in BodyLabels => p_task[v] # p_task[w]
    BY <1>33 DEF Return, OneExecutor
  <2>2. \A v \in Threads : pc'[v] \in BodyLabels => depth'[p_task[v]] > 0
    BY <1>33, <2>1, SMTT(30) DEF Return, OneExecutor, OnlySpawned
  <2>3. PICK l \in {"finish", "suspended", "body"} : pc' = [pc EXCEPT ![w] = l]
    BY <1>33 DEF Return
  <2>4. p_task' = p_task /\ fd' = fd /\ pc[w] = "body"
    BY <1>33 DEF Return
  <2>5. \A v \in Threads : /\ pc'[v] \in BodyLabels => pc[v] \in BodyLabels
                           /\ pc'[v] = "armFd" => pc[v] = "armFd"
    BY <2>3, <2>4
  <2> QED
    <3> HIDE DEF TypeOK, BodyLabels
    <3> QED
      BY <2>2, <2>4, <2>5 DEF OneExecutor
<1>34. ASSUME NEW w \in Threads, Suspend(w) PROVE OneExecutor'
  BY <1>34, BodyExecutor
<1>35. ASSUME NEW w \in Threads, ReadState(w) PROVE OneExecutor'
  BY <1>35 DEF ReadState, OneExecutor, OnlySpawned
<1>36. ASSUME NEW w \in Threads, Finish(w) PROVE OneExecutor'
  BY <1>36 DEF Finish, Requeue, Retire, OneExecutor, OnlySpawned
<1>37. CASE Tick
  BY <1>37 DEF Tick, OneExecutor, OnlySpawned
<1>38. ASSUME NEW f \in Fds, BecomeReady(f) PROVE OneExecutor'
  BY <1>38 DEF BecomeReady, OneExecutor, OnlySpawned
<1>39. CASE Terminated
  BY <1>39 DEF Terminated, OneExecutor, OnlySpawned
<1>40. CASE UNCHANGED vars
  BY <1>40 DEF OneExecutor, OnlySpawned
<1>41. ASSUME NEW w \in Threads, FrameReturned(w) PROVE OneExecutor'
  <2>1. PICK l \in {"finish", "ub"} : pc' = [pc EXCEPT ![w] = l]
    BY <1>41 DEF FrameReturned
  <2> QED
    BY <1>41, <2>1 DEF FrameReturned, OneExecutor
<1>42. ASSUME NEW w \in Threads, TestWaiting(w) \/ NotDone(w) PROVE OneExecutor'
  BY <1>42, SameExecutor DEF TestWaiting, NotDone
<1> QED
  BY <1>1, <1>2, <1>3, <1>4, <1>5, <1>6, <1>7, <1>8, <1>9, <1>10, <1>11, <1>12,
       <1>13, <1>14, <1>15, <1>16, <1>17, <1>18, <1>19, <1>20, <1>21, <1>22,
       <1>23, <1>24, <1>25, <1>26, <1>27, <1>28, <1>29, <1>30, <1>31, <1>32,
       <1>33, <1>34, <1>35, <1>36, <1>37, <1>38, <1>39, <1>40, <1>41, <1>42
       DEF Next, MainStep, ThreadStep, RunStep, TaskStep, EnvStep

\* Finish erases a task only on kDone, which one_step() reports only for a
\* root frame that has returned; spawn() is called by main() before it waits,
\* or by an executing task, which is itself active.
LEMMA ActiveUntilDoneStep ==
  ASSUME SafetyInv, [Next]_vars
  PROVE  ActiveUntilDone'
<1> USE ReactorAssumption DEF SafetyInv, TypeOK, Labels, BodyLabels, HoldLabels,
                              schedVars, taskVars, timerVars, epollVars, localVars,
                              vars, Goto
<1>1. CASE wait_for_all \/ Destroy \/ Join
  BY <1>1 DEF wait_for_all, Destroy, Join, ActiveUntilDone, OnlySpawned,
       OneExecutor, MainReturned
<1>2. ASSUME NEW w \in Threads,
              CheckActive(w) \/ ReadClock(w) \/ LockTimers(w) \/ EndDelay(w)
              \/ ChooseWait(w) \/ EpollTimeout(w) \/ EndEvents(w)
              \/ CheckRunning(w) \/ Drained(w)
       PROVE  ActiveUntilDone'
  BY <1>2, SMTT(30) DEF CheckActive, ReadClock, LockTimers, EndDelay, ChooseWait,
       EpollTimeout, EndEvents, CheckRunning, Drained, ActiveUntilDone,
       OnlySpawned, OneExecutor, MainReturned
<1>3. ASSUME NEW t \in Roots, SpawnRoot(t) PROVE ActiveUntilDone'
  BY <1>3 DEF SpawnRoot, add, ActiveUntilDone, OnlySpawned, OneExecutor,
       MainReturned
<1>4. ASSUME NEW w \in Threads, NEW e \in m_timers, WakeTimer(w, e) PROVE
       ActiveUntilDone'
  BY <1>4 DEF WakeTimer, SetRun, ActiveUntilDone, OnlySpawned, OneExecutor,
       MainReturned
<1>5. ASSUME NEW w \in Threads, PushTimer(w) PROVE ActiveUntilDone'
  BY <1>5 DEF PushTimer, schedule, ActiveUntilDone, OnlySpawned, OneExecutor,
       MainReturned
<1>6. ASSUME NEW w \in Threads, NEW E \in SUBSET ReadyFds, EpollEvents(w, E)
       PROVE ActiveUntilDone'
  BY <1>6 DEF EpollEvents, Disarm, ReadyFds, ActiveUntilDone, OnlySpawned,
       OneExecutor, MainReturned
<1>7. ASSUME NEW w \in Threads, NEW ev \in events[w], WakeEvent(w, ev) PROVE
       ActiveUntilDone'
  BY <1>7 DEF WakeEvent, SetRun, ActiveUntilDone, OnlySpawned, OneExecutor,
       MainReturned
<1>8. ASSUME NEW w \in Threads, PushEvent(w) PROVE ActiveUntilDone'
  BY <1>8 DEF PushEvent, schedule, ActiveUntilDone, OnlySpawned, OneExecutor,
       MainReturned
<1>9. ASSUME NEW w \in Threads, Pop(w) PROVE ActiveUntilDone'
  BY <1>9, SMTT(30) DEF Pop, ActiveUntilDone, OnlySpawned, OneExecutor,
       MainReturned
<1>10. ASSUME NEW w \in Threads, IsWaiting(w) PROVE ActiveUntilDone'
  BY <1>10 DEF IsWaiting, ActiveUntilDone, OnlySpawned, OneExecutor,
       MainReturned
<1>11. ASSUME NEW w \in Threads, AlreadyDone(w) PROVE ActiveUntilDone'
  BY <1>11 DEF AlreadyDone, ActiveUntilDone, OnlySpawned, OneExecutor,
       MainReturned
<1>12. ASSUME NEW w \in Threads, StepWhileWaiting(w) PROVE ActiveUntilDone'
  BY <1>12 DEF StepWhileWaiting, ActiveUntilDone, OnlySpawned, OneExecutor,
       MainReturned
<1>13. ASSUME NEW w \in Threads, Resume(w) PROVE ActiveUntilDone'
  BY <1>13 DEF Resume, ActiveUntilDone, OnlySpawned, OneExecutor,
       MainReturned
<1>14. ASSUME NEW w \in Threads, ResumeExecuting(w) PROVE ActiveUntilDone'
  BY <1>14 DEF ResumeExecuting, ActiveUntilDone, OnlySpawned,
       OneExecutor, MainReturned
<1>15. ASSUME NEW w \in Threads, AwaitTask(w) PROVE ActiveUntilDone'
  BY <1>15, SMTT(30) DEF AwaitTask, May, SpendBudget, ActiveUntilDone, OnlySpawned,
       OneExecutor, MainReturned
<1>16. ASSUME NEW w \in Threads, NEW t \in Tasks, SpawnTask(w, t) PROVE
       ActiveUntilDone'
  BY <1>16 DEF SpawnTask, May, add, ActiveUntilDone, OnlySpawned, OneExecutor,
       MainReturned
<1>17. ASSUME NEW w \in Threads, Sleep(w) PROVE ActiveUntilDone'
  BY <1>17 DEF Sleep, May, SpendBudget, SetWait, ActiveUntilDone, OnlySpawned,
       OneExecutor, MainReturned
<1>18. ASSUME NEW w \in Threads, NEW d \in Delays, StartTimer(w, d) PROVE
       ActiveUntilDone'
  BY <1>18 DEF StartTimer, InsertTimer, ActiveUntilDone, OnlySpawned,
       OneExecutor, MainReturned
<1>19. ASSUME NEW w \in Threads, NEW f \in UsesFd[p_task[w]], Read(w, f) PROVE
       ActiveUntilDone'
  BY <1>19 DEF Read, May, SpendBudget, SetWait, ActiveUntilDone, OnlySpawned,
       OneExecutor, MainReturned
<1>20. ASSUME NEW w \in Threads, NEW f \in UsesFd[p_task[w]], Accept(w, f)
       PROVE ActiveUntilDone'
  BY <1>20 DEF Accept, May, SpendBudget, EpollCtl, ActiveUntilDone,
       OnlySpawned, OneExecutor, MainReturned
<1>21. ASSUME NEW w \in Threads, ArmFd(w) PROVE ActiveUntilDone'
  BY <1>21 DEF ArmFd, EpollCtl, ActiveUntilDone, OnlySpawned, OneExecutor,
       MainReturned
<1>22. ASSUME NEW w \in Threads, LateWait(w) PROVE ActiveUntilDone'
  BY <1>22 DEF LateWait, SetWait, ActiveUntilDone, OnlySpawned, OneExecutor,
       MainReturned
<1>23. ASSUME NEW w \in Threads, NEW t \in spawned, Get(w, t) PROVE
       ActiveUntilDone'
  BY <1>23 DEF Get, May, SpendBudget, ActiveUntilDone, OnlySpawned,
       OneExecutor, MainReturned
<1>24. ASSUME NEW w \in Threads, GetReturns(w) PROVE ActiveUntilDone'
  BY <1>24 DEF GetReturns, ActiveUntilDone, OnlySpawned, OneExecutor,
       MainReturned
<1>25. ASSUME NEW w \in Threads, Return(w) PROVE ActiveUntilDone'
  BY <1>25, SMTT(30) DEF Return, ActiveUntilDone, OnlySpawned, OneExecutor,
       MainReturned
<1>26. ASSUME NEW w \in Threads, Suspend(w) PROVE ActiveUntilDone'
  BY <1>26 DEF Suspend, ActiveUntilDone, OnlySpawned, OneExecutor, MainReturned
<1>27. ASSUME NEW w \in Threads, ReadState(w) PROVE ActiveUntilDone'
  <2>1. result'[w] \in {"kRun", "kWait"}
    BY <1>27 DEF ReadState, OnlySpawned
  <2> QED
    BY <1>27, <2>1 DEF ReadState, ActiveUntilDone, OnlySpawned, OneExecutor,
         MainReturned
<1>28. ASSUME NEW w \in Threads, Finish(w) PROVE ActiveUntilDone'
  BY <1>28 DEF Finish, Requeue, Retire, ActiveUntilDone, OnlySpawned,
       OneExecutor, MainReturned
<1>29. CASE Tick
  BY <1>29 DEF Tick, ActiveUntilDone, OnlySpawned, OneExecutor, MainReturned
<1>30. ASSUME NEW f \in Fds, BecomeReady(f) PROVE ActiveUntilDone'
  BY <1>30 DEF BecomeReady, ActiveUntilDone, OnlySpawned, OneExecutor,
       MainReturned
<1>31. CASE Terminated
  BY <1>31 DEF Terminated, ActiveUntilDone, OnlySpawned, OneExecutor,
       MainReturned
<1>32. CASE UNCHANGED vars
  BY <1>32 DEF ActiveUntilDone, OnlySpawned, OneExecutor, MainReturned
<1>33. ASSUME NEW w \in Threads, FrameReturned(w) PROVE ActiveUntilDone'
  <2>1. curr[w] = 1 => depth[p_task[w]] = 0
    BY <1>33 DEF FrameReturned, OnlySpawned
  <2>2. PICK l \in {"finish", "ub"} : pc' = [pc EXCEPT ![w] = l]
    BY <1>33 DEF FrameReturned
  <2>3. \A v \in Threads : v # w => result'[v] = result[v]
    BY <1>33 DEF FrameReturned
  <2>4. pc'[w] = "finish" => curr[w] = 1
    BY <1>33 DEF FrameReturned
  <2>5. pc[w] = "suspended" /\ UNCHANGED <<p_task, depth, spawned, m_active_tasks,
                                          m_running>>
    BY <1>33 DEF FrameReturned
  <2> QED
    BY <2>1, <2>2, <2>3, <2>4, <2>5 DEF ActiveUntilDone, MainReturned
<1>34. ASSUME NEW w \in Threads, TestWaiting(w) \/ NotDone(w)
       PROVE  ActiveUntilDone'
  BY <1>34 DEF TestWaiting, NotDone, ActiveUntilDone, OnlySpawned, OneExecutor,
       MainReturned
<1> QED
  BY <1>1, <1>2, <1>3, <1>4, <1>5, <1>6, <1>7, <1>8, <1>9, <1>10, <1>11, <1>12,
       <1>13, <1>14, <1>15, <1>16, <1>17, <1>18, <1>19, <1>20, <1>21, <1>22,
       <1>23, <1>24, <1>25, <1>26, <1>27, <1>28, <1>29, <1>30, <1>31, <1>32,
       <1>33, <1>34 DEF Next, MainStep, ThreadStep, RunStep, TaskStep, EnvStep

\* With one thread, only the environment acts between is_waiting() and
\* curr.resume(), and it leaves m_state alone.
LEMMA ResumeAfterWakeStep ==
  ASSUME SafetyInv, [Next]_vars
  PROVE  ResumeAfterWake'
<1> SUFFICES ASSUME Threads = {Main}, pc'[Main] = "resume"
             PROVE  m_state'[p_task'[Main]] = "kRun"
  BY DEF ResumeAfterWake, SingleThread
<1> USE ReactorAssumption DEF TypeOK, SafetyInv, schedVars, taskVars, timerVars,
                              epollVars, localVars, Goto
<1>1. CASE TestWaiting(Main)
  <2>1. p_task[Main] \in Tasks
    BY <1>1 DEF TestWaiting, OnlySpawned, HoldLabels
  <2> QED
    BY <1>1, <2>1 DEF TestWaiting
<1>2. CASE \/ UNCHANGED vars \/ Tick \/ (\E f \in Fds : BecomeReady(f)) \/ Terminated
           \/ (\E t \in Roots : SpawnRoot(t)) \/ (\E t \in Tasks : SpawnTask(Main, t))
  BY <1>2 DEF vars, Tick, BecomeReady, Terminated, SpawnRoot, SpawnTask,
              ResumeAfterWake, SingleThread
<1>3. CASE wait_for_all \/ Destroy \/ Join
  BY <1>3 DEF wait_for_all, Destroy, Join
<1>4. CASE RunStep(Main)
  BY <1>4 DEF RunStep, CheckActive, ReadClock, LockTimers, WakeTimer, PushTimer,
              EndDelay, ChooseWait, EpollEvents, EpollTimeout, WakeEvent,
              PushEvent, EndEvents, CheckRunning
<1>5. CASE \/ Pop(Main) \/ Drained(Main) \/ IsWaiting(Main) \/ AlreadyDone(Main)
           \/ StepWhileWaiting(Main) \/ Resume(Main) \/ ResumeExecuting(Main)
           \/ Suspend(Main) \/ NotDone(Main) \/ ReadState(Main)
           \/ FrameReturned(Main) \/ Finish(Main)
  BY <1>5 DEF Pop, Drained, IsWaiting, AlreadyDone, StepWhileWaiting, Resume,
              ResumeExecuting, Suspend, NotDone, ReadState, FrameReturned, Finish
<1>6. CASE \/ AwaitTask(Main) \/ Sleep(Main) \/ ArmFd(Main) \/ LateWait(Main)
           \/ GetReturns(Main) \/ Return(Main)
           \/ (\E d \in Delays : StartTimer(Main, d))
           \/ (\E f \in UsesFd[p_task[Main]] : Read(Main, f) \/ Accept(Main, f))
           \/ (\E t \in spawned : Get(Main, t))
  BY <1>6 DEF AwaitTask, Sleep, ArmFd, LateWait, GetReturns, Return, StartTimer,
              Read, Accept, Get
<1> QED
  BY <1>1, <1>2, <1>3, <1>4, <1>5, <1>6
  DEF Next, MainStep, ThreadStep, TaskStep, EnvStep

\* SafetyInv holds initially and is kept by every step.
LEMMA InitSafety == Init => SafetyInv
<1> SUFFICES ASSUME Init PROVE SafetyInv
  OBVIOUS
<1> USE ReactorAssumption DEF Init, Labels, BodyLabels
<1>1. TypeOK
  BY DEF TypeOK
<1>2. OnlySpawned /\ OneExecutor
  BY DEF OnlySpawned, OneExecutor, HoldLabels
<1>3. ActiveUntilDone
  BY DEF ActiveUntilDone, MainReturned
<1>4. ResumeAfterWake
  BY DEF ResumeAfterWake
<1> QED
  BY <1>1, <1>2, <1>3, <1>4 DEF SafetyInv

\* The inductive invariant of the reactor, for any number of threads: only
\* spawned tasks circulate, a coroutine has one executor, and a task stays in
\* m_active_tasks until its root frame has returned.
THEOREM SafetyInvariant == Spec => []SafetyInv
<1>1. Init => SafetyInv
  BY InitSafety
<1>2. SafetyInv /\ [Next]_vars => SafetyInv'
  BY TypeStep, OnlySpawnedStep, OneExecutorStep, ActiveUntilDoneStep,
     ResumeAfterWakeStep
  DEF SafetyInv
<1> QED
  BY <1>1, <1>2, PTL DEF Spec

\* Type correctness of the reactor.
THEOREM TypeCorrect == Spec => []TypeOK
<1>1. SafetyInv => TypeOK
  BY DEF SafetyInv
<1> QED
  BY <1>1, SafetyInvariant, PTL

\* wait_for_all() returns only when every spawned task is done, with any
\* number of workers and whatever the tasks do.
THEOREM WaitForAllIsComplete == Spec => []WaitForAllComplete
<1>1. SafetyInv => WaitForAllComplete
  <2> SUFFICES ASSUME SafetyInv, MainReturned, NEW t \in spawned
               PROVE  depth[t] = 0
    BY DEF WaitForAllComplete
  <2>1. m_active_tasks = {} /\ depth[t] \in Nat
    BY DEF SafetyInv, ActiveUntilDone, TypeOK
  <2> QED
    BY <2>1 DEF SafetyInv, ActiveUntilDone
<1> QED
  BY <1>1, SafetyInvariant, PTL

-----------------------------------------------------------------------------
(***************************************************************************)
(* Reactor implements TaskPool, for every number of threads.               *)
(*                                                                         *)
(* A step of the pool is a change of Status(t) for one task t: entering a  *)
(* frame (Resume) starts t, leaving it (Suspend, Return) yields, blocks or *)
(* completes it, and the store of kRun in wake() is the pool's Wake when t *)
(* was waiting.  Every other step leaves all of Status and MainReturned    *)
(* alone.  SafetyInv supplies what the mapping needs: one executor per     *)
(* task, untouched unspawned tasks, and an empty m_active_tasks only when  *)
(* every spawned task is done.                                             *)
(***************************************************************************)

\* Labels of main() after wait_for_all().
ReturnLabels == {"returned", "joining", "joined"}

\* A step of w that changes neither frames nor states of tasks, and neither
\* enters nor leaves a frame, is a stutter of the pool.
LEMMA QuietStep ==
  ASSUME TypeOK, NEW w \in Threads, NEW l,
         UNCHANGED <<spawned, depth, m_state>>,
         pc' = [pc EXCEPT ![w] = l],
         pc[w] \in BodyLabels <=> l \in BodyLabels,
         \A v \in Threads : pc[v] \in BodyLabels => p_task'[v] = p_task[v],
         w = Main => (pc[w] \in ReturnLabels <=> l \in ReturnLabels)
  PROVE  UNCHANGED Pool!poolVars
<1>1. \A v \in Threads, u \in Tasks :
        (pc'[v] \in BodyLabels /\ p_task'[v] = u)
          <=> (pc[v] \in BodyLabels /\ p_task[v] = u)
  BY DEF Executing, TypeOK
<1>2. \A u \in Tasks : Status(u)' = Status(u)
  BY <1>1 DEF Status, Executing
<1>3. MainReturned' <=> MainReturned
  BY DEF MainReturned, ReturnLabels, TypeOK
<1> QED
  BY <1>2, <1>3 DEF Pool!poolVars, MainReturned

\* What a step of the executor of t does to the other tasks, and to main().
LEMMA OtherStatusSame ==
  ASSUME TypeOK, NEW w \in Threads, NEW t \in Tasks, p_task[w] = t, NEW l,
         UNCHANGED <<spawned, p_task>>,
         pc' = [pc EXCEPT ![w] = l],
         pc[w] \notin ReturnLabels, l \notin ReturnLabels,
         \A u \in Tasks \ {t} : depth'[u] = depth[u] /\ m_state'[u] = m_state[u]
  PROVE  /\ \A u \in Tasks \ {t} : Status(u)' = Status(u)
         /\ MainReturned' <=> MainReturned
<1>1. \A v \in Threads, u \in Tasks \ {t} :
        (pc'[v] \in BodyLabels /\ p_task'[v] = u)
          <=> (pc[v] \in BodyLabels /\ p_task[v] = u)
  BY DEF Executing, TypeOK
<1>2. \A u \in Tasks \ {t} : Status(u)' = Status(u)
  BY <1>1 DEF Status, Executing
<1>3. MainReturned' <=> MainReturned
  BY DEF MainReturned, ReturnLabels, TypeOK
<1> QED
  BY <1>2, <1>3

\* A step that changes what the pool sees of one task only is a Move.
LEMMA OneMove ==
  ASSUME NEW t \in Tasks,
         \A u \in Tasks \ {t} : Status(u)' = Status(u),
         MainReturned' <=> MainReturned
  PROVE  /\ Pool!Move(t, Status(t), Status(t)')
         /\ Status(t)' = Status(t) => UNCHANGED Pool!poolVars
<1>1. MainReturned' = MainReturned
  BY DEF MainReturned
<1>2. \A u \in Tasks : u # t => Status(u)' = Status(u)
  OBVIOUS
<1>3. Pool!Move(t, Status(t), Status(t)')
  BY <1>1, <1>2 DEF Pool!Move
<1>4. Status(t)' = Status(t) => UNCHANGED Pool!poolVars
  BY <1>1, <1>2 DEF Pool!poolVars
<1> QED
  BY <1>3, <1>4

\* The executor of a task is the only one, so the pool sees it running, and
\* what it sees after a step of w depends on w alone.
LEMMA ExecutorStatus ==
  ASSUME SafetyInv, NEW w \in Threads, pc[w] \in BodyLabels,
         NEW t, t = p_task[w], NEW l,
         UNCHANGED <<spawned, p_task>>,
         pc' = [pc EXCEPT ![w] = l]
  PROVE  /\ t \in Tasks /\ t \in spawned /\ depth[t] > 0
         /\ Status(t) = "running"
         /\ (l \in BodyLabels /\ depth'[t] > 0) => Status(t)' = "running"
         /\ (l \notin BodyLabels /\ depth'[t] > 0) =>
              Status(t)' = IF m_state'[t] = "kWait" THEN "waiting" ELSE "ready"
         /\ depth'[t] = 0 => Status(t)' = "done"
<1>1. t \in Tasks /\ t \in spawned /\ depth[t] > 0 /\ depth[t] \in Nat
  BY DEF SafetyInv, TypeOK, OnlySpawned, OneExecutor, HoldLabels
<1>2. Status(t) = "running"
  BY <1>1 DEF Status, Executing
<1>3. pc'[w] = l
  BY DEF SafetyInv, TypeOK
<1>4. ASSUME l \in BodyLabels, depth'[t] > 0 PROVE Status(t)' = "running"
  <2>1. pc'[w] \in BodyLabels /\ p_task'[w] = t
    BY <1>3, <1>4 DEF Executing
  <2> QED
    BY <1>1, <1>4, <2>1 DEF Status, Executing
<1>5. ASSUME l \notin BodyLabels, depth'[t] > 0
      PROVE Status(t)' = IF m_state'[t] = "kWait" THEN "waiting" ELSE "ready"
  <2>1. \A v \in Threads : ~(pc'[v] \in BodyLabels /\ p_task'[v] = t)
    BY <1>3, <1>5 DEF Executing, SafetyInv, OneExecutor, TypeOK
  <2> QED
    BY <1>1, <1>5, <2>1 DEF Status, Executing
<1>6. depth'[t] = 0 => Status(t)' = "done"
  BY <1>1 DEF Status, Executing
<1> QED
  BY <1>1, <1>2, <1>4, <1>5, <1>6

\* No step of main() or of a worker spawns a task after wait_for_all() has
\* returned.
LEMMA SpawnMoves ==
  ASSUME SafetyInv, NEW t \in Tasks, add(t), ~MainReturned,
         UNCHANGED <<taskVars, pc, p_task>>
  PROVE  Pool!Spawn(t)
<1>1. /\ t \notin spawned /\ spawned' = spawned \cup {t}
      /\ depth' = depth /\ m_state' = m_state
  BY DEF add, taskVars
<1>2. \A v \in Threads, u \in Tasks :
        (pc'[v] \in BodyLabels /\ p_task'[v] = u)
          <=> (pc[v] \in BodyLabels /\ p_task[v] = u)
  BY DEF Executing
<1>3. \A u \in Tasks \ {t} : Status(u)' = Status(u)
  BY <1>1, <1>2 DEF Status, Executing
<1>4. \A v \in Threads : ~(pc'[v] \in BodyLabels /\ p_task'[v] = t)
  BY <1>1, <1>2 DEF Executing, SafetyInv, OnlySpawned, HoldLabels
<1>5. Status(t)' = "ready"
  <2>1. depth[t] > 0 /\ m_state[t] = "kRun" /\ t \in spawned' /\ depth[t] # 0
    BY <1>1 DEF SafetyInv, OnlySpawned
  <2> QED BY <1>1, <1>4, <2>1 DEF Status, Executing
<1>6. Status(t) = "new"
  BY <1>1 DEF Status, Executing
<1>7. MainReturned' <=> MainReturned
  BY DEF MainReturned
<1> QED
  BY <1>3, <1>5, <1>6, <1>7, OneMove DEF Pool!Spawn

\* wake() of t by a thread that is not executing it.
LEMMA WakeMoves ==
  ASSUME SafetyInv, NEW t \in spawned, SetRun(t), NEW w \in Threads,
         pc[w] \notin BodyLabels \cup ReturnLabels,
         NEW l, l \notin BodyLabels \cup ReturnLabels,
         pc' = [pc EXCEPT ![w] = l],
         UNCHANGED <<spawned, depth, p_task>>
  PROVE  Pool!Wake(t) \/ UNCHANGED Pool!poolVars
<1>0. t \in Tasks /\ m_state'[t] = "kRun" /\ depth[t] \in Nat
  BY DEF SafetyInv, TypeOK, SetRun
<1>1. \A v \in Threads, u \in Tasks :
        (pc'[v] \in BodyLabels /\ p_task'[v] = u)
          <=> (pc[v] \in BodyLabels /\ p_task[v] = u)
  BY DEF Executing, SafetyInv, TypeOK
<1>2. \A u \in Tasks \ {t} : m_state'[u] = m_state[u]
  BY DEF SetRun, SafetyInv, TypeOK
<1>3. \A u \in Tasks \ {t} : Status(u)' = Status(u)
  BY <1>1, <1>2 DEF Status, Executing
<1>4. MainReturned' <=> MainReturned
  BY DEF MainReturned, ReturnLabels, SafetyInv, TypeOK
<1>5. CASE Status(t) = "waiting"
  <2>1. depth[t] > 0 /\ \A v \in Threads : ~Executing(v, t)
    BY <1>0, <1>5 DEF Status, Executing
  <2>2. Status(t)' = "ready"
    BY <1>0, <1>1, <2>1 DEF Status, Executing
  <2> QED BY <1>0, <1>3, <1>4, <1>5, <2>2, OneMove DEF Pool!Wake
<1>6. CASE Status(t) # "waiting"
  <2>1. Status(t)' = Status(t)
    BY <1>0, <1>1, <1>6 DEF Status, Executing
  <2> QED BY <1>0, <1>3, <1>4, <2>1, OneMove
<1> QED BY <1>5, <1>6

\* Every step of the reactor is a step of the pool or a stutter.
LEMMA StepRefines ==
  ASSUME SafetyInv, [Next]_vars
  PROVE  [Pool!PoolNext]_(Pool!poolVars)
<1> USE ReactorAssumption DEF schedVars, taskVars, timerVars, epollVars, localVars,
                              Goto, BodyLabels, ReturnLabels, SafetyInv
<1>1. ASSUME NEW t \in Roots, SpawnRoot(t) PROVE Pool!PoolNext
  <2>1. ~MainReturned
    BY <1>1 DEF SpawnRoot, MainReturned
  <2>2. Pool!Spawn(t)
    BY <1>1, <2>1, SpawnMoves DEF SpawnRoot
  <2> QED
    BY <1>1, <2>2 DEF Pool!PoolNext
<1>2. ASSUME NEW w \in Threads, NEW t \in Tasks, SpawnTask(w, t) PROVE Pool!PoolNext
  <2>1. p_task[w] \in m_active_tasks
    BY <1>2 DEF SpawnTask, May, OnlySpawned, HoldLabels, OneExecutor, ActiveUntilDone
  <2>2. ~MainReturned
    BY <2>1 DEF ActiveUntilDone
  <2>3. Pool!Spawn(t)
    BY <1>2, <2>2, SpawnMoves DEF SpawnTask
  <2> QED
    BY <1>2, <2>3 DEF Pool!PoolNext
<1>3. ASSUME NEW w \in Threads, NEW e \in m_timers, WakeTimer(w, e)
      PROVE  [Pool!PoolNext]_(Pool!poolVars)
  <2>1. e.task \in spawned /\ e.task \in Tasks
    BY <1>3 DEF OnlySpawned, TypeOK
  <2>2. Pool!Wake(e.task) \/ UNCHANGED Pool!poolVars
    BY <1>3, <2>1, WakeMoves DEF WakeTimer
  <2> QED
    BY <2>1, <2>2 DEF Pool!PoolNext
<1>4. ASSUME NEW w \in Threads, NEW ev \in events[w], WakeEvent(w, ev)
      PROVE  [Pool!PoolNext]_(Pool!poolVars)
  <2>1. ev[2] \in spawned /\ ev[2] \in Tasks
    BY <1>4 DEF OnlySpawned, TypeOK
  <2>2. Pool!Wake(ev[2]) \/ UNCHANGED Pool!poolVars
    BY <1>4, <2>1, WakeMoves DEF WakeEvent
  <2> QED
    BY <2>1, <2>2 DEF Pool!PoolNext
<1>5. ASSUME NEW w \in Threads, Resume(w) PROVE Pool!PoolNext
  <2>1. PICK t \in Tasks : t = p_task[w] /\ t \in spawned
    BY <1>5 DEF Resume, OnlySpawned, TypeOK, HoldLabels
  <2>2. /\ \A u \in Tasks \ {t} : Status(u)' = Status(u)
        /\ MainReturned' <=> MainReturned
    BY <1>5, <2>1, OtherStatusSame DEF Resume
  <2>3. Status(t) = IF m_state[t] = "kWait" THEN "waiting" ELSE "ready"
    BY <1>5, <2>1 DEF Resume, Resumable, Status, Executing, TypeOK
  <2>4. Status(t)' = "running"
    <3>1. t \in spawned' /\ depth'[t] # 0 /\ pc'[w] = "body" /\ p_task'[w] = t
      BY <1>5, <2>1 DEF Resume, Resumable, TypeOK
    <3> QED
      BY <3>1 DEF Status, Executing
  <2>5. SingleThread => m_state[t] # "kWait"
    BY <1>5, <2>1 DEF Resume, ResumeAfterWake, SingleThread
  <2>6. Pool!Start(t) \/ Pool!Early(t)
    BY <2>1, <2>2, <2>3, <2>4, <2>5, OneMove DEF Pool!Start, Pool!Early
  <2> QED
    BY <2>1, <2>6 DEF Pool!PoolNext
<1>6. ASSUME NEW w \in Threads,
             AwaitTask(w) \/ Sleep(w) \/ LateWait(w)
               \/ \E f \in UsesFd[p_task[w]] : Read(w, f)
      PROVE  UNCHANGED Pool!poolVars
  <2>1. PICK t : t = p_task[w]
    OBVIOUS
  <2>2. PICK l \in BodyLabels : pc' = [pc EXCEPT ![w] = l]
    BY <1>6 DEF AwaitTask, Sleep, LateWait, Read
  <2>3. pc[w] \in BodyLabels /\ UNCHANGED <<spawned, p_task>>
    BY <1>6 DEF AwaitTask, Sleep, LateWait, Read, May
  <2>4. t \in Tasks /\ depth[t] > 0 /\ Status(t) = "running"
    BY <2>1, <2>2, <2>3, ExecutorStatus
  <2>5. /\ depth'[t] > 0
        /\ \A u \in Tasks \ {t} : depth'[u] = depth[u] /\ m_state'[u] = m_state[u]
    BY <1>6, <2>1, <2>4 DEF AwaitTask, Sleep, LateWait, Read, SetWait, TypeOK
  <2>6. Status(t)' = "running"
    BY <2>1, <2>2, <2>3, <2>5, ExecutorStatus
  <2>7. /\ \A u \in Tasks \ {t} : Status(u)' = Status(u)
        /\ MainReturned' <=> MainReturned
    BY <2>1, <2>2, <2>3, <2>4, <2>5, OtherStatusSame
  <2> QED
    BY <2>4, <2>6, <2>7, OneMove
<1>7. ASSUME NEW w \in Threads, Return(w) \/ Suspend(w)
      PROVE  [Pool!PoolNext]_(Pool!poolVars)
  <2>1. PICK t : t = p_task[w]
    OBVIOUS
  <2>2. PICK l \in {"body", "suspended", "finish"} : pc' = [pc EXCEPT ![w] = l]
    BY <1>7 DEF Return, Suspend
  <2>3. pc[w] \in {"body", "suspending"} /\ UNCHANGED <<spawned, p_task>>
    BY <1>7 DEF Return, Suspend
  <2>4. t \in Tasks /\ depth[t] > 0 /\ Status(t) = "running"
    BY <2>1, <2>2, <2>3, ExecutorStatus
  <2>5. \A u \in Tasks \ {t} : depth'[u] = depth[u] /\ m_state'[u] = m_state[u]
    BY <1>7, <2>1 DEF Return, Suspend, TypeOK
  <2>6. depth'[t] \in Nat
    BY <1>7, <2>1, <2>4 DEF Return, Suspend, TypeOK
  <2>7. Status(t)' \in {"running", "waiting", "ready", "done"}
    <3>1. /\ (l \in BodyLabels /\ depth'[t] > 0) => Status(t)' = "running"
          /\ (l \notin BodyLabels /\ depth'[t] > 0) =>
               Status(t)' = IF m_state'[t] = "kWait" THEN "waiting" ELSE "ready"
          /\ depth'[t] = 0 => Status(t)' = "done"
      BY <2>1, <2>2, <2>3, ExecutorStatus
    <3> QED
      BY <2>6, <3>1
  <2>8. /\ \A u \in Tasks \ {t} : Status(u)' = Status(u)
        /\ MainReturned' <=> MainReturned
    BY <2>1, <2>2, <2>3, <2>4, <2>5, OtherStatusSame
  <2> QED
    BY <2>4, <2>7, <2>8, OneMove
    DEF Pool!PoolNext, Pool!Yield, Pool!Block, Pool!Complete
<1>8. ASSUME NEW w \in Threads, CheckActive(w)
      PROVE  [Pool!PoolNext]_(Pool!poolVars)
  <2>1. CASE w = Main /\ m_active_tasks = {}
    <3>1. MainReturned' /\ ~MainReturned
      BY <1>8, <2>1 DEF CheckActive, MainReturned, TypeOK
    <3>2. \A u \in Tasks : Status(u) \in {"new", "done"}
      BY <2>1 DEF Status, Executing, ActiveUntilDone, TypeOK
    <3>3. \A u \in Tasks : Status(u)' = Status(u)
      <4>1. \A v \in Threads : pc'[v] \in BodyLabels <=> pc[v] \in BodyLabels
        BY <1>8 DEF CheckActive, TypeOK
      <4> QED
        BY <1>8, <4>1 DEF CheckActive, Status, Executing
    <3>4. Pool!ReturnFromWait
      BY <3>1, <3>2, <3>3 DEF Pool!ReturnFromWait
    <3> QED
      BY <3>4 DEF Pool!PoolNext
  <2>2. CASE ~(w = Main /\ m_active_tasks = {})
    BY <1>8, <2>2, QuietStep DEF CheckActive
  <2> QED
    BY <2>1, <2>2
<1>9. ASSUME NEW w \in Threads, CheckRunning(w)
      PROVE  UNCHANGED Pool!poolVars
  <2>1. w = Main => m_running
    BY <1>9 DEF CheckRunning, ActiveUntilDone, MainReturned
  <2> QED
    BY <1>9, <2>1, QuietStep DEF CheckRunning
<1>10. CASE wait_for_all \/ Destroy \/ Join
  <2>1. PICK l : /\ pc' = [pc EXCEPT ![Main] = l]
                 /\ pc[Main] \in BodyLabels <=> l \in BodyLabels
                 /\ pc[Main] \in ReturnLabels <=> l \in ReturnLabels
    BY <1>10 DEF wait_for_all, Destroy, Join
  <2> QED
    BY <1>10, <2>1, QuietStep DEF wait_for_all, Destroy, Join
<1>11. ASSUME NEW w \in Threads,
              \/ ReadClock(w) \/ LockTimers(w) \/ PushTimer(w) \/ EndDelay(w)
              \/ ChooseWait(w) \/ EpollTimeout(w) \/ PushEvent(w) \/ EndEvents(w)
              \/ \E E \in SUBSET ReadyFds : EpollEvents(w, E)
       PROVE  UNCHANGED Pool!poolVars
  <2>1. /\ UNCHANGED <<spawned, depth, m_state, p_task>>
        /\ pc[w] \notin BodyLabels \cup ReturnLabels
    BY <1>11 DEF ReadClock, LockTimers, PushTimer, EndDelay, ChooseWait,
                 EpollTimeout, PushEvent, EndEvents, EpollEvents
  <2>2. PICK l \in {"lock", "timers", "idle", "poll", "running", "events"} :
          pc' = [pc EXCEPT ![w] = l]
    BY <1>11 DEF ReadClock, LockTimers, PushTimer, EndDelay, ChooseWait,
                 EpollTimeout, PushEvent, EndEvents, EpollEvents
  <2> QED
    BY <2>1, <2>2, QuietStep
<1>12. ASSUME NEW w \in Threads,
              \/ Pop(w) \/ Drained(w) \/ IsWaiting(w) \/ AlreadyDone(w)
              \/ StepWhileWaiting(w) \/ TestWaiting(w) \/ ResumeExecuting(w)
              \/ NotDone(w) \/ ReadState(w) \/ FrameReturned(w) \/ Finish(w)
       PROVE  UNCHANGED Pool!poolVars
  <2>1. /\ UNCHANGED <<spawned, depth, m_state>>
        /\ pc[w] \notin BodyLabels \cup ReturnLabels
        /\ \A v \in Threads : v # w => p_task'[v] = p_task[v]
    BY <1>12 DEF Pop, Drained, IsWaiting, AlreadyDone, StepWhileWaiting,
                 TestWaiting, ResumeExecuting, NotDone, ReadState, FrameReturned,
                 Finish, TypeOK
  <2>2. PICK l \in {"popped", "check", "process", "step", "resume", "finish",
                    "suspended", "load", "ub"} :
          pc' = [pc EXCEPT ![w] = l]
    BY <1>12 DEF Pop, Drained, IsWaiting, AlreadyDone, StepWhileWaiting,
                 TestWaiting, ResumeExecuting, NotDone, ReadState, FrameReturned,
                 Finish
  <2> QED
    BY <2>1, <2>2, QuietStep
<1>13. ASSUME NEW w \in Threads,
              \/ \E d \in Delays : StartTimer(w, d)
              \/ \E f \in UsesFd[p_task[w]] : Accept(w, f)
              \/ ArmFd(w)
              \/ \E t \in spawned : Get(w, t)
              \/ GetReturns(w)
       PROVE  UNCHANGED Pool!poolVars
  <2>1. UNCHANGED <<spawned, depth, m_state, p_task>> /\ pc[w] \in BodyLabels
    BY <1>13 DEF StartTimer, Accept, ArmFd, Get, GetReturns, May
  <2>2. PICK l \in BodyLabels : pc' = [pc EXCEPT ![w] = l]
    BY <1>13 DEF StartTimer, Accept, ArmFd, Get, GetReturns
  <2> QED
    BY <2>1, <2>2, QuietStep
<1>14. CASE \/ Tick \/ (\E f \in Fds : BecomeReady(f)) \/ Terminated
            \/ UNCHANGED vars
  <2>1. UNCHANGED <<spawned, depth, m_state, pc, p_task>>
    BY <1>14 DEF Tick, BecomeReady, Terminated, vars
  <2>2. pc' = [pc EXCEPT ![Main] = pc[Main]]
    BY <2>1 DEF TypeOK
  <2> QED
    BY <2>1, <2>2, QuietStep
<1> QED
  BY <1>1, <1>2, <1>3, <1>4, <1>5, <1>6, <1>7, <1>8, <1>9, <1>10, <1>11, <1>12,
     <1>13, <1>14
  DEF Next, MainStep, ThreadStep, RunStep, TaskStep, EnvStep

\* The reactor implements the task pool, with any number of threads: a task
\* is executed by one thread at a time, completes once, goes on only after
\* wake() if run() has one thread, and wait_for_all() returns when all spawned
\* tasks have completed.
THEOREM Refinement == Spec => ImplementsTaskPool
<1>1. Init => Pool!PoolInit
  BY ReactorAssumption DEF Init, Pool!PoolInit, Status, Executing, MainReturned
<1>2. SafetyInv /\ [Next]_vars => [Pool!PoolNext]_(Pool!poolVars)
  BY StepRefines
<1> QED
  BY <1>1, <1>2, SafetyInvariant, PTL DEF Spec, ImplementsTaskPool, Pool!PoolSpec
=============================================================================
