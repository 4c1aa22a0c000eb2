--------------------------- MODULE ReactorTokens ---------------------------
(***************************************************************************)
(* Where a program has one thread, or no task of it ever waits, what makes *)
(* a task run again exists once (OneToken), so that no two threads resume  *)
(* the same coroutine (NoConcurrentResume), no overlapped dangles          *)
(* (NoDanglingOverlapped), no sleep is cut short (SleepNotShort), and a    *)
(* wake-up is lost in the three ways of LossIsExplained only.              *)
(***************************************************************************)
EXTENDS ReactorWake

-----------------------------------------------------------------------------
(* Where a program has one thread, or no task of it ever waits.            *)

\* No thread can act between wait(), the registration and the suspension of
\* another one, because there is none or because nobody waits.
Sequential ==
  SingleThread \/ \A t \in Tasks : Ops[t] \cap {"sleep", "read", "accept"} = {}

\* Where one_step() finds a waiting task it reports kWait, so that it is not
\* put back in the queue by process_tasks().
KeptWaiting ==
  \A w \in Threads :
    /\ /\ pc[w] \in {"armTimer", "armFd", "suspending", "suspended", "load"}
       /\ parked[p_task[w]] # "none"
       => m_state[p_task[w]] = "kWait"
    /\ pc[w] = "finish" /\ parked[p_task[w]] # "none" => result[w] # "kRun"

\* curr of one_step() is a frame that is alive, and the innermost one when it
\* is about to be resumed.
CurrentFrame ==
  \A w \in Threads :
    /\ pc[w] = "resume" => depth[p_task[w]] = curr[w] /\ curr[w] > 0
    /\ pc[w] \in BodyLabels \cup {"suspended"} => depth[p_task[w]] >= curr[w]

\* With several threads nobody waits.
NeverWaits ==
  ~SingleThread =>
    /\ \A t \in Tasks : parked[t] = "none" /\ m_state[t] = "kRun"
    /\ m_timers = {}
    /\ \A f \in Fds : armed[f] = None
    /\ \A w \in Threads :
         /\ events[w] = {}
         /\ pc[w] \notin {"armTimer", "armFd", "lateWait", "timerPush", "eventPush"}

\* What a sleeping task is queued for has happened.
Due(t) ==
  Queued(t) \/ \E w \in Threads : Pushing(w, t) \/ (Holds(w, t) /\ pc[w] # "armTimer")

Deadlines ==
  /\ \A w \in Threads : tnow[w] <= now
  /\ \A t \in Tasks : parked[t] = "sleep" =>
       /\ t \in spawned
       /\ \A e \in m_timers : e.task = t => e.when = until[t]
       /\ Due(t) => until[t] <= now

SeqInv ==
  /\ OneToken /\ NoUB /\ NoDanglingOverlapped
  /\ KeptWaiting /\ CurrentFrame /\ NeverWaits /\ Deadlines

\* x is what will make some thread queue, pop or resume t.
At(x, t) ==
  \/ \E w \in Threads : x = <<"thread", w>> /\ Holds(w, t)
  \/ \E w \in Threads : x = <<"push", w>> /\ Pushing(w, t)
  \/ \E e \in m_timers : x = <<"timer", e.when>> /\ e.task = t
  \/ \E f \in Fds : x = <<"armed", f>> /\ armed[f] = t
  \/ \E w \in Threads, f \in Fds : x = <<"event", <<w, f>>>> /\ <<f, t>> \in events[w]

Outside(t) == \E x : At(x, t)
AtMostOne(t) == \A x, y : At(x, t) /\ At(y, t) => x = y
QueuedOnce(t) == \A i, j \in DOMAIN m_tasks : m_tasks[i] = t /\ m_tasks[j] = t => i = j

\* OneToken, by the places a token can be in.
Single(t) == QueuedOnce(t) /\ AtMostOne(t) /\ (Queued(t) => ~Outside(t))

\* A token is a queue entry or one of the places of At.
LEMMA TokenPlaces ==
  ASSUME NEW t \in Tasks, NEW x
  PROVE  x \in Tokens(t) <=>
           At(x, t) \/ \E i \in DOMAIN m_tasks : x = <<"queue", i>> /\ m_tasks[i] = t
<1>1. x \in Tokens(t) <=>
        \/ \E i \in DOMAIN m_tasks : x = <<"queue", i>> /\ m_tasks[i] = t
        \/ \E w \in Threads : x = <<"thread", w>> /\ Holds(w, t)
        \/ \E w \in Threads : x = <<"push", w>> /\ Pushing(w, t)
        \/ \E e \in m_timers : x = <<"timer", e.when>> /\ e.task = t
        \/ \E f \in Fds : x = <<"armed", f>> /\ armed[f] = t
        \/ \E y \in Threads \X Fds : x = <<"event", y>> /\ <<y[2], t>> \in events[y[1]]
  BY DEF Tokens
<1>2. (\E y \in Threads \X Fds : x = <<"event", y>> /\ <<y[2], t>> \in events[y[1]])
        <=> \E w \in Threads, f \in Fds : x = <<"event", <<w, f>>>> /\ <<f, t>> \in events[w]
  <2>1. ASSUME NEW y \in Threads \X Fds, x = <<"event", y>>, <<y[2], t>> \in events[y[1]]
        PROVE  \E w \in Threads, f \in Fds : x = <<"event", <<w, f>>>> /\ <<f, t>> \in events[w]
    <3>1. y = <<y[1], y[2]>> /\ y[1] \in Threads /\ y[2] \in Fds
      OBVIOUS
    <3> QED BY <2>1, <3>1
  <2>2. ASSUME NEW w \in Threads, NEW f \in Fds, x = <<"event", <<w, f>>>>,
               <<f, t>> \in events[w]
        PROVE  \E y \in Threads \X Fds : x = <<"event", y>> /\ <<y[2], t>> \in events[y[1]]
    <3> DEFINE y == <<w, f>>
    <3>1. y \in Threads \X Fds /\ y[1] = w /\ y[2] = f
      OBVIOUS
    <3>2. x = <<"event", y>> /\ <<y[2], t>> \in events[y[1]]
      BY <2>2, <3>1
    <3> HIDE DEF y
    <3> QED BY <3>1, <3>2
  <2> QED BY <2>1, <2>2
<1> QED BY <1>1, <1>2 DEF At

\* The invariant OneToken and the predicate Single say the same.
LEMMA OneTokenIsSingle == OneToken <=> \A t \in Tasks : Single(t)
<1>1. ASSUME OneToken, NEW t \in Tasks PROVE Single(t)
  <2>1. \A x, y : x \in Tokens(t) /\ y \in Tokens(t) => x = y
    BY <1>1 DEF OneToken
  <2>2. AtMostOne(t)
    BY <2>1, TokenPlaces DEF AtMostOne
  <2>3. ASSUME NEW i \in DOMAIN m_tasks, NEW j \in DOMAIN m_tasks,
               m_tasks[i] = t, m_tasks[j] = t
        PROVE  i = j
    <3>1. <<"queue", i>> = <<"queue", j>>
      BY <2>1, <2>3, TokenPlaces
    <3> QED BY <3>1
  <2>4. ASSUME NEW i \in DOMAIN m_tasks, m_tasks[i] = t, NEW x, At(x, t) PROVE FALSE
    <3>1. x = <<"queue", i>>
      BY <2>1, <2>4, TokenPlaces
    <3> QED BY <2>4, <3>1 DEF At
  <2> QED BY <2>2, <2>3, <2>4 DEF Single, QueuedOnce, Queued, Outside
<1>2. ASSUME \A t \in Tasks : Single(t), NEW t \in Tasks,
             NEW x \in Tokens(t), NEW y \in Tokens(t)
      PROVE  x = y
  <2>1. Single(t)
    BY <1>2
  <2>2. /\ At(x, t) \/ \E i \in DOMAIN m_tasks : x = <<"queue", i>> /\ m_tasks[i] = t
        /\ At(y, t) \/ \E i \in DOMAIN m_tasks : y = <<"queue", i>> /\ m_tasks[i] = t
    BY TokenPlaces
  <2>3. Queued(t) => ~At(x, t) /\ ~At(y, t)
    BY <2>1 DEF Single, Outside
  <2>4. CASE At(x, t) /\ At(y, t)
    BY <2>1, <2>4 DEF Single, AtMostOne
  <2>5. CASE \E i, j \in DOMAIN m_tasks : /\ x = <<"queue", i>> /\ m_tasks[i] = t
                                          /\ y = <<"queue", j>> /\ m_tasks[j] = t
    BY <2>1, <2>5 DEF Single, QueuedOnce
  <2> QED BY <2>2, <2>3, <2>4, <2>5 DEF Queued
<1> QED BY <1>1, <1>2 DEF OneToken

\* Two threads: nobody waits.
LEMMA Several ==
  ASSUME NeverWaits, NEW v \in Threads, NEW w \in Threads, v # w
  PROVE  /\ \A t \in Tasks : parked[t] = "none" /\ m_state[t] = "kRun"
         /\ m_timers = {}
         /\ \A f \in Fds : armed[f] = None
         /\ \A u \in Threads :
              /\ events[u] = {}
              /\ pc[u] \notin {"armTimer", "armFd", "lateWait", "timerPush", "eventPush"}
BY DEF NeverWaits, SingleThread

\* The steps of a thread with the task it holds that give it to nobody.
Keeps(w) ==
  \/ IsWaiting(w) \/ AlreadyDone(w) \/ StepWhileWaiting(w) \/ TestWaiting(w)
  \/ Resume(w) \/ ResumeExecuting(w) \/ AwaitTask(w) \/ Sleep(w)
  \/ (\E f \in UsesFd[p_task[w]] : Read(w, f)) \/ LateWait(w)
  \/ (\E t \in spawned : Get(w, t)) \/ GetReturns(w) \/ Return(w) \/ Suspend(w)
  \/ NotDone(w) \/ ReadState(w) \/ FrameReturned(w)

\* They make no token: the frame that is resumed was held already.
LEMMA KeepsTokens ==
  ASSUME SafetyInv, ParkedBody, NeverWaits, NEW w \in Threads, TaskMoves(w), Keeps(w),
         NEW t \in Tasks
  PROVE  m_tasks' = m_tasks /\ \A x : At(x, t)' => At(x, t)
<1>0. /\ pc \in [Threads -> Labels] /\ p_task \in [Threads -> Tasks \cup {None}]
      /\ parked \in [Tasks -> {"none", "sleep", "fd"}]
      /\ \A v \in Threads : pc[v] \in HoldLabels => p_task[v] \in Tasks
  BY Held
<1>1. /\ UNCHANGED <<m_tasks, m_timers, armed, events, p_task>>
      /\ pc'[w] \notin {"timerPush", "eventPush"}
  <2> USE DEF schedVars, timerVars, epollVars, localVars, Goto
  <2>1. CASE IsWaiting(w) \/ AlreadyDone(w) \/ StepWhileWaiting(w) \/ TestWaiting(w)
             \/ Resume(w) \/ ResumeExecuting(w) \/ AwaitTask(w) \/ Sleep(w)
    BY <1>0, <2>1 DEF IsWaiting, AlreadyDone, StepWhileWaiting, TestWaiting, Resume,
       ResumeExecuting, AwaitTask, Sleep
  <2>2. CASE (\E f \in UsesFd[p_task[w]] : Read(w, f)) \/ LateWait(w)
             \/ (\E u \in spawned : Get(w, u)) \/ GetReturns(w) \/ Return(w) \/ Suspend(w)
             \/ NotDone(w) \/ ReadState(w) \/ FrameReturned(w)
    BY <1>0, <2>2 DEF Read, LateWait, Get, GetReturns, Return, Suspend, NotDone, ReadState,
       FrameReturned
  <2> QED BY <2>1, <2>2 DEF Keeps
<1>2. ASSUME NEW v \in Threads, Pushing(v, t)' PROVE Pushing(v, t)
  <2>1. v # w
    BY <1>1, <1>2 DEF Pushing
  <2> QED BY <1>2, <2>1, OthersSame DEF Pushing
<1>3. parked'[t] = "none" => parked[t] = "none" \/ Resume(w)
  <2> USE DEF taskVars, localVars
  <2>1. CASE IsWaiting(w) \/ AlreadyDone(w) \/ StepWhileWaiting(w) \/ TestWaiting(w)
             \/ ResumeExecuting(w) \/ AwaitTask(w) \/ LateWait(w)
             \/ (\E u \in spawned : Get(w, u)) \/ GetReturns(w) \/ Return(w) \/ Suspend(w)
             \/ NotDone(w) \/ ReadState(w) \/ FrameReturned(w)
    BY <2>1 DEF IsWaiting, AlreadyDone, StepWhileWaiting, TestWaiting, ResumeExecuting,
       AwaitTask, LateWait, Get, GetReturns, Return, Suspend, NotDone, ReadState, FrameReturned
  <2>2. CASE Sleep(w) \/ (\E f \in UsesFd[p_task[w]] : Read(w, f))
    BY <1>0, <2>2 DEF Sleep, Read
  <2> QED BY <2>1, <2>2 DEF Keeps
<1>4. Holds(w, t)' => Holds(w, t)
  <2> USE <1>0, <1>1 DEF Goto, Holds
  <2>1. CASE IsWaiting(w) \/ AlreadyDone(w) \/ StepWhileWaiting(w) \/ TestWaiting(w)
             \/ Resume(w) \/ ResumeExecuting(w) \/ AwaitTask(w) \/ Sleep(w)
             \/ (\E f \in UsesFd[p_task[w]] : Read(w, f))
             \/ (\E u \in spawned : Get(w, u)) \/ GetReturns(w) \/ Return(w)
    BY <2>1 DEF IsWaiting, AlreadyDone, StepWhileWaiting, TestWaiting, Resume,
       ResumeExecuting, AwaitTask, Sleep, Read, Get, May, GetReturns, Return
  <2>2. CASE LateWait(w)
    <3>1. pc[w] = "lateWait" /\ pc'[w] = "suspending" /\ parked' = parked
      BY <2>2 DEF LateWait
    <3>2. parked[p_task[w]] = "fd"
      BY <3>1 DEF ParkedBody
    <3> QED BY <3>1, <3>2
  <2>3. CASE Suspend(w) \/ NotDone(w) \/ ReadState(w) \/ FrameReturned(w)
    BY <2>3 DEF Suspend, NotDone, ReadState, FrameReturned, taskVars
  <2> QED BY <2>1, <2>2, <2>3 DEF Keeps
<1>5. ASSUME NEW v \in Threads, v # w, Holds(v, t)' PROVE Holds(v, t)
  <2>1. pc'[v] = pc[v] /\ p_task'[v] = p_task[v]
    BY <1>5, OthersSame
  <2>2. parked[t] = "none"
    BY <1>5, Several
  <2> QED BY <1>5, <2>1, <2>2 DEF Holds
<1> QED BY <1>1, <1>2, <1>4, <1>5 DEF At

\* What keeps a task single when the queue does not change.
LEMMA SingleKept ==
  ASSUME m_tasks' = m_tasks, NEW t, Single(t), AtMostOne(t)', Outside(t)' => Outside(t)
  PROVE  Single(t)'
BY DEF Single, QueuedOnce, Queued

\* The steps of Keeps leave a task single.
LEMMA SingleKeeps ==
  ASSUME SafetyInv, ParkedBody, NeverWaits, NEW w \in Threads, TaskMoves(w), Keeps(w),
         NEW t \in Tasks, Single(t)
  PROVE  Single(t)'
BY KeepsTokens, SingleKept DEF Single, AtMostOne, Outside

\* A token that changes its place is still the only one.
LEMMA SingleMoves ==
  ASSUME m_tasks' = m_tasks, NEW t, Single(t), NEW a, NEW b, At(a, t),
         \A x : At(x, t)' => x = b \/ (At(x, t) /\ x # a)
  PROVE  Single(t)'
<1>1. \A x : At(x, t)' => x = b
  BY DEF Single, AtMostOne
<1> QED BY <1>1, SingleKept DEF AtMostOne, Outside

\* The steps that arm a timer or a descriptor with the task they hold.
LEMMA SingleArms ==
  ASSUME SafetyInv, ParkedBody, NeverWaits, NEW w \in Threads, TaskMoves(w),
         \/ \E d \in Delays : StartTimer(w, d)
         \/ pc[w] = "body" /\ \E f \in UsesFd[p_task[w]] : Accept(w, f)
         \/ ArmFd(w),
         NEW t \in Tasks, Single(t)
  PROVE  Single(t)'
<1>0. /\ pc \in [Threads -> Labels] /\ p_task \in [Threads -> Tasks \cup {None}]
      /\ parked \in [Tasks -> {"none", "sleep", "fd"}]
      /\ armed \in [Fds -> Tasks \cup {None}]
      /\ \A v \in Threads : pc[v] \in HoldLabels => p_task[v] \in Tasks
  BY Held
<1> DEFINE u == p_task[w]
<1>1. /\ UNCHANGED <<m_tasks, events, p_task>>
      /\ pc[w] \in {"body", "armTimer", "armFd"} /\ pc'[w] \in {"suspending", "lateWait"}
      /\ u \in Tasks
  BY <1>0 DEF StartTimer, Accept, May, ArmFd, schedVars, localVars, Goto, HoldLabels,
     BodyLabels
<1>2. At(<<"thread", w>>, u)
  BY <1>1 DEF Holds, At
<1>3. ASSUME NEW v \in Threads, Pushing(v, t)' PROVE Pushing(v, t)
  <2>1. v # w
    BY <1>1, <1>3 DEF Pushing
  <2> QED BY <1>3, <2>1, OthersSame DEF Pushing
<1>4. ~Holds(w, t)'
  <2>1. CASE (\E d \in Delays : StartTimer(w, d)) \/ ArmFd(w)
    <3>1. parked' = parked /\ pc[w] \in {"armTimer", "armFd"} /\ pc'[w] = "suspending"
      BY <1>0, <2>1 DEF StartTimer, ArmFd, taskVars, Goto
    <3>2. parked[u] # "none"
      BY <3>1 DEF ParkedBody
    <3> QED BY <1>1, <3>1, <3>2 DEF Holds
  <2>2. CASE \E f \in UsesFd[p_task[w]] : Accept(w, f)
    BY <1>0, <2>2 DEF Accept, Goto, Holds
  <2> QED BY <2>1, <2>2
<1>5. ASSUME NEW v \in Threads, Holds(v, t)' PROVE v # w /\ Holds(v, t)
  <2>1. v # w
    BY <1>4, <1>5
  <2>2. pc'[v] = pc[v] /\ p_task'[v] = p_task[v] /\ parked[t] = "none"
    BY <2>1, OthersSame, Several
  <2> QED BY <1>5, <2>1, <2>2 DEF Holds
<1>6. CASE \E d \in Delays : StartTimer(w, d)
  <2>1. PICK d \in Delays : StartTimer(w, d)
    BY <1>6
  <2>2. armed' = armed
    BY <2>1 DEF StartTimer, epollVars
  <2>3. \A e \in m_timers' : e \in m_timers \/ (e.when = now + d /\ e.task = u)
    BY <2>1 DEF StartTimer, InsertTimer
  <2>4. ASSUME NEW x, At(x, t)'
        PROVE  (At(x, t) /\ x # <<"thread", w>>) \/ (t = u /\ x = <<"timer", now + d>>)
    <3>1. CASE \E v \in Threads : x = <<"thread", v>> /\ Holds(v, t)'
      BY <1>5, <3>1 DEF At
    <3>2. CASE \E v \in Threads : x = <<"push", v>> /\ Pushing(v, t)'
      BY <1>3, <3>2 DEF At
    <3>3. CASE \E e1 \in m_timers' : x = <<"timer", e1.when>> /\ e1.task = t
      BY <2>3, <3>3 DEF At
    <3>4. CASE \E g1 \in Fds : x = <<"armed", g1>> /\ armed'[g1] = t
      BY <2>2, <3>4 DEF At
    <3>5. CASE \E v \in Threads, g1 \in Fds :
                x = <<"event", <<v, g1>>>> /\ <<g1, t>> \in events'[v]
      BY <1>1, <3>5 DEF At
    <3> QED BY <2>4, <3>1, <3>2, <3>3, <3>4, <3>5 DEF At
  <2>5. CASE t = u
    BY <1>1, <1>2, <2>4, <2>5, SingleMoves
  <2>6. CASE t # u
    BY <1>1, <2>4, <2>6, SingleKept DEF Single, AtMostOne, Outside
  <2> QED BY <2>5, <2>6
<1>7. ASSUME NEW f, EpollCtl(u, f), m_timers' = m_timers PROVE Single(t)'
  <2>1. \A g \in Fds : armed'[g] \in {armed[g]} \/ (g = f /\ armed'[g] = u)
    BY <1>0, <1>7 DEF EpollCtl
  <2>2. ASSUME NEW x, At(x, t)'
        PROVE  (At(x, t) /\ x # <<"thread", w>>) \/ (t = u /\ x = <<"armed", f>>)
    <3>1. CASE \E v \in Threads : x = <<"thread", v>> /\ Holds(v, t)'
      BY <1>5, <3>1 DEF At
    <3>2. CASE \E v \in Threads : x = <<"push", v>> /\ Pushing(v, t)'
      BY <1>3, <3>2 DEF At
    <3>3. CASE \E e1 \in m_timers' : x = <<"timer", e1.when>> /\ e1.task = t
      BY <1>7, <3>3 DEF At
    <3>4. CASE \E g1 \in Fds : x = <<"armed", g1>> /\ armed'[g1] = t
      BY <2>1, <3>4 DEF At
    <3>5. CASE \E v \in Threads, g1 \in Fds :
                x = <<"event", <<v, g1>>>> /\ <<g1, t>> \in events'[v]
      BY <1>1, <3>5 DEF At
    <3> QED BY <2>2, <3>1, <3>2, <3>3, <3>4, <3>5 DEF At
  <2>3. CASE t = u
    BY <1>1, <1>2, <2>2, <2>3, SingleMoves
  <2>4. CASE t # u
    BY <1>1, <2>2, <2>4, SingleKept DEF Single, AtMostOne, Outside
  <2> QED BY <2>3, <2>4
<1>8. ASSUME NEW f \in UsesFd[u], Accept(w, f) PROVE Single(t)'
  BY <1>7, <1>8 DEF Accept, timerVars
<1>9. CASE ArmFd(w)
  BY <1>7, <1>9 DEF ArmFd, timerVars
<1> QED BY <1>6, <1>8, <1>9

\* The steps that wake a task, and what epoll_wait() returns.
LEMMA SingleWakes ==
  ASSUME SafetyInv, NEW w \in Threads, TaskMoves(w),
         \/ \E e \in m_timers : WakeTimer(w, e)
         \/ \E ev \in events[w] : WakeEvent(w, ev)
         \/ \E E \in SUBSET ReadyFds : EpollEvents(w, E),
         NEW t \in Tasks, Single(t)
  PROVE  Single(t)'
<1>0. /\ pc \in [Threads -> Labels] /\ p_task \in [Threads -> Tasks \cup {None}]
      /\ events \in [Threads -> SUBSET (Fds \X Tasks)]
      /\ armed \in [Fds -> Tasks \cup {None}] /\ None \notin Tasks
      /\ m_timers \subseteq [when : Nat, task : Tasks]
      /\ target \in [Threads -> Tasks \cup {None}]
  BY Held DEF SafetyInv, TypeOK
<1>1. /\ UNCHANGED <<m_tasks, parked, p_task>>
      /\ pc[w] \in {"timers", "events", "poll"}
      /\ pc'[w] \in {"timerPush", "eventPush", "events"}
  BY <1>0 DEF WakeTimer, WakeEvent, EpollEvents, schedVars, taskVars, localVars, Goto
<1>2. \A v \in Threads : Holds(v, t)' => Holds(v, t)
  BY <1>1, OthersSame DEF Holds
<1>3. \A v \in Threads : v # w /\ Pushing(v, t)' => Pushing(v, t)
  BY OthersSame DEF Pushing
<1>4. ~Pushing(w, t)
  BY <1>1 DEF Pushing
<1>5. ASSUME NEW e \in m_timers, WakeTimer(w, e) PROVE Single(t)'
  <2>1. /\ m_timers' = m_timers \ {e} /\ armed' = armed /\ events' = events
        /\ target'[w] = e.task
    BY <1>0, <1>5 DEF WakeTimer, epollVars
  <2>2. CASE t = e.task
    <3>1. At(<<"timer", e.when>>, t)
      BY <2>2 DEF At
    <3>2. ASSUME NEW x, At(x, t)'
          PROVE  x = <<"push", w>> \/ (At(x, t) /\ x # <<"timer", e.when>>)
      <4>1. CASE \E v \in Threads : x = <<"thread", v>> /\ Holds(v, t)'
        BY <1>2, <4>1 DEF At
      <4>2. CASE \E v \in Threads : x = <<"push", v>> /\ Pushing(v, t)'
        BY <1>2, <1>3, <4>2 DEF At
      <4>3. CASE \E e1 \in m_timers' : x = <<"timer", e1.when>> /\ e1.task = t
        BY <1>0, <2>1, <2>2, <4>3 DEF At
      <4>4. CASE \E g1 \in Fds : x = <<"armed", g1>> /\ armed'[g1] = t
        BY <2>1, <4>4 DEF At
      <4>5. CASE \E v \in Threads, g1 \in Fds :
                  x = <<"event", <<v, g1>>>> /\ <<g1, t>> \in events'[v]
        BY <2>1, <4>5 DEF At
      <4> QED BY <3>2, <4>1, <4>2, <4>3, <4>4, <4>5 DEF At
    <3> QED BY <1>1, <3>1, <3>2, SingleMoves
  <2>3. CASE t # e.task
    <3>1. ~Pushing(w, t)'
      BY <2>1, <2>3 DEF Pushing
    <3>2. \A x : At(x, t)' => At(x, t)
      BY <1>2, <1>3, <2>1, <3>1 DEF At
    <3> QED BY <1>1, <3>2, SingleKept DEF Single, AtMostOne, Outside
  <2> QED BY <2>2, <2>3
<1>6. ASSUME NEW ev \in events[w], WakeEvent(w, ev) PROVE Single(t)'
  <2>1. /\ m_timers' = m_timers /\ armed' = armed
        /\ events' = [events EXCEPT ![w] = @ \ {ev}]
        /\ target'[w] = ev[2]
    BY <1>0, <1>6 DEF WakeEvent, timerVars, epollVars
  <2>2. ev = <<ev[1], ev[2]>> /\ ev[1] \in Fds
    BY <1>0
  <2>3. \A v \in Threads : events'[v] \subseteq events[v]
    BY <1>0, <2>1
  <2>4. ev \notin events'[w]
    BY <1>0, <2>1
  <2>5. CASE t = ev[2]
    <3>1. At(<<"event", <<w, ev[1]>>>>, t)
      BY <2>2, <2>5 DEF At
    <3>2. ASSUME NEW x, At(x, t)'
          PROVE  x = <<"push", w>> \/ (At(x, t) /\ x # <<"event", <<w, ev[1]>>>>)
      <4>1. CASE \E v \in Threads : x = <<"thread", v>> /\ Holds(v, t)'
        BY <1>2, <4>1 DEF At
      <4>2. CASE \E v \in Threads : x = <<"push", v>> /\ Pushing(v, t)'
        BY <1>3, <4>2 DEF At
      <4>3. CASE \E e1 \in m_timers' : x = <<"timer", e1.when>> /\ e1.task = t
        BY <2>1, <4>3 DEF At
      <4>4. CASE \E g1 \in Fds : x = <<"armed", g1>> /\ armed'[g1] = t
        BY <2>1, <4>4 DEF At
      <4>5. CASE \E v \in Threads, g1 \in Fds :
                  x = <<"event", <<v, g1>>>> /\ <<g1, t>> \in events'[v]
        BY <2>2, <2>3, <2>4, <2>5, <4>5 DEF At
      <4> QED BY <3>2, <4>1, <4>2, <4>3, <4>4, <4>5 DEF At
    <3> QED BY <1>1, <3>1, <3>2, SingleMoves
  <2>6. CASE t # ev[2]
    <3>1. ~Pushing(w, t)'
      BY <2>1, <2>6 DEF Pushing
    <3>2. \A x : At(x, t)' => At(x, t)
      BY <1>2, <1>3, <2>1, <2>3, <3>1 DEF At
    <3> QED BY <1>1, <3>2, SingleKept DEF Single, AtMostOne, Outside
  <2> QED BY <2>5, <2>6
<1>7. ASSUME NEW E \in SUBSET ReadyFds, EpollEvents(w, E) PROVE Single(t)'
  <2>1. /\ m_timers' = m_timers /\ target' = target
        /\ armed' = [f \in Fds |-> IF f \in E THEN None ELSE armed[f]]
        /\ events' = [events EXCEPT ![w] = {<<f, armed[f]>> : f \in E}]
        /\ pc'[w] = "events"
    BY <1>0, <1>7 DEF EpollEvents, Disarm, timerVars, Goto
  <2>2. \A f \in Fds : armed'[f] = t => armed[f] = t /\ f \notin E
    BY <1>0, <2>1
  <2>3. \A v \in Threads : v # w => events'[v] = events[v]
    BY <1>0, <2>1
  <2>4. \A f \in Fds : <<f, t>> \in events'[w] => f \in E /\ armed[f] = t
    BY <1>0, <2>1
  <2>5. ~Pushing(w, t)'
    BY <2>1 DEF Pushing
  <2>6. CASE \E g \in E : armed[g] = t
    <3>1. PICK g \in E : armed[g] = t
      BY <2>6
    <3>2. g \in Fds
      BY <1>7 DEF ReadyFds, SafetyInv, TypeOK
    <3>3. At(<<"armed", g>>, t)
      BY <3>1, <3>2 DEF At
    <3>4. \A f \in Fds : armed[f] = t => f = g
      <4>1. ASSUME NEW f \in Fds, armed[f] = t PROVE f = g
        <5>1. At(<<"armed", f>>, t)
          BY <4>1 DEF At
        <5>2. <<"armed", f>> = <<"armed", g>>
          BY <3>3, <5>1 DEF Single, AtMostOne
        <5> QED BY <5>2
      <4> QED BY <4>1
    <3>5. ASSUME NEW x, At(x, t)'
          PROVE  x = <<"event", <<w, g>>>> \/ (At(x, t) /\ x # <<"armed", g>>)
      <4>1. CASE \E v \in Threads : x = <<"thread", v>> /\ Holds(v, t)'
        BY <1>2, <4>1 DEF At
      <4>2. CASE \E v \in Threads : x = <<"push", v>> /\ Pushing(v, t)'
        BY <1>3, <2>5, <4>2 DEF At
      <4>3. CASE \E e1 \in m_timers' : x = <<"timer", e1.when>> /\ e1.task = t
        BY <2>1, <4>3 DEF At
      <4>4. CASE \E g1 \in Fds : x = <<"armed", g1>> /\ armed'[g1] = t
        BY <2>2, <3>1, <3>4, <4>4 DEF At
      <4>5. CASE \E v \in Threads, g1 \in Fds :
                  x = <<"event", <<v, g1>>>> /\ <<g1, t>> \in events'[v]
        BY <2>3, <2>4, <3>1, <3>4, <4>5 DEF At
      <4> QED BY <3>5, <4>1, <4>2, <4>3, <4>4, <4>5 DEF At
    <3> QED BY <1>1, <3>3, <3>5, SingleMoves
  <2>7. CASE ~\E g \in E : armed[g] = t
    <3>1. \A x : At(x, t)' => At(x, t)
      BY <1>2, <1>3, <2>1, <2>2, <2>3, <2>4, <2>5, <2>7 DEF At
    <3> QED BY <1>1, <3>1, SingleKept DEF Single, AtMostOne, Outside
  <2> QED BY <2>6, <2>7
<1> QED BY <1>5, <1>6, <1>7

\* A task that enters the queue was not in it, and leaves where it was.
LEMMA SingleQueued ==
  ASSUME m_tasks \in Seq(Tasks), NEW u \in Tasks, m_tasks' = Append(m_tasks, u),
         NEW t, Single(t), \A x : At(x, t)' => At(x, t),
         t = u => ~Queued(t) /\ ~Outside(t)'
  PROVE  Single(t)'
<1>1. /\ DOMAIN m_tasks = 1 .. Len(m_tasks) /\ DOMAIN m_tasks' = 1 .. Len(m_tasks) + 1
      /\ \A i \in DOMAIN m_tasks : m_tasks'[i] = m_tasks[i]
      /\ m_tasks'[Len(m_tasks) + 1] = u /\ Len(m_tasks) \in Nat
  OBVIOUS
<1>2. \A i \in DOMAIN m_tasks' : i \in DOMAIN m_tasks \/ i = Len(m_tasks) + 1
  BY <1>1
<1>3. CASE t = u
  BY <1>1, <1>2, <1>3 DEF Single, QueuedOnce, Queued, AtMostOne, Outside
<1>4. CASE t # u
  BY <1>1, <1>2, <1>4 DEF Single, QueuedOnce, Queued, AtMostOne, Outside
<1> QED BY <1>3, <1>4

\* A task that leaves the queue is not in it twice.
LEMMA SingleUnqueued ==
  ASSUME m_tasks \in Seq(Tasks), m_tasks # <<>>, m_tasks' = Tail(m_tasks),
         NEW t, Single(t), t # Head(m_tasks) => \A x : At(x, t)' => At(x, t),
         t = Head(m_tasks) => AtMostOne(t)'
  PROVE  Single(t)'
<1>1. /\ DOMAIN m_tasks = 1 .. Len(m_tasks) /\ DOMAIN m_tasks' = 1 .. Len(m_tasks) - 1
      /\ \A i \in DOMAIN m_tasks' : i + 1 \in DOMAIN m_tasks /\ m_tasks'[i] = m_tasks[i + 1]
      /\ Head(m_tasks) = m_tasks[1] /\ 1 \in DOMAIN m_tasks
      /\ Len(m_tasks) \in Nat
  OBVIOUS
<1>2. QueuedOnce(t)'
  BY <1>1 DEF Single, QueuedOnce
<1>3. Queued(t)' => Queued(t)
  BY <1>1 DEF Queued
<1>4. CASE t = Head(m_tasks)
  <2>1. Queued(t) /\ ~Queued(t)'
    BY <1>1, <1>4 DEF Single, QueuedOnce, Queued
  <2> QED BY <1>2, <2>1 DEF Single, AtMostOne, Outside
<1>5. CASE t # Head(m_tasks)
  BY <1>2, <1>3, <1>5 DEF Single, AtMostOne, Outside
<1> QED BY <1>4, <1>5

\* The steps that put a task in the queue or take it out.
LEMMA SingleQueue ==
  ASSUME SafetyInv, KeptWaiting, NEW w \in Threads, TaskMoves(w),
         PushTimer(w) \/ PushEvent(w) \/ Pop(w) \/ Finish(w),
         NEW t \in Tasks, Single(t)
  PROVE  Single(t)'
<1>0. /\ pc \in [Threads -> Labels] /\ p_task \in [Threads -> Tasks \cup {None}]
      /\ m_tasks \in Seq(Tasks)
      /\ \A v \in Threads : pc[v] \in HoldLabels => p_task[v] \in Tasks
      /\ \A v \in Threads : pc[v] \in {"timerPush", "eventPush"} => target[v] \in Tasks
  BY Held
<1>1. UNCHANGED <<parked, m_timers, armed, events, target>>
  BY DEF PushTimer, PushEvent, Pop, Finish, taskVars, timerVars, epollVars, localVars
<1>2. ASSUME NEW v \in Threads, v # w
      PROVE  (Holds(v, t)' => Holds(v, t)) /\ (Pushing(v, t)' => Pushing(v, t))
  BY <1>1, <1>2, OthersSame DEF Holds, Pushing
<1>3. CASE PushTimer(w) \/ PushEvent(w)
  <2> DEFINE u == target[w]
  <2>1. /\ m_tasks' = Append(m_tasks, u) /\ pc[w] \in {"timerPush", "eventPush"}
        /\ pc'[w] \in {"timers", "events"}
    BY <1>0, <1>3 DEF PushTimer, PushEvent, schedule, Goto
  <2>2. u \in Tasks /\ At(<<"push", w>>, u)
    BY <1>0, <2>1 DEF At, Pushing
  <2>3. ~Holds(w, t)' /\ ~Pushing(w, t)'
    BY <2>1 DEF Holds, Pushing
  <2>4. ASSUME NEW x, At(x, t)' PROVE At(x, t) /\ x # <<"push", w>>
    <3>1. CASE \E v \in Threads : x = <<"thread", v>> /\ Holds(v, t)'
      BY <1>2, <2>3, <3>1 DEF At
    <3>2. CASE \E v \in Threads : x = <<"push", v>> /\ Pushing(v, t)'
      BY <1>2, <2>3, <3>2 DEF At
    <3>3. CASE \E e1 \in m_timers' : x = <<"timer", e1.when>> /\ e1.task = t
      BY <1>1, <3>3 DEF At
    <3>4. CASE \E g1 \in Fds : x = <<"armed", g1>> /\ armed'[g1] = t
      BY <1>1, <3>4 DEF At
    <3>5. CASE \E v \in Threads, g1 \in Fds :
                x = <<"event", <<v, g1>>>> /\ <<g1, t>> \in events'[v]
      BY <1>1, <3>5 DEF At
    <3> QED BY <2>4, <3>1, <3>2, <3>3, <3>4, <3>5 DEF At
  <2>5. t = u => ~Queued(t) /\ ~Outside(t)'
    BY <2>2, <2>4 DEF Single, AtMostOne, Outside
  <2> QED BY <1>0, <2>1, <2>2, <2>4, <2>5, SingleQueued
<1>4. CASE Pop(w)
  <2>1. /\ m_tasks # <<>> /\ m_tasks' = Tail(m_tasks) /\ p_task'[w] = Head(m_tasks)
        /\ pc'[w] = "popped"
    BY <1>0, <1>4 DEF Pop, Goto
  <2>2. ~Pushing(w, t)' /\ (Holds(w, t)' => t = Head(m_tasks))
    BY <2>1 DEF Pushing, Holds
  <2>3. ASSUME NEW x, At(x, t)'
        PROVE  At(x, t) \/ (t = Head(m_tasks) /\ x = <<"thread", w>>)
    <3>1. CASE \E v \in Threads : x = <<"thread", v>> /\ Holds(v, t)'
      BY <1>2, <2>2, <3>1 DEF At
    <3>2. CASE \E v \in Threads : x = <<"push", v>> /\ Pushing(v, t)'
      BY <1>2, <2>2, <3>2 DEF At
    <3>3. CASE \E e1 \in m_timers' : x = <<"timer", e1.when>> /\ e1.task = t
      BY <1>1, <3>3 DEF At
    <3>4. CASE \E g1 \in Fds : x = <<"armed", g1>> /\ armed'[g1] = t
      BY <1>1, <3>4 DEF At
    <3>5. CASE \E v \in Threads, g1 \in Fds :
                x = <<"event", <<v, g1>>>> /\ <<g1, t>> \in events'[v]
      BY <1>1, <3>5 DEF At
    <3> QED BY <2>3, <3>1, <3>2, <3>3, <3>4, <3>5 DEF At
  <2>4. t # Head(m_tasks) => \A x : At(x, t)' => At(x, t)
    BY <2>3
  <2>5. t = Head(m_tasks) => AtMostOne(t)'
    <3>1. t = Head(m_tasks) => Queued(t)
      <4>1. Head(m_tasks) = m_tasks[1] /\ 1 \in DOMAIN m_tasks
        BY <1>0, <2>1
      <4> QED BY <4>1 DEF Queued
    <3> QED BY <2>3, <3>1 DEF Single, AtMostOne, Outside
  <2> QED BY <1>0, <2>1, <2>4, <2>5, SingleUnqueued
<1>5. CASE Finish(w)
  <2> DEFINE u == p_task[w]
  <2>1. /\ pc[w] = "finish" /\ pc'[w] = "process" /\ u \in Tasks
        /\ m_tasks' = IF result[w] = "kRun" THEN Append(m_tasks, u) ELSE m_tasks
    BY <1>0, <1>5 DEF Finish, Requeue, Goto, HoldLabels
  <2>2. ~Holds(w, t)' /\ ~Pushing(w, t)'
    BY <2>1 DEF Holds, Pushing
  <2>3. ASSUME NEW x, At(x, t)' PROVE At(x, t) /\ x # <<"thread", w>>
    <3>1. CASE \E v \in Threads : x = <<"thread", v>> /\ Holds(v, t)'
      BY <1>2, <2>2, <3>1 DEF At
    <3>2. CASE \E v \in Threads : x = <<"push", v>> /\ Pushing(v, t)'
      BY <1>2, <2>2, <3>2 DEF At
    <3>3. CASE \E e1 \in m_timers' : x = <<"timer", e1.when>> /\ e1.task = t
      BY <1>1, <3>3 DEF At
    <3>4. CASE \E g1 \in Fds : x = <<"armed", g1>> /\ armed'[g1] = t
      BY <1>1, <3>4 DEF At
    <3>5. CASE \E v \in Threads, g1 \in Fds :
                x = <<"event", <<v, g1>>>> /\ <<g1, t>> \in events'[v]
      BY <1>1, <3>5 DEF At
    <3> QED BY <2>3, <3>1, <3>2, <3>3, <3>4, <3>5 DEF At
  <2>4. CASE result[w] = "kRun"
    <3>1. At(<<"thread", w>>, u)
      BY <2>1, <2>4 DEF KeptWaiting, At, Holds
    <3>2. t = u => ~Queued(t) /\ ~Outside(t)'
      BY <2>3, <3>1 DEF Single, AtMostOne, Outside
    <3> QED BY <1>0, <2>1, <2>3, <2>4, <3>2, SingleQueued
  <2>5. CASE result[w] # "kRun"
    BY <2>1, <2>3, <2>5, SingleKept DEF Single, AtMostOne, Outside
  <2> QED BY <2>4, <2>5
<1> QED BY <1>3, <1>4, <1>5

\* Every step leaves every task single.
LEMMA OneTokenNext ==
  ASSUME SafetyInv, ParkedBody, OneToken, KeptWaiting, NeverWaits, [Next]_vars
  PROVE  OneToken'
<1> SUFFICES ASSUME NEW t \in Tasks PROVE Single(t)'
  <2>1. (OneToken <=> \A t \in Tasks : Single(t))'
    BY OneTokenIsSingle, PTL
  <2> QED BY <2>1
<1>0. Single(t)
  BY OneTokenIsSingle
<1>1. CASE Quiet
  <2>1. \A w \in Threads : /\ Pushing(w, t)' <=> Pushing(w, t)
                           /\ Holds(w, t)' <=> Holds(w, t)
    BY <1>1 DEF Quiet, Circulation, LoopLabels, Pushing, Holds
  <2>2. \A x : At(x, t)' => At(x, t)
    BY <1>1, <2>1 DEF Quiet, Circulation, At
  <2> QED BY <1>0, <1>1, <2>2, SingleKept DEF Quiet, Circulation, Single, AtMostOne, Outside
<1>2. ASSUME NEW u \in Tasks, add(u),
             UNCHANGED <<depth, parked, m_timers, armed, orphaned, pc, p_task, result,
                         events, target>>
      PROVE  Single(t)'
  <2>1. m_tasks' = Append(m_tasks, u) /\ u \notin spawned /\ m_tasks \in Seq(Tasks)
    BY <1>2, Held DEF add
  <2>2. \A x : At(x, t)' => At(x, t)
    BY <1>2 DEF At, Holds, Pushing
  <2>3. ~Queued(u) /\ ~Outside(u)
    <3>1. ~Queued(u) /\ \A w \in Threads : ~Holds(w, u) /\ ~Pushing(w, u)
      BY <2>1 DEF SafetyInv, OnlySpawned, Queued, Holds, Pushing, HoldLabels, BodyLabels
    <3>2. /\ \A e \in m_timers : e.task # u
          /\ \A f \in Fds : armed[f] # u
      BY <2>1, ReactorAssumption DEF SafetyInv, OnlySpawned
    <3>3. \A w \in Threads, f \in Fds : <<f, u>> \notin events[w]
      BY <2>1 DEF SafetyInv, OnlySpawned
    <3> QED BY <3>1, <3>2, <3>3 DEF Outside, At
  <2> QED BY <1>0, <2>1, <2>2, <2>3, SingleQueued DEF Outside
<1>3. ASSUME NEW w \in Threads, TaskMoves(w) PROVE Single(t)'
  <2>1. CASE Keeps(w)
    BY <1>0, <1>3, <2>1, SingleKeeps
  <2>2. CASE \/ \E d \in Delays : StartTimer(w, d)
             \/ pc[w] = "body" /\ \E f \in UsesFd[p_task[w]] : Accept(w, f)
             \/ ArmFd(w)
    BY <1>0, <1>3, <2>2, SingleArms
  <2>3. CASE \/ \E e \in m_timers : WakeTimer(w, e)
             \/ \E ev \in events[w] : WakeEvent(w, ev)
             \/ \E E \in SUBSET ReadyFds : EpollEvents(w, E)
    BY <1>0, <1>3, <2>3, SingleWakes
  <2>4. CASE PushTimer(w) \/ PushEvent(w) \/ Pop(w) \/ Finish(w)
    BY <1>0, <1>3, <2>4, SingleQueue
  <2> QED BY <1>3, <2>1, <2>2, <2>3, <2>4 DEF TaskMoves, Keeps
<1> QED BY <1>1, <1>2, <1>3, StepKinds

\* What OneToken says of the thread that holds a task.
LEMMA HolderOnly ==
  ASSUME OneToken, NEW w \in Threads, NEW t \in Tasks, Holds(w, t)
  PROVE  /\ ~Queued(t)
         /\ \A v \in Threads : ~Pushing(v, t) /\ (Holds(v, t) => v = w)
         /\ \A e \in m_timers : e.task # t
         /\ \A f \in Fds : armed[f] # t
         /\ \A v \in Threads, f \in Fds : <<f, t>> \notin events[v]
<1>1. Single(t) /\ At(<<"thread", w>>, t)
  BY OneTokenIsSingle DEF At
<1>2. \A x : At(x, t) => x = <<"thread", w>>
  BY <1>1 DEF Single, AtMostOne
<1>3. ~Queued(t)
  BY <1>1 DEF Single, Outside
<1>4. ASSUME NEW v \in Threads PROVE ~Pushing(v, t) /\ (Holds(v, t) => v = w)
  <2>1. Pushing(v, t) => At(<<"push", v>>, t)
    BY DEF At
  <2>2. Holds(v, t) => At(<<"thread", v>>, t)
    BY DEF At
  <2>3. Holds(v, t) => <<"thread", v>> = <<"thread", w>>
    BY <1>2, <2>2
  <2>4. <<"push", v>> # <<"thread", w>>
    OBVIOUS
  <2> QED BY <1>2, <2>1, <2>3, <2>4
<1>5. ASSUME NEW e \in m_timers PROVE e.task # t
  <2>1. e.task = t => At(<<"timer", e.when>>, t)
    BY DEF At
  <2>2. <<"timer", e.when>> # <<"thread", w>>
    OBVIOUS
  <2> QED BY <1>2, <2>1, <2>2
<1>6. ASSUME NEW f \in Fds PROVE armed[f] # t
  <2>1. armed[f] = t => At(<<"armed", f>>, t)
    BY DEF At
  <2>2. <<"armed", f>> # <<"thread", w>>
    OBVIOUS
  <2> QED BY <1>2, <2>1, <2>2
<1>7. ASSUME NEW v \in Threads, NEW f \in Fds PROVE <<f, t>> \notin events[v]
  <2>1. <<f, t>> \in events[v] => At(<<"event", <<v, f>>>>, t)
    BY DEF At
  <2>2. <<"event", <<v, f>>>> # <<"thread", w>>
    OBVIOUS
  <2> QED BY <1>2, <2>1, <2>2
<1> QED BY <1>3, <1>4, <1>5, <1>6, <1>7

\* With several threads nobody begins to wait.
LEMMA NeverWaitsNext ==
  ASSUME Sequential, SafetyInv, NeverWaits, [Next]_vars
  PROVE  NeverWaits'
<1> SUFFICES ASSUME ~SingleThread PROVE NeverWaits'
  BY DEF NeverWaits, SingleThread
<1>0. /\ pc \in [Threads -> Labels] /\ p_task \in [Threads -> Tasks \cup {None}]
      /\ parked \in [Tasks -> {"none", "sleep", "fd"}]
      /\ m_state \in [Tasks -> {"kRun", "kWait"}]
      /\ armed \in [Fds -> Tasks \cup {None}]
      /\ \A w \in Threads : pc[w] \in HoldLabels => p_task[w] \in Tasks
  BY Held
<1>1. /\ \A t \in Tasks : parked[t] = "none" /\ m_state[t] = "kRun"
      /\ m_timers = {}
      /\ \A f \in Fds : armed[f] = None
      /\ \A w \in Threads :
           /\ events[w] = {}
           /\ pc[w] \notin {"armTimer", "armFd", "lateWait", "timerPush", "eventPush"}
  BY DEF NeverWaits
<1>2. CASE Quiet
  BY <1>1, <1>2 DEF Quiet, NeverWaits, Circulation, LoopLabels
<1>3. CASE UNCHANGED <<parked, m_state, m_timers, armed, events, pc>>
  BY <1>1, <1>3 DEF NeverWaits
<1>4. ASSUME NEW w \in Threads, TaskMoves(w) PROVE NeverWaits'
  <2>1. ~(Sleep(w) \/ \E f \in UsesFd[p_task[w]] : Read(w, f) \/ Accept(w, f))
    <3>1. pc[w] = "body" => Ops[p_task[w]] \cap {"sleep", "read", "accept"} = {}
      BY <1>0 DEF Sequential, HoldLabels, BodyLabels
    <3> QED BY <3>1 DEF Sleep, Read, Accept, May
  <2>2. ~((\E d \in Delays : StartTimer(w, d)) \/ ArmFd(w) \/ LateWait(w)
          \/ PushTimer(w) \/ PushEvent(w))
    BY <1>1 DEF StartTimer, ArmFd, LateWait, PushTimer, PushEvent
  <2>3. ~((\E e \in m_timers : WakeTimer(w, e)) \/ \E ev \in events[w] : WakeEvent(w, ev))
    BY <1>1
  <2>4. ~\E E \in SUBSET ReadyFds : EpollEvents(w, E)
    <3>1. ReadyFds = {}
      BY <1>1 DEF ReadyFds, SafetyInv, TypeOK
    <3> QED BY <3>1 DEF EpollEvents
  <2>5. Pop(w) \/ IsWaiting(w) \/ AlreadyDone(w) \/ StepWhileWaiting(w) \/ TestWaiting(w)
        \/ Resume(w) \/ ResumeExecuting(w) \/ AwaitTask(w)
        \/ (\E t \in spawned : Get(w, t)) \/ GetReturns(w) \/ Return(w) \/ Suspend(w)
        \/ NotDone(w) \/ ReadState(w) \/ FrameReturned(w) \/ Finish(w)
    BY <1>4, <2>1, <2>2, <2>3, <2>4 DEF TaskMoves
  <2>6. /\ UNCHANGED <<m_state, m_timers, armed, events>>
        /\ \A t \in Tasks : parked'[t] \in {parked[t], "none"}
        /\ pc'[w] \notin {"armTimer", "armFd", "lateWait", "timerPush", "eventPush"}
    <3> USE DEF taskVars, timerVars, epollVars, localVars, Goto
    <3>1. CASE Pop(w) \/ IsWaiting(w) \/ AlreadyDone(w) \/ StepWhileWaiting(w) \/ TestWaiting(w)
               \/ Resume(w) \/ ResumeExecuting(w) \/ AwaitTask(w)
      BY <1>0, <3>1 DEF Pop, IsWaiting, AlreadyDone, StepWhileWaiting, TestWaiting,
         Resume, ResumeExecuting, AwaitTask
    <3>2. CASE (\E t \in spawned : Get(w, t)) \/ GetReturns(w) \/ Return(w) \/ Suspend(w)
               \/ NotDone(w) \/ ReadState(w) \/ FrameReturned(w) \/ Finish(w)
      BY <1>0, <3>2 DEF Get, GetReturns, Return, Suspend, NotDone, ReadState,
         FrameReturned, Finish
    <3> QED BY <2>5, <3>1, <3>2
  <2>7. \A v \in Threads : v # w => pc'[v] = pc[v]
    BY <1>4, OthersSame
  <2> QED BY <1>1, <2>6, <2>7 DEF NeverWaits
<1> QED BY <1>2, <1>3, <1>4, StepKinds

\* With one thread nothing stores kRun between wait() and process_tasks().
LEMMA KeptWaitingNext ==
  ASSUME SafetyInv, SafetyInv', ParkedBody, KeptWaiting, NeverWaits', [Next]_vars
  PROVE  KeptWaiting'
<1>0. /\ pc \in [Threads -> Labels] /\ p_task \in [Threads -> Tasks \cup {None}]
      /\ parked \in [Tasks -> {"none", "sleep", "fd"}]
      /\ m_state \in [Tasks -> {"kRun", "kWait"}]
      /\ result \in [Threads -> {"kRun", "kWait", "kDone"}]
      /\ \A w \in Threads : pc[w] \in HoldLabels => p_task[w] \in Tasks
  BY Held DEF SafetyInv, TypeOK
<1>1. CASE ~SingleThread
  <2>1. \A w \in Threads : pc'[w] \in HoldLabels => p_task'[w] \in Tasks
    BY Held DEF SafetyInv, TypeOK, OnlySpawned
  <2>2. \A t \in Tasks : parked'[t] = "none"
    BY <1>1 DEF NeverWaits, SingleThread
  <2> QED BY <2>1, <2>2 DEF KeptWaiting, HoldLabels, BodyLabels
<1>2. CASE SingleThread
  <2>1. CASE Quiet
    BY <2>1 DEF Quiet, KeptWaiting, Circulation, LoopLabels
  <2>2. CASE UNCHANGED <<parked, m_state, pc, p_task, result>>
    BY <2>2 DEF KeptWaiting
  <2>3. ASSUME NEW w \in Threads, TaskMoves(w) PROVE KeptWaiting'
    <3>1. Threads = {w}
      BY <1>2 DEF SingleThread
    <3> SUFFICES ASSUME parked'[p_task'[w]] # "none"
                 PROVE  /\ pc'[w] \in {"armTimer", "armFd", "suspending", "suspended", "load"} =>
                             m_state'[p_task'[w]] = "kWait"
                        /\ pc'[w] = "finish" => result'[w] # "kRun"
      BY <3>1 DEF KeptWaiting
    <3> USE <1>0 DEF Goto, taskVars, localVars, HoldLabels, BodyLabels
    <3>2. CASE (\E e \in m_timers : WakeTimer(w, e)) \/ PushTimer(w)
               \/ (\E E \in SUBSET ReadyFds : EpollEvents(w, E))
               \/ (\E ev \in events[w] : WakeEvent(w, ev)) \/ PushEvent(w)
               \/ Pop(w) \/ IsWaiting(w) \/ AlreadyDone(w)
               \/ TestWaiting(w) \/ Resume(w) \/ ResumeExecuting(w)
      BY <3>2 DEF WakeTimer, PushTimer, EpollEvents, WakeEvent, PushEvent, Pop, IsWaiting,
         AlreadyDone, TestWaiting, Resume, ResumeExecuting
    <3>3. CASE StepWhileWaiting(w)
      BY <3>3 DEF StepWhileWaiting
    <3>4. CASE AwaitTask(w) \/ Return(w)
      <4>1. pc[w] = "body" /\ UNCHANGED <<parked, p_task>>
        BY <3>4 DEF AwaitTask, Return, May
      <4> QED BY <4>1 DEF ParkedBody
    <3>5. CASE Sleep(w) \/ \E f \in UsesFd[p_task[w]] : Read(w, f)
      BY <3>5 DEF Sleep, Read, May, SetWait
    <3>6. CASE (\E d \in Delays : StartTimer(w, d)) \/ ArmFd(w)
      BY <3>6 DEF StartTimer, ArmFd, KeptWaiting
    <3>7. CASE LateWait(w)
      BY <3>7 DEF LateWait, SetWait
    <3>8. CASE (\E f \in UsesFd[p_task[w]] : Accept(w, f))
               \/ (\E t \in spawned : Get(w, t)) \/ GetReturns(w) \/ Finish(w)
      BY <3>8 DEF Accept, Get, GetReturns, Finish
    <3>9. CASE Suspend(w) \/ NotDone(w) \/ ReadState(w) \/ FrameReturned(w)
      BY <3>9 DEF Suspend, NotDone, ReadState, FrameReturned, KeptWaiting
    <3> QED BY <2>3, <3>2, <3>3, <3>4, <3>5, <3>6, <3>7, <3>8, <3>9 DEF TaskMoves
  <2> QED BY <2>1, <2>2, <2>3, StepKinds
<1> QED BY <1>1, <1>2

\* Several threads, none of them waiting: what executes a frame holds it.
LEMMA ExecutorHolds ==
  ASSUME SafetyInv, NeverWaits, NEW v \in Threads, NEW w \in Threads, v # w,
         NEW u \in Threads, pc[u] \in BodyLabels \cup {"resume", "suspended"}
  PROVE  Holds(u, p_task[u])
BY Several, Held DEF Holds, BodyLabels, HoldLabels

\* Nobody adds or ends a frame of a task that another thread holds.
LEMMA CurrentFrameNext ==
  ASSUME SafetyInv, OneToken, CurrentFrame, NeverWaits, [Next]_vars
  PROVE  CurrentFrame'
<1>0. /\ pc \in [Threads -> Labels] /\ p_task \in [Threads -> Tasks \cup {None}]
      /\ depth \in [Tasks -> 0 .. MaxDepth] /\ MaxDepth \in Nat
      /\ curr \in [Threads -> 0 .. MaxDepth]
      /\ \A w \in Threads : pc[w] \in HoldLabels => p_task[w] \in Tasks
  BY Held, ReactorAssumption DEF SafetyInv, TypeOK
<1>1. CASE Quiet
  BY <1>1 DEF Quiet, CurrentFrame, Circulation, LoopLabels, BodyLabels
<1>2. CASE UNCHANGED <<depth, pc, p_task, curr>>
  BY <1>2 DEF CurrentFrame
<1>3. ASSUME NEW w \in Threads, TaskMoves(w) PROVE CurrentFrame'
  <2> USE DEF Goto, schedVars, taskVars, localVars
  <2>1. \/ UNCHANGED depth
        \/ /\ pc[w] = "body"
           /\ \A t \in Tasks : t # p_task[w] => depth'[t] = depth[t]
    <3>1. CASE AwaitTask(w) \/ Return(w)
      BY <1>0, <3>1 DEF AwaitTask, May, Return
    <3>2. CASE (\E e \in m_timers : WakeTimer(w, e)) \/ PushTimer(w)
               \/ (\E E \in SUBSET ReadyFds : EpollEvents(w, E))
               \/ (\E ev \in events[w] : WakeEvent(w, ev)) \/ PushEvent(w)
               \/ Pop(w) \/ IsWaiting(w) \/ AlreadyDone(w) \/ StepWhileWaiting(w)
               \/ TestWaiting(w) \/ Resume(w) \/ ResumeExecuting(w) \/ Sleep(w)
               \/ (\E d \in Delays : StartTimer(w, d))
               \/ (\E f \in UsesFd[p_task[w]] : Read(w, f) \/ Accept(w, f))
      BY <3>2 DEF WakeTimer, PushTimer, EpollEvents, WakeEvent, PushEvent, Pop, IsWaiting,
         AlreadyDone, StepWhileWaiting, TestWaiting, Resume, ResumeExecuting, Sleep,
         StartTimer, Read, Accept
    <3>3. CASE ArmFd(w) \/ LateWait(w) \/ (\E t \in spawned : Get(w, t)) \/ GetReturns(w)
               \/ Suspend(w) \/ NotDone(w) \/ ReadState(w) \/ FrameReturned(w) \/ Finish(w)
      BY <3>3 DEF ArmFd, LateWait, Get, GetReturns, Suspend, NotDone, ReadState,
         FrameReturned, Finish
    <3> QED BY <1>3, <3>1, <3>2, <3>3 DEF TaskMoves
  <2>2. ASSUME NEW v \in Threads, v # w
        PROVE  /\ pc'[v] = "resume" => depth'[p_task'[v]] = curr'[v] /\ curr'[v] > 0
               /\ pc'[v] \in BodyLabels \cup {"suspended"} => depth'[p_task'[v]] >= curr'[v]
    <3>1. pc'[v] = pc[v] /\ p_task'[v] = p_task[v] /\ curr'[v] = curr[v]
      BY <1>3, <2>2, OthersSame
    <3>2. CASE pc[v] \in BodyLabels \cup {"resume", "suspended"}
      <4>1. p_task[v] \in Tasks
        BY <1>0, <3>2 DEF HoldLabels
      <4>2. pc[w] = "body" => p_task[w] # p_task[v]
        BY <2>2, <3>2, <4>1, ExecutorHolds, HolderOnly DEF BodyLabels
      <4> QED BY <2>1, <3>1, <4>1, <4>2 DEF CurrentFrame
    <3> QED BY <3>1, <3>2
  <2>3. /\ pc'[w] = "resume" => depth'[p_task'[w]] = curr'[w] /\ curr'[w] > 0
        /\ pc'[w] \in BodyLabels \cup {"suspended"} => depth'[p_task'[w]] >= curr'[w]
    <3> USE DEF BodyLabels, HoldLabels
    <3>1. CASE (\E e \in m_timers : WakeTimer(w, e)) \/ PushTimer(w)
               \/ (\E E \in SUBSET ReadyFds : EpollEvents(w, E))
               \/ (\E ev \in events[w] : WakeEvent(w, ev)) \/ PushEvent(w)
               \/ Pop(w) \/ IsWaiting(w) \/ AlreadyDone(w) \/ ResumeExecuting(w)
               \/ NotDone(w) \/ ReadState(w) \/ FrameReturned(w) \/ Finish(w)
      BY <1>0, <3>1 DEF WakeTimer, PushTimer, EpollEvents, WakeEvent, PushEvent, Pop,
         IsWaiting, AlreadyDone, ResumeExecuting, NotDone, ReadState, FrameReturned, Finish
    <3>2. CASE StepWhileWaiting(w) \/ TestWaiting(w)
      BY <1>0, <3>2 DEF StepWhileWaiting, TestWaiting
    <3>3. CASE Resume(w)
      BY <1>0, <3>3 DEF Resume, Resumable
    <3>4. CASE AwaitTask(w)
      BY <1>0, <3>4 DEF AwaitTask, May, CurrentFrame
    <3>5. CASE Return(w)
      BY <1>0, <3>5 DEF Return
    <3>6. CASE Sleep(w) \/ (\E d \in Delays : StartTimer(w, d))
               \/ (\E f \in UsesFd[p_task[w]] : Read(w, f) \/ Accept(w, f))
               \/ ArmFd(w) \/ LateWait(w)
      <4>1. UNCHANGED <<depth, p_task, curr>> /\ pc[w] \in BodyLabels /\ pc'[w] # "resume"
        BY <1>0, <3>6 DEF Sleep, StartTimer, Read, Accept, ArmFd, LateWait, May
      <4> QED BY <4>1 DEF CurrentFrame
    <3>7. CASE (\E t \in spawned : Get(w, t)) \/ GetReturns(w) \/ Suspend(w)
      <4>1. UNCHANGED <<depth, p_task, curr>> /\ pc[w] \in BodyLabels /\ pc'[w] # "resume"
        BY <1>0, <3>7 DEF Get, GetReturns, Suspend, May
      <4> QED BY <4>1 DEF CurrentFrame
    <3> QED BY <1>3, <3>1, <3>2, <3>3, <3>4, <3>5, <3>6, <3>7 DEF TaskMoves
  <2> QED BY <2>2, <2>3 DEF CurrentFrame
<1> QED BY <1>1, <1>2, <1>3, StepKinds

\* No thread resumes a frame that another one executes or has completed.
LEMMA NoUBNext ==
  ASSUME SafetyInv, OneToken, NoUB, CurrentFrame, NeverWaits, [Next]_vars
  PROVE  NoUB'
<1>0. pc \in [Threads -> Labels] /\ \A w \in Threads : pc[w] \in HoldLabels => p_task[w] \in Tasks
  BY Held
<1>1. CASE Quiet
  BY <1>1 DEF Quiet, NoUB, LoopLabels
<1>2. CASE UNCHANGED pc
  BY <1>2 DEF NoUB
<1>3. ASSUME NEW w \in Threads, TaskMoves(w) PROVE NoUB'
  <2>1. ~ResumeExecuting(w)
    <3> SUFFICES ASSUME pc[w] = "resume" PROVE Resumable(w, p_task[w])
      BY DEF ResumeExecuting
    <3>1. depth[p_task[w]] = curr[w] /\ curr[w] > 0 /\ p_task[w] \in Tasks
      BY <1>0 DEF CurrentFrame, HoldLabels
    <3>2. ASSUME NEW v \in Threads, Executing(v, p_task[w]) PROVE FALSE
      <4>1. v # w
        BY <3>2 DEF Executing, BodyLabels
      <4>2. Holds(v, p_task[w]) /\ Holds(w, p_task[w])
        BY <3>2, <4>1, ExecutorHolds DEF Executing
      <4> QED BY <3>1, <4>1, <4>2, HolderOnly
    <3> QED BY <3>1, <3>2 DEF Resumable
  <2>2. ~FrameReturned(w)
    <3>1. pc[w] = "suspended" => depth[p_task[w]] >= curr[w]
      BY DEF CurrentFrame
    <3>2. pc[w] = "suspended" => p_task[w] \in Tasks
      BY <1>0 DEF HoldLabels
    <3> QED BY <3>1, <3>2, ReactorAssumption DEF FrameReturned, SafetyInv, TypeOK
  <2>3. pc'[w] # "ub"
    <3> USE <1>0 DEF Goto
    <3>1. CASE (\E e \in m_timers : WakeTimer(w, e)) \/ PushTimer(w)
               \/ (\E E \in SUBSET ReadyFds : EpollEvents(w, E))
               \/ (\E ev \in events[w] : WakeEvent(w, ev)) \/ PushEvent(w)
               \/ Pop(w) \/ IsWaiting(w) \/ AlreadyDone(w) \/ StepWhileWaiting(w)
               \/ TestWaiting(w) \/ Resume(w) \/ AwaitTask(w) \/ Sleep(w)
      BY <3>1 DEF WakeTimer, PushTimer, EpollEvents, WakeEvent, PushEvent, Pop, IsWaiting,
         AlreadyDone, StepWhileWaiting, TestWaiting, Resume, AwaitTask, Sleep
    <3>2. CASE (\E d \in Delays : StartTimer(w, d))
               \/ (\E f \in UsesFd[p_task[w]] : Read(w, f) \/ Accept(w, f))
               \/ ArmFd(w) \/ LateWait(w) \/ (\E t \in spawned : Get(w, t)) \/ GetReturns(w)
               \/ Return(w) \/ Suspend(w) \/ NotDone(w) \/ ReadState(w) \/ Finish(w)
      BY <3>2 DEF StartTimer, Read, Accept, ArmFd, LateWait, Get, GetReturns, Return,
         Suspend, NotDone, ReadState, Finish
    <3> QED BY <1>3, <2>1, <2>2, <3>1, <3>2 DEF TaskMoves
  <2> QED BY <1>3, <2>3, OthersSame DEF NoUB
<1> QED BY <1>1, <1>2, <1>3, StepKinds

\* A task that an overlapped refers to is not resumed by anything else.
LEMMA NoDanglingNext ==
  ASSUME SafetyInv, ParkedBody, OneToken, NoDanglingOverlapped, [Next]_vars
  PROVE  NoDanglingOverlapped'
<1>0. /\ parked \in [Tasks -> {"none", "sleep", "fd"}]
      /\ fd \in [Tasks -> Fds \cup {None}]
      /\ events \in [Threads -> SUBSET (Fds \X Tasks)]
      /\ armed \in [Fds -> Tasks \cup {None}] /\ None \notin Tasks
      /\ \A w \in Threads : pc[w] \in HoldLabels => p_task[w] \in Tasks
  BY Held DEF SafetyInv, TypeOK
<1> SUFFICES ASSUME NEW t \in Tasks, NEW f \in Fds,
                    armed'[f] = t \/ \E v \in Threads : <<f, t>> \in events'[v]
             PROVE  parked'[t] = "fd" /\ fd'[t] = f
  BY DEF NoDanglingOverlapped
<1> DEFINE Refers == armed[f] = t \/ \E v \in Threads : <<f, t>> \in events[v]
<1>1. Refers => parked[t] = "fd" /\ fd[t] = f
  BY DEF NoDanglingOverlapped
<1>2. CASE UNCHANGED Circulation
  BY <1>1, <1>2 DEF Circulation
<1>3. CASE UNCHANGED <<parked, fd, armed, events>>
  BY <1>1, <1>3
<1>4. ASSUME NEW w \in Threads, TaskMoves(w) PROVE parked'[t] = "fd" /\ fd'[t] = f
  <2> USE DEF Goto, taskVars, epollVars, localVars
  <2>1. CASE Resume(w) \/ Sleep(w) \/ \E g \in UsesFd[p_task[w]] : Read(w, g)
    <3>1. /\ UNCHANGED <<armed, events>> /\ Holds(w, p_task[w]) /\ p_task[w] \in Tasks
          /\ \A u \in Tasks : u # p_task[w] => parked'[u] = parked[u] /\ fd'[u] = fd[u]
      BY <1>0, <2>1 DEF Resume, Sleep, Read, May, Holds, HoldLabels, BodyLabels
    <3>2. t # p_task[w]
      BY <3>1, HolderOnly
    <3> QED BY <1>1, <3>1, <3>2
  <2>2. ASSUME NEW g \in UsesFd[p_task[w]], pc[w] = "body", Accept(w, g)
        PROVE  parked'[t] = "fd" /\ fd'[t] = f
    <3> DEFINE u == p_task[w]
    <3>1. /\ events' = events /\ Holds(w, u) /\ u \in Tasks
          /\ parked' = [parked EXCEPT ![u] = "fd"] /\ fd' = [fd EXCEPT ![u] = g]
          /\ EpollCtl(u, g)
      BY <1>0, <2>2 DEF Accept, May, Holds, HoldLabels, BodyLabels
    <3>2. \A h \in Fds : armed'[h] = armed[h] \/ (h = g /\ armed'[h] = u)
      BY <1>0, <3>1 DEF EpollCtl
    <3>3. CASE t = u
      <4>1. ~Refers
        BY <3>1, <3>3, HolderOnly
      <4>2. f = g
        BY <3>1, <3>2, <4>1
      <4> QED BY <1>0, <3>1, <3>3, <4>2
    <3>4. CASE t # u
      BY <1>0, <1>1, <3>1, <3>2, <3>4
    <3> QED BY <3>3, <3>4
  <2>3. CASE ArmFd(w)
    <3> DEFINE u == p_task[w]
    <3>1. UNCHANGED <<events, parked, fd>> /\ EpollCtl(u, fd[u]) /\ u \in Tasks
          /\ pc[w] = "armFd"
      BY <1>0, <2>3 DEF ArmFd, HoldLabels, BodyLabels
    <3>2. parked[u] = "fd"
      BY <3>1 DEF ParkedBody
    <3>3. armed'[f] = armed[f] \/ (f = fd[u] /\ armed'[f] = u)
      BY <1>0, <3>1 DEF EpollCtl
    <3> QED BY <1>1, <3>1, <3>2, <3>3
  <2>4. ASSUME NEW E \in SUBSET ReadyFds, EpollEvents(w, E)
        PROVE  parked'[t] = "fd" /\ fd'[t] = f
    <3>1. /\ UNCHANGED <<parked, fd>>
          /\ armed' = [g \in Fds |-> IF g \in E THEN None ELSE armed[g]]
          /\ events' = [events EXCEPT ![w] = {<<g, armed[g]>> : g \in E}]
      BY <2>4 DEF EpollEvents, Disarm
    <3>2. armed'[f] = t => armed[f] = t
      BY <1>0, <3>1
    <3>3. \A v \in Threads : <<f, t>> \in events'[v] => <<f, t>> \in events[v] \/ armed[f] = t
      BY <1>0, <3>1
    <3> QED BY <1>1, <3>1, <3>2, <3>3
  <2>5. ASSUME UNCHANGED <<parked, fd, armed>>,
               \A v \in Threads : events'[v] \subseteq events[v]
        PROVE  parked'[t] = "fd" /\ fd'[t] = f
    BY <1>1, <2>5
  <2>6. CASE \E ev \in events[w] : WakeEvent(w, ev)
    BY <1>0, <2>5, <2>6 DEF WakeEvent
  <2>7. CASE (\E e \in m_timers : WakeTimer(w, e)) \/ PushTimer(w) \/ PushEvent(w)
             \/ Pop(w) \/ IsWaiting(w) \/ AlreadyDone(w) \/ StepWhileWaiting(w)
             \/ TestWaiting(w) \/ ResumeExecuting(w) \/ AwaitTask(w)
             \/ (\E d \in Delays : StartTimer(w, d)) \/ LateWait(w)
    BY <2>5, <2>7 DEF WakeTimer, PushTimer, PushEvent, Pop, IsWaiting, AlreadyDone,
       StepWhileWaiting, TestWaiting, ResumeExecuting, AwaitTask, StartTimer, LateWait
  <2>8. CASE (\E u \in spawned : Get(w, u)) \/ GetReturns(w) \/ Return(w) \/ Suspend(w)
             \/ NotDone(w) \/ ReadState(w) \/ FrameReturned(w) \/ Finish(w)
    BY <2>5, <2>8 DEF Get, GetReturns, Return, Suspend, NotDone, ReadState, FrameReturned,
       Finish
  <2> QED BY <1>4, <2>1, <2>2, <2>3, <2>4, <2>6, <2>7, <2>8 DEF TaskMoves
<1> QED BY <1>2, <1>3, <1>4, StepKinds DEF Quiet

\* The clock only advances, and get_delay() uses what it has read of it.
LEMMA ClockNext ==
  ASSUME SafetyInv, [Next]_vars
  PROVE  now <= now' /\ \A w \in Threads : tnow'[w] \in {tnow[w], now}
<1>0. now \in Nat /\ tnow \in [Threads -> Nat]
  BY DEF SafetyInv, TypeOK
<1> USE DEF schedVars, taskVars, timerVars, epollVars, localVars
<1>1. CASE UNCHANGED vars \/ Tick \/ (\E f \in Fds : BecomeReady(f))
           \/ wait_for_all \/ Destroy \/ Join
  BY <1>0, <1>1 DEF vars, Tick, BecomeReady, wait_for_all, Destroy, Join
<1>2. CASE \E t \in Roots : SpawnRoot(t)
  BY <1>0, <1>2 DEF SpawnRoot
<1>3. ASSUME NEW w \in Threads, Loops(w)
      PROVE  now <= now' /\ \A v \in Threads : tnow'[v] \in {tnow[v], now}
  BY <1>0, <1>3 DEF Loops, CheckActive, ReadClock, LockTimers, EndDelay, ChooseWait,
     EpollTimeout, EndEvents, CheckRunning, Drained
<1>4. ASSUME NEW w \in Threads, TaskMoves(w) PROVE now' = now /\ tnow' = tnow
  <2>1. CASE (\E e \in m_timers : WakeTimer(w, e)) \/ PushTimer(w)
             \/ (\E E \in SUBSET ReadyFds : EpollEvents(w, E))
             \/ (\E ev \in events[w] : WakeEvent(w, ev)) \/ PushEvent(w)
             \/ Pop(w) \/ IsWaiting(w) \/ AlreadyDone(w) \/ StepWhileWaiting(w)
             \/ TestWaiting(w) \/ Resume(w) \/ ResumeExecuting(w)
    BY <2>1 DEF WakeTimer, PushTimer, EpollEvents, WakeEvent, PushEvent, Pop, IsWaiting,
       AlreadyDone, StepWhileWaiting, TestWaiting, Resume, ResumeExecuting
  <2>2. CASE AwaitTask(w) \/ Sleep(w) \/ (\E d \in Delays : StartTimer(w, d))
             \/ (\E f \in UsesFd[p_task[w]] : Read(w, f) \/ Accept(w, f))
             \/ ArmFd(w) \/ LateWait(w)
    BY <2>2 DEF AwaitTask, Sleep, StartTimer, Read, Accept, ArmFd, LateWait
  <2>3. CASE (\E t \in spawned : Get(w, t)) \/ GetReturns(w) \/ Return(w) \/ Suspend(w)
             \/ NotDone(w) \/ ReadState(w) \/ FrameReturned(w) \/ Finish(w)
    BY <2>3 DEF Get, GetReturns, Return, Suspend, NotDone, ReadState, FrameReturned, Finish
  <2> QED BY <1>4, <2>1, <2>2, <2>3 DEF TaskMoves
<1>5. ASSUME NEW w \in Threads, NEW t \in Tasks, SpawnTask(w, t)
      PROVE  now' = now /\ tnow' = tnow
  BY <1>5 DEF SpawnTask
<1> QED BY <1>0, <1>1, <1>2, <1>3, <1>4, <1>5, Steps DEF TaskMoves

\* What a thread does to the waiting of a task: begins it, and ends it.
LEMMA WaitSteps ==
  ASSUME SafetyInv, NEW w \in Threads, TaskMoves(w), NEW t \in Tasks
  PROVE  /\ parked'[t] = "sleep" /\ parked[t] # "sleep" => Sleep(w) /\ p_task[w] = t
         /\ parked[t] = "sleep" /\ parked'[t] = "none" => Resume(w) /\ p_task[w] = t
         /\ until'[t] # until[t] =>
              p_task[w] = t /\ \E d \in Delays : StartTimer(w, d)
         /\ \A e \in m_timers' : e \in m_timers \/
              (e.task = p_task[w] /\ \E d \in Delays : StartTimer(w, d) /\ e.when = until'[p_task[w]])
<1>0. /\ pc \in [Threads -> Labels]
      /\ parked \in [Tasks -> {"none", "sleep", "fd"}] /\ until \in [Tasks -> Nat]
      /\ \A v \in Threads : pc[v] \in HoldLabels => p_task[v] \in Tasks
  BY Held DEF SafetyInv, TypeOK
<1> DEFINE u == p_task[w]
           Goal == /\ parked'[t] = "sleep" /\ parked[t] # "sleep" => Sleep(w) /\ u = t
                   /\ parked[t] = "sleep" /\ parked'[t] = "none" => Resume(w) /\ u = t
                   /\ until'[t] # until[t] =>
                        u = t /\ \E d \in Delays : StartTimer(w, d)
                   /\ \A e \in m_timers' : e \in m_timers \/
                        (e.task = u /\ \E d \in Delays : StartTimer(w, d) /\ e.when = until'[u])
<1> USE DEF schedVars, taskVars, timerVars, epollVars, localVars
<1>1. ASSUME UNCHANGED <<parked, until>>, m_timers' \subseteq m_timers PROVE Goal
  BY <1>1
<1>2. CASE (\E e \in m_timers : WakeTimer(w, e)) \/ PushTimer(w)
           \/ (\E E \in SUBSET ReadyFds : EpollEvents(w, E))
           \/ (\E ev \in events[w] : WakeEvent(w, ev)) \/ PushEvent(w)
           \/ Pop(w) \/ IsWaiting(w) \/ AlreadyDone(w) \/ StepWhileWaiting(w)
           \/ TestWaiting(w) \/ ResumeExecuting(w) \/ AwaitTask(w)
  <2>1. UNCHANGED <<parked, until>> /\ m_timers' \subseteq m_timers
    BY <1>2 DEF WakeTimer, PushTimer, EpollEvents, WakeEvent, PushEvent, Pop, IsWaiting,
       AlreadyDone, StepWhileWaiting, TestWaiting, ResumeExecuting, AwaitTask
  <2> QED BY <1>1, <2>1
<1>3. CASE ArmFd(w) \/ LateWait(w)
           \/ (\E v \in spawned : Get(w, v)) \/ GetReturns(w) \/ Return(w) \/ Suspend(w)
           \/ NotDone(w) \/ ReadState(w) \/ FrameReturned(w) \/ Finish(w)
  <2>1. UNCHANGED <<parked, until>> /\ m_timers' \subseteq m_timers
    BY <1>3 DEF ArmFd, LateWait, Get, GetReturns, Return, Suspend, NotDone, ReadState,
       FrameReturned, Finish
  <2> QED BY <1>1, <2>1
<1>4. CASE Resume(w) \/ Sleep(w)
  <2>1. /\ UNCHANGED <<until, m_timers>>
        /\ \E k \in {"none", "sleep"} : /\ parked' = [parked EXCEPT ![u] = k]
                                        /\ k = "none" => Resume(w)
                                        /\ k = "sleep" => Sleep(w)
    BY <1>4 DEF Resume, Sleep
  <2> QED BY <1>0, <2>1
<1>5. CASE \E f \in UsesFd[p_task[w]] : Read(w, f) \/ Accept(w, f)
  <2>1. UNCHANGED <<until, m_timers>> /\ parked' = [parked EXCEPT ![u] = "fd"]
    BY <1>5 DEF Read, Accept
  <2> QED BY <1>0, <2>1
<1>6. ASSUME NEW d \in Delays, StartTimer(w, d) PROVE Goal
  <2>1. /\ parked' = parked /\ until' = [until EXCEPT ![u] = now + d] /\ u \in Tasks
        /\ \A e \in m_timers' : e \in m_timers \/ (e.task = u /\ e.when = now + d)
    BY <1>0, <1>6 DEF StartTimer, InsertTimer, HoldLabels, BodyLabels
  <2>2. until'[u] = now + d /\ (t # u => until'[t] = until[t])
    BY <1>0, <2>1
  <2> QED BY <1>6, <2>1, <2>2
<1> HIDE DEF Goal
<1>7. CASE \E d \in Delays : StartTimer(w, d)
  BY <1>6, <1>7 DEF Goal
<1>8. CASE \E f \in UsesFd[p_task[w]] : Read(w, f) \/ Accept(w, f)
  BY <1>5, <1>8
<1>9. Goal
  BY <1>2, <1>3, <1>4, <1>7, <1>8 DEF TaskMoves, Goal
<1> QED BY <1>9 DEF Goal

\* A sleeping task becomes due only when its timer is found to be due.
LEMMA DueNext ==
  ASSUME SafetyInv, ParkedBody, NoDanglingOverlapped, KeptWaiting,
         NEW w \in Threads, TaskMoves(w), NEW t \in Tasks,
         parked[t] = "sleep", parked'[t] = "sleep", Due(t)'
  PROVE  Due(t) \/ \E e \in m_timers : WakeTimer(w, e) /\ e.task = t
<1>0. /\ pc \in [Threads -> Labels] /\ p_task \in [Threads -> Tasks \cup {None}]
      /\ parked \in [Tasks -> {"none", "sleep", "fd"}]
      /\ target \in [Threads -> Tasks \cup {None}]
      /\ events \in [Threads -> SUBSET (Fds \X Tasks)]
      /\ m_tasks \in Seq(Tasks)
      /\ \A v \in Threads : pc[v] \in HoldLabels => p_task[v] \in Tasks
  BY Held DEF SafetyInv, TypeOK
<1> USE DEF Goto, schedVars, taskVars, localVars
<1>1. ASSUME NEW v \in Threads, v # w, Pushing(v, t)' \/ (Holds(v, t)' /\ pc'[v] # "armTimer")
      PROVE  Due(t)
  BY <1>1, OthersSame DEF Pushing, Holds, Due
<1>2. ASSUME m_tasks' = m_tasks, Queued(t)' PROVE Due(t)
  BY <1>2 DEF Queued, Due
<1>3. ASSUME m_tasks' = m_tasks, ~Pushing(w, t)', Holds(w, t)' /\ pc'[w] # "armTimer" => Due(t)
      PROVE  Due(t)
  BY <1>1, <1>2, <1>3 DEF Due
<1>4. CASE PushTimer(w) \/ PushEvent(w)
  <2>1. /\ m_tasks' = Append(m_tasks, target[w]) /\ pc[w] \in {"timerPush", "eventPush"}
        /\ pc'[w] \in {"timers", "events"}
    BY <1>0, <1>4 DEF PushTimer, PushEvent, schedule
  <2>2. CASE target[w] = t
    BY <2>1, <2>2 DEF Due, Pushing
  <2>3. CASE target[w] # t
    <3>1. Queued(t)' => Queued(t)
      BY <1>0, <2>1, <2>3 DEF Queued
    <3>2. ~Pushing(w, t)' /\ ~Holds(w, t)'
      BY <2>1 DEF Pushing, Holds
    <3> QED BY <1>1, <3>1, <3>2 DEF Due
  <2> QED BY <2>2, <2>3
<1>5. CASE Pop(w)
  <2>1. /\ m_tasks # <<>> /\ m_tasks' = Tail(m_tasks) /\ p_task'[w] = Head(m_tasks)
        /\ pc'[w] = "popped"
    BY <1>0, <1>5 DEF Pop
  <2>2. Head(m_tasks) = m_tasks[1] /\ 1 \in DOMAIN m_tasks
    BY <1>0, <2>1
  <2>3. Queued(t)' => Queued(t)
    <3>1. \A i \in DOMAIN m_tasks' : i + 1 \in DOMAIN m_tasks /\ m_tasks'[i] = m_tasks[i + 1]
      BY <1>0, <2>1
    <3> QED BY <3>1 DEF Queued
  <2>4. ~Pushing(w, t)' /\ (Holds(w, t)' => Queued(t))
    BY <2>1, <2>2 DEF Pushing, Holds, Queued
  <2> QED BY <1>1, <2>3, <2>4 DEF Due
<1>6. CASE Finish(w)
  <2>1. /\ pc[w] = "finish" /\ pc'[w] = "process"
        /\ m_tasks' = IF result[w] = "kRun" THEN Append(m_tasks, p_task[w]) ELSE m_tasks
    BY <1>0, <1>6 DEF Finish, Requeue
  <2>2. result[w] = "kRun" => p_task[w] # t /\ p_task[w] \in Tasks
    BY <1>0, <2>1 DEF KeptWaiting, HoldLabels
  <2>3. Queued(t)' => Queued(t)
    BY <1>0, <2>1, <2>2 DEF Queued
  <2>4. ~Pushing(w, t)' /\ ~Holds(w, t)'
    BY <2>1 DEF Pushing, Holds
  <2> QED BY <1>1, <2>3, <2>4 DEF Due
<1>7. ASSUME NEW e \in m_timers, WakeTimer(w, e), e.task # t PROVE Due(t)
  BY <1>0, <1>3, <1>7 DEF WakeTimer, Pushing, Holds
<1>8. ASSUME NEW ev \in events[w], WakeEvent(w, ev) PROVE Due(t)
  <2>1. ev = <<ev[1], ev[2]>> /\ ev[1] \in Fds
    BY <1>0
  <2>2. ev[2] # t
    BY <2>1 DEF NoDanglingOverlapped
  <2> QED BY <1>0, <1>3, <1>8, <2>2 DEF WakeEvent, Pushing, Holds
<1>9. CASE (\E E \in SUBSET ReadyFds : EpollEvents(w, E)) \/ IsWaiting(w) \/ AlreadyDone(w)
           \/ StepWhileWaiting(w) \/ TestWaiting(w) \/ ResumeExecuting(w)
           \/ LateWait(w) \/ ArmFd(w) \/ (\E d \in Delays : StartTimer(w, d))
  <2>1. /\ m_tasks' = m_tasks /\ p_task' = p_task
        /\ pc'[w] \in {"events", "process", "step", "finish", "suspended", "resume", "ub",
                       "suspending"}
        /\ pc'[w] \in {"step", "resume"} => pc[w] \in {"popped", "step"}
    BY <1>0, <1>9 DEF EpollEvents, IsWaiting, AlreadyDone, StepWhileWaiting, TestWaiting,
       ResumeExecuting, LateWait, ArmFd, StartTimer
  <2> QED BY <1>3, <2>1 DEF Pushing, Holds, Due
<1>10. CASE AwaitTask(w) \/ Sleep(w) \/ Return(w) \/ GetReturns(w)
            \/ (\E u \in spawned : Get(w, u)) \/ Resume(w)
            \/ \E f \in UsesFd[p_task[w]] : Read(w, f) \/ Accept(w, f)
  <2>1. /\ m_tasks' = m_tasks /\ p_task' = p_task
        /\ pc'[w] \notin {"timerPush", "eventPush"}
        /\ pc[w] \in {"body", "get"} \/ Resume(w)
    BY <1>0, <1>10 DEF AwaitTask, Sleep, Return, GetReturns, Get, Resume, Read, Accept, May
  <2>2. p_task[w] # t
    <3>1. pc[w] \in {"body", "get"} => p_task[w] # t
      BY DEF ParkedBody
    <3>2. Resume(w) => p_task[w] # t
      BY <1>0 DEF Resume
    <3> QED BY <2>1, <3>1, <3>2
  <2> QED BY <1>3, <2>1, <2>2 DEF Pushing, Holds
<1>11. CASE Suspend(w) \/ NotDone(w) \/ ReadState(w) \/ FrameReturned(w)
  <2>1. /\ m_tasks' = m_tasks /\ pc'[w] \in {"suspended", "load", "finish", "ub"}
    BY <1>0, <1>11 DEF Suspend, NotDone, ReadState, FrameReturned
  <2> QED BY <1>3, <2>1 DEF Pushing, Holds
<1>12. CASE (\E e \in m_timers : WakeTimer(w, e)) \/ \E ev \in events[w] : WakeEvent(w, ev)
  BY <1>7, <1>8, <1>12
<1> QED BY <1>4, <1>5, <1>6, <1>9, <1>10, <1>11, <1>12 DEF TaskMoves

\* A sleeping task is due only after its deadline.
LEMMA DeadlinesNext ==
  ASSUME SafetyInv, ParkedBody, OneToken, NoDanglingOverlapped, KeptWaiting, NeverWaits,
         Deadlines, [Next]_vars
  PROVE  Deadlines'
<1>0. /\ now \in Nat /\ now' \in Nat /\ tnow \in [Threads -> Nat] /\ tnow' \in [Threads -> Nat]
      /\ until \in [Tasks -> Nat]
      /\ m_tasks \in Seq(Tasks) /\ pc \in [Threads -> Labels]
      /\ \A v \in Threads : pc[v] \in HoldLabels => p_task[v] \in spawned
  BY TypeStep, Held DEF SafetyInv, TypeOK
<1>1. now <= now' /\ \A w \in Threads : tnow'[w] <= now'
  <2>1. now <= now' /\ \A w \in Threads : tnow[w] <= now /\ tnow'[w] \in {tnow[w], now}
    BY ClockNext DEF Deadlines
  <2>2. ASSUME NEW w \in Threads PROVE tnow'[w] <= now'
    <3>1. tnow[w] \in Nat /\ tnow[w] <= now /\ tnow'[w] \in {tnow[w], now}
      BY <1>0, <2>1
    <3>2. now \in Nat /\ now' \in Nat /\ now <= now'
      BY <1>0, <2>1
    <3> HIDE <1>0, <2>1
    <3> QED BY <3>1, <3>2
  <2> QED BY <2>1, <2>2
<1> DEFINE Right(t) == /\ t \in spawned'
                       /\ \A e \in m_timers' : e.task = t => e.when = until'[t]
                       /\ Due(t)' => until'[t] <= now'
<1> SUFFICES ASSUME NEW t \in Tasks, parked'[t] = "sleep" PROVE Right(t)
  BY <1>1 DEF Deadlines
<1>2. ASSUME parked[t] = "sleep", spawned \subseteq spawned', until' = until,
             m_timers' = m_timers, Due(t)' => Due(t)
      PROVE  Right(t)
  BY <1>0, <1>1, <1>2 DEF Deadlines
<1>3. CASE Quiet
  <2>1. \A w \in Threads : /\ Pushing(w, t)' <=> Pushing(w, t)
                           /\ Holds(w, t)' <=> Holds(w, t)
                           /\ Holds(w, t) => (pc'[w] = pc[w])
    BY <1>3 DEF Quiet, Circulation, LoopLabels, Pushing, Holds
  <2> QED BY <1>2, <1>3, <2>1 DEF Quiet, Circulation, Due, Queued
<1>4. ASSUME NEW u \in Tasks, add(u),
             UNCHANGED <<parked, until, m_timers, pc, p_task, target>>
      PROVE  Right(t)
  <2>1. u # t /\ parked[t] = "sleep" /\ m_tasks' = Append(m_tasks, u)
        /\ spawned \subseteq spawned'
    BY <1>4 DEF Deadlines, add
  <2>2. Queued(t)' => Queued(t)
    BY <1>0, <2>1 DEF Queued
  <2> QED BY <1>2, <1>4, <2>1, <2>2 DEF Due, Holds, Pushing
<1>5. ASSUME NEW w \in Threads, TaskMoves(w) PROVE Right(t)
  <2>0. spawned' = spawned
    BY <1>5, FrameSteps
  <2>1. CASE parked[t] # "sleep"
    <3>1. Sleep(w) /\ p_task[w] = t
      BY <1>5, <2>1, WaitSteps
    <3>2. /\ UNCHANGED <<m_tasks, m_timers>> /\ p_task[w] = t /\ pc[w] = "body"
          /\ pc'[w] = "armTimer" /\ t \in spawned
      BY <1>0, <3>1 DEF Sleep, May, schedVars, timerVars, Goto, HoldLabels, BodyLabels
    <3>3. Holds(w, t)
      BY <3>2 DEF Holds
    <3>4. ~Due(t)'
      <4>1. ~Queued(t)'
        BY <3>2, <3>3, HolderOnly DEF Queued
      <4>2. ~Pushing(w, t)'
        BY <3>2 DEF Pushing
      <4>3. ASSUME NEW v \in Threads, v # w PROVE ~Pushing(v, t)' /\ ~Holds(v, t)'
        <5>1. pc'[v] = pc[v] /\ p_task'[v] = p_task[v] /\ target'[v] = target[v]
          BY <1>5, <4>3, OthersSame
        <5>2. ~Pushing(v, t) /\ ~Holds(v, t)
          BY <3>3, <4>3, HolderOnly
        <5> QED BY <5>1, <5>2 DEF Pushing, Holds
      <4> QED BY <3>2, <4>1, <4>2, <4>3 DEF Due
    <3>5. \A e \in m_timers' : e.task # t
      BY <3>2, <3>3, HolderOnly
    <3> QED BY <2>0, <3>2, <3>4, <3>5
  <2>2. ASSUME parked[t] = "sleep", NEW d \in Delays, StartTimer(w, d), p_task[w] = t
        PROVE  Right(t)
    <3>1. /\ UNCHANGED <<m_tasks, p_task>> /\ pc[w] = "armTimer" /\ pc'[w] = "suspending"
      BY <1>0, <2>2 DEF StartTimer, schedVars, localVars, Goto
    <3>2. Holds(w, t)
      BY <2>2, <3>1 DEF Holds
    <3>3. ~Due(t)'
      <4>1. ~Queued(t)'
        BY <3>1, <3>2, HolderOnly DEF Queued
      <4>2. ~Pushing(w, t)' /\ ~Holds(w, t)'
        BY <3>1 DEF Pushing, Holds
      <4>3. ASSUME NEW v \in Threads, v # w PROVE ~Pushing(v, t)' /\ ~Holds(v, t)'
        <5>1. pc'[v] = pc[v] /\ p_task'[v] = p_task[v] /\ target'[v] = target[v]
          BY <1>5, <4>3, OthersSame
        <5>2. ~Pushing(v, t) /\ ~Holds(v, t)
          BY <3>2, <4>3, HolderOnly
        <5> QED BY <2>2, <5>1, <5>2 DEF Pushing, Holds
      <4> QED BY <4>1, <4>2, <4>3 DEF Due
    <3>4. \A e \in m_timers' : e.task = t => e.when = until'[t]
      BY <1>5, <2>2, <3>2, HolderOnly, WaitSteps
    <3> QED BY <2>0, <2>2, <3>3, <3>4 DEF Deadlines
  <2>3. ASSUME parked[t] = "sleep", p_task[w] # t \/ ~\E d \in Delays : StartTimer(w, d)
        PROVE  Right(t)
    <3>1. until'[t] = until[t]
      BY <1>5, <2>3, WaitSteps
    <3>2. \A e \in m_timers' : e.task = t => e.when = until'[t]
      BY <1>5, <2>3, <3>1, WaitSteps DEF Deadlines
    <3>3. Due(t)' => until[t] <= now
      <4>1. ASSUME NEW e \in m_timers, WakeTimer(w, e), e.task = t PROVE until[t] <= now
        <5>1. e.when <= tnow[w] /\ tnow[w] <= now /\ e.when = until[t]
          BY <2>3, <4>1 DEF Deadlines, WakeTimer, IsDue
        <5> QED BY <1>0, <5>1
      <4> QED BY <1>5, <2>3, <4>1, DueNext DEF Deadlines
    <3> QED BY <1>0, <1>1, <2>0, <2>3, <3>1, <3>2, <3>3 DEF Deadlines
  <2> QED BY <2>1, <2>2, <2>3
<1> QED BY <1>3, <1>4, <1>5, StepKinds

\* Where a program has one thread, or no task of it ever waits, what makes a
\* task run exists once; nothing is resumed twice or before its time.  The
\* parts depend on each other: curr.resume() finds a frame that nobody else
\* executes because the token is the only one (OneToken), and the token stays
\* the only one because process_tasks() requeues no waiting task
\* (KeptWaiting).
THEOREM SequentialInvariant ==
  ASSUME Sequential
  PROVE  Spec => []SeqInv
<1>1. Init => SeqInv
  <2> SUFFICES ASSUME Init PROVE SeqInv
    OBVIOUS
  <2>1. None \notin Tasks /\ Main \in Threads
    BY ReactorAssumption
  <2>2. \A t \in Tasks : Single(t)
    BY <2>1 DEF Init, Single, QueuedOnce, AtMostOne, Outside, At, Queued, Holds, Pushing
  <2>3. OneToken
    BY <2>2, OneTokenIsSingle
  <2>4. NoUB /\ NoDanglingOverlapped
    BY <2>1 DEF Init, NoUB, NoDanglingOverlapped
  <2>5. KeptWaiting /\ CurrentFrame /\ NeverWaits /\ Deadlines
    BY DEF Init, KeptWaiting, CurrentFrame, NeverWaits, Deadlines, BodyLabels
  <2> QED BY <2>3, <2>4, <2>5 DEF SeqInv
<1>2. /\ SafetyInv /\ SafetyInv' /\ WakeInv /\ SeqInv /\ [Next]_vars
      => SeqInv'
  <2> SUFFICES ASSUME SafetyInv, SafetyInv', WakeInv, SeqInv, [Next]_vars
               PROVE  SeqInv'
    OBVIOUS
  <2> USE DEF SeqInv
  <2>1. ParkedBody
    BY DEF WakeInv
  <2>2. OneToken'
    BY <2>1, OneTokenNext
  <2>3. NeverWaits'
    BY NeverWaitsNext
  <2>4. KeptWaiting'
    BY <2>1, <2>3, KeptWaitingNext
  <2>5. CurrentFrame' /\ NoUB'
    BY CurrentFrameNext, NoUBNext
  <2>6. NoDanglingOverlapped'
    BY <2>1, NoDanglingNext
  <2>7. Deadlines'
    BY <2>1, DeadlinesNext
  <2> QED BY <2>2, <2>3, <2>4, <2>5, <2>6, <2>7
<1> QED BY <1>1, <1>2, SafetyInvariant, WakeInvariant, PTL DEF Spec

\* A task is never in two of the queue, the timers, the epoll set and the
\* hands of a thread, with one thread or when nobody waits.
THEOREM TokensAreSingle ==
  ASSUME Sequential
  PROVE  Spec => []OneToken
<1>1. SeqInv => OneToken
  BY DEF SeqInv
<1> QED BY <1>1, SequentialInvariant, PTL

\* No two threads execute a coroutine, and none uses a frame that another one
\* has completed: with one thread, and with any number of them when no task
\* waits for time or for a descriptor.
THEOREM NobodyResumesTwice ==
  ASSUME Sequential
  PROVE  Spec => []NoConcurrentResume
<1>1. SeqInv => NoConcurrentResume
  BY DEF SeqInv, NoConcurrentResume
<1> QED BY <1>1, SequentialInvariant, PTL

\* The overlapped that epoll_wait() returns is alive, and its task waits for
\* that descriptor.
THEOREM OverlappedIsAlive ==
  ASSUME Sequential
  PROVE  Spec => []NoDanglingOverlapped
<1>1. SeqInv => NoDanglingOverlapped
  BY DEF SeqInv
<1> QED BY <1>1, SequentialInvariant, PTL

\* A coroutine in co_await sleep(d) is resumed after d at the earliest.
THEOREM SleepLastsLongEnough ==
  ASSUME Sequential
  PROVE  Spec => SleepNotShort
<1>1. SafetyInv /\ SeqInv /\ [Next]_vars =>
        [\A t \in Tasks :
           parked[t] = "sleep" /\ parked'[t] = "none" => until[t] <= now]_vars
  <2> SUFFICES ASSUME SafetyInv, SeqInv, [Next]_vars, NEW t \in Tasks,
                      parked[t] = "sleep", parked'[t] = "none"
               PROVE  until[t] <= now
    OBVIOUS
  <2>1. ~UNCHANGED parked
    OBVIOUS
  <2>2. PICK w \in Threads : TaskMoves(w)
    BY <2>1, StepKinds DEF Quiet, Circulation
  <2>3. Resume(w) /\ p_task[w] = t
    BY <2>2, WaitSteps
  <2>4. Holds(w, t) /\ pc[w] # "armTimer"
    BY <2>3 DEF Resume, Holds
  <2> QED BY <2>4 DEF SeqInv, Deadlines, Due
<1> QED BY <1>1, SafetyInvariant, SequentialInvariant, PTL DEF Spec, SleepNotShort

-----------------------------------------------------------------------------
(* How a task can be lost.                                                 *)

\* Who is in the timer pool is asleep.
TimersAsleep == \A e \in m_timers : parked[e.task] = "sleep"

\* With one thread nothing takes the registration that accept() or connect()
\* has made before its late wait().
LateRegistered ==
  SingleThread => \A w \in Threads : pc[w] = "lateWait" =>
    p_task[w] \in orphaned \/ armed[fd[p_task[w]]] = p_task[w]

\* A task that leaves its sleep is resumed, and has no timer then.
LEMMA TimersAsleepNext ==
  ASSUME SafetyInv, SafetyInv', ParkedBody, OneToken, TimersAsleep, [Next]_vars
  PROVE  TimersAsleep'
<1>a. \A e \in m_timers : e.task \in Tasks
  BY DEF SafetyInv, TypeOK
<1>b. \A e \in m_timers' : e.task \in Tasks
  BY DEF SafetyInv, TypeOK
<1>0. /\ \A e \in m_timers : e.task \in Tasks
      /\ \A e \in m_timers' : e.task \in Tasks
      /\ parked \in [Tasks -> {"none", "sleep", "fd"}]
      /\ \A w \in Threads : pc[w] \in HoldLabels => p_task[w] \in Tasks
  BY <1>a, <1>b, Held
<1>1. CASE Quiet
  BY <1>1 DEF Quiet, Circulation, TimersAsleep
<1>2. CASE UNCHANGED <<parked, m_timers>>
  BY <1>2 DEF TimersAsleep
<1>3. ASSUME NEW w \in Threads, TaskMoves(w), NEW e \in m_timers' PROVE parked'[e.task] = "sleep"
  <2>1. CASE e \notin m_timers
    <3>1. e.task = p_task[w] /\ \E d \in Delays : StartTimer(w, d)
      BY <1>0, <1>3, <2>1, WaitSteps
    <3> QED BY <3>1 DEF StartTimer, ParkedBody
  <2>2. CASE e \in m_timers
    <3>1. parked[e.task] = "sleep" /\ e.task \in Tasks
      BY <1>0, <2>2 DEF TimersAsleep
    <3>2. parked'[e.task] # "none"
      <4>1. ASSUME Resume(w), p_task[w] = e.task PROVE FALSE
        <5>1. Holds(w, e.task)
          BY <4>1 DEF Resume, Holds
        <5> QED BY <2>2, <3>1, <5>1, HolderOnly
      <4> QED BY <1>3, <3>1, <4>1, WaitSteps
    <3>3. parked'[e.task] # "fd"
      <4>1. CASE \E f \in UsesFd[p_task[w]] : Read(w, f) \/ Accept(w, f)
        <5>1. pc[w] = "body" /\ parked' = [parked EXCEPT ![p_task[w]] = "fd"]
          BY <4>1 DEF Read, Accept, May
        <5> QED BY <1>0, <3>1, <5>1 DEF ParkedBody
      <4>2. CASE Sleep(w) \/ Resume(w)
        <5>1. \E k \in {"none", "sleep"} : parked' = [parked EXCEPT ![p_task[w]] = k]
          BY <4>2 DEF Sleep, Resume
        <5> QED BY <1>0, <3>1, <5>1
      <4>3. CASE (\E o \in m_timers : WakeTimer(w, o)) \/ PushTimer(w)
                 \/ (\E E \in SUBSET ReadyFds : EpollEvents(w, E))
                 \/ (\E ev \in events[w] : WakeEvent(w, ev)) \/ PushEvent(w)
                 \/ Pop(w) \/ IsWaiting(w) \/ AlreadyDone(w) \/ StepWhileWaiting(w)
                 \/ TestWaiting(w) \/ ResumeExecuting(w) \/ AwaitTask(w)
        <5>1. parked' = parked
          BY <4>3 DEF WakeTimer, PushTimer, EpollEvents, WakeEvent, PushEvent, Pop,
             IsWaiting, AlreadyDone, StepWhileWaiting, TestWaiting, ResumeExecuting,
             AwaitTask, taskVars
        <5> QED BY <3>1, <5>1
      <4>4. CASE (\E d \in Delays : StartTimer(w, d)) \/ ArmFd(w) \/ LateWait(w)
                 \/ (\E v \in spawned : Get(w, v)) \/ GetReturns(w) \/ Return(w)
                 \/ Suspend(w) \/ NotDone(w) \/ ReadState(w) \/ FrameReturned(w)
                 \/ Finish(w)
        <5>1. parked' = parked
          BY <4>4 DEF StartTimer, ArmFd, LateWait, Get, GetReturns, Return, Suspend,
             NotDone, ReadState, FrameReturned, Finish, taskVars
        <5> QED BY <3>1, <5>1
      <4> QED BY <1>3, <4>1, <4>2, <4>3, <4>4 DEF TaskMoves
    <3>4. parked'[e.task] \in {"none", "sleep", "fd"}
      BY <3>1 DEF SafetyInv, TypeOK
    <3> QED BY <3>2, <3>3, <3>4
  <2> QED BY <2>1, <2>2
<1>4. (\E w \in Threads : TaskMoves(w)) => TimersAsleep'
  BY <1>3 DEF TimersAsleep
<1> QED BY <1>1, <1>2, <1>4, StepKinds

\* The only thread goes from the registration to the late wait().
LEMMA LateRegisteredNext ==
  ASSUME SafetyInv, ParkedBody, LateRegistered, [Next]_vars
  PROVE  LateRegistered'
<1> SUFFICES ASSUME SingleThread, NEW w \in Threads, pc'[w] = "lateWait"
             PROVE  p_task'[w] \in orphaned' \/ armed'[fd'[p_task'[w]]] = p_task'[w]
  BY DEF LateRegistered
<1>0. /\ pc \in [Threads -> Labels] /\ armed \in [Fds -> Tasks \cup {None}]
      /\ fd \in [Tasks -> Fds \cup {None}] /\ UsesFd \in [Tasks -> SUBSET Fds]
      /\ \A v \in Threads : pc[v] \in HoldLabels => p_task[v] \in Tasks
      /\ \A v \in Threads : v = w
  BY Held, ReactorAssumption DEF SafetyInv, TypeOK, SingleThread
<1>1. CASE Quiet
  BY <1>1 DEF Quiet, Circulation, LateRegistered, LoopLabels
<1>2. CASE UNCHANGED <<pc, p_task, orphaned, armed, fd>>
  BY <1>2 DEF LateRegistered
<1>3. CASE TaskMoves(w)
  <2> USE DEF Goto
  <2>1. CASE \E f \in UsesFd[p_task[w]] : pc[w] = "body" /\ Accept(w, f)
    <3>1. PICK f \in UsesFd[p_task[w]] : pc[w] = "body" /\ Accept(w, f)
      BY <2>1
    <3>2. p_task[w] \in Tasks /\ f \in Fds
      BY <1>0, <3>1 DEF HoldLabels, BodyLabels
    <3>3. /\ p_task' = p_task /\ fd'[p_task[w]] = f
          /\ \/ armed' = [armed EXCEPT ![f] = p_task[w]]
             \/ orphaned' = orphaned \cup {p_task[w]}
      BY <1>0, <3>1, <3>2 DEF Accept, EpollCtl, localVars
    <3> QED BY <1>0, <3>2, <3>3
  <2>2. CASE \E f \in UsesFd[p_task[w]] : Read(w, f)
    BY <1>0, <2>2 DEF Read
  <2>3. CASE (\E o \in m_timers : WakeTimer(w, o)) \/ PushTimer(w)
             \/ (\E E \in SUBSET ReadyFds : EpollEvents(w, E))
             \/ (\E ev \in events[w] : WakeEvent(w, ev)) \/ PushEvent(w)
             \/ Pop(w) \/ IsWaiting(w) \/ AlreadyDone(w) \/ StepWhileWaiting(w)
             \/ TestWaiting(w) \/ Resume(w) \/ ResumeExecuting(w) \/ AwaitTask(w)
             \/ Sleep(w)
    BY <1>0, <2>3 DEF WakeTimer, PushTimer, EpollEvents, WakeEvent, PushEvent, Pop,
       IsWaiting, AlreadyDone, StepWhileWaiting, TestWaiting, Resume, ResumeExecuting,
       AwaitTask, Sleep
  <2>4. CASE (\E d \in Delays : StartTimer(w, d)) \/ ArmFd(w) \/ LateWait(w)
             \/ (\E v \in spawned : Get(w, v)) \/ GetReturns(w) \/ Return(w)
             \/ Suspend(w) \/ NotDone(w) \/ ReadState(w) \/ FrameReturned(w)
             \/ Finish(w)
    BY <1>0, <2>4 DEF StartTimer, ArmFd, LateWait, Get, GetReturns, Return, Suspend,
       NotDone, ReadState, FrameReturned, Finish
  <2> QED BY <1>3, <2>1, <2>2, <2>3, <2>4 DEF TaskMoves
<1> QED BY <1>0, <1>1, <1>2, <1>3, StepKinds

\* The invariants behind LossIsExplained.
THEOREM LossInvariant ==
  ASSUME Sequential
  PROVE  Spec => [](TimersAsleep /\ LateRegistered)
<1>1. Init => TimersAsleep /\ LateRegistered
  BY DEF Init, TimersAsleep, LateRegistered
<1>2. /\ SafetyInv /\ SafetyInv' /\ WakeInv /\ SeqInv
      /\ TimersAsleep /\ LateRegistered /\ [Next]_vars
      => TimersAsleep' /\ LateRegistered'
  BY TimersAsleepNext, LateRegisteredNext DEF WakeInv, SeqInv
<1> QED BY <1>1, <1>2, SafetyInvariant, WakeInvariant, SequentialInvariant, PTL DEF Spec

\* A wake-up is thrown away in three ways only, with one thread: by the timer
\* of another sleeper with the same deadline, by another task that registers
\* the descriptor the victim waits for, or by the task's own failed epoll_ctl.
THEOREM LossesAreExplained ==
  ASSUME Sequential
  PROVE  Spec => LossIsExplained
<1>1. SafetyInv /\ WakeInv /\ SeqInv /\ TimersAsleep /\ LateRegistered /\ [Next]_vars =>
        [\A t \in orphaned' \ orphaned :
           SameDeadline(t) \/ Displaced(t) \/ NotRegistered(t)]_vars
  <2> SUFFICES ASSUME SafetyInv, WakeInv, SeqInv, TimersAsleep, LateRegistered, [Next]_vars,
                      NEW t \in orphaned' \ orphaned
               PROVE  SameDeadline(t) \/ Displaced(t) \/ NotRegistered(t)
    OBVIOUS
  <2>0. /\ armed \in [Fds -> Tasks \cup {None}] /\ fd \in [Tasks -> Fds \cup {None}]
        /\ parked \in [Tasks -> {"none", "sleep", "fd"}] /\ until \in [Tasks -> Nat]
        /\ UsesFd \in [Tasks -> SUBSET Fds] /\ None \notin Tasks
        /\ \A e \in m_timers : e.task \in Tasks
        /\ \A v \in Threads : pc[v] \in HoldLabels => p_task[v] \in Tasks
        /\ ParkedBody
    BY Held, ReactorAssumption DEF SafetyInv, TypeOK, WakeInv
  <2>1. PICK w \in Threads : TaskMoves(w)
    BY StepKinds DEF Quiet, Circulation
  <2> DEFINE u == p_task[w]
  <2>2. CASE \E d \in Delays : StartTimer(w, d)
    <3>1. PICK d \in Delays : StartTimer(w, d)
      BY <2>2
    <3>2. pc[w] = "armTimer" /\ u \in Tasks /\ Holds(w, u) /\ Executing(w, u)
      BY <2>0, <3>1 DEF StartTimer, HoldLabels, BodyLabels, Holds, Executing
    <3>3. t = u /\ \E e \in m_timers : e.when = now + d
      BY <3>1 DEF StartTimer, InsertTimer
    <3>4. PICK e \in m_timers : e.when = now + d
      BY <3>3
    <3>5. until'[u] = now + d
      BY <2>0, <3>1, <3>2 DEF StartTimer
    <3>6. e.task # u
      BY <3>2, HolderOnly DEF SeqInv
    <3>7. parked[e.task] = "sleep" /\ until[e.task] = e.when
      BY <2>0 DEF TimersAsleep, SeqInv, Deadlines
    <3> QED BY <3>2, <3>3, <3>4, <3>5, <3>6, <3>7 DEF SameDeadline
  <2>3. ASSUME NEW f \in Fds, u \in Tasks, pc[w] \in {"body", "armFd"}, EpollCtl(u, f),
               parked'[u] = "fd", fd'[u] = f, SingleThread
        PROVE  Displaced(t) \/ NotRegistered(t)
    <3>1. Executing(w, u)
      BY <2>3 DEF Executing, BodyLabels
    <3>2. CASE armed' = armed /\ orphaned' = orphaned \cup {u}
      BY <2>3, <3>1, <3>2 DEF NotRegistered
    <3>3. CASE /\ armed' = [armed EXCEPT ![f] = u]
               /\ orphaned' = orphaned \cup ({armed[f]} \ {None, u})
      <4>1. armed[f] = t /\ t # None /\ t # u /\ t \in Tasks /\ armed'[f] = u
        BY <2>0, <3>3
      <4>2. parked[t] = "fd" /\ fd[t] = f
        BY <4>1 DEF SeqInv, NoDanglingOverlapped
      <4>3. \A v \in Threads : ~Executing(v, t)
        BY <2>3, <4>1 DEF Executing, SingleThread
      <4> QED BY <2>0, <2>3, <4>1, <4>2, <4>3 DEF Displaced
    <3> QED BY <2>3, <3>2, <3>3 DEF EpollCtl
  <2>4. CASE pc[w] = "body" /\ \E f \in UsesFd[u] : Accept(w, f)
    <3>1. PICK f \in UsesFd[u] : Accept(w, f)
      BY <2>4
    <3>2. u \in Tasks /\ f \in Fds
      BY <2>0, <2>4 DEF HoldLabels, BodyLabels
    <3>3. EpollCtl(u, f) /\ parked'[u] = "fd" /\ fd'[u] = f /\ "accept" \in Ops[u]
      BY <2>0, <3>1, <3>2 DEF Accept, May
    <3>4. SingleThread
      BY <3>2, <3>3 DEF Sequential
    <3> QED BY <2>3, <2>4, <3>2, <3>3, <3>4
  <2>5. CASE ArmFd(w)
    <3>1. pc[w] = "armFd" /\ u \in Tasks /\ EpollCtl(u, fd[u]) /\ parked' = parked /\ fd' = fd
      BY <2>0, <2>5 DEF ArmFd, HoldLabels, BodyLabels, taskVars
    <3>2. parked[u] = "fd" /\ fd[u] \in Fds
      BY <2>0, <3>1 DEF ParkedBody
    <3>3. SingleThread
      BY <3>1 DEF SeqInv, NeverWaits
    <3> QED BY <2>3, <3>1, <3>2, <3>3
  <2>6. CASE LateWait(w)
    <3>1. pc[w] = "lateWait" /\ t = u /\ armed[fd[u]] # u
      BY <2>6 DEF LateWait, Delivered
    <3>2. SingleThread
      BY <3>1 DEF SeqInv, NeverWaits
    <3> QED BY <3>1, <3>2 DEF LateRegistered
  <2>7. CASE (\E o \in m_timers : WakeTimer(w, o)) \/ PushTimer(w)
             \/ (\E E \in SUBSET ReadyFds : EpollEvents(w, E))
             \/ (\E ev \in events[w] : WakeEvent(w, ev)) \/ PushEvent(w)
             \/ Pop(w) \/ IsWaiting(w) \/ AlreadyDone(w) \/ StepWhileWaiting(w)
             \/ TestWaiting(w) \/ Resume(w) \/ ResumeExecuting(w) \/ AwaitTask(w)
             \/ Sleep(w) \/ (\E f \in UsesFd[u] : Read(w, f))
    <3>1. orphaned' = orphaned
      BY <2>7 DEF WakeTimer, PushTimer, EpollEvents, WakeEvent, PushEvent, Pop,
         IsWaiting, AlreadyDone, StepWhileWaiting, TestWaiting, Resume, ResumeExecuting,
         AwaitTask, Sleep, Read
    <3> QED BY <3>1
  <2>8. CASE (\E v \in spawned : Get(w, v)) \/ GetReturns(w) \/ Return(w)
             \/ Suspend(w) \/ NotDone(w) \/ ReadState(w) \/ FrameReturned(w)
             \/ Finish(w)
    <3>1. orphaned' = orphaned
      BY <2>8 DEF Get, GetReturns, Return, Suspend, NotDone, ReadState, FrameReturned,
         Finish
    <3> QED BY <3>1
  <2> QED BY <2>1, <2>2, <2>4, <2>5, <2>6, <2>7, <2>8 DEF TaskMoves
<1> QED BY <1>1, SafetyInvariant, WakeInvariant, SequentialInvariant, LossInvariant, PTL
        DEF Spec, LossIsExplained
=============================================================================
