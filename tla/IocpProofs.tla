---------------------------- MODULE IocpProofs ----------------------------
(***************************************************************************)
(* Theorems about Iocp, for every number of threads and tasks, every       *)
(* program and every size of a transfer.                                   *)
(*                                                                         *)
(* The parts of the invariant.  IocpTypeOK: the types.  AnswersInv: what   *)
(* stands for a task that has not repeated an accept (its request, the     *)
(* packet that answers it, its queue entry or the thread that executes it) *)
(* is there once at most, and not less while the task is suspended in an   *)
(* operation.  TransferInv: the bytes an operation has counted are those   *)
(* the kernel has moved, up to the request that is open.  ShutdownInv: the *)
(* chain of wake-ups is not broken by a thread that is about to wait.      *)
(***************************************************************************)
EXTENDS Iocp, FiniteSetTheorems, TLAPS

Labels == {"main", "check", "delay", "wait", "running", "process", "step",
           "finish", "notify", "returned", "joining", "joined", "ub"}

Ats == {"root", "start", "pending", "done"}
Frames == [at : Ats, op : Calls \cup {"compute"}, frame : Nat, total : Nat,
           issued : Nat]
OverlappedSet == [success : BOOLEAN, bytes : Nat]
RequestSet == [task : Tasks, frame : Nat, id : Nat, size : Nat]
PacketSet == [task : Tasks \cup {None}, frame : Nat, success : BOOLEAN,
              bytes : Nat]

IocpTypeOK ==
  /\ program \in Programs
  /\ m_tasks \in Seq(Tasks)
  /\ spawned \subseteq Tasks
  /\ m_state \in [Tasks -> {"kRun", "kWait"}]
  /\ co \in [Tasks -> Frames]
  /\ overlapped \in [Tasks -> OverlappedSet]
  /\ inflight \subseteq RequestSet
  /\ port \in Seq(PacketSet)
  /\ pc \in [Threads -> Labels]
  /\ p_task \in [Threads -> Tasks \cup {None}]
  /\ result \in [Threads -> {"kRun", "kWait", "kDone"}]
  /\ moved \in [Tasks -> Nat]
  /\ last \in [Tasks -> Int]
  /\ respun \subseteq Tasks

\* The task a thread is busy with is one that has been spawned.
BusyWithTask ==
  \A w \in Threads : pc[w] \in {"step", "finish"} => p_task[w] \in spawned

-----------------------------------------------------------------------------
(* What stands for a task.                                                 *)

InQueue(q, t) == \E i \in DOMAIN q : q[i] = t
OnceInQueue(q, t) == \A i, j \in DOMAIN q : q[i] = t /\ q[j] = t => i = j

OnPort(q, t) == \E i \in DOMAIN q : q[i].task = t
OnceOnPort(q, t) == \A i, j \in DOMAIN q : q[i].task = t /\ q[j].task = t => i = j

InKernel(R, t) == \E r \in R : r.task = t
OnceInKernel(R, t) == \A r, s \in R : r.task = t /\ s.task = t => r = s

\* The thread executes the task, or is going to queue it again.
Executes(w, t) ==
  /\ p_task[w] = t
  /\ pc[w] = "step" \/ (pc[w] = "finish" /\ result[w] = "kRun")

Executed(t) == \E w \in Threads : Executes(w, t)
OnceExecuted(t) == \A v, w \in Threads : Executes(v, t) /\ Executes(w, t) => v = w

\* At most one of these stands for the task.
OneStands(t) ==
  /\ OnceInQueue(m_tasks, t) /\ OnceOnPort(port, t)
  /\ OnceInKernel(inflight, t) /\ OnceExecuted(t)
  /\ InQueue(m_tasks, t) =>
       ~OnPort(port, t) /\ ~InKernel(inflight, t) /\ ~Executed(t)
  /\ OnPort(port, t) => ~InKernel(inflight, t) /\ ~Executed(t)
  /\ InKernel(inflight, t) => ~Executed(t)

\* A queue entry is not thrown away, as Pop does with one in kWait.
Runnable(t) ==
  InQueue(m_tasks, t) \/ Executed(t) => m_state[t] = "kRun"

\* A request and its answer belong to the frame that is suspended.
FramesAlive(t) ==
  /\ \A r \in inflight : r.task = t => FrameAlive(r)
  /\ \A i \in DOMAIN port : port[i].task = t => FrameAlive(port[i])

\* A suspended operation has something that resumes it.
Answered(t) ==
  co[t].at = "pending" =>
    \/ InQueue(m_tasks, t) \/ OnPort(port, t) \/ InKernel(inflight, t)
    \/ \E w \in Threads : pc[w] = "step" /\ p_task[w] = t

\* Nothing stands for a task before it is spawned.
Unspawned(t) ==
  t \notin spawned =>
    /\ ~InQueue(m_tasks, t) /\ ~OnPort(port, t) /\ ~InKernel(inflight, t)
    /\ co[t].at = "root" /\ m_state[t] = "kRun"

AnswersInv ==
  /\ \A t \in Tasks \ respun :
       OneStands(t) /\ Runnable(t) /\ FramesAlive(t) /\ Answered(t)
  /\ \A t \in Tasks : Unspawned(t)
  /\ \A w \in Threads : pc[w] = "ub" => respun # {}

-----------------------------------------------------------------------------
(* What an operation has transferred.                                      *)

\* The requests and packets of the operation the task is in now.
Current(r, t) == r.task = t /\ r.frame = co[t].frame
Quiet(t) ==
  /\ \A r \in inflight : ~Current(r, t)
  /\ \A i \in DOMAIN port : ~Current(port[i], t)

\* A task issues what its program has, an accept is repeated only where there
\* are no workers, and a task that is executed is in kRun.
OpsInv ==
  /\ \A t \in Tasks : co[t].op \in program.ops \cup {"compute"}
  /\ respun # {} => program.workers = {}
  /\ \A w \in Threads : pc[w] = "step" => m_state[p_task[w]] = "kRun"

\* No request or packet is of a frame that does not exist yet.
FramesPast ==
  /\ \A r \in inflight : r.frame <= co[r.task].frame
  /\ \A i \in DOMAIN port : port[i].task # None =>
       port[i].frame <= co[port[i].task].frame

\* An operation that begins has nothing from an earlier one.
Begun(t) ==
  co[t].at = "start" =>
    Quiet(t) /\ co[t].total = 0 /\ moved[t] = 0 /\ last[t] = NoResult
    /\ overlapped[t].bytes = 0

\* The kernel has answered everything.
Settled(t) ==
  /\ co[t].at # "pending" \/ m_state[t] = "kRun" => Quiet(t)
  /\ co[t].at = "pending" /\ m_state[t] = "kRun" =>
       /\ Total(t) = moved[t]
       /\ co[t].op = "write" => moved[t] <= Size
       /\ ~overlapped[t].success => overlapped[t].bytes = 0

\* One request is open, or one answer to it has not been taken.
OnceCurrent(t) ==
  /\ \A r, s \in inflight : Current(r, t) /\ Current(s, t) => r = s
  /\ \A i, j \in DOMAIN port : Current(port[i], t) /\ Current(port[j], t) => i = j
  /\ \A r \in inflight : \A i \in DOMAIN port : ~(Current(r, t) /\ Current(port[i], t))

Open(t) ==
  co[t].at = "pending" /\ m_state[t] = "kWait" =>
    /\ OnceCurrent(t)
    /\ \A r \in inflight : Current(r, t) =>
         co[t].total = moved[t] /\ r.size = Size - co[t].total
    /\ \A i \in DOMAIN port : Current(port[i], t) =>
         /\ co[t].total + port[i].bytes = moved[t]
         /\ co[t].op = "write" => moved[t] <= Size
         /\ ~port[i].success => port[i].bytes = 0

Reported(t) ==
  last[t] >= 0 =>
    /\ co[t].at \in {"root", "done"}
    /\ last[t] = moved[t]
    /\ co[t].op = "write" => last[t] = Size

Counted(t) ==
  /\ Begun(t)
  /\ co[t].op \in Transfers =>
       /\ Settled(t) /\ Open(t) /\ Reported(t)
       /\ co[t].op # "write" => co[t].total = 0

TransferInv == FramesPast /\ \A t \in Tasks : Counted(t)

-----------------------------------------------------------------------------
\* A thread that is about to wait does not carry the chain on.
ShutdownInv ==
  m_active_tasks = {} /\ pc[Main] # "main" =>
    \/ port # <<>>
    \/ \E w \in Threads :
         pc[w] \notin {"delay", "wait", "returned", "joining", "joined"}

IocpInv ==
  /\ IocpTypeOK /\ BusyWithTask /\ AnswersInv
  /\ OpsInv /\ TransferInv /\ ShutdownInv

-----------------------------------------------------------------------------
(* Sequences.                                                              *)

\* What is in a queue to which an element was appended.
LEMMA AppendElements ==
  ASSUME NEW S, NEW q \in Seq(S), NEW x \in S
  PROVE  /\ Append(q, x) \in Seq(S)
         /\ Append(q, x) # <<>>
         /\ DOMAIN q = 1 .. Len(q) /\ DOMAIN Append(q, x) = 1 .. Len(q) + 1
         /\ \A i \in DOMAIN q : Append(q, x)[i] = q[i]
         /\ Append(q, x)[Len(q) + 1] = x
OBVIOUS

\* What is in a queue whose first element was taken.
LEMMA TailElements ==
  ASSUME NEW S, NEW q \in Seq(S), q # <<>>
  PROVE  /\ Tail(q) \in Seq(S)
         /\ DOMAIN q = 1 .. Len(q) /\ DOMAIN Tail(q) = 1 .. Len(q) - 1
         /\ Len(q) \in Nat \ {0}
         /\ \A i \in DOMAIN Tail(q) : Tail(q)[i] = q[i + 1] /\ i + 1 \in DOMAIN q
         /\ Head(q) = q[1] /\ Head(q) \in S /\ 1 \in DOMAIN q
OBVIOUS

\* A task queued once more is in the queue once if it was not there before.
LEMMA QueueAppend ==
  ASSUME NEW S, NEW q \in Seq(S), NEW x \in S, NEW t
  PROVE  /\ InQueue(Append(q, x), t) <=> InQueue(q, t) \/ t = x
         /\ OnceInQueue(q, t) /\ (t = x => ~InQueue(q, t))
              => OnceInQueue(Append(q, x), t)
<1>1. Len(q) \in Nat
  OBVIOUS
<1> QED BY <1>1, AppendElements DEF InQueue, OnceInQueue

\* A task that was there once is not there any more when it is taken.
LEMMA QueueTail ==
  ASSUME NEW S, NEW q \in Seq(S), q # <<>>, NEW t
  PROVE  /\ InQueue(q, Head(q))
         /\ InQueue(Tail(q), t) => InQueue(q, t)
         /\ InQueue(q, t) /\ t # Head(q) => InQueue(Tail(q), t)
         /\ OnceInQueue(q, t) => OnceInQueue(Tail(q), t)
         /\ OnceInQueue(q, t) /\ t = Head(q) => ~InQueue(Tail(q), t)
<1>1. ASSUME NEW i \in DOMAIN q, i # 1 PROVE i - 1 \in DOMAIN Tail(q) /\ i = (i - 1) + 1
  BY <1>1, TailElements
<1>2. InQueue(q, Head(q))
  BY TailElements DEF InQueue
<1>3. InQueue(Tail(q), t) => InQueue(q, t)
  BY TailElements DEF InQueue
<1>4. ASSUME InQueue(q, t), t # Head(q) PROVE InQueue(Tail(q), t)
  <2>1. PICK i \in DOMAIN q : q[i] = t
    BY <1>4 DEF InQueue
  <2>2. i # 1
    BY <2>1, <1>4, TailElements
  <2>3. Tail(q)[i - 1] = t
    BY <1>1, <2>1, <2>2, TailElements
  <2> QED BY <1>1, <2>2, <2>3 DEF InQueue
<1>5. ASSUME OnceInQueue(q, t) PROVE OnceInQueue(Tail(q), t)
  <2> SUFFICES ASSUME NEW i \in DOMAIN Tail(q), NEW j \in DOMAIN Tail(q),
                      Tail(q)[i] = t, Tail(q)[j] = t
               PROVE  i = j
    BY DEF OnceInQueue
  <2>1. i + 1 = j + 1 /\ i \in Nat /\ j \in Nat
    BY <1>5, TailElements DEF OnceInQueue
  <2> QED BY <2>1
<1>6. ASSUME OnceInQueue(q, t), t = Head(q) PROVE ~InQueue(Tail(q), t)
  <2> SUFFICES ASSUME NEW i \in DOMAIN Tail(q), Tail(q)[i] = t PROVE FALSE
    BY DEF InQueue
  <2>1. i + 1 = 1 /\ i \in 1 .. Len(q) - 1
    BY <1>6, TailElements DEF OnceInQueue
  <2> QED BY <2>1
<1> QED BY <1>2, <1>3, <1>4, <1>5, <1>6

\* The same for the packets of a task.
LEMMA PortAppend ==
  ASSUME NEW S, NEW q \in Seq(S), NEW x \in S, NEW t
  PROVE  /\ OnPort(Append(q, x), t) <=> OnPort(q, t) \/ x.task = t
         /\ OnceOnPort(q, t) /\ (x.task = t => ~OnPort(q, t))
              => OnceOnPort(Append(q, x), t)
<1>1. Len(q) \in Nat
  OBVIOUS
<1> QED BY <1>1, AppendElements DEF OnPort, OnceOnPort

\* A packet that is taken from the port is gone, and the others stay.
LEMMA PortTail ==
  ASSUME NEW S, NEW q \in Seq(S), q # <<>>, NEW t
  PROVE  /\ OnPort(q, Head(q).task)
         /\ OnPort(Tail(q), t) => OnPort(q, t)
         /\ OnPort(q, t) /\ t # Head(q).task => OnPort(Tail(q), t)
         /\ OnceOnPort(q, t) => OnceOnPort(Tail(q), t)
         /\ OnceOnPort(q, t) /\ t = Head(q).task => ~OnPort(Tail(q), t)
<1>1. ASSUME NEW i \in DOMAIN q, i # 1 PROVE i - 1 \in DOMAIN Tail(q) /\ i = (i - 1) + 1
  BY <1>1, TailElements
<1>2. OnPort(q, Head(q).task)
  BY TailElements DEF OnPort
<1>3. OnPort(Tail(q), t) => OnPort(q, t)
  BY TailElements DEF OnPort
<1>4. ASSUME OnPort(q, t), t # Head(q).task PROVE OnPort(Tail(q), t)
  <2>1. PICK i \in DOMAIN q : q[i].task = t
    BY <1>4 DEF OnPort
  <2>2. i # 1
    BY <2>1, <1>4, TailElements
  <2>3. Tail(q)[i - 1].task = t
    BY <1>1, <2>1, <2>2, TailElements
  <2> QED BY <1>1, <2>2, <2>3 DEF OnPort
<1>5. ASSUME OnceOnPort(q, t) PROVE OnceOnPort(Tail(q), t)
  <2> SUFFICES ASSUME NEW i \in DOMAIN Tail(q), NEW j \in DOMAIN Tail(q),
                      Tail(q)[i].task = t, Tail(q)[j].task = t
               PROVE  i = j
    BY DEF OnceOnPort
  <2>1. i + 1 = j + 1 /\ i \in Nat /\ j \in Nat
    BY <1>5, TailElements DEF OnceOnPort
  <2> QED BY <2>1
<1>6. ASSUME OnceOnPort(q, t), t = Head(q).task PROVE ~OnPort(Tail(q), t)
  <2> SUFFICES ASSUME NEW i \in DOMAIN Tail(q), Tail(q)[i].task = t PROVE FALSE
    BY DEF OnPort
  <2>1. i + 1 = 1 /\ i \in 1 .. Len(q) - 1
    BY <1>6, TailElements DEF OnceOnPort
  <2> QED BY <2>1
<1> QED BY <1>2, <1>3, <1>4, <1>5, <1>6

-----------------------------------------------------------------------------
(* The types.                                                              *)

\* What an assignment to the fields of a coroutine changes.
LEMMA MoveCo ==
  ASSUME NEW f \in [Tasks -> Frames], NEW t \in Tasks, NEW a \in Ats, NEW g,
         g = [f EXCEPT ![t].at = a]
  PROVE  /\ g \in [Tasks -> Frames]
         /\ \A s \in Tasks : s # t => g[s] = f[s]
         /\ g[t].at = a /\ g[t].op = f[t].op /\ g[t].frame = f[t].frame
         /\ g[t].total = f[t].total /\ g[t].issued = f[t].issued
<1>1. f[t] \in Frames
  OBVIOUS
<1>2. [f[t] EXCEPT !.at = a] \in Frames
  BY <1>1 DEF Frames
<1>3. g = [f EXCEPT ![t] = [f[t] EXCEPT !.at = a]]
  BY <1>1
<1>4. g[t] = [f[t] EXCEPT !.at = a]
  BY <1>3
<1>5. g \in [Tasks -> Frames] /\ \A s \in Tasks : s # t => g[s] = f[s]
  BY <1>2, <1>3
<1>6. /\ g[t].at = a /\ g[t].op = f[t].op /\ g[t].frame = f[t].frame
      /\ g[t].total = f[t].total /\ g[t].issued = f[t].issued
  BY <1>1, <1>4 DEF Frames
<1> QED BY <1>5, <1>6

\* A coroutine that has issued a request is suspended in its operation, and
\* no other coroutine has moved.
LEMMA IssueCo ==
  ASSUME IocpTypeOK, NEW w \in Threads, NEW total \in Nat, NEW state,
         p_task[w] \in Tasks, Issue(w, total, state)
  PROVE  LET t == p_task[w] IN
         /\ co' \in [Tasks -> Frames]
         /\ \A s \in Tasks : s # t => co'[s] = co[s]
         /\ co'[t].at = "pending" /\ co'[t].op = co[t].op
         /\ co'[t].frame = co[t].frame /\ co'[t].total = total
<1> DEFINE t == p_task[w]
           h == [co[t] EXCEPT !.at = "pending", !.total = total, !.issued = @ + 1]
<1>1. co \in [Tasks -> Frames] /\ co[t] \in Frames /\ t \in Tasks
  BY DEF IocpTypeOK
<1>2. h \in Frames
  <2> DEFINE c == co[t]
  <2>1. c \in Frames /\ c.issued + 1 \in Nat
    BY <1>1 DEF Frames
  <2> HIDE DEF c
  <2>2. [c EXCEPT !.at = "pending", !.total = total, !.issued = @ + 1] \in Frames
    BY <2>1 DEF Frames, Ats
  <2> QED BY <2>2 DEF c
<1>3. co' = [co EXCEPT ![t] = h]
  BY <1>1 DEF Issue
<1>4. h.at = "pending" /\ h.op = co[t].op /\ h.frame = co[t].frame /\ h.total = total
  BY <1>1 DEF Frames
<1> HIDE DEF h
<1>5. co'[t] = h
  BY <1>1, <1>3
<1>6. co' \in [Tasks -> Frames] /\ \A s \in Tasks : s # t => co'[s] = co[s]
  BY <1>1, <1>2, <1>3
<1> QED BY <1>4, <1>5, <1>6

\* The first state has the types.
LEMMA IocpTypeInit == IocpInit => IocpTypeOK /\ BusyWithTask
BY IocpAssumption
   DEF IocpInit, IocpTypeOK, BusyWithTask, Labels, Threads, NoResult, Frames, Ats,
       OverlappedSet

\* The thread that executes a task finds it.
LEMMA TaskOfThread ==
  ASSUME IocpTypeOK, BusyWithTask, NEW w \in Threads, pc[w] \in {"step", "finish"}
  PROVE  p_task[w] \in Tasks
BY DEF IocpTypeOK, BusyWithTask

\* What the coroutine of p_task does is one of four things: it awaits, its
\* root frame returns, the operation returns a value and leaves the task in a
\* state, or it makes a request; only accept makes one without wait().
LEMMA BodyCases ==
  ASSUME IocpTypeOK, BusyWithTask, NEW w \in Threads, BodyStep(w)
  PROVE  \/ \E op \in program.ops : Await(w, op)
         \/ RootReturn(w)
         \/ \E value \in Int, state \in {"kRun", "kWait"} :
              /\ Stepping(w, "start") \/ Stepping(w, "pending")
              /\ Return(w, value, state)
         \/ \E total \in 0 .. Size, state \in {"kRun", "kWait"} :
              /\ Stepping(w, "start") \/ Stepping(w, "pending")
              /\ Issue(w, total, state)
              /\ \/ state = "kWait" /\ respun' = respun
                 \/ /\ respun' = respun \cup {p_task[w]}
                    /\ co[p_task[w]].op = "accept"
<1> USE IocpAssumption
<1> DEFINE t == p_task[w]
           Returns == \E value \in Int, state \in {"kRun", "kWait"} :
                        /\ Stepping(w, "start") \/ Stepping(w, "pending")
                        /\ Return(w, value, state)
           Issues == \E total \in 0 .. Size, state \in {"kRun", "kWait"} :
                       /\ Stepping(w, "start") \/ Stepping(w, "pending")
                       /\ Issue(w, total, state)
                       /\ \/ state = "kWait" /\ respun' = respun
                          \/ respun' = respun \cup {t} /\ co[t].op = "accept"
<1>1. ASSUME pc[w] = "step"
      PROVE  t \in Tasks /\ m_state[t] \in {"kRun", "kWait"} /\ Total(t) \in Nat
  <2>1. t \in Tasks
    BY <1>1, TaskOfThread
  <2>2. co[t].total \in Nat /\ overlapped[t].bytes \in Nat
    BY <2>1 DEF IocpTypeOK, Frames, OverlappedSet
  <2> QED BY <2>1, <2>2 DEF IocpTypeOK, Total
<1>2. ASSUME Computed(w) \/ SetupFails(w) \/ StartRefused(w) \/ WriteRefused(w)
             \/ Failed(w)
      PROVE  Returns
  BY <1>2 DEF Computed, SetupFails, StartRefused, WriteRefused, Failed, Error,
     StateAtRefusal, Resumed
<1>3. ASSUME Succeeded(w) PROVE Returns
  <2>1. Total(t) \in Int
    BY <1>1, <1>3 DEF Succeeded, Resumed, Stepping
  <2> QED BY <1>3, <2>1 DEF Succeeded, Resumed
<1>4. ASSUME AcceptRefused(w) PROVE Returns
  <2>1. m_state[t] \in {"kRun", "kWait"}
    BY <1>1, <1>4 DEF AcceptRefused, Resumed, Stepping
  <2> QED BY <1>4, <2>1 DEF AcceptRefused, Resumed, Error
<1>5. ASSUME Start(w) PROVE Issues
  BY <1>5 DEF Start, StateAtIssue
<1>6. ASSUME WriteMore(w) PROVE Issues
  <2>1. Total(t) \in 0 .. Size
    BY <1>1, <1>6 DEF WriteMore, Resumed, Stepping, Unsent
  <2> QED BY <1>6, <2>1 DEF WriteMore, Resumed, StateAtIssue
<1>7. ASSUME AcceptAgain(w) PROVE Issues
  <2>1. m_state[t] \in {"kRun", "kWait"}
    BY <1>1, <1>7 DEF AcceptAgain, Resumed, Stepping
  <2> QED BY <1>7, <2>1 DEF AcceptAgain, Resumed
<1> HIDE DEF Returns, Issues
<1>8. (\E op \in program.ops : Await(w, op)) \/ RootReturn(w) \/ Returns \/ Issues
  BY <1>2, <1>3, <1>4, <1>5, <1>6, <1>7 DEF BodyStep
<1> QED BY <1>8 DEF Returns, Issues

\* It goes on or suspends.
LEMMA BodyLabel ==
  ASSUME NEW w \in Threads, BodyStep(w)
  PROVE  \E label \in {"step", "finish"} : pc' = [pc EXCEPT ![w] = label]
BY DEF BodyStep, Await, RootReturn, Computed, SetupFails, Start, StartRefused, Succeeded,
   WriteMore, WriteRefused, Failed, AcceptAgain, AcceptRefused, Return, Issue, Suspend,
   Goto

\* A step of a coroutine keeps the types.
LEMMA BodyTypes ==
  ASSUME IocpTypeOK, BusyWithTask, NEW w \in Threads, BodyStep(w)
  PROVE  IocpTypeOK' /\ BusyWithTask'
<1> USE IocpAssumption
<1> DEFINE t == p_task[w]
<1>1. /\ UNCHANGED <<program, m_tasks, spawned, p_task>>
      /\ pc[w] = "step" /\ t \in Tasks
  BY TaskOfThread, BodyCases DEF BodyStep, schedVars, Await, RootReturn, Stepping
<1>2. /\ co \in [Tasks -> Frames] /\ inflight \subseteq RequestSet
      /\ program \in Programs /\ respun \subseteq Tasks
      /\ m_state \in [Tasks -> {"kRun", "kWait"}]
      /\ pc \in [Threads -> Labels]
      /\ result \in [Threads -> {"kRun", "kWait", "kDone"}]
  BY DEF IocpTypeOK
<1>3. ASSUME co' \in [Tasks -> Frames], inflight' \subseteq RequestSet,
             m_state' \in [Tasks -> {"kRun", "kWait"}],
             overlapped' \in [Tasks -> OverlappedSet],
             moved' \in [Tasks -> Nat], last' \in [Tasks -> Int],
             respun' \subseteq Tasks, port' = port,
             NEW label \in {"step", "finish"}, pc' = [pc EXCEPT ![w] = label],
             NEW state \in {"kRun", "kWait", "kDone"},
             result' = [result EXCEPT ![w] = state]
      PROVE  IocpTypeOK' /\ BusyWithTask'
  <2>1. pc' \in [Threads -> Labels]
    BY <1>2, <1>3 DEF Labels
  <2>2. result' \in [Threads -> {"kRun", "kWait", "kDone"}]
    BY <1>2, <1>3
  <2>3. IocpTypeOK'
    BY <1>1, <1>3, <2>1, <2>2 DEF IocpTypeOK, Threads
  <2>4. BusyWithTask'
    BY <1>1, <1>2, <1>3 DEF BusyWithTask, Threads
  <2> QED BY <2>3, <2>4
<1>4. ASSUME NEW op \in program.ops, Await(w, op)
      PROVE  IocpTypeOK' /\ BusyWithTask'
  <2> DEFINE c == [at |-> "start", op |-> op, frame |-> co[t].frame + 1, total |-> 0,
                   issued |-> 0]
  <2>1. co' = [co EXCEPT ![t] = c]
    BY <1>4 DEF Await
  <2>2. co[t].frame \in Nat /\ op \in Calls \cup {"compute"}
    BY <1>1, <1>2 DEF Frames
  <2>3. c \in Frames
    BY <2>2 DEF Frames, Ats
  <2>4. co' \in [Tasks -> Frames]
    BY <1>2, <2>1, <2>3
  <2>5. overlapped' \in [Tasks -> OverlappedSet]
    BY <1>1, <1>4 DEF IocpTypeOK, Await, OverlappedSet
  <2>6. moved' \in [Tasks -> Nat] /\ last' \in [Tasks -> Int]
    BY <1>1, <1>4 DEF IocpTypeOK, Await, NoResult
  <2> QED BY <1>1, <1>2, <1>3, <1>4, <2>4, <2>5, <2>6 DEF Await, Suspend, Goto
<1>5. CASE RootReturn(w)
  <2>1. co' \in [Tasks -> Frames]
    BY <1>1, <1>2, <1>5, MoveCo DEF RootReturn, Ats
  <2>2. UNCHANGED <<m_state, overlapped, last, respun, inflight, port, moved>>
    BY <1>5 DEF RootReturn, kernelVars
  <2> QED BY <1>1, <1>2, <1>3, <1>5, <2>1, <2>2 DEF IocpTypeOK, RootReturn, Goto
<1>6. ASSUME NEW value \in Int, NEW state \in {"kRun", "kWait"}, Return(w, value, state)
      PROVE  IocpTypeOK' /\ BusyWithTask'
  <2>1. co' \in [Tasks -> Frames]
    <3>1. co' = [co EXCEPT ![t].at = "root"] /\ "root" \in Ats
      BY <1>6 DEF Return, Ats
    <3> QED BY <1>1, <1>2, <3>1, MoveCo
  <2>2. UNCHANGED <<overlapped, respun, inflight, port, moved>>
    BY <1>6 DEF Return, kernelVars
  <2>3. m_state' \in [Tasks -> {"kRun", "kWait"}] /\ last' \in [Tasks -> Int]
    BY <1>1, <1>6 DEF IocpTypeOK, Return
  <2> QED BY <1>1, <1>2, <1>3, <1>6, <2>1, <2>2, <2>3 DEF IocpTypeOK, Return, Goto
<1>7. ASSUME NEW total \in 0 .. Size, NEW state \in {"kRun", "kWait"},
             Issue(w, total, state), respun' \subseteq Tasks
      PROVE  IocpTypeOK' /\ BusyWithTask'
  <2>1. co' \in [Tasks -> Frames]
    <3>1. total \in Nat
      OBVIOUS
    <3> QED BY <1>1, <1>7, <3>1, IssueCo
  <2>2. inflight' \subseteq RequestSet
    <3>1. co[t].frame \in Nat /\ co[t].issued \in Nat /\ Size - total \in Nat
      BY <1>1, <1>2 DEF Frames
    <3> QED BY <1>1, <1>2, <1>7, <3>1 DEF Issue, Remaining, RequestSet
  <2>3. UNCHANGED <<overlapped, last, port, moved>>
    BY <1>7 DEF Issue
  <2>4. m_state' \in [Tasks -> {"kRun", "kWait"}]
    BY <1>1, <1>2, <1>7 DEF Issue, Suspend
  <2> QED
    BY <1>1, <1>2, <1>3, <1>7, <2>1, <2>2, <2>3, <2>4 DEF IocpTypeOK, Issue, Suspend, Goto
<1> QED BY <1>1, <1>2, <1>4, <1>5, <1>6, <1>7, BodyCases

\* Every step keeps the types, and a thread in process_tasks() has a task.
LEMMA IocpTypeNext ==
  ASSUME IocpTypeOK, BusyWithTask, \A t \in Tasks : Unspawned(t),
         [IocpNext]_iocpVars
  PROVE  IocpTypeOK' /\ BusyWithTask'
<1> USE IocpAssumption
    DEF IocpTypeOK, BusyWithTask, Labels, Threads, Goto, Jump, schedVars, taskVars,
        kernelVars, threadVars
<1>1. ASSUME NEW t \in Tasks, SpawnRoot(t) PROVE IocpTypeOK' /\ BusyWithTask'
  BY <1>1, AppendElements DEF SpawnRoot
<1>2. ASSUME wait_for_all \/ Destroy \/ Join PROVE IocpTypeOK' /\ BusyWithTask'
  <2>1. CASE wait_for_all
    BY <2>1 DEF wait_for_all
  <2>2. CASE Destroy
    BY <2>2 DEF Destroy
  <2>3. CASE Join
    BY <2>3 DEF Join
  <2> QED BY <1>2, <2>1, <2>2, <2>3
<1>3. ASSUME NEW w \in Threads, NEW label \in Labels \ {"step", "finish"}, Jump(w, label)
      PROVE  IocpTypeOK' /\ BusyWithTask'
  BY <1>3
<1>4. ASSUME NEW w \in Threads, Leave(w) PROVE IocpTypeOK' /\ BusyWithTask'
  <2>1. port' \in Seq(PacketSet)
    BY <1>4, AppendElements DEF Leave, notify_one, NotifyPacket, PacketSet
  <2> QED BY <1>4, <2>1 DEF Leave
<1>5. ASSUME NEW w \in Threads, Dequeue(w) PROVE IocpTypeOK' /\ BusyWithTask'
  <2> DEFINE p == Head(port)
  <2>1. /\ p \in PacketSet
        /\ port' \in Seq(PacketSet)
    BY <1>5, TailElements DEF Dequeue
  <2>2. CASE p.task = None \/ ~FrameAlive(p)
    <3>1. UNCHANGED <<program, m_tasks, spawned, m_state, co, overlapped, last,
                      respun, inflight, moved, p_task, result>>
      BY <1>5, <2>2 DEF Dequeue
    <3>2. pc' \in [Threads -> Labels] /\ \A v \in Threads : v # w => pc'[v] = pc[v]
      BY <1>5, <2>2 DEF Dequeue
    <3>3. pc'[w] \in {"running", "ub"}
      BY <1>5, <2>2 DEF Dequeue
    <3> QED BY <2>1, <3>1, <3>2, <3>3
  <2>3. CASE p.task # None /\ FrameAlive(p)
    <3>1. /\ p.task \in Tasks
          /\ overlapped' = [overlapped EXCEPT ![p.task] = Transferred(p)]
          /\ m_state' = [m_state EXCEPT ![p.task] = "kRun"]
          /\ m_tasks' = Append(m_tasks, p.task)
          /\ pc' = [pc EXCEPT ![w] = "running"]
          /\ UNCHANGED <<program, spawned, co, last, respun, inflight, moved,
                         p_task, result>>
      BY <1>5, <2>1, <2>3 DEF Dequeue, PacketSet
    <3>2. m_tasks' \in Seq(Tasks)
      BY <3>1, AppendElements
    <3>3. Transferred(p) \in OverlappedSet
      BY <2>1 DEF Transferred, PacketSet, OverlappedSet
    <3> QED BY <2>1, <3>1, <3>2, <3>3
  <2> QED BY <2>2, <2>3
<1>6. ASSUME NEW w \in Threads, ChooseWait(w) PROVE IocpTypeOK' /\ BusyWithTask'
  BY <1>6 DEF ChooseWait
<1>7. ASSUME NEW w \in Threads, Pop(w) PROVE IocpTypeOK' /\ BusyWithTask'
  <2>1. m_tasks' \in Seq(Tasks) /\ Head(m_tasks) \in Tasks
    BY <1>7, TailElements DEF Pop
  <2>2. Head(m_tasks) \in spawned
    BY <1>7, <2>1, QueueTail DEF Pop, Unspawned
  <2> QED BY <1>7, <2>1, <2>2 DEF Pop
<1>8. ASSUME NEW w \in Threads, Finish(w) PROVE IocpTypeOK' /\ BusyWithTask'
  <2>1. p_task[w] \in Tasks
    BY <1>8, TaskOfThread DEF Finish
  <2>2. m_tasks' \in Seq(Tasks)
    BY <1>8, <2>1, AppendElements DEF Finish
  <2> QED BY <1>8, <2>2 DEF Finish
<1>9. ASSUME NEW w \in Threads, BodyStep(w) PROVE IocpTypeOK' /\ BusyWithTask'
  BY <1>9, BodyTypes
<1>10. ASSUME NEW r \in inflight, NEW ok \in BOOLEAN, NEW n \in Nat, Complete(r, ok, n)
       PROVE  IocpTypeOK' /\ BusyWithTask'
  <2>1. port' \in Seq(PacketSet)
    BY <1>10, AppendElements DEF Complete, RequestSet, PacketSet
  <2>2. r.task \in Tasks
    BY DEF RequestSet
  <2>3. moved' \in [Tasks -> Nat]
    BY <1>10, <2>2 DEF Complete
  <2> QED BY <1>10, <2>1, <2>3 DEF Complete
<1>11. CASE UNCHANGED iocpVars
  BY <1>11 DEF iocpVars
<1>12. ASSUME NEW w \in Threads, ThreadStep(w) \/ WaitExpires(w)
       PROVE  IocpTypeOK' /\ BusyWithTask'
  <2>1. ASSUME CheckActive(w) \/ PollEmpty(w) \/ WaitExpires(w) \/ CheckRunning(w)
               \/ Drained(w)
        PROVE  \E label \in Labels \ {"step", "finish"} : Jump(w, label)
    BY <2>1 DEF CheckActive, PollEmpty, WaitExpires, CheckRunning, Drained
  <2> QED BY <1>3, <1>4, <1>5, <1>6, <1>7, <1>8, <1>9, <1>12, <2>1 DEF ThreadStep
<1>13. ASSUME NEW t \in Tasks, KernelStep(t) PROVE IocpTypeOK' /\ BusyWithTask'
  <2>1. PICK r \in inflight : (\E n \in Bytes(r) : Complete(r, TRUE, n))
                              \/ Complete(r, FALSE, 0)
    BY <1>13 DEF KernelStep
  <2>2. Bytes(r) \subseteq Nat
    BY DEF Bytes, RequestSet
  <2> QED BY <1>10, <2>1, <2>2
<1> QED
  BY <1>1, <1>2, <1>11, <1>12, <1>13 DEF IocpNext, MainStep, Terminated

-----------------------------------------------------------------------------
(* AnswersInv.                                                             *)

\* Nothing stands for a task before one is spawned.
LEMMA AnswersInit == IocpInit => AnswersInv
BY IocpAssumption
   DEF IocpInit, AnswersInv, OneStands, InQueue, OnceInQueue, OnPort, OnceOnPort, InKernel,
       OnceInKernel, Executes, Executed, OnceExecuted, Runnable, FramesAlive,
       Answered, Unspawned, Threads

\* A step of a thread that executes nothing and is not going to.
LEMMA AnswersJump ==
  ASSUME IocpTypeOK, AnswersInv, NEW w \in Threads,
         NEW label \in Labels \ {"step", "finish", "ub"},
         pc[w] \notin {"step", "finish"},
         pc' = [pc EXCEPT ![w] = label],
         UNCHANGED <<program, p_task, result, m_tasks, m_state, co, inflight, port,
                     spawned, respun>>
  PROVE  AnswersInv'
<1> USE DEF IocpTypeOK, Threads
<1>1. \A v \in Threads, t \in Tasks : Executes(v, t)' <=> Executes(v, t)
  BY DEF Executes
<1>2. ASSUME NEW t \in Tasks \ respun
      PROVE  (OneStands(t) /\ Runnable(t) /\ FramesAlive(t) /\ Answered(t))'
  <2>1. OneStands(t)' /\ Runnable(t)'
    BY <1>1 DEF AnswersInv, OneStands, Runnable, Executed, OnceExecuted, InQueue,
       OnceInQueue, OnPort, OnceOnPort, InKernel, OnceInKernel
  <2>2. FramesAlive(t)'
    BY DEF AnswersInv, FramesAlive, FrameAlive
  <2>3. Answered(t)'
    BY DEF AnswersInv, Answered, InQueue, OnPort, InKernel
  <2> QED BY <2>1, <2>2, <2>3
<1>3. (\A t \in Tasks : Unspawned(t))'
  BY DEF AnswersInv, Unspawned, InQueue, OnPort, InKernel
<1>4. (\A v \in Threads : pc[v] = "ub" => respun # {})'
  BY DEF AnswersInv
<1> QED BY <1>2, <1>3, <1>4 DEF AnswersInv

\* add() of a new task.
LEMMA AnswersSpawn ==
  ASSUME IocpTypeOK, BusyWithTask, AnswersInv, NEW u \in Tasks, SpawnRoot(u)
  PROVE  AnswersInv'
<1> USE DEF IocpTypeOK, Threads
<1>1. /\ u \notin spawned /\ spawned' = spawned \cup {u}
      /\ m_tasks' = Append(m_tasks, u)
      /\ UNCHANGED <<program, p_task, pc, result, m_state, co, inflight, port, respun>>
  BY DEF SpawnRoot, taskVars, kernelVars, threadVars
<1>2. /\ ~InQueue(m_tasks, u) /\ ~OnPort(port, u) /\ ~InKernel(inflight, u)
      /\ co[u].at = "root" /\ m_state[u] = "kRun" /\ ~Executed(u)
  BY <1>1 DEF AnswersInv, Unspawned, BusyWithTask, Executed, Executes
<1>3. \A v \in Threads, t \in Tasks : Executes(v, t)' <=> Executes(v, t)
  BY <1>1 DEF Executes
<1>4. ASSUME NEW t \in Tasks
      PROVE  /\ InQueue(m_tasks', t) <=> InQueue(m_tasks, t) \/ t = u
             /\ OnceInQueue(m_tasks, t) => OnceInQueue(m_tasks', t)
  BY <1>1, <1>2, QueueAppend
<1>5. ASSUME NEW t \in Tasks \ respun
      PROVE  (OneStands(t) /\ Runnable(t) /\ FramesAlive(t) /\ Answered(t))'
  <2>0. OneStands(t) /\ Runnable(t)
    BY DEF AnswersInv
  <2>4. (Executed(t)' <=> Executed(t)) /\ (OnceExecuted(t)' <=> OnceExecuted(t))
    BY <1>1, <1>3 DEF Executed, OnceExecuted
  <2>1. OneStands(t)' /\ Runnable(t)'
    BY <1>1, <1>2, <1>4, <2>0, <2>4 DEF OneStands, Runnable
  <2>2. FramesAlive(t)'
    BY <1>1 DEF AnswersInv, FramesAlive, FrameAlive
  <2>3. Answered(t)'
    BY <1>1, <1>2, <1>4 DEF AnswersInv, Answered
  <2> QED BY <2>1, <2>2, <2>3
<1>6. (\A t \in Tasks : Unspawned(t))'
  BY <1>1, <1>4 DEF AnswersInv, Unspawned
<1>7. (\A v \in Threads : pc[v] = "ub" => respun # {})'
  BY <1>1 DEF AnswersInv
<1> QED BY <1>1, <1>5, <1>6, <1>7 DEF AnswersInv

\* The packet of notify_one() stands for nobody.
LEMMA AnswersLeave ==
  ASSUME IocpTypeOK, AnswersInv, NEW w \in Threads, Leave(w)
  PROVE  AnswersInv'
<1> USE DEF IocpTypeOK, Threads
<1>1. /\ pc[w] = "notify" /\ pc' = [pc EXCEPT ![w] = "returned"]
      /\ port' = Append(port, NotifyPacket)
      /\ UNCHANGED <<program, p_task, result, m_tasks, m_state, co, inflight, spawned,
                     respun>>
  BY DEF Leave, notify_one, Goto, schedVars, taskVars
<1>2. NotifyPacket \in PacketSet /\ NotifyPacket.task = None
  BY DEF NotifyPacket, PacketSet
<1>3. \A v \in Threads, t \in Tasks : Executes(v, t)' <=> Executes(v, t)
  BY <1>1 DEF Executes
<1>4. ASSUME NEW t \in Tasks
      PROVE  /\ OnPort(port', t) <=> OnPort(port, t)
             /\ OnceOnPort(port, t) => OnceOnPort(port', t)
  BY <1>1, <1>2, PortAppend, IocpAssumption
<1>5. ASSUME NEW t \in Tasks \ respun
      PROVE  (OneStands(t) /\ Runnable(t) /\ FramesAlive(t) /\ Answered(t))'
  <2>1. OneStands(t)' /\ Runnable(t)'
    BY <1>1, <1>3, <1>4 DEF AnswersInv, OneStands, Runnable, Executed, OnceExecuted
  <2>2. FramesAlive(t)'
    <3>1. \A i \in DOMAIN port' : port'[i] = NotifyPacket
                                 \/ (i \in DOMAIN port /\ port'[i] = port[i])
      BY <1>1, <1>2, AppendElements
    <3> QED BY <1>1, <1>2, <3>1, IocpAssumption DEF AnswersInv, FramesAlive, FrameAlive
  <2>3. Answered(t)'
    BY <1>1, <1>4 DEF AnswersInv, Answered
  <2> QED BY <2>1, <2>2, <2>3
<1>6. (\A t \in Tasks : Unspawned(t))'
  BY <1>1, <1>4 DEF AnswersInv, Unspawned
<1>7. (\A v \in Threads : pc[v] = "ub" => respun # {})'
  BY <1>1 DEF AnswersInv
<1> QED BY <1>1, <1>5, <1>6, <1>7 DEF AnswersInv

\* The queue entry of the head becomes the thread that executes it: it is
\* not thrown away, because it is not in kWait.
LEMMA AnswersPop ==
  ASSUME IocpTypeOK, BusyWithTask, AnswersInv, NEW w \in Threads, Pop(w)
  PROVE  AnswersInv'
<1> USE DEF IocpTypeOK, Threads
<1> DEFINE u == Head(m_tasks)
<1>1. /\ pc[w] = "process" /\ m_tasks # <<>> /\ m_tasks' = Tail(m_tasks)
      /\ p_task' = [p_task EXCEPT ![w] = u]
      /\ pc' = [pc EXCEPT ![w] = IF m_state[u] = "kWait" THEN "process" ELSE "step"]
      /\ UNCHANGED <<program, result, m_state, co, inflight, port, spawned, respun>>
  BY DEF Pop, Goto, taskVars, kernelVars
<1>2. u \in Tasks /\ InQueue(m_tasks, u)
  BY <1>1, TailElements, QueueTail
<1>3. ASSUME NEW t \in Tasks
      PROVE  /\ InQueue(m_tasks', t) => InQueue(m_tasks, t)
             /\ InQueue(m_tasks, t) /\ t # u => InQueue(m_tasks', t)
             /\ OnceInQueue(m_tasks, t) => OnceInQueue(m_tasks', t)
             /\ OnceInQueue(m_tasks, t) /\ t = u => ~InQueue(m_tasks', t)
  BY <1>1, QueueTail
<1> HIDE DEF u
<1>4. \A v \in Threads, t \in Tasks :
        Executes(v, t)' <=> Executes(v, t) \/ (v = w /\ t = u /\ m_state[u] # "kWait")
  BY <1>1, <1>2 DEF Executes
<1>5. ASSUME NEW t \in Tasks \ respun
      PROVE  (OneStands(t) /\ Runnable(t) /\ FramesAlive(t) /\ Answered(t))'
  <2>1. OneStands(t) /\ Runnable(t) /\ FramesAlive(t) /\ Answered(t)
    BY DEF AnswersInv
  <2>2. Executed(t)' <=> Executed(t) \/ (t = u /\ m_state[u] # "kWait")
    BY <1>1, <1>4 DEF Executed
  <2>3. OnceExecuted(t)'
    <3>1. CASE t = u /\ m_state[u] # "kWait"
      <4>1. \A v \in Threads : ~Executes(v, t)
        BY <1>2, <2>1, <3>1 DEF OneStands, Executed
      <4>2. \A v \in Threads : Executes(v, t)' => v = w
        BY <1>4, <4>1
      <4> QED BY <1>1, <4>2 DEF OnceExecuted
    <3>2. CASE ~(t = u /\ m_state[u] # "kWait")
      BY <1>1, <1>4, <2>1, <3>2 DEF OneStands, OnceExecuted
    <3> QED BY <3>1, <3>2
  <2>4. OneStands(t)'
    BY <1>1, <1>2, <1>3, <2>1, <2>2, <2>3 DEF OneStands
  <2>5. Runnable(t)'
    BY <1>1, <1>2, <1>3, <2>1, <2>2 DEF Runnable
  <2>6. FramesAlive(t)'
    BY <1>1, <2>1 DEF FramesAlive, FrameAlive
  <2>7. Answered(t)'
    BY <1>1, <1>2, <1>3, <2>1 DEF Answered, Runnable
  <2> QED BY <2>4, <2>5, <2>6, <2>7
<1>6. (\A t \in Tasks : Unspawned(t))'
  BY <1>1, <1>3 DEF AnswersInv, Unspawned
<1>7. (\A v \in Threads : pc[v] = "ub" => respun # {})'
  BY <1>1 DEF AnswersInv
<1> QED BY <1>1, <1>5, <1>6, <1>7 DEF AnswersInv

\* The completion of a request is answered by one packet.
LEMMA AnswersComplete ==
  ASSUME IocpTypeOK, AnswersInv, NEW r \in inflight, NEW ok \in BOOLEAN, NEW n \in Nat,
         Complete(r, ok, n)
  PROVE  AnswersInv'
<1> USE DEF IocpTypeOK, Threads
<1> DEFINE p == [task |-> r.task, frame |-> r.frame, success |-> ok, bytes |-> n]
<1>1. /\ inflight' = inflight \ {r} /\ port' = Append(port, p)
      /\ UNCHANGED <<program, p_task, pc, result, m_tasks, m_state, co, spawned, respun>>
  BY DEF Complete, schedVars, taskVars, threadVars
<1>2. /\ p \in PacketSet /\ p.task = r.task /\ r.task \in Tasks
      /\ (FrameAlive(p) <=> FrameAlive(r)) /\ InKernel(inflight, r.task)
  BY DEF PacketSet, RequestSet, FrameAlive, InKernel
<1> HIDE DEF p
<1>3. \A v \in Threads, t \in Tasks : Executes(v, t)' <=> Executes(v, t)
  BY <1>1 DEF Executes
<1>4. ASSUME NEW t \in Tasks
      PROVE  /\ OnPort(port', t) <=> OnPort(port, t) \/ t = r.task
             /\ OnceOnPort(port, t) /\ (t = r.task => ~OnPort(port, t))
                  => OnceOnPort(port', t)
             /\ InKernel(inflight', t) => InKernel(inflight, t)
             /\ InKernel(inflight, t) /\ t # r.task => InKernel(inflight', t)
             /\ OnceInKernel(inflight, t) => OnceInKernel(inflight', t)
             /\ OnceInKernel(inflight, t) /\ t = r.task => ~InKernel(inflight', t)
  <2>1. /\ OnPort(port', t) <=> OnPort(port, t) \/ t = r.task
        /\ OnceOnPort(port, t) /\ (t = r.task => ~OnPort(port, t))
             => OnceOnPort(port', t)
    BY <1>1, <1>2, PortAppend
  <2> QED BY <1>1, <2>1 DEF InKernel, OnceInKernel
<1>5. ASSUME NEW t \in Tasks \ respun
      PROVE  (OneStands(t) /\ Runnable(t) /\ FramesAlive(t) /\ Answered(t))'
  <2>1. OneStands(t) /\ Runnable(t) /\ FramesAlive(t) /\ Answered(t)
    BY DEF AnswersInv
  <2>2. (Executed(t)' <=> Executed(t)) /\ (OnceExecuted(t)' <=> OnceExecuted(t))
    BY <1>1, <1>3 DEF Executed, OnceExecuted
  <2>3. OneStands(t)'
    BY <1>1, <1>2, <1>4, <2>1, <2>2 DEF OneStands
  <2>4. Runnable(t)'
    BY <1>1, <2>1, <2>2 DEF Runnable
  <2>5. FramesAlive(t)'
    <3>1. \A i \in DOMAIN port' : port'[i] = p \/ (i \in DOMAIN port /\ port'[i] = port[i])
      <4>1. /\ DOMAIN port = 1 .. Len(port) /\ DOMAIN port' = 1 .. Len(port) + 1
            /\ \A i \in DOMAIN port : port'[i] = port[i]
            /\ port'[Len(port) + 1] = p /\ Len(port) \in Nat
        BY <1>1, <1>2, AppendElements
      <4> QED BY <4>1
    <3> QED BY <1>1, <1>2, <2>1, <3>1 DEF FramesAlive, FrameAlive
  <2>6. Answered(t)'
    BY <1>1, <1>4, <2>1 DEF Answered
  <2> QED BY <2>3, <2>4, <2>5, <2>6
<1>6. (\A t \in Tasks : Unspawned(t))'
  BY <1>1, <1>2, <1>4 DEF AnswersInv, Unspawned
<1>7. (\A v \in Threads : pc[v] = "ub" => respun # {})'
  BY <1>1 DEF AnswersInv
<1> QED BY <1>1, <1>5, <1>6, <1>7 DEF AnswersInv

\* The packet becomes a queue entry in kRun; only a task that has repeated
\* an accept can find its frame gone.
LEMMA AnswersDequeue ==
  ASSUME IocpTypeOK, BusyWithTask, AnswersInv, NEW w \in Threads, Dequeue(w)
  PROVE  AnswersInv'
<1> USE DEF IocpTypeOK, Threads
<1> DEFINE p == Head(port)
<1>1. /\ pc[w] = "wait" /\ port # <<>> /\ port' = Tail(port)
      /\ UNCHANGED <<program, p_task, result, co, inflight, spawned, respun>>
  BY DEF Dequeue
<1>2. p \in PacketSet /\ OnPort(port, p.task) /\ \E i \in DOMAIN port : p = port[i]
  BY <1>1, TailElements, PortTail
<1>3. ASSUME NEW t \in Tasks
      PROVE  /\ OnPort(port', t) => OnPort(port, t)
             /\ OnPort(port, t) /\ t # p.task => OnPort(port', t)
             /\ OnceOnPort(port, t) => OnceOnPort(port', t)
             /\ OnceOnPort(port, t) /\ t = p.task => ~OnPort(port', t)
  BY <1>1, PortTail
<1>4. \A i \in DOMAIN port' : \E j \in DOMAIN port : port'[i] = port[j]
  BY <1>1, TailElements
<1>5. /\ p.task = None => /\ pc' = [pc EXCEPT ![w] = "running"]
                          /\ UNCHANGED <<m_tasks, m_state>>
      /\ p.task # None /\ FrameAlive(p) =>
           /\ m_state' = [m_state EXCEPT ![p.task] = "kRun"]
           /\ m_tasks' = Append(m_tasks, p.task)
           /\ pc' = [pc EXCEPT ![w] = "running"]
      /\ p.task # None /\ ~FrameAlive(p) =>
           pc' = [pc EXCEPT ![w] = "ub"] /\ UNCHANGED <<m_tasks, m_state>>
  BY DEF Dequeue, Goto
<1>6. p.task # None => p.task \in Tasks
  BY <1>2 DEF PacketSet
<1>7. p.task # None /\ ~FrameAlive(p) => p.task \in respun
  BY <1>2, <1>6 DEF AnswersInv, FramesAlive
<1> HIDE DEF p
<1>8. pc' \in [Threads -> Labels] /\ \A v \in Threads : v # w => pc'[v] = pc[v]
  <2>1. PICK label \in {"running", "ub"} : pc' = [pc EXCEPT ![w] = label]
    BY <1>5
  <2> QED BY <2>1 DEF Labels
<1>9. pc'[w] \in {"running", "ub"} /\ (pc'[w] = "ub" => respun # {})
  BY <1>5, <1>7
<1>10. \A v \in Threads, t \in Tasks : Executes(v, t)' <=> Executes(v, t)
  BY <1>1, <1>8, <1>9 DEF Executes
<1>11. ASSUME NEW t \in Tasks \ respun
       PROVE  (OneStands(t) /\ Runnable(t) /\ FramesAlive(t) /\ Answered(t))'
  <2>1. OneStands(t) /\ Runnable(t) /\ FramesAlive(t) /\ Answered(t)
    BY DEF AnswersInv
  <2>2. (Executed(t)' <=> Executed(t)) /\ (OnceExecuted(t)' <=> OnceExecuted(t))
    BY <1>1, <1>10 DEF Executed, OnceExecuted
  <2>3. /\ InQueue(m_tasks', t) <=> InQueue(m_tasks, t) \/ t = p.task
        /\ OnceInQueue(m_tasks, t) /\ (t = p.task => ~InQueue(m_tasks, t))
             => OnceInQueue(m_tasks', t)
        /\ m_state'[t] = IF t = p.task THEN "kRun" ELSE m_state[t]
    <3>1. CASE p.task # None /\ FrameAlive(p)
      <4>1. p.task \in Tasks /\ m_tasks' = Append(m_tasks, p.task)
        BY <1>5, <1>6, <3>1
      <4>2. m_state'[t] = IF t = p.task THEN "kRun" ELSE m_state[t]
        BY <1>5, <3>1
      <4> QED BY <4>1, <4>2, QueueAppend
    <3>2. CASE ~(p.task # None /\ FrameAlive(p))
      BY <1>5, <1>7, <3>2, IocpAssumption
    <3> QED BY <3>1, <3>2
  <2>4. OneStands(t)'
    BY <1>1, <1>2, <1>3, <2>1, <2>2, <2>3 DEF OneStands
  <2>5. Runnable(t)'
    BY <2>1, <2>2, <2>3 DEF Runnable
  <2>6. FramesAlive(t)'
    BY <1>1, <1>4, <2>1 DEF FramesAlive, FrameAlive
  <2>7. Answered(t)'
    <3>1. (\E v \in Threads : pc[v] = "step" /\ p_task[v] = t)
            => (\E v \in Threads : pc[v] = "step" /\ p_task[v] = t)'
      BY <1>1, <1>8
    <3> QED BY <1>1, <1>3, <2>1, <2>3, <3>1 DEF Answered
  <2> QED BY <2>4, <2>5, <2>6, <2>7
<1>12. ASSUME NEW t \in Tasks PROVE Unspawned(t)'
  <2>1. Unspawned(t)
    BY DEF AnswersInv
  <2>2. CASE t # p.task
    <3>1. (InQueue(m_tasks', t) <=> InQueue(m_tasks, t)) /\ m_state'[t] = m_state[t]
      <4>1. CASE p.task # None /\ FrameAlive(p)
        <5>1. p.task \in Tasks /\ m_tasks' = Append(m_tasks, p.task)
          BY <1>5, <1>6, <4>1
        <5>2. m_state'[t] = m_state[t]
          BY <1>5, <2>2, <4>1
        <5> QED BY <2>2, <5>1, <5>2, QueueAppend
      <4>2. CASE ~(p.task # None /\ FrameAlive(p))
        BY <1>5, <4>2
      <4> QED BY <4>1, <4>2
    <3> QED BY <1>1, <1>3, <2>1, <3>1 DEF Unspawned
  <2>3. CASE t = p.task
    BY <1>1, <1>2, <2>1, <2>3 DEF Unspawned
  <2> QED BY <2>2, <2>3
<1>13. (\A v \in Threads : pc[v] = "ub" => respun # {})'
  BY <1>1, <1>8, <1>9 DEF AnswersInv
<1> QED BY <1>1, <1>11, <1>12, <1>13 DEF AnswersInv

\* A task that has returned kRun is queued again, by the thread that stood
\* for it.
LEMMA AnswersFinish ==
  ASSUME IocpTypeOK, BusyWithTask, AnswersInv, NEW w \in Threads, Finish(w)
  PROVE  AnswersInv'
<1> USE DEF IocpTypeOK, Threads
<1> DEFINE u == p_task[w]
<1>1. /\ pc[w] = "finish" /\ pc' = [pc EXCEPT ![w] = "process"]
      /\ m_tasks' = IF result[w] = "kRun" THEN Append(m_tasks, u) ELSE m_tasks
      /\ UNCHANGED <<program, p_task, result, m_state, co, inflight, port, spawned, respun>>
  BY DEF Finish, Goto, taskVars, kernelVars
<1>2. u \in spawned /\ u \in Tasks
  BY <1>1 DEF BusyWithTask
<1>3. ASSUME NEW t \in Tasks
      PROVE  /\ InQueue(m_tasks', t)
                  <=> InQueue(m_tasks, t) \/ (t = u /\ result[w] = "kRun")
             /\ OnceInQueue(m_tasks, t) /\ (t = u => ~InQueue(m_tasks, t))
                  => OnceInQueue(m_tasks', t)
             /\ OnceInQueue(m_tasks, t) /\ result[w] # "kRun" => OnceInQueue(m_tasks', t)
  BY <1>1, <1>2, QueueAppend
<1> HIDE DEF u
<1>4. \A v \in Threads, t \in Tasks : Executes(v, t)' <=> Executes(v, t) /\ v # w
  BY <1>1 DEF Executes
<1>5. \A t \in Tasks : Executes(w, t) <=> t = u /\ result[w] = "kRun"
  BY <1>1 DEF Executes, u
<1>6. ASSUME NEW t \in Tasks \ respun
      PROVE  (OneStands(t) /\ Runnable(t) /\ FramesAlive(t) /\ Answered(t))'
  <2>1. OneStands(t) /\ Runnable(t) /\ FramesAlive(t) /\ Answered(t)
    BY DEF AnswersInv
  <2>2. (Executed(t)' => Executed(t)) /\ OnceExecuted(t)'
    BY <1>1, <1>4, <2>1 DEF Executed, OnceExecuted, OneStands
  <2>3. Executes(w, t) => Executed(t) /\ ~Executed(t)'
    BY <1>1, <1>4, <2>1 DEF Executed, OnceExecuted, OneStands
  <2>4. OneStands(t)'
    BY <1>1, <1>3, <1>5, <2>1, <2>2, <2>3 DEF OneStands
  <2>5. Runnable(t)'
    BY <1>1, <1>3, <1>5, <2>1, <2>2, <2>3 DEF Runnable
  <2>6. FramesAlive(t)'
    BY <1>1, <2>1 DEF FramesAlive, FrameAlive
  <2>7. Answered(t)'
    BY <1>1, <1>3, <2>1 DEF Answered
  <2> QED BY <2>4, <2>5, <2>6, <2>7
<1>7. (\A t \in Tasks : Unspawned(t))'
  BY <1>1, <1>2, <1>3 DEF AnswersInv, Unspawned
<1>8. (\A v \in Threads : pc[v] = "ub" => respun # {})'
  BY <1>1 DEF AnswersInv
<1> QED BY <1>1, <1>6, <1>7, <1>8 DEF AnswersInv

\* What a coroutine does changes only what stands for its own task.
LEMMA AnswersOthers ==
  ASSUME IocpTypeOK, BusyWithTask, AnswersInv, NEW w \in Threads, pc[w] = "step",
         NEW label \in {"step", "finish"}, pc' = [pc EXCEPT ![w] = label],
         NEW state, result' = [result EXCEPT ![w] = state],
         UNCHANGED <<program, p_task, m_tasks, port, spawned>>,
         NEW t \in Tasks, t # p_task[w],
         co'[t] = co[t], m_state'[t] = m_state[t],
         \A r \in RequestSet : r.task = t => (r \in inflight' <=> r \in inflight),
         inflight' \subseteq RequestSet
  PROVE  /\ OneStands(t) /\ Runnable(t) /\ FramesAlive(t) /\ Answered(t)
              => (OneStands(t) /\ Runnable(t) /\ FramesAlive(t) /\ Answered(t))'
         /\ Unspawned(t)'
<1> USE DEF IocpTypeOK, Threads
<1>1. \A v \in Threads : Executes(v, t)' <=> Executes(v, t)
  BY DEF Executes
<1>2. \A v \in Threads :
        (pc[v] = "step" /\ p_task[v] = t)' <=> pc[v] = "step" /\ p_task[v] = t
  OBVIOUS
<1>3. (Executed(t)' <=> Executed(t)) /\ (OnceExecuted(t)' <=> OnceExecuted(t))
  BY <1>1 DEF Executed, OnceExecuted
<1>4. /\ InKernel(inflight', t) <=> InKernel(inflight, t)
      /\ OnceInKernel(inflight', t) <=> OnceInKernel(inflight, t)
  BY DEF InKernel, OnceInKernel
<1>5. ASSUME OneStands(t) PROVE OneStands(t)'
  BY <1>3, <1>4, <1>5 DEF OneStands
<1>6. ASSUME Runnable(t) PROVE Runnable(t)'
  BY <1>3, <1>6 DEF Runnable
<1>7. ASSUME FramesAlive(t) PROVE FramesAlive(t)'
  BY <1>7 DEF FramesAlive, FrameAlive
<1>8. ASSUME Answered(t) PROVE Answered(t)'
  BY <1>2, <1>4, <1>8 DEF Answered
<1>9. Unspawned(t)'
  BY <1>4 DEF AnswersInv, Unspawned
<1> QED BY <1>5, <1>6, <1>7, <1>8, <1>9

\* A task that is executed is neither queued nor in the kernel, and in kRun.
LEMMA AnswersOwn ==
  ASSUME IocpTypeOK, BusyWithTask, AnswersInv, NEW w \in Threads, pc[w] = "step",
         p_task[w] \notin respun
  PROVE  LET t == p_task[w] IN
         /\ t \in Tasks /\ t \in spawned /\ m_state[t] = "kRun"
         /\ ~InQueue(m_tasks, t) /\ ~OnPort(port, t) /\ ~InKernel(inflight, t)
         /\ \A v \in Threads : Executes(v, t) <=> v = w
<1> DEFINE t == p_task[w]
<1>1. t \in Tasks /\ t \in spawned
  BY DEF IocpTypeOK, BusyWithTask
<1>2. OneStands(t) /\ Runnable(t) /\ Executes(w, t) /\ Executed(t)
  BY <1>1 DEF AnswersInv, Executes, Executed
<1> QED BY <1>1, <1>2 DEF OneStands, Runnable, OnceExecuted

\* While the coroutine of p_task runs, its thread stands for the task; after
\* the step the thread still does, or the request it has made.
LEMMA AnswersBody ==
  ASSUME IocpTypeOK, BusyWithTask, AnswersInv, NEW w \in Threads, BodyStep(w)
  PROVE  AnswersInv'
<1> DEFINE u == p_task[w]
<1>1. /\ UNCHANGED <<program, m_tasks, spawned, p_task>>
      /\ pc[w] = "step" /\ u \in Tasks /\ u \in spawned
  BY TaskOfThread, BodyCases
     DEF BodyStep, schedVars, Await, RootReturn, Stepping, BusyWithTask
<1>2. /\ co \in [Tasks -> Frames] /\ inflight \subseteq RequestSet
      /\ m_state \in [Tasks -> {"kRun", "kWait"}]
      /\ pc \in [Threads -> Labels]
      /\ result \in [Threads -> {"kRun", "kWait", "kDone"}]
      /\ p_task \in [Threads -> Tasks \cup {None}]
  BY DEF IocpTypeOK
\* What is left to prove for each of the four kinds: the task itself.
<1>3. ASSUME NEW label \in {"step", "finish"}, pc' = [pc EXCEPT ![w] = label],
             NEW state, result' = [result EXCEPT ![w] = state], port' = port,
             \A t \in Tasks : t # u => co'[t] = co[t] /\ m_state'[t] = m_state[t],
             \A r \in RequestSet : r.task # u => (r \in inflight' <=> r \in inflight),
             inflight' \subseteq RequestSet,
             respun' = respun \/ respun' = respun \cup {u},
             u \notin respun' =>
               (OneStands(u) /\ Runnable(u) /\ FramesAlive(u) /\ Answered(u))'
      PROVE  AnswersInv'
  <2>1. ASSUME NEW t \in Tasks, t # u
        PROVE  /\ t \notin respun =>
                    (OneStands(t) /\ Runnable(t) /\ FramesAlive(t) /\ Answered(t))'
               /\ Unspawned(t)'
    <3>1. /\ OneStands(t) /\ Runnable(t) /\ FramesAlive(t) /\ Answered(t)
               => (OneStands(t) /\ Runnable(t) /\ FramesAlive(t) /\ Answered(t))'
          /\ Unspawned(t)'
      BY <1>1, <1>3, <2>1, AnswersOthers
    <3> QED BY <3>1 DEF AnswersInv
  <2>2. Unspawned(u)'
    BY <1>1 DEF Unspawned
  <2>3. ASSUME NEW v \in Threads, pc'[v] = "ub" PROVE respun' # {}
    BY <1>2, <1>3, <2>3 DEF AnswersInv
  <2> QED BY <1>1, <1>3, <2>1, <2>2, <2>3 DEF AnswersInv, Threads
<1>4. ASSUME NEW op \in program.ops, Await(w, op)
      PROVE  AnswersInv'
  <2>1. /\ pc' = [pc EXCEPT ![w] = "finish"]
        /\ result' = [result EXCEPT ![w] = m_state[u]]
        /\ m_state' = [m_state EXCEPT ![u] = m_state[u]]
        /\ co' = [co EXCEPT ![u] = [at |-> "start", op |-> op,
                    frame |-> co[u].frame + 1, total |-> 0, issued |-> 0]]
        /\ UNCHANGED <<respun, inflight, port>>
    BY <1>4 DEF Await, Suspend, Goto
  <2>2. co'[u].at = "start" /\ m_state' = m_state
    BY <1>1, <1>2, <2>1
  <2>3. ASSUME u \notin respun
        PROVE  (OneStands(u) /\ Runnable(u) /\ FramesAlive(u) /\ Answered(u))'
    <3>1. /\ m_state[u] = "kRun"
          /\ ~InQueue(m_tasks, u) /\ ~OnPort(port, u) /\ ~InKernel(inflight, u)
          /\ \A v \in Threads : Executes(v, u) <=> v = w
      BY <1>1, <2>3, AnswersOwn
    <3>2. \A v \in Threads : Executes(v, u)' <=> v = w
      BY <1>1, <1>2, <2>1, <3>1 DEF Executes
    <3>3. OnceExecuted(u)'
      BY <1>1, <3>2 DEF OnceExecuted, Threads
    <3>4. OneStands(u)' /\ Runnable(u)'
      BY <1>1, <2>1, <2>2, <3>1, <3>3
         DEF AnswersInv, OneStands, Runnable, OnceInQueue, OnceOnPort, OnceInKernel,
             InQueue, OnPort, InKernel
    <3>5. FramesAlive(u)' /\ Answered(u)'
      BY <1>1, <2>1, <2>2, <3>1 DEF FramesAlive, Answered, OnPort, InKernel
    <3> QED BY <3>4, <3>5
  <2> QED BY <1>2, <1>3, <2>1, <2>2, <2>3
<1>5. CASE RootReturn(w)
  <2>1. /\ pc' = [pc EXCEPT ![w] = "finish"]
        /\ result' = [result EXCEPT ![w] = "kDone"]
        /\ co' = [co EXCEPT ![u].at = "done"]
        /\ UNCHANGED <<m_state, respun, inflight, port>>
    BY <1>5 DEF RootReturn, Goto, kernelVars
  <2>2. "done" \in Ats
    BY DEF Ats
  <2>3. co'[u].at = "done" /\ \A t \in Tasks : t # u => co'[t] = co[t]
    BY <1>1, <1>2, <2>1, <2>2, MoveCo
  <2>4. ASSUME u \notin respun
        PROVE  (OneStands(u) /\ Runnable(u) /\ FramesAlive(u) /\ Answered(u))'
    <3>1. /\ ~InQueue(m_tasks, u) /\ ~OnPort(port, u) /\ ~InKernel(inflight, u)
          /\ \A v \in Threads : Executes(v, u) <=> v = w
      BY <1>1, <2>4, AnswersOwn
    <3>2. \A v \in Threads : ~Executes(v, u)'
      BY <1>1, <1>2, <2>1, <3>1 DEF Executes
    <3>3. OnceExecuted(u)' /\ ~Executed(u)'
      BY <1>1, <3>2 DEF OnceExecuted, Executed, Threads
    <3>4. OneStands(u)' /\ Runnable(u)'
      BY <1>1, <2>1, <3>1, <3>3
         DEF OneStands, Runnable, OnceInQueue, OnceOnPort, OnceInKernel, InQueue, OnPort,
             InKernel
    <3>5. FramesAlive(u)' /\ Answered(u)'
      BY <1>1, <2>1, <2>3, <3>1 DEF FramesAlive, Answered, OnPort, InKernel
    <3> QED BY <3>4, <3>5
  <2> QED BY <1>2, <1>3, <2>1, <2>3, <2>4
<1>6. ASSUME NEW value \in Int, NEW state \in {"kRun", "kWait"}, Return(w, value, state)
      PROVE  AnswersInv'
  <2>1. /\ result' = [result EXCEPT ![w] = state]
        /\ m_state' = [m_state EXCEPT ![u] = state]
        /\ co' = [co EXCEPT ![u].at = "root"]
        /\ UNCHANGED <<respun, inflight, port>>
    BY <1>6 DEF Return, kernelVars
  <2>2. PICK label \in {"step", "finish"} :
          /\ pc' = [pc EXCEPT ![w] = label]
          /\ label = "finish" <=> state = "kWait"
    BY <1>6 DEF Return, Goto
  <2>3. "root" \in Ats
    BY DEF Ats
  <2>4. co'[u].at = "root" /\ \A t \in Tasks : t # u => co'[t] = co[t]
    BY <1>1, <1>2, <2>1, <2>3, MoveCo
  <2>5. ASSUME u \notin respun
        PROVE  (OneStands(u) /\ Runnable(u) /\ FramesAlive(u) /\ Answered(u))'
    <3>1. /\ ~InQueue(m_tasks, u) /\ ~OnPort(port, u) /\ ~InKernel(inflight, u)
          /\ \A v \in Threads : Executes(v, u) <=> v = w
      BY <1>1, <2>5, AnswersOwn
    <3>2. \A v \in Threads : Executes(v, u)' => v = w /\ state = "kRun"
      BY <1>1, <1>2, <2>1, <2>2, <3>1 DEF Executes
    <3>3. OnceExecuted(u)' /\ (Executed(u)' => state = "kRun")
      BY <1>1, <3>2 DEF OnceExecuted, Executed, Threads
    <3>4. OneStands(u)' /\ Runnable(u)'
      BY <1>1, <1>2, <2>1, <3>1, <3>3
         DEF OneStands, Runnable, OnceInQueue, OnceOnPort, OnceInKernel, InQueue, OnPort,
             InKernel
    <3>5. FramesAlive(u)' /\ Answered(u)'
      BY <1>1, <2>1, <2>4, <3>1 DEF FramesAlive, Answered, OnPort, InKernel
    <3> QED BY <3>4, <3>5
  <2> QED BY <1>1, <1>2, <1>3, <2>1, <2>2, <2>4, <2>5
<1>7. ASSUME NEW total \in 0 .. Size, NEW state \in {"kRun", "kWait"},
             Issue(w, total, state),
             (state = "kWait" /\ respun' = respun) \/ respun' = respun \cup {u}
      PROVE  AnswersInv'
  <2> DEFINE r == [task |-> u, frame |-> co[u].frame, id |-> co[u].issued,
                   size |-> Remaining(total)]
  <2>1. /\ pc' = [pc EXCEPT ![w] = "finish"]
        /\ result' = [result EXCEPT ![w] = state]
        /\ m_state' = [m_state EXCEPT ![u] = state]
        /\ inflight' = inflight \cup {r}
        /\ port' = port
    BY <1>7 DEF Issue, Suspend, Goto
  <2>2. /\ co'[u].at = "pending" /\ co'[u].frame = co[u].frame
        /\ \A t \in Tasks : t # u => co'[t] = co[t]
    <3>1. total \in Nat
      OBVIOUS
    <3> QED BY <1>1, <1>7, <3>1, IssueCo
  <2>3. r \in RequestSet /\ r.task = u /\ r.frame = co[u].frame
    <3>1. co[u].frame \in Nat /\ co[u].issued \in Nat /\ Size - total \in Nat
      BY <1>1, <1>2, IocpAssumption DEF Frames
    <3> QED BY <1>1, <3>1 DEF Remaining, RequestSet
  <2> HIDE DEF r
  <2>4. ASSUME u \notin respun'
        PROVE  (OneStands(u) /\ Runnable(u) /\ FramesAlive(u) /\ Answered(u))'
    <3>1. /\ ~InQueue(m_tasks, u) /\ ~OnPort(port, u) /\ ~InKernel(inflight, u)
          /\ \A v \in Threads : Executes(v, u) <=> v = w
      BY <1>1, <1>7, <2>4, AnswersOwn
    <3>2. \A v \in Threads : ~Executes(v, u)'
      BY <1>1, <1>2, <1>7, <2>1, <2>4, <3>1 DEF Executes
    <3>3. OnceExecuted(u)' /\ ~Executed(u)'
      BY <1>1, <3>2 DEF OnceExecuted, Executed, Threads
    <3>4. InKernel(inflight', u) /\ OnceInKernel(inflight', u)
      BY <2>1, <2>3, <3>1 DEF InKernel, OnceInKernel
    <3>5. OneStands(u)' /\ Runnable(u)'
      BY <1>1, <2>1, <3>1, <3>3, <3>4
         DEF OneStands, Runnable, OnceInQueue, OnceOnPort, InQueue, OnPort
    <3>6. FramesAlive(u)'
      BY <1>1, <2>1, <2>2, <2>3, <3>1
         DEF FramesAlive, FrameAlive, OnPort, InKernel
    <3>7. Answered(u)'
      BY <1>1, <3>4 DEF Answered
    <3> QED BY <3>5, <3>6, <3>7
  <2> QED BY <1>1, <1>2, <1>3, <1>7, <2>1, <2>2, <2>3, <2>4
<1> QED
  BY <1>4, <1>5, <1>6, <1>7, BodyCases

\* Every step keeps what stands for a task single, and answers the one that
\* waits.
LEMMA AnswersNext ==
  ASSUME IocpTypeOK, BusyWithTask, AnswersInv, [IocpNext]_iocpVars
  PROVE  AnswersInv'
<1> USE DEF schedVars, taskVars, kernelVars, threadVars
<1>1. ASSUME NEW t \in Tasks, SpawnRoot(t) PROVE AnswersInv'
  BY <1>1, AnswersSpawn
<1>2. ASSUME NEW w \in Threads, NEW label \in Labels \ {"step", "finish", "ub"},
             pc[w] \notin {"step", "finish"}, Jump(w, label)
      PROVE  AnswersInv'
  BY <1>2, AnswersJump DEF Jump, Goto
<1>3. CASE wait_for_all
  BY <1>2, <1>3 DEF wait_for_all, Labels, Threads
<1>4. CASE Destroy
  <2>1. pc[Main] = "returned" /\ pc' = [pc EXCEPT ![Main] = "joining"]
    BY <1>4 DEF Destroy, Goto
  <2> QED BY <1>4, <2>1, AnswersJump DEF Destroy, Labels, Threads
<1>5. CASE Join
  BY <1>2, <1>5 DEF Join, Labels, Threads
<1>6. ASSUME NEW w \in Threads,
             CheckActive(w) \/ PollEmpty(w) \/ WaitExpires(w) \/ CheckRunning(w)
             \/ Drained(w)
      PROVE  AnswersInv'
  <2>1. \E label \in Labels \ {"step", "finish", "ub"} : Jump(w, label)
    BY <1>6 DEF CheckActive, PollEmpty, WaitExpires, CheckRunning, Drained, Labels
  <2>2. pc[w] \notin {"step", "finish"}
    BY <1>6 DEF CheckActive, PollEmpty, WaitExpires, CheckRunning, Drained
  <2> QED BY <1>2, <2>1, <2>2
<1>7. ASSUME NEW w \in Threads, ChooseWait(w) PROVE AnswersInv'
  <2>1. pc[w] = "delay" /\ pc' = [pc EXCEPT ![w] = "wait"]
    BY <1>7 DEF ChooseWait, Goto
  <2> QED BY <1>7, <2>1, AnswersJump DEF ChooseWait, Labels
<1>8. ASSUME NEW w \in Threads, ThreadStep(w) \/ WaitExpires(w) PROVE AnswersInv'
  BY <1>6, <1>7, <1>8, AnswersLeave, AnswersDequeue, AnswersPop, AnswersFinish,
     AnswersBody DEF ThreadStep
<1>9. ASSUME NEW t \in Tasks, KernelStep(t) PROVE AnswersInv'
  <2>1. PICK r \in inflight : (\E n \in Bytes(r) : Complete(r, TRUE, n))
                              \/ Complete(r, FALSE, 0)
    BY <1>9 DEF KernelStep
  <2>2. Bytes(r) \subseteq Nat
    BY IocpAssumption DEF Bytes, IocpTypeOK, RequestSet
  <2> QED BY <2>1, <2>2, AnswersComplete
<1>10. CASE UNCHANGED iocpVars
  BY <1>10 DEF iocpVars, AnswersInv, OneStands, InQueue, OnceInQueue, OnPort,
     OnceOnPort, InKernel, OnceInKernel, Executes, Executed, OnceExecuted,
     Runnable, FramesAlive, FrameAlive, Answered, Unspawned, Threads
<1> QED
  BY <1>1, <1>3, <1>4, <1>5, <1>8, <1>9, <1>10 DEF IocpNext, MainStep, Terminated

-----------------------------------------------------------------------------
(* The chain of wake-ups.                                                  *)

\* The labels of a thread that carries the chain on.
OnChain == Labels \ {"delay", "wait", "returned", "joining", "joined"}

\* The main thread has not entered its loop.
LEMMA ShutdownInit == IocpInit => ShutdownInv
BY DEF IocpInit, ShutdownInv, Threads

\* A thread leaves the chain only through a packet, and takes a packet only
\* to become part of the chain.
LEMMA ShutdownNext ==
  ASSUME IocpTypeOK, ShutdownInv, [IocpNext]_iocpVars
  PROVE  ShutdownInv'
<1>1. pc \in [Threads -> Labels] /\ Main \in Threads
  BY DEF IocpTypeOK, Threads
<1>2. ASSUME NEW w \in Threads, NEW label \in OnChain, pc' = [pc EXCEPT ![w] = label],
             program' = program
      PROVE  ShutdownInv'
  <2>1. w \in Threads' /\ pc'[w] = label
    BY <1>1, <1>2 DEF Threads
  <2> QED BY <1>2, <2>1 DEF ShutdownInv, OnChain
<1>3. ASSUME NEW w \in Threads, pc[w] \in {"delay", "returned", "joining"},
             NEW label \in Labels, pc' = [pc EXCEPT ![w] = label],
             program' = program, m_active_tasks' = m_active_tasks, port' = port
      PROVE  ShutdownInv'
  <2>1. ASSUME NEW v \in Threads, v # w PROVE v \in Threads' /\ pc'[v] = pc[v]
    BY <1>1, <1>3, <2>1 DEF Threads
  <2>2. pc'[Main] # "main" => pc[Main] # "main"
    BY <1>1, <1>3, <2>1
  <2> QED BY <1>3, <2>1, <2>2 DEF ShutdownInv
<1>4. ASSUME port' # <<>> PROVE ShutdownInv'
  BY <1>4 DEF ShutdownInv
<1>5. ASSUME NEW t \in Tasks, SpawnRoot(t) PROVE ShutdownInv'
  BY <1>5 DEF SpawnRoot, threadVars, ShutdownInv
<1>6. CASE wait_for_all
  BY <1>1, <1>2, <1>6 DEF wait_for_all, Jump, Goto, OnChain, Labels
<1>7. CASE Destroy
  BY <1>1, <1>3, <1>7 DEF Destroy, Goto, Labels, schedVars, kernelVars
<1>8. CASE Join
  BY <1>1, <1>3, <1>8 DEF Join, Jump, Goto, Labels, schedVars, kernelVars
<1>9. ASSUME NEW w \in Threads, CheckActive(w) PROVE ShutdownInv'
  <2>1. CASE m_active_tasks = {}
    BY <1>2, <1>9, <2>1 DEF CheckActive, Jump, Goto, OnChain, Labels
  <2>2. CASE m_active_tasks # {}
    BY <1>9, <2>2 DEF CheckActive, Jump, schedVars, ShutdownInv
  <2> QED BY <2>1, <2>2
<1>10. ASSUME NEW w \in Threads, ChooseWait(w) PROVE ShutdownInv'
  BY <1>3, <1>10 DEF ChooseWait, Goto, Labels, schedVars, kernelVars
<1>11. ASSUME NEW w \in Threads, Leave(w) PROVE ShutdownInv'
  <2>1. port' # <<>>
    <3>1. NotifyPacket \in PacketSet /\ port' = Append(port, NotifyPacket)
      BY <1>11 DEF Leave, notify_one, NotifyPacket, PacketSet
    <3>2. port \in Seq(PacketSet)
      BY DEF IocpTypeOK
    <3> QED BY <3>1, <3>2, AppendElements
  <2> QED BY <1>4, <2>1
<1>12. ASSUME NEW w \in Threads, Dequeue(w) PROVE ShutdownInv'
  <2>1. \E label \in {"running", "ub"} : pc' = [pc EXCEPT ![w] = label]
    BY <1>12 DEF Dequeue, Goto
  <2> QED BY <1>2, <1>12, <2>1 DEF Dequeue, OnChain, Labels
<1>13. ASSUME NEW w \in Threads,
              PollEmpty(w) \/ WaitExpires(w) \/ CheckRunning(w) \/ Drained(w)
       PROVE  ShutdownInv'
  <2>1. \E label \in {"running", "process", "notify", "check"} : Jump(w, label)
    BY <1>13 DEF PollEmpty, WaitExpires, CheckRunning, Drained
  <2> QED BY <1>2, <2>1 DEF Jump, Goto, OnChain, Labels
<1>14. ASSUME NEW w \in Threads, Pop(w) \/ Finish(w) PROVE ShutdownInv'
  <2>1. /\ program' = program
        /\ \E label \in {"process", "step"} : pc' = [pc EXCEPT ![w] = label]
    BY <1>14 DEF Pop, Finish, Goto
  <2> QED BY <1>2, <2>1 DEF OnChain, Labels
<1>15. ASSUME NEW w \in Threads, BodyStep(w) PROVE ShutdownInv'
  <2>1. program' = program
    BY <1>15 DEF BodyStep
  <2>2. \E label \in {"step", "finish"} : pc' = [pc EXCEPT ![w] = label]
    BY <1>15, BodyLabel
  <2> QED BY <1>2, <2>1, <2>2 DEF OnChain, Labels
<1>16. ASSUME NEW t \in Tasks, KernelStep(t) PROVE ShutdownInv'
  <2>1. PICK r \in inflight : (\E n \in Bytes(r) : Complete(r, TRUE, n))
                              \/ Complete(r, FALSE, 0)
    BY <1>16 DEF KernelStep
  <2>2. Bytes(r) \subseteq Nat
    BY IocpAssumption DEF Bytes, IocpTypeOK, RequestSet
  <2>3. PICK p \in PacketSet : port' = Append(port, p)
    BY <2>1, <2>2 DEF Complete, PacketSet, IocpTypeOK, RequestSet
  <2> QED BY <1>4, <2>3, AppendElements DEF IocpTypeOK
<1>17. CASE UNCHANGED iocpVars
  BY <1>17 DEF iocpVars, schedVars, kernelVars, threadVars, ShutdownInv, Threads
<1> QED
  BY <1>5, <1>6, <1>7, <1>8, <1>9, <1>10, <1>11, <1>12, <1>13, <1>14, <1>15, <1>16,
     <1>17 DEF IocpNext, MainStep, ThreadStep, Terminated

-----------------------------------------------------------------------------
(* OpsInv.                                                                 *)

\* No request has been made and no task is executed.
LEMMA OpsInit == IocpInit => OpsInv
BY DEF IocpInit, OpsInv, Threads

\* No other thread executes the same task.
LEMMA SoleExecutor ==
  ASSUME IocpTypeOK, BusyWithTask, AnswersInv, OpsInv,
         NEW v \in Threads, NEW w \in Threads, pc[v] = "step", pc[w] = "step",
         p_task[v] = p_task[w]
  PROVE  v = w
<1>1. CASE p_task[w] \in respun
  BY <1>1 DEF OpsInv, Threads
<1>2. CASE p_task[w] \notin respun
  <2>1. Executes(v, p_task[w])
    BY DEF Executes
  <2> QED BY <1>2, <2>1, AnswersOwn
<1> QED BY <1>1, <1>2

\* Every step keeps the operations of a program, and executes a task in kRun.
LEMMA OpsNext ==
  ASSUME IocpTypeOK, BusyWithTask, AnswersInv, OpsInv, [IocpNext]_iocpVars
  PROVE  OpsInv'
<1> USE IocpAssumption
<1>1. /\ co \in [Tasks -> Frames] /\ m_state \in [Tasks -> {"kRun", "kWait"}]
      /\ pc \in [Threads -> Labels] /\ p_task \in [Threads -> Tasks \cup {None}]
      /\ program \in Programs
  BY DEF IocpTypeOK
\* A step that starts no execution, and puts no task into kWait.
<1>2. ASSUME UNCHANGED <<program, co, respun>>,
             \A w \in Threads : pc'[w] = "step" => pc[w] = "step" /\ p_task'[w] = p_task[w],
             \A t \in Tasks : m_state[t] = "kRun" => m_state'[t] = "kRun"
      PROVE  OpsInv'
  BY <1>1, <1>2, TaskOfThread DEF OpsInv, Threads
<1>3. ASSUME MainStep PROVE OpsInv'
  <2>1. UNCHANGED <<program, co, respun, m_state, p_task>>
    BY <1>3 DEF MainStep, SpawnRoot, wait_for_all, Destroy, Join, Jump, taskVars, threadVars
  <2>2. \A w \in Threads : pc'[w] = "step" => pc[w] = "step"
    BY <1>1, <1>3 DEF MainStep, SpawnRoot, wait_for_all, Destroy, Join, Jump, Goto,
       threadVars
  <2> QED BY <1>2, <2>1, <2>2
<1>4. ASSUME NEW w \in Threads,
             CheckActive(w) \/ ChooseWait(w) \/ Leave(w) \/ PollEmpty(w) \/ WaitExpires(w)
             \/ CheckRunning(w) \/ Drained(w) \/ Finish(w)
      PROVE  OpsInv'
  <2>1. UNCHANGED <<program, co, respun, m_state, p_task>>
    BY <1>4 DEF CheckActive, ChooseWait, Leave, PollEmpty, WaitExpires, CheckRunning,
       Drained, Finish, Jump, taskVars
  <2>2. \E label \in Labels \ {"step"} : pc' = [pc EXCEPT ![w] = label]
    BY <1>4 DEF CheckActive, ChooseWait, Leave, PollEmpty, WaitExpires, CheckRunning,
       Drained, Finish, Jump, Goto, Labels
  <2> QED BY <1>1, <1>2, <2>1, <2>2
<1>5. ASSUME NEW w \in Threads, Dequeue(w) PROVE OpsInv'
  <2>1. UNCHANGED <<program, co, respun, p_task>>
    BY <1>5 DEF Dequeue
  <2>2. \E label \in {"running", "ub"} : pc' = [pc EXCEPT ![w] = label]
    BY <1>5 DEF Dequeue, Goto
  <2>3. m_state' = m_state \/ m_state' = [m_state EXCEPT ![Head(port).task] = "kRun"]
    BY <1>5 DEF Dequeue
  <2> QED BY <1>1, <1>2, <2>1, <2>2, <2>3
<1>6. ASSUME NEW w \in Threads, Pop(w) PROVE OpsInv'
  <2> DEFINE u == Head(m_tasks)
  <2>1. /\ UNCHANGED <<program, co, respun, m_state>>
        /\ p_task' = [p_task EXCEPT ![w] = u]
        /\ pc' = [pc EXCEPT ![w] = IF m_state[u] = "kWait" THEN "process" ELSE "step"]
    BY <1>6 DEF Pop, Goto, taskVars
  <2>2. u \in Tasks
    BY <1>6, TailElements DEF Pop, IocpTypeOK
  <2> HIDE DEF u
  <2>3. ASSUME NEW v \in Threads, pc'[v] = "step" PROVE m_state'[p_task'[v]] = "kRun"
    <3>1. CASE v = w
      BY <1>1, <2>1, <2>2, <2>3, <3>1
    <3>2. CASE v # w
      BY <1>1, <2>1, <2>3, <3>2 DEF OpsInv
    <3> QED BY <3>1, <3>2
  <2> QED BY <2>1, <2>3 DEF OpsInv, Threads
<1>7. ASSUME NEW w \in Threads, BodyStep(w) PROVE OpsInv'
  <2> DEFINE u == p_task[w]
  <2>1. /\ UNCHANGED <<program, p_task>> /\ pc[w] = "step" /\ u \in Tasks
        /\ m_state[u] = "kRun"
    BY <1>7, TaskOfThread, BodyCases
       DEF BodyStep, Await, RootReturn, Stepping, OpsInv
  \* The others execute other tasks.
  <2>2. ASSUME NEW v \in Threads, v # w, pc[v] = "step" PROVE p_task[v] # u
    BY <2>1, <2>2, SoleExecutor
  <2>3. ASSUME NEW label \in {"step", "finish"}, pc' = [pc EXCEPT ![w] = label],
               \A t \in Tasks : t # u => m_state'[t] = m_state[t],
               label = "step" => m_state'[u] = "kRun",
               NEW v \in Threads, pc'[v] = "step"
        PROVE  m_state'[p_task'[v]] = "kRun"
    <3>1. CASE v = w
      BY <1>1, <2>1, <2>3, <3>1
    <3>2. CASE v # w
      BY <1>1, <2>1, <2>2, <2>3, <3>2, TaskOfThread DEF OpsInv
    <3> QED BY <3>1, <3>2
  <2>4. ASSUME NEW op \in program.ops, Await(w, op) PROVE OpsInv'
    <3>1. /\ pc' = [pc EXCEPT ![w] = "finish"] /\ respun' = respun
          /\ m_state' = [m_state EXCEPT ![u] = m_state[u]]
          /\ co' = [co EXCEPT ![u] = [at |-> "start", op |-> op,
                      frame |-> co[u].frame + 1, total |-> 0, issued |-> 0]]
      BY <2>4 DEF Await, Suspend, Goto
    <3>2. \A t \in Tasks : co'[t].op \in program.ops \cup {"compute"}
      BY <1>1, <2>1, <3>1 DEF OpsInv
    <3>3. \A v \in Threads : pc'[v] = "step" => m_state'[p_task'[v]] = "kRun"
      BY <1>1, <2>3, <3>1
    <3> QED BY <2>1, <3>1, <3>2, <3>3 DEF OpsInv, Threads
  <2>5. CASE RootReturn(w)
    <3>1. /\ pc' = [pc EXCEPT ![w] = "finish"] /\ respun' = respun
          /\ m_state' = m_state /\ co' = [co EXCEPT ![u].at = "done"] /\ "done" \in Ats
      BY <2>5 DEF RootReturn, Goto, Ats
    <3>2. \A t \in Tasks : co'[t].op = co[t].op
      BY <1>1, <2>1, <3>1, MoveCo
    <3>3. \A v \in Threads : pc'[v] = "step" => m_state'[p_task'[v]] = "kRun"
      BY <2>3, <3>1
    <3> QED BY <2>1, <3>1, <3>2, <3>3 DEF OpsInv, Threads
  <2>6. ASSUME NEW value \in Int, NEW state \in {"kRun", "kWait"}, Return(w, value, state)
        PROVE  OpsInv'
    <3>1. /\ respun' = respun /\ m_state' = [m_state EXCEPT ![u] = state]
          /\ co' = [co EXCEPT ![u].at = "root"] /\ "root" \in Ats
      BY <2>6 DEF Return, Ats
    <3>2. PICK label \in {"step", "finish"} :
            /\ pc' = [pc EXCEPT ![w] = label]
            /\ label = "finish" <=> state = "kWait"
      BY <2>6 DEF Return, Goto
    <3>3. \A t \in Tasks : co'[t].op = co[t].op
      BY <1>1, <2>1, <3>1, MoveCo
    <3>4. \A v \in Threads : pc'[v] = "step" => m_state'[p_task'[v]] = "kRun"
      BY <1>1, <2>1, <2>3, <3>1, <3>2
    <3> QED BY <2>1, <3>1, <3>3, <3>4 DEF OpsInv, Threads
  <2>7. ASSUME NEW total \in 0 .. Size, NEW state \in {"kRun", "kWait"},
               Issue(w, total, state),
               respun' = respun \/ co[u].op = "accept"
        PROVE  OpsInv'
    <3>1. /\ pc' = [pc EXCEPT ![w] = "finish"]
          /\ m_state' = [m_state EXCEPT ![u] = state]
      BY <2>7 DEF Issue, Suspend, Goto
    <3>2. \A t \in Tasks : co'[t].op = co[t].op
      <4>1. total \in Nat
        OBVIOUS
      <4> QED BY <2>1, <2>7, <4>1, IssueCo
    <3>3. \A v \in Threads : pc'[v] = "step" => m_state'[p_task'[v]] = "kRun"
      BY <1>1, <2>3, <3>1
    <3>4. co[u].op = "accept" => program.workers = {}
      BY <1>1, <2>1 DEF OpsInv
    <3> QED BY <2>1, <2>7, <3>2, <3>3, <3>4 DEF OpsInv, Threads
  <2> QED BY <1>7, <2>4, <2>5, <2>6, <2>7, BodyCases
<1>8. ASSUME NEW t \in Tasks, KernelStep(t) PROVE OpsInv'
  BY <1>2, <1>8 DEF KernelStep, Complete, taskVars, threadVars
<1>9. CASE UNCHANGED iocpVars
  BY <1>2, <1>9 DEF iocpVars, taskVars, threadVars
<1> QED
  BY <1>3, <1>4, <1>5, <1>6, <1>7, <1>8, <1>9
     DEF IocpNext, ThreadStep, Terminated

-----------------------------------------------------------------------------
(* TransferInv.                                                            *)

\* No operation has counted a byte.
LEMMA TransferInit == IocpInit => TransferInv
BY DEF IocpInit, TransferInv, FramesPast, Counted, Begun, Transfers

\* An operation is counted as before when neither it nor its requests and
\* packets change.
LEMMA CountedSame ==
  ASSUME NEW t \in Tasks, Counted(t),
         co'[t] = co[t], m_state'[t] = m_state[t], overlapped'[t] = overlapped[t],
         moved'[t] = moved[t], last'[t] = last[t],
         \A r \in inflight' : Current(r, t) => r \in inflight,
         \A i \in DOMAIN port' : Current(port'[i], t) =>
           \E j \in DOMAIN port : port[j] = port'[i],
         (\A i, j \in DOMAIN port : Current(port[i], t) /\ Current(port[j], t) => i = j)
           => \A i, j \in DOMAIN port' :
                Current(port'[i], t) /\ Current(port'[j], t) => i = j
  PROVE  Counted(t)'
<1>1. \A x : (x.task = t /\ x.frame = co'[t].frame) <=> Current(x, t)
  BY DEF Current
<1>2. Quiet(t) => Quiet(t)'
  BY <1>1 DEF Quiet, Current
<1>3. OnceCurrent(t) => OnceCurrent(t)'
  <2> SUFFICES ASSUME OnceCurrent(t) PROVE OnceCurrent(t)'
    OBVIOUS
  <2>1. (\A i, j \in DOMAIN port : Current(port[i], t) /\ Current(port[j], t) => i = j)'
    BY <1>1 DEF OnceCurrent, Current
  <2>2. (\A r \in inflight : \A i \in DOMAIN port :
           ~(Current(r, t) /\ Current(port[i], t)))'
    BY <1>1 DEF OnceCurrent, Current
  <2>3. (\A r, s \in inflight : Current(r, t) /\ Current(s, t) => r = s)'
    BY <1>1 DEF OnceCurrent, Current
  <2> QED BY <2>1, <2>2, <2>3 DEF OnceCurrent
<1>4. Begun(t)'
  BY <1>2 DEF Counted, Begun
<1>5. Settled(t) => Settled(t)'
  BY <1>2 DEF Settled, Total
<1>6. Open(t) => Open(t)'
  BY <1>1, <1>3 DEF Open, Current
<1>7. Reported(t) => Reported(t)'
  BY DEF Reported
<1> QED BY <1>4, <1>5, <1>6, <1>7 DEF Counted

\* A step that leaves the coroutines, the requests and the packets alone.
LEMMA TransferSame ==
  ASSUME TransferInv,
         UNCHANGED <<m_state, co, overlapped, last, moved, inflight, port>>
  PROVE  TransferInv'
<1>1. ASSUME NEW t \in Tasks PROVE Counted(t)'
  BY CountedSame DEF TransferInv
<1>2. FramesPast'
  BY DEF TransferInv, FramesPast
<1> QED BY <1>1, <1>2 DEF TransferInv

\* The packet of notify_one() answers nothing.
LEMMA TransferLeave ==
  ASSUME IocpTypeOK, TransferInv, NEW w \in Threads, Leave(w)
  PROVE  TransferInv'
<1>1. /\ port' = Append(port, NotifyPacket)
      /\ UNCHANGED <<m_state, co, overlapped, last, moved, inflight>>
  BY DEF Leave, notify_one, taskVars
<1>2. NotifyPacket \in PacketSet /\ NotifyPacket.task = None /\ port \in Seq(PacketSet)
  BY DEF NotifyPacket, PacketSet, IocpTypeOK
<1>3. \A i \in DOMAIN port' : port'[i].task = None
                             \/ (i \in DOMAIN port /\ port'[i] = port[i])
  <2>1. /\ DOMAIN port = 1 .. Len(port) /\ DOMAIN port' = 1 .. Len(port) + 1
        /\ \A i \in DOMAIN port : port'[i] = port[i]
        /\ port'[Len(port) + 1] = NotifyPacket /\ Len(port) \in Nat
    BY <1>1, <1>2, AppendElements
  <2> QED BY <1>2, <2>1
<1>4. ASSUME NEW t \in Tasks PROVE Counted(t)'
  <2>1. \A i \in DOMAIN port' : Current(port'[i], t) =>
          i \in DOMAIN port /\ port'[i] = port[i]
    BY <1>3, IocpAssumption DEF Current
  <2> QED BY <1>1, <2>1, CountedSame DEF TransferInv
<1>5. FramesPast'
  BY <1>1, <1>3 DEF TransferInv, FramesPast
<1> QED BY <1>4, <1>5 DEF TransferInv

\* The kernel adds to moved what it puts into the packet.
LEMMA TransferComplete ==
  ASSUME IocpTypeOK, TransferInv, NEW r \in inflight, NEW ok \in BOOLEAN,
         NEW n \in Nat, Complete(r, ok, n), ok \/ n = 0,
         ok => n \in Bytes(r)
  PROVE  TransferInv'
<1> DEFINE p == [task |-> r.task, frame |-> r.frame, success |-> ok, bytes |-> n]
           u == r.task
<1>1. /\ inflight' = inflight \ {r} /\ port' = Append(port, p)
      /\ UNCHANGED <<m_state, co, overlapped, last>>
      /\ moved' = IF r.frame = co[u].frame THEN [moved EXCEPT ![u] = @ + n] ELSE moved
  BY DEF Complete, taskVars
<1>2. /\ p \in PacketSet /\ p.task = u /\ u \in Tasks /\ p.frame = r.frame
      /\ p.bytes = n /\ p.success = ok
      /\ port \in Seq(PacketSet) /\ moved \in [Tasks -> Nat] /\ co \in [Tasks -> Frames]
      /\ r.size \in Nat
  BY DEF PacketSet, RequestSet, IocpTypeOK
<1> HIDE DEF p, u
<1>3. /\ DOMAIN port = 1 .. Len(port) /\ DOMAIN port' = 1 .. Len(port) + 1
      /\ \A i \in DOMAIN port : port'[i] = port[i]
      /\ port'[Len(port) + 1] = p /\ Len(port) \in Nat
  BY <1>1, <1>2, AppendElements
<1>4. \A i \in DOMAIN port' : port'[i] = p \/ (i \in DOMAIN port /\ port'[i] = port[i])
  BY <1>3
<1>5. ASSUME NEW t \in Tasks, ~Current(r, t) PROVE Counted(t)'
  <2>1. ~Current(p, t)
    BY <1>2, <1>5 DEF Current, u
  <2>2. \A i \in DOMAIN port' : Current(port'[i], t) =>
          i \in DOMAIN port /\ port'[i] = port[i]
    BY <1>4, <2>1
  <2>3. moved'[t] = moved[t]
    BY <1>1, <1>2, <1>5 DEF Current, u
  <2> QED BY <1>1, <2>2, <2>3, CountedSame DEF TransferInv
<1>6. ASSUME Current(r, u) PROVE Counted(u)'
  <2>1. Counted(u) /\ ~Quiet(u)
    BY <1>2, <1>6 DEF TransferInv, Quiet
  <2>2. co[u].at # "start"
    BY <2>1 DEF Counted, Begun
  <2>3. Begun(u)'
    BY <1>1, <2>2 DEF Begun, u
  <2>4. CASE co[u].op \notin Transfers
    BY <1>1, <2>3, <2>4 DEF Counted, u
  <2>5. CASE co[u].op \in Transfers
    <3>1. /\ Settled(u) /\ Open(u) /\ Reported(u)
          /\ co[u].op # "write" => co[u].total = 0
          /\ co[u].at = "pending" /\ m_state[u] # "kRun"
      BY <2>1, <2>5 DEF Counted, Settled
    <3>2. m_state[u] = "kWait"
      BY <1>2, <3>1 DEF IocpTypeOK
    <3>3. /\ co[u].total = moved[u] /\ r.size = Size - co[u].total
          /\ \A s \in inflight : Current(s, u) => s = r
          /\ \A i \in DOMAIN port : ~Current(port[i], u)
      BY <1>6, <3>1, <3>2 DEF Open, OnceCurrent
    <3>4. moved'[u] = moved[u] + n /\ moved[u] \in Nat
      BY <1>1, <1>2, <1>6 DEF Current
    <3>5. \A i \in DOMAIN port' : Current(port'[i], u) => i = Len(port) + 1
      BY <1>3, <3>3
    <3>6. \A s \in inflight' : ~Current(s, u)
      BY <1>1, <3>3
    <3>7. OnceCurrent(u)'
      <4>1. (\A i, j \in DOMAIN port : Current(port[i], u) /\ Current(port[j], u) => i = j)'
        BY <1>1, <3>5 DEF Current
      <4>2. (\A s \in inflight : ~Current(s, u))'
        BY <1>1, <3>6 DEF Current
      <4> QED BY <4>1, <4>2 DEF OnceCurrent
    <3>8. co[u].op = "write" => moved'[u] <= Size
      <4>1. ASSUME co[u].op = "write", ok PROVE n <= r.size
        BY <1>2, <4>1 DEF Bytes, u
      <4> QED BY <1>2, <3>3, <3>4, <4>1, IocpAssumption
    <3>9. Open(u)'
      <4>1. co[u].total + p.bytes = moved'[u] /\ (~p.success => p.bytes = 0)
        BY <1>2, <3>3, <3>4
      <4>2. (\A i \in DOMAIN port : Current(port[i], u) => port[i] = p)'
        BY <1>1, <1>3, <3>5 DEF Current
      <4>3. (\A s \in inflight : ~Current(s, u))'
        BY <1>1, <3>6 DEF Current
      <4> QED BY <1>1, <3>7, <3>8, <4>1, <4>2, <4>3 DEF Open
    <3>10. Settled(u)' /\ Reported(u)'
      BY <1>1, <3>1 DEF Settled, Reported
    <3> QED BY <1>1, <2>3, <3>1, <3>9, <3>10 DEF Counted
  <2> QED BY <2>4, <2>5
<1>7. ASSUME NEW t \in Tasks PROVE Counted(t)'
  BY <1>5, <1>6 DEF Current, u
<1>8. FramesPast'
  BY <1>1, <1>2, <1>4 DEF TransferInv, FramesPast, u
<1> QED BY <1>7, <1>8 DEF TransferInv

\* The coroutine gets what the kernel has put into the packet.
LEMMA TransferDequeue ==
  ASSUME IocpTypeOK, TransferInv, NEW w \in Threads, Dequeue(w)
  PROVE  TransferInv'
<1>0. PICK p : p = Head(port)
  OBVIOUS
<1> DEFINE u == p.task
<1>1. /\ port # <<>> /\ port' = Tail(port)
      /\ UNCHANGED <<co, inflight, last, moved>>
  BY DEF Dequeue
<1>2. /\ port \in Seq(PacketSet) /\ co \in [Tasks -> Frames]
      /\ overlapped \in [Tasks -> OverlappedSet]
      /\ m_state \in [Tasks -> {"kRun", "kWait"}]
  BY DEF IocpTypeOK
<1>3. /\ \A i \in DOMAIN port' : port'[i] = port[i + 1] /\ i + 1 \in DOMAIN port /\ i \in Nat \ {0}
      /\ p = port[1] /\ p \in PacketSet /\ 1 \in DOMAIN port
  BY <1>0, <1>1, <1>2, TailElements
<1>4. /\ u # None /\ FrameAlive(p) =>
           /\ overlapped' = [overlapped EXCEPT ![u] = Transferred(p)]
           /\ m_state' = [m_state EXCEPT ![u] = "kRun"]
      /\ ~(u # None /\ FrameAlive(p)) => UNCHANGED <<overlapped, m_state>>
  BY <1>0 DEF Dequeue
<1>5. u # None => u \in Tasks
  BY <1>3 DEF PacketSet
<1> HIDE DEF u
<1>6. ASSUME NEW t \in Tasks, overlapped'[t] = overlapped[t], m_state'[t] = m_state[t]
      PROVE  Counted(t)'
  <2>1. \A i \in DOMAIN port' : \E j \in DOMAIN port : port[j] = port'[i]
    BY <1>3
  <2>2. (\A i, j \in DOMAIN port : Current(port[i], t) /\ Current(port[j], t) => i = j)
          => \A i, j \in DOMAIN port' :
               Current(port'[i], t) /\ Current(port'[j], t) => i = j
    <3> SUFFICES ASSUME \A i, j \in DOMAIN port :
                          Current(port[i], t) /\ Current(port[j], t) => i = j,
                        NEW i \in DOMAIN port', NEW j \in DOMAIN port',
                        Current(port'[i], t), Current(port'[j], t)
                 PROVE  i = j
      OBVIOUS
    <3>1. i + 1 = j + 1 /\ i \in Nat /\ j \in Nat
      BY <1>3
    <3> QED BY <3>1
  <2> QED BY <1>1, <1>6, <2>1, <2>2, CountedSame DEF TransferInv
<1>7. ASSUME u # None, FrameAlive(p) PROVE Counted(u)'
  <2>1. u \in Tasks /\ Counted(u) /\ Current(p, u) /\ co[u].at = "pending"
    BY <1>5, <1>7 DEF TransferInv, FrameAlive, Current, u
  <2>2. Begun(u)'
    BY <1>1, <2>1 DEF Begun
  <2>3. CASE co[u].op \notin Transfers
    BY <1>1, <2>2, <2>3 DEF Counted
  <2>4. CASE co[u].op \in Transfers
    <3>1. /\ Settled(u) /\ Open(u) /\ Reported(u)
          /\ co[u].op # "write" => co[u].total = 0
      BY <2>1, <2>4 DEF Counted
    <3>2. m_state[u] = "kWait"
      BY <1>2, <1>3, <2>1, <3>1 DEF Settled, Quiet
    <3>3. /\ \A r \in inflight : ~Current(r, u)
          /\ \A i \in DOMAIN port : Current(port[i], u) => i = 1
          /\ co[u].total + p.bytes = moved[u]
          /\ co[u].op = "write" => moved[u] <= Size
          /\ ~p.success => p.bytes = 0
      BY <1>3, <2>1, <3>1, <3>2 DEF Open, OnceCurrent
    <3>4. m_state'[u] = "kRun" /\ overlapped'[u] = [success |-> p.success, bytes |-> p.bytes]
      BY <1>2, <1>4, <1>7, <2>1 DEF Transferred
    <3>5. \A i \in DOMAIN port' : ~Current(port'[i], u)
      <4> SUFFICES ASSUME NEW i \in DOMAIN port', Current(port'[i], u) PROVE FALSE
        OBVIOUS
      <4>1. i + 1 = 1 /\ i \in Nat \ {0}
        BY <1>3, <3>3
      <4> QED BY <4>1
    <3>6. Quiet(u)'
      BY <1>1, <3>3, <3>5 DEF Quiet, Current
    <3>7. Settled(u)'
      BY <1>1, <3>3, <3>4, <3>6 DEF Settled, Total
    <3>8. Open(u)' /\ Reported(u)'
      BY <1>1, <3>1, <3>4 DEF Open, Reported
    <3> QED BY <1>1, <2>2, <3>1, <3>7, <3>8 DEF Counted
  <2> QED BY <2>3, <2>4
<1>8. ASSUME NEW t \in Tasks PROVE Counted(t)'
  <2>1. CASE t = u /\ FrameAlive(p)
    BY <1>7, <2>1, IocpAssumption
  <2>2. CASE ~(t = u /\ FrameAlive(p))
    <3>1. overlapped'[t] = overlapped[t] /\ m_state'[t] = m_state[t]
      BY <1>2, <1>4, <1>5, <2>2
    <3> QED BY <1>6, <3>1
  <2> QED BY <2>1, <2>2
<1>9. FramesPast'
  BY <1>1, <1>3 DEF TransferInv, FramesPast
<1> QED BY <1>8, <1>9 DEF TransferInv

\* An operation that transfers and that runs is settled: nothing is open.
LEMMA RunningIsQuiet ==
  ASSUME OpsInv, TransferInv, NEW w \in Threads, pc[w] = "step",
         p_task[w] \in Tasks, co[p_task[w]].op \in Transfers
  PROVE  /\ Quiet(p_task[w]) /\ Settled(p_task[w]) /\ Reported(p_task[w])
         /\ co[p_task[w]].op # "write" => co[p_task[w]].total = 0
BY DEF OpsInv, TransferInv, Counted, Settled

\* What a coroutine does leaves the operations of the other tasks alone.
LEMMA TransferOwn ==
  ASSUME IocpTypeOK, TransferInv, NEW u \in Tasks,
         \A t \in Tasks : t # u =>
           /\ co'[t] = co[t] /\ m_state'[t] = m_state[t]
           /\ overlapped'[t] = overlapped[t]
           /\ moved'[t] = moved[t] /\ last'[t] = last[t],
         \A r \in inflight' : r \in inflight \/ (r.task = u /\ r.frame <= co'[u].frame),
         port' = port,
         co[u].frame <= co'[u].frame, co'[u].frame \in Nat,
         Counted(u)'
  PROVE  TransferInv'
<1>1. ASSUME NEW t \in Tasks, t # u PROVE Counted(t)'
  <2>1. \A r \in inflight' : Current(r, t) => r \in inflight
    BY <1>1 DEF Current
  <2> QED BY <1>1, <2>1, CountedSame DEF TransferInv
<1>2. FramesPast'
  <2>1. inflight \subseteq RequestSet /\ co \in [Tasks -> Frames] /\ port \in Seq(PacketSet)
    BY DEF IocpTypeOK
  <2>2. ASSUME NEW r \in inflight' PROVE r.frame <= co'[r.task].frame
    <3>1. CASE r \notin inflight
      BY <3>1
    <3>2. CASE r \in inflight
      <4>1. r.task \in Tasks /\ r.frame \in Nat /\ r.frame <= co[r.task].frame
        BY <2>1, <3>2 DEF TransferInv, FramesPast, RequestSet
      <4> QED BY <2>1, <4>1 DEF Frames
    <3> QED BY <3>1, <3>2
  <2>3. ASSUME NEW i \in DOMAIN port, port[i].task # None
        PROVE  port[i].frame <= co'[port[i].task].frame
    <3>1. port[i] \in PacketSet
      BY <2>1
    <3>2. /\ port[i].task \in Tasks /\ port[i].frame \in Nat
          /\ port[i].frame <= co[port[i].task].frame
      BY <2>3, <3>1 DEF TransferInv, FramesPast, PacketSet
    <3> QED BY <2>1, <3>2 DEF Frames
  <2> QED BY <2>2, <2>3 DEF FramesPast
<1> QED BY <1>1, <1>2 DEF TransferInv

\* A value that is returned is what has been moved, because nothing is open.
LEMMA TransferReturn ==
  ASSUME IocpTypeOK, BusyWithTask, OpsInv, TransferInv, NEW w \in Threads,
         pc[w] = "step", UNCHANGED p_task,
         NEW value \in Int, NEW state \in {"kRun", "kWait"}, Return(w, value, state),
         co[p_task[w]].op \in Transfers /\ value >= 0 =>
           /\ value = moved[p_task[w]]
           /\ co[p_task[w]].op = "write" => value = Size
  PROVE  TransferInv'
<1>0. PICK u : u = p_task[w]
  OBVIOUS
<1>1. u \in Tasks /\ co \in [Tasks -> Frames] /\ last \in [Tasks -> Int]
  BY <1>0, TaskOfThread DEF IocpTypeOK
<1>2. /\ last' = [last EXCEPT ![u] = value]
      /\ co' = [co EXCEPT ![u].at = "root"]
      /\ m_state' = [m_state EXCEPT ![u] = state]
      /\ UNCHANGED <<overlapped, inflight, port, moved>>
  BY <1>0 DEF Return, kernelVars
<1>3. "root" \in Ats
  BY DEF Ats
<1>4. /\ co'[u].at = "root" /\ co'[u].op = co[u].op /\ co'[u].total = co[u].total
      /\ co'[u].frame = co[u].frame
      /\ \A t \in Tasks : t # u => co'[t] = co[t]
  BY <1>1, <1>2, <1>3, MoveCo
<1>5. Counted(u)'
  <2>1. Begun(u)'
    BY <1>4 DEF Begun
  <2>2. ASSUME co[u].op \in Transfers
        PROVE  (Settled(u) /\ Open(u) /\ Reported(u)
                /\ (co[u].op # "write" => co[u].total = 0))'
    <3>1. Quiet(u) /\ (co[u].op # "write" => co[u].total = 0)
      BY <1>0, <1>1, <2>2, RunningIsQuiet
    <3>2. Quiet(u)'
      BY <1>2, <1>4, <3>1 DEF Quiet, Current
    <3>3. Settled(u)' /\ Open(u)'
      BY <1>4, <3>2 DEF Settled, Open
    <3>4. last'[u] = value
      BY <1>1, <1>2
    <3>5. Reported(u)'
      BY <1>0, <1>2, <1>4, <2>2, <3>4 DEF Reported
    <3> QED BY <1>4, <3>1, <3>3, <3>5
  <2> QED BY <1>4, <2>1, <2>2 DEF Counted
<1>6. co[u].frame \in Nat
  BY <1>1 DEF Frames
<1>7. \A t \in Tasks : t # u =>
        /\ co'[t] = co[t] /\ m_state'[t] = m_state[t] /\ overlapped'[t] = overlapped[t]
        /\ moved'[t] = moved[t] /\ last'[t] = last[t]
  BY <1>1, <1>2, <1>4 DEF IocpTypeOK
<1> QED BY <1>1, <1>2, <1>4, <1>5, <1>6, <1>7, TransferOwn

\* A request is for what has not been moved, and it is the only one.
LEMMA TransferIssue ==
  ASSUME IocpTypeOK, BusyWithTask, OpsInv, TransferInv, NEW w \in Threads,
         pc[w] = "step", UNCHANGED p_task,
         NEW total \in 0 .. Size, NEW state \in {"kRun", "kWait"},
         Issue(w, total, state),
         co[p_task[w]].op \in Transfers =>
           /\ state = "kWait" /\ total = moved[p_task[w]]
           /\ co[p_task[w]].at \in {"start", "pending"}
           /\ co[p_task[w]].op # "write" => total = 0
  PROVE  TransferInv'
<1>0. PICK u : u = p_task[w]
  OBVIOUS
<1>1. /\ u \in Tasks /\ co \in [Tasks -> Frames] /\ inflight \subseteq RequestSet
      /\ m_state \in [Tasks -> {"kRun", "kWait"}]
  BY <1>0, TaskOfThread DEF IocpTypeOK
<1>2. PICK r : r = [task |-> u, frame |-> co[u].frame, id |-> co[u].issued,
                    size |-> Size - total]
  OBVIOUS
<1>3. /\ inflight' = inflight \cup {r}
      /\ m_state' = [m_state EXCEPT ![u] = state]
      /\ UNCHANGED <<overlapped, last, port, moved>>
  BY <1>0, <1>2 DEF Issue, Suspend, Remaining
<1>4. /\ co'[u].at = "pending" /\ co'[u].op = co[u].op /\ co'[u].total = total
      /\ co'[u].frame = co[u].frame
      /\ \A t \in Tasks : t # u => co'[t] = co[t]
  <2>1. total \in Nat
    BY IocpAssumption
  <2> QED BY <1>0, <1>1, <2>1, IssueCo
<1>5. Counted(u)'
  <2>1. Begun(u)'
    BY <1>4 DEF Begun
  <2>2. ASSUME co[u].op \in Transfers
        PROVE  (Settled(u) /\ Open(u) /\ Reported(u)
                /\ (co[u].op # "write" => co[u].total = 0))'
    <3>1. Quiet(u) /\ Reported(u)
      BY <1>0, <1>1, <2>2, RunningIsQuiet
    <3>2. m_state'[u] = "kWait"
      BY <1>0, <1>1, <1>3, <2>2
    <3>3. /\ \A s \in inflight' : Current(s, u) => s = r
          /\ \A i \in DOMAIN port' : ~Current(port'[i], u)
          /\ r.size = Size - total
      BY <1>2, <1>3, <3>1 DEF Quiet
    <3>4. Settled(u)'
      BY <1>4, <3>2 DEF Settled
    <3>5. OnceCurrent(u)'
      BY <1>4, <3>3 DEF OnceCurrent, Current
    <3>6. Open(u)'
      BY <1>0, <1>3, <1>4, <2>2, <3>3, <3>5 DEF Open, Current
    <3>7. Reported(u)'
      BY <1>0, <1>3, <2>2, <3>1 DEF Reported
    <3> QED BY <1>0, <1>4, <2>2, <3>4, <3>6, <3>7
  <2> QED BY <1>4, <2>1, <2>2 DEF Counted
<1>6. co[u].frame \in Nat
  BY <1>1 DEF Frames
<1>7. \A t \in Tasks : t # u =>
        /\ co'[t] = co[t] /\ m_state'[t] = m_state[t] /\ overlapped'[t] = overlapped[t]
        /\ moved'[t] = moved[t] /\ last'[t] = last[t]
  BY <1>1, <1>3, <1>4
<1>8. \A s \in inflight' : s \in inflight \/ (s.task = u /\ s.frame <= co'[u].frame)
  BY <1>2, <1>3, <1>4, <1>6
<1> QED BY <1>1, <1>3, <1>4, <1>5, <1>6, <1>7, <1>8, TransferOwn

\* A new frame: what is still open belongs to older ones.
LEMMA TransferAwait ==
  ASSUME IocpTypeOK, BusyWithTask, TransferInv, NEW w \in Threads,
         pc[w] = "step", NEW op, Await(w, op)
  PROVE  TransferInv'
<1>0. PICK u : u = p_task[w]
  OBVIOUS
<1>1. /\ u \in Tasks /\ co \in [Tasks -> Frames] /\ co[u].frame \in Nat
      /\ inflight \subseteq RequestSet /\ port \in Seq(PacketSet)
  BY <1>0, TaskOfThread DEF IocpTypeOK, Frames
<1>2. /\ co' = [co EXCEPT ![u] = [at |-> "start", op |-> op, frame |-> co[u].frame + 1,
                                  total |-> 0, issued |-> 0]]
      /\ overlapped' = [overlapped EXCEPT ![u] = [success |-> FALSE, bytes |-> 0]]
      /\ moved' = [moved EXCEPT ![u] = 0]
      /\ last' = [last EXCEPT ![u] = NoResult]
      /\ m_state' = [m_state EXCEPT ![u] = m_state[u]]
      /\ UNCHANGED <<inflight, port>>
  BY <1>0 DEF Await, Suspend
<1>3. co'[u].at = "start" /\ co'[u].frame = co[u].frame + 1 /\ co'[u].total = 0
  BY <1>1, <1>2
<1>4. moved'[u] = 0 /\ last'[u] = NoResult /\ overlapped'[u].bytes = 0
  BY <1>1, <1>2 DEF IocpTypeOK
<1>5. Quiet(u)'
  <2>1. ASSUME NEW r \in inflight, r.task = u PROVE r.frame # co[u].frame + 1
    BY <1>1, <2>1 DEF TransferInv, FramesPast, RequestSet
  <2>2. ASSUME NEW i \in DOMAIN port, port[i].task = u
        PROVE  port[i].frame # co[u].frame + 1
    <3>1. port[i] \in PacketSet /\ port[i].frame <= co[u].frame
      BY <1>1, <2>2, IocpAssumption DEF TransferInv, FramesPast
    <3> QED BY <1>1, <3>1 DEF PacketSet
  <2> QED BY <1>2, <1>3, <2>1, <2>2 DEF Quiet, Current
<1>6. Counted(u)'
  BY <1>3, <1>4, <1>5 DEF Counted, Begun, Settled, Open, Reported, NoResult
<1>7. \A t \in Tasks : t # u =>
        /\ co'[t] = co[t] /\ m_state'[t] = m_state[t] /\ overlapped'[t] = overlapped[t]
        /\ moved'[t] = moved[t] /\ last'[t] = last[t]
  BY <1>1, <1>2 DEF IocpTypeOK
<1> QED BY <1>1, <1>2, <1>3, <1>6, <1>7, TransferOwn

\* A coroutine that returns has no request open.
LEMMA TransferRootReturn ==
  ASSUME IocpTypeOK, BusyWithTask, OpsInv, TransferInv, NEW w \in Threads,
         pc[w] = "step", RootReturn(w)
  PROVE  TransferInv'
<1>0. PICK u : u = p_task[w]
  OBVIOUS
<1>1. u \in Tasks /\ co \in [Tasks -> Frames] /\ co[u].frame \in Nat
  BY <1>0, TaskOfThread DEF IocpTypeOK, Frames
<1>2. /\ co' = [co EXCEPT ![u].at = "done"] /\ co[u].at \in {"root", "done"}
      /\ UNCHANGED <<m_state, overlapped, last, inflight, port, moved>>
  BY <1>0 DEF RootReturn, Stepping, kernelVars
<1>3. "done" \in Ats
  BY DEF Ats
<1>4. /\ co'[u].at = "done" /\ co'[u].op = co[u].op /\ co'[u].total = co[u].total
      /\ co'[u].frame = co[u].frame
      /\ \A t \in Tasks : t # u => co'[t] = co[t]
  BY <1>1, <1>2, <1>3, MoveCo
<1>5. Counted(u)'
  <2>1. Begun(u)'
    BY <1>4 DEF Begun
  <2>2. ASSUME co[u].op \in Transfers
        PROVE  (Settled(u) /\ Open(u) /\ Reported(u)
                /\ (co[u].op # "write" => co[u].total = 0))'
    <3>1. Quiet(u) /\ Reported(u) /\ (co[u].op # "write" => co[u].total = 0)
      BY <1>0, <1>1, <2>2, RunningIsQuiet
    <3>2. Quiet(u)'
      BY <1>2, <1>4, <3>1 DEF Quiet, Current
    <3> QED BY <1>2, <1>4, <3>1, <3>2 DEF Settled, Open, Reported
  <2> QED BY <1>4, <2>1, <2>2 DEF Counted
<1> QED BY <1>1, <1>2, <1>4, <1>5, TransferOwn

\* A step of a coroutine counts what its last request has transferred.
LEMMA TransferBody ==
  ASSUME IocpTypeOK, BusyWithTask, OpsInv, TransferInv, NEW w \in Threads, BodyStep(w)
  PROVE  TransferInv'
<1> USE IocpAssumption
<1> DEFINE u == p_task[w]
<1>1. pc[w] = "step" /\ UNCHANGED p_task /\ u \in Tasks
  BY TaskOfThread, BodyCases DEF BodyStep, Await, RootReturn, Stepping
<1>2. Counted(u) /\ co[u].total \in Nat /\ overlapped[u].bytes \in Nat
  BY <1>1 DEF TransferInv, IocpTypeOK, Frames, OverlappedSet
<1>3. m_state[u] = "kRun"
  BY <1>1 DEF OpsInv
<1>4. Total(u) \in Nat
  BY <1>2 DEF Total
<1>5. co[u].op \in Transfers /\ co[u].at = "pending" =>
        /\ Total(u) = moved[u]
        /\ co[u].op = "write" => moved[u] <= Size
        /\ ~overlapped[u].success => overlapped[u].bytes = 0
        /\ co[u].op # "write" => co[u].total = 0
  BY <1>2, <1>3 DEF Counted, Settled
<1> HIDE DEF u
<1>6. ASSUME NEW state \in {"kRun", "kWait"}, Return(w, Error, state) PROVE TransferInv'
  BY <1>1, <1>6, TransferReturn DEF Error
<1>7. ASSUME Computed(w) PROVE TransferInv'
  BY <1>1, <1>7, TransferReturn DEF Computed, Stepping, Transfers
<1>8. ASSUME SetupFails(w) \/ StartRefused(w) \/ WriteRefused(w) PROVE TransferInv'
  BY <1>6, <1>8 DEF SetupFails, StartRefused, WriteRefused, StateAtRefusal
<1>9. ASSUME AcceptRefused(w) PROVE TransferInv'
  BY <1>1, <1>3, <1>6, <1>9 DEF AcceptRefused, u
<1>10. ASSUME Succeeded(w) PROVE TransferInv'
  <2>1. Return(w, Total(u), "kRun") /\ co[u].at = "pending" /\ ~Unsent(u)
    BY <1>10 DEF Succeeded, Resumed, Stepping, u
  <2>2. co[u].op \in Transfers =>
          Total(u) = moved[u] /\ (co[u].op = "write" => Total(u) = Size)
    BY <1>4, <1>5, <2>1 DEF Unsent
  <2>3. Total(u) \in Int
    BY <1>4
  <2> QED BY <1>1, <2>1, <2>2, <2>3, TransferReturn DEF u
<1>11. ASSUME Failed(w) PROVE TransferInv'
  <2>1. co[u].at = "pending" /\ ~overlapped[u].success
    BY <1>11 DEF Failed, Resumed, Stepping, u
  <2>2. CASE co[u].op \in {"read", "udpRead"}
    <3>1. Return(w, 0, "kRun")
      BY <1>11, <2>2 DEF Failed, u
    <3>2. moved[u] = 0 /\ co[u].op # "write"
      BY <1>5, <2>1, <2>2 DEF Transfers, Total
    <3> QED BY <1>1, <3>1, <3>2, TransferReturn DEF u
  <2>3. CASE co[u].op \notin {"read", "udpRead"}
    BY <1>6, <1>11, <2>3 DEF Failed, u
  <2> QED BY <2>2, <2>3
<1>12. ASSUME Start(w) PROVE TransferInv'
  <2>1. Issue(w, 0, "kWait") /\ co[u].at = "start"
    BY <1>12 DEF Start, Stepping, StateAtIssue, u
  <2>2. moved[u] = 0
    BY <1>2, <2>1 DEF Counted, Begun
  <2> QED BY <1>1, <2>1, <2>2, TransferIssue DEF u
<1>13. ASSUME WriteMore(w) PROVE TransferInv'
  <2>1. /\ Issue(w, Total(u), "kWait") /\ co[u].at = "pending"
        /\ co[u].op = "write" /\ Total(u) < Size
    BY <1>13 DEF WriteMore, Resumed, Stepping, StateAtIssue, Unsent, u
  <2>2. Total(u) = moved[u] /\ Total(u) \in 0 .. Size
    BY <1>4, <1>5, <2>1 DEF Transfers
  <2> QED BY <1>1, <2>1, <2>2, TransferIssue DEF u
<1>14. ASSUME AcceptAgain(w) PROVE TransferInv'
  <2>1. Issue(w, 0, "kRun") /\ co[u].op = "accept"
    BY <1>3, <1>14 DEF AcceptAgain, u
  <2> QED BY <1>1, <2>1, TransferIssue DEF Transfers, u
<1> QED
  BY <1>1, <1>7, <1>8, <1>9, <1>10, <1>11, <1>12, <1>13, <1>14, TransferAwait,
     TransferRootReturn DEF BodyStep

\* Only the kernel, a thread that takes or posts a packet and the coroutines
\* change what TransferInv is about.
LEMMA TransferNext ==
  ASSUME IocpTypeOK, BusyWithTask, OpsInv, TransferInv, [IocpNext]_iocpVars
  PROVE  TransferInv'
<1> DEFINE Alone == UNCHANGED <<m_state, co, overlapped, last, moved, inflight, port>>
<1>1. ASSUME Alone PROVE TransferInv'
  BY <1>1, TransferSame
<1>2. ASSUME MainStep PROVE Alone
  BY <1>2 DEF MainStep, SpawnRoot, wait_for_all, Destroy, Join, Jump, taskVars, kernelVars
<1>3. ASSUME NEW w \in Threads,
             CheckActive(w) \/ ChooseWait(w) \/ PollEmpty(w) \/ WaitExpires(w)
             \/ CheckRunning(w) \/ Drained(w) \/ Pop(w) \/ Finish(w)
      PROVE  Alone
  BY <1>3 DEF CheckActive, ChooseWait, PollEmpty, WaitExpires, CheckRunning, Drained,
     Pop, Finish, Jump, taskVars, kernelVars
<1>4. ASSUME UNCHANGED iocpVars PROVE Alone
  BY <1>4 DEF iocpVars, taskVars, kernelVars
<1>5. ASSUME NEW t \in Tasks, KernelStep(t) PROVE TransferInv'
  <2>1. PICK r \in inflight : (\E n \in Bytes(r) : Complete(r, TRUE, n))
                              \/ Complete(r, FALSE, 0)
    BY <1>5 DEF KernelStep
  <2>2. Bytes(r) \subseteq Nat
    BY IocpAssumption DEF Bytes, IocpTypeOK, RequestSet
  <2>3. CASE Complete(r, FALSE, 0)
    BY <2>3, TransferComplete
  <2>4. ASSUME NEW n \in Bytes(r), Complete(r, TRUE, n) PROVE TransferInv'
    BY <2>2, <2>4, TransferComplete
  <2> QED BY <2>1, <2>3, <2>4
<1>6. ASSUME NEW w \in Threads, ThreadStep(w) \/ WaitExpires(w) PROVE TransferInv'
  BY <1>1, <1>3, <1>6, TransferLeave, TransferDequeue, TransferBody DEF ThreadStep
<1> HIDE DEF Alone
<1> QED
  BY <1>1, <1>2, <1>4, <1>5, <1>6 DEF IocpNext, Terminated

-----------------------------------------------------------------------------
(* The theorems.                                                           *)

\* Every reachable state satisfies the inductive invariant.
THEOREM IocpInvariant == IocpSpec => []IocpInv
<1>1. IocpInit => IocpInv
  BY IocpTypeInit, AnswersInit, OpsInit, TransferInit, ShutdownInit DEF IocpInv
<1>2. IocpInv /\ [IocpNext]_iocpVars => IocpInv'
  <2> SUFFICES ASSUME IocpInv, [IocpNext]_iocpVars PROVE IocpInv'
    OBVIOUS
  <2>1. /\ IocpTypeOK /\ BusyWithTask /\ AnswersInv
        /\ OpsInv /\ TransferInv /\ ShutdownInv
    BY DEF IocpInv
  <2>2. \A t \in Tasks : Unspawned(t)
    BY <2>1 DEF AnswersInv
  <2>3. IocpTypeOK' /\ BusyWithTask'
    BY <2>1, <2>2, IocpTypeNext
  <2>4. AnswersInv' /\ OpsInv' /\ TransferInv' /\ ShutdownInv'
    BY <2>1, AnswersNext, OpsNext, TransferNext, ShutdownNext
  <2> QED BY <2>3, <2>4 DEF IocpInv
<1> QED BY <1>1, <1>2, PTL DEF IocpSpec

\* A completion that iocp::run takes from the port belongs to a coroutine that
\* is suspended in the operation that made the request, unless accept has
\* repeated its request without wait().
THEOREM CompletionsFindFrames == IocpSpec => []CompletionFindsFrame
<1>1. IocpInv => CompletionFindsFrame
  BY DEF IocpInv, AnswersInv, FramesAlive, CompletionFindsFrame, Requests, Packets
<1> QED BY <1>1, IocpInvariant, PTL

\* iocp::run never writes to the overlapped of a frame that is gone as long as
\* no task has repeated an accept without wait().
THEOREM NoWriteAfterFree ==
  IocpSpec => [](respun = {} => \A w \in Threads : pc[w] # "ub")
<1>1. IocpInv => (respun = {} => \A w \in Threads : pc[w] # "ub")
  BY DEF IocpInv, AnswersInv
<1> QED BY <1>1, IocpInvariant, PTL

\* The four kinds of what stands for a task have one member at most each.
LEMMA AtMostOne ==
  ASSUME NEW S, \A x, y \in S : x = y
  PROVE  Cardinality(S) = IF S = {} THEN 0 ELSE 1
<1>1. CASE S = {}
  BY <1>1, FS_EmptySet
<1>2. ASSUME NEW x \in S PROVE Cardinality(S) = 1
  <2>1. S = {x}
    OBVIOUS
  <2> QED BY <2>1, FS_Singleton
<1> QED BY <1>1, <1>2

\* A coroutine suspended in an operation of network/win32 is resumed by its
\* completion, once: the request is in the kernel, or on the port, or its task
\* is queued, or executed, and only one of these.
THEOREM WaitingTasksAreAnswered == IocpSpec => []WaitingIsAnswered
<1>1. IocpInv => WaitingIsAnswered
  <2> SUFFICES ASSUME IocpInv, NEW t \in Tasks \ respun, co[t].at = "pending"
               PROVE  Cardinality(Requests(t)) + Cardinality(Packets(t))
                      + Cardinality({i \in DOMAIN m_tasks : m_tasks[i] = t})
                      + Cardinality({w \in Threads : pc[w] = "step" /\ p_task[w] = t}) = 1
    BY DEF WaitingIsAnswered
  <2> DEFINE Queued == {i \in DOMAIN m_tasks : m_tasks[i] = t}
             Stepped == {w \in Threads : pc[w] = "step" /\ p_task[w] = t}
  <2>1. OneStands(t) /\ Answered(t)
    BY DEF IocpInv, AnswersInv
  <2>2. /\ Requests(t) # {} <=> InKernel(inflight, t)
        /\ Packets(t) # {} <=> OnPort(port, t)
        /\ Queued # {} <=> InQueue(m_tasks, t)
        /\ Stepped # {} => Executed(t)
    BY DEF Requests, Packets, InKernel, OnPort, InQueue, Executed, Executes
  <2>3. \A x, y \in Requests(t) : x = y
    BY <2>1 DEF Requests, OneStands, OnceInKernel
  <2>4. \A x, y \in Packets(t) : x = y
    BY <2>1 DEF Packets, OneStands, OnceOnPort
  <2>5. \A x, y \in Queued : x = y
    BY <2>1 DEF OneStands, OnceInQueue
  <2>6. \A x, y \in Stepped : x = y
    BY <2>1 DEF OneStands, OnceExecuted, Executes
  <2>7. \/ InQueue(m_tasks, t) \/ OnPort(port, t) \/ InKernel(inflight, t)
        \/ Stepped # {}
    BY <2>1 DEF Answered
  <2>8. /\ Cardinality(Requests(t)) = IF Requests(t) = {} THEN 0 ELSE 1
        /\ Cardinality(Packets(t)) = IF Packets(t) = {} THEN 0 ELSE 1
    BY <2>3, <2>4, AtMostOne
  <2>9. Cardinality(Queued) = IF Queued = {} THEN 0 ELSE 1
    BY <2>5, AtMostOne
  <2>10. Cardinality(Stepped) = IF Stepped = {} THEN 0 ELSE 1
    BY <2>6, AtMostOne
  <2> HIDE DEF Queued, Stepped
  <2>11. Cardinality(Requests(t)) + Cardinality(Packets(t)) + Cardinality(Queued)
         + Cardinality(Stepped) = 1
    BY <2>1, <2>2, <2>7, <2>8, <2>9, <2>10 DEF OneStands
  <2> QED BY <2>11 DEF Queued, Stepped
<1> QED BY <1>1, IocpInvariant, PTL

\* What read, write and their datagram forms report is what the kernel has
\* moved for them, over all the requests of the operation; a write that
\* succeeds has sent all it was given.
THEOREM ReportsAreTransfers == IocpSpec => []ReportedIsTransferred
<1>1. IocpInv => ReportedIsTransferred
  BY DEF IocpInv, TransferInv, Counted, Reported, ReportedIsTransferred
<1> QED BY <1>1, IocpInvariant, PTL

\* Once nothing is active, a thread in GetQueuedCompletionStatus has a packet
\* to end its wait, or a thread is on its way to post one.
THEOREM ShutdownReachesAll == IocpSpec => []ShutdownChain
<1>1. IocpInv => ShutdownChain
  <2> SUFFICES ASSUME IocpInv, m_active_tasks = {}, pc[Main] # "main", port = <<>>,
                      NEW v \in Threads, pc[v] = "wait"
               PROVE  \E w \in Threads :
                        pc[w] \notin {"wait", "returned", "joining", "joined"}
    BY DEF ShutdownChain
  <2> QED BY DEF IocpInv, ShutdownInv
<1> QED BY <1>1, IocpInvariant, PTL
===========================================================================
