------------------------------ MODULE TaskPool ------------------------------
(***************************************************************************)
(* What cppio promises to a program that uses it: spawn() hands over a     *)
(* task, one thread at a time executes it, it is interrupted only to let   *)
(* others run or to wait, and it completes at most once; wait_for_all()    *)
(* returns when everything that was spawned has completed.  With one       *)
(* thread, a wait also ends only after it has been answered.  Queues,      *)
(* timers, epoll, the atomics and the threads are left out: Reactor        *)
(* implements this specification.                                          *)
(***************************************************************************)
CONSTANTS
  Tasks,
  Exact  \* no wait ends before it is answered: one thread executes run()

VARIABLES
  status,   \* task -> its place in the life cycle
  returned  \* wait_for_all() has returned

poolVars == <<status, returned>>

Statuses == {"new", "ready", "running", "waiting", "done"}

PoolInit ==
  /\ status = [t \in Tasks |-> "new"]
  /\ returned = FALSE

Move(t, from, to) ==
  /\ status[t] = from
  /\ status' = [status EXCEPT ![t] = to]
  /\ UNCHANGED returned

Spawn(t)    == ~returned /\ Move(t, "new", "ready")
Start(t)    == Move(t, "ready", "running")
Early(t)    == ~Exact /\ Move(t, "waiting", "running")
Yield(t)    == Move(t, "running", "ready")
Block(t)    == Move(t, "running", "waiting")
Wake(t)     == Move(t, "waiting", "ready")
Complete(t) == Move(t, "running", "done")

ReturnFromWait ==
  /\ ~returned
  /\ \A t \in Tasks : status[t] \in {"new", "done"}
  /\ returned' = TRUE
  /\ UNCHANGED status

PoolNext ==
  \/ \E t \in Tasks :
       \/ Spawn(t) \/ Start(t) \/ Early(t) \/ Yield(t)
       \/ Block(t) \/ Wake(t) \/ Complete(t)
  \/ ReturnFromWait

PoolSpec == PoolInit /\ [][PoolNext]_poolVars
=============================================================================
