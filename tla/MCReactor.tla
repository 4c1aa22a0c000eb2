----------------------------- MODULE MCReactor -----------------------------
(* Instances of Reactor for TLC.                                           *)
EXTENDS Reactor

CONSTANTS t1, t2, t3, f1, f2

\* Every task waits on every descriptor.
SharedFd == [t \in Tasks |-> Fds]

NoFd == [t \in Tasks |-> {}]

AllButGet == [t \in Tasks |-> OpKinds \ {"get"}]
\* Nobody waits for time or for a descriptor.
ComputeOnly == [t \in Tasks |-> {"await", "spawn", "get"}]
OnlyRead == [t \in Tasks |-> {"read"}]
OnlySleep == [t \in Tasks |-> {"sleep"}]
=============================================================================
