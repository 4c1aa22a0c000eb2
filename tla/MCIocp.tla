------------------------------- MODULE MCIocp -------------------------------
(* Instances of Iocp for TLC.                                              *)
EXTENDS Iocp

CONSTANTS w1, w2, t1, t2

\* Every operation after every other on the thread of wait_for_all(); two
\* tasks that share the port; computation on two and on three threads.
AllPrograms ==
  {[workers |-> {}, tasks |-> {t1}, ops |-> Calls],
   [workers |-> {}, tasks |-> {t1, t2}, ops |-> {"read", "write"}],
   [workers |-> {w1}, tasks |-> {t1, t2}, ops |-> {"compute"}],
   [workers |-> {w1, w2}, tasks |-> {t1}, ops |-> {"compute"}]}

OnlyAccept == {[workers |-> {}, tasks |-> {t1}, ops |-> {"accept"}]}
=============================================================================
