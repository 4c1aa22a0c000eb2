-------------------------- MODULE MCSocketHandles --------------------------
(* Instances of SocketHandles for TLC.                                     *)
EXTENDS SocketHandles, TLC

\* Files, objects, calls and writes are interchangeable.
HandleSymmetry ==
  Permutations(Files) \cup Permutations(Objects) \cup Permutations(Calls)
=============================================================================
