CONSTANTS
  MaxFd = 5
  Files = {x1, x2, x3}
  Objects = {o1, o2, o3}
  Calls = {c1, c2}
  Writes = {u1}
  Closed = Closed
  Invalid = Invalid
SPECIFICATION HandlesSpec
SYMMETRY HandleSymmetry
INVARIANTS
  HandlesTypeOK
  OwnedOnce
  OnlyFailedSetupLeaks
  BothWays
