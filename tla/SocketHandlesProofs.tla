------------------------ MODULE SocketHandlesProofs ------------------------
(***************************************************************************)
(* The ownership of descriptors in SocketHandles, for every number of      *)
(* descriptors, objects, calls and writes: nothing is closed twice, nothing*)
(* closed is used, only a failed set-up leaks, and every connection is read *)
(* by one object and written by one as long as nothing was refused.        *)
(***************************************************************************)
EXTENDS SocketHandles, TLAPS

\* A call holds a descriptor from the time it has opened it until it returns.
CallsHold ==
  \A c \in Calls : stage[c] = "idle" <=> sock[c] = Invalid

\* Storage without an object in it holds nothing, so a constructor
\* overwrites nothing.
DeadHoldNothing ==
  \A o \in Objects \ alive : m_socket[o] = Invalid /\ m_out_socket[o] = Invalid

\* What is held is open and has not been given up; what has been given up is
\* never closed, so the kernel does not hand it out again.
Kept(h) == h = Invalid \/ (IsOpen(h) /\ h \notin leaked)

HeldIsOpen ==
  /\ \A o \in Objects : Kept(m_socket[o]) /\ Kept(m_out_socket[o])
  /\ \A c \in Calls : Kept(sock[c])
  /\ \A x \in Writes : Kept(write_sock[x])
  /\ \A f \in leaked : IsOpen(f)

\* Two places hold the same descriptor only if they are the same place.
HeldOnce ==
  /\ \A o, p \in Objects :
       /\ m_socket[o] = m_socket[p] => o = p \/ m_socket[o] = Invalid
       /\ m_out_socket[o] = m_out_socket[p] => o = p \/ m_out_socket[o] = Invalid
       /\ m_socket[o] = m_out_socket[p] => m_socket[o] = Invalid
  /\ \A c, d \in Calls : sock[c] = sock[d] => c = d \/ sock[c] = Invalid
  /\ \A x, y \in Writes :
       write_sock[x] = write_sock[y] => x = y \/ write_sock[x] = Invalid
  /\ \A c \in Calls, o \in Objects :
       sock[c] \in {m_socket[o], m_out_socket[o]} => sock[c] = Invalid
  /\ \A x \in Writes, o \in Objects :
       write_sock[x] \in {m_socket[o], m_out_socket[o]} => write_sock[x] = Invalid
  /\ \A x \in Writes, c \in Calls :
       write_sock[x] = sock[c] => write_sock[x] = Invalid

Held(f) ==
  \/ \E o \in Objects : m_socket[o] = f
  \/ \E o \in Objects : m_out_socket[o] = f
  \/ \E c \in Calls : sock[c] = f
  \/ \E x \in Writes : write_sock[x] = f

OpenIsHeld == \A f \in Fds : IsOpen(f) => Held(f) \/ f \in leaked

\* The descriptor of a set-up is the only one of its connection, whose dup()
\* is still to come.
SockAlone ==
  \A c \in Calls : sock[c] # Invalid =>
    /\ file[sock[c]] \notin readonly
    /\ \A g \in Fds : file[g] = file[sock[c]] => g = sock[c]

\* The properties with what they rest on: a constructor finds its
\* storage empty, and a call that goes on has a descriptor.
HandlesInv ==
  /\ HandlesTypeOK
  /\ CallsHold
  /\ DeadHoldNothing
  /\ HeldIsOpen
  /\ HeldOnce
  /\ OpenIsHeld
  /\ SockAlone
  /\ BothWays

-----------------------------------------------------------------------------
\* Nothing is open and nothing is held in the beginning.
LEMMA HandlesInvInit == HandlesInit => HandlesInv
BY HandlesAssumption
   DEF HandlesInit, HandlesInv, HandlesTypeOK, CallsHold, DeadHoldNothing,
       HeldIsOpen, Kept, HeldOnce, OpenIsHeld, IsOpen, SockAlone, BothWays, Reads, WritesTo

\* Every step keeps the invariant: a descriptor moves from one place to
\* another, is opened into an empty place, or is closed as it is let go.
LEMMA HandlesInvNext ==
  ASSUME HandlesInv, [HandlesNext]_handleVars
  PROVE  HandlesInv'
<1> USE HandlesAssumption DEF HandlesInv, HandlesTypeOK, objVars, callVars, fileVars
<1>1. ASSUME NEW c \in Calls, NEW f \in Fds, NEW x \in Files, OpenSocket(c, f,
             x) \/ AcceptSocket(c, f, x)
      PROVE  HandlesInv'
  <2>1. HandlesTypeOK'
    BY <1>1 DEF OpenSocket, AcceptSocket, Allocate
  <2>2. CallsHold' /\ DeadHoldNothing'
    BY <1>1 DEF OpenSocket, AcceptSocket, Allocate, CallsHold, DeadHoldNothing
  <2>3. HeldIsOpen'
    BY <1>1 DEF OpenSocket, AcceptSocket, Allocate, IsLowestFree, HeldIsOpen,
       Kept, IsOpen
  <2>4. HeldOnce'
    BY <1>1 DEF OpenSocket, AcceptSocket, Allocate, IsLowestFree, HeldIsOpen,
       Kept, HeldOnce
  <2>5. OpenIsHeld'
    BY <1>1 DEF OpenSocket, AcceptSocket, Allocate, CallsHold, OpenIsHeld,
       Held, IsOpen
  <2>6. SockAlone'
    BY <1>1 DEF OpenSocket, AcceptSocket, Allocate, SockAlone
  <2>7. BothWays'
    BY <1>1 DEF OpenSocket, AcceptSocket, Allocate, IsLowestFree, HeldIsOpen,
       Kept, BothWays, Reads, WritesTo
  <2> QED BY <2>1, <2>2, <2>3, <2>4, <2>5, <2>6, <2>7
<1>2. ASSUME NEW c \in Calls, Configure(c) \/ Attach(c)
      PROVE  HandlesInv'
  <2>1. HandlesTypeOK'
    BY <1>2 DEF Configure, Attach
  <2>2. CallsHold' /\ DeadHoldNothing'
    BY <1>2 DEF Configure, Attach, CallsHold, DeadHoldNothing
  <2>3. HeldIsOpen'
    BY <1>2 DEF Configure, Attach, HeldIsOpen, Kept, IsOpen
  <2>4. HeldOnce'
    BY <1>2 DEF Configure, Attach, HeldOnce
  <2>5. OpenIsHeld'
    BY <1>2 DEF Configure, Attach, OpenIsHeld, Held, IsOpen
  <2>6. SockAlone'
    BY <1>2 DEF Configure, Attach, SockAlone
  <2>7. BothWays'
    BY <1>2 DEF Configure, Attach, BothWays, Reads, WritesTo
  <2> QED BY <2>1, <2>2, <2>3, <2>4, <2>5, <2>6, <2>7
<1>3. ASSUME NEW c \in Calls, ConfigureFails(c)
      PROVE  HandlesInv'
  <2>1. HandlesTypeOK'
    BY <1>3 DEF ConfigureFails, EndCall, CloseAll
  <2>2. CallsHold' /\ DeadHoldNothing'
    BY <1>3 DEF ConfigureFails, EndCall, CallsHold, DeadHoldNothing
  <2>3. HeldIsOpen'
    BY <1>3 DEF ConfigureFails, EndCall, CloseAll, HeldIsOpen, HeldOnce, Kept,
       IsOpen
  <2>4. HeldOnce'
    BY <1>3 DEF ConfigureFails, EndCall, HeldOnce
  <2>5. OpenIsHeld'
    BY <1>3 DEF ConfigureFails, EndCall, CloseAll, OpenIsHeld, Held, IsOpen
  <2>6. SockAlone'
    BY <1>3 DEF ConfigureFails, EndCall, CloseAll, HeldIsOpen, Kept, HeldOnce,
       IsOpen, SockAlone
  <2>7. BothWays'
    BY <1>3 DEF ConfigureFails, CloseAll, HeldIsOpen, HeldOnce, IsOpen,
       BothWays, Reads, WritesTo
  <2> QED BY <2>1, <2>2, <2>3, <2>4, <2>5, <2>6, <2>7
<1>4. ASSUME NEW c \in Calls, AttachFails(c)
      PROVE  HandlesInv'
  <2>1. HandlesTypeOK'
    BY <1>4 DEF AttachFails, EndCall, CallsHold
  <2>2. CallsHold' /\ DeadHoldNothing'
    BY <1>4 DEF AttachFails, EndCall, CallsHold, DeadHoldNothing
  <2>3. HeldIsOpen'
    BY <1>4 DEF AttachFails, EndCall, CallsHold, HeldIsOpen, HeldOnce, Kept,
       IsOpen
  <2>4. HeldOnce'
    BY <1>4 DEF AttachFails, EndCall, HeldOnce
  <2>5. OpenIsHeld'
    BY <1>4 DEF AttachFails, EndCall, OpenIsHeld, Held, IsOpen
  <2>6. SockAlone'
    BY <1>4 DEF AttachFails, EndCall, SockAlone
  <2>7. BothWays'
    BY <1>4 DEF AttachFails, BothWays, Reads, WritesTo
  <2> QED BY <2>1, <2>2, <2>3, <2>4, <2>5, <2>6, <2>7
<1>5. ASSUME NEW c \in Calls, NEW o \in Objects, Construct(c, o)
      PROVE  HandlesInv'
  <2>1. HandlesTypeOK'
    <3>1. sock[c] \in Fds /\ file[sock[c]] \in Files
      BY <1>5 DEF Construct, CallsHold, HeldIsOpen, Kept, IsOpen
    <3> QED BY <1>5, <3>1 DEF Construct, DupInto, EndCall
  <2>2. CallsHold' /\ DeadHoldNothing'
    BY <1>5 DEF Construct, DupInto, EndCall, CallsHold, DeadHoldNothing
  <2>3. HeldIsOpen'
    BY <1>5 DEF Construct, DupInto, EndCall, IsLowestFree, CallsHold,
       HeldIsOpen, Kept, IsOpen
  <2>4. HeldOnce'
    BY <1>5 DEF Construct, DupInto, EndCall, IsLowestFree, HeldIsOpen, Kept,
       IsOpen, HeldOnce
  <2>5. OpenIsHeld'
    BY <1>5 DEF Construct, DupInto, EndCall, DeadHoldNothing, OpenIsHeld, Held,
       IsOpen
  <2>6. SockAlone'
    <3> SUFFICES ASSUME NEW d \in Calls, sock'[d] # Invalid
                 PROVE  /\ file'[sock'[d]] \notin readonly'
                        /\ \A g \in Fds : file'[g] = file'[sock'[d]] => g = sock'[d]
      BY DEF SockAlone
    <3>1. /\ d # c /\ sock'[d] = sock[d] /\ sock[d] # sock[c]
          /\ sock[c] \in Fds /\ sock[d] \in Fds
          /\ IsOpen(sock[c]) /\ IsOpen(sock[d])
      BY <1>5 DEF Construct, EndCall, CallsHold, HeldIsOpen, Kept, HeldOnce
    <3>2. /\ file[sock[d]] \notin readonly /\ file[sock[d]] # file[sock[c]]
          /\ \A g \in Fds : file[g] = file[sock[d]] => g = sock[d]
      BY <3>1 DEF SockAlone
    <3> QED BY <1>5, <3>1, <3>2 DEF Construct, DupInto, IsLowestFree, IsOpen
  <2>7. BothWays'
    BY <1>5 DEF Construct, DupInto, IsLowestFree, CallsHold, HeldIsOpen, Kept,
       HeldOnce, SockAlone, BothWays, Reads, WritesTo
  <2> QED BY <2>1, <2>2, <2>3, <2>4, <2>5, <2>6, <2>7
<1>6. ASSUME NEW o \in Objects, DefaultConstruct(o)
      PROVE  HandlesInv'
  <2>1. HandlesTypeOK'
    BY <1>6 DEF DefaultConstruct
  <2>2. CallsHold' /\ DeadHoldNothing'
    BY <1>6 DEF DefaultConstruct, CallsHold, DeadHoldNothing
  <2>3. HeldIsOpen'
    BY <1>6 DEF DefaultConstruct, HeldIsOpen, Kept, IsOpen
  <2>4. HeldOnce'
    BY <1>6 DEF DefaultConstruct, HeldOnce
  <2>5. OpenIsHeld'
    BY <1>6 DEF DefaultConstruct, DeadHoldNothing, OpenIsHeld, Held, IsOpen
  <2>6. SockAlone'
    BY <1>6 DEF DefaultConstruct, SockAlone
  <2>7. BothWays'
    BY <1>6 DEF DefaultConstruct, BothWays, Reads, WritesTo
  <2> QED BY <2>1, <2>2, <2>3, <2>4, <2>5, <2>6, <2>7
<1>7. ASSUME NEW o \in Objects, Destroy(o)
      PROVE  HandlesInv'
  <2>1. HandlesTypeOK'
    <3>1. \A h \in Handles(o) \ {Invalid} : file[h] \in Files
      BY <1>7 DEF Destroy, Handles, HeldIsOpen, Kept, IsOpen
    <3> QED BY <1>7, <3>1 DEF Destroy, CloseAll
  <2>2. CallsHold' /\ DeadHoldNothing'
    BY <1>7 DEF Destroy, CallsHold, DeadHoldNothing
  <2>3. HeldIsOpen'
    BY <1>7 DEF Destroy, CloseAll, Handles, HeldIsOpen, HeldOnce, Kept, IsOpen
  <2>4. HeldOnce'
    BY <1>7 DEF Destroy, HeldOnce
  <2>5. OpenIsHeld'
    BY <1>7 DEF Destroy, CloseAll, Handles, OpenIsHeld, Held, IsOpen
  <2>6. SockAlone'
    BY <1>7 DEF Destroy, CloseAll, Handles, HeldIsOpen, Kept, HeldOnce,
       IsOpen, SockAlone
  <2>7. BothWays'
    <3>1. \A p \in Objects, x \in Files :
            /\ Reads(p, x)' <=> p # o /\ Reads(p, x)
            /\ WritesTo(p, x)' <=> p # o /\ WritesTo(p, x)
      BY <1>7 DEF Destroy, CloseAll, Handles, HeldOnce, HeldIsOpen, Kept,
         Reads, WritesTo
    <3>2. \A x \in Files : o \in assigned /\ (Reads(o, x) \/ WritesTo(o, x)) => x \in torn'
      BY <1>7 DEF Destroy, Handles, Reads, WritesTo
    <3>3. /\ readonly' = readonly /\ torn \subseteq torn' /\ assigned' = assigned \ {o}
      BY <1>7 DEF Destroy
    <3> QED BY <3>1, <3>2, <3>3 DEF BothWays
  <2> QED BY <2>1, <2>2, <2>3, <2>4, <2>5, <2>6, <2>7
<1>8. ASSUME NEW o \in Objects, NEW rhs \in Objects, MoveConstruct(o, rhs)
      PROVE  HandlesInv'
  <2>1. HandlesTypeOK'
    BY <1>8 DEF MoveConstruct, MoveIn, MoveOut
  <2>2. CallsHold' /\ DeadHoldNothing'
    BY <1>8 DEF MoveConstruct, MoveIn, MoveOut, CallsHold, DeadHoldNothing
  <2>3. HeldIsOpen'
    BY <1>8 DEF MoveConstruct, MoveIn, MoveOut, HeldIsOpen, Kept, IsOpen
  <2>4. HeldOnce'
    BY <1>8 DEF MoveConstruct, MoveIn, MoveOut, HeldOnce
  <2>5. OpenIsHeld'
    BY <1>8 DEF MoveConstruct, MoveIn, MoveOut, DeadHoldNothing, OpenIsHeld,
       Held, IsOpen
  <2>6. SockAlone'
    BY <1>8 DEF MoveConstruct, SockAlone
  <2>7. BothWays'
    BY <1>8 DEF MoveConstruct, MoveIn, MoveOut, BothWays, Reads, WritesTo
  <2> QED BY <2>1, <2>2, <2>3, <2>4, <2>5, <2>6, <2>7
<1>9. ASSUME NEW o \in Objects, NEW rhs \in Objects, MoveAssign(o, rhs)
      PROVE  HandlesInv'
  <2>1. HandlesTypeOK'
    BY <1>9 DEF MoveAssign
  <2>2. CallsHold' /\ DeadHoldNothing'
    BY <1>9 DEF MoveAssign, CallsHold, DeadHoldNothing
  <2>3. HeldIsOpen'
    BY <1>9 DEF MoveAssign, HeldIsOpen, Kept, IsOpen
  <2>4. HeldOnce'
    BY <1>9 DEF MoveAssign, HeldOnce
  <2>5. OpenIsHeld'
    BY <1>9 DEF MoveAssign, OpenIsHeld, Held, IsOpen
  <2>6. SockAlone'
    BY <1>9 DEF MoveAssign, SockAlone
  <2>7. BothWays'
    BY <1>9 DEF MoveAssign, BothWays, Reads, WritesTo
  <2> QED BY <2>1, <2>2, <2>3, <2>4, <2>5, <2>6, <2>7
<1>10. ASSUME NEW x \in Writes, NEW o \in Objects, NEW f \in Fds, BeginWrite(x,
              o, f)
       PROVE  HandlesInv'
  <2>1. HandlesTypeOK'
    BY <1>10 DEF BeginWrite
  <2>2. CallsHold' /\ DeadHoldNothing'
    BY <1>10 DEF BeginWrite, CallsHold, DeadHoldNothing
  <2>3. HeldIsOpen'
    BY <1>10 DEF BeginWrite, IsLowestFree, HeldIsOpen, Kept, IsOpen
  <2>4. HeldOnce'
    BY <1>10 DEF BeginWrite, IsLowestFree, HeldIsOpen, Kept, HeldOnce
  <2>5. OpenIsHeld'
    BY <1>10 DEF BeginWrite, OpenIsHeld, Held, IsOpen
  <2>6. SockAlone'
    BY <1>10 DEF BeginWrite, IsLowestFree, HeldIsOpen, Kept, HeldOnce,
       SockAlone
  <2>7. BothWays'
    BY <1>10 DEF BeginWrite, IsLowestFree, HeldIsOpen, Kept, BothWays, Reads,
       WritesTo
  <2> QED BY <2>1, <2>2, <2>3, <2>4, <2>5, <2>6, <2>7
<1>11. ASSUME NEW x \in Writes, EndWrite(x)
       PROVE  HandlesInv'
  <2>1. HandlesTypeOK'
    BY <1>11 DEF EndWrite, CloseAll
  <2>2. CallsHold' /\ DeadHoldNothing'
    BY <1>11 DEF EndWrite, CallsHold, DeadHoldNothing
  <2>3. HeldIsOpen'
    BY <1>11 DEF EndWrite, CloseAll, HeldIsOpen, HeldOnce, Kept, IsOpen
  <2>4. HeldOnce'
    BY <1>11 DEF EndWrite, HeldOnce
  <2>5. OpenIsHeld'
    BY <1>11 DEF EndWrite, CloseAll, OpenIsHeld, Held, IsOpen
  <2>6. SockAlone'
    BY <1>11 DEF EndWrite, CloseAll, HeldIsOpen, Kept, HeldOnce, IsOpen,
       SockAlone
  <2>7. BothWays'
    <3>1. \A p \in Objects, y \in Files :
            (Reads(p, y)' <=> Reads(p, y)) /\ (WritesTo(p, y)' <=> WritesTo(p, y))
      BY <1>11 DEF EndWrite, CloseAll, HeldOnce, HeldIsOpen, Kept, Reads, WritesTo
    <3>2. UNCHANGED <<readonly, torn, assigned>>
      BY <1>11 DEF EndWrite
    <3> QED BY <3>1, <3>2 DEF BothWays
  <2> QED BY <2>1, <2>2, <2>3, <2>4, <2>5, <2>6, <2>7
<1>12. CASE UNCHANGED handleVars
  BY <1>12 DEF handleVars, CallsHold, DeadHoldNothing, HeldIsOpen, Kept, IsOpen,
     HeldOnce, OpenIsHeld, Held, SockAlone, BothWays, Reads, WritesTo
<1> QED
  BY <1>1, <1>2, <1>3, <1>4, <1>5, <1>6, <1>7, <1>8, <1>9, <1>10, <1>11, <1>12
     DEF HandlesNext, CallStep, ObjectStep, WriteStep

\* Every reachable state satisfies the inductive invariant.
THEOREM HandlesInvariant == HandlesSpec => []HandlesInv
<1>1. HandlesInit => HandlesInv
  BY HandlesInvInit
<1>2. HandlesInv /\ [HandlesNext]_handleVars => HandlesInv'
  BY HandlesInvNext
<1> QED BY <1>1, <1>2, PTL DEF HandlesSpec

\* The tables and handles stay in their types; objects that took part in an
\* operator= are alive.
THEOREM HandlesTypeCorrect == HandlesSpec => []HandlesTypeOK
<1>1. HandlesInv => HandlesTypeOK
  BY DEF HandlesInv
<1> QED BY <1>1, HandlesInvariant, PTL

\* No descriptor is closed twice or used after it is closed: what a
\* base_socket, a set-up or a write holds is open and held by it alone.
THEOREM NoDoubleClose == HandlesSpec => []OwnedOnce
<1>1. HandlesInv => OwnedOnce
  <2> SUFFICES ASSUME HandlesInv, NEW f \in Fds, NEW a \in Owners(f)
               PROVE  IsOpen(f) /\ f \notin leaked /\ \A b \in Owners(f) : a = b
    BY DEF OwnedOnce
  <2>1. f # Invalid
    BY HandlesAssumption
  <2>2. IsOpen(f) /\ f \notin leaked
    BY <2>1 DEF HandlesInv, HeldIsOpen, Kept, Owners
  <2>3. ASSUME NEW b \in Owners(f) PROVE a = b
    BY <2>1 DEF HandlesInv, HeldOnce, Owners
  <2> QED BY <2>2, <2>3
<1> QED BY <1>1, HandlesInvariant, PTL

\* Every descriptor that is open is owned, or was abandoned by a failed
\* bind() or connect().
THEOREM NothingElseLeaks == HandlesSpec => []OnlyFailedSetupLeaks
<1>1. HandlesInv => OnlyFailedSetupLeaks
  <2> SUFFICES ASSUME HandlesInv, NEW f \in Fds, IsOpen(f), f \notin leaked
               PROVE  Owners(f) # {}
    BY DEF OnlyFailedSetupLeaks
  <2>1. Held(f)
    BY DEF HandlesInv, OpenIsHeld
  <2> QED BY <2>1 DEF Held, Owners
<1> QED BY <1>1, HandlesInvariant, PTL

\* Every connection is read by one object and written by one, the same one
\* unless operator= was used, except where dup() was refused or an object
\* that took part in an operator= was destroyed.
THEOREM BothWaysHolds == HandlesSpec => []BothWays
<1>1. HandlesInv => BothWays
  BY DEF HandlesInv
<1> QED BY <1>1, HandlesInvariant, PTL
=============================================================================
