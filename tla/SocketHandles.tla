--------------------------- MODULE SocketHandles ---------------------------
(***************************************************************************)
(* Who owns which file descriptor on POSIX.  A socket is opened by         *)
(* tcp_socket::connect, tcp_listener::create, tcp_listener::accept or      *)
(* udp_socket::bind, is held in a local of that function while it is set   *)
(* up, and then belongs to a base_socket, which adds a dup() of it to      *)
(* write through.  Objects are moved, move-assigned and destroyed in any   *)
(* order; udp_socket::write holds one more dup() while it runs.            *)
(*                                                                         *)
(* The kernel hands out the lowest free descriptor, so a closed one comes  *)
(* back at once and a double close would hit somebody else's socket; and   *)
(* it refuses when all are in use.                                         *)
(***************************************************************************)
EXTENDS Naturals, FiniteSets

CONSTANTS
  MaxFd,      \* RLIMIT_NOFILE: the descriptors are 0 .. MaxFd - 1
  Files,      \* open file descriptions (connections, listeners)
  Objects,    \* storage for base_socket objects
  Calls,      \* functions being executed: connect, create, accept, bind
  Writes,     \* udp_socket::write calls being executed
  Closed,     \* the file of a descriptor that is not open
  Invalid     \* socket_invalid_handle

Fds == 0 .. MaxFd - 1

ASSUME HandlesAssumption ==
  /\ MaxFd \in Nat
  /\ Closed \notin Files
  /\ Invalid \notin Fds

VARIABLES
  file,         \* descriptor -> the open file description it refers to
  alive,        \* the objects that exist
  m_socket,     \* object -> m_socket
  m_out_socket, \* object -> m_out_socket
  assigned,     \* history: objects that took part in an operator=
  readonly,     \* history: files whose dup() for writing was refused
  torn,         \* history: files of which an assigned object was destroyed
  stage,        \* call -> how far the set-up of its socket is
  sock,         \* call -> its local `sock`
  write_sock,   \* write -> its local `write_sock`
  leaked        \* history: descriptors abandoned by a failed set-up

objVars  == <<alive, m_socket, m_out_socket, assigned>>
fileVars == <<readonly, torn>>
callVars == <<stage, sock>>
handleVars == <<file, objVars, fileVars, callVars, write_sock, leaked>>

HandlesInit ==
  /\ file = [f \in Fds |-> Closed]
  /\ alive = {}
  /\ m_socket = [o \in Objects |-> Invalid]
  /\ m_out_socket = [o \in Objects |-> Invalid]
  /\ assigned = {}
  /\ readonly = {} /\ torn = {}
  /\ stage = [c \in Calls |-> "idle"]
  /\ sock = [c \in Calls |-> Invalid]
  /\ write_sock = [x \in Writes |-> Invalid]
  /\ leaked = {}

-----------------------------------------------------------------------------
(* The descriptor table.                                                   *)

IsOpen(f) == file[f] # Closed

\* f is the descriptor the kernel returns next.
IsLowestFree(f) == ~IsOpen(f) /\ \A g \in Fds : g < f => IsOpen(g)

TableFull == \A f \in Fds : IsOpen(f)

\* closesocket() of every valid handle in H.
CloseAll(H) == [f \in Fds |-> IF f \in H THEN Closed ELSE file[f]]

-----------------------------------------------------------------------------
(* connect, create, accept and bind.                                       *)

\* The call c gets a new descriptor f for the file x; without a descriptor
\* left the kernel refuses, an error code is returned and nothing changes.
Allocate(c, f, x) ==
  /\ stage[c] = "idle"
  /\ IsLowestFree(f)
  /\ \A g \in Fds : file[g] # x
  /\ file' = [file EXCEPT ![f] = x]
  /\ sock' = [sock EXCEPT ![c] = f]
  /\ readonly' = readonly \ {x} /\ torn' = torn \ {x}
  /\ UNCHANGED <<objVars, write_sock, leaked>>

\* socket() in connect, create and bind.
OpenSocket(c, f, x) ==
  /\ Allocate(c, f, x)
  /\ stage' = [stage EXCEPT ![c] = "opened"]

\* accept4() sets the flags itself: the socket needs no further set-up.
AcceptSocket(c, f, x) ==
  /\ Allocate(c, f, x)
  /\ stage' = [stage EXCEPT ![c] = "ready"]

EndCall(c) ==
  /\ stage' = [stage EXCEPT ![c] = "idle"]
  /\ sock' = [sock EXCEPT ![c] = Invalid]

\* setsockopt and fcntl succeed, one after the other.
Configure(c) ==
  /\ stage[c] = "opened"
  /\ stage' = [stage EXCEPT ![c] = "configured"]
  /\ UNCHANGED <<file, objVars, fileVars, sock, write_sock, leaked>>

\* One of them fails: close(sock), return SystemError.
ConfigureFails(c) ==
  /\ stage[c] = "opened"
  /\ file' = CloseAll({sock[c]})
  /\ EndCall(c)
  /\ UNCHANGED <<objVars, fileVars, write_sock, leaked>>

\* bind() or ::connect() succeeds, or the connection is established while
\* the coroutine waits.
Attach(c) ==
  /\ stage[c] = "configured"
  /\ stage' = [stage EXCEPT ![c] = "ready"]
  /\ UNCHANGED <<file, objVars, fileVars, sock, write_sock, leaked>>

\* It fails, at once or after the wait: an error is returned and sock is not
\* closed.
AttachFails(c) ==
  /\ stage[c] = "configured"
  /\ leaked' = leaked \cup {sock[c]}
  /\ EndCall(c)
  /\ UNCHANGED <<file, objVars, fileVars, write_sock>>

\* base_socket(sock): m_out_socket = dup(m_socket), which is not tested.
DupInto(c, o) ==
  IF TableFull
  THEN /\ m_out_socket' = [m_out_socket EXCEPT ![o] = Invalid]
       /\ file' = file
       /\ readonly' = readonly \cup {file[sock[c]]}
  ELSE \E f \in Fds :
         /\ readonly' = readonly
         /\ IsLowestFree(f)
         /\ m_out_socket' = [m_out_socket EXCEPT ![o] = f]
         /\ file' = [file EXCEPT ![f] = file[sock[c]]]

Construct(c, o) ==
  /\ stage[c] = "ready"
  /\ o \notin alive
  /\ alive' = alive \cup {o}
  /\ m_socket' = [m_socket EXCEPT ![o] = sock[c]]
  /\ DupInto(c, o)
  /\ EndCall(c)
  /\ UNCHANGED <<assigned, torn, write_sock, leaked>>

-----------------------------------------------------------------------------
(* The special members of base_socket.                                     *)

DefaultConstruct(o) ==
  /\ o \notin alive
  /\ alive' = alive \cup {o}
  /\ m_socket' = [m_socket EXCEPT ![o] = Invalid]
  /\ m_out_socket' = [m_out_socket EXCEPT ![o] = Invalid]
  /\ UNCHANGED <<file, assigned, fileVars, callVars, write_sock, leaked>>

\* Mutant of MoveIn: rhs keeps its handle.
CopyIn(o, rhs) == m_socket' = [m_socket EXCEPT ![o] = m_socket[rhs]]

\* std::exchange of a handle: rhs is left invalid.
MoveIn(o, rhs) ==
  m_socket' = [m_socket EXCEPT ![o] = m_socket[rhs], ![rhs] = Invalid]
MoveOut(o, rhs) ==
  m_out_socket' = [m_out_socket EXCEPT ![o] = m_out_socket[rhs],
                                       ![rhs] = Invalid]

\* Mutant of MoveConstruct: the object moved from is taken for destroyed.
MoveEnds(o, rhs) ==
  /\ o \notin alive
  /\ rhs \in alive
  /\ alive' = (alive \ {rhs}) \cup {o}
  /\ MoveIn(o, rhs) /\ MoveOut(o, rhs)
  /\ UNCHANGED <<file, assigned, fileVars, callVars, write_sock, leaked>>

MoveConstruct(o, rhs) ==
  /\ o \notin alive
  /\ rhs \in alive
  /\ alive' = alive \cup {o}
  /\ MoveIn(o, rhs) /\ MoveOut(o, rhs)
  /\ assigned' = IF rhs \in assigned THEN assigned \cup {o} ELSE assigned
  /\ UNCHANGED <<file, fileVars, callVars, write_sock, leaked>>

\* Mutant of MoveAssign: the handle is moved instead of swapped, so that the
\* one the object had is lost.
MoveOver(o, rhs) ==
  /\ {o, rhs} \subseteq alive
  /\ MoveIn(o, rhs)
  /\ assigned' = assigned \cup {o, rhs}
  /\ UNCHANGED <<file, alive, m_out_socket, fileVars, callVars, write_sock,
                 leaked>>

\* operator=(&&) swaps m_socket and leaves m_out_socket where it is.
MoveAssign(o, rhs) ==
  /\ {o, rhs} \subseteq alive
  /\ m_socket' = [m_socket EXCEPT ![o] = m_socket[rhs], ![rhs] = m_socket[o]]
  /\ assigned' = assigned \cup {o, rhs}
  /\ UNCHANGED <<file, alive, m_out_socket, fileVars, callVars, write_sock,
                 leaked>>

\* Mutant of Handles: the handle for writing is forgotten.
InHandle(o) == {m_socket[o]}

Handles(o) == {m_out_socket[o], m_socket[o]}

\* ~base_socket() closes the valid ones of both handles; the storage is free.
Destroy(o) ==
  /\ o \in alive
  /\ alive' = alive \ {o}
  /\ file' = CloseAll(Handles(o))
  /\ m_socket' = [m_socket EXCEPT ![o] = Invalid]
  /\ m_out_socket' = [m_out_socket EXCEPT ![o] = Invalid]
  /\ assigned' = assigned \ {o}
  /\ torn' = IF o \in assigned
             THEN torn \cup {file[h] : h \in Handles(o) \ {Invalid}} ELSE torn
  /\ UNCHANGED <<readonly, callVars, write_sock, leaked>>

-----------------------------------------------------------------------------
(* udp_socket::write.                                                      *)

\* dup(m_out_socket); an invalid handle or a full table is a SystemError.
BeginWrite(x, o, f) ==
  /\ write_sock[x] = Invalid
  /\ o \in alive
  /\ m_out_socket[o] # Invalid
  /\ IsLowestFree(f)
  /\ write_sock' = [write_sock EXCEPT ![x] = f]
  /\ file' = [file EXCEPT ![f] = file[m_out_socket[o]]]
  /\ UNCHANGED <<objVars, fileVars, callVars, leaked>>

\* Every way out of the loop closes write_sock.
EndWrite(x) ==
  /\ write_sock[x] # Invalid
  /\ file' = CloseAll({write_sock[x]})
  /\ write_sock' = [write_sock EXCEPT ![x] = Invalid]
  /\ UNCHANGED <<objVars, fileVars, callVars, leaked>>

-----------------------------------------------------------------------------
CallStep(c) ==
  \/ \E f \in Fds, x \in Files : OpenSocket(c, f, x) \/ AcceptSocket(c, f, x)
  \/ Configure(c) \/ ConfigureFails(c) \/ Attach(c) \/ AttachFails(c)
  \/ \E o \in Objects : Construct(c, o)

ObjectStep(o) ==
  \/ DefaultConstruct(o) \/ Destroy(o)
  \/ \E rhs \in Objects : MoveConstruct(o, rhs) \/ MoveAssign(o, rhs)

WriteStep(x) ==
  \/ \E o \in Objects, f \in Fds : BeginWrite(x, o, f)
  \/ EndWrite(x)

HandlesNext ==
  \/ \E c \in Calls : CallStep(c)
  \/ \E o \in Objects : ObjectStep(o)
  \/ \E x \in Writes : WriteStep(x)

HandlesSpec == HandlesInit /\ [][HandlesNext]_handleVars

-----------------------------------------------------------------------------
(* Properties.                                                             *)

HandlesTypeOK ==
  /\ file \in [Fds -> Files \cup {Closed}]
  /\ alive \subseteq Objects
  /\ m_socket \in [Objects -> Fds \cup {Invalid}]
  /\ m_out_socket \in [Objects -> Fds \cup {Invalid}]
  /\ assigned \subseteq alive
  /\ readonly \subseteq Files /\ torn \subseteq Files
  /\ stage \in [Calls -> {"idle", "opened", "configured", "ready"}]
  /\ sock \in [Calls -> Fds \cup {Invalid}]
  /\ write_sock \in [Writes -> Fds \cup {Invalid}]
  /\ leaked \subseteq Fds

\* The places in the program that hold descriptor f.
Owners(f) ==
  {<<"in", o>> : o \in {p \in Objects : m_socket[p] = f}}
  \cup {<<"out", o>> : o \in {p \in Objects : m_out_socket[p] = f}}
  \cup {<<"call", c>> : c \in {d \in Calls : sock[d] = f}}
  \cup {<<"write", x>> : x \in {y \in Writes : write_sock[y] = f}}

\* Nothing is closed twice and nothing closed is used: a descriptor some
\* place holds is open, and no other place holds it, whatever the order of
\* moves, assignments, failures and destructions.
OwnedOnce ==
  \A f \in Fds : \A a \in Owners(f) :
    IsOpen(f) /\ f \notin leaked /\ \A b \in Owners(f) : a = b

\* Every descriptor that is open is owned, except the ones that a failed
\* bind() or connect() has abandoned: nothing else in the library leaks.
OnlyFailedSetupLeaks ==
  \A f \in Fds : IsOpen(f) => Owners(f) # {} \/ f \in leaked

\* The objects that read from, and write to, the connection or listener x.
Reads(o, x) == m_socket[o] # Invalid /\ file[m_socket[o]] = x
WritesTo(o, x) == m_out_socket[o] # Invalid /\ file[m_out_socket[o]] = x

\* operator= exchanges the reading side only, and an object whose dup() was
\* refused has no other side.  Through every sequence of moves, assignments
\* and destructions a connection is read by one object and written by one;
\* they are the same unless both took part in an operator=; a side is alone
\* only where dup() was refused, and then it is the reading side, or where an
\* object that took part in an operator= was destroyed with the other.
BothWays ==
  \A x \in Files :
    /\ \A o, p \in Objects :
         /\ Reads(o, x) /\ Reads(p, x) => o = p
         /\ WritesTo(o, x) /\ WritesTo(p, x) => o = p
         /\ Reads(o, x) /\ WritesTo(p, x) => o = p \/ {o, p} \subseteq assigned
    /\ x \in readonly => \A o \in Objects : ~WritesTo(o, x)
    /\ x \notin readonly \cup torn =>
         ((\E o \in Objects : Reads(o, x)) <=> (\E o \in Objects : WritesTo(o, x)))
=============================================================================
