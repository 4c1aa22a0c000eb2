----------------------------- MODULE TcpStream -----------------------------
(***************************************************************************)
(* One direction of a TCP connection between two cppio programs on POSIX:  *)
(* a coroutine in tcp_socket::write at one end, one in                     *)
(* tcp_socket::read_exactly, which awaits tcp_socket::read, at the other,  *)
(* and between them the kernel's buffer.  Bytes are numbered by their      *)
(* position in what the program writes.  How a suspended coroutine gets    *)
(* its thread back is the business of Reactor: here an event only marks it *)
(* runnable, and anything may happen before it runs.                       *)
(***************************************************************************)
EXTENDS Naturals, Sequences

CONSTANTS
  Sizes,     \* how much is written and how much is read
  Capacity   \* bytes the kernel holds between the two ends

ASSUME StreamAssumption ==
  /\ Sizes \subseteq Nat
  /\ Capacity \in Nat \ {0}

VARIABLES
  size,        \* bytes the program has written when write returns
  want,        \* read_exactly(p_buffer, want)
  sent,        \* bytes handed to the kernel, by earlier calls of write too
  total_read,  \* read_exactly: bytes received
  p_buffer,    \* read_exactly: offset -> byte
  pipe,        \* the bytes in the kernel
  fin,         \* the writer's socket has been destroyed
  reset,       \* the connection is broken
  wpc, rpc,    \* "run", "wait" (suspended), "woken", "value" or "Closed"
  wsuccess,    \* overlapped.success of the last write event
  rsuccess     \* overlapped.success of the last read event

args == <<size, want>>
writerVars == <<sent, wpc, wsuccess>>
readerVars == <<total_read, p_buffer, rpc, rsuccess>>
streamVars == <<args, writerVars, readerVars, pipe, fin, reset>>

Unwritten == 0

\* Earlier calls of write may have left the kernel's buffer full.
StreamInit ==
  /\ size \in Sizes
  /\ want \in Sizes
  /\ sent \in 0 .. size /\ sent <= Capacity
  /\ total_read = 0
  /\ p_buffer = [i \in 0 .. want - 1 |-> Unwritten]
  /\ pipe = [i \in 1 .. sent |-> i]
  /\ fin = FALSE
  /\ reset = FALSE
  /\ wpc = "run" /\ rpc = "run"
  /\ wsuccess = FALSE /\ rsuccess = FALSE

-----------------------------------------------------------------------------
(* tcp_socket::write                                                       *)

\* Mutant of AfterSend: a partial send counts as a complete one.
AfterPartialSend(total) == wpc' = "value"

\* After send(): co_return when everything is sent, otherwise wait(),
\* register for writing and suspend.
AfterSend(total) == wpc' = IF total < size THEN "wait" ELSE "value"

\* Mutant of Outgoing: send() is given p_buffer instead of p_buffer + sent.
OutgoingFromStart(n) == [i \in 1 .. n |-> i]

\* The next n bytes at p_buffer + sent.
Outgoing(n) == [i \in 1 .. n |-> sent + i]

\* send(p_buffer + sent, size - sent) takes n bytes.
Send(n) ==
  /\ wpc = "run" /\ ~reset
  /\ n \in 1 .. size - sent
  /\ Len(pipe) + n <= Capacity
  /\ pipe' = pipe \o Outgoing(n)
  /\ sent' = sent + n
  /\ AfterSend(sent + n)
  /\ UNCHANGED <<args, wsuccess, readerVars, fin, reset>>

\* EWOULDBLOCK
SendWouldBlock ==
  /\ wpc = "run" /\ ~reset
  /\ sent < size
  /\ Len(pipe) = Capacity
  /\ AfterSend(sent)
  /\ UNCHANGED <<args, sent, wsuccess, readerVars, pipe, fin, reset>>

\* Any other error.
SendFails ==
  /\ wpc = "run" /\ reset
  /\ sent < size
  /\ wpc' = "Closed"
  /\ UNCHANGED <<args, sent, wsuccess, readerVars, pipe, fin, reset>>

\* A write of nothing returns at once.
WriteNothing ==
  /\ wpc = "run"
  /\ sent = size
  /\ wpc' = "value"
  /\ UNCHANGED <<args, sent, wsuccess, readerVars, pipe, fin, reset>>

\* epoll::run: EPOLLOUT, or EPOLLERR | EPOLLHUP.
WriteEvent ==
  /\ wpc = "wait"
  /\ reset \/ Len(pipe) < Capacity
  /\ wsuccess' = ~reset
  /\ wpc' = "woken"
  /\ UNCHANGED <<args, sent, readerVars, pipe, fin, reset>>

ResumeWrite ==
  /\ wpc = "woken"
  /\ wpc' = IF wsuccess THEN "run" ELSE "Closed"
  /\ UNCHANGED <<args, sent, wsuccess, readerVars, pipe, fin, reset>>

-----------------------------------------------------------------------------
(* tcp_socket::read and tcp_socket::read_exactly                           *)

\* Mutant of AfterRead: a short read ends in an error.
AfterShortRead(total) == rpc' = IF total = want THEN "value" ELSE "Closed"

\* read_exactly adds what read returned, and goes on unless it has it all.
AfterRead(total) == rpc' = IF total = want THEN "value" ELSE "run"

\* Mutant of Room: recv() is given size instead of size - total_read.
WholeRoom == want

Room == want - total_read

\* Mutant of Incoming: recv() is given p_buffer, not p_buffer + total_read.
IncomingAtStart(n) ==
  [i \in 0 .. want - 1 |-> IF i < n THEN pipe[i + 1] ELSE p_buffer[i]]

\* The buffer after n bytes have been received at p_buffer + total_read.
Incoming(n) ==
  [i \in 0 .. want - 1 |->
     IF i \in total_read .. total_read + n - 1
     THEN pipe[i - total_read + 1] ELSE p_buffer[i]]

\* recv(p_buffer + total_read, size - total_read) returns n bytes.
Recv(n) ==
  /\ rpc = "run"
  /\ n \in 1 .. Room
  /\ n <= Len(pipe)
  /\ p_buffer' = Incoming(n)
  /\ pipe' = SubSeq(pipe, n + 1, Len(pipe))
  /\ total_read' = total_read + n
  /\ AfterRead(total_read + n)
  /\ UNCHANGED <<args, rsuccess, writerVars, fin, reset>>

\* recv fails with EWOULDBLOCK, or returns 0 at the end of the stream: both
\* wait(), register for reading and suspend.
RecvNothing ==
  /\ rpc = "run" /\ ~reset
  /\ total_read < want
  /\ pipe = <<>>
  /\ rpc' = "wait"
  /\ UNCHANGED <<args, total_read, p_buffer, rsuccess, writerVars, pipe, fin, reset>>

\* Once what had arrived is read, a broken connection is an error.
RecvFails ==
  /\ rpc = "run" /\ reset
  /\ total_read < want
  /\ pipe = <<>>
  /\ rpc' = "Closed"
  /\ UNCHANGED <<args, total_read, p_buffer, rsuccess, writerVars, pipe, fin, reset>>

ReadNothing ==
  /\ rpc = "run"
  /\ want = 0
  /\ rpc' = "value"
  /\ UNCHANGED <<args, total_read, p_buffer, rsuccess, writerVars, pipe, fin, reset>>

\* Mutant of Readable: an event with EPOLLERR or EPOLLHUP is skipped.
ReadableNoError == ~reset /\ (fin \/ pipe # <<>>)

Readable == reset \/ fin \/ pipe # <<>>

\* epoll::run: EPOLLIN (also at the end of the stream), EPOLLERR | EPOLLHUP.
ReadEvent ==
  /\ rpc = "wait"
  /\ Readable
  /\ rsuccess' = ~reset
  /\ rpc' = "woken"
  /\ UNCHANGED <<args, total_read, p_buffer, writerVars, pipe, fin, reset>>

ResumeRead ==
  /\ rpc = "woken"
  /\ rpc' = IF rsuccess THEN "run" ELSE "Closed"
  /\ UNCHANGED <<args, total_read, p_buffer, rsuccess, writerVars, pipe, fin, reset>>

-----------------------------------------------------------------------------
(* The rest of the program, and the network.                               *)

\* ~base_socket() after write has returned: the kernel delivers what it
\* holds, then the end of the stream.
CloseWriter ==
  /\ wpc \in {"value", "Closed"} /\ ~fin
  /\ fin' = TRUE
  /\ UNCHANGED <<args, writerVars, readerVars, pipe, reset>>

\* The connection breaks: of what is in the kernel, only what had reached
\* the reader's end can still be received.
Reset ==
  /\ ~reset
  /\ reset' = TRUE
  /\ \E n \in 0 .. Len(pipe) : pipe' = SubSeq(pipe, 1, n)
  /\ UNCHANGED <<args, writerVars, readerVars, fin>>

WriterStep ==
  \/ \E n \in 1 .. Capacity : Send(n)
  \/ SendWouldBlock \/ SendFails \/ WriteNothing \/ WriteEvent \/ ResumeWrite

ReaderStep ==
  \/ \E n \in 1 .. Capacity : Recv(n)
  \/ RecvNothing \/ RecvFails \/ ReadNothing \/ ReadEvent \/ ResumeRead

StreamNext == WriterStep \/ ReaderStep \/ CloseWriter \/ Reset

StreamSpec == StreamInit /\ [][StreamNext]_streamVars

\* The reactor runs every woken coroutine, and the writer's program drops
\* its socket in the end.  Nothing makes a connection break.
FairStreamSpec ==
  /\ StreamSpec
  /\ WF_streamVars(WriterStep)
  /\ WF_streamVars(ReaderStep)
  /\ WF_streamVars(CloseWriter)

-----------------------------------------------------------------------------
(* Properties.                                                             *)

PcValues == {"run", "wait", "woken", "value", "Closed"}

StreamTypeOK ==
  /\ sent \in 0 .. size
  /\ total_read \in 0 .. want
  /\ p_buffer \in [0 .. want - 1 -> 0 .. size]
  /\ pipe \in Seq(1 .. size)
  /\ fin \in BOOLEAN /\ reset \in BOOLEAN
  /\ wpc \in PcValues /\ rpc \in PcValues
  /\ wsuccess \in BOOLEAN /\ rsuccess \in BOOLEAN

\* The reader's buffer holds the first total_read bytes of the writer's, in
\* order, each once, and nothing beyond them: the offsets of the two loops
\* agree however the sends and receives are split.
InOrder ==
  /\ total_read <= sent
  /\ \A i \in 0 .. want - 1 :
       p_buffer[i] = IF i < total_read THEN i + 1 ELSE Unwritten

\* What the kernel still holds is exactly what follows.
PipeContinues ==
  /\ \A i \in 1 .. Len(pipe) : pipe[i] = total_read + i
  /\ IF reset THEN total_read + Len(pipe) <= sent
              ELSE total_read + Len(pipe) = sent

\* A value is returned only for a complete transfer: write has handed over
\* all size bytes, read_exactly has filled all `want` places.
ValueMeansComplete ==
  /\ wpc = "value" => sent = size
  /\ rpc = "value" => \A i \in 0 .. want - 1 : p_buffer[i] = i + 1

\* What the two programs see: the bytes in the reader's buffer, and whether
\* the calls have returned.
Delivered == [i \in 1 .. total_read |-> p_buffer[i - 1]]
Seen(at) == IF at \in {"value", "Closed"} THEN at ELSE "busy"

Channel ==
  INSTANCE ByteChannel WITH
    accepted <- sent,
    delivered <- Delivered,
    writer <- Seen(wpc), reader <- Seen(rpc), broken <- reset

\* The stream implements the byte channel: every send() and recv(), however
\* they split and wherever they are offset, hands over or delivers the bytes
\* that come next, and the calls fail only on a broken connection.
ImplementsChannel == Channel!ChannelSpec

\* On a connection that does not break write returns a value, and so does
\* a reader that wants no more than is sent, provided somebody takes what
\* does not fit into the kernel's buffer: neither the full buffer nor the
\* oneshot events leave one of them suspended.
BothReturn ==
  size \in want .. want + Capacity =>
    <>(reset \/ (wpc = "value" /\ rpc = "value"))

\* A break is noticed at both ends: nobody stays suspended after it.
ResetIsNoticed ==
  reset ~> (wpc \in {"value", "Closed"} /\ rpc \in {"value", "Closed"})

\* A reader whose peer has closed returns: it has all the bytes it wants, or
\* the error Closed.
ReadReturnsAfterClose == fin ~> rpc \in {"value", "Closed"}
=============================================================================
