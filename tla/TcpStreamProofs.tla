-------------------------- MODULE TcpStreamProofs --------------------------
(***************************************************************************)
(* TcpStream delivers the bytes in order, for buffers of every size and a  *)
(* kernel buffer of every capacity, however send() and recv() split them   *)
(* and whenever the connection breaks.                                     *)
(***************************************************************************)
EXTENDS TcpStream, TLAPS

\* The three safety properties are inductive together: what recv() copies is
\* in order because the pipe continues the buffer, and the pipe does so
\* because sent counts what send() has taken.
StreamInv ==
  /\ size \in Nat /\ want \in Nat
  /\ StreamTypeOK
  /\ InOrder
  /\ PipeContinues
  /\ ValueMeansComplete

-----------------------------------------------------------------------------
(* Sequences of bytes.                                                     *)

\* send() appends: the old bytes stay where they are, the new ones follow.
LEMMA PipeSend ==
  ASSUME NEW S, NEW q \in Seq(S), NEW n \in Nat,
         NEW g \in [1 .. n -> S]
  PROVE  /\ q \o g \in Seq(S)
         /\ Len(q \o g) = Len(q) + n
         /\ \A i \in 1 .. Len(q) : (q \o g)[i] = q[i]
         /\ \A i \in Len(q) + 1 .. Len(q) + n : (q \o g)[i] = g[i - Len(q)]
<1>1. g \in Seq(S) /\ Len(g) = n
  OBVIOUS
<1> QED BY <1>1

\* recv() takes a prefix: what is left is the rest, moved to the front.
LEMMA PipeRecv ==
  ASSUME NEW S, NEW q \in Seq(S), NEW n \in Nat, n <= Len(q)
  PROVE  /\ SubSeq(q, n + 1, Len(q)) \in Seq(S)
         /\ Len(SubSeq(q, n + 1, Len(q))) = Len(q) - n
         /\ \A i \in 1 .. Len(q) - n : SubSeq(q, n + 1, Len(q))[i] = q[n + i]
OBVIOUS

\* A break keeps a prefix.
LEMMA PipeReset ==
  ASSUME NEW S, NEW q \in Seq(S), NEW n \in 0 .. Len(q)
  PROVE  /\ SubSeq(q, 1, n) \in Seq(S)
         /\ Len(SubSeq(q, 1, n)) = n
         /\ \A i \in 1 .. n : SubSeq(q, 1, n)[i] = q[i]
OBVIOUS

-----------------------------------------------------------------------------
(* The invariant.                                                          *)

\* Nothing is sent or read at first.
LEMMA StreamInvInit == StreamInit => StreamInv
<1> USE StreamAssumption
<1> SUFFICES ASSUME StreamInit PROVE StreamInv
  OBVIOUS
<1>1. size \in Nat /\ want \in Nat /\ sent \in 0 .. size
  BY DEF StreamInit
<1>2. pipe \in Seq(1 .. size) /\ Len(pipe) = sent
  BY <1>1 DEF StreamInit
<1>3. StreamTypeOK
  <2>1. p_buffer \in [0 .. want - 1 -> 0 .. size]
    BY <1>1 DEF StreamInit, Unwritten
  <2>2. total_read \in 0 .. want
    BY <1>1 DEF StreamInit
  <2> QED BY <2>1, <2>2, <1>1, <1>2 DEF StreamInit, StreamTypeOK, PcValues
<1>4. InOrder /\ PipeContinues /\ ValueMeansComplete
  BY <1>1, <1>2 DEF StreamInit, InOrder, PipeContinues, ValueMeansComplete, Unwritten
<1> QED BY <1>1, <1>3, <1>4 DEF StreamInv

\* send() hands over the bytes after the ones it has handed over before.
LEMMA SendKeepsInv ==
  ASSUME StreamInv, NEW n \in Nat, Send(n)
  PROVE  StreamInv'
<1> DEFINE g == Outgoing(n)
<1>1. /\ size \in Nat /\ want \in Nat /\ sent \in 0 .. size
      /\ total_read \in 0 .. want /\ pipe \in Seq(1 .. size)
      /\ n \in 1 .. size - sent /\ ~reset
  BY DEF StreamInv, StreamTypeOK, Send
<1>2. /\ pipe' = pipe \o g /\ sent' = sent + n
      /\ wpc' = IF sent + n < size THEN "wait" ELSE "value"
      /\ UNCHANGED <<size, want, wsuccess, total_read, p_buffer, rpc, rsuccess,
                     fin, reset>>
  BY DEF Send, AfterSend, args, readerVars
<1>3. g \in [1 .. n -> 1 .. size] /\ \A i \in 1 .. n : g[i] = sent + i
  BY <1>1 DEF Outgoing
<1> HIDE DEF g
<1>4. /\ pipe' \in Seq(1 .. size)
      /\ Len(pipe') = Len(pipe) + n
      /\ \A i \in 1 .. Len(pipe) : pipe'[i] = pipe[i]
      /\ \A i \in Len(pipe) + 1 .. Len(pipe) + n : pipe'[i] = g[i - Len(pipe)]
  BY <1>1, <1>2, <1>3, PipeSend
<1>5. Len(pipe) \in Nat /\ total_read + Len(pipe) = sent
  BY <1>1 DEF StreamInv, PipeContinues
<1>6. \A i \in 1 .. Len(pipe') : pipe'[i] = total_read' + i
  <2> SUFFICES ASSUME NEW i \in 1 .. Len(pipe) + n PROVE pipe'[i] = total_read + i
    BY <1>2, <1>4
  <2>1. CASE i \in 1 .. Len(pipe)
    BY <2>1, <1>4 DEF StreamInv, PipeContinues
  <2>2. CASE i \in Len(pipe) + 1 .. Len(pipe) + n
    <3>1. i - Len(pipe) \in 1 .. n
      BY <2>2, <1>1, <1>5
    <3>2. pipe'[i] = sent + (i - Len(pipe))
      BY <3>1, <2>2, <1>3, <1>4
    <3> QED BY <3>2, <2>2, <1>1, <1>5
  <2> QED BY <2>1, <2>2, <1>1, <1>5
<1>7. PipeContinues'
  <2>1. total_read' = total_read /\ sent' = sent + n /\ ~reset'
    BY <1>1, <1>2
  <2>2. total_read \in Nat /\ n \in Nat
    BY <1>1
  <2>3. total_read' + Len(pipe') = sent'
    BY <2>1, <2>2, <1>4, <1>5
  <2> QED BY <2>1, <2>3, <1>6 DEF PipeContinues
<1>8. StreamTypeOK'
  BY <1>1, <1>2, <1>4 DEF StreamInv, StreamTypeOK, PcValues
<1>9. InOrder' /\ ValueMeansComplete'
  BY <1>1, <1>2 DEF StreamInv, StreamTypeOK, InOrder, ValueMeansComplete, Send
<1> QED BY <1>1, <1>2, <1>7, <1>8, <1>9 DEF StreamInv

\* recv() fills the places after the ones it has filled before.
LEMMA RecvKeepsInv ==
  ASSUME StreamInv, NEW n \in Nat, Recv(n)
  PROVE  StreamInv'
<1>1. /\ size \in Nat /\ want \in Nat /\ sent \in 0 .. size
      /\ total_read \in 0 .. want /\ pipe \in Seq(1 .. size)
      /\ p_buffer \in [0 .. want - 1 -> 0 .. size]
      /\ n \in 1 .. want - total_read /\ n <= Len(pipe)
  BY DEF StreamInv, StreamTypeOK, Recv, Room
<1>2. /\ p_buffer' = Incoming(n)
      /\ pipe' = SubSeq(pipe, n + 1, Len(pipe))
      /\ total_read' = total_read + n
      /\ rpc' = IF total_read + n = want THEN "value" ELSE "run"
      /\ UNCHANGED <<size, want, rsuccess, sent, wpc, wsuccess, fin, reset>>
  BY DEF Recv, AfterRead, args, writerVars
<1>3. /\ pipe' \in Seq(1 .. size)
      /\ Len(pipe') = Len(pipe) - n
      /\ \A i \in 1 .. Len(pipe) - n : pipe'[i] = pipe[n + i]
  BY <1>1, <1>2, PipeRecv
<1>4. Len(pipe) \in Nat /\ \A i \in 1 .. Len(pipe) : pipe[i] = total_read + i
  BY <1>1 DEF StreamInv, PipeContinues
<1>5. total_read + Len(pipe) <= sent
  BY <1>1, <1>4 DEF StreamInv, PipeContinues
<1>6. \A i \in 0 .. want - 1 :
        p_buffer'[i] = IF i < total_read + n THEN i + 1 ELSE Unwritten
  <2> SUFFICES ASSUME NEW i \in 0 .. want - 1
               PROVE  p_buffer'[i] = IF i < total_read + n THEN i + 1 ELSE Unwritten
    OBVIOUS
  <2>0. p_buffer[i] = IF i < total_read THEN i + 1 ELSE Unwritten
    BY DEF StreamInv, InOrder
  <2>1. CASE i \in total_read .. total_read + n - 1
    <3>1. p_buffer'[i] = pipe[i - total_read + 1]
      BY <2>1, <1>2 DEF Incoming
    <3>2. i - total_read + 1 \in 1 .. Len(pipe)
      BY <2>1, <1>1, <1>4
    <3> QED BY <3>1, <3>2, <2>1, <1>1, <1>4
  <2>2. CASE i \notin total_read .. total_read + n - 1
    <3>1. p_buffer'[i] = p_buffer[i]
      BY <2>2, <1>2 DEF Incoming
    <3> QED BY <3>1, <2>0, <2>2, <1>1
  <2> QED BY <2>1, <2>2
<1>7. p_buffer' \in [0 .. want - 1 -> 0 .. size]
  <2>1. p_buffer' = [i \in 0 .. want - 1 |-> p_buffer'[i]]
    BY <1>2 DEF Incoming
  <2>2. total_read + n <= size
    BY <1>1, <1>4, <1>5
  <2>3. ASSUME NEW i \in 0 .. want - 1 PROVE p_buffer'[i] \in 0 .. size
    <3>1. CASE i < total_read + n
      BY <3>1, <2>2, <1>1, <1>6
    <3>2. CASE ~(i < total_read + n)
      BY <3>2, <1>1, <1>6 DEF Unwritten
    <3> QED BY <3>1, <3>2
  <2> QED BY <2>1, <2>3
<1>8. StreamTypeOK'
  <2>1. total_read' \in 0 .. want'
    BY <1>1, <1>2
  <2> QED BY <2>1, <1>2, <1>3, <1>7 DEF StreamInv, StreamTypeOK, PcValues
<1>9. InOrder'
  BY <1>1, <1>2, <1>4, <1>5, <1>6 DEF InOrder
<1>10. PipeContinues'
  <2>1. ASSUME NEW i \in 1 .. Len(pipe) - n PROVE pipe'[i] = total_read' + i
    <3>1. n + i \in 1 .. Len(pipe)
      BY <1>1, <1>4
    <3> QED BY <3>1, <1>1, <1>2, <1>3, <1>4
  <2>2. total_read \in Nat /\ total_read' = total_read + n
    BY <1>1, <1>2
  <2>3. total_read' + Len(pipe') = total_read + Len(pipe)
    BY <2>2, <1>3, <1>4
  <2> QED BY <2>1, <2>3, <1>2, <1>3 DEF StreamInv, PipeContinues
<1>11. ValueMeansComplete'
  BY <1>1, <1>2, <1>6 DEF StreamInv, ValueMeansComplete
<1> QED BY <1>1, <1>2, <1>8, <1>9, <1>10, <1>11 DEF StreamInv

\* A break loses bytes at the end of the pipe only.
LEMMA ResetKeepsInv ==
  ASSUME StreamInv, Reset
  PROVE  StreamInv'
<1>1. PICK n \in 0 .. Len(pipe) : pipe' = SubSeq(pipe, 1, n)
  BY DEF Reset
<1>2. pipe \in Seq(1 .. size) /\ ~reset /\ reset' = TRUE
  BY DEF StreamInv, StreamTypeOK, Reset
<1>3. /\ pipe' \in Seq(1 .. size) /\ Len(pipe') = n
      /\ \A i \in 1 .. n : pipe'[i] = pipe[i]
  BY <1>1, <1>2, PipeReset
<1>4. UNCHANGED <<args, writerVars, readerVars, fin>>
  BY DEF Reset
<1> QED
  BY <1>1, <1>2, <1>3, <1>4 DEF StreamInv, StreamTypeOK, InOrder, PipeContinues,
     ValueMeansComplete, args, writerVars, readerVars

\* Every step of writer, reader, kernel and peer keeps the invariant.
LEMMA StreamInvNext ==
  ASSUME StreamInv, [StreamNext]_streamVars
  PROVE  StreamInv'
<1> USE DEF StreamInv, StreamTypeOK, InOrder, PipeContinues, ValueMeansComplete,
            PcValues, args, writerVars, readerVars
<1>1. ASSUME NEW n \in 1 .. Capacity, Send(n) PROVE StreamInv'
  BY <1>1, SendKeepsInv, StreamAssumption
<1>2. CASE SendWouldBlock
  BY <1>2 DEF SendWouldBlock, AfterSend
<1>3. CASE SendFails
  BY <1>3 DEF SendFails
<1>4. CASE WriteNothing
  BY <1>4 DEF WriteNothing
<1>5. CASE WriteEvent
  BY <1>5 DEF WriteEvent
<1>6. CASE ResumeWrite
  BY <1>6 DEF ResumeWrite
<1>7. ASSUME NEW n \in 1 .. Capacity, Recv(n) PROVE StreamInv'
  BY <1>7, RecvKeepsInv, StreamAssumption
<1>8. CASE RecvNothing
  BY <1>8 DEF RecvNothing
<1>9. CASE RecvFails
  BY <1>9 DEF RecvFails
<1>10. CASE ReadNothing
  BY <1>10 DEF ReadNothing
<1>11. CASE ReadEvent
  BY <1>11 DEF ReadEvent
<1>12. CASE ResumeRead
  BY <1>12 DEF ResumeRead
<1>13. CASE CloseWriter
  BY <1>13 DEF CloseWriter
<1>14. CASE Reset
  BY <1>14, ResetKeepsInv
<1>15. CASE UNCHANGED streamVars
  BY <1>15 DEF streamVars
<1> QED
  BY <1>1, <1>2, <1>3, <1>4, <1>5, <1>6, <1>7, <1>8, <1>9, <1>10, <1>11, <1>12,
     <1>13, <1>14, <1>15 DEF StreamNext, WriterStep, ReaderStep

\* Every reachable state of the two ends and the kernel's buffer satisfies
\* the inductive invariant.
THEOREM StreamInvariant == StreamSpec => []StreamInv
<1>1. StreamInit => StreamInv
  BY StreamInvInit
<1>2. StreamInv /\ [StreamNext]_streamVars => StreamInv'
  BY StreamInvNext
<1> QED BY <1>1, <1>2, PTL DEF StreamSpec

\* tcp_socket::write and read_exactly keep their counters within the sizes
\* they were called with, and the buffer is never written out of bounds.
THEOREM StreamTypeCorrect == StreamSpec => []StreamTypeOK
<1>1. StreamInv => StreamTypeOK
  BY DEF StreamInv
<1> QED BY <1>1, StreamInvariant, PTL

\* read_exactly receives the bytes given to write in order, each once.
THEOREM BytesInOrder == StreamSpec => []InOrder
<1>1. StreamInv => InOrder
  BY DEF StreamInv
<1> QED BY <1>1, StreamInvariant, PTL

\* What is in the kernel is what the reader gets next.
THEOREM PipeIsTheRest == StreamSpec => []PipeContinues
<1>1. StreamInv => PipeContinues
  BY DEF StreamInv
<1> QED BY <1>1, StreamInvariant, PTL

\* Neither write nor read_exactly returns a value before its transfer is
\* complete.
THEOREM ValueIsComplete == StreamSpec => []ValueMeansComplete
<1>1. StreamInv => ValueMeansComplete
  BY DEF StreamInv
<1> QED BY <1>1, StreamInvariant, PTL

-----------------------------------------------------------------------------
(* The stream implements the byte channel.                                 *)

\* Who is suspended has something left to do, and finds an error in its
\* overlapped only when the connection is broken; what the reader has not got
\* fits into the kernel's buffer.
Suspended ==
  /\ sent <= total_read + Capacity
  /\ wpc \in {"wait", "woken"} => sent < size
  /\ wpc = "woken" /\ ~wsuccess => reset
  /\ rpc \in {"wait", "woken"} => total_read < want
  /\ rpc = "woken" /\ ~rsuccess => reset

\* No step of the two ends, the kernel or the network breaks Suspended.
LEMMA SuspendedNext ==
  ASSUME StreamInv, Suspended, [StreamNext]_streamVars
  PROVE  Suspended'
<1> USE DEF Suspended, args, writerVars, readerVars
<1>0. /\ size \in Nat /\ want \in Nat /\ sent \in 0 .. size
      /\ total_read \in 0 .. want /\ reset \in BOOLEAN
      /\ Len(pipe) \in Nat /\ (~reset => total_read + Len(pipe) = sent)
      /\ Capacity \in Nat
  BY StreamAssumption DEF StreamInv, StreamTypeOK, PipeContinues
<1>1. ASSUME NEW n \in 1 .. Capacity, Send(n) PROVE Suspended'
  BY <1>0, <1>1 DEF Send, AfterSend
<1>2. CASE SendWouldBlock
  BY <1>0, <1>2 DEF SendWouldBlock, AfterSend
<1>3. CASE SendFails
  BY <1>3 DEF SendFails
<1>4. CASE WriteNothing
  BY <1>4 DEF WriteNothing
<1>5. CASE WriteEvent
  BY <1>0, <1>5 DEF WriteEvent
<1>6. CASE ResumeWrite
  BY <1>6 DEF ResumeWrite
<1>7. ASSUME NEW n \in 1 .. Capacity, Recv(n) PROVE Suspended'
  BY <1>0, <1>7 DEF Recv, AfterRead
<1>8. CASE RecvNothing
  BY <1>8 DEF RecvNothing
<1>9. CASE RecvFails
  BY <1>9 DEF RecvFails
<1>10. CASE ReadNothing
  BY <1>10 DEF ReadNothing
<1>11. CASE ReadEvent
  BY <1>0, <1>11 DEF ReadEvent
<1>12. CASE ResumeRead
  BY <1>12 DEF ResumeRead
<1>13. CASE CloseWriter
  BY <1>13 DEF CloseWriter
<1>14. CASE Reset
  BY <1>14 DEF Reset
<1>15. CASE UNCHANGED streamVars
  BY <1>15 DEF streamVars
<1> QED
  BY <1>1, <1>2, <1>3, <1>4, <1>5, <1>6, <1>7, <1>8, <1>9, <1>10, <1>11, <1>12,
     <1>13, <1>14, <1>15 DEF StreamNext, WriterStep, ReaderStep

\* What the reader has got is the positions from 1 on: `got` bytes of a
\* buffer of n.
LEMMA PrefixOfBuffer ==
  ASSUME NEW n \in Nat, NEW got \in 0 .. n, NEW buffer,
         \A i \in 0 .. n - 1 : buffer[i] = IF i < got THEN i + 1 ELSE Unwritten
  PROVE  [i \in 1 .. got |-> buffer[i - 1]] = [i \in 1 .. got |-> i]
<1>1. ASSUME NEW i \in 1 .. got PROVE buffer[i - 1] = i
  <2>1. i - 1 \in 0 .. n - 1 /\ i - 1 < got
    OBVIOUS
  <2> QED BY <2>1
<1> QED BY <1>1

\* The bytes of one recv() follow those that were there.
LEMMA DeliverNext ==
  ASSUME NEW m \in Nat, NEW n \in Nat
  PROVE  [i \in 1 .. m |-> i] \o [i \in 1 .. n |-> m + i] = [i \in 1 .. m + n |-> i]
<1> DEFINE f == [i \in 1 .. m |-> i]
           g == [i \in 1 .. n |-> m + i]
<1>1. f \in Seq(Nat) /\ g \in Seq(Nat) /\ Len(f) = m /\ Len(g) = n
  OBVIOUS
<1>2. \A i \in 1 .. m + n : (f \o g)[i] = i
  <2> SUFFICES ASSUME NEW i \in 1 .. m + n PROVE (f \o g)[i] = i
    OBVIOUS
  <2>1. CASE i <= m
    BY <1>1, <2>1
  <2>2. CASE i > m
    BY <1>1, <2>2
  <2> QED BY <2>1, <2>2
<1>3. f \o g \in Seq(Nat) /\ Len(f \o g) = m + n
  BY <1>1
<1> QED BY <1>2, <1>3

\* Every step is a step of the channel, or is not seen by the two programs.
LEMMA StreamStepRefines ==
  ASSUME StreamInv, StreamInv', Suspended, [StreamNext]_streamVars
  PROVE  [Channel!ChannelNext]_(Channel!channelVars)
<1> USE DEF args, writerVars, readerVars
<1>0. /\ size \in Nat /\ want \in Nat /\ sent \in 0 .. size
      /\ total_read \in 0 .. want /\ pipe \in Seq(1 .. size) /\ reset \in BOOLEAN
      /\ Len(pipe) \in Nat /\ Capacity \in Nat
      /\ wpc \in PcValues /\ rpc \in PcValues
      /\ Delivered = [i \in 1 .. total_read |-> i] /\ Len(Delivered) = total_read
  BY PrefixOfBuffer, StreamAssumption DEF StreamInv, StreamTypeOK, InOrder, Delivered
<1>1. ASSUME UNCHANGED <<total_read, p_buffer>>
      PROVE  Delivered' = Delivered
  BY <1>1 DEF Delivered
<1>2. ASSUME NEW n \in 1 .. Capacity, Send(n) PROVE Channel!ChannelNext
  <2>1. /\ wpc = "run" /\ ~reset /\ n \in 1 .. size - sent /\ sent' = sent + n
        /\ Len(pipe) + n <= Capacity
        /\ wpc' = IF sent + n < size THEN "wait" ELSE "value"
        /\ UNCHANGED <<size, want, total_read, p_buffer, rpc, reset>>
    BY <1>2 DEF Send, AfterSend
  <2>2. total_read + Len(pipe) = sent
    BY <2>1 DEF StreamInv, PipeContinues
  <2>3. sent' \in sent .. size /\ sent' <= Len(Delivered) + Capacity
    BY <1>0, <2>1, <2>2
  <2>4. Seen(wpc') = IF sent' = size THEN "value" ELSE "busy"
    BY <1>0, <2>1 DEF Seen
  <2>5. Channel!Accept
    BY <1>1, <2>1, <2>3, <2>4 DEF Channel!Accept, Seen
  <2> QED BY <2>5 DEF Channel!ChannelNext
<1>3. CASE WriteNothing
  <2>1. Channel!Accept
    BY <1>0, <1>1, <1>3 DEF WriteNothing, Channel!Accept, Seen, Suspended
  <2> QED BY <2>1 DEF Channel!ChannelNext
<1>4. ASSUME NEW n \in 1 .. Capacity, Recv(n) PROVE Channel!ChannelNext
  <2>1. /\ rpc = "run" /\ n \in 1 .. want - total_read /\ n <= Len(pipe)
        /\ total_read' = total_read + n
        /\ rpc' = IF total_read + n = want THEN "value" ELSE "run"
        /\ UNCHANGED <<size, want, sent, wpc, reset>>
    BY <1>4 DEF Recv, Room, AfterRead
  <2>2. total_read + Len(pipe) <= sent
    BY <1>0 DEF StreamInv, PipeContinues
  <2>3. /\ Delivered = [i \in 1 .. total_read |-> i]
        /\ Delivered' = [i \in 1 .. total_read + n |-> i]
        /\ Len(Delivered') = total_read + n
    BY <1>0, <2>1, PrefixOfBuffer DEF StreamInv, StreamTypeOK, InOrder, Delivered
  <2>4. Delivered' = Delivered \o [i \in 1 .. n |-> Len(Delivered) + i]
    BY <1>0, <2>1, <2>3, DeliverNext
  <2>5. n \in 0 .. want /\ Len(Delivered) + n <= sent /\ Len(Delivered') <= want
    BY <1>0, <2>1, <2>2, <2>3
  <2>6. Seen(rpc') = IF Len(Delivered') = want THEN "value" ELSE "busy"
    BY <1>0, <2>1, <2>3 DEF Seen
  <2>7. Channel!Deliver(n)
    BY <2>1, <2>4, <2>5, <2>6 DEF Channel!Deliver, Seen
  <2> QED BY <2>5, <2>7 DEF Channel!ChannelNext
<1>5. CASE ReadNothing
  <2>1. /\ want = 0 /\ rpc = "run" /\ rpc' = "value"
        /\ UNCHANGED <<size, want, sent, wpc, reset, total_read, p_buffer>>
    BY <1>5 DEF ReadNothing
  <2>2. Delivered' = Delivered \o [i \in 1 .. 0 |-> Len(Delivered) + i]
    BY <1>0, <1>1, <2>1, DeliverNext
  <2>3. Channel!Deliver(0)
    BY <1>0, <1>1, <2>1, <2>2 DEF Channel!Deliver, Seen
  <2> QED BY <1>0, <2>3 DEF Channel!ChannelNext
<1>6. CASE Reset
  BY <1>1, <1>6 DEF Reset, Channel!ChannelNext, Channel!Break
<1>7. CASE SendFails \/ (ResumeWrite /\ ~wsuccess)
  <2>1. Channel!FailWrite
    BY <1>0, <1>1, <1>7
    DEF SendFails, ResumeWrite, Suspended, Channel!FailWrite, Seen
  <2> QED BY <2>1 DEF Channel!ChannelNext
<1>8. CASE RecvFails \/ (ResumeRead /\ ~rsuccess)
  <2>1. Channel!FailRead
    BY <1>0, <1>1, <1>8
    DEF RecvFails, ResumeRead, Suspended, Channel!FailRead, Seen
  <2> QED BY <2>1 DEF Channel!ChannelNext
<1>9. CASE \/ SendWouldBlock \/ WriteEvent \/ (ResumeWrite /\ wsuccess)
           \/ RecvNothing \/ ReadEvent \/ (ResumeRead /\ rsuccess)
           \/ CloseWriter \/ UNCHANGED streamVars
  <2>1. /\ UNCHANGED <<size, want, sent, total_read, p_buffer, reset>>
        /\ Seen(wpc)' = Seen(wpc) /\ Seen(rpc)' = Seen(rpc)
    BY <1>9 DEF SendWouldBlock, AfterSend, WriteEvent, ResumeWrite, RecvNothing,
                ReadEvent, ResumeRead, CloseWriter, streamVars, Seen
  <2> QED BY <1>1, <2>1 DEF Channel!channelVars
<1> QED
  BY <1>2, <1>3, <1>4, <1>5, <1>6, <1>7, <1>8, <1>9
  DEF StreamNext, WriterStep, ReaderStep

\* write and read_exactly implement the byte channel, for every size of
\* message, buffer and kernel buffer and every split of the transfers.
THEOREM ChannelRefinement == StreamSpec => ImplementsChannel
<1>1. StreamInit => Channel!ChannelInit /\ Suspended
  <2> SUFFICES ASSUME StreamInit PROVE Channel!ChannelInit /\ Suspended
    OBVIOUS
  <2>1. total_read = 0 /\ wpc = "run" /\ rpc = "run"
    BY DEF StreamInit
  <2>2. Delivered = <<>>
    BY <2>1 DEF Delivered
  <2> QED
    BY <2>1, <2>2, StreamAssumption DEF StreamInit, Channel!ChannelInit, Seen, Suspended
<1>2. StreamInv /\ Suspended /\ [StreamNext]_streamVars => Suspended'
  BY SuspendedNext
<1>3. StreamInv /\ StreamInv' /\ Suspended /\ [StreamNext]_streamVars
      => [Channel!ChannelNext]_(Channel!channelVars)
  BY StreamStepRefines
<1> QED
  BY <1>1, <1>2, <1>3, StreamInvariant, PTL
  DEF StreamSpec, ImplementsChannel, Channel!ChannelSpec
=============================================================================
