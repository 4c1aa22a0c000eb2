---------------------------- MODULE ByteChannel ----------------------------
(***************************************************************************)
(* What one direction of a connection promises to the two programs that    *)
(* use it: write() hands its bytes over from the first to the last,        *)
(* read_exactly() gets them from the first to the last, no more than       *)
(* Capacity of them are under way, a call succeeds when it is complete,    *)
(* and it fails only when the connection is broken.  Kernels, events,      *)
(* suspensions and the two buffers are left out: TcpStream implements this *)
(* specification.                                                          *)
(***************************************************************************)
EXTENDS Naturals, Sequences

CONSTANTS Sizes, Capacity

VARIABLES
  size, want,     \* how much is written, and how much is read
  accepted,       \* how many bytes have been handed over
  delivered,      \* the bytes the reader has got; a byte is its position
  writer, reader, \* "busy", "value" or "Closed": where the call is
  broken

channelVars == <<size, want, accepted, delivered, writer, reader, broken>>

ChannelInit ==
  /\ size \in Sizes /\ want \in Sizes
  /\ accepted \in 0 .. size /\ accepted <= Capacity
  /\ delivered = <<>>
  /\ writer = "busy" /\ reader = "busy"
  /\ broken = FALSE

Accept ==
  /\ writer = "busy"
  /\ accepted' \in IF broken THEN {accepted} ELSE accepted .. size
  /\ accepted' <= Len(delivered) + Capacity
  /\ writer' = IF accepted' = size THEN "value" ELSE "busy"
  /\ UNCHANGED <<size, want, delivered, reader, broken>>

\* The next n bytes, of those that were handed over.
Deliver(n) ==
  /\ reader = "busy"
  /\ Len(delivered) + n <= accepted
  /\ delivered' = delivered \o [i \in 1 .. n |-> Len(delivered) + i]
  /\ Len(delivered') <= want
  /\ reader' = IF Len(delivered') = want THEN "value" ELSE "busy"
  /\ UNCHANGED <<size, want, accepted, writer, broken>>

Break ==
  /\ ~broken /\ broken' = TRUE
  /\ UNCHANGED <<size, want, accepted, delivered, writer, reader>>

FailWrite ==
  /\ broken /\ writer = "busy" /\ accepted < size
  /\ writer' = "Closed"
  /\ UNCHANGED <<size, want, accepted, delivered, reader, broken>>

FailRead ==
  /\ broken /\ reader = "busy" /\ Len(delivered) < want
  /\ reader' = "Closed"
  /\ UNCHANGED <<size, want, accepted, delivered, writer, broken>>

ChannelNext ==
  \/ Accept \/ (\E n \in 0 .. want : Deliver(n))
  \/ Break \/ FailWrite \/ FailRead

ChannelSpec == ChannelInit /\ [][ChannelNext]_channelVars
=============================================================================
