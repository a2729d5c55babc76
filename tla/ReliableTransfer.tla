-------------------------- MODULE ReliableTransfer --------------------------
(***************************************************************************)
(* What the KTP library of LA4.0 promises to the two programs that use it: *)
(* the chunks of the sender's file reach the receiver once each and in     *)
(* order, one at a time, and a k_sendto returns only when its chunk has    *)
(* been delivered.                                                         *)
(***************************************************************************)
EXTENDS Naturals, Sequences

CONSTANT Chunks      \* the sequence of chunks the sender transfers

VARIABLES received,  \* the sequence of chunks k_recvfrom has returned
          returned   \* the number of calls of k_sendto that have returned

transferVars == <<received, returned>>

TransferInit == received = <<>> /\ returned = 0

Deliver ==
  /\ Len(received) = returned /\ returned < Len(Chunks)
  /\ received' = Append(received, Chunks[returned + 1])
  /\ UNCHANGED returned

SendReturns ==
  /\ Len(received) = returned + 1
  /\ returned' = returned + 1
  /\ UNCHANGED received

TransferSpec == TransferInit /\ [][Deliver \/ SendReturns]_transferVars
=============================================================================
