------------------------------ MODULE MCPlayout ------------------------------
(***************************************************************************)
(* Instances of the playout scheduler for TLC.  The ring and the queue get *)
(* their sizes from the code's own formulas, so that every instance is a   *)
(* configuration the program can have, on a smaller scale.                 *)
(***************************************************************************)
EXTENDS PlayoutProperties

CONSTANTS Credit,     \* the server's send-ahead, in frames
          RingFloor   \* MIN_RING_BUFFER_SIZE, in frames

CreditedRing == RingBufferSize(Prebuffer, Credit, RingFloor)
CreditedQueue == MaxPendingFramesFor(Credit, RingSize)

BackAndForth == {-3, 0, 3}
EarlyOrLate == {-3, 1}
MinusThree == -3
=============================================================================
