---------------------------- MODULE MCRingBuffer -----------------------------
(* A ring of four slots under requests of up to five frames: calls wrap,    *)
(* fill the ring, are clipped, and meet the other side in every phase.  A   *)
(* stream of nine frames goes round the ring more than twice.               *)
EXTENDS RingBuffer
=============================================================================
