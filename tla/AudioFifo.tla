------------------------------ MODULE AudioFifo ------------------------------
(***************************************************************************)
(* What one CallRec audio ring promises to its two sides, with no memory   *)
(* layout, no indices and no steps inside a call: a bounded first-in       *)
(* first-out queue of frames.  A frame is identified by its number in the  *)
(* stream of frames the producer had accepted (1, 2, 3, ...).              *)
(***************************************************************************)
EXTENDS Integers, Sequences

CONSTANTS Capacity,      \* frames the queue can hold
          StreamLength   \* frames accepted in one session (bound)

VARIABLES queue,     \* accepted frames that were not consumed yet
          accepted,  \* how many frames the producer had accepted
          returned   \* the frames handed over by the latest read or peek

vars == <<queue, accepted, returned>>

Init == queue = <<>> /\ accepted = 0 /\ returned = <<>>

\* The producer's call takes effect at once, as a block of consecutive frames
\* that fits into the free space.
Put(n) ==
  /\ Len(queue) + n <= Capacity
  /\ accepted + n <= StreamLength
  /\ queue' = queue \o [i \in 1..n |-> accepted + i]
  /\ accepted' = accepted + n
  /\ UNCHANGED returned

\* The consumer's call hands over the n oldest frames and forgets them ...
Get(n) ==
  /\ n <= Len(queue)
  /\ returned' = SubSeq(queue, 1, n)
  /\ queue' = SubSeq(queue, n + 1, Len(queue))
  /\ UNCHANGED accepted

\* ... or only shows them.
Look(n) ==
  /\ n <= Len(queue)
  /\ returned' = SubSeq(queue, 1, n)
  /\ UNCHANGED <<queue, accepted>>

Next == \E n \in 1..Capacity : Put(n) \/ Get(n) \/ Look(n)

Spec == Init /\ [][Next]_vars
=============================================================================
