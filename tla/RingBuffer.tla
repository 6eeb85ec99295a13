----------------------------- MODULE RingBuffer ------------------------------
(***************************************************************************)
(* The lock-free single-producer single-consumer ring of                   *)
(* Common/RingBuffer.h.  The app (producer) and the audio driver           *)
(* (consumer) run concurrently: a call loads the other side's index once,  *)
(* copies frames one at a time, and then publishes its own index.  The     *)
(* indices only grow; a slot is an index modulo the capacity.              *)
(*                                                                         *)
(* A frame is represented by its number in the stream of accepted frames   *)
(* (1, 2, ...); 0 is the silence the memory is initialised with.  memcpy   *)
(* copies in ascending order here; NoOverlap shows that no other order     *)
(* could be told apart.  The release store of an index is its own step     *)
(* after the copies, which is what acquire/release guarantees.             *)
(***************************************************************************)
EXTENDS Integers, Sequences

CONSTANTS Frames,        \* CALLREC_RING_BUFFER_FRAMES
          MaxRequest,    \* largest frameCount a caller passes
          StreamLength   \* bound: frames accepted in one session (2^64 in the code)

ASSUME RingAssumption ==
  /\ Frames \in Nat \ {0}
  /\ MaxRequest \in Nat \ {0}
  /\ StreamLength \in Nat

VARIABLES writeIndex,  \* total frames written
          readIndex,   \* total frames read
          buffer,      \* the slots in shared memory
          wr,          \* the producer's call: where it is, frames to copy, frames copied
          rd,          \* the consumer's call, likewise
          out,         \* the consumer's destination buffer
          returned     \* history: what the latest read or peek handed to its caller

producer == <<writeIndex, wr>>
consumer == <<readIndex, rd, out, returned>>
vars == <<writeIndex, readIndex, buffer, wr, rd, out, returned>>

Requests == 1..MaxRequest
Lower(a, b) == IF a <= b THEN a ELSE b

\* Mutant: one frame too many fits.
FreeSpaceOffByOne == Frames + 1 - (writeIndex - readIndex)

\* callrec_rb_available and callrec_rb_free_space.
Available == writeIndex - readIndex
FreeSpace == Frames - (writeIndex - readIndex)

\* The slot of the i-th frame of a copy that starts at index: the part up to
\* the end of the buffer, then the part from its beginning.
Slot(index, i) ==
  LET pos   == index % Frames
      toEnd == Frames - pos
  IN  IF i < toEnd THEN pos + i ELSE i - toEnd

-----------------------------------------------------------------------------
\* callrec_rb_reset: both sides are idle, the memory is silent.
Init ==
  /\ writeIndex = 0
  /\ readIndex = 0
  /\ buffer = [s \in 0..Frames-1 |-> 0]
  /\ wr = [pc |-> "idle", count |-> 0, done |-> 0]
  /\ rd = [pc |-> "idle", count |-> 0, done |-> 0]
  /\ out = [i \in 0..MaxRequest-1 |-> 0]
  /\ returned = <<>>

\* callrec_rb_write up to the copy.  A call that finds no room returns 0 and
\* changes nothing; frames that do not fit are dropped by the caller.
BeginWrite(frameCount) ==
  LET n == Lower(frameCount, FreeSpace)
  IN  /\ wr.pc = "idle"
      /\ n > 0
      /\ writeIndex + n <= StreamLength
      /\ wr' = [pc |-> "copy", count |-> n, done |-> 0]
      /\ UNCHANGED <<writeIndex, buffer, consumer>>

CopyIn ==
  /\ wr.pc = "copy"
  /\ wr.done < wr.count
  /\ buffer' = [buffer EXCEPT ![Slot(writeIndex, wr.done)] = writeIndex + wr.done + 1]
  /\ wr' = [wr EXCEPT !.done = @ + 1]
  /\ UNCHANGED <<writeIndex, consumer>>
\* Mutant: the index is published before the last frames are copied.
PublishWriteEarly ==
  /\ wr.pc = "copy"
  /\ writeIndex' = writeIndex + wr.count
  /\ wr' = [pc |-> "idle", count |-> 0, done |-> 0]
  /\ UNCHANGED <<buffer, consumer>>

PublishWrite ==
  /\ wr.pc = "copy"
  /\ wr.done = wr.count
  /\ writeIndex' = writeIndex + wr.count
  /\ wr' = [pc |-> "idle", count |-> 0, done |-> 0]
  /\ UNCHANGED <<buffer, consumer>>

\* callrec_rb_read and callrec_rb_peek up to the copy.  A caller of peek names the
\* position; here, as in its only use (test_ring_buffer.c), that of the reader.
BeginRead(call, frameCount) ==
  LET n == Lower(frameCount, Available)
  IN  /\ rd.pc = "idle"
      /\ n > 0
      /\ rd' = [pc |-> call, count |-> n, done |-> 0]
      /\ UNCHANGED <<readIndex, out, returned, buffer, producer>>

CopyOut ==
  /\ rd.pc # "idle"
  /\ rd.done < rd.count
  /\ out' = [out EXCEPT ![rd.done] = buffer[Slot(readIndex, rd.done)]]
  /\ rd' = [rd EXCEPT !.done = @ + 1]
  /\ UNCHANGED <<readIndex, returned, buffer, producer>>

\* Mutant: a read, like a peek, does not advance the read index.
EndReadKeepsIndex ==
  /\ rd.pc # "idle"
  /\ rd.done = rd.count
  /\ returned' = [i \in 1..rd.count |-> out[i - 1]]
  /\ rd' = [pc |-> "idle", count |-> 0, done |-> 0]
  /\ out' = [i \in 0..MaxRequest-1 |-> 0]
  /\ UNCHANGED <<readIndex, buffer, producer>>

\* The call returns; a read, unlike a peek, first publishes the read index.
EndRead ==
  /\ rd.pc # "idle"
  /\ rd.done = rd.count
  /\ readIndex' = IF rd.pc = "read" THEN readIndex + rd.count ELSE readIndex
  /\ returned' = [i \in 1..rd.count |-> out[i - 1]]
  /\ rd' = [pc |-> "idle", count |-> 0, done |-> 0]
  /\ out' = [i \in 0..MaxRequest-1 |-> 0]
  /\ UNCHANGED <<buffer, producer>>

Produce == (\E n \in Requests : BeginWrite(n)) \/ CopyIn \/ PublishWrite
Consume == (\E n \in Requests : BeginRead("read", n) \/ BeginRead("peek", n)) \/ CopyOut \/ EndRead

Next == Produce \/ Consume

Spec == Init /\ [][Next]_vars

\* A thread that has entered a call finishes it (the calls are wait-free), and
\* an audio unit that is running keeps reading: its IO cycle is periodic.
Fairness ==
  /\ WF_vars(CopyIn \/ PublishWrite)
  /\ WF_vars(CopyOut \/ EndRead)
  /\ SF_vars(\E n \in Requests : BeginRead("read", n))

FairSpec == Spec /\ Fairness

-----------------------------------------------------------------------------
TypeOK ==
  /\ writeIndex \in Nat
  /\ readIndex \in Nat
  /\ buffer \in [0..Frames-1 -> Nat]
  /\ wr \in [pc : {"idle", "copy"}, count : Nat, done : Nat]
  /\ rd \in [pc : {"idle", "read", "peek"}, count : Nat, done : Nat]
  /\ out \in [0..MaxRequest-1 -> Nat]
  /\ \E n \in 0..MaxRequest : returned \in [1..n -> Nat]

\* Slots a call in progress may touch.
WriteSlots == {Slot(writeIndex, i) : i \in 0..wr.count-1}
ReadSlots  == {Slot(readIndex, i) : i \in 0..rd.count-1}

\* The producer's unsynchronised stores and the consumer's unsynchronised
\* loads never meet in a slot, wherever both calls are: there is no data race
\* although neither side takes a lock (RingBuffer.h:4-13).
NoOverlap == WriteSlots \cap ReadSlots = {}

\* The frames a read or peek has copied so far are the oldest unread ones, in
\* order: never a frame of an unfinished write, a repeated or a skipped one
\* ("the reader always sees fully written data", RingBuffer.h:13).
ReadsInOrder ==
  \A i \in 0..rd.done-1 : out[i] = readIndex + i + 1

\* The unsigned subtraction in callrec_rb_free_space never wraps, also with a
\* write in progress: readIndex never passes writeIndex and the producer is
\* never more than the capacity ahead of it.
NeverOverrun ==
  /\ readIndex <= writeIndex
  /\ writeIndex + wr.count - readIndex <= Frames

\* What makes these three inductive: the published, unread part of the buffer
\* and the copied part of a write in progress hold the frames they should, and
\* a read in progress stays within what was published.
RingInv ==
  /\ NeverOverrun
  /\ readIndex + rd.count <= writeIndex
  /\ wr.done <= wr.count /\ rd.done <= rd.count /\ rd.count <= MaxRequest
  /\ wr.pc = "idle" <=> wr.count = 0
  /\ rd.pc = "idle" <=> rd.count = 0
  /\ writeIndex + wr.count <= StreamLength
  /\ \A k \in readIndex..writeIndex+wr.done-1 : buffer[k % Frames] = k + 1
  /\ ReadsInOrder

\* A producer that overruns the consumer drops its new frames; no step
\* overwrites a frame that was published and not yet consumed.
UnreadStable ==
  [][\A k \in readIndex'..writeIndex-1 :
        buffer'[k % Frames] = buffer[k % Frames]]_vars

\* Every frame the producer had accepted is eventually handed to the consumer.
EveryFrameDelivered ==
  \A k \in 1..StreamLength : (writeIndex >= k) ~> (readIndex >= k)

\* The ring implements the bounded FIFO: a write takes effect when it
\* publishes writeIndex, a read when it publishes readIndex, a peek when it
\* returns.  The mapping reads the queue out of the slots themselves.
Fifo == INSTANCE AudioFifo WITH
  Capacity <- Frames,
  queue    <- [i \in 1..(writeIndex - readIndex) |-> buffer[Slot(readIndex, i - 1)]],
  accepted <- writeIndex
ImplementsFifo == Fifo!Spec
=============================================================================
