-------------------------- MODULE RingBufferProofs ---------------------------
(* Proofs about RingBuffer.tla, for every capacity, request size and stream *)
(* length.                                                                  *)
EXTENDS RingBuffer, SequenceTheorems, TLAPS

\* Division with remainder by the capacity.
LEMMA DivMod ==
  ASSUME NEW a \in Nat
  PROVE  /\ a \div Frames \in Nat
         /\ a % Frames \in 0..Frames-1
         /\ a = Frames * (a \div Frames) + (a % Frames)
  BY RingAssumption DEF RingAssumption

\* Quotient and remainder are unique: the one arithmetic fact about slots.
LEMMA ModUnique ==
  ASSUME NEW q \in Nat, NEW r \in 0..Frames-1
  PROVE  (Frames * q + r) % Frames = r
  BY RingAssumption DEF RingAssumption

\* Adding to an index less than a lap goes around at most once.
LEMMA ModWindow ==
  ASSUME NEW a \in Nat, NEW d \in 0..Frames
  PROVE  (a + d) % Frames = IF (a % Frames) + d < Frames
                              THEN (a % Frames) + d
                              ELSE (a % Frames) + d - Frames
  <1> DEFINE q == a \div Frames  r == a % Frames
  <1>1. q \in Nat /\ r \in 0..Frames-1 /\ a = Frames * q + r
    BY DivMod
  <1>2. SUFFICES (a + d) % Frames = IF r + d < Frames THEN r + d ELSE r + d - Frames
    OBVIOUS
  <1> HIDE DEF q, r
  <1>3. CASE r + d < Frames
    <2>1. a + d = Frames * q + (r + d) /\ r + d \in 0..Frames-1
      BY <1>1, <1>3, RingAssumption DEF RingAssumption
    <2> QED BY <2>1, <1>1, <1>3, ModUnique
  <1>4. CASE ~(r + d < Frames)
    <2>1. r + d - Frames \in 0..Frames-1 /\ q + 1 \in Nat
      BY <1>1, <1>4, RingAssumption DEF RingAssumption
    <2>2. a + d = Frames * (q + 1) + (r + d - Frames)
      BY <1>1, RingAssumption DEF RingAssumption
    <2>3. (Frames * (q + 1) + (r + d - Frames)) % Frames = r + d - Frames
      BY ONLY <2>1, ModUnique
    <2> QED BY <2>2, <2>3, <1>4
  <1> QED BY <1>3, <1>4

\* A copy of at most Frames frames puts its i-th frame where the indices say.
LEMMA SlotIsMod ==
  ASSUME NEW index \in Nat, NEW i \in 0..Frames
  PROVE  /\ Slot(index, i) = (index + i) % Frames
         /\ Slot(index, i) \in 0..Frames-1
  <1> DEFINE pos == index % Frames
  <1>1. pos \in 0..Frames-1
    BY DivMod
  <1>2. (index + i) % Frames = IF pos + i < Frames THEN pos + i ELSE pos + i - Frames
    BY ModWindow
  <1>3. Slot(index, i) = IF i < Frames - pos THEN pos + i ELSE i - (Frames - pos)
    BY DEF Slot
  <1> HIDE DEF pos
  <1> QED BY <1>1, <1>2, <1>3, RingAssumption DEF RingAssumption

\* Two indices less than a lap apart have different slots.
LEMMA DistinctSlots ==
  ASSUME NEW a \in Nat, NEW b \in Nat, a < b, b < a + Frames
  PROVE  a % Frames # b % Frames
  <1>1. b - a \in 0..Frames /\ b = a + (b - a) /\ b - a > 0
    BY RingAssumption DEF RingAssumption
  <1>2. (a + (b - a)) % Frames = IF (a % Frames) + (b - a) < Frames
                                   THEN (a % Frames) + (b - a)
                                   ELSE (a % Frames) + (b - a) - Frames
    BY <1>1, ModWindow
  <1> QED BY <1>1, <1>2, DivMod, RingAssumption DEF RingAssumption
-----------------------------------------------------------------------------
\* Every variable keeps its type: indices and counts never go negative, and a
\* copy never stores outside the buffer.  The counts must be within a lap for
\* that, so RingInv is carried along in the inductive step.
LEMMA InitInv == Init => TypeOK /\ RingInv
  <1> SUFFICES ASSUME Init PROVE TypeOK /\ RingInv
    OBVIOUS
  <1>1. TypeOK
    BY RingAssumption DEF Init, TypeOK, RingAssumption
  <1>2. RingInv
    BY RingAssumption DEF Init, RingInv, NeverOverrun, ReadsInOrder, RingAssumption
  <1> QED BY <1>1, <1>2

\* The arithmetic content of the invariant, for the steps that need only that.
LEMMA Bounds ==
  ASSUME TypeOK, RingInv
  PROVE  /\ Frames \in Nat /\ Frames > 0 /\ MaxRequest \in Nat
         /\ writeIndex \in Nat /\ wr.count \in Nat /\ wr.done \in Nat
         /\ readIndex \in Nat /\ rd.count \in Nat /\ rd.done \in Nat
         /\ readIndex <= writeIndex
         /\ writeIndex + wr.count - readIndex <= Frames
         /\ wr.done <= wr.count /\ rd.done <= rd.count
         /\ readIndex + rd.count <= writeIndex
         /\ rd.count <= MaxRequest
         /\ StreamLength \in Nat /\ writeIndex + wr.count <= StreamLength
  BY RingAssumption DEF TypeOK, RingInv, NeverOverrun, RingAssumption

\* One step of the producer or the consumer preserves type and invariant.
LEMMA BeginWriteInv ==
  ASSUME TypeOK, RingInv, NEW n \in Requests, BeginWrite(n)
  PROVE  TypeOK' /\ RingInv'
  <1> DEFINE m == Lower(n, FreeSpace)
  <1>1. m \in Nat /\ m <= FreeSpace /\ m > 0
    <2>1. n \in Int /\ FreeSpace \in Int
      BY Bounds DEF FreeSpace, Requests
    <2>2. m > 0
      BY DEF BeginWrite
    <2> QED BY <2>1, <2>2 DEF Lower
  <1>2. wr' = [pc |-> "copy", count |-> m, done |-> 0]
    BY DEF BeginWrite
  <1>3. UNCHANGED <<writeIndex, readIndex, buffer, rd, out, returned>>
    BY DEF BeginWrite, consumer
  <1>4. wr.done = 0
    BY DEF TypeOK, RingInv, BeginWrite
  <1> HIDE DEF m
  <1>5. TypeOK'
    BY <1>1, <1>2, <1>3 DEF TypeOK
  <1>6. NeverOverrun' /\ writeIndex' + wr'.count <= StreamLength
    <2>1. writeIndex + m <= StreamLength
      BY DEF BeginWrite, m
    <2> QED BY <2>1, <1>1, <1>2, <1>3, Bounds DEF NeverOverrun, FreeSpace
  <1>7. \A k \in readIndex..writeIndex+0-1 : buffer[k % Frames] = k + 1
    BY <1>4 DEF RingInv
  <1>8. RingInv'
    BY <1>1, <1>2, <1>3, <1>6, <1>7 DEF RingInv, ReadsInOrder
  <1> QED BY <1>5, <1>8

\* A frame copied in lands outside of what is unread or being read.
LEMMA CopyInInv ==
  ASSUME TypeOK, RingInv, CopyIn
  PROVE  TypeOK' /\ RingInv'
  <1> DEFINE k == writeIndex + wr.done
             s == Slot(writeIndex, wr.done)
  <1>1. /\ wr.done \in 0..Frames
        /\ k \in Nat
        /\ s = k % Frames
        /\ s \in 0..Frames-1
    <2>1. wr.done \in 0..Frames /\ k \in Nat
      BY Bounds DEF CopyIn
    <2> QED BY <2>1, Bounds, SlotIsMod
  <1>2. /\ buffer' = [buffer EXCEPT ![s] = k + 1]
        /\ wr' = [wr EXCEPT !.done = @ + 1]
        /\ wr.done < wr.count
    BY DEF CopyIn
  <1>3. UNCHANGED <<writeIndex, readIndex, rd, out, returned>>
    BY DEF CopyIn, consumer
  <1>4. TypeOK'
    BY <1>1, <1>2, <1>3 DEF TypeOK
  <1>5. \A j \in readIndex..writeIndex+wr.done : buffer'[j % Frames] = j + 1
    <2> SUFFICES ASSUME NEW j \in readIndex..writeIndex+wr.done
                 PROVE  buffer'[j % Frames] = j + 1
      OBVIOUS
    <2>1. j \in Nat /\ j % Frames \in 0..Frames-1
      BY DivMod DEF TypeOK
    <2>2. CASE j = k
      BY <2>1, <2>2, <1>1, <1>2 DEF TypeOK
    <2>3. CASE j # k
      <3>1. j < k /\ k < j + Frames
        BY <2>1, <2>3, <1>2, Bounds
      <3>2. j % Frames # s
        BY <3>1, <2>1, <1>1, DistinctSlots
      <3>3. buffer[j % Frames] = j + 1
        BY <3>1, <2>1 DEF RingInv, TypeOK
      <3> QED BY <3>2, <3>3, <2>1, <1>1, <1>2 DEF TypeOK
    <2> QED BY <2>2, <2>3
  <1> HIDE DEF k, s
  <1>6. RingInv'
    BY <1>2, <1>3, <1>5 DEF TypeOK, RingInv, NeverOverrun, ReadsInOrder
  <1> QED BY <1>4, <1>6

\* Publishing covers exactly the frames that were copied in.
LEMMA PublishWriteInv ==
  ASSUME TypeOK, RingInv, PublishWrite
  PROVE  TypeOK' /\ RingInv'
  <1>1. /\ writeIndex' = writeIndex + wr.done
        /\ wr.done = wr.count
        /\ wr' = [pc |-> "idle", count |-> 0, done |-> 0]
        /\ UNCHANGED <<readIndex, buffer, rd, out, returned>>
    BY DEF PublishWrite, consumer
  <1>2. writeIndex' \in Nat /\ writeIndex' + 0 - 1 = writeIndex + wr.done - 1
    BY <1>1, Bounds
  <1>3. TypeOK'
    BY <1>1, <1>2 DEF TypeOK
  <1>4. NeverOverrun' /\ readIndex' + rd'.count <= writeIndex'
    BY <1>1, Bounds DEF NeverOverrun
  <1>5. \A m \in readIndex..writeIndex'+0-1 : buffer[m % Frames] = m + 1
    BY <1>1, <1>2 DEF RingInv
  <1>6. RingInv'
    BY <1>1, <1>4, <1>5 DEF RingInv, ReadsInOrder
  <1> QED BY <1>3, <1>6

\* A read starts inside of what was published.
LEMMA BeginReadInv ==
  ASSUME TypeOK, RingInv, NEW call \in {"read", "peek"}, NEW n \in Requests, BeginRead(call, n)
  PROVE  TypeOK' /\ RingInv'
  <1> DEFINE m == Lower(n, Available)
  <1>1. m \in Nat /\ m <= Available /\ m <= MaxRequest /\ m > 0
    BY RingAssumption DEF TypeOK, RingInv, NeverOverrun, BeginRead, Lower, Available, Requests, RingAssumption
  <1>2. rd' = [pc |-> call, count |-> m, done |-> 0]
    BY DEF BeginRead
  <1>3. UNCHANGED <<writeIndex, readIndex, buffer, wr, out, returned>>
    BY DEF BeginRead, producer
  <1> HIDE DEF m
  <1>4. TypeOK'
    BY <1>1, <1>2, <1>3 DEF TypeOK
  <1>5. RingInv'
    BY <1>1, <1>2, <1>3 DEF TypeOK, RingInv, NeverOverrun, ReadsInOrder, Available
  <1> QED BY <1>4, <1>5

\* A frame copied out is the one the stream has there.
LEMMA CopyOutInv ==
  ASSUME TypeOK, RingInv, CopyOut
  PROVE  TypeOK' /\ RingInv'
  <1> DEFINE k == readIndex + rd.done
             s == Slot(readIndex, rd.done)
  <1>1. /\ rd.done \in 0..Frames
        /\ rd.done \in 0..MaxRequest-1
        /\ k \in Nat
        /\ k \in readIndex..writeIndex+wr.done-1
        /\ s = k % Frames
        /\ s \in 0..Frames-1
    <2>1. rd.done \in 0..Frames /\ rd.done \in 0..MaxRequest-1 /\ k \in Nat
      BY Bounds DEF CopyOut
    <2>2. k \in readIndex..writeIndex+wr.done-1
      BY Bounds DEF CopyOut
    <2> QED BY <2>1, <2>2, Bounds, SlotIsMod
  <1>2. buffer[s] = k + 1
    BY <1>1 DEF RingInv
  <1>3. rd' = [rd EXCEPT !.done = @ + 1] /\ out' = [out EXCEPT ![rd.done] = k + 1]
    BY <1>2 DEF CopyOut
  <1>4. UNCHANGED <<writeIndex, readIndex, buffer, wr, returned>>
    BY DEF CopyOut, producer
  <1>5. /\ rd.pc \in {"read", "peek"} /\ rd.count \in Nat /\ rd.done < rd.count
        /\ rd' = [pc |-> rd.pc, count |-> rd.count, done |-> rd.done + 1]
    BY <1>3 DEF CopyOut, TypeOK
  <1>6. \A i \in 0..rd.done : out'[i] = readIndex + i + 1
    <2>1. out'[rd.done] = readIndex + rd.done + 1
      BY <1>1, <1>3 DEF TypeOK
    <2>2. \A i \in 0..rd.done-1 : out'[i] = out[i]
      BY <1>1, <1>3 DEF TypeOK
    <2> QED BY <2>1, <2>2, <1>1 DEF RingInv, ReadsInOrder
  <1> HIDE DEF k, s
  <1>7. out' \in [0..MaxRequest-1 -> Nat]
    BY <1>1, <1>3 DEF TypeOK
  <1>8. TypeOK'
    <2>1. rd' \in [pc : {"idle", "read", "peek"}, count : Nat, done : Nat]
      BY <1>5, Bounds
    <2> QED BY <2>1, <1>4, <1>7 DEF TypeOK
  <1>9. /\ rd'.count = rd.count /\ rd'.done = rd.done + 1 /\ rd'.pc # "idle"
        /\ rd.done + 1 <= rd.count /\ (rd.done + 1) - 1 = rd.done /\ rd.count # 0
    BY <1>5, Bounds DEF CopyOut
  <1>10. RingInv'
    BY <1>4, <1>6, <1>9 DEF RingInv, NeverOverrun, ReadsInOrder
  <1> QED BY <1>8, <1>10

\* A finished read consumes what it has copied, a peek nothing.
LEMMA EndReadInv ==
  ASSUME TypeOK, RingInv, EndRead
  PROVE  TypeOK' /\ RingInv'
  <1> DEFINE handed == [i \in 1..rd.count |-> out[i - 1]]
  <1>1. /\ rd' = [pc |-> "idle", count |-> 0, done |-> 0]
        /\ out' = [i \in 0..MaxRequest-1 |-> 0]
        /\ returned' = handed
        /\ UNCHANGED <<writeIndex, buffer, wr>>
    BY DEF EndRead, producer
  <1>2. /\ readIndex' \in Nat /\ readIndex' >= readIndex /\ readIndex' <= writeIndex
    BY DEF EndRead, TypeOK, RingInv, NeverOverrun
  <1>3. out' \in [0..MaxRequest-1 -> Nat]
    BY <1>1
  <1>4. rd.count \in 0..MaxRequest
    BY DEF TypeOK, RingInv
  <1>5. handed \in [1..rd.count -> Nat]
    <2>1. \A i \in 1..rd.count : i - 1 \in 0..MaxRequest-1
      BY Bounds
    <2>2. \A i \in 1..rd.count : out[i - 1] \in Nat
      BY <2>1 DEF TypeOK
    <2> QED BY <2>2
  <1> HIDE DEF handed
  <1>6. TypeOK'
    BY <1>1, <1>2, <1>3, <1>4, <1>5 DEF TypeOK
  <1>7. NeverOverrun'
    BY <1>1, <1>2, Bounds DEF NeverOverrun
  <1>8. \A m \in readIndex'..writeIndex+wr.done-1 : buffer[m % Frames] = m + 1
    <2>1. \A m \in readIndex'..writeIndex+wr.done-1 : m \in readIndex..writeIndex+wr.done-1
      BY <1>2, Bounds
    <2> QED BY <2>1 DEF RingInv
  <1>9. ReadsInOrder' /\ 0 <= MaxRequest
    BY <1>1, Bounds DEF ReadsInOrder
  <1>10. RingInv'
    BY <1>1, <1>2, <1>7, <1>8, <1>9 DEF RingInv
  <1> QED BY <1>6, <1>10

\* Every step preserves type and invariant, one lemma per action.
LEMMA StepInv == TypeOK /\ RingInv /\ [Next]_vars => TypeOK' /\ RingInv'
  <1> SUFFICES ASSUME TypeOK, RingInv, [Next]_vars
               PROVE  TypeOK' /\ RingInv'
    OBVIOUS
  <1>1. ASSUME NEW n \in Requests, BeginWrite(n) PROVE TypeOK' /\ RingInv'
    BY <1>1, BeginWriteInv
  <1>2. CASE CopyIn
    BY <1>2, CopyInInv
  <1>3. CASE PublishWrite
    BY <1>3, PublishWriteInv
  <1>4. ASSUME NEW n \in Requests, NEW call \in {"read", "peek"}, BeginRead(call, n)
        PROVE  TypeOK' /\ RingInv'
    BY <1>4, BeginReadInv
  <1>5. CASE CopyOut
    BY <1>5, CopyOutInv
  <1>6. CASE EndRead
    BY <1>6, EndReadInv
  <1>7. CASE UNCHANGED vars
    BY <1>7 DEF vars, TypeOK, RingInv, NeverOverrun, ReadsInOrder
  <1> QED BY <1>1, <1>2, <1>3, <1>4, <1>5, <1>6, <1>7 DEF Next, Produce, Consume

\* Type and invariant hold in every reachable state: the slots hold what the indices
\* say at every step of a write and of a read.
THEOREM RingInvariant == Spec => [](TypeOK /\ RingInv)
  BY InitInv, StepInv, PTL DEF Spec
-----------------------------------------------------------------------------
\* The indices, the calls in progress and the buffer are always well typed,
\* so no copy leaves the buffer or the caller's array.
THEOREM TypeCorrect == Spec => []TypeOK
  BY RingInvariant, PTL

\* The driver's copy never meets the app's: no data race, for every capacity.
THEOREM NoDataRace == Spec => []NoOverlap
  <1>1. TypeOK /\ RingInv => NoOverlap
    <2> SUFFICES ASSUME TypeOK, RingInv,
                        NEW i \in 0..wr.count-1, NEW j \in 0..rd.count-1
                 PROVE  Slot(writeIndex, i) # Slot(readIndex, j)
      BY DEF NoOverlap, WriteSlots, ReadSlots
    <2> DEFINE a == readIndex + j
               b == writeIndex + i
    <2>1. i \in 0..Frames /\ j \in 0..Frames
      BY Bounds
    <2>2. a \in Nat /\ b \in Nat /\ a < b /\ b < a + Frames
      BY Bounds
    <2>3. Slot(writeIndex, i) = b % Frames /\ Slot(readIndex, j) = a % Frames
      BY <2>1, SlotIsMod, Bounds
    <2> HIDE DEF a, b
    <2> QED BY <2>2, <2>3, DistinctSlots
  <1> QED BY <1>1, RingInvariant, PTL

\* What a read or peek has copied is the next unread stretch of the stream.
THEOREM InOrder == Spec => []ReadsInOrder
  <1>1. RingInv => ReadsInOrder
    BY DEF RingInv
  <1> QED BY <1>1, RingInvariant, PTL

\* The producer stays within one lap of the consumer, a call in progress
\* included: the free-space subtraction never wraps.
THEOREM WithinOneLap == Spec => []NeverOverrun
  <1>1. RingInv => NeverOverrun
    BY DEF RingInv
  <1> QED BY <1>1, RingInvariant, PTL

\* No step of either side changes a published frame that is still unread.
THEOREM PublishedFramesStable == Spec => UnreadStable
  <1> DEFINE Kept == \A k \in readIndex'..writeIndex-1 :
                       buffer'[k % Frames] = buffer[k % Frames]
  <1>1. TypeOK /\ RingInv /\ TypeOK' /\ RingInv' /\ [Next]_vars => [Kept]_vars
    <2> SUFFICES ASSUME TypeOK, RingInv, TypeOK', RingInv', [Next]_vars
                 PROVE  Kept
      OBVIOUS
    <2>1. /\ writeIndex' \in {writeIndex, writeIndex + wr.count}
          /\ readIndex' \in {readIndex, readIndex + rd.count}
      BY DEF Next, Produce, Consume, BeginWrite, CopyIn, PublishWrite,
             BeginRead, CopyOut, EndRead, producer, consumer, vars
    <2> SUFFICES ASSUME NEW k \in readIndex'..writeIndex-1
                 PROVE  buffer'[k % Frames] = buffer[k % Frames]
      OBVIOUS
    <2>2. wr'.done \in Nat
      BY DEF TypeOK
    <2>3. /\ k \in readIndex..writeIndex+wr.done-1
          /\ k \in readIndex'..writeIndex'+wr'.done-1
      BY <2>1, <2>2, Bounds
    <2>4. buffer[k % Frames] = k + 1 /\ buffer'[k % Frames] = k + 1
      BY <2>3 DEF RingInv
    <2> QED BY <2>4
  <1>2. Spec => [](TypeOK /\ RingInv) /\ [][Next]_vars
    BY RingInvariant, PTL DEF Spec
  <1> QED BY <1>1, <1>2, PTL DEF UnreadStable
-----------------------------------------------------------------------------
\* The ring implements the FIFO.

\* The n frames of the stream that follow the a-th.
Run(a, n) == [i \in 1..n |-> a + i]

LEMMA RunIsSeq ==
  ASSUME NEW a \in Nat, NEW n \in Nat
  PROVE  /\ Run(a, n) \in Seq(Nat)
         /\ Len(Run(a, n)) = n
         /\ \A i \in 1..n : Run(a, n)[i] = a + i
  <1>1. Run(a, n) \in [1..n -> Nat] /\ DOMAIN Run(a, n) = 1..n
    BY DEF Run
  <1>2. Run(a, n) \in Seq(Nat)
    BY <1>1, SeqDef
  <1>3. DOMAIN Run(a, n) = 1..Len(Run(a, n)) /\ Len(Run(a, n)) \in Nat
    BY <1>2, LenProperties
  <1>4. \A l \in Nat : 1..l = 1..n => l = n
    OBVIOUS
  <1>5. Len(Run(a, n)) = n
    BY <1>1, <1>3, <1>4
  <1> QED BY <1>2, <1>5 DEF Run

\* Consecutive runs make one, and parts of a run are runs.
LEMMA RunConcat ==
  ASSUME NEW a \in Nat, NEW m \in Nat, NEW n \in Nat
  PROVE  Run(a, m) \o Run(a + m, n) = Run(a, m + n)
  <1> DEFINE s == Run(a, m)  t == Run(a + m, n)  u == Run(a, m + n)
  <1>1. /\ s \in Seq(Nat) /\ Len(s) = m /\ \A i \in 1..m : s[i] = a + i
        /\ t \in Seq(Nat) /\ Len(t) = n /\ \A i \in 1..n : t[i] = a + m + i
        /\ u \in Seq(Nat) /\ Len(u) = m + n /\ \A i \in 1..m + n : u[i] = a + i
    <2>1. a + m \in Nat /\ m + n \in Nat
      OBVIOUS
    <2> HIDE DEF s, t, u
    <2>2. s \in Seq(Nat) /\ Len(s) = m /\ \A i \in 1..m : s[i] = a + i
      BY RunIsSeq DEF s
    <2>3. t \in Seq(Nat) /\ Len(t) = n /\ \A i \in 1..n : t[i] = a + m + i
      BY <2>1, RunIsSeq DEF t
    <2>4. u \in Seq(Nat) /\ Len(u) = m + n /\ \A i \in 1..m + n : u[i] = a + i
      BY <2>1, RunIsSeq DEF u
    <2> QED BY <2>2, <2>3, <2>4
  <1> HIDE DEF s, t, u
  <1>2. /\ s \o t \in Seq(Nat) /\ Len(s \o t) = m + n
        /\ \A i \in 1..m + n : (s \o t)[i] = IF i <= m THEN s[i] ELSE t[i - m]
    BY <1>1, ConcatProperties
  <1>3. ASSUME NEW i \in 1..m + n PROVE (s \o t)[i] = u[i]
    <2>1. CASE i <= m
      BY <1>1, <1>2, <2>1
    <2>2. CASE ~(i <= m)
      <3>1. i - m \in 1..n /\ a + m + (i - m) = a + i
        BY <2>2
      <3> QED BY <1>1, <1>2, <2>2, <3>1
    <2> QED BY <2>1, <2>2
  <1>4. s \o t = u
    BY <1>1, <1>2, <1>3, SeqEqual
  <1> QED BY <1>4 DEF s, t, u

LEMMA RunPart ==
  ASSUME NEW a \in Nat, NEW n \in Nat, NEW k \in 0..n, NEW l \in k..n
  PROVE  SubSeq(Run(a, n), k + 1, l) = Run(a + k, l - k)
  <1> DEFINE s == Run(a, n)  p == SubSeq(s, k + 1, l)  u == Run(a + k, l - k)
  <1>1. /\ \A i \in 1..n : s[i] = a + i
        /\ u \in Seq(Nat) /\ Len(u) = l - k /\ \A i \in 1..l - k : u[i] = a + k + i
    <2>1. a + k \in Nat /\ l - k \in Nat
      OBVIOUS
    <2> HIDE DEF s, p, u
    <2>2. \A i \in 1..n : s[i] = a + i
      BY RunIsSeq DEF s
    <2>3. u \in Seq(Nat) /\ Len(u) = l - k /\ \A i \in 1..l - k : u[i] = a + k + i
      BY <2>1, RunIsSeq DEF u
    <2> QED BY <2>2, <2>3
  <1> HIDE DEF s, u
  <1>2. \A i \in k + 1..l : s[i] \in Nat
    BY <1>1
  <1>3. /\ p \in Seq(Nat) /\ Len(p) = IF k + 1 <= l THEN l - (k + 1) + 1 ELSE 0
        /\ \A i \in 1..l - (k + 1) + 1 : p[i] = s[(k + 1) + i - 1]
    BY <1>2, SubSeqProperties
  <1> HIDE DEF p
  <1>4. Len(p) = l - k /\ \A i \in 1..l - k : p[i] = u[i]
    BY <1>1, <1>3
  <1>5. p = u
    BY <1>1, <1>3, <1>4, SeqEqual
  <1> QED BY <1>5 DEF p, s, u

\* The abstract queue: what the slots spell out is the unread run of the stream.
Queue == [i \in 1..(writeIndex - readIndex) |-> buffer[Slot(readIndex, i - 1)]]
QueueRun == Queue = Run(readIndex, writeIndex - readIndex)

LEMMA QueueIsRun == TypeOK /\ RingInv => QueueRun
  <1> SUFFICES ASSUME TypeOK, RingInv, NEW i \in 1..(writeIndex - readIndex)
               PROVE  buffer[Slot(readIndex, i - 1)] = readIndex + i
    BY DEF Run, Queue, QueueRun
  <1>1. i - 1 \in 0..Frames /\ readIndex + (i - 1) \in readIndex..writeIndex + wr.done - 1
    BY Bounds
  <1>2. Slot(readIndex, i - 1) = (readIndex + (i - 1)) % Frames
    BY <1>1, SlotIsMod, Bounds
  <1>3. buffer[(readIndex + (i - 1)) % Frames] = readIndex + (i - 1) + 1
    BY <1>1 DEF RingInv
  <1> QED BY <1>2, <1>3, Bounds

LEMMA QueueStaysRun ==
  TypeOK /\ RingInv /\ TypeOK' /\ RingInv' =>
    /\ Queue = Run(readIndex, writeIndex - readIndex)
    /\ Queue' = Run(readIndex', writeIndex' - readIndex')
  <1>1. TypeOK' /\ RingInv' => QueueRun'
    BY QueueIsRun, PTL
  <1>2. QueueRun' => Queue' = Run(readIndex', writeIndex' - readIndex')
    BY DEF QueueRun, Run
  <1> QED BY <1>1, <1>2, QueueIsRun DEF QueueRun

\* Publishing a write puts its frames, all at once.
LEMMA PublishPuts ==
  ASSUME TypeOK, RingInv, TypeOK', RingInv', PublishWrite
  PROVE  [Fifo!Next]_(Fifo!vars)
  <1> DEFINE n == wr.count  m == writeIndex - readIndex
  <1>1. /\ writeIndex' = writeIndex + n /\ readIndex' = readIndex /\ returned' = returned
        /\ n \in 1..Frames /\ m \in Nat /\ m + n <= Frames
        /\ writeIndex + n <= StreamLength /\ writeIndex = readIndex + m
        /\ readIndex \in Nat /\ writeIndex \in Nat
    BY Bounds DEF PublishWrite, consumer, RingInv
  <1>2. Queue = Run(readIndex, m) /\ Queue' = Run(readIndex', writeIndex' - readIndex')
    BY QueueStaysRun
  <1> HIDE DEF n, m
  <1>3. writeIndex' - readIndex' = m + n
    BY <1>1
  <1>4. Queue' = Queue \o Run(writeIndex, n)
    <2>1. n \in Nat
      BY <1>1, RingAssumption DEF RingAssumption
    <2>2. Run(readIndex, m) \o Run(readIndex + m, n) = Run(readIndex, m + n)
      BY <1>1, <2>1, RunConcat
    <2> QED BY <1>1, <1>2, <1>3, <2>2
  <1>5. Len(Queue) = m
    BY <1>1, <1>2, RunIsSeq
  <1>6. Fifo!Put(n)
    BY <1>1, <1>4, <1>5 DEF Fifo!Put, Queue, Run
  <1> QED BY <1>1, <1>6 DEF Fifo!Next

\* A read that returns gets its frames, a peek looks at them, all at once.
LEMMA EndReadGets ==
  ASSUME TypeOK, RingInv, TypeOK', RingInv', EndRead
  PROVE  [Fifo!Next]_(Fifo!vars)
  <1> DEFINE n == rd.count  m == writeIndex - readIndex
  <1>1. /\ writeIndex' = writeIndex /\ n \in 1..Frames /\ m \in Nat /\ n \in 0..m
        /\ readIndex \in Nat /\ writeIndex \in Nat
        /\ returned' = [i \in 1..n |-> out[i - 1]]
        /\ readIndex' = IF rd.pc = "read" THEN readIndex + n ELSE readIndex
    <2>1. n # 0 /\ writeIndex' = writeIndex
      BY DEF EndRead, producer, RingInv
    <2>2. n \in 1..Frames /\ m \in Nat /\ n \in 0..m /\ readIndex \in Nat /\ writeIndex \in Nat
      BY <2>1, Bounds
    <2> QED BY <2>1, <2>2 DEF EndRead
  <1>2. Queue = Run(readIndex, m) /\ Queue' = Run(readIndex', writeIndex' - readIndex')
    BY QueueStaysRun
  <1>3. \A i \in 1..n : out[i - 1] = readIndex + i
    <2>1. \A i \in 1..n : i - 1 \in 0..rd.done-1 /\ readIndex + (i - 1) + 1 = readIndex + i
      BY Bounds DEF EndRead
    <2> QED BY <2>1 DEF RingInv, ReadsInOrder
  <1> HIDE DEF n, m
  <1>4. returned' = Run(readIndex, n)
    BY <1>1, <1>3 DEF Run
  <1>5. Len(Queue) = m
    BY <1>1, <1>2, RunIsSeq
  <1>6. SubSeq(Queue, 1, n) = Run(readIndex, n)
    <2>1. SubSeq(Run(readIndex, m), 0 + 1, n) = Run(readIndex + 0, n - 0)
      <3>1. 0 \in 0..m /\ n \in 0..m
        BY <1>1
      <3> QED BY <1>1, <3>1, RunPart
    <2>2. 0 + 1 = 1 /\ readIndex + 0 = readIndex /\ n - 0 = n
      BY <1>1
    <2> QED BY <1>2, <2>1, <2>2
  <1>7. CASE rd.pc = "read"
    <2>1. writeIndex' - readIndex' = m - n
      BY <1>1, <1>7 DEF m
    <2>2. SubSeq(Queue, n + 1, m) = Run(readIndex + n, m - n)
      <3>1. m \in n..m
        BY <1>1
      <3> QED BY <1>1, <1>2, <3>1, RunPart
    <2>3. Queue' = SubSeq(Queue, n + 1, Len(Queue))
      BY <1>1, <1>2, <1>5, <1>7, <2>1, <2>2
    <2>4. n <= Len(Queue) /\ returned' = SubSeq(Queue, 1, n) /\ writeIndex' = writeIndex
      BY <1>1, <1>4, <1>5, <1>6
    <2>5. Fifo!Get(n)
      BY <2>3, <2>4 DEF Fifo!Get, Queue
    <2> QED BY <1>1, <2>5 DEF Fifo!Next
  <1>8. CASE rd.pc # "read"
    <2>1. Queue' = Queue
      BY <1>1, <1>2, <1>8 DEF m
    <2>2. n <= Len(Queue) /\ returned' = SubSeq(Queue, 1, n) /\ writeIndex' = writeIndex
      BY <1>1, <1>4, <1>5, <1>6
    <2>3. Fifo!Look(n)
      BY <2>1, <2>2 DEF Fifo!Look, Queue
    <2> QED BY <1>1, <2>3 DEF Fifo!Next
  <1> QED BY <1>7, <1>8

\* Every other step leaves the queue as it is.
LEMMA OthersStutter ==
  ASSUME TypeOK, RingInv, TypeOK', RingInv', UNCHANGED <<writeIndex, readIndex, returned>>
  PROVE  UNCHANGED Fifo!vars
  <1>1. Queue = Run(readIndex, writeIndex - readIndex) /\ Queue' = Run(readIndex', writeIndex' - readIndex')
    BY QueueStaysRun
  <1> QED BY <1>1 DEF Fifo!vars, Queue

\* For every capacity and every size of the requests the ring is a bounded FIFO: no
\* frame is lost, repeated or taken out of turn, and each call takes effect at once.
THEOREM RingIsFifo == Spec => ImplementsFifo
  <1>1. Init => Fifo!Init
    BY DEF Init, Fifo!Init
  <1>2. TypeOK /\ RingInv /\ TypeOK' /\ RingInv' /\ [Next]_vars => [Fifo!Next]_(Fifo!vars)
    <2> SUFFICES ASSUME TypeOK, RingInv, TypeOK', RingInv', [Next]_vars
                 PROVE  [Fifo!Next]_(Fifo!vars)
      OBVIOUS
    <2>1. CASE PublishWrite
      BY <2>1, PublishPuts
    <2>2. CASE EndRead
      BY <2>2, EndReadGets
    <2>3. CASE ~PublishWrite /\ ~EndRead
      <3>1. UNCHANGED <<writeIndex, readIndex, returned>>
        BY <2>3 DEF Next, Produce, Consume, BeginWrite, CopyIn, BeginRead, CopyOut, producer,
           consumer, vars
      <3> QED BY <3>1, OthersStutter
    <2> QED BY <2>1, <2>2, <2>3
  <1> QED BY <1>1, <1>2, RingInvariant, PTL DEF Spec, ImplementsFifo, Fifo!Spec
=============================================================================
