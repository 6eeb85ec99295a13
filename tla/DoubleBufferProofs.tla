-------------------------- MODULE DoubleBufferProofs --------------------------
(***************************************************************************)
(* Proofs about DoubleBuffer.tla, for any readers, setters and number of   *)
(* sets.                                                                   *)
(***************************************************************************)
EXTENDS DoubleBuffer, TLAPS

\* The two buffers of consecutive indices are different, and there are no others.
LEMMA BufferOf ==
  ASSUME NEW i \in Nat \ {0}
  PROVE  /\ BufferAt(i) \in Buffers
         /\ BufferAt(i + 1) \in Buffers \ {BufferAt(i)}
         /\ BufferAt(i - 1) = BufferAt(i + 1)
  BY DEF BufferAt, Buffers

LEMMA BufferIs == ASSUME NEW i \in Nat PROVE BufferAt(i) \in Buffers
  BY DEF BufferAt, Buffers

\* The buffer a reader names, and the ones a setter works on.
LEMMA BuffersNamed ==
  ASSUME TypeOK
  PROVE  /\ \A r \in Readers : BufferAt(rd[r].i) \in Buffers
         /\ BufferAt(currentIndex) \in Buffers
         /\ BufferAt(New) \in Buffers \ {BufferAt(currentIndex)}
         /\ BufferAt(Old) = BufferAt(New)
         /\ currentIndex \in Nat \ {0} /\ New \in Nat \ {0}
  <1>1. ASSUME NEW r \in Readers PROVE BufferAt(rd[r].i) \in Buffers
    <2>1. rd[r].i \in Nat
      BY DEF TypeOK
    <2> QED BY <2>1, BufferIs
  <1>2. currentIndex \in Nat \ {0} /\ New = currentIndex + 1 /\ Old = currentIndex - 1
    BY DEF TypeOK, New, Old
  <1> QED BY <1>1, <1>2, BufferOf

-----------------------------------------------------------------------------
\* Setters exclude each other from the mark to the end.
Serialized == \A s \in Setters : st[s] \notin {"idle", "acquire"} => writeMutex = s

\* What a setter has done to the two buffers at each of its steps.
Prepared ==
  \A s \in Setters :
    /\ st[s] \in {"lockNew", "store", "switch"} => index[BufferAt(New)] = New
    /\ st[s] = "store" => shared[BufferAt(New)] = {}
    /\ st[s] = "switch" => value[BufferAt(New)] = New
    /\ st[s] \in {"lockOld", "destroy"} => index[BufferAt(Old)] = Invalid
    /\ st[s] = "destroy" => shared[BufferAt(Old)] = {}

\* A buffer that is not invalidated holds the value its index names, except the
\* one a setter prepares; and the current buffer holds the current value.
Contents ==
  /\ \A b \in Buffers :
       \/ index[b] = Invalid
       \/ value[b] = index[b]
       \/ \E s \in Setters : st[s] \in {"lockNew", "store"} /\ b = BufferAt(New)
  /\ value[BufferAt(currentIndex)] = currentIndex

\* A reader past the load has seen an index that was current, and past the lock
\* it is among the holders of that buffer.
Looked ==
  \A r \in Readers :
    /\ rd[r].pc \in {"lock", "check", "read"} => rd[r].i \in 1..currentIndex
    /\ rd[r].pc \in {"check", "read"} => r \in shared[BufferAt(rd[r].i)]

\* The inductive invariant.
BufferInv == TypeOK /\ Serialized /\ Prepared /\ Contents /\ Looked /\ ReferenceStable

LEMMA InitInv == Init => BufferInv
  <1> SUFFICES ASSUME Init PROVE BufferInv
    OBVIOUS
  <1> USE DoubleBufferAssumption DEF DoubleBufferAssumption, Init, Buffers, Invalid, Empty, Changing
  <1>1. TypeOK
    BY DEF TypeOK, ReaderSteps, SetterSteps
  <1>2. Serialized /\ Prepared /\ Looked /\ ReferenceStable
    BY DEF Serialized, Prepared, Looked, ReferenceStable
  <1>3. Contents
    BY DEF Contents, BufferAt
  <1> QED BY <1>1, <1>2, <1>3 DEF BufferInv

-----------------------------------------------------------------------------
\* What a reader's step does to its own state and to the lock it names.
LEMMA ReaderStep ==
  ASSUME TypeOK, NEW r \in Readers, ReaderNext(r)
  PROVE  /\ UNCHANGED setterVars
         /\ rd' = [rd EXCEPT ![r] = rd'[r]]
         /\ rd'[r] \in [pc : ReaderSteps, i : Nat]
         /\ answer' \in [Readers -> Nat \union {Changing}]
         /\ \/ shared' = shared
            \/ /\ shared' = [shared EXCEPT ![BufferAt(rd[r].i)] = @ \union {r}]
               /\ ~Exclusive(BufferAt(rd[r].i))
            \/ shared' = [shared EXCEPT ![BufferAt(rd[r].i)] = @ \ {r}]
  <1> USE DEF TypeOK, ReaderSteps
  <1>1. CASE StartRead(r)
    BY <1>1 DEF StartRead
  <1>2. CASE LoadIndex(r)
    BY <1>2 DEF LoadIndex
  <1>3. CASE TryLock(r)
    BY <1>3 DEF TryLock
  <1>4. CASE CheckIndex(r)
    BY <1>4 DEF CheckIndex
  <1>5. CASE Release(r)
    <2>1. BufferAt(rd[r].i) \in Buffers
      BY BuffersNamed
    <2> QED BY <1>5, <2>1 DEF Release
  <1> QED BY <1>1, <1>2, <1>3, <1>4, <1>5 DEF ReaderNext

\* What a reader's step makes true of itself.
LEMMA ReaderMoves ==
  ASSUME TypeOK, Looked, NEW r \in Readers, ReaderNext(r)
  PROVE  /\ rd'[r].pc \in {"lock", "check", "read"} => rd'[r].i \in 1..currentIndex
         /\ rd'[r].pc \in {"check", "read"} => r \in shared'[BufferAt(rd'[r].i)]
         /\ rd'[r].pc = "read" => /\ rd[r].pc = "check"
                                  /\ rd'[r].i = rd[r].i
                                  /\ index[BufferAt(rd[r].i)] = rd[r].i
  <1>0. BufferAt(rd[r].i) \in Buffers
    BY BuffersNamed
  <1>1. CASE StartRead(r)
    BY <1>1 DEF StartRead, TypeOK
  <1>2. CASE LoadIndex(r)
    BY <1>2 DEF LoadIndex, TypeOK
  <1>3. CASE TryLock(r)
    BY <1>0, <1>3 DEF TryLock, TypeOK, Looked
  <1>4. CASE CheckIndex(r)
    BY <1>0, <1>4 DEF CheckIndex, TypeOK, Looked
  <1>5. CASE Release(r)
    BY <1>5 DEF Release, TypeOK
  <1> QED BY <1>1, <1>2, <1>3, <1>4, <1>5 DEF ReaderNext

LEMMA ReaderStepInv ==
  ASSUME BufferInv, NEW r \in Readers, ReaderNext(r)
  PROVE  BufferInv'
  <1> DEFINE b == BufferAt(rd[r].i)
  <1> USE DEF BufferInv
  <1>0. b \in Buffers /\ BufferAt(New) \in Buffers /\ BufferAt(Old) \in Buffers
    BY BuffersNamed
  <1>a. /\ UNCHANGED setterVars
        /\ rd' = [rd EXCEPT ![r] = rd'[r]]
        /\ rd'[r] \in [pc : ReaderSteps, i : Nat]
        /\ answer' \in [Readers -> Nat \union {Changing}]
    BY ReaderStep
  <1>b. \/ shared' = shared
        \/ shared' = [shared EXCEPT ![b] = @ \union {r}] /\ ~Exclusive(b)
        \/ shared' = [shared EXCEPT ![b] = @ \ {r}]
    BY ReaderStep
  <1> HIDE DEF b
  <1>1. TypeOK'
    BY <1>0, <1>a, <1>b DEF TypeOK, setterVars
  <1>2. Serialized' /\ Contents'
    BY <1>a DEF Serialized, Contents, setterVars, New, BufferAt
  <1>3. Prepared'
    <2>1. New' = New /\ Old' = Old
      BY <1>a DEF setterVars, New, Old
    <2> SUFFICES ASSUME NEW s \in Setters
                 PROVE  /\ st[s] = "store" => shared'[BufferAt(New)] = {}
                        /\ st[s] = "destroy" => shared'[BufferAt(Old)] = {}
      BY <1>a, <2>1 DEF Prepared, setterVars, BufferAt
    <2>2. CASE shared' = shared \/ shared' = [shared EXCEPT ![b] = @ \ {r}]
      BY <2>2, <1>0 DEF Prepared, TypeOK
    <2>3. CASE shared' = [shared EXCEPT ![b] = @ \union {r}] /\ ~Exclusive(b)
      BY <2>3, <1>0 DEF Prepared, TypeOK, Exclusive
    <2> QED BY <1>b, <2>2, <2>3
  <1>4. Looked'
    <2>1. ASSUME NEW q \in Readers, q # r, rd[q].pc \in {"check", "read"}
          PROVE  q \in shared'[BufferAt(rd[q].i)]
      <3>1. BufferAt(rd[q].i) \in Buffers
        BY BuffersNamed
      <3> QED BY <1>0, <1>b, <2>1, <3>1 DEF TypeOK, Looked
    <2>2. \A q \in Readers : q # r => rd'[q] = rd[q]
      BY <1>a DEF TypeOK
    <2>3. /\ rd'[r].pc \in {"lock", "check", "read"} => rd'[r].i \in 1..currentIndex
          /\ rd'[r].pc \in {"check", "read"} => r \in shared'[BufferAt(rd'[r].i)]
      BY ReaderMoves
    <2>4. currentIndex' = currentIndex
      BY <1>a DEF setterVars
    <2> QED BY <2>1, <2>2, <2>3, <2>4 DEF Looked, BufferAt
  <1>5. ReferenceStable'
    <2>1. \A q \in Readers : q # r => rd'[q] = rd[q]
      BY <1>a DEF TypeOK
    <2>2. rd'[r].pc = "read" => rd'[r].i = rd[r].i /\ rd[r].pc = "check" /\ index[b] = rd[r].i
      BY ReaderMoves DEF b
    <2>3. ASSUME rd[r].pc = "check", index[b] = rd[r].i PROVE value[b] = rd[r].i
      <3>1. rd[r].i \in 1..currentIndex /\ currentIndex \in Nat
        BY <2>3 DEF TypeOK, Looked
      <3>2. ASSUME NEW s \in Setters, st[s] \in {"lockNew", "store"}, b = BufferAt(New)
            PROVE  FALSE
        BY <2>3, <3>1, <3>2 DEF Prepared, New
      <3> QED BY <1>0, <2>3, <3>1, <3>2 DEF Contents, Invalid
    <2>4. value' = value
      BY <1>a DEF setterVars
    <2> QED BY <2>1, <2>2, <2>3, <2>4 DEF ReferenceStable, BufferAt, b
  <1> QED BY <1>1, <1>2, <1>3, <1>4, <1>5 DEF BufferInv

-----------------------------------------------------------------------------
\* The other setters are outside of Set, or wait for its mutex.
LEMMA Alone ==
  ASSUME BufferInv, NEW s \in Setters, st[s] \notin {"idle", "acquire"}
  PROVE  \A q \in Setters : q # s => st[q] \in {"idle", "acquire"}
  BY DEF BufferInv, Serialized

\* What the steps of a setter have in common: the readers stay where they are.
LEMMA SetterStep ==
  ASSUME TypeOK, NEW s \in Setters, SetterNext(s)
  PROVE  /\ UNCHANGED readerVars
         /\ st' = [st EXCEPT ![s] = st'[s]]
         /\ st'[s] \in SetterSteps
         /\ calls' \in 0..MaxSets
         /\ writeMutex' \in Setters \union {NoSetter}
  BY DoubleBufferAssumption DEF DoubleBufferAssumption, TypeOK, SetterSteps, SetterNext, StartSet,
     Acquire, MarkNew, LockNew, StoreNew, SwitchIndex, KeepOld, InvalidateOld, LockOld, Destroy

\* Steps that leave both buffers and the index as they are.
LEMMA QuietSetterInv ==
  ASSUME BufferInv, NEW s \in Setters, StartSet(s) \/ Acquire(s) \/ KeepOld(s)
  PROVE  BufferInv'
  <1> USE DEF BufferInv
  <1>1. /\ UNCHANGED <<currentIndex, index, value, readerVars>>
        /\ st' = [st EXCEPT ![s] = st'[s]]
        /\ st'[s] \in {"acquire", "mark", "idle"}
    BY DEF TypeOK, StartSet, Acquire, KeepOld
  <1>2. TypeOK'
    <2>1. calls' \in 0..MaxSets /\ writeMutex' \in Setters \union {NoSetter} /\ st'[s] \in SetterSteps
      BY SetterStep DEF SetterNext
    <2> QED BY <1>1, <2>1 DEF TypeOK, readerVars
  <1>3. Serialized'
    <2>1. CASE StartSet(s)
      BY <2>1 DEF StartSet, Serialized, TypeOK
    <2>2. CASE Acquire(s)
      BY <2>2, DoubleBufferAssumption DEF DoubleBufferAssumption, Acquire, Serialized, TypeOK
    <2>3. CASE KeepOld(s)
      BY <2>3, Alone DEF KeepOld, Serialized, TypeOK
    <2> QED BY <2>1, <2>2, <2>3
  <1>4. Prepared'
    BY <1>1 DEF Prepared, TypeOK, readerVars, New, Old, BufferAt
  <1>5. Contents'
    <2>1. \A q \in Setters : st[q] \in {"lockNew", "store"} => st'[q] = st[q]
      BY DEF TypeOK, StartSet, Acquire, KeepOld
    <2> QED BY <1>1, <2>1 DEF Contents, New, BufferAt
  <1>6. Looked' /\ ReferenceStable'
    BY <1>1 DEF Looked, ReferenceStable, readerVars, BufferAt
  <1> QED BY <1>2, <1>3, <1>4, <1>5, <1>6

LEMMA MarkNewInv ==
  ASSUME BufferInv, NEW s \in Setters, MarkNew(s)
  PROVE  BufferInv'
  <1> USE DEF BufferInv, MarkNew
  <1>1. BufferAt(New) \in Buffers /\ New \in Nat \ {0} /\ New' = New /\ Old' = Old
    BY BuffersNamed DEF New, Old
  <1>2. st' = [st EXCEPT ![s] = "lockNew"] /\ \A q \in Setters : q # s => st'[q] \in {"idle", "acquire"}
    BY Alone DEF TypeOK
  <1>3. TypeOK'
    BY <1>1 DEF TypeOK, readerVars, SetterSteps
  <1>4. Serialized'
    BY DEF Serialized, TypeOK
  <1>5. Prepared'
    BY <1>1, <1>2 DEF Prepared, TypeOK, BufferAt
  <1>6. Contents'
    BY <1>1, <1>2 DEF Contents, TypeOK, BufferAt
  <1>7. Looked' /\ ReferenceStable'
    BY DEF Looked, ReferenceStable, readerVars, BufferAt
  <1> QED BY <1>3, <1>4, <1>5, <1>6, <1>7

LEMMA LockNewInv ==
  ASSUME BufferInv, NEW s \in Setters, LockNew(s)
  PROVE  BufferInv'
  <1> USE DEF BufferInv, LockNew
  <1>1. BufferAt(New) \in Buffers \ {BufferAt(currentIndex)} /\ New' = New /\ Old' = Old
    BY BuffersNamed DEF New, Old
  <1>2. st' = [st EXCEPT ![s] = "store"] /\ \A q \in Setters : q # s => st'[q] \in {"idle", "acquire"}
    BY Alone DEF TypeOK
  <1>3. TypeOK'
    BY <1>1 DEF TypeOK, readerVars, SetterSteps
  <1>4. Serialized'
    BY DEF Serialized, TypeOK
  <1>5. Prepared'
    BY <1>1, <1>2 DEF Prepared, TypeOK, BufferAt, readerVars
  <1>6. Contents'
    BY <1>1, <1>2 DEF Contents, TypeOK, BufferAt
  <1>7. Looked'
    BY DEF Looked, readerVars, BufferAt
  <1>8. ReferenceStable'
    BY <1>1, BuffersNamed DEF ReferenceStable, Looked, TypeOK, readerVars, BufferAt
  <1> QED BY <1>3, <1>4, <1>5, <1>6, <1>7, <1>8

LEMMA StoreNewInv ==
  ASSUME BufferInv, NEW s \in Setters, StoreNew(s)
  PROVE  BufferInv'
  <1> USE DEF BufferInv, StoreNew
  <1>1. /\ BufferAt(New) \in Buffers \ {BufferAt(currentIndex)}
        /\ New' = New /\ Old' = Old /\ New \in Nat \ {0}
    BY BuffersNamed DEF New, Old
  <1>2. st' = [st EXCEPT ![s] = "switch"] /\ \A q \in Setters : q # s => st'[q] \in {"idle", "acquire"}
    BY Alone DEF TypeOK
  <1>3. TypeOK'
    BY <1>1 DEF TypeOK, readerVars, SetterSteps
  <1>4. Serialized'
    BY DEF Serialized, TypeOK
  <1>5. Prepared'
    BY <1>1, <1>2 DEF Prepared, TypeOK, BufferAt, readerVars
  <1>6. Contents'
    BY <1>1, <1>2 DEF Contents, Prepared, TypeOK, BufferAt
  <1>7. Looked'
    BY DEF Looked, readerVars, BufferAt
  <1>8. ReferenceStable'
    BY <1>1, BuffersNamed DEF ReferenceStable, Looked, Prepared, TypeOK, readerVars, BufferAt
  <1> QED BY <1>3, <1>4, <1>5, <1>6, <1>7, <1>8

LEMMA SwitchIndexInv ==
  ASSUME BufferInv, NEW s \in Setters, SwitchIndex(s)
  PROVE  BufferInv'
  <1> USE DEF BufferInv, SwitchIndex
  <1>1. /\ BufferAt(New) \in Buffers /\ New \in Nat \ {0} /\ New = currentIndex + 1
        /\ currentIndex' = New /\ currentIndex \in Nat
    BY BuffersNamed DEF New
  <1>2. st' = [st EXCEPT ![s] = "invalidate"] /\ \A q \in Setters : q # s => st'[q] \in {"idle", "acquire"}
    BY Alone DEF TypeOK
  <1>3. TypeOK'
    BY <1>1 DEF TypeOK, readerVars, SetterSteps
  <1>4. Serialized'
    BY DEF Serialized, TypeOK
  <1>5. Prepared'
    BY <1>2 DEF Prepared, TypeOK
  <1>6. Contents'
    <2>1. ASSUME NEW b \in Buffers PROVE index[b] = Invalid \/ value[b] = index[b]
      BY <1>2 DEF Contents, TypeOK
    <2>2. value[BufferAt(New)] = New
      BY DEF Prepared
    <2> QED BY <1>1, <2>1, <2>2 DEF Contents, BufferAt
  <1>7. Looked'
    BY <1>1 DEF Looked, readerVars, BufferAt, TypeOK
  <1>8. ReferenceStable'
    BY DEF ReferenceStable, readerVars, BufferAt
  <1> QED BY <1>3, <1>4, <1>5, <1>6, <1>7, <1>8

LEMMA InvalidateOldInv ==
  ASSUME BufferInv, NEW s \in Setters, InvalidateOld(s)
  PROVE  BufferInv'
  <1> USE DEF BufferInv, InvalidateOld
  <1>1. BufferAt(Old) \in Buffers /\ New' = New /\ Old' = Old
    BY BuffersNamed DEF New, Old
  <1>2. st' = [st EXCEPT ![s] = "lockOld"] /\ \A q \in Setters : q # s => st'[q] \in {"idle", "acquire"}
    BY Alone DEF TypeOK
  <1>3. TypeOK'
    BY <1>1 DEF TypeOK, readerVars, SetterSteps
  <1>4. Serialized'
    BY DEF Serialized, TypeOK
  <1>5. Prepared'
    BY <1>1, <1>2 DEF Prepared, TypeOK, BufferAt
  <1>6. Contents'
    <2>1. \A q \in Setters : st[q] \notin {"lockNew", "store"}
      BY Alone
    <2> QED BY <1>1, <2>1 DEF Contents, TypeOK, BufferAt
  <1>7. Looked' /\ ReferenceStable'
    BY DEF Looked, ReferenceStable, readerVars, BufferAt
  <1> QED BY <1>3, <1>4, <1>5, <1>6, <1>7

LEMMA LockOldInv ==
  ASSUME BufferInv, NEW s \in Setters, LockOld(s)
  PROVE  BufferInv'
  <1> USE DEF BufferInv, LockOld
  <1>1. BufferAt(Old) \in Buffers \ {BufferAt(currentIndex)} /\ New' = New /\ Old' = Old
    BY BuffersNamed DEF New, Old
  <1>2. st' = [st EXCEPT ![s] = "destroy"] /\ \A q \in Setters : q # s => st'[q] \in {"idle", "acquire"}
    BY Alone DEF TypeOK
  <1>3. TypeOK'
    BY <1>1 DEF TypeOK, readerVars, SetterSteps
  <1>4. Serialized'
    BY DEF Serialized, TypeOK
  <1>5. Prepared'
    BY <1>1, <1>2 DEF Prepared, TypeOK, BufferAt, readerVars
  <1>6. Contents'
    <2>1. \A q \in Setters : st[q] \notin {"lockNew", "store"}
      BY Alone
    <2> QED BY <1>1, <2>1 DEF Contents, Prepared, TypeOK, BufferAt
  <1>7. Looked'
    BY DEF Looked, readerVars, BufferAt
  <1>8. ReferenceStable'
    BY <1>1, BuffersNamed DEF ReferenceStable, Looked, TypeOK, readerVars, BufferAt
  <1> QED BY <1>3, <1>4, <1>5, <1>6, <1>7, <1>8

LEMMA DestroyInv ==
  ASSUME BufferInv, NEW s \in Setters, Destroy(s)
  PROVE  BufferInv'
  <1> USE DEF BufferInv, Destroy
  <1>1. BufferAt(Old) \in Buffers \ {BufferAt(currentIndex)} /\ New' = New /\ Old' = Old
    BY BuffersNamed DEF New, Old
  <1>2. st' = [st EXCEPT ![s] = "idle"] /\ \A q \in Setters : st'[q] \in {"idle", "acquire"}
    BY Alone DEF TypeOK
  <1>3. TypeOK'
    BY <1>1 DEF TypeOK, readerVars, SetterSteps, Empty
  <1>4. Serialized' /\ Prepared'
    BY <1>2 DEF Serialized, Prepared
  <1>5. Contents'
    <2>1. \A q \in Setters : st[q] \notin {"lockNew", "store"}
      BY Alone
    <2> QED BY <1>1, <2>1 DEF Contents, Prepared, TypeOK, BufferAt
  <1>6. Looked'
    BY DEF Looked, readerVars, BufferAt
  <1>7. ReferenceStable'
    BY <1>1, BuffersNamed DEF ReferenceStable, Looked, Prepared, TypeOK, readerVars, BufferAt
  <1> QED BY <1>3, <1>4, <1>5, <1>6, <1>7

-----------------------------------------------------------------------------
\* Every step preserves the invariant.
LEMMA StepInv == BufferInv /\ [Next]_vars => BufferInv'
  <1> SUFFICES ASSUME BufferInv, [Next]_vars PROVE BufferInv'
    OBVIOUS
  <1>1. ASSUME NEW r \in Readers, ReaderNext(r) PROVE BufferInv'
    BY <1>1, ReaderStepInv
  <1>2. ASSUME NEW s \in Setters, SetterNext(s) PROVE BufferInv'
    BY <1>2, QuietSetterInv, MarkNewInv, LockNewInv, StoreNewInv, SwitchIndexInv, InvalidateOldInv,
       LockOldInv, DestroyInv DEF SetterNext
  <1>3. CASE UNCHANGED vars
    BY <1>3 DEF vars, BufferInv, TypeOK, Serialized, Prepared, Contents, Looked, ReferenceStable,
       New, Old, BufferAt
  <1> QED BY <1>1, <1>2, <1>3 DEF Next

\* The inductive invariant holds in every reachable state.
LEMMA Invariant == Spec => []BufferInv
  BY InitInv, StepInv, PTL DEF Spec

\* Every variable keeps its type, whatever the number of readers, setters and sets.
THEOREM TypeCorrect == Spec => []TypeOK
  <1>1. BufferInv => TypeOK
    BY DEF BufferInv
  <1> QED BY <1>1, Invariant, PTL

\* What a ReadLock promises (DoubleBuffer.hpp:102): while it is held, the buffer holds
\* the value the reader looked up, however many sets overtake it.
THEOREM ReadersSafe == Spec => []ReferenceStable
  <1>1. BufferInv => ReferenceStable
    BY DEF BufferInv
  <1> QED BY <1>1, Invariant, PTL

-----------------------------------------------------------------------------
\* When a Set returns that waits for readers, the value it replaced is out of use.
LEMMA ReturnAfterReaders ==
  ASSUME BufferInv, [Next]_vars, NEW s \in Setters, st[s] # "idle", st'[s] = "idle", ~trivial,
         NEW r \in Readers, rd'[r].pc = "read"
  PROVE  rd'[r].i >= currentIndex'
  <1> USE DEF BufferInv
  <1>1. Destroy(s)
    <2>1. ASSUME NEW q \in Readers, ReaderNext(q) PROVE st' = st
      BY <2>1, ReaderStep DEF setterVars
    <2>2. ASSUME NEW q \in Setters, SetterNext(q) PROVE q = s
      BY <2>2, SetterStep DEF TypeOK
    <2>3. SetterNext(s)
      BY <2>1, <2>2 DEF Next, vars
    <2> QED BY <2>3 DEF SetterNext, StartSet, Acquire, MarkNew, LockNew, StoreNew, SwitchIndex,
            KeepOld, InvalidateOld, LockOld, TypeOK
  <1>2. rd' = rd /\ currentIndex' = currentIndex /\ shared[BufferAt(Old)] = {}
    BY <1>1 DEF Destroy, readerVars, Prepared
  <1>3. /\ BufferAt(rd[r].i) \in Buffers /\ BufferAt(currentIndex) \in Buffers
        /\ BufferAt(Old) \in Buffers \ {BufferAt(currentIndex)}
    BY BuffersNamed
  <1>4. BufferAt(rd[r].i) # BufferAt(Old)
    BY <1>2 DEF Looked
  <1>5. BufferAt(rd[r].i) = BufferAt(currentIndex)
    BY <1>3, <1>4 DEF Buffers
  <1>6. rd[r].i = currentIndex
    BY <1>2, <1>5 DEF ReferenceStable, Contents
  <1> QED BY <1>2, <1>6 DEF TypeOK

\* A Set with a destructor to run returns only when nobody uses an older value: what
\* the dispatcher builds its destruction of objects on.
THEOREM ReplacedValuesUnused == Spec => OldReadersGone
  <1>1. BufferInv /\ [Next]_vars =>
          [\A s \in Setters : st[s] # "idle" /\ st'[s] = "idle" /\ ~trivial =>
              \A r \in Readers : rd'[r].pc = "read" => rd'[r].i >= currentIndex']_vars
    BY ReturnAfterReaders
  <1> QED BY <1>1, Invariant, PTL DEF Spec, OldReadersGone

-----------------------------------------------------------------------------
\* Both start with the first value, and nobody inside.
LEMMA RefineInit == Init => Register!Init
  <1> SUFFICES ASSUME Init PROVE Register!Init
    OBVIOUS
  <1>1. \A s \in Setters : Phase(s) = "idle"
    BY DEF Init, Phase
  <1>2. \A r \in Readers : rd[r].pc = "idle" /\ rd[r].i = 0
    BY DEF Init
  <1> QED BY <1>1, <1>2 DEF Init, Register!Init

\* A reader's step is a call, a look, a return, or none of them.
LEMMA RefineReader ==
  ASSUME BufferInv, NEW r \in Readers, ReaderNext(r)
  PROVE  [Register!Next]_(Register!vars)
  <1> DEFINE getting == [q \in Readers |-> rd[q].pc # "idle"]
             sample == [q \in Readers |-> rd[q].i]
             writing == [q \in Setters |-> Phase(q)]
  <1> USE DEF BufferInv
  <1>1. currentIndex' = currentIndex /\ writing' = writing
    BY ReaderStep DEF setterVars, Phase
  <1>2. CASE StartRead(r)
    <2>1. Register!CallGet(r)
      BY <1>1, <1>2 DEF StartRead, Register!CallGet, TypeOK, Phase
    <2> QED BY <2>1 DEF Register!Next
  <1>3. CASE LoadIndex(r)
    <2>1. Register!Look(r)
      BY <1>1, <1>3 DEF LoadIndex, Register!Look, TypeOK, Phase
    <2> QED BY <2>1 DEF Register!Next
  <1>4. CASE TryLock(r) \/ CheckIndex(r)
    <2>1. getting' = getting /\ sample' = sample /\ answer' = answer
      BY <1>4 DEF TryLock, CheckIndex, TypeOK
    <2> QED BY <1>1, <2>1 DEF Register!vars, Phase
  <1>5. CASE Release(r)
    <2>1. value[BufferAt(rd[r].i)] = rd[r].i /\ rd[r].i # 0
      BY <1>5 DEF Release, ReferenceStable, Looked, TypeOK
    <2>2. rd' = [rd EXCEPT ![r].pc = "idle"] /\ answer' = [answer EXCEPT ![r] = rd[r].i]
      BY <1>5, <2>1 DEF Release
    <2>3. rd[r].pc = "read" /\ rd \in [Readers -> [pc : ReaderSteps, i : Nat]]
      BY <1>5 DEF Release, TypeOK
    <2>4. getting' = [getting EXCEPT ![r] = FALSE] /\ sample' = sample
      BY <2>2, <2>3
    <2>5. Register!ReturnFromGet(r)
      BY <1>1, <2>1, <2>2, <2>3, <2>4 DEF Register!ReturnFromGet, Phase
    <2> QED BY <2>5 DEF Register!Next
  <1> QED BY <1>2, <1>3, <1>4, <1>5 DEF ReaderNext

\* A setter's step is a call, the moment it takes effect, a return, or none of them.
LEMMA RefineSetter ==
  ASSUME BufferInv, NEW s \in Setters, SetterNext(s)
  PROVE  [Register!Next]_(Register!vars)
  <1> DEFINE getting == [q \in Readers |-> rd[q].pc # "idle"]
             sample == [q \in Readers |-> rd[q].i]
             writing == [q \in Setters |-> Phase(q)]
  <1> USE DEF BufferInv
  <1>1. getting' = getting /\ sample' = sample /\ answer' = answer
    BY SetterStep DEF readerVars
  <1>2. st' = [st EXCEPT ![s] = st'[s]] /\ st \in [Setters -> SetterSteps]
    BY SetterStep DEF TypeOK
  <1>3. writing' = [writing EXCEPT ![s] = Phase(s)']
    BY <1>2 DEF Phase
  <1>4. CASE StartSet(s)
    <2>1. Register!CallSet(s)
      BY <1>1, <1>2, <1>3, <1>4 DEF StartSet, Register!CallSet, Phase
    <2> QED BY <2>1 DEF Register!Next
  <1>5. CASE SwitchIndex(s)
    <2>1. Register!TakeEffect(s)
      BY <1>1, <1>2, <1>3, <1>5 DEF SwitchIndex, Register!TakeEffect, Phase, New
    <2> QED BY <2>1 DEF Register!Next
  <1>6. CASE KeepOld(s) \/ Destroy(s)
    <2>1. Register!ReturnFromSet(s)
      BY <1>1, <1>2, <1>3, <1>6 DEF KeepOld, Destroy, Register!ReturnFromSet, Phase
    <2> QED BY <2>1 DEF Register!Next
  <1>7. CASE Acquire(s) \/ MarkNew(s) \/ LockNew(s) \/ StoreNew(s) \/ InvalidateOld(s) \/ LockOld(s)
    <2>1. Phase(s)' = Phase(s) /\ currentIndex' = currentIndex
      BY <1>2, <1>7 DEF Acquire, MarkNew, LockNew, StoreNew, InvalidateOld, LockOld, Phase
    <2>2. writing' = writing
      BY <1>3, <2>1
    <2> QED BY <1>1, <2>1, <2>2 DEF Register!vars, Phase
  <1> QED BY <1>4, <1>5, <1>6, <1>7 DEF SetterNext

\* A double buffer is a linearizable register, for any number of threads: a Set takes
\* effect at the switch of the index, a Get at its last load of it.
THEOREM LinearizableRegister == Spec => ImplementsRegister
  <1>1. BufferInv /\ [Next]_vars => [Register!Next]_(Register!vars)
    <2> SUFFICES ASSUME BufferInv, [Next]_vars PROVE [Register!Next]_(Register!vars)
      OBVIOUS
    <2>1. CASE UNCHANGED vars
      BY <2>1 DEF vars, Register!vars, Phase
    <2> QED BY <2>1, RefineReader, RefineSetter DEF Next
  <1> QED BY <1>1, RefineInit, Invariant, PTL DEF Spec, ImplementsRegister, Register!Spec

===============================================================================
