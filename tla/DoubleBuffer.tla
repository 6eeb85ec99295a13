----------------------------- MODULE DoubleBuffer -----------------------------
(***************************************************************************)
(* libASPL's DoubleBuffer: a value that any thread, the real-time IO       *)
(* thread included, reads without blocking while others replace it.  There *)
(* are two buffers; the current one has the parity of currentIndex.        *)
(*                                                                         *)
(* The i-th value ever set is represented by i.  One action is one access  *)
(* to shared memory or one lock operation.  The constructor has stored the *)
(* first value.  The index is a 63-bit counter that wraps to 0; the model  *)
(* stays below that with MaxSets: a reader would have to sleep for 2^63    *)
(* sets between two loads to meet the wrap.                                *)
(***************************************************************************)
EXTENDS Integers, FiniteSets

CONSTANTS Readers,  \* threads that call Get or GetReadLock
          Setters,  \* threads that call Set
          MaxSets,  \* bound: how many calls of Set
          NoSetter  \* owner of a free mutex

ASSUME DoubleBufferAssumption ==
  /\ NoSetter \notin Setters
  /\ MaxSets \in Nat

VARIABLES currentIndex,  \* number of the current value
          index,         \* per buffer: which value it is for, Invalid for none
          value,         \* per buffer: the value, or Empty, or Changing
          shared,        \* per buffer: the readers that hold its mutex
          writeMutex,    \* the setter that holds it, or NoSetter
          st,            \* per setter: what it does next
          rd,            \* per reader: what it does next and the index it has loaded
          answer,        \* per reader: what its latest read delivered
          trivial,       \* whether the value's type is trivial: no destructor to run (fixed)
          calls          \* counts the calls of Set, for the bound

vars == <<currentIndex, index, value, shared, writeMutex, st, rd, answer, trivial, calls>>
readerVars == <<shared, rd, answer, trivial>>
setterVars == <<currentIndex, index, value, writeMutex, st, trivial, calls>>

Buffers == {0, 1}
Invalid == -1
Empty == 0       \* no value: never set, or destroyed
Changing == -1   \* in the middle of a constructor, assignment or destructor

\* GetBufferAt
BufferAt(i) == i % 2

New == currentIndex + 1  \* as computed by the setter before it switches
Old == currentIndex - 1  \* as seen by the setter after it has switched

\* The setter that waits for, or has, the exclusive lock of buffer b.
WaitingFor(b) ==
  \E s \in Setters : \/ st[s] = "lockNew" /\ b = BufferAt(New)
                     \/ st[s] = "lockOld" /\ b = BufferAt(Old)
Exclusive(b) ==
  \E s \in Setters : \/ st[s] = "store" /\ b = BufferAt(New)
                     \/ st[s] = "destroy" /\ b = BufferAt(Old)

-----------------------------------------------------------------------------
\* The constructor: Set on two empty buffers.
Init ==
  /\ currentIndex = 1
  /\ index = [b \in Buffers |-> IF b = 1 THEN 1 ELSE Invalid]
  /\ value = [b \in Buffers |-> IF b = 1 THEN 1 ELSE Empty]
  /\ shared = [b \in Buffers |-> {}]
  /\ writeMutex = NoSetter
  /\ st = [s \in Setters |-> "idle"]
  /\ rd = [r \in Readers |-> [pc |-> "idle", i |-> 0]]
  /\ answer = [r \in Readers |-> 0]
  /\ trivial \in BOOLEAN
  /\ calls = 0

-----------------------------------------------------------------------------
\* Readers

\* Get or GetReadLock is called.
StartRead(r) ==
  /\ rd[r].pc = "idle"
  /\ rd' = [rd EXCEPT ![r] = [pc |-> "load", i |-> 0]]
  /\ UNCHANGED <<shared, answer, setterVars>>

LoadIndex(r) ==
  /\ rd[r].pc = "load"
  /\ rd' = [rd EXCEPT ![r] = [pc |-> "lock", i |-> currentIndex]]
  /\ UNCHANGED <<shared, answer, setterVars>>

\* try_lock_shared fails under an exclusive lock; it may also fail when a
\* setter waits for that lock (libc++ then admits no new reader).
TryLock(r) ==
  LET b == BufferAt(rd[r].i)
  IN  /\ rd[r].pc = "lock"
      /\ \/ /\ ~Exclusive(b)
            /\ shared' = [shared EXCEPT ![b] = @ \union {r}]
            /\ rd' = [rd EXCEPT ![r].pc = "check"]
         \/ /\ Exclusive(b) \/ WaitingFor(b)
            /\ rd' = [rd EXCEPT ![r].pc = "load"]
            /\ UNCHANGED shared
      /\ UNCHANGED <<answer, setterVars>>

\* Mutant: the index is not looked at again.
CheckIndexNever(r) ==
  /\ rd[r].pc = "check"
  /\ rd' = [rd EXCEPT ![r].pc = "read"]
  /\ UNCHANGED <<shared, answer, setterVars>>

\* Mutant: the lock is kept when the index has changed.
CheckIndexKeepsLock(r) ==
  /\ rd[r].pc = "check"
  /\ rd' = [rd EXCEPT ![r].pc = IF index[BufferAt(rd[r].i)] = rd[r].i THEN "read" ELSE "load"]
  /\ UNCHANGED <<shared, answer, setterVars>>

CheckIndex(r) ==
  LET b == BufferAt(rd[r].i)
  IN  /\ rd[r].pc = "check"
      /\ \/ /\ index[b] = rd[r].i
            /\ rd' = [rd EXCEPT ![r].pc = "read"]
            /\ UNCHANGED shared
         \/ /\ index[b] # rd[r].i
            /\ shared' = [shared EXCEPT ![b] = @ \ {r}]
            /\ rd' = [rd EXCEPT ![r].pc = "load"]
      /\ UNCHANGED <<answer, setterVars>>

\* ~ReadLock.  The reader has used the reference up to now; Get has copied
\* the value.
Release(r) ==
  LET b == BufferAt(rd[r].i)
  IN  /\ rd[r].pc = "read"
      /\ answer' = [answer EXCEPT ![r] = value[b]]
      /\ shared' = [shared EXCEPT ![b] = @ \ {r}]
      /\ rd' = [rd EXCEPT ![r].pc = "idle"]
      /\ UNCHANGED setterVars

-----------------------------------------------------------------------------
\* Setters

\* Set is called.
StartSet(s) ==
  /\ st[s] = "idle"
  /\ calls < MaxSets
  /\ calls' = calls + 1
  /\ st' = [st EXCEPT ![s] = "acquire"]
  /\ UNCHANGED <<currentIndex, index, value, writeMutex, readerVars>>

Acquire(s) ==
  /\ st[s] = "acquire"
  /\ writeMutex = NoSetter
  /\ writeMutex' = s
  /\ st' = [st EXCEPT ![s] = "mark"]
  /\ UNCHANGED <<currentIndex, index, value, calls, readerVars>>

MarkNew(s) ==
  /\ st[s] = "mark"
  /\ index' = [index EXCEPT ![BufferAt(New)] = New]
  /\ st' = [st EXCEPT ![s] = "lockNew"]
  /\ UNCHANGED <<currentIndex, value, writeMutex, calls, readerVars>>

\* Mutant: the setter does not wait for the readers of the other buffer.
LockNewAtOnce(s) ==
  /\ st[s] = "lockNew"
  /\ value' = [value EXCEPT ![BufferAt(New)] = Changing]
  /\ st' = [st EXCEPT ![s] = "store"]
  /\ UNCHANGED <<currentIndex, index, writeMutex, calls, readerVars>>

\* The exclusive lock of the other buffer is taken and the value goes in.
LockNew(s) ==
  /\ st[s] = "lockNew"
  /\ shared[BufferAt(New)] = {}
  /\ value' = [value EXCEPT ![BufferAt(New)] = Changing]
  /\ st' = [st EXCEPT ![s] = "store"]
  /\ UNCHANGED <<currentIndex, index, writeMutex, calls, readerVars>>

StoreNew(s) ==
  /\ st[s] = "store"
  /\ value' = [value EXCEPT ![BufferAt(New)] = New]
  /\ st' = [st EXCEPT ![s] = "switch"]
  /\ UNCHANGED <<currentIndex, index, writeMutex, calls, readerVars>>

\* Mutant: the setter returns without waiting for readers of the old value.
SwitchIndexReturns(s) ==
  /\ st[s] = "switch"
  /\ currentIndex' = New
  /\ writeMutex' = NoSetter
  /\ st' = [st EXCEPT ![s] = "idle"]
  /\ UNCHANGED <<index, value, calls, readerVars>>

\* The new value becomes current.
SwitchIndex(s) ==
  /\ st[s] = "switch"
  /\ currentIndex' = New
  /\ st' = [st EXCEPT ![s] = "invalidate"]
  /\ UNCHANGED <<index, value, writeMutex, calls, readerVars>>

\* A trivial value is never destroyed: the setter returns.
KeepOld(s) ==
  /\ st[s] = "invalidate"
  /\ trivial
  /\ writeMutex' = NoSetter
  /\ st' = [st EXCEPT ![s] = "idle"]
  /\ UNCHANGED <<currentIndex, index, value, calls, readerVars>>

InvalidateOld(s) ==
  /\ st[s] = "invalidate"
  /\ ~trivial
  /\ index' = [index EXCEPT ![BufferAt(Old)] = Invalid]
  /\ st' = [st EXCEPT ![s] = "lockOld"]
  /\ UNCHANGED <<currentIndex, value, writeMutex, calls, readerVars>>

LockOld(s) ==
  /\ st[s] = "lockOld"
  /\ shared[BufferAt(Old)] = {}
  /\ value' = [value EXCEPT ![BufferAt(Old)] = Changing]
  /\ st' = [st EXCEPT ![s] = "destroy"]
  /\ UNCHANGED <<currentIndex, index, writeMutex, calls, readerVars>>

Destroy(s) ==
  /\ st[s] = "destroy"
  /\ value' = [value EXCEPT ![BufferAt(Old)] = Empty]
  /\ writeMutex' = NoSetter
  /\ st' = [st EXCEPT ![s] = "idle"]
  /\ UNCHANGED <<currentIndex, index, calls, readerVars>>

-----------------------------------------------------------------------------
ReaderNext(r) == StartRead(r) \/ LoadIndex(r) \/ TryLock(r) \/ CheckIndex(r) \/ Release(r)

SetterNext(s) ==
  \/ StartSet(s) \/ Acquire(s) \/ MarkNew(s) \/ LockNew(s) \/ StoreNew(s)
  \/ SwitchIndex(s) \/ KeepOld(s) \/ InvalidateOld(s) \/ LockOld(s) \/ Destroy(s)

Next == (\E r \in Readers : ReaderNext(r)) \/ (\E s \in Setters : SetterNext(s))

\* A reader that has called keeps running and lets go of its lock.  Setters
\* may be suspended anywhere, for ever.
Fairness == \A r \in Readers : WF_vars(rd[r].pc # "idle" /\ ReaderNext(r))

Spec == Init /\ [][Next]_vars /\ Fairness

-----------------------------------------------------------------------------
ReaderSteps == {"idle", "load", "lock", "check", "read"}
SetterSteps == {"idle", "acquire", "mark", "lockNew", "store", "switch",
                "invalidate", "lockOld", "destroy"}

\* Every variable keeps its type.
TypeOK ==
  /\ currentIndex \in Nat \ {0}
  /\ index \in [Buffers -> Nat \union {Invalid}]
  /\ value \in [Buffers -> Nat \union {Changing}]
  /\ shared \in [Buffers -> SUBSET Readers]
  /\ writeMutex \in Setters \union {NoSetter}
  /\ st \in [Setters -> SetterSteps]
  /\ rd \in [Readers -> [pc : ReaderSteps, i : Nat]]
  /\ answer \in [Readers -> Nat \union {Changing}]
  /\ trivial \in BOOLEAN
  /\ calls \in 0..MaxSets

\* "While the lock is alive, it's safe to access the data for reading"
\* (DoubleBuffer.hpp:102): as long as a reader holds its lock, the buffer it
\* refers to holds the very value the reader looked up, never another one,
\* a half-written or a destroyed one, although sets come and go meanwhile.
ReferenceStable ==
  \A r \in Readers : rd[r].pc = "read" => value[BufferAt(rd[r].i)] = rd[r].i

\* When Set returns, nobody uses the value it has replaced, nor an older
\* one, any more (for a type with a destructor).  The dispatcher relies on
\* this to destroy an object after taking it out of its table.
OldReadersGone ==
  [][\A s \in Setters : st[s] # "idle" /\ st'[s] = "idle" /\ ~trivial =>
        \A r \in Readers : rd'[r].pc = "read" => rd'[r].i >= currentIndex']_vars

\* A reader ends even if a setter is suspended half way through: readers do
\* not wait for setters.  (Only finitely many sets disturb it: MaxSets.)
ReaderFinishes == \A r \in Readers : rd[r].pc = "load" ~> rd[r].pc = "idle"

\* Setters that are scheduled finish: they wait only for each other and for
\* readers that hold a lock, never for each other in a circle.
SettersScheduled ==
  \A s \in Setters : WF_vars(st[s] # "idle" /\ SetterNext(s))
SetterFinishes == SettersScheduled => \A s \in Setters : st[s] = "acquire" ~> st[s] = "idle"

\* Nobody waits for ever.
AccessesFinish == ReaderFinishes /\ SetterFinishes

\* What a caller of Set knows of it: where its call stands.
Phase(s) ==
  CASE st[s] = "idle" -> "idle"
    [] st[s] \in {"invalidate", "lockOld", "destroy"} -> "done"
    [] OTHER -> "pending"

\* A double buffer is a linearizable register: a Set takes effect when it
\* switches the index, a Get when it last loads it.
Register ==
  INSTANCE AtomicRegister WITH
    cell <- currentIndex,
    writing <- [s \in Setters |-> Phase(s)],
    getting <- [r \in Readers |-> rd[r].pc # "idle"],
    sample <- [r \in Readers |-> rd[r].i],
    answer <- answer
ImplementsRegister == Register!Spec
===============================================================================
