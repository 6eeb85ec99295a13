------------------------------ MODULE Dispatcher ------------------------------
(***************************************************************************)
(* libASPL's Dispatcher: the table from object identifiers to objects, its *)
(* allocator of identifiers, and the life of the objects that register in  *)
(* their constructor and unregister in their destructor.                   *)
(*                                                                         *)
(* Lookups come from the HAL's threads, the real-time one included, and    *)
(* take no blocking lock.  The table is a DoubleBuffer: a lookup holds the *)
(* version it has read, and Set returns when nobody holds an older one     *)
(* (DoubleBuffer!OldReadersGone).  A set of strong references stands for   *)
(* an object's reference count; an object whose set is empty has its       *)
(* destructor run, by whichever thread let go of it last.                  *)
(*                                                                         *)
(* The weak pointer that shared_from_this reads is written by make_shared  *)
(* without a lock; a lookup at that moment sees either state of it.        *)
(***************************************************************************)
EXTENDS Integers, FiniteSets

CONSTANTS Finders,        \* threads that look objects up
          Objects,        \* addresses of objects
          Plugins,        \* those of them that ask for kAudioObjectPlugInObject
          NoObject,
          IDs,            \* identifiers the HAL may ask for
          BitsPerChunk,   \* of the allocator's bit set
          HintMaximums,   \* values of hintMaximumID
          Word,           \* values of a size_t
          MaxBirths       \* bound: objects ever constructed

Owner == "owner"   \* the holder of the reference that make_shared returns

ASSUME DispatcherAssumption ==
  /\ Owner \notin Finders
  /\ Plugins \subseteq Objects
  /\ NoObject \notin Objects
  /\ IDs \subseteq Nat
  /\ BitsPerChunk \in Nat \ {0}
  /\ HintMaximums \subseteq Nat
  /\ Word \in Nat \ {0}
  /\ MaxBirths \in Nat

VARIABLES table,      \* registeredObjects_: the current version, a set of <<id, object>>
          snap,       \* per finder: the version it holds
          draining,   \* finders that hold an older version than the current one
          find,       \* per finder: its call
          life,       \* per object: where it is between construction and destruction
          id,         \* per object: objectID_
          usable,     \* per object: whether its registration points to it
          refs,       \* per object: who holds a strong reference
          mutex,      \* registrationMutex_: the object that is (un)registering
          bits,       \* allocatedBits_: the identifiers taken
          chunks,     \* allocatedBits_.size()
          numAllocated, lastAllocated, desiredMaximum,
          used,       \* history: every identifier handed out so far
          hint,       \* history: the hintMaximumID that it was constructed with
          births      \* counts constructions, for the bound

allocVars == <<bits, chunks, numAllocated, lastAllocated, desiredMaximum, used, hint>>
findVars == <<snap, find>>
vars == <<table, draining, findVars, life, id, usable, refs, mutex, allocVars, births>>

Unknown == 0       \* kAudioObjectUnknown
PlugInObject == 1  \* kAudioObjectPlugInObject
Reserved == {Unknown, PlugInObject}

Least(S) == CHOOSE x \in S : \A y \in S : x <= y

-----------------------------------------------------------------------------
\* The allocator of identifiers

IsFree(i) == i \notin Reserved /\ i \notin bits

\* The order in which the bit set is searched from start: its chunk from
\* there on, the other chunks in a circle, the first chunk once more.
SearchRank(start, i) ==
  LET around == (i \div BitsPerChunk - start \div BitsPerChunk) % chunks
      hops == IF around = 0 /\ i < start THEN chunks ELSE around
  IN  hops * BitsPerChunk + (i % BitsPerChunk)

\* The first free identifier in the bit set, or else the first behind it.
FindFreeID(start) ==
  LET inside == {i \in 0..chunks * BitsPerChunk - 1 : IsFree(i)}
      behind == chunks * BitsPerChunk..chunks * BitsPerChunk + 2
  IN  IF inside # {}
      THEN CHOOSE i \in inside : \A j \in inside : SearchRank(start, i) <= SearchRank(start, j)
      ELSE Least(behind \ Reserved)

\* desiredMaximumID_ doubles when more than half of the identifiers are taken.
\* Identifiers are natural numbers here, so that the doubling never stops, as it
\* does in the code at half of the range of a UInt32.
GrownMaximum ==
  IF lastAllocated + 1 >= desiredMaximum /\ numAllocated > desiredMaximum \div 2
  THEN 2 * desiredMaximum ELSE desiredMaximum

\* Mutant: always the lowest free identifier.
NextIDLowest == FindFreeID(0)

NextID ==
  LET next == lastAllocated + 1
  IN  IF next >= GrownMaximum THEN FindFreeID(0)
      ELSE IF ~IsFree(next) THEN FindFreeID(next + 1) ELSE next

\* SetFree(i, ...) makes room for the bit.
ChunksFor(i) == IF chunks <= i \div BitsPerChunk THEN i \div BitsPerChunk + 1 ELSE chunks

AllocateID(i) ==
  /\ i = NextID
  /\ bits' = bits \union {i}
  /\ chunks' = ChunksFor(i)
  /\ numAllocated' = (numAllocated + 1) % Word
  /\ lastAllocated' = i
  /\ desiredMaximum' = GrownMaximum
  /\ used' = used \union {i}
  /\ UNCHANGED hint

FreeID(i) ==
  /\ bits' = bits \ {i}
  /\ chunks' = ChunksFor(i)
  /\ numAllocated' = (numAllocated - 1) % Word
  /\ UNCHANGED <<lastAllocated, desiredMaximum, used, hint>>

-----------------------------------------------------------------------------
Init ==
  /\ table = {}
  /\ snap = [f \in Finders |-> {}]
  /\ draining = {}
  /\ find = [f \in Finders |-> [pc |-> "idle", id |-> Unknown, object |-> NoObject]]
  /\ life = [o \in Objects |-> "none"]
  /\ id = [o \in Objects |-> Unknown]
  /\ usable = [o \in Objects |-> FALSE]
  /\ refs = [o \in Objects |-> {}]
  /\ mutex = NoObject
  /\ bits = {}
  /\ chunks = 0
  /\ numAllocated = 0
  /\ lastAllocated = 0
  /\ hint \in HintMaximums
  /\ desiredMaximum = hint
  /\ used = {}
  /\ births = 0

\* Finders that hold a read lock of the table.
Looking == {f \in Finders : find[f].pc \notin {"idle", "found"}}

-----------------------------------------------------------------------------
\* Lookups

\* FindObject is called and gets its version of the table.
StartFind(f, i) ==
  /\ find[f].pc = "idle"
  /\ find' = [find EXCEPT ![f] = [pc |-> "search", id |-> i, object |-> NoObject]]
  /\ snap' = [snap EXCEPT ![f] = table]
  /\ UNCHANGED <<table, draining, life, id, usable, refs, mutex, allocVars, births>>

\* FindObject returns null: every lock is released.
FindNothing(f) ==
  /\ find' = [find EXCEPT ![f] = [pc |-> "idle", id |-> Unknown, object |-> NoObject]]
  /\ snap' = [snap EXCEPT ![f] = {}]
  /\ draining' = draining \ {f}
  /\ UNCHANGED <<table, life, id, usable, refs, mutex, allocVars, births>>

Search(f) ==
  LET hits == {e \in snap[f] : e[1] = find[f].id}
  IN  /\ find[f].pc = "search"
      /\ \/ /\ hits = {}
            /\ FindNothing(f)
         \/ \E e \in hits :
              /\ find' = [find EXCEPT ![f] = [pc |-> "lock", id |-> find[f].id, object |-> e[2]]]
              /\ UNCHANGED <<table, draining, snap, life, id, usable, refs, mutex, allocVars, births>>

\* Mutant: the lookup tries again until it gets the lock.
LockRegistrationRetries(f) ==
  /\ find[f].pc = "lock"
  /\ find' = [find EXCEPT ![f].pc = IF life[find[f].object] = "erased" THEN "search" ELSE "load"]
  /\ UNCHANGED <<table, draining, snap, life, id, usable, refs, mutex, allocVars, births>>

\* try_to_lock on the registration may fail when an unregistration has or
\* waits for the exclusive lock.
LockRegistration(f) ==
  /\ find[f].pc = "lock"
  /\ \/ /\ life[find[f].object] = "erased"
        /\ FindNothing(f)
     \/ /\ find' = [find EXCEPT ![f].pc = "load"]
        /\ UNCHANGED <<table, draining, snap, life, id, usable, refs, mutex, allocVars, births>>

LoadObject(f) ==
  /\ find[f].pc = "load"
  /\ \/ /\ ~usable[find[f].object]
        /\ FindNothing(f)
     \/ /\ usable[find[f].object]
        /\ find' = [find EXCEPT ![f].pc = "pin"]
        /\ UNCHANGED <<table, draining, snap, life, id, usable, refs, mutex, allocVars, births>>

\* Mutant: the raw pointer is turned into a new reference.
SharedFromThisAnyway(f) ==
  /\ find[f].pc = "pin"
  /\ refs' = [refs EXCEPT ![find[f].object] = @ \union {f}]
  /\ find' = [find EXCEPT ![f].pc = "found"]
  /\ snap' = [snap EXCEPT ![f] = {}]
  /\ draining' = draining \ {f}
  /\ UNCHANGED <<table, life, id, usable, mutex, allocVars, births>>

\* shared_from_this adds a reference to an object that has one; it throws
\* bad_weak_ptr for an object under construction or being destroyed.
SharedFromThis(f) ==
  LET o == find[f].object
  IN  /\ find[f].pc = "pin"
      /\ \/ /\ refs[o] = {}
            /\ FindNothing(f)
         \/ /\ refs[o] # {}
            /\ refs' = [refs EXCEPT ![o] = @ \union {f}]
            /\ find' = [find EXCEPT ![f].pc = "found"]
            /\ snap' = [snap EXCEPT ![f] = {}]
            /\ draining' = draining \ {f}
            /\ UNCHANGED <<table, life, id, usable, mutex, allocVars, births>>

\* The caller is done with the object.
DropFound(f) ==
  /\ find[f].pc = "found"
  /\ refs' = [refs EXCEPT ![find[f].object] = @ \ {f}]
  /\ find' = [find EXCEPT ![f] = [pc |-> "idle", id |-> Unknown, object |-> NoObject]]
  /\ UNCHANGED <<table, draining, snap, life, id, usable, mutex, allocVars, births>>

-----------------------------------------------------------------------------
\* Registration, in the constructor of Object

\* RegisterObject up to the switch of the table.
RegisterObject(o) ==
  /\ life[o] = "none"
  /\ births < MaxBirths
  /\ mutex = NoObject
  /\ \E i \in IF o \in Plugins THEN {PlugInObject} ELSE {NextID} :
       /\ IF o \in Plugins THEN UNCHANGED allocVars ELSE AllocateID(i)
       /\ IF \E e \in table : e[1] = i
          THEN \* already registered
               /\ id' = [id EXCEPT ![o] = Unknown]
               /\ life' = [life EXCEPT ![o] = "constructing"]
               /\ UNCHANGED <<table, draining, usable, mutex>>
          ELSE /\ id' = [id EXCEPT ![o] = i]
               /\ table' = table \union {<<i, o>>}
               /\ draining' = Looking
               /\ usable' = [usable EXCEPT ![o] = TRUE]
               /\ mutex' = o
               /\ life' = [life EXCEPT ![o] = "registering"]
  /\ births' = births + 1
  /\ UNCHANGED <<findVars, refs>>

\* registeredObjects_.Set has waited for its old readers; RegisterObject returns.
Registered(o) ==
  /\ life[o] = "registering"
  /\ draining = {}
  /\ mutex' = NoObject
  /\ life' = [life EXCEPT ![o] = "constructing"]
  /\ UNCHANGED <<table, draining, findVars, id, usable, refs, allocVars, births>>

\* The constructor returns and make_shared creates the first reference.
Constructed(o) ==
  /\ life[o] = "constructing"
  /\ life' = [life EXCEPT ![o] = "alive"]
  /\ refs' = [refs EXCEPT ![o] = {Owner}]
  /\ UNCHANGED <<table, draining, findVars, id, usable, mutex, allocVars, births>>

\* The object's owner lets go of it.
OwnerDrops(o) ==
  /\ Owner \in refs[o]
  /\ refs' = [refs EXCEPT ![o] = @ \ {Owner}]
  /\ UNCHANGED <<table, draining, findVars, life, id, usable, mutex, allocVars, births>>

-----------------------------------------------------------------------------
\* Unregistration, in the destructor of Object

\* UnregisterObject gets its mutex and tells lookups by a null pointer.
UnregisterObject(o) ==
  /\ life[o] = "alive" /\ refs[o] = {}
  /\ mutex = NoObject
  /\ IF id[o] = Unknown
     THEN \* not registered
          /\ life' = [life EXCEPT ![o] = "none"]
          /\ UNCHANGED <<usable, mutex>>
     ELSE /\ usable' = [usable EXCEPT ![o] = FALSE]
          /\ mutex' = o
          /\ life' = [life EXCEPT ![o] = "unregistering"]
  /\ UNCHANGED <<table, draining, findVars, id, refs, allocVars, births>>

\* Mutant: the registration stays in the table.
EraseForgotten(o) ==
  /\ life[o] = "unregistering"
  /\ draining' = Looking
  /\ life' = [life EXCEPT ![o] = "erased"]
  /\ UNCHANGED <<table, findVars, id, usable, refs, mutex, allocVars, births>>

Erase(o) ==
  /\ life[o] = "unregistering"
  /\ table' = {e \in table : e[1] # id[o]}
  /\ draining' = Looking
  /\ life' = [life EXCEPT ![o] = "erased"]
  /\ UNCHANGED <<findVars, id, usable, refs, mutex, allocVars, births>>

\* Mutant: the destructor goes on while lookups are under way.
UnregisteredAtOnce(o) ==
  /\ life[o] = "erased"
  /\ FreeID(id[o])
  /\ mutex' = NoObject
  /\ id' = [id EXCEPT ![o] = Unknown]
  /\ life' = [life EXCEPT ![o] = "none"]
  /\ UNCHANGED <<table, draining, findVars, usable, refs, births>>

\* Set has waited for readers of older tables, and the registration's lock
\* for lookups that are at the object.  The identifier can be used again and
\* the memory goes back to the allocator.
Unregistered(o) ==
  /\ life[o] = "erased"
  /\ draining = {}
  /\ \A f \in Finders : find[f].object = o => find[f].pc \notin {"load", "pin"}
  /\ FreeID(id[o])
  /\ mutex' = NoObject
  /\ id' = [id EXCEPT ![o] = Unknown]
  /\ life' = [life EXCEPT ![o] = "none"]
  /\ UNCHANGED <<table, draining, findVars, usable, refs, births>>

-----------------------------------------------------------------------------
FinderStep(f) ==
  Search(f) \/ LockRegistration(f) \/ LoadObject(f) \/ SharedFromThis(f) \/ DropFound(f)

ObjectStep(o) ==
  Registered(o) \/ Constructed(o) \/ UnregisterObject(o) \/ Erase(o) \/ Unregistered(o)

Next ==
  \/ \E f \in Finders : FinderStep(f) \/ \E i \in IDs : StartFind(f, i)
  \/ \E o \in Objects : RegisterObject(o) \/ OwnerDrops(o) \/ ObjectStep(o)

\* A lookup that was called is run; constructors and destructors may stop anywhere.
Fairness == \A f \in Finders : WF_vars(FinderStep(f))

Spec == Init /\ [][Next]_vars /\ Fairness

-----------------------------------------------------------------------------
FindSteps == {"idle", "search", "lock", "load", "pin", "found"}
Lives == {"none", "registering", "constructing", "alive", "unregistering", "erased"}

\* Every variable keeps its type.
TypeOK ==
  /\ table \subseteq Nat \X Objects
  /\ snap \in [Finders -> SUBSET (Nat \X Objects)]
  /\ draining \subseteq Looking
  /\ find \in [Finders -> [pc : FindSteps, id : Nat, object : Objects \union {NoObject}]]
  /\ life \in [Objects -> Lives]
  /\ id \in [Objects -> Nat]
  /\ usable \in [Objects -> BOOLEAN]
  /\ refs \in [Objects -> SUBSET (Finders \union {Owner})]
  /\ mutex \in Objects \union {NoObject}
  /\ bits \subseteq Nat /\ chunks \in Nat
  /\ numAllocated \in 0..Word-1 /\ lastAllocated \in Nat /\ desiredMaximum \in Nat

\* "After this method returns, the registered object is not accessed by
\* dispatcher anymore" (Dispatcher.hpp:64): a lookup that has loaded the raw
\* pointer finds the object still there, however long it takes until it
\* pins it, although nothing but the destructor's own waits keeps it alive.
NoUseAfterFree ==
  \A f \in Finders : find[f].pc = "pin" => life[find[f].object] # "none"

\* A lookup answers with a fully constructed object that is registered under
\* the identifier asked for and that stays so as long as the caller holds it,
\* even if the identifier has been handed out again since the lookup began.
FoundIsAsked ==
  \A f \in Finders : find[f].pc = "found" =>
    /\ life[find[f].object] = "alive"
    /\ id[find[f].object] = find[f].id
    /\ <<find[f].id, find[f].object>> \in table

\* An object that nobody holds any more never gets a new reference: its
\* destructor runs exactly once.
NeverResurrected ==
  [][\A o \in Objects : life[o] \notin {"none", "constructing"} /\ refs[o] = {} => refs'[o] = {}]_vars

\* Identifiers tell the registered objects apart, and what the allocator
\* thinks is taken is what the objects have, under any order of births,
\* deaths and lookups.
TableMatchesObjects ==
  /\ \A o, p \in Objects : o # p /\ id[o] # Unknown => id[o] # id[p]
  /\ bits = {id[o] : o \in Objects \ Plugins} \ {Unknown}
  /\ \A o \in Objects : life[o] = "alive" /\ id[o] # Unknown => <<id[o], o>> \in table
  /\ \A e \in table : id[e[2]] = e[1]

\* Table, identifiers and lookups agree.
DispatcherInv == TypeOK /\ FoundIsAsked /\ TableMatchesObjects

\* "The allocation algorithm tries to delay identifier reuse for a while"
\* (Dispatcher.hpp:34): no identifier is handed out a second time before every
\* one below hintMaximumID has been handed out once, whatever is freed and
\* however the range grows meanwhile.  Of the range that desiredMaximumID_ has
\* grown to later this is not true: the search for a free identifier goes back
\* to the beginning at the end of the bit set, not at the maximum.
ReuseOnlyWhenExhausted ==
  [][\A o \in Objects \ Plugins : id[o] = Unknown /\ id'[o] \in used =>
        \A i \in 2..hint - 1 : i \in used]_vars

\* A lookup ends whatever stage a registration or unregistration is stuck in.
FindFinishes == \A f \in Finders : find[f].pc = "search" ~> find[f].pc \in {"found", "idle"}

\* A destructor ends: it waits only for lookups and for other registrations.
ObjectsScheduled == \A o \in Objects : WF_vars(ObjectStep(o))
UnregisterFinishes ==
  ObjectsScheduled =>
    \A o \in Objects : (life[o] = "alive" /\ refs[o] = {}) ~> life[o] = "none"

\* Lookups and destructors never wait for each other in a circle.
OperationsFinish == FindFinishes /\ UnregisterFinishes
===============================================================================
