---------------------------- MODULE ObjectProofs ----------------------------
(***************************************************************************)
(* How the driver's objects are found and what they answer.                *)
(*                                                                         *)
(* First Dispatcher.tla, for any lookups, objects, identifiers and sizes   *)
(* of the allocator.  Then PropertyInquiry.tla, for any objects, lists,    *)
(* custom properties and buffers: the switches of every class agree with   *)
(* one another (Fit), and so do the answers that are taken from them.      *)
(***************************************************************************)
EXTENDS Dispatcher, PropertyInquiry, WellFoundedInduction, FiniteSetTheorems, TLAPS

\* Natural numbers have a least one.
LEMMA LeastExists ==
  ASSUME NEW S \in SUBSET Nat, S # {}
  PROVE  \E m \in S : \A n \in S : m <= n
  <1> DEFINE R == OpToRel(<, Nat)
  <1>1. IsWellFoundedOn(R, Nat)
    BY NatLessThanWellFounded
  <1>2. \A x, y \in Nat : x < y => <<x, y>> \in R
    BY DEF OpToRel
  <1> HIDE DEF R
  <1>3. PICK m \in S : \A n \in S : <<n, m>> \notin R
    BY <1>1, WFMin, Zenon
  <1>4. \A n \in S : ~(n < m)
    BY <1>2, <1>3, Zenon
  <1>5. \A n \in S : m <= n
    BY <1>4, SMT
  <1> QED BY <1>5

-----------------------------------------------------------------------------
\* The allocator

\* The identifiers taken are inside the bit set, and none is reserved.
BitsInRange ==
  /\ bits \subseteq Nat \ Reserved
  /\ chunks \in Nat
  /\ \A i \in bits : i < chunks * BitsPerChunk

LEMMA RankType ==
  ASSUME BitsInRange, NEW start \in Nat, NEW i \in 0..chunks * BitsPerChunk - 1
  PROVE  SearchRank(start, i) \in Nat
  <1> DEFINE around == (i \div BitsPerChunk - start \div BitsPerChunk) % chunks
             hops == IF around = 0 /\ i < start THEN chunks ELSE around
  <1> USE DispatcherAssumption DEF DispatcherAssumption, BitsInRange
  <1>1. chunks \in Nat \ {0}
    <2>1. CASE chunks = 0
      BY <2>1
    <2> QED BY <2>1
  <1>2. i \in Nat /\ i \div BitsPerChunk \in Int /\ start \div BitsPerChunk \in Int
    BY <1>1
  <1>3. around \in Nat
    BY <1>1, <1>2
  <1> HIDE DEF around
  <1>4. hops \in Nat /\ i % BitsPerChunk \in Nat
    BY <1>1, <1>2, <1>3
  <1> HIDE DEF hops
  <1>5. hops * BitsPerChunk \in Nat
    BY <1>4
  <1>6. hops * BitsPerChunk + (i % BitsPerChunk) \in Nat
    BY <1>4, <1>5
  <1> QED BY <1>6 DEF SearchRank, hops, around

\* FindFreeID finds an identifier that is neither reserved nor taken.
LEMMA FoundIsFree ==
  ASSUME BitsInRange, NEW start \in Nat
  PROVE  FindFreeID(start) \in Nat /\ IsFree(FindFreeID(start))
  <1> DEFINE inside == {i \in 0..chunks * BitsPerChunk - 1 : IsFree(i)}
             c == chunks * BitsPerChunk
             behind == c..c + 2
  <1> USE DispatcherAssumption DEF DispatcherAssumption
  <1>0. c \in Nat
    BY DEF BitsInRange
  <1>1. CASE inside # {}
    <2> DEFINE ranks == {SearchRank(start, i) : i \in inside}
    <2>1. ranks \in SUBSET Nat /\ ranks # {}
      BY <1>1, RankType
    <2>2. PICK m \in ranks : \A n \in ranks : m <= n
      BY <2>1, LeastExists
    <2>3. \E i \in inside : \A j \in inside : SearchRank(start, i) <= SearchRank(start, j)
      BY <2>2
    <2>4. FindFreeID(start) \in inside
      BY <1>1, <2>3 DEF FindFreeID
    <2> QED BY <2>4, <1>0
  <1>2. CASE inside = {}
    <2>1. behind \ Reserved \in SUBSET Nat /\ c + 2 \in behind \ Reserved
      BY <1>0 DEF Reserved, Unknown, PlugInObject
    <2>2. \E m \in behind \ Reserved : \A n \in behind \ Reserved : m <= n
      BY <2>1, LeastExists
    <2>3. Least(behind \ Reserved) \in behind \ Reserved
      BY <2>2 DEF Least
    <2>4. FindFreeID(start) = Least(behind \ Reserved)
      BY <1>2 DEF FindFreeID
    <2>5. ASSUME NEW i \in behind PROVE i \notin bits
      BY <1>0 DEF BitsInRange
    <2> QED BY <1>0, <2>3, <2>4, <2>5 DEF IsFree
  <1> QED BY <1>1, <1>2

\* The identifier that is handed out next is neither reserved nor taken.
LEMMA NextIsFree ==
  ASSUME BitsInRange, lastAllocated \in Nat
  PROVE  NextID \in Nat /\ IsFree(NextID)
  BY FoundIsFree DEF NextID

LEMMA ChunksGrow ==
  ASSUME BitsInRange, NEW i \in Nat
  PROVE  /\ ChunksFor(i) \in Nat
         /\ chunks <= ChunksFor(i)
         /\ i < ChunksFor(i) * BitsPerChunk
         /\ \A j \in bits : j < ChunksFor(i) * BitsPerChunk
  <1> USE DispatcherAssumption DEF DispatcherAssumption, BitsInRange
  <1> DEFINE q == i \div BitsPerChunk
             n == ChunksFor(i)
  <1>1. q \in Nat /\ i < (q + 1) * BitsPerChunk
    OBVIOUS
  <1>2. n \in Nat /\ chunks <= n /\ q + 1 <= n
    BY <1>1 DEF ChunksFor
  <1> HIDE DEF q, n
  <1>3. \A a, b \in Nat : a <= b => a * BitsPerChunk <= b * BitsPerChunk
    OBVIOUS
  <1>4. (q + 1) * BitsPerChunk <= n * BitsPerChunk /\ chunks * BitsPerChunk <= n * BitsPerChunk
    BY <1>1, <1>2, <1>3
  <1>5. /\ (q + 1) * BitsPerChunk \in Nat
        /\ chunks * BitsPerChunk \in Nat
        /\ n * BitsPerChunk \in Nat
    BY <1>1, <1>2
  <1>6. i < n * BitsPerChunk
    BY <1>1, <1>4, <1>5
  <1>7. \A j \in bits : j < n * BitsPerChunk
    BY <1>4, <1>5
  <1> QED BY <1>2, <1>6, <1>7 DEF n

\* What an allocation, and what freeing an identifier, keeps of the allocator.
LEMMA AllocateInv ==
  ASSUME TypeOK, BitsInRange, NEW i, AllocateID(i)
  PROVE  /\ i \in Nat /\ IsFree(i) /\ bits' = bits \union {i}
         /\ BitsInRange'
         /\ numAllocated' \in 0..Word-1 /\ lastAllocated' \in Nat /\ desiredMaximum' \in Nat
  <1> USE DispatcherAssumption DEF DispatcherAssumption
  <1>1. i \in Nat /\ IsFree(i)
    BY NextIsFree DEF TypeOK, AllocateID
  <1>2. bits' = bits \union {i} /\ chunks' = ChunksFor(i)
    BY DEF AllocateID
  <1>3. BitsInRange'
    BY <1>1, <1>2, ChunksGrow DEF BitsInRange, IsFree, Reserved, Unknown, PlugInObject
  <1>4. numAllocated' \in 0..Word-1 /\ lastAllocated' \in Nat /\ desiredMaximum' \in Nat
    BY <1>1 DEF AllocateID, GrownMaximum, TypeOK
  <1> QED BY <1>1, <1>2, <1>3, <1>4

LEMMA FreeInv ==
  ASSUME TypeOK, BitsInRange, NEW i \in Nat, FreeID(i)
  PROVE  /\ bits' = bits \ {i}
         /\ BitsInRange'
         /\ numAllocated' \in 0..Word-1 /\ lastAllocated' \in Nat /\ desiredMaximum' \in Nat
  <1> USE DispatcherAssumption DEF DispatcherAssumption
  <1>1. bits' = bits \ {i} /\ chunks' = ChunksFor(i)
    BY DEF FreeID
  <1>2. BitsInRange'
    BY <1>1, ChunksGrow DEF BitsInRange, Reserved, Unknown, PlugInObject
  <1>3. numAllocated' \in 0..Word-1 /\ lastAllocated' \in Nat /\ desiredMaximum' \in Nat
    BY DEF FreeID, TypeOK
  <1> QED BY <1>1, <1>2, <1>3

-----------------------------------------------------------------------------
\* Where an object is, as its own state, the mutex and its references tell it.
Lifecycle ==
  /\ \A o \in Objects : life[o] \in {"registering", "unregistering", "erased"} => mutex = o
  /\ \A o \in Objects : life[o] = "none" => id[o] = Unknown
  /\ \A o \in Objects : refs[o] # {} => life[o] = "alive"

Listed == {"registering", "constructing", "alive", "unregistering"}

\* The table holds exactly the objects that have an identifier, except the one
\* that has just taken itself out.
TableExact ==
  /\ \A e \in table : life[e[2]] \in Listed /\ id[e[2]] = e[1] /\ e[1] # Unknown
  /\ \A o \in Objects : life[o] \in Listed /\ id[o] # Unknown => <<id[o], o>> \in table
  /\ \A o, p \in Objects : o # p /\ id[o] # Unknown => id[o] # id[p]
  /\ \A o \in Plugins : id[o] \in Reserved
  /\ bits = {id[o] : o \in Objects \ Plugins} \ {Unknown}

\* A lookup sees objects that are in the table, or whose destructor waits for it.
LookupsCovered ==
  /\ \A f \in Looking : \A e \in snap[f] :
       /\ id[e[2]] = e[1] /\ e[1] # Unknown
       /\ e \in table \/ (life[e[2]] = "erased" /\ f \in draining)
  /\ \A f \in Finders : find[f].pc \in {"lock", "load", "pin"} =>
       <<find[f].id, find[f].object>> \in snap[f]
  /\ \A f \in Finders : find[f].pc = "found" =>
       find[f].object \in Objects /\ f \in refs[find[f].object]

\* The inductive invariant.
Inv == TypeOK /\ BitsInRange /\ Lifecycle /\ TableExact /\ LookupsCovered /\ FoundIsAsked

LEMMA InitInv ==
  ASSUME Init PROVE Inv
  <1> USE DispatcherAssumption DEF DispatcherAssumption, Init, Looking, Unknown
  <1>1. TypeOK
    BY DEF TypeOK, FindSteps, Lives
  <1>2. BitsInRange
    BY DEF BitsInRange
  <1>3. Lifecycle /\ LookupsCovered /\ FoundIsAsked
    BY DEF Lifecycle, LookupsCovered, FoundIsAsked
  <1>4. TableExact
    BY DEF TableExact, Reserved, Listed
  <1> QED BY <1>1, <1>2, <1>3, <1>4 DEF Inv

-----------------------------------------------------------------------------
\* Steps of lookups

\* What lookups leave alone.
objectVars == <<table, life, id, usable, mutex, allocVars, births>>

\* The invariant but for the lookup that moves and the references.
LEMMA LookupKeeps ==
  ASSUME Inv, UNCHANGED objectVars, refs' = refs
  PROVE  BitsInRange' /\ Lifecycle' /\ TableExact'
  BY DEF Inv, BitsInRange, Lifecycle, TableExact, objectVars, allocVars

LEMMA StartFindInv ==
  ASSUME Inv, NEW f \in Finders, NEW i \in IDs, StartFind(f, i)
  PROVE  Inv'
  <1> USE DispatcherAssumption DEF DispatcherAssumption, StartFind
  <1>0. find' = [find EXCEPT ![f] = [pc |-> "search", id |-> i, object |-> NoObject]]
        /\ snap' = [snap EXCEPT ![f] = table]
        /\ UNCHANGED <<objectVars, draining, refs>>
    BY DEF objectVars
  <1>1. Looking' = Looking \union {f}
    BY <1>0 DEF Looking, Inv, TypeOK
  <1>2. TypeOK'
    BY <1>0, <1>1 DEF Inv, TypeOK, FindSteps, objectVars, allocVars
  <1>3. LookupsCovered'
    BY <1>0, <1>1 DEF Inv, TypeOK, LookupsCovered, TableExact, objectVars
  <1>4. FoundIsAsked'
    BY <1>0 DEF Inv, TypeOK, FoundIsAsked, objectVars
  <1> QED BY <1>0, <1>2, <1>3, <1>4, LookupKeeps DEF Inv

LEMMA FindNothingInv ==
  ASSUME Inv, NEW f \in Finders, FindNothing(f), find[f].pc # "found"
  PROVE  Inv'
  <1>0. /\ find' = [find EXCEPT ![f] = [pc |-> "idle", id |-> Unknown, object |-> NoObject]]
        /\ snap' = [snap EXCEPT ![f] = {}]
        /\ draining' = draining \ {f}
        /\ UNCHANGED <<objectVars, refs>>
    BY DEF FindNothing, objectVars
  <1>1. Looking' = Looking \ {f}
    BY <1>0 DEF Looking, Inv, TypeOK
  <1>2. TypeOK'
    BY <1>0, <1>1 DEF Inv, TypeOK, FindSteps, objectVars, allocVars, Unknown
  <1>3. LookupsCovered'
    BY <1>0, <1>1 DEF Inv, TypeOK, LookupsCovered, objectVars
  <1>4. FoundIsAsked'
    BY <1>0 DEF Inv, TypeOK, FoundIsAsked, objectVars
  <1> QED BY <1>0, <1>2, <1>3, <1>4, LookupKeeps DEF Inv

\* A lookup that goes on without touching anything but its own state.
LEMMA FindOnInv ==
  ASSUME Inv, NEW f \in Finders, UNCHANGED <<objectVars, draining, snap, refs>>,
         NEW o \in Objects, NEW pc \in {"lock", "load", "pin"},
         find' = [find EXCEPT ![f] = [pc |-> pc, id |-> find[f].id, object |-> o]],
         find[f].pc \in {"search", "lock", "load"}, <<find[f].id, o>> \in snap[f]
  PROVE  Inv'
  <1>1. Looking' = Looking
    BY DEF Looking, Inv, TypeOK
  <1>2. TypeOK'
    BY <1>1 DEF Inv, TypeOK, FindSteps, objectVars, allocVars
  <1>3. LookupsCovered'
    BY <1>1 DEF Inv, TypeOK, LookupsCovered, objectVars
  <1>4. FoundIsAsked'
    BY DEF Inv, TypeOK, FoundIsAsked, objectVars
  <1> QED BY <1>2, <1>3, <1>4, LookupKeeps DEF Inv

\* A lookup under way is at an object it has seen, and that is not gone.
LEMMA AtObject ==
  ASSUME Inv, NEW f \in Finders, find[f].pc \in {"lock", "load", "pin"}
  PROVE  /\ find[f].object \in Objects
         /\ <<find[f].id, find[f].object>> \in snap[f]
         /\ id[find[f].object] = find[f].id /\ find[f].id # Unknown
         /\ life[find[f].object] \in Listed \union {"erased"}
         /\ life[find[f].object] # "erased" => <<find[f].id, find[f].object>> \in table
  <1>1. f \in Looking
    BY DEF Looking
  <1>2. <<find[f].id, find[f].object>> \in snap[f]
    BY DEF Inv, LookupsCovered
  <1>3. snap[f] \subseteq Nat \X Objects
    BY DEF Inv, TypeOK
  <1> QED BY <1>1, <1>2, <1>3 DEF Inv, LookupsCovered, TableExact

LEMMA PinInv ==
  ASSUME Inv, NEW f \in Finders, SharedFromThis(f)
  PROVE  Inv'
  <1> DEFINE o == find[f].object
  <1>1. CASE refs[o] = {}
    BY <1>1, FindNothingInv DEF SharedFromThis
  <1>2. CASE refs[o] # {}
    <2>0. /\ find[f].pc = "pin"
          /\ refs' = [refs EXCEPT ![o] = @ \union {f}]
          /\ find' = [find EXCEPT ![f].pc = "found"]
          /\ snap' = [snap EXCEPT ![f] = {}]
          /\ draining' = draining \ {f}
          /\ UNCHANGED objectVars
      BY <1>2 DEF SharedFromThis, objectVars
    <2>1. o \in Objects /\ life[o] = "alive" /\ id[o] = find[f].id /\ <<find[f].id, o>> \in table
      BY <1>2, <2>0, AtObject DEF Inv, Lifecycle
    <2> HIDE DEF o
    <2>2. find'[f] = [find[f] EXCEPT !.pc = "found"] /\ \A g \in Finders : g # f => find'[g] = find[g]
      BY <2>0 DEF Inv, TypeOK
    <2>3. find'[f].pc = "found" /\ find'[f].object = o /\ find'[f].id = find[f].id
      BY <2>2 DEF Inv, TypeOK, o
    <2>4. Looking' = Looking \ {f}
      BY <2>2, <2>3 DEF Looking
    <2>5. TypeOK'
      BY <2>0, <2>4 DEF Inv, TypeOK, FindSteps, objectVars, allocVars
    <2>6. BitsInRange' /\ TableExact'
      BY <2>0 DEF Inv, BitsInRange, TableExact, objectVars, allocVars
    <2>7. Lifecycle'
      BY <2>0, <2>1 DEF Inv, TypeOK, Lifecycle, objectVars
    <2>8. LookupsCovered'
      <3>1. \A g \in Looking' : \A e \in snap'[g] :
              /\ id[e[2]] = e[1] /\ e[1] # Unknown
              /\ e \in table \/ (life[e[2]] = "erased" /\ g \in draining')
        BY <2>0, <2>4 DEF Inv, TypeOK, LookupsCovered
      <3>2. \A g \in Finders : find'[g].pc \in {"lock", "load", "pin"} =>
              <<find'[g].id, find'[g].object>> \in snap'[g]
        BY <2>0, <2>2, <2>3 DEF Inv, TypeOK, LookupsCovered
      <3>3. \A p \in Objects : refs[p] \subseteq refs'[p]
        BY <2>0 DEF Inv, TypeOK
      <3>4. f \in refs'[o]
        BY <2>0, <2>1 DEF Inv, TypeOK
      <3>5. \A g \in Finders : find'[g].pc = "found" =>
              find'[g].object \in Objects /\ g \in refs'[find'[g].object]
        BY <2>1, <2>2, <2>3, <3>3, <3>4 DEF Inv, LookupsCovered
      <3> QED BY <2>0, <3>1, <3>2, <3>5 DEF LookupsCovered, objectVars
    <2>9. FoundIsAsked'
      BY <2>0, <2>1, <2>2, <2>3 DEF Inv, FoundIsAsked, objectVars
    <2> QED BY <2>5, <2>6, <2>7, <2>8, <2>9 DEF Inv
  <1> QED BY <1>1, <1>2

LEMMA DropFoundInv ==
  ASSUME Inv, NEW f \in Finders, DropFound(f)
  PROVE  Inv'
  <1> DEFINE o == find[f].object
  <1>0. /\ find[f].pc = "found"
        /\ refs' = [refs EXCEPT ![o] = @ \ {f}]
        /\ find' = [find EXCEPT ![f] = [pc |-> "idle", id |-> Unknown, object |-> NoObject]]
        /\ UNCHANGED <<objectVars, snap, draining>>
    BY DEF DropFound, objectVars
  <1>1. o \in Objects
    BY <1>0 DEF Inv, LookupsCovered
  <1> HIDE DEF o
  <1>2. Looking' = Looking
    BY <1>0 DEF Looking, Inv, TypeOK
  <1>3. TypeOK'
    BY <1>0, <1>2 DEF Inv, TypeOK, FindSteps, objectVars, allocVars, Unknown
  <1>4. BitsInRange' /\ TableExact'
    BY <1>0 DEF Inv, BitsInRange, TableExact, objectVars, allocVars
  <1>5. Lifecycle'
    BY <1>0, <1>1 DEF Inv, TypeOK, Lifecycle, objectVars
  <1>6. LookupsCovered'
    <2>1. \A p \in Objects, g \in Finders : g # f /\ g \in refs[p] => g \in refs'[p]
      BY <1>0 DEF Inv, TypeOK
    <2>2. \A g \in Finders : find'[g].pc = "found" => g # f /\ find'[g] = find[g]
      BY <1>0 DEF Inv, TypeOK
    <2>3. \A g \in Finders : find'[g].pc \in {"lock", "load", "pin"} => find'[g] = find[g]
      BY <1>0 DEF Inv, TypeOK
    <2>4. \A g \in Finders : find'[g].pc = "found" =>
            find'[g].object \in Objects /\ g \in refs'[find'[g].object]
      BY <2>1, <2>2 DEF Inv, LookupsCovered
    <2> QED BY <1>0, <1>2, <2>3, <2>4 DEF Inv, LookupsCovered, objectVars
  <1>7. FoundIsAsked'
    BY <1>0 DEF Inv, TypeOK, FoundIsAsked, objectVars
  <1> QED BY <1>3, <1>4, <1>5, <1>6, <1>7 DEF Inv

LEMMA FinderStepInv ==
  ASSUME Inv, NEW f \in Finders, FinderStep(f)
  PROVE  Inv'
  <1>0. /\ find[f] = [pc |-> find[f].pc, id |-> find[f].id, object |-> find[f].object]
        /\ find \in [Finders -> [pc : FindSteps, id : Nat, object : Objects \union {NoObject}]]
        /\ snap[f] \subseteq Nat \X Objects
    BY DEF Inv, TypeOK
  <1>1. CASE Search(f)
    <2>1. CASE FindNothing(f)
      BY <1>1, <2>1, FindNothingInv DEF Search
    <2>2. ASSUME NEW e \in snap[f], e[1] = find[f].id,
                 find' = [find EXCEPT ![f] = [pc |-> "lock", id |-> find[f].id, object |-> e[2]]],
                 UNCHANGED <<objectVars, draining, snap, refs>>
          PROVE  Inv'
      <3>1. e = <<find[f].id, e[2]>> /\ e[2] \in Objects
        BY <1>0, <2>2
      <3>3. find[f].pc = "search"
        BY <1>1 DEF Search
      <3> QED BY <2>2, <3>1, <3>3, FindOnInv
    <2> QED BY <1>1, <2>1, <2>2 DEF Search, objectVars
  <1>2. CASE LockRegistration(f)
    <2>1. CASE FindNothing(f)
      BY <1>2, <2>1, FindNothingInv DEF LockRegistration
    <2>2. CASE ~FindNothing(f)
      <3>1. /\ find[f].pc = "lock"
            /\ find' = [find EXCEPT ![f] = [pc |-> "load", id |-> find[f].id, object |-> find[f].object]]
            /\ UNCHANGED <<objectVars, draining, snap, refs>>
        BY <1>0, <1>2, <2>2 DEF LockRegistration, objectVars
      <3> QED BY <3>1, AtObject, FindOnInv
    <2> QED BY <2>1, <2>2
  <1>3. CASE LoadObject(f)
    <2>1. CASE FindNothing(f)
      BY <1>3, <2>1, FindNothingInv DEF LoadObject
    <2>2. CASE ~FindNothing(f)
      <3>1. /\ find[f].pc = "load"
            /\ find' = [find EXCEPT ![f] = [pc |-> "pin", id |-> find[f].id, object |-> find[f].object]]
            /\ UNCHANGED <<objectVars, draining, snap, refs>>
        BY <1>0, <1>3, <2>2 DEF LoadObject, objectVars
      <3> QED BY <3>1, AtObject, FindOnInv
    <2> QED BY <2>1, <2>2
  <1> QED BY <1>1, <1>2, <1>3, PinInv, DropFoundInv DEF FinderStep

-----------------------------------------------------------------------------
\* Steps of objects

\* Nobody refers to an object that is not there, nor sees one without an identifier.
LEMMA Unseen ==
  ASSUME Inv, NEW o \in Objects, id[o] = Unknown
  PROVE  /\ \A e \in table : e[2] # o
         /\ \A f \in Looking : \A e \in snap[f] : e[2] # o
  BY DEF Inv, TableExact, LookupsCovered

\* The registration of an object that finds its identifier free.
LEMMA EnteredInv ==
  ASSUME Inv, NEW o \in Objects, NEW i \in Nat \ {Unknown},
         life[o] = "none", mutex = NoObject, BitsInRange',
         numAllocated' \in 0..Word-1, lastAllocated' \in Nat, desiredMaximum' \in Nat,
         \A p \in Objects : id[p] # i,
         o \in Plugins => i \in Reserved /\ bits' = bits,
         o \notin Plugins => bits' = bits \union {i},
         id' = [id EXCEPT ![o] = i], table' = table \union {<<i, o>>}, draining' = Looking,
         usable' = [usable EXCEPT ![o] = TRUE], mutex' = o,
         life' = [life EXCEPT ![o] = "registering"], UNCHANGED <<findVars, refs>>
  PROVE  Inv'
  <1> USE DispatcherAssumption DEF DispatcherAssumption
  <1>0. Looking' = Looking /\ find' = find /\ snap' = snap /\ id[o] = Unknown
    BY DEF Looking, findVars, Inv, Lifecycle
  <1>1. TypeOK'
    BY <1>0 DEF Inv, TypeOK, Lives, BitsInRange
  <1>2. Lifecycle'
    BY DEF Inv, TypeOK, Lifecycle, Unknown
  <1>3. TableExact'
    <2>1. \A e \in table' : life'[e[2]] \in Listed /\ id'[e[2]] = e[1] /\ e[1] # Unknown
      BY <1>0, Unseen DEF Inv, TypeOK, TableExact, Listed
    <2>2. \A p \in Objects : life'[p] \in Listed /\ id'[p] # Unknown => <<id'[p], p>> \in table'
      BY DEF Inv, TypeOK, TableExact
    <2>3. \A p, q \in Objects : p # q /\ id'[p] # Unknown => id'[p] # id'[q]
      BY DEF Inv, TypeOK, TableExact
    <2>4. \A p \in Plugins : id'[p] \in Reserved
      BY DEF Inv, TypeOK, TableExact
    <2>5. bits' = {id'[p] : p \in Objects \ Plugins} \ {Unknown}
      <3>1. CASE o \in Plugins
        BY <3>1 DEF Inv, TypeOK, TableExact
      <3>2. CASE o \notin Plugins
        BY <1>0, <3>2 DEF Inv, TypeOK, TableExact
      <3> QED BY <3>1, <3>2
    <2> QED BY <2>1, <2>2, <2>3, <2>4, <2>5 DEF TableExact
  <1>4. LookupsCovered'
    <2>1. \A f \in Looking : \A e \in snap[f] : e[2] # o /\ e[2] \in Objects
      BY <1>0, Unseen DEF Inv, TypeOK, Looking
    <2> QED BY <1>0, <2>1 DEF Inv, TypeOK, LookupsCovered
  <1>5. FoundIsAsked'
    BY <1>0 DEF Inv, TypeOK, FoundIsAsked, LookupsCovered
  <1> QED BY <1>1, <1>2, <1>3, <1>4, <1>5 DEF Inv

\* The registration of a second plug-in object, whose identifier is taken.
LEMMA RefusedInv ==
  ASSUME Inv, NEW o \in Objects, life[o] = "none",
         id' = [id EXCEPT ![o] = Unknown], life' = [life EXCEPT ![o] = "constructing"],
         UNCHANGED <<table, draining, usable, mutex, findVars, refs, allocVars>>
  PROVE  Inv'
  <1> USE DispatcherAssumption DEF DispatcherAssumption
  <1>0. Looking' = Looking /\ find' = find /\ snap' = snap /\ id' = id
    BY DEF Looking, findVars, Inv, Lifecycle, TypeOK
  <1>1. TypeOK' /\ BitsInRange'
    BY <1>0 DEF Inv, TypeOK, Lives, BitsInRange, allocVars
  <1>2. Lifecycle'
    BY <1>0 DEF Inv, TypeOK, Lifecycle
  <1>3. \A e \in table : e[2] # o
    BY Unseen DEF Inv, Lifecycle
  <1>4. \A f \in Looking : \A e \in snap[f] : e[2] # o /\ e[2] \in Objects
    BY Unseen DEF Inv, Lifecycle, TypeOK, Looking
  <1>5. TableExact'
    BY <1>0, <1>3 DEF Inv, TypeOK, TableExact, allocVars, Lifecycle
  <1>6. LookupsCovered'
    BY <1>0, <1>4 DEF Inv, TypeOK, LookupsCovered
  <1>7. FoundIsAsked'
    BY <1>0 DEF Inv, TypeOK, FoundIsAsked, LookupsCovered
  <1> QED BY <1>1, <1>2, <1>5, <1>6, <1>7 DEF Inv

LEMMA RegisterObjectInv ==
  ASSUME Inv, NEW o \in Objects, RegisterObject(o)
  PROVE  Inv'
  <1> USE DispatcherAssumption DEF DispatcherAssumption
  <1>0. /\ life[o] = "none" /\ mutex = NoObject /\ UNCHANGED <<findVars, refs>>
        /\ \A p \in Objects : life[p] \in Listed \union {"none"}
    BY DEF RegisterObject, Inv, Lifecycle, TypeOK, Lives, Listed
  <1>1. \A p \in Objects : id[p] # Unknown => <<id[p], p>> \in table
    BY <1>0 DEF Inv, Lifecycle, TableExact
  <1>2. CASE o \in Plugins
    <2> DEFINE i == PlugInObject
    <2>0. i \in Nat \ {Unknown} /\ i \in Reserved
      BY DEF PlugInObject, Unknown, Reserved
    <2>1. UNCHANGED allocVars
      BY <1>2 DEF RegisterObject
    <2>2. /\ BitsInRange' /\ bits' = bits
          /\ numAllocated' \in 0..Word-1 /\ lastAllocated' \in Nat /\ desiredMaximum' \in Nat
      BY <2>1 DEF Inv, BitsInRange, TypeOK, allocVars
    <2>3. CASE \E e \in table : e[1] = i
      BY <1>0, <1>2, <2>1, <2>3, RefusedInv DEF RegisterObject
    <2>4. CASE ~\E e \in table : e[1] = i
      <3>1. \A p \in Objects : id[p] # i
        BY <1>1, <2>0, <2>4
      <3>2. /\ id' = [id EXCEPT ![o] = i] /\ table' = table \union {<<i, o>>} /\ draining' = Looking
            /\ usable' = [usable EXCEPT ![o] = TRUE] /\ mutex' = o
            /\ life' = [life EXCEPT ![o] = "registering"]
        BY <1>2, <2>4 DEF RegisterObject
      <3> HIDE DEF i
      <3> QED BY <1>0, <1>2, <2>0, <2>2, <3>1, <3>2, EnteredInv
    <2> QED BY <2>3, <2>4
  <1>3. CASE o \notin Plugins
    <2> DEFINE i == NextID
    <2>1. AllocateID(i)
      BY <1>3 DEF RegisterObject
    <2>2. /\ i \in Nat /\ IsFree(i) /\ bits' = bits \union {i} /\ BitsInRange'
          /\ numAllocated' \in 0..Word-1 /\ lastAllocated' \in Nat /\ desiredMaximum' \in Nat
      BY <2>1, AllocateInv DEF Inv
    <2>3. \A p \in Objects : id[p] # i
      BY <2>2 DEF IsFree, Inv, TableExact, Reserved
    <2>4. ~\E e \in table : e[1] = i
      BY <2>3 DEF Inv, TableExact, TypeOK
    <2>5. /\ id' = [id EXCEPT ![o] = i] /\ table' = table \union {<<i, o>>} /\ draining' = Looking
          /\ usable' = [usable EXCEPT ![o] = TRUE] /\ mutex' = o
          /\ life' = [life EXCEPT ![o] = "registering"]
      BY <1>3, <2>4 DEF RegisterObject
    <2>6. i # Unknown
      BY <2>2 DEF IsFree, Reserved
    <2> HIDE DEF i
    <2> QED BY <1>0, <1>3, <2>2, <2>3, <2>5, <2>6, EnteredInv
  <1> QED BY <1>2, <1>3

LEMMA OwnerDropsInv ==
  ASSUME Inv, NEW o \in Objects, OwnerDrops(o)
  PROVE  Inv'
  <1> USE DispatcherAssumption DEF DispatcherAssumption, OwnerDrops
  <1>0. Looking' = Looking /\ find' = find /\ snap' = snap
    BY DEF Looking, findVars
  <1>1. TypeOK' /\ BitsInRange' /\ TableExact'
    BY <1>0 DEF Inv, TypeOK, BitsInRange, TableExact, allocVars
  <1>2. Lifecycle'
    BY DEF Inv, TypeOK, Lifecycle
  <1>3. \A p \in Objects, f \in Finders : f \in refs[p] => f \in refs'[p]
    BY DEF Inv, TypeOK
  <1>4. LookupsCovered'
    BY <1>0, <1>3 DEF Inv, LookupsCovered
  <1>5. FoundIsAsked'
    BY <1>0 DEF Inv, FoundIsAsked
  <1> QED BY <1>1, <1>2, <1>4, <1>5 DEF Inv

\* Steps from one listed life to the next that leave the table alone.
LEMMA LifeOnInv ==
  ASSUME Inv, NEW o \in Objects, NEW l \in Listed,
         life[o] \in Listed, life' = [life EXCEPT ![o] = l],
         UNCHANGED <<table, draining, findVars, id, allocVars>>,
         usable' \in [Objects -> BOOLEAN],
         mutex' \in Objects \union {NoObject},
         \A p \in Objects : life'[p] \in {"registering", "unregistering", "erased"} => mutex' = p,
         refs' \in [Objects -> SUBSET (Finders \union {Owner})],
         \A p \in Objects : refs[p] \subseteq refs'[p],
         \A p \in Objects : refs'[p] # {} => life'[p] = "alive"
  PROVE  Inv'
  <1>0. Looking' = Looking /\ find' = find /\ snap' = snap
    BY DEF Looking, findVars
  <1>1. TypeOK' /\ BitsInRange'
    BY <1>0 DEF Inv, TypeOK, BitsInRange, allocVars, Lives, Listed
  <1>2. Lifecycle'
    BY DEF Inv, TypeOK, Lifecycle, Listed
  <1>3. TableExact'
    BY DEF Inv, TypeOK, TableExact, allocVars
  <1>4. LookupsCovered'
    BY <1>0 DEF Inv, TypeOK, LookupsCovered, Listed
  <1>5. FoundIsAsked'
    BY <1>0 DEF Inv, TypeOK, FoundIsAsked, LookupsCovered
  <1> QED BY <1>1, <1>2, <1>3, <1>4, <1>5 DEF Inv

\* While one object has the mutex, no other one is at it.
LEMMA MutexAlone ==
  ASSUME Inv, NEW o \in Objects, mutex \in {o, NoObject}
  PROVE  \A p \in Objects : p # o => life[p] \notin {"registering", "unregistering", "erased"}
  BY DispatcherAssumption DEF DispatcherAssumption, Inv, Lifecycle

LEMMA UnregisterObjectInv ==
  ASSUME Inv, NEW o \in Objects, UnregisterObject(o)
  PROVE  Inv'
  <1> USE DispatcherAssumption DEF DispatcherAssumption
  <1>0. life[o] = "alive" /\ refs[o] = {} /\ mutex = NoObject
    BY DEF UnregisterObject
  <1>1. CASE id[o] = Unknown
    <2>0. /\ life' = [life EXCEPT ![o] = "none"]
          /\ UNCHANGED <<table, draining, findVars, id, usable, refs, mutex, allocVars>>
      BY <1>1 DEF UnregisterObject
    <2>1. Looking' = Looking /\ find' = find /\ snap' = snap
      BY <2>0 DEF Looking, findVars
    <2>2. TypeOK' /\ BitsInRange'
      BY <2>0, <2>1 DEF Inv, TypeOK, BitsInRange, allocVars, Lives
    <2>3. Lifecycle'
      BY <1>0, <1>1, <2>0 DEF Inv, TypeOK, Lifecycle
    <2>4. \A e \in table : e[2] # o /\ e[2] \in Objects
      BY <1>1, Unseen DEF Inv, TypeOK
    <2>5. \A f \in Looking : \A e \in snap[f] : e[2] # o /\ e[2] \in Objects
      BY <1>1, Unseen DEF Inv, TypeOK, Looking
    <2>6. TableExact'
      BY <1>1, <2>0, <2>4 DEF Inv, TypeOK, TableExact, allocVars, Listed
    <2>7. LookupsCovered'
      BY <2>0, <2>1, <2>5 DEF Inv, TypeOK, LookupsCovered
    <2>8. FoundIsAsked'
      BY <1>0, <2>0, <2>1 DEF Inv, TypeOK, FoundIsAsked, LookupsCovered
    <2> QED BY <2>2, <2>3, <2>6, <2>7, <2>8 DEF Inv
  <1>2. CASE id[o] # Unknown
    <2>0. /\ usable' = [usable EXCEPT ![o] = FALSE] /\ mutex' = o
          /\ life' = [life EXCEPT ![o] = "unregistering"]
          /\ UNCHANGED <<table, draining, findVars, id, refs, allocVars>>
      BY <1>2 DEF UnregisterObject
    <2>1. \A p \in Objects : life'[p] \in {"registering", "unregistering", "erased"} => mutex' = p
      BY <1>0, <2>0, MutexAlone DEF Inv, TypeOK
    <2>2. \A p \in Objects : refs'[p] # {} => life'[p] = "alive"
      BY <1>0, <2>0 DEF Inv, TypeOK, Lifecycle
    <2>3. usable' \in [Objects -> BOOLEAN] /\ refs' \in [Objects -> SUBSET (Finders \union {Owner})]
      BY <2>0 DEF Inv, TypeOK
    <2> QED BY <1>0, <2>0, <2>1, <2>2, <2>3, LifeOnInv DEF Listed
  <1> QED BY <1>1, <1>2

LEMMA RegisteredInv ==
  ASSUME Inv, NEW o \in Objects, Registered(o)
  PROVE  Inv'
  <1>0. /\ life[o] = "registering" /\ life' = [life EXCEPT ![o] = "constructing"]
        /\ mutex' = NoObject /\ mutex = o
        /\ UNCHANGED <<table, draining, findVars, id, usable, refs, allocVars>>
    BY DEF Registered, Inv, Lifecycle
  <1>1. \A p \in Objects : life'[p] \in {"registering", "unregistering", "erased"} => mutex' = p
    BY <1>0, MutexAlone DEF Inv, TypeOK
  <1>2. \A p \in Objects : refs'[p] # {} => life'[p] = "alive"
    BY <1>0 DEF Inv, TypeOK, Lifecycle
  <1>3. usable' \in [Objects -> BOOLEAN] /\ refs' \in [Objects -> SUBSET (Finders \union {Owner})]
    BY <1>0 DEF Inv, TypeOK
  <1> QED BY <1>0, <1>1, <1>2, <1>3, LifeOnInv DEF Listed

LEMMA ConstructedInv ==
  ASSUME Inv, NEW o \in Objects, Constructed(o)
  PROVE  Inv'
  <1>0. /\ life[o] = "constructing" /\ life' = [life EXCEPT ![o] = "alive"]
        /\ refs' = [refs EXCEPT ![o] = {Owner}]
        /\ UNCHANGED <<table, draining, findVars, id, usable, mutex, allocVars>>
    BY DEF Constructed
  <1>1. refs[o] = {}
    BY <1>0 DEF Inv, Lifecycle
  <1>2. \A p \in Objects : life'[p] \in {"registering", "unregistering", "erased"} => mutex' = p
    BY <1>0 DEF Inv, TypeOK, Lifecycle
  <1>3. \A p \in Objects : refs[p] \subseteq refs'[p] /\ (refs'[p] # {} => life'[p] = "alive")
    BY <1>0, <1>1 DEF Inv, TypeOK, Lifecycle
  <1>4. /\ usable' \in [Objects -> BOOLEAN] /\ refs' \in [Objects -> SUBSET (Finders \union {Owner})]
        /\ mutex' \in Objects \union {NoObject}
    BY <1>0 DEF Inv, TypeOK
  <1> QED BY <1>0, <1>2, <1>3, <1>4, LifeOnInv DEF Listed

LEMMA EraseInv ==
  ASSUME Inv, NEW o \in Objects, Erase(o)
  PROVE  Inv'
  <1>0. /\ life[o] = "unregistering" /\ life' = [life EXCEPT ![o] = "erased"]
        /\ table' = {e \in table : e[1] # id[o]} /\ draining' = Looking
        /\ UNCHANGED <<findVars, id, usable, refs, mutex, allocVars>>
    BY DEF Erase
  <1>1. Looking' = Looking /\ find' = find /\ snap' = snap
    BY <1>0 DEF Looking, findVars
  <1>2. TypeOK' /\ BitsInRange'
    BY <1>0, <1>1 DEF Inv, TypeOK, BitsInRange, allocVars, Lives
  <1>3. Lifecycle'
    BY <1>0 DEF Inv, TypeOK, Lifecycle
  <1>4. \A e \in table : e[2] \in Objects /\ (e \notin table' <=> e[2] = o)
    BY <1>0 DEF Inv, TypeOK, TableExact
  <1>5. TableExact'
    <2>1. \A e \in table' : life'[e[2]] \in Listed /\ id'[e[2]] = e[1] /\ e[1] # Unknown
      BY <1>0, <1>4 DEF Inv, TypeOK, TableExact
    <2>2. \A p \in Objects : life'[p] \in Listed /\ id'[p] # Unknown => <<id'[p], p>> \in table'
      BY <1>0 DEF Inv, TypeOK, TableExact, Listed
    <2> QED BY <1>0, <2>1, <2>2 DEF Inv, TableExact, allocVars
  <1>6. LookupsCovered'
    <2>1. ASSUME NEW f \in Looking, NEW e \in snap[f]
          PROVE  e \in table' \/ (life'[e[2]] = "erased" /\ f \in draining')
      <3>1. e[2] \in Objects
        BY DEF Inv, TypeOK, Looking
      <3> QED BY <1>0, <1>4, <3>1 DEF Inv, TypeOK, LookupsCovered
    <2> QED BY <1>0, <1>1, <2>1 DEF Inv, LookupsCovered
  <1>7. FoundIsAsked'
    BY <1>0, <1>1 DEF Inv, TypeOK, FoundIsAsked, LookupsCovered, TableExact
  <1> QED BY <1>2, <1>3, <1>5, <1>6, <1>7 DEF Inv

LEMMA UnregisteredInv ==
  ASSUME Inv, NEW o \in Objects, Unregistered(o)
  PROVE  Inv'
  <1> USE DispatcherAssumption DEF DispatcherAssumption
  <1>0. /\ life[o] = "erased" /\ life' = [life EXCEPT ![o] = "none"] /\ draining = {}
        /\ FreeID(id[o]) /\ mutex' = NoObject /\ id' = [id EXCEPT ![o] = Unknown]
        /\ UNCHANGED <<table, draining, findVars, usable, refs>>
        /\ mutex = o
    BY DEF Unregistered, Inv, Lifecycle
  <1>1. Looking' = Looking /\ find' = find /\ snap' = snap
    BY <1>0 DEF Looking, findVars
  <1>2. /\ id[o] \in Nat /\ bits' = bits \ {id[o]} /\ BitsInRange'
        /\ numAllocated' \in 0..Word-1 /\ lastAllocated' \in Nat /\ desiredMaximum' \in Nat
    BY <1>0, FreeInv DEF Inv, TypeOK
  <1>3. TypeOK'
    BY <1>0, <1>1, <1>2 DEF Inv, TypeOK, Lives, BitsInRange, Unknown
  <1>4. Lifecycle'
    BY <1>0, MutexAlone DEF Inv, TypeOK, Lifecycle
  <1>5. \A e \in table : e[2] # o /\ e[2] \in Objects
    BY <1>0 DEF Inv, TypeOK, TableExact, Listed
  <1>6. TableExact'
    <2>1. bits' = {id'[p] : p \in Objects \ Plugins} \ {Unknown}
      <3>1. bits = {id[p] : p \in Objects \ Plugins} \ {Unknown}
        BY DEF Inv, TableExact
      <3>2. \A p \in Objects : p # o => id'[p] = id[p] /\ (id[p] # Unknown => id[p] # id[o])
        BY <1>0 DEF Inv, TypeOK, TableExact
      <3>3. id'[o] = Unknown
        BY <1>0 DEF Inv, TypeOK
      <3>4. CASE o \in Plugins
        <4>1. id[o] \notin bits
          BY <3>4 DEF Inv, TableExact, BitsInRange
        <4> QED BY <1>2, <3>1, <3>2, <3>4, <4>1
      <3>5. CASE o \notin Plugins
        BY <1>2, <3>1, <3>2, <3>3, <3>5
      <3> QED BY <3>4, <3>5
    <2>2. \A e \in table' : life'[e[2]] \in Listed /\ id'[e[2]] = e[1] /\ e[1] # Unknown
      BY <1>0, <1>5 DEF Inv, TypeOK, TableExact
    <2>3. \A p \in Objects : life'[p] \in Listed /\ id'[p] # Unknown => <<id'[p], p>> \in table'
      BY <1>0 DEF Inv, TypeOK, TableExact
    <2>4. \A p, q \in Objects : p # q /\ id'[p] # Unknown => id'[p] # id'[q]
      BY <1>0 DEF Inv, TypeOK, TableExact
    <2>5. \A p \in Plugins : id'[p] \in Reserved
      BY <1>0 DEF Inv, TypeOK, TableExact, Reserved
    <2> QED BY <2>1, <2>2, <2>3, <2>4, <2>5 DEF TableExact
  <1>7. LookupsCovered'
    <2>1. \A f \in Looking : \A e \in snap[f] : e \in table
      BY <1>0 DEF Inv, LookupsCovered
    <2> QED BY <1>0, <1>1, <1>5, <2>1 DEF Inv, TypeOK, LookupsCovered
  <1>8. FoundIsAsked'
    BY <1>0, <1>1 DEF Inv, TypeOK, FoundIsAsked, LookupsCovered
  <1> QED BY <1>2, <1>3, <1>4, <1>6, <1>7, <1>8 DEF Inv

-----------------------------------------------------------------------------
\* Every step preserves the invariant.
LEMMA StepInv == Inv /\ [Next]_vars => Inv'
  <1> SUFFICES ASSUME Inv, [Next]_vars PROVE Inv'
    OBVIOUS
  <1>1. ASSUME NEW f \in Finders, FinderStep(f) \/ \E i \in IDs : StartFind(f, i) PROVE Inv'
    BY <1>1, FinderStepInv, StartFindInv
  <1>2. ASSUME NEW o \in Objects, RegisterObject(o) \/ OwnerDrops(o) \/ ObjectStep(o) PROVE Inv'
    BY <1>2, RegisterObjectInv, OwnerDropsInv, RegisteredInv, ConstructedInv, UnregisterObjectInv,
       EraseInv, UnregisteredInv DEF ObjectStep
  <1>3. CASE UNCHANGED vars
    BY <1>3 DEF vars, findVars, allocVars, Inv, TypeOK, BitsInRange, Lifecycle, TableExact,
       LookupsCovered, FoundIsAsked, Looking
  <1> QED BY <1>1, <1>2, <1>3 DEF Next

\* The inductive invariant holds in every reachable state.
LEMMA Invariant == Spec => []Inv
  <1>1. Init => Inv
    BY InitInv
  <1> QED BY <1>1, StepInv, PTL DEF Spec

\* Table, identifiers, objects and lookups agree under any order of births, deaths and
\* lookups (Dispatcher.cpp): a lookup answers with what was asked for, and the
\* allocator's bits are exactly the identifiers of the objects.
THEOREM TablesAgree == Spec => []DispatcherInv
  <1>1. Inv => DispatcherInv
    BY DEF Inv, DispatcherInv, TableExact, TableMatchesObjects, Listed
  <1> QED BY <1>1, Invariant, PTL

\* An object that a lookup is about to pin is still there (Dispatcher.hpp:64).
THEOREM LookupsSafe == Spec => []NoUseAfterFree
  <1>1. Inv => NoUseAfterFree
    BY AtObject DEF NoUseAfterFree, Listed
  <1> QED BY <1>1, Invariant, PTL

\* A lookup that meets a dying object does not bring it back: destructors run once.
THEOREM DeadStayDead == Spec => NeverResurrected
  <1>1. Inv /\ [Next]_vars =>
          [\A o \in Objects : life[o] \notin {"none", "constructing"} /\ refs[o] = {}
              => refs'[o] = {}]_vars
    <2> SUFFICES ASSUME Inv, Next, NEW o \in Objects,
                        life[o] \notin {"none", "constructing"}, refs[o] = {}
                 PROVE  refs'[o] = {}
      OBVIOUS
    <2>0. refs \in [Objects -> SUBSET (Finders \union {Owner})]
      BY DEF Inv, TypeOK
    <2>1. ASSUME NEW f \in Finders, FinderStep(f) \/ \E i \in IDs : StartFind(f, i)
          PROVE  refs'[o] = {}
      BY <2>0, <2>1 DEF FinderStep, StartFind, Search, LockRegistration, LoadObject, SharedFromThis,
         DropFound, FindNothing
    <2>2. ASSUME NEW p \in Objects, RegisterObject(p) \/ OwnerDrops(p) \/ ObjectStep(p)
          PROVE  refs'[o] = {}
      BY <2>0, <2>2 DEF RegisterObject, OwnerDrops, ObjectStep, Registered, Constructed,
         UnregisterObject, Erase, Unregistered
    <2> QED BY <2>1, <2>2 DEF Next
  <1> QED BY <1>1, Invariant, PTL DEF Spec, NeverResurrected

-----------------------------------------------------------------------------
\* Identifiers are reused late

\* The first identifier of all is the one behind the reserved ones.
LEMMA FirstFound ==
  ASSUME BitsInRange, bits = {}
  PROVE  FindFreeID(2) = 2
  <1> USE DispatcherAssumption DEF DispatcherAssumption
  <1> DEFINE c == chunks * BitsPerChunk
             inside == {i \in 0..c - 1 : IsFree(i)}
             behind == c..c + 2
             q == 2 \div BitsPerChunk
  <1>0. c \in Nat /\ chunks \in Nat
    BY DEF BitsInRange
  <1>1. \A i \in Nat : IsFree(i) <=> i >= 2
    BY DEF IsFree, Reserved, Unknown, PlugInObject
  <1>2. ASSUME NEW i \in inside PROVE SearchRank(2, i) = i - q * BitsPerChunk
    <2> DEFINE p == i \div BitsPerChunk
               d == p - q
    <2>1. i \in Nat /\ i >= 2 /\ i < c
      BY <1>0, <1>1
    <2>2. /\ p \in Nat /\ q \in Nat /\ i % BitsPerChunk \in Nat
          /\ i = p * BitsPerChunk + (i % BitsPerChunk) /\ q <= p /\ p < chunks
      <3>1. p \in Nat /\ q \in Nat /\ i % BitsPerChunk \in 0..BitsPerChunk - 1
        BY <2>1
      <3>2. i = p * BitsPerChunk + (i % BitsPerChunk)
        BY <2>1
      <3>3. q <= p
        BY <2>1
      <3>4. p < chunks
        BY <1>0, <2>1
      <3> QED BY <3>1, <3>2, <3>3, <3>4
    <2> HIDE DEF p, q
    <2>3. d \in Nat /\ d < chunks
      BY <1>0, <2>2
    <2>4. d % chunks = d
      BY <1>0, <2>3
    <2>5. ~(i < 2)
      BY <2>1
    <2>6. SearchRank(2, i) = d * BitsPerChunk + (i % BitsPerChunk)
      BY <2>4, <2>5 DEF SearchRank, p, q
    <2>7. d * BitsPerChunk = p * BitsPerChunk - q * BitsPerChunk
      BY <2>2
    <2> HIDE DEF d
    <2> DEFINE pB == p * BitsPerChunk
               qB == q * BitsPerChunk
               r == i % BitsPerChunk
    <2>8. pB \in Int /\ qB \in Int /\ r \in Int /\ i = pB + r
      BY <2>2
    <2>9. SearchRank(2, i) = pB - qB + r
      BY <2>6, <2>7
    <2> HIDE DEF pB, qB, r
    <2>10. SearchRank(2, i) = i - qB
      BY <2>8, <2>9
    <2> QED BY <2>10 DEF qB
  <1>3. CASE c > 2
    <2>1. 2 \in inside /\ inside \subseteq Nat /\ \A i \in inside : i >= 2
      BY <1>0, <1>1, <1>3
    <2>2. q * BitsPerChunk \in Int
      OBVIOUS
    <2> HIDE DEF inside, q
    <2>3. \A i \in inside : /\ SearchRank(2, 2) <= SearchRank(2, i)
                          /\ (SearchRank(2, i) <= SearchRank(2, 2) => i = 2)
      BY <1>2, <2>1, <2>2
    <2>4. FindFreeID(2) = CHOOSE i \in inside : \A j \in inside : SearchRank(2, i) <= SearchRank(2, j)
      BY <2>1 DEF FindFreeID, inside
    <2>5. \A j \in inside : SearchRank(2, 2) <= SearchRank(2, j)
      BY <2>3
    <2>6. ASSUME NEW i \in inside, \A j \in inside : SearchRank(2, i) <= SearchRank(2, j)
          PROVE  i = 2
      <3>1. SearchRank(2, i) <= SearchRank(2, 2)
        BY <2>1, <2>6
      <3> QED BY <2>3, <3>1
    <2> QED BY <2>1, <2>4, <2>5, <2>6
  <1>4. CASE ~(c > 2)
    <2>1. inside = {}
      BY <1>0, <1>1, <1>4
    <2>2. FindFreeID(2) = Least(behind \ Reserved)
      BY <2>1 DEF FindFreeID
    <2>3. 2 \in behind \ Reserved /\ \A i \in behind \ Reserved : i >= 2 /\ i \in Nat
      BY <1>0, <1>4 DEF Reserved, Unknown, PlugInObject
    <2>4. Least(behind \ Reserved) = 2
      BY <2>3 DEF Least
    <2> QED BY <2>2, <2>4
  <1> QED BY <1>3, <1>4

\* The first time round, the identifiers handed out are a range that each
\* allocation makes one longer.
FirstRound == /\ used = 2..lastAllocated
              /\ bits \subseteq used
              /\ lastAllocated # 1

\* Every identifier of the first range was handed out once.
Exhausted == \A i \in 2..hint - 1 : i \in used

\* The inductive invariant about reuse.
Rounds == /\ hint \in Nat
          /\ hint <= desiredMaximum
          /\ FirstRound \/ Exhausted

LEMMA RoundsInit == Init => Rounds
  BY DispatcherAssumption DEF Init, Rounds, FirstRound, DispatcherAssumption

LEMMA AllocateRounds ==
  ASSUME TypeOK, BitsInRange, Rounds, NEW i, AllocateID(i)
  PROVE  Rounds' /\ (i \in used => Exhausted)
  <1> USE DispatcherAssumption DEF DispatcherAssumption
  <1>0. /\ i = NextID /\ used' = used \union {i} /\ bits' = bits \union {i}
        /\ lastAllocated' = i /\ desiredMaximum' = GrownMaximum /\ hint' = hint
    BY DEF AllocateID
  <1>1. /\ lastAllocated \in Nat /\ desiredMaximum \in Nat
        /\ hint \in Nat /\ hint <= desiredMaximum
    BY DEF TypeOK, Rounds
  <1>2. GrownMaximum \in Nat /\ desiredMaximum <= GrownMaximum
    BY <1>1 DEF GrownMaximum
  <1>3. hint' \in Nat /\ hint' <= desiredMaximum'
    BY <1>0, <1>1, <1>2
  <1>4. CASE Exhausted
    <2>1. Exhausted'
      BY <1>0, <1>4 DEF Exhausted
    <2> QED BY <1>3, <1>4, <2>1 DEF Rounds
  <1>5. CASE ~Exhausted
    <2>0. FirstRound
      BY <1>5 DEF Rounds
    <2>1. lastAllocated + 1 < hint
      BY <1>1, <1>5, <2>0 DEF Exhausted, FirstRound
    <2>2. ~(lastAllocated + 1 >= GrownMaximum)
      BY <1>1, <1>2, <2>1
    <2>3. CASE lastAllocated = 0
      <3>1. used = {} /\ bits = {}
        BY <2>0, <2>3 DEF FirstRound
      <3>2. ~IsFree(lastAllocated + 1)
        BY <2>3 DEF IsFree, Reserved, PlugInObject
      <3>3. i = FindFreeID(2)
        BY <1>0, <2>2, <2>3, <3>2 DEF NextID
      <3>4. i = 2
        BY <3>1, <3>3, FirstFound
      <3>5. FirstRound'
        BY <1>0, <3>1, <3>4 DEF FirstRound
      <3> QED BY <1>3, <3>1, <3>5 DEF Rounds
    <2>4. CASE lastAllocated # 0
      <3>1. lastAllocated >= 2
        BY <1>1, <2>0, <2>4 DEF FirstRound
      <3>2. IsFree(lastAllocated + 1)
        BY <1>1, <2>0, <3>1 DEF FirstRound, IsFree, Reserved, Unknown, PlugInObject
      <3>3. i = lastAllocated + 1
        BY <1>0, <2>2, <3>2 DEF NextID
      <3>4. FirstRound' /\ i \notin used
        BY <1>0, <1>1, <2>0, <3>1, <3>3 DEF FirstRound
      <3> QED BY <1>3, <3>4 DEF Rounds
    <2> QED BY <2>3, <2>4
  <1> QED BY <1>4, <1>5

\* In a step, identifiers are handed out by an allocation or not at all.
LEMMA RoundsStep ==
  ASSUME Inv, Rounds, [Next]_vars
  PROVE  /\ Rounds'
         /\ \A o \in Objects \ Plugins : id[o] = Unknown /\ id'[o] \in used => Exhausted
  <1>0. TypeOK /\ BitsInRange
    BY DEF Inv
  <1>1. Unknown \in used => Exhausted
    BY <1>0 DEF Rounds, FirstRound, Unknown, TypeOK
  <1>2. ASSUME UNCHANGED allocVars PROVE Rounds'
    BY <1>2 DEF Rounds, FirstRound, Exhausted, allocVars
  <1>3. ASSUME NEW p \in Objects, RegisterObject(p)
        PROVE  /\ Rounds'
               /\ \A o \in Objects \ Plugins : id[o] = Unknown /\ id'[o] \in used => Exhausted
    <2>1. CASE p \in Plugins
      <3>1. UNCHANGED allocVars
        BY <1>3, <2>1 DEF RegisterObject
      <3>2. \A o \in Objects \ Plugins : id'[o] = id[o]
        BY <1>0, <1>3, <2>1 DEF RegisterObject, TypeOK
      <3> QED BY <1>1, <1>2, <3>1, <3>2
    <2>2. CASE p \notin Plugins
      <3>1. AllocateID(NextID)
        BY <1>3, <2>2 DEF RegisterObject
      <3>2. \A o \in Objects : id'[o] \in {id[o], Unknown, NextID}
        BY <1>0, <1>3, <2>2 DEF RegisterObject, TypeOK
      <3> QED BY <1>0, <1>1, <3>1, <3>2, AllocateRounds
    <2> QED BY <2>1, <2>2
  <1>4. ASSUME NEW p \in Objects, Unregistered(p)
        PROVE  Rounds' /\ \A o \in Objects : id'[o] \in {id[o], Unknown}
    <2>1. bits' \subseteq bits /\ UNCHANGED <<lastAllocated, desiredMaximum, used, hint>>
      BY <1>4 DEF Unregistered, FreeID
    <2>2. Rounds'
      BY <2>1 DEF Rounds, FirstRound, Exhausted
    <2>3. \A o \in Objects : id'[o] \in {id[o], Unknown}
      BY <1>0, <1>4 DEF Unregistered, TypeOK
    <2> QED BY <2>2, <2>3
  <1>5. ASSUME NEW f \in Finders, FinderStep(f) \/ \E i \in IDs : StartFind(f, i)
        PROVE  UNCHANGED allocVars /\ id' = id
    BY <1>5 DEF FinderStep, StartFind, Search, LockRegistration, LoadObject, SharedFromThis,
       DropFound, FindNothing
  <1>6. ASSUME NEW p \in Objects,
               OwnerDrops(p) \/ Registered(p) \/ Constructed(p) \/ UnregisterObject(p) \/ Erase(p)
        PROVE  UNCHANGED allocVars /\ id' = id
    BY <1>6 DEF OwnerDrops, Registered, Constructed, UnregisterObject, Erase
  <1>7. CASE UNCHANGED vars
    BY <1>1, <1>2, <1>7 DEF vars
  <1> QED BY <1>1, <1>2, <1>3, <1>4, <1>5, <1>6, <1>7 DEF Next, ObjectStep

\* "The allocation algorithm tries to delay identifier reuse" (Dispatcher.hpp:34,
\* Dispatcher.cpp:175-216): whatever the first range, the size of the chunks and the order
\* of births and deaths, nothing is reused before the first range is used up.
THEOREM ReuseIsDelayed == Spec => ReuseOnlyWhenExhausted
  <1>1. Inv /\ Rounds /\ [Next]_vars => Rounds'
    BY RoundsStep
  <1>2. Inv /\ Rounds /\ [Next]_vars =>
          [\A o \in Objects \ Plugins : id[o] = Unknown /\ id'[o] \in used =>
              \A i \in 2..hint - 1 : i \in used]_vars
    BY RoundsStep DEF Exhausted
  <1>3. Spec => []Rounds
    BY <1>1, RoundsInit, Invariant, PTL DEF Spec
  <1> QED BY <1>2, <1>3, Invariant, PTL DEF Spec, ReuseOnlyWhenExhausted

-----------------------------------------------------------------------------
\* The switches of the classes

\* Getters that any object may use; the others return a list that is stored.
CountedGetters == {"one", "GetRelatedDeviceIDs", "GetPreferredChannelsForStereo",
                   "GetOwnedObjectIDs", "GetDeviceIDs", "GetStreamIDs", "GetControlIDs",
                   "GetCustomProperties"}

\* A case of the switch on sizes and the case of the switch on data belong
\* together; whole lists are single values and the channel layout.
Entry(s, size, get, lists) ==
  /\ size[s].width \in Nat \ {0}
  /\ size[s].getter \in CountedGetters \union lists
  /\ get[s].width = size[s].width
  /\ get[s].getter = size[s].getter
  /\ get[s].whole => \/ size[s].getter = "one"
                     \/ s = "PreferredChannelLayout" /\ size[s].getter = "GetPreferredChannelLayout"

\* The five switches of a class, or of a part of its selectors, agree: they
\* know the same selectors, and the settable ones are those with a setter.
Fit(has, settable, size, get, set, selectors, lists) ==
  /\ \A s, scope : <<s, scope>> \in has => s \in selectors
  /\ \A s \in selectors : \E scope \in Scopes : <<s, scope>> \in has
  /\ DOMAIN settable = selectors
  /\ DOMAIN size = selectors
  /\ DOMAIN get = selectors
  /\ DOMAIN set \subseteq selectors
  /\ \A s \in selectors : Entry(s, size, get, lists)
  /\ \A s \in selectors \ DOMAIN set : settable[s] = FALSE
  /\ \A s \in DOMAIN set : /\ settable[s] = TRUE
                           /\ size[s].getter = "one"
                           /\ size[s].width = set[s]

\* Switches that fit together for two parts do so for both.
LEMMA MergedFits ==
  ASSUME NEW H1, NEW E1, NEW Z1, NEW G1, NEW S1, NEW D1,
         NEW H2, NEW E2, NEW Z2, NEW G2, NEW S2, NEW D2, NEW lists,
         Fit(H1, E1, Z1, G1, S1, D1, lists), Fit(H2, E2, Z2, G2, S2, D2, lists), D1 \intersect D2 = {}
  PROVE  Fit(H1 \union H2, E1 ++ E2, Z1 ++ Z2, G1 ++ G2, S1 ++ S2, D1 \union D2, lists)
<1> DEFINE H == H1 \union H2
           E == E1 ++ E2
           Z == Z1 ++ Z2
           G == G1 ++ G2
           S == S1 ++ S2
           D == D1 \union D2
<1>a. /\ DOMAIN E1 = D1 /\ DOMAIN Z1 = D1 /\ DOMAIN G1 = D1 /\ DOMAIN S1 \subseteq D1
      /\ DOMAIN E2 = D2 /\ DOMAIN Z2 = D2 /\ DOMAIN G2 = D2 /\ DOMAIN S2 \subseteq D2
  BY Zenon DEF Fit
<1>b. /\ DOMAIN E = D
      /\ \A s \in D1 : E[s] = E1[s]
      /\ \A s \in D2 : E[s] = E2[s]
  BY <1>a DEF ++
<1>c. /\ DOMAIN Z = D
      /\ \A s \in D1 : Z[s] = Z1[s]
      /\ \A s \in D2 : Z[s] = Z2[s]
  BY <1>a DEF ++
<1>d. /\ DOMAIN G = D
      /\ \A s \in D1 : G[s] = G1[s]
      /\ \A s \in D2 : G[s] = G2[s]
  BY <1>a DEF ++
<1>1. /\ DOMAIN E = D /\ DOMAIN Z = D /\ DOMAIN G = D
      /\ DOMAIN S = DOMAIN S1 \union DOMAIN S2
      /\ DOMAIN S1 \subseteq D1 /\ DOMAIN S2 \subseteq D2
  BY <1>a, <1>b, <1>c, <1>d DEF ++
<1>2. \A s \in D1 : E[s] = E1[s] /\ Z[s] = Z1[s] /\ G[s] = G1[s]
  BY <1>b, <1>c, <1>d
<1>3. \A s \in D2 : E[s] = E2[s] /\ Z[s] = Z2[s] /\ G[s] = G2[s]
  BY <1>b, <1>c, <1>d
<1>4. /\ \A s \in DOMAIN S1 : S[s] = S1[s]
      /\ \A s \in DOMAIN S2 : S[s] = S2[s]
  BY <1>a DEF ++
<1> HIDE DEF E, Z, G, S
<1>5. \A s \in D : Entry(s, Z, G, lists)
  BY <1>2, <1>3 DEF Fit, Entry
<1>6. \A s \in D \ DOMAIN S : E[s] = FALSE
  BY <1>1, <1>2, <1>3 DEF Fit
<1>7. \A s \in DOMAIN S : E[s] = TRUE /\ Z[s].getter = "one" /\ Z[s].width = S[s]
  BY <1>1, <1>2, <1>3, <1>4 DEF Fit
<1>8. /\ \A s, scope : <<s, scope>> \in H => s \in D
      /\ \A s \in D : \E scope \in Scopes : <<s, scope>> \in H
  <2>1. /\ \A s, scope : <<s, scope>> \in H1 => s \in D1
        /\ \A s \in D1 : \E scope \in Scopes : <<s, scope>> \in H1
        /\ \A s, scope : <<s, scope>> \in H2 => s \in D2
        /\ \A s \in D2 : \E scope \in Scopes : <<s, scope>> \in H2
    BY DEF Fit
  <2> QED BY <2>1, Zenon
<1>9. Fit(H, E, Z, G, S, D, lists)
  BY <1>1, <1>5, <1>6, <1>7, <1>8 DEF Fit
<1> QED BY <1>9 DEF E, Z, G, S

DeviceLists == {"GetAvailableSampleRates", "GetPreferredChannelLayout"}
StreamLists == {"GetAvailablePhysicalFormats", "GetAvailableVirtualFormats"}

\* What every object has.
ObjectSelectors ==
  {"Class", "BaseClass", "Owner", "OwnedObjects", "CustomPropertyInfoList"}

LEMMA ObjectFits ==
  ASSUME NEW lists
  PROVE
  Fit(ObjectHas, ObjectSettable, ObjectSize, ObjectGet,
      ObjectSet, ObjectSelectors, lists)
<1>1. DOMAIN ObjectSettable = ObjectSelectors /\ DOMAIN ObjectSize = ObjectSelectors
  BY DEF ObjectSelectors, ObjectSettable, No, ObjectSize, Each, ++
<1>2. DOMAIN ObjectGet = ObjectSelectors
  BY DEF ObjectSelectors, ObjectGet, ObjectGetIdentity, ObjectGetLists, Each, ++
<1>3. /\ \A s, scope : <<s, scope>> \in ObjectHas => s \in ObjectSelectors
      /\ \A s \in ObjectSelectors : \E scope \in Scopes : <<s, scope>> \in ObjectHas
  BY DEF ObjectSelectors, ObjectHas, Everywhere, Scopes
<1>4. /\ \A s \in {"Class", "BaseClass"} :
           ObjectSize[s] = One(UInt32) /\ ObjectGet[s] = One(UInt32)
      /\ ObjectSize["Owner"] = One(AudioObjectID)
      /\ ObjectGet["Owner"] = One(AudioObjectID)
      /\ ObjectSize["OwnedObjects"] = List(AudioObjectID, "GetOwnedObjectIDs")
      /\ ObjectGet["OwnedObjects"] = List(AudioObjectID, "GetOwnedObjectIDs")
      /\ ObjectSize["CustomPropertyInfoList"] = List(CustomPropertyInfo, "GetCustomProperties")
      /\ ObjectGet["CustomPropertyInfoList"] = List(CustomPropertyInfo, "GetCustomProperties")
  BY DEF ObjectSize, ObjectGet, ObjectGetIdentity, ObjectGetLists, Each, ++
<1>5. \A s \in ObjectSelectors : Entry(s, ObjectSize, ObjectGet, lists)
  BY <1>4 DEF ObjectSelectors, Entry, CountedGetters, One, List, UInt32, AudioObjectID,
         CustomPropertyInfo
<1>6. DOMAIN ObjectSet = {}
  BY DEF ObjectSet
<1>7. \A s \in ObjectSelectors : ObjectSettable[s] = FALSE
  BY DEF ObjectSelectors, ObjectSettable, No
<1> QED BY <1>1, <1>2, <1>3, <1>5, <1>6, <1>7 DEF Fit

\* The device: what it is, its clock and formats, its state.
IdentitySelectors ==
  {"Name", "Manufacturer", "DeviceUID", "ModelUID", "SerialNumber", "FirmwareVersion",
   "Icon", "ConfigurationApplication", "TransportType"}

LEMMA IdentityFits ==
  Fit(DeviceHasIdentity, DeviceSettableIdentity, DeviceSizeIdentity, DeviceGetIdentity,
      <<>>, IdentitySelectors, DeviceLists)
<1>1. DOMAIN DeviceSettableIdentity = IdentitySelectors /\ DOMAIN DeviceSizeIdentity = IdentitySelectors
  BY DEF IdentitySelectors, DeviceSettableIdentity, No, DeviceSizeIdentity, Each, ++
<1>2. DOMAIN DeviceGetIdentity = IdentitySelectors
  BY DEF IdentitySelectors, DeviceGetIdentity, DeviceGetNames, DeviceGetProduct, Each, ++
<1>3. /\ \A s, scope : <<s, scope>> \in DeviceHasIdentity => s \in IdentitySelectors
      /\ \A s \in IdentitySelectors : \E scope \in Scopes : <<s, scope>> \in DeviceHasIdentity
  BY DEF IdentitySelectors, DeviceHasIdentity, Everywhere, Scopes
<1>4. /\ \A s \in {"Name", "Manufacturer", "DeviceUID", "ModelUID", "SerialNumber",
                     "FirmwareVersion", "ConfigurationApplication"} :
           DeviceSizeIdentity[s] = One(CFStringRef) /\ DeviceGetIdentity[s] = One(CFStringRef)
      /\ DeviceSizeIdentity["Icon"] = One(CFURLRef)
      /\ DeviceGetIdentity["Icon"] = One(CFURLRef)
      /\ DeviceSizeIdentity["TransportType"] = One(UInt32)
      /\ DeviceGetIdentity["TransportType"] = One(UInt32)
  BY DEF DeviceSizeIdentity, DeviceGetIdentity, DeviceGetNames, DeviceGetProduct, Each, ++
<1>5. \A s \in IdentitySelectors : Entry(s, DeviceSizeIdentity, DeviceGetIdentity, DeviceLists)
  BY <1>4 DEF IdentitySelectors, Entry, CountedGetters, One, CFStringRef, CFURLRef, UInt32
<1>6. DOMAIN <<>> = {}
  OBVIOUS
<1>7. \A s \in IdentitySelectors : DeviceSettableIdentity[s] = FALSE
  BY DEF IdentitySelectors, DeviceSettableIdentity, No
<1> QED BY <1>1, <1>2, <1>3, <1>5, <1>6, <1>7 DEF Fit

FormatSelectors ==
  {"RelatedDevices", "ClockIsStable", "ClockAlgorithm", "ClockDomain", "Latency",
   "SafetyOffset", "ZeroTimeStampPeriod", "NominalSampleRate",
   "AvailableNominalSampleRates", "PreferredChannelsForStereo"}

LEMMA FormatFits ==
  Fit(DeviceHasFormat, DeviceSettableFormat, DeviceSizeFormat, DeviceGetMeasures,
      Each({"NominalSampleRate"}, Float64), FormatSelectors, DeviceLists)
<1>1. DOMAIN DeviceSettableFormat = FormatSelectors /\ DOMAIN DeviceSizeFormat = FormatSelectors
  BY DEF FormatSelectors, DeviceSettableFormat, No, Yes, DeviceSizeFormat, Each, ++
<1>2. DOMAIN DeviceGetMeasures = FormatSelectors
  BY DEF FormatSelectors, DeviceGetMeasures, DeviceGetClock, DeviceGetFormat, Each, ++
<1>3. /\ \A s, scope : <<s, scope>> \in DeviceHasFormat => s \in FormatSelectors
      /\ \A s \in FormatSelectors : \E scope \in Scopes : <<s, scope>> \in DeviceHasFormat
  BY DEF FormatSelectors, DeviceHasFormat, Everywhere, InputOrOutput, Scopes
<1>4. /\ \A s \in {"ClockIsStable", "ClockAlgorithm", "ClockDomain", "Latency",
                     "SafetyOffset", "ZeroTimeStampPeriod"} :
           DeviceSizeFormat[s] = One(UInt32) /\ DeviceGetMeasures[s] = One(UInt32)
      /\ DeviceSizeFormat["RelatedDevices"] = List(AudioObjectID, "GetRelatedDeviceIDs")
      /\ DeviceGetMeasures["RelatedDevices"] = List(AudioObjectID, "GetRelatedDeviceIDs")
      /\ DeviceSizeFormat["NominalSampleRate"] = One(Float64)
      /\ DeviceGetMeasures["NominalSampleRate"] = One(Float64)
      /\ DeviceSizeFormat["AvailableNominalSampleRates"] = List(AudioValueRange, "GetAvailableSampleRates")
      /\ DeviceGetMeasures["AvailableNominalSampleRates"] = List(AudioValueRange, "GetAvailableSampleRates")
      /\ DeviceSizeFormat["PreferredChannelsForStereo"] = List(UInt32, "GetPreferredChannelsForStereo")
      /\ DeviceGetMeasures["PreferredChannelsForStereo"] = List(UInt32, "GetPreferredChannelsForStereo")
  BY DEF DeviceSizeFormat, DeviceGetMeasures, DeviceGetClock, DeviceGetFormat, Each, ++
<1>5. \A s \in FormatSelectors : Entry(s, DeviceSizeFormat, DeviceGetMeasures, DeviceLists)
  BY <1>4 DEF FormatSelectors, Entry, CountedGetters, One, List, UInt32, Float64,
         AudioObjectID, AudioValueRange, DeviceLists
<1>6. DOMAIN Each({"NominalSampleRate"}, Float64) = {"NominalSampleRate"}
  BY DEF Each
<1>7. /\ \A s \in FormatSelectors \ {"NominalSampleRate"} : DeviceSettableFormat[s] = FALSE
      /\ DeviceSettableFormat["NominalSampleRate"] = TRUE
      /\ Each({"NominalSampleRate"}, Float64)["NominalSampleRate"] = Float64
      /\ {"NominalSampleRate"} \subseteq FormatSelectors
  BY DEF FormatSelectors, DeviceSettableFormat, No, Yes, Each, ++
<1> QED BY <1>1, <1>2, <1>3, <1>4, <1>5, <1>6, <1>7 DEF Fit, One

StateSelectors ==
  {"PreferredChannelLayout", "DeviceIsRunning", "Identify", "DeviceIsAlive", "IsHidden",
   "DeviceCanBeDefaultDevice", "DeviceCanBeDefaultSystemDevice", "Streams",
   "ControlList"}

LEMMA StateFits ==
  Fit(DeviceHasState, DeviceSettableState, DeviceSizeState, DeviceGetUse,
      Each({"Identify"}, UInt32), StateSelectors, DeviceLists)
<1>1. DOMAIN DeviceSettableState = StateSelectors /\ DOMAIN DeviceSizeState = StateSelectors
  BY DEF StateSelectors, DeviceSettableState, No, Yes, DeviceSizeState, Each, ++
<1>2. DOMAIN DeviceGetUse = StateSelectors
  BY DEF StateSelectors, DeviceGetUse, DeviceGetState, DeviceGetParts, Each, ++
<1>3. /\ \A s, scope : <<s, scope>> \in DeviceHasState => s \in StateSelectors
      /\ \A s \in StateSelectors : \E scope \in Scopes : <<s, scope>> \in DeviceHasState
  BY DEF StateSelectors, DeviceHasState, Everywhere, InputOrOutput, Scopes
<1>4. /\ \A s \in {"DeviceIsRunning", "Identify", "DeviceIsAlive", "IsHidden",
                     "DeviceCanBeDefaultDevice",
                     "DeviceCanBeDefaultSystemDevice"} :
           DeviceSizeState[s] = One(UInt32) /\ DeviceGetUse[s] = One(UInt32)
      /\ DeviceSizeState["PreferredChannelLayout"] = List(UInt8, "GetPreferredChannelLayout")
      /\ DeviceGetUse["PreferredChannelLayout"] = Whole(UInt8, "GetPreferredChannelLayout")
      /\ DeviceSizeState["Streams"] = List(AudioObjectID, "GetStreamIDs")
      /\ DeviceGetUse["Streams"] = List(AudioObjectID, "GetStreamIDs")
      /\ DeviceSizeState["ControlList"] = List(AudioObjectID, "GetControlIDs")
      /\ DeviceGetUse["ControlList"] = List(AudioObjectID, "GetControlIDs")
  BY DEF DeviceSizeState, DeviceGetUse, DeviceGetState, DeviceGetParts, Each, ++
<1>5. \A s \in StateSelectors : Entry(s, DeviceSizeState, DeviceGetUse, DeviceLists)
  BY <1>4 DEF StateSelectors, Entry, CountedGetters, One, List, Whole, UInt8, UInt32,
         AudioObjectID, DeviceLists
<1>6. DOMAIN Each({"Identify"}, UInt32) = {"Identify"}
  BY DEF Each
<1>7. /\ \A s \in StateSelectors \ {"Identify"} : DeviceSettableState[s] = FALSE
      /\ DeviceSettableState["Identify"] = TRUE
      /\ Each({"Identify"}, UInt32)["Identify"] = UInt32
      /\ {"Identify"} \subseteq StateSelectors
  BY DEF StateSelectors, DeviceSettableState, No, Yes, Each, ++
<1> QED BY <1>1, <1>2, <1>3, <1>4, <1>5, <1>6, <1>7 DEF Fit, One

DeviceSelectors == IdentitySelectors \union FormatSelectors \union StateSelectors

LEMMA DeviceFits ==
  Fit(DeviceHas, DeviceSettable, DeviceSize, DeviceGet, DeviceSet, DeviceSelectors, DeviceLists)
<1> DEFINE Rate == Each({"NominalSampleRate"}, Float64)
           Lamp == Each({"Identify"}, UInt32)
<1>1. IdentitySelectors \intersect FormatSelectors = {}
  BY DEF IdentitySelectors, FormatSelectors
<1>2. (IdentitySelectors \union FormatSelectors) \intersect StateSelectors = {}
  BY DEF IdentitySelectors, FormatSelectors, StateSelectors
<1>3. <<>> ++ Rate = Rate
  BY DEF ++, Each
<1> HIDE DEF Rate, Lamp
<1>4. Fit(DeviceHasIdentity \union DeviceHasFormat, DeviceSettableIdentity ++ DeviceSettableFormat,
          DeviceSizeIdentity ++ DeviceSizeFormat, DeviceGetIdentity ++ DeviceGetMeasures,
          <<>> ++ Rate, IdentitySelectors \union FormatSelectors, DeviceLists)
  BY <1>1, IdentityFits, FormatFits, MergedFits DEF Rate
<1>5. Fit(DeviceHas, DeviceSettable, DeviceSize, DeviceGet, Rate ++ Lamp, DeviceSelectors, DeviceLists)
  BY <1>2, <1>3, <1>4, StateFits, MergedFits
     DEF Lamp, DeviceHas, DeviceSettable, DeviceSize, DeviceGet, DeviceSelectors
<1> QED BY <1>5 DEF DeviceSet, Rate, Lamp

\* The plug-in.
PluginSelectors ==
  {"Manufacturer", "ResourceBundle", "DeviceList", "TranslateUIDToDevice"}

LEMMA PluginFits ==
  Fit(PluginHas, PluginSettable, PluginSize, PluginGet,
      PluginSet, PluginSelectors, {})
<1>1. DOMAIN PluginSettable = PluginSelectors /\ DOMAIN PluginSize = PluginSelectors
  BY DEF PluginSelectors, PluginSettable, No, PluginSize, Each, ++
<1>2. DOMAIN PluginGet = PluginSelectors
  BY DEF PluginSelectors, PluginGet, PluginGetNames, PluginGetDevices, Each, ++
<1>3. /\ \A s, scope : <<s, scope>> \in PluginHas => s \in PluginSelectors
      /\ \A s \in PluginSelectors : \E scope \in Scopes : <<s, scope>> \in PluginHas
  BY DEF PluginSelectors, PluginHas, Everywhere, Scopes
<1>4. /\ \A s \in {"Manufacturer", "ResourceBundle"} :
           PluginSize[s] = One(CFStringRef) /\ PluginGet[s] = One(CFStringRef)
      /\ PluginSize["DeviceList"] = List(AudioObjectID, "GetDeviceIDs")
      /\ PluginGet["DeviceList"] = List(AudioObjectID, "GetDeviceIDs")
      /\ PluginSize["TranslateUIDToDevice"] = One(AudioObjectID)
      /\ PluginGet["TranslateUIDToDevice"] = One(AudioObjectID)
  BY DEF PluginSize, PluginGet, PluginGetNames, PluginGetDevices, Each, ++
<1>5. \A s \in PluginSelectors : Entry(s, PluginSize, PluginGet, {})
  BY <1>4 DEF PluginSelectors, Entry, CountedGetters, One, List, CFStringRef, AudioObjectID
<1>6. DOMAIN PluginSet = {}
  BY DEF PluginSet
<1>7. \A s \in PluginSelectors : PluginSettable[s] = FALSE
  BY DEF PluginSelectors, PluginSettable, No
<1> QED BY <1>1, <1>2, <1>3, <1>5, <1>6, <1>7 DEF Fit

\* A stream.
StreamSelectors ==
  {"IsActive", "Direction", "TerminalType", "StartingChannel", "Latency",
   "PhysicalFormat", "VirtualFormat", "AvailablePhysicalFormats",
   "AvailableVirtualFormats"}

LEMMA StreamFits ==
  Fit(StreamHas, StreamSettable, StreamSize, StreamGet,
      StreamSet, StreamSelectors, StreamLists)
<1>1. DOMAIN StreamSettable = StreamSelectors /\ DOMAIN StreamSize = StreamSelectors
  BY DEF StreamSelectors, StreamSettable, No, Yes, StreamSize, Each, ++
<1>2. DOMAIN StreamGet = StreamSelectors
  BY DEF StreamSelectors, StreamGet, StreamGetPlace, StreamGetFormat, Each, ++
<1>3. /\ \A s, scope : <<s, scope>> \in StreamHas => s \in StreamSelectors
      /\ \A s \in StreamSelectors : \E scope \in Scopes : <<s, scope>> \in StreamHas
  BY DEF StreamSelectors, StreamHas, Everywhere, Scopes
<1>4. /\ \A s \in {"IsActive", "Direction", "TerminalType", "StartingChannel",
                     "Latency"} :
           StreamSize[s] = One(UInt32) /\ StreamGet[s] = One(UInt32)
      /\ \A s \in {"PhysicalFormat", "VirtualFormat"} :
           StreamSize[s] = One(AudioStreamBasicDescription) /\ StreamGet[s] = One(AudioStreamBasicDescription)
      /\ StreamSize["AvailablePhysicalFormats"] = List(AudioStreamRangedDescription, "GetAvailablePhysicalFormats")
      /\ StreamGet["AvailablePhysicalFormats"] = List(AudioStreamRangedDescription, "GetAvailablePhysicalFormats")
      /\ StreamSize["AvailableVirtualFormats"] = List(AudioStreamRangedDescription, "GetAvailableVirtualFormats")
      /\ StreamGet["AvailableVirtualFormats"] = List(AudioStreamRangedDescription, "GetAvailableVirtualFormats")
  BY DEF StreamSize, StreamGet, StreamGetPlace, StreamGetFormat, Each, ++
<1>5. \A s \in StreamSelectors : Entry(s, StreamSize, StreamGet, StreamLists)
  BY <1>4 DEF StreamSelectors, Entry, CountedGetters, One, List, UInt32,
         AudioStreamBasicDescription, AudioStreamRangedDescription, StreamLists
<1>6. DOMAIN StreamSet = {"IsActive", "PhysicalFormat", "VirtualFormat"}
  BY DEF StreamSet, Each, ++
<1>7. /\ \A s \in StreamSelectors \ {"IsActive", "PhysicalFormat", "VirtualFormat"} : StreamSettable[s] = FALSE
      /\ StreamSettable["IsActive"] = TRUE
      /\ StreamSet["IsActive"] = UInt32
      /\ StreamSettable["PhysicalFormat"] = TRUE
      /\ StreamSet["PhysicalFormat"] = AudioStreamBasicDescription
      /\ StreamSettable["VirtualFormat"] = TRUE
      /\ StreamSet["VirtualFormat"] = AudioStreamBasicDescription
      /\ {"IsActive", "PhysicalFormat", "VirtualFormat"} \subseteq StreamSelectors
  BY DEF StreamSelectors, StreamSettable, No, Yes, StreamSet, Each, ++
<1> QED BY <1>1, <1>2, <1>3, <1>4, <1>5, <1>6, <1>7 DEF Fit, One

\* The two controls.
VolumeSelectors ==
  {"Scope", "Element", "ScalarValue", "DecibelValue", "DecibelRange",
   "ConvertScalarToDecibels", "ConvertDecibelsToScalar"}

LEMMA VolumeFits ==
  Fit(VolumeHas, VolumeSettable, VolumeSize, VolumeGet,
      VolumeSet, VolumeSelectors, {})
<1>1. DOMAIN VolumeSettable = VolumeSelectors /\ DOMAIN VolumeSize = VolumeSelectors
  BY DEF VolumeSelectors, VolumeSettable, No, Yes, VolumeSize, Each, ++
<1>2. DOMAIN VolumeGet = VolumeSelectors
  BY DEF VolumeSelectors, VolumeGet, VolumeGetValue, VolumeGetRange, Each, ++
<1>3. /\ \A s, scope : <<s, scope>> \in VolumeHas => s \in VolumeSelectors
      /\ \A s \in VolumeSelectors : \E scope \in Scopes : <<s, scope>> \in VolumeHas
  BY DEF VolumeSelectors, VolumeHas, Everywhere, Scopes
<1>4. /\ \A s \in {"Scope", "Element"} :
           VolumeSize[s] = One(UInt32) /\ VolumeGet[s] = One(UInt32)
      /\ \A s \in {"ScalarValue", "DecibelValue", "ConvertScalarToDecibels",
                     "ConvertDecibelsToScalar"} :
           VolumeSize[s] = One(Float32) /\ VolumeGet[s] = One(Float32)
      /\ VolumeSize["DecibelRange"] = One(AudioValueRange)
      /\ VolumeGet["DecibelRange"] = One(AudioValueRange)
  BY DEF VolumeSize, VolumeGet, VolumeGetValue, VolumeGetRange, Each, ++
<1>5. \A s \in VolumeSelectors : Entry(s, VolumeSize, VolumeGet, {})
  BY <1>4 DEF VolumeSelectors, Entry, CountedGetters, One, UInt32, Float32, AudioValueRange
<1>6. DOMAIN VolumeSet = {"ScalarValue", "DecibelValue"}
  BY DEF VolumeSet, Each
<1>7. /\ \A s \in VolumeSelectors \ {"ScalarValue", "DecibelValue"} : VolumeSettable[s] = FALSE
      /\ VolumeSettable["ScalarValue"] = TRUE
      /\ VolumeSet["ScalarValue"] = Float32
      /\ VolumeSettable["DecibelValue"] = TRUE
      /\ VolumeSet["DecibelValue"] = Float32
      /\ {"ScalarValue", "DecibelValue"} \subseteq VolumeSelectors
  BY DEF VolumeSelectors, VolumeSettable, No, Yes, VolumeSet, Each, ++
<1> QED BY <1>1, <1>2, <1>3, <1>4, <1>5, <1>6, <1>7 DEF Fit, One

MuteSelectors ==
  {"Scope", "Element", "BooleanControlValue"}

LEMMA MuteFits ==
  Fit(MuteHas, MuteSettable, MuteSize, MuteGet,
      MuteSet, MuteSelectors, {})
<1>1. DOMAIN MuteSettable = MuteSelectors /\ DOMAIN MuteSize = MuteSelectors
  BY DEF MuteSelectors, MuteSettable, No, Yes, MuteSize, Each, ++
<1>2. DOMAIN MuteGet = MuteSelectors
  BY DEF MuteSelectors, MuteGet, Each, ++
<1>3. /\ \A s, scope : <<s, scope>> \in MuteHas => s \in MuteSelectors
      /\ \A s \in MuteSelectors : \E scope \in Scopes : <<s, scope>> \in MuteHas
  BY DEF MuteSelectors, MuteHas, Everywhere, Scopes
<1>4. /\ \A s \in {"Scope", "Element", "BooleanControlValue"} :
           MuteSize[s] = One(UInt32) /\ MuteGet[s] = One(UInt32)
  BY DEF MuteSize, MuteGet, Each, ++
<1>5. \A s \in MuteSelectors : Entry(s, MuteSize, MuteGet, {})
  BY <1>4 DEF MuteSelectors, Entry, CountedGetters, One, UInt32
<1>6. DOMAIN MuteSet = {"BooleanControlValue"}
  BY DEF MuteSet, Each
<1>7. /\ \A s \in MuteSelectors \ {"BooleanControlValue"} : MuteSettable[s] = FALSE
      /\ MuteSettable["BooleanControlValue"] = TRUE
      /\ MuteSet["BooleanControlValue"] = UInt32
      /\ {"BooleanControlValue"} \subseteq MuteSelectors
  BY DEF MuteSelectors, MuteSettable, No, Yes, MuteSet, Each, ++
<1> QED BY <1>1, <1>2, <1>3, <1>4, <1>5, <1>6, <1>7 DEF Fit, One

\* With what it leaves to Object, every class has switches that agree.
ClassFits(class, lists) ==
  \E selectors : Fit(HasOf[class], SettableOf[class], SizeOf[class], GetOf[class],
                     SetOf[class], selectors, lists)

LEMMA ClassesFit ==
  /\ ClassFits("Plugin", {})
  /\ ClassFits("Device", DeviceLists)
  /\ ClassFits("Stream", StreamLists)
  /\ ClassFits("VolumeControl", {})
  /\ ClassFits("MuteControl", {})
<1>1. ClassFits("Plugin", {})
  <2>1. PluginSelectors \intersect ObjectSelectors = {}
    BY DEF PluginSelectors, ObjectSelectors
  <2>2. Fit(PluginHas \union ObjectHas, PluginSettable ++ ObjectSettable, PluginSize ++ ObjectSize,
            PluginGet ++ ObjectGet, PluginSet ++ ObjectSet, PluginSelectors \union ObjectSelectors, {})
    BY <2>1, PluginFits, ObjectFits, MergedFits
  <2> QED BY <2>2 DEF ClassFits, HasOf, SettableOf, SizeOf, GetOf, SetOf
<1>2. ClassFits("Device", DeviceLists)
  <2>1. DeviceSelectors \intersect ObjectSelectors = {}
    BY DEF DeviceSelectors, IdentitySelectors, FormatSelectors, StateSelectors, ObjectSelectors
  <2>2. Fit(DeviceHas \union ObjectHas, DeviceSettable ++ ObjectSettable, DeviceSize ++ ObjectSize,
            DeviceGet ++ ObjectGet, DeviceSet ++ ObjectSet, DeviceSelectors \union ObjectSelectors, DeviceLists)
    BY <2>1, DeviceFits, ObjectFits, MergedFits
  <2> QED BY <2>2 DEF ClassFits, HasOf, SettableOf, SizeOf, GetOf, SetOf
<1>3. ClassFits("Stream", StreamLists)
  <2>1. StreamSelectors \intersect ObjectSelectors = {}
    BY DEF StreamSelectors, ObjectSelectors
  <2>2. Fit(StreamHas \union ObjectHas, StreamSettable ++ ObjectSettable, StreamSize ++ ObjectSize,
            StreamGet ++ ObjectGet, StreamSet ++ ObjectSet, StreamSelectors \union ObjectSelectors, StreamLists)
    BY <2>1, StreamFits, ObjectFits, MergedFits
  <2> QED BY <2>2 DEF ClassFits, HasOf, SettableOf, SizeOf, GetOf, SetOf
<1>4. ClassFits("VolumeControl", {})
  <2>1. VolumeSelectors \intersect ObjectSelectors = {}
    BY DEF VolumeSelectors, ObjectSelectors
  <2>2. Fit(VolumeHas \union ObjectHas, VolumeSettable ++ ObjectSettable, VolumeSize ++ ObjectSize,
            VolumeGet ++ ObjectGet, VolumeSet ++ ObjectSet, VolumeSelectors \union ObjectSelectors, {})
    BY <2>1, VolumeFits, ObjectFits, MergedFits
  <2> QED BY <2>2 DEF ClassFits, HasOf, SettableOf, SizeOf, GetOf, SetOf
<1>5. ClassFits("MuteControl", {})
  <2>1. MuteSelectors \intersect ObjectSelectors = {}
    BY DEF MuteSelectors, ObjectSelectors
  <2>2. Fit(MuteHas \union ObjectHas, MuteSettable ++ ObjectSettable, MuteSize ++ ObjectSize,
            MuteGet ++ ObjectGet, MuteSet ++ ObjectSet, MuteSelectors \union ObjectSelectors, {})
    BY <2>1, MuteFits, ObjectFits, MergedFits
  <2> QED BY <2>2 DEF ClassFits, HasOf, SettableOf, SizeOf, GetOf, SetOf
<1> QED BY <1>1, <1>2, <1>3, <1>4, <1>5

-----------------------------------------------------------------------------
\* The tables as an object's calls see them

\* The class answers for this selector itself.
InSwitch(o, selector) == selector \in DOMAIN SizeOf[ClassOf(o)]

\* The five switches of an object's class know the same selectors, and agree on
\* what a case returns and on which are settable.
LEMMA SwitchesAgree ==
  ASSUME NEW o \in PluginObjects, NEW s
  PROVE  /\ (\E scope \in Scopes : <<s, scope>> \in HasOf[ClassOf(o)]) <=> InSwitch(o, s)
         /\ \A scope : <<s, scope>> \in HasOf[ClassOf(o)] => InSwitch(o, s)
         /\ s \in DOMAIN SettableOf[ClassOf(o)] <=> InSwitch(o, s)
         /\ s \in DOMAIN GetOf[ClassOf(o)] <=> InSwitch(o, s)
         /\ s \in DOMAIN SetOf[ClassOf(o)] => InSwitch(o, s)
         /\ InSwitch(o, s) => /\ s \in Known(o)
                            /\ Entry(s, SizeOf[ClassOf(o)], GetOf[ClassOf(o)], StoredLists(o))
         /\ InSwitch(o, s) /\ s \notin DOMAIN SetOf[ClassOf(o)] => SettableOf[ClassOf(o)][s] = FALSE
         /\ s \in DOMAIN SetOf[ClassOf(o)] =>
              /\ SettableOf[ClassOf(o)][s] = TRUE
              /\ SizeOf[ClassOf(o)][s].getter = "one"
              /\ SizeOf[ClassOf(o)][s].width = SetOf[ClassOf(o)][s]
<1>1. ClassFits(ClassOf(o), StoredLists(o))
  <2>1. CASE o = Plugin
    BY <2>1, ClassesFit, InquiryAssumption DEF ClassOf, StoredLists
  <2>2. CASE o \in Devices
    BY <2>2, ClassesFit, InquiryAssumption DEF ClassOf, StoredLists, DeviceLists
  <2>3. CASE o \in Streams
    BY <2>3, ClassesFit, InquiryAssumption DEF ClassOf, StoredLists, StreamLists
  <2>4. CASE o \in VolumeControls
    BY <2>4, ClassesFit, InquiryAssumption DEF ClassOf, StoredLists
  <2>5. CASE o \in MuteControls
    BY <2>5, ClassesFit, InquiryAssumption DEF ClassOf, StoredLists
  <2> QED BY <2>1, <2>2, <2>3, <2>4, <2>5 DEF PluginObjects
<1> DEFINE C == ClassOf(o)
<1> HIDE DEF C
<1>2. PICK D : Fit(HasOf[C], SettableOf[C], SizeOf[C], GetOf[C], SetOf[C], D, StoredLists(o))
  BY <1>1 DEF ClassFits, C
<1>3. s \in D <=> s \in DOMAIN SizeOf[C]
  BY <1>2 DEF Fit
<1>4. s \in D => \E scope \in Scopes : <<s, scope>> \in HasOf[C]
  BY <1>2, Zenon DEF Fit
<1>5. \A scope : <<s, scope>> \in HasOf[C] => s \in D
  BY <1>2, Zenon DEF Fit
<1>6. /\ s \in DOMAIN SettableOf[C] <=> s \in D
      /\ s \in DOMAIN GetOf[C] <=> s \in D
      /\ s \in DOMAIN SetOf[C] => s \in D
      /\ s \in D => Entry(s, SizeOf[C], GetOf[C], StoredLists(o))
      /\ s \in D /\ s \notin DOMAIN SetOf[C] => SettableOf[C][s] = FALSE
      /\ s \in DOMAIN SetOf[C] => /\ SettableOf[C][s] = TRUE
                                  /\ SizeOf[C][s].getter = "one"
                                  /\ SizeOf[C][s].width = SetOf[C][s]
  BY <1>2 DEF Fit
<1>7. s \in D => s \in {entry[1] : entry \in HasOf[C]}
  <2> SUFFICES ASSUME s \in D PROVE s \in {entry[1] : entry \in HasOf[C]}
    OBVIOUS
  <2>1. PICK scope \in Scopes : <<s, scope>> \in HasOf[C]
    BY <1>4
  <2>2. <<s, scope>>[1] = s
    OBVIOUS
  <2> QED BY <2>1, <2>2
<1> QED BY <1>3, <1>4, <1>5, <1>6, <1>7 DEF InSwitch, Known, C

-----------------------------------------------------------------------------
\* Types

Steps == {"has", "settable", "size", "data", "set", "end"}

ObjectTypes ==
  /\ registered \subseteq PluginObjects
  /\ children \in [PluginObjects -> SUBSET PluginObjects]
  /\ DOMAIN custom = PluginObjects
  /\ \A o \in PluginObjects :
       /\ DOMAIN custom[o] \subseteq CustomSelectors
       /\ \A s \in DOMAIN custom[o] : custom[o][s] \in [getter : BOOLEAN, setter : BOOLEAN]
  /\ DOMAIN length = PluginObjects
  /\ \A o \in PluginObjects : length[o] \in [StoredLists(o) -> Nat]
  /\ changes \in 0..MaxChanges

CallTypes ==
  /\ DOMAIN call = DOMAIN Idle
  /\ call.pc \in Steps
  /\ call.object \in PluginObjects
  /\ call.scope \in Scopes
  /\ call.has \in BOOLEAN
  /\ call.settable.status \in Statuses
  /\ call.size.status \in Statuses
  /\ call.data.status \in Statuses
  /\ call.set.status \in Statuses
  /\ call.size.value \in Nat
  /\ call.room \in Nat
  /\ disturbed \in BOOLEAN

\* A getter returns a number of values.
LEMMA CountIsNat ==
  ASSUME ObjectTypes, NEW o \in PluginObjects, NEW scope,
         NEW getter \in CountedGetters \union StoredLists(o)
  PROVE  Count(o, getter, scope) \in Nat
<1>1. \A S : S \subseteq PluginObjects \/ S \subseteq CustomSelectors => Cardinality(S) \in Nat
  BY FS_Subset, FS_CardinalityType, InquiryAssumption
<1>2. children[o] \subseteq PluginObjects
  BY DEF ObjectTypes
<1>3. /\ Cardinality(GetOwnedObjectIDs(o, scope, PluginObjects)) \in Nat
      /\ Cardinality(GetDeviceIDs(o)) \in Nat
      /\ Cardinality(GetStreamIDs(o, scope)) \in Nat
      /\ Cardinality(GetControlIDs(o)) \in Nat
  BY <1>1, <1>2 DEF GetOwnedObjectIDs, GetDeviceIDs, GetStreamIDs, GetControlIDs
<1>4. Cardinality(GetCustomProperties(o)) \in Nat
  BY <1>1 DEF GetCustomProperties, ObjectTypes
<1>5. \A g \in StoredLists(o) : length[o][g] \in Nat
  BY DEF ObjectTypes
<1>6. CASE getter \in StoredLists(o)
  <2>1. getter \in {"GetAvailableSampleRates", "GetPreferredChannelLayout",
                    "GetAvailablePhysicalFormats", "GetAvailableVirtualFormats"}
    BY <1>6 DEF StoredLists
  <2> QED BY <1>5, <1>6, <2>1 DEF Count
<1>7. CASE getter \in CountedGetters
  BY <1>3, <1>4, <1>7 DEF Count, CountedGetters
<1> QED BY <1>6, <1>7

\* How many values a getter returns that has to be known exactly.
LEMMA ExactCounts ==
  ASSUME NEW o \in PluginObjects, NEW scope
  PROVE  /\ Count(o, "one", scope) = 1
         /\ Count(o, "GetPreferredChannelLayout", scope) = length[o]["GetPreferredChannelLayout"]
BY DEF Count

\* What a case of the switch on data writes fits into the room, and is everything
\* when there is room for everything.
LEMMA FilledFits ==
  ASSUME NEW entry, entry.width \in Nat \ {0}, NEW count \in Nat, NEW room \in Nat
  PROVE  /\ Filled(entry, count, room).value <= room
         /\ Filled(entry, count, room).status \in {"noError", "badPropertySize"}
         /\ ~entry.whole => Filled(entry, count, room).status = "noError"
         /\ room >= entry.width * count => Filled(entry, count, room).status = "noError"
<1> DEFINE w == entry.width
           fits == room \div w
<1> HIDE DEF w
<1>1. w \in Nat \ {0}
  BY DEF w
<1>2. fits \in Nat /\ fits * w <= room
  BY <1>1
<1>3. room >= w * count => count <= fits
  BY <1>1
<1> HIDE DEF fits
<1>4. count <= fits => count * w <= fits * w
  BY <1>1, <1>2
<1>5. count <= fits => count * w <= room
  <2>1. count * w \in Int /\ fits * w \in Int
    BY <1>1, <1>2
  <2> QED BY <1>2, <1>4, <2>1
<1>6. Filled(entry, count, room) =
        IF count <= fits THEN OK(count * w)
        ELSE IF entry.whole THEN Error("badPropertySize") ELSE OK(fits * w)
  BY DEF Filled, fits, w
<1>7. CASE count <= fits
  BY <1>5, <1>6, <1>7 DEF OK, w
<1>8. CASE ~(count <= fits)
  BY <1>2, <1>3, <1>6, <1>8 DEF OK, Error, w
<1> QED BY <1>7, <1>8

\* The question that needs a qualifier is one of the plug-in's switch.
LEMMA QualifiedHasCase ==
  "TranslateUIDToDevice" \in DOMAIN GetOf[ClassOf(Plugin)]
<1>1. "TranslateUIDToDevice" \in DOMAIN PluginGet
  BY DEF PluginGet, PluginGetNames, PluginGetDevices, Each, ++
<1>2. \A f, g : DOMAIN g \subseteq DOMAIN (f ++ g) /\ DOMAIN f \subseteq DOMAIN (f ++ g)
  BY DEF ++
<1>3. "TranslateUIDToDevice" \in DOMAIN (PluginGet ++ ObjectGet)
  BY <1>1, <1>2
<1>4. ClassOf(Plugin) = "Plugin"
  BY InquiryAssumption DEF ClassOf
<1>5. GetOf["Plugin"] = PluginGet ++ ObjectGet
  BY DEF GetOf
<1> QED BY <1>3, <1>4, <1>5

-----------------------------------------------------------------------------
\* The answers

\* The question has been answered.
Reached(step) ==
  CASE step = "settable" -> call.pc \in {"size", "data", "set", "end"}
    [] step = "size" -> call.pc \in {"data", "set", "end"}
    [] step = "data" -> call.pc \in {"set", "end"}
    [] step = "set" -> call.pc = "end"
    [] OTHER -> call.pc # "has"

\* The object asked; whether its class knows the selector; whether somebody
\* registered it.
Alive == call.object \in registered
Switched == InSwitch(call.object, call.selector)
Custom == call.selector \in DOMAIN custom[call.object]
Property == custom[call.object][call.selector]
Existing == Alive /\ (Switched \/ Custom)
Refused == {"unknownProperty", "badObject"}
Sized == SizeOf[ClassOf(call.object)][call.selector]

\* What each answer is as long as nothing has changed since the first question.
HasRight == Reached("has") /\ call.has => Existing

SettableRight ==
  Reached("settable") =>
    /\ Existing => call.settable.status = "noError"
    /\ ~Existing => call.settable.status \in Refused
    /\ Existing /\ Switched =>
         call.settable.value = SettableOf[ClassOf(call.object)][call.selector]
    /\ Existing /\ ~Switched => call.settable.value = Property.setter

SizeRight ==
  Reached("size") =>
    /\ Existing => call.size.status = "noError"
    /\ ~Existing => call.size.status \in Refused
    /\ Existing /\ Switched =>
         /\ Sized.getter = "one" => call.size.value = Sized.width
         /\ call.selector = "PreferredChannelLayout" /\ Sized.getter = "GetPreferredChannelLayout" =>
              call.size.value = Sized.width * length[call.object]["GetPreferredChannelLayout"]
    /\ Existing /\ ~Switched => call.size.value = CFStringRef

DataRight ==
  Reached("data") =>
    /\ Existing /\ call.qualified /\ call.room >= call.size.value
         /\ ~WithoutGetter(call.object, call.selector) => call.data.status = "noError"
    /\ ~Existing => call.data.status \in Refused

SetRight ==
  Reached("set") =>
    /\ ~Existing => call.set.status \in Refused
    /\ Existing /\ call.room = call.size.value /\ ~HiddenSetter(call.object, call.selector)
         => (call.set.status \in {"unknownProperty", "badPropertySize"} <=> ~call.settable.value)

\* The inductive invariant: types, the room, and the answers given so far.
InquiryIInv ==
  /\ ObjectTypes
  /\ CallTypes
  /\ NeverMoreThanRoom
  /\ ~disturbed => HasRight /\ SettableRight /\ SizeRight /\ DataRight /\ SetRight

LEMMA InquiryIInvInit == InquiryInit => InquiryIInv
<1> SUFFICES ASSUME InquiryInit PROVE InquiryIInv
  OBVIOUS
<1>1. ObjectTypes
  <2>1. PICK d \in Devices, s \in InputStreams :
          children = [o \in PluginObjects |->
                        CASE o = Plugin -> {d} [] o = d -> {s} [] OTHER -> {}]
    BY DEF InquiryInit
  <2>2. children \in [PluginObjects -> SUBSET PluginObjects]
    BY <2>1 DEF PluginObjects, Streams
  <2>3. \A o \in PluginObjects : length[o] \in [StoredLists(o) -> Nat]
    BY DEF InquiryInit
  <2> QED BY <2>2, <2>3, InquiryAssumption DEF ObjectTypes, InquiryInit
<1>2. CallTypes
  BY DEF InquiryInit, CallTypes, Idle, Steps, Unasked, Error, Statuses, PluginObjects, Scopes
<1>3. NeverMoreThanRoom
  BY DEF InquiryInit, NeverMoreThanRoom, Idle, Unasked, Error
<1>4. call.pc = "has"
  BY DEF InquiryInit, Idle
<1>5. \A step \in Steps : ~Reached(step)
  BY <1>4 DEF Reached, Steps
<1> QED
  BY <1>1, <1>2, <1>3, <1>5
     DEF InquiryIInv, HasRight, SettableRight, SizeRight, DataRight, SetRight, Steps

-----------------------------------------------------------------------------
\* The five questions

LEMMA AskHasKeeps ==
  ASSUME InquiryIInv, NEW o \in PluginObjects, NEW s, NEW scope \in Scopes, AskHas(o, s, scope)
  PROVE  InquiryIInv'
<1>1. /\ registered' = registered /\ children' = children /\ custom' = custom
      /\ length' = length /\ changes' = changes /\ disturbed' = FALSE
  BY DEF AskHas, propertyVars
<1>2. call' = [Idle EXCEPT !.pc = "settable", !.object = o, !.selector = s,
                           !.scope = scope, !.has = HasProperty(o, s, scope)]
  BY DEF AskHas
<1>3. HasProperty(o, s, scope) \in BOOLEAN
  <2> DEFINE switched == <<s, scope>> \in HasOf[ClassOf(o)]
             fallback == s \in DOMAIN custom[o]
  <2>1. switched \in BOOLEAN /\ fallback \in BOOLEAN
    OBVIOUS
  <2>2. HasProperty(o, s, scope) \in {FALSE, switched, fallback}
    BY Zenon DEF HasProperty, HasPropertyFallback
  <2> HIDE DEF switched, fallback
  <2> QED BY <2>1, <2>2
<1>4. ObjectTypes'
  BY <1>1 DEF InquiryIInv, ObjectTypes
<1> DEFINE has == HasProperty(o, s, scope)
<1> HIDE DEF has
<1>6. /\ DOMAIN call' = DOMAIN Idle
      /\ call'.pc = "settable" /\ call'.object = o /\ call'.selector = s
      /\ call'.scope = scope /\ call'.has = has /\ call'.room = 0
      /\ call'.settable = Unasked /\ call'.size = Unasked
      /\ call'.data = Unasked /\ call'.set = Unasked
  BY <1>2 DEF Idle, has
<1>5. CallTypes' /\ NeverMoreThanRoom'
  <2>1. has \in BOOLEAN
    BY <1>3 DEF has
  <2>2. Unasked.status \in Statuses /\ Unasked.value = 0
    BY DEF Unasked, Error, Statuses
  <2>3. call'.has \in BOOLEAN /\ disturbed' \in BOOLEAN
    BY <1>1, <1>6, <2>1
  <2> QED BY <1>6, <2>2, <2>3 DEF CallTypes, NeverMoreThanRoom, Steps
<1>7. HasRight'
  <2>1. HasProperty(o, s, scope) => o \in registered /\ (InSwitch(o, s) \/ s \in DOMAIN custom[o])
    BY SwitchesAgree DEF HasProperty, HasPropertyFallback
  <2> QED BY <1>1, <1>6, <2>1 DEF HasRight, has, Existing, Alive, Switched, Custom, InSwitch
<1>8. \A step \in {"settable", "size", "data", "set"} : ~Reached(step)'
  BY <1>6 DEF Reached
<1> QED
  BY <1>4, <1>5, <1>7, <1>8 DEF InquiryIInv, SettableRight, SizeRight, DataRight, SetRight

\* A question leaves the objects and the earlier answers as they are.
LEMMA AskSettableKeeps ==
  ASSUME InquiryIInv, AskSettable
  PROVE  InquiryIInv'
<1> DEFINE answer == IsPropertySettable(call.object, call.selector)
<1> HIDE DEF answer
<1>1. /\ registered' = registered /\ children' = children /\ custom' = custom
      /\ length' = length /\ changes' = changes /\ disturbed' = disturbed
      /\ call.pc = "settable"
      /\ call' = [call EXCEPT !.pc = "size", !.settable = answer]
  BY DEF AskSettable, propertyVars, answer
<1>2. CallTypes /\ ObjectTypes
  BY DEF InquiryIInv
<1>3. /\ DOMAIN call' = DOMAIN call /\ call'.pc = "size" /\ call'.settable = answer
      /\ call'.object = call.object /\ call'.selector = call.selector
      /\ call'.scope = call.scope /\ call'.has = call.has /\ call'.size = call.size
      /\ call'.room = call.room /\ call'.data = call.data /\ call'.set = call.set
  BY <1>1, <1>2 DEF CallTypes, Idle
<1>4. ObjectTypes'
  BY <1>1, <1>2 DEF ObjectTypes
<1>5. call.object \in PluginObjects
  BY <1>2 DEF CallTypes
<1>6. /\ Existing => answer.status = "noError"
      /\ ~Existing => answer.status \in Refused
      /\ Existing /\ Switched => answer.value = SettableOf[ClassOf(call.object)][call.selector]
      /\ Existing /\ ~Switched => answer.value = Property.setter
  BY <1>5, SwitchesAgree
     DEF answer, IsPropertySettable, IsPropertySettableFallback, OK, Error, Refused,
         Existing, Alive, Switched, Custom, Property
<1>7. answer.status \in Statuses
  BY <1>6 DEF Statuses, Refused
<1>8. CallTypes'
  BY <1>1, <1>2, <1>3, <1>7 DEF CallTypes, Steps
<1>9. NeverMoreThanRoom'
  BY <1>3 DEF InquiryIInv, NeverMoreThanRoom
<1>10. /\ Existing' = Existing /\ Switched' = Switched /\ Property' = Property
       /\ ClassOf(call.object)' = ClassOf(call.object)
  BY <1>1, <1>3 DEF Existing, Alive, Switched, Custom, Property, InSwitch
<1>11. ASSUME ~disturbed' PROVE HasRight'
  <2>1. Reached("has")
    BY <1>1 DEF Reached
  <2> QED BY <1>1, <1>3, <1>10, <1>11, <2>1 DEF InquiryIInv, HasRight
<1>12. SettableRight'
  BY <1>3, <1>6, <1>10 DEF SettableRight
<1>13. \A step \in {"size", "data", "set"} : ~Reached(step)'
  BY <1>3 DEF Reached
<1> QED
  BY <1>4, <1>8, <1>9, <1>11, <1>12, <1>13 DEF InquiryIInv, SizeRight, DataRight, SetRight

LEMMA AskSizeKeeps ==
  ASSUME InquiryIInv, AskSize
  PROVE  InquiryIInv'
<1> DEFINE answer == GetPropertyDataSize(call.object, call.selector, call.scope)
<1> HIDE DEF answer
<1>1. /\ registered' = registered /\ children' = children /\ custom' = custom
      /\ length' = length /\ changes' = changes /\ disturbed' = disturbed
      /\ call.pc = "size"
      /\ call' = [call EXCEPT !.pc = "data", !.size = answer]
  BY DEF AskSize, propertyVars, answer
<1>2. CallTypes /\ ObjectTypes
  BY DEF InquiryIInv
<1>3. /\ DOMAIN call' = DOMAIN call /\ call'.pc = "data" /\ call'.size = answer
      /\ call'.object = call.object /\ call'.selector = call.selector
      /\ call'.scope = call.scope /\ call'.has = call.has /\ call'.settable = call.settable
      /\ call'.room = call.room /\ call'.data = call.data /\ call'.set = call.set
  BY <1>1, <1>2 DEF CallTypes, Idle
<1>4. ObjectTypes'
  BY <1>1, <1>2 DEF ObjectTypes
<1>5. call.object \in PluginObjects
  BY <1>2 DEF CallTypes
<1> DEFINE n == Count(call.object, Sized.getter, call.scope)
<1>6. Switched => n \in Nat /\ Sized.width \in Nat
  BY <1>2, <1>5, SwitchesAgree, CountIsNat DEF Switched, Entry, Sized
<1>7. /\ Sized.getter = "one" => n = 1
      /\ Sized.getter = "GetPreferredChannelLayout" =>
           n = length[call.object]["GetPreferredChannelLayout"]
  BY <1>5, ExactCounts
<1> HIDE DEF n
<1>8. /\ Existing /\ Switched => answer = OK(Sized.width * n)
      /\ Existing /\ ~Switched => answer = OK(CFStringRef)
      /\ ~Existing => answer \in {Error("unknownProperty"), Error("badObject")}
  BY DEF answer, GetPropertyDataSize, GetPropertyDataSizeFallback, Sized, n,
         Existing, Alive, Switched, InSwitch, Custom
<1>9. answer.status \in Statuses /\ answer.value \in Nat
  <2>1. Existing \/ ~Existing
    OBVIOUS
  <2>2. Switched => Sized.width * n \in Nat
    BY <1>6
  <2> QED BY <1>8, <2>1, <2>2 DEF OK, Error, Statuses, CFStringRef
<1>10. /\ Existing => answer.status = "noError"
       /\ ~Existing => answer.status \in Refused
       /\ Existing /\ Switched => answer.value = Sized.width * n
       /\ Existing /\ ~Switched => answer.value = CFStringRef
  BY <1>8 DEF OK, Error, Refused
<1>11. CallTypes'
  BY <1>1, <1>2, <1>3, <1>9 DEF CallTypes, Steps
<1>12. NeverMoreThanRoom'
  BY <1>3 DEF InquiryIInv, NeverMoreThanRoom
<1>13. /\ Existing' = Existing /\ Switched' = Switched /\ Property' = Property
       /\ ClassOf(call.object)' = ClassOf(call.object) /\ Sized' = Sized
  BY <1>1, <1>3 DEF Existing, Alive, Switched, Custom, Property, InSwitch, Sized
<1>14. ASSUME ~disturbed' PROVE HasRight' /\ SettableRight'
  <2>1. Reached("has") /\ Reached("settable")
    BY <1>1 DEF Reached
  <2> QED BY <1>1, <1>3, <1>13, <1>14, <2>1 DEF InquiryIInv, HasRight, SettableRight
<1>15. SizeRight'
  <2>1. Existing /\ Switched /\ Sized.getter = "one" => answer.value = Sized.width
    BY <1>6, <1>7, <1>10
  <2>2. Existing /\ Switched /\ Sized.getter = "GetPreferredChannelLayout" =>
          answer.value = Sized.width * length[call.object]["GetPreferredChannelLayout"]
    BY <1>7, <1>10
  <2> QED BY <1>1, <1>3, <1>10, <1>13, <2>1, <2>2 DEF SizeRight
<1>16. \A step \in {"data", "set"} : ~Reached(step)'
  BY <1>3 DEF Reached
<1> QED
  BY <1>4, <1>11, <1>12, <1>14, <1>15, <1>16 DEF InquiryIInv, DataRight, SetRight

LEMMA AskDataKeeps ==
  ASSUME InquiryIInv, NEW room \in Nat, NEW qualified \in BOOLEAN, AskData(room, qualified)
  PROVE  InquiryIInv'
<1> DEFINE answer == GetPropertyData(call.object, call.selector, call.scope, room, qualified)
           denied == NeedsQualifier(call.object, call.selector) /\ ~qualified
<1> HIDE DEF answer
<1>1. /\ registered' = registered /\ children' = children /\ custom' = custom
      /\ length' = length /\ changes' = changes /\ disturbed' = disturbed
      /\ call.pc = "data"
      /\ call' = [call EXCEPT !.pc = "set", !.room = room, !.qualified = qualified,
                               !.data = answer]
  BY DEF AskData, propertyVars, answer
<1>2. CallTypes /\ ObjectTypes
  BY DEF InquiryIInv
<1>3. /\ DOMAIN call' = DOMAIN call /\ call'.pc = "set" /\ call'.size = call.size
      /\ call'.object = call.object /\ call'.selector = call.selector
      /\ call'.scope = call.scope /\ call'.has = call.has /\ call'.settable = call.settable
      /\ call'.room = room /\ call'.data = answer /\ call'.set = call.set
      /\ call'.qualified = qualified
  BY <1>1, <1>2 DEF CallTypes, Idle
<1>4. ObjectTypes'
  BY <1>1, <1>2 DEF ObjectTypes
<1>5. call.object \in PluginObjects
  BY <1>2 DEF CallTypes
<1> DEFINE entry == GetOf[ClassOf(call.object)][call.selector]
           n == Count(call.object, Sized.getter, call.scope)
<1>6. Switched => /\ n \in Nat
                  /\ entry.width = Sized.width /\ entry.width \in Nat \ {0}
                  /\ entry.getter = Sized.getter
                  /\ entry.whole => \/ Sized.getter = "one"
                                    \/ /\ call.selector = "PreferredChannelLayout"
                                       /\ Sized.getter = "GetPreferredChannelLayout"
  <2>1. Switched => Entry(call.selector, SizeOf[ClassOf(call.object)],
                          GetOf[ClassOf(call.object)], StoredLists(call.object))
    BY <1>5, SwitchesAgree DEF Switched
  <2>2. Switched => Sized.getter \in CountedGetters \union StoredLists(call.object)
    BY <2>1 DEF Entry, Sized
  <2>3. Switched => n \in Nat
    BY <1>2, <1>5, <2>2, CountIsNat
  <2> HIDE DEF n
  <2> QED BY <2>1, <2>3 DEF Entry, Sized
<1>7. /\ Sized.getter = "one" => n = 1
      /\ Sized.getter = "GetPreferredChannelLayout" =>
           n = length[call.object]["GetPreferredChannelLayout"]
  BY <1>5, ExactCounts
<1>8. Switched <=> call.selector \in DOMAIN GetOf[ClassOf(call.object)]
  BY <1>5, SwitchesAgree DEF Switched
<1>19. NeedsQualifier(call.object, call.selector) => Switched
  <2>1. NeedsQualifier(call.object, call.selector) => call.object = Plugin
          /\ call.selector = "TranslateUIDToDevice"
    BY DEF NeedsQualifier, PluginQualified
  <2> QED BY <1>8, <2>1, QualifiedHasCase
<1> HIDE DEF n, entry
<1>9. /\ Existing /\ denied => answer = Error("badPropertySize")
      /\ Existing /\ Switched /\ ~denied => answer = Filled(entry, n, room)
      /\ Existing /\ ~Switched =>
           answer = GetPropertyDataFallback(call.object, call.selector, room)
      /\ ~Existing => answer \in {Error("unknownProperty"), Error("badObject")}
  <2>1. Existing /\ Switched /\ ~denied => answer = Filled(entry, n, room)
    BY <1>6, <1>8 DEF answer, entry, n, GetPropertyData, Existing, Alive, denied
  <2>2. Existing /\ ~Switched => answer = GetPropertyDataFallback(call.object, call.selector, room)
    BY <1>8, <1>19 DEF answer, GetPropertyData, Existing, Alive
  <2>4. Existing /\ denied => answer = Error("badPropertySize")
    BY DEF answer, GetPropertyData, Existing, Alive, denied
  <2>3. ~Existing => answer \in {Error("unknownProperty"), Error("badObject")}
    <3>1. ~Alive => answer = Error("badObject")
      BY DEF answer, GetPropertyData, Alive
    <3>2. Alive /\ ~Switched /\ ~Custom => answer = Error("unknownProperty")
      BY <1>8, <1>19 DEF answer, GetPropertyData, GetPropertyDataFallback, Alive, Custom
    <3> QED BY <3>1, <3>2 DEF Existing
  <2> QED BY <2>1, <2>2, <2>3, <2>4
<1>20. Existing /\ denied => answer.value <= room /\ answer.status = "badPropertySize"
  BY <1>9 DEF Error
<1>10. Existing /\ Switched /\ ~denied =>
         /\ answer.value <= room
         /\ answer.status \in {"noError", "badPropertySize"}
         /\ ~entry.whole => answer.status = "noError"
         /\ room >= Sized.width * n => answer.status = "noError"
  BY <1>6, <1>9, FilledFits
<1>11. Existing /\ ~Switched =>
         /\ answer.value <= room
         /\ answer.status \in Statuses
         /\ room >= CFStringRef /\ ~WithoutGetter(call.object, call.selector)
              => answer.status = "noError"
  BY <1>9 DEF GetPropertyDataFallback, Existing, Custom, WithoutGetter, OK, Error,
              CFStringRef, Statuses
<1>12. ~Existing => answer.value <= room /\ answer.status \in Refused
  BY <1>9 DEF Error, Refused
<1>13. answer.status \in Statuses /\ answer.value <= room
  BY <1>10, <1>11, <1>12, <1>20 DEF Statuses, Refused
<1>14. CallTypes'
  BY <1>1, <1>2, <1>3, <1>13 DEF CallTypes, Steps
<1>15. NeverMoreThanRoom'
  BY <1>3, <1>13 DEF NeverMoreThanRoom
<1>16. /\ Existing' = Existing /\ Switched' = Switched /\ Property' = Property
       /\ ClassOf(call.object)' = ClassOf(call.object) /\ Sized' = Sized
       /\ WithoutGetter(call.object, call.selector)' = WithoutGetter(call.object, call.selector)
  BY <1>1, <1>3 DEF Existing, Alive, Switched, Custom, Property, InSwitch, Sized, WithoutGetter
<1>17. ASSUME ~disturbed' PROVE HasRight' /\ SettableRight' /\ SizeRight' /\ DataRight'
  <2>1. Reached("has") /\ Reached("settable") /\ Reached("size")
    BY <1>1 DEF Reached
  <2>2. HasRight /\ SettableRight /\ SizeRight
    BY <1>1, <1>17 DEF InquiryIInv
  <2>3. HasRight' /\ SettableRight' /\ SizeRight'
    BY <1>1, <1>3, <1>16, <2>1, <2>2 DEF HasRight, SettableRight, SizeRight
  <2>4. Existing /\ Switched /\ qualified /\ room >= call.size.value => answer.status = "noError"
    <3> SUFFICES ASSUME Existing, Switched, ~denied, room >= call.size.value, entry.whole
                 PROVE  answer.status = "noError"
      BY <1>10 DEF denied
    <3>1. call.size.value = Sized.width * n
      BY <1>6, <1>7, <2>1, <2>2 DEF SizeRight
    <3> QED BY <1>10, <3>1
  <2>5. Existing /\ ~Switched /\ room >= call.size.value
          /\ ~WithoutGetter(call.object, call.selector) => answer.status = "noError"
    BY <1>11, <2>1, <2>2 DEF SizeRight
  <2>6. DataRight'
    BY <1>3, <1>12, <1>16, <2>4, <2>5 DEF DataRight
  <2> QED BY <2>3, <2>6
<1>18. ~Reached("set")'
  BY <1>3 DEF Reached
<1> QED
  BY <1>4, <1>14, <1>15, <1>17, <1>18 DEF InquiryIInv, SetRight

LEMMA AskSetKeeps ==
  ASSUME InquiryIInv, AskSet
  PROVE  InquiryIInv'
<1>1. PICK answer \in SetPropertyData(call.object, call.selector, call.room) :
        call' = [call EXCEPT !.pc = "end", !.set = answer]
  BY DEF AskSet
<1>2. /\ registered' = registered /\ children' = children /\ custom' = custom
      /\ length' = length /\ changes' = changes /\ disturbed' = disturbed
      /\ call.pc = "set"
  BY DEF AskSet, propertyVars
<1>3. CallTypes /\ ObjectTypes
  BY DEF InquiryIInv
<1>4. /\ DOMAIN call' = DOMAIN call /\ call'.pc = "end" /\ call'.size = call.size
      /\ call'.object = call.object /\ call'.selector = call.selector
      /\ call'.scope = call.scope /\ call'.has = call.has /\ call'.settable = call.settable
      /\ call'.room = call.room /\ call'.data = call.data /\ call'.set = answer
      /\ call'.qualified = call.qualified
  BY <1>1, <1>3 DEF CallTypes, Idle
<1>5. ObjectTypes'
  BY <1>2, <1>3 DEF ObjectTypes
<1>6. call.object \in PluginObjects
  BY <1>3 DEF CallTypes
<1> DEFINE setters == SetOf[ClassOf(call.object)]
           unset == SetPropertyDataFallback(call.object, call.selector, call.room)
<1>7. /\ ~Alive => answer = Error("badObject")
      /\ Alive /\ call.selector \in DOMAIN setters /\ call.room = setters[call.selector] =>
           answer \in SetterAnswers(call.selector)
      /\ Alive /\ call.selector \in DOMAIN setters /\ call.room # setters[call.selector] =>
           answer = Error("badPropertySize")
      /\ Alive /\ call.selector \notin DOMAIN setters => answer = unset
  BY <1>1 DEF SetPropertyData, Alive
<1>8. \A a \in SetterAnswers(call.selector) :
        a.status \in {"noError", "unsupportedOperation", "unsupportedFormat"}
  BY DEF SetterAnswers, OK, Error
<1>9. /\ ~Custom => unset = Error("unknownProperty")
      /\ Custom /\ ~Property.setter => unset = Error("unknownProperty")
      /\ Custom /\ Property.setter /\ call.room = CFStringRef => unset.status = "noError"
      /\ unset.status \in {"unknownProperty", "badPropertySize", "noError"}
  BY DEF SetPropertyDataFallback, Custom, Property, OK, Error
<1>10. call.selector \in DOMAIN setters => /\ Switched
                                           /\ SettableOf[ClassOf(call.object)][call.selector] = TRUE
                                           /\ Sized.getter = "one"
                                           /\ Sized.width = setters[call.selector]
  BY <1>6, SwitchesAgree DEF Switched, Sized
<1>11. Switched /\ call.selector \notin DOMAIN setters =>
         SettableOf[ClassOf(call.object)][call.selector] = FALSE
  BY <1>6, SwitchesAgree DEF Switched
<1> HIDE DEF setters, unset
<1>12. ~Existing => answer.status \in Refused
  BY <1>7, <1>9, <1>10 DEF Existing, Refused, Error
<1>13. answer.status \in Statuses
  <2>1. CASE ~Alive
    BY <1>7, <2>1 DEF Error, Statuses
  <2>2. CASE Alive /\ call.selector \in DOMAIN setters
    BY <1>7, <1>8, <2>2 DEF Error, Statuses
  <2>3. CASE Alive /\ call.selector \notin DOMAIN setters
    BY <1>7, <1>9, <2>3 DEF Error, Statuses
  <2> QED BY <2>1, <2>2, <2>3
<1>14. CallTypes'
  BY <1>2, <1>3, <1>4, <1>13 DEF CallTypes, Steps
<1>15. NeverMoreThanRoom'
  BY <1>4 DEF InquiryIInv, NeverMoreThanRoom
<1>16. /\ Existing' = Existing /\ Switched' = Switched /\ Property' = Property /\ Custom' = Custom
       /\ ClassOf(call.object)' = ClassOf(call.object) /\ Sized' = Sized
       /\ WithoutGetter(call.object, call.selector)' = WithoutGetter(call.object, call.selector)
       /\ HiddenSetter(call.object, call.selector)' = HiddenSetter(call.object, call.selector)
  BY <1>2, <1>4 DEF Existing, Alive, Switched, Custom, Property, InSwitch, Sized, WithoutGetter,
                    HiddenSetter, Known
<1>17. ASSUME ~disturbed'
       PROVE  HasRight' /\ SettableRight' /\ SizeRight' /\ DataRight' /\ SetRight'
  <2>1. Reached("has") /\ Reached("settable") /\ Reached("size") /\ Reached("data")
    BY <1>2 DEF Reached
  <2>2. HasRight /\ SettableRight /\ SizeRight /\ DataRight
    BY <1>2, <1>17 DEF InquiryIInv
  <2>3. HasRight' /\ SettableRight' /\ SizeRight' /\ DataRight'
    <3>1. HasRight' /\ SettableRight' /\ SizeRight'
      BY <1>2, <1>4, <1>16, <2>1, <2>2 DEF HasRight, SettableRight, SizeRight
    <3>2. DataRight'
      BY <1>4, <1>16, <2>1, <2>2 DEF DataRight
    <3> QED BY <3>1, <3>2
  <2>4. ASSUME Existing, call.room = call.size.value, ~HiddenSetter(call.object, call.selector)
        PROVE  answer.status \in {"unknownProperty", "badPropertySize"} <=> ~call.settable.value
    <3>1. CASE call.selector \in DOMAIN setters
      <4>1. call.settable.value = TRUE
        BY <1>10, <2>1, <2>2, <2>4, <3>1 DEF SettableRight
      <4>2. call.room = setters[call.selector]
        BY <1>10, <2>1, <2>2, <2>4, <3>1 DEF SizeRight
      <4>3. answer.status \notin {"unknownProperty", "badPropertySize"}
        BY <1>7, <1>8, <2>4, <3>1, <4>2 DEF Existing
      <4> QED BY <4>1, <4>3
    <3>2. CASE Switched /\ call.selector \notin DOMAIN setters
      <4>1. call.settable.value = FALSE
        BY <1>11, <2>1, <2>2, <2>4, <3>2 DEF SettableRight
      <4>2. ~Custom
        BY <1>6, <2>4, <3>2, SwitchesAgree DEF HiddenSetter, Custom, Switched
      <4>3. answer = Error("unknownProperty")
        BY <1>7, <1>9, <2>4, <3>2, <4>2 DEF Existing
      <4> QED BY <4>1, <4>3 DEF Error
    <3>3. CASE ~Switched
      <4>1. Custom /\ Alive /\ answer = unset
        BY <1>7, <1>10, <2>4, <3>3 DEF Existing
      <4>2. call.settable.value = Property.setter /\ Property.setter \in BOOLEAN
        BY <1>3, <1>6, <2>1, <2>2, <2>4, <3>3, <4>1
           DEF SettableRight, ObjectTypes, Custom, Property
      <4>3. call.room = CFStringRef
        BY <2>1, <2>2, <2>4, <3>3 DEF SizeRight
      <4> QED BY <1>9, <4>1, <4>2, <4>3 DEF Error
    <3> QED BY <3>1, <3>2, <3>3
  <2>5. SetRight'
    BY <1>4, <1>12, <1>16, <2>4 DEF SetRight
  <2> QED BY <2>3, <2>5
<1> QED
  BY <1>5, <1>14, <1>15, <1>17 DEF InquiryIInv

LEMMA EndInquiryKeeps ==
  ASSUME InquiryIInv, EndInquiry
  PROVE  InquiryIInv'
<1>1. /\ registered' = registered /\ children' = children /\ custom' = custom
      /\ length' = length /\ changes' = changes /\ disturbed' = FALSE /\ call' = Idle
  BY DEF EndInquiry, propertyVars
<1>2. ObjectTypes'
  BY <1>1 DEF InquiryIInv, ObjectTypes
<1>3. /\ DOMAIN call' = DOMAIN Idle
      /\ call'.pc = "has" /\ call'.object = Plugin /\ call'.scope = "global"
      /\ call'.has = FALSE /\ call'.room = 0
      /\ call'.settable = Unasked /\ call'.size = Unasked
      /\ call'.data = Unasked /\ call'.set = Unasked
  BY <1>1 DEF Idle
<1>4. CallTypes' /\ NeverMoreThanRoom'
  <2>1. Unasked.status \in Statuses /\ Unasked.value = 0
    BY DEF Unasked, Error, Statuses
  <2>2. call'.has \in BOOLEAN /\ disturbed' \in BOOLEAN
    BY <1>1, <1>3
  <2>3. call'.object \in PluginObjects /\ call'.scope \in Scopes
    BY <1>3 DEF PluginObjects, Scopes
  <2> QED BY <1>3, <2>1, <2>2, <2>3 DEF CallTypes, NeverMoreThanRoom, Steps
<1>5. \A step \in {"has", "settable", "size", "data", "set"} : ~Reached(step)'
  BY <1>3 DEF Reached
<1> QED
  BY <1>2, <1>4, <1>5
     DEF InquiryIInv, HasRight, SettableRight, SizeRight, DataRight, SetRight

-----------------------------------------------------------------------------
\* The changes

\* A change keeps the answers right if it keeps what they are about.
LEMMA ChangeKeeps ==
  ASSUME InquiryIInv, ObjectTypes', call' = call, disturbed' \in BOOLEAN,
         ~disturbed' =>
           /\ ~disturbed
           /\ Alive' = Alive
           /\ Custom' = Custom
           /\ Custom => Property' = Property
           /\ call.selector = "PreferredChannelLayout"
              /\ "GetPreferredChannelLayout" \in StoredLists(call.object) =>
                length'[call.object]["GetPreferredChannelLayout"]
                  = length[call.object]["GetPreferredChannelLayout"]
  PROVE  InquiryIInv'
<1>1. CallTypes' /\ NeverMoreThanRoom'
  BY DEF InquiryIInv, CallTypes, NeverMoreThanRoom
<1>2. \A step \in {"has", "settable", "size", "data", "set"} : Reached(step)' = Reached(step)
  BY DEF Reached
<1>3. ASSUME ~disturbed'
      PROVE  HasRight' /\ SettableRight' /\ SizeRight' /\ DataRight' /\ SetRight'
  <2>1. HasRight /\ SettableRight /\ SizeRight /\ DataRight /\ SetRight
    BY <1>3 DEF InquiryIInv
  <2>2. /\ Existing' = Existing /\ Switched' = Switched /\ Custom' = Custom
        /\ Existing /\ ~Switched => Property' = Property
        /\ ClassOf(call.object)' = ClassOf(call.object) /\ Sized' = Sized
    BY <1>3 DEF Existing, Switched, InSwitch, Sized
  <2>3. /\ WithoutGetter(call.object, call.selector)' = WithoutGetter(call.object, call.selector)
        /\ HiddenSetter(call.object, call.selector)' = HiddenSetter(call.object, call.selector)
    BY <1>3, <2>2 DEF WithoutGetter, HiddenSetter, Custom, Property, Known
  <2>4. HasRight' /\ SettableRight'
    BY <1>2, <2>1, <2>2 DEF HasRight, SettableRight
  <2>5. SizeRight'
    <3>1. Switched /\ Sized.getter = "GetPreferredChannelLayout" =>
            "GetPreferredChannelLayout" \in StoredLists(call.object)
      <4>1. call.object \in PluginObjects
        BY DEF InquiryIInv, CallTypes
      <4>2. Switched => Sized.getter \in CountedGetters \union StoredLists(call.object)
        BY <4>1, SwitchesAgree DEF Switched, Entry, Sized
      <4> QED BY <4>2 DEF CountedGetters
    <3> QED BY <1>2, <1>3, <2>1, <2>2, <3>1 DEF SizeRight, Existing
  <2>6. DataRight' /\ SetRight'
    BY <1>2, <2>1, <2>2, <2>3 DEF DataRight, SetRight
  <2> QED BY <2>4, <2>5, <2>6
<1> QED BY <1>1, <1>3 DEF InquiryIInv

LEMMA AddOwnedObjectKeeps ==
  ASSUME InquiryIInv, NEW o \in PluginObjects, NEW x \in PluginObjects, AddOwnedObject(o, x)
  PROVE  InquiryIInv'
<1>1. /\ registered' = registered /\ custom' = custom /\ length' = length /\ call' = call
      /\ disturbed' = (disturbed \/ FALSE) /\ changes < MaxChanges /\ changes' = changes + 1
      /\ children' = [children EXCEPT ![o] = @ \union {x}]
  BY DEF AddOwnedObject, Change
<1>2. disturbed \in BOOLEAN
  BY DEF InquiryIInv, CallTypes
<1>3. ObjectTypes'
  BY <1>1, InquiryAssumption DEF InquiryIInv, ObjectTypes
<1>4. disturbed' = disturbed /\ Alive' = Alive /\ Custom' = Custom /\ Property' = Property
  BY <1>1, <1>2 DEF Alive, Custom, Property
<1> QED BY <1>1, <1>2, <1>3, <1>4, ChangeKeeps

LEMMA RemoveOwnedObjectKeeps ==
  ASSUME InquiryIInv, NEW o \in PluginObjects, NEW x \in PluginObjects, RemoveOwnedObject(o, x)
  PROVE  InquiryIInv'
<1>1. /\ registered' = registered /\ custom' = custom /\ length' = length /\ call' = call
      /\ disturbed' = (disturbed \/ FALSE) /\ changes < MaxChanges /\ changes' = changes + 1
      /\ children' = [children EXCEPT ![o] = @ \ {x}]
  BY DEF RemoveOwnedObject, Change
<1>2. disturbed \in BOOLEAN
  BY DEF InquiryIInv, CallTypes
<1>3. ObjectTypes'
  BY <1>1, InquiryAssumption DEF InquiryIInv, ObjectTypes
<1>4. disturbed' = disturbed /\ Alive' = Alive /\ Custom' = Custom /\ Property' = Property
  BY <1>1, <1>2 DEF Alive, Custom, Property
<1> QED BY <1>1, <1>2, <1>3, <1>4, ChangeKeeps

LEMMA DestroyKeeps ==
  ASSUME InquiryIInv, NEW x \in PluginObjects, Destroy(x)
  PROVE  InquiryIInv'
<1>1. /\ registered' = registered \ {x} /\ children' = children
      /\ custom' = custom /\ length' = length /\ call' = call
      /\ disturbed' = (disturbed \/ call.object = x)
      /\ changes < MaxChanges /\ changes' = changes + 1
  BY DEF Destroy, Change
<1>2. disturbed \in BOOLEAN
  BY DEF InquiryIInv, CallTypes
<1>3. ObjectTypes'
  BY <1>1, InquiryAssumption DEF InquiryIInv, ObjectTypes
<1>4. Custom' = Custom /\ Property' = Property
  BY <1>1 DEF Custom, Property
<1>5. ASSUME ~disturbed' PROVE ~disturbed /\ Alive' = Alive
  <2>1. ~disturbed /\ call.object # x
    BY <1>1, <1>5
  <2> QED BY <1>1, <2>1 DEF Alive
<1>6. disturbed' \in BOOLEAN
  BY <1>1, <1>2
<1> QED BY <1>1, <1>3, <1>4, <1>5, <1>6, ChangeKeeps

LEMMA SetListKeeps ==
  ASSUME InquiryIInv, NEW o \in PluginObjects, NEW getter \in StoredLists(o), NEW n \in Nat,
         SetList(o, getter, n)
  PROVE  InquiryIInv'
<1>1. /\ registered' = registered /\ children' = children /\ custom' = custom /\ call' = call
      /\ length' = [length EXCEPT ![o][getter] = n]
      /\ disturbed' = (disturbed \/ (call.object = o /\ call.selector = "PreferredChannelLayout"
                                       /\ getter = "GetPreferredChannelLayout"))
      /\ changes < MaxChanges /\ changes' = changes + 1
  BY DEF SetList, Change
<1>2. CallTypes /\ ObjectTypes
  BY DEF InquiryIInv
<1>3. /\ DOMAIN length' = PluginObjects
      /\ \A p \in PluginObjects : p # o => length'[p] = length[p]
      /\ length'[o] = [length[o] EXCEPT ![getter] = n]
      /\ length[o] \in [StoredLists(o) -> Nat]
  BY <1>1, <1>2 DEF ObjectTypes
<1>4. ObjectTypes'
  <2>1. length'[o] \in [StoredLists(o) -> Nat]
    BY <1>3
  <2>2. \A p \in PluginObjects : length'[p] \in [StoredLists(p) -> Nat]
    BY <1>2, <1>3, <2>1 DEF ObjectTypes
  <2> QED BY <1>1, <1>2, <1>3, <2>2, InquiryAssumption DEF ObjectTypes
<1>5. Alive' = Alive /\ Custom' = Custom /\ Property' = Property
  BY <1>1 DEF Alive, Custom, Property
<1>6. disturbed' \in BOOLEAN
  BY <1>1, <1>2 DEF CallTypes
<1>7. ASSUME ~disturbed', call.selector = "PreferredChannelLayout",
             "GetPreferredChannelLayout" \in StoredLists(call.object)
      PROVE  length'[call.object]["GetPreferredChannelLayout"]
               = length[call.object]["GetPreferredChannelLayout"]
  <2>1. call.object # o \/ getter # "GetPreferredChannelLayout"
    BY <1>1, <1>7
  <2>2. CASE call.object # o
    BY <1>2, <1>3, <2>2 DEF CallTypes
  <2>3. CASE call.object = o /\ getter # "GetPreferredChannelLayout"
    BY <1>3, <1>7, <2>3
  <2> QED BY <2>1, <2>2, <2>3
<1> QED BY <1>1, <1>4, <1>5, <1>6, <1>7, ChangeKeeps

LEMMA RegisterKeeps ==
  ASSUME InquiryIInv, NEW o \in PluginObjects, NEW s \in CustomSelectors,
         NEW property \in [getter : BOOLEAN, setter : BOOLEAN],
         RegisterCustomProperty(o, s, property)
  PROVE  InquiryIInv'
<1>1. /\ registered' = registered /\ children' = children /\ length' = length /\ call' = call
      /\ custom' = [custom EXCEPT ![o] = Each({s}, property) ++ @]
      /\ disturbed' = (disturbed \/ (call.object = o /\ call.selector = s))
      /\ changes < MaxChanges /\ changes' = changes + 1
  BY DEF RegisterCustomProperty, Change
<1>2. CallTypes /\ ObjectTypes
  BY DEF InquiryIInv
<1>3. /\ DOMAIN custom' = PluginObjects
      /\ \A p \in PluginObjects : p # o => custom'[p] = custom[p]
      /\ custom'[o] = Each({s}, property) ++ custom[o]
  BY <1>1, <1>2 DEF ObjectTypes
<1>4. /\ DOMAIN custom'[o] = DOMAIN custom[o] \union {s}
      /\ custom'[o][s] = property
      /\ \A t \in DOMAIN custom[o] \ {s} : custom'[o][t] = custom[o][t]
  BY <1>3 DEF Each, ++
<1>5. ObjectTypes'
  <2>1. \A p \in PluginObjects :
          /\ DOMAIN custom'[p] \subseteq CustomSelectors
          /\ \A t \in DOMAIN custom'[p] : custom'[p][t] \in [getter : BOOLEAN, setter : BOOLEAN]
    BY <1>2, <1>3, <1>4 DEF ObjectTypes
  <2>2. changes' \in 0..MaxChanges
    BY <1>1, <1>2, InquiryAssumption DEF ObjectTypes
  <2> QED BY <1>1, <1>2, <1>3, <2>1, <2>2 DEF ObjectTypes
<1>6. Alive' = Alive
  BY <1>1 DEF Alive
<1>7. disturbed' \in BOOLEAN
  BY <1>1, <1>2 DEF CallTypes
<1>8. ASSUME ~disturbed'
      PROVE  ~disturbed /\ Custom' = Custom /\ (Custom => Property' = Property)
  <2>1. ~disturbed /\ (call.object # o \/ call.selector # s)
    BY <1>1, <1>8
  <2>2. CASE call.object # o
    BY <1>1, <1>2, <1>3, <2>1, <2>2 DEF CallTypes, Custom, Property
  <2>3. CASE call.object = o /\ call.selector # s
    <3>1. Custom' = Custom
      BY <1>1, <1>4, <2>3 DEF Custom
    <3>2. Custom => Property' = Property
      BY <1>1, <1>4, <2>3 DEF Custom, Property
    <3> QED BY <2>1, <3>1, <3>2
  <2> QED BY <2>1, <2>2, <2>3
<1> QED BY <1>1, <1>5, <1>6, <1>7, <1>8, ChangeKeeps

-----------------------------------------------------------------------------
\* The invariant

LEMMA InquiryIInvStep == InquiryIInv /\ [InquiryNext]_inquiryVars => InquiryIInv'
<1> SUFFICES ASSUME InquiryIInv, [InquiryNext]_inquiryVars PROVE InquiryIInv'
  OBVIOUS
<1>1. ASSUME NEW o \in PluginObjects, NEW s, NEW scope \in Scopes, AskHas(o, s, scope)
      PROVE  InquiryIInv'
  BY <1>1, AskHasKeeps
<1>2. CASE AskSettable
  BY <1>2, AskSettableKeeps
<1>3. CASE AskSize
  BY <1>3, AskSizeKeeps
<1>4. ASSUME NEW room \in Rooms \union
               (IF call.size.status = "noError" THEN {call.size.value} ELSE {}),
             NEW qualified \in BOOLEAN, AskData(room, qualified)
      PROVE  InquiryIInv'
  <2>1. room \in Nat
    BY InquiryAssumption DEF InquiryIInv, CallTypes
  <2> QED BY <1>4, <2>1, AskDataKeeps
<1>5. CASE AskSet
  BY <1>5, AskSetKeeps
<1>6. CASE EndInquiry
  BY <1>6, EndInquiryKeeps
<1>7. ASSUME NEW o \in PluginObjects, NEW x \in PluginObjects,
             AddOwnedObject(o, x) \/ RemoveOwnedObject(o, x)
      PROVE  InquiryIInv'
  BY <1>7, AddOwnedObjectKeeps, RemoveOwnedObjectKeeps
<1>8. ASSUME NEW x \in PluginObjects, Destroy(x) PROVE InquiryIInv'
  BY <1>8, DestroyKeeps
<1>9. ASSUME NEW o \in PluginObjects, NEW getter \in StoredLists(o), NEW n \in Lengths,
             SetList(o, getter, n)
      PROVE  InquiryIInv'
  <2>1. n \in Nat
    BY InquiryAssumption
  <2> QED BY <1>9, <2>1, SetListKeeps
<1>10. ASSUME NEW o \in PluginObjects, NEW s \in CustomSelectors,
              NEW property \in [getter : BOOLEAN, setter : BOOLEAN],
              RegisterCustomProperty(o, s, property)
       PROVE  InquiryIInv'
  BY <1>10, RegisterKeeps
<1>11. CASE UNCHANGED inquiryVars
  BY <1>11
     DEF inquiryVars, propertyVars, InquiryIInv, ObjectTypes, CallTypes, NeverMoreThanRoom, HasRight,
         SettableRight, SizeRight, DataRight, SetRight, Reached, Existing, Alive, Switched, Custom,
         Property, Sized, InSwitch, WithoutGetter, HiddenSetter, Known
<1>12. CASE Inquire
  BY <1>1, <1>2, <1>3, <1>4, <1>5, <1>6, <1>12 DEF Inquire
<1>13. CASE Evolve
  BY <1>7, <1>8, <1>9, <1>10, <1>13 DEF Evolve
<1> QED BY <1>11, <1>12, <1>13 DEF InquiryNext

LEMMA InquiryIInvImplies == InquiryIInv => InquiryInv
<1> SUFFICES ASSUME InquiryIInv PROVE InquiryInv
  OBVIOUS
<1>1. InquiryTypeOK
  BY DEF InquiryIInv, ObjectTypes, CallTypes, InquiryTypeOK
<1>2. NeverMoreThanRoom
  BY DEF InquiryIInv
<1>3. call.object \in PluginObjects
  BY DEF InquiryIInv, CallTypes
<1>4. ASSUME call.pc = "end", ~disturbed
      PROVE  HasRight /\ SettableRight /\ SizeRight /\ DataRight /\ SetRight
               /\ \A step \in {"has", "settable", "size", "data", "set"} : Reached(step)
  BY <1>4 DEF InquiryIInv, Reached
<1>5. AnswersAgree
  <2> SUFFICES ASSUME call.pc = "end", ~disturbed
               PROVE  /\ call.has =>
                           /\ call.settable.status = "noError"
                           /\ call.size.status = "noError"
                           /\ call.qualified /\ call.room >= call.size.value
                                /\ ~WithoutGetter(call.object, call.selector)
                                => call.data.status = "noError"
                      /\ ~call.has
                         /\ (\A s \in Scopes : ~HasProperty(call.object, call.selector, s)) =>
                           \A answer \in {call.settable, call.size, call.data, call.set} :
                             answer.status \in {"unknownProperty", "badObject"}
    BY DEF AnswersAgree
  <2>1. call.has => Existing
    BY <1>4 DEF HasRight
  <2>2. Existing => \E s \in Scopes : HasProperty(call.object, call.selector, s)
    <3>1. CASE Alive /\ Switched
      <4>1. PICK s \in Scopes : <<call.selector, s>> \in HasOf[ClassOf(call.object)]
        BY <1>3, <3>1, SwitchesAgree DEF Switched
      <4>2. HasProperty(call.object, call.selector, s)
        BY <3>1, <4>1 DEF HasProperty, Alive
      <4> QED BY <4>2
    <3>2. CASE Alive /\ ~Switched /\ Custom
      <4>1. \A s \in Scopes : <<call.selector, s>> \notin HasOf[ClassOf(call.object)]
        BY <1>3, <3>2, SwitchesAgree DEF Switched
      <4>2. HasProperty(call.object, call.selector, "global")
        BY <3>2, <4>1 DEF HasProperty, HasPropertyFallback, Alive, Custom
      <4> QED BY <4>2 DEF Scopes
    <3> QED BY <3>1, <3>2 DEF Existing
  <2>3. call.has => /\ call.settable.status = "noError"
                    /\ call.size.status = "noError"
                    /\ call.qualified /\ call.room >= call.size.value
                         /\ ~WithoutGetter(call.object, call.selector)
                         => call.data.status = "noError"
    BY <1>4, <2>1 DEF SettableRight, SizeRight, DataRight
  <2>4. ~Existing => \A answer \in {call.settable, call.size, call.data, call.set} :
                       answer.status \in {"unknownProperty", "badObject"}
    BY <1>4 DEF SettableRight, SizeRight, DataRight, SetRight, Refused
  <2> QED BY <2>2, <2>3, <2>4
<1>6. SettableHasSetter
  <2> SUFFICES ASSUME call.pc = "end", ~disturbed, ~HiddenSetter(call.object, call.selector),
                      call.settable.status = "noError", call.room = call.size.value
               PROVE  call.set.status \in {"unknownProperty", "badPropertySize"}
                        <=> ~call.settable.value
    BY DEF SettableHasSetter
  <2>1. Existing
    BY <1>4 DEF SettableRight, Refused
  <2> QED BY <1>4, <2>1 DEF SetRight
<1> QED BY <1>1, <1>2, <1>5, <1>6 DEF InquiryInv

\* However objects, lists and custom properties change between a client's
\* questions, the five answers fit together, and the data never exceeds the
\* buffer (the switches in Object.g.cpp, Plugin.g.cpp, Device.g.cpp, Stream.g.cpp,
\* VolumeControl.g.cpp and MuteControl.g.cpp; Object.cpp:288-613).
THEOREM AnswersFit == InquirySpec => []InquiryInv
<1>1. InquirySpec => []InquiryIInv
  BY InquiryIInvInit, InquiryIInvStep, PTL DEF InquirySpec
<1> QED BY <1>1, InquiryIInvImplies, PTL
=============================================================================
