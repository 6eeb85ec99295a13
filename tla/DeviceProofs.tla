---------------------------- MODULE DeviceProofs -------------------------------
(***************************************************************************)
(* Proofs about DeviceConfiguration.tla, and about DeviceIO.tla, which     *)
(* extends it: for any streams, controls, values and requests, and any     *)
(* clients and applications.                                               *)
(***************************************************************************)
EXTENDS DeviceIO, FiniteSetTheorems, SequenceTheorems, TLAPS

(* What the edits may be.  The operators take the streams' directions as an   *)
(* argument, so that they can speak of the state before and after a step.     *)

Objects == {Device} \union Streams
ValuesOf(field) == IF field \in ListFields THEN Lists ELSE Values
Stored(field) == IF field \in OptionalFields THEN ValuesOf(field) \union {NotSet} ELSE ValuesOf(field)

Place(dirs, x) == IF x \in Streams THEN dirs[x] ELSE "control"

IsAssign(r, dirs) ==
  \E o \in Objects : \E f \in FieldsOf(o) : \E v \in ValuesOf(f) :
    r = <<Assign(o, f, v)>> /\ (o \in Streams => dirs[o] # "none")

IsRateChange(r) ==
  \E list \in Lists, v \in Values :
    r = <<Set(Device, "availableSampleRates", list), Set(Device, "nominalSampleRate", v)>>

\* What a function does to the children: from the set before to the set after.
Alters(r, dirs, before, after) ==
  \/ (IsAssign(r, dirs) \/ IsRateChange(r)) /\ after = before
  \/ \E x \in Children : /\ Place(dirs, x) # "none"
                         /\ \/ /\ r = <<Attach(x, Place(dirs, x))>>
                               /\ x \notin before /\ after = before \union {x}
                            \/ /\ r = <<Detach(x, Place(dirs, x))>>
                               /\ x \in before /\ after = before \ {x}

Legal(r, dirs) ==
  \/ IsAssign(r, dirs)
  \/ IsRateChange(r)
  \/ \E x \in Children : /\ Place(dirs, x) # "none"
                         /\ r \in {<<Attach(x, Place(dirs, x))>>, <<Detach(x, Place(dirs, x))>>}

AllFunctions ==
  UNION {{<<Assign(o, f, v)>> : o \in Objects, f \in ListFields, v \in Lists},
         {<<Assign(o, f, v)>> : o \in Objects,
                                f \in (DeviceFields \union StreamFields) \ ListFields, v \in Values},
         {<<Set(Device, "availableSampleRates", list), Set(Device, "nominalSampleRate", v)>> :
            list \in Lists, v \in Values},
         {<<Attach(x, where)>> : x \in Children, where \in Directions \union {"control"}},
         {<<Detach(x, where)>> : x \in Children, where \in Directions \union {"control"}}}

AllLegal(functions, dirs) == \A n \in DOMAIN functions : Legal(functions[n], dirs)

CfgOK(c) ==
  /\ c = [o \in Objects |-> [f \in FieldsOf(o) |-> c[o][f]]]
  /\ \A o \in Objects : \A f \in FieldsOf(o) : c[o][f] \in Stored(f)

DevOK(d) ==
  /\ d = [cfg |-> d.cfg, children |-> d.children, inputs |-> d.inputs, outputs |-> d.outputs,
          applied |-> d.applied]
  /\ CfgOK(d.cfg)
  /\ d.children \subseteq Children
  /\ d.inputs \in 0..Word - 1 /\ d.outputs \in 0..Word - 1
  /\ d.applied \in Seq(Nat)

Core(d) == <<d.children, d.inputs, d.outputs>>

AttachedTo(d, dirs, where) == {s \in Streams \intersect d.children : dirs[s] = where}

Counts(d, dirs) == /\ d.inputs = Cardinality(AttachedTo(d, dirs, "input"))
                   /\ d.outputs = Cardinality(AttachedTo(d, dirs, "output"))

Placed(d, dirs) == \A s \in Streams \intersect d.children : dirs[s] # "none"

\* Every field without a derived value has the value of the last function
\* applied that assigns to it.
Settled(d, functions) ==
  (\A i \in DOMAIN d.applied : Len(functions[d.applied[i]]) = 1) =>
    \A o \in Objects : \A f \in FieldsOf(o) \ OptionalFields :
      \A v \in Values, i \in DOMAIN d.applied :
        /\ functions[d.applied[i]] = <<Assign(o, f, v)>>
        /\ \A j \in i + 1..Len(d.applied), w \in Values :
             functions[d.applied[j]] # <<Assign(o, f, w)>>
        => d.cfg[o][f] = v

NoFormat(r) == \A i \in DOMAIN r : r[i].kind \in {"assign", "set"} => r[i].field # "physicalFormat"
NoFormats(functions) == \A n \in DOMAIN functions : NoFormat(functions[n])

FormatsKept(d, functions, dirs, spans) ==
  NoFormats(functions) =>
    \A s \in Streams : dirs[s] # "none" => d.cfg[s].physicalFormat = spans[s].count

-----------------------------------------------------------------------------
\* Induction, and the two recursions of the model

LEMMA LeastExists ==
  ASSUME NEW S \in SUBSET Nat, S # {}
  PROVE  \E m \in S : \A n \in S : m <= n
  <1> DEFINE R == OpToRel(<, Nat)
  <1>1. IsWellFoundedOn(R, Nat)
    BY NatLessThanWellFounded
  <1>2. \A x, y \in Nat : x < y => <<x, y>> \in R
    BY DEF OpToRel
  <1> HIDE DEF R
  <1>3. PICK m \in S : \A n \in S : <<n, m>> \notin R
    BY <1>1, WFMin, Zenon
  <1>4. \A n \in S : ~(n < m)
    BY <1>2, <1>3, Zenon
  <1>5. \A n \in S : m <= n
    BY <1>4, SMT
  <1> QED BY <1>5

\* Induction over the natural numbers, for a set of them.
LEMMA Induction ==
  ASSUME NEW S, 0 \in S, \A n \in Nat : n \in S => n + 1 \in S
  PROVE  Nat \subseteq S
  <1> SUFFICES ASSUME Nat \ S # {} PROVE FALSE
    OBVIOUS
  <1>1. PICK m \in Nat \ S : \A n \in Nat \ S : m <= n
    BY LeastExists
  <1>2. m # 0 /\ m - 1 \in Nat
    BY <1>1
  <1>3. m - 1 \in S
    BY <1>1, <1>2
  <1>4. m \in S
    BY <1>2, <1>3
  <1> QED BY <1>1, <1>4

\* A set of natural numbers with a bound has a greatest element.
LEMMA GreatestExists ==
  ASSUME NEW S \in SUBSET Nat, S # {}, NEW bound \in Nat, \A n \in S : n <= bound
  PROVE  \E m \in S : \A n \in S : n <= m
  <1> DEFINE bounds == {b \in Nat : \A n \in S : n <= b}
  <1>1. PICK b \in bounds : \A c \in bounds : b <= c
    <2>1. bound \in bounds /\ bounds \in SUBSET Nat
      OBVIOUS
    <2> QED BY <2>1, LeastExists
  <1>2. CASE b \in S
    BY <1>1, <1>2
  <1>3. CASE b \notin S
    <2>1. \A n \in S : n < b /\ n <= b - 1 /\ n >= 0
      BY <1>1, <1>3
    <2>3. b - 1 \in Nat
      <3>1. PICK n \in S : TRUE
        OBVIOUS
      <3>2. n \in Nat /\ b \in Nat /\ n <= b - 1
        BY <1>1, <2>1, <3>1
      <3> QED BY <3>2
    <2>2. b - 1 \in bounds
      BY <2>1, <2>3
    <2> QED BY <1>1, <2>2
  <1> QED BY <1>2, <1>3

LEMMA FiniteHasGreatest ==
  ASSUME NEW S \in SUBSET Nat, S # {}, IsFiniteSet(S)
  PROVE  \E m \in S : \A n \in S : n <= m
  <1>7. PICK size \in Nat : ExistsSurjection(1..size, S)
    BY FS_NatSurjection
  <1>1. PICK f \in [1..size -> S] : \A x \in S : \E i \in 1..size : f[i] = x
    BY <1>7 DEF ExistsSurjection, Surjection
  <1> DEFINE bounded == {k \in Nat : k <= size => \E b \in Nat : \A i \in 1..k : f[i] <= b}
  <1>2. 0 \in bounded
    OBVIOUS
  <1>3. ASSUME NEW k \in Nat, k \in bounded PROVE k + 1 \in bounded
    <2> SUFFICES ASSUME k + 1 <= size PROVE \E b \in Nat : \A i \in 1..k + 1 : f[i] <= b
      OBVIOUS
    <2>1. PICK b \in Nat : \A i \in 1..k : f[i] <= b
      BY <1>3
    <2>2. f[k + 1] \in Nat /\ \A i \in 1..k : f[i] \in Nat
      <3>1. \A i \in 1..size : f[i] \in Nat
        BY <1>1
      <3>2. k + 1 \in 1..size /\ \A i \in 1..k : i \in 1..size
        BY <1>1
      <3> QED BY <3>1, <3>2
    <2>3. PICK c \in Nat : b <= c /\ f[k + 1] <= c
      BY <2>2
    <2>4. \A i \in 1..k + 1 : f[i] <= c
      BY <2>1, <2>2, <2>3
    <2> QED BY <2>4
  <1>4. size \in bounded
    BY <1>2, <1>3, Induction
  <1>5. PICK b \in Nat : \A i \in 1..size : f[i] <= b
    BY <1>4
  <1>6. \A n \in S : n <= b
    BY <1>1, <1>5
  <1> QED BY <1>6, GreatestExists

\* A function with one or two edits makes them in order.
LEMMA EditOne ==
  ASSUME NEW d, NEW e PROVE EditAll(d, <<e>>) = Edit(d, e)
  <1> DEFINE f == [i \in 0..1 |-> IF i = 0 THEN d ELSE Edit(d, e)]
             Body(g) == [i \in 0..Len(<<e>>) |-> IF i = 0 THEN d ELSE Edit(g[i - 1], <<e>>[i])]
             edited == CHOOSE g : g = Body(g)
  <1>1. f = Body(f)
    BY SMT
  <1>2. edited = Body(edited)
    BY <1>1
  <1>3. EditAll(d, <<e>>) = edited[Len(<<e>>)]
    BY DEF EditAll
  <1> HIDE DEF edited
  <1>4. edited[0] = d /\ edited[1] = Edit(edited[0], e)
    BY <1>2
  <1> QED BY <1>3, <1>4

LEMMA EditTwo ==
  ASSUME NEW d, NEW e1, NEW e2 PROVE EditAll(d, <<e1, e2>>) = Edit(Edit(d, e1), e2)
  <1> DEFINE f == [i \in 0..2 |-> IF i = 0 THEN d ELSE IF i = 1 THEN Edit(d, e1) ELSE Edit(Edit(d, e1), e2)]
             Body(g) == [i \in 0..Len(<<e1, e2>>) |->
                           IF i = 0 THEN d ELSE Edit(g[i - 1], <<e1, e2>>[i])]
             edited == CHOOSE g : g = Body(g)
  <1>1. f = Body(f)
    BY SMT
  <1>2. edited = Body(edited)
    BY <1>1
  <1>3. EditAll(d, <<e1, e2>>) = edited[Len(<<e1, e2>>)]
    BY DEF EditAll
  <1> HIDE DEF edited
  <1>4. edited[0] = d /\ edited[1] = Edit(edited[0], e1) /\ edited[2] = Edit(edited[1], e2)
    BY <1>2
  <1> QED BY <1>3, <1>4

\* The recursive definition of a course is sound: each of its members is the one
\* before after one more function.
LEMMA CourseDefined ==
  ASSUME NEW functions, NEW d, NEW ns, Len(ns) \in Nat
  PROVE  LET c == Course(functions, d, ns) IN
         /\ c[0] = d
         /\ \A i \in 1..Len(ns) : c[i] = Run(c[i - 1], ns[i], functions[ns[i]])
  <1> DEFINE Body(n, g) == [i \in 0..n |->
                             IF i = 0 THEN d ELSE Run(g[i - 1], ns[i], functions[ns[i]])]
             defined == {n \in Nat : \E g : g = Body(n, g)}
  <1>1. 0 \in defined
    <2>1. [i \in 0..0 |-> d] = Body(0, [i \in 0..0 |-> d])
      OBVIOUS
    <2> QED BY <2>1
  <1>2. ASSUME NEW n \in Nat, n \in defined PROVE n + 1 \in defined
    <2>1. PICK g : g = Body(n, g)
      BY <1>2
    <2> DEFINE h == [i \in 0..n + 1 |->
                      IF i <= n THEN g[i] ELSE Run(g[n], ns[n + 1], functions[ns[n + 1]])]
    <2>2. ASSUME NEW i \in 0..n + 1
          PROVE  h[i] = IF i = 0 THEN d ELSE Run(h[i - 1], ns[i], functions[ns[i]])
      <3>1. CASE i = 0
        BY <2>1, <3>1
      <3>2. CASE i \in 1..n
        <4>1. g[i] = Run(g[i - 1], ns[i], functions[ns[i]])
          BY <2>1, <3>2
        <4>2. h[i] = g[i] /\ h[i - 1] = g[i - 1]
          BY <3>2
        <4> QED BY <3>2, <4>1, <4>2
      <3>3. CASE i = n + 1
        <4>1. h[n] = g[n] /\ i - 1 = n /\ i # 0
          BY <3>3
        <4>2. h[i] = Run(g[n], ns[n + 1], functions[ns[n + 1]])
          BY <3>3
        <4> QED BY <3>3, <4>1, <4>2
      <3> QED BY <3>1, <3>2, <3>3
    <2> HIDE DEF h
    <2>3. h = Body(n + 1, h)
      BY <2>2 DEF h
    <2> QED BY <2>3
  <1>3. Len(ns) \in defined
    BY <1>1, <1>2, Induction
  <1> DEFINE c == CHOOSE g : g = Body(Len(ns), g)
  <1>4. c = Body(Len(ns), c)
    BY <1>3
  <1>5. Course(functions, d, ns) = c
    BY DEF Course
  <1> HIDE DEF c
  <1>6. c[0] = d /\ \A i \in 1..Len(ns) : c[i] = Run(c[i - 1], ns[i], functions[ns[i]])
    BY <1>4
  <1> QED BY <1>5, <1>6

-----------------------------------------------------------------------------
\* What one edit does

Changed(d, o, f, v) == [d EXCEPT !.cfg[o][f] = v]

LEMMA FieldChanged ==
  ASSUME NEW d, DevOK(d), NEW o \in Objects, NEW f \in FieldsOf(o), NEW v \in ValuesOf(f),
         NEW e, e = Changed(d, o, f, v)
  PROVE  /\ DevOK(e) /\ Core(e) = Core(d) /\ e.applied = d.applied
         /\ e.cfg[o][f] = v
         /\ \A o2 \in Objects : \A f2 \in FieldsOf(o2) :
              o2 # o \/ f2 # f => e.cfg[o2][f2] = d.cfg[o2][f2]
  <1> DEFINE c == d.cfg
             g == [c EXCEPT ![o] = [c[o] EXCEPT ![f] = v]]
  <1>1. e = [d EXCEPT !.cfg = g]
    BY DEF Changed
  <1>2. /\ c = [x \in Objects |-> [y \in FieldsOf(x) |-> c[x][y]]]
        /\ \A x \in Objects : \A y \in FieldsOf(x) : c[x][y] \in Stored(y)
    BY DEF DevOK, CfgOK
  <1> HIDE DEF c
  <1>3. c[o] = [y \in FieldsOf(o) |-> c[o][y]]
    BY <1>2
  <1>4. g[o] = [y \in FieldsOf(o) |-> IF y = f THEN v ELSE c[o][y]]
    BY <1>2, <1>3
  <1>5. \A x \in Objects : x # o => g[x] = c[x]
    BY <1>2
  <1>6. g[o][f] = v /\ \A x \in Objects : \A y \in FieldsOf(x) : x # o \/ y # f => g[x][y] = c[x][y]
    BY <1>4, <1>5
  <1>7. g = [x \in Objects |-> g[x]]
    BY <1>2
  <1> HIDE DEF g
  <1>8. \A x \in Objects : g[x] = [y \in FieldsOf(x) |-> g[x][y]]
    <2>1. ASSUME NEW x \in Objects, x # o PROVE g[x] = [y \in FieldsOf(x) |-> g[x][y]]
      <3>1. c[x] = [y \in FieldsOf(x) |-> c[x][y]]
        BY <1>2
      <3> QED BY <1>5, <2>1, <3>1
    <2>2. g[o] = [y \in FieldsOf(o) |-> g[o][y]]
      BY <1>4
    <2> QED BY <2>1, <2>2
  <1>9. g = [x \in Objects |-> [y \in FieldsOf(x) |-> g[x][y]]]
    BY <1>7, <1>8
  <1>10. v \in Stored(f)
    BY DEF Stored
  <1>11. CfgOK(g)
    BY <1>2, <1>6, <1>9, <1>10 DEF CfgOK
  <1>12. /\ e.cfg = g /\ e.children = d.children /\ e.inputs = d.inputs
         /\ e.outputs = d.outputs /\ e.applied = d.applied
         /\ e = [cfg |-> e.cfg, children |-> e.children, inputs |-> e.inputs,
                 outputs |-> e.outputs, applied |-> e.applied]
    BY <1>1 DEF DevOK
  <1>13. DevOK(e) /\ Core(e) = Core(d)
    BY <1>11, <1>12 DEF DevOK, Core
  <1>14. c = d.cfg
    BY DEF c
  <1>15. e.cfg[o][f] = v
    BY <1>6, <1>12
  <1>16. ASSUME NEW x \in Objects, NEW y \in FieldsOf(x), x # o \/ y # f
         PROVE  e.cfg[x][y] = d.cfg[x][y]
    BY <1>6, <1>12, <1>14, <1>16
  <1> QED BY <1>12, <1>13, <1>15, <1>16

LEMMA GetPlain ==
  ASSUME NEW c, NEW o, NEW f, f \notin OptionalFields
  PROVE  Get(c, o, f) = c[o][f]
  BY DEF Get, OptionalFields, ListFields

\* An assignment, and a setter called from inside a function.
LEMMA FieldEdit ==
  ASSUME NEW d, DevOK(d), NEW o \in Objects, NEW f \in FieldsOf(o), NEW v \in ValuesOf(f),
         NEW e \in {Assign(o, f, v), Set(o, f, v)}, NEW after, after = Edit(d, e)
  PROVE  /\ DevOK(after) /\ Core(after) = Core(d) /\ after.applied = d.applied
         /\ \A o2 \in Objects : \A f2 \in FieldsOf(o2) :
              o2 # o \/ f2 # f => after.cfg[o2][f2] = d.cfg[o2][f2]
         /\ e = Assign(o, f, v) /\ f \notin OptionalFields => after.cfg[o][f] = v
  <1>1. /\ e.kind \in {"assign", "set"} /\ e.object = o /\ e.field = f /\ e.value = v
        /\ e = Assign(o, f, v) => e.kind = "assign"
    BY DEF Assign, Set
  <1>2. Edit(d, e) = IF \/ v = Get(d.cfg, o, f)
                        \/ e.kind = "set" /\ ~Supported(d.cfg, o, f, v)
                     THEN d ELSE Changed(d, o, f, v)
    BY <1>1 DEF Edit, Changed
  <1>3. CASE Edit(d, e) = Changed(d, o, f, v)
    <2>1. after = Changed(d, o, f, v)
      BY <1>3
    <2> QED BY <2>1, FieldChanged
  <1>4. CASE Edit(d, e) = d /\ (e = Assign(o, f, v) => v = Get(d.cfg, o, f))
    BY <1>4, GetPlain
  <1> QED BY <1>1, <1>2, <1>3, <1>4

Step(e) == IF e.kind = "attach" THEN 1 ELSE -1

\* A device before and after an edit that attaches or detaches the child x.
Moved(d, after, x, where, e) ==
  /\ DevOK(after) /\ after.applied = d.applied /\ after.cfg = d.cfg
  /\ after.children = IF e = Attach(x, where) THEN d.children \union {x} ELSE d.children \ {x}
  /\ after.inputs = IF where = "input" THEN (d.inputs + Step(e)) % Word ELSE d.inputs
  /\ after.outputs = IF where = "output" THEN (d.outputs + Step(e)) % Word ELSE d.outputs

\* A child that is attached or detached, counted in its direction.
LEMMA ChildEdit ==
  ASSUME NEW d, DevOK(d), NEW x \in Children, NEW where \in Directions \union {"control"},
         NEW e \in {Attach(x, where), Detach(x, where)}
  PROVE  Moved(d, Edit(d, e), x, where, e)
  <1> DEFINE change == Step(e)
  <1> DEFINE counted == Counted(d, where, change)
  <1>1. \/ e = Attach(x, where) /\ e.kind = "attach" /\ e.child = x /\ e.to = where
        \/ e = Detach(x, where) /\ e.kind = "detach" /\ e.child = x /\ e.from = where
           /\ e # Attach(x, where)
    <2>1. Attach(x, where).kind = "attach" /\ Detach(x, where).kind = "detach"
      BY DEF Attach, Detach
    <2> QED BY <2>1 DEF Attach, Detach
  <1>9. change = IF e = Attach(x, where) THEN 1 ELSE -1
    BY <1>1 DEF Step
  <1>2. Edit(d, e) = IF e = Attach(x, where) THEN AddOwnedObject(counted, x)
                                             ELSE RemoveOwnedObject(counted, x)
    BY <1>1, <1>9 DEF Edit
  <1>3. Word \in Nat \ {0} /\ change \in Int
    <2>1. Word \in Nat /\ Cardinality(Streams) \in Nat /\ Cardinality(Streams) < Word
      BY ConfigurationAssumption, FS_CardinalityType DEF ConfigurationAssumption
    <2> QED BY <1>9, <2>1
  <1>4. /\ d.inputs \in Int /\ d.outputs \in Int
        /\ (d.inputs + change) % Word \in 0..Word - 1 /\ (d.outputs + change) % Word \in 0..Word - 1
    BY <1>3 DEF DevOK
  <1>5. /\ counted = [cfg |-> d.cfg, children |-> d.children,
                      inputs |-> IF where = "input" THEN (d.inputs + change) % Word ELSE d.inputs,
                      outputs |-> IF where = "output" THEN (d.outputs + change) % Word ELSE d.outputs,
                      applied |-> d.applied]
    <2>1. CASE where = "input"
      BY <2>1 DEF Counted, DevOK
    <2>2. CASE where = "output"
      BY <2>2 DEF Counted, DevOK
    <2>3. CASE where = "control"
      BY <2>3 DEF Counted, DevOK
    <2> QED BY <2>1, <2>2, <2>3 DEF Directions
  <1> HIDE DEF counted
  <1>6. Edit(d, e) = [cfg |-> d.cfg,
                      children |-> IF e = Attach(x, where) THEN d.children \union {x}
                                                           ELSE d.children \ {x},
                      inputs |-> IF where = "input" THEN (d.inputs + change) % Word ELSE d.inputs,
                      outputs |-> IF where = "output" THEN (d.outputs + change) % Word ELSE d.outputs,
                      applied |-> d.applied]
    BY <1>1, <1>2, <1>5 DEF AddOwnedObject, RemoveOwnedObject
  <1>7. DevOK(Edit(d, e))
    BY <1>4, <1>6 DEF DevOK
  <1> QED BY <1>6, <1>7 DEF Moved

-----------------------------------------------------------------------------
\* What one function does

Applied(d, n) == [d EXCEPT !.applied = Append(@, n)]

LEMMA RunRecords ==
  ASSUME NEW x, DevOK(x), NEW n \in Nat, NEW after, after = Applied(x, n)
  PROVE  /\ DevOK(after) /\ Core(after) = Core(x) /\ after.cfg = x.cfg
         /\ after.applied = Append(x.applied, n)
  <1>1. after = [x EXCEPT !.applied = Append(@, n)]
    BY DEF Applied
  <1>2. Append(x.applied, n) \in Seq(Nat)
    BY DEF DevOK
  <1>3. /\ after.cfg = x.cfg /\ after.children = x.children /\ after.inputs = x.inputs
        /\ after.outputs = x.outputs /\ after.applied = Append(x.applied, n)
        /\ after = [cfg |-> after.cfg, children |-> after.children, inputs |-> after.inputs,
                    outputs |-> after.outputs, applied |-> after.applied]
    BY <1>1 DEF DevOK
  <1>4. DevOK(after) /\ Core(after) = Core(x)
    BY <1>2, <1>3 DEF DevOK, Core
  <1> QED BY <1>3, <1>4

LEMMA RunAssign ==
  ASSUME NEW d, DevOK(d), NEW n \in Nat,
         NEW o \in Objects, NEW f \in FieldsOf(o), NEW v \in ValuesOf(f),
         NEW r, r = <<Assign(o, f, v)>>, NEW after, after = Run(d, n, r)
  PROVE  /\ DevOK(after) /\ Core(after) = Core(d) /\ after.applied = Append(d.applied, n)
         /\ \A o2 \in Objects : \A f2 \in FieldsOf(o2) :
              o2 # o \/ f2 # f => after.cfg[o2][f2] = d.cfg[o2][f2]
         /\ f \notin OptionalFields => after.cfg[o][f] = v
  <1>1. PICK e, x : e = Assign(o, f, v) /\ x = Edit(d, e)
    OBVIOUS
  <1>2. after = Applied(x, n)
    BY <1>1, EditOne DEF Run, Applied
  <1>3. /\ DevOK(x) /\ Core(x) = Core(d) /\ x.applied = d.applied
        /\ \A o2 \in Objects : \A f2 \in FieldsOf(o2) :
             o2 # o \/ f2 # f => x.cfg[o2][f2] = d.cfg[o2][f2]
        /\ f \notin OptionalFields => x.cfg[o][f] = v
    BY <1>1, FieldEdit
  <1>4. /\ DevOK(after) /\ Core(after) = Core(x) /\ after.cfg = x.cfg
        /\ after.applied = Append(x.applied, n)
    BY <1>2, <1>3, RunRecords
  <1> QED BY <1>3, <1>4

LEMMA RunRates ==
  ASSUME NEW d, DevOK(d), NEW n \in Nat, NEW list \in Lists, NEW v \in Values, NEW r,
         r = <<Set(Device, "availableSampleRates", list), Set(Device, "nominalSampleRate", v)>>,
         NEW after, after = Run(d, n, r)
  PROVE  /\ DevOK(after) /\ Core(after) = Core(d) /\ after.applied = Append(d.applied, n)
         /\ \A o \in Streams : \A f \in FieldsOf(o) : after.cfg[o][f] = d.cfg[o][f]
  <1>1. PICK e1, e2, x, y : /\ e1 = Set(Device, "availableSampleRates", list)
                            /\ e2 = Set(Device, "nominalSampleRate", v)
                            /\ x = Edit(d, e1) /\ y = Edit(x, e2)
    OBVIOUS
  <1>2. after = Applied(y, n)
    <2>1. r = <<e1, e2>>
      BY <1>1
    <2>2. EditAll(d, r) = y
      BY <1>1, <2>1, EditTwo
    <2> QED BY <2>2 DEF Run, Applied
  <1>3. /\ Device \in Objects /\ Streams \subseteq Objects /\ Device \notin Streams
        /\ "availableSampleRates" \in FieldsOf(Device) /\ "nominalSampleRate" \in FieldsOf(Device)
        /\ ValuesOf("availableSampleRates") = Lists /\ ValuesOf("nominalSampleRate") = Values
    BY ConfigurationAssumption
    DEF ConfigurationAssumption, Children, Objects, FieldsOf, DeviceFields, ValuesOf, ListFields
  <1>4. /\ DevOK(x) /\ Core(x) = Core(d) /\ x.applied = d.applied
        /\ \A o2 \in Objects : \A f2 \in FieldsOf(o2) :
             o2 # Device \/ f2 # "availableSampleRates" => x.cfg[o2][f2] = d.cfg[o2][f2]
    BY <1>1, <1>3, FieldEdit
  <1>5. /\ DevOK(y) /\ Core(y) = Core(x) /\ y.applied = x.applied
        /\ \A o2 \in Objects : \A f2 \in FieldsOf(o2) :
             o2 # Device \/ f2 # "nominalSampleRate" => y.cfg[o2][f2] = x.cfg[o2][f2]
    BY <1>1, <1>3, <1>4, FieldEdit
  <1>6. \A o \in Streams : \A f \in FieldsOf(o) : y.cfg[o][f] = d.cfg[o][f]
    BY <1>3, <1>4, <1>5
  <1>7. /\ DevOK(after) /\ Core(after) = Core(y) /\ after.cfg = y.cfg
        /\ after.applied = Append(y.applied, n)
    BY <1>2, <1>5, RunRecords
  <1> QED BY <1>4, <1>5, <1>6, <1>7

\* The same of a function that makes this edit and has the number n.
RunMoves(d, n, x, where, e, after) ==
  /\ DevOK(after) /\ after.applied = Append(d.applied, n) /\ after.cfg = d.cfg
  /\ after.children = IF e = Attach(x, where) THEN d.children \union {x} ELSE d.children \ {x}
  /\ after.inputs = IF where = "input" THEN (d.inputs + Step(e)) % Word ELSE d.inputs
  /\ after.outputs = IF where = "output" THEN (d.outputs + Step(e)) % Word ELSE d.outputs

LEMMA RunChild ==
  ASSUME NEW d, DevOK(d), NEW n \in Nat, NEW x \in Children,
         NEW where \in Directions \union {"control"},
         NEW e \in {Attach(x, where), Detach(x, where)}
  PROVE  RunMoves(d, n, x, where, e, Run(d, n, <<e>>))
  <1>1. PICK y, after : y = Edit(d, e) /\ after = Run(d, n, <<e>>)
    OBVIOUS
  <1>2. after = Applied(y, n)
    BY <1>1, EditOne DEF Run, Applied
  <1>3. Moved(d, y, x, where, e)
    BY <1>1, ChildEdit
  <1>4. /\ DevOK(after) /\ Core(after) = Core(y) /\ after.cfg = y.cfg
        /\ after.applied = Append(y.applied, n)
    BY <1>2, <1>3, RunRecords DEF Moved
  <1>5. after.children = y.children /\ after.inputs = y.inputs /\ after.outputs = y.outputs
    BY <1>4 DEF Core
  <1> QED BY <1>1, <1>3, <1>4, <1>5 DEF Moved, RunMoves

\* What a function may do to a device.
Effect(d, r, n, dirs, after) ==
  /\ DevOK(after) /\ after.applied = Append(d.applied, n)
  /\ \A o \in Objects : \A f \in FieldsOf(o) :
       Len(r) = 1 /\ (\A v \in ValuesOf(f) : r # <<Assign(o, f, v)>>) => after.cfg[o][f] = d.cfg[o][f]
  /\ \A o \in Objects : \A f \in FieldsOf(o) \ OptionalFields : \A v \in ValuesOf(f) :
       r = <<Assign(o, f, v)>> => after.cfg[o][f] = v
  /\ NoFormat(r) => \A s \in Streams : after.cfg[s].physicalFormat = d.cfg[s].physicalFormat
  /\ \A x \in after.children \ d.children : Place(dirs, x) # "none"

LEMMA StreamObjects ==
  /\ Device \in Objects /\ Streams \subseteq Objects /\ Device \notin Streams
  /\ \A s \in Streams : FieldsOf(s) = StreamFields
  /\ FieldsOf(Device) = DeviceFields
  BY ConfigurationAssumption DEF ConfigurationAssumption, Children, Objects, FieldsOf

LEMMA PlaceKinds ==
  ASSUME NEW dirs \in [Streams -> Directions \union {"none"}], NEW x, Place(dirs, x) # "none"
  PROVE  Place(dirs, x) \in Directions \union {"control"}
  BY DEF Place

LEMMA RunLegal ==
  ASSUME NEW d, DevOK(d), NEW n \in Nat, NEW dirs \in [Streams -> Directions \union {"none"}],
         NEW r, Legal(r, dirs), NEW after, after = Run(d, n, r)
  PROVE  Effect(d, r, n, dirs, after)
  <1>1. CASE IsAssign(r, dirs)
    <2>1. PICK o, f, v : o \in Objects /\ f \in FieldsOf(o) /\ v \in ValuesOf(f) /\ r = <<Assign(o, f, v)>>
      BY <1>1 DEF IsAssign
    <2>2. /\ DevOK(after) /\ Core(after) = Core(d) /\ after.applied = Append(d.applied, n)
          /\ \A o2 \in Objects : \A f2 \in FieldsOf(o2) :
               o2 # o \/ f2 # f => after.cfg[o2][f2] = d.cfg[o2][f2]
          /\ f \notin OptionalFields => after.cfg[o][f] = v
      BY <2>1, RunAssign
    <2>3. \A o2, f2, v2 : r = <<Assign(o2, f2, v2)>> => o2 = o /\ f2 = f /\ v2 = v
      BY <2>1 DEF Assign
    <2>4. NoFormat(r) => f # "physicalFormat"
      BY <2>1 DEF NoFormat, Assign
    <2>5. \A s \in Streams : s \in Objects /\ "physicalFormat" \in FieldsOf(s)
      BY StreamObjects DEF StreamFields
    <2>6. after.children = d.children
      BY <2>2 DEF Core
    <2>7. ASSUME NEW o2 \in Objects, NEW f2 \in FieldsOf(o2),
                 \A v2 \in ValuesOf(f2) : r # <<Assign(o2, f2, v2)>>
          PROVE  after.cfg[o2][f2] = d.cfg[o2][f2]
      BY <2>1, <2>2, <2>7
    <2>8. ASSUME NEW o2 \in Objects, NEW f2 \in FieldsOf(o2) \ OptionalFields,
                 NEW v2 \in ValuesOf(f2), r = <<Assign(o2, f2, v2)>>
          PROVE  after.cfg[o2][f2] = v2
      BY <2>2, <2>3, <2>8
    <2>9. ASSUME NoFormat(r), NEW s \in Streams
          PROVE  after.cfg[s].physicalFormat = d.cfg[s].physicalFormat
      BY <2>2, <2>4, <2>5, <2>9
    <2> QED BY <2>2, <2>6, <2>7, <2>8, <2>9 DEF Effect
  <1>2. CASE IsRateChange(r)
    <2>1. PICK list \in Lists, v \in Values :
            r = <<Set(Device, "availableSampleRates", list), Set(Device, "nominalSampleRate", v)>>
      BY <1>2 DEF IsRateChange
    <2>2. /\ DevOK(after) /\ Core(after) = Core(d) /\ after.applied = Append(d.applied, n)
          /\ \A s \in Streams : \A f \in FieldsOf(s) : after.cfg[s][f] = d.cfg[s][f]
      BY <2>1, RunRates
    <2>3. Len(r) = 2
      BY <2>1
    <2>4. \A s \in Streams : "physicalFormat" \in FieldsOf(s)
      BY StreamObjects DEF StreamFields
    <2>5. after.children = d.children
      BY <2>2 DEF Core
    <2>6. \A o2, f2, v2 : r # <<Assign(o2, f2, v2)>>
      BY <2>3
    <2> QED BY <2>2, <2>3, <2>4, <2>5, <2>6 DEF Effect
  <1>3. CASE \E x \in Children :
               /\ Place(dirs, x) # "none"
               /\ r \in {<<Attach(x, Place(dirs, x))>>, <<Detach(x, Place(dirs, x))>>}
    <2>1. PICK x \in Children : /\ Place(dirs, x) # "none"
               /\ r \in {<<Attach(x, Place(dirs, x))>>, <<Detach(x, Place(dirs, x))>>}
      BY <1>3
    <2>2. PICK where \in Directions \union {"control"} : where = Place(dirs, x)
      BY <2>1, PlaceKinds
    <2>3. PICK e \in {Attach(x, where), Detach(x, where)} : r = <<e>>
      BY <2>1, <2>2
    <2>9. RunMoves(d, n, x, where, e, after)
      BY <2>3, RunChild
    <2>4. /\ DevOK(after) /\ after.applied = Append(d.applied, n) /\ after.cfg = d.cfg
          /\ after.children = IF e = Attach(x, where) THEN d.children \union {x} ELSE d.children \ {x}
      BY <2>9 DEF RunMoves
    <2>5. \A o, f, v : r # <<Assign(o, f, v)>>
      BY <2>3 DEF Assign, Attach, Detach
    <2>6. \A y \in after.children \ d.children : Place(dirs, y) # "none"
      BY <2>1, <2>4
    <2> QED BY <2>4, <2>5, <2>6 DEF Effect
  <1> QED BY <1>1, <1>2, <1>3 DEF Legal

\* The children and the counts after a function depend only on those before.
LEMMA RunSame ==
  ASSUME NEW d1, DevOK(d1), NEW d2, DevOK(d2), Core(d1) = Core(d2), NEW n1 \in Nat, NEW n2 \in Nat,
         NEW dirs \in [Streams -> Directions \union {"none"}], NEW r, Legal(r, dirs)
  PROVE  Core(Run(d1, n1, r)) = Core(Run(d2, n2, r))
  <1>0. PICK a1, a2 : a1 = Run(d1, n1, r) /\ a2 = Run(d2, n2, r)
    OBVIOUS
  <1>1. CASE IsAssign(r, dirs)
    <2>1. PICK o, f, v : o \in Objects /\ f \in FieldsOf(o) /\ v \in ValuesOf(f) /\ r = <<Assign(o, f, v)>>
      BY <1>1 DEF IsAssign
    <2>2. Core(a1) = Core(d1)
      BY <1>0, <2>1, RunAssign
    <2>3. Core(a2) = Core(d2)
      BY <1>0, <2>1, RunAssign
    <2> QED BY <1>0, <2>2, <2>3
  <1>2. CASE IsRateChange(r)
    <2>1. PICK list \in Lists, v \in Values :
            r = <<Set(Device, "availableSampleRates", list), Set(Device, "nominalSampleRate", v)>>
      BY <1>2 DEF IsRateChange
    <2> QED BY <1>0, <2>1, RunRates
  <1>3. CASE \E x \in Children :
               /\ Place(dirs, x) # "none"
               /\ r \in {<<Attach(x, Place(dirs, x))>>, <<Detach(x, Place(dirs, x))>>}
    <2>1. PICK x \in Children : /\ Place(dirs, x) # "none"
               /\ r \in {<<Attach(x, Place(dirs, x))>>, <<Detach(x, Place(dirs, x))>>}
      BY <1>3
    <2>2. PICK where \in Directions \union {"control"} : where = Place(dirs, x)
      BY <2>1, PlaceKinds
    <2>3. PICK e \in {Attach(x, where), Detach(x, where)} : r = <<e>>
      BY <2>1, <2>2
    <2>8. RunMoves(d1, n1, x, where, e, a1) /\ RunMoves(d2, n2, x, where, e, a2)
      BY <1>0, <2>3, RunChild
    <2>4. /\ a1.children = IF e = Attach(x, where) THEN d1.children \union {x} ELSE d1.children \ {x}
          /\ a1.inputs = IF where = "input" THEN (d1.inputs + Step(e)) % Word ELSE d1.inputs
          /\ a1.outputs = IF where = "output" THEN (d1.outputs + Step(e)) % Word ELSE d1.outputs
      BY <2>8 DEF RunMoves
    <2>5. /\ a2.children = IF e = Attach(x, where) THEN d2.children \union {x} ELSE d2.children \ {x}
          /\ a2.inputs = IF where = "input" THEN (d2.inputs + Step(e)) % Word ELSE d2.inputs
          /\ a2.outputs = IF where = "output" THEN (d2.outputs + Step(e)) % Word ELSE d2.outputs
      BY <2>8 DEF RunMoves
    <2>6. d1.children = d2.children /\ d1.inputs = d2.inputs /\ d1.outputs = d2.outputs
      BY DEF Core
    <2>7. Core(a1) = Core(a2)
      BY <2>4, <2>5, <2>6 DEF Core
    <2> QED BY <1>0, <2>7
  <1> QED BY <1>1, <1>2, <1>3 DEF Legal

LEMMA Added ==
  ASSUME NEW A, A \subseteq Streams, NEW x \in Streams, x \notin A
  PROVE  (Cardinality(A) + 1) % Word = Cardinality(A \union {x})
  <1>1. IsFiniteSet(A) /\ IsFiniteSet(A \union {x})
    BY FS_Subset, ConfigurationAssumption DEF ConfigurationAssumption
  <1>2. Cardinality(A \union {x}) = Cardinality(A) + 1
    BY <1>1, FS_AddElement
  <1>3. Cardinality(A \union {x}) <= Cardinality(Streams)
    BY FS_Subset, ConfigurationAssumption DEF ConfigurationAssumption
  <1>4. Cardinality(A) \in Nat /\ Cardinality(Streams) \in Nat /\ Word \in Nat
        /\ Cardinality(Streams) < Word
    BY <1>1, FS_CardinalityType, ConfigurationAssumption DEF ConfigurationAssumption
  <1> QED BY <1>2, <1>3, <1>4

LEMMA Removed ==
  ASSUME NEW A, A \subseteq Streams, NEW x \in A
  PROVE  (Cardinality(A) + (-1)) % Word = Cardinality(A \ {x})
  <1>1. IsFiniteSet(A) /\ IsFiniteSet(A \ {x})
    BY FS_Subset, ConfigurationAssumption DEF ConfigurationAssumption
  <1>2. Cardinality(A \ {x}) = Cardinality(A) - 1
    BY <1>1, FS_RemoveElement
  <1>3. Cardinality(A) <= Cardinality(Streams)
    BY FS_Subset, ConfigurationAssumption DEF ConfigurationAssumption
  <1>4. Cardinality(A) \in Nat /\ Cardinality(A \ {x}) \in Nat /\ Cardinality(Streams) \in Nat
        /\ Word \in Nat /\ Cardinality(Streams) < Word
    BY <1>1, FS_CardinalityType, ConfigurationAssumption DEF ConfigurationAssumption
  <1> QED BY <1>2, <1>3, <1>4

CountsTo(d, dirs, children) == Counts(d, dirs) /\ d.children = children

\* The counts stay those of the children.
LEMMA RunCounts ==
  ASSUME NEW d, DevOK(d), NEW n \in Nat, NEW dirs \in [Streams -> Directions \union {"none"}],
         NEW r, NEW children, Alters(r, dirs, d.children, children), Counts(d, dirs)
  PROVE  CountsTo(Run(d, n, r), dirs, children)
  <1>0. PICK after : after = Run(d, n, r)
    OBVIOUS
  <1>1. CASE IsAssign(r, dirs) \/ IsRateChange(r)
    <2>1. Core(after) = Core(d)
      <3>1. CASE IsAssign(r, dirs)
        <4>1. PICK o, f, v : o \in Objects /\ f \in FieldsOf(o) /\ v \in ValuesOf(f) /\ r = <<Assign(o, f, v)>>
          BY <3>1 DEF IsAssign
        <4> QED BY <1>0, <4>1, RunAssign
      <3>2. CASE IsRateChange(r)
        <4>1. PICK list \in Lists, v \in Values :
                r = <<Set(Device, "availableSampleRates", list), Set(Device, "nominalSampleRate", v)>>
          BY <3>2 DEF IsRateChange
        <4> QED BY <1>0, <4>1, RunRates
      <3> QED BY <1>1, <3>1, <3>2
    <2>2. after.children = d.children /\ after.inputs = d.inputs /\ after.outputs = d.outputs
      BY <2>1 DEF Core
    <2>3. children = d.children
      <3>1. ASSUME NEW x, NEW where, r \in {<<Attach(x, where)>>, <<Detach(x, where)>>} PROVE FALSE
        <4>1. CASE IsAssign(r, dirs)
          BY <3>1, <4>1 DEF IsAssign, Assign, Attach, Detach
        <4>2. CASE IsRateChange(r)
          <5>1. Len(r) = 2
            BY <4>2 DEF IsRateChange
          <5> QED BY <3>1, <5>1
        <4> QED BY <1>1, <4>1, <4>2
      <3> QED BY <3>1 DEF Alters
    <2>4. \A dir : AttachedTo(after, dirs, dir) = AttachedTo(d, dirs, dir)
      BY <2>2 DEF AttachedTo
    <2>5. Counts(after, dirs)
      BY <2>2, <2>4 DEF Counts
    <2> QED BY <1>0, <2>2, <2>3, <2>5 DEF CountsTo
  <1>2. ASSUME NEW x \in Children, Place(dirs, x) # "none",
               \/ /\ r = <<Attach(x, Place(dirs, x))>>
                  /\ x \notin d.children /\ children = d.children \union {x}
               \/ /\ r = <<Detach(x, Place(dirs, x))>>
                  /\ x \in d.children /\ children = d.children \ {x}
        PROVE  Counts(after, dirs) /\ after.children = children
    <2>1. PICK where \in Directions \union {"control"} : where = Place(dirs, x)
      BY <1>2, PlaceKinds
    <2>2. PICK e \in {Attach(x, where), Detach(x, where)} :
            /\ r = <<e>>
            /\ \/ /\ e = Attach(x, where) /\ x \notin d.children /\ children = d.children \union {x}
                  /\ Step(e) = 1
               \/ /\ e = Detach(x, where) /\ x \in d.children /\ children = d.children \ {x}
                  /\ Step(e) = -1 /\ e # Attach(x, where)
      <3>1. Step(Attach(x, where)) = 1 /\ Step(Detach(x, where)) = -1
            /\ Attach(x, where) # Detach(x, where)
        BY DEF Step, Attach, Detach
      <3> QED BY <1>2, <2>1, <3>1
    <2>8. RunMoves(d, n, x, where, e, after)
      <3>1. r = <<e>>
        BY <2>2
      <3> QED BY <1>0, <3>1, RunChild
    <2>3. /\ after.children = children
          /\ after.inputs = IF where = "input" THEN (d.inputs + Step(e)) % Word ELSE d.inputs
          /\ after.outputs = IF where = "output" THEN (d.outputs + Step(e)) % Word ELSE d.outputs
      BY <2>2, <2>8 DEF RunMoves
    <2>4. \A dir \in Directions :
            /\ AttachedTo(d, dirs, dir) \subseteq Streams
            /\ where # dir => AttachedTo(after, dirs, dir) = AttachedTo(d, dirs, dir)
            /\ where = dir =>
                 /\ x \in Streams
                 /\ e = Attach(x, where) =>
                      /\ x \notin AttachedTo(d, dirs, dir)
                      /\ AttachedTo(after, dirs, dir) = AttachedTo(d, dirs, dir) \union {x}
                 /\ e # Attach(x, where) =>
                      /\ x \in AttachedTo(d, dirs, dir)
                      /\ AttachedTo(after, dirs, dir) = AttachedTo(d, dirs, dir) \ {x}
      BY <2>1, <2>2, <2>3 DEF AttachedTo, Place, Directions
    <2>5. \A dir \in Directions : where = dir =>
            (Cardinality(AttachedTo(d, dirs, dir)) + Step(e)) % Word
              = Cardinality(AttachedTo(after, dirs, dir))
      BY <2>2, <2>4, Added, Removed
    <2>6. after.inputs = Cardinality(AttachedTo(after, dirs, "input"))
      BY <2>3, <2>4, <2>5 DEF Counts, Directions
    <2>7. after.outputs = Cardinality(AttachedTo(after, dirs, "output"))
      BY <2>3, <2>4, <2>5 DEF Counts, Directions
    <2> QED BY <2>3, <2>6, <2>7 DEF Counts
  <1> QED BY <1>0, <1>1, <1>2 DEF Alters, CountsTo

-----------------------------------------------------------------------------
\* What a sequence of functions does

Good(d, functions, dirs, spans) ==
  DevOK(d) /\ Placed(d, dirs) /\ Settled(d, functions) /\ FormatsKept(d, functions, dirs, spans)

LEMMA RunSettled ==
  ASSUME NEW d, DevOK(d), NEW functions, Settled(d, functions), NEW n \in Nat, NEW dirs, NEW after,
         Effect(d, functions[n], n, dirs, after)
  PROVE  Settled(after, functions)
  <1>1. /\ d.applied \in Seq(Nat) /\ after.applied = Append(d.applied, n)
        /\ Len(after.applied) = Len(d.applied) + 1 /\ Len(d.applied) \in Nat
        /\ DOMAIN after.applied = 1..Len(d.applied) + 1 /\ DOMAIN d.applied = 1..Len(d.applied)
        /\ \A i \in 1..Len(d.applied) : after.applied[i] = d.applied[i]
        /\ after.applied[Len(d.applied) + 1] = n
    BY DEF Effect, DevOK
  <1> SUFFICES ASSUME \A i \in DOMAIN after.applied : Len(functions[after.applied[i]]) = 1,
                      NEW o \in Objects, NEW f \in FieldsOf(o) \ OptionalFields,
                      NEW v \in Values, NEW i \in DOMAIN after.applied,
                      functions[after.applied[i]] = <<Assign(o, f, v)>>,
                      \A j \in i + 1..Len(after.applied), w \in Values :
                        functions[after.applied[j]] # <<Assign(o, f, w)>>
               PROVE  after.cfg[o][f] = v
    BY DEF Settled
  <1>2. /\ \A j \in DOMAIN d.applied : Len(functions[d.applied[j]]) = 1
        /\ Len(functions[n]) = 1
    <2>1. \A j \in 1..Len(d.applied) : j \in 1..Len(d.applied) + 1
      BY <1>1
    <2>2. Len(d.applied) + 1 \in 1..Len(d.applied) + 1
      BY <1>1
    <2> QED BY <1>1, <2>1, <2>2
  <1>3. ValuesOf(f) = Values
    BY DEF ValuesOf, OptionalFields
  <1>4. CASE i = Len(d.applied) + 1
    <2>1. functions[n] = <<Assign(o, f, v)>>
      BY <1>1, <1>4
    <2> QED BY <1>3, <2>1 DEF Effect
  <1>5. CASE i \in 1..Len(d.applied)
    <2>1. \A w \in Values : functions[n] # <<Assign(o, f, w)>>
      <3>1. Len(d.applied) + 1 \in i + 1..Len(after.applied)
        BY <1>1, <1>5
      <3> QED BY <1>1, <3>1
    <2>2. after.cfg[o][f] = d.cfg[o][f]
      BY <1>2, <1>3, <2>1 DEF Effect
    <2>3. functions[d.applied[i]] = <<Assign(o, f, v)>>
      BY <1>1, <1>5
    <2>4. \A j \in i + 1..Len(d.applied), w \in Values : functions[d.applied[j]] # <<Assign(o, f, w)>>
      <3>1. \A j \in i + 1..Len(d.applied) :
              j \in i + 1..Len(after.applied) /\ j \in 1..Len(d.applied)
        BY <1>1, <1>5
      <3> QED BY <1>1, <3>1
    <2>5. i \in DOMAIN d.applied
      BY <1>1, <1>5
    <2>6. d.cfg[o][f] = v
      BY <1>2, <2>3, <2>4, <2>5 DEF Settled
    <2> QED BY <2>2, <2>6
  <1> QED BY <1>1, <1>4, <1>5

GoodStep(d, functions, dirs, spans, n, after) ==
  Good(after, functions, dirs, spans) /\ after.applied = Append(d.applied, n)

LEMMA RunGood ==
  ASSUME NEW dirs \in [Streams -> Directions \union {"none"}], NEW spans,
         NEW functions, AllLegal(functions, dirs), NEW d, Good(d, functions, dirs, spans),
         NEW n \in Nat, n \in DOMAIN functions
  PROVE  GoodStep(d, functions, dirs, spans, n, Run(d, n, functions[n]))
  <1>0. PICK after : after = Run(d, n, functions[n])
    OBVIOUS
  <1>1. Legal(functions[n], dirs) /\ DevOK(d)
    BY DEF AllLegal, Good
  <1>2. Effect(d, functions[n], n, dirs, after)
    BY <1>0, <1>1, RunLegal
  <1>3. Settled(after, functions)
    BY <1>1, <1>2, RunSettled DEF Good
  <1>4. Placed(after, dirs)
    BY <1>2 DEF Effect, Good, Placed, Place
  <1>5. FormatsKept(after, functions, dirs, spans)
    BY <1>2 DEF Effect, Good, FormatsKept, NoFormats
  <1> QED BY <1>0, <1>2, <1>3, <1>4, <1>5 DEF Effect, Good, GoodStep

Walk(c, functions, d, ns) ==
  c[0] = d /\ \A i \in 1..Len(ns) : c[i] = Run(c[i - 1], ns[i], functions[ns[i]])

\* The numbers ns[1], ..., ns[i] have been applied to d, and that gave e.
AppliedTo(e, d, ns, i) ==
  /\ Len(e.applied) = Len(d.applied) + i
  /\ \A j \in 1..Len(d.applied) : e.applied[j] = d.applied[j]
  /\ \A j \in 1..i : e.applied[Len(d.applied) + j] = ns[j]

Numbers(ns, functions) == \A i \in 1..Len(ns) : ns[i] \in Nat /\ ns[i] \in DOMAIN functions

AllGood(c, functions, dirs, spans, d, ns) ==
  \A i \in 0..Len(ns) : Good(c[i], functions, dirs, spans) /\ AppliedTo(c[i], d, ns, i)

LEMMA WalkGood ==
  ASSUME NEW dirs \in [Streams -> Directions \union {"none"}], NEW spans,
         NEW functions, AllLegal(functions, dirs), NEW d, Good(d, functions, dirs, spans),
         NEW ns, Len(ns) \in Nat, Numbers(ns, functions), NEW c, Walk(c, functions, d, ns)
  PROVE  AllGood(c, functions, dirs, spans, d, ns)
  <1> DEFINE P(i) == Good(c[i], functions, dirs, spans) /\ AppliedTo(c[i], d, ns, i)
             S == {i \in Nat : i <= Len(ns) => P(i)}
  <1>1. d.applied \in Seq(Nat) /\ Len(d.applied) \in Nat
    BY DEF Good, DevOK
  <1>2. 0 \in S
    BY <1>1 DEF Walk, AppliedTo
  <1>3. ASSUME NEW i \in Nat, i \in S PROVE i + 1 \in S
    <2> SUFFICES ASSUME i + 1 <= Len(ns) PROVE P(i + 1)
      OBVIOUS
    <2>1. Good(c[i], functions, dirs, spans) /\ AppliedTo(c[i], d, ns, i)
      BY <1>3
    <2>2. i + 1 \in 1..Len(ns) /\ i + 1 - 1 = i
      OBVIOUS
    <2>3. c[i + 1] = Run(c[i], ns[i + 1], functions[ns[i + 1]])
      BY <2>2 DEF Walk
    <2>4. ns[i + 1] \in Nat /\ ns[i + 1] \in DOMAIN functions
      BY <2>2 DEF Numbers
    <2>5. Good(c[i + 1], functions, dirs, spans)
          /\ c[i + 1].applied = Append(c[i].applied, ns[i + 1])
      <3>1. PICK x, y, n : x = c[i] /\ y = c[i + 1] /\ n = ns[i + 1]
        OBVIOUS
      <3>2. Good(x, functions, dirs, spans) /\ n \in Nat /\ n \in DOMAIN functions
            /\ y = Run(x, n, functions[n])
        BY <2>1, <2>3, <2>4, <3>1
      <3>3. GoodStep(x, functions, dirs, spans, n, y)
        BY <3>2, RunGood
      <3> QED BY <3>1, <3>3 DEF GoodStep
    <2>12. PICK m \in Nat : m = Len(d.applied)
      BY <1>1
    <2>6. PICK a, b : a = c[i].applied /\ b = c[i + 1].applied /\ m = Len(d.applied)
      BY <2>12
    <2>7. a \in Seq(Nat) /\ Len(a) = m + i
      BY <2>1, <2>6 DEF Good, DevOK, AppliedTo
    <2>8. /\ Len(b) = m + i + 1 /\ b[m + i + 1] = ns[i + 1]
          /\ \A j \in 1..m + i : b[j] = a[j]
      <3>1. b = Append(a, ns[i + 1])
        BY <2>5, <2>6
      <3>2. PICK n \in Nat : n = ns[i + 1]
        BY <2>4
      <3>3. b = Append(a, n) /\ Len(a) \in Nat
        BY <2>7, <3>1, <3>2
      <3>4. /\ Len(b) = Len(a) + 1 /\ b[Len(a) + 1] = n
            /\ \A j \in 1..Len(a) : b[j] = a[j]
        BY <2>7, <3>3, AppendProperties
      <3> QED BY <2>7, <3>2, <3>4
    <2>9. \A j \in 1..m : b[j] = d.applied[j]
      <3>1. \A j \in 1..m : j \in 1..m + i
        OBVIOUS
      <3> QED BY <2>1, <2>6, <2>8, <3>1 DEF AppliedTo
    <2>10. \A j \in 1..i + 1 : b[m + j] = ns[j]
      <3>1. ASSUME NEW j \in 1..i PROVE b[m + j] = ns[j]
        <4>1. m + j \in 1..m + i
          OBVIOUS
        <4> QED BY <2>1, <2>6, <2>8, <4>1 DEF AppliedTo
      <3>2. m + (i + 1) = m + i + 1
        OBVIOUS
      <3>3. \A j \in 1..i + 1 : j \in 1..i \/ j = i + 1
        OBVIOUS
      <3> QED BY <2>8, <3>1, <3>2, <3>3
    <2>11. AppliedTo(c[i + 1], d, ns, i + 1)
      <3>1. Len(b) = m + (i + 1)
        BY <2>8
      <3> QED BY <2>6, <2>9, <2>10, <3>1 DEF AppliedTo
    <2> QED BY <2>5, <2>11
  <1>4. Nat \subseteq S
    BY <1>2, <1>3, Induction
  <1> QED BY <1>4 DEF AllGood

\* Walks over the same functions from devices with the same children and counts.
SameSteps(c1, f1, ns1, c2, f2, ns2, off, k, dirs) ==
  /\ \A i \in 0..k : DevOK(c1[i]) /\ DevOK(c2[off + i])
  /\ \A i \in 1..k : /\ ns1[i] \in Nat /\ ns2[off + i] \in Nat
                     /\ f1[ns1[i]] = f2[ns2[off + i]] /\ Legal(f1[ns1[i]], dirs)

SameCores(c1, c2, off, k) == \A i \in 0..k : Core(c1[i]) = Core(c2[off + i])

LEMMA WalkSame ==
  ASSUME NEW dirs \in [Streams -> Directions \union {"none"}],
         NEW c1, NEW f1, NEW d1, NEW ns1, Walk(c1, f1, d1, ns1), Len(ns1) \in Nat,
         NEW c2, NEW f2, NEW d2, NEW ns2, Walk(c2, f2, d2, ns2), Len(ns2) \in Nat,
         NEW k \in Nat, NEW off \in Nat, k <= Len(ns1), off + k <= Len(ns2),
         SameSteps(c1, f1, ns1, c2, f2, ns2, off, k, dirs), Core(d1) = Core(c2[off])
  PROVE  SameCores(c1, c2, off, k)
  <1>4. /\ \A i \in 0..k : DevOK(c1[i]) /\ DevOK(c2[off + i])
        /\ \A i \in 1..k : /\ ns1[i] \in Nat /\ ns2[off + i] \in Nat
                           /\ f1[ns1[i]] = f2[ns2[off + i]] /\ Legal(f1[ns1[i]], dirs)
    BY DEF SameSteps
  <1> DEFINE S == {i \in Nat : i <= k => Core(c1[i]) = Core(c2[off + i])}
  <1>1. 0 \in S
    BY DEF Walk
  <1>2. ASSUME NEW i \in Nat, i \in S PROVE i + 1 \in S
    <2> SUFFICES ASSUME i + 1 <= k PROVE Core(c1[i + 1]) = Core(c2[off + (i + 1)])
      OBVIOUS
    <2>1. /\ i + 1 \in 1..k /\ i + 1 \in 1..Len(ns1) /\ off + (i + 1) \in 1..Len(ns2)
          /\ i + 1 - 1 = i /\ off + (i + 1) - 1 = off + i /\ i \in 0..k
      OBVIOUS
    <2>2. c1[i + 1] = Run(c1[i], ns1[i + 1], f1[ns1[i + 1]])
      <3>1. PICK q : q = i + 1 /\ q \in 1..Len(ns1) /\ q - 1 = i
        BY <2>1
      <3>2. c1[q] = Run(c1[q - 1], ns1[q], f1[ns1[q]])
        BY <3>1 DEF Walk
      <3> QED BY <3>1, <3>2
    <2>3. c2[off + (i + 1)] = Run(c2[off + i], ns2[off + (i + 1)], f2[ns2[off + (i + 1)]])
      <3>1. PICK q : q = off + (i + 1) /\ q \in 1..Len(ns2) /\ q - 1 = off + i
        BY <2>1
      <3>2. c2[q] = Run(c2[q - 1], ns2[q], f2[ns2[q]])
        BY <3>1 DEF Walk
      <3> QED BY <3>1, <3>2
    <2>4. PICK x, y, n1, n2, r : /\ x = c1[i] /\ y = c2[off + i] /\ n1 = ns1[i + 1]
                                 /\ n2 = ns2[off + (i + 1)] /\ r = f1[n1]
      OBVIOUS
    <2>5. DevOK(x) /\ DevOK(y) /\ Core(x) = Core(y)
      BY <1>2, <1>4, <2>1, <2>4
    <2>6. n1 \in Nat /\ n2 \in Nat /\ f2[n2] = r /\ Legal(r, dirs)
      BY <1>4, <2>1, <2>4
    <2>7. Core(Run(x, n1, r)) = Core(Run(y, n2, r))
      BY <2>5, <2>6, RunSame
    <2> QED BY <2>2, <2>3, <2>4, <2>6, <2>7
  <1>3. Nat \subseteq S
    BY <1>1, <1>2, Induction
  <1> QED BY <1>3 DEF SameCores

\* Functions that alter the children step by step, from kept[0] to kept[k].
AlterSteps(functions, ns, p, k, kept, dirs) ==
  \A j \in 1..k : /\ ns[p + j] \in Nat
                  /\ Alters(functions[ns[p + j]], dirs, kept[j - 1], kept[j])

CountSteps(c, p, k, kept, dirs) ==
  \A j \in 0..k : Counts(c[p + j], dirs) /\ c[p + j].children = kept[j]

LEMMA WalkCounts ==
  ASSUME NEW dirs \in [Streams -> Directions \union {"none"}],
         NEW c, NEW functions, NEW d, NEW ns, Walk(c, functions, d, ns), Len(ns) \in Nat,
         NEW p \in Nat, NEW k \in Nat, p + k <= Len(ns), NEW kept,
         \A j \in 0..Len(ns) : DevOK(c[j]), AlterSteps(functions, ns, p, k, kept, dirs),
         Counts(c[p], dirs), c[p].children = kept[0]
  PROVE  CountSteps(c, p, k, kept, dirs)
  <1>4. /\ \A j \in 0..k : DevOK(c[p + j])
        /\ \A j \in 1..k : /\ ns[p + j] \in Nat
                           /\ Alters(functions[ns[p + j]], dirs, kept[j - 1], kept[j])
    <2>1. \A j \in 0..k : p + j \in 0..Len(ns)
      OBVIOUS
    <2> QED BY <2>1 DEF AlterSteps
  <1> DEFINE S == {j \in Nat : j <= k => Counts(c[p + j], dirs) /\ c[p + j].children = kept[j]}
  <1>1. 0 \in S
    OBVIOUS
  <1>2. ASSUME NEW j \in Nat, j \in S PROVE j + 1 \in S
    <2> SUFFICES ASSUME j + 1 <= k
                 PROVE  Counts(c[p + (j + 1)], dirs) /\ c[p + (j + 1)].children = kept[j + 1]
      OBVIOUS
    <2>1. /\ j + 1 \in 1..k /\ p + (j + 1) \in 1..Len(ns) /\ j \in 0..k
          /\ p + (j + 1) - 1 = p + j /\ j + 1 - 1 = j
      OBVIOUS
    <2>2. c[p + (j + 1)] = Run(c[p + j], ns[p + (j + 1)], functions[ns[p + (j + 1)]])
      <3>1. PICK q : q = p + (j + 1) /\ q \in 1..Len(ns) /\ q - 1 = p + j
        BY <2>1
      <3>2. c[q] = Run(c[q - 1], ns[q], functions[ns[q]])
        BY <3>1 DEF Walk
      <3> QED BY <3>1, <3>2
    <2>3. PICK x, y, n, r, z : /\ x = c[p + j] /\ y = c[p + (j + 1)] /\ n = ns[p + (j + 1)]
                               /\ r = functions[n] /\ z = kept[j + 1]
      OBVIOUS
    <2>4. DevOK(x) /\ Counts(x, dirs) /\ x.children = kept[j]
      <3>1. Counts(c[p + j], dirs) /\ c[p + j].children = kept[j]
        BY <1>2
      <3>2. DevOK(c[p + j])
        BY <1>4, <2>1
      <3> QED BY <2>3, <3>1, <3>2
    <2>5. n \in Nat /\ Alters(r, dirs, x.children, z)
      BY <1>4, <2>1, <2>3, <2>4
    <2>6. y = Run(x, n, r)
      BY <2>2, <2>3
    <2>7. Counts(y, dirs) /\ y.children = z
      <3>1. CountsTo(y, dirs, z)
        BY <2>4, <2>5, <2>6, RunCounts
      <3> QED BY <3>1 DEF CountsTo
    <2> QED BY <2>3, <2>7
  <1>3. Nat \subseteq S
    BY <1>1, <1>2, Induction
  <1> QED BY <1>3 DEF CountSteps

LEMMA CourseWalk ==
  ASSUME NEW functions, NEW d, NEW ns, Len(ns) \in Nat
  PROVE  Walk(Course(functions, d, ns), functions, d, ns)
  BY CourseDefined DEF Walk

LEMMA CountsSame ==
  ASSUME NEW d, NEW e, NEW dirs, Core(d) = Core(e), Counts(d, dirs)
  PROVE  Counts(e, dirs)
  <1>1. d.children = e.children /\ d.inputs = e.inputs /\ d.outputs = e.outputs
    BY DEF Core
  <1>2. \A where : AttachedTo(e, dirs, where) = AttachedTo(d, dirs, where)
    BY <1>1 DEF AttachedTo
  <1> QED BY <1>1, <1>2 DEF Counts

DirectionMaps == [Streams -> Directions \union {"none"}]

\* Directions are given to streams that have none, and are kept.
Extends(dirs1, dirs) == \A s \in Streams : dirs[s] # "none" => dirs1[s] = dirs[s]

LEMMA LegalKept ==
  ASSUME NEW dirs, NEW dirs1, Extends(dirs1, dirs), NEW r, Legal(r, dirs)
  PROVE  Legal(r, dirs1)
  <1>1. \A x : Place(dirs, x) # "none" => Place(dirs1, x) = Place(dirs, x)
    BY DEF Extends, Place
  <1>2. IsAssign(r, dirs) => IsAssign(r, dirs1)
    BY DEF Extends, IsAssign
  <1>3. CASE IsAssign(r, dirs) \/ IsRateChange(r)
    BY <1>2, <1>3 DEF Legal
  <1>4. ASSUME NEW x \in Children, Place(dirs, x) # "none",
               r \in {<<Attach(x, Place(dirs, x))>>, <<Detach(x, Place(dirs, x))>>}
        PROVE  Legal(r, dirs1)
    BY <1>1, <1>4 DEF Legal
  <1> QED BY <1>3, <1>4 DEF Legal

LEMMA AltersLegal ==
  ASSUME NEW r, NEW dirs, NEW before, NEW after, Alters(r, dirs, before, after)
  PROVE  Legal(r, dirs)
  BY DEF Alters, Legal

LEMMA CountsKept ==
  ASSUME NEW d, NEW dirs, NEW dirs1, Extends(dirs1, dirs), Placed(d, dirs), Counts(d, dirs)
  PROVE  Counts(d, dirs1)
  <1>1. \A where : AttachedTo(d, dirs1, where) = AttachedTo(d, dirs, where)
    BY DEF AttachedTo, Extends, Placed
  <1> QED BY <1>1 DEF Counts

\* Every point of a walk counts its children, and it ends with those in list.
ComingTo(c, q, dirs, list) == (\A i \in 0..q : Counts(c[i], dirs)) /\ c[q].children = list

\* k functions are requested: f1 is f and these, ns1 is ns and their numbers.
Requested(f, f1, functions, k) ==
  /\ k \in Nat /\ Len(f) \in Nat /\ Len(f1) = Len(f) + k
  /\ DOMAIN f = 1..Len(f) /\ DOMAIN f1 = 1..Len(f) + k
  /\ \A n \in 1..Len(f) : f1[n] = f[n]
  /\ \A j \in 1..k : f1[Len(f) + j] = functions[j]

Numbered(ns, ns1, q, k, last) ==
  /\ q \in Nat /\ Len(ns) = q /\ \A i \in 1..q : ns[i] \in 1..last
  /\ Len(ns1) = q + k /\ \A i \in 1..q : ns1[i] = ns[i]
  /\ \A j \in 1..k : ns1[q + j] = last + j

AlterList(functions, k, kept, dirs) == \A j \in 1..k : Alters(functions[j], dirs, kept[j - 1], kept[j])

\* The device on which they run: the same, but for a stream just constructed.
BasedOn(base, d, f) ==
  /\ DevOK(base) /\ Core(base) = Core(d) /\ base.applied = d.applied /\ Settled(base, f)
  /\ \A i \in DOMAIN d.applied : d.applied[i] \in 1..Len(f)

LEMMA RequestWalk ==
  ASSUME NEW dirs \in DirectionMaps, NEW dirs1 \in DirectionMaps, Extends(dirs1, dirs),
         NEW spans, NEW spans1,
         NEW f, NEW f1, NEW functions, NEW k, Requested(f, f1, functions, k), AllLegal(f, dirs),
         NEW d, Good(d, f, dirs, spans),
         NEW base, BasedOn(base, d, f), FormatsKept(base, f1, dirs1, spans1),
         NEW ns, NEW ns1, NEW q, Numbered(ns, ns1, q, k, Len(f)),
         NEW c, Walk(c, f, d, ns), NEW c1, Walk(c1, f1, base, ns1),
         NEW kept, AlterList(functions, k, kept, dirs1)
  PROVE  /\ AllLegal(f1, dirs1)
         /\ AllGood(c1, f1, dirs1, spans1, base, ns1)
         /\ ComingTo(c, q, dirs, kept[0]) => ComingTo(c1, q + k, dirs1, kept[k])
  <1> USE DEF Requested, Numbered, AlterList, BasedOn
  <1>1. /\ \A n \in 1..Len(f) : n \in 1..Len(f) + k
        /\ \A n \in 1..Len(f) + k : n \in 1..Len(f) \/ \E j \in 1..k : n = Len(f) + j
    <2>1. ASSUME NEW n \in 1..Len(f) + k, n \notin 1..Len(f)
          PROVE  \E j \in 1..k : n = Len(f) + j
      <3>1. n - Len(f) \in 1..k /\ n = Len(f) + (n - Len(f))
        BY <2>1
      <3> QED BY <3>1
    <2>2. \A n \in 1..Len(f) : n \in 1..Len(f) + k
      OBVIOUS
    <2> QED BY <2>1, <2>2
  <1>2. AllLegal(f1, dirs1)
    <2>1. ASSUME NEW n \in 1..Len(f) PROVE Legal(f1[n], dirs1)
      <3>1. Legal(f[n], dirs)
        BY <2>1 DEF AllLegal
      <3> QED BY <2>1, <3>1, LegalKept
    <2>2. ASSUME NEW j \in 1..k PROVE Legal(f1[Len(f) + j], dirs1)
      BY <2>2, AltersLegal
    <2> QED BY <1>1, <2>1, <2>2 DEF AllLegal
  <1>3. d.applied \in Seq(Nat) /\ DevOK(d)
    BY DEF Good, DevOK
  <1>4. Settled(base, f1)
    <2>1. \A i \in DOMAIN base.applied : f1[base.applied[i]] = f[base.applied[i]]
      OBVIOUS
    <2>2. DOMAIN base.applied = 1..Len(base.applied)
      BY <1>3
    <2>3. \A i \in DOMAIN base.applied : \A j \in i + 1..Len(base.applied) : j \in DOMAIN base.applied
      BY <2>2
    <2> SUFFICES ASSUME \A i \in DOMAIN base.applied : Len(f1[base.applied[i]]) = 1,
                        NEW o \in Objects, NEW x \in FieldsOf(o) \ OptionalFields,
                        NEW v \in Values, NEW i \in DOMAIN base.applied,
                        f1[base.applied[i]] = <<Assign(o, x, v)>>,
                        \A j \in i + 1..Len(base.applied), w \in Values :
                          f1[base.applied[j]] # <<Assign(o, x, w)>>
                 PROVE  base.cfg[o][x] = v
      BY DEF Settled
    <2>4. \A j \in DOMAIN base.applied : Len(f[base.applied[j]]) = 1
      BY <2>1
    <2>5. f[base.applied[i]] = <<Assign(o, x, v)>>
      BY <2>1
    <2>6. \A j \in i + 1..Len(base.applied), w \in Values : f[base.applied[j]] # <<Assign(o, x, w)>>
      <3> SUFFICES ASSUME NEW j \in i + 1..Len(base.applied), NEW w \in Values
                   PROVE  f[base.applied[j]] # <<Assign(o, x, w)>>
        OBVIOUS
      <3>1. j \in DOMAIN base.applied
        BY <2>3
      <3>2. f1[base.applied[j]] = f[base.applied[j]]
        BY <2>1, <3>1
      <3>3. f1[base.applied[j]] # <<Assign(o, x, w)>>
        OBVIOUS
      <3> QED BY <3>2, <3>3
    <2> QED BY <2>4, <2>5, <2>6 DEF Settled
  <1>5. Placed(base, dirs1)
    <2>1. base.children = d.children
      BY DEF Core
    <2> QED BY <2>1 DEF Good, Placed, Extends
  <1>6. Good(base, f1, dirs1, spans1)
    BY <1>4, <1>5 DEF Good
  <1>7. \A i \in 1..q + k : i \in 1..q \/ \E j \in 1..k : i = q + j
    <2>1. ASSUME NEW i \in 1..q + k, i \notin 1..q
          PROVE  i - q \in 1..k /\ i = q + (i - q)
      BY <2>1
    <2> QED BY <2>1
  <1>8. \A i \in 1..q + k : ns1[i] \in Nat /\ ns1[i] \in DOMAIN f1
    <2>1. ASSUME NEW i \in 1..q PROVE ns1[i] \in Nat /\ ns1[i] \in 1..Len(f) + k
      BY <1>1
    <2>2. ASSUME NEW j \in 1..k PROVE ns1[q + j] \in Nat /\ ns1[q + j] \in 1..Len(f) + k
      <3>1. Len(f) + j \in Nat /\ Len(f) + j \in 1..Len(f) + k
        OBVIOUS
      <3> QED BY <3>1
    <2> QED BY <1>7, <2>1, <2>2
  <1>9. AllGood(c1, f1, dirs1, spans1, base, ns1)
    <2>1. dirs1 \in [Streams -> Directions \union {"none"}] /\ Len(ns1) \in Nat
      BY DEF DirectionMaps
    <2>2. Numbers(ns1, f1)
      BY <1>8 DEF Numbers
    <2> QED BY <1>2, <1>6, <2>1, <2>2, WalkGood
  <1>10. AllGood(c, f, dirs, spans, d, ns)
    <2>1. dirs \in [Streams -> Directions \union {"none"}] /\ Len(ns) \in Nat
      BY DEF DirectionMaps
    <2>2. Numbers(ns, f)
      BY DEF Numbers
    <2> QED BY <2>1, <2>2, WalkGood
  <1>11. SameCores(c, c1, 0, q)
    <2>1. dirs1 \in [Streams -> Directions \union {"none"}]
      BY DEF DirectionMaps
    <2>2. \A i \in 0..q : DevOK(c[i]) /\ DevOK(c1[0 + i])
      <3>1. \A i \in 0..q : i \in 0..q + k /\ 0 + i = i
        OBVIOUS
      <3> QED BY <1>9, <1>10, <3>1 DEF Good, AllGood
    <2>3. \A i \in 1..q : /\ ns[i] \in Nat /\ ns1[0 + i] \in Nat
                          /\ f[ns[i]] = f1[ns1[0 + i]] /\ Legal(f[ns[i]], dirs1)
      <3>1. \A i \in 1..q : 0 + i = i /\ ns1[i] = ns[i] /\ ns[i] \in 1..Len(f)
        OBVIOUS
      <3>2. \A n \in 1..Len(f) : n \in Nat /\ f[n] = f1[n] /\ Legal(f[n], dirs1)
        <4>1. \A n \in 1..Len(f) : Legal(f[n], dirs)
          BY DEF AllLegal
        <4> QED BY <4>1, LegalKept
      <3> QED BY <3>1, <3>2
    <2>4. Core(d) = Core(c1[0])
      BY DEF Walk
    <2>5. q <= Len(ns) /\ 0 + q <= Len(ns1) /\ Len(ns) \in Nat /\ Len(ns1) \in Nat /\ 0 \in Nat
      OBVIOUS
    <2>6. SameSteps(c, f, ns, c1, f1, ns1, 0, q, dirs1)
      BY <2>2, <2>3 DEF SameSteps
    <2> QED BY <2>1, <2>4, <2>5, <2>6, WalkSame
  <1>12. ASSUME ComingTo(c, q, dirs, kept[0]) PROVE ComingTo(c1, q + k, dirs1, kept[k])
    <2>1. ASSUME NEW i \in 0..q PROVE Counts(c1[i], dirs1) /\ c1[i].children = c[i].children
      <3>1. Core(c[i]) = Core(c1[i])
        <4>1. 0 + i = i
          OBVIOUS
        <4> QED BY <1>11, <4>1 DEF SameCores
      <3>2. Counts(c[i], dirs) /\ Placed(c[i], dirs)
        BY <1>10, <1>12 DEF ComingTo, Good, AllGood
      <3>3. Counts(c[i], dirs1)
        BY <3>2, CountsKept
      <3>4. Counts(c1[i], dirs1)
        BY <3>1, <3>3, CountsSame
      <3> QED BY <3>1, <3>4 DEF Core
    <2>2. q \in 0..q
      OBVIOUS
    <2>3. Counts(c1[q], dirs1) /\ c1[q].children = kept[0]
      BY <1>12, <2>1, <2>2 DEF ComingTo
    <2>4. \A j \in 0..Len(ns1) : DevOK(c1[j])
      BY <1>9 DEF Good, AllGood
    <2>5. \A j \in 1..k : /\ ns1[q + j] \in Nat
                          /\ Alters(f1[ns1[q + j]], dirs1, kept[j - 1], kept[j])
      <3>1. ASSUME NEW j \in 1..k PROVE f1[ns1[q + j]] = functions[j] /\ ns1[q + j] \in Nat
        <4>1. ns1[q + j] = Len(f) + j
          OBVIOUS
        <4> QED BY <4>1
      <3> QED BY <3>1
    <2>6. dirs1 \in [Streams -> Directions \union {"none"}] /\ Len(ns1) \in Nat /\ q + k <= Len(ns1)
      BY DEF DirectionMaps
    <2>10. CountSteps(c1, q, k, kept, dirs1)
      <3>1. AlterSteps(f1, ns1, q, k, kept, dirs1)
        BY <2>5 DEF AlterSteps
      <3> QED BY <2>3, <2>4, <2>6, <3>1, WalkCounts
    <2>7. \A j \in 0..k : Counts(c1[q + j], dirs1) /\ c1[q + j].children = kept[j]
      BY <2>10 DEF CountSteps
    <2>8. ASSUME NEW i \in 0..q + k PROVE Counts(c1[i], dirs1)
      <3>1. CASE i \in 0..q
        BY <2>1, <3>1
      <3>2. CASE i \notin 0..q
        <4>1. i - q \in 0..k /\ q + (i - q) = i
          BY <3>2
        <4> QED BY <2>7, <4>1
      <3> QED BY <3>1, <3>2
    <2>9. k \in 0..k
      OBVIOUS
    <2> QED BY <2>7, <2>8, <2>9 DEF ComingTo
  <1> QED BY <1>2, <1>9, <1>12

\* The first of the functions that wait has run, or has been dropped without
\* a difference to the children.
LEMMA ShiftWalk ==
  ASSUME NEW dirs \in DirectionMaps, NEW spans, NEW f, AllLegal(f, dirs),
         NEW d, Good(d, f, dirs, spans), NEW d1, Good(d1, f, dirs, spans),
         NEW ns, NEW q \in Nat, Len(ns) = q + 1,
         Numbers(ns, f), NEW ns1, Len(ns1) = q, \A i \in 1..q : ns1[i] = ns[i + 1],
         NEW c, Walk(c, f, d, ns), NEW c1, Walk(c1, f, d1, ns1), Core(d1) = Core(c[1]),
         NEW list, ComingTo(c, q + 1, dirs, list)
  PROVE  ComingTo(c1, q, dirs, list)
  <1>1. dirs \in [Streams -> Directions \union {"none"}]
    BY DEF DirectionMaps
  <1>2. AllGood(c, f, dirs, spans, d, ns)
    BY <1>1, WalkGood
  <1>3. \A i \in 1..q : i + 1 \in 1..q + 1 /\ 1 + i = i + 1
    OBVIOUS
  <1>4. Numbers(ns1, f)
    BY <1>3 DEF Numbers
  <1>5. AllGood(c1, f, dirs, spans, d1, ns1)
    BY <1>1, <1>4, WalkGood
  <1>6. \A i \in 0..q : DevOK(c1[i]) /\ DevOK(c[1 + i])
    <2>1. \A i \in 0..q : 1 + i \in 0..q + 1
      OBVIOUS
    <2> QED BY <1>2, <1>5, <2>1 DEF Good, AllGood
  <1>7. \A i \in 1..q : /\ ns1[i] \in Nat /\ ns[1 + i] \in Nat
                        /\ f[ns1[i]] = f[ns[1 + i]] /\ Legal(f[ns1[i]], dirs)
    BY <1>3, <1>4 DEF AllLegal, Numbers
  <1>8. q <= Len(ns1) /\ 1 + q <= Len(ns) /\ Len(ns) \in Nat /\ Len(ns1) \in Nat /\ 1 \in Nat
    OBVIOUS
  <1>12. SameSteps(c1, f, ns1, c, f, ns, 1, q, dirs)
    BY <1>6, <1>7 DEF SameSteps
  <1>13. SameCores(c1, c, 1, q)
    BY <1>1, <1>8, <1>12, WalkSame
  <1>9. \A i \in 0..q : Core(c1[i]) = Core(c[1 + i])
    BY <1>13 DEF SameCores
  <1>10. ASSUME NEW i \in 0..q PROVE Counts(c1[i], dirs)
    <2>1. 1 + i \in 0..q + 1
      OBVIOUS
    <2>2. Counts(c[1 + i], dirs)
      BY <2>1 DEF ComingTo
    <2> QED BY <1>9, <2>2, CountsSame
  <1>11. c1[q].children = c[q + 1].children
    <2>1. q \in 0..q /\ 1 + q = q + 1
      OBVIOUS
    <2> QED BY <1>9, <2>1 DEF Core
  <1> QED BY <1>10, <1>11 DEF ComingTo

-----------------------------------------------------------------------------
\* The inductive invariant

ConfigTypes ==
  /\ host \in BOOLEAN /\ owned \in BOOLEAN
  /\ direction \in DirectionMaps
  /\ span \in [Streams -> [first : Nat, count : Values \union {0}]]
  /\ listed \subseteq Children
  /\ \A s \in Streams \intersect listed : direction[s] # "none"
  /\ requests \in Seq(AllFunctions) /\ AllLegal(requests, direction)
  /\ pending \in Seq([id : Nat, number : Nat]) /\ hal \in Seq(Nat) /\ lastID \in Nat

Rising(seq) == \A i, j \in DOMAIN seq : i < j => seq[i] < seq[j]

\* Numbers and identifiers rise, and what has been applied comes before what waits.
Ordered ==
  /\ Rising(dev.applied)
  /\ \A i, j \in DOMAIN pending :
       i < j => pending[i].number < pending[j].number /\ pending[i].id < pending[j].id
  /\ \A i \in DOMAIN dev.applied, j \in DOMAIN pending : dev.applied[i] < pending[j].number
  /\ Rising(hal)
  /\ \A i \in DOMAIN hal : hal[i] < lastID
  /\ \A i \in DOMAIN pending : \E j \in DOMAIN hal : pending[i].id = hal[j]
  /\ lastID <= Len(requests) /\ Len(requests) <= MaxRequests
  /\ pending # <<>> => host /\ owned

Accounted ==
  /\ \A i \in DOMAIN dev.applied : dev.applied[i] \in DOMAIN requests
  /\ \A i \in DOMAIN pending : pending[i].number \in DOMAIN requests
  /\ aborted \subseteq DOMAIN requests
  /\ \A n \in DOMAIN requests : \/ \E i \in DOMAIN dev.applied : dev.applied[i] = n
                                \/ n \in aborted
                                \/ \E i \in DOMAIN pending : pending[i].number = n

\* What waits leads from the children attached to the streams and controls listed.
Coming ==
  ~StreamChangeAborted =>
    ComingTo(Course(requests, dev, Queued), Len(pending), direction, listed)

\* Streams of one direction have channels of their own.
SpansApart(functions, dirs, spans, list) ==
  NoFormats(functions) =>
    \A s, t \in Streams \intersect list :
      s # t /\ dirs[s] = dirs[t] =>
        \/ spans[s].first + spans[s].count <= spans[t].first
        \/ spans[t].first + spans[t].count <= spans[s].first

ConfigIInv == /\ ConfigTypes /\ Ordered /\ Accounted /\ Coming
              /\ Good(dev, requests, direction, span)
              /\ SpansApart(requests, direction, span, listed)

\* t is s1 followed by s2.
Joined(S, s1, s2, t) ==
  /\ t \in Seq(S) /\ Len(t) = Len(s1) + Len(s2) /\ DOMAIN t = 1..Len(s1) + Len(s2)
  /\ Len(s1) \in Nat /\ Len(s2) \in Nat
  /\ DOMAIN s1 = 1..Len(s1) /\ DOMAIN s2 = 1..Len(s2)
  /\ \A i \in 1..Len(s1) : t[i] = s1[i]
  /\ \A j \in 1..Len(s2) : t[Len(s1) + j] = s2[j]

LEMMA ConcatFacts ==
  ASSUME NEW S, NEW s1 \in Seq(S), NEW s2 \in Seq(S)
  PROVE  Joined(S, s1, s2, s1 \o s2)
  <1>0. PICK t : t = s1 \o s2
    OBVIOUS
  <1>1. /\ t \in Seq(S) /\ Len(t) = Len(s1) + Len(s2)
        /\ \A i \in 1..Len(s1) + Len(s2) : t[i] = IF i <= Len(s1) THEN s1[i] ELSE s2[i - Len(s1)]
    BY <1>0, ConcatProperties
  <1>2. Len(s1) \in Nat /\ Len(s2) \in Nat /\ DOMAIN s1 = 1..Len(s1) /\ DOMAIN s2 = 1..Len(s2)
    BY LenProperties
  <1>3. DOMAIN t = 1..Len(s1) + Len(s2)
    BY <1>1, LenProperties
  <1>4. \A i \in 1..Len(s1) : t[i] = s1[i]
    BY <1>1, <1>2
  <1>5. ASSUME NEW j \in 1..Len(s2) PROVE t[Len(s1) + j] = s2[j]
    <2>1. Len(s1) + j \in 1..Len(s1) + Len(s2) /\ ~(Len(s1) + j <= Len(s1)) /\ Len(s1) + j - Len(s1) = j
      BY <1>2
    <2> QED BY <1>1, <2>1
  <1> QED BY <1>0, <1>1, <1>2, <1>3, <1>4, <1>5 DEF Joined

LEMMA QueuedFacts ==
  ASSUME pending \in Seq([id : Nat, number : Nat])
  PROVE  /\ Len(pending) \in Nat /\ DOMAIN pending = 1..Len(pending)
         /\ Len(Queued) = Len(pending) /\ DOMAIN Queued = 1..Len(pending)
         /\ \A i \in 1..Len(pending) : /\ Queued[i] = pending[i].number
                                       /\ pending[i].number \in Nat /\ pending[i].id \in Nat
  <1>1. Len(pending) \in Nat /\ DOMAIN pending = 1..Len(pending)
        /\ pending \in [1..Len(pending) -> [id : Nat, number : Nat]]
    BY LenProperties
  <1>2. Queued = [i \in 1..Len(pending) |-> pending[i].number]
    BY <1>1 DEF Queued
  <1>3. Len(Queued) = Len(pending)
    BY <1>1, <1>2
  <1> QED BY <1>1, <1>2, <1>3

-----------------------------------------------------------------------------
\* What a request does, in terms of its members

RanAtOnce(base, k) ==
  /\ ~host \/ ~owned
  /\ UNCHANGED <<pending, lastID, hal>>
  /\ dev' = Course(requests', base, [j \in 1..k |-> Len(requests) + j])[k]

Waits(base, k) ==
  /\ host /\ owned
  /\ dev' = base
  /\ lastID' = lastID + k
  /\ pending' \in Seq([id : Nat, number : Nat]) /\ hal' \in Seq(Nat)
  /\ Len(pending') = Len(pending) + k /\ Len(hal') = Len(hal) + k
  /\ \A i \in 1..Len(pending) : pending'[i] = pending[i]
  /\ \A j \in 1..k : /\ pending'[Len(pending) + j].id = lastID + j - 1
                     /\ pending'[Len(pending) + j].number = Len(requests) + j
  /\ \A i \in 1..Len(hal) : hal'[i] = hal[i]
  /\ \A j \in 1..k : hal'[Len(hal) + j] = lastID + j - 1

LEMMA RequestFacts ==
  ASSUME ConfigTypes, NEW base, NEW functions \in Seq(AllFunctions), NEW k, k = Len(functions),
         RequestFrom(base, functions)
  PROVE  /\ requests' \in Seq(AllFunctions) /\ Requested(requests, requests', functions, k)
         /\ Len(requests') <= MaxRequests
         /\ UNCHANGED <<host, owned, aborted>>
         /\ RanAtOnce(base, k) \/ Waits(base, k)
  <1>1. /\ requests \in Seq(AllFunctions) /\ requests' = requests \o functions
        /\ Len(requests) + k <= MaxRequests /\ UNCHANGED <<host, owned, aborted>>
    BY DEF ConfigTypes, RequestFrom
  <1>2. /\ requests' \in Seq(AllFunctions) /\ Len(requests') = Len(requests) + k
        /\ DOMAIN requests' = 1..Len(requests) + k /\ Len(requests) \in Nat /\ k \in Nat
        /\ DOMAIN requests = 1..Len(requests)
        /\ \A i \in 1..Len(requests) : requests'[i] = requests[i]
        /\ \A j \in 1..k : requests'[Len(requests) + j] = functions[j]
    <2>1. Joined(AllFunctions, requests, functions, requests')
      BY <1>1, ConcatFacts
    <2> QED BY <2>1 DEF Joined
  <1>3. Requested(requests, requests', functions, k)
    BY <1>2 DEF Requested
  <1>4. CASE InPlace
    <2> DEFINE ns == [i \in 1..k |-> Len(requests) + i]
    <2>1. dev' = After(requests', base, ns) /\ UNCHANGED <<pending, lastID, hal>>
      BY <1>4 DEF RequestFrom
    <2>2. Len(ns) = k
      BY <1>2
    <2>3. dev' = Course(requests', base, ns)[k]
      BY <2>1, <2>2 DEF After
    <2>4. RanAtOnce(base, k)
      BY <1>4, <2>1, <2>3 DEF RanAtOnce, InPlace
    <2> QED BY <1>1, <1>2, <1>3, <2>4
  <1>5. CASE ~InPlace
    <2> DEFINE added == [i \in 1..k |-> [id |-> lastID + i - 1, number |-> Len(requests) + i]]
               ids == [i \in 1..k |-> lastID + i - 1]
    <2>1. /\ pending' = pending \o [i \in 1..k |-> [id |-> ids[i], number |-> [j \in 1..k |-> Len(requests) + j][i]]]
          /\ lastID' = lastID + k /\ hal' = hal \o ids /\ dev' = base
      BY <1>5 DEF RequestFrom, TellHAL
    <2>2. pending' = pending \o added
      <3>1. \A i \in 1..k : /\ ids[i] = lastID + i - 1
                            /\ [j \in 1..k |-> Len(requests) + j][i] = Len(requests) + i
        OBVIOUS
      <3>2. [i \in 1..k |-> [id |-> ids[i], number |-> [j \in 1..k |-> Len(requests) + j][i]]] = added
        BY <3>1
      <3> QED BY <2>1, <3>2
    <2>3. lastID \in Nat /\ pending \in Seq([id : Nat, number : Nat]) /\ hal \in Seq(Nat)
      BY DEF ConfigTypes
    <2>4. /\ added \in Seq([id : Nat, number : Nat]) /\ Len(added) = k
          /\ \A j \in 1..k : added[j].id = lastID + j - 1 /\ added[j].number = Len(requests) + j
      <3>1. \A j \in 1..k : lastID + j - 1 \in Nat /\ Len(requests) + j \in Nat
        BY <1>2, <2>3
      <3> QED BY <1>2, <3>1
    <2>5. /\ ids \in Seq(Nat) /\ Len(ids) = k /\ \A j \in 1..k : ids[j] = lastID + j - 1
      <3>1. \A j \in 1..k : lastID + j - 1 \in Nat
        BY <2>3
      <3> QED BY <1>2, <3>1
    <2> HIDE DEF added, ids
    <2>6. /\ pending' \in Seq([id : Nat, number : Nat]) /\ Len(pending') = Len(pending) + k
          /\ \A i \in 1..Len(pending) : pending'[i] = pending[i]
          /\ \A j \in 1..k : pending'[Len(pending) + j] = added[j]
      <3>1. PICK S, s, t, u : s = pending /\ t = added /\ u = pending' /\ S = [id : Nat, number : Nat]
        OBVIOUS
      <3>2. s \in Seq(S) /\ t \in Seq(S) /\ u = s \o t /\ Len(t) = k
        BY <2>2, <2>3, <2>4, <3>1
      <3>3. Joined(S, s, t, u)
        BY <3>2, ConcatFacts
      <3> QED BY <3>1, <3>2, <3>3 DEF Joined
    <2>7. /\ hal' \in Seq(Nat) /\ Len(hal') = Len(hal) + k
          /\ \A i \in 1..Len(hal) : hal'[i] = hal[i]
          /\ \A j \in 1..k : hal'[Len(hal) + j] = ids[j]
      <3>1. PICK s, t, u : s = hal /\ t = ids /\ u = hal'
        OBVIOUS
      <3>2. s \in Seq(Nat) /\ t \in Seq(Nat) /\ u = s \o t /\ Len(t) = k
        BY <2>1, <2>3, <2>5, <3>1
      <3>3. Joined(Nat, s, t, u)
        BY <3>2, ConcatFacts
      <3> QED BY <3>1, <3>2, <3>3 DEF Joined
    <2>8. Waits(base, k)
      BY <1>5, <2>1, <2>4, <2>5, <2>6, <2>7 DEF Waits, InPlace
    <2> QED BY <1>1, <1>2, <1>3, <2>8
  <1> QED BY <1>4, <1>5

\* The functions numbered ns are applied to d and give e.
AppliedAll(d, e, ns, k) ==
  /\ Rising(e.applied)
  /\ \A i \in DOMAIN d.applied : i \in DOMAIN e.applied /\ e.applied[i] = d.applied[i]
  /\ \A j \in 1..k : \E i \in DOMAIN e.applied : e.applied[i] = ns[j]
  /\ \A i \in DOMAIN e.applied : \/ i \in DOMAIN d.applied /\ e.applied[i] = d.applied[i]
                                 \/ \E j \in 1..k : e.applied[i] = ns[j]

LEMMA AppliedRising ==
  ASSUME NEW d, NEW e, NEW ns, NEW k \in Nat, AppliedTo(e, d, ns, k),
         d.applied \in Seq(Nat), e.applied \in Seq(Nat), Rising(d.applied),
         \A i, j \in 1..k : i < j => ns[i] < ns[j],
         \A i \in DOMAIN d.applied, j \in 1..k : d.applied[i] < ns[j]
  PROVE  AppliedAll(d, e, ns, k)
  <1>1. PICK a, b, m : a = d.applied /\ b = e.applied /\ m = Len(a)
    OBVIOUS
  <1>2. m \in Nat /\ DOMAIN a = 1..m /\ DOMAIN b = 1..m + k
    BY <1>1, LenProperties DEF AppliedTo
  <1>3. /\ \A i \in 1..m : b[i] = a[i]
        /\ \A j \in 1..k : b[m + j] = ns[j]
    BY <1>1, <1>2 DEF AppliedTo
  <1>4. \A i \in 1..m + k : i \in 1..m \/ (i - m \in 1..k /\ i = m + (i - m))
    BY <1>2
  <1>5. \A i \in 1..m : i \in 1..m + k
    BY <1>2
  <1>6. \A j \in 1..k : m + j \in 1..m + k
    BY <1>2
  <1>7. ASSUME NEW i \in 1..m + k, NEW j \in 1..m + k, i < j PROVE b[i] < b[j]
    <2>1. CASE j \in 1..m
      <3>1. i \in 1..m
        BY <1>2, <1>7, <2>1
      <3>2. a[i] < a[j]
        BY <1>1, <1>2, <1>7, <2>1, <3>1 DEF Rising
      <3> QED BY <1>3, <2>1, <3>1, <3>2
    <2>2. CASE i \in 1..m /\ j - m \in 1..k /\ j = m + (j - m)
      <3>1. a[i] < ns[j - m]
        BY <1>1, <1>2, <2>2
      <3>2. b[m + (j - m)] = ns[j - m]
        BY <1>3, <2>2
      <3> QED BY <1>3, <2>2, <3>1, <3>2
    <2>3. CASE i - m \in 1..k /\ i = m + (i - m) /\ j - m \in 1..k /\ j = m + (j - m)
      <3>1. i - m < j - m
        BY <1>2, <1>7
      <3>2. ns[i - m] < ns[j - m]
        BY <2>3, <3>1
      <3>3. b[m + (i - m)] = ns[i - m] /\ b[m + (j - m)] = ns[j - m]
        BY <1>3, <2>3
      <3> QED BY <2>3, <3>2, <3>3
    <2> QED BY <1>4, <2>1, <2>2, <2>3
  <1>8. ASSUME NEW i \in 1..m + k
        PROVE  (i \in 1..m /\ b[i] = a[i]) \/ \E j \in 1..k : b[i] = ns[j]
    <2>1. CASE i - m \in 1..k /\ i = m + (i - m)
      <3>1. b[m + (i - m)] = ns[i - m]
        BY <1>3, <2>1
      <3> QED BY <2>1, <3>1
    <2> QED BY <1>3, <1>4, <2>1
  <1>9. \A j \in 1..k : \E i \in 1..m + k : b[i] = ns[j]
    BY <1>3, <1>6
  <1>10. \A i \in 1..m : i \in 1..m + k /\ b[i] = a[i]
    BY <1>3, <1>5
  <1>11. Rising(b)
    BY <1>2, <1>7 DEF Rising
  <1>12. /\ \A i \in DOMAIN d.applied : i \in DOMAIN e.applied /\ e.applied[i] = d.applied[i]
         /\ \A j \in 1..k : \E i \in DOMAIN e.applied : e.applied[i] = ns[j]
    BY <1>1, <1>2, <1>9, <1>10
  <1>13. \A i \in DOMAIN e.applied : \/ i \in DOMAIN d.applied /\ e.applied[i] = d.applied[i]
                                   \/ \E j \in 1..k : e.applied[i] = ns[j]
    BY <1>1, <1>2, <1>8
  <1> QED BY <1>1, <1>11, <1>12, <1>13 DEF AppliedAll

\* The device's list of applied numbers, and that of a device to which the
\* numbers after last have been applied.
RisesFrom(d, e, k, last) ==
  /\ Rising(e.applied) /\ \A i \in DOMAIN e.applied : e.applied[i] \in 1..last + k
  /\ \A i \in DOMAIN d.applied : i \in DOMAIN e.applied /\ e.applied[i] = d.applied[i]
  /\ \A j \in 1..k : \E i \in DOMAIN e.applied : e.applied[i] = last + j

LEMMA AppliedRises ==
  ASSUME NEW d, NEW e, NEW ns, NEW k \in Nat, NEW last \in Nat, AppliedTo(e, d, ns, k),
         d.applied \in Seq(Nat), e.applied \in Seq(Nat),
         \A j \in 1..k : ns[j] = last + j,
         Rising(d.applied), \A i \in DOMAIN d.applied : d.applied[i] \in 1..last
  PROVE  RisesFrom(d, e, k, last)
  <1>1. \A i, j \in 1..k : i < j => ns[i] < ns[j]
    OBVIOUS
  <1>2. \A i \in DOMAIN d.applied, j \in 1..k : d.applied[i] < ns[j]
    OBVIOUS
  <1>3. AppliedAll(d, e, ns, k)
    BY <1>1, <1>2, AppliedRising
  <1>4. \A n : n \in 1..last \/ (\E j \in 1..k : n = last + j) => n \in 1..last + k
    OBVIOUS
  <1>5. ASSUME NEW i \in DOMAIN e.applied PROVE e.applied[i] \in 1..last + k
    <2>1. e.applied[i] \in 1..last \/ \E j \in 1..k : e.applied[i] = last + j
      BY <1>3 DEF AppliedAll
    <2> QED BY <1>4, <2>1
  <1> QED BY <1>3, <1>5 DEF AppliedAll, RisesFrom

\* The bookkeeping of requests, without what the operations themselves change.
Booked ==
  /\ host \in BOOLEAN /\ owned \in BOOLEAN
  /\ requests \in Seq(AllFunctions) /\ AllLegal(requests, direction)
  /\ pending \in Seq([id : Nat, number : Nat]) /\ hal \in Seq(Nat) /\ lastID \in Nat
  /\ Ordered /\ Accounted /\ Coming /\ Good(dev, requests, direction, span)

LEMMA RequestStep ==
  ASSUME ConfigIInv, NEW base, NEW functions \in Seq(AllFunctions), NEW k, k = Len(functions),
         RequestFrom(base, functions),
         DevOK(base), Core(base) = Core(dev), base.applied = dev.applied, Settled(base, requests),
         FormatsKept(base, requests', direction', span'),
         direction' \in DirectionMaps, Extends(direction', direction),
         NEW kept, AlterList(functions, k, kept, direction'), kept[0] = listed, kept[k] = listed'
  PROVE  Booked' /\ Requested(requests, requests', functions, k)
  <1>1. /\ requests' \in Seq(AllFunctions) /\ Requested(requests, requests', functions, k)
        /\ Len(requests') <= MaxRequests
        /\ UNCHANGED <<host, owned, aborted>>
        /\ RanAtOnce(base, k) \/ Waits(base, k)
    BY RequestFacts DEF ConfigIInv
  <1>2. PICK last, q, m \in Nat : last = Len(requests) /\ q = Len(pending) /\ m = Len(hal)
    BY <1>1, QueuedFacts, LenProperties DEF Requested, ConfigIInv, ConfigTypes
  <1>3. /\ k \in Nat /\ Len(requests') = last + k
        /\ DOMAIN requests = 1..last /\ DOMAIN requests' = 1..last + k
        /\ \A n \in 1..last : requests'[n] = requests[n]
        /\ \A n \in 1..last + k : n \in 1..last \/ (n - last \in 1..k /\ n = last + (n - last))
        /\ \A n \in 1..last : n \in 1..last + k
        /\ \A n \in 1..k : last + n \in 1..last + k
    BY <1>1, <1>2 DEF Requested
  <1>4. /\ DOMAIN pending = 1..q /\ Len(Queued) = q /\ DOMAIN Queued = 1..q /\ DOMAIN hal = 1..m
        /\ \A i \in 1..q : Queued[i] = pending[i].number /\ pending[i].number \in 1..last
    BY <1>2, <1>3, QueuedFacts, LenProperties DEF ConfigIInv, ConfigTypes, Accounted
  <1>5. PICK ns : /\ Numbered(Queued, ns, q, k, last)
                  /\ ns = [i \in 1..q + k |-> IF i <= q THEN pending[i].number ELSE last + (i - q)]
    <2> DEFINE ns == [i \in 1..q + k |-> IF i <= q THEN pending[i].number ELSE last + (i - q)]
    <2>1. Len(ns) = q + k
      BY <1>3
    <2>2. \A i \in 1..q : ns[i] = Queued[i]
      BY <1>3, <1>4
    <2>3. ASSUME NEW j \in 1..k PROVE ns[q + j] = last + j
      <3>1. q + j \in 1..q + k /\ ~(q + j <= q) /\ q + j - q = j
        BY <1>3
      <3> QED BY <3>1
    <2> HIDE DEF ns
    <2>4. \A i \in 1..q : Queued[i] \in 1..last
      BY <1>4
    <2>5. Numbered(Queued, ns, q, k, last)
      BY <1>4, <2>1, <2>2, <2>3, <2>4 DEF Numbered
    <2> QED BY <2>5 DEF ns
  <1>6. PICK c, c1 : c = Course(requests, dev, Queued) /\ c1 = Course(requests', base, ns)
    OBVIOUS
  <1>7. /\ AllLegal(requests', direction')
        /\ AllGood(c1, requests', direction', span', base, ns)
        /\ ComingTo(c, q, direction, listed) => ComingTo(c1, q + k, direction', listed')
    <2>1. Walk(c, requests, dev, Queued) /\ Walk(c1, requests', base, ns)
      BY <1>3, <1>4, <1>5, <1>6, CourseWalk DEF Numbered
    <2>2. BasedOn(base, dev, requests)
      BY <1>2, <1>3 DEF BasedOn, ConfigIInv, Accounted
    <2>3. /\ direction \in DirectionMaps /\ AllLegal(requests, direction)
          /\ Good(dev, requests, direction, span)
      BY DEF ConfigIInv, ConfigTypes
    <2>4. Numbered(Queued, ns, q, k, Len(requests))
      BY <1>2, <1>5
    <2>5. PICK f, f1, dirs, dirs1, spans, spans1, d, ns0, list, list1 :
            /\ f = requests /\ f1 = requests' /\ dirs = direction /\ dirs1 = direction'
            /\ spans = span /\ spans1 = span' /\ d = dev /\ ns0 = Queued
            /\ list = listed /\ list1 = listed'
      OBVIOUS
    <2>6. /\ Requested(f, f1, functions, k) /\ AllLegal(f, dirs) /\ Good(d, f, dirs, spans)
          /\ BasedOn(base, d, f) /\ FormatsKept(base, f1, dirs1, spans1)
          /\ Numbered(ns0, ns, q, k, Len(f)) /\ Walk(c, f, d, ns0) /\ Walk(c1, f1, base, ns)
          /\ AlterList(functions, k, kept, dirs1)
          /\ dirs \in DirectionMaps /\ dirs1 \in DirectionMaps /\ Extends(dirs1, dirs)
      BY <1>1, <2>1, <2>2, <2>3, <2>4, <2>5
    <2>7. /\ AllLegal(f1, dirs1) /\ AllGood(c1, f1, dirs1, spans1, base, ns)
          /\ ComingTo(c, q, dirs, kept[0]) => ComingTo(c1, q + k, dirs1, kept[k])
      BY <2>6, RequestWalk
    <2> QED BY <2>5, <2>7
  <1>8. ~StreamChangeAborted' => ComingTo(c1, q + k, direction', listed')
    <2>1. StreamChangeAborted => StreamChangeAborted'
      BY <1>1, <1>2, <1>3 DEF StreamChangeAborted, ConfigIInv, Accounted
    <2>2. ~StreamChangeAborted => ComingTo(c, q, direction, listed)
      BY <1>2, <1>6 DEF ConfigIInv, Coming
    <2> QED BY <1>7, <2>1, <2>2
  <1>9. /\ dev.applied \in Seq(Nat) /\ base.applied = dev.applied /\ Rising(dev.applied)
        /\ \A i \in DOMAIN dev.applied : dev.applied[i] \in 1..last
    BY <1>3 DEF ConfigIInv, Good, DevOK, Ordered, Accounted
  <1>10. CASE RanAtOnce(base, k)
    <2>1. q = 0 /\ pending = <<>> /\ UNCHANGED <<pending, lastID, hal>>
      BY <1>2, <1>10 DEF RanAtOnce, ConfigIInv, Ordered
    <2>2. dev' = c1[k]
      <3>1. ns = [j \in 1..k |-> last + j]
        BY <1>3, <1>5, <2>1
      <3> QED BY <1>2, <1>6, <1>10, <3>1 DEF RanAtOnce
    <2>3. Good(dev', requests', direction', span') /\ AppliedTo(dev', base, ns, k)
      <3>1. Len(ns) = k /\ k \in 0..k
        BY <1>3, <1>5, <2>1 DEF Numbered
      <3> QED BY <1>7, <2>2, <3>1 DEF AllGood
    <2>4. /\ Rising(dev'.applied) /\ \A i \in DOMAIN dev'.applied : dev'.applied[i] \in 1..last + k
          /\ \A i \in DOMAIN dev.applied : i \in DOMAIN dev'.applied /\ dev'.applied[i] = dev.applied[i]
          /\ \A j \in 1..k : \E i \in DOMAIN dev'.applied : dev'.applied[i] = last + j
      <3>1. dev'.applied \in Seq(Nat)
        BY <2>3 DEF Good, DevOK
      <3>2. \A j \in 1..k : ns[j] = last + j
        BY <1>3, <1>5, <2>1
      <3>3. PICK e : e = dev'
        OBVIOUS
      <3>4. e.applied \in Seq(Nat) /\ base.applied \in Seq(Nat) /\ Rising(base.applied)
            /\ AppliedTo(e, base, ns, k) /\ \A i \in DOMAIN base.applied : base.applied[i] \in 1..last
        BY <1>9, <2>3, <3>1, <3>3
      <3>5. RisesFrom(base, e, k, last)
        BY <1>3, <3>2, <3>4, AppliedRises
      <3> QED BY <1>9, <3>3, <3>5 DEF RisesFrom
    <2>5. Ordered'
      BY <1>1, <1>2, <1>3, <2>1, <2>4 DEF Ordered, ConfigIInv, ConfigTypes
    <2>6. Accounted'
      <3>1. \A i \in DOMAIN dev'.applied : dev'.applied[i] \in DOMAIN requests'
        BY <1>3, <2>4
      <3>2. DOMAIN pending' = {}
        BY <1>4, <2>1
      <3>3. aborted' \subseteq DOMAIN requests'
        BY <1>1, <1>3 DEF Accounted, ConfigIInv
      <3>4. ASSUME NEW n \in DOMAIN requests'
            PROVE  (\E i \in DOMAIN dev'.applied : dev'.applied[i] = n) \/ n \in aborted'
        <4>1. CASE n \in 1..last
          <5>1. (\E i \in DOMAIN dev.applied : dev.applied[i] = n) \/ n \in aborted
            BY <1>3, <2>1, <3>2, <4>1 DEF Accounted, ConfigIInv
          <5> QED BY <1>1, <2>4, <5>1
        <4>2. CASE n - last \in 1..k /\ n = last + (n - last)
          BY <2>4, <4>2
        <4> QED BY <1>3, <4>1, <4>2
      <3> QED BY <3>1, <3>2, <3>3, <3>4 DEF Accounted
    <2>7. Coming'
      <3>1. Len(Queued') = 0 /\ Len(pending') = 0
        BY <1>2, <1>4, <2>1 DEF Queued
      <3>2. PICK c2 : c2 = Course(requests', dev', Queued')
        OBVIOUS
      <3>3. c2[0] = dev'
        BY <3>1, <3>2, CourseWalk DEF Walk
      <3>4. ~StreamChangeAborted' => ComingTo(c2, 0, direction', listed')
        <4>1. q + k = k /\ k \in 0..k
          BY <1>3, <2>1
        <4>2. \A i \in 0..0 : i = 0
          OBVIOUS
        <4> QED BY <1>8, <2>2, <3>3, <4>1, <4>2 DEF ComingTo
      <3> QED BY <3>1, <3>2, <3>4 DEF Coming
    <2>8. /\ host' \in BOOLEAN /\ owned' \in BOOLEAN
          /\ pending' \in Seq([id : Nat, number : Nat]) /\ hal' \in Seq(Nat) /\ lastID' \in Nat
      BY <1>1, <2>1 DEF ConfigIInv, ConfigTypes
    <2> QED BY <1>1, <1>7, <2>3, <2>5, <2>6, <2>7, <2>8 DEF Booked
  <1>11. CASE Waits(base, k)
    <2>1. /\ host /\ owned /\ dev' = base /\ lastID' = lastID + k /\ lastID \in Nat
          /\ Len(pending') = q + k /\ Len(hal') = m + k
          /\ \A i \in 1..q : pending'[i] = pending[i]
          /\ \A j \in 1..k : /\ pending'[q + j].id = lastID + j - 1
                             /\ pending'[q + j].number = last + j
          /\ \A i \in 1..m : hal'[i] = hal[i]
          /\ \A j \in 1..k : hal'[m + j] = lastID + j - 1
      BY <1>2, <1>11 DEF Waits, ConfigIInv, ConfigTypes
    <2>2. /\ pending' \in Seq([id : Nat, number : Nat]) /\ hal' \in Seq(Nat)
          /\ DOMAIN pending' = 1..q + k /\ DOMAIN hal' = 1..m + k
      BY <1>11, <2>1, LenProperties DEF Waits
    <2>3. /\ \A i \in 1..q + k : i \in 1..q \/ (i - q \in 1..k /\ i = q + (i - q))
          /\ \A i \in 1..m + k : i \in 1..m \/ (i - m \in 1..k /\ i = m + (i - m))
      BY <1>3
    <2>4. /\ \A i \in 1..m : hal[i] \in Nat /\ hal[i] < lastID
          /\ \A i \in 1..q : /\ pending[i].id \in Nat /\ pending[i].id < lastID
                             /\ \E j \in 1..m : pending[i].id = hal[j]
      <3>1. \A i \in 1..m : hal[i] \in Nat /\ hal[i] < lastID
        BY <1>2, <1>4, ElementOfSeq DEF ConfigIInv, ConfigTypes, Ordered
      <3>2. \A i \in 1..q : pending[i].id \in Nat /\ \E j \in 1..m : pending[i].id = hal[j]
        BY <1>2, <1>4, QueuedFacts DEF ConfigIInv, ConfigTypes, Ordered
      <3> QED BY <3>1, <3>2
    <2>5. Good(dev', requests', direction', span')
      <3>1. 0 \in 0..Len(ns)
        BY <1>3, <1>5 DEF Numbered
      <3>2. c1[0] = base
        BY <1>3, <1>5, <1>6, CourseWalk DEF Walk, Numbered
      <3> QED BY <1>7, <2>1, <3>1, <3>2 DEF AllGood
    <2>6. Ordered'
      <3>1. /\ dev'.applied = dev.applied /\ Rising(dev'.applied)
        BY <1>9, <2>1
      <3>2. \A i, j \in 1..q + k : i < j =>
              pending'[i].number < pending'[j].number /\ pending'[i].id < pending'[j].id
        <4>1. ASSUME NEW i \in 1..q, NEW j \in 1..q, i < j
              PROVE  pending'[i].number < pending'[j].number /\ pending'[i].id < pending'[j].id
          BY <1>4, <2>1, <4>1 DEF ConfigIInv, Ordered
        <4>2. ASSUME NEW i \in 1..q, NEW j \in 1..k
              PROVE  /\ pending'[i].number < pending'[q + j].number
                     /\ pending'[i].id < pending'[q + j].id
          <5>1. pending'[i].number \in 1..last /\ pending'[i].id \in Nat /\ pending'[i].id < lastID
            BY <1>4, <2>1, <2>4
          <5>2. pending'[q + j].number = last + j /\ pending'[q + j].id = lastID + j - 1
            BY <2>1
          <5> QED BY <2>1, <5>1, <5>2
        <4>3. ASSUME NEW i \in 1..k, NEW j \in 1..k, q + i < q + j
              PROVE  /\ pending'[q + i].number < pending'[q + j].number
                     /\ pending'[q + i].id < pending'[q + j].id
          BY <2>1, <4>3
        <4> SUFFICES ASSUME NEW i \in 1..q + k, NEW j \in 1..q + k, i < j
                     PROVE  pending'[i].number < pending'[j].number /\ pending'[i].id < pending'[j].id
          OBVIOUS
        <4>4. CASE j \in 1..q
          <5>1. i \in 1..q
            BY <4>4
          <5> QED BY <4>1, <4>4, <5>1
        <4>5. CASE j - q \in 1..k /\ j = q + (j - q)
          <5>1. CASE i \in 1..q
            <6>1. \A jj \in 1..k : j = q + jj =>
                    pending'[i].number < pending'[j].number /\ pending'[i].id < pending'[j].id
              BY <4>2, <5>1
            <6> QED BY <4>5, <6>1
          <5>2. CASE i - q \in 1..k /\ i = q + (i - q)
            <6>1. \A ii, jj \in 1..k : i = q + ii /\ j = q + jj =>
                    pending'[i].number < pending'[j].number /\ pending'[i].id < pending'[j].id
              BY <4>3
            <6> QED BY <4>5, <5>2, <6>1
          <5> QED BY <2>3, <5>1, <5>2
        <4> QED BY <2>3, <4>4, <4>5
      <3>3. \A i \in DOMAIN dev'.applied, j \in 1..q + k : dev'.applied[i] < pending'[j].number
        <4>1. ASSUME NEW i \in DOMAIN dev.applied, NEW j \in 1..q
              PROVE  dev.applied[i] < pending'[j].number
          BY <1>4, <2>1 DEF ConfigIInv, Ordered
        <4>2. ASSUME NEW i \in DOMAIN dev.applied, NEW j \in 1..k
              PROVE  dev.applied[i] < pending'[q + j].number
          BY <1>9, <2>1
        <4> QED BY <2>3, <3>1, <4>1, <4>2
      <3>4. Rising(hal')
        <4>1. \A i, j \in 1..m : i < j => hal'[i] < hal'[j]
          BY <1>4, <2>1 DEF ConfigIInv, Ordered, Rising
        <4>2. \A i \in 1..m + k : \/ i \in 1..m /\ hal'[i] = hal[i] /\ hal[i] < lastID /\ hal[i] \in Nat
                                  \/ i > m /\ hal'[i] = lastID + (i - m) - 1
          <5> SUFFICES ASSUME NEW i \in 1..m + k
                       PROVE  \/ i \in 1..m /\ hal'[i] = hal[i] /\ hal[i] < lastID /\ hal[i] \in Nat
                              \/ i > m /\ hal'[i] = lastID + (i - m) - 1
            OBVIOUS
          <5>1. CASE i \in 1..m
            BY <2>1, <2>4, <5>1
          <5>2. CASE i - m \in 1..k /\ i = m + (i - m)
            <6>1. \A j \in 1..k : i = m + j => hal'[i] = lastID + j - 1 /\ i > m
              BY <2>1
            <6> QED BY <5>2, <6>1
          <5> QED BY <2>3, <5>1, <5>2
        <4>3. ASSUME NEW i \in 1..m + k, NEW j \in 1..m + k, i < j PROVE hal'[i] < hal'[j]
          <5>1. CASE j \in 1..m
            <6>1. i \in 1..m
              BY <4>3, <5>1
            <6> QED BY <4>1, <4>3, <5>1, <6>1
          <5>2. CASE j \notin 1..m
            <6>1. hal'[j] = lastID + (j - m) - 1 /\ j > m
              BY <4>2, <5>2
            <6>2. CASE i \in 1..m
              <7>1. hal'[i] < lastID /\ hal'[i] \in Nat
                BY <4>2, <6>2
              <7> QED BY <2>1, <6>1, <7>1
            <6>3. CASE i \notin 1..m
              <7>1. hal'[i] = lastID + (i - m) - 1
                BY <4>2, <6>3
              <7> QED BY <2>1, <4>3, <6>1, <7>1
            <6> QED BY <6>2, <6>3
          <5> QED BY <5>1, <5>2
        <4> QED BY <2>2, <4>3 DEF Rising
      <3>5. \A i \in 1..m + k : hal'[i] < lastID'
        <4>1. \A i \in 1..m : hal'[i] < lastID'
          <5>1. \A i \in 1..m : hal'[i] \in Nat /\ hal'[i] < lastID
            BY <2>1, <2>4
          <5> QED BY <1>3, <2>1, <5>1
        <4>2. \A j \in 1..k : hal'[m + j] < lastID'
          BY <1>3, <2>1
        <4> QED BY <2>3, <4>1, <4>2
      <3>6. \A i \in 1..q + k : \E j \in 1..m + k : pending'[i].id = hal'[j]
        <4>1. ASSUME NEW i \in 1..q PROVE \E j \in 1..m + k : pending'[i].id = hal'[j]
          <5>1. PICK j \in 1..m : pending[i].id = hal[j]
            BY <2>4
          <5>2. j \in 1..m + k
            BY <1>3
          <5> QED BY <2>1, <5>1, <5>2
        <4>2. ASSUME NEW i \in 1..k PROVE \E j \in 1..m + k : pending'[q + i].id = hal'[j]
          <5>1. m + i \in 1..m + k
            OBVIOUS
          <5> QED BY <2>1, <5>1
        <4> SUFFICES ASSUME NEW i \in 1..q + k PROVE \E j \in 1..m + k : pending'[i].id = hal'[j]
          OBVIOUS
        <4>3. CASE i \in 1..q
          BY <4>1, <4>3
        <4>4. CASE i - q \in 1..k /\ i = q + (i - q)
          <5>1. \E j \in 1..m + k : pending'[q + (i - q)].id = hal'[j]
            BY <4>2, <4>4
          <5> QED BY <4>4, <5>1
        <4> QED BY <2>3, <4>3, <4>4
      <3>7. lastID' <= Len(requests')
        BY <1>2, <1>3, <2>1 DEF ConfigIInv, Ordered
      <3> QED BY <1>1, <2>1, <2>2, <3>1, <3>2, <3>3, <3>4, <3>5, <3>6, <3>7 DEF Ordered
    <2>7. Accounted'
      <3>1. dev'.applied = dev.applied
        BY <1>9, <2>1
      <3>2. \A i \in DOMAIN dev'.applied : dev'.applied[i] \in DOMAIN requests'
        BY <1>3, <1>9, <3>1
      <3>3. \A i \in 1..q + k : pending'[i].number \in 1..last + k
        <4>1. \A i \in 1..q : pending'[i].number \in 1..last + k
          BY <1>3, <1>4, <2>1
        <4>2. \A i \in 1..k : pending'[q + i].number \in 1..last + k
          BY <1>3, <2>1
        <4> QED BY <2>3, <4>1, <4>2
      <3>4. aborted' \subseteq DOMAIN requests'
        BY <1>1, <1>3 DEF Accounted, ConfigIInv
      <3>5. ASSUME NEW n \in 1..last
            PROVE  \/ \E i \in DOMAIN dev'.applied : dev'.applied[i] = n
                   \/ n \in aborted'
                   \/ \E i \in 1..q + k : pending'[i].number = n
        <4>1. \/ \E i \in DOMAIN dev.applied : dev.applied[i] = n
              \/ n \in aborted
              \/ \E i \in 1..q : pending[i].number = n
          BY <1>3, <1>4 DEF Accounted, ConfigIInv
        <4>2. \A i \in 1..q : i \in 1..q + k
          BY <1>3
        <4> QED BY <1>1, <2>1, <3>1, <4>1, <4>2
      <3>6. ASSUME NEW n \in 1..k PROVE \E i \in 1..q + k : pending'[i].number = last + n
        <4>1. q + n \in 1..q + k
          OBVIOUS
        <4> QED BY <2>1, <4>1
      <3>7. ASSUME NEW n \in DOMAIN requests'
            PROVE  \/ \E i \in DOMAIN dev'.applied : dev'.applied[i] = n
                   \/ n \in aborted'
                   \/ \E i \in 1..q + k : pending'[i].number = n
        <4>1. CASE n - last \in 1..k /\ n = last + (n - last)
          <5>1. \E i \in 1..q + k : pending'[i].number = last + (n - last)
            BY <3>6, <4>1
          <5> QED BY <4>1, <5>1
        <4> QED BY <1>3, <3>5, <4>1
      <3> QED BY <1>3, <2>2, <3>2, <3>3, <3>4, <3>7 DEF Accounted
    <2>8. Coming'
      <3>1. Queued' = ns
        <4>1. Queued' = [i \in 1..q + k |-> pending'[i].number]
          BY <2>2 DEF Queued
        <4>2. \A i \in 1..q + k : pending'[i].number = ns[i]
          <5>1. \A i \in 1..q : pending'[i].number = ns[i]
            BY <1>4, <1>5, <2>1 DEF Numbered
          <5>2. \A i \in 1..k : pending'[q + i].number = ns[q + i]
            BY <1>5, <2>1 DEF Numbered
          <5> QED BY <2>3, <5>1, <5>2
        <4>3. ns = [i \in 1..q + k |-> ns[i]]
          BY <1>5
        <4> QED BY <4>1, <4>2, <4>3
      <3>2. Course(requests', dev', Queued') = c1
        BY <1>6, <2>1, <3>1
      <3> QED BY <1>8, <2>1, <3>2 DEF Coming
    <2> QED BY <1>1, <1>7, <2>1, <2>2, <2>5, <2>6, <2>7, <2>8 DEF Booked, ConfigIInv, ConfigTypes
  <1> QED BY <1>1, <1>10, <1>11

-----------------------------------------------------------------------------
\* The operations that make one request

LEMMA LegalTyped ==
  ASSUME NEW dirs \in DirectionMaps, NEW r, Legal(r, dirs)
  PROVE  r \in AllFunctions
  <1>1. ASSUME NEW o \in Objects, NEW f \in FieldsOf(o), NEW v \in ValuesOf(f), r = <<Assign(o, f, v)>>
        PROVE  r \in AllFunctions
    <2>1. f \in DeviceFields \union StreamFields
      BY DEF FieldsOf
    <2>2. IF f \in ListFields THEN v \in Lists ELSE v \in Values
      BY DEF ValuesOf
    <2> QED BY <1>1, <2>1, <2>2 DEF AllFunctions
  <1>2. IsRateChange(r) => r \in AllFunctions
    BY DEF IsRateChange, AllFunctions
  <1>3. ASSUME NEW x \in Children, Place(dirs, x) # "none",
               r \in {<<Attach(x, Place(dirs, x))>>, <<Detach(x, Place(dirs, x))>>}
        PROVE  r \in AllFunctions
    <2>1. PICK where \in Directions \union {"control"} : where = Place(dirs, x)
      BY <1>3, PlaceKinds DEF DirectionMaps
    <2> QED BY <1>3, <2>1 DEF AllFunctions
  <1> QED BY <1>1, <1>2, <1>3 DEF Legal, IsAssign

LEMMA NoFormatsBefore ==
  ASSUME NEW f, NEW f1, NEW functions, NEW k, Requested(f, f1, functions, k), NoFormats(f1)
  PROVE  NoFormats(f)
  <1>1. \A n \in 1..Len(f) : n \in 1..Len(f) + k /\ f1[n] = f[n]
    BY DEF Requested
  <1> QED BY <1>1 DEF Requested, NoFormats

LEMMA OneRequest ==
  ASSUME ConfigIInv, NEW r, RequestConfigurationChange(r), UNCHANGED <<direction, span>>,
         Alters(r, direction, listed, listed'), Streams \intersect listed' \subseteq listed
  PROVE  ConfigIInv'
  <1>1. PICK functions, kept : functions = <<r>> /\ kept = [j \in 0..1 |-> IF j = 0 THEN listed ELSE listed']
    OBVIOUS
  <1>2. /\ ConfigTypes /\ Good(dev, requests, direction, span)
        /\ SpansApart(requests, direction, span, listed)
    BY DEF ConfigIInv
  <1>3. r \in AllFunctions
    BY <1>2, AltersLegal, LegalTyped DEF ConfigTypes
  <1>4. functions \in Seq(AllFunctions) /\ Len(functions) = 1 /\ functions[1] = r
    BY <1>1, <1>3
  <1>5. RequestFrom(dev, functions)
    BY <1>1 DEF RequestConfigurationChange
  <1>6. Requested(requests, requests', functions, 1)
    BY <1>2, <1>4, <1>5, RequestFacts
  <1>7. FormatsKept(dev, requests', direction', span')
    BY <1>2, <1>6, NoFormatsBefore DEF Good, FormatsKept
  <1>8. direction' \in DirectionMaps /\ Extends(direction', direction)
    BY <1>2 DEF ConfigTypes, Extends
  <1>9. kept[0] = listed /\ kept[1] = listed' /\ AlterList(functions, 1, kept, direction')
    <2>1. kept[0] = listed /\ kept[1] = listed'
      BY <1>1
    <2>2. \A j \in 1..1 : j = 1 /\ j - 1 = 0
      OBVIOUS
    <2> QED BY <1>4, <2>1, <2>2 DEF AlterList
  <1>10. DevOK(dev) /\ Core(dev) = Core(dev) /\ dev.applied = dev.applied /\ Settled(dev, requests)
    BY <1>2 DEF Good
  <1>11. Booked'
    BY <1>4, <1>5, <1>7, <1>8, <1>9, <1>10, RequestStep
  <1>12. listed' \subseteq Children
    BY <1>2 DEF ConfigTypes, Alters
  <1>13. ConfigTypes'
    BY <1>2, <1>8, <1>11, <1>12 DEF ConfigTypes, Booked
  <1>14. SpansApart(requests', direction', span', listed')
    BY <1>2, <1>6, NoFormatsBefore DEF SpansApart
  <1> QED BY <1>11, <1>13, <1>14 DEF ConfigIInv, Booked

LEMMA SetAsyncInv ==
  ASSUME ConfigIInv, NEW o \in Objects, NEW f \in FieldsOf(o), NEW v \in ValuesOf(f), SetAsync(o, f, v)
  PROVE  ConfigIInv'
  <1>1. PICK r : r = <<Assign(o, f, v)>>
    OBVIOUS
  <1>2. RequestConfigurationChange(r) /\ UNCHANGED <<direction, span, listed>>
        /\ (o \in Streams => direction[o] # "none")
    BY <1>1 DEF SetAsync
  <1>3. IsAssign(r, direction)
    BY <1>1, <1>2 DEF IsAssign
  <1>4. Alters(r, direction, listed, listed')
    BY <1>2, <1>3 DEF Alters
  <1> QED BY <1>2, <1>4, OneRequest

LEMMA ChangeRatesInv ==
  ASSUME ConfigIInv, NEW list \in Lists, NEW v \in Values, ChangeRates(list, v)
  PROVE  ConfigIInv'
  <1>1. PICK r : r = <<Set(Device, "availableSampleRates", list), Set(Device, "nominalSampleRate", v)>>
    OBVIOUS
  <1>2. RequestConfigurationChange(r) /\ UNCHANGED <<direction, span, listed>>
    BY <1>1 DEF ChangeRates
  <1>3. Alters(r, direction, listed, listed')
    BY <1>1, <1>2 DEF Alters, IsRateChange
  <1> QED BY <1>2, <1>3, OneRequest

LEMMA ControlsApart == Controls \subseteq Children /\ Controls \intersect Streams = {}
                       /\ Streams \subseteq Children
  BY ConfigurationAssumption DEF ConfigurationAssumption, Children

LEMMA RemoveStreamInv ==
  ASSUME ConfigIInv, NEW s \in Streams, RemoveStreamAsync(s)
  PROVE  ConfigIInv'
  <1>1. PICK r : r = <<Detach(s, direction[s])>>
    OBVIOUS
  <1>2. RequestConfigurationChange(r) /\ UNCHANGED <<direction, span>>
        /\ s \in listed /\ listed' = listed \ {s}
    BY <1>1 DEF RemoveStreamAsync
  <1>3. direction[s] # "none" /\ Place(direction, s) = direction[s] /\ s \in Children
    BY <1>2, ControlsApart DEF ConfigIInv, ConfigTypes, Place
  <1>4. Alters(r, direction, listed, listed')
    BY <1>1, <1>2, <1>3 DEF Alters
  <1> QED BY <1>2, <1>4, OneRequest

LEMMA AddControlInv ==
  ASSUME ConfigIInv, NEW x \in Controls, AddControlAsync(x)
  PROVE  ConfigIInv'
  <1>1. PICK r : r = <<Attach(x, "control")>>
    OBVIOUS
  <1>2. RequestConfigurationChange(r) /\ UNCHANGED <<direction, span>>
        /\ x \notin listed /\ listed' = listed \union {x}
    BY <1>1 DEF AddControlAsync
  <1>3. Place(direction, x) = "control" /\ x \in Children /\ x \notin Streams
    BY ControlsApart DEF Place
  <1>4. Alters(r, direction, listed, listed')
    BY <1>1, <1>2, <1>3 DEF Alters
  <1> QED BY <1>2, <1>3, <1>4, OneRequest

LEMMA RemoveControlInv ==
  ASSUME ConfigIInv, NEW x \in Controls, RemoveControlAsync(x)
  PROVE  ConfigIInv'
  <1>1. PICK r : r = <<Detach(x, "control")>>
    OBVIOUS
  <1>2. RequestConfigurationChange(r) /\ UNCHANGED <<direction, span>>
        /\ x \in listed /\ listed' = listed \ {x}
    BY <1>1 DEF RemoveControlAsync
  <1>3. Place(direction, x) = "control" /\ x \in Children
    BY ControlsApart DEF Place
  <1>4. Alters(r, direction, listed, listed')
    BY <1>1, <1>2, <1>3 DEF Alters
  <1> QED BY <1>2, <1>4, OneRequest

-----------------------------------------------------------------------------
\* Adding a stream

LEMMA PreferredCount ==
  ASSUME NEW c, CfgOK(c) PROVE GetPreferredChannelCount(c) \in Values
  <1> DEFINE values == <<c[Device].channelCount, c[Device].channels, c[Device].layout, ChannelCount>>
             good(i) == values[i] # NotSet /\ \A j \in 1..i - 1 : values[j] = NotSet
  <1>1. /\ c[Device].channelCount \in Values \union {NotSet}
        /\ c[Device].channels \in Values \union {NotSet} /\ c[Device].layout \in Values \union {NotSet}
    <2>1. Stored("channelCount") = Values \union {NotSet} /\ Stored("channels") = Values \union {NotSet}
          /\ Stored("layout") = Values \union {NotSet}
      BY DEF Stored, OptionalFields, ListFields, ValuesOf
    <2>2. {"channelCount", "channels", "layout"} \subseteq FieldsOf(Device) /\ Device \in Objects
      BY StreamObjects DEF DeviceFields
    <2> QED BY <2>1, <2>2 DEF CfgOK
  <1>2. ChannelCount \in Values /\ NotSet \notin Values
    BY ConfigurationAssumption DEF ConfigurationAssumption
  <1>3. /\ DOMAIN values = 1..4
        /\ \A i \in 1..4 : values[i] \in Values \union {NotSet}
        /\ values[4] # NotSet
    BY <1>1, <1>2
  <1> HIDE DEF values
  <1>4. \E i \in 1..4 : good(i)
    <2>1. CASE values[1] # NotSet
      <3>1. \A j \in 1..1 - 1 : values[j] = NotSet
        OBVIOUS
      <3> QED BY <2>1, <3>1
    <2>2. CASE values[1] = NotSet /\ values[2] # NotSet
      <3>1. \A j \in 1..2 - 1 : j = 1
        OBVIOUS
      <3> QED BY <2>2, <3>1
    <2>3. CASE values[1] = NotSet /\ values[2] = NotSet /\ values[3] # NotSet
      <3>1. \A j \in 1..3 - 1 : j = 1 \/ j = 2
        OBVIOUS
      <3> QED BY <2>3, <3>1
    <2>4. CASE values[1] = NotSet /\ values[2] = NotSet /\ values[3] = NotSet
      <3>1. \A j \in 1..4 - 1 : j = 1 \/ j = 2 \/ j = 3
        OBVIOUS
      <3> QED BY <1>3, <2>4, <3>1
    <2> QED BY <2>1, <2>2, <2>3, <2>4
  <1>5. PICK n : n = CHOOSE i \in 1..4 : good(i)
    OBVIOUS
  <1>6. n \in 1..4 /\ values[n] # NotSet
    BY <1>4, <1>5
  <1>7. FirstSet(values) = values[n]
    BY <1>3, <1>5 DEF FirstSet
  <1>8. GetPreferredChannelCount(c) = FirstSet(values)
    BY DEF GetPreferredChannelCount, values
  <1> QED BY <1>3, <1>6, <1>7, <1>8

LEMMA ChannelAfterLast ==
  ASSUME ConfigTypes, CfgOK(dev.cfg), NEW dir, NEW n, n = NextChannel(dir)
  PROVE  /\ n \in Nat
         /\ \A t \in Streams \intersect listed :
              direction[t] = dir => span[t].first + dev.cfg[t].physicalFormat <= n
  <1> DEFINE set == {x \in Streams \intersect listed : direction[x] = dir}
             e == [s \in set |-> GetStartingChannel(s) + GetChannelCount(dev.cfg, s)]
             taken == {GetStartingChannel(s) + GetChannelCount(dev.cfg, s) : s \in set}
  <1>1. \A s \in set : e[s] = span[s].first + dev.cfg[s].physicalFormat /\ e[s] \in Nat
    <2> SUFFICES ASSUME NEW s \in set
                 PROVE  e[s] = span[s].first + dev.cfg[s].physicalFormat /\ e[s] \in Nat
      OBVIOUS
    <2>1. span[s].first \in Nat
      BY DEF ConfigTypes
    <2>2. dev.cfg[s].physicalFormat \in Values
      <3>1. s \in Objects /\ "physicalFormat" \in FieldsOf(s)
        BY StreamObjects DEF StreamFields
      <3>2. Stored("physicalFormat") = Values
        BY DEF Stored, OptionalFields, ListFields, ValuesOf
      <3> QED BY <3>1, <3>2 DEF CfgOK
    <2>3. dev.cfg[s].physicalFormat \in Nat
      BY <2>2, ConfigurationAssumption DEF ConfigurationAssumption
    <2> QED BY <2>1, <2>3 DEF GetStartingChannel, GetChannelCount
  <1>2. taken \in SUBSET Nat
    BY <1>1
  <1>3. IsFiniteSet(taken)
    <2>1. IsFiniteSet(set)
      BY FS_Subset, ConfigurationAssumption DEF ConfigurationAssumption
    <2>2. e \in Surjection(set, taken)
      BY DEF Surjection
    <2> QED BY <2>1, <2>2, FS_Surjection
  <1>4. n = CHOOSE i \in {1} \union taken : \A j \in taken : j <= i
    BY DEF NextChannel
  <1>5. \A s \in set : e[s] \in taken
    OBVIOUS
  <1> HIDE DEF taken, e
  <1>6. \E m \in {1} \union taken : \A j \in {1} \union taken : j <= m
    <2>1. IsFiniteSet({1} \union taken)
      BY <1>3, FS_AddElement
    <2> QED BY <1>2, <2>1, FiniteHasGreatest
  <1>7. n \in {1} \union taken /\ \A j \in taken : j <= n
    BY <1>4, <1>6
  <1> QED BY <1>1, <1>2, <1>5, <1>7

\* The device with a stream just constructed, which no request has named.
LEMMA ConstructedFacts ==
  ASSUME ConfigIInv, NEW s \in Streams, direction[s] = "none", NEW base, base = Constructed(s)
  PROVE  /\ DevOK(base) /\ Core(base) = Core(dev) /\ base.applied = dev.applied
         /\ Settled(base, requests)
         /\ base.cfg[s].physicalFormat = GetPreferredChannelCount(dev.cfg)
         /\ \A t \in Streams : t # s => base.cfg[t] = dev.cfg[t]
  <1> DEFINE c == dev.cfg
             count == GetPreferredChannelCount(c)
             fields == [field \in StreamFields |->
                          IF field \in OptionalFields THEN NotSet
                          ELSE IF field \in {"physicalFormat", "virtualFormat"} THEN count
                          ELSE c[s][field]]
             g == [c EXCEPT ![s] = fields]
  <1>1. DevOK(dev) /\ CfgOK(c) /\ Settled(dev, requests)
    BY DEF ConfigIInv, Good, DevOK
  <1>2. count \in Values
    BY <1>1, PreferredCount
  <1> HIDE DEF count
  <1>3. base = [dev EXCEPT !.cfg = g]
    <2>1. Constructed(s) = [dev EXCEPT !.cfg = [dev.cfg EXCEPT ![s] =
            [field \in StreamFields |->
               CASE field \in OptionalFields -> NotSet
                 [] field \in {"physicalFormat", "virtualFormat"} -> count
                 [] OTHER -> dev.cfg[s][field]]]]
      BY DEF Constructed, count
    <2>2. \A field \in StreamFields :
            (CASE field \in OptionalFields -> NotSet
               [] field \in {"physicalFormat", "virtualFormat"} -> count
               [] OTHER -> dev.cfg[s][field]) = fields[field]
      BY DEF StreamFields, OptionalFields, ListFields
    <2>3. [field \in StreamFields |->
               CASE field \in OptionalFields -> NotSet
                 [] field \in {"physicalFormat", "virtualFormat"} -> count
                 [] OTHER -> dev.cfg[s][field]] = fields
      BY <2>2
    <2> QED BY <2>1, <2>3
  <1>4. /\ s \in Objects /\ FieldsOf(s) = StreamFields
        /\ c = [o \in Objects |-> [f \in FieldsOf(o) |-> c[o][f]]]
        /\ \A o \in Objects : \A f \in FieldsOf(o) : c[o][f] \in Stored(f)
    BY <1>1, StreamObjects DEF CfgOK
  <1> HIDE DEF c
  <1>5. fields = [f \in StreamFields |-> fields[f]] /\ \A f \in StreamFields : fields[f] \in Stored(f)
    <2>1. \A f \in StreamFields \cap OptionalFields : NotSet \in Stored(f)
      BY DEF Stored
    <2>2. Stored("physicalFormat") = Values /\ Stored("virtualFormat") = Values
      BY DEF Stored, OptionalFields, ListFields, ValuesOf
    <2> QED BY <1>2, <1>4, <2>1, <2>2
  <1>6. fields["physicalFormat"] = count /\ fields["streamLatency"] = c[s]["streamLatency"]
    BY DEF StreamFields, OptionalFields, ListFields
  <1> HIDE DEF fields
  <1>7. g[s] = fields /\ \A o \in Objects : o # s => g[o] = c[o]
    BY <1>4
  <1>8. g = [o \in Objects |-> g[o]]
    BY <1>4
  <1> HIDE DEF g
  <1>9. CfgOK(g)
    <2>1. ASSUME NEW o \in Objects, o # s
          PROVE  g[o] = [f \in FieldsOf(o) |-> g[o][f]] /\ \A f \in FieldsOf(o) : g[o][f] \in Stored(f)
      <3>1. c[o] = [f \in FieldsOf(o) |-> c[o][f]]
        BY <1>4
      <3> QED BY <1>4, <1>7, <2>1, <3>1
    <2>2. g[s] = [f \in FieldsOf(s) |-> g[s][f]] /\ \A f \in FieldsOf(s) : g[s][f] \in Stored(f)
      BY <1>4, <1>5, <1>7
    <2>3. \A o \in Objects : g[o] = [f \in FieldsOf(o) |-> g[o][f]]
      BY <2>1, <2>2
    <2>4. g = [o \in Objects |-> [f \in FieldsOf(o) |-> g[o][f]]]
      BY <1>8, <2>3
    <2> QED BY <2>1, <2>2, <2>4 DEF CfgOK
  <1>10. /\ base.cfg = g /\ base.children = dev.children /\ base.inputs = dev.inputs
         /\ base.outputs = dev.outputs /\ base.applied = dev.applied
         /\ base = [cfg |-> base.cfg, children |-> base.children, inputs |-> base.inputs,
                    outputs |-> base.outputs, applied |-> base.applied]
    BY <1>1, <1>3 DEF DevOK
  <1>11. DevOK(base) /\ Core(base) = Core(dev)
    BY <1>1, <1>9, <1>10 DEF DevOK, Core
  <1>12. \A o \in Objects : \A f, v : \A n \in DOMAIN requests :
           requests[n] = <<Assign(o, f, v)>> => o # s
    <2> SUFFICES ASSUME NEW f, NEW v, NEW n \in DOMAIN requests, requests[n] = <<Assign(s, f, v)>>
                 PROVE  FALSE
      OBVIOUS
    <2>1. Legal(requests[n], direction)
      BY DEF ConfigIInv, ConfigTypes, AllLegal
    <2>2. ~IsRateChange(requests[n])
      <3>1. Len(requests[n]) = 1
        OBVIOUS
      <3> QED BY <3>1 DEF IsRateChange
    <2>3. \A x, where : requests[n] \notin {<<Attach(x, where)>>, <<Detach(x, where)>>}
      BY DEF Assign, Attach, Detach
    <2>4. PICK o \in Objects : \E f2, v2 : requests[n] = <<Assign(o, f2, v2)>>
                                          /\ (o \in Streams => direction[o] # "none")
      BY <2>1, <2>2, <2>3 DEF Legal, IsAssign
    <2>5. o = s
      BY <2>4 DEF Assign
    <2> QED BY <2>4, <2>5
  <1>13. Settled(base, requests)
    <2> SUFFICES ASSUME \A i \in DOMAIN base.applied : Len(requests[base.applied[i]]) = 1,
                        NEW o \in Objects, NEW f \in FieldsOf(o) \ OptionalFields,
                        NEW v \in Values, NEW i \in DOMAIN base.applied,
                        requests[base.applied[i]] = <<Assign(o, f, v)>>,
                        \A j \in i + 1..Len(base.applied), w \in Values :
                          requests[base.applied[j]] # <<Assign(o, f, w)>>
                 PROVE  base.cfg[o][f] = v
      BY DEF Settled
    <2>1. dev.cfg[o][f] = v
      BY <1>1, <1>10 DEF Settled
    <2>2. o # s
      <3>1. base.applied[i] \in DOMAIN requests
        BY <1>10 DEF ConfigIInv, Accounted
      <3> QED BY <1>12, <3>1
    <2> QED BY <1>7, <1>10, <2>1, <2>2 DEF c
  <1>14. \A t \in Streams : t # s => base.cfg[t] = dev.cfg[t]
    BY <1>7, <1>10, StreamObjects DEF c
  <1>15. base.cfg[s].physicalFormat = GetPreferredChannelCount(dev.cfg)
    BY <1>6, <1>7, <1>10 DEF count, c
  <1> QED BY <1>10, <1>11, <1>13, <1>14, <1>15

\* A stream is added, and with it the controls that are among the children.
LEMMA AddStreamsInv ==
  ASSUME ConfigIInv, NEW s \in Streams, NEW dir \in Directions, NEW functions \in Seq(AllFunctions),
         NEW k, k = Len(functions), NEW children, children \subseteq {s} \union Controls, s \in children,
         AddStreams(s, dir, functions, children),
         NEW kept, kept[0] = listed, kept[k] = listed \union children,
         AlterList(functions, k, kept, direction')
  PROVE  ConfigIInv'
  <1>1. PICK base : base = Constructed(s)
    OBVIOUS
  <1>2. /\ direction[s] = "none" /\ children \intersect listed = {}
        /\ direction' = [direction EXCEPT ![s] = dir]
        /\ span' = [span EXCEPT ![s] = [first |-> NextChannel(dir),
                                        count |-> GetPreferredChannelCount(dev.cfg)]]
        /\ listed' = listed \union children /\ RequestFrom(base, functions)
    BY <1>1 DEF AddStreams
  <1>3. /\ DevOK(base) /\ Core(base) = Core(dev) /\ base.applied = dev.applied
        /\ Settled(base, requests)
        /\ base.cfg[s].physicalFormat = GetPreferredChannelCount(dev.cfg)
        /\ \A t \in Streams : t # s => base.cfg[t] = dev.cfg[t]
    BY <1>1, <1>2, ConstructedFacts
  <1>4. ConfigTypes /\ Good(dev, requests, direction, span) /\ CfgOK(dev.cfg)
        /\ SpansApart(requests, direction, span, listed)
    BY DEF ConfigIInv, Good, DevOK
  <1>5. PICK n \in Nat : n = NextChannel(dir) /\
          \A t \in Streams \intersect listed :
            direction[t] = dir => span[t].first + dev.cfg[t].physicalFormat <= n
    BY <1>4, ChannelAfterLast
  <1>6. PICK count \in Values : count = GetPreferredChannelCount(dev.cfg)
    BY <1>4, PreferredCount
  <1>7. /\ direction' \in DirectionMaps /\ Extends(direction', direction)
        /\ direction'[s] = dir /\ dir # "none"
        /\ \A t \in Streams : t # s => direction'[t] = direction[t]
    BY <1>2, <1>4 DEF ConfigTypes, DirectionMaps, Extends, Directions
  <1>8. /\ span' \in [Streams -> [first : Nat, count : Values \union {0}]]
        /\ span'[s].first = n /\ span'[s].count = count
        /\ \A t \in Streams : t # s => span'[t] = span[t]
    BY <1>2, <1>4, <1>5, <1>6 DEF ConfigTypes
  <1>9. Requested(requests, requests', functions, k)
    BY <1>2, <1>4, RequestFacts
  <1>10. NoFormats(requests') => NoFormats(requests)
    BY <1>9, NoFormatsBefore
  <1>11. FormatsKept(base, requests', direction', span')
    <2> SUFFICES ASSUME NoFormats(requests'), NEW t \in Streams, direction'[t] # "none"
                 PROVE  base.cfg[t].physicalFormat = span'[t].count
      BY DEF FormatsKept
    <2>1. CASE t = s
      BY <1>3, <1>6, <1>8, <2>1
    <2>2. CASE t # s
      <3>1. dev.cfg[t].physicalFormat = span[t].count
        BY <1>4, <1>7, <1>10, <2>2 DEF Good, FormatsKept
      <3> QED BY <1>3, <1>8, <2>2, <3>1
    <2> QED BY <2>1, <2>2
  <1>12. Booked'
    BY <1>2, <1>3, <1>7, <1>11, RequestStep
  <1>13. ConfigTypes'
    <2>1. listed' \subseteq Children
      BY <1>2, <1>4, ControlsApart DEF ConfigTypes
    <2>2. \A t \in Streams \intersect listed' : direction'[t] # "none"
      BY <1>2, <1>4, <1>7, ControlsApart DEF ConfigTypes
    <2> QED BY <1>7, <1>8, <1>12, <2>1, <2>2 DEF ConfigTypes, Booked
  <1>14. SpansApart(requests', direction', span', listed')
    <2> SUFFICES ASSUME NoFormats(requests'), NEW t \in Streams \intersect listed',
                        NEW u \in Streams \intersect listed', t # u, direction'[t] = direction'[u]
                 PROVE  \/ span'[t].first + span'[t].count <= span'[u].first
                        \/ span'[u].first + span'[u].count <= span'[t].first
      BY DEF SpansApart
    <2>1. Streams \intersect listed' = (Streams \intersect listed) \union {s}
      BY <1>2, ControlsApart
    <2>2. ASSUME NEW x \in Streams \intersect listed, x # s, direction'[x] = dir
          PROVE  span'[x].first + span'[x].count <= span'[s].first
      <3>1. direction[x] = dir /\ span'[x] = span[x]
        BY <1>7, <1>8, <2>2
      <3>2. dev.cfg[x].physicalFormat = span[x].count
        BY <1>4, <1>7, <1>10, <3>1 DEF Good, FormatsKept
      <3> QED BY <1>5, <1>8, <3>1, <3>2
    <2>3. CASE t = s \/ u = s
      BY <1>7, <2>1, <2>2, <2>3
    <2>4. CASE t # s /\ u # s
      BY <1>4, <1>7, <1>8, <1>10, <2>1, <2>4 DEF SpansApart
    <2> QED BY <2>3, <2>4
  <1> QED BY <1>12, <1>13, <1>14 DEF ConfigIInv, Booked

LEMMA AddStreamInv ==
  ASSUME ConfigIInv, NEW s \in Streams, NEW dir \in Directions, AddStreamAsync(s, dir)
  PROVE  ConfigIInv'
  <1>1. PICK functions, kept, children :
          /\ functions = <<<<Attach(s, dir)>>>> /\ children = {s}
          /\ kept = [j \in 0..1 |-> IF j = 0 THEN listed ELSE listed \union {s}]
    OBVIOUS
  <1>2. AddStreams(s, dir, functions, children)
    BY <1>1 DEF AddStreamAsync
  <1>3. /\ direction' = [direction EXCEPT ![s] = dir] /\ s \notin listed
        /\ direction \in DirectionMaps /\ s \in Children
    BY <1>1, <1>2, ControlsApart DEF AddStreams, ConfigIInv, ConfigTypes
  <1>4. Place(direction', s) = dir /\ dir # "none"
    BY <1>3 DEF Place, DirectionMaps, Directions
  <1>5. <<Attach(s, dir)>> \in AllFunctions
    BY <1>3 DEF AllFunctions
  <1>6. functions \in Seq(AllFunctions) /\ Len(functions) = 1 /\ functions[1] = <<Attach(s, dir)>>
    BY <1>1, <1>5
  <1>7. kept[0] = listed /\ kept[1] = listed \union {s}
    BY <1>1
  <1>8. AlterList(functions, 1, kept, direction')
    <2>1. Alters(functions[1], direction', kept[0], kept[1])
      BY <1>3, <1>4, <1>6, <1>7 DEF Alters
    <2>2. \A j \in 1..1 : j = 1 /\ j - 1 = 0
      OBVIOUS
    <2> QED BY <2>1, <2>2 DEF AlterList
  <1> QED BY <1>1, <1>2, <1>6, <1>7, <1>8, AddStreamsInv

LEMMA AddStreamWithControlsInv ==
  ASSUME ConfigIInv, NEW s \in Streams, NEW dir \in Directions, NEW v \in VolumeControls,
         NEW m \in MuteControls, AddStreamWithControlsAsync(s, dir, v, m)
  PROVE  ConfigIInv'
  <1>1. PICK functions, kept, children :
          /\ functions = <<<<Attach(s, dir)>>, <<Attach(v, "control")>>, <<Attach(m, "control")>>>>
          /\ children = {s, v, m}
          /\ kept = [j \in 0..3 |-> CASE j = 0 -> listed [] j = 1 -> listed \union {s}
                                      [] j = 2 -> listed \union {s, v} [] OTHER -> listed \union {s, v, m}]
    OBVIOUS
  <1>2. AddStreams(s, dir, functions, children)
    BY <1>1 DEF AddStreamWithControlsAsync
  <1>3. /\ direction' = [direction EXCEPT ![s] = dir] /\ children \intersect listed = {}
        /\ direction \in DirectionMaps /\ s \in Children
    BY <1>2, ControlsApart DEF AddStreams, ConfigIInv, ConfigTypes
  <1>4. /\ v \in Controls /\ m \in Controls /\ v # m /\ v # s /\ m # s
        /\ v \in Children /\ m \in Children /\ v \notin Streams /\ m \notin Streams
    BY ControlsApart, ConfigurationAssumption DEF ConfigurationAssumption, Controls
  <1>5. /\ Place(direction', s) = dir /\ dir # "none"
        /\ Place(direction', v) = "control" /\ Place(direction', m) = "control"
    BY <1>3, <1>4 DEF Place, DirectionMaps, Directions
  <1>6. <<Attach(s, dir)>> \in AllFunctions /\ <<Attach(v, "control")>> \in AllFunctions
        /\ <<Attach(m, "control")>> \in AllFunctions
    BY <1>3, <1>4 DEF AllFunctions
  <1>7. /\ functions \in Seq(AllFunctions) /\ Len(functions) = 3
        /\ functions[1] = <<Attach(s, dir)>> /\ functions[2] = <<Attach(v, "control")>>
        /\ functions[3] = <<Attach(m, "control")>>
    BY <1>1, <1>6
  <1>8. /\ kept[0] = listed /\ kept[1] = listed \union {s}
        /\ kept[2] = listed \union {s, v} /\ kept[3] = listed \union children
    BY <1>1
  <1>9. AlterList(functions, 3, kept, direction')
    <2>1. Alters(functions[1], direction', kept[0], kept[1])
      BY <1>1, <1>3, <1>5, <1>7, <1>8 DEF Alters
    <2>2. Alters(functions[2], direction', kept[1], kept[2])
      <3>1. v \notin kept[1] /\ kept[2] = kept[1] \union {v}
        BY <1>1, <1>3, <1>4, <1>8
      <3> QED BY <1>4, <1>5, <1>7, <3>1 DEF Alters
    <2>3. Alters(functions[3], direction', kept[2], kept[3])
      <3>1. m \notin kept[2] /\ kept[3] = kept[2] \union {m}
        BY <1>1, <1>3, <1>4, <1>8
      <3> QED BY <1>4, <1>5, <1>7, <3>1 DEF Alters
    <2>4. \A j \in 1..3 : (j = 1 /\ j - 1 = 0) \/ (j = 2 /\ j - 1 = 1) \/ (j = 3 /\ j - 1 = 2)
      OBVIOUS
    <2> QED BY <2>1, <2>2, <2>3, <2>4 DEF AlterList
  <1>10. children \subseteq {s} \union Controls /\ s \in children
    BY <1>1, <1>4
  <1> QED BY <1>2, <1>7, <1>8, <1>9, <1>10, AddStreamsInv

-----------------------------------------------------------------------------
\* Publishing, withdrawing, and the HAL's answers

LEMMA QuietInv ==
  ASSUME ConfigIInv, host' \in BOOLEAN, owned' \in BOOLEAN, host /\ owned => host' /\ owned',
         UNCHANGED <<dev, direction, span, listed, pending, lastID, hal, requests, aborted>>
  PROVE  ConfigIInv'
  <1>1. ConfigTypes' /\ SpansApart(requests', direction', span', listed')
    BY DEF ConfigIInv, ConfigTypes
  <1>2. Ordered' /\ Accounted'
    BY DEF ConfigIInv, Ordered, Accounted
  <1>3. Coming'
    BY DEF ConfigIInv, Coming, Queued, StreamChangeAborted
  <1> QED BY <1>1, <1>2, <1>3 DEF ConfigIInv

LEMMA InitializeDriverInv == ConfigIInv /\ InitializeDriver => ConfigIInv'
  BY QuietInv DEF InitializeDriver, ConfigIInv, ConfigTypes

LEMMA PublishInv == ConfigIInv /\ Publish => ConfigIInv'
  BY QuietInv DEF Publish, ConfigIInv, ConfigTypes

LEMMA UnpublishInv ==
  ASSUME ConfigIInv, Unpublish
  PROVE  ConfigIInv'
  <1>1. /\ owned' = FALSE /\ pending' = <<>>
        /\ UNCHANGED <<host, direction, span, listed, lastID, hal, requests, aborted>>
    BY DEF Unpublish
  <1>2. /\ ConfigTypes /\ Ordered /\ Accounted /\ Coming /\ Good(dev, requests, direction, span)
        /\ SpansApart(requests, direction, span, listed)
    BY DEF ConfigIInv
  <1>3. PICK q \in Nat : /\ q = Len(pending) /\ DOMAIN pending = 1..q /\ Len(Queued) = q
                         /\ \A i \in 1..q : Queued[i] = pending[i].number /\ Queued[i] \in Nat
    BY <1>2, QueuedFacts DEF ConfigTypes
  <1>4. PICK c, ns, d : c = Course(requests, dev, Queued) /\ ns = Queued /\ d = dev
    OBVIOUS
  <1>5. dev' = c[q]
    BY <1>3, <1>4 DEF Unpublish, After
  <1>6. AllGood(c, requests, direction, span, d, ns)
    <2>1. PICK dirs, spans, functions : dirs = direction /\ spans = span /\ functions = requests
      OBVIOUS
    <2>2. dirs \in [Streams -> Directions \union {"none"}] /\ AllLegal(functions, dirs)
          /\ Good(d, functions, dirs, spans)
      BY <1>2, <1>4, <2>1 DEF ConfigTypes, DirectionMaps
    <2>3. Len(ns) \in Nat /\ Numbers(ns, functions)
      BY <1>2, <1>3, <1>4, <2>1 DEF Numbers, Accounted
    <2>4. Walk(c, functions, d, ns)
      BY <1>4, <2>1, <2>3, CourseWalk
    <2>5. AllGood(c, functions, dirs, spans, d, ns)
      BY <2>2, <2>3, <2>4, WalkGood
    <2> QED BY <2>1, <2>5
  <1>7. Good(dev', requests, direction, span) /\ AppliedTo(dev', d, ns, q)
    <2>1. q \in 0..Len(ns)
      BY <1>3, <1>4
    <2> QED BY <1>5, <1>6, <2>1 DEF AllGood
  <1>8. AppliedAll(d, dev', ns, q)
    <2>1. PICK e : e = dev'
      OBVIOUS
    <2>2. /\ AppliedTo(e, d, ns, q) /\ d.applied \in Seq(Nat) /\ e.applied \in Seq(Nat)
          /\ Rising(d.applied)
      BY <1>2, <1>4, <1>7, <2>1 DEF Good, DevOK, Ordered
    <2>3. \A i, j \in 1..q : i < j => ns[i] < ns[j]
      BY <1>2, <1>3, <1>4 DEF Ordered
    <2>4. \A i \in DOMAIN d.applied, j \in 1..q : d.applied[i] < ns[j]
      BY <1>2, <1>3, <1>4 DEF Ordered
    <2>5. AppliedAll(d, e, ns, q)
      BY <2>2, <2>3, <2>4, AppliedRising
    <2> QED BY <2>1, <2>5
  <1>9. ConfigTypes' /\ DOMAIN pending' = {} /\ Len(pending') = 0
    <2>1. pending' \in Seq([id : Nat, number : Nat]) /\ DOMAIN pending' = {} /\ Len(pending') = 0
      BY <1>1
    <2> QED BY <1>1, <1>2, <2>1 DEF ConfigTypes
  <1>10. Ordered'
    BY <1>1, <1>2, <1>8, <1>9 DEF Ordered, AppliedAll
  <1>11. Accounted'
    <2>1. \A i \in DOMAIN dev'.applied : dev'.applied[i] \in DOMAIN requests'
      BY <1>1, <1>2, <1>3, <1>4, <1>8 DEF Accounted, AppliedAll
    <2>2. \A n \in DOMAIN requests' : (\E i \in DOMAIN dev'.applied : dev'.applied[i] = n) \/ n \in aborted'
      <3> SUFFICES ASSUME NEW n \in DOMAIN requests, n \notin aborted
                   PROVE  \E i \in DOMAIN dev'.applied : dev'.applied[i] = n
        BY <1>1
      <3>1. CASE \E i \in DOMAIN d.applied : d.applied[i] = n
        BY <1>8, <3>1 DEF AppliedAll
      <3>2. CASE \E i \in 1..q : pending[i].number = n
        BY <1>3, <1>4, <1>8, <3>2 DEF AppliedAll
      <3> QED BY <1>2, <1>3, <1>4, <3>1, <3>2 DEF Accounted
    <2> QED BY <1>1, <1>2, <1>9, <2>1, <2>2 DEF Accounted
  <1>12. Coming'
    <2>1. PICK c2 : c2 = Course(requests', dev', Queued')
      OBVIOUS
    <2>2. Len(Queued') = 0
      BY <1>1 DEF Queued
    <2>3. c2[0] = dev'
      BY <2>1, <2>2, CourseWalk DEF Walk
    <2>4. ~StreamChangeAborted => Counts(dev', direction) /\ dev'.children = listed
      <3>1. q \in 0..q
        OBVIOUS
      <3> QED BY <1>2, <1>3, <1>4, <1>5, <3>1 DEF Coming, ComingTo
    <2>5. StreamChangeAborted' <=> StreamChangeAborted
      BY <1>1 DEF StreamChangeAborted
    <2>6. \A i \in 0..0 : i = 0
      OBVIOUS
    <2>7. ~StreamChangeAborted' => ComingTo(c2, 0, direction', listed')
      BY <1>1, <2>3, <2>4, <2>5, <2>6 DEF ComingTo
    <2> QED BY <1>9, <2>1, <2>7 DEF Coming
  <1>13. Good(dev', requests', direction', span') /\ SpansApart(requests', direction', span', listed')
    BY <1>1, <1>2, <1>7
  <1> QED BY <1>9, <1>10, <1>11, <1>12, <1>13 DEF ConfigIInv


\* The HAL answers the earliest of its numbers: the first request waits under
\* it, or none does.
Answered ==
  /\ hal' \in Seq(Nat) /\ Rising(hal') /\ \A i \in DOMAIN hal' : hal'[i] < lastID
  /\ \A i \in DOMAIN pending : pending[i].id = Head(hal) => i = 1
  /\ \A i \in DOMAIN pending : pending[i].id # Head(hal) => \E j \in DOMAIN hal' : pending[i].id = hal'[j]

LEMMA HeadAnswered ==
  ASSUME ConfigTypes, Ordered, hal # <<>>, hal' = Tail(hal)
  PROVE  Answered
  <1>1. PICK h, t, m : h = hal /\ t = Tail(h) /\ m = Len(h)
    OBVIOUS
  <1>2. /\ h \in Seq(Nat) /\ h # <<>> /\ Rising(h) /\ \A i \in DOMAIN h : h[i] < lastID
    BY <1>1 DEF ConfigTypes, Ordered
  <1>3. /\ Head(h) = h[1] /\ t \in Seq(Nat) /\ Len(t) = m - 1
        /\ \A i \in 1..m - 1 : t[i] = h[i + 1]
        /\ m \in Nat /\ m >= 1 /\ DOMAIN h = 1..m /\ DOMAIN t = 1..m - 1
    <2>1. m \in Nat /\ DOMAIN h = 1..m /\ m # 0
      BY <1>1, <1>2, LenProperties, EmptySeq
    <2>2. t \in Seq(Nat) /\ Len(t) = m - 1 /\ \A i \in 1..Len(t) : t[i] = h[i + 1]
      BY <1>1, <1>2, HeadTailProperties
    <2>3. DOMAIN t = 1..Len(t)
      BY <2>2, LenProperties
    <2>4. Head(h) = h[1]
      BY <1>2
    <2> QED BY <2>1, <2>2, <2>3, <2>4
  <1>4. \A i \in 1..m - 1 : i + 1 \in 1..m
    BY <1>3
  <1>5. \A i \in 1..m - 1 : t[i] < lastID
    BY <1>2, <1>3, <1>4
  <1>6. Rising(t)
    <2> SUFFICES ASSUME NEW i \in 1..m - 1, NEW j \in 1..m - 1, i < j PROVE t[i] < t[j]
      BY <1>3 DEF Rising
    <2>1. h[i + 1] < h[j + 1]
      <3>1. i + 1 < j + 1
        BY <1>3
      <3> QED BY <1>2, <1>3, <1>4, <3>1 DEF Rising
    <2> QED BY <1>3, <2>1
  <1>7. ASSUME NEW i \in DOMAIN pending, pending[i].id # h[1]
        PROVE  \E j \in DOMAIN t : pending[i].id = t[j]
    <2>1. PICK j \in 1..m : pending[i].id = h[j]
      BY <1>1, <1>3 DEF Ordered
    <2>2. j - 1 \in 1..m - 1 /\ j - 1 + 1 = j
      BY <1>3, <1>7, <2>1
    <2> QED BY <1>3, <2>1, <2>2
  <1>8. ASSUME NEW i \in DOMAIN pending, pending[i].id = h[1] PROVE i = 1
    <2> SUFFICES ASSUME i # 1 PROVE FALSE
      OBVIOUS
    <2>1. /\ DOMAIN pending = 1..Len(pending) /\ Len(pending) \in Nat
          /\ \A j \in 1..Len(pending) : pending[j].id \in Nat
      BY QueuedFacts DEF ConfigTypes
    <2>2. 1 \in DOMAIN pending /\ 1 < i
      BY <2>1
    <2>3. pending[1].id < h[1]
      BY <1>8, <2>2 DEF Ordered
    <2>4. PICK j \in 1..m : pending[1].id = h[j]
      BY <1>1, <1>3, <2>2 DEF Ordered
    <2>5. j = 1 \/ h[1] < h[j]
      <3>1. 1 \in 1..m /\ (j = 1 \/ 1 < j)
        BY <1>3
      <3> QED BY <1>2, <1>3, <3>1 DEF Rising
    <2>6. h[1] \in Nat /\ h[j] \in Nat
      <3>1. 1 \in 1..m
        BY <1>3
      <3> QED BY <1>2, <1>3, <3>1, ElementOfSeq
    <2> QED BY <2>3, <2>4, <2>5, <2>6
  <1> QED BY <1>1, <1>2, <1>3, <1>5, <1>6, <1>7, <1>8 DEF Answered

\* The first request waits no longer.
FirstRemoved(q) ==
  /\ Len(pending) = q + 1 /\ DOMAIN pending = 1..q + 1
  /\ Len(Queued) = q + 1 /\ \A i \in 1..q + 1 : Queued[i] = pending[i].number /\ Queued[i] \in Nat
  /\ pending' \in Seq([id : Nat, number : Nat])
  /\ Len(pending') = q /\ DOMAIN pending' = 1..q
  /\ Len(Queued') = q
  /\ \A i \in 1..q : /\ pending'[i] = pending[i + 1]
                     /\ Queued'[i] = Queued[i + 1]
                     /\ i + 1 \in 1..q + 1

LEMMA RemovedFirst ==
  ASSUME ConfigTypes, 1 \in DOMAIN pending, pending' = RemoveAt(pending, 1)
  PROVE  \E q \in Nat : FirstRemoved(q)
  <1>1. PICK p, t, n : p = pending /\ t = Tail(p) /\ n = Len(p)
    OBVIOUS
  <1>2. PICK S : S = [id : Nat, number : Nat]
    OBVIOUS
  <1>3. p \in Seq(S) /\ DOMAIN p = 1..n /\ n \in Nat /\ n >= 1 /\ p # <<>>
    <2>1. p \in Seq(S) /\ DOMAIN p = 1..n /\ n \in Nat
      BY <1>1, <1>2, LenProperties DEF ConfigTypes
    <2> QED BY <1>1, <2>1
  <1>4. t \in Seq(S) /\ Len(t) = n - 1 /\ DOMAIN t = 1..n - 1 /\ \A i \in 1..n - 1 : t[i] = p[i + 1]
    <2>1. t \in Seq(S) /\ Len(t) = n - 1 /\ \A i \in 1..Len(t) : t[i] = p[i + 1]
      BY <1>1, <1>3, HeadTailProperties
    <2> QED BY <2>1, LenProperties
  <1>5. RemoveAt(p, 1) = t
    <2>1. SubSeq(p, 1, 1 - 1) = <<>>
      BY <1>3
    <2>2. SubSeq(p, 1 + 1, Len(p)) = t
      BY <1>1, <1>3, TailIsSubSeq
    <2>3. <<>> \o t = t
      BY <1>4, ConcatEmptySeq
    <2> QED BY <2>1, <2>2, <2>3 DEF RemoveAt
  <1>6. PICK q \in Nat : n = q + 1 /\ n - 1 = q
    <2>1. n - 1 \in Nat /\ n = n - 1 + 1
      BY <1>3
    <2> QED BY <2>1
  <1>7. /\ pending' \in Seq([id : Nat, number : Nat]) /\ Len(pending') = q /\ DOMAIN pending' = 1..q
        /\ \A i \in 1..q : pending'[i] = pending[i + 1] /\ i + 1 \in 1..q + 1
    <2>1. pending' = t
      BY <1>1, <1>5
    <2>2. t \in Seq(S) /\ Len(t) = q /\ DOMAIN t = 1..q /\ \A i \in 1..q : t[i] = p[i + 1]
      BY <1>4, <1>6
    <2>3. \A i \in 1..q : i + 1 \in 1..q + 1
      BY <1>6
    <2> QED BY <1>1, <1>2, <2>1, <2>2, <2>3
  <1>8. /\ Len(pending) = q + 1 /\ DOMAIN pending = 1..q + 1
        /\ Len(Queued) = q + 1 /\ \A i \in 1..q + 1 : Queued[i] = pending[i].number /\ Queued[i] \in Nat
    BY <1>1, <1>6, QueuedFacts DEF ConfigTypes
  <1>9. Len(Queued') = q /\ \A i \in 1..q : Queued'[i] = pending'[i].number
    <2>1. Queued' = [i \in 1..q |-> pending'[i].number]
      BY <1>7 DEF Queued
    <2> QED BY <2>1
  <1>10. \A i \in 1..q : Queued'[i] = Queued[i + 1]
    BY <1>7, <1>8, <1>9
  <1> QED BY <1>7, <1>8, <1>9, <1>10 DEF FirstRemoved

\* The children on the way to the listed ones, without the first function.
LEMMA ShiftComing ==
  ASSUME ConfigIInv, NEW q \in Nat, FirstRemoved(q), NEW d1, Good(d1, requests, direction, span),
         NEW first, first = Run(dev, pending[1].number, requests[pending[1].number]),
         Core(d1) = Core(first), ~StreamChangeAborted
  PROVE  ComingTo(Course(requests, d1, Queued'), q, direction, listed)
  <1>1. PICK dirs, spans, f, d, ns, ns1, list :
          /\ dirs = direction /\ spans = span /\ f = requests /\ d = dev
          /\ ns = Queued /\ ns1 = Queued' /\ list = listed
    OBVIOUS
  <1>2. PICK c, c1 : c = Course(f, d, ns) /\ c1 = Course(f, d1, ns1)
    OBVIOUS
  <1>3. dirs \in DirectionMaps /\ AllLegal(f, dirs) /\ Good(d, f, dirs, spans) /\ Good(d1, f, dirs, spans)
    BY <1>1 DEF ConfigIInv, ConfigTypes
  <1>4. Len(ns) = q + 1 /\ Len(ns1) = q /\ \A i \in 1..q : ns1[i] = ns[i + 1]
    BY <1>1 DEF FirstRemoved
  <1>5. Numbers(ns, f)
    BY <1>1 DEF Numbers, FirstRemoved, ConfigIInv, Accounted
  <1>6. Len(ns) \in Nat /\ Len(ns1) \in Nat
    BY <1>4
  <1>7. Walk(c, f, d, ns) /\ Walk(c1, f, d1, ns1)
    BY <1>2, <1>6, CourseWalk
  <1>8. Core(d1) = Core(c[1])
    <2>1. 1 \in 1..Len(ns) /\ 1 - 1 = 0 /\ 1 \in 1..q + 1
      BY <1>4
    <2>2. c[1] = Run(c[0], ns[1], f[ns[1]]) /\ c[0] = d
      BY <1>7, <2>1 DEF Walk
    <2>3. ns[1] = pending[1].number
      BY <1>1, <2>1 DEF FirstRemoved
    <2>4. c[1] = first
      BY <1>1, <2>2, <2>3
    <2> QED BY <2>4
  <1>9. ComingTo(c, q + 1, dirs, list)
    BY <1>1, <1>2 DEF ConfigIInv, Coming, FirstRemoved
  <1>10. ComingTo(c1, q, dirs, list)
    BY <1>3, <1>4, <1>5, <1>7, <1>8, <1>9, ShiftWalk
  <1> QED BY <1>1, <1>2, <1>10


\* What is left to wait.
LEMMA RestWaits ==
  ASSUME ConfigIInv, NEW q \in Nat, FirstRemoved(q), Answered, pending[1].id = Head(hal)
  PROVE  /\ \A i, j \in 1..q : i < j => pending'[i].number < pending'[j].number
                                         /\ pending'[i].id < pending'[j].id
         /\ \A i \in 1..q : \E j \in DOMAIN hal' : pending'[i].id = hal'[j]
         /\ \A i \in 1..q : pending[1].number < pending'[i].number
         /\ \A i \in DOMAIN dev.applied, j \in 1..q : dev.applied[i] < pending'[j].number
         /\ \A i \in DOMAIN dev.applied : dev.applied[i] < pending[1].number
         /\ \A i \in 1..q : pending'[i].number \in DOMAIN requests
         /\ \A i \in 1..q + 1 : i = 1 \/ (i - 1 \in 1..q /\ pending[i] = pending'[i - 1])
         /\ pending[1].number \in DOMAIN requests /\ pending[1].number \in Nat
         /\ host /\ owned
  <1>1. /\ DOMAIN pending = 1..q + 1 /\ 1 \in 1..q + 1
        /\ \A i \in 1..q : pending'[i] = pending[i + 1] /\ i + 1 \in 1..q + 1
    BY DEF FirstRemoved
  <1>2. ConfigTypes /\ Ordered /\ Accounted
    BY DEF ConfigIInv
  <1>3. ASSUME NEW i \in 1..q, NEW j \in 1..q, i < j
        PROVE  pending'[i].number < pending'[j].number /\ pending'[i].id < pending'[j].id
    <2>1. i + 1 < j + 1
      BY <1>3
    <2>2. pending[i + 1].number < pending[j + 1].number /\ pending[i + 1].id < pending[j + 1].id
      BY <1>1, <1>2, <2>1 DEF Ordered
    <2> QED BY <1>1, <2>2
  <1>4. ASSUME NEW i \in 1..q
        PROVE  /\ pending[1].number < pending'[i].number
               /\ \E j \in DOMAIN hal' : pending'[i].id = hal'[j]
               /\ \A j \in DOMAIN dev.applied : dev.applied[j] < pending'[i].number
               /\ pending'[i].number \in DOMAIN requests
    <2>1. 1 < i + 1 /\ i + 1 # 1
      OBVIOUS
    <2>2. pending[1].number < pending[i + 1].number
      BY <1>1, <1>2, <2>1 DEF Ordered
    <2>3. pending[i + 1].id # Head(hal)
      BY <1>1, <2>1 DEF Answered
    <2>4. \E j \in DOMAIN hal' : pending[i + 1].id = hal'[j]
      BY <1>1, <2>3 DEF Answered
    <2> QED BY <1>1, <1>2, <2>2, <2>4 DEF Ordered, Accounted
  <1>5. ASSUME NEW i \in 1..q + 1 PROVE i = 1 \/ (i - 1 \in 1..q /\ pending[i] = pending'[i - 1])
    <2>1. i = 1 \/ (i - 1 \in 1..q /\ i - 1 + 1 = i)
      OBVIOUS
    <2> QED BY <1>1, <2>1
  <1>6. /\ pending[1].number \in DOMAIN requests
        /\ \A i \in DOMAIN dev.applied : dev.applied[i] < pending[1].number
        /\ host /\ owned
    BY <1>1, <1>2 DEF Ordered, Accounted
  <1>7. pending[1].number \in Nat
    BY <1>1 DEF FirstRemoved
  <1> QED BY <1>3, <1>4, <1>5, <1>6, <1>7

LEMMA PerformFirstInv ==
  ASSUME ConfigIInv, NEW q \in Nat, FirstRemoved(q), Answered, pending[1].id = Head(hal),
         dev' = Run(dev, pending[1].number, requests[pending[1].number]),
         UNCHANGED <<host, owned, direction, span, listed, lastID, requests, aborted>>
  PROVE  ConfigIInv'
  <1>1. /\ ConfigTypes /\ Ordered /\ Accounted /\ Good(dev, requests, direction, span)
        /\ SpansApart(requests, direction, span, listed)
    BY DEF ConfigIInv
  <1>2. PICK n : n = pending[1].number
    OBVIOUS
  <1>3. /\ \A i, j \in 1..q : i < j => pending'[i].number < pending'[j].number
                                         /\ pending'[i].id < pending'[j].id
        /\ \A i \in 1..q : \E j \in DOMAIN hal' : pending'[i].id = hal'[j]
        /\ \A i \in 1..q : n < pending'[i].number
        /\ \A i \in DOMAIN dev.applied, j \in 1..q : dev.applied[i] < pending'[j].number
        /\ \A i \in DOMAIN dev.applied : dev.applied[i] < n
        /\ \A i \in 1..q : pending'[i].number \in DOMAIN requests
        /\ \A i \in 1..q + 1 : i = 1 \/ (i - 1 \in 1..q /\ pending[i] = pending'[i - 1])
        /\ n \in DOMAIN requests /\ n \in Nat
        /\ host /\ owned
    BY <1>2, RestWaits
  <1>4. GoodStep(dev, requests, direction, span, n, dev')
    <2>1. PICK dirs, spans, functions, d, e :
            /\ dirs = direction /\ spans = span /\ functions = requests /\ d = dev
            /\ e = Run(d, n, functions[n])
      OBVIOUS
    <2>2. /\ dirs \in [Streams -> Directions \union {"none"}] /\ AllLegal(functions, dirs)
          /\ Good(d, functions, dirs, spans) /\ n \in DOMAIN functions
      BY <1>1, <1>3, <2>1 DEF ConfigTypes, DirectionMaps
    <2>3. GoodStep(d, functions, dirs, spans, n, Run(d, n, functions[n]))
      BY <1>3, <2>2, RunGood
    <2> QED BY <1>2, <2>1, <2>3
  <1>5. Good(dev', requests, direction, span) /\ dev'.applied = Append(dev.applied, n)
    BY <1>4 DEF GoodStep
  <1>6. PICK a, b, m : /\ a = dev.applied /\ b = dev'.applied /\ m = Len(a) /\ m \in Nat
                       /\ DOMAIN a = 1..m /\ DOMAIN b = 1..m + 1
                       /\ b[m + 1] = n /\ \A i \in 1..m : b[i] = a[i]
    <2>1. PICK a, b : a = dev.applied /\ b = dev'.applied
      OBVIOUS
    <2>2. a \in Seq(Nat) /\ b = Append(a, n)
      BY <1>1, <1>5, <2>1 DEF Good, DevOK
    <2>3. Len(a) \in Nat /\ DOMAIN a = 1..Len(a)
      BY <2>2, LenProperties
    <2>4. DOMAIN b = 1..Len(a) + 1 /\ b[Len(a) + 1] = n /\ \A i \in 1..Len(a) : b[i] = a[i]
      BY <1>3, <2>2, <2>3, AppendProperties, LenProperties
    <2> QED BY <2>1, <2>3, <2>4
  <1>7. \A i \in 1..m + 1 : i \in 1..m \/ i = m + 1
    BY <1>6
  <1>8. Ordered'
    <2>1. Rising(b)
      <3> SUFFICES ASSUME NEW i \in 1..m + 1, NEW j \in 1..m + 1, i < j PROVE b[i] < b[j]
        BY <1>6 DEF Rising
      <3>1. i \in 1..m
        BY <1>6
      <3>2. CASE j \in 1..m
        BY <1>1, <1>6, <3>1, <3>2 DEF Ordered, Rising
      <3>3. CASE j = m + 1
        BY <1>3, <1>6, <3>1, <3>3
      <3> QED BY <1>7, <3>2, <3>3
    <2>2. \A i \in 1..m + 1, j \in 1..q : b[i] < pending'[j].number
      BY <1>3, <1>6, <1>7
    <2>3. DOMAIN pending' = 1..q
      BY DEF FirstRemoved
    <2>4. /\ Rising(dev'.applied)
          /\ \A i \in DOMAIN dev'.applied, j \in DOMAIN pending' : dev'.applied[i] < pending'[j].number
      BY <1>6, <2>1, <2>2, <2>3
    <2>5. Rising(hal') /\ (\A i \in DOMAIN hal' : hal'[i] < lastID)
      BY DEF Answered
    <2> QED BY <1>1, <1>3, <2>3, <2>4, <2>5 DEF Ordered
  <1>9. Accounted'
    <2>1. \A i \in 1..m + 1 : b[i] \in DOMAIN requests
      BY <1>1, <1>3, <1>6, <1>7 DEF Accounted
    <2>2. DOMAIN pending' = 1..q
      BY DEF FirstRemoved
    <2>3. ASSUME NEW k \in DOMAIN requests, k \notin aborted
          PROVE  (\E i \in 1..m + 1 : b[i] = k) \/ \E i \in 1..q : pending'[i].number = k
      <3>1. CASE \E i \in 1..m : a[i] = k
        BY <1>6, <3>1
      <3>2. CASE \E i \in 1..q + 1 : pending[i].number = k
        <4>1. PICK i \in 1..q + 1 : pending[i].number = k
          BY <3>2
        <4>2. CASE i = 1
          <5>1. m + 1 \in 1..m + 1
            BY <1>6
          <5> QED BY <1>2, <1>6, <4>1, <4>2, <5>1
        <4> QED BY <1>3, <4>1, <4>2
      <3>3. DOMAIN pending = 1..q + 1
        BY DEF FirstRemoved
      <3> QED BY <1>1, <1>6, <2>3, <3>1, <3>2, <3>3 DEF Accounted
    <2> QED BY <1>1, <1>3, <1>6, <2>1, <2>2, <2>3 DEF Accounted
  <1>10. Coming'
    <2>1. StreamChangeAborted' <=> StreamChangeAborted
      BY DEF StreamChangeAborted
    <2>2. ASSUME ~StreamChangeAborted
          PROVE  ComingTo(Course(requests, dev', Queued'), q, direction, listed)
      <3>1. PICK d1 : d1 = dev'
        OBVIOUS
      <3>2. Good(d1, requests, direction, span)
        BY <1>5, <3>1
      <3>3. PICK first : first = Run(dev, pending[1].number, requests[pending[1].number])
        OBVIOUS
      <3>4. Core(d1) = Core(first)
        BY <3>1, <3>3
      <3>5. ComingTo(Course(requests, d1, Queued'), q, direction, listed)
        BY <2>2, <3>2, <3>3, <3>4, ShiftComing
      <3> QED BY <3>1, <3>5
    <2>3. Len(pending') = q
      BY DEF FirstRemoved
    <2> QED BY <2>1, <2>2, <2>3 DEF Coming
  <1>11. ConfigTypes'
    BY <1>1 DEF ConfigTypes, FirstRemoved, Answered
  <1> QED BY <1>1, <1>5, <1>8, <1>9, <1>10, <1>11 DEF ConfigIInv

LEMMA AbortFirstInv ==
  ASSUME ConfigIInv, NEW q \in Nat, FirstRemoved(q), Answered, pending[1].id = Head(hal),
         aborted' = aborted \union {pending[1].number},
         UNCHANGED <<host, owned, dev, direction, span, listed, lastID, requests>>
  PROVE  ConfigIInv'
  <1>1. /\ ConfigTypes /\ Ordered /\ Accounted /\ Good(dev, requests, direction, span)
        /\ SpansApart(requests, direction, span, listed)
    BY DEF ConfigIInv
  <1>2. PICK n : n = pending[1].number
    OBVIOUS
  <1>3. /\ \A i, j \in 1..q : i < j => pending'[i].number < pending'[j].number
                                         /\ pending'[i].id < pending'[j].id
        /\ \A i \in 1..q : \E j \in DOMAIN hal' : pending'[i].id = hal'[j]
        /\ \A i \in DOMAIN dev.applied, j \in 1..q : dev.applied[i] < pending'[j].number
        /\ \A i \in 1..q : pending'[i].number \in DOMAIN requests
        /\ \A i \in 1..q + 1 : i = 1 \/ (i - 1 \in 1..q /\ pending[i] = pending'[i - 1])
        /\ n \in DOMAIN requests /\ n \in Nat
        /\ host /\ owned
    BY <1>2, RestWaits
  <1>4. DOMAIN pending' = 1..q /\ Len(pending') = q /\ DOMAIN pending = 1..q + 1
    BY DEF FirstRemoved
  <1>5. Ordered'
    <2>1. Rising(hal') /\ (\A i \in DOMAIN hal' : hal'[i] < lastID)
      BY DEF Answered
    <2> QED BY <1>1, <1>3, <1>4, <2>1 DEF Ordered
  <1>6. Accounted'
    <2>1. ASSUME NEW k \in DOMAIN requests, k \notin aborted, k # n,
                 ~\E i \in DOMAIN dev.applied : dev.applied[i] = k
          PROVE  \E i \in 1..q : pending'[i].number = k
      <3>1. PICK i \in 1..q + 1 : pending[i].number = k
        BY <1>1, <1>4, <2>1 DEF Accounted
      <3>2. i # 1
        BY <1>2, <2>1, <3>1
      <3> QED BY <1>3, <3>1, <3>2
    <2>2. aborted' \subseteq DOMAIN requests /\ aborted' = aborted \union {n}
      BY <1>1, <1>2, <1>3 DEF Accounted
    <2> QED BY <1>1, <1>3, <1>4, <2>1, <2>2 DEF Accounted
  <1>7. Coming'
    <2>1. ASSUME ~StreamChangeAborted'
          PROVE  ComingTo(Course(requests, dev', Queued'), q, direction, listed)
      <3>1. ~StreamChangeAborted
        BY <2>1 DEF StreamChangeAborted
      <3>2. PICK d, r, first : d = dev /\ r = requests[n] /\ first = Run(d, n, r)
        OBVIOUS
      <3>3. IsAssign(r, direction) \/ IsRateChange(r)
        <4>1. Legal(r, direction)
          BY <1>1, <1>3, <3>2 DEF ConfigTypes, AllLegal
        <4>2. \A i \in DOMAIN r : r[i].kind \notin {"attach", "detach"}
          BY <1>2, <2>1, <3>2 DEF StreamChangeAborted
        <4>3. ASSUME NEW x, NEW where, r = <<Attach(x, where)>> \/ r = <<Detach(x, where)>>
              PROVE  FALSE
          <5>1. 1 \in DOMAIN r /\ r[1].kind \in {"attach", "detach"}
            BY <4>3 DEF Attach, Detach
          <5> QED BY <4>2, <5>1
        <4> QED BY <4>1, <4>3 DEF Legal
      <3>4. DevOK(d)
        BY <1>1, <3>2 DEF Good
      <3>5. Core(d) = Core(first)
        <4>1. CASE IsAssign(r, direction)
          <5>1. PICK o \in Objects : \E f \in FieldsOf(o) : \E v \in ValuesOf(f) : r = <<Assign(o, f, v)>>
            BY <4>1 DEF IsAssign
          <5>2. PICK f \in FieldsOf(o) : \E v \in ValuesOf(f) : r = <<Assign(o, f, v)>>
            BY <5>1
          <5>3. PICK v \in ValuesOf(f) : r = <<Assign(o, f, v)>>
            BY <5>2
          <5>4. Core(first) = Core(d)
            BY <1>3, <3>2, <3>4, <5>3, RunAssign
          <5> QED BY <5>4
        <4>2. CASE IsRateChange(r)
          <5>1. PICK list \in Lists, v \in Values :
                  r = <<Set(Device, "availableSampleRates", list), Set(Device, "nominalSampleRate", v)>>
            BY <4>2 DEF IsRateChange
          <5>2. Core(first) = Core(d)
            BY <1>3, <3>2, <3>4, <5>1, RunRates
          <5> QED BY <5>2
        <4> QED BY <3>3, <4>1, <4>2
      <3>6. Good(d, requests, direction, span)
        BY <1>1, <3>2
      <3>7. first = Run(dev, pending[1].number, requests[pending[1].number])
        BY <1>2, <3>2
      <3>8. ComingTo(Course(requests, d, Queued'), q, direction, listed)
        BY <3>1, <3>5, <3>6, <3>7, ShiftComing
      <3> QED BY <3>2, <3>8
    <2> QED BY <1>4, <2>1 DEF Coming
  <1>8. ConfigTypes'
    BY <1>1 DEF ConfigTypes, FirstRemoved, Answered
  <1> QED BY <1>1, <1>5, <1>6, <1>7, <1>8 DEF ConfigIInv

\* An answer that finds nothing: the request ran when the device was withdrawn.
LEMMA LateAnswerInv ==
  ASSUME ConfigIInv, Answered, \A i \in DOMAIN pending : pending[i].id # Head(hal),
         UNCHANGED <<host, owned, dev, direction, span, listed, pending, lastID, requests, aborted>>
  PROVE  ConfigIInv'
  <1>1. ConfigTypes' /\ SpansApart(requests', direction', span', listed')
    BY DEF ConfigIInv, ConfigTypes, Answered
  <1>2. Ordered' /\ Accounted'
    BY DEF ConfigIInv, Ordered, Accounted, Answered
  <1>3. Coming'
    BY DEF ConfigIInv, Coming, Queued, StreamChangeAborted
  <1> QED BY <1>1, <1>2, <1>3 DEF ConfigIInv

LEMMA HALAnswersInv ==
  ASSUME ConfigIInv, HALAnswers
  PROVE  ConfigIInv'
  <1>1. Answered /\ ConfigTypes
    BY HeadAnswered DEF HALAnswers, ConfigIInv
  <1>2. CASE PerformConfigurationChange(Head(hal))
    <2>1. CASE \E i \in DOMAIN pending :
                 /\ pending[i].id = Head(hal)
                 /\ dev' = Run(dev, pending[i].number, requests[pending[i].number])
                 /\ pending' = RemoveAt(pending, i)
      <3>1. /\ 1 \in DOMAIN pending /\ pending[1].id = Head(hal)
            /\ dev' = Run(dev, pending[1].number, requests[pending[1].number])
            /\ pending' = RemoveAt(pending, 1)
        BY <1>1, <2>1 DEF Answered
      <3>2. PICK q \in Nat : FirstRemoved(q)
        BY <1>1, <3>1, RemovedFirst
      <3>3. UNCHANGED <<host, owned, direction, span, listed, lastID, requests, aborted>>
        BY <1>2 DEF PerformConfigurationChange
      <3> QED BY <1>1, <3>1, <3>2, <3>3, PerformFirstInv
    <2>2. CASE (\A i \in DOMAIN pending : pending[i].id # Head(hal)) /\ UNCHANGED <<dev, pending>>
      BY <1>1, <1>2, <2>2, LateAnswerInv DEF PerformConfigurationChange
    <2> QED BY <1>2, <2>1, <2>2 DEF PerformConfigurationChange
  <1>3. CASE AbortConfigurationChange(Head(hal))
    <2>1. CASE \E i \in DOMAIN pending :
                 /\ pending[i].id = Head(hal)
                 /\ aborted' = aborted \union {pending[i].number}
                 /\ pending' = RemoveAt(pending, i)
      <3>1. /\ 1 \in DOMAIN pending /\ pending[1].id = Head(hal)
            /\ aborted' = aborted \union {pending[1].number}
            /\ pending' = RemoveAt(pending, 1)
        BY <1>1, <2>1 DEF Answered
      <3>2. PICK q \in Nat : FirstRemoved(q)
        BY <1>1, <3>1, RemovedFirst
      <3>3. UNCHANGED <<host, owned, dev, direction, span, listed, lastID, requests>>
        BY <1>3 DEF AbortConfigurationChange
      <3> QED BY <1>1, <3>1, <3>2, <3>3, AbortFirstInv
    <2>2. CASE (\A i \in DOMAIN pending : pending[i].id # Head(hal)) /\ UNCHANGED <<aborted, pending>>
      BY <1>1, <1>3, <2>2, LateAnswerInv DEF AbortConfigurationChange
    <2> QED BY <1>3, <2>1, <2>2 DEF AbortConfigurationChange
  <1> QED BY <1>2, <1>3 DEF HALAnswers


-----------------------------------------------------------------------------
\* The invariant holds

LEMMA ConfigInit == Init => ConfigIInv
  <1> SUFFICES ASSUME Init PROVE ConfigIInv
    OBVIOUS
  <1>1. PICK c : c = [object \in Objects |-> [field \in FieldsOf(object) |->
                        IF field \in OptionalFields THEN NotSet ELSE ChannelCount]]
    OBVIOUS
  <1>2. dev = [cfg |-> c, children |-> {}, inputs |-> 0, outputs |-> 0, applied |-> <<>>]
    BY <1>1 DEF Init, Objects
  <1>3. /\ host = FALSE /\ owned = FALSE /\ direction = [s \in Streams |-> "none"]
        /\ span = [s \in Streams |-> [first |-> 0, count |-> 0]]
        /\ listed = {} /\ pending = <<>> /\ lastID = 0 /\ hal = <<>> /\ requests = <<>> /\ aborted = {}
    BY DEF Init
  <1>4. ConfigTypes
    <2>1. direction \in DirectionMaps /\ span \in [Streams -> [first : Nat, count : Values \union {0}]]
      BY <1>3 DEF DirectionMaps
    <2>2. requests \in Seq(AllFunctions) /\ AllLegal(requests, direction)
      BY <1>3 DEF AllLegal
    <2>3. pending \in Seq([id : Nat, number : Nat]) /\ hal \in Seq(Nat)
      BY <1>3
    <2> QED BY <1>3, <2>1, <2>2, <2>3 DEF ConfigTypes
  <1>5. Word \in Nat \ {0} /\ MaxRequests \in Nat
    <2>1. Cardinality(Streams) \in Nat /\ Word \in Nat /\ Cardinality(Streams) < Word /\ MaxRequests \in Nat
      BY ConfigurationAssumption, FS_CardinalityType DEF ConfigurationAssumption
    <2> QED BY <2>1
  <1>6. DevOK(dev)
    <2>1. CfgOK(c)
      <3>1. \A o \in Objects : \A f \in FieldsOf(o) : c[o][f] \in Stored(f)
        <4> SUFFICES ASSUME NEW o \in Objects, NEW f \in FieldsOf(o) PROVE c[o][f] \in Stored(f)
          OBVIOUS
        <4>1. c[o][f] = IF f \in OptionalFields THEN NotSet ELSE ChannelCount
          BY <1>1
        <4>2. f \notin OptionalFields => f \notin ListFields
          BY DEF OptionalFields
        <4> QED BY <4>1, <4>2, ConfigurationAssumption DEF ConfigurationAssumption, Stored, ValuesOf
      <3>2. c = [o \in Objects |-> [f \in FieldsOf(o) |-> c[o][f]]]
        BY <1>1
      <3> QED BY <3>1, <3>2 DEF CfgOK
    <2>2. <<>> \in Seq(Nat) /\ 0 \in 0..Word - 1
      BY <1>5
    <2> QED BY <1>2, <2>1, <2>2 DEF DevOK
  <1>7. Good(dev, requests, direction, span)
    <2>1. dev.children = {} /\ dev.applied = <<>> /\ DOMAIN dev.applied = {}
      BY <1>2
    <2>2. Settled(dev, requests)
      BY <2>1 DEF Settled
    <2>3. FormatsKept(dev, requests, direction, span)
      BY <1>3 DEF FormatsKept
    <2> QED BY <1>6, <2>1, <2>2, <2>3 DEF Good, Placed
  <1>8. Ordered
    <2>1. DOMAIN dev.applied = {} /\ DOMAIN pending = {} /\ DOMAIN hal = {} /\ Len(requests) = 0
      BY <1>2, <1>3
    <2> QED BY <1>3, <1>5, <2>1 DEF Ordered, Rising
  <1>9. Accounted
    <2>1. DOMAIN dev.applied = {} /\ DOMAIN pending = {} /\ DOMAIN requests = {}
      BY <1>2, <1>3
    <2> QED BY <1>3, <2>1 DEF Accounted
  <1>10. Coming
    <2>1. PICK c1 : c1 = Course(requests, dev, Queued)
      OBVIOUS
    <2>2. Len(Queued) = 0 /\ Len(pending) = 0
      BY <1>3 DEF Queued
    <2>3. c1[0] = dev
      BY <2>1, <2>2, CourseWalk DEF Walk
    <2>4. Counts(dev, direction) /\ dev.children = listed
      <3>1. AttachedTo(dev, direction, "input") = {} /\ AttachedTo(dev, direction, "output") = {}
        BY <1>2 DEF AttachedTo
      <3> QED BY <1>2, <1>3, <3>1, FS_EmptySet DEF Counts
    <2>5. \A i \in 0..0 : i = 0
      OBVIOUS
    <2>6. ComingTo(c1, 0, direction, listed)
      BY <2>3, <2>4, <2>5 DEF ComingTo
    <2> QED BY <2>1, <2>2, <2>6 DEF Coming
  <1>11. SpansApart(requests, direction, span, listed)
    BY <1>3 DEF SpansApart
  <1> QED BY <1>4, <1>7, <1>8, <1>9, <1>10, <1>11 DEF ConfigIInv

LEMMA SetDeviceInv == ConfigIInv /\ SetDevice => ConfigIInv'
  <1> SUFFICES ASSUME ConfigIInv, SetDevice PROVE ConfigIInv'
    OBVIOUS
  <1>1. /\ Device \in Objects /\ FieldsOf(Device) = DeviceFields
        /\ ValuesOf("availableSampleRates") = Lists
        /\ \A f \in DeviceFields \ {"availableSampleRates"} : ValuesOf(f) = Values
    BY DEF Objects, FieldsOf, ValuesOf, DeviceFields, ListFields
  <1>2. ASSUME NEW v \in Values, NEW f \in DeviceFields \ {"availableSampleRates"}, SetAsync(Device, f, v)
        PROVE  ConfigIInv'
    BY <1>1, <1>2, SetAsyncInv
  <1>3. ASSUME NEW list \in Lists, SetAsync(Device, "availableSampleRates", list)
        PROVE  ConfigIInv'
    <2>1. "availableSampleRates" \in FieldsOf(Device) /\ list \in ValuesOf("availableSampleRates")
      BY <1>1 DEF DeviceFields
    <2> QED BY <1>1, <1>3, <2>1, SetAsyncInv
  <1>4. ASSUME NEW v \in Values, NEW list \in Lists, ChangeRates(list, v)
        PROVE  ConfigIInv'
    BY <1>4, ChangeRatesInv
  <1>5. {"latency", "safetyOffset", "zeroTimeStampPeriod", "nominalSampleRate", "stereo",
         "channelCount", "channels", "layout"} \subseteq DeviceFields \ {"availableSampleRates"}
    BY DEF DeviceFields
  <1> QED BY <1>2, <1>3, <1>4, <1>5
          DEF SetDevice, SetLatencyAsync, SetSafetyOffsetAsync, SetZeroTimeStampPeriodAsync,
              SetNominalSampleRateAsync, SetAvailableSampleRatesAsync,
              SetPreferredChannelsForStereoAsync, SetPreferredChannelCountAsync,
              SetPreferredChannelsAsync, SetPreferredChannelLayoutAsync

LEMMA SetStreamInv == ConfigIInv /\ SetStream => ConfigIInv'
  <1> SUFFICES ASSUME ConfigIInv, NEW s \in Streams,
                      \/ \E v \in Values : \/ SetStreamLatencyAsync(s, v)
                                           \/ SetPhysicalFormatAsync(s, v)
                                           \/ SetVirtualFormatAsync(s, v)
                      \/ \E list \in Lists : \/ SetAvailablePhysicalFormatsAsync(s, list)
                                             \/ SetAvailableVirtualFormatsAsync(s, list)
               PROVE  ConfigIInv'
    BY DEF SetStream
  <1>1. s \in Objects /\ FieldsOf(s) = StreamFields
    BY ConfigurationAssumption DEF ConfigurationAssumption, Children, Objects, FieldsOf
  <1>2. /\ {"streamLatency", "physicalFormat", "virtualFormat"} \subseteq StreamFields
        /\ {"availablePhysicalFormats", "availableVirtualFormats"} \subseteq StreamFields
        /\ \A f \in {"streamLatency", "physicalFormat", "virtualFormat"} : ValuesOf(f) = Values
        /\ \A f \in {"availablePhysicalFormats", "availableVirtualFormats"} : ValuesOf(f) = Lists
    BY DEF StreamFields, ValuesOf, ListFields
  <1>3. ASSUME NEW v \in Values, NEW f \in {"streamLatency", "physicalFormat", "virtualFormat"},
               SetAsync(s, f, v)
        PROVE  ConfigIInv'
    <2>1. f \in FieldsOf(s) /\ v \in ValuesOf(f)
      BY <1>1, <1>2
    <2> QED BY <1>1, <1>3, <2>1, SetAsyncInv
  <1>4. ASSUME NEW list \in Lists, NEW f \in {"availablePhysicalFormats", "availableVirtualFormats"},
               SetAsync(s, f, list)
        PROVE  ConfigIInv'
    <2>1. f \in FieldsOf(s) /\ list \in ValuesOf(f)
      BY <1>1, <1>2
    <2> QED BY <1>1, <1>4, <2>1, SetAsyncInv
  <1> QED BY <1>3, <1>4 DEF SetStreamLatencyAsync, SetPhysicalFormatAsync, SetVirtualFormatAsync,
                            SetAvailablePhysicalFormatsAsync, SetAvailableVirtualFormatsAsync

LEMMA AddOrRemoveInv == ConfigIInv /\ AddOrRemove => ConfigIInv'
  <1> SUFFICES ASSUME ConfigIInv, AddOrRemove PROVE ConfigIInv'
    OBVIOUS
  <1>1. CASE \E s \in Streams, dir \in Directions :
               \/ AddStreamAsync(s, dir)
               \/ \E v \in VolumeControls, m \in MuteControls : AddStreamWithControlsAsync(s, dir, v, m)
    BY <1>1, AddStreamInv, AddStreamWithControlsInv
  <1>2. CASE \E s \in Streams : RemoveStreamAsync(s)
    BY <1>2, RemoveStreamInv
  <1>3. CASE \E x \in Controls : AddControlAsync(x) \/ RemoveControlAsync(x)
    BY <1>3, AddControlInv, RemoveControlInv
  <1> QED BY <1>1, <1>2, <1>3 DEF AddOrRemove, AddVolumeControlAsync, RemoveVolumeControlAsync,
                                  AddMuteControlAsync, RemoveMuteControlAsync, Controls

LEMMA ConfigNext == ConfigIInv /\ Next => ConfigIInv'
  BY SetDeviceInv, SetStreamInv, AddOrRemoveInv, InitializeDriverInv, PublishInv, UnpublishInv,
     HALAnswersInv DEF Next

LEMMA ConfigStutter == ConfigIInv /\ UNCHANGED configVars => ConfigIInv'
  BY QuietInv DEF configVars, ConfigIInv, ConfigTypes

\* The books on requests, children and channels are kept in every step: what is
\* queued, performed, aborted and run on a withdrawal (Device.cpp:1589-1725),
\* and what the setters and the additions put into the queue.
THEOREM ConfigIInvHolds == Spec => []ConfigIInv
  <1>1. ConfigIInv /\ [Next]_configVars => ConfigIInv'
    BY ConfigNext, ConfigStutter
  <1> QED BY ConfigInit, <1>1, PTL DEF Spec

-----------------------------------------------------------------------------
\* What the invariant gives

LEMMA TypesGiven == ConfigIInv => TypeOK
  <1> SUFFICES ASSUME ConfigIInv PROVE TypeOK
    OBVIOUS
  <1>1. /\ ConfigTypes /\ Ordered /\ Accounted /\ DevOK(dev)
    BY DEF ConfigIInv, Good
  <1>2. /\ Len(requests) \in Nat /\ DOMAIN requests = 1..Len(requests) /\ Len(requests) <= MaxRequests
        /\ MaxRequests \in Nat /\ lastID \in 0..MaxRequests
    BY <1>1, LenProperties, ConfigurationAssumption DEF ConfigTypes, Ordered, ConfigurationAssumption
  <1>3. dev.applied \in Seq(1..MaxRequests)
    <2>1. PICK a : a = dev.applied
      OBVIOUS
    <2>2. a \in Seq(Nat) /\ \A i \in DOMAIN a : a[i] \in DOMAIN requests
      BY <1>1, <2>1 DEF DevOK, Accounted
    <2>3. Len(a) \in Nat /\ a = [i \in 1..Len(a) |-> a[i]] /\ DOMAIN a = 1..Len(a)
      BY <2>2, LenProperties
    <2>4. \A i \in 1..Len(a) : a[i] \in 1..MaxRequests
      BY <1>2, <2>2, <2>3
    <2>5. a \in Seq(1..MaxRequests)
      <3>1. a \in [1..Len(a) -> 1..MaxRequests]
        BY <2>3, <2>4
      <3> QED BY <2>3, <3>1, SeqDef
    <2> QED BY <2>1, <2>5
  <1>4. \A i \in DOMAIN pending : pending[i].number \in DOMAIN requests /\ pending[i].id < lastID
    BY <1>1 DEF Ordered, Accounted
  <1>5. DOMAIN dev.cfg = {Device} \union Streams
    BY <1>1 DEF DevOK, CfgOK, Objects
  <1> QED BY <1>1, <1>2, <1>3, <1>4, <1>5 DEF TypeOK, ConfigTypes, DevOK, DirectionMaps, Accounted

LEMMA ConfigurationGiven == ConfigIInv => ConfigurationInv
  <1> SUFFICES ASSUME ConfigIInv PROVE ConfigurationInv
    OBVIOUS
  <1>1. ConfigTypes /\ Ordered /\ Accounted /\ Coming
    BY DEF ConfigIInv
  <1>2. PICK q \in Nat : /\ q = Len(pending) /\ DOMAIN pending = 1..q /\ Len(Queued) = q
                         /\ DOMAIN Queued = 1..q /\ \A i \in 1..q : Queued[i] = pending[i].number
    BY <1>1, QueuedFacts DEF ConfigTypes
  <1>3. AppliedInOrder
    BY <1>1 DEF AppliedInOrder, Ordered, Rising
  <1>4. EveryRequestAccounted
    <2>1. \A n : n \in ToSet(Queued) <=> \E i \in 1..q : pending[i].number = n
      BY <1>2 DEF ToSet
    <2>4. \A n : n \in ToSet(dev.applied) <=> \E i \in DOMAIN dev.applied : dev.applied[i] = n
      BY DEF ToSet
    <2>5. \A n \in DOMAIN requests : n \in ToSet(dev.applied) \union aborted \union ToSet(Queued)
      BY <1>1, <1>2, <2>1, <2>4 DEF Accounted
    <2>6. \A n \in ToSet(dev.applied) \union aborted \union ToSet(Queued) : n \in DOMAIN requests
      BY <1>1, <1>2, <2>1, <2>4 DEF Accounted
    <2>2. DOMAIN requests = ToSet(dev.applied) \union aborted \union ToSet(Queued)
      BY <2>5, <2>6
    <2>3. /\ \A i \in DOMAIN pending : pending[i].id \in ToSet(hal)
          /\ pending # <<>> => owned
      BY <1>1 DEF Ordered, ToSet
    <2> QED BY <2>2, <2>3 DEF EveryRequestAccounted
  <1>5. PICK c : c = Course(requests, dev, Queued) /\ c[0] = dev
    BY <1>2, CourseWalk DEF Walk
  <1>6. CountMatchesOwned
    <2> SUFFICES ASSUME ~StreamChangeAborted
                 PROVE  /\ dev.inputs = Cardinality({s \in Streams \intersect dev.children : direction[s] = "input"})
                        /\ dev.outputs = Cardinality({s \in Streams \intersect dev.children : direction[s] = "output"})
      BY DEF CountMatchesOwned
    <2>1. ComingTo(c, q, direction, listed) /\ 0 \in 0..q
      BY <1>1, <1>2, <1>5 DEF Coming
    <2>2. Counts(dev, direction)
      BY <1>5, <2>1 DEF ComingTo
    <2> QED BY <2>2 DEF Counts, AttachedTo
  <1>7. ListedIsComing
    BY <1>1, <1>2, <1>5 DEF ListedIsComing, Coming, ComingTo, After
  <1> QED BY <1>3, <1>4, <1>6, <1>7, TypesGiven DEF ConfigurationInv

LEMMA ChannelsGiven == ConfigIInv => ChannelsDisjoint
  <1> SUFFICES ASSUME ConfigIInv, NEW s \in Streams \intersect listed, NEW t \in Streams \intersect listed,
                      s # t, direction[s] = direction[t],
                      \A n \in DOMAIN requests : \A i \in DOMAIN requests[n] :
                        requests[n][i].kind \in {"assign", "set"} => requests[n][i].field # "physicalFormat"
               PROVE  ChannelsOf(s) \intersect ChannelsOf(t) = {}
    BY DEF ChannelsDisjoint
  <1>1. NoFormats(requests)
    BY DEF NoFormats, NoFormat
  <1>2. \/ span[s].first + span[s].count <= span[t].first
        \/ span[t].first + span[t].count <= span[s].first
    BY <1>1 DEF ConfigIInv, SpansApart
  <1>3. /\ span[s].first \in Nat /\ span[t].first \in Nat
        /\ span[s].count \in Nat /\ span[t].count \in Nat
    <2>1. span \in [Streams -> [first : Nat, count : Values \union {0}]]
      BY DEF ConfigIInv, ConfigTypes
    <2>2. span[s] \in [first : Nat, count : Values \union {0}] /\ span[t] \in [first : Nat, count : Values \union {0}]
      BY <2>1
    <2>3. Values \union {0} \subseteq Nat
      BY ConfigurationAssumption DEF ConfigurationAssumption
    <2> QED BY <2>2, <2>3
  <1> QED BY <1>2, <1>3 DEF ChannelsOf

LEMMA LastGiven == ConfigIInv => LastRequestWins
  <1> SUFFICES ASSUME ConfigIInv, NEW o \in Objects, NEW f \in FieldsOf(o) \ OptionalFields,
                      pending = <<>>, aborted = {}, ~Rerated, RequestsFor(o, f) # {}
               PROVE  LET last == CHOOSE n \in RequestsFor(o, f) : \A m \in RequestsFor(o, f) : m <= n
                      IN  dev.cfg[o][f] = requests[last][1].value
    BY DEF LastRequestWins, Objects
  <1>1. PICK ns : ns = RequestsFor(o, f)
    OBVIOUS
  <1>2. /\ ConfigTypes /\ Ordered /\ Accounted /\ DevOK(dev) /\ Settled(dev, requests)
    BY DEF ConfigIInv, Good
  <1>3. Len(requests) \in Nat /\ DOMAIN requests = 1..Len(requests)
    BY <1>2, LenProperties DEF ConfigTypes
  <1>4. PICK last \in ns : (\A m \in ns : m <= last) /\ last = CHOOSE n \in ns : \A m \in ns : m <= n
    <2>1. ns \in SUBSET Nat /\ \A n \in ns : n <= Len(requests)
      BY <1>1, <1>3 DEF RequestsFor
    <2>2. \E n \in ns : \A m \in ns : m <= n
      BY <1>1, <1>3, <2>1, GreatestExists
    <2> QED BY <2>2
  <1>5. \A n \in DOMAIN requests : Legal(requests[n], direction) /\ ~IsRateChange(requests[n])
    <2> SUFFICES ASSUME NEW n \in DOMAIN requests, IsRateChange(requests[n]) PROVE FALSE
      BY <1>2 DEF ConfigTypes, AllLegal
    <2>1. Len(requests[n]) = 2
      BY DEF IsRateChange
    <2>2. Len(requests[n]) > 1
      BY <2>1
    <2> QED BY <2>2, Zenon DEF Rerated
  <1>6. \A n \in DOMAIN requests : Len(requests[n]) = 1
    BY <1>5 DEF Legal, IsAssign
  <1>7. /\ last \in DOMAIN requests
        /\ \E i \in DOMAIN requests[last] : /\ requests[last][i].kind = "assign"
                                           /\ requests[last][i].object = o
                                           /\ requests[last][i].field = f
    <2>1. last \in RequestsFor(o, f)
      BY <1>1, <1>4
    <2> QED BY <2>1, Zenon DEF RequestsFor
  <1>8. PICK v \in Values : requests[last] = <<Assign(o, f, v)>>
    <2>1. IsAssign(requests[last], direction)
      <3>1. ASSUME NEW x, NEW where,
                   requests[last] = <<Attach(x, where)>> \/ requests[last] = <<Detach(x, where)>>
            PROVE  FALSE
        <4>1. \A i \in DOMAIN requests[last] : requests[last][i].kind # "assign"
          BY <3>1 DEF Attach, Detach
        <4> QED BY <1>7, <4>1
      <3> QED BY <1>5, <1>7, <3>1 DEF Legal
    <2>2. PICK o2 \in Objects : \E f2 \in FieldsOf(o2) : \E v \in ValuesOf(f2) :
            requests[last] = <<Assign(o2, f2, v)>>
      BY <2>1 DEF IsAssign
    <2>3. PICK f2 \in FieldsOf(o2) : \E v \in ValuesOf(f2) : requests[last] = <<Assign(o2, f2, v)>>
      BY <2>2
    <2>4. PICK v \in ValuesOf(f2) : requests[last] = <<Assign(o2, f2, v)>>
      BY <2>3
    <2>5. o2 = o /\ f2 = f
      BY <1>7, <2>4 DEF Assign
    <2>6. f \notin ListFields
      BY DEF OptionalFields
    <2> QED BY <2>4, <2>5, <2>6 DEF ValuesOf
  <1>9. PICK i \in DOMAIN dev.applied : dev.applied[i] = last
    BY <1>2, <1>7 DEF Accounted
  <1>10. PICK a : a = dev.applied /\ a \in Seq(Nat) /\ DOMAIN a = 1..Len(a) /\ Len(a) \in Nat
    BY <1>2, LenProperties DEF DevOK
  <1>11. ASSUME NEW j \in i + 1..Len(a), NEW w \in Values, requests[a[j]] = <<Assign(o, f, w)>>
         PROVE  FALSE
    <2>1. i \in 1..Len(a) /\ j \in 1..Len(a) /\ i < j
      BY <1>9, <1>10
    <2>2. a[i] < a[j] /\ a[j] \in DOMAIN requests
      BY <1>2, <1>10, <2>1 DEF Ordered, Rising, Accounted
    <2>3. /\ 1 \in DOMAIN requests[a[j]]
          /\ requests[a[j]][1].kind = "assign" /\ requests[a[j]][1].object = o
          /\ requests[a[j]][1].field = f
      BY <1>11 DEF Assign
    <2>4. a[j] \in ns
      BY <1>1, <2>2, <2>3 DEF RequestsFor
    <2>5. a[j] <= last /\ a[i] = last /\ last \in Nat /\ a[j] \in Nat
      BY <1>3, <1>4, <1>7, <1>9, <1>10, <2>2, <2>4
    <2> QED BY <2>2, <2>5
  <1>12. \A j \in DOMAIN dev.applied : Len(requests[dev.applied[j]]) = 1
    BY <1>2, <1>6 DEF Accounted
  <1>13. dev.cfg[o][f] = v
    <2>1. \A j \in i + 1..Len(dev.applied), w \in Values : requests[dev.applied[j]] # <<Assign(o, f, w)>>
      BY <1>10, <1>11
    <2>2. requests[dev.applied[i]] = <<Assign(o, f, v)>>
      BY <1>8, <1>9
    <2> QED BY <1>2, <1>12, <2>1, <2>2, Zenon DEF Settled
  <1>14. requests[last][1].value = v
    BY <1>8 DEF Assign
  <1> QED BY <1>1, <1>4, <1>13, <1>14


-----------------------------------------------------------------------------
\* What the HAL sees

Unseen == Visible' # Visible =>
            /\ hal # <<>>
            /\ hal' = Tail(hal)
            /\ \E i \in DOMAIN pending :
                 /\ pending[i].id = Head(hal)
                 /\ dev' = Run(dev, pending[i].number, requests[pending[i].number])

\* A request that waits changes nothing: the device's edits come later.
LEMMA RequestUnseen ==
  ASSUME NEW base, NEW functions, RequestFrom(base, functions), host, owned
  PROVE  dev' = base
  BY DEF RequestFrom, InPlace

LEMMA ConstructedUnseen ==
  ASSUME ConfigIInv, NEW s \in Streams, direction[s] = "none", dev' = Constructed(s)
  PROVE  Visible' = Visible
  <1>1. PICK fields : Constructed(s) = [dev EXCEPT !.cfg = [dev.cfg EXCEPT ![s] = fields]]
    BY DEF Constructed
  <1>2. /\ DevOK(dev) /\ Placed(dev, direction)
        /\ dev.cfg = [o \in Objects |-> [f \in FieldsOf(o) |-> dev.cfg[o][f]]]
    BY DEF ConfigIInv, Good, DevOK, CfgOK
  <1>3. PICK c, g : c = dev.cfg /\ g = [c EXCEPT ![s] = fields]
    OBVIOUS
  <1>4. dev'.cfg = g /\ dev'.children = dev.children
    BY <1>1, <1>2, <1>3 DEF DevOK
  <1>5. \A o \in Objects : o # s => g[o] = c[o]
    <2>1. DOMAIN c = Objects
      BY <1>2, <1>3
    <2> QED BY <1>3, <2>1
  <1>6. s \notin dev.children
    BY <1>2 DEF Placed
  <1>7. \A o \in {Device} \union (Streams \intersect dev.children) : o \in Objects /\ o # s
    BY <1>6, StreamObjects DEF Objects
  <1>8. PICK seen : seen = {Device} \union (Streams \intersect dev.children)
    OBVIOUS
  <1>9. [o \in seen |-> g[o]] = [o \in seen |-> c[o]]
    BY <1>5, <1>7, <1>8
  <1> QED BY <1>3, <1>4, <1>8, <1>9 DEF Visible

LEMMA SetUnseen ==
  ASSUME host, owned, NEW o, NEW f, NEW v, SetAsync(o, f, v)
  PROVE  dev' = dev
  BY RequestUnseen DEF SetAsync, RequestConfigurationChange

LEMMA SetStepUnseen ==
  ASSUME host, owned, SetDevice \/ SetStream
  PROVE  dev' = dev
  <1>1. ASSUME NEW list, NEW v, ChangeRates(list, v) PROVE dev' = dev
    BY <1>1, RequestUnseen DEF ChangeRates, RequestConfigurationChange
  <1>2. CASE SetDevice
    BY <1>1, <1>2, SetUnseen
          DEF SetDevice, SetLatencyAsync, SetSafetyOffsetAsync, SetZeroTimeStampPeriodAsync,
              SetNominalSampleRateAsync, SetAvailableSampleRatesAsync,
              SetPreferredChannelsForStereoAsync, SetPreferredChannelCountAsync,
              SetPreferredChannelsAsync, SetPreferredChannelLayoutAsync
  <1>3. CASE SetStream
    BY <1>3, SetUnseen
          DEF SetStream, SetStreamLatencyAsync, SetPhysicalFormatAsync, SetVirtualFormatAsync,
              SetAvailablePhysicalFormatsAsync, SetAvailableVirtualFormatsAsync
  <1> QED BY <1>2, <1>3

LEMMA AddOrRemoveUnseen ==
  ASSUME ConfigIInv, host, owned, AddOrRemove
  PROVE  Visible' = Visible
  <1>1. ASSUME NEW s \in Streams, NEW dir, NEW functions, NEW children,
               AddStreams(s, dir, functions, children)
        PROVE  Visible' = Visible
    <2>1. direction[s] = "none" /\ dev' = Constructed(s)
      BY <1>1, RequestUnseen DEF AddStreams
    <2> QED BY <2>1, ConstructedUnseen
  <1>2. ASSUME NEW r, RequestConfigurationChange(r) PROVE Visible' = Visible
    <2>1. dev' = dev
      BY <1>2, RequestUnseen DEF RequestConfigurationChange
    <2> QED BY <2>1 DEF Visible
  <1>3. CASE \E s \in Streams, dir \in Directions :
               \/ AddStreamAsync(s, dir)
               \/ \E v \in VolumeControls, m \in MuteControls : AddStreamWithControlsAsync(s, dir, v, m)
    BY <1>1, <1>3 DEF AddStreamAsync, AddStreamWithControlsAsync
  <1>4. CASE \E s \in Streams : RemoveStreamAsync(s)
    BY <1>2, <1>4 DEF RemoveStreamAsync
  <1>5. CASE \E x : AddControlAsync(x) \/ RemoveControlAsync(x)
    BY <1>2, <1>5 DEF AddControlAsync, RemoveControlAsync
  <1> QED BY <1>3, <1>4, <1>5 DEF AddOrRemove, AddVolumeControlAsync, RemoveVolumeControlAsync,
                                  AddMuteControlAsync, RemoveMuteControlAsync

LEMMA AnswersUnseen ==
  ASSUME HALAnswers
  PROVE  Unseen
  <1>1. hal # <<>> /\ hal' = Tail(hal)
    BY DEF HALAnswers
  <1>2. \/ \E i \in DOMAIN pending :
             /\ pending[i].id = Head(hal)
             /\ dev' = Run(dev, pending[i].number, requests[pending[i].number])
        \/ dev' = dev
    BY DEF HALAnswers, PerformConfigurationChange, AbortConfigurationChange
  <1>3. dev' = dev => Visible' = Visible
    BY DEF Visible
  <1> QED BY <1>1, <1>2, <1>3 DEF Unseen

LEMMA StepUnseen ==
  ASSUME ConfigIInv, [Next]_configVars, host, owned, owned'
  PROVE  Unseen
  <1>1. dev' = dev => Visible' = Visible
    BY DEF Visible
  <1>2. CASE SetDevice \/ SetStream
    BY <1>1, <1>2, SetStepUnseen DEF Unseen
  <1>3. CASE AddOrRemove
    BY <1>3, AddOrRemoveUnseen DEF Unseen
  <1>4. CASE InitializeDriver \/ Publish \/ Unpublish
    BY <1>4 DEF InitializeDriver, Publish, Unpublish
  <1>5. CASE HALAnswers
    BY <1>5, AnswersUnseen
  <1>6. CASE UNCHANGED configVars
    BY <1>1, <1>6 DEF configVars, Unseen
  <1> QED BY <1>2, <1>3, <1>4, <1>5, <1>6 DEF Next

-----------------------------------------------------------------------------
\* Requests, counters and tables agree in every device, with any number of
\* streams and of values: functions run in the order in which they were
\* requested and each at most once, none is lost between the queue, the HAL's
\* aborts and a withdrawal, the counters of streams are those of the children,
\* and what waits leads to what the device's own tables list.
THEOREM ConfigurationHolds == Spec => []ConfigurationInv
  <1>1. ConfigIInv => ConfigurationInv
    BY ConfigurationGiven
  <1> QED BY <1>1, ConfigIInvHolds, PTL

\* Two streams of one direction have channels of their own, whatever is added,
\* removed, performed or aborted.
THEOREM ChannelsDisjointHolds == Spec => []ChannelsDisjoint
  <1>1. ConfigIInv => ChannelsDisjoint
    BY ChannelsGiven
  <1> QED BY <1>1, ConfigIInvHolds, PTL

\* The last setter of a field wins, however the functions were delayed.
THEOREM LastRequestWinsHolds == Spec => []LastRequestWins
  <1>1. ConfigIInv => LastRequestWins
    BY LastGiven
  <1> QED BY <1>1, ConfigIInvHolds, PTL

\* While the HAL can see the device, only its own answers change what it sees.
THEOREM FrozenWhileVisibleHolds == Spec => FrozenWhileVisible
  <1>1. ConfigIInv /\ [Next]_configVars =>
          [host /\ owned /\ owned' /\ Visible' # Visible
             => /\ hal # <<>>
                /\ hal' = Tail(hal)
                /\ \E i \in DOMAIN pending :
                     /\ pending[i].id = Head(hal)
                     /\ dev' = Run(dev, pending[i].number, requests[pending[i].number])]_configVars
    BY StepUnseen DEF Unseen
  <1> QED BY <1>1, ConfigIInvHolds, PTL DEF Spec, FrozenWhileVisible

-----------------------------------------------------------------------------
(* DeviceIO: the clients and what they hear                                *)

Bundles == Apps \cup {NoClient}

\* The route that an application's clients hear.
RouteOf(bundle) == IF bundle = VoiceMemos THEN "mixed" ELSE "micOnly"

\* The device's idea of a client is its application, or none; no ID that is gone
\* has an application.
ClientsKnown ==
  /\ app \in [Clients -> Bundles] /\ clientByID \in [Clients -> Bundles]
  /\ \A c \in Clients : clientByID[c] \in {app[c], NoClient}
  /\ \A c \in retired : app[c] = NoClient

\* A route in the cache of an ID still in use is that of its application.
CacheRight ==
  /\ routes \in [Clients -> {"none", "mixed", "micOnly"}]
  /\ \A c \in Clients \ retired :
       routes[c] # "none" => app[c] # NoClient /\ routes[c] = RouteOf(app[c])

StartedKnown == started \subseteq {c \in Clients : app[c] # NoClient}

\* An operation under way is that of a started client, found as its application
\* or not at all.
CycleRight ==
  /\ io \in [at : {"idle", "begun", "handler", "done", "illegal"}, client : Clients \cup {NoClient},
             operation : Operations \cup {"none"}, stream : Streams \cup {Device},
             found : Bundles, route : {"none", "mixed", "micOnly"}]
  /\ io.at # "idle" => io.client \in started /\ io.found \in {app[io.client], NoClient}
  /\ io.at \in {"begun", "handler"} => io.route = "none"
  /\ RouteFollowsApplication

RouteInv == ClientsKnown /\ CacheRight /\ StartedKnown /\ CycleRight

-----------------------------------------------------------------------------
LEMMA RouteInit == IOInit => RouteInv
  BY DEF IOInit, Idle, RouteInv, ClientsKnown, CacheRight, StartedKnown, CycleRight,
         RouteFollowsApplication, Bundles

\* The steps that change neither clients nor I/O.
LEMMA RouteElsewhere == RouteInv /\ UNCHANGED <<clientVars, started, io, routes>> => RouteInv'
  BY DEF RouteInv, ClientsKnown, CacheRight, StartedKnown, CycleRight, RouteFollowsApplication,
         clientVars

LEMMA AddClientRoute ==
  ASSUME RouteInv, NEW c \in Clients, NEW bundle \in Apps, NEW ok \in BOOLEAN,
         AddClient(c, bundle, ok)
  PROVE  RouteInv'
  <1>1. /\ app' = [app EXCEPT ![c] = bundle] /\ app[c] \in {NoClient, bundle}
        /\ clientByID' \in {clientByID, [clientByID EXCEPT ![c] = bundle]}
        /\ c \notin retired /\ UNCHANGED <<retired, started, io, routes>>
    BY DEF AddClient, runVars
  <1>2. \A d \in Clients : app[d] # NoClient => app'[d] = app[d]
    BY <1>1 DEF RouteInv, ClientsKnown
  <1>3. bundle # NoClient /\ bundle \in Bundles
    BY IOAssumption DEF Bundles
  <1>4. ClientsKnown'
    BY <1>1, <1>3 DEF RouteInv, ClientsKnown
  <1>5. CacheRight'
    BY <1>1, <1>2 DEF RouteInv, CacheRight
  <1>6. StartedKnown'
    BY <1>1, <1>2 DEF RouteInv, StartedKnown
  <1>7. CycleRight'
    BY <1>1, <1>2 DEF RouteInv, CycleRight, StartedKnown, RouteFollowsApplication
  <1> QED BY <1>4, <1>5, <1>6, <1>7 DEF RouteInv

LEMMA RemoveClientRoute ==
  ASSUME RouteInv, NEW c \in Clients, RemoveClient(c)
  PROVE  RouteInv'
  <1>1. /\ app' = [app EXCEPT ![c] = NoClient] /\ clientByID' = [clientByID EXCEPT ![c] = NoClient]
        /\ retired' = retired \cup {c} /\ c \notin started
        /\ UNCHANGED <<started, io, routes>>
    BY DEF RemoveClient, runVars
  <1>2. ClientsKnown'
    BY <1>1 DEF RouteInv, ClientsKnown, Bundles
  <1>3. CacheRight'
    BY <1>1 DEF RouteInv, CacheRight, ClientsKnown
  <1>4. StartedKnown'
    BY <1>1 DEF RouteInv, StartedKnown, ClientsKnown
  <1>5. CycleRight'
    BY <1>1 DEF RouteInv, CycleRight, StartedKnown, ClientsKnown, RouteFollowsApplication
  <1> QED BY <1>2, <1>3, <1>4, <1>5 DEF RouteInv

LEMMA RunRoute ==
  ASSUME RouteInv, NEW c \in Clients, StartIO(c) \/ StopIO(c)
  PROVE  RouteInv'
  <1>1. UNCHANGED <<clientVars, io, routes>>
    BY DEF StartIO, StopIO
  <1>2. /\ StartIO(c) => started' = started \cup {c} /\ app[c] # NoClient
        /\ StopIO(c) => started' = started \ {c} /\ io.client # c
    BY DEF StartIO, StopIO
  <1> QED
    BY <1>1, <1>2
    DEF RouteInv, ClientsKnown, CacheRight, StartedKnown, CycleRight, RouteFollowsApplication,
        clientVars

LEMMA BeginRoute ==
  ASSUME RouteInv, NEW c \in Clients, NEW s \in Streams, NEW operation \in Operations,
         BeginIOOperation(c, s, operation)
  PROVE  RouteInv'
  <1>1. /\ UNCHANGED <<clientVars, started, routes>> /\ c \in started
        /\ io' = [at |-> "begun", client |-> c, operation |-> operation, stream |-> s,
                  found |-> NoClient, route |-> "none"]
    BY DEF BeginIOOperation, runVars
  <1>2. ClientsKnown' /\ CacheRight' /\ StartedKnown'
    BY <1>1 DEF RouteInv, ClientsKnown, CacheRight, StartedKnown, clientVars
  <1>3. c \in started'
    BY <1>1
  <1>4. CycleRight'
    BY <1>1, <1>3 DEF CycleRight, RouteFollowsApplication, Bundles
  <1> QED BY <1>2, <1>4 DEF RouteInv

LEMMA DoIOOperationRoute == RouteInv /\ DoIOOperation => RouteInv'
  <1> SUFFICES ASSUME RouteInv, DoIOOperation PROVE RouteInv'
    OBVIOUS
  <1>1. io.client \in started /\ io.client \in Clients
    BY DEF DoIOOperation, RouteInv, CycleRight, StartedKnown
  <1>2. clientByID[io.client] \in {app[io.client], NoClient} /\ clientByID[io.client] \in Bundles
    BY <1>1 DEF RouteInv, ClientsKnown
  <1>3. /\ UNCHANGED <<clientVars, started, routes>>
        /\ \/ io' = [io EXCEPT !.at = "handler", !.found = clientByID[io.client]]
           \/ io' = [io EXCEPT !.at = "illegal"]
    BY DEF DoIOOperation, GetClientByID, runVars
  <1>4. ClientsKnown' /\ CacheRight' /\ StartedKnown'
    BY <1>3 DEF RouteInv, ClientsKnown, CacheRight, StartedKnown, clientVars
  <1>5. /\ io'.at \in {"handler", "illegal"} /\ io'.client = io.client
        /\ io'.found \in {io.found, clientByID[io.client]}
        /\ io' \in [at : {"idle", "begun", "handler", "done", "illegal"},
                    client : Clients \cup {NoClient}, operation : Operations \cup {"none"},
                    stream : Streams \cup {Device}, found : Bundles,
                    route : {"none", "mixed", "micOnly"}]
    BY <1>2, <1>3 DEF RouteInv, CycleRight
  <1>6. /\ io.found \in {app[io.client], NoClient}
        /\ io'.route = "none"
    BY <1>3 DEF DoIOOperation, RouteInv, CycleRight
  <1>7. CycleRight'
    BY <1>1, <1>2, <1>3, <1>5, <1>6 DEF CycleRight, RouteFollowsApplication, clientVars
  <1> QED BY <1>4, <1>7 DEF RouteInv

\* The route chosen is that of the application, from the cache or afresh.
LEMMA GetRouteRight ==
  ASSUME RouteInv, io.at = "handler"
  PROVE  /\ io.client \in Clients \ retired
         /\ GetRoute(io.client, io.found)
              = IF io.found = NoClient THEN "micOnly" ELSE RouteOf(app[io.client])
         /\ io.found # NoClient => app[io.client] # NoClient
  <1>1. io.client \in started /\ io.found \in {app[io.client], NoClient}
    BY DEF RouteInv, CycleRight
  <1>2. io.client \in Clients /\ app[io.client] # NoClient
    BY <1>1 DEF RouteInv, StartedKnown
  <1>3. io.client \notin retired
    BY <1>2 DEF RouteInv, ClientsKnown
  <1>4. routes[io.client] # "none" => routes[io.client] = RouteOf(app[io.client])
    BY <1>2, <1>3 DEF RouteInv, CacheRight
  <1> QED BY <1>1, <1>2, <1>3, <1>4 DEF GetRoute, RouteOf

LEMMA CallHandlerRoute ==
  ASSUME RouteInv, NEW alive \in BOOLEAN, CallHandler(alive)
  PROVE  RouteInv'
  <1> DEFINE c == io.client
             route == GetRoute(io.client, io.found)
  <1>1. io.at = "handler" /\ UNCHANGED <<clientVars, started>>
    BY DEF CallHandler, runVars
  <1>2. /\ c \in Clients \ retired /\ (io.found # NoClient => app[c] # NoClient)
        /\ route = IF io.found = NoClient THEN "micOnly" ELSE RouteOf(app[c])
    BY <1>1, GetRouteRight
  <1>3. route \in {"mixed", "micOnly"}
    BY <1>2 DEF RouteOf
  <1> HIDE DEF route
  <1>4. \/ io.operation = "ReadInput" /\ alive /\ io' = [io EXCEPT !.at = "done", !.route = route]
        \/ ~(io.operation = "ReadInput" /\ alive) /\ io' = [io EXCEPT !.at = "done"]
    BY DEF CallHandler, route
  <1>5. \/ routes' = routes
        \/ io.found # NoClient /\ routes' = [routes EXCEPT ![c] = route]
    BY DEF CallHandler, CachedRoute, route
  <1>6. ClientsKnown' /\ StartedKnown'
    BY <1>1 DEF RouteInv, ClientsKnown, StartedKnown, clientVars
  <1>7. CacheRight'
    <2>1. CASE routes' = routes
      BY <1>1, <2>1 DEF RouteInv, CacheRight, clientVars
    <2>2. CASE io.found # NoClient /\ routes' = [routes EXCEPT ![c] = route]
      BY <1>1, <1>2, <1>3, <2>2 DEF RouteInv, CacheRight, clientVars
    <2> QED BY <1>5, <2>1, <2>2
  <1>11. io.route = "none" /\ io.found \in Bundles
    BY <1>1 DEF RouteInv, CycleRight
  <1>8. /\ io'.at = "done" /\ io'.client = c /\ io'.found = io.found
        /\ io'.operation = io.operation
        /\ io.operation = "ReadInput" => io'.route \in {"none", route}
        /\ io' \in [at : {"idle", "begun", "handler", "done", "illegal"},
                    client : Clients \cup {NoClient}, operation : Operations \cup {"none"},
                    stream : Streams \cup {Device}, found : Bundles,
                    route : {"none", "mixed", "micOnly"}]
    BY <1>3, <1>4, <1>11 DEF RouteInv, CycleRight
  <1>9. c \in started /\ io.found \in {app[c], NoClient}
    BY <1>1 DEF RouteInv, CycleRight
  <1>10. CycleRight'
    BY <1>1, <1>2, <1>8, <1>9 DEF CycleRight, RouteFollowsApplication, RouteOf, clientVars
  <1> QED BY <1>6, <1>7, <1>10 DEF RouteInv

LEMMA EndIOOperationRoute == RouteInv /\ EndIOOperation => RouteInv'
  <1> SUFFICES ASSUME RouteInv, EndIOOperation PROVE RouteInv'
    OBVIOUS
  <1>1. io' = Idle /\ UNCHANGED <<clientVars, started, routes>>
    BY DEF EndIOOperation, runVars
  <1>2. CycleRight'
    BY <1>1 DEF CycleRight, RouteFollowsApplication, Idle, Bundles
  <1>3. ClientsKnown' /\ CacheRight' /\ StartedKnown'
    BY <1>1 DEF RouteInv, ClientsKnown, CacheRight, StartedKnown, clientVars
  <1> QED BY <1>2, <1>3 DEF RouteInv

\* The steps of clock and configuration, and those that leave everything alone.
Elsewhere == GetZeroTimeStamp \/ Tick \/ Reconfigure \/ Answer \/ Withdraw \/ UNCHANGED vars

LEMMA ElsewhereKeeps == Elsewhere => UNCHANGED <<clientVars, runVars, io, routes>>
  BY DEF Elsewhere, GetZeroTimeStamp, Tick, Reconfigure, Answer, Withdraw, ioVars, vars

LEMMA RouteStep == RouteInv /\ [IONext]_vars => RouteInv'
  <1> SUFFICES ASSUME RouteInv, [IONext]_vars PROVE RouteInv'
    OBVIOUS
  <1>1. CASE \E c \in Clients, bundle \in Apps, ok \in BOOLEAN : AddClient(c, bundle, ok)
    BY <1>1, AddClientRoute
  <1>2. CASE \E c \in Clients : RemoveClient(c)
    BY <1>2, RemoveClientRoute
  <1>3. CASE \E c \in Clients : StartIO(c) \/ StopIO(c)
    BY <1>3, RunRoute
  <1>4. CASE \E c \in Clients, s \in Streams, operation \in Operations : BeginIOOperation(c, s, operation)
    BY <1>4, BeginRoute
  <1>5. CASE DoIOOperation \/ (\E alive \in BOOLEAN : CallHandler(alive)) \/ EndIOOperation
    BY <1>5, DoIOOperationRoute, CallHandlerRoute, EndIOOperationRoute
  <1>6. CASE Elsewhere
    BY <1>6, ElsewhereKeeps, RouteElsewhere DEF runVars
  <1> QED BY <1>1, <1>2, <1>3, <1>4, <1>5, <1>6 DEF IONext, Elsewhere

\* A client hears what its application is to hear, whenever it came and whatever
\* the cache remembers (SmartRouter.cpp:57-98).
THEOREM HearsItsRoute == IOSpec => []RouteFollowsApplication
  <1>1. RouteInv => RouteFollowsApplication
    BY DEF RouteInv, CycleRight
  <1> QED BY <1>1, RouteInit, RouteStep, PTL DEF IOSpec

-----------------------------------------------------------------------------
(* The count of starts                                                     *)

StartsCounted == IsFiniteSet(started) /\ HALKnowsRunning

LEMMA CountedStart ==
  ASSUME StartsCounted, NEW c, StartIO(c)
  PROVE  StartsCounted'
  <1>1. IsFiniteSet(started') /\ Cardinality(started') = Cardinality(started) + 1
    BY FS_AddElement DEF StartsCounted, StartIO
  <1>2. startCount \in Nat /\ startCount = Cardinality(started)
    BY FS_CardinalityType DEF StartsCounted, HALKnowsRunning
  <1> QED BY <1>1, <1>2 DEF StartsCounted, HALKnowsRunning, GetIsRunning, StartIO

LEMMA CountedStop ==
  ASSUME StartsCounted, NEW c, StopIO(c)
  PROVE  StartsCounted'
  <1>1. IsFiniteSet(started') /\ Cardinality(started') = Cardinality(started) - 1
    BY FS_RemoveElement DEF StartsCounted, StopIO
  <1>2. startCount \in Nat /\ startCount = Cardinality(started) /\ Cardinality(started') \in Nat
    BY <1>1, FS_CardinalityType DEF StartsCounted, HALKnowsRunning
  <1> QED BY <1>1, <1>2 DEF StartsCounted, HALKnowsRunning, GetIsRunning, StopIO

LEMMA CountedStep == StartsCounted /\ [IONext]_vars => StartsCounted'
  <1> SUFFICES ASSUME StartsCounted, [IONext]_vars PROVE StartsCounted'
    OBVIOUS
  <1>1. CASE \E c \in Clients : StartIO(c)
    BY <1>1, CountedStart
  <1>2. CASE \E c \in Clients : StopIO(c)
    BY <1>2, CountedStop
  <1>3. CASE UNCHANGED runVars
    BY <1>3 DEF StartsCounted, HALKnowsRunning, GetIsRunning, runVars
  <1>4. ASSUME NEW c \in Clients, NEW bundle \in Apps, NEW ok \in BOOLEAN, AddClient(c, bundle, ok)
        PROVE  UNCHANGED runVars
    BY <1>4 DEF AddClient
  <1>5. ASSUME NEW c \in Clients, RemoveClient(c)
        PROVE  UNCHANGED runVars
    BY <1>5 DEF RemoveClient
  <1>6. ASSUME NEW c \in Clients, NEW s \in Streams, NEW operation \in Operations,
               BeginIOOperation(c, s, operation)
        PROVE  UNCHANGED runVars
    BY <1>6 DEF BeginIOOperation
  <1>7. ASSUME DoIOOperation \/ (\E alive \in BOOLEAN : CallHandler(alive)) \/ EndIOOperation
        PROVE  UNCHANGED runVars
    BY <1>7 DEF DoIOOperation, CallHandler, EndIOOperation
  <1>8. Elsewhere => UNCHANGED runVars
    BY ElsewhereKeeps
  <1> QED BY <1>1, <1>2, <1>3, <1>4, <1>5, <1>6, <1>7, <1>8 DEF IONext, Elsewhere

LEMMA CountedInit == IOInit => StartsCounted
  <1> SUFFICES ASSUME IOInit PROVE StartsCounted
    OBVIOUS
  <1>1. started = {} /\ startCount = 0 /\ halRunning = FALSE
    BY DEF IOInit
  <1>2. IsFiniteSet({}) /\ Cardinality({}) = 0
    BY FS_EmptySet
  <1>3. IsFiniteSet(started) /\ startCount = Cardinality(started)
    BY <1>1, <1>2
  <1>4. ~GetIsRunning
    BY <1>1 DEF GetIsRunning
  <1>5. GetIsRunning = FALSE
    BY <1>4 DEF GetIsRunning
  <1> QED BY <1>1, <1>3, <1>5 DEF StartsCounted, HALKnowsRunning

\* The HAL reads whether the device runs only when it is told of a change; what
\* it read last is always right (Device.cpp:1081-1162).
THEOREM RunStateKnown == IOSpec => []HALKnowsRunning
  <1>1. StartsCounted => HALKnowsRunning
    BY DEF StartsCounted
  <1> QED BY <1>1, CountedInit, CountedStep, PTL DEF IOSpec

-----------------------------------------------------------------------------
(* Configuration, clients, cycle and clock together                        *)

\* The clock's latest period has begun, and the stamp the HAL has taken since
\* I/O started is that of the latest period.
ClockRight ==
  /\ now \in 0..MaxTime /\ anchor \in 0..now /\ periods \in Nat
  /\ stamp \in {"none", "taken", "void"}
  /\ zero \in [sample : Nat, host : Nat]
  /\ StampNotInFuture
  /\ started # {} /\ stamp # "void" =>
       /\ host /\ owned
       /\ anchor + HostTicks(periods) <= now
       /\ stamp = "taken" => zero = [sample |-> periods * Period,
                                     host |-> anchor + HostTicks(periods)]

Removal(s) == \E n \in DOMAIN requests : requests[n] = <<Detach(s, direction[s])>>

\* A stream that was added is in the table or its removal has been requested;
\* the operation under way is on a stream that was added.
StreamsKnown ==
  /\ \A s \in Streams : direction[s] # "none" => s \in listed \/ Removal(s)
  /\ io.at # "idle" => io.stream \in Streams /\ direction[io.stream] # "none"
  /\ OnlyRemovedStreamsAreRefused

IOIInv == /\ ConfigIInv /\ RouteInv /\ StartsCounted /\ retired \subseteq Clients
          /\ ClockRight /\ StreamsKnown


LEMMA IOConfigInit == IOInit => ConfigIInv
  <1> SUFFICES ASSUME IOInit PROVE ConfigIInv
    OBVIOUS
  <1>1. PICK s \in Streams : InitializeObjects(s)
    BY IOAssumption DEF IOInit, IOAssumption
  <1>2. PICK c : c = [object \in Objects |-> [field \in FieldsOf(object) |->
                        IF field \in OptionalFields THEN NotSet ELSE ChannelCount]]
    OBVIOUS
  <1>3. dev = [cfg |-> c, children |-> {s}, inputs |-> 1, outputs |-> 0, applied |-> <<1>>]
    BY <1>1, <1>2 DEF InitializeObjects, Objects
  <1>4. /\ host = FALSE /\ owned = TRUE
        /\ direction = [x \in Streams |-> IF x = s THEN "input" ELSE "none"]
        /\ span = [x \in Streams |-> IF x = s THEN [first |-> 1, count |-> ChannelCount]
                                     ELSE [first |-> 0, count |-> 0]]
        /\ listed = {s} /\ pending = <<>> /\ lastID = 0 /\ hal = <<>> /\ aborted = {}
        /\ requests = <<<<Attach(s, "input")>>>>
    BY <1>1 DEF InitializeObjects
  <1>5. /\ Len(requests) = 1 /\ DOMAIN requests = {1} /\ requests[1] = <<Attach(s, "input")>>
        /\ Len(dev.applied) = 1 /\ DOMAIN dev.applied = {1} /\ dev.applied[1] = 1
        /\ DOMAIN pending = {} /\ DOMAIN hal = {} /\ Len(pending) = 0
    BY <1>3, <1>4
  <1>6. s \in Children /\ direction[s] = "input" /\ \A x \in Streams : x # s => direction[x] = "none"
    BY <1>4, ControlsApart
  <1>7. ConfigTypes
    <2>1. direction \in DirectionMaps /\ span \in [Streams -> [first : Nat, count : Values \union {0}]]
      BY <1>4, ConfigurationAssumption DEF DirectionMaps, Directions, ConfigurationAssumption
    <2>2. Legal(<<Attach(s, "input")>>, direction)
      BY <1>6 DEF Legal, Place
    <2>3. AllLegal(requests, direction)
      BY <1>5, <2>2 DEF AllLegal
    <2>4. <<Attach(s, "input")>> \in AllFunctions
      BY <2>1, <2>2, LegalTyped
    <2>5. requests \in Seq(AllFunctions) /\ pending \in Seq([id : Nat, number : Nat]) /\ hal \in Seq(Nat)
      BY <1>4, <2>4
    <2>6. listed \subseteq Children /\ \A x \in Streams \intersect listed : direction[x] # "none"
      BY <1>4, <1>6
    <2> QED BY <1>4, <2>1, <2>3, <2>5, <2>6 DEF ConfigTypes
  <1>8. Word \in Nat /\ Word > 1 /\ MaxRequests \in Nat /\ MaxRequests > 0
    <2>1. Cardinality(Streams) \in Nat /\ Word \in Nat /\ Cardinality(Streams) < Word /\ MaxRequests \in Nat
      BY ConfigurationAssumption, FS_CardinalityType DEF ConfigurationAssumption
    <2>2. Cardinality(Streams) # 0
      BY ConfigurationAssumption, FS_EmptySet DEF ConfigurationAssumption
    <2> QED BY <2>1, <2>2, IOAssumption DEF IOAssumption
  <1>9. \A o \in Objects : \A f \in FieldsOf(o) :
          c[o][f] = IF f \in OptionalFields THEN NotSet ELSE ChannelCount
    BY <1>2
  <1>10. DevOK(dev)
    <2>1. CfgOK(c)
      <3>1. \A o \in Objects : \A f \in FieldsOf(o) : c[o][f] \in Stored(f)
        <4> SUFFICES ASSUME NEW o \in Objects, NEW f \in FieldsOf(o) PROVE c[o][f] \in Stored(f)
          OBVIOUS
        <4>1. f \notin OptionalFields => f \notin ListFields
          BY DEF OptionalFields
        <4> QED BY <1>9, <4>1, ConfigurationAssumption DEF ConfigurationAssumption, Stored, ValuesOf
      <3>2. c = [o \in Objects |-> [f \in FieldsOf(o) |-> c[o][f]]]
        BY <1>2
      <3> QED BY <3>1, <3>2 DEF CfgOK
    <2>2. <<1>> \in Seq(Nat) /\ 0 \in 0..Word - 1 /\ 1 \in 0..Word - 1
      BY <1>8
    <2> QED BY <1>3, <1>6, <2>1, <2>2 DEF DevOK
  <1>11. Good(dev, requests, direction, span)
    <2>1. Placed(dev, direction)
      BY <1>3, <1>6 DEF Placed
    <2>2. Settled(dev, requests)
      <3>1. \A o, f, v : requests[1] # <<Assign(o, f, v)>>
        BY <1>5 DEF Assign, Attach
      <3> QED BY <1>5, <3>1 DEF Settled
    <2>3. FormatsKept(dev, requests, direction, span)
      <3>1. "physicalFormat" \in StreamFields /\ "physicalFormat" \notin OptionalFields
        BY DEF StreamFields, OptionalFields, ListFields
      <3>2. dev.cfg[s].physicalFormat = ChannelCount
        BY <1>3, <1>9, <3>1, StreamObjects
      <3>3. span[s].count = ChannelCount
        BY <1>4
      <3> QED BY <1>6, <3>2, <3>3 DEF FormatsKept
    <2> QED BY <1>10, <2>1, <2>2, <2>3 DEF Good
  <1>12. Ordered
    BY <1>4, <1>5, <1>8 DEF Ordered, Rising
  <1>13. Accounted
    BY <1>4, <1>5 DEF Accounted
  <1>14. Coming
    <2>1. PICK c1 : c1 = Course(requests, dev, Queued)
      OBVIOUS
    <2>2. Len(Queued) = 0
      BY <1>4 DEF Queued
    <2>3. c1[0] = dev
      BY <2>1, <2>2, CourseWalk DEF Walk
    <2>4. Counts(dev, direction) /\ dev.children = listed
      <3>1. AttachedTo(dev, direction, "input") = {s} /\ AttachedTo(dev, direction, "output") = {}
        BY <1>3, <1>6 DEF AttachedTo
      <3> QED BY <1>3, <1>4, <3>1, FS_EmptySet, FS_Singleton DEF Counts
    <2>5. \A i \in 0..0 : i = 0
      OBVIOUS
    <2>6. ComingTo(c1, 0, direction, listed)
      BY <2>3, <2>4, <2>5 DEF ComingTo
    <2> QED BY <1>5, <2>1, <2>6 DEF Coming
  <1>15. SpansApart(requests, direction, span, listed)
    BY <1>4 DEF SpansApart
  <1> QED BY <1>7, <1>11, <1>12, <1>13, <1>14, <1>15 DEF ConfigIInv

\* What a step on the configuration is, and what the others leave alone.
LEMMA ReconfigureNext == Reconfigure => Next /\ UNCHANGED ioVars
  BY DEF Reconfigure, Next, SetDevice, AddOrRemove

\* The steps of clients, cycle and clock.
Driven ==
  \/ \E c \in Clients :
        \/ \E bundle \in Apps, ok \in BOOLEAN : AddClient(c, bundle, ok)
        \/ RemoveClient(c)
        \/ StartIO(c)
        \/ StopIO(c)
        \/ \E s \in Streams, operation \in Operations : BeginIOOperation(c, s, operation)
  \/ GetZeroTimeStamp \/ Tick \/ DoIOOperation \/ (\E alive \in BOOLEAN : CallHandler(alive)) \/ EndIOOperation

LEMMA StepKinds ==
  ASSUME [IONext]_vars
  PROVE  Driven \/ Reconfigure \/ Answer \/ Withdraw \/ UNCHANGED vars
  BY DEF IONext, Driven

LEMMA DrivenKeeps == Driven => UNCHANGED configVars
  BY DEF Driven, AddClient, RemoveClient, StartIO, StopIO, BeginIOOperation, GetZeroTimeStamp, Tick,
         DoIOOperation, CallHandler, EndIOOperation

LEMMA IOConfigSteps == [IONext]_vars => [Next]_configVars
  <1> SUFFICES ASSUME [IONext]_vars PROVE [Next]_configVars
    OBVIOUS
  <1>1. CASE Driven
    BY <1>1, DrivenKeeps
  <1>2. CASE Reconfigure
    BY <1>2, ReconfigureNext
  <1>3. CASE Answer
    BY <1>3 DEF Answer, Next
  <1>4. CASE Withdraw
    BY <1>4 DEF Withdraw, Next
  <1>5. CASE UNCHANGED vars
    BY <1>5 DEF vars
  <1> QED BY <1>1, <1>2, <1>3, <1>4, <1>5, StepKinds

LEMMA IOConfigStep == ConfigIInv /\ [IONext]_vars => ConfigIInv'
  BY IOConfigSteps, ConfigNext, ConfigStutter

-----------------------------------------------------------------------------
\* The clock

\* While the device is published only an answer of the HAL changes its fields.
LEMMA FieldsFrozen ==
  ASSUME ConfigIInv, Reconfigure, host, owned
  PROVE  dev'.cfg[Device] = dev.cfg[Device]
  <1>1. CASE Visible' = Visible
    <2>1. Visible.fields = [object \in {Device} \union (Streams \intersect dev.children) |-> dev.cfg[object]]
      BY DEF Visible
    <2>2. Visible'.fields = [object \in {Device} \union (Streams \intersect dev'.children) |-> dev'.cfg[object]]
      BY DEF Visible
    <2>3. Visible.fields[Device] = dev.cfg[Device] /\ Visible'.fields[Device] = dev'.cfg[Device]
      BY <2>1, <2>2
    <2> QED BY <1>1, <2>3
  <1>2. ASSUME NEW s \in Streams, NEW dir \in Directions, AddStreamAsync(s, dir)
        PROVE  Visible' = Visible
    <2>1. direction[s] = "none" /\ dev' = Constructed(s)
      BY <1>2, RequestUnseen DEF AddStreamAsync, AddStreams
    <2> QED BY <2>1, ConstructedUnseen
  <1>3. ASSUME NEW v, SetNominalSampleRateAsync(v) \/ SetZeroTimeStampPeriodAsync(v)
        PROVE  dev' = dev
    BY <1>3, SetUnseen DEF SetNominalSampleRateAsync, SetZeroTimeStampPeriodAsync
  <1>4. ASSUME NEW list, NEW v, ChangeRates(list, v) PROVE dev' = dev
    BY <1>4, RequestUnseen DEF ChangeRates, RequestConfigurationChange
  <1>5. ASSUME NEW s, RemoveStreamAsync(s) PROVE dev' = dev
    BY <1>5, RequestUnseen DEF RemoveStreamAsync, RequestConfigurationChange
  <1>6. InitializeDriver \/ Publish => dev' = dev
    BY DEF InitializeDriver, Publish
  <1> QED BY <1>1, <1>2, <1>3, <1>4, <1>5, <1>6 DEF Reconfigure


\* Rates are positive, so periods have a length.
LEMMA PeriodTyped ==
  ASSUME ConfigIInv
  PROVE  /\ Period \in Nat /\ TicksPerFrame * Period \in Nat
         /\ dev.cfg[Device].nominalSampleRate \in Nat \ {0}
  <1>1. /\ "zeroTimeStampPeriod" \in DeviceFields \ OptionalFields
        /\ "nominalSampleRate" \in DeviceFields \ OptionalFields
    BY DEF DeviceFields, OptionalFields, ListFields
  <1>2. \A f \in DeviceFields \ OptionalFields : dev.cfg[Device][f] \in Values
    <2>1. CfgOK(dev.cfg)
      BY DEF ConfigIInv, Good, DevOK
    <2>2. \A f \in DeviceFields \ OptionalFields : Stored(f) = Values
      BY DEF Stored, ValuesOf, OptionalFields
    <2> QED BY <2>1, <2>2, StreamObjects DEF CfgOK
  <1>3. PICK p, r : p = dev.cfg[Device].zeroTimeStampPeriod /\ r = dev.cfg[Device].nominalSampleRate
    OBVIOUS
  <1>4. p \in Nat /\ r \in Nat /\ r > 0
    <2>1. p \in Values /\ r \in Values
      <3>1. /\ dev.cfg[Device]["zeroTimeStampPeriod"] \in Values
            /\ dev.cfg[Device]["nominalSampleRate"] \in Values
        BY <1>1, <1>2
      <3> QED BY <1>3, <3>1
    <2>2. Values \subseteq Nat /\ 0 \notin Values
      BY ConfigurationAssumption, IOAssumption DEF ConfigurationAssumption, IOAssumption
    <2> QED BY <2>1, <2>2
  <1>5. TicksPerFrame * p \in Nat
    BY <1>4, IOAssumption DEF IOAssumption
  <1> QED BY <1>3, <1>4, <1>5 DEF Period

\* Truncation keeps the order.
LEMMA QuotientsGrow ==
  ASSUME NEW a \in Nat, NEW b \in Nat, a <= b, NEW r \in Nat \ {0}
  PROVE  a \div r \in Nat /\ b \div r \in Nat /\ a \div r <= b \div r
  OBVIOUS

\* k periods.
LEMMA PeriodsGrow ==
  ASSUME NEW k \in Nat, NEW k1 \in {k, k + 1}, NEW h \in Nat
  PROVE  k * h \in Nat /\ k1 * h \in Nat /\ k * h <= k1 * h
  <1>1. k * h \in Nat
    OBVIOUS
  <1>2. (k + 1) * h = k * h + h
    OBVIOUS
  <1>3. PICK x \in Nat : x = k * h
    BY <1>1
  <1>4. x <= x + h /\ x + h \in Nat
    OBVIOUS
  <1> QED BY <1>2, <1>3, <1>4

\* The host clock after k periods.
LEMMA TicksGrow ==
  ASSUME ConfigIInv, NEW k \in Nat, NEW k1 \in {k, k + 1}
  PROVE  /\ HostTicks(k) \in Nat /\ HostTicks(k1) \in Nat
         /\ HostTicks(k) <= HostTicks(k1)
         /\ HostTicks(0) = 0
  <1>1. PICK t, r : t = TicksPerFrame * Period /\ r = dev.cfg[Device].nominalSampleRate
    OBVIOUS
  <1>2. t \in Nat /\ r \in Nat \ {0}
    BY <1>1, PeriodTyped
  <1>3. k * t \in Nat /\ k1 * t \in Nat /\ k * t <= k1 * t
    BY <1>2, PeriodsGrow
  <1>4. (k * t) \div r \in Nat /\ (k1 * t) \div r \in Nat /\ (k * t) \div r <= (k1 * t) \div r
    BY <1>2, <1>3, QuotientsGrow
  <1>5. (0 * t) \div r = 0
    <2>1. 0 * t = 0
      BY <1>2
    <2>2. 0 \div r = 0
      BY <1>2
    <2> QED BY <2>1, <2>2
  <1> QED BY <1>1, <1>4, <1>5 DEF HostTicks

LEMMA StampTaken ==
  ASSUME ConfigIInv, ClockRight, GetZeroTimeStamp
  PROVE  /\ ClockRight'
         /\ stamp = "taken" /\ stamp' = "taken" =>
              zero'.sample >= zero.sample /\ zero'.host >= zero.host
  <1>1. PICK p, k, k1, z, z1, c, d :
          /\ p = Period /\ k = periods /\ k1 = periods' /\ z = zero /\ z1 = zero'
          /\ c = HostTicks(k) /\ d = HostTicks(k1)
    OBVIOUS
  <1>2. p \in Nat /\ k \in Nat /\ anchor \in Nat /\ now \in Nat
    BY <1>1, PeriodTyped, IOAssumption DEF ClockRight, IOAssumption
  <1>3. /\ started # {} /\ UNCHANGED <<configVars, started, now, anchor>>
        /\ k1 = IF now >= anchor + HostTicks(k + 1) THEN k + 1 ELSE k
        /\ z1 = [sample |-> k1 * p, host |-> anchor + d]
        /\ stamp' = IF stamp = "void" THEN "void" ELSE "taken"
    BY <1>1 DEF GetZeroTimeStamp, runVars
  <1>4. k1 \in {k, k + 1} /\ k1 \in Nat
    BY <1>2, <1>3
  <1>5. /\ k * p \in Nat /\ k1 * p \in Nat /\ k * p <= k1 * p
        /\ c \in Nat /\ d \in Nat /\ c <= d
    BY <1>1, <1>2, <1>4, PeriodsGrow, TicksGrow
  <1>6. z1 \in [sample : Nat, host : Nat] /\ z1.sample = k1 * p /\ z1.host = anchor + d
    BY <1>2, <1>3, <1>5
  <1>7. Period' = p /\ \A n : HostTicks(n)' = HostTicks(n)
    BY <1>1, <1>3 DEF Period, HostTicks, configVars
  <1>8. stamp # "void" => host /\ owned /\ anchor + d <= now
    <2> SUFFICES ASSUME stamp # "void" PROVE host /\ owned /\ anchor + d <= now
      OBVIOUS
    <2>1. host /\ owned /\ anchor + c <= now
      BY <1>1, <1>3 DEF ClockRight
    <2>2. CASE now >= anchor + HostTicks(k + 1)
      <3>1. k1 = k + 1
        BY <1>3, <2>2
      <3>2. d = HostTicks(k + 1)
        BY <1>1, <3>1
      <3>3. now >= anchor + d
        BY <2>2, <3>2
      <3>4. anchor + d <= now
        BY <1>2, <1>5, <3>3
      <3> QED BY <2>1, <3>4
    <2>3. CASE ~(now >= anchor + HostTicks(k + 1))
      <3>1. d = c
        BY <1>1, <1>3, <2>3
      <3> QED BY <2>1, <3>1
    <2> QED BY <2>2, <2>3
  <1>9. ClockRight'
    <2>1. /\ now' \in 0..MaxTime /\ anchor' \in 0..now' /\ periods' \in Nat
          /\ stamp' \in {"none", "taken", "void"} /\ zero' \in [sample : Nat, host : Nat]
      BY <1>1, <1>3, <1>4, <1>6 DEF ClockRight
    <2>2. StampNotInFuture'
      BY <1>1, <1>3, <1>6, <1>8 DEF StampNotInFuture
    <2>3. stamp' # "void" =>
            /\ host' /\ owned'
            /\ anchor' + d <= now'
            /\ zero' = [sample |-> k1 * p, host |-> anchor' + d]
      BY <1>1, <1>3, <1>8 DEF configVars
    <2>4. HostTicks(periods)' = d
      <3>1. periods' = k1 /\ dev' = dev /\ Period' = Period
        BY <1>1, <1>3, <1>7 DEF configVars
      <3>2. HostTicks(periods)' = HostTicks(k1)
        BY <3>1, Zenon DEF HostTicks
      <3> QED BY <1>1, <3>2
    <2> QED BY <1>1, <1>7, <2>1, <2>2, <2>3, <2>4 DEF ClockRight
  <1>10. ASSUME stamp = "taken" PROVE z1.sample >= z.sample /\ z1.host >= z.host
    <2>1. z = [sample |-> k * p, host |-> anchor + c]
      BY <1>1, <1>3, <1>10 DEF ClockRight
    <2>2. z.sample = k * p /\ z.host = anchor + c
      BY <2>1
    <2>3. PICK a, b \in Nat : a = k * p /\ b = k1 * p
      BY <1>5
    <2>4. a <= b
      BY <1>5, <2>3
    <2> QED BY <1>2, <1>5, <1>6, <2>2, <2>3, <2>4
  <1> QED BY <1>1, <1>9, <1>10

\* The clock where neither it nor what it depends on changes.
LEMMA ClockElsewhere ==
  ASSUME ClockRight, UNCHANGED clockVars, UNCHANGED dev, started' \subseteq started,
         host' = host /\ owned' = owned
  PROVE  ClockRight'
  <1>1. Period' = Period /\ (periods' = periods => HostTicks(periods)' = HostTicks(periods))
    BY DEF Period, HostTicks
  <1>2. started' # {} => started # {}
    OBVIOUS
  <1>3. UNCHANGED <<now, anchor, periods, zero, stamp>>
    BY DEF clockVars
  <1> QED BY <1>1, <1>2, <1>3 DEF ClockRight, StampNotInFuture

LEMMA StartClockRight ==
  ASSUME ConfigIInv, StartsCounted, ClockRight, NEW c, StartIO(c)
  PROVE  ClockRight'
  <1>1. /\ UNCHANGED configVars /\ host /\ owned
        /\ startCount = 0 => StartClock
        /\ startCount # 0 => UNCHANGED clockVars
    BY DEF StartIO
  <1>2. UNCHANGED <<dev, host, owned>>
    BY <1>1 DEF configVars
  <1>3. Period' = Period /\ (periods' = periods => HostTicks(periods)' = HostTicks(periods))
    BY <1>2 DEF Period, HostTicks
  <1>4. CASE startCount = 0
    <2>1. anchor' = now /\ now' = now /\ periods' = 0 /\ stamp' = "none" /\ zero' = zero
      BY <1>1, <1>4 DEF StartClock
    <2>2. now \in Nat /\ HostTicks(0) = 0
      BY TicksGrow, IOAssumption DEF ClockRight, IOAssumption
    <2>3. now + 0 <= now /\ now \in 0..now
      BY <2>2
    <2>4. anchor' + HostTicks(periods)' <= now'
      <3>1. HostTicks(periods)' = HostTicks(0)
        BY <1>2, <2>1 DEF HostTicks, Period
      <3> QED BY <2>1, <2>2, <2>3, <3>1
    <2> QED BY <1>1, <1>2, <2>1, <2>3, <2>4 DEF ClockRight, StampNotInFuture
  <1>5. CASE startCount # 0
    <2>1. started # {}
      BY <1>5, FS_EmptySet DEF StartsCounted, HALKnowsRunning
    <2>2. UNCHANGED <<now, anchor, periods, zero, stamp>>
      BY <1>1, <1>5 DEF clockVars
    <2> QED BY <1>2, <1>3, <2>1, <2>2 DEF ClockRight, StampNotInFuture
  <1> QED BY <1>4, <1>5

LEMMA TickRight ==
  ASSUME ConfigIInv, ClockRight, Tick
  PROVE  ClockRight'
  <1>1. /\ now' = now + 1 /\ now < MaxTime
        /\ UNCHANGED <<dev, host, owned, started, anchor, periods, zero, stamp>>
    BY DEF Tick, configVars, runVars
  <1>2. Period' = Period /\ (periods' = periods => HostTicks(periods)' = HostTicks(periods))
    BY <1>1 DEF Period, HostTicks
  <1>3. now' \in 0..MaxTime /\ anchor' \in 0..now'
    BY <1>1, IOAssumption DEF ClockRight, IOAssumption
  <1>4. \A x \in Nat : x <= now => x <= now'
    BY <1>1, IOAssumption DEF ClockRight, IOAssumption
  <1>5. StampNotInFuture'
    BY <1>1, <1>4 DEF ClockRight, StampNotInFuture
  <1>6. anchor + HostTicks(periods) \in Nat
    <2>1. anchor \in Nat /\ periods \in Nat
      BY IOAssumption DEF ClockRight, IOAssumption
    <2>2. HostTicks(periods) \in Nat
      BY <2>1, TicksGrow
    <2> QED BY <2>1, <2>2
  <1> QED BY <1>1, <1>2, <1>3, <1>4, <1>5, <1>6 DEF ClockRight


-----------------------------------------------------------------------------
\* Streams that are added and removed

\* A stream keeps its direction and is in the table, until its removal is requested.
StreamsMove ==
  /\ \A n \in DOMAIN requests : n \in DOMAIN requests' /\ requests'[n] = requests[n]
  /\ \A s \in Streams : direction[s] # "none" => direction'[s] = direction[s]
  /\ \A s \in Streams : direction[s] = "none" /\ direction'[s] # "none" => s \in listed'
  /\ \A s \in Streams : s \in listed /\ direction[s] # "none" => s \in listed' \/ Removal(s)'

LEMMA OneMoreRequest ==
  ASSUME ConfigIInv, NEW base, NEW r, RequestFrom(base, <<r>>)
  PROVE  /\ \A n \in DOMAIN requests : n \in DOMAIN requests' /\ requests'[n] = requests[n]
         /\ \E n \in DOMAIN requests' : requests'[n] = r
  <1>1. PICK a, S : a = requests /\ S = AllFunctions \union {r}
    OBVIOUS
  <1>2. a \in Seq(S) /\ <<r>> \in Seq(S) /\ Len(<<r>>) = 1 /\ <<r>>[1] = r
    <2>1. requests \in Seq(AllFunctions)
      BY DEF ConfigIInv, ConfigTypes
    <2> QED BY <1>1, <2>1, SeqMonotonic
  <1>3. Joined(S, a, <<r>>, a \o <<r>>)
    BY <1>2, ConcatFacts
  <1>4. requests' = a \o <<r>>
    BY <1>1 DEF RequestFrom
  <1>5. PICK b : b = a \o <<r>>
    OBVIOUS
  <1>6. /\ Len(a) \in Nat /\ DOMAIN a = 1..Len(a) /\ DOMAIN b = 1..Len(a) + 1
        /\ \A n \in 1..Len(a) : b[n] = a[n]
        /\ \A j \in 1..1 : b[Len(a) + j] = r
    BY <1>2, <1>3, <1>5 DEF Joined
  <1>7. Len(a) + 1 \in 1..Len(a) + 1 /\ b[Len(a) + 1] = r /\ \A n \in 1..Len(a) : n \in 1..Len(a) + 1
    BY <1>6
  <1> QED BY <1>1, <1>4, <1>5, <1>6, <1>7

LEMMA SetMoves ==
  ASSUME ConfigIInv, NEW r, RequestConfigurationChange(r), UNCHANGED <<direction, listed>>
  PROVE  StreamsMove
  BY OneMoreRequest DEF RequestConfigurationChange, StreamsMove

LEMMA ReconfigureMoves ==
  ASSUME ConfigIInv, Reconfigure
  PROVE  StreamsMove
  <1>0. direction \in DirectionMaps
    BY DEF ConfigIInv, ConfigTypes
  <1>1. ASSUME NEW v, SetNominalSampleRateAsync(v) \/ SetZeroTimeStampPeriodAsync(v)
        PROVE  StreamsMove
    BY <1>1, SetMoves DEF SetNominalSampleRateAsync, SetZeroTimeStampPeriodAsync, SetAsync
  <1>2. ASSUME NEW list, NEW v, ChangeRates(list, v) PROVE StreamsMove
    BY <1>2, SetMoves DEF ChangeRates
  <1>3. ASSUME NEW s \in Streams, NEW dir \in Directions, AddStreamAsync(s, dir) PROVE StreamsMove
    <2>1. /\ direction[s] = "none" /\ direction' = [direction EXCEPT ![s] = dir]
          /\ listed' = listed \union {s}
          /\ RequestFrom(Constructed(s), <<<<Attach(s, dir)>>>>)
      BY <1>3 DEF AddStreamAsync, AddStreams
    <2>2. PICK base, r : base = Constructed(s) /\ r = <<Attach(s, dir)>>
      OBVIOUS
    <2>3. \A n \in DOMAIN requests : n \in DOMAIN requests' /\ requests'[n] = requests[n]
      BY <2>1, <2>2, OneMoreRequest
    <2>4. \A t \in Streams : direction'[t] = IF t = s THEN dir ELSE direction[t]
      BY <1>0, <2>1 DEF DirectionMaps
    <2> QED BY <2>1, <2>3, <2>4 DEF StreamsMove
  <1>4. ASSUME NEW s \in Streams, RemoveStreamAsync(s) PROVE StreamsMove
    <2>1. /\ listed' = listed \ {s} /\ UNCHANGED direction
          /\ RequestFrom(dev, <<<<Detach(s, direction[s])>>>>)
      BY <1>4 DEF RemoveStreamAsync, RequestConfigurationChange
    <2>2. PICK r : r = <<Detach(s, direction[s])>>
      OBVIOUS
    <2>3. /\ \A n \in DOMAIN requests : n \in DOMAIN requests' /\ requests'[n] = requests[n]
          /\ \E n \in DOMAIN requests' : requests'[n] = r
      BY <2>1, <2>2, OneMoreRequest
    <2>4. Removal(s)'
      BY <2>1, <2>2, <2>3 DEF Removal
    <2> QED BY <2>1, <2>3, <2>4 DEF StreamsMove
  <1>5. InitializeDriver \/ Publish => StreamsMove
    BY DEF InitializeDriver, Publish, StreamsMove
  <1> QED BY <1>1, <1>2, <1>3, <1>4, <1>5 DEF Reconfigure

LEMMA ConfigMoves ==
  ASSUME ConfigIInv, Reconfigure \/ Answer \/ Withdraw \/ UNCHANGED configVars
  PROVE  StreamsMove
  <1>1. Answer \/ Withdraw \/ UNCHANGED configVars => UNCHANGED <<requests, direction, listed>>
    BY DEF Answer, HALAnswers, PerformConfigurationChange, AbortConfigurationChange, Withdraw,
           Unpublish, configVars
  <1>2. UNCHANGED <<requests, direction, listed>> => StreamsMove
    BY DEF StreamsMove
  <1> QED BY <1>1, <1>2, ReconfigureMoves

LEMMA RemovalStays ==
  ASSUME StreamsMove, NEW s \in Streams, direction[s] # "none", Removal(s)
  PROVE  Removal(s)'
  BY DEF StreamsMove, Removal

\* The steps of the configuration, and those on which no operation begins or is looked up.
LEMMA StreamsElsewhere ==
  ASSUME StreamsKnown, StreamsMove,
         \/ UNCHANGED io
         \/ io'.stream = io.stream /\ io.at # "idle" /\ io'.at \notin {"idle", "illegal"}
         \/ io'.at = "idle"
  PROVE  StreamsKnown'
  <1>1. ASSUME NEW s \in Streams, direction'[s] # "none" PROVE s \in listed' \/ Removal(s)'
    BY <1>1, RemovalStays DEF StreamsKnown, StreamsMove
  <1>2. io'.at # "idle" => io'.stream \in Streams /\ direction'[io'.stream] # "none"
    BY DEF StreamsKnown, StreamsMove
  <1>3. OnlyRemovedStreamsAreRefused'
    <2> SUFFICES ASSUME io'.at = "illegal" PROVE Removal(io.stream)' /\ io' = io
      BY DEF OnlyRemovedStreamsAreRefused, Removal
    <2>1. io' = io /\ io.at = "illegal"
      OBVIOUS
    <2>2. io.stream \in Streams /\ direction[io.stream] # "none"
      BY <2>1 DEF StreamsKnown
    <2>3. Removal(io.stream)
      BY <2>1 DEF StreamsKnown, OnlyRemovedStreamsAreRefused, Removal
    <2>4. PICK s \in Streams : s = io.stream
      BY <2>2
    <2>5. Removal(s)'
      BY <2>2, <2>3, <2>4, RemovalStays
    <2> QED BY <2>1, <2>4, <2>5 DEF Removal
  <1> QED BY <1>1, <1>2, <1>3 DEF StreamsKnown

LEMMA BeginStreams ==
  ASSUME StreamsKnown, StreamsMove, NEW c, NEW s \in Streams, NEW operation \in Operations,
         BeginIOOperation(c, s, operation)
  PROVE  StreamsKnown'
  <1>1. /\ io'.at = "begun" /\ io'.stream = s /\ UNCHANGED configVars
        /\ direction[s] \in {"input", "output"}
    BY DEF BeginIOOperation
  <1>2. UNCHANGED <<direction, requests, listed>>
    BY <1>1 DEF configVars
  <1> QED BY <1>1, <1>2 DEF StreamsKnown, OnlyRemovedStreamsAreRefused, Removal

LEMMA LookUpStreams ==
  ASSUME StreamsKnown, StreamsMove, RouteInv, DoIOOperation
  PROVE  StreamsKnown'
  <1>1. UNCHANGED <<direction, requests, listed>>
    BY DEF DoIOOperation, configVars
  <1>2. io.stream \in Streams /\ direction[io.stream] # "none" /\ io.at = "begun"
    BY DEF StreamsKnown, DoIOOperation
  <1>3. /\ io'.stream = io.stream
        /\ io'.at = IF io.stream \in listed THEN "handler" ELSE "illegal"
    BY DEF DoIOOperation, GetStreamByID, RouteInv, CycleRight
  <1>4. io'.at = "illegal" => Removal(io.stream)
    BY <1>2, <1>3 DEF StreamsKnown
  <1> QED BY <1>1, <1>2, <1>3, <1>4 DEF StreamsKnown, OnlyRemovedStreamsAreRefused, Removal


-----------------------------------------------------------------------------
\* All together

LEMMA IOIInit == IOInit => IOIInv
  <1> SUFFICES ASSUME IOInit PROVE IOIInv
    OBVIOUS
  <1>1. ConfigIInv /\ RouteInv /\ StartsCounted
    BY IOConfigInit, RouteInit, CountedInit
  <1>2. retired \subseteq Clients /\ started = {} /\ io.at = "idle"
    BY DEF IOInit, Idle
  <1>3. ClockRight
    <2>1. /\ now = 0 /\ anchor = 0 /\ periods = 0 /\ stamp = "none"
          /\ zero = [sample |-> 0, host |-> 0]
      BY DEF IOInit
    <2>2. 0 \in 0..MaxTime /\ 0 \in 0..0
      BY IOAssumption DEF IOAssumption
    <2> QED BY <1>2, <2>1, <2>2 DEF ClockRight, StampNotInFuture
  <1>4. StreamsKnown
    <2>1. PICK s \in Streams : InitializeObjects(s)
      BY IOAssumption DEF IOInit, IOAssumption
    <2>2. listed = {s} /\ direction = [x \in Streams |-> IF x = s THEN "input" ELSE "none"]
      BY <2>1 DEF InitializeObjects
    <2> QED BY <1>2, <2>2 DEF StreamsKnown, OnlyRemovedStreamsAreRefused
  <1> QED BY <1>1, <1>2, <1>3, <1>4 DEF IOIInv

LEMMA ClockStep ==
  ASSUME IOIInv, [IONext]_vars
  PROVE  ClockRight'
  <1>1. ConfigIInv /\ StartsCounted /\ ClockRight /\ StartedKnown
    BY DEF IOIInv, RouteInv
  <1>2. UNCHANGED <<clockVars, dev, started, host, owned>> => ClockRight'
    BY <1>1, ClockElsewhere
  <1>3. CASE GetZeroTimeStamp
    BY <1>1, <1>3, StampTaken
  <1>4. CASE Tick
    BY <1>1, <1>4, TickRight
  <1>5. CASE \E c \in Clients : StartIO(c)
    BY <1>1, <1>5, StartClockRight
  <1>6. CASE \E c \in Clients : StopIO(c)
    <2>1. UNCHANGED <<clockVars, dev, host, owned>> /\ started' \subseteq started
      BY <1>6 DEF StopIO, configVars
    <2> QED BY <1>1, <2>1, ClockElsewhere
  <1>7. CASE \/ \E c \in Clients : (\E bundle \in Apps, ok \in BOOLEAN : AddClient(c, bundle, ok))
                                  \/ RemoveClient(c)
             \/ \E c \in Clients, s \in Streams, operation \in Operations : BeginIOOperation(c, s, operation)
             \/ DoIOOperation \/ (\E alive \in BOOLEAN : CallHandler(alive)) \/ EndIOOperation \/ UNCHANGED vars
    <2>1. UNCHANGED <<clockVars, configVars, runVars>>
      BY <1>7 DEF AddClient, RemoveClient, BeginIOOperation, DoIOOperation, CallHandler,
                  EndIOOperation, vars
    <2> QED BY <1>2, <2>1 DEF configVars, runVars
  <1>8. CASE Withdraw
    <2>1. stamp' = "void" /\ UNCHANGED <<now, anchor, periods, zero>>
      BY <1>8 DEF Withdraw
    <2> QED BY <1>1, <2>1 DEF ClockRight, StampNotInFuture
  <1>9. CASE Answer
    <2>1. started' = {} /\ UNCHANGED <<now, anchor, periods, zero, stamp>>
      BY <1>9 DEF Answer, ioVars, runVars, clockVars
    <2> QED BY <1>1, <2>1 DEF ClockRight, StampNotInFuture
  <1>10. CASE Reconfigure
    <2>1. UNCHANGED <<started, now, anchor, periods, zero, stamp>>
      BY <1>10 DEF Reconfigure, ioVars, runVars, clockVars
    <2>2. CASE host /\ owned
      <3>1. dev'.cfg[Device] = dev.cfg[Device]
        BY <1>1, <1>10, <2>2, FieldsFrozen
      <3>2. Period' = Period /\ (periods' = periods => HostTicks(periods)' = HostTicks(periods))
        BY <3>1 DEF Period, HostTicks
      <3>3. host' /\ owned'
        BY <1>10, <2>2 DEF Reconfigure, SetNominalSampleRateAsync, SetZeroTimeStampPeriodAsync, SetAsync,
           ChangeRates, AddStreamAsync, AddStreams, RemoveStreamAsync, RequestConfigurationChange,
           RequestFrom, InitializeDriver, Publish
      <3> QED BY <1>1, <2>1, <3>2, <3>3 DEF ClockRight, StampNotInFuture
    <2>3. CASE ~(host /\ owned)
      <3>1. started = {} \/ stamp = "void"
        BY <1>1, <2>3 DEF ClockRight
      <3> QED BY <1>1, <2>1, <3>1 DEF ClockRight, StampNotInFuture
    <2> QED BY <2>2, <2>3
  <1> QED BY <1>3, <1>4, <1>5, <1>6, <1>7, <1>8, <1>9, <1>10 DEF IONext

LEMMA StreamsStep ==
  ASSUME IOIInv, [IONext]_vars
  PROVE  StreamsKnown'
  <1>1. ConfigIInv /\ StreamsKnown /\ RouteInv
    BY DEF IOIInv
  <1>2. Driven \/ Reconfigure \/ Answer \/ Withdraw \/ UNCHANGED vars
    BY StepKinds
  <1>3. StreamsMove
    BY <1>1, <1>2, DrivenKeeps, ConfigMoves DEF vars
  <1>4. CASE \E c \in Clients, s \in Streams, operation \in Operations : BeginIOOperation(c, s, operation)
    BY <1>1, <1>3, <1>4, BeginStreams
  <1>5. CASE DoIOOperation
    BY <1>1, <1>3, <1>5, LookUpStreams
  <1>6. CASE \E alive \in BOOLEAN : CallHandler(alive)
    <2>1. io.at = "handler" /\ io'.stream = io.stream /\ io'.at = "done"
      BY <1>1, <1>6 DEF CallHandler, RouteInv, CycleRight
    <2> QED BY <1>1, <1>3, <2>1, StreamsElsewhere
  <1>7. CASE EndIOOperation
    <2>1. io'.at = "idle"
      BY <1>7 DEF EndIOOperation, Idle
    <2> QED BY <1>1, <1>3, <2>1, StreamsElsewhere
  <1>8. CASE \/ \E c \in Clients : \/ \E bundle \in Apps, ok \in BOOLEAN : AddClient(c, bundle, ok)
                                   \/ RemoveClient(c) \/ StartIO(c) \/ StopIO(c)
             \/ Elsewhere
    <2>1. UNCHANGED io
      BY <1>8, ElsewhereKeeps DEF AddClient, RemoveClient, StartIO, StopIO
    <2> QED BY <1>1, <1>3, <2>1, StreamsElsewhere
  <1> QED BY <1>2, <1>4, <1>5, <1>6, <1>7, <1>8 DEF Driven, Elsewhere

LEMMA RetiredStep ==
  ASSUME retired \subseteq Clients, [IONext]_vars
  PROVE  retired' \subseteq Clients
  <1>1. ASSUME NEW c \in Clients, RemoveClient(c) PROVE retired' \subseteq Clients
    BY <1>1 DEF RemoveClient
  <1>2. ASSUME NEW c \in Clients, NEW bundle \in Apps, NEW ok \in BOOLEAN, AddClient(c, bundle, ok)
        PROVE  retired' = retired
    BY <1>2 DEF AddClient
  <1>3. ASSUME NEW c \in Clients, StartIO(c) \/ StopIO(c)
        PROVE  retired' = retired
    BY <1>3 DEF StartIO, StopIO, clientVars
  <1>4. ASSUME NEW c, NEW s, NEW operation, BeginIOOperation(c, s, operation) PROVE retired' = retired
    BY <1>4 DEF BeginIOOperation, clientVars
  <1>5. DoIOOperation \/ (\E alive \in BOOLEAN : CallHandler(alive)) \/ EndIOOperation => retired' = retired
    BY DEF DoIOOperation, CallHandler, EndIOOperation, clientVars
  <1>6. Elsewhere => retired' = retired
    BY ElsewhereKeeps DEF clientVars
  <1> QED BY <1>1, <1>2, <1>3, <1>4, <1>5, <1>6 DEF IONext, Elsewhere

LEMMA IOIStep == IOIInv /\ [IONext]_vars => IOIInv'
  <1> SUFFICES ASSUME IOIInv, [IONext]_vars PROVE IOIInv'
    OBVIOUS
  <1>1. ConfigIInv /\ RouteInv /\ StartsCounted /\ retired \subseteq Clients
    BY DEF IOIInv
  <1>2. ConfigIInv' /\ RouteInv' /\ StartsCounted' /\ retired' \subseteq Clients
    BY <1>1, IOConfigStep, RouteStep, CountedStep, RetiredStep
  <1>3. ClockRight' /\ StreamsKnown'
    BY ClockStep, StreamsStep
  <1> QED BY <1>2, <1>3 DEF IOIInv

LEMMA IOTypesGiven == IOIInv => IOTypeOK
  <1> SUFFICES ASSUME IOIInv PROVE IOTypeOK
    OBVIOUS
  <1>1. /\ ConfigIInv /\ ClientsKnown /\ CacheRight /\ StartedKnown /\ CycleRight
        /\ StartsCounted /\ ClockRight /\ retired \subseteq Clients
    BY DEF IOIInv, RouteInv
  <1>2. started \subseteq Clients
    BY <1>1 DEF StartedKnown
  <1>3. startCount \in 0..Cardinality(Clients)
    <2>1. Cardinality(Clients) \in Nat /\ Cardinality(started) \in Nat
          /\ Cardinality(started) <= Cardinality(Clients)
      BY <1>2, IOAssumption, FS_Subset, FS_CardinalityType DEF IOAssumption
    <2> QED BY <1>1, <2>1 DEF StartsCounted, HALKnowsRunning
  <1>4. halRunning \in BOOLEAN
    BY <1>1 DEF StartsCounted, HALKnowsRunning, GetIsRunning
  <1>5. TypeOK
    BY <1>1, TypesGiven
  <1>6. io.at \in {"idle", "begun", "handler", "done", "illegal"}
    BY <1>1 DEF CycleRight
  <1> QED BY <1>1, <1>2, <1>3, <1>4, <1>5, <1>6
          DEF IOTypeOK, ClientsKnown, CacheRight, ClockRight, Bundles

LEMMA VisibleGiven == ConfigIInv => WillDoIsVisible
  <1> SUFFICES ASSUME ConfigIInv, ~StreamChangeAborted, NEW operation \in Operations,
                      WillDoIOOperation(operation)
               PROVE  \E s \in Streams \intersect dev.children :
                        direction[s] = IF operation \in {"ReadInput", "ProcessInput"}
                                       THEN "input" ELSE "output"
    BY DEF WillDoIsVisible
  <1>1. PICK where \in {"input", "output"} :
          where = IF operation \in {"ReadInput", "ProcessInput"} THEN "input" ELSE "output"
    OBVIOUS
  <1>2. Counts(dev, direction)
    <2>1. ConfigTypes /\ Coming
      BY DEF ConfigIInv
    <2>2. Len(pending) \in Nat /\ Len(Queued) = Len(pending)
      BY <2>1, QueuedFacts DEF ConfigTypes
    <2>3. Course(requests, dev, Queued)[0] = dev
      BY <2>2, CourseWalk DEF Walk
    <2>4. 0 \in 0..Len(pending)
      BY <2>2
    <2> QED BY <2>1, <2>3, <2>4 DEF Coming, ComingTo
  <1>3. DevOK(dev)
    BY DEF ConfigIInv, Good
  <1>4. IF where = "input" THEN dev.inputs > 0 ELSE dev.outputs > 0
    BY <1>1 DEF WillDoIOOperation
  <1>5. Cardinality(AttachedTo(dev, direction, where)) # 0
    BY <1>1, <1>2, <1>4 DEF Counts
  <1>6. AttachedTo(dev, direction, where) # {}
    BY <1>5, FS_EmptySet
  <1> QED BY <1>1, <1>6 DEF AttachedTo

\* With any number of clients and streams and any requests between the
\* operations of the cycle: the count of starts and the HAL's idea of it are
\* right, a stream the HAL sees is refused only when its removal was requested,
\* the HAL is offered only operations for which it sees a stream, and a zero
\* time stamp is never in the future (Device.cpp:1081-1370).
THEOREM IOInvHolds == IOSpec => []IOInv
  <1>1. IOIInv => IOInv
    <2> SUFFICES ASSUME IOIInv PROVE IOInv
      OBVIOUS
    <2>1. ConfigIInv /\ StartsCounted /\ ClockRight /\ StreamsKnown
      BY DEF IOIInv
    <2> QED BY <2>1, IOTypesGiven, VisibleGiven DEF IOInv, StartsCounted, ClockRight, StreamsKnown
  <1> QED BY <1>1, IOIInit, IOIStep, PTL DEF IOSpec

\* Zero time stamps only go forward while I/O runs on a device that stays
\* published, whatever rates and periods are requested meanwhile
\* (Device.cpp:1165-1207).
THEOREM StampsAdvanceHolds == IOSpec => StampsAdvance
  <1>1. IOIInv /\ [IONext]_vars =>
          [stamp = "taken" /\ stamp' = "taken" => zero'.sample >= zero.sample /\ zero'.host >= zero.host]_vars
    <2> SUFFICES ASSUME IOIInv, [IONext]_vars, stamp = "taken", stamp' = "taken"
                 PROVE  zero'.sample >= zero.sample /\ zero'.host >= zero.host
      OBVIOUS
    <2>1. ConfigIInv /\ ClockRight
      BY DEF IOIInv
    <2>2. CASE GetZeroTimeStamp
      BY <2>1, <2>2, StampTaken
    <2>3. CASE UNCHANGED zero
      BY <2>1, <2>3 DEF ClockRight
    <2>4. CASE ~GetZeroTimeStamp
      <3>1. \A c \in Clients : StartIO(c) => UNCHANGED zero
        BY DEF StartIO, StartClock, clockVars
      <3>2. \A c \in Clients, bundle \in Apps, ok \in BOOLEAN : AddClient(c, bundle, ok) => UNCHANGED zero
        BY DEF AddClient, clockVars
      <3>3. \A c \in Clients : RemoveClient(c) \/ StopIO(c) => UNCHANGED zero
        BY DEF RemoveClient, StopIO, clockVars
      <3>4. \A c \in Clients, s \in Streams, operation \in Operations :
              BeginIOOperation(c, s, operation) => UNCHANGED zero
        BY DEF BeginIOOperation, clockVars
      <3>5. Tick \/ DoIOOperation \/ (\E alive \in BOOLEAN : CallHandler(alive)) \/ EndIOOperation => UNCHANGED zero
        BY DEF Tick, DoIOOperation, CallHandler, EndIOOperation, clockVars
      <3>6. Reconfigure \/ Answer \/ Withdraw \/ UNCHANGED vars => UNCHANGED zero
        BY DEF Reconfigure, Answer, Withdraw, ioVars, clockVars, vars
      <3> QED BY <2>3, <2>4, <3>1, <3>2, <3>3, <3>4, <3>5, <3>6 DEF IONext
    <2> QED BY <2>2, <2>4
  <1> QED BY <1>1, IOIInit, IOIStep, PTL DEF IOSpec, StampsAdvance

=============================================================================
