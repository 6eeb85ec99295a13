-------------------------- MODULE PluginDevicesProofs --------------------------
(***************************************************************************)
(* Proofs about PluginDevices.tla for any devices, streams and controls,   *)
(* any properties watched and any number of operations.                    *)
(***************************************************************************)
EXTENDS PluginDevices, FiniteSetTheorems, SequenceTheorems, TLAPS

PluginOperations ==
  [stage : {"byID", "byUID", "owner", "notify"}, device : Devices, add : BOOLEAN]

SetterOperations(o) ==
  [stage : {"notify"}, changed : SUBSET {p \in Switches \union Volumes : p[1] = o}]

\* Each object has at most one operation under way, of its own kind.
BusyOK ==
  /\ busy = [o \in Holders |-> busy[o]]
  /\ busy[Plugin] \in {Free} \union PluginOperations
  /\ \A o \in Holders \ {Plugin} : busy[o] \in {Free} \union SetterOperations(o)

Distinct(seq) == \A i, j \in DOMAIN seq : seq[i] = seq[j] => i = j

\* How far an operation has come through the three tables and the ownership.
TablesStaged ==
  LET operation == busy[Plugin] IN
  /\ devices \in Seq(Devices)
  /\ owned \subseteq Devices /\ deviceByID \subseteq Devices /\ deviceByUID \subseteq Devices
  /\ Distinct(devices)
  /\ operation.stage \in {"free", "notify"} =>
       ToSet(devices) = owned /\ deviceByID = owned /\ deviceByUID = owned
  /\ operation.stage \in {"byID", "byUID", "owner"} =>
       /\ operation.add <=> operation.device \notin owned
       /\ ToSet(devices) = Entered(owned, operation)
       /\ deviceByID = IF operation.stage = "byID" THEN owned ELSE Entered(owned, operation)
       /\ deviceByUID = IF operation.stage = "owner" THEN Entered(owned, operation) ELSE owned

\* Properties of which a notification that names them is still to come or to be
\* acted on: more precise than Announced.
WillBeAsked(p) ==
  \/ p \in stale
  \/ refresh # NoRefresh /\ refresh.of = p
  \/ p = List /\ busy[Plugin].stage = "notify"
  \/ p # List /\ busy[p[1]].stage = "notify" /\ p \in busy[p[1]].changed

\* A size that the HAL was told is that of the list, unless it will ask again.
SizeIsCurrent ==
  refresh # NoRefresh /\ refresh.of = List =>
    refresh.room = Cardinality(owned) \/ List \in stale \/ busy[Plugin].stage = "notify"

ValuesAllowed(p) ==
  CASE p = List -> Devices
    [] p \in Switches -> BOOLEAN
    [] p \in Volumes -> MinRawVolume..MaxRawVolume

HALKnows ==
  /\ host \in BOOLEAN
  /\ watched \subseteq Properties
  /\ view = [p \in watched |-> view[p]]
  /\ \A p \in watched : view[p] \subseteq ValuesAllowed(p)
  /\ stale \subseteq watched
  /\ refresh # NoRefresh => refresh \in [of : watched, room : Nat]
  /\ refresh # NoRefresh \/ stale # {} => host
  /\ SizeIsCurrent
  /\ host => \A p \in watched : WillBeAsked(p) \/ view[p] = Actual(p)

ValuesOK ==
  /\ value \in [Switches -> BOOLEAN]
  /\ raw \in [VolumeControls -> MinRawVolume..MaxRawVolume]
  /\ operations \in 0..MaxOperations

PluginIInv == BusyOK /\ TablesStaged /\ HALKnows /\ ValuesOK

-----------------------------------------------------------------------------
\* Sequences without duplicates

\* Natural numbers have a least one.
LEMMA LeastExists ==
  ASSUME NEW S \in SUBSET Nat, S # {}
  PROVE  \E m \in S : \A n \in S : m <= n
  <1> DEFINE R == OpToRel(<, Nat)
  <1>1. IsWellFoundedOn(R, Nat)
    BY NatLessThanWellFounded
  <1>2. \A x, y \in Nat : x < y => <<x, y>> \in R
    BY DEF OpToRel
  <1> HIDE DEF R
  <1>3. PICK m \in S : \A n \in S : <<n, m>> \notin R
    BY <1>1, WFMin, Zenon
  <1>4. \A n \in S : ~(n < m)
    BY <1>2, <1>3, Zenon
  <1>5. \A n \in S : m <= n
    BY <1>4, SMT
  <1> QED BY <1>5

\* A sequence without duplicates is as long as its set of elements is large.
LEMMA DistinctCounts ==
  ASSUME NEW S, NEW seq \in Seq(S), Distinct(seq)
  PROVE  IsFiniteSet(ToSet(seq)) /\ Cardinality(ToSet(seq)) = Len(seq)
  <1>1. seq \in [1..Len(seq) -> ToSet(seq)] /\ Len(seq) \in Nat
    BY DEF ToSet
  <1>2. seq \in Bijection(1..Len(seq), ToSet(seq))
    BY <1>1 DEF Distinct, ToSet, Bijection, Injection, Surjection, IsInjective
  <1>3. ExistsBijection(1..Len(seq), ToSet(seq))
    BY <1>2 DEF ExistsBijection
  <1>4. IsFiniteSet(1..Len(seq))
    BY <1>1, FS_Interval
  <1>5. IsFiniteSet(ToSet(seq))
    BY <1>3, <1>4, FS_Bijection
  <1> QED BY <1>1, <1>3, <1>5, FS_CountingElements

LEMMA AppendDistinct ==
  ASSUME NEW S, NEW seq \in Seq(S), Distinct(seq), NEW e \in S, e \notin ToSet(seq)
  PROVE  /\ Append(seq, e) \in Seq(S)
         /\ Distinct(Append(seq, e))
         /\ ToSet(Append(seq, e)) = ToSet(seq) \union {e}
  BY DEF Distinct, ToSet

\* RemoveFirst takes the only occurrence of an element out.
LEMMA RemoveFirstDistinct ==
  ASSUME NEW S, NEW seq \in Seq(S), Distinct(seq), NEW e \in S
  PROVE  /\ RemoveFirst(seq, e) \in Seq(S)
         /\ Distinct(RemoveFirst(seq, e))
         /\ ToSet(RemoveFirst(seq, e)) = ToSet(seq) \ {e}
  <1>1. CASE ~\E i \in 1..Len(seq) : seq[i] = e
    BY <1>1 DEF RemoveFirst, ToSet
  <1>2. CASE \E i \in 1..Len(seq) : seq[i] = e
    <2> DEFINE found == {i \in 1..Len(seq) : seq[i] = e}
               pos == Min(found)
               left == RemoveAt(seq, pos)
    <2>1. pos \in 1..Len(seq) /\ seq[pos] = e
      <3>1. found \in SUBSET Nat /\ found # {}
        BY <1>2
      <3>2. \E m \in found : \A n \in found : m <= n
        BY <3>1, LeastExists
      <3>3. pos \in found
        BY <3>2 DEF Min
      <3> QED BY <3>3
    <2>2. RemoveFirst(seq, e) = left
      BY <1>2 DEF RemoveFirst, SelectInSeq
    <2> HIDE DEF pos
    <2> DEFINE before == SubSeq(seq, 1, pos - 1)
               after == SubSeq(seq, pos + 1, Len(seq))
    <2>3. /\ before \in Seq(S) /\ Len(before) = pos - 1
          /\ \A i \in 1..pos - 1 : before[i] = seq[i]
      BY <2>1
    <2>4. /\ after \in Seq(S) /\ Len(after) = Len(seq) - pos
          /\ \A i \in 1..Len(seq) - pos : after[i] = seq[pos + i]
      BY <2>1
    <2>9. left = before \o after
      BY DEF RemoveAt
    <2> HIDE DEF before, after, left
    <2>5. /\ left \in Seq(S) /\ Len(left) = Len(seq) - 1
          /\ \A i \in 1..Len(seq) - 1 : left[i] = IF i < pos THEN seq[i] ELSE seq[i + 1]
      <3>1. /\ left \in Seq(S) /\ Len(left) = Len(before) + Len(after)
            /\ \A i \in 1..Len(before) + Len(after) :
                 left[i] = IF i <= Len(before) THEN before[i] ELSE after[i - Len(before)]
        BY <2>3, <2>4, <2>9, ConcatProperties
      <3>2. Len(before) = pos - 1 /\ Len(before) + Len(after) = Len(seq) - 1
        BY <2>1, <2>3, <2>4
      <3>3. ASSUME NEW i \in 1..Len(seq) - 1
            PROVE  left[i] = IF i < pos THEN seq[i] ELSE seq[i + 1]
        <4>1. CASE i < pos
          <5>1. i \in 1..Len(before) + Len(after) /\ i <= Len(before) /\ i \in 1..pos - 1
            BY <2>1, <3>2, <4>1
          <5>2. left[i] = before[i]
            BY <3>1, <5>1
          <5> QED BY <2>3, <4>1, <5>1, <5>2
        <4>2. CASE i >= pos
          <5>0. i - (pos - 1) \in 1..Len(seq) - pos
            BY <2>1, <4>2
          <5>1. left[i] = after[i - (pos - 1)]
            <6>1. i \in 1..Len(before) + Len(after) /\ ~(i <= Len(before))
              BY <2>1, <3>2, <4>2
            <6>2. left[i] = after[i - Len(before)]
              BY <3>1, <6>1
            <6> QED BY <3>2, <6>2
          <5>2. after[i - (pos - 1)] = seq[pos + (i - (pos - 1))]
            BY <2>4, <5>0
          <5>3. pos + (i - (pos - 1)) = i + 1 /\ ~(i < pos)
            BY <2>1, <4>2
          <5> QED BY <5>1, <5>2, <5>3
        <4> QED BY <2>1, <4>1, <4>2
      <3> QED BY <3>1, <3>2, <3>3
    <2>6. Distinct(left)
      BY <2>1, <2>5 DEF Distinct
    <2>7. ToSet(left) \subseteq ToSet(seq) \ {e}
      BY <2>1, <2>5 DEF Distinct, ToSet
    <2>8. ASSUME NEW x \in ToSet(seq) \ {e} PROVE x \in ToSet(left)
      <3>1. PICK i \in 1..Len(seq) : seq[i] = x
        BY DEF ToSet
      <3>2. i # pos
        BY <2>1, <3>1
      <3>3. CASE i < pos
        BY <2>1, <2>5, <3>1, <3>3 DEF ToSet
      <3>4. CASE i > pos
        <4>1. i - 1 \in 1..Len(seq) - 1 /\ left[i - 1] = seq[i]
          BY <2>1, <2>5, <3>4
        <4> QED BY <2>5, <3>1, <4>1 DEF ToSet
      <3> QED BY <2>1, <3>2, <3>3, <3>4
    <2> QED BY <2>2, <2>5, <2>6, <2>7, <2>8
  <1> QED BY <1>1, <1>2

-----------------------------------------------------------------------------
\* The tables

LEMMA HoldersOfThePlugin ==
  /\ Plugin \in Holders
  /\ \A p \in Properties \ {List} : p[1] \in Holders \ {Plugin}
  /\ \A p \in Properties : p # List <=> p \in Switches \union Volumes
  <1>1. List[1] = Plugin
    BY DEF List
  <1>2. \A p \in Switches \union Volumes : p[1] \in Holders \ {Plugin}
    BY PluginAssumption DEF PluginAssumption, Holders, Switches, Volumes
  <1> QED BY <1>1, <1>2 DEF Holders, Properties

\* The kinds of properties, and what each may be.
LEMMA Kinds ==
  /\ Actual(List) = owned /\ ValuesAllowed(List) = Devices
  /\ \A p \in Switches : Actual(p) = {value[p]} /\ ValuesAllowed(p) = BOOLEAN
  /\ \A p \in Volumes : /\ Actual(p) = {raw[p[1]]} /\ p[1] \in VolumeControls
                        /\ ValuesAllowed(p) = MinRawVolume..MaxRawVolume
  <1>1. List \notin Switches \union Volumes
    BY HoldersOfThePlugin DEF Properties
  <1>2. \A p \in Switches : p[2] \in DeviceSwitches \union {"IsActive", "IsMuted"}
    BY DEF Switches
  <1>3. \A p \in Volumes : p[2] \in {"ScalarValue", "DecibelValue"} /\ p[1] \in VolumeControls
    BY DEF Volumes
  <1>4. Switches \intersect Volumes = {}
    BY <1>2, <1>3 DEF DeviceSwitches
  <1>5. \A p \in Switches : p # List /\ p \notin Volumes
    BY <1>1, <1>4
  <1>6. \A p \in Volumes : p # List /\ p \notin Switches
    BY <1>1, <1>4
  <1>7. Actual(List) = owned /\ ValuesAllowed(List) = Devices
    BY <1>1 DEF Actual, ValuesAllowed
  <1>8. ASSUME NEW p \in Switches PROVE Actual(p) = {value[p]} /\ ValuesAllowed(p) = BOOLEAN
    BY <1>5 DEF Actual, ValuesAllowed
  <1>9. ASSUME NEW p \in Volumes
        PROVE  Actual(p) = {raw[p[1]]} /\ ValuesAllowed(p) = MinRawVolume..MaxRawVolume
    BY <1>6 DEF Actual, ValuesAllowed
  <1> QED BY <1>3, <1>7, <1>8, <1>9

\* The operations that do not concern the plug-in itself.
LEMMA TablesElsewhere ==
  TablesStaged /\ UNCHANGED <<tableVars, busy[Plugin]>> => TablesStaged'
  BY DEF TablesStaged, tableVars, Entered

LEMMA AddDeviceStaged ==
  ASSUME BusyOK, TablesStaged, NEW d \in Devices, AddDevice(d)
  PROVE  TablesStaged' /\ busy'[Plugin] \in PluginOperations
  <1>1. /\ busy[Plugin] = Free
        /\ busy' = [busy EXCEPT ![Plugin] = [stage |-> "byID", device |-> d, add |-> TRUE]]
        /\ d \notin owned /\ devices' = Append(devices, d)
        /\ UNCHANGED <<deviceByID, deviceByUID, owned>>
    BY DEF AddDevice, Begin
  <1>2. busy'[Plugin] = [stage |-> "byID", device |-> d, add |-> TRUE]
    BY <1>1, HoldersOfThePlugin DEF BusyOK
  <1>3. devices \in Seq(Devices) /\ Distinct(devices) /\ ToSet(devices) = owned
        /\ deviceByID = owned /\ deviceByUID = owned
    BY <1>1 DEF TablesStaged, Free
  <1>4. /\ devices' \in Seq(Devices) /\ Distinct(devices')
        /\ ToSet(devices') = owned \union {d}
    BY <1>1, <1>3, AppendDistinct
  <1> QED BY <1>1, <1>2, <1>3, <1>4 DEF TablesStaged, Entered, PluginOperations

LEMMA RemoveDeviceStaged ==
  ASSUME BusyOK, TablesStaged, NEW d \in Devices, RemoveDevice(d)
  PROVE  TablesStaged' /\ busy'[Plugin] \in PluginOperations
  <1>1. /\ busy[Plugin] = Free
        /\ busy' = [busy EXCEPT ![Plugin] = [stage |-> "byID", device |-> d, add |-> FALSE]]
        /\ d \in owned /\ devices' = RemoveFirst(devices, d)
        /\ UNCHANGED <<deviceByID, deviceByUID, owned>>
    BY DEF RemoveDevice, Begin
  <1>2. busy'[Plugin] = [stage |-> "byID", device |-> d, add |-> FALSE]
    BY <1>1, HoldersOfThePlugin DEF BusyOK
  <1>3. devices \in Seq(Devices) /\ Distinct(devices) /\ ToSet(devices) = owned
        /\ deviceByID = owned /\ deviceByUID = owned
    BY <1>1 DEF TablesStaged, Free
  <1>4. /\ devices' \in Seq(Devices) /\ Distinct(devices')
        /\ ToSet(devices') = owned \ {d}
    BY <1>1, <1>3, RemoveFirstDistinct
  <1> QED BY <1>1, <1>2, <1>3, <1>4 DEF TablesStaged, Entered, PluginOperations

\* An operation that goes on keeps its device and its direction.
LEMMA ContinueBusy ==
  ASSUME BusyOK, busy[Plugin].stage # "free",
         NEW to \in {"byID", "byUID", "owner", "notify"}, Continue(Plugin, to)
  PROVE  /\ busy[Plugin] \in PluginOperations /\ busy'[Plugin] \in PluginOperations
         /\ busy'[Plugin].stage = to
         /\ busy'[Plugin].device = busy[Plugin].device
         /\ busy'[Plugin].add = busy[Plugin].add
         /\ busy' = [busy EXCEPT ![Plugin] = busy'[Plugin]]
  <1>1. busy[Plugin] \in PluginOperations
    BY DEF BusyOK, Free
  <1>2. busy' = [busy EXCEPT ![Plugin] = [busy[Plugin] EXCEPT !.stage = to]]
    BY DEF Continue
  <1>3. busy'[Plugin] = [busy[Plugin] EXCEPT !.stage = to]
    BY <1>2, HoldersOfThePlugin DEF BusyOK
  <1> QED BY <1>1, <1>2, <1>3 DEF PluginOperations

LEMMA PluginStepStaged ==
  ASSUME BusyOK, TablesStaged, EnterByID \/ EnterByUID \/ RequestOwnershipChange
  PROVE  TablesStaged' /\ busy'[Plugin] \in PluginOperations
  <1> DEFINE operation == busy[Plugin]
  <1>1. CASE EnterByID
    <2>1. /\ operation.stage = "byID" /\ Continue(Plugin, "byUID")
          /\ deviceByID' = Entered(deviceByID, operation)
          /\ UNCHANGED <<devices, deviceByUID, owned>>
      BY <1>1 DEF EnterByID
    <2>2. /\ busy'[Plugin].stage = "byUID" /\ busy'[Plugin].device = operation.device
          /\ busy'[Plugin].add = operation.add /\ operation.device \in Devices
          /\ busy'[Plugin] \in PluginOperations
      BY <2>1, ContinueBusy DEF PluginOperations
    <2> QED BY <2>1, <2>2 DEF TablesStaged, Entered
  <1>2. CASE EnterByUID
    <2>1. /\ operation.stage = "byUID" /\ Continue(Plugin, "owner")
          /\ deviceByUID' = Entered(deviceByUID, operation)
          /\ UNCHANGED <<devices, deviceByID, owned>>
      BY <1>2 DEF EnterByUID
    <2>2. /\ busy'[Plugin].stage = "owner" /\ busy'[Plugin].device = operation.device
          /\ busy'[Plugin].add = operation.add /\ operation.device \in Devices
          /\ busy'[Plugin] \in PluginOperations
      BY <2>1, ContinueBusy DEF PluginOperations
    <2> QED BY <2>1, <2>2 DEF TablesStaged, Entered
  <1>3. CASE RequestOwnershipChange
    <2>1. /\ operation.stage = "owner" /\ Continue(Plugin, "notify")
          /\ owned' = Entered(owned, operation)
          /\ UNCHANGED <<devices, deviceByID, deviceByUID>>
      BY <1>3 DEF RequestOwnershipChange
    <2>2. /\ busy'[Plugin].stage = "notify" /\ operation.device \in Devices
          /\ busy'[Plugin] \in PluginOperations
      BY <2>1, ContinueBusy DEF PluginOperations
    <2> QED BY <2>1, <2>2 DEF TablesStaged, Entered
  <1> QED BY <1>1, <1>2, <1>3

LEMMA NotifyDevicesStaged ==
  ASSUME BusyOK, TablesStaged, NotifyDevices
  PROVE  TablesStaged' /\ busy'[Plugin] = Free
  <1>1. busy[Plugin].stage = "notify" /\ busy' = [busy EXCEPT ![Plugin] = Free]
        /\ UNCHANGED tableVars
    BY DEF NotifyDevices, NotifyPropertiesChanged
  <1>2. busy'[Plugin] = Free
    BY <1>1, HoldersOfThePlugin DEF BusyOK
  <1> QED BY <1>1, <1>2 DEF TablesStaged, tableVars, Free

-----------------------------------------------------------------------------
\* The operations under way, and the values

LEMMA BusyStep ==
  ASSUME BusyOK, NEW o \in Holders, NEW b, busy' = [busy EXCEPT ![o] = b],
         IF o = Plugin THEN b \in {Free} \union PluginOperations
                       ELSE b \in {Free} \union SetterOperations(o)
  PROVE  BusyOK' /\ busy'[o] = b /\ \A x \in Holders \ {o} : busy'[x] = busy[x]
  <1>1. busy'[o] = b /\ \A x \in Holders \ {o} : busy'[x] = busy[x]
    BY DEF BusyOK
  <1>2. busy' = [x \in Holders |-> busy'[x]]
    BY DEF BusyOK
  <1> QED BY <1>1, <1>2, HoldersOfThePlugin DEF BusyOK

\* The steps of the plug-in's operations.
PluginOperation ==
  \/ \E d \in Devices : AddDevice(d) \/ RemoveDevice(d)
  \/ EnterByID \/ EnterByUID \/ RequestOwnershipChange

LEMMA PluginOperationStep ==
  ASSUME BusyOK, TablesStaged, PluginOperation
  PROVE  /\ BusyOK' /\ TablesStaged'
         /\ \A o \in Holders \ {Plugin} : busy'[o] = busy[o]
  <1>1. TablesStaged' /\ busy'[Plugin] \in PluginOperations
    BY AddDeviceStaged, RemoveDeviceStaged, PluginStepStaged DEF PluginOperation
  <1>2. \E b : busy' = [busy EXCEPT ![Plugin] = b]
    BY DEF PluginOperation, AddDevice, RemoveDevice, EnterByID, EnterByUID,
           RequestOwnershipChange, Begin, Continue
  <1>3. PICK b : busy' = [busy EXCEPT ![Plugin] = b]
    BY <1>2
  <1>4. b = busy'[Plugin]
    BY <1>3, HoldersOfThePlugin DEF BusyOK
  <1> QED BY <1>1, <1>3, <1>4, BusyStep, HoldersOfThePlugin

\* A setter that has changed its value and has yet to notify.
LEMMA SetterBegins ==
  ASSUME BusyOK, NEW o \in Holders \ {Plugin},
         NEW changed \in SUBSET {p \in Switches \union Volumes : p[1] = o},
         Begin(o, [stage |-> "notify", changed |-> changed])
  PROVE  /\ BusyOK'
         /\ busy[o] = Free
         /\ busy'[o] = [stage |-> "notify", changed |-> changed]
         /\ \A x \in Holders \ {o} : busy'[x] = busy[x]
  <1>1. [stage |-> "notify", changed |-> changed] \in SetterOperations(o)
    BY DEF SetterOperations
  <1> QED BY <1>1, BusyStep DEF Begin

LEMMA BeginCounts ==
  ASSUME operations \in 0..MaxOperations, NEW o, NEW b, Begin(o, b)
  PROVE  operations' \in 0..MaxOperations
  BY PluginAssumption DEF PluginAssumption, Begin

-----------------------------------------------------------------------------
\* What the HAL knows

\* Steps that change nothing that the HAL may ask for, and no notification.
LEMMA HALElsewhere ==
  ASSUME HALKnows, UNCHANGED <<host, owned, stateVars, stale, halVars>>,
         busy[Plugin].stage = "notify" => busy'[Plugin].stage = "notify",
         \A o \in Holders \ {Plugin} : busy'[o] = busy[o]
  PROVE  HALKnows'
  <1>1. \A p : Actual(p)' = Actual(p)
    BY DEF Actual, stateVars
  <1>2. \A p \in watched : WillBeAsked(p) => WillBeAsked(p)'
    BY HoldersOfThePlugin DEF WillBeAsked, HALKnows, halVars
  <1> QED BY <1>1, <1>2 DEF HALKnows, SizeIsCurrent, halVars

LEMMA OwnershipKnown ==
  ASSUME BusyOK, TablesStaged, HALKnows, RequestOwnershipChange
  PROVE  HALKnows'
  <1>1. /\ busy'[Plugin].stage = "notify"
        /\ \A o \in Holders \ {Plugin} : busy'[o] = busy[o]
        /\ UNCHANGED <<host, stateVars, stale, halVars>>
    <2>1. busy[Plugin].stage = "owner" /\ Continue(Plugin, "notify")
          /\ UNCHANGED <<host, stateVars, stale, halVars>>
      BY DEF RequestOwnershipChange
    <2> QED BY <2>1, ContinueBusy, PluginOperationStep DEF PluginOperation
  <1>2. \A p \in watched \ {List} : Actual(p)' = Actual(p)
    <2>1. watched \ {List} \subseteq Switches \union Volumes /\ value' = value /\ raw' = raw
      BY <1>1, HoldersOfThePlugin DEF HALKnows, stateVars
    <2> QED BY <2>1 DEF Actual
  <1>3. \A p \in watched : WillBeAsked(p) => WillBeAsked(p)'
    BY <1>1, HoldersOfThePlugin DEF WillBeAsked, HALKnows, halVars
  <1>4. List \in watched => WillBeAsked(List)'
    BY <1>1 DEF WillBeAsked
  <1> QED BY <1>1, <1>2, <1>3, <1>4 DEF HALKnows, SizeIsCurrent, halVars

\* At the end of an operation what it has changed is among what will be asked.
LEMMA NotificationKnown ==
  ASSUME BusyOK, HALKnows, NEW o \in Holders, NEW changed,
         busy[o].stage = "notify",
         changed = IF o = Plugin THEN {List} ELSE busy[o].changed,
         NotifyPropertiesChanged(o, changed),
         UNCHANGED <<host, tableVars, stateVars, halVars>>
  PROVE  BusyOK' /\ HALKnows'
  <1>1. /\ busy' = [busy EXCEPT ![o] = Free]
        /\ stale' = IF host THEN stale \union (watched \intersect changed) ELSE stale
        /\ UNCHANGED <<watched, refresh, view, owned, host, value, raw>>
    BY DEF NotifyPropertiesChanged, halVars, tableVars, stateVars
  <1>2. BusyOK' /\ busy'[o] = Free /\ \A x \in Holders \ {o} : busy'[x] = busy[x]
    BY <1>1, BusyStep
  <1>3. \A p : Actual(p)' = Actual(p)
    BY <1>1 DEF Actual
  <1>4. ASSUME host, NEW p \in watched, WillBeAsked(p) PROVE WillBeAsked(p)'
    BY <1>1, <1>2, <1>4, HoldersOfThePlugin DEF WillBeAsked, HALKnows
  <1>5. SizeIsCurrent'
    BY <1>1, <1>2, HoldersOfThePlugin DEF SizeIsCurrent, HALKnows
  <1>6. stale' \subseteq watched /\ (stale' # {} => host)
    BY <1>1 DEF HALKnows
  <1>7. host' => \A p \in watched' : WillBeAsked(p)' \/ view'[p] = Actual(p)'
    BY <1>1, <1>3, <1>4 DEF HALKnows
  <1>8. \A p : ValuesAllowed(p)' = ValuesAllowed(p)
    BY DEF ValuesAllowed
  <1>9. refresh' # NoRefresh \/ stale' # {} => host'
    BY <1>1, <1>6 DEF HALKnows
  <1> QED BY <1>1, <1>2, <1>5, <1>6, <1>7, <1>8, <1>9 DEF HALKnows

\* A setter that changes only properties of its own object, which it will announce.
LEMMA SetterKnown ==
  ASSUME BusyOK, HALKnows, NEW o \in Holders \ {Plugin},
         NEW changed \in SUBSET {p \in Switches \union Volumes : p[1] = o},
         Begin(o, [stage |-> "notify", changed |-> changed]),
         UNCHANGED <<host, tableVars, stale, halVars>>,
         \A p \in Properties \ changed : Actual(p)' = Actual(p)
  PROVE  BusyOK' /\ HALKnows' /\ busy'[Plugin] = busy[Plugin]
  <1>1. /\ BusyOK' /\ busy[o] = Free
        /\ busy'[o] = [stage |-> "notify", changed |-> changed]
        /\ \A x \in Holders \ {o} : busy'[x] = busy[x]
    BY SetterBegins
  <1>2. busy'[Plugin] = busy[Plugin]
    BY <1>1, HoldersOfThePlugin
  <1>3. UNCHANGED <<watched, refresh, view, owned, host, stale>>
    BY DEF halVars, tableVars
  <1>4. ASSUME NEW p \in watched, WillBeAsked(p) PROVE WillBeAsked(p)'
    <2>1. p # List /\ busy[p[1]].stage = "notify" => p[1] # o
      BY <1>1 DEF Free
    <2> QED BY <1>1, <1>2, <1>3, <1>4, <2>1, HoldersOfThePlugin DEF WillBeAsked, HALKnows
  <1>5. ASSUME NEW p \in changed PROVE WillBeAsked(p)'
    <2>1. p[1] = o /\ p \in Switches \union Volumes
      OBVIOUS
    <2>2. p # List
      <3>1. List[1] = Plugin
        BY DEF List
      <3> QED BY <2>1, <3>1
    <2> QED BY <1>1, <2>1, <2>2 DEF WillBeAsked
  <1>6. host' => \A p \in watched' : WillBeAsked(p)' \/ view'[p] = Actual(p)'
    BY <1>3, <1>4, <1>5 DEF HALKnows
  <1>7. SizeIsCurrent'
    BY <1>2, <1>3 DEF SizeIsCurrent, HALKnows
  <1>8. \A p : ValuesAllowed(p)' = ValuesAllowed(p)
    BY DEF ValuesAllowed
  <1> QED BY <1>1, <1>2, <1>3, <1>6, <1>7, <1>8 DEF HALKnows

LEMMA SetSwitchKnown ==
  ASSUME PluginIInv, NEW s \in Switches, NEW on \in BOOLEAN, SetSwitch(s, on)
  PROVE  PluginIInv'
  <1> USE DEF PluginIInv
  <1>1. /\ value' = [value EXCEPT ![s] = on] /\ raw' = raw
        /\ Begin(s[1], [stage |-> "notify", changed |-> {s}])
        /\ UNCHANGED <<host, tableVars, stale, halVars>>
    BY DEF SetSwitch
  <1>2. s[1] \in Holders \ {Plugin} /\ {s} \in SUBSET {p \in Switches \union Volumes : p[1] = s[1]}
    BY HoldersOfThePlugin DEF Properties
  <1>3. ASSUME NEW p \in Properties \ {s} PROVE Actual(p)' = Actual(p)
    <2>1. p \in Switches => value'[p] = value[p]
      BY <1>1 DEF ValuesOK
    <2>2. owned' = owned
      BY <1>1 DEF tableVars
    <2> QED BY <1>1, <2>1, <2>2 DEF Actual, Properties
  <1>4. BusyOK' /\ HALKnows' /\ busy'[Plugin] = busy[Plugin]
    BY <1>1, <1>2, <1>3, SetterKnown
  <1>5. TablesStaged'
    BY <1>1, <1>4, TablesElsewhere
  <1>6. ValuesOK'
    BY <1>1, BeginCounts DEF ValuesOK
  <1> QED BY <1>4, <1>5, <1>6

LEMMA SetRawValueKnown ==
  ASSUME PluginIInv, NEW v \in VolumeControls, NEW to \in RawValues, SetRawValue(v, to)
  PROVE  PluginIInv'
  <1> USE DEF PluginIInv
  <1> DEFINE changed == {v} \X {"ScalarValue", "DecibelValue"}
  <1>1. /\ raw' = [raw EXCEPT ![v] = SetRawValueImpl(to)] /\ value' = value
        /\ Begin(v, [stage |-> "notify", changed |-> changed])
        /\ UNCHANGED <<host, tableVars, stale, halVars>>
    BY DEF SetRawValue
  <1>2. changed \in SUBSET {p \in Switches \union Volumes : p[1] = v}
    BY DEF Volumes
  <1>3. v \in Holders \ {Plugin}
    BY PluginAssumption DEF PluginAssumption, Holders
  <1>4. ASSUME NEW p \in Properties \ changed PROVE Actual(p)' = Actual(p)
    <2>1. p \in Volumes => p[1] \in VolumeControls \ {v}
      BY DEF Volumes
    <2>2. p \in Volumes => raw'[p[1]] = raw[p[1]]
      BY <1>1, <2>1 DEF ValuesOK
    <2>3. owned' = owned
      BY <1>1 DEF tableVars
    <2> QED BY <1>1, <2>2, <2>3 DEF Actual, Properties
  <1> HIDE DEF changed
  <1>5. BusyOK' /\ HALKnows' /\ busy'[Plugin] = busy[Plugin]
    BY <1>1, <1>2, <1>3, <1>4, SetterKnown
  <1>6. TablesStaged'
    BY <1>1, <1>5, TablesElsewhere
  <1>7. SetRawValueImpl(to) \in MinRawVolume..MaxRawVolume
    BY PluginAssumption DEF PluginAssumption, SetRawValueImpl
  <1>8. ValuesOK'
    BY <1>1, <1>7, BeginCounts DEF ValuesOK
  <1> QED BY <1>5, <1>6, <1>8

-----------------------------------------------------------------------------
\* The HAL's own steps

LEMMA OwnedFinite ==
  ASSUME BusyOK, TablesStaged
  PROVE  IsFiniteSet(owned) /\ Cardinality(owned) \in Nat
  <1>1. IsFiniteSet(ToSet(devices))
    BY DistinctCounts DEF TablesStaged
  <1>2. \/ owned = ToSet(devices)
        \/ owned \subseteq ToSet(devices)
        \/ \E d : owned \subseteq ToSet(devices) \union {d}
    <2>1. CASE busy[Plugin].stage \in {"free", "notify"}
      BY <2>1 DEF TablesStaged
    <2>2. CASE busy[Plugin].stage \in {"byID", "byUID", "owner"}
      <3>1. CASE busy[Plugin].add
        BY <2>2, <3>1 DEF TablesStaged, Entered
      <3>2. CASE ~busy[Plugin].add
        BY <2>2, <3>2 DEF TablesStaged, Entered
      <3> QED BY <3>1, <3>2
    <2> QED BY <2>1, <2>2 DEF BusyOK, PluginOperations, Free
  <1>3. ASSUME NEW d PROVE IsFiniteSet(ToSet(devices) \union {d})
    BY <1>1, FS_AddElement
  <1>4. IsFiniteSet(owned)
    BY <1>1, <1>2, <1>3, FS_Subset
  <1> QED BY <1>4, FS_CardinalityType

LEMMA InitializeKnown ==
  ASSUME HALKnows, Initialize PROVE HALKnows'
  <1>1. /\ host' = TRUE /\ stale' = watched
        /\ UNCHANGED <<watched, refresh, view, owned, busy>>
    BY DEF Initialize, halVars, tableVars
  <1>2. \A p : ValuesAllowed(p)' = ValuesAllowed(p)
    BY DEF ValuesAllowed
  <1>3. SizeIsCurrent'
    BY <1>1 DEF SizeIsCurrent, HALKnows
  <1>4. \A p \in watched' : WillBeAsked(p)'
    BY <1>1 DEF WillBeAsked
  <1> QED BY <1>1, <1>2, <1>3, <1>4 DEF HALKnows

LEMMA AskSizeKnown ==
  ASSUME BusyOK, TablesStaged, HALKnows, NEW p \in Properties, AskSize(p)
  PROVE  HALKnows'
  <1> DEFINE room == IF p = List THEN Cardinality(owned) ELSE 1
  <1>1. /\ refresh = NoRefresh /\ p \in stale /\ stale' = stale \ {p}
        /\ refresh' = [of |-> p, room |-> room]
        /\ UNCHANGED <<host, owned, value, raw, busy, watched, view>>
    BY DEF AskSize, GetDeviceIDs, tableVars, stateVars
  <1>2. room \in Nat
    BY OwnedFinite
  <1>3. refresh' # NoRefresh /\ refresh'.of = p /\ refresh'.room = room
    BY <1>1 DEF NoRefresh
  <1>4. refresh' \in [of : watched, room : Nat] /\ host
    BY <1>1, <1>2 DEF HALKnows
  <1>5. \A q : ValuesAllowed(q)' = ValuesAllowed(q) /\ Actual(q)' = Actual(q)
    BY <1>1 DEF ValuesAllowed, Actual
  <1>6. SizeIsCurrent'
    BY <1>1, <1>3 DEF SizeIsCurrent
  <1> HIDE DEF room
  <1>7. ASSUME NEW q \in watched, WillBeAsked(q) PROVE WillBeAsked(q)'
    BY <1>1, <1>3, <1>7 DEF WillBeAsked
  <1>8. \A q \in watched' : WillBeAsked(q)' \/ view'[q] = Actual(q)'
    BY <1>1, <1>4, <1>5, <1>7 DEF HALKnows
  <1>9. stale' \subseteq watched
    BY <1>1 DEF HALKnows
  <1> QED BY <1>1, <1>4, <1>5, <1>6, <1>8, <1>9 DEF HALKnows

LEMMA AskDataKnown ==
  ASSUME BusyOK, TablesStaged, ValuesOK, HALKnows, AskData
  PROVE  HALKnows'
  <1>0. PICK p : p = refresh.of
    OBVIOUS
  <1>1. /\ refresh # NoRefresh /\ refresh' = NoRefresh
        /\ UNCHANGED <<host, owned, value, raw, busy, stale, watched>>
    BY DEF AskData, tableVars, stateVars
  <1>2. p \in watched /\ refresh.room \in Nat /\ p \in Properties
    BY <1>0, <1>1 DEF HALKnows
  <1>3. PICK answer : /\ view' = [view EXCEPT ![p] = answer]
                      /\ IF p = List THEN answer \in Fitting(owned, refresh.room)
                                     ELSE answer = Actual(p)
    BY <1>0 DEF AskData, GetDeviceIDs
  <1>4. /\ view' = [q \in watched |-> view'[q]] /\ view'[p] = answer
        /\ \A q \in watched \ {p} : view'[q] = view[q]
    BY <1>2, <1>3 DEF HALKnows
  <1>5. \A q : ValuesAllowed(q)' = ValuesAllowed(q) /\ Actual(q)' = Actual(q)
    BY <1>1 DEF ValuesAllowed, Actual
  <1>6. answer \subseteq ValuesAllowed(p)
    <2>1. CASE p = List
      <3>1. answer \subseteq owned
        BY <1>3, <2>1 DEF Fitting
      <3> QED BY <2>1, <3>1, Kinds DEF TablesStaged
    <2>2. CASE p # List
      <3>1. answer = Actual(p)
        BY <1>3, <2>2
      <3>2. CASE p \in Switches
        BY <3>1, <3>2, Kinds DEF ValuesOK
      <3>3. CASE p \in Volumes
        <4>1. raw[p[1]] \in MinRawVolume..MaxRawVolume
          BY <3>3, Kinds DEF ValuesOK
        <4> QED BY <3>1, <3>3, <4>1, Kinds
      <3> QED BY <1>2, <2>2, <3>2, <3>3 DEF Properties
    <2> QED BY <2>1, <2>2
  <1>7. \/ answer = Actual(p)
        \/ p = List /\ (List \in stale \/ busy[Plugin].stage = "notify")
    <2>1. CASE p = List /\ refresh.room = Cardinality(owned)
      <3>1. Fitting(owned, refresh.room) = {owned}
        BY <2>1, OwnedFinite DEF Fitting
      <3> QED BY <1>3, <2>1, <3>1, Kinds
    <2> QED BY <1>0, <1>1, <1>3, <2>1 DEF HALKnows, SizeIsCurrent
  <1>8. ASSUME NEW q \in watched \ {p}, WillBeAsked(q) PROVE WillBeAsked(q)'
    BY <1>0, <1>1, <1>8 DEF WillBeAsked
  <1>9. \A q \in watched \ {p} : host => WillBeAsked(q)' \/ view'[q] = Actual(q)'
    BY <1>4, <1>5, <1>8 DEF HALKnows
  <1>10. WillBeAsked(p)' \/ view'[p] = Actual(p)'
    BY <1>1, <1>4, <1>5, <1>7 DEF WillBeAsked
  <1>11. SizeIsCurrent'
    BY <1>1 DEF SizeIsCurrent
  <1>12. \A q \in watched : view'[q] \subseteq ValuesAllowed(q)
    BY <1>4, <1>6 DEF HALKnows
  <1> QED BY <1>1, <1>4, <1>5, <1>9, <1>10, <1>11, <1>12 DEF HALKnows

-----------------------------------------------------------------------------
LEMMA PluginIInvInit == Init => PluginIInv
  <1> SUFFICES ASSUME Init PROVE PluginIInv
    OBVIOUS
  <1>1. BusyOK /\ busy[Plugin] = Free
    BY HoldersOfThePlugin DEF Init, BusyOK
  <1>2. TablesStaged
    BY <1>1 DEF Init, TablesStaged, Distinct, ToSet, Free
  <1>3. ValuesOK
    BY PluginAssumption DEF PluginAssumption, Init, ValuesOK, Switches, DeviceSwitches
  <1>4. HALKnows
    BY DEF Init, HALKnows, SizeIsCurrent, kSubset
  <1> QED BY <1>1, <1>2, <1>3, <1>4 DEF PluginIInv

LEMMA PluginIInvNext ==
  ASSUME PluginIInv, [Next]_vars
  PROVE  PluginIInv'
  <1> USE DEF PluginIInv
  <1>1. CASE UNCHANGED vars
    BY <1>1, TablesElsewhere, HALElsewhere
    DEF vars, BusyOK, ValuesOK, tableVars, stateVars, halVars
  <1>2. CASE PluginOperation
    <2>1. BusyOK' /\ TablesStaged' /\ \A o \in Holders \ {Plugin} : busy'[o] = busy[o]
      BY <1>2, PluginOperationStep
    <2>2. CASE RequestOwnershipChange
      <3>1. ValuesOK'
        BY <2>2 DEF RequestOwnershipChange, ValuesOK, stateVars
      <3> QED BY <2>1, <2>2, <3>1, OwnershipKnown
    <2>3. CASE ~RequestOwnershipChange
      <3>1. /\ UNCHANGED <<host, owned, stateVars, stale, halVars>>
            /\ busy[Plugin].stage # "notify"
        BY <1>2, <2>3 DEF PluginOperation, AddDevice, RemoveDevice, Begin, Free, EnterByID,
                          EnterByUID
      <3>2. HALKnows'
        BY <2>1, <3>1, HALElsewhere
      <3>3. operations' \in 0..MaxOperations
        BY <1>2, <2>3, BeginCounts
        DEF PluginOperation, AddDevice, RemoveDevice, EnterByID, EnterByUID, ValuesOK
      <3> QED BY <2>1, <3>1, <3>2, <3>3 DEF ValuesOK, stateVars
    <2> QED BY <2>2, <2>3
  <1>3. CASE NotifyDevices
    <2>1. /\ busy[Plugin].stage = "notify" /\ NotifyPropertiesChanged(Plugin, {List})
          /\ UNCHANGED <<host, tableVars, stateVars, halVars, operations>>
      BY <1>3 DEF NotifyDevices
    <2>2. BusyOK' /\ HALKnows'
      BY <2>1, HoldersOfThePlugin, NotificationKnown
    <2> QED BY <1>3, <2>1, <2>2, NotifyDevicesStaged DEF ValuesOK, stateVars
  <1>4. CASE \E s \in Switches, on \in BOOLEAN : SetSwitch(s, on)
    BY <1>4, SetSwitchKnown
  <1>5. CASE \E v \in VolumeControls, r \in RawValues : SetRawValue(v, r)
    BY <1>5, SetRawValueKnown
  <1>6. ASSUME NEW o \in Holders, NotifySetter(o) PROVE PluginIInv'
    <2>1. /\ o # Plugin /\ busy[o].stage = "notify"
          /\ NotifyPropertiesChanged(o, busy[o].changed)
          /\ UNCHANGED <<host, tableVars, stateVars, halVars, operations>>
      BY <1>6 DEF NotifySetter
    <2>2. BusyOK' /\ HALKnows'
      BY <2>1, NotificationKnown
    <2>3. busy'[Plugin] = busy[Plugin]
      BY <2>1, HoldersOfThePlugin DEF NotifyPropertiesChanged, BusyOK
    <2>4. TablesStaged'
      BY <2>1, <2>3, TablesElsewhere
    <2> QED BY <2>1, <2>2, <2>4 DEF ValuesOK, stateVars
  <1>7. CASE HAL
    <2>1. UNCHANGED <<tableVars, stateVars, busy, operations>>
      BY <1>7 DEF HAL, Initialize, AskSize, AskData
    <2>2. HALKnows'
      BY <1>7, InitializeKnown, AskSizeKnown, AskDataKnown DEF HAL
    <2>3. TablesStaged'
      BY <2>1, TablesElsewhere
    <2> QED BY <2>1, <2>2, <2>3 DEF ValuesOK, BusyOK, stateVars
  <1>8. \/ \E s \in Switches, on \in BOOLEAN : SetSwitch(s, on)
        \/ ~(\E d \in Devices, on \in BOOLEAN : \/ SetIsAlive(d, on)
                                                \/ SetIsHidden(d, on)
                                                \/ SetCanBeDefaultDevice(d, on)
                                                \/ SetCanBeDefaultSystemDevice(d, on))
           /\ ~(\E s \in Streams, on \in BOOLEAN : SetIsActive(s, on))
           /\ ~(\E m \in MuteControls, on \in BOOLEAN : SetIsMuted(m, on))
    <2>1. /\ \A d \in Devices, n \in DeviceSwitches : <<d, n>> \in Switches
          /\ \A s \in Streams : <<s, "IsActive">> \in Switches
          /\ \A m \in MuteControls : <<m, "IsMuted">> \in Switches
      BY DEF Switches
    <2> QED BY <2>1 DEF SetIsAlive, SetIsHidden, SetCanBeDefaultDevice,
                        SetCanBeDefaultSystemDevice, SetIsActive, SetIsMuted, DeviceSwitches
  <1> QED BY <1>1, <1>2, <1>3, <1>4, <1>5, <1>6, <1>7, <1>8 DEF Next, PluginStep, PluginOperation

LEMMA PluginIInvHolds == Spec => []PluginIInv
  <1> QED BY PluginIInvInit, PluginIInvNext, PTL DEF Spec

-----------------------------------------------------------------------------
\* The invariant says what the run checks.
LEMMA PluginIInvImplies == PluginIInv => PluginInv
  <1> SUFFICES ASSUME PluginIInv PROVE PluginInv
    OBVIOUS
  <1> USE DEF PluginIInv
  <1>1. TypeOK
    BY DEF TypeOK, TablesStaged, HALKnows, ValuesOK, ValuesAllowed
  <1>2. TablesAgree
    BY DistinctCounts DEF TablesAgree, TablesStaged, Free
  <1>3. ListedIsFound
    <2> SUFFICES ASSUME NEW d \in owned,
                        ~(busy[Plugin] # Free /\ busy[Plugin].device = d /\ ~busy[Plugin].add)
                 PROVE  d \in deviceByUID /\ d \in deviceByID
      BY DEF ListedIsFound, GetDeviceIDs, GetDeviceIDByUID, HasDevice
    <2>1. CASE busy[Plugin].stage \in {"free", "notify"}
      BY <2>1 DEF TablesStaged
    <2>2. CASE busy[Plugin].stage \in {"byID", "byUID", "owner"}
      BY <2>2 DEF TablesStaged, Entered, Free
    <2> QED BY <2>1, <2>2 DEF BusyOK, PluginOperations, Free
  <1>4. ViewIsCurrent
    BY HoldersOfThePlugin DEF ViewIsCurrent, HALKnows, WillBeAsked, Announced, Free
  <1> QED BY <1>1, <1>2, <1>3, <1>4 DEF PluginInv

\* The tables fit together whenever no operation is under way; what the list
\* shows can be found by UID and by ID at any moment; and the HAL's copy of a
\* property is right or will be renewed (Plugin.cpp:90-183, the setters that take
\* effect at once, and the notifications of Object.cpp:209-244).
THEOREM PluginInvHolds == Spec => []PluginInv
  <1> QED BY PluginIInvHolds, PluginIInvImplies, PTL
=============================================================================
