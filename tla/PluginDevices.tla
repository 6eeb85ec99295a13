----------------------------- MODULE PluginDevices -----------------------------
(***************************************************************************)
(* The plug-in's devices as the HAL sees them: Plugin::AddDevice and       *)
(* RemoveDevice, which change three tables and the ownership one after the *)
(* other, the setters that take effect at once, and the notifications      *)
(* after which the HAL asks again.                                         *)
(*                                                                         *)
(* Each operation holds its object's writeMutex_ from beginning to end, so *)
(* there is at most one under way per object; the plug-in's tables are     *)
(* read by anyone at any time.  The HAL asks for the size of a list and    *)
(* then for its data (module PropertyInquiry).                             *)
(*                                                                         *)
(* External: the HAL reads every property once when it has initialised the *)
(* driver, and again after each notification that names its selector.      *)
(***************************************************************************)
EXTENDS Integers, FiniteSets, SequencesExt

CONSTANTS Devices, Streams, VolumeControls, MuteControls,
          MinRawVolume, MaxRawVolume,  \* VolumeControlParameters
          RawValues,                   \* that SetRawValue is called with
          Copies,          \* bound: properties of which the HAL keeps a copy
          MaxOperations    \* bound: operations begun

Plugin == "plugin"

ASSUME PluginAssumption ==
  /\ Plugin \notin Devices \union Streams \union VolumeControls \union MuteControls
  /\ MinRawVolume \in Int /\ MaxRawVolume \in Int
  /\ MinRawVolume <= MaxRawVolume
  /\ RawValues \subseteq Int
  /\ Copies \in Nat
  /\ MaxOperations \in Nat

List == <<Plugin, "DeviceList">>

DeviceSwitches == {"IsAlive", "IsHidden", "CanBeDefaultDevice", "CanBeDefaultSystemDevice"}
Switches == (Devices \X DeviceSwitches) \union (Streams \X {"IsActive"})
            \union (MuteControls \X {"IsMuted"})
Volumes == VolumeControls \X {"ScalarValue", "DecibelValue"}

Properties == {List} \union Switches \union Volumes

VARIABLES watched,      \* the properties of which the HAL keeps a copy
          host,         \* Context::Host is set
          devices,      \* devices_, a vector
          deviceByID, deviceByUID,   \* the devices with an entry
          owned,        \* the plug-in's ownedObjects_, and each device's owner
          value,        \* per switch: isAlive_, isHidden_, isActive_, isMuted_ ...
          raw,          \* per volume control: rawVolume_
          busy,         \* the operation under each object's writeMutex_
          stale,        \* watched properties that the HAL will ask for
          refresh,      \* the HAL's inquiry: of what, and the size it was told
          view,         \* the HAL's copies
          operations    \* counts operations, for the bound

tableVars == <<devices, deviceByID, deviceByUID, owned>>
stateVars == <<value, raw>>
halVars == <<watched, refresh, view>>
vars == <<host, tableVars, stateVars, busy, stale, halVars, operations>>

Holders == {Plugin} \union Devices \union Streams \union VolumeControls \union MuteControls
Free == [stage |-> "free"]
NoRefresh == [of |-> "nothing"]

\* What a property is when it is asked for, as the set of its values.
Actual(property) ==
  CASE property = List -> owned
    [] property \in Switches -> {value[property]}
    [] property \in Volumes -> {raw[property[1]]}

-----------------------------------------------------------------------------
\* Lookups

GetDeviceIDs == owned
GetDeviceIDByUID(d) == IF d \in deviceByUID THEN {d} ELSE {}
HasDevice(d) == d \in deviceByID

-----------------------------------------------------------------------------
Init ==
  /\ host = FALSE
  /\ devices = <<>>
  /\ deviceByID = {}
  /\ deviceByUID = {}
  /\ owned = {}
  /\ value = [s \in Switches |-> s[2] # "IsMuted"]
  /\ raw = [v \in VolumeControls |-> MaxRawVolume]
  /\ busy = [o \in Holders |-> Free]
  /\ stale = {}
  /\ refresh = NoRefresh
  /\ watched \in kSubset(Copies, Properties)
  /\ view = [p \in watched |-> {}]
  /\ operations = 0

Begin(holder, operation) ==
  /\ busy[holder] = Free
  /\ operations < MaxOperations
  /\ operations' = operations + 1
  /\ busy' = [busy EXCEPT ![holder] = operation]

Continue(holder, stage) == busy' = [busy EXCEPT ![holder].stage = stage]

\* Mutant: the HAL is told of the first property only.
NotifyFirst(holder, properties) ==
  /\ stale' = IF host THEN stale \union (watched \intersect {CHOOSE p \in properties : TRUE}) ELSE stale
  /\ busy' = [busy EXCEPT ![holder] = Free]

\* The end of an operation; without a host nobody is told.
NotifyPropertiesChanged(holder, properties) ==
  /\ stale' = IF host THEN stale \union (watched \intersect properties) ELSE stale
  /\ busy' = [busy EXCEPT ![holder] = Free]

-----------------------------------------------------------------------------
\* AddDevice and RemoveDevice

\* A device that has an owner is not added again.
AddDevice(d) ==
  /\ d \notin owned
  /\ devices' = Append(devices, d)
  /\ Begin(Plugin, [stage |-> "byID", device |-> d, add |-> TRUE])
  /\ UNCHANGED <<host, deviceByID, deviceByUID, owned, stateVars, stale, halVars>>

\* A device without an owner is not removed.
RemoveDevice(d) ==
  /\ d \in owned
  /\ devices' = RemoveFirst(devices, d)
  /\ Begin(Plugin, [stage |-> "byID", device |-> d, add |-> FALSE])
  /\ UNCHANGED <<host, deviceByID, deviceByUID, owned, stateVars, stale, halVars>>

Entered(table, operation) ==
  IF operation.add THEN table \union {operation.device} ELSE table \ {operation.device}

EnterByID ==
  /\ busy[Plugin].stage = "byID"
  /\ deviceByID' = Entered(deviceByID, busy[Plugin])
  /\ Continue(Plugin, "byUID")
  /\ UNCHANGED <<host, devices, deviceByUID, owned, stateVars, stale, halVars, operations>>

EnterByUID ==
  /\ busy[Plugin].stage = "byUID"
  /\ deviceByUID' = Entered(deviceByUID, busy[Plugin])
  /\ Continue(Plugin, "owner")
  /\ UNCHANGED <<host, devices, deviceByID, owned, stateVars, stale, halVars, operations>>

\* Mutant: the device is owned before it can be found.
OwnFirst ==
  /\ busy[Plugin].stage \in {"byID", "owner"}
  /\ owned' = Entered(owned, busy[Plugin])
  /\ IF busy[Plugin].stage = "owner" THEN Continue(Plugin, "notify") ELSE UNCHANGED busy
  /\ UNCHANGED <<host, devices, deviceByID, deviceByUID, stateVars, stale, halVars, operations>>

RequestOwnershipChange ==
  /\ busy[Plugin].stage = "owner"
  /\ owned' = Entered(owned, busy[Plugin])
  /\ Continue(Plugin, "notify")
  /\ UNCHANGED <<host, devices, deviceByID, deviceByUID, stateVars, stale, halVars, operations>>

NotifyDevices ==
  /\ busy[Plugin].stage = "notify"
  /\ NotifyPropertiesChanged(Plugin, {List})
  /\ UNCHANGED <<host, tableVars, stateVars, halVars, operations>>

-----------------------------------------------------------------------------
\* Setters that take effect at once; an unchanged value is not set.  Those
\* of properties that nobody watches are left out.

SetSwitch(s, on) ==
  /\ s \in watched  \* bound
  /\ value[s] # on
  /\ value' = [value EXCEPT ![s] = on]
  /\ Begin(s[1], [stage |-> "notify", changed |-> {s}])
  /\ UNCHANGED <<host, tableVars, raw, stale, halVars>>

SetIsAlive(d, on) == SetSwitch(<<d, "IsAlive">>, on)
SetIsHidden(d, on) == SetSwitch(<<d, "IsHidden">>, on)
SetCanBeDefaultDevice(d, on) == SetSwitch(<<d, "CanBeDefaultDevice">>, on)
SetCanBeDefaultSystemDevice(d, on) == SetSwitch(<<d, "CanBeDefaultSystemDevice">>, on)
SetIsActive(s, on) == SetSwitch(<<s, "IsActive">>, on)
SetIsMuted(m, on) == SetSwitch(<<m, "IsMuted">>, on)

SetRawValueImpl(to) ==
  IF to > MaxRawVolume THEN MaxRawVolume
  ELSE IF to < MinRawVolume THEN MinRawVolume ELSE to

\* Also from SetDecibelValue and SetScalarValue, with a value in the range.
SetRawValue(v, to) ==
  /\ watched \intersect Volumes # {}  \* bound
  /\ raw[v] # to
  /\ raw' = [raw EXCEPT ![v] = SetRawValueImpl(to)]
  /\ Begin(v, [stage |-> "notify", changed |-> {v} \X {"ScalarValue", "DecibelValue"}])
  /\ UNCHANGED <<host, tableVars, value, stale, halVars>>

NotifySetter(o) ==
  /\ o # Plugin
  /\ busy[o].stage = "notify"
  /\ NotifyPropertiesChanged(o, busy[o].changed)
  /\ UNCHANGED <<host, tableVars, stateVars, halVars, operations>>

-----------------------------------------------------------------------------
\* The HAL

\* Driver::Initialize stores the host; the HAL then asks for everything.
Initialize ==
  /\ ~host
  /\ host' = TRUE
  /\ stale' = watched
  /\ UNCHANGED <<tableVars, stateVars, busy, halVars, operations>>

\* GetPropertyDataSize
AskSize(p) ==
  /\ refresh = NoRefresh
  /\ p \in stale
  /\ stale' = stale \ {p}
  /\ refresh' = [of |-> p, room |-> IF p = List THEN Cardinality(GetDeviceIDs) ELSE 1]
  /\ UNCHANGED <<host, tableVars, stateVars, busy, watched, view, operations>>

\* What fits of the list, in the order of a hash map.
Fitting(list, room) ==
  IF Cardinality(list) <= room THEN {list} ELSE {s \in SUBSET list : Cardinality(s) = room}

\* GetPropertyData
AskData ==
  /\ refresh # NoRefresh
  /\ IF refresh.of = List
     THEN \E answer \in Fitting(GetDeviceIDs, refresh.room) : view' = [view EXCEPT ![List] = answer]
     ELSE view' = [view EXCEPT ![refresh.of] = Actual(refresh.of)]
  /\ refresh' = NoRefresh
  /\ UNCHANGED <<host, tableVars, stateVars, busy, stale, watched, operations>>

-----------------------------------------------------------------------------
HAL == Initialize \/ AskData \/ \E p \in Properties : AskSize(p)

PluginStep == EnterByID \/ EnterByUID \/ RequestOwnershipChange \/ NotifyDevices

Next ==
  \/ HAL
  \/ PluginStep
  \/ \E d \in Devices : AddDevice(d) \/ RemoveDevice(d)
  \/ \E d \in Devices, on \in BOOLEAN : \/ SetIsAlive(d, on)
                                        \/ SetIsHidden(d, on)
                                        \/ SetCanBeDefaultDevice(d, on)
                                        \/ SetCanBeDefaultSystemDevice(d, on)
  \/ \E s \in Streams, on \in BOOLEAN : SetIsActive(s, on)
  \/ \E m \in MuteControls, on \in BOOLEAN : SetIsMuted(m, on)
  \/ \E v \in VolumeControls, r \in RawValues : SetRawValue(v, r)
  \/ \E o \in Holders : NotifySetter(o)

\* An operation that has begun goes on, and the HAL asks; nothing makes the
\* plug-in begin one.
Fairness ==
  /\ WF_vars(HAL)
  /\ WF_vars(PluginStep)
  /\ \A o \in Holders : WF_vars(NotifySetter(o))

Spec == Init /\ [][Next]_vars /\ Fairness

-----------------------------------------------------------------------------
TypeOK ==
  /\ host \in BOOLEAN
  /\ devices \in Seq(Devices)
  /\ deviceByID \subseteq Devices
  /\ deviceByUID \subseteq Devices
  /\ owned \subseteq Devices
  /\ value \in [Switches -> BOOLEAN]
  /\ raw \in [VolumeControls -> MinRawVolume..MaxRawVolume]
  /\ stale \subseteq watched
  /\ \A p \in watched :
       view[p] \subseteq CASE p = List -> Devices
                           [] p \in Switches -> BOOLEAN
                           [] p \in Volumes -> MinRawVolume..MaxRawVolume
  /\ operations \in 0..MaxOperations

\* Between operations the three tables and the ownership agree, and no device
\* is in the vector twice.
TablesAgree ==
  busy[Plugin] = Free =>
    /\ ToSet(devices) = owned
    /\ Len(devices) = Cardinality(owned)
    /\ deviceByID = owned
    /\ deviceByUID = owned

\* A device that the list shows is found by its UID and by its ID at any
\* moment, except while it is being removed.
ListedIsFound ==
  \A d \in GetDeviceIDs :
    ~(busy[Plugin] # Free /\ busy[Plugin].device = d /\ ~busy[Plugin].add)
    => GetDeviceIDByUID(d) = {d} /\ HasDevice(d)

\* Properties of which a notification is still to come or to be acted on.
Announced(p) ==
  \/ p \in stale
  \/ refresh # NoRefresh /\ refresh.of = p
  \/ p = List /\ busy[Plugin] # Free
  \/ p # List /\ busy[p[1]] # Free

\* Once the driver is initialised the HAL's copy of a property is the
\* property, unless it is going to ask for it again: also when a list grew
\* between its size and its data, when the value changed back and forth, and
\* when the change was made while the driver was being initialised.
ViewIsCurrent == host => \A p \in watched : Announced(p) \/ view[p] = Actual(p)

\* The tables fit together, what they show can be found, and the HAL's copy
\* of it is right or about to be.
PluginInv == TypeOK /\ TablesAgree /\ ListedIsFound /\ ViewIsCurrent

\* When the operations are over the HAL ends up with the plug-in's devices,
\* their switches and volumes.
ViewConverges == <>[](\A p \in watched : view[p] = Actual(p))
=============================================================================
