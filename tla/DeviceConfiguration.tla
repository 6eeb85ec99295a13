------------------------- MODULE DeviceConfiguration -------------------------
(***************************************************************************)
(* How the configuration of an aspl::Device and of its streams changes.    *)
(*                                                                         *)
(* Once the HAL can see the device, an asynchronous setter and the adding  *)
(* or removal of a stream or control only leave a function in              *)
(* pendingConfigurationRequests_ and tell the HAL its number; some time    *)
(* later the HAL has it performed or aborted.  Before that, and when the   *)
(* device has been taken out of the plug-in, the function runs at once.    *)
(*                                                                         *)
(* A function is a sequence of edits.  Every operation here holds          *)
(* writeMutex_ from beginning to end and is one step.  An object's two     *)
(* tables (streams_ and streamByID_, and those of the controls) change     *)
(* together and are one set, listed.                                       *)
(***************************************************************************)
EXTENDS Integers, FiniteSets, SequencesExt

CONSTANTS Device,
          Streams, VolumeControls, MuteControls,
          Values,         \* of latencies, rates, formats, numbers of channels
          Lists,          \* of available rates and formats: sets of Values
          ChannelCount,   \* DeviceParameters::ChannelCount, and the other parameters
          NotSet,         \* an optional without a value
          Word,           \* values of a UInt32
          MaxRequests     \* bound: requests ever made

Controls == VolumeControls \union MuteControls
Children == Streams \union Controls

\* Every object has an identifier of its own, of a UInt32.
ASSUME ConfigurationAssumption ==
  /\ Values \subseteq Nat
  /\ Lists \subseteq SUBSET Values
  /\ ChannelCount \in Values
  /\ NotSet \notin Values /\ NotSet \notin Lists
  /\ Device \notin Children
  /\ Streams \intersect Controls = {} /\ VolumeControls \intersect MuteControls = {}
  /\ IsFiniteSet(Streams) /\ Cardinality(Streams) < Word
  /\ Word \in Nat
  /\ MaxRequests \in Nat

Directions == {"input", "output"}

DeviceFields == {"latency", "safetyOffset", "zeroTimeStampPeriod", "nominalSampleRate",
                 "availableSampleRates", "stereo", "channelCount", "channels", "layout"}
StreamFields == {"streamLatency", "physicalFormat", "virtualFormat",
                 "availablePhysicalFormats", "availableVirtualFormats"}

FieldsOf(object) == IF object = Device THEN DeviceFields ELSE StreamFields
ListFields == {"availableSampleRates", "availablePhysicalFormats", "availableVirtualFormats"}
OptionalFields == ListFields \union {"channelCount", "channels", "layout"}

VARIABLES host,       \* Context::Host is set
          owned,      \* the device has an owner: it is part of the plug-in
          dev,        \* what the edits change, see Init
          direction,  \* per stream: Direction, fixed when it is constructed
          span,       \* per stream: StartingChannel, and the channels it was constructed with
          listed,     \* streams and controls in the device's tables
          pending,    \* pendingConfigurationRequests_, in the order of the request IDs
          lastID,     \* lastConfigurationRequestID_
          hal,        \* request IDs the HAL has been told and has not answered
          requests,   \* history: the edits of every request made, in order
          aborted     \* history: the requests the HAL has aborted, by number

configVars == <<host, owned, dev, direction, span, listed, pending, lastID, hal, requests, aborted>>

-----------------------------------------------------------------------------
\* Getters, over the fields of the device and the streams as they are stored

GetAvailableSampleRates(c) ==
  IF c[Device].availableSampleRates = NotSet
  THEN {c[Device].nominalSampleRate} ELSE c[Device].availableSampleRates

FirstSet(values) == values[CHOOSE i \in DOMAIN values :
                             values[i] # NotSet /\ \A j \in 1..i - 1 : values[j] = NotSet]

\* A list of channels that is set has some, and a layout that is set describes
\* its channels one by one: the code passes over an empty list and over a layout
\* with another tag.
GetPreferredChannelCount(c) ==
  FirstSet(<<c[Device].channelCount, c[Device].channels, c[Device].layout, ChannelCount>>)

\* A list of channel descriptions counts by its length.
GetPreferredChannels(c) ==
  FirstSet(<<c[Device].channels, c[Device].layout, GetPreferredChannelCount(c)>>)

GetPreferredChannelLayout(c) == FirstSet(<<c[Device].layout, GetPreferredChannels(c)>>)

GetAvailablePhysicalFormats(c, s) ==
  IF c[s].availablePhysicalFormats = NotSet
  THEN {c[s].physicalFormat} ELSE c[s].availablePhysicalFormats

GetAvailableVirtualFormats(c, s) ==
  IF c[s].availableVirtualFormats = NotSet
  THEN {c[s].virtualFormat} ELSE c[s].availableVirtualFormats

GetStartingChannel(s) == span[s].first
GetChannelCount(c, s) == c[s].physicalFormat

Get(c, object, field) ==
  CASE field = "availableSampleRates" -> GetAvailableSampleRates(c)
    [] field = "channelCount" -> GetPreferredChannelCount(c)
    [] field = "channels" -> GetPreferredChannels(c)
    [] field = "layout" -> GetPreferredChannelLayout(c)
    [] field = "availablePhysicalFormats" -> GetAvailablePhysicalFormats(c, object)
    [] field = "availableVirtualFormats" -> GetAvailableVirtualFormats(c, object)
    [] OTHER -> c[object][field]

\* An empty list of available values admits every value.
Supports(available, value) == available = {} \/ value \in available

CheckNominalSampleRate(c, rate) == Supports(GetAvailableSampleRates(c), rate)
CheckPhysicalFormat(c, s, format) == Supports(GetAvailablePhysicalFormats(c, s), format)
CheckVirtualFormat(c, s, format) == Supports(GetAvailableVirtualFormats(c, s), format)

-----------------------------------------------------------------------------
\* The edits that a queued function makes

\* The queued half of a setter, and a setter called from inside a function.
Assign(object, field, value) ==
  [kind |-> "assign", object |-> object, field |-> field, value |-> value]
Set(object, field, value) ==
  [kind |-> "set", object |-> object, field |-> field, value |-> value]
Attach(child, to) == [kind |-> "attach", child |-> child, to |-> to]
Detach(child, from) == [kind |-> "detach", child |-> child, from |-> from]

\* numInputStreams_ or numOutputStreams_; a control counts nowhere.
Counted(d, where, change) ==
  CASE where = "input" -> [d EXCEPT !.inputs = (@ + change) % Word]
    [] where = "output" -> [d EXCEPT !.outputs = (@ + change) % Word]
    [] OTHER -> d

\* AddOwnedObject: the map has one entry per object.
AddOwnedObject(d, child) == [d EXCEPT !.children = @ \union {child}]

RemoveOwnedObject(d, child) == [d EXCEPT !.children = @ \ {child}]

Supported(c, object, field, value) ==
  CASE field = "nominalSampleRate" -> CheckNominalSampleRate(c, value)
    [] field = "physicalFormat" -> CheckPhysicalFormat(c, object, value)
    [] field = "virtualFormat" -> CheckVirtualFormat(c, object, value)
    [] OTHER -> TRUE

Edit(d, e) ==
  CASE e.kind = "attach" -> AddOwnedObject(Counted(d, e.to, 1), e.child)
    [] e.kind = "detach" -> RemoveOwnedObject(Counted(d, e.from, -1), e.child)
    [] OTHER ->
         IF \/ e.value = Get(d.cfg, e.object, e.field)
            \/ e.kind = "set" /\ ~Supported(d.cfg, e.object, e.field, e.value)
         THEN d ELSE [d EXCEPT !.cfg[e.object][e.field] = e.value]

\* A function makes its edits one after the other.
EditAll(d, edits) ==
  LET edited[i \in 0..Len(edits)] == IF i = 0 THEN d ELSE Edit(edited[i - 1], edits[i])
  IN  edited[Len(edits)]

Run(d, number, function) == [EditAll(d, function) EXCEPT !.applied = Append(@, number)]

Queued == [i \in DOMAIN pending |-> pending[i].number]

\* The device after each of the functions numbered ns, in this order.
Course(functions, d, ns) ==
  LET at[i \in 0..Len(ns)] ==
        IF i = 0 THEN d ELSE Run(at[i - 1], ns[i], functions[ns[i]])
  IN  at

After(functions, d, ns) == Course(functions, d, ns)[Len(ns)]

-----------------------------------------------------------------------------
Init ==
  /\ host = FALSE
  /\ owned = FALSE
  /\ dev = [cfg |-> [object \in {Device} \union Streams |->
                       [field \in FieldsOf(object) |->
                         IF field \in OptionalFields THEN NotSet ELSE ChannelCount]],
            children |-> {}, inputs |-> 0, outputs |-> 0, applied |-> <<>>]
  /\ direction = [s \in Streams |-> "none"]
  /\ span = [s \in Streams |-> [first |-> 0, count |-> 0]]
  /\ listed = {}
  /\ pending = <<>>
  /\ lastID = 0
  /\ hal = <<>>
  /\ requests = <<>>
  /\ aborted = {}

-----------------------------------------------------------------------------
\* Requests

\* Mutant: a request runs at once when no other is waiting.
InPlaceEager == ~host \/ ~owned \/ pending = <<>>

\* Outside PerformConfigurationChange insideConfigurationHandler_ is zero.
InPlace == ~host \/ ~owned

\* host->RequestDeviceConfigurationChange, once for each.
TellHAL(ids) == ids

\* The functions are requested one after the other under one lock.
RequestFrom(base, functions) ==
  LET count == Len(functions)
      numbers == [i \in 1..count |-> Len(requests) + i]
      ids == [i \in 1..count |-> lastID + i - 1]
  IN  /\ Len(requests) + count <= MaxRequests
      /\ requests' = requests \o functions
      /\ IF InPlace
         THEN /\ dev' = After(requests', base, numbers)
              /\ UNCHANGED <<pending, lastID, hal>>
         ELSE /\ pending' = pending \o [i \in 1..count |-> [id |-> ids[i], number |-> numbers[i]]]
              /\ lastID' = lastID + count
              /\ hal' = hal \o TellHAL(ids)
              /\ dev' = base
      /\ UNCHANGED <<host, owned, aborted>>

RequestConfigurationChange(function) == RequestFrom(dev, <<function>>)

\* A setter that finds its value unchanged, or not supported, changes nothing.
SetAsync(object, field, value) ==
  /\ object \in Streams => direction[object] # "none"
  /\ value # Get(dev.cfg, object, field)
  /\ Supported(dev.cfg, object, field, value)
  /\ RequestConfigurationChange(<<Assign(object, field, value)>>)
  /\ UNCHANGED <<direction, span, listed>>

SetLatencyAsync(v) == SetAsync(Device, "latency", v)
SetSafetyOffsetAsync(v) == SetAsync(Device, "safetyOffset", v)
SetZeroTimeStampPeriodAsync(v) == SetAsync(Device, "zeroTimeStampPeriod", v)
SetNominalSampleRateAsync(v) == SetAsync(Device, "nominalSampleRate", v)
SetAvailableSampleRatesAsync(list) == SetAsync(Device, "availableSampleRates", list)
SetPreferredChannelsForStereoAsync(v) == SetAsync(Device, "stereo", v)
SetPreferredChannelCountAsync(v) == SetAsync(Device, "channelCount", v)
SetPreferredChannelsAsync(v) == SetAsync(Device, "channels", v)
SetPreferredChannelLayoutAsync(v) == SetAsync(Device, "layout", v)

SetStreamLatencyAsync(s, v) == SetAsync(s, "streamLatency", v)
SetPhysicalFormatAsync(s, v) == SetAsync(s, "physicalFormat", v)
SetVirtualFormatAsync(s, v) == SetAsync(s, "virtualFormat", v)
SetAvailablePhysicalFormatsAsync(s, list) == SetAsync(s, "availablePhysicalFormats", list)
SetAvailableVirtualFormatsAsync(s, list) == SetAsync(s, "availableVirtualFormats", list)

\* Two setters called from one function; SetNominalSampleRateAsync checks
\* the rate against the list that has just been assigned.
ChangeRates(list, v) ==
  /\ RequestConfigurationChange(<<Set(Device, "availableSampleRates", list),
                                  Set(Device, "nominalSampleRate", v)>>)
  /\ UNCHANGED <<direction, span, listed>>

-----------------------------------------------------------------------------
\* Streams and controls

\* Mutant: only the streams that are already attached are looked at.
NextChannelOfAttached(dir) ==
  LET taken == {GetStartingChannel(s) + GetChannelCount(dev.cfg, s) :
                  s \in {x \in Streams \intersect dev.children : direction[x] = dir}}
  IN  CHOOSE i \in {1} \union taken : \A j \in taken : j <= i

\* The channel after the last one of the streams of this direction.
NextChannel(dir) ==
  LET taken == {GetStartingChannel(s) + GetChannelCount(dev.cfg, s) :
                  s \in {x \in Streams \intersect listed : direction[x] = dir}}
  IN  CHOOSE i \in {1} \union taken : \A j \in taken : j <= i

\* A stream is constructed with the preferred number of channels.
Constructed(s) ==
  [dev EXCEPT !.cfg[s] = [field \in StreamFields |->
     CASE field \in OptionalFields -> NotSet
       [] field \in {"physicalFormat", "virtualFormat"} -> GetPreferredChannelCount(dev.cfg)
       [] OTHER -> @[field]]]

AddStreams(s, dir, functions, children) ==
  /\ direction[s] = "none"
  /\ children \intersect listed = {}
  /\ direction' = [direction EXCEPT ![s] = dir]
  /\ span' = [span EXCEPT ![s] = [first |-> NextChannel(dir),
                                  count |-> GetPreferredChannelCount(dev.cfg)]]
  /\ listed' = listed \union children
  /\ RequestFrom(Constructed(s), functions)

AddStreamAsync(s, dir) == AddStreams(s, dir, <<<<Attach(s, dir)>>>>, {s})

AddStreamWithControlsAsync(s, dir, v, m) ==
  AddStreams(s, dir, <<<<Attach(s, dir)>>, <<Attach(v, "control")>>, <<Attach(m, "control")>>>>,
             {s, v, m})

RemoveStreamAsync(s) ==
  /\ s \in listed
  /\ listed' = listed \ {s}
  /\ RequestConfigurationChange(<<Detach(s, direction[s])>>)
  /\ UNCHANGED <<direction, span>>

AddControlAsync(c) ==
  /\ c \notin listed
  /\ listed' = listed \union {c}
  /\ RequestConfigurationChange(<<Attach(c, "control")>>)
  /\ UNCHANGED <<direction, span>>

RemoveControlAsync(c) ==
  /\ c \in listed
  /\ listed' = listed \ {c}
  /\ RequestConfigurationChange(<<Detach(c, "control")>>)
  /\ UNCHANGED <<direction, span>>

AddVolumeControlAsync(c) == AddControlAsync(c)
RemoveVolumeControlAsync(c) == RemoveControlAsync(c)
AddMuteControlAsync(c) == AddControlAsync(c)
RemoveMuteControlAsync(c) == RemoveControlAsync(c)

-----------------------------------------------------------------------------
\* Publishing, and the HAL's answers

\* The HAL initialises the driver, which sets Context::Host.
InitializeDriver ==
  /\ ~host
  /\ host' = TRUE
  /\ UNCHANGED <<owned, dev, direction, span, listed, pending, lastID, hal, requests, aborted>>

\* RequestOwnershipChange(plugin, true) of Plugin::AddDevice.
Publish ==
  /\ ~owned
  /\ owned' = TRUE
  /\ UNCHANGED <<host, dev, direction, span, listed, pending, lastID, hal, requests, aborted>>

\* Mutant: the requests run from higher to lower IDs.
UnpublishBackwards ==
  /\ owned
  /\ owned' = FALSE
  /\ dev' = After(requests, dev, Reverse(Queued))
  /\ pending' = <<>>
  /\ UNCHANGED <<host, direction, span, listed, lastID, hal, requests, aborted>>

\* Mutant: the requests that wait are dropped.
UnpublishDrops ==
  /\ owned
  /\ owned' = FALSE
  /\ pending' = <<>>
  /\ UNCHANGED <<host, dev, direction, span, listed, lastID, hal, requests, aborted>>

\* RequestOwnershipChange(plugin, false) of Plugin::RemoveDevice: what waits
\* runs now, from lower to higher IDs, and the HAL's later answers find nothing.
Unpublish ==
  /\ owned
  /\ owned' = FALSE
  /\ dev' = After(requests, dev, Queued)
  /\ pending' = <<>>
  /\ UNCHANGED <<host, direction, span, listed, lastID, hal, requests, aborted>>

\* The request that waits under this ID, if there is one, waits no longer.
PerformConfigurationChange(id) ==
  /\ \/ \E i \in DOMAIN pending :
          /\ pending[i].id = id
          /\ dev' = Run(dev, pending[i].number, requests[pending[i].number])
          /\ pending' = RemoveAt(pending, i)
     \/ /\ \A i \in DOMAIN pending : pending[i].id # id
        /\ UNCHANGED <<dev, pending>>
  /\ UNCHANGED <<host, owned, direction, span, listed, lastID, requests, aborted>>

AbortConfigurationChange(id) ==
  /\ \/ \E i \in DOMAIN pending :
          /\ pending[i].id = id
          /\ aborted' = aborted \union {pending[i].number}
          /\ pending' = RemoveAt(pending, i)
     \/ /\ \A i \in DOMAIN pending : pending[i].id # id
        /\ UNCHANGED <<aborted, pending>>
  /\ UNCHANGED <<host, owned, dev, direction, span, listed, lastID, requests>>

\* The HAL answers its requests in the order in which they were made.
HALAnswers ==
  /\ hal # <<>>
  /\ hal' = Tail(hal)
  /\ PerformConfigurationChange(Head(hal)) \/ AbortConfigurationChange(Head(hal))

-----------------------------------------------------------------------------
SetDevice ==
  \/ \E v \in Values : \/ SetLatencyAsync(v)
                       \/ SetSafetyOffsetAsync(v)
                       \/ SetZeroTimeStampPeriodAsync(v)
                       \/ SetNominalSampleRateAsync(v)
                       \/ SetPreferredChannelsForStereoAsync(v)
                       \/ SetPreferredChannelCountAsync(v)
                       \/ SetPreferredChannelsAsync(v)
                       \/ SetPreferredChannelLayoutAsync(v)
                       \/ \E list \in Lists : ChangeRates(list, v)
  \/ \E list \in Lists : SetAvailableSampleRatesAsync(list)

SetStream ==
  \E s \in Streams :
     \/ \E v \in Values : \/ SetStreamLatencyAsync(s, v)
                          \/ SetPhysicalFormatAsync(s, v)
                          \/ SetVirtualFormatAsync(s, v)
     \/ \E list \in Lists : \/ SetAvailablePhysicalFormatsAsync(s, list)
                            \/ SetAvailableVirtualFormatsAsync(s, list)

AddOrRemove ==
  \/ \E s \in Streams, dir \in Directions :
        \/ AddStreamAsync(s, dir)
        \/ \E v \in VolumeControls, m \in MuteControls : AddStreamWithControlsAsync(s, dir, v, m)
  \/ \E s \in Streams : RemoveStreamAsync(s)
  \/ \E v \in VolumeControls : AddVolumeControlAsync(v) \/ RemoveVolumeControlAsync(v)
  \/ \E m \in MuteControls : AddMuteControlAsync(m) \/ RemoveMuteControlAsync(m)

Next ==
  \/ SetDevice
  \/ SetStream
  \/ AddOrRemove
  \/ InitializeDriver
  \/ Publish
  \/ Unpublish
  \/ HALAnswers

Spec == Init /\ [][Next]_configVars /\ WF_configVars(HALAnswers)

-----------------------------------------------------------------------------
TypeOK ==
  /\ host \in BOOLEAN
  /\ owned \in BOOLEAN
  /\ DOMAIN dev.cfg = {Device} \union Streams
  /\ dev.children \subseteq Children
  /\ dev.inputs \in 0..Word - 1
  /\ dev.outputs \in 0..Word - 1
  /\ dev.applied \in Seq(1..MaxRequests)
  /\ direction \in [Streams -> Directions \union {"none"}]
  /\ span \in [Streams -> [first : Nat, count : Values \union {0}]]
  /\ listed \subseteq Children
  /\ lastID \in 0..MaxRequests
  /\ \A i \in DOMAIN pending : pending[i].number \in DOMAIN requests /\ pending[i].id < lastID
  /\ Len(requests) <= MaxRequests
  /\ aborted \subseteq DOMAIN requests

\* Requests take effect in the order in which they were made, each at most
\* once: also when the device is withdrawn while the HAL still has its number,
\* and published again before the HAL answers.
AppliedInOrder ==
  \A i, j \in DOMAIN dev.applied : i < j => dev.applied[i] < dev.applied[j]

\* No request is forgotten: each has run, was aborted, or waits for a number
\* that the HAL has yet to answer; and none waits in a device without owner.
EveryRequestAccounted ==
  /\ DOMAIN requests = ToSet(dev.applied) \union aborted \union ToSet(Queued)
  /\ \A i \in DOMAIN pending : pending[i].id \in ToSet(hal)
  /\ pending # <<>> => owned

\* The numbers of input and output streams, by which WillDoIOOperation
\* decides, are those of the streams that are attached, unless the HAL has
\* aborted the adding or the removal of a stream.
StreamChangeAborted ==
  \E n \in aborted : \E i \in DOMAIN requests[n] :
    requests[n][i].kind \in {"attach", "detach"}

CountMatchesOwned ==
  LET Attached(dir) == {s \in Streams \intersect dev.children : direction[s] = dir}
  IN  ~StreamChangeAborted => /\ dev.inputs = Cardinality(Attached("input"))
                              /\ dev.outputs = Cardinality(Attached("output"))

\* The device's own tables run ahead of what the HAL is shown by exactly the
\* changes that wait.
ListedIsComing == ~StreamChangeAborted => listed = After(requests, dev, Queued).children

\* Requests, counters and tables agree, through aborts, withdrawals and answers
\* that come late.
ConfigurationInv ==
  TypeOK /\ AppliedInOrder /\ EveryRequestAccounted /\ CountMatchesOwned /\ ListedIsComing

ChannelsOf(s) == span[s].first..span[s].first + span[s].count - 1

\* Two streams of one direction are never given the same channel, also when
\* neither has been attached yet, as long as the streams keep their formats.
ChannelsDisjoint ==
  \A s, t \in Streams \intersect listed :
    /\ s # t
    /\ direction[s] = direction[t]
    /\ \A n \in DOMAIN requests : \A i \in DOMAIN requests[n] :
         requests[n][i].kind \in {"assign", "set"} => requests[n][i].field # "physicalFormat"
    => ChannelsOf(s) \intersect ChannelsOf(t) = {}

\* When nothing waits and nothing was aborted, every field has the value of
\* the last request that was made for it.  This holds of fields with a value
\* of their own: a setter of an optional field stores nothing when the value
\* derived from another field happens to be the same.
RequestsFor(object, field) ==
  {n \in DOMAIN requests : \E i \in DOMAIN requests[n] :
     /\ requests[n][i].kind = "assign"
     /\ requests[n][i].object = object
     /\ requests[n][i].field = field}

Rerated == \E n \in DOMAIN requests : Len(requests[n]) > 1

LastRequestWins ==
  \A object \in {Device} \union Streams : \A field \in FieldsOf(object) \ OptionalFields :
    LET ns == RequestsFor(object, field) IN
    /\ pending = <<>>
    /\ aborted = {}
    /\ ~Rerated
    /\ ns # {}
    => LET last == CHOOSE n \in ns : \A m \in ns : m <= n
       IN  dev.cfg[object][field] = requests[last][1].value

\* What the HAL can see: the device's fields and those of its streams.
Visible == [children |-> dev.children,
            fields |-> [object \in {Device} \union (Streams \intersect dev.children) |->
                          dev.cfg[object]]]

\* While the HAL can see the device, nothing it sees changes except when it
\* answers a request, and then only by what that request contains.
FrozenWhileVisible ==
  [][host /\ owned /\ owned' /\ Visible' # Visible
       => /\ hal # <<>>
          /\ hal' = Tail(hal)
          /\ \E i \in DOMAIN pending :
               /\ pending[i].id = Head(hal)
               /\ dev' = Run(dev, pending[i].number, requests[pending[i].number])]_configVars

=============================================================================
