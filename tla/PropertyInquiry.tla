--------------------------- MODULE PropertyInquiry ---------------------------
(***************************************************************************)
(* A client of the HAL inquires about a property: whether an object has    *)
(* it, whether it can be set, how large it is, its data, and sets it.      *)
(* These are five calls into the driver.  Between any two of them streams, *)
(* controls and devices come and go, lists get longer and shorter, custom  *)
(* properties are registered and objects are destroyed.                    *)
(*                                                                         *)
(* A call is one step: it reads one version of each table it uses          *)
(* (module DoubleBuffer).  That the object found is the one asked for is   *)
(* Dispatcher!FoundIsAsked, so objectID == GetID() holds in every call.    *)
(* The HAL passes an address and buffers; what the setters do is in        *)
(* modules DeviceConfiguration and PluginDevices.                          *)
(***************************************************************************)
EXTENDS PropertyTables, FiniteSets

CONSTANTS Plugin, Devices, InputStreams, OutputStreams, VolumeControls, MuteControls,
          CustomSelectors,   \* selectors that custom properties are registered for
          Rooms,             \* sizes of a buffer that was not sized by asking
          Lengths,           \* lengths of a list that is set
          MaxChanges         \* bound: changes made to the objects

Streams == InputStreams \union OutputStreams
PluginObjects == {Plugin} \union Devices \union Streams \union VolumeControls \union MuteControls

ClassOf(o) ==
  CASE o = Plugin -> "Plugin"
    [] o \in Devices -> "Device"
    [] o \in Streams -> "Stream"
    [] o \in VolumeControls -> "VolumeControl"
    [] o \in MuteControls -> "MuteControl"

\* The scope under which an owner keeps an object; controls are for output.
ScopeOf(o) ==
  CASE o \in InputStreams -> "input"
    [] o \in Devices -> "global"
    [] OTHER -> "output"

\* Lists that are stored as such, by the class they belong to.
StoredLists(o) ==
  CASE o \in Devices -> {"GetAvailableSampleRates", "GetPreferredChannelLayout"}
    [] o \in Streams -> {"GetAvailablePhysicalFormats", "GetAvailableVirtualFormats"}
    [] OTHER -> {}

\* Every object is of one class.  Identifiers and selectors are UInt32.
ASSUME InquiryAssumption ==
  /\ Plugin \notin Devices \union Streams \union VolumeControls \union MuteControls
  /\ Devices \intersect Streams = {}
  /\ (Devices \union Streams) \intersect (VolumeControls \union MuteControls) = {}
  /\ InputStreams \intersect OutputStreams = {}
  /\ VolumeControls \intersect MuteControls = {}
  /\ IsFiniteSet(PluginObjects) /\ IsFiniteSet(CustomSelectors)
  /\ Rooms \subseteq Nat
  /\ Lengths \subseteq Nat
  /\ MaxChanges \in Nat

VARIABLES registered,  \* objects that the dispatcher finds
          children,    \* per object: ownedObjects_
          custom,      \* per object: customProps_, selector to [getter, setter]
          length,      \* per object and stored list: its length
          call,        \* the inquiry: the next call and the answers so far
          disturbed,   \* history: the inquiry's object or answers were changed under it
          changes      \* counts changes, for the bound

propertyVars == <<registered, children, custom, length>>
inquiryVars == <<propertyVars, call, disturbed, changes>>

OK(value) == [status |-> "noError", value |-> value]
Error(status) == [status |-> status, value |-> 0]
Unasked == Error("unasked")

Idle == [pc |-> "has", object |-> Plugin, selector |-> "Name", scope |-> "global",
         has |-> FALSE, settable |-> Unasked, size |-> Unasked, room |-> 0,
         qualified |-> TRUE, data |-> Unasked, set |-> Unasked]

-----------------------------------------------------------------------------
\* Lists

GetOwnedObjectIDs(o, scope, class) ==
  {x \in children[o] : scope \in {"global", ScopeOf(x)} /\ x \in class}

GetDeviceIDs(o) == GetOwnedObjectIDs(o, "global", Devices)
GetStreamIDs(o, scope) == GetOwnedObjectIDs(o, scope, Streams)
GetControlIDs(o) == GetOwnedObjectIDs(o, "global", VolumeControls \union MuteControls)
GetCustomProperties(o) == DOMAIN custom[o]

\* How many values a getter returns.
Count(o, getter, scope) ==
  CASE getter \in {"one", "GetRelatedDeviceIDs"} -> 1
    [] getter = "GetPreferredChannelsForStereo" -> 2
    [] getter = "GetOwnedObjectIDs" -> Cardinality(GetOwnedObjectIDs(o, scope, PluginObjects))
    [] getter = "GetDeviceIDs" -> Cardinality(GetDeviceIDs(o))
    [] getter = "GetStreamIDs" -> Cardinality(GetStreamIDs(o, scope))
    [] getter = "GetControlIDs" -> Cardinality(GetControlIDs(o))
    [] getter = "GetCustomProperties" -> Cardinality(GetCustomProperties(o))
    [] OTHER -> length[o][getter]

-----------------------------------------------------------------------------
\* Custom properties, a CFString or a property list

HasPropertyFallback(o, selector) == selector \in DOMAIN custom[o]

IsPropertySettableFallback(o, selector) ==
  IF selector \notin DOMAIN custom[o] THEN Error("unknownProperty")
  ELSE OK(custom[o][selector].setter)

GetPropertyDataSizeFallback(o, selector) ==
  IF selector \notin DOMAIN custom[o] THEN Error("unknownProperty") ELSE OK(CFStringRef)

GetPropertyDataFallback(o, selector, room) ==
  IF selector \notin DOMAIN custom[o] \/ ~custom[o][selector].getter
  THEN Error("unknownProperty")
  ELSE IF room < CFStringRef THEN Error("badPropertySize") ELSE OK(CFStringRef)

SetPropertyDataFallback(o, selector, room) ==
  IF selector \notin DOMAIN custom[o] \/ ~custom[o][selector].setter
  THEN Error("unknownProperty")
  ELSE IF room # CFStringRef THEN Error("badPropertySize") ELSE OK(room)

-----------------------------------------------------------------------------
\* The five calls, through the bridge

HasProperty(o, selector, scope) ==
  LET table == HasOf[ClassOf(o)]
  IN  IF o \notin registered THEN FALSE
      ELSE IF \E s \in Scopes : <<selector, s>> \in table
           THEN <<selector, scope>> \in table
           ELSE HasPropertyFallback(o, selector)

IsPropertySettable(o, selector) ==
  IF o \notin registered THEN Error("badObject")
  ELSE IF selector \in DOMAIN SettableOf[ClassOf(o)] THEN OK(SettableOf[ClassOf(o)][selector])
       ELSE IsPropertySettableFallback(o, selector)

GetPropertyDataSize(o, selector, scope) ==
  LET entry == SizeOf[ClassOf(o)][selector]
  IN  IF o \notin registered THEN Error("badObject")
      ELSE IF selector \in DOMAIN SizeOf[ClassOf(o)]
           THEN OK(entry.width * Count(o, entry.getter, scope))
           ELSE GetPropertyDataSizeFallback(o, selector)

\* What is written to a buffer with so much room.
Filled(entry, count, room) ==
  LET fits == room \div entry.width
  IN  IF count <= fits THEN OK(count * entry.width)
      ELSE IF entry.whole THEN Error("badPropertySize") ELSE OK(fits * entry.width)

\* The question is one that only a qualifier makes complete.
NeedsQualifier(o, selector) == o = Plugin /\ selector \in PluginQualified

GetPropertyData(o, selector, scope, room, qualified) ==
  LET entry == GetOf[ClassOf(o)][selector]
  IN  IF o \notin registered THEN Error("badObject")
      ELSE IF NeedsQualifier(o, selector) /\ ~qualified THEN Error("badPropertySize")
      ELSE IF selector \in DOMAIN GetOf[ClassOf(o)]
           THEN Filled(entry, Count(o, entry.getter, scope), room)
           ELSE GetPropertyDataFallback(o, selector, room)

\* The setter of Identify is not implemented; those of the rate and of the
\* formats refuse a value that is not supported.
SetterAnswers(selector) ==
  CASE selector = "Identify" -> {Error("unsupportedOperation")}
    [] selector \in {"NominalSampleRate", "PhysicalFormat", "VirtualFormat"} ->
         {OK(0), Error("unsupportedFormat")}
    [] OTHER -> {OK(0)}

SetPropertyData(o, selector, room) ==
  IF o \notin registered THEN {Error("badObject")}
  ELSE IF selector \in DOMAIN SetOf[ClassOf(o)]
       THEN IF room # SetOf[ClassOf(o)][selector] THEN {Error("badPropertySize")}
            ELSE SetterAnswers(selector)
       ELSE {SetPropertyDataFallback(o, selector, room)}

-----------------------------------------------------------------------------
\* PluginEntry's objects: one device with an input stream.
InquiryInit ==
  /\ registered = PluginObjects
  /\ children \in {[o \in PluginObjects |->
                      CASE o = Plugin -> {d} [] o = d -> {s} [] OTHER -> {}] :
                    d \in Devices, s \in InputStreams}
  /\ custom = [o \in PluginObjects |-> <<>>]
  /\ length = [o \in PluginObjects |-> [getter \in StoredLists(o) |-> 1]]
  /\ call = Idle
  /\ disturbed = FALSE
  /\ changes = 0

AskHas(o, selector, scope) ==
  /\ call.pc = "has"
  /\ call' = [Idle EXCEPT !.pc = "settable", !.object = o, !.selector = selector,
                          !.scope = scope, !.has = HasProperty(o, selector, scope)]
  /\ disturbed' = FALSE
  /\ UNCHANGED <<propertyVars, changes>>

AskSettable ==
  /\ call.pc = "settable"
  /\ call' = [call EXCEPT !.pc = "size",
                          !.settable = IsPropertySettable(call.object, call.selector)]
  /\ UNCHANGED <<propertyVars, disturbed, changes>>

AskSize ==
  /\ call.pc = "size"
  /\ call' = [call EXCEPT !.pc = "data",
                 !.size = GetPropertyDataSize(call.object, call.selector, call.scope)]
  /\ UNCHANGED <<propertyVars, disturbed, changes>>

\* The buffer has the size that was answered, or one the client knows of; the
\* client may leave out a qualifier that the property needs.
AskData(room, qualified) ==
  /\ call.pc = "data"
  /\ qualified \/ NeedsQualifier(call.object, call.selector)
  /\ call' = [call EXCEPT !.pc = "set", !.room = room, !.qualified = qualified,
                 !.data = GetPropertyData(call.object, call.selector, call.scope, room, qualified)]
  /\ UNCHANGED <<propertyVars, disturbed, changes>>

AskSet ==
  /\ call.pc = "set"
  /\ \E answer \in SetPropertyData(call.object, call.selector, call.room) :
       call' = [call EXCEPT !.pc = "end", !.set = answer]
  /\ UNCHANGED <<propertyVars, disturbed, changes>>

EndInquiry ==
  /\ call.pc = "end"
  /\ call' = Idle
  /\ disturbed' = FALSE
  /\ UNCHANGED <<propertyVars, changes>>

-----------------------------------------------------------------------------
\* Changes

Change(disturbs) ==
  /\ changes < MaxChanges
  /\ changes' = changes + 1
  /\ disturbed' = (disturbed \/ disturbs)
  /\ UNCHANGED call

AddOwnedObject(o, x) ==
  /\ x \in registered \ children[o]
  /\ \/ o = Plugin /\ x \in Devices
     \/ o \in Devices /\ x \in PluginObjects \ ({Plugin} \union Devices)
  /\ \A other \in PluginObjects : x \notin children[other]
  /\ children' = [children EXCEPT ![o] = @ \union {x}]
  /\ Change(FALSE)
  /\ UNCHANGED <<registered, custom, length>>

RemoveOwnedObject(o, x) ==
  /\ x \in children[o]
  /\ children' = [children EXCEPT ![o] = @ \ {x}]
  /\ Change(FALSE)
  /\ UNCHANGED <<registered, custom, length>>

\* An object that nobody owns is destroyed, and nothing is in its place.
Destroy(x) ==
  /\ x \in registered \ {Plugin}
  /\ children[x] = {}
  /\ \A o \in PluginObjects : x \notin children[o]
  /\ registered' = registered \ {x}
  /\ Change(call.object = x)
  /\ UNCHANGED <<children, custom, length>>

\* A list gets another length.  Only the channel layout is returned whole or not at all.
SetList(o, getter, n) ==
  /\ o \in registered
  /\ getter \in StoredLists(o)
  /\ n # length[o][getter]
  /\ length' = [length EXCEPT ![o][getter] = n]
  /\ Change(call.object = o /\ call.selector = "PreferredChannelLayout"
            /\ getter = "GetPreferredChannelLayout")
  /\ UNCHANGED <<registered, children, custom>>

RegisterCustomProperty(o, selector, property) ==
  /\ o \in registered
  /\ custom' = [custom EXCEPT ![o] = Each({selector}, property) ++ @]
  /\ Change(call.object = o /\ call.selector = selector)
  /\ UNCHANGED <<registered, children, length>>

-----------------------------------------------------------------------------
\* What a client asks for; a selector of another class is one that no switch
\* knows, like that of a custom property before it is registered.
Known(o) == {entry[1] : entry \in HasOf[ClassOf(o)]}

Inquire ==
  \/ \E o \in PluginObjects : \E selector \in Known(o) \union CustomSelectors, scope \in Scopes :
        AskHas(o, selector, scope)
  \/ AskSettable
  \/ AskSize
  \/ \E room \in Rooms \union (IF call.size.status = "noError" THEN {call.size.value} ELSE {}) :
        \E qualified \in BOOLEAN : AskData(room, qualified)
  \/ AskSet
  \/ EndInquiry

Evolve ==
  \/ \E o, x \in PluginObjects : AddOwnedObject(o, x) \/ RemoveOwnedObject(o, x)
  \/ \E x \in PluginObjects : Destroy(x)
  \/ \E o \in PluginObjects : \E getter \in StoredLists(o), n \in Lengths : SetList(o, getter, n)
  \/ \E o \in PluginObjects, selector \in CustomSelectors :
       \E property \in [getter : BOOLEAN, setter : BOOLEAN] :
         RegisterCustomProperty(o, selector, property)

InquiryNext == Inquire \/ Evolve

InquirySpec == InquiryInit /\ [][InquiryNext]_inquiryVars

-----------------------------------------------------------------------------
Statuses == {"unasked", "noError", "badObject", "unknownProperty", "badPropertySize",
             "unsupportedOperation", "unsupportedFormat"}

InquiryTypeOK ==
  /\ registered \subseteq PluginObjects
  /\ children \in [PluginObjects -> SUBSET PluginObjects]
  /\ \A o \in PluginObjects : DOMAIN custom[o] \subseteq CustomSelectors
  /\ \A o \in PluginObjects : length[o] \in [StoredLists(o) -> Nat]
  /\ call.has \in BOOLEAN
  /\ {call.settable.status, call.size.status, call.data.status, call.set.status} \subseteq Statuses
  /\ changes \in 0..MaxChanges

\* A custom property may have been registered without a getter.
WithoutGetter(o, selector) ==
  selector \in DOMAIN custom[o] /\ ~custom[o][selector].getter

\* The answers to one inquiry fit together although the driver gives them one
\* by one while lists change: what exists has a size and, in a buffer of that
\* size and with the qualifier it needs, data; what does not exist in any scope
\* has neither.
AnswersAgree ==
  call.pc = "end" /\ ~disturbed =>
    /\ call.has =>
         /\ call.settable.status = "noError"
         /\ call.size.status = "noError"
         /\ call.qualified /\ call.room >= call.size.value
              /\ ~WithoutGetter(call.object, call.selector) => call.data.status = "noError"
    /\ ~call.has /\ (\A s \in Scopes : ~HasProperty(call.object, call.selector, s)) =>
         \A answer \in {call.settable, call.size, call.data, call.set} :
           answer.status \in {"unknownProperty", "badObject"}

\* However a list grows between the question for its size and the one for its
\* data, the driver never writes behind the buffer it was given.
NeverMoreThanRoom == call.data.value <= call.room

\* A setter is looked for among the custom properties when the class has
\* none, also for a selector that the class otherwise answers for itself.
HiddenSetter(o, selector) == selector \in DOMAIN custom[o] /\ selector \in Known(o)

\* A property that is said to be settable has a setter, in a buffer of the
\* size that was answered; one that is not has none.
SettableHasSetter ==
  /\ call.pc = "end"
  /\ ~disturbed
  /\ ~HiddenSetter(call.object, call.selector)
  /\ call.settable.status = "noError"
  /\ call.room = call.size.value
  => (call.set.status \in {"unknownProperty", "badPropertySize"} <=> ~call.settable.value)

\* The five answers are consistent, and never more than was asked for.
InquiryInv == InquiryTypeOK /\ AnswersAgree /\ NeverMoreThanRoom /\ SettableHasSetter
=============================================================================
