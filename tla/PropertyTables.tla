---------------------------- MODULE PropertyTables ----------------------------
(***************************************************************************)
(* What the classes of libASPL answer about their properties.              *)
(*                                                                         *)
(* Every class has five functions, each of them a switch over the          *)
(* selectors it knows, written out five times by a generator.  Here every  *)
(* switch is a table of its own, so that the five can be compared.         *)
(* A selector is named without its kAudio...Property prefix.               *)
(***************************************************************************)
EXTENDS Naturals

Scopes == {"global", "input", "output"}

\* Has tables: the pairs of a selector and a scope for which the answer is true.
Everywhere(selectors) == selectors \X Scopes
InputOrOutput(selectors) == selectors \X {"input", "output"}

\* Settable tables: the answer, for every case.
No(selectors) == [s \in selectors |-> FALSE]
Yes(selectors) == [s \in selectors |-> TRUE]

\* Size and data tables: one value of so many bytes, or as many as a getter
\* returns.  Data of a list is what fits of it, or the whole of it or nothing.
One(width) == [width |-> width, getter |-> "one", whole |-> TRUE]
List(width, getter) == [width |-> width, getter |-> getter, whole |-> FALSE]
Whole(width, getter) == [width |-> width, getter |-> getter, whole |-> TRUE]
Each(selectors, entry) == [s \in selectors |-> entry]

\* The cases of a switch, and for all others those of another.
first ++ second ==
  [s \in DOMAIN first \union DOMAIN second |-> IF s \in DOMAIN first THEN first[s] ELSE second[s]]

\* sizeof on 64-bit macOS
UInt8 == 1
UInt32 == 4
Float32 == 4
Float64 == 8
AudioObjectID == 4
CFStringRef == 8
CFURLRef == 8
AudioValueRange == 16
AudioStreamBasicDescription == 40
AudioStreamRangedDescription == 56
CustomPropertyInfo == 12  \* AudioServerPlugInCustomPropertyInfo

-----------------------------------------------------------------------------
\* Object

ObjectHas ==
  Everywhere({"Class", "BaseClass", "Owner", "OwnedObjects", "CustomPropertyInfoList"})

ObjectSettable ==
  No({"Class", "BaseClass", "Owner", "OwnedObjects", "CustomPropertyInfoList"})

ObjectSize ==
     Each({"Class", "BaseClass"}, One(UInt32))
  ++ Each({"Owner"}, One(AudioObjectID))
  ++ Each({"OwnedObjects"}, List(AudioObjectID, "GetOwnedObjectIDs"))
  ++ Each({"CustomPropertyInfoList"}, List(CustomPropertyInfo, "GetCustomProperties"))

ObjectGetIdentity ==
  Each({"Class", "BaseClass"}, One(UInt32)) ++ Each({"Owner"}, One(AudioObjectID))

ObjectGetLists ==
     Each({"OwnedObjects"}, List(AudioObjectID, "GetOwnedObjectIDs"))
  ++ Each({"CustomPropertyInfoList"}, List(CustomPropertyInfo, "GetCustomProperties"))

ObjectGet == ObjectGetIdentity ++ ObjectGetLists

ObjectSet == <<>>

-----------------------------------------------------------------------------
\* Plugin

PluginHas ==
  Everywhere({"Manufacturer", "ResourceBundle", "DeviceList", "TranslateUIDToDevice"})

PluginSettable ==
  No({"Manufacturer", "ResourceBundle", "DeviceList", "TranslateUIDToDevice"})

PluginSize ==
     Each({"Manufacturer", "ResourceBundle"}, One(CFStringRef))
  ++ Each({"DeviceList"}, List(AudioObjectID, "GetDeviceIDs"))
  ++ Each({"TranslateUIDToDevice"}, One(AudioObjectID))

PluginGetNames ==
  Each({"Manufacturer", "ResourceBundle"}, One(CFStringRef))

PluginGetDevices ==
     Each({"DeviceList"}, List(AudioObjectID, "GetDeviceIDs"))
  ++ Each({"TranslateUIDToDevice"}, One(AudioObjectID))

PluginGet == PluginGetNames ++ PluginGetDevices

\* The cases whose data is refused without a CFString as qualifier, the UID here.
PluginQualified == {"TranslateUIDToDevice"}

PluginSet == <<>>

-----------------------------------------------------------------------------
\* Device

DeviceHasIdentity ==
  Everywhere({"Name", "Manufacturer", "DeviceUID", "ModelUID", "SerialNumber",
              "FirmwareVersion", "Icon", "ConfigurationApplication", "TransportType"})

DeviceHasFormat ==
  Everywhere({"RelatedDevices", "ClockIsStable", "ClockAlgorithm", "ClockDomain",
              "ZeroTimeStampPeriod", "NominalSampleRate", "AvailableNominalSampleRates"})
  \union InputOrOutput({"Latency", "SafetyOffset", "PreferredChannelsForStereo"})

DeviceHasState ==
  Everywhere({"DeviceIsRunning", "Identify", "DeviceIsAlive", "IsHidden", "Streams", "ControlList"})
  \union InputOrOutput({"PreferredChannelLayout", "DeviceCanBeDefaultDevice",
                        "DeviceCanBeDefaultSystemDevice"})

DeviceHas == DeviceHasIdentity \union DeviceHasFormat \union DeviceHasState

DeviceSettableIdentity ==
  No({"Name", "Manufacturer", "DeviceUID", "ModelUID", "SerialNumber", "FirmwareVersion",
      "Icon", "ConfigurationApplication", "TransportType"})

DeviceSettableFormat ==
     No({"RelatedDevices", "ClockIsStable", "ClockAlgorithm", "ClockDomain", "Latency",
         "SafetyOffset", "ZeroTimeStampPeriod", "AvailableNominalSampleRates",
         "PreferredChannelsForStereo"})
  ++ Yes({"NominalSampleRate"})

DeviceSettableState ==
     No({"PreferredChannelLayout", "DeviceIsRunning", "DeviceIsAlive", "IsHidden",
         "DeviceCanBeDefaultDevice", "DeviceCanBeDefaultSystemDevice", "Streams", "ControlList"})
  ++ Yes({"Identify"})

DeviceSettable == DeviceSettableIdentity ++ DeviceSettableFormat ++ DeviceSettableState

DeviceSizeIdentity ==
     Each({"Name", "Manufacturer", "DeviceUID", "ModelUID", "SerialNumber",
           "FirmwareVersion", "ConfigurationApplication"}, One(CFStringRef))
  ++ Each({"Icon"}, One(CFURLRef))
  ++ Each({"TransportType"}, One(UInt32))

DeviceSizeFormat ==
     Each({"RelatedDevices"}, List(AudioObjectID, "GetRelatedDeviceIDs"))
  ++ Each({"ClockIsStable", "ClockAlgorithm", "ClockDomain", "Latency", "SafetyOffset",
           "ZeroTimeStampPeriod"}, One(UInt32))
  ++ Each({"NominalSampleRate"}, One(Float64))
  ++ Each({"AvailableNominalSampleRates"}, List(AudioValueRange, "GetAvailableSampleRates"))
  ++ Each({"PreferredChannelsForStereo"}, List(UInt32, "GetPreferredChannelsForStereo"))

\* Mutant: a case is missing.
DeviceSizeStateShort ==
     Each({"PreferredChannelLayout"}, List(UInt8, "GetPreferredChannelLayout"))
  ++ Each({"DeviceIsRunning", "Identify", "DeviceIsAlive", "IsHidden", "DeviceCanBeDefaultDevice",
           "DeviceCanBeDefaultSystemDevice"}, One(UInt32))
  ++ Each({"Streams"}, List(AudioObjectID, "GetStreamIDs"))

DeviceSizeState ==
     Each({"PreferredChannelLayout"}, List(UInt8, "GetPreferredChannelLayout"))
  ++ Each({"DeviceIsRunning", "Identify", "DeviceIsAlive", "IsHidden", "DeviceCanBeDefaultDevice",
           "DeviceCanBeDefaultSystemDevice"}, One(UInt32))
  ++ Each({"Streams"}, List(AudioObjectID, "GetStreamIDs"))
  ++ Each({"ControlList"}, List(AudioObjectID, "GetControlIDs"))

DeviceSize == DeviceSizeIdentity ++ DeviceSizeFormat ++ DeviceSizeState

DeviceGetNames ==
  Each({"Name", "Manufacturer", "DeviceUID", "ModelUID"}, One(CFStringRef))

DeviceGetProduct ==
     Each({"SerialNumber", "FirmwareVersion", "ConfigurationApplication"}, One(CFStringRef))
  ++ Each({"Icon"}, One(CFURLRef))
  ++ Each({"TransportType"}, One(UInt32))

DeviceGetClock ==
     Each({"RelatedDevices"}, List(AudioObjectID, "GetRelatedDeviceIDs"))
  ++ Each({"ClockIsStable", "ClockAlgorithm", "ClockDomain", "Latency"}, One(UInt32))

DeviceGetFormat ==
     Each({"SafetyOffset", "ZeroTimeStampPeriod"}, One(UInt32))
  ++ Each({"NominalSampleRate"}, One(Float64))
  ++ Each({"AvailableNominalSampleRates"}, List(AudioValueRange, "GetAvailableSampleRates"))
  ++ Each({"PreferredChannelsForStereo"}, List(UInt32, "GetPreferredChannelsForStereo"))

DeviceGetState ==
     Each({"PreferredChannelLayout"}, Whole(UInt8, "GetPreferredChannelLayout"))
  ++ Each({"DeviceIsRunning", "Identify", "DeviceIsAlive", "IsHidden"}, One(UInt32))

DeviceGetParts ==
     Each({"DeviceCanBeDefaultDevice", "DeviceCanBeDefaultSystemDevice"}, One(UInt32))
  ++ Each({"Streams"}, List(AudioObjectID, "GetStreamIDs"))
  ++ Each({"ControlList"}, List(AudioObjectID, "GetControlIDs"))

DeviceGetIdentity == DeviceGetNames ++ DeviceGetProduct
DeviceGetMeasures == DeviceGetClock ++ DeviceGetFormat
DeviceGetUse == DeviceGetState ++ DeviceGetParts

DeviceGet == DeviceGetIdentity ++ DeviceGetMeasures ++ DeviceGetUse

DeviceSet == Each({"NominalSampleRate"}, Float64) ++ Each({"Identify"}, UInt32)

-----------------------------------------------------------------------------
\* Stream

StreamHas ==
  Everywhere({"IsActive", "Direction", "TerminalType", "StartingChannel", "Latency",
              "PhysicalFormat", "VirtualFormat",
              "AvailablePhysicalFormats", "AvailableVirtualFormats"})

StreamSettable ==
     No({"Direction", "TerminalType", "StartingChannel", "Latency",
         "AvailablePhysicalFormats", "AvailableVirtualFormats"})
  ++ Yes({"IsActive", "PhysicalFormat", "VirtualFormat"})

StreamSize ==
     Each({"IsActive", "Direction", "TerminalType", "StartingChannel", "Latency"}, One(UInt32))
  ++ Each({"PhysicalFormat", "VirtualFormat"}, One(AudioStreamBasicDescription))
  ++ Each({"AvailablePhysicalFormats"}, List(AudioStreamRangedDescription, "GetAvailablePhysicalFormats"))
  ++ Each({"AvailableVirtualFormats"}, List(AudioStreamRangedDescription, "GetAvailableVirtualFormats"))

StreamGetPlace ==
  Each({"IsActive", "Direction", "TerminalType", "StartingChannel"}, One(UInt32))

StreamGetFormat ==
     Each({"Latency"}, One(UInt32))
  ++ Each({"PhysicalFormat", "VirtualFormat"}, One(AudioStreamBasicDescription))
  ++ Each({"AvailablePhysicalFormats"}, List(AudioStreamRangedDescription, "GetAvailablePhysicalFormats"))
  ++ Each({"AvailableVirtualFormats"}, List(AudioStreamRangedDescription, "GetAvailableVirtualFormats"))

StreamGet == StreamGetPlace ++ StreamGetFormat

StreamSet ==
     Each({"IsActive"}, UInt32)
  ++ Each({"PhysicalFormat", "VirtualFormat"}, AudioStreamBasicDescription)

-----------------------------------------------------------------------------
\* VolumeControl

VolumeHas ==
  Everywhere({"Scope", "Element", "ScalarValue", "DecibelValue", "DecibelRange",
              "ConvertScalarToDecibels", "ConvertDecibelsToScalar"})

VolumeSettable ==
     No({"Scope", "Element", "DecibelRange", "ConvertScalarToDecibels", "ConvertDecibelsToScalar"})
  ++ Yes({"ScalarValue", "DecibelValue"})

VolumeSize ==
     Each({"Scope", "Element"}, One(UInt32))
  ++ Each({"ScalarValue", "DecibelValue", "ConvertScalarToDecibels", "ConvertDecibelsToScalar"},
          One(Float32))
  ++ Each({"DecibelRange"}, One(AudioValueRange))

VolumeGetValue ==
  Each({"Scope", "Element"}, One(UInt32)) ++ Each({"ScalarValue", "DecibelValue"}, One(Float32))

VolumeGetRange ==
     Each({"DecibelRange"}, One(AudioValueRange))
  ++ Each({"ConvertScalarToDecibels", "ConvertDecibelsToScalar"}, One(Float32))

VolumeGet == VolumeGetValue ++ VolumeGetRange

VolumeSet == Each({"ScalarValue", "DecibelValue"}, Float32)

-----------------------------------------------------------------------------
\* MuteControl

MuteHas == Everywhere({"Scope", "Element", "BooleanControlValue"})

MuteSettable == No({"Scope", "Element"}) ++ Yes({"BooleanControlValue"})

MuteSize == Each({"Scope", "Element", "BooleanControlValue"}, One(UInt32))

MuteGet == Each({"Scope", "Element", "BooleanControlValue"}, One(UInt32))

MuteSet == Each({"BooleanControlValue"}, UInt32)

-----------------------------------------------------------------------------
\* The switches of the five functions, for every class; what a class does not
\* know it leaves to Object.

Classes == {"Plugin", "Device", "Stream", "VolumeControl", "MuteControl"}

HasOf == [Plugin |-> PluginHas \union ObjectHas,
          Device |-> DeviceHas \union ObjectHas,
          Stream |-> StreamHas \union ObjectHas,
          VolumeControl |-> VolumeHas \union ObjectHas,
          MuteControl |-> MuteHas \union ObjectHas]

SettableOf == [Plugin |-> PluginSettable ++ ObjectSettable,
               Device |-> DeviceSettable ++ ObjectSettable,
               Stream |-> StreamSettable ++ ObjectSettable,
               VolumeControl |-> VolumeSettable ++ ObjectSettable,
               MuteControl |-> MuteSettable ++ ObjectSettable]

SizeOf == [Plugin |-> PluginSize ++ ObjectSize,
           Device |-> DeviceSize ++ ObjectSize,
           Stream |-> StreamSize ++ ObjectSize,
           VolumeControl |-> VolumeSize ++ ObjectSize,
           MuteControl |-> MuteSize ++ ObjectSize]

GetOf == [Plugin |-> PluginGet ++ ObjectGet,
          Device |-> DeviceGet ++ ObjectGet,
          Stream |-> StreamGet ++ ObjectGet,
          VolumeControl |-> VolumeGet ++ ObjectGet,
          MuteControl |-> MuteGet ++ ObjectGet]

SetOf == [Plugin |-> PluginSet ++ ObjectSet,
          Device |-> DeviceSet ++ ObjectSet,
          Stream |-> StreamSet ++ ObjectSet,
          VolumeControl |-> VolumeSet ++ ObjectSet,
          MuteControl |-> MuteSet ++ ObjectSet]
=============================================================================
