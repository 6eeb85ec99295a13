CONSTANTS
  Devices = {d1, d2}
  Streams = {s1}
  VolumeControls = {v1}
  MuteControls = {m1}
  MinRawVolume = 0
  MaxRawVolume = 2
  RawValues = {1, 3}
  Copies = 2
  MaxOperations = 4
SPECIFICATION Spec
INVARIANTS PluginInv
PROPERTIES ViewConverges
CHECK_DEADLOCK FALSE
