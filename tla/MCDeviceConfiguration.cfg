CONSTANTS
  Device = Device
  Streams = {s1, s2}
  VolumeControls = {v1}
  MuteControls = {m1}
  Values = {1, 2}
  Lists <- MCLists
  ChannelCount = 1
  NotSet = NotSet
  Word = 4
  MaxRequests = 3
SPECIFICATION Spec
INVARIANTS ConfigurationInv ChannelsDisjoint LastRequestWins
PROPERTIES FrozenWhileVisible
CHECK_DEADLOCK FALSE
