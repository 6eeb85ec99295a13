CONSTANTS
  Device = Device
  Streams = {s1, s2}
  VolumeControls = {}
  MuteControls = {}
  Values = {1, 3}
  Lists <- MCLists
  ChannelCount = 1
  NotSet = NotSet
  Word = 4
  MaxRequests = 2
  Clients = {c1, c2}
  Apps = {VoiceMemos, CallApp}
  VoiceMemos = VoiceMemos
  NoClient = NoClient
  EnableMixing = FALSE
  TicksPerFrame = 3
  MaxTime = 3
SYMMETRY MCSymmetry
SPECIFICATION IOSpec
INVARIANTS IOInv RouteFollowsApplication
PROPERTIES StampsAdvance
CHECK_DEADLOCK FALSE
