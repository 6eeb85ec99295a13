SPECIFICATION FairSpec
CONSTANTS
  zoom = zoom
  voiceMemos = voiceMemos
  micOnly = micOnly
  mixed = mixed
  MicOnly = micOnly
  Mixed = mixed
  VoiceMemos = voiceMemos
  Rings <- MCRings
  Bundles <- MCBundles
  RingRoom = 1
  MaxRegions = 2
  MaxBeats = 2
INVARIANTS NameIsOurs AttachedIsValid
PROPERTIES ResetInvisible EventuallyAttached
