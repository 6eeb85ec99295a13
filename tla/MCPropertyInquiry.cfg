CONSTANTS
  Plugin = plugin
  Devices = {d1}
  InputStreams = {s1}
  OutputStreams = {}
  VolumeControls = {v1}
  MuteControls = {m1}
  CustomSelectors = {"Custom", "Name"}
  Rooms = {6}
  Lengths = {0, 32}
  MaxChanges = 2
SPECIFICATION InquirySpec
INVARIANTS InquiryInv
