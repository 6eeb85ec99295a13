SPECIFICATION Spec
CONSTANTS
  Apps = {zoom, teams}
  Physical = {builtin, headset}
  Removable = {headset}
  Virtual = virtual
  None = none
  MaxPending = 3
INVARIANT RecordingBelongsToCall
