SPECIFICATION FairSpec
CONSTANTS
  Apps = {zoom, teams}
  Physical = {builtin, headset}
  Removable = {headset}
  Virtual = virtual
  None = none
  MaxPending = 3
INVARIANTS LifecycleInv PipelineFollowsState NoOrphanRecording
PROPERTIES OriginalInputKept TransitionsEnd NoticedEndStops
