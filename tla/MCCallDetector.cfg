SPECIFICATION FairSpec
CONSTANTS
  Apps = {zoom, teams}
  None = none
  Warmup = 1
  Sustain = 1
  Grace = 1
  Silence = 1
INVARIANTS DetectorInv
PROPERTIES ReportsAsAssumed EndsOnlyAfterSilence CallEnds
