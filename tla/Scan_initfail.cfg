SPECIFICATION Spec
CONSTANTS
  N = 2
  MaxShare = 1
  MaxTargets = 1
  Streams = 1
  MaxResults = 0
  MaxRuntime = 0
  Cooldown = 0
  MaxPackets = 0
  DryRuns = {FALSE}
  Monitor = FALSE
  FilterDuplicates = FALSE
  FilterUnsuccessful = FALSE
  InitMayFail = TRUE
PROPERTIES ScanEnds
