SPECIFICATION Spec
CONSTANTS
  N = 2
  MaxShare = 1
  MaxTargets = 1
  Streams = 2
  MaxResults = 1
  MaxRuntime = 1
  Cooldown = 1
  MaxPackets = 1
  DryRuns = {TRUE, FALSE}
  Monitor = TRUE
  FilterDuplicates = FALSE
  FilterUnsuccessful = FALSE
  InitMayFail = FALSE
PROPERTIES ScanEnds PromiseKept
