SPECIFICATION SafeSpec
CONSTANTS
  N = 2
  MaxShare = 2
  MaxTargets = 2
  Streams = 1
  MaxResults = 2
  MaxRuntime = 0
  Cooldown = 1
  MaxPackets = 3
  DryRuns = {TRUE, FALSE}
  Monitor = TRUE
  FilterDuplicates = TRUE
  FilterUnsuccessful = TRUE
  InitMayFail = TRUE
INVARIANTS ScanInv PcapNotUsedAfterClose CompleteMeansStopped
INVARIANTS CooldownHonoured NothingSkipped TotalsExact
INVARIANTS ResultsExact MainIsLast FewLateProbes
