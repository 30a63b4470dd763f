SPECIFICATION Spec
CONSTANTS
  Prime = 17
  PrimRoot = 3
  PrimeFactors = {2}
  Word = 16
  Shards = 2
  SenderThreads = 3
  AllowedCounts = {8, 15}
  Limits = {1, 5, 16}

ACTION_CONSTRAINT InOrder
INVARIANTS OwnOnce WalkComplete OnePass LookupSound CapNearlyKept
PROPERTIES WalkKept
