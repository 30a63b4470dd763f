SPECIFICATION Spec
CONSTANTS
  Prime = 17
  PrimRoot = 3
  PrimeFactors = {2}
  Word = 32
  Shards = 1
  SenderThreads = 3
  AllowedCounts = {8}
  Limits = {32}

INVARIANTS EveryHostProbed
