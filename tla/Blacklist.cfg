SPECIFICATION MCSpec
VIEW MCView
CONSTANTS
  Bits = 3
  RadixLength = 2
  Values = {0, 1}
  Networks <- MCNetworks
  Hosts <- MCHosts
  MaxLines = 3

INVARIANTS TreeSound CountExact IndexExact AllowedExact IndicesAllowed
CHECK_DEADLOCK FALSE
