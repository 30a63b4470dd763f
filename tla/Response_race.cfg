SPECIFICATION Spec
CONSTANTS
  Host = {0, 1, 2, 3}
  Target = {2, 3}
  Sender = {s1, s2}
  Modules = {"tcp_synscan"}
  Words <- MCWords
  Width = 4
  NumPorts = 3
  Streams = 1
  PageSize = 2
  MaxResults = 2
  FilterDuplicates = TRUE
  FilterUnsuccessful = TRUE
  MaxPackets = 3
INVARIANTS SynAckSucceeds
CHECK_DEADLOCK FALSE
SYMMETRY Threads
