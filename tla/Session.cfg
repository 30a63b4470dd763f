SPECIFICATION Spec
CONSTANTS
  NULL = NULL
  Junk = Junk
  eth0 = eth0
  eth1 = eth1
  gw = gw
  host = host
  mac1 = mac1
  mac2 = mac2
  Room = 3
  Byte = 4
  OutputModules = {"node-json", "redis-packed"}
  ByteWord = 4
  PortWord = 4
  Word = 16
  PacketBits = 2
  NumCores = 3
  AddressOf <- MCAddressOf
  PortArgs = {2, 5}
  SourceArgs <- MCSourceArgs
  ShardArgs = {1, 2}
  SeedArgs = {0, 15}
  BandwidthArgs = {1, 40}
  RateArgs = {0}
  LimitArgs = {0}
  ThreadArgs = {2, 4}
  AllowedCounts = {0, 3}
  Routes <- MCRoutes
  Neighbours <- MCNeighbours
  Words = {5}
  MaxOptions = 2
  MaxCalls = 2
  CreateMayFail = TRUE
  InitMayFail = TRUE

INVARIANTS RootNeverDenied ScansApart LaunchSane GatewayFound SourceInRange
PROPERTIES ScanReturns
CHECK_DEADLOCK FALSE
