SPECIFICATION OutputSpec
CONSTANTS
  Source = {"h1", "h2"}
  RawOf <- MCRawOf
  IntMod = 8
  WordMod = 64
  BUFFER_SIZE = 2
  Probes = {"tcp_synscan", "icmp_echoscan", "udp"}
  Outputs = {"csvredis", "redis-packed", "json", "node-json"}
  Requests <- MCRequests
  FiltersOf <- MCFilters
  PacketsOf <- MCPackets
  Args <- MCArgs
  MaxResponses = 3

INVARIANTS RecordsSound RowsExact PushedExact
CHECK_DEADLOCK FALSE
