SPECIFICATION FairSpec
CONSTANTS
  PoolSizes = {1, 2, 3}
  Peers <- MCPeers
  Mappings <- MCMappings
  PortBits = 2
  Shared = TRUE
INVARIANTS
  TypeOK
  Managed
  Survivors
  ReachableByPort
PROPERTIES
  StopCloses
CHECK_DEADLOCK FALSE
