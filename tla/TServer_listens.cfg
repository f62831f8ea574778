SPECIFICATION FairSpec
CONSTANTS
  PoolSizes = {1, 2, 3}
  Peers <- MCPeers
  Mappings <- MCMappings
  PortBits = 2
  Shared = FALSE
PROPERTIES
  Listens
CHECK_DEADLOCK FALSE
