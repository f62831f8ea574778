SPECIFICATION FairSpec
CONSTANTS
  PoolSizes = {1, 2, 3}
  Peers <- MCPeers
  Mappings <- MCMappings
  PortBits = 2
  Shared = TRUE
INVARIANT OperationsCancelled
CHECK_DEADLOCK FALSE
