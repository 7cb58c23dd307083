SPECIFICATION Spec
CONSTANTS
  Requests <- MCRequests
  MaxPackets = 2
INVARIANTS EndpointsFollowConfiguration AddressAfterStatus
PROPERTIES RequestsEnd PluggedIsConfigured
