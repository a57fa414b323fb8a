SPECIFICATION Spec
CONSTANTS
  Tenants = {a, b}
  TenantLabels <- MCTenantLabels
  Series <- MCSeries
  AllowLists <- MCDistinctLists
  ReplicateTos <- MCDistinctLists
  PayloadLength = 1
INVARIANT NoDuplicateSeries
CHECK_DEADLOCK FALSE
