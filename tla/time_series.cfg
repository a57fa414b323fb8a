SPECIFICATION Spec
CONSTANTS
  Tenants = {a, b}
  TenantLabels <- MCTenantLabels
  Series <- MCSeries
  AllowLists <- MCLists
  ReplicateTos <- MCLists
  PayloadLength = 2
INVARIANT RequestsAreTheCopies
CHECK_DEADLOCK FALSE
