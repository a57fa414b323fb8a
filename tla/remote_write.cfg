SPECIFICATION RemoteSpec
CONSTANTS
  NoTenant = NoTenant
  Garbage = Garbage
  front = front
  back = back
  ctl = ctl
  Ctl = ctl
  Requests = {q1, q2}
  Procs <- MCProcs
  Tenants = {front, back}
  RuleTenants = {back}
  Rules = {r1}
  MaxReaders = 2
  EmptyLastToken = FALSE
  HasClient = TRUE
  Stoppable = FALSE
  DefaultTenantList <- MCDefaultTenantList
  DisableFullReplication = TRUE
  AllowListedTenants <- MCAllowListedTenants
  TenantLabelList <- MCTenantLabelList
  MaxParallelRequestPerLoad = 1
  Payloads <- MCPayloads
  UpstreamReplies = {"2xx", "4xx", "5xx"}
  Stream <- MCStream
  MaxCrashes = 1
PROPERTIES NoDuplicateWithoutTrouble OnlyOrphansAreLate UpdateGetsThrough StreamGetsThrough ImplementsDelivery
