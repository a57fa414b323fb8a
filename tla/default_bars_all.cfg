SPECIFICATION ProxySpec
CONSTANTS
  NoTenant = NoTenant
  Garbage = Garbage
  zero = zero
  front = front
  back = back
  ctl = ctl
  Ctl = ctl
  Requests = {q1}
  Procs <- MCProcs
  Tenants = {NoTenant, zero, front, back}
  RuleTenants = {back}
  Rules = {r1}
  MaxReaders = 2
  EmptyLastToken = FALSE
  HasClient = FALSE
  Stoppable = FALSE
  DefaultTenantList <- MCDefaultTenantList
  DisableFullReplication = FALSE
  AllowListedTenants <- MCNoTenants
  TenantLabelList <- MCTenantLabelList
  MaxParallelRequestPerLoad = 2
  Payloads <- MCPayloads
  UpstreamReplies = {"2xx", "3xx", "4xx", "5xx", "error"}
INVARIANT DefaultProxiesAll
