SPECIFICATION ProxySpec
CONSTANTS
  NoTenant = NoTenant
  Garbage = Garbage
  zero = zero
  front = front
  back = back
  ctl = ctl
  Ctl = ctl
  Requests = {q1}
  Procs <- MCProcs
  Tenants = {NoTenant, zero, front, back}
  RuleTenants = {back}
  Rules = {r1, r2}
  MaxReaders = 2
  EmptyLastToken = TRUE
  HasClient = TRUE
  Stoppable = FALSE
  DefaultTenantList <- MCDefaultTenantList
  DisableFullReplication = FALSE
  AllowListedTenants <- MCAllowListedTenants
  TenantLabelList <- MCTenantLabelList
  MaxParallelRequestPerLoad = 2
  Payloads <- MCPayloads
  UpstreamReplies = {"2xx", "3xx", "4xx", "5xx", "error"}
INVARIANTS ProxyTypeOK RoutedByOneAllowList AckMeansDelivered VecMatchesSets PublishedView
