SPECIFICATION ProxySpec
CONSTANTS
  NoTenant = NoTenant
  Garbage = Garbage
  zero = zero
  front = front
  back = back
  ctl = ctl
  Ctl = ctl
  Requests = {q1, q2}
  Procs <- MCProcs
  Tenants = {zero, front, back}
  RuleTenants = {back}
  Rules = {r1}
  MaxReaders = 2
  EmptyLastToken = FALSE
  HasClient = TRUE
  Stoppable = FALSE
  DefaultTenantList <- MCDefaultTenantList
  DisableFullReplication = FALSE
  AllowListedTenants <- MCAllowListedTenants
  TenantLabelList <- MCTenantLabelList
  MaxParallelRequestPerLoad = 1
  Payloads <- MCShortPayload
  UpstreamReplies = {"2xx", "5xx"}
INVARIANTS RoutedByOneAllowList
PROPERTIES SentOnlyWhileAllowed EveryRequestSettles UpdateGetsThrough
