SPECIFICATION ControllerSpec
CONSTANTS
  NoTenant = NoTenant
  zero = zero
  front = front
  side = side
  back = back
  ctl = ctl
  Ctl = ctl
  Procs <- MCProcs
  Tenants <- MCTenants
  RuleTenants <- MCRuleTenants
  Rules = {r1, r2}
  MaxReaders = 2
  EmptyLastToken = FALSE
  HasClient = TRUE
  Stoppable = TRUE
  DefaultTenantList <- MCDefaultTenantList
  DisableFullReplication = FALSE
  AllowListedTenants <- MCAllowListedTenants
  TenantLabelList <- MCTenantLabelList
  MaxParallelRequestPerLoad = 1

PROPERTIES ImplementsAllowList TenantGetsAllowed TenantGetsRevoked ListingEnds
INVARIANTS OkIsOneSnapshot ControllerTypeOK
