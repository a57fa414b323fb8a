----------------------------- MODULE MCController -----------------------------
(***************************************************************************)
(* Constants for checking TenantController: a replication tenant, one of   *)
(* the command line, and two of rules, so that an update takes two steps.  *)
(***************************************************************************)
EXTENDS AllowListRefinement

CONSTANTS zero, front, side, back, ctl

MCTenants == {NoTenant, zero, front, side, back}
MCRuleTenants == {side, back}
MCProcs == {ctl}
MCDefaultTenantList == <<zero>>
MCAllowListedTenants == <<front, zero>>
MCTenantLabelList == <<"tenant_id">>
=============================================================================
