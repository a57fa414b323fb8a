-------------------------- MODULE AllowListRefinement --------------------------
(***************************************************************************)
(* TenantController implements AllowList.  While an update holds the write *)
(* lock the list is still the one before it: that is what a reader would   *)
(* have met last and can meet next, if the lock does what it is for.       *)
(***************************************************************************)
EXTENDS TenantController

Visible == IF Ctl \in writers THEN published ELSE Range(tenants_vec)

Promise == INSTANCE AllowList WITH
    InitialTenants <- Range(allow_listed_tenants),
    ClusterTenants <- RuleTenants,
    allowed <- Visible,
    cluster <- TenantIds(k8s, Rules),
    seen <- TenantIds(snapshot, Rules),
    partial <- lost

\* The locked, paged and stepwise update of the controller is, to a reader, one
\* change from one whole allow-list to the next (controller.rs, 167-234).
ImplementsAllowList == Promise!Spec
=============================================================================
