------------------------------ MODULE ProxyConfig ------------------------------
(***************************************************************************)
(* What main() of proxy/src/main.rs makes of the command line before it    *)
(* serves.  An option value is the sequence of its comma-separated parts;  *)
(* the option that is absent, or empty, has no parts.                      *)
(***************************************************************************)
EXTENDS Sequences

CONSTANTS
    NoTenant,                \* the empty string, which names no tenant
    DefaultTenantList,       \* --default-tenant-list
    DisableFullReplication,  \* --disable-full-replication
    AllowListedTenants,      \* --allow-listed-tenants
    TenantLabelList,         \* --tenant-label-list
    MaxParallelRequestPerLoad  \* --max-parallel-request-per-load

ListedIn(option) == { option[i] : i \in DOMAIN option }

ASSUME OptionsAssumption ==
    /\ DefaultTenantList \in Seq(ListedIn(DefaultTenantList))
    /\ AllowListedTenants \in Seq(ListedIn(AllowListedTenants))
    /\ TenantLabelList \in Seq(ListedIn(TenantLabelList))

\* str::split(","): the empty string splits into one empty part.
Split(option) == IF option = << >> THEN <<NoTenant>> ELSE option

tenant_labels == ListedIn(Split(TenantLabelList))

replicate_to == IF DisableFullReplication THEN << >> ELSE Split(DefaultTenantList)

allowed_tenants == Split(AllowListedTenants)

uses_allow_listing == allowed_tenants # << >>

allow_listed_tenants ==
    IF uses_allow_listing THEN replicate_to \o allowed_tenants ELSE allowed_tenants
=============================================================================
