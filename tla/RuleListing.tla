------------------------------ MODULE RuleListing ------------------------------
(***************************************************************************)
(* get_tenant_ids() of kube-metrics-multi-tenancy-lib/src/lib.rs: one      *)
(* paged listing of the OpenMetricsRule resources, ended by Ok or Err.     *)
(*                                                                         *)
(* The cluster is external.  It answers the first page from its state at   *)
(* that moment and the following pages from the same snapshot, in pages of *)
(* its own choice, and any request may fail (a transport error, an expired *)
(* continue token).  Its last page carries no continue token, or, when     *)
(* EmptyLastToken, an empty one.                                           *)
(***************************************************************************)
EXTENDS FiniteSets

CONSTANTS
    Rules,           \* names of OpenMetricsRule resources
    RuleTenants,     \* what spec.tenants may name
    EmptyLastToken   \* the last page says continue: "" rather than nothing

ASSUME RuleListingAssumption == EmptyLastToken \in BOOLEAN

VARIABLES
    k8s,       \* the cluster: each rule's spec.tenants ({}: the rule is absent)
    phase,     \* where the caller of get_tenant_ids() stands
    found,     \* the tenants of found_rules, the pages received so far
    rest,      \* rules the server has not returned yet (what the token means)
    snapshot,  \* the cluster as the listing sees it
    lost       \* history: a page after the first one failed

listingVars == <<phase, found, rest, snapshot, lost>>

Clusters == [Rules -> SUBSET RuleTenants]

\* discover_tenant_ids(): the union of spec.tenants over the rules given.
TenantIds(cluster, rules) == UNION { cluster[rule] : rule \in rules }

ListingTypeOK ==
    /\ k8s \in Clusters
    /\ phase \in {"none", "first", "next", "ok", "err"}
    /\ found \in SUBSET RuleTenants
    /\ rest \in SUBSET Rules
    /\ snapshot \in Clusters
    /\ lost \in BOOLEAN

ListingInit ==
    /\ k8s \in Clusters
    /\ phase = "none"
    /\ found = {}
    /\ rest = {}
    /\ snapshot = [rule \in Rules |-> {}]
    /\ lost = FALSE

\* External: someone edits, creates or deletes one rule.
EditRule(rule) ==
    /\ \E ids \in SUBSET RuleTenants : k8s' = [k8s EXCEPT ![rule] = ids]
    /\ UNCHANGED listingVars

-----------------------------------------------------------------------------

BeginListing ==
    /\ phase' = "first"
    /\ found' = {}
    /\ rest' = Rules
    /\ lost' = FALSE
    /\ UNCHANGED <<snapshot, k8s>>

\* An empty token after the first page ends the listing.
FirstPage ==
    /\ phase = "first"
    /\ snapshot' = k8s
    /\ \E page \in SUBSET Rules \ {{}} :
          /\ found' = TenantIds(k8s, page)
          /\ rest' = Rules \ page
          /\ phase' = IF page = Rules THEN "ok" ELSE "next"
    /\ UNCHANGED <<k8s, lost>>

\* tenants_acquired is false, and there is no token: Err.
FirstPageFails ==
    /\ phase = "first"
    /\ phase' = "err"
    /\ UNCHANGED <<k8s, found, rest, snapshot, lost>>

\* Mutated: a later page replaces the rules found so far.
NextPageReplaces ==
    /\ phase = "next"
    /\ \E page \in SUBSET rest \ {{}} :
          /\ found' = TenantIds(snapshot, page)
          /\ rest' = rest \ page
          /\ phase' = IF page = rest /\ ~EmptyLastToken THEN "ok" ELSE "next"
    /\ UNCHANGED <<k8s, snapshot, lost>>

\* Mutated: the loop goes on without a token.
NextPageNeverLast ==
    /\ phase = "next"
    /\ \E page \in SUBSET rest \ {{}} :
          /\ found' = found \cup TenantIds(snapshot, page)
          /\ rest' = rest \ page
    /\ UNCHANGED <<k8s, phase, snapshot, lost>>

\* An empty token after a later page does not end the loop.
NextPage ==
    /\ phase = "next"
    /\ \E page \in SUBSET rest \ {{}} :
          /\ found' = found \cup TenantIds(snapshot, page)
          /\ rest' = rest \ page
          /\ phase' = IF page = rest /\ ~EmptyLastToken THEN "ok" ELSE "next"
    /\ UNCHANGED <<k8s, snapshot, lost>>

\* The server reads an empty token as the start of a new listing.
NextPageOfEmptyToken ==
    /\ phase = "next"
    /\ rest = {}
    /\ snapshot' = k8s
    /\ \E page \in SUBSET Rules \ {{}} :
          /\ found' = found \cup TenantIds(k8s, page)
          /\ rest' = Rules \ page
    /\ UNCHANGED <<k8s, phase, lost>>

\* _tenants_acquired_inner is ignored: the loop ends, and the answer is Ok.
NextPageFails ==
    /\ phase = "next"
    /\ phase' = "ok"
    /\ lost' = TRUE
    /\ UNCHANGED <<k8s, found, rest, snapshot>>

ListingStep ==
    \/ FirstPage
    \/ FirstPageFails
    \/ NextPage
    \/ NextPageOfEmptyToken
    \/ NextPageFails

\* The caller is done with the answer.
EndListing ==
    /\ phase' = "none"
    /\ found' = {}
    /\ rest' = {}
    /\ snapshot' = [rule \in Rules |-> {}]
    /\ lost' = FALSE
    /\ UNCHANGED k8s

-----------------------------------------------------------------------------
(* The listing alone, for a caller that lists again and again.             *)

ListingNext ==
    \/ phase = "none" /\ BeginListing
    \/ ListingStep
    \/ phase \in {"ok", "err"} /\ EndListing
    \/ \E rule \in Rules : EditRule(rule)

\* The server answers every request, with a page or with an error.
ListingSpec ==
    /\ ListingInit
    /\ [][ListingNext]_<<k8s, listingVars>>
    /\ WF_<<k8s, listingVars>>(ListingStep)

\* What Ok hands to observe() is the set of tenants the cluster had at one
\* moment during the listing, however it was edited between two pages; when a
\* later page failed it is a part of that set (lib.rs, 75-83 and 95-96).  With
\* empty last tokens only a listing without failure is one snapshot.
OkIsOneSnapshot ==
    phase = "ok" =>
        /\ ~lost => found = TenantIds(snapshot, Rules)
        /\ ~EmptyLastToken => found \subseteq TenantIds(snapshot, Rules)

\* get_tenant_ids() returns to its caller, which holds the lock meanwhile
\* (lib.rs, 73-87: the loop over the pages ends).
ListingEnds == phase \in {"first", "next"} ~> phase \in {"ok", "err"}
=============================================================================
