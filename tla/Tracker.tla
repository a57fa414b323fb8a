-------------------------------- MODULE Tracker ---------------------------------
(***************************************************************************)
(* informer/src/tracker/tracker.rs: rule groups go from the Ruler to       *)
(* Kubernetes.                                                             *)
(***************************************************************************)
EXTENDS InformerTask

CONSTANTS
    ZeroTenant,     \* the tenant "0"
    Sourced(_, _)   \* the name made of a tenant and the hash of a group's name

ASSUME TrackerAssumption ==
    \A t \in Tenants, name \in GroupNames : Sourced(t, name) \in ResourceNames

\* extract_tenants(): the zero tenant is excluded.
extract_tenants(user_stats) == user_stats \ {ZeroTenant}

\* The distributor reports the tenants that send samples; one that sends none
\* is not in its answer, which counts as a mishap here.
TrackerLoadsTenants ==
    /\ at["tracker"] = "tick"
    /\ \E reported \in SUBSET Tenants :
          /\ IF reported = Tenants THEN NoMishap ELSE Mishap
          /\ todo' = [todo EXCEPT !["tracker"] = extract_tenants(reported)]
    /\ Goto("tracker", "discover")
    /\ UNCHANGED <<resources, ruler, fresh, found, listed, work, patch>>

TrackerLoadFails ==
    /\ at["tracker"] = "tick"
    /\ RequestFails
    /\ UNCHANGED taskVars

TrackerDiscovers ==
    \/ discover_ruler_rules("tracker")
    \/ /\ Discovered("tracker")
       /\ Goto("tracker", "list")
       /\ UNCHANGED <<todo, found, listed, work, patch, storeVars>>

TrackerLists ==
    /\ at["tracker"] = "list"
    /\ \E rules \in Listings :
          /\ Listed("tracker", rules)
          /\ listed' = [listed EXCEPT !["tracker"] = rules]
    /\ Goto("tracker", "plan")
    /\ UNCHANGED <<ruler, todo, found, work, patch>>

TrackerListFails ==
    /\ at["tracker"] = "list"
    /\ Mishap
    /\ TickEnds("tracker")

TrackerPlans ==
    Plan("tracker", K8sMap("tracker"), RulerMap(found["tracker"]), TRUE)

-----------------------------------------------------------------------------
(* create_or_update_k8s_resource() and remove_k8s_resource(): a listing of *)
(* their own, then a request.                                              *)

PositionIn(groups, name) ==
    find_group_named([i \in DOMAIN groups |-> Entry(groups[i], 0)], name)

\* Mutated: the resource need not name the tenant.
HoldersOfAnyTenant(rules, t, name) ==
    { i \in DOMAIN rules : PositionIn(rules[i].groups, name) # 0 }

\* The resources of a listing that name the tenant and have the group.
Holders(rules, t, name) ==
    { i \in DOMAIN rules :
        t \in rules[i].tenants /\ PositionIn(rules[i].groups, name) # 0 }

Applied(rule, groups) ==
    [kind |-> "apply", name |-> rule.name, versioned |-> TRUE,
     object |-> [tenants |-> rule.tenants, groups |-> groups, ruler_updated |-> TRUE]]

\* The first holder with the group replaced, or a new resource.
create_or_update_k8s_resource(rules, t, group) ==
    LET holders == Holders(rules, t, group.name)
        rule == rules[Min(holders)]
    IN  IF holders = {}
        THEN [kind |-> "apply", name |-> Sourced(t, group.name), versioned |-> FALSE,
              object |-> [tenants |-> {t}, groups |-> <<group>>, ruler_updated |-> TRUE]]
        ELSE Applied(rule, ReplaceAt(rule.groups, PositionIn(rule.groups, group.name), group))

\* Mutated: the last group is removed as the others are.
remove_last_group_too(rules, t, group) ==
    LET holders == Holders(rules, t, group.name)
        rule == rules[Min(holders)]
    IN  IF holders = {} THEN NoPatch
        ELSE Applied(rule, RemoveAt(rule.groups, PositionIn(rule.groups, group.name)))

\* Mutated: a group is removed only together with its resource.
remove_whole_resource_only(rules, t, group) ==
    LET holders == Holders(rules, t, group.name)
        rule == rules[Min(holders)]
    IN  IF holders = {} \/ Len(rule.groups) > 1 THEN NoPatch
        ELSE [kind |-> "delete", name |-> rule.name]

\* The first holder without the group; no resource is left without groups.
remove_k8s_resource(rules, t, group) ==
    LET holders == Holders(rules, t, group.name)
        rule == rules[Min(holders)]
    IN  IF holders = {} THEN NoPatch
        ELSE IF Len(rule.groups) = 1 THEN [kind |-> "delete", name |-> rule.name]
        ELSE Applied(rule, RemoveAt(rule.groups, PositionIn(rule.groups, group.name)))

PatchFor(rules, item) ==
    IF item.kind = "update"
    THEN create_or_update_k8s_resource(rules, item.tenant, item.group)
    ELSE remove_k8s_resource(rules, item.tenant, item.group)

TrackerLooksUp ==
    /\ at["tracker"] = "work"
    /\ work["tracker"] # << >>
    /\ \E rules \in Listings :
          /\ Listed("tracker", rules)
          /\ patch' = PatchFor(rules, NextItem("tracker"))
    /\ Goto("tracker", "patch")
    /\ UNCHANGED <<ruler, todo, found, listed, work>>

TrackerLookUpFails ==
    /\ at["tracker"] = "work"
    /\ work["tracker"] # << >>
    /\ RequestFails
    /\ ItemDone("tracker")
    /\ UNCHANGED <<todo, found, listed, patch>>

TrackerPatches ==
    /\ at["tracker"] = "patch"
    /\ \/ /\ CASE patch.kind = "none" ->
                    UNCHANGED <<resources, ruler, fresh>>
               [] patch.kind = "delete" ->
                    Write(patch.name, Absent) /\ UNCHANGED ruler
               [] patch.kind = "apply" ->
                    resource_updated("tracker", patch.name, patch.object, patch.versioned)
          /\ NoMishap
       \/ patch.kind # "none" /\ RequestFails
    /\ ItemDone("tracker")
    /\ patch' = NoPatch
    /\ UNCHANGED <<todo, found, listed>>

TrackerNext ==
    \/ TrackerLoadsTenants
    \/ TrackerLoadFails
    \/ TrackerDiscovers
    \/ TrackerLists
    \/ TrackerListFails
    \/ TrackerPlans
    \/ TrackerLooksUp
    \/ TrackerLookUpFails
    \/ TrackerPatches
    \/ NothingLeft("tracker")
=============================================================================
