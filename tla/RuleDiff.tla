-------------------------------- MODULE RuleDiff --------------------------------
(***************************************************************************)
(* The difference of two stores of rule groups, as informer/src/rules/     *)
(* rules.rs computes it.  A store is a map from tenants to lists of        *)
(* entries; an entry is a group and the position, in the listing, of the   *)
(* resource it comes from (0, in the code -1: not from a resource).        *)
(***************************************************************************)
EXTENDS Naturals, SequencesExt

Entry(group, position) == [group |-> group, at |-> position]

Positions(list, name) == { i \in DOMAIN list : list[i].group.name = name }

\* The position of the first group of that name, 0 when there is none.
find_group_named(list, name) ==
    IF Positions(list, name) = {} THEN 0 ELSE Min(Positions(list, name))

\* Mutated: groups are compared by name only.
DiffersInName(list, group) == find_group_named(list, group.name) = 0

\* are_groups_equal() for the group of that name; an absent group differs.
Differs(list, group) ==
    LET i == find_group_named(list, group.name)
    IN  IF i = 0 THEN TRUE ELSE list[i].group # group

\* The entries of a list at the given positions, in order.
Only(list, positions) ==
    FlattenSeq([i \in DOMAIN list |-> IF i \in positions THEN <<list[i]>> ELSE << >>])

\* Mutated: whatever differs is removed, not only what origin has not.
diff_removing_what_differs(target, origin) ==
    LET others(list, from, t) ==
            Only(list, { i \in DOMAIN list : t \in DOMAIN from => Differs(from[t], list[i].group) })
    IN  [updates |-> [t \in DOMAIN origin |-> others(origin[t], target, t)],
         removals |-> [t \in DOMAIN target |-> others(target[t], origin, t)]]

\* What is to be changed in target so that it becomes origin.  (A tenant for
\* whom nothing is to be done has an empty list rather than no key.)
diff_rule_groups(target, origin) ==
    [updates |->
        [t \in DOMAIN origin |->
            Only(origin[t], { i \in DOMAIN origin[t] :
                t \in DOMAIN target => Differs(target[t], origin[t][i].group) })],
     removals |->
        [t \in DOMAIN target |->
            Only(target[t], { i \in DOMAIN target[t] :
                t \in DOMAIN origin =>
                    find_group_named(origin[t], target[t][i].group.name) = 0 })]]

\* Mutated: positions are counted from one too far.
tenant_map_counting_from_one(rules) ==
    [t \in UNION { rules[i].tenants : i \in DOMAIN rules } |->
        FlattenSeq([i \in DOMAIN rules |->
            IF t \in rules[i].tenants
            THEN [j \in DOMAIN rules[i].groups |-> Entry(rules[i].groups[j], i + 1)]
            ELSE << >>])]

\* Given a listing of resources, the groups that name each tenant.
get_tenant_map_from_rules_list(rules) ==
    [t \in UNION { rules[i].tenants : i \in DOMAIN rules } |->
        FlattenSeq([i \in DOMAIN rules |->
            IF t \in rules[i].tenants
            THEN [j \in DOMAIN rules[i].groups |-> Entry(rules[i].groups[j], i)]
            ELSE << >>])]

\* The result of discover_ruler_rules(): a tenant without groups has no key.
RulerMap(found) ==
    [t \in { s \in DOMAIN found : found[s] # {} } |->
        [i \in 1 .. Cardinality(found[t]) |-> Entry(SetToSeq(found[t])[i], 0)]]
=============================================================================
