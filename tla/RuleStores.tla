------------------------------- MODULE RuleStores -------------------------------
(***************************************************************************)
(* The two stores the informer keeps in step, both external: the           *)
(* OpenMetricsRule resources of one namespace in Kubernetes, and the rule  *)
(* groups of each tenant in the Ruler.  Users change both; requests to     *)
(* them fail.                                                              *)
(*                                                                         *)
(* Kubernetes gives each resource a version and refuses to apply an object *)
(* that carries an older one.  Versions are kept as what they are used     *)
(* for: the resources that have not changed since a task listed them.      *)
(***************************************************************************)
EXTENDS Naturals, SequencesExt

CONSTANTS
    Tenants,        \* tenant identifiers
    GroupNames,     \* names of rule groups
    Contents,       \* what a rule group holds
    ResourceOrder,  \* names of resources, in the order in which they are listed
    Absent,         \* no resource of that name
    UserNames,      \* names users give to resources
    UserRules,      \* bound: tenants and groups users write into resources
    UserGroups,     \* bound: [tenant, group] users put into the Ruler
    MaxEdits,       \* bound: changes by users
    MaxMishaps      \* bound: failed requests, lost pages, tenants not reported

ResourceNames == Range(ResourceOrder)
Tasks == {"updater", "tracker"}

Group == [name : GroupNames, rules : Contents]
\* Both lists of a resource may be empty (lib.rs, 130-139): one that only names
\* tenants is there for the proxy.
GroupLists == Seq(Group)
Rule == [tenants : SUBSET Tenants, groups : GroupLists, ruler_updated : BOOLEAN]

ASSUME RuleStoresAssumption ==
    /\ IsFiniteSet(Tenants)
    /\ ResourceOrder \in Seq(ResourceNames) /\ IsInjective(ResourceOrder)
    /\ Absent \notin Rule
    /\ UserNames \subseteq ResourceNames
    /\ UserRules \subseteq [tenants : SUBSET Tenants, groups : GroupLists]
    /\ UserGroups \subseteq [tenant : Tenants, group : Group]
    /\ MaxEdits \in Nat /\ MaxMishaps \in Nat

VARIABLES
    resources,  \* Kubernetes: the resource of each name, or Absent
    ruler,      \* the Ruler: the groups of each tenant, one of a name
    fresh,      \* resources unchanged since each task's last listing
    edits,      \* changes by users so far
    mishaps     \* mishaps so far

storeVars == <<resources, ruler, fresh, edits, mishaps>>

OnePerName(groups) == \A g, h \in groups : g.name = h.name => g = h

StoresTypeOK ==
    /\ resources \in [ResourceNames -> Rule \cup {Absent}]
    /\ ruler \in [Tenants -> SUBSET Group]
    /\ \A t \in Tenants : OnePerName(ruler[t])
    /\ fresh \in [Tasks -> SUBSET ResourceNames]
    /\ edits \in 0 .. MaxEdits
    /\ mishaps \in 0 .. MaxMishaps

RuleOf(rule) ==
    [tenants |-> rule.tenants, groups |-> rule.groups, ruler_updated |-> FALSE]

\* Users have applied resources before the informer starts.
StoresInit ==
    /\ \E rules \in [UserNames -> { RuleOf(rule) : rule \in UserRules } \cup {Absent}] :
          resources = [n \in ResourceNames |-> IF n \in UserNames THEN rules[n] ELSE Absent]
    /\ ruler = [t \in Tenants |-> {}]
    /\ fresh = [task \in Tasks |-> {}]
    /\ edits = 0
    /\ mishaps = 0

Mishap == mishaps < MaxMishaps /\ mishaps' = mishaps + 1
NoMishap == UNCHANGED mishaps

-----------------------------------------------------------------------------
(* Kubernetes. *)

Present(n) == resources[n] # Absent

\* An object that equals the one there is gets no new version.
Write(n, object) ==
    /\ resources' = [resources EXCEPT ![n] = object]
    /\ fresh' = [task \in Tasks |->
                   IF object = resources[n] THEN fresh[task] ELSE fresh[task] \ {n}]

There == { n \in ResourceNames : Present(n) }

\* The objects a listing returns.
AsListed(n) ==
    [name |-> n, tenants |-> resources[n].tenants, groups |-> resources[n].groups]
Listing ==
    FlattenSeq([i \in DOMAIN ResourceOrder |->
        IF Present(ResourceOrder[i]) THEN <<AsListed(ResourceOrder[i])>> ELSE << >>])

\* What a listing may come back with: all of it, or less (TLC makes it once). It
\* is one step that ends: of the pages' loop (lib.rs, 73-88) it leaves out that
\* an empty token on a last page starts the listing over, see RuleListing.
Listings == UNION { Prefixes(all) : all \in {Listing} }

\* discover_open_metrics_rules() answers Ok: with all, or with the pages before
\* the one that failed; rules is a prefix of the listing.
Listed(task, rules) ==
    /\ rules = << >> => There = {}
    /\ IF Len(rules) = Cardinality(There) THEN NoMishap ELSE Mishap
    /\ fresh' = [fresh EXCEPT ![task] = { rules[i].name : i \in DOMAIN rules }]
    /\ UNCHANGED resources

-----------------------------------------------------------------------------
(* The Ruler. *)

Without(groups, name) == { g \in groups : g.name # name }

PutGroup(t, group) ==
    ruler' = [ruler EXCEPT ![t] = Without(@, group.name) \cup {group}]

DropGroup(t, name) == ruler' = [ruler EXCEPT ![t] = Without(@, name)]

-----------------------------------------------------------------------------
(* Users. *)

Edit == edits < MaxEdits /\ edits' = edits + 1 /\ NoMishap

\* Under a name of their own, or to a resource that is there, the tracker's
\* included.
UserAppliesRule ==
    /\ Edit
    /\ \E n \in UserNames \cup There, rule \in UserRules :
          Write(n, [tenants |-> rule.tenants,
                    groups |-> rule.groups,
                    ruler_updated |-> Present(n) /\ resources[n].ruler_updated])
    /\ UNCHANGED ruler

UserDeletesRule ==
    /\ Edit
    /\ \E n \in ResourceNames : Present(n) /\ Write(n, Absent)
    /\ UNCHANGED ruler

UserPutsGroup ==
    /\ Edit
    /\ \E user \in UserGroups : PutGroup(user.tenant, user.group)
    /\ UNCHANGED <<resources, fresh>>

UserDropsGroup ==
    /\ Edit
    /\ \E t \in Tenants : \E g \in ruler[t] : DropGroup(t, g.name)
    /\ UNCHANGED <<resources, fresh>>

User ==
    \/ UserAppliesRule
    \/ UserDeletesRule
    \/ UserPutsGroup
    \/ UserDropsGroup
=============================================================================
