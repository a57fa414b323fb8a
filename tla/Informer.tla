-------------------------------- MODULE Informer --------------------------------
(***************************************************************************)
(* The informer (informer/src/main.rs): the updater and the tracker on the *)
(* two stores, and the users who change them.                              *)
(***************************************************************************)
EXTENDS Updater, Tracker

VARIABLE process  \* "down", or "up" with the enabled tasks spawned

informerVars == <<options, taskVars, storeVars, process>>

InformerInit == StoresInit /\ TaskInit /\ process = "down"

\* main(): with a client for Kubernetes the tasks with an interval are spawned,
\* each with a first tick at once.
Start ==
    /\ process = "down"
    /\ process' = "up"
    /\ UNCHANGED <<options, taskVars, storeVars>>

\* Without one it exits with 1, to be started again.
StartFails ==
    /\ process = "down"
    /\ RequestFails
    /\ UNCHANGED <<options, taskVars, edits, process>>

\* The process ends between any two requests; the stores stay as they are.
Crash ==
    /\ process = "up"
    /\ process' = "down"
    /\ Mishap
    /\ at' = [task \in Tasks |-> "tick"]
    /\ todo' = [task \in Tasks |-> {}]
    /\ found' = [task \in Tasks |-> NoGroups]
    /\ listed' = [task \in Tasks |-> << >>]
    /\ work' = [task \in Tasks |-> << >>]
    /\ patch' = NoPatch
    /\ fresh' = [task \in Tasks |-> {}]
    /\ UNCHANGED <<options, resources, ruler, edits>>

Spawned(task) == process = "up" /\ task \in enabled

UpdaterStep ==
    Spawned("updater") /\ UpdaterNext /\ UNCHANGED <<options, edits, process>>
TrackerStep ==
    Spawned("tracker") /\ TrackerNext /\ UNCHANGED <<options, edits, process>>
UserStep == User /\ UNCHANGED <<options, taskVars, process>>

InformerNext ==
    \/ Start
    \/ StartFails
    \/ Crash
    \/ UpdaterStep
    \/ TrackerStep
    \/ UserStep

\* The process is started again, both tasks tick for ever, and every request is
\* answered or fails.
InformerFairness ==
    /\ WF_informerVars(Start)
    /\ WF_informerVars(UpdaterStep)
    /\ WF_informerVars(TrackerStep)

InformerSpec == InformerInit /\ [][InformerNext]_informerVars
LiveInformerSpec == InformerSpec /\ InformerFairness

-----------------------------------------------------------------------------

\* The listed resource an item comes from, which updater() unwraps.
FromListed(item) ==
    /\ item.at \in DOMAIN listed["updater"]
    /\ item.group \in Range(listed["updater"][item.at].groups)

\* Variables have the values the code can give them; whatever else goes on, an
\* update of the updater finds, in the listing of its tick, the resource that
\* has its group (updater.rs, 73-76).
InformerTypeOK ==
    /\ StoresTypeOK
    /\ TaskTypeOK
    /\ process \in {"down", "up"}
    /\ process = "down" => NothingBegun
    /\ \A item \in Range(work["updater"]) : item.kind = "update" => FromListed(item)

Groups(n) == IF Present(n) THEN Range(resources[n].groups) ELSE {}
Naming(t) == { n \in ResourceNames : Present(n) /\ t \in resources[n].tenants }
K8sGroups(t) == UNION { Groups(n) : n \in Naming(t) }
Names(groups) == { g.name : g \in groups }

\* Users give the group to the tenant: in a resource, or in the Ruler.
GivesIn(rule, t, group) == t \in rule.tenants /\ group \in Range(rule.groups)
Given(t, group) ==
    \/ [tenant |-> t, group |-> group] \in UserGroups
    \/ \E rule \in UserRules : GivesIn(rule, t, group)
\* No resource of a user has a group of that name for tenants in ts and others.
Apart(ts, name) ==
    \A rule \in UserRules :
        \/ rule.tenants \subseteq ts
        \/ rule.tenants \cap ts = {}
        \/ name \notin Names(Range(rule.groups))
Allowed(t, group) ==
    \/ Given(t, group)
    \/ \A ts \in SUBSET Tenants :
          t \in ts /\ Apart(ts, group.name) => \E u \in ts : Given(u, group)

\* A tenant has, in either store, no group that users did not give to that
\* tenant or to one that is linked to it by resources of users, each of which
\* shares a group of that name between two tenants.
\* (create_or_update_k8s_resource() takes the first resource that matches, and
\* a resource may name several tenants.)
TenantsStayApart ==
    /\ \A t \in Tenants : \A group \in ruler[t] : Allowed(t, group)
    /\ \A n \in ResourceNames : Present(n) =>
          \A t \in resources[n].tenants : \A group \in Groups(n) : Allowed(t, group)

-----------------------------------------------------------------------------

TargetMap(task) == IF task = "updater" THEN RulerMap(found[task]) ELSE K8sMap(task)
OriginMap(task) == IF task = "updater" THEN K8sMap(task) ELSE RulerMap(found[task])
Removing(task) == task = "tracker" \/ enable_updater_remove_rules
GroupsIn(map, t) ==
    IF t \in DOMAIN map THEN { map[t][i].group : i \in DOMAIN map[t] } ELSE {}

ItemsFor(items, t) == { items[i] : i \in { j \in DOMAIN items : items[j].tenant = t } }
After(groups, items) ==
    { g \in groups : g.name \notin { item.group.name : item \in items } }
        \cup { item.group : item \in { i \in items : i.kind = "update" } }

ClosesGap(task, items) ==
    \A t \in Tenants :
       LET target == GroupsIn(TargetMap(task), t)
           origin == GroupsIn(OriginMap(task), t)
           ours == ItemsFor(items, t)
       IN  OnePerName(target) /\ OnePerName(origin) =>
             /\ origin \subseteq After(target, ours)
             /\ After(target, ours) \subseteq origin \cup target
             /\ Removing(task) => After(target, ours) = origin
             /\ \A item \in ours : After(target, {item}) # target

\* What a tick plans, done without a failure to the store as the tick read it,
\* makes it equal to the other one (without removals: makes it have all the
\* other has), and every item of the plan changes something.
PlanClosesGap ==
    [][\A task \in Tasks :
          at[task] = "plan" /\ at'[task] = "work" => ClosesGap(task, work'[task])]_informerVars

Doing(task) == at[task] \in {"work", "patch"} /\ work[task] # << >>

\* create_or_update_k8s_resource() makes a new resource, over whatever has come
\* to have its name: a user may have edited the one the tracker made before.
Creates(n) ==
    /\ patch.kind = "apply" /\ patch.name = n
    /\ ~patch.versioned
    /\ resources'[n] = patch.object

\* A task that changes a resource leaves all its groups as they are but the
\* one it is about: what somebody else changed after the listing is not undone.
\* Two requests carry no version: a deletion, where this holds of an unchanged
\* resource only, and the creation of a resource (crud.rs, 165-187 and 219-260).
PatchKeepsOthers ==
    [][\A n \in ResourceNames :
          /\ edits' = edits
          /\ Present(n) /\ resources'[n] # resources[n]
          /\ resources'[n] = Absent => n \in fresh["tracker"]
          => \E task \in enabled :
                /\ Doing(task)
                /\ LET name == NextItem(task).group.name
                   IN  \/ Without(Groups(n)', name) = Without(Groups(n), name)
                       \/ task = "tracker" /\ Creates(n)]_informerVars

\* The proxy allows the tenants that resources name, with groups or without.
\* Of this the tasks take away no more than a deletion does: no task changes a
\* resource without groups, such as are there for the proxy alone, leaves one
\* without groups, or changes whom one names, and one is deleted with its only
\* group; with the exceptions of PatchKeepsOthers (crud.rs, 142-187 and 206-228).
TenantsStayNamed ==
    [][\A n \in ResourceNames :
          /\ edits' = edits
          /\ Present(n) /\ resources'[n] # resources[n]
          /\ ~Creates(n)
          /\ resources'[n] = Absent => n \in fresh["tracker"]
          => /\ Groups(n) # {}
             /\ IF Present(n)'
                THEN Groups(n)' # {} /\ resources'[n].tenants = resources[n].tenants
                ELSE Len(resources[n].groups) = 1]_informerVars

\* Unless removal is enabled the informer takes no group from the Ruler.
RulerKeepsRules ==
    [][~enable_updater_remove_rules /\ edits' = edits
          => \A t \in Tenants : Names(ruler[t]) \subseteq Names(ruler'[t])]_informerVars

-----------------------------------------------------------------------------

Alone(task) == enabled = {task}

\* With the updater alone and users at rest, every tenant of a resource gets
\* into the Ruler what the resources have, and if removal is enabled nothing
\* else.  A request that fails, and what a crash in the middle of a tick leaves
\* undone, is made up for by a later tick.
UpdaterDone ==
    \A t \in Tenants : OnePerName(K8sGroups(t)) /\ Naming(t) # {} =>
        /\ K8sGroups(t) \subseteq ruler[t]
        /\ enable_updater_remove_rules => ruler[t] \subseteq K8sGroups(t)
UpdaterConverges == Alone("updater") => <>[]UpdaterDone

\* With the tracker alone and users at rest, the resources come to have what
\* the Ruler has, and nothing for the zero tenant; this needs that no resource
\* with groups names two tenants and that no two groups of a tenant have one name.
Untangled ==
    /\ \A n \in ResourceNames :
          Groups(n) # {} => Cardinality(resources[n].tenants) = 1
    /\ \A t \in Tenants : \A n, m \in Naming(t) :
          n # m => Names(Groups(n)) \cap Names(Groups(m)) = {}
    /\ \A n \in ResourceNames : OnePerName(Groups(n))
TrackerDone ==
    Untangled => \A t \in Tenants :
        K8sGroups(t) = IF t = ZeroTenant THEN {} ELSE ruler[t]
TrackerConverges == Alone("tracker") => <>[]TrackerDone

\* "Tracker never removes anything from Kubernetes" (informer/README.md:12):
\* alone, it takes no group from any resource (tracker.rs, 84-96).
TrackerNeverRemoves ==
    [][Alone("tracker") /\ edits' = edits
          => \A n \in ResourceNames : Names(Groups(n)) \subseteq Names(Groups(n))']_informerVars
=============================================================================
