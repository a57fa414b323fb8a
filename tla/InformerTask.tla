------------------------------ MODULE InformerTask ------------------------------
(***************************************************************************)
(* What updater() and tracker() of the informer have in common: a tick     *)
(* reads both stores, plans what is to be done, and does it, one request   *)
(* after the other.  The tasks share the stores and nothing else.          *)
(***************************************************************************)
EXTENDS RuleDiff, RuleStores

CONSTANT TaskSets  \* bound: which tasks may be enabled together

ASSUME TaskAssumption == TaskSets \subseteq SUBSET Tasks

VARIABLES
    enabled,                      \* option: the tasks with a poll interval
    enable_updater_remove_rules,  \* option
    at,      \* where each task stands
    todo,    \* tenants whose groups are still to be read from the Ruler
    found,   \* groups read from the Ruler in this tick
    listed,  \* resources listed in this tick
    work,    \* what is still to be done in this tick
    patch    \* the request to Kubernetes the tracker is about to make

options == <<enabled, enable_updater_remove_rules>>
taskVars == <<at, todo, found, listed, work, patch>>

NoGroups == [t \in Tenants |-> {}]
NoPatch == [kind |-> "none"]

ListedRule == [name : ResourceNames, tenants : SUBSET Tenants, groups : GroupLists]
Item == [kind : {"update", "removal"}, tenant : Tenants, group : Group, at : Nat]
Patch ==
    [kind : {"none"}]
        \cup [kind : {"delete"}, name : ResourceNames]
        \cup [kind : {"apply"}, name : ResourceNames, object : Rule, versioned : BOOLEAN]

TaskTypeOK ==
    /\ enabled \in TaskSets
    /\ enable_updater_remove_rules \in BOOLEAN
    /\ at \in [Tasks -> {"tick", "discover", "list", "plan", "work", "patch"}]
    /\ todo \in [Tasks -> SUBSET Tenants]
    /\ found \in [Tasks -> [Tenants -> SUBSET Group]]
    /\ listed \in [Tasks -> Seq(ListedRule)]
    /\ work \in [Tasks -> Seq(Item)]
    /\ patch \in Patch

\* Nothing is kept between ticks, and a tick that a crash cuts short is lost.
NothingBegun ==
    /\ at = [task \in Tasks |-> "tick"]
    /\ todo = [task \in Tasks |-> {}]
    /\ found = [task \in Tasks |-> NoGroups]
    /\ listed = [task \in Tasks |-> << >>]
    /\ work = [task \in Tasks |-> << >>]
    /\ patch = NoPatch

TaskInit ==
    /\ enabled \in TaskSets
    /\ enable_updater_remove_rules \in BOOLEAN
    /\ NothingBegun

\* A request that fails changes nothing.
RequestFails == Mishap /\ UNCHANGED <<resources, ruler, fresh>>

Goto(task, place) == at' = [at EXCEPT ![task] = place]

\* The end of a tick; the next one starts with nothing.
TickEnds(task) ==
    /\ Goto(task, "tick")
    /\ todo' = [todo EXCEPT ![task] = {}]
    /\ found' = [found EXCEPT ![task] = NoGroups]
    /\ listed' = [listed EXCEPT ![task] = << >>]
    /\ work' = [work EXCEPT ![task] = << >>]
    /\ fresh' = [fresh EXCEPT ![task] = {}]
    /\ UNCHANGED <<resources, ruler, patch>>

-----------------------------------------------------------------------------
(* discover_ruler_rules(): one request per tenant.                         *)

StillToAsk(task, t) ==
    /\ at[task] = "discover"
    /\ t \in todo[task]
    /\ todo' = [todo EXCEPT ![task] = @ \ {t}]
    /\ UNCHANGED <<at, listed, work, patch>>

\* 200 with groups, or 404 with the text "no rule groups found".
TenantDiscovered(task, t) ==
    /\ StillToAsk(task, t)
    /\ found' = [found EXCEPT ![task][t] = ruler[t]]
    /\ NoMishap
    /\ UNCHANGED <<resources, ruler, fresh>>

\* No answer, or no body: the tenant counts as one without groups.
TenantSkipped(task, t) ==
    /\ StillToAsk(task, t)
    /\ RequestFails
    /\ UNCHANGED found

\* Another status, another text, or no YAML: the tick is over.
DiscoveryFails(task) ==
    /\ at[task] = "discover"
    /\ todo[task] # {}
    /\ Mishap
    /\ TickEnds(task)

Discovered(task) == at[task] = "discover" /\ todo[task] = {}

discover_ruler_rules(task) ==
    \/ \E t \in todo[task] : TenantDiscovered(task, t) \/ TenantSkipped(task, t)
    \/ DiscoveryFails(task)

-----------------------------------------------------------------------------

K8sMap(task) == get_tenant_map_from_rules_list(listed[task])

\* The entries of a map from tenants to entries as items of work, tenant by
\* tenant in the given order.
Items(kind, entries, order) ==
    FlattenSeq([i \in DOMAIN order |->
        LET list == entries[order[i]]
        IN  [j \in DOMAIN list |->
               [kind |-> kind, tenant |-> order[i], group |-> list[j].group,
                at |-> list[j].at]]])

\* The tick's two loops over the difference; a hash map's order is arbitrary;
\* only the updater needs its listing again.  (Maps and difference are bound by
\* quantifiers so that TLC computes them once.)
Plan(task, target, origin, removing) ==
    /\ at[task] = "plan"
    /\ \E into \in {target}, from \in {origin} :
       \E diff \in {diff_rule_groups(into, from)} :
           \E first \in SetToSeqs(DOMAIN diff.updates),
              second \in SetToSeqs(DOMAIN diff.removals) :
               work' = [work EXCEPT ![task] =
                          Items("update", diff.updates, first)
                            \o IF removing THEN Items("removal", diff.removals, second)
                                           ELSE << >>]
    /\ found' = [found EXCEPT ![task] = NoGroups]
    /\ listed' = [listed EXCEPT ![task] = IF task = "updater" THEN @ ELSE << >>]
    /\ Goto(task, "work")
    /\ UNCHANGED <<todo, patch, storeVars>>

\* What comes next.
NextItem(task) == Head(work[task])
Working(task, kind) ==
    /\ at[task] = "work"
    /\ work[task] # << >>
    /\ NextItem(task).kind = kind

NothingLeft(task) ==
    /\ at[task] = "work"
    /\ work[task] = << >>
    /\ TickEnds(task)
    /\ NoMishap

\* The item is done with, whatever became of it.
ItemDone(task) ==
    /\ work' = [work EXCEPT ![task] = Tail(@)]
    /\ Goto(task, "work")

\* Mutated: the version is cleared together with the managed fields.
resource_updated_unversioned(task, name, object, versioned) ==
    /\ Write(name, [object EXCEPT !.ruler_updated = TRUE])
    /\ UNCHANGED ruler

\* resource_updated(): apply the object under the name.  Kubernetes refuses an
\* object that carries an old version, and the answer is only logged.
resource_updated(task, name, object, versioned) ==
    /\ IF versioned /\ name \notin fresh[task]
       THEN UNCHANGED <<resources, fresh>>
       ELSE Write(name, [object EXCEPT !.ruler_updated = TRUE])
    /\ UNCHANGED ruler
=============================================================================
