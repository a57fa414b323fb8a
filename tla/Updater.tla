-------------------------------- MODULE Updater ---------------------------------
(***************************************************************************)
(* informer/src/updater/updater.rs: rule groups go from Kubernetes to the  *)
(* Ruler.                                                                  *)
(***************************************************************************)
EXTENDS InformerTask

UpdaterLists ==
    /\ at["updater"] = "tick"
    /\ \E rules \in Listings :
          /\ Listed("updater", rules)
          /\ listed' = [listed EXCEPT !["updater"] = rules]
          /\ todo' = [todo EXCEPT !["updater"] =
                        UNION { rules[i].tenants : i \in DOMAIN rules }]
    /\ Goto("updater", "discover")
    /\ UNCHANGED <<ruler, found, work, patch>>

UpdaterListFails ==
    /\ at["updater"] = "tick"
    /\ RequestFails
    /\ UNCHANGED taskVars

UpdaterDiscovers ==
    \/ discover_ruler_rules("updater")
    \/ /\ Discovered("updater")
       /\ Goto("updater", "plan")
       /\ UNCHANGED <<todo, found, listed, work, patch, storeVars>>

\* Mutated: groups are removed whatever the option says.
UpdaterPlansRemovals ==
    Plan("updater", RulerMap(found["updater"]), K8sMap("updater"), TRUE)

UpdaterPlans ==
    Plan("updater", RulerMap(found["updater"]), K8sMap("updater"),
         enable_updater_remove_rules)

\* update_ruler_rule(); what it answers is only logged.
UpdaterUpdates ==
    /\ Working("updater", "update")
    /\ \/ /\ PutGroup(NextItem("updater").tenant, NextItem("updater").group)
          /\ NoMishap
          /\ UNCHANGED <<resources, fresh>>
       \/ RequestFails
    /\ Goto("updater", "patch")
    /\ UNCHANGED <<todo, found, listed, work, patch>>

\* The resource the group came from, as it was listed, is marked as updated.
UpdaterMarks ==
    /\ at["updater"] = "patch"
    /\ LET rule == listed["updater"][NextItem("updater").at]
           object == [tenants |-> rule.tenants, groups |-> rule.groups,
                      ruler_updated |-> TRUE]
       IN  \/ resource_updated("updater", rule.name, object, TRUE) /\ NoMishap
           \/ RequestFails
    /\ ItemDone("updater")
    /\ UNCHANGED <<todo, found, listed, patch>>

\* remove_ruler_rule()
UpdaterRemoves ==
    /\ Working("updater", "removal")
    /\ \/ /\ DropGroup(NextItem("updater").tenant, NextItem("updater").group.name)
          /\ NoMishap
          /\ UNCHANGED <<resources, fresh>>
       \/ RequestFails
    /\ ItemDone("updater")
    /\ UNCHANGED <<todo, found, listed, patch>>

UpdaterNext ==
    \/ UpdaterLists
    \/ UpdaterListFails
    \/ UpdaterDiscovers
    \/ UpdaterPlans
    \/ UpdaterUpdates
    \/ UpdaterMarks
    \/ UpdaterRemoves
    \/ NothingLeft("updater")
=============================================================================
