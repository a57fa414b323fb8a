--------------------------- MODULE InformerTicksProofs ---------------------------
(***************************************************************************)
(* Proofs that a task writes only what it has read in the same tick: it    *)
(* copies what the other store held, and removes what it lacked.           *)
(***************************************************************************)
EXTENDS InformerTicks, InformerProofs

-----------------------------------------------------------------------------
(* Listings.                                                               *)

\* A listing of full length has every resource that is there.
LEMMA ListingIsWhole ==
    ASSUME StoresTypeOK, NEW rules \in Listings, Len(rules) = Cardinality(There),
           NEW n \in There
    PROVE  \E i \in DOMAIN rules : rules[i] = AsListed(n)
<1> DEFINE One(i) == IF Present(ResourceOrder[i])
                     THEN <<AsListed(ResourceOrder[i])>> ELSE << >>
           ones == [i \in DOMAIN ResourceOrder |-> One(i)]
<1>1. /\ Len(ResourceOrder) \in Nat /\ DOMAIN ResourceOrder = 1 .. Len(ResourceOrder)
      /\ \A i \in DOMAIN ResourceOrder : ResourceOrder[i] \in ResourceNames
      /\ IsInjective(ResourceOrder)
  BY RuleStoresAssumption, LenProperties, ElementOfSeq
<1>2. ASSUME NEW i \in DOMAIN ResourceOrder
      PROVE  /\ One(i) \in Seq(ListedRule) /\ IsInjective(One(i))
             /\ \A e \in Range(One(i)) : e.name = ResourceOrder[i]
  <2>1. PICK m \in ResourceNames : m = ResourceOrder[i]
    BY <1>1
  <2>2. CASE Present(m)
    <3>0. AsListed(m) \in ListedRule
      BY <2>1, <2>2 DEF StoresTypeOK, Present, AsListed, ListedRule, Rule
    <3>1. PICK e \in ListedRule : e = AsListed(m) /\ e.name = m
      BY <3>0 DEF AsListed
    <3>2. One(i) = <<e>>
      BY <2>1, <2>2, <3>1
    <3> QED
      BY <2>1, <3>1, <3>2 DEF Range, IsInjective
  <2>3. CASE ~Present(m)
    BY <2>1, <2>3 DEF Range, IsInjective
  <2> QED
    BY <2>2, <2>3
<1> HIDE DEF One
<1>3. /\ ones \in Seq(Seq(ListedRule)) /\ DOMAIN ones = DOMAIN ResourceOrder
      /\ \A i \in DOMAIN ones : ones[i] = One(i)
  BY <1>1, <1>2
<1>4. Listing = FlattenSeq(ones)
  BY DEF Listing, One
<1> HIDE DEF ones
<1>5. Disjoint(ones)
  <2>1. \A i \in DOMAIN ones : IsInjective(ones[i])
    BY <1>2, <1>3
  <2>2. ASSUME NEW i \in DOMAIN ones, NEW j \in DOMAIN ones,
               NEW e \in Range(ones[i]), e \in Range(ones[j])
        PROVE  i = j
    <3>1. e.name = ResourceOrder[i] /\ e.name = ResourceOrder[j]
      BY <1>2, <1>3, <2>2
    <3> QED
      BY <1>1, <1>3, <3>1 DEF IsInjective
  <2> QED
    BY <2>1, <2>2 DEF Disjoint
<1>6. FlattenSeq(ones) \in Seq(ListedRule) /\ IsInjective(FlattenSeq(ones))
  BY <1>3, <1>5, FlattenSeqRange, FlattenSeqInjective
<1>7. PICK all \in Seq(ListedRule) : all = Listing /\ IsInjective(all)
  BY <1>4, <1>6
<1>8. PICK m \in 0 .. Len(all) : rules = SubSeq(all, 1, m)
  BY <1>7 DEF Prefixes, Listings
<1>9. /\ Len(all) \in Nat /\ DOMAIN all = 1 .. Len(all)
      /\ \A i \in DOMAIN all : all[i] \in ListedRule
  BY LenProperties, ElementOfSeq
<1>10. m \in Int /\ 1 \in Int /\ \A i \in 1 .. m : i \in DOMAIN all /\ all[i] \in ListedRule
  BY <1>9
<1>11. /\ rules \in Seq(ListedRule)
       /\ Len(rules) = IF 1 <= m THEN m - 1 + 1 ELSE 0
       /\ \A i \in 1 .. m - 1 + 1 : rules[i] = all[1 + i - 1]
  BY <1>8, <1>10, SubSeqProperties
<1>12. Len(rules) = m /\ DOMAIN rules = 1 .. m /\ \A i \in 1 .. m : rules[i] = all[i]
  BY <1>10, <1>11, LenProperties
<1>13. \A i \in DOMAIN rules : \E k \in There : rules[i] = AsListed(k)
  BY ListingIsThere DEF There
<1>14. PICK f : f = [i \in 1 .. m |-> rules[i].name]
  OBVIOUS
<1>15. \A i \in 1 .. m : f[i] \in There /\ rules[i] = AsListed(f[i])
  BY <1>12, <1>13, <1>14 DEF AsListed
<1>16. f \in Injection(1 .. m, There)
  <2>1. f \in [1 .. m -> There]
    BY <1>14, <1>15
  <2>2. ASSUME NEW i \in 1 .. m, NEW j \in 1 .. m, f[i] = f[j] PROVE i = j
    <3>1. all[i] = all[j]
      BY <1>12, <1>15, <2>2
    <3> QED
      BY <1>7, <1>10, <3>1 DEF IsInjective
  <2> QED
    BY <2>1, <2>2 DEF Injection, IsInjective
<1>17. IsFiniteSet(There)
  <2>1. IsFiniteSet(ResourceNames)
    <3> DEFINE order == [i \in 1 .. Len(ResourceOrder) |-> ResourceOrder[i]]
    <3>1. order \in Surjection(1 .. Len(ResourceOrder), ResourceNames)
      BY <1>1 DEF Surjection, ResourceNames, Range
    <3>2. IsFiniteSet(1 .. Len(ResourceOrder))
      BY <1>1, FS_Interval
    <3> QED
      BY <3>1, <3>2, FS_Surjection
  <2> QED
    BY <2>1, FS_Subset DEF There
<1>18. Cardinality(1 .. m) = m
  BY <1>10, FS_Interval
<1>19. f \in Surjection(1 .. m, There)
  BY <1>12, <1>16, <1>17, <1>18, FS_Injection
<1>20. PICK i \in 1 .. m : f[i] = n
  BY <1>19 DEF Surjection
<1> QED
  BY <1>12, <1>15, <1>20

-----------------------------------------------------------------------------
(* What a task has read of a tenant in this tick.                          *)

GroupsOf(rules, t) ==
    UNION { Range(rules[i].groups) : i \in { j \in DOMAIN rules : t \in rules[j].tenants } }
ReadFor(task, t) ==
    IF task = "updater" THEN GroupsOf(listed["updater"], t) ELSE found["tracker"][t]
HasRead(task, t) ==
    IF task = "updater" THEN at["updater"] \in {"discover", "plan"}
    ELSE \/ at["tracker"] \in {"list", "plan"}
         \/ at["tracker"] = "discover" /\ t \notin todo["tracker"]

\* A listing has no group for a tenant but those that Kubernetes has; a listing of
\* full length has them all.
LEMMA ListingIsRead ==
    ASSUME TypeInv, NEW rules \in Listings, NEW t \in Tenants
    PROVE  /\ GroupsOf(rules, t) \subseteq K8sGroups(t)
           /\ Len(rules) = Cardinality(There) => GroupsOf(rules, t) = K8sGroups(t)
<1>0. StoresTypeOK
  BY TypeInvIsAll DEF InformerTypeOK
<1>1. ASSUME NEW g \in GroupsOf(rules, t) PROVE g \in K8sGroups(t)
  <2>1. PICK i \in DOMAIN rules : t \in rules[i].tenants /\ g \in Range(rules[i].groups)
    BY <1>1 DEF GroupsOf
  <2>2. PICK n \in ResourceNames : Present(n) /\ rules[i] = AsListed(n)
    BY <1>0, ListingIsThere
  <2>3. t \in resources[n].tenants /\ g \in Range(resources[n].groups)
    BY <2>1, <2>2 DEF AsListed
  <2> QED
    BY <2>2, <2>3 DEF K8sGroups, Naming, Groups
<1>2. ASSUME Len(rules) = Cardinality(There), NEW g \in K8sGroups(t)
      PROVE  g \in GroupsOf(rules, t)
  <2>1. PICK n \in ResourceNames :
           Present(n) /\ t \in resources[n].tenants /\ g \in Range(resources[n].groups)
    BY <1>2 DEF K8sGroups, Naming, Groups
  <2>2. PICK i \in DOMAIN rules : rules[i] = AsListed(n)
    BY <1>0, <1>2, <2>1, ListingIsWhole DEF There
  <2>3. t \in rules[i].tenants /\ g \in Range(rules[i].groups)
    BY <2>1, <2>2 DEF AsListed
  <2> QED
    BY <2>3 DEF GroupsOf
<1> QED
  BY <1>1, <1>2

\* A task changes nothing of what the other one holds.
LeftAlone(task) ==
    /\ at'[task] = at[task] /\ todo'[task] = todo[task]
    /\ found'[task] = found[task] /\ listed'[task] = listed[task]

\* So it is with the updater,
LEMMA UpdaterLeaves == ASSUME TypeInv, UpdaterStep PROVE LeftAlone("tracker")
<1>0. /\ "updater" \in Tasks /\ "tracker" \in Tasks
      /\ at \in [Tasks -> {"tick", "discover", "list", "plan", "work", "patch"}]
      /\ todo \in [Tasks -> SUBSET Tenants]
      /\ found \in [Tasks -> [Tenants -> SUBSET Group]]
      /\ listed \in [Tasks -> Seq(ListedRule)]
  BY DEF Tasks, TypeInv, WorkOK, ReadOK
<1>1. at'["tracker"] = at["tracker"]
  BY <1>0
  DEF UpdaterStep, UpdaterNext, UpdaterLists, UpdaterListFails, UpdaterDiscovers,
      discover_ruler_rules, TenantDiscovered, TenantSkipped, StillToAsk, DiscoveryFails,
      UpdaterPlans, Plan, UpdaterUpdates, UpdaterMarks, UpdaterRemoves, NothingLeft,
      TickEnds, ItemDone, Goto, taskVars
<1>2. todo'["tracker"] = todo["tracker"]
  BY <1>0
  DEF UpdaterStep, UpdaterNext, UpdaterLists, UpdaterListFails, UpdaterDiscovers,
      discover_ruler_rules, TenantDiscovered, TenantSkipped, StillToAsk, DiscoveryFails,
      UpdaterPlans, Plan, UpdaterUpdates, UpdaterMarks, UpdaterRemoves, NothingLeft,
      TickEnds, taskVars
<1>3. found'["tracker"] = found["tracker"]
  BY <1>0
  DEF UpdaterStep, UpdaterNext, UpdaterLists, UpdaterListFails, UpdaterDiscovers,
      discover_ruler_rules, TenantDiscovered, TenantSkipped, StillToAsk, DiscoveryFails,
      UpdaterPlans, Plan, UpdaterUpdates, UpdaterMarks, UpdaterRemoves, NothingLeft,
      TickEnds, taskVars
<1>4. listed'["tracker"] = listed["tracker"]
  BY <1>0
  DEF UpdaterStep, UpdaterNext, UpdaterLists, UpdaterListFails, UpdaterDiscovers,
      discover_ruler_rules, TenantDiscovered, TenantSkipped, StillToAsk, DiscoveryFails,
      UpdaterPlans, Plan, UpdaterUpdates, UpdaterMarks, UpdaterRemoves, NothingLeft,
      TickEnds, taskVars
<1> QED
  BY <1>1, <1>2, <1>3, <1>4 DEF LeftAlone

\* and with the tracker.
LEMMA TrackerLeaves == ASSUME TypeInv, TrackerStep PROVE LeftAlone("updater")
<1>0. /\ "updater" \in Tasks /\ "tracker" \in Tasks
      /\ at \in [Tasks -> {"tick", "discover", "list", "plan", "work", "patch"}]
      /\ todo \in [Tasks -> SUBSET Tenants]
      /\ found \in [Tasks -> [Tenants -> SUBSET Group]]
      /\ listed \in [Tasks -> Seq(ListedRule)]
  BY DEF Tasks, TypeInv, WorkOK, ReadOK
<1>1. at'["updater"] = at["updater"]
  BY <1>0
  DEF TrackerStep, TrackerNext, TrackerLoadsTenants, TrackerLoadFails, TrackerDiscovers,
      discover_ruler_rules, TenantDiscovered, TenantSkipped, StillToAsk, DiscoveryFails,
      TrackerLists, TrackerListFails, TrackerPlans, Plan, TrackerLooksUp,
      TrackerLookUpFails, TrackerPatches, NothingLeft, TickEnds, ItemDone, Goto, taskVars
<1>2. todo'["updater"] = todo["updater"]
  BY <1>0
  DEF TrackerStep, TrackerNext, TrackerLoadsTenants, TrackerLoadFails, TrackerDiscovers,
      discover_ruler_rules, TenantDiscovered, TenantSkipped, StillToAsk, DiscoveryFails,
      TrackerLists, TrackerListFails, TrackerPlans, Plan, TrackerLooksUp,
      TrackerLookUpFails, TrackerPatches, NothingLeft, TickEnds, taskVars
<1>3. found'["updater"] = found["updater"]
  BY <1>0
  DEF TrackerStep, TrackerNext, TrackerLoadsTenants, TrackerLoadFails, TrackerDiscovers,
      discover_ruler_rules, TenantDiscovered, TenantSkipped, StillToAsk, DiscoveryFails,
      TrackerLists, TrackerListFails, TrackerPlans, Plan, TrackerLooksUp,
      TrackerLookUpFails, TrackerPatches, NothingLeft, TickEnds, taskVars
<1>4. listed'["updater"] = listed["updater"]
  BY <1>0
  DEF TrackerStep, TrackerNext, TrackerLoadsTenants, TrackerLoadFails, TrackerDiscovers,
      discover_ruler_rules, TenantDiscovered, TenantSkipped, StillToAsk, DiscoveryFails,
      TrackerLists, TrackerListFails, TrackerPlans, Plan, TrackerLooksUp,
      TrackerLookUpFails, TrackerPatches, NothingLeft, TickEnds, taskVars
<1> QED
  BY <1>1, <1>2, <1>3, <1>4 DEF LeftAlone

\* How the updater comes to the places where it has read.
LEMMA UpdaterReads ==
    ASSUME TypeInv, [InformerNext]_informerVars
    PROVE  \/ at'["updater"] \notin {"discover", "plan"}
           \/ at["updater"] \in {"discover", "plan"} /\ listed'["updater"] = listed["updater"]
           \/ UpdaterLists
<1>0. /\ "updater" \in Tasks /\ "tracker" \in Tasks
      /\ at \in [Tasks -> {"tick", "discover", "list", "plan", "work", "patch"}]
      /\ listed \in [Tasks -> Seq(ListedRule)]
  BY DEF Tasks, TypeInv, WorkOK, ReadOK
<1>1. CASE Other
  BY <1>0, <1>1 DEF Other, Start, StartFails, Crash, taskVars, informerVars
<1>2. CASE UpdaterStep
  BY <1>0, <1>2
  DEF UpdaterStep, UpdaterNext, UpdaterListFails, UpdaterDiscovers, discover_ruler_rules,
      TenantDiscovered, TenantSkipped, StillToAsk, DiscoveryFails, Discovered, UpdaterPlans,
      Plan, UpdaterUpdates, UpdaterMarks, UpdaterRemoves, Working, NothingLeft, TickEnds,
      ItemDone, Goto, taskVars
<1>3. CASE TrackerStep
  BY <1>3, TrackerLeaves DEF LeftAlone
<1>4. CASE UserStep
  BY <1>4 DEF UserStep, taskVars
<1> QED
  BY <1>1, <1>2, <1>3, <1>4 DEF InformerNext, Other

Keeps(task) ==
    at'[task] = at[task] /\ todo'[task] = todo[task] /\ found'[task] = found[task]
Asks(task, t) ==
    /\ at[task] = "discover" /\ at'[task] = "discover"
    /\ t \in todo[task] /\ todo'[task] = todo[task] \ {t}
    /\ \/ found'[task] = [found[task] EXCEPT ![t] = ruler[t]] /\ UNCHANGED ruler
       \/ found'[task] = found[task] /\ Mishap

\* How the tracker comes to the places where it has read.
LEMMA TrackerReads ==
    ASSUME TypeInv, [InformerNext]_informerVars
    PROVE  \/ Keeps("tracker")
           \/ /\ at'["tracker"] \notin {"discover", "list", "plan"}
              /\ found'["tracker"] \in {found["tracker"], NoGroups}
           \/ TrackerLoadsTenants
           \/ \E t \in Tenants : Asks("tracker", t)
           \/ /\ \/ at["tracker"] = "discover" /\ todo["tracker"] = {}
                 \/ at["tracker"] = "list"
              /\ at'["tracker"] \in {"list", "plan"} /\ found'["tracker"] = found["tracker"]
<1>0. /\ "updater" \in Tasks /\ "tracker" \in Tasks
      /\ at \in [Tasks -> {"tick", "discover", "list", "plan", "work", "patch"}]
      /\ todo \in [Tasks -> SUBSET Tenants]
      /\ found \in [Tasks -> [Tenants -> SUBSET Group]]
  BY DEF Tasks, TypeInv, WorkOK, ReadOK
<1>1. CASE Other
  BY <1>0, <1>1 DEF Other, Start, StartFails, Crash, taskVars, informerVars, Keeps
<1>2. CASE UpdaterStep
  BY <1>2, UpdaterLeaves DEF LeftAlone, Keeps
<1>3. CASE TrackerStep
  <2>1. CASE TrackerLoadFails
    BY <2>1 DEF TrackerLoadFails, taskVars, Keeps
  <2>2. CASE TickEnds("tracker")
    BY <1>0, <2>2 DEF TickEnds, Goto
  <2>3. CASE TrackerPlans
    BY <1>0, <2>3 DEF TrackerPlans, Plan, Goto
  <2>4. CASE TrackerLists
    BY <1>0, <2>4 DEF TrackerLists, Goto
  <2>5. CASE TrackerLooksUp \/ TrackerLookUpFails \/ TrackerPatches
    BY <1>0, <2>5 DEF TrackerLooksUp, TrackerLookUpFails, TrackerPatches, ItemDone, Goto
  <2>6. ASSUME NEW t \in todo["tracker"], TenantDiscovered("tracker", t)
        PROVE  t \in Tenants /\ Asks("tracker", t)
    BY <1>0, <2>6 DEF TenantDiscovered, StillToAsk, Asks
  <2>7. ASSUME NEW t \in todo["tracker"], TenantSkipped("tracker", t)
        PROVE  t \in Tenants /\ Asks("tracker", t)
    BY <1>0, <2>7 DEF TenantSkipped, StillToAsk, Asks, RequestFails
  <2>8. CASE /\ Discovered("tracker") /\ Goto("tracker", "list")
             /\ UNCHANGED found
    BY <1>0, <2>8 DEF Discovered, Goto
  <2> QED
    BY <1>3, <2>1, <2>2, <2>3, <2>4, <2>5, <2>6, <2>7, <2>8
    DEF TrackerStep, TrackerNext, TrackerDiscovers, discover_ruler_rules, DiscoveryFails,
        TrackerListFails, NothingLeft
<1>4. CASE UserStep
  BY <1>4 DEF UserStep, taskVars, Keeps
<1> QED
  BY <1>1, <1>2, <1>3, <1>4 DEF InformerNext, Other

\* What a task has read of a tenant it keeps, or forgets, or it reads it now, as
\* the store has it; short of a mishap it then knows all of it.
KeepsReading(task, t) ==
    /\ ReadFor(task, t)' \subseteq ReadFor(task, t)
    /\ HasRead(task, t)' =>
          Mishap \/ (HasRead(task, t) /\ ReadFor(task, t)' = ReadFor(task, t))
ReadsNow(task, t) ==
    /\ ReadFor(task, t)' \subseteq Origin(task, t)'
    /\ HasRead(task, t)' => Mishap \/ ReadFor(task, t)' = Origin(task, t)'

\* Nothing is kept from one tick to the next.
EmptyInv ==
    \A task \in Tasks : ~InTick(task) => listed[task] = << >> /\ found[task] = NoGroups

\* The updater's listing is the resources as they are when it is made.
LEMMA UpdaterReadChanges ==
    ASSUME TypeInv, [InformerNext]_informerVars, NEW t \in Tenants
    PROVE  KeepsReading("updater", t) \/ ReadsNow("updater", t)
<1>0. "updater" \in Tasks /\ listed \in [Tasks -> Seq(ListedRule)]
  BY DEF Tasks, TypeInv, ReadOK
<1>1. CASE UpdaterLists
  <2>1. PICK rules \in Listings :
           Listed("updater", rules) /\ listed' = [listed EXCEPT !["updater"] = rules]
    BY <1>1 DEF UpdaterLists
  <2>2. listed'["updater"] = rules /\ UNCHANGED resources
    BY <1>0, <2>1 DEF Listed
  <2>3. K8sGroups(t)' = K8sGroups(t)
    BY <2>2 DEF K8sGroups, Naming, Groups, Present
  <2>4. ReadFor("updater", t)' = GroupsOf(rules, t)
    BY <2>2 DEF ReadFor, GroupsOf
  <2>5. Origin("updater", t)' = K8sGroups(t)
    BY <2>3 DEF Origin
  <2>6. Mishap \/ Len(rules) = Cardinality(There)
    BY <2>1 DEF Listed
  <2> QED
    BY <2>4, <2>5, <2>6, ListingIsRead DEF ReadsNow
<1>2. CASE listed'["updater"] = listed["updater"] /\ ~UpdaterLists
  <2>1. ReadFor("updater", t)' = ReadFor("updater", t)
    BY <1>2 DEF ReadFor, GroupsOf
  <2>2. HasRead("updater", t)' => HasRead("updater", t)
    BY <1>2, UpdaterReads DEF HasRead
  <2> QED
    BY <2>1, <2>2 DEF KeepsReading
<1>3. CASE /\ at'["updater"] \notin {"discover", "plan"}
           /\ listed'["updater"] = << >>
  <2>1. ReadFor("updater", t)' = {}
    BY <1>3 DEF ReadFor, GroupsOf
  <2>2. ~HasRead("updater", t)'
    BY <1>3 DEF HasRead
  <2> QED
    BY <2>1, <2>2 DEF KeepsReading
<1>4. CASE /\ at'["updater"] \notin {"discover", "plan"}
           /\ UNCHANGED resources /\ IsListing(listed'["updater"])
  <2>1. ASSUME NEW g \in ReadFor("updater", t)' PROVE g \in Origin("updater", t)'
    <3>1. PICK i \in DOMAIN listed'["updater"] :
             /\ t \in listed'["updater"][i].tenants
             /\ g \in Range(listed'["updater"][i].groups)
      BY <2>1 DEF ReadFor, GroupsOf
    <3>2. PICK n \in ResourceNames : Present(n) /\ listed'["updater"][i] = AsListed(n)
      BY <1>4 DEF IsListing
    <3>3. t \in resources[n].tenants /\ g \in Range(resources[n].groups)
      BY <3>1, <3>2 DEF AsListed
    <3> QED
      BY <1>4, <3>2, <3>3 DEF Origin, K8sGroups, Naming, Groups, Present
  <2>2. ~HasRead("updater", t)'
    BY <1>4 DEF HasRead
  <2> QED
    BY <2>1, <2>2 DEF ReadsNow
<1> QED
  BY <1>0, <1>1, <1>2, <1>3, <1>4, UpdaterReads, ListedChanges

\* The tracker's answers from the Ruler are the groups as they are when it answers.
LEMMA TrackerReadChanges ==
    ASSUME TypeInv, EmptyInv, [InformerNext]_informerVars, NEW t \in Tenants,
           ZeroTenant \notin todo["tracker"]
    PROVE  KeepsReading("tracker", t) \/ ReadsNow("tracker", t)
<1>0. /\ "tracker" \in Tasks /\ NoGroups[t] = {}
      /\ todo \in [Tasks -> SUBSET Tenants]
      /\ found["tracker"] \in [Tenants -> SUBSET Group]
  BY DEF Tasks, TypeInv, ReadOK, NoGroups
<1>1. /\ ReadFor("tracker", t) = found["tracker"][t]
      /\ ReadFor("tracker", t)' = found'["tracker"][t]
  BY DEF ReadFor
<1>2. CASE Keeps("tracker")
  BY <1>1, <1>2 DEF Keeps, KeepsReading, HasRead
<1>3. CASE /\ at'["tracker"] \notin {"discover", "list", "plan"}
           /\ found'["tracker"] \in {found["tracker"], NoGroups}
  BY <1>0, <1>1, <1>3 DEF KeepsReading, HasRead
<1>4. CASE TrackerLoadsTenants
  <2>1. PICK reported \in SUBSET Tenants :
           /\ reported = Tenants \/ Mishap
           /\ todo' = [todo EXCEPT !["tracker"] = reported \ {ZeroTenant}]
    BY <1>4 DEF TrackerLoadsTenants, extract_tenants
  <2>2. todo'["tracker"] = reported \ {ZeroTenant}
    BY <1>0, <2>1
  <2>3. found'["tracker"][t] = {} /\ at' = [at EXCEPT !["tracker"] = "discover"]
    BY <1>0, <1>4 DEF TrackerLoadsTenants, EmptyInv, InTick, Goto
  <2>4. at'["tracker"] = "discover"
    BY <1>0, <2>3 DEF TypeInv, WorkOK
  <2>5. CASE t = ZeroTenant
    BY <1>1, <2>3, <2>5 DEF ReadsNow, Origin
  <2>6. CASE t # ZeroTenant
    <3>1. HasRead("tracker", t)' => Mishap
      BY <2>1, <2>2, <2>4, <2>6 DEF HasRead
    <3> QED
      BY <1>1, <2>3, <3>1 DEF KeepsReading
  <2> QED
    BY <2>5, <2>6
<1>5. ASSUME NEW u \in Tenants, Asks("tracker", u)
      PROVE  KeepsReading("tracker", t) \/ ReadsNow("tracker", t)
  <2>1. CASE u = t
    <3>1. t # ZeroTenant
      BY <1>5, <2>1 DEF Asks
    <3>2. CASE found'["tracker"] = found["tracker"] /\ Mishap
      BY <1>1, <3>2 DEF KeepsReading
    <3>3. CASE /\ found'["tracker"] = [found["tracker"] EXCEPT ![u] = ruler[u]]
               /\ UNCHANGED ruler
      <4>1. found'["tracker"][t] = ruler'[t]
        BY <1>0, <2>1, <3>3
      <4> QED
        BY <1>1, <3>1, <4>1 DEF ReadsNow, Origin
    <3> QED
      BY <1>5, <3>2, <3>3 DEF Asks
  <2>2. CASE u # t
    <3>1. found'["tracker"][t] = found["tracker"][t]
      BY <1>0, <1>5, <2>2 DEF Asks
    <3>2. HasRead("tracker", t)' => HasRead("tracker", t)
      BY <1>5, <2>2 DEF Asks, HasRead
    <3> QED
      BY <1>1, <3>1, <3>2 DEF KeepsReading
  <2> QED
    BY <2>1, <2>2
<1>6. CASE /\ \/ at["tracker"] = "discover" /\ todo["tracker"] = {}
              \/ at["tracker"] = "list"
           /\ at'["tracker"] \in {"list", "plan"} /\ found'["tracker"] = found["tracker"]
  <2>1. HasRead("tracker", t)
    BY <1>6 DEF HasRead
  <2> QED
    BY <1>1, <1>6, <2>1 DEF KeepsReading
<1> QED
  BY <1>2, <1>3, <1>4, <1>5, <1>6, TrackerReads

\* A task that is between two ticks has been there or has just ended one.
LEMMA TickEnded ==
    ASSUME TypeInv, [InformerNext]_informerVars, NEW task \in Tasks, ~InTick(task)'
    PROVE  \/ /\ ~InTick(task)
              /\ listed'[task] = listed[task] /\ found'[task] = found[task]
           \/ listed'[task] = << >> /\ found'[task] = NoGroups
<1>0. /\ Tasks = {"updater", "tracker"}
      /\ at \in [Tasks -> {"tick", "discover", "list", "plan", "work", "patch"}]
      /\ listed \in [Tasks -> Seq(ListedRule)]
      /\ found \in [Tasks -> [Tenants -> SUBSET Group]]
      /\ at'[task] = "tick"
  BY DEF Tasks, TypeInv, WorkOK, ReadOK, InTick
<1>1. CASE Other
  BY <1>0, <1>1 DEF Other, Start, StartFails, Crash, taskVars, informerVars, InTick
<1>2. ASSUME NEW other \in Tasks, TickEnds(other), other = task
      PROVE  listed'[task] = << >> /\ found'[task] = NoGroups
  BY <1>0, <1>2 DEF TickEnds
<1>3. CASE UpdaterStep /\ task = "updater"
  <2>1. CASE UpdaterListFails
    BY <1>3, <2>1 DEF UpdaterListFails, taskVars, InTick
  <2>2. CASE TickEnds("updater")
    BY <1>0, <1>2, <1>3, <2>2
  <2>3. ~UpdaterLists /\ ~UpdaterPlans /\ ~UpdaterUpdates /\ ~UpdaterMarks /\ ~UpdaterRemoves
    BY <1>0, <1>3 DEF UpdaterLists, UpdaterPlans, Plan, UpdaterUpdates, UpdaterMarks,
       UpdaterRemoves, ItemDone, Goto
  <2>4. UpdaterDiscovers => DiscoveryFails("updater")
    BY <1>0, <1>3 DEF UpdaterDiscovers, discover_ruler_rules, TenantDiscovered,
       TenantSkipped, StillToAsk, Goto
  <2> QED
    BY <1>3, <2>1, <2>2, <2>3, <2>4
    DEF UpdaterStep, UpdaterNext, DiscoveryFails, NothingLeft
<1>4. CASE TrackerStep /\ task = "tracker"
  <2>1. CASE TrackerLoadFails
    BY <1>4, <2>1 DEF TrackerLoadFails, taskVars, InTick
  <2>2. CASE TickEnds("tracker")
    BY <1>0, <1>2, <1>4, <2>2
  <2>3. ~TrackerLoadsTenants /\ ~TrackerLists /\ ~TrackerPlans
    BY <1>0, <1>4 DEF TrackerLoadsTenants, TrackerLists, TrackerPlans, Plan, Goto
  <2>4. ~TrackerLooksUp /\ ~TrackerLookUpFails /\ ~TrackerPatches
    BY <1>0, <1>4 DEF TrackerLooksUp, TrackerLookUpFails, TrackerPatches, ItemDone, Goto
  <2>5. TrackerDiscovers => DiscoveryFails("tracker")
    BY <1>0, <1>4 DEF TrackerDiscovers, discover_ruler_rules, TenantDiscovered,
       TenantSkipped, StillToAsk, Goto
  <2> QED
    BY <1>4, <2>1, <2>2, <2>3, <2>4, <2>5
    DEF TrackerStep, TrackerNext, TrackerListFails, DiscoveryFails, NothingLeft
<1>5. CASE UpdaterStep /\ task = "tracker"
  BY <1>5, UpdaterLeaves DEF LeftAlone, InTick
<1>6. CASE TrackerStep /\ task = "updater"
  BY <1>6, TrackerLeaves DEF LeftAlone, InTick
<1>7. CASE UserStep
  BY <1>7 DEF UserStep, taskVars, InTick
<1> QED
  BY <1>0, <1>1, <1>3, <1>4, <1>5, <1>6, <1>7 DEF InformerNext, Other

\* The tracker asks nothing about the zero tenant.
ZeroInv == ZeroTenant \notin todo["tracker"]

\* It does not come to.
LEMMA ZeroInvStep ==
    ASSUME TypeInv, ZeroInv, [InformerNext]_informerVars
    PROVE  ZeroInv'
<1>0. /\ "updater" \in Tasks /\ "tracker" \in Tasks
      /\ todo \in [Tasks -> SUBSET Tenants]
  BY DEF Tasks, TypeInv, ReadOK
<1>1. CASE todo'["tracker"] \subseteq todo["tracker"]
  BY <1>1 DEF ZeroInv
<1>2. CASE Other
  BY <1>0, <1>2 DEF Other, Start, StartFails, Crash, taskVars, informerVars, ZeroInv
<1>3. CASE UpdaterStep
  BY <1>1, <1>3, UpdaterLeaves DEF LeftAlone
<1>4. CASE TrackerStep
  <2>1. CASE TrackerLoadsTenants
    BY <1>0, <2>1 DEF TrackerLoadsTenants, extract_tenants, ZeroInv
  <2> QED
    BY <1>0, <1>1, <1>4, <2>1
    DEF TrackerStep, TrackerNext, TrackerLoadFails, TrackerDiscovers, discover_ruler_rules,
        TenantDiscovered, TenantSkipped, StillToAsk, DiscoveryFails, TrackerLists,
        TrackerListFails, TrackerPlans, Plan, TrackerLooksUp, TrackerLookUpFails,
        TrackerPatches, NothingLeft, TickEnds, taskVars
<1>5. CASE UserStep
  BY <1>1, <1>5 DEF UserStep, taskVars
<1> QED
  BY <1>2, <1>3, <1>4, <1>5 DEF InformerNext, Other

\* Nothing is kept from one tick to the next.
LEMMA EmptyInvStep ==
    ASSUME TypeInv, EmptyInv, [InformerNext]_informerVars
    PROVE  EmptyInv'
BY TickEnded DEF EmptyInv, InTick

-----------------------------------------------------------------------------
(* What is remembered of a tick.                                           *)

RememberInv ==
    \A task \in Tasks : InTick(task) =>
        Held(task) \subseteq offered[task] /\ Missing(task) \subseteq lacked[task]

\* A step of the informer with its history is a step of the informer.
LEMMA TickIsStep == ASSUME [TickNext]_tickVars PROVE [InformerNext]_informerVars
BY DEF TickNext, tickVars

\* While a tick lasts the history has the present in it, and only grows; in a tick
\* without a mishap no step is one.
LEMMA Recalls ==
    ASSUME TypeInv, RememberInv, [TickNext]_tickVars, NEW task \in Tasks, InTick(task)'
    PROVE  /\ Held(task)' \subseteq offered'[task]
           /\ Missing(task)' \subseteq lacked'[task]
           /\ offered[task] \subseteq offered'[task]
           /\ lacked[task] \subseteq lacked'[task]
           /\ task \in calm' => task \in calm /\ ~Mishap
<1>0. mishaps \in Nat
  BY RuleStoresAssumption DEF TypeInv, CountsOK
<1>1. CASE Remembers
  <2>1. offered'[task] = offered[task] \cup Held(task)'
    BY <1>1 DEF Remembers
  <2>2. lacked'[task] = lacked[task] \cup Missing(task)'
    BY <1>1 DEF Remembers
  <2>3. task \in calm' => task \in calm /\ ~Mishap
    BY <1>0, <1>1 DEF Remembers, Mishap
  <2> QED
    BY <2>1, <2>2, <2>3
<1>2. CASE UNCHANGED tickVars
  <2>1. UNCHANGED <<resources, ruler, at, mishaps, offered, lacked, calm>>
    BY <1>2 DEF tickVars, history, informerVars, storeVars, taskVars
  <2>2. Held(task)' = Held(task) /\ Missing(task)' = Missing(task)
    BY <2>1 DEF Held, Missing, Origin, K8sGroups, Naming, Groups, Present
  <2>3. InTick(task)
    BY <2>1 DEF InTick
  <2> QED
    BY <1>0, <2>1, <2>2, <2>3 DEF RememberInv, Mishap
<1> QED
  BY <1>1, <1>2 DEF TickNext

\* So what is remembered stays so.
LEMMA RememberInvStep ==
    ASSUME TypeInv, RememberInv, [TickNext]_tickVars
    PROVE  RememberInv'
BY Recalls DEF RememberInv

\* What a task copies from has, after a step, groups.
LEMMA OriginGroups ==
    ASSUME TypeInv', NEW task, NEW t \in Tenants
    PROVE  Origin(task, t)' \subseteq Group
<1>1. K8sGroups(t)' \subseteq Group
  <2>1. ASSUME NEW n \in ResourceNames, Present(n)'
        PROVE  Range(resources'[n].groups) \subseteq Group
    <3>1. resources'[n].groups \in Seq(Group)
      BY <2>1 DEF TypeInv, ResourcesOK, Present, Rule, GroupLists
    <3> QED
      BY <3>1, LenProperties, ElementOfSeq DEF Range
  <2> QED
    BY <2>1 DEF K8sGroups, Naming, Groups, Present
<1>2. ruler'[t] \subseteq Group
  BY DEF TypeInv, RulerOK
<1> QED
  BY <1>1, <1>2 DEF Origin

-----------------------------------------------------------------------------
(* What a task has read, and plans, is what is remembered.                 *)

\* What a task has read of a tenant has been there in this tick, and in a tick
\* without a mishap all else has been absent.
CarriedInv ==
    \A task \in Tasks, t \in Tenants : \A g \in ReadFor(task, t) :
        <<t, g>> \in offered[task]
AbsentInv ==
    \A task \in calm : \A t \in Tenants, name \in GroupNames :
        HasRead(task, t) /\ name \notin Names(ReadFor(task, t)) =>
            <<t, name>> \in lacked[task]

\* So it is with what it plans.
WorkInv ==
    \A task \in Tasks : \A item \in Range(work[task]) :
        /\ item.kind = "update" => <<item.tenant, item.group>> \in offered[task]
        /\ item.kind = "removal" /\ task \in calm =>
              <<item.tenant, item.group.name>> \in lacked[task]

TickInv == TypeInv /\ EmptyInv /\ ZeroInv /\ RememberInv /\ CarriedInv /\ AbsentInv

\* A task reads what is remembered.
LEMMA ReadChanges ==
    ASSUME TickInv, [TickNext]_tickVars, NEW task \in Tasks, NEW t \in Tenants
    PROVE  KeepsReading(task, t) \/ ReadsNow(task, t)
<1>1. [InformerNext]_informerVars
  BY TickIsStep
<1> QED
  BY <1>1, UpdaterReadChanges, TrackerReadChanges DEF TickInv, ZeroInv, Tasks

\* What it has read has been there.
LEMMA CarriedInvStep ==
    ASSUME TickInv, [TickNext]_tickVars
    PROVE  CarriedInv'
<1>1. TypeInv' /\ EmptyInv'
  BY TickIsStep, TypeInvStep, EmptyInvStep DEF TickInv
<1> SUFFICES ASSUME NEW task \in Tasks, NEW t \in Tenants, NEW g \in ReadFor(task, t)'
             PROVE  <<t, g>> \in offered'[task]
  BY DEF CarriedInv
<1>2. InTick(task)'
  <2> SUFFICES ASSUME ~InTick(task)' PROVE ReadFor(task, t)' = {}
    OBVIOUS
  <2>1. listed'[task] = << >> /\ found'[task] = NoGroups
    BY <1>1 DEF EmptyInv
  <2> QED
    BY <2>1 DEF ReadFor, GroupsOf, NoGroups, Tasks
<1>3. Held(task)' \subseteq offered'[task] /\ offered[task] \subseteq offered'[task]
  BY <1>2, Recalls DEF TickInv
<1>4. CASE KeepsReading(task, t)
  BY <1>3, <1>4 DEF KeepsReading, TickInv, CarriedInv
<1>5. CASE ReadsNow(task, t)
  <2>1. g \in Origin(task, t)' /\ Origin(task, t)' \subseteq Group
    BY <1>1, <1>5, OriginGroups DEF ReadsNow
  <2>2. <<t, g>> \in Held(task)'
    BY <2>1 DEF Held
  <2> QED
    BY <1>3, <2>2
<1> QED
  BY <1>4, <1>5, ReadChanges

\* What it has not, although it has read all, has been absent.
LEMMA AbsentInvStep ==
    ASSUME TickInv, [TickNext]_tickVars, calm \subseteq Tasks, calm' \subseteq Tasks
    PROVE  AbsentInv'
<1> SUFFICES ASSUME NEW task \in calm', NEW t \in Tenants, NEW name \in GroupNames,
                    HasRead(task, t)', name \notin Names(ReadFor(task, t)')
             PROVE  <<t, name>> \in lacked'[task]
  BY DEF AbsentInv, Names
<1>1. task \in Tasks /\ InTick(task)'
  BY DEF HasRead, InTick, Tasks
<1>2. /\ Missing(task)' \subseteq lacked'[task] /\ lacked[task] \subseteq lacked'[task]
      /\ task \in calm /\ ~Mishap
  BY <1>1, Recalls DEF TickInv
<1>3. CASE KeepsReading(task, t)
  <2>1. HasRead(task, t) /\ name \notin Names(ReadFor(task, t))
    BY <1>2, <1>3 DEF KeepsReading
  <2> QED
    BY <1>2, <2>1 DEF TickInv, AbsentInv
<1>4. CASE ReadsNow(task, t)
  <2>1. name \notin Names(Origin(task, t)')
    BY <1>2, <1>4 DEF ReadsNow
  <2>2. <<t, name>> \in Missing(task)'
    BY <2>1 DEF Missing, Names
  <2> QED
    BY <1>2, <2>2
<1> QED
  BY <1>1, <1>3, <1>4, ReadChanges

\* A plan gives a tenant what the task has read for it, and takes from it what the
\* task has not.
LEMMA PlanIsRead ==
    ASSUME TypeInv, NEW task \in Tasks,
           \/ task = "updater" /\ UpdaterPlans
           \/ task = "tracker" /\ TrackerPlans,
           NEW item \in Range(work'[task])
    PROVE  /\ item.tenant \in Tenants /\ HasRead(task, item.tenant)
           /\ item.kind = "update" => item.group \in ReadFor(task, item.tenant)
           /\ item.kind = "removal" =>
                 item.group.name \notin Names(ReadFor(task, item.tenant))
<1>0. /\ work \in [Tasks -> Seq(Item)] /\ enable_updater_remove_rules \in BOOLEAN
      /\ listed \in [Tasks -> Seq(ListedRule)]
      /\ found \in [Tasks -> [Tenants -> SUBSET Group]]
      /\ \A t \in Tenants : IsFiniteSet(found[task][t])
  BY DEF TypeInv, WorkOK, ProcessOK, ReadOK
<1>1. PICK ours, theirs : ours = K8sMap(task) /\ theirs = RulerMap(found[task])
  OBVIOUS
<1>2. IsMap(ours) /\ IsMap(theirs)
  BY <1>1, MapsOK DEF TypeInv
<1>3. PICK target, origin :
         /\ task = "updater" => target = theirs /\ origin = ours
         /\ task # "updater" => target = ours /\ origin = theirs
  OBVIOUS
<1>4. ASSUME task = "updater", UpdaterPlans
      PROVE  Planned(target, origin, TRUE, item) /\ at[task] = "plan"
  <2>1. Planned(theirs, ours, enable_updater_remove_rules, item)
    BY <1>0, <1>1, <1>2, <1>4, PlannedItems, RuleStoresAssumption DEF UpdaterPlans
  <2>2. at[task] = "plan"
    BY <1>4 DEF UpdaterPlans, Plan
  <2> QED
    BY <1>3, <1>4, <2>1, <2>2 DEF Planned
<1>5. ASSUME task = "tracker", TrackerPlans
      PROVE  Planned(target, origin, TRUE, item) /\ at[task] = "plan"
  <2>1. Planned(ours, theirs, TRUE, item)
    BY <1>0, <1>1, <1>2, <1>5, PlannedItems, RuleStoresAssumption DEF TrackerPlans
  <2>2. at[task] = "plan"
    BY <1>5 DEF TrackerPlans, Plan
  <2> QED
    BY <1>3, <1>5, <2>1, <2>2
<1>6. /\ IsMap(target) /\ IsMap(origin)
      /\ Planned(target, origin, TRUE, item) /\ at[task] = "plan"
  BY <1>2, <1>3, <1>4, <1>5
<1>7. ASSUME NEW t \in Tenants, NEW g
      PROVE  g \in ReadFor(task, t) <=>
                t \in DOMAIN origin /\ \E e \in Range(origin[t]) : g = e.group
  <2>1. CASE task = "updater"
    <3>1. PICK rules \in Seq(ListedRule) : rules = listed[task]
      BY <1>0
    <3>2. origin = get_tenant_map_from_rules_list(rules)
      BY <1>1, <1>3, <2>1, <3>1 DEF K8sMap
    <3>3. g \in ReadFor(task, t) <=>
            \E i \in DOMAIN rules : t \in rules[i].tenants /\ g \in Range(rules[i].groups)
      BY <2>1, <3>1 DEF ReadFor, GroupsOf
    <3>4. ASSUME NEW i \in DOMAIN rules, t \in rules[i].tenants, g \in Range(rules[i].groups)
          PROVE  t \in DOMAIN origin /\ \E e \in Range(origin[t]) : g = e.group
      <4>1. PICK j \in DOMAIN rules[i].groups : g = rules[i].groups[j]
        BY <3>4 DEF Range
      <4>2. t \in DOMAIN origin /\ Entry(g, i) \in Range(origin[t])
        BY <3>2, <3>4, <4>1, MapOfRules
      <4> QED
        BY <4>2 DEF Entry
    <3>5. ASSUME t \in DOMAIN origin, NEW e \in Range(origin[t]), g = e.group
          PROVE  \E i \in DOMAIN rules : t \in rules[i].tenants /\ g \in Range(rules[i].groups)
      <4>1. PICK i \in DOMAIN rules : \E j \in DOMAIN rules[i].groups :
               t \in rules[i].tenants /\ e = Entry(rules[i].groups[j], i)
        BY <3>2, <3>5, MapOfRules
      <4> QED
        BY <3>5, <4>1 DEF Entry, Range
    <3> QED
      BY <3>3, <3>4, <3>5
  <2>2. CASE task = "tracker"
    <3>1. PICK groups \in [Tenants -> SUBSET Group] : groups = found[task]
      BY <1>0
    <3>2. origin = RulerMap(groups)
      BY <1>1, <1>3, <2>2, <3>1
    <3>3. /\ t \in DOMAIN origin <=> groups[t] # {}
          /\ t \in DOMAIN origin => \A e : e \in Range(origin[t]) <=>
                \E group \in groups[t] : e = Entry(group, 0)
      BY <1>0, <3>1, <3>2, MapOfRuler
    <3>4. ReadFor(task, t) = groups[t]
      BY <2>2, <3>1 DEF ReadFor
    <3>5. ASSUME g \in groups[t]
          PROVE  t \in DOMAIN origin /\ Entry(g, 0) \in Range(origin[t])
      BY <3>3, <3>5
    <3>6. Entry(g, 0).group = g /\ \A h : Entry(h, 0).group = h
      BY DEF Entry
    <3> QED
      BY <3>3, <3>4, <3>5, <3>6
  <2> QED
    BY <2>1, <2>2 DEF Tasks
<1>8. PICK t : t = item.tenant
  OBVIOUS
<1>9. CASE /\ item.kind = "update" /\ t \in DOMAIN origin
           /\ \E e \in Range(origin[t]) : item.group = e.group
  <2>1. t \in Tenants /\ HasRead(task, t)
    BY <1>6, <1>9 DEF IsMap, HasRead, Tasks
  <2> QED
    BY <1>7, <1>8, <1>9, <2>1
<1>10. CASE /\ item.kind = "removal" /\ t \in DOMAIN target
            /\ t \in DOMAIN origin => find_group_named(origin[t], item.group.name) = 0
  <2>1. t \in Tenants /\ HasRead(task, t)
    BY <1>6, <1>10 DEF IsMap, HasRead, Tasks
  <2>2. ASSUME NEW g \in ReadFor(task, t), g.name = item.group.name PROVE FALSE
    <3>1. t \in DOMAIN origin /\ \E e \in Range(origin[t]) : g = e.group
      BY <1>7, <2>1, <2>2
    <3>2. PICK i \in DOMAIN origin[t] : origin[t][i].group.name = item.group.name
      BY <2>2, <3>1 DEF Range
    <3> QED
      BY <1>6, <1>10, <3>1, <3>2, FindsGroup DEF IsMap
  <2> QED
    BY <1>8, <1>10, <2>1, <2>2 DEF Names
<1> QED
  BY <1>6, <1>8, <1>9, <1>10 DEF Planned, ItemOf, ToRemove

\* The invariant is kept: a task plans what it has read, and forgets what is done.
LEMMA WorkInvStep ==
    ASSUME TickInv, WorkInv, [TickNext]_tickVars
    PROVE  WorkInv'
<1>0. TypeInv /\ TypeInv' /\ [InformerNext]_informerVars
  BY TickIsStep, TypeInvStep DEF TickInv
<1> SUFFICES ASSUME NEW task \in Tasks, NEW item \in Range(work'[task])
             PROVE  /\ item.kind = "update" =>
                          <<item.tenant, item.group>> \in offered'[task]
                    /\ item.kind = "removal" /\ task \in calm' =>
                          <<item.tenant, item.group.name>> \in lacked'[task]
  BY DEF WorkInv
<1>1. InTick(task)'
  <2> SUFFICES ASSUME ~InTick(task)' PROVE work'[task] = << >>
    BY DEF Range
  <2> QED
    BY <1>0 DEF InTick, TypeInv, WorkOK
<1>2. /\ offered[task] \subseteq offered'[task] /\ lacked[task] \subseteq lacked'[task]
      /\ task \in calm' => task \in calm
  BY <1>1, Recalls DEF TickInv
<1>3. CASE item \in Range(work[task])
  BY <1>2, <1>3 DEF WorkInv
<1>4. CASE \/ task = "updater" /\ UpdaterPlans
           \/ task = "tracker" /\ TrackerPlans
  <2>1. /\ item.tenant \in Tenants /\ HasRead(task, item.tenant)
        /\ item.kind = "update" => item.group \in ReadFor(task, item.tenant)
        /\ item.kind = "removal" =>
              item.group.name \notin Names(ReadFor(task, item.tenant))
    BY <1>0, <1>4, PlanIsRead
  <2>2. item.group.name \in GroupNames
    <3>1. work'[task] \in Seq(Item)
      BY <1>0 DEF TypeInv, WorkOK
    <3>2. item \in Item
      BY <3>1, LenProperties, ElementOfSeq DEF Range
    <3> QED
      BY <3>2 DEF Item, Group
  <2> QED
    BY <1>2, <2>1, <2>2 DEF TickInv, CarriedInv, AbsentInv
<1> QED
  BY <1>0, <1>3, <1>4, WorkChanges

-----------------------------------------------------------------------------
(* What the tracker's patch has to do with its item.                       *)

\* Only a removal deletes; an object that is applied names the item's tenant, and an
\* update is in it.  A resource that has not changed since names the tenant too, and
\* has all of the object but the update.
PatchKnown(item) ==
    /\ patch.kind = "delete" => item.kind = "removal"
    /\ patch.kind = "delete" /\ patch.name \in fresh["tracker"] =>
          item.tenant \in resources[patch.name].tenants
    /\ patch.kind = "apply" =>
          /\ item.tenant \in patch.object.tenants
          /\ item.kind = "update" => item.group \in Range(patch.object.groups)
    /\ patch.kind = "apply" /\ ~patch.versioned =>
          item.kind = "update" /\ Range(patch.object.groups) = {item.group}
    /\ patch.kind = "apply" /\ patch.versioned /\ patch.name \in fresh["tracker"] =>
          /\ item.tenant \in resources[patch.name].tenants
          /\ \A g \in Range(patch.object.groups) :
                g \in Groups(patch.name) \/ (item.kind = "update" /\ g = item.group)
PatchInv ==
    at["tracker"] = "patch" /\ patch.kind # "none" => PatchKnown(NextItem("tracker"))

\* The look-up makes such a patch.
LEMMA LookedUpIsKnown ==
    ASSUME TypeInv, TrackerLooksUp
    PROVE  PatchInv'
<1>0. "tracker" \in Tasks
  BY DEF Tasks
<1>1. PICK rules \in Listings :
         Listed("tracker", rules) /\ patch' = PatchFor(rules, NextItem("tracker"))
  BY DEF TrackerLooksUp
<1>2. IsListing(rules) /\ rules \in Seq(ListedRule) /\ UNCHANGED resources
  BY <1>0, <1>1, ListedOK DEF IsListing
<1>3. PICK item \in Item : item = NextItem("tracker")
  BY <1>0, NextItemOK DEF TrackerLooksUp, TypeInv
<1>4. NextItem("tracker")' = item
  BY <1>3 DEF TrackerLooksUp, NextItem
<1>5. PICK p : p = patch' /\ PatchOf(rules, item, p)
  BY <1>1, <1>2, <1>3, PatchesOneGroup
<1>6. ASSUME NEW i \in DOMAIN rules
      PROVE  /\ Groups(rules[i].name)' = Range(rules[i].groups)
             /\ resources'[rules[i].name].tenants = rules[i].tenants
  <2>1. PICK n \in ResourceNames : Present(n) /\ rules[i] = AsListed(n)
    BY <1>2 DEF IsListing
  <2>2. /\ rules[i].name = n /\ rules[i].groups = resources[n].groups
        /\ rules[i].tenants = resources[n].tenants
    BY <2>1 DEF AsListed
  <2> QED
    BY <1>2, <2>1, <2>2 DEF Groups, Present
<1>7. p.kind = "delete" =>
         item.kind = "removal" /\ item.tenant \in resources'[p.name].tenants
  BY <1>5, <1>6 DEF PatchOf, IsHolder
<1>8. p.kind = "apply" /\ p.versioned =>
         /\ item.tenant \in p.object.tenants /\ item.tenant \in resources'[p.name].tenants
         /\ \A g \in Range(p.object.groups) :
               g \in Groups(p.name)' \/ (item.kind = "update" /\ g = item.group)
  BY <1>5, <1>6 DEF PatchOf, IsHolder
<1>9. p.kind = "apply" /\ ~p.versioned =>
         /\ item.kind = "update" /\ Range(p.object.groups) = {item.group}
         /\ item.tenant \in p.object.tenants
  BY <1>5 DEF PatchOf
<1>10. p.kind = "apply" /\ item.kind = "update" => item.group \in Range(p.object.groups)
  BY <1>5 DEF PatchOf
<1>11. PatchKnown(NextItem("tracker"))'
  BY <1>4, <1>5, <1>7, <1>8, <1>9, <1>10 DEF PatchKnown, Groups, Present
<1> QED
  BY <1>11 DEF PatchInv

\* It stays so until the patch is made or dropped.
LEMMA PatchInvStep ==
    ASSUME TypeInv, PatchInv, [InformerNext]_informerVars
    PROVE  PatchInv'
<1>0. "tracker" \in Tasks
  BY DEF Tasks
<1>1. CASE TrackerLooksUp
  BY <1>1, LookedUpIsKnown
<1>2. CASE /\ UNCHANGED patch /\ at["tracker"] = "patch" /\ at'["tracker"] = "patch"
           /\ work'["tracker"] = work["tracker"]
  <2> SUFFICES ASSUME patch.kind # "none" PROVE PatchKnown(NextItem("tracker"))'
    BY <1>2 DEF PatchInv
  <2>1. PICK item : item = NextItem("tracker") /\ PatchKnown(item)
    BY <1>2 DEF PatchInv
  <2>2. NextItem("tracker")' = item
    BY <1>2, <2>1 DEF NextItem
  <2>3. patch.name \in ResourceNames
    BY DEF TypeInv, ReadOK, Patch
  <2>4. ~TrackerLists /\ ~TrackerLooksUp
    BY <1>2 DEF TrackerLists, TrackerLooksUp
  <2>5. patch.name \in fresh'["tracker"] =>
           patch.name \in fresh["tracker"] /\ resources'[patch.name] = resources[patch.name]
    BY <1>0, <2>3, <2>4, FreshChanges
  <2>6. patch.name \in fresh'["tracker"] => Groups(patch.name)' = Groups(patch.name)
    BY <1>2, <2>5 DEF Groups, Present
  <2> QED
    BY <1>2, <2>1, <2>2, <2>5, <2>6 DEF PatchKnown
<1>3. CASE patch' = NoPatch
  BY <1>3 DEF NoPatch, PatchInv
<1>4. CASE at'["tracker"] # "patch"
  BY <1>4 DEF PatchInv
<1> QED
  BY <1>1, <1>2, <1>3, <1>4, PatchChanges

-----------------------------------------------------------------------------
(* CopiesWhatWasThere and RemovesWhatWasGone.                              *)

TicksInv == TickInv /\ WorkInv /\ FreshInv /\ PatchInv

\* It holds from the start,
LEMMA InitTicksInv == ASSUME TickInit PROVE TicksInv /\ calm \subseteq Tasks
<1>1. TypeInv
  BY InitTypeInv DEF TickInit
<1>2. /\ \A task \in Tasks : at[task] = "tick" /\ listed[task] = << >>
      /\ \A task \in Tasks : found[task] = NoGroups /\ work[task] = << >>
      /\ todo["tracker"] = {} /\ patch.kind = "none"
      /\ \A task \in Tasks, t \in Tenants : found[task][t] = {}
      /\ DOMAIN << >> = {} /\ Range(<< >>) = {}
  BY DEF TickInit, InformerInit, TaskInit, NothingBegun, NoPatch, NoGroups, Tasks, Range
<1>3. EmptyInv /\ ZeroInv /\ RememberInv /\ WorkInv
  BY <1>2 DEF EmptyInv, ZeroInv, RememberInv, WorkInv, InTick
<1>4. CarriedInv
  BY <1>2 DEF CarriedInv, ReadFor, GroupsOf, Tasks
<1>5. calm \subseteq Tasks
  BY DEF TickInit, HistoryInit
<1>6. AbsentInv
  BY <1>2, <1>5 DEF AbsentInv, HasRead, Tasks
<1>7. FreshInv /\ PatchInv
  BY <1>2 DEF FreshInv, PatchInv, Tasks
<1> QED
  BY <1>1, <1>3, <1>4, <1>5, <1>6, <1>7 DEF TicksInv, TickInv

\* and every step keeps it.
LEMMA TicksInvStep ==
    ASSUME TicksInv, calm \subseteq Tasks, [TickNext]_tickVars
    PROVE  (TicksInv /\ calm \subseteq Tasks)'
<1>1. TickInv /\ TypeInv /\ FreshInv /\ PatchInv /\ WorkInv /\ [InformerNext]_informerVars
  BY TickIsStep DEF TicksInv, TickInv
<1>2. TypeInv' /\ FreshInv' /\ PatchInv'
  BY <1>1, TypeInvStep, FreshInvStep, PatchInvStep
<1>3. EmptyInv' /\ ZeroInv' /\ RememberInv'
  BY <1>1, EmptyInvStep, ZeroInvStep, RememberInvStep DEF TickInv
<1>4. calm' \subseteq Tasks
  BY DEF TickNext, Remembers, tickVars, history
<1>5. CarriedInv' /\ AbsentInv' /\ WorkInv'
  BY <1>1, <1>4, CarriedInvStep, AbsentInvStep, WorkInvStep
<1> QED
  BY <1>2, <1>3, <1>4, <1>5 DEF TicksInv, TickInv

\* The item that a task is about to do, or to mark, is one of its work.
LEMMA NextIsWork ==
    ASSUME TypeInv, WorkInv, NEW task \in Tasks, work[task] # << >>, NEW item,
           item = NextItem(task)
    PROVE  /\ item \in Item
           /\ item.kind = "update" => <<item.tenant, item.group>> \in offered[task]
           /\ item.kind = "removal" /\ task \in calm =>
                 <<item.tenant, item.group.name>> \in lacked[task]
BY NextItemOK DEF TypeInv, WorkInv

\* What a task's step adds to the Ruler has been in Kubernetes, what it takes from
\* there Kubernetes has lacked.
LEMMA RulerIsCopied ==
    ASSUME TicksInv, [TickNext]_tickVars, edits' = edits, NEW t \in Tenants
    PROVE  /\ \A g \in ruler'[t] \ ruler[t] : <<t, g>> \in offered["updater"]
           /\ "updater" \in calm => \A name \in Names(ruler[t]) \ Names(ruler'[t]) :
                 <<t, name>> \in lacked["updater"]
<1>0. /\ TypeInv /\ WorkInv /\ [InformerNext]_informerVars /\ "updater" \in Tasks
      /\ edits \in Nat /\ RulerOK
  BY RuleStoresAssumption, TickIsStep DEF TicksInv, TickInv, Tasks, TypeInv, CountsOK
<1>1. CASE UNCHANGED ruler
  BY <1>1
<1>2. CASE edits' = edits + 1
  BY <1>0, <1>2
<1>3. PICK item : item = NextItem("updater")
  OBVIOUS
<1>4. CASE Working("updater", "update") /\ PutGroup(item.tenant, item.group)
  <2>1. /\ item \in Item /\ item.tenant \in Tenants /\ item.group \in Group
        /\ <<item.tenant, item.group>> \in offered["updater"]
    <3>1. work["updater"] # << >> /\ item.kind = "update"
      BY <1>3, <1>4 DEF Working
    <3>2. item \in Item /\ <<item.tenant, item.group>> \in offered["updater"]
      BY <1>0, <1>3, <3>1, NextIsWork
    <3> QED
      BY <3>2 DEF Item
  <2>2. ruler' = [ruler EXCEPT ![item.tenant] =
                    Without(ruler[item.tenant], item.group.name) \cup {item.group}]
    BY <1>0, <1>4, <2>1, PutGroupOK
  <2>3. CASE t = item.tenant
    <3>1. ruler'[t] = Without(ruler[t], item.group.name) \cup {item.group}
      BY <1>0, <2>2, <2>3 DEF RulerOK
    <3>2. Names(ruler[t]) \subseteq Names(ruler'[t])
      BY <3>1 DEF Names, Without
    <3> QED
      BY <2>1, <2>3, <3>1, <3>2 DEF Without
  <2>4. CASE t # item.tenant
    BY <1>0, <2>2, <2>4 DEF RulerOK
  <2> QED
    BY <2>3, <2>4
<1>5. CASE Working("updater", "removal") /\ DropGroup(item.tenant, item.group.name)
  <2>1. /\ item \in Item /\ item.tenant \in Tenants
        /\ "updater" \in calm => <<item.tenant, item.group.name>> \in lacked["updater"]
    <3>1. work["updater"] # << >> /\ item.kind = "removal"
      BY <1>3, <1>5 DEF Working
    <3>2. /\ item \in Item
          /\ "updater" \in calm => <<item.tenant, item.group.name>> \in lacked["updater"]
      BY <1>0, <1>3, <3>1, NextIsWork
    <3> QED
      BY <3>2 DEF Item
  <2>2. ruler' = [ruler EXCEPT ![item.tenant] =
                    Without(ruler[item.tenant], item.group.name)]
    BY <1>0, <1>5, <2>1, DropGroupOK
  <2>3. CASE t = item.tenant
    <3>1. ruler'[t] = Without(ruler[t], item.group.name)
      BY <1>0, <2>2, <2>3 DEF RulerOK
    <3> QED
      BY <2>1, <2>3, <3>1 DEF Names, Without
  <2>4. CASE t # item.tenant
    BY <1>0, <2>2, <2>4 DEF RulerOK
  <2> QED
    BY <2>3, <2>4
<1> QED
  BY <1>0, <1>1, <1>2, <1>3, <1>4, <1>5, RulerChanges

\* What a task's step adds to a resource has been in the Ruler, for one of the
\* tenants of the resource; what it takes from there the Ruler has lacked.
LEMMA ResourcesAreCopied ==
    ASSUME TicksInv, [TickNext]_tickVars, edits' = edits, NEW n \in ResourceNames
    PROVE  /\ \A g \in Groups(n)' \ Groups(n) :
                 \E t \in resources'[n].tenants : <<t, g>> \in offered["tracker"]
           /\ /\ "tracker" \in calm /\ Present(n) /\ ~Creates(n)
              /\ resources'[n] = Absent => n \in fresh["tracker"]
              => \A name \in Names(Groups(n)) \ Names(Groups(n)') :
                    \E t \in resources[n].tenants : <<t, name>> \in lacked["tracker"]
<1>0. /\ TypeInv /\ WorkInv /\ FreshInv /\ PatchInv /\ [InformerNext]_informerVars
      /\ "tracker" \in Tasks /\ edits \in Nat /\ Absent \notin Rule
  BY RuleStoresAssumption, TickIsStep DEF TicksInv, TickInv, Tasks, TypeInv, CountsOK
<1>1. CASE Groups(n)' = Groups(n)
  BY <1>1
<1>2. CASE resources'[n] = resources[n]
  BY <1>1, <1>2 DEF Groups, Present
<1>3. CASE UserWrites(n)
  BY <1>0, <1>3 DEF UserWrites
<1>4. CASE UpdaterWrites(n)
  <2>1. PICK i \in DOMAIN listed["updater"] :
          /\ listed["updater"][i].name = n
          /\ resources'[n].groups = listed["updater"][i].groups
    BY <1>4 DEF UpdaterWrites
  <2>2. Present(n) /\ AsListed(n) = listed["updater"][i]
    BY <1>0, <1>4, <2>1 DEF UpdaterWrites, FreshInv
  <2>3. resources'[n].groups = resources[n].groups
    BY <2>1, <2>2 DEF AsListed
  <2>4. Groups(n)' = Groups(n)
    BY <1>0, <1>4, <2>2, <2>3 DEF UpdaterWrites, Groups, Present
  <2> QED
    BY <1>1, <2>4
<1>5. CASE TrackerWrites(n)
  <2>1. work["tracker"] # << >> /\ at["tracker"] = "patch" /\ patch.name = n
    BY <1>0, <1>5 DEF TrackerWrites, TypeInv, WorkOK
  <2>2. PICK item \in Item :
           /\ item = NextItem("tracker")
           /\ item.kind = "update" => <<item.tenant, item.group>> \in offered["tracker"]
           /\ item.kind = "removal" /\ "tracker" \in calm =>
                 <<item.tenant, item.group.name>> \in lacked["tracker"]
    BY <1>0, <2>1, NextIsWork
  <2>3. item.kind \in {"update", "removal"}
    BY <2>2 DEF Item
  <2>4. PatchKnown(item) /\ (n \in fresh["tracker"] => PatchFits)
    BY <1>0, <1>5, <2>1, <2>2 DEF PatchInv, FreshInv, TrackerWrites
  <2>5. CASE patch.kind = "delete"
    <3>1. resources'[n] = Absent /\ Groups(n)' = {}
      BY <1>5, <2>5 DEF TrackerWrites, Groups, Present
    <3>2. ASSUME n \in fresh["tracker"], "tracker" \in calm, NEW name \in Names(Groups(n))
          PROVE  \E t \in resources[n].tenants : <<t, name>> \in lacked["tracker"]
      <4>1. Without(Groups(n), item.group.name) = {}
        BY <2>1, <2>2, <2>4, <2>5, <3>2 DEF PatchFits
      <4>2. name = item.group.name
        BY <3>2, <4>1 DEF Without, Names
      <4>3. item.kind = "removal" /\ item.tenant \in resources[n].tenants
        BY <2>1, <2>4, <2>5, <3>2 DEF PatchKnown
      <4> QED
        BY <2>2, <3>2, <4>2, <4>3
    <3> QED
      BY <3>1, <3>2
  <2>6. CASE patch.kind = "apply"
    <3>1. PICK object \in Rule : object = patch.object /\ object.ruler_updated
      BY <1>0, <2>6 DEF TypeInv, ReadOK, Patch, FreshInv
    <3>2. [object EXCEPT !.ruler_updated = TRUE] = object
      BY <3>1 DEF Rule
    <3>3. resources'[n] = object
      BY <1>5, <2>6, <3>1, <3>2 DEF TrackerWrites
    <3>4. Groups(n)' = Range(object.groups)
      BY <1>0, <3>1, <3>3 DEF Groups, Present
    <3>5. /\ item.tenant \in object.tenants
          /\ item.kind = "update" => item.group \in Range(object.groups)
      BY <2>4, <2>6, <3>1 DEF PatchKnown
    <3>6. CASE ~patch.versioned
      <4>1. Creates(n)
        BY <2>1, <2>6, <3>1, <3>3, <3>6 DEF Creates
      <4>2. item.kind = "update" /\ Range(object.groups) = {item.group}
        BY <2>4, <2>6, <3>1, <3>6 DEF PatchKnown
      <4> QED
        BY <2>2, <3>3, <3>4, <3>5, <4>1, <4>2
    <3>7. CASE patch.versioned
      <4>1. n \in fresh["tracker"]
        BY <1>5, <2>6, <3>7 DEF TrackerWrites
      <4>2. /\ item.tenant \in resources[n].tenants
            /\ \A g \in Range(object.groups) :
                  g \in Groups(n) \/ (item.kind = "update" /\ g = item.group)
        BY <2>1, <2>4, <2>6, <3>1, <3>7, <4>1 DEF PatchKnown
      <4>3. Without(Range(object.groups), item.group.name) =
               Without(Groups(n), item.group.name)
        BY <2>1, <2>2, <2>4, <2>6, <3>1, <3>7, <4>1 DEF PatchFits
      <4>4. \A g \in Groups(n)' \ Groups(n) :
               \E t \in resources'[n].tenants : <<t, g>> \in offered["tracker"]
        BY <2>2, <3>3, <3>4, <3>5, <4>2
      <4>5. ASSUME "tracker" \in calm, NEW name \in Names(Groups(n)) \ Names(Groups(n)')
            PROVE  \E t \in resources[n].tenants : <<t, name>> \in lacked["tracker"]
        <5>1. PICK g \in Groups(n) : g.name = name
          BY DEF Names
        <5>2. g \notin Range(object.groups)
          BY <3>4, <5>1 DEF Names
        <5>3. name = item.group.name
          BY <4>3, <5>1, <5>2 DEF Without
        <5>4. item.kind # "update"
          BY <3>4, <3>5, <5>3 DEF Names
        <5> QED
          BY <2>2, <2>3, <4>2, <4>5, <5>3, <5>4
      <4> QED
        BY <4>4, <4>5
    <3> QED
      BY <3>6, <3>7
  <2> QED
    BY <1>5, <2>5, <2>6 DEF TrackerWrites
<1> QED
  BY <1>0, <1>2, <1>3, <1>4, <1>5, ResourceChanges

\* Whatever a task writes into one store, the other store has held in that tick: an
\* old plan or an old listing brings back nothing older.
THEOREM TicksCopyWhatWasThere == TickSpec => CopiesWhatWasThere
<1>1. TickInit => TicksInv /\ calm \subseteq Tasks
  BY InitTicksInv
<1>2. TicksInv /\ calm \subseteq Tasks /\ [TickNext]_tickVars =>
         (TicksInv /\ calm \subseteq Tasks)'
  BY TicksInvStep
<1>3. TicksInv /\ [TickNext]_tickVars =>
        [edits' = edits =>
           /\ \A t \in Tenants : \A g \in ruler'[t] \ ruler[t] :
                 <<t, g>> \in offered["updater"]
           /\ \A n \in ResourceNames : \A g \in Groups(n)' \ Groups(n) :
                 \E t \in resources'[n].tenants : <<t, g>> \in offered["tracker"]]_tickVars
  BY RulerIsCopied, ResourcesAreCopied
<1> QED
  BY <1>1, <1>2, <1>3, PTL DEF TickSpec, CopiesWhatWasThere

\* Whatever a task takes from one store in a tick without a mishap, the other store
\* has lacked in that tick, but for the two requests that carry no version.
THEOREM TicksRemoveWhatWasGone == TickSpec => RemovesWhatWasGone
<1>1. TickInit => TicksInv /\ calm \subseteq Tasks
  BY InitTicksInv
<1>2. TicksInv /\ calm \subseteq Tasks /\ [TickNext]_tickVars =>
         (TicksInv /\ calm \subseteq Tasks)'
  BY TicksInvStep
<1>3. TicksInv /\ [TickNext]_tickVars =>
        [edits' = edits =>
           /\ "updater" \in calm =>
                 \A t \in Tenants : \A name \in Names(ruler[t]) \ Names(ruler'[t]) :
                     <<t, name>> \in lacked["updater"]
           /\ "tracker" \in calm =>
                 \A n \in ResourceNames :
                     /\ Present(n) /\ ~Creates(n)
                     /\ resources'[n] = Absent => n \in fresh["tracker"]
                     => \A name \in Names(Groups(n)) \ Names(Groups(n)') :
                           \E t \in resources[n].tenants :
                               <<t, name>> \in lacked["tracker"]]_tickVars
  BY RulerIsCopied, ResourcesAreCopied
<1> QED
  BY <1>1, <1>2, <1>3, PTL DEF TickSpec, RemovesWhatWasGone

-----------------------------------------------------------------------------

\* The history only watches: with it the informer takes no step that it would
\* not take without (main.rs, 113-236), so that what is proved of InformerSpec
\* holds of TickSpec too.
LEMMA HistoryOnlyWatches == TickSpec => InformerSpec
<1>1. TickInit => InformerInit
  BY DEF TickInit
<1>2. [TickNext]_tickVars => [InformerNext]_informerVars
  BY DEF TickNext, tickVars
<1> QED
  BY <1>1, <1>2, PTL DEF TickSpec, InformerSpec
==================================================================================
