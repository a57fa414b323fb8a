----------------------------- MODULE InformerProofs -----------------------------
(***************************************************************************)
(* The safety of the informer, for all stores, users and tasks: what a     *)
(* tick plans, what it writes, and to whom a rule group can get.           *)
(***************************************************************************)
EXTENDS Informer, ListLemmas, FiniteSetTheorems

-----------------------------------------------------------------------------
(* Lists that hold exactly a given set of entries.                         *)

\* An order of a finite set, as the iteration over a hash map may choose it, is
\* a list of it.
LEMMA OrderIsList ==
    ASSUME NEW S, IsFiniteSet(S), NEW order \in SetToSeqs(S)
    PROVE  order \in Seq(S) /\ Range(order) = S
<1> DEFINE n == Cardinality(S)
<1>1. n \in Nat
  BY FS_CardinalityType
<1>2. /\ order \in [1 .. n -> S]
      /\ \A i, j \in 1 .. n : i # j => order[i] # order[j]
  BY DEF SetToSeqs
<1>3. order \in Injection(1 .. n, S)
  BY <1>2 DEF Injection, IsInjective
<1>4. IsFiniteSet(1 .. n) /\ Cardinality(1 .. n) = n
  BY <1>1, FS_Interval
<1>5. order \in Surjection(1 .. n, S)
  BY <1>3, <1>4, FS_Injection
<1>6. Range(order) = S
  BY <1>2, <1>5 DEF Surjection, Range
<1> QED
  BY <1>1, <1>2, <1>6

\* SetToSeq(S) is one, too.
LEMMA SetToSeqIsList ==
    ASSUME NEW S, IsFiniteSet(S)
    PROVE  /\ SetToSeq(S) \in [1 .. Cardinality(S) -> S]
           /\ Range(SetToSeq(S)) = S
<1> DEFINE n == Cardinality(S)
<1>1. n \in Nat /\ ExistsBijection(1 .. n, S)
  BY FS_CardinalityType
<1>2. \E f \in [1 .. n -> S] : IsInjective(f)
  BY <1>1 DEF ExistsBijection, Bijection, Injection
<1>3. SetToSeq(S) \in [1 .. n -> S] /\ IsInjective(SetToSeq(S))
  BY <1>2 DEF SetToSeq
<1>4. SetToSeq(S) \in Injection(1 .. n, S)
  BY <1>3 DEF Injection
<1>5. IsFiniteSet(1 .. n) /\ Cardinality(1 .. n) = n
  BY <1>1, FS_Interval
<1>6. SetToSeq(S) \in Surjection(1 .. n, S)
  BY <1>4, <1>5, FS_Injection
<1>7. Range(SetToSeq(S)) = S
  BY <1>3, <1>6 DEF Surjection, Range
<1> QED
  BY <1>3, <1>7

\* Only(list, positions) has the entries at these positions and no other.
LEMMA OnlyRange ==
    ASSUME NEW S, NEW list \in Seq(S), NEW positions
    PROVE  /\ Only(list, positions) \in Seq(S)
           /\ \A e : e \in Range(Only(list, positions)) <=>
                       \E i \in DOMAIN list : i \in positions /\ e = list[i]
<1> DEFINE One(i) == IF i \in positions THEN <<list[i]>> ELSE << >>
           ones == [i \in DOMAIN list |-> One(i)]
<1>1. Len(list) \in Nat /\ DOMAIN list = 1 .. Len(list)
  BY LenProperties
<1>2. ASSUME NEW i \in DOMAIN list
      PROVE  /\ One(i) \in Seq(S)
             /\ \A e : e \in Range(One(i)) <=> i \in positions /\ e = list[i]
  <2>1. list[i] \in S
    BY <1>1, ElementOfSeq
  <2> QED
    BY <2>1 DEF Range
<1> HIDE DEF One
<1>3. ones \in Seq(Seq(S))
  BY <1>1, <1>2
<1>4. DOMAIN ones = DOMAIN list /\ \A i \in DOMAIN list : ones[i] = One(i)
  OBVIOUS
<1>5. Only(list, positions) = FlattenSeq(ones)
  BY DEF Only, One
<1> HIDE DEF ones
<1>6. /\ FlattenSeq(ones) \in Seq(S)
      /\ \A e : e \in Range(FlattenSeq(ones)) <=>
                  \E i \in DOMAIN ones : e \in Range(ones[i])
  BY <1>3, FlattenSeqRange
<1> QED
  BY <1>2, <1>4, <1>5, <1>6

-----------------------------------------------------------------------------
(* Maps from tenants to entries, their difference, and the items of a plan *)

EntryType == [group : Group, at : Nat]
IsMap(map) ==
    DOMAIN map \subseteq Tenants /\ \A t \in DOMAIN map : map[t] \in Seq(EntryType)

\* The groups the listed resources have for a tenant, each with its resource.
LEMMA MapOfRules ==
    ASSUME NEW rules \in Seq(ListedRule), NEW map,
           map = get_tenant_map_from_rules_list(rules)
    PROVE  /\ IsMap(map)
           /\ \A t \in Tenants : t \in DOMAIN map <=>
                 \E i \in DOMAIN rules : t \in rules[i].tenants
           /\ \A t \in DOMAIN map : \A e : e \in Range(map[t]) <=>
                 \E i \in DOMAIN rules : \E j \in DOMAIN rules[i].groups :
                    t \in rules[i].tenants /\ e = Entry(rules[i].groups[j], i)
<1>1. /\ Len(rules) \in Nat /\ DOMAIN rules = 1 .. Len(rules)
      /\ \A i \in DOMAIN rules :
            rules[i].tenants \subseteq Tenants /\ rules[i].groups \in Seq(Group)
  <2>1. /\ Len(rules) \in Nat /\ DOMAIN rules = 1 .. Len(rules)
        /\ \A i \in DOMAIN rules : rules[i] \in ListedRule
    BY LenProperties, ElementOfSeq
  <2> QED
    BY <2>1 DEF ListedRule, GroupLists
<1>2. /\ DOMAIN map = UNION { rules[i].tenants : i \in DOMAIN rules }
      /\ DOMAIN map \subseteq Tenants
  BY <1>1 DEF get_tenant_map_from_rules_list
<1>3. ASSUME NEW t \in DOMAIN map
      PROVE  /\ map[t] \in Seq(EntryType)
             /\ \A e : e \in Range(map[t]) <=>
                  \E i \in DOMAIN rules : \E j \in DOMAIN rules[i].groups :
                     t \in rules[i].tenants /\ e = Entry(rules[i].groups[j], i)
  <2> DEFINE Part(i) == IF t \in rules[i].tenants
                        THEN [j \in DOMAIN rules[i].groups |-> Entry(rules[i].groups[j], i)]
                        ELSE << >>
             parts == [i \in DOMAIN rules |-> Part(i)]
  <2>1. ASSUME NEW i \in DOMAIN rules
        PROVE  /\ Part(i) \in Seq(EntryType)
               /\ \A e : e \in Range(Part(i)) <=> \E j \in DOMAIN rules[i].groups :
                     t \in rules[i].tenants /\ e = Entry(rules[i].groups[j], i)
    <3>1. PICK groups : groups = rules[i].groups /\ groups \in Seq(Group)
      BY <1>1
    <3>2. /\ Len(groups) \in Nat /\ DOMAIN groups = 1 .. Len(groups)
          /\ \A j \in DOMAIN groups : groups[j] \in Group
      BY <3>1, LenProperties, ElementOfSeq
    <3>3. i \in Nat
      BY <1>1
    <3>4. \A j \in DOMAIN groups : Entry(groups[j], i) \in EntryType
      BY <3>2, <3>3 DEF Entry, EntryType
    <3>5. CASE t \in rules[i].tenants
      <4>1. Part(i) = [j \in DOMAIN groups |-> Entry(groups[j], i)]
        BY <3>1, <3>5
      <4>2. Part(i) \in Seq(EntryType)
        BY <3>2, <3>4, <4>1
      <4> QED
        BY <3>1, <3>5, <4>1, <4>2 DEF Range
    <3>6. CASE t \notin rules[i].tenants
      BY <3>6 DEF Range
    <3> QED
      BY <3>5, <3>6
  <2> HIDE DEF Part
  <2>2. parts \in Seq(Seq(EntryType))
    BY <1>1, <2>1
  <2>3. DOMAIN parts = DOMAIN rules /\ \A i \in DOMAIN rules : parts[i] = Part(i)
    OBVIOUS
  <2>4. map[t] = FlattenSeq(parts)
    BY <1>2 DEF get_tenant_map_from_rules_list, Part
  <2> HIDE DEF parts
  <2>5. /\ FlattenSeq(parts) \in Seq(EntryType)
        /\ \A e : e \in Range(FlattenSeq(parts)) <=>
                    \E i \in DOMAIN parts : e \in Range(parts[i])
    BY <2>2, FlattenSeqRange
  <2> QED
    BY <2>1, <2>3, <2>4, <2>5
<1>4. IsMap(map)
  BY <1>2, <1>3 DEF IsMap
<1>5. \A t : t \in DOMAIN map <=> \E i \in DOMAIN rules : t \in rules[i].tenants
  BY <1>2
<1> QED
  BY <1>3, <1>4, <1>5

\* The groups read from the Ruler, for each tenant that has any.
LEMMA MapOfRuler ==
    ASSUME NEW groups \in [Tenants -> SUBSET Group], NEW map, map = RulerMap(groups),
           \A t \in Tenants : IsFiniteSet(groups[t])
    PROVE  /\ IsMap(map)
           /\ \A t \in Tenants : t \in DOMAIN map <=> groups[t] # {}
           /\ \A t \in DOMAIN map : \A e : e \in Range(map[t]) <=>
                 \E group \in groups[t] : e = Entry(group, 0)
<1>1. /\ DOMAIN map = { t \in Tenants : groups[t] # {} }
      /\ \A t \in DOMAIN map :
            map[t] = [i \in 1 .. Cardinality(groups[t]) |-> Entry(SetToSeq(groups[t])[i], 0)]
  BY DEF RulerMap
<1>2. ASSUME NEW t \in DOMAIN map
      PROVE  /\ map[t] \in Seq(EntryType)
             /\ \A e : e \in Range(map[t]) <=> \E group \in groups[t] : e = Entry(group, 0)
  <2>1. PICK n, list : n = Cardinality(groups[t]) /\ list = SetToSeq(groups[t])
    OBVIOUS
  <2>2. n \in Nat /\ list \in [1 .. n -> groups[t]] /\ Range(list) = groups[t]
    BY <1>1, <2>1, SetToSeqIsList, FS_CardinalityType
  <2>3. map[t] = [i \in 1 .. n |-> Entry(list[i], 0)]
    BY <1>1, <2>1
  <2>4. \A i \in 1 .. n : Entry(list[i], 0) \in EntryType
    BY <1>1, <2>2 DEF Entry, EntryType
  <2>5. map[t] \in Seq(EntryType)
    BY <2>2, <2>3, <2>4
  <2>6. DOMAIN list = 1 .. n /\ DOMAIN map[t] = 1 .. n
    BY <2>2, <2>3
  <2> QED
    BY <2>2, <2>3, <2>5, <2>6 DEF Range
<1>3. IsMap(map)
  BY <1>1, <1>2 DEF IsMap
<1> QED
  BY <1>1, <1>2, <1>3

\* find_group_named() finds a group of that name if there is one, the first.
LEMMA FindsGroup ==
    ASSUME NEW list \in Seq(EntryType), NEW name
    PROVE  /\ find_group_named(list, name) \in Nat
           /\ find_group_named(list, name) = 0 <=>
                 \A i \in DOMAIN list : list[i].group.name # name
           /\ find_group_named(list, name) # 0 =>
                 /\ find_group_named(list, name) \in DOMAIN list
                 /\ list[find_group_named(list, name)].group.name = name
<1>1. DOMAIN list = 1 .. Len(list) /\ Len(list) \in Nat
  BY LenProperties
<1>2. Positions(list, name) \in SUBSET Nat
  BY <1>1 DEF Positions
<1>3. CASE Positions(list, name) = {}
  <2>1. find_group_named(list, name) = 0
    BY <1>3 DEF find_group_named
  <2> QED
    BY <1>3, <2>1 DEF Positions
<1>4. CASE Positions(list, name) # {}
  <2>1. find_group_named(list, name) = Min(Positions(list, name))
    BY <1>4 DEF find_group_named
  <2>2. find_group_named(list, name) \in Positions(list, name)
    BY <1>2, <1>4, <2>1, MinIsLeast
  <2> QED
    BY <1>1, <2>2 DEF Positions
<1> QED
  BY <1>3, <1>4

\* Which entries diff_rule_groups() puts into its two parts.
ToUpdate(target, origin, t, e) ==
    t \in DOMAIN target => Differs(target[t], e.group)
ToRemove(target, origin, t, e) ==
    t \in DOMAIN origin => find_group_named(origin[t], e.group.name) = 0

\* The difference has exactly these entries of each tenant.
LEMMA DiffEntries ==
    ASSUME NEW target, NEW origin, IsMap(target), IsMap(origin),
           NEW diff, diff = diff_rule_groups(target, origin)
    PROVE  /\ IsMap(diff.updates) /\ DOMAIN diff.updates = DOMAIN origin
           /\ IsMap(diff.removals) /\ DOMAIN diff.removals = DOMAIN target
           /\ \A t \in DOMAIN origin : \A e : e \in Range(diff.updates[t]) <=>
                 e \in Range(origin[t]) /\ ToUpdate(target, origin, t, e)
           /\ \A t \in DOMAIN target : \A e : e \in Range(diff.removals[t]) <=>
                 e \in Range(target[t]) /\ ToRemove(target, origin, t, e)
<1>1. /\ DOMAIN diff.updates = DOMAIN origin
      /\ DOMAIN diff.removals = DOMAIN target
  BY DEF diff_rule_groups
<1>2. ASSUME NEW t \in DOMAIN origin
      PROVE  /\ diff.updates[t] \in Seq(EntryType)
             /\ \A e : e \in Range(diff.updates[t]) <=>
                   e \in Range(origin[t]) /\ ToUpdate(target, origin, t, e)
  <2>1. PICK list : list = origin[t] /\ list \in Seq(EntryType)
    BY DEF IsMap
  <2>2. PICK positions : positions =
           { i \in DOMAIN list : t \in DOMAIN target => Differs(target[t], list[i].group) }
    OBVIOUS
  <2>3. diff.updates[t] = Only(list, positions)
    BY <2>1, <2>2 DEF diff_rule_groups
  <2>4. /\ Only(list, positions) \in Seq(EntryType)
        /\ \A e : e \in Range(Only(list, positions)) <=>
                    \E i \in DOMAIN list : i \in positions /\ e = list[i]
    BY <2>1, OnlyRange
  <2>5. \A i \in DOMAIN list : i \in positions <=> ToUpdate(target, origin, t, list[i])
    BY <2>2 DEF ToUpdate
  <2>6. \A e : e \in Range(list) <=> \E i \in DOMAIN list : e = list[i]
    BY DEF Range
  <2> QED
    BY <2>1, <2>3, <2>4, <2>5, <2>6
<1>3. ASSUME NEW t \in DOMAIN target
      PROVE  /\ diff.removals[t] \in Seq(EntryType)
             /\ \A e : e \in Range(diff.removals[t]) <=>
                   e \in Range(target[t]) /\ ToRemove(target, origin, t, e)
  <2>1. PICK list : list = target[t] /\ list \in Seq(EntryType)
    BY DEF IsMap
  <2>2. PICK positions : positions =
           { i \in DOMAIN list :
               t \in DOMAIN origin => find_group_named(origin[t], list[i].group.name) = 0 }
    OBVIOUS
  <2>3. diff.removals[t] = Only(list, positions)
    BY <2>1, <2>2 DEF diff_rule_groups
  <2>4. /\ Only(list, positions) \in Seq(EntryType)
        /\ \A e : e \in Range(Only(list, positions)) <=>
                    \E i \in DOMAIN list : i \in positions /\ e = list[i]
    BY <2>1, OnlyRange
  <2>5. \A i \in DOMAIN list : i \in positions <=> ToRemove(target, origin, t, list[i])
    BY <2>2 DEF ToRemove
  <2>6. \A e : e \in Range(list) <=> \E i \in DOMAIN list : e = list[i]
    BY DEF Range
  <2> QED
    BY <2>1, <2>3, <2>4, <2>5, <2>6
<1>4. IsMap(diff.updates) /\ IsMap(diff.removals)
  BY <1>1, <1>2, <1>3 DEF IsMap
<1> QED
  BY <1>1, <1>2, <1>3, <1>4

ItemOf(kind, t, e) == [kind |-> kind, tenant |-> t, group |-> e.group, at |-> e.at]

\* The loops over a part of the difference make one item of each entry.
LEMMA ItemsOfEntries ==
    ASSUME IsFiniteSet(Tenants), NEW entries, IsMap(entries),
           NEW order \in SetToSeqs(DOMAIN entries), NEW kind \in {"update", "removal"}
    PROVE  /\ Items(kind, entries, order) \in Seq(Item)
           /\ \A item : item \in Range(Items(kind, entries, order)) <=>
                 \E t \in DOMAIN entries : \E e \in Range(entries[t]) :
                    item = ItemOf(kind, t, e)
<1>1. PICK D : D = DOMAIN entries /\ D \subseteq Tenants
  BY DEF IsMap
<1>2. order \in Seq(D) /\ Range(order) = D
  <2>1. IsFiniteSet(D)
    BY <1>1, FS_Subset
  <2> QED
    BY <1>1, <2>1, OrderIsList
<1>3. DOMAIN order = 1 .. Len(order) /\ Len(order) \in Nat
  BY <1>2, LenProperties
<1> DEFINE Part(t) == [j \in DOMAIN entries[t] |->
                         [kind |-> kind, tenant |-> t, group |-> entries[t][j].group,
                          at |-> entries[t][j].at]]
           parts == [i \in DOMAIN order |-> Part(order[i])]
<1>4. ASSUME NEW t \in D
      PROVE  /\ Part(t) \in Seq(Item)
             /\ \A item : item \in Range(Part(t)) <=>
                   \E e \in Range(entries[t]) : item = ItemOf(kind, t, e)
  <2>1. PICK list : list = entries[t] /\ list \in Seq(EntryType)
    BY <1>1 DEF IsMap
  <2>2. /\ Len(list) \in Nat /\ DOMAIN list = 1 .. Len(list)
        /\ \A j \in DOMAIN list : list[j] \in EntryType
    BY <2>1, LenProperties, ElementOfSeq
  <2>3. Part(t) = [j \in DOMAIN list |-> ItemOf(kind, t, list[j])]
    BY <2>1 DEF ItemOf
  <2> HIDE DEF Part
  <2>4. \A j \in DOMAIN list : ItemOf(kind, t, list[j]) \in Item
    BY <1>1, <2>2 DEF ItemOf, Item, EntryType
  <2>5. Part(t) \in Seq(Item)
    BY <2>2, <2>3, <2>4
  <2> QED
    BY <2>1, <2>3, <2>5 DEF Range
<1> HIDE DEF Part
<1>5. \A i \in DOMAIN order : order[i] \in D /\ parts[i] = Part(order[i])
  BY <1>2, <1>3, ElementOfSeq
<1>6. parts \in Seq(Seq(Item)) /\ DOMAIN parts = DOMAIN order
  BY <1>3, <1>4, <1>5
<1>7. Items(kind, entries, order) = FlattenSeq(parts)
  BY DEF Items, Part
<1> HIDE DEF parts
<1>8. /\ FlattenSeq(parts) \in Seq(Item)
      /\ \A item : item \in Range(FlattenSeq(parts)) <=>
                     \E i \in DOMAIN parts : item \in Range(parts[i])
  BY <1>6, FlattenSeqRange
<1>9. \A t : t \in D <=> \E i \in DOMAIN order : t = order[i]
  BY <1>2 DEF Range
<1> QED
  BY <1>1, <1>4, <1>5, <1>6, <1>7, <1>8, <1>9

\* What a tick plans, given the two maps it compares.
Planned(target, origin, removing, item) ==
    \/ \E t \in DOMAIN origin : \E e \in Range(origin[t]) :
          ToUpdate(target, origin, t, e) /\ item = ItemOf("update", t, e)
    \/ /\ removing
       /\ \E t \in DOMAIN target : \E e \in Range(target[t]) :
             ToRemove(target, origin, t, e) /\ item = ItemOf("removal", t, e)

\* The plan of a tick consists of these items, in some order.
LEMMA PlannedItems ==
    ASSUME IsFiniteSet(Tenants), NEW task \in Tasks, work \in [Tasks -> Seq(Item)],
           NEW target, NEW origin, IsMap(target), IsMap(origin), NEW removing \in BOOLEAN,
           Plan(task, target, origin, removing)
    PROVE  /\ work' \in [Tasks -> Seq(Item)]
           /\ \A other \in Tasks : other # task => work'[other] = work[other]
           /\ \A item : item \in Range(work'[task]) <=>
                          Planned(target, origin, removing, item)
<1>1. PICK diff : diff = diff_rule_groups(target, origin)
  OBVIOUS
<1>2. PICK first \in SetToSeqs(DOMAIN diff.updates),
           second \in SetToSeqs(DOMAIN diff.removals) :
         work' = [work EXCEPT ![task] =
                    Items("update", diff.updates, first)
                      \o IF removing THEN Items("removal", diff.removals, second) ELSE << >>]
  BY <1>1 DEF Plan
<1>3. PICK ups, downs : /\ ups = Items("update", diff.updates, first)
                        /\ downs = IF removing THEN Items("removal", diff.removals, second)
                                   ELSE << >>
  OBVIOUS
<1>4. /\ IsMap(diff.updates) /\ DOMAIN diff.updates = DOMAIN origin
      /\ IsMap(diff.removals) /\ DOMAIN diff.removals = DOMAIN target
      /\ \A t \in DOMAIN origin : \A e : e \in Range(diff.updates[t]) <=>
            e \in Range(origin[t]) /\ ToUpdate(target, origin, t, e)
      /\ \A t \in DOMAIN target : \A e : e \in Range(diff.removals[t]) <=>
            e \in Range(target[t]) /\ ToRemove(target, origin, t, e)
  BY <1>1, DiffEntries
<1>5. /\ ups \in Seq(Item)
      /\ \A item : item \in Range(ups) <=>
            \E t \in DOMAIN origin : \E e \in Range(diff.updates[t]) :
               item = ItemOf("update", t, e)
  BY <1>3, <1>4, ItemsOfEntries
<1>6. /\ downs \in Seq(Item)
      /\ \A item : item \in Range(downs) <=> removing /\
            \E t \in DOMAIN target : \E e \in Range(diff.removals[t]) :
               item = ItemOf("removal", t, e)
  <2>1. CASE removing
    BY <1>3, <1>4, <2>1, ItemsOfEntries
  <2>2. CASE ~removing
    <3>1. downs = << >> /\ Range(downs) = {}
      BY <1>3, <2>2 DEF Range
    <3> QED
      BY <2>2, <3>1
  <2> QED
    BY <2>1, <2>2
<1>7. ups \o downs \in Seq(Item) /\ Range(ups \o downs) = Range(ups) \cup Range(downs)
  BY <1>5, <1>6, ConcatProperties, RangeConcatenation
<1>8. work' = [work EXCEPT ![task] = ups \o downs]
  BY <1>2, <1>3
<1>9. work'[task] = ups \o downs
  BY <1>8
<1> QED
  BY <1>4, <1>5, <1>6, <1>7, <1>8, <1>9 DEF Planned

-----------------------------------------------------------------------------
(* What holds between the steps of the informer.                           *)

\* A tick that has nothing planned has no work; the updater marks a resource
\* only for an update.  What the Ruler has of a tenant is finite.
TaskInv ==
    /\ \A task \in Tasks :
          /\ at[task] = "patch" => work[task] # << >>
          /\ at[task] \notin {"work", "patch"} => work[task] = << >>
    /\ at["updater"] = "patch" => NextItem("updater").kind = "update"
    /\ \A t \in Tenants : IsFiniteSet(ruler[t])
    /\ \A task \in Tasks, t \in Tenants : IsFiniteSet(found[task][t])

\* Without the option no removal is planned for the Ruler.
RemovalInv ==
    ~enable_updater_remove_rules =>
        \A item \in Range(work["updater"]) : item.kind = "update"

\* Whatever a task carries from one store to the other, and whatever the stores
\* have, is allowed; the tenants of a resource go together in every set of
\* tenants that is apart in the name of one of its groups.
Together(rule) ==
    \A group \in Range(rule.groups) : \A ts \in SUBSET Tenants :
       Apart(ts, group.name) => rule.tenants \subseteq ts \/ rule.tenants \cap ts = {}
AllAllowed(rule) ==
    \A t \in rule.tenants : \A group \in Range(rule.groups) : Allowed(t, group)
GoodRule(rule) == Together(rule) /\ AllAllowed(rule)
SharingInv ==
    /\ \A n \in ResourceNames : Present(n) => GoodRule(resources[n])
    /\ \A task \in Tasks : \A i \in DOMAIN listed[task] : GoodRule(listed[task][i])
    /\ patch.kind = "apply" => GoodRule(patch.object)
    /\ \A t \in Tenants : \A group \in ruler[t] : Allowed(t, group)
    /\ \A task \in Tasks, t \in Tenants : \A group \in found[task][t] : Allowed(t, group)
    /\ \A task \in Tasks : \A item \in Range(work[task]) :
          item.kind = "update" => Allowed(item.tenant, item.group)

\* What a task has read of a resource is still so while nobody has changed it;
\* what the tracker applies is marked as updated.
PatchFits ==
    LET name == NextItem("tracker").group.name
    IN  /\ patch.kind = "delete" =>
              /\ Without(Groups(patch.name), name) = {}
              /\ Groups(patch.name) # {} /\ Len(resources[patch.name].groups) = 1
        /\ patch.kind = "apply" /\ patch.versioned =>
              /\ Without(Range(patch.object.groups), name) = Without(Groups(patch.name), name)
              /\ Groups(patch.name) # {} /\ Range(patch.object.groups) # {}
              /\ patch.object.tenants = resources[patch.name].tenants
FreshInv ==
    /\ \A i \in DOMAIN listed["updater"] :
          listed["updater"][i].name \in fresh["updater"] =>
             /\ Present(listed["updater"][i].name)
             /\ AsListed(listed["updater"][i].name) = listed["updater"][i]
    /\ at["tracker"] = "patch" /\ patch.kind # "none" /\ patch.name \in fresh["tracker"]
          => PatchFits
    /\ patch.kind = "apply" => patch.object.ruler_updated

InformerInv == TaskInv /\ RemovalInv /\ SharingInv /\ FreshInv

-----------------------------------------------------------------------------
(* Listings, patches and the two stores.                                   *)

\* A listing, whole or cut short, consists of resources as they are.
LEMMA ListingIsThere ==
    ASSUME StoresTypeOK, NEW rules \in Listings
    PROVE  /\ rules \in Seq(ListedRule)
           /\ \A i \in DOMAIN rules : \E n \in ResourceNames :
                 Present(n) /\ rules[i] = AsListed(n)
<1> DEFINE One(i) == IF Present(ResourceOrder[i])
                     THEN <<AsListed(ResourceOrder[i])>> ELSE << >>
           ones == [i \in DOMAIN ResourceOrder |-> One(i)]
<1>1. /\ Len(ResourceOrder) \in Nat /\ DOMAIN ResourceOrder = 1 .. Len(ResourceOrder)
      /\ \A i \in DOMAIN ResourceOrder : ResourceOrder[i] \in ResourceNames
  BY RuleStoresAssumption, LenProperties, ElementOfSeq
<1>2. ASSUME NEW i \in DOMAIN ResourceOrder
      PROVE  /\ One(i) \in Seq(ListedRule)
             /\ \A e \in Range(One(i)) : \E n \in ResourceNames :
                   Present(n) /\ e = AsListed(n)
  <2>1. PICK n \in ResourceNames : n = ResourceOrder[i]
    BY <1>1
  <2>2. CASE Present(n)
    <3>1. AsListed(n) \in ListedRule
      BY <2>2 DEF StoresTypeOK, Present, AsListed, ListedRule, Rule
    <3>2. One(i) = <<AsListed(n)>>
      BY <2>1, <2>2
    <3> QED
      BY <2>2, <3>1, <3>2 DEF Range
  <2>3. CASE ~Present(n)
    BY <2>1, <2>3 DEF Range
  <2> QED
    BY <2>2, <2>3
<1> HIDE DEF One
<1>3. ones \in Seq(Seq(ListedRule)) /\ DOMAIN ones = DOMAIN ResourceOrder
  BY <1>1, <1>2
<1>4. \A i \in DOMAIN ones : ones[i] = One(i)
  OBVIOUS
<1>5. Listing = FlattenSeq(ones)
  BY DEF Listing, One
<1> HIDE DEF ones
<1>6. /\ FlattenSeq(ones) \in Seq(ListedRule)
      /\ \A e : e \in Range(FlattenSeq(ones)) <=>
                  \E i \in DOMAIN ones : e \in Range(ones[i])
  BY <1>3, FlattenSeqRange
<1>7. PICK all : /\ all = Listing /\ all \in Seq(ListedRule)
                 /\ \A e \in Range(all) : \E n \in ResourceNames :
                       Present(n) /\ e = AsListed(n)
  BY <1>2, <1>3, <1>4, <1>5, <1>6
<1>8. PICK m \in 0 .. Len(all) : rules = SubSeq(all, 1, m)
  BY <1>7 DEF Prefixes, Listings
<1>9. /\ Len(all) \in Nat /\ DOMAIN all = 1 .. Len(all)
      /\ \A i \in DOMAIN all : all[i] \in ListedRule /\ all[i] \in Range(all)
  BY <1>7, LenProperties, ElementOfSeq DEF Range
<1>10. /\ m \in Int /\ 1 \in Int
       /\ \A i \in 1 .. m : i \in DOMAIN all /\ all[i] \in ListedRule
  BY <1>9
<1>11. /\ rules \in Seq(ListedRule)
       /\ Len(rules) = IF 1 <= m THEN m - 1 + 1 ELSE 0
       /\ \A i \in 1 .. m - 1 + 1 : rules[i] = all[1 + i - 1]
  BY <1>8, <1>10, SubSeqProperties
<1>12. \A i \in DOMAIN rules : rules[i] \in Range(all)
  <2>1. DOMAIN rules = 1 .. m
    BY <1>10, <1>11, LenProperties
  <2> QED
    BY <1>9, <1>10, <1>11, <2>1
<1> QED
  BY <1>7, <1>11, <1>12

\* PositionIn() finds a group of that name in a list of groups, if there is one.
LEMMA FindsPosition ==
    ASSUME NEW groups \in Seq(Group), NEW name, NEW i, i = PositionIn(groups, name)
    PROVE  /\ i = 0 <=> \A j \in DOMAIN groups : groups[j].name # name
           /\ i # 0 => i \in DOMAIN groups /\ groups[i].name = name
<1> DEFINE list == [j \in DOMAIN groups |-> Entry(groups[j], 0)]
<1>1. /\ Len(groups) \in Nat /\ DOMAIN groups = 1 .. Len(groups)
      /\ \A j \in DOMAIN groups : groups[j] \in Group
  BY LenProperties, ElementOfSeq
<1>2. \A j \in DOMAIN groups : Entry(groups[j], 0) \in EntryType
  BY <1>1 DEF Entry, EntryType
<1>3. list \in Seq(EntryType) /\ DOMAIN list = DOMAIN groups
  BY <1>1, <1>2
<1>4. \A j \in DOMAIN list : list[j].group = groups[j]
  BY DEF Entry
<1>5. i = find_group_named(list, name)
  BY DEF PositionIn
<1> HIDE DEF list
<1> QED
  BY <1>3, <1>4, <1>5, FindsGroup

\* Replacing a group by one of its name leaves the groups of other names.
LEMMA ReplacesGroup ==
    ASSUME NEW groups \in GroupLists, NEW i \in DOMAIN groups, NEW group \in Group,
           groups[i].name = group.name, NEW new, new = ReplaceAt(groups, i, group)
    PROVE  /\ new \in GroupLists
           /\ group \in Range(new)
           /\ \A g \in Range(new) : g \in Range(groups) \/ g = group
           /\ Without(Range(new), group.name) = Without(Range(groups), group.name)
<1>1. /\ groups \in Seq(Group)
      /\ Len(groups) \in Nat /\ DOMAIN groups = 1 .. Len(groups)
  BY LenProperties DEF GroupLists
<1>2. /\ new \in Seq(Group) /\ Len(new) = Len(groups)
      /\ \A j \in 1 .. Len(groups) : new[j] = IF j = i THEN group ELSE groups[j]
  BY <1>1, ExceptSeq DEF ReplaceAt
<1>3. DOMAIN new = DOMAIN groups
  BY <1>1, <1>2, LenProperties
<1> QED
  BY <1>1, <1>2, <1>3 DEF GroupLists, Range, Without

\* Taking out a group takes out nothing else, and leaves another.
LEMMA RemovesGroup ==
    ASSUME NEW groups \in GroupLists, NEW i \in DOMAIN groups, Len(groups) # 1,
           NEW new, new = RemoveAt(groups, i)
    PROVE  /\ new \in GroupLists
           /\ Range(new) # {} /\ Range(new) \subseteq Range(groups)
           /\ Without(Range(new), groups[i].name) = Without(Range(groups), groups[i].name)
<1>1. /\ groups \in Seq(Group)
      /\ Len(groups) \in Nat /\ DOMAIN groups = 1 .. Len(groups)
      /\ i \in 1 .. Len(groups)
  BY LenProperties DEF GroupLists
<1>2. /\ new \in Seq(Group) /\ Len(new) = Len(groups) - 1
      /\ DOMAIN new = 1 .. Len(groups) - 1
      /\ \A j \in 1 .. Len(groups) - 1 :
            new[j] = IF j < i THEN groups[j] ELSE groups[j + 1]
  BY <1>1, RemoveAtEntries
<1>3. Range(new) # {}
  <2>1. 1 \in DOMAIN new
    BY <1>1, <1>2
  <2> QED
    BY <2>1 DEF Range
<1>4. \A j \in 1 .. Len(groups) - 1 : new[j] \in Range(groups)
  BY <1>1, <1>2 DEF Range
<1>5. \A j \in DOMAIN groups : j # i => groups[j] \in Range(new)
  <2> SUFFICES ASSUME NEW j \in DOMAIN groups, j # i PROVE groups[j] \in Range(new)
    OBVIOUS
  <2>1. CASE j < i
    <3>1. j \in DOMAIN new /\ new[j] = groups[j]
      BY <1>1, <1>2, <2>1
    <3> QED
      BY <3>1 DEF Range
  <2>2. CASE ~(j < i)
    <3>1. j - 1 \in DOMAIN new /\ ~(j - 1 < i) /\ (j - 1) + 1 = j
      BY <1>1, <1>2, <2>2
    <3>2. new[j - 1] = groups[j]
      BY <1>2, <3>1
    <3> QED
      BY <3>1, <3>2 DEF Range
  <2> QED
    BY <2>1, <2>2
<1>6. Range(new) \subseteq Range(groups)
  BY <1>2, <1>4 DEF Range
<1>7. \A g \in Range(groups) : g.name # groups[i].name => g \in Range(new)
  BY <1>5 DEF Range
<1> QED
  BY <1>2, <1>3, <1>6, <1>7 DEF GroupLists, Without

\* The resource a patch is about: the first one in the listing that names the
\* tenant and has a group of that name.
IsHolder(rule, item) ==
    /\ item.tenant \in rule.tenants
    /\ \E g \in Range(rule.groups) : g.name = item.group.name

\* A deletion is of a resource with this one group; an object with a version
\* differs from the listed resource in this group alone, it keeps some group,
\* and what is new in it is the planned group, which an update is sure to bring;
\* an object without a version is the planned group by itself.
PatchOf(rules, item, p) ==
    /\ p.kind = "delete" => item.kind = "removal" /\ \E i \in DOMAIN rules :
          /\ IsHolder(rules[i], item) /\ p.name = rules[i].name
          /\ Len(rules[i].groups) = 1
          /\ Without(Range(rules[i].groups), item.group.name) = {}
    /\ p.kind = "apply" /\ item.kind = "update" => item.group \in Range(p.object.groups)
    /\ p.kind = "apply" /\ p.versioned => \E i \in DOMAIN rules :
          /\ IsHolder(rules[i], item) /\ p.name = rules[i].name
          /\ p.object.tenants = rules[i].tenants
          /\ Range(p.object.groups) # {}
          /\ \A g \in Range(p.object.groups) :
                g \in Range(rules[i].groups) \/ (item.kind = "update" /\ g = item.group)
          /\ Without(Range(p.object.groups), item.group.name) =
                Without(Range(rules[i].groups), item.group.name)
    /\ p.kind = "apply" => p.object.ruler_updated
    /\ p.kind = "apply" /\ ~p.versioned =>
          /\ item.kind = "update"
          /\ p.object.tenants = {item.tenant} /\ Range(p.object.groups) = {item.group}

\* Either request to Kubernetes is such a patch.
LEMMA PatchesOneGroup ==
    ASSUME NEW rules \in Seq(ListedRule), NEW item \in Item,
           NEW p, p = PatchFor(rules, item)
    PROVE  p \in Patch /\ PatchOf(rules, item, p)
<1>1. /\ Len(rules) \in Nat /\ DOMAIN rules = 1 .. Len(rules)
      /\ \A i \in DOMAIN rules : rules[i] \in ListedRule
  BY LenProperties, ElementOfSeq
<1>2. PICK t, group, holders :
         /\ t = item.tenant /\ t \in Tenants /\ group = item.group /\ group \in Group
         /\ holders = Holders(rules, t, group.name)
  BY DEF Item
<1>3. holders \in SUBSET Nat
  BY <1>1, <1>2 DEF Holders
<1>4. CASE holders = {}
  <2>1. CASE item.kind = "update"
    <3>1. p = [kind |-> "apply", name |-> Sourced(t, group.name), versioned |-> FALSE,
               object |-> [tenants |-> {t}, groups |-> <<group>>, ruler_updated |-> TRUE]]
      BY <1>2, <1>4, <2>1 DEF PatchFor, create_or_update_k8s_resource
    <3>2. Sourced(t, group.name) \in ResourceNames
      BY <1>2, TrackerAssumption DEF Group
    <3>3. <<group>> \in GroupLists /\ Range(<<group>>) = {group}
      BY <1>2 DEF GroupLists, Range
    <3>4. p \in Patch
      BY <1>2, <3>1, <3>2, <3>3 DEF Patch, Rule
    <3> QED
      BY <1>2, <2>1, <3>1, <3>3, <3>4 DEF PatchOf
  <2>2. CASE item.kind # "update"
    <3>1. p = NoPatch
      BY <1>2, <1>4, <2>2 DEF PatchFor, remove_k8s_resource
    <3> QED
      BY <3>1 DEF NoPatch, Patch, PatchOf
  <2> QED
    BY <2>1, <2>2
<1>5. CASE holders # {}
  <2>1. PICK i \in DOMAIN rules : i = Min(holders) /\ i \in holders
    BY <1>2, <1>3, <1>5, MinIsLeast DEF Holders
  <2>2. PICK rule \in ListedRule : rule = rules[i]
    BY <1>1
  <2>3. PICK j : j = PositionIn(rule.groups, group.name)
    OBVIOUS
  <2>4. t \in rule.tenants /\ j # 0
    BY <1>2, <2>1, <2>2, <2>3 DEF Holders
  <2>5. rule.groups \in GroupLists /\ rule.groups \in Seq(Group)
    BY DEF ListedRule, GroupLists
  <2>6. j \in DOMAIN rule.groups /\ rule.groups[j].name = group.name
    BY <2>3, <2>4, <2>5, FindsPosition
  <2>7. IsHolder(rule, item)
    BY <1>2, <2>4, <2>6 DEF IsHolder, Range
  <2>8. CASE item.kind = "update"
    <3>1. PICK new : new = ReplaceAt(rule.groups, j, group)
      OBVIOUS
    <3>2. p = Applied(rule, new)
      BY <1>2, <1>5, <2>1, <2>2, <2>3, <2>8, <3>1 DEF PatchFor, create_or_update_k8s_resource
    <3>3. /\ new \in GroupLists /\ group \in Range(new)
          /\ \A g \in Range(new) : g \in Range(rule.groups) \/ g = group
          /\ Without(Range(new), group.name) = Without(Range(rule.groups), group.name)
      BY <1>2, <2>5, <2>6, <3>1, ReplacesGroup
    <3>4. p \in Patch
      BY <3>2, <3>3 DEF Applied, Patch, Rule, ListedRule
    <3>5. /\ p.kind = "apply" /\ p.versioned /\ p.name = rules[i].name
          /\ p.object.tenants = rules[i].tenants /\ p.object.groups = new
          /\ p.object.ruler_updated
      BY <2>2, <3>2 DEF Applied
    <3>6. IsHolder(rules[i], item)
      BY <2>2, <2>7
    <3>7. \A g \in Range(p.object.groups) :
             g \in Range(rules[i].groups) \/ (item.kind = "update" /\ g = item.group)
      BY <1>2, <2>2, <2>7, <2>8, <3>3, <3>5
    <3>8. Without(Range(p.object.groups), item.group.name) =
             Without(Range(rules[i].groups), item.group.name)
      BY <1>2, <2>2, <3>3, <3>5
    <3>9. item.group \in Range(p.object.groups)
      BY <1>2, <3>3, <3>5
    <3> QED
      BY <2>8, <3>4, <3>5, <3>6, <3>7, <3>8, <3>9 DEF PatchOf
  <2>9. CASE item.kind # "update" /\ Len(rule.groups) = 1
    <3>1. p = [kind |-> "delete", name |-> rule.name]
      BY <1>2, <1>5, <2>1, <2>2, <2>3, <2>9 DEF PatchFor, remove_k8s_resource
    <3>2. DOMAIN rule.groups = {j}
      BY <2>5, <2>6, <2>9, LenProperties
    <3>3. Without(Range(rule.groups), group.name) = {}
      BY <2>6, <3>2 DEF Range, Without
    <3>4. p \in Patch /\ item.kind = "removal"
      BY <2>9, <3>1 DEF Patch, ListedRule, Item
    <3> QED
      BY <1>2, <2>2, <2>7, <2>9, <3>1, <3>3, <3>4 DEF PatchOf
  <2>10. CASE item.kind # "update" /\ Len(rule.groups) # 1
    <3>1. PICK new : new = RemoveAt(rule.groups, j)
      OBVIOUS
    <3>2. p = Applied(rule, new)
      BY <1>2, <1>5, <2>1, <2>2, <2>3, <2>10, <3>1 DEF PatchFor, remove_k8s_resource
    <3>3. /\ new \in GroupLists
          /\ Range(new) # {} /\ Range(new) \subseteq Range(rule.groups)
          /\ Without(Range(new), group.name) = Without(Range(rule.groups), group.name)
      BY <2>5, <2>6, <2>10, <3>1, RemovesGroup
    <3>4. p \in Patch
      BY <3>2, <3>3 DEF Applied, Patch, Rule, ListedRule
    <3>5. /\ p.kind = "apply" /\ p.versioned /\ p.name = rules[i].name
          /\ p.object.tenants = rules[i].tenants /\ p.object.groups = new
          /\ p.object.ruler_updated
      BY <2>2, <3>2 DEF Applied
    <3>6. IsHolder(rules[i], item)
      BY <2>2, <2>7
    <3>7. \A g \in Range(p.object.groups) :
             g \in Range(rules[i].groups) \/ (item.kind = "update" /\ g = item.group)
      BY <1>2, <2>2, <3>3, <3>5
    <3>8. Without(Range(p.object.groups), item.group.name) =
             Without(Range(rules[i].groups), item.group.name)
      BY <1>2, <2>2, <3>3, <3>5
    <3>9. Range(p.object.groups) # {}
      BY <3>3, <3>5
    <3> QED
      BY <2>10, <3>4, <3>5, <3>6, <3>7, <3>8, <3>9 DEF PatchOf
  <2> QED
    BY <2>8, <2>9, <2>10
<1> QED
  BY <1>4, <1>5

-----------------------------------------------------------------------------
(* Types, and the places of a tick.                                        *)

\* InformerTypeOK and TaskInv, by what the steps change together.
ResourcesOK ==
    /\ resources \in [ResourceNames -> Rule \cup {Absent}]
    /\ fresh \in [Tasks -> SUBSET ResourceNames]
RulerOK ==
    /\ ruler \in [Tenants -> SUBSET Group]
    /\ \A t \in Tenants : OnePerName(ruler[t]) /\ IsFiniteSet(ruler[t])
CountsOK == edits \in 0 .. MaxEdits /\ mishaps \in 0 .. MaxMishaps
ReadOK ==
    /\ todo \in [Tasks -> SUBSET Tenants]
    /\ found \in [Tasks -> [Tenants -> SUBSET Group]]
    /\ \A task \in Tasks, t \in Tenants : IsFiniteSet(found[task][t])
    /\ listed \in [Tasks -> Seq(ListedRule)]
    /\ patch \in Patch
WorkOK ==
    /\ at \in [Tasks -> {"tick", "discover", "list", "plan", "work", "patch"}]
    /\ work \in [Tasks -> Seq(Item)]
    /\ \A task \in Tasks :
          /\ at[task] = "patch" => work[task] # << >>
          /\ at[task] \notin {"work", "patch"} => work[task] = << >>
    /\ at["updater"] = "patch" => NextItem("updater").kind = "update"
    /\ \A item \in Range(work["updater"]) : item.kind = "update" => FromListed(item)
ProcessOK ==
    /\ enabled \in TaskSets /\ enable_updater_remove_rules \in BOOLEAN
    /\ process \in {"down", "up"}
    /\ process = "down" => NothingBegun

TypeInv ==
    /\ ResourcesOK /\ RulerOK /\ CountsOK
    /\ ReadOK /\ WorkOK /\ ProcessOK

\* These are indeed the same.
LEMMA TypeInvIsAll == TypeInv <=> InformerTypeOK /\ TaskInv
BY DEF TypeInv, ResourcesOK, RulerOK, CountsOK, ReadOK, WorkOK, ProcessOK,
       InformerTypeOK, StoresTypeOK, TaskTypeOK, TaskInv

\* A group put into the Ruler replaces the one of its name.
LEMMA PutGroupOK ==
    ASSUME RulerOK, NEW t \in Tenants, NEW group \in Group, PutGroup(t, group)
    PROVE  /\ RulerOK'
           /\ ruler' = [ruler EXCEPT ![t] = Without(ruler[t], group.name) \cup {group}]
<1>1. ruler' = [ruler EXCEPT ![t] = Without(ruler[t], group.name) \cup {group}]
  BY DEF PutGroup
<1>2. /\ Without(ruler[t], group.name) \cup {group} \in SUBSET Group
      /\ OnePerName(Without(ruler[t], group.name) \cup {group})
  BY DEF Without, OnePerName, RulerOK
<1>3. IsFiniteSet(Without(ruler[t], group.name) \cup {group})
  <2>1. Without(ruler[t], group.name) \in SUBSET ruler[t]
    BY DEF Without
  <2>2. IsFiniteSet(Without(ruler[t], group.name))
    BY <2>1, FS_Subset DEF RulerOK
  <2> QED
    BY <2>2, FS_AddElement
<1> QED
  BY <1>1, <1>2, <1>3 DEF RulerOK

\* A group dropped from the Ruler leaves the others.
LEMMA DropGroupOK ==
    ASSUME RulerOK, NEW t \in Tenants, NEW name, DropGroup(t, name)
    PROVE  /\ RulerOK'
           /\ ruler' = [ruler EXCEPT ![t] = Without(ruler[t], name)]
<1>1. ruler' = [ruler EXCEPT ![t] = Without(ruler[t], name)]
  BY DEF DropGroup
<1>2. /\ Without(ruler[t], name) \in SUBSET Group
      /\ OnePerName(Without(ruler[t], name))
  BY DEF Without, OnePerName, RulerOK
<1>3. IsFiniteSet(Without(ruler[t], name))
  <2>1. Without(ruler[t], name) \in SUBSET ruler[t]
    BY DEF Without
  <2> QED
    BY <2>1, FS_Subset DEF RulerOK
<1> QED
  BY <1>1, <1>2, <1>3 DEF RulerOK

\* Writing a resource changes that one, and what is fresh becomes less.
LEMMA WriteOK ==
    ASSUME ResourcesOK, NEW n \in ResourceNames, NEW object \in Rule \cup {Absent},
           Write(n, object)
    PROVE  /\ ResourcesOK'
           /\ resources' = [resources EXCEPT ![n] = object]
           /\ \A task \in Tasks : fresh'[task] \subseteq fresh[task]
           /\ object # resources[n] => \A task \in Tasks : n \notin fresh'[task]
BY DEF Write, ResourcesOK

\* Each mishap is counted.
LEMMA MishapOK ==
    ASSUME CountsOK, edits' = edits, Mishap \/ NoMishap
    PROVE  CountsOK'
BY RuleStoresAssumption DEF CountsOK, Mishap, NoMishap

\* The initial state.
LEMMA InitTypeInv == ASSUME InformerInit PROVE TypeInv
<1>1. ResourcesOK
  <2>1. PICK rules \in [UserNames -> { RuleOf(rule) : rule \in UserRules } \cup {Absent}] :
           resources = [n \in ResourceNames |-> IF n \in UserNames THEN rules[n] ELSE Absent]
    BY DEF InformerInit, StoresInit
  <2>2. \A rule \in UserRules : RuleOf(rule) \in Rule
    BY RuleStoresAssumption DEF RuleOf, Rule
  <2> QED
    BY <2>1, <2>2 DEF ResourcesOK, InformerInit, StoresInit
<1>2. RulerOK
  BY FS_EmptySet DEF RulerOK, InformerInit, StoresInit, OnePerName
<1>3. CountsOK
  BY RuleStoresAssumption DEF CountsOK, InformerInit, StoresInit
<1>4. ReadOK
  BY FS_EmptySet DEF ReadOK, InformerInit, TaskInit, NothingBegun, NoGroups, NoPatch, Patch
<1>5. WorkOK
  <2>1. work = [task \in Tasks |-> << >>] /\ at = [task \in Tasks |-> "tick"]
    BY DEF InformerInit, TaskInit, NothingBegun
  <2>2. Range(work["updater"]) = {}
    BY <2>1 DEF Range, Tasks
  <2> QED
    BY <2>1, <2>2 DEF WorkOK, Tasks
<1>6. ProcessOK
  BY DEF ProcessOK, InformerInit, TaskInit
<1> QED
  BY <1>1, <1>2, <1>3, <1>4, <1>5, <1>6 DEF TypeInv

\* A step of one of the tasks; the options and the users stay out of it.
InTask == process = "up" /\ UNCHANGED <<options, edits, process>>

\* A step of a task keeps what is not the task's.
LEMMA InTaskOK == ASSUME TypeInv, InTask, Mishap \/ NoMishap PROVE CountsOK' /\ ProcessOK'
BY MishapOK DEF TypeInv, InTask, ProcessOK, options

\* The end of a tick.
LEMMA TickEndsOK ==
    ASSUME TypeInv, NEW task \in Tasks, TickEnds(task), Mishap \/ NoMishap, InTask
    PROVE  TypeInv'
<1>1. ResourcesOK'
  BY DEF TickEnds, TypeInv, ResourcesOK
<1>2. RulerOK'
  BY DEF TickEnds, TypeInv, RulerOK
<1>3. ReadOK'
  <2>1. NoGroups \in [Tenants -> SUBSET Group] /\ \A t \in Tenants : IsFiniteSet(NoGroups[t])
    BY FS_EmptySet DEF NoGroups
  <2> QED
    BY <2>1 DEF TickEnds, TypeInv, ReadOK
<1>4. WorkOK'
  <2>1. /\ at' = [at EXCEPT ![task] = "tick"] /\ work' = [work EXCEPT ![task] = << >>]
        /\ listed' = [listed EXCEPT ![task] = << >>]
    BY DEF TickEnds, Goto
  <2>2. Range(<< >>) = {}
    BY DEF Range
  <2> QED
    BY <2>1, <2>2 DEF TypeInv, ReadOK, WorkOK, NextItem, Tasks, FromListed
<1> QED
  BY <1>1, <1>2, <1>3, <1>4, InTaskOK DEF TypeInv

\* A request to the Ruler for the groups of one tenant.
LEMMA DiscoverOK ==
    ASSUME TypeInv, NEW task \in Tasks, discover_ruler_rules(task), InTask
    PROVE  TypeInv'
<1>1. CASE DiscoveryFails(task)
  BY <1>1, TickEndsOK DEF DiscoveryFails
<1>2. ASSUME NEW t \in todo[task], TenantDiscovered(task, t) \/ TenantSkipped(task, t)
      PROVE  TypeInv'
  <2>1. /\ UNCHANGED <<resources, ruler, fresh, at, listed, work, patch>>
        /\ todo' = [todo EXCEPT ![task] = @ \ {t}]
        /\ found' = [found EXCEPT ![task][t] = ruler[t]] \/ found' = found
        /\ Mishap \/ NoMishap
    BY <1>2 DEF TenantDiscovered, TenantSkipped, StillToAsk, RequestFails
  <2>2. ResourcesOK' /\ RulerOK'
    BY <2>1 DEF TypeInv, ResourcesOK, RulerOK
  <2>3. ReadOK'
    <3>1. /\ todo[task] \in SUBSET Tenants /\ t \in Tenants
          /\ ruler[t] \in SUBSET Group /\ IsFiniteSet(ruler[t])
      BY DEF TypeInv, ReadOK, RulerOK
    <3>2. todo' \in [Tasks -> SUBSET Tenants]
      BY <2>1, <3>1 DEF TypeInv, ReadOK
    <3>0. PICK map : /\ map = [found[task] EXCEPT ![t] = ruler[t]]
                     /\ found' = [found EXCEPT ![task] = map] \/ found' = found
      BY <2>1
    <3>3. map \in [Tenants -> SUBSET Group] /\ \A u \in Tenants : IsFiniteSet(map[u])
      <4>1. found[task] \in [Tenants -> SUBSET Group] /\ \A u \in Tenants : IsFiniteSet(found[task][u])
        BY DEF TypeInv, ReadOK
      <4> QED
        BY <3>0, <3>1, <4>1
    <3>4. /\ found' \in [Tasks -> [Tenants -> SUBSET Group]]
          /\ \A other \in Tasks, u \in Tenants : IsFiniteSet(found'[other][u])
      BY <3>0, <3>3 DEF TypeInv, ReadOK
    <3> QED
      BY <2>1, <3>2, <3>4 DEF TypeInv, ReadOK
  <2>4. WorkOK'
    BY <2>1 DEF TypeInv, WorkOK, NextItem, FromListed
  <2> QED
    BY <2>1, <2>2, <2>3, <2>4, InTaskOK DEF TypeInv
<1> QED
  BY <1>1, <1>2 DEF discover_ruler_rules

\* The maps a tick compares.
LEMMA MapsOK ==
    ASSUME ReadOK, NEW task \in Tasks
    PROVE  IsMap(RulerMap(found[task])) /\ IsMap(K8sMap(task))
<1>1. /\ listed[task] \in Seq(ListedRule)
      /\ found[task] \in [Tenants -> SUBSET Group]
      /\ \A t \in Tenants : IsFiniteSet(found[task][t])
  BY DEF ReadOK
<1>2. IsMap(RulerMap(found[task]))
  BY <1>1, MapOfRuler
<1>3. IsMap(K8sMap(task))
  BY <1>1, MapOfRules DEF K8sMap
<1> QED
  BY <1>2, <1>3

\* The resource an update of the updater comes from is in its listing, and has
\* the group.
LEMMA PlanOK ==
    ASSUME TypeInv, NEW task \in Tasks, NEW target, NEW origin, NEW removing \in BOOLEAN,
           IsMap(target), IsMap(origin), Plan(task, target, origin, removing), InTask,
           task = "updater" => origin = K8sMap("updater")
    PROVE  TypeInv'
<1>1. /\ UNCHANGED <<todo, patch, storeVars>>
      /\ found' = [found EXCEPT ![task] = NoGroups]
      /\ listed' = [listed EXCEPT ![task] = IF task = "updater" THEN @ ELSE << >>]
      /\ at' = [at EXCEPT ![task] = "work"] /\ at[task] = "plan"
  BY DEF Plan, Goto
<1>2. /\ work' \in [Tasks -> Seq(Item)]
      /\ \A other \in Tasks : other # task => work'[other] = work[other]
      /\ \A item : item \in Range(work'[task]) <=>
                     Planned(target, origin, removing, item)
  BY PlannedItems, RuleStoresAssumption DEF TypeInv, WorkOK
<1>3. ResourcesOK' /\ RulerOK' /\ NoMishap
  BY <1>1 DEF TypeInv, ResourcesOK, RulerOK, storeVars, NoMishap
<1>4. ReadOK'
  <2>1. NoGroups \in [Tenants -> SUBSET Group] /\ \A t \in Tenants : IsFiniteSet(NoGroups[t])
    BY FS_EmptySet DEF NoGroups
  <2> QED
    BY <1>1, <2>1 DEF TypeInv, ReadOK
<1>5. listed'["updater"] = listed["updater"]
  BY <1>1 DEF TypeInv, ReadOK, Tasks
<1>6. ASSUME NEW item \in Range(work'["updater"]), item.kind = "update"
      PROVE  FromListed(item)'
  <2> SUFFICES FromListed(item)
    BY <1>5 DEF FromListed
  <2>1. CASE task # "updater"
    BY <1>2, <1>6, <2>1 DEF TypeInv, WorkOK, Tasks
  <2>2. CASE task = "updater"
    <3>0. PICK t \in DOMAIN origin : \E e \in Range(origin[t]) : item = ItemOf("update", t, e)
      BY <1>2, <1>6, <2>2 DEF Planned, ItemOf
    <3>1. PICK e \in Range(origin[t]) : item = ItemOf("update", t, e)
      BY <3>0
    <3>2. listed["updater"] \in Seq(ListedRule)
      BY DEF TypeInv, ReadOK, Tasks
    <3>3. PICK rules \in Seq(ListedRule) :
             rules = listed["updater"] /\ origin = get_tenant_map_from_rules_list(rules)
      BY <2>2, <3>2 DEF K8sMap
    <3>4. t \in DOMAIN origin /\ e \in Range(origin[t])
      BY <3>1
    <3>5. PICK i \in DOMAIN rules : \E j \in DOMAIN rules[i].groups :
             e = Entry(rules[i].groups[j], i)
      BY <3>3, <3>4, MapOfRules
    <3>6. PICK groups : groups = rules[i].groups
      OBVIOUS
    <3>7. e.at = i /\ e.group \in Range(groups)
      BY <3>5, <3>6 DEF Entry, Range
    <3> QED
      BY <3>1, <3>3, <3>6, <3>7 DEF ItemOf, FromListed
  <2> QED
    BY <2>1, <2>2
<1>7. WorkOK'
  BY <1>1, <1>2, <1>6 DEF TypeInv, WorkOK, NextItem, Tasks
<1> QED
  BY <1>3, <1>4, <1>7, InTaskOK DEF TypeInv

\* The next item is one of the items.
LEMMA NextItemOK ==
    ASSUME WorkOK, NEW task \in Tasks, work[task] # << >>
    PROVE  NextItem(task) \in Item /\ NextItem(task) \in Range(work[task])
<1>1. work[task] \in Seq(Item)
  BY DEF WorkOK
<1>2. /\ Len(work[task]) \in Nat \ {0}
      /\ DOMAIN work[task] = 1 .. Len(work[task])
  BY <1>1, EmptySeq, LenProperties
<1>3. NextItem(task) \in Range(work[task])
  BY <1>2 DEF NextItem, Range
<1> QED
  BY <1>1, <1>3, RangeOfSeq

\* A request to change a store, after which the item is done with.
LEMMA ItemDoneOK ==
    ASSUME WorkOK, NEW task \in Tasks, work[task] # << >>, ItemDone(task), UNCHANGED listed
    PROVE  /\ WorkOK'
           /\ \A other \in Tasks : Range(work'[other]) \subseteq Range(work[other])
<1>1. /\ at' = [at EXCEPT ![task] = "work"]
      /\ work' = [work EXCEPT ![task] = Tail(work[task])]
  BY DEF ItemDone, Goto
<1>2. /\ work[task] \in Seq(Item)
      /\ Tail(work[task]) \in Seq(Item)
      /\ Range(Tail(work[task])) \subseteq Range(work[task])
  <2>1. PICK list \in Seq(Item) : list = work[task] /\ list # << >>
    BY DEF WorkOK
  <2>2. /\ Tail(list) \in Seq(Item) /\ Len(Tail(list)) = Len(list) - 1
        /\ \A i \in 1 .. Len(Tail(list)) : Tail(list)[i] = list[i + 1]
    BY <2>1, HeadTailProperties
  <2>3. /\ Len(list) \in Nat /\ DOMAIN list = 1 .. Len(list)
        /\ DOMAIN Tail(list) = 1 .. Len(Tail(list))
    BY <2>2, LenProperties
  <2>4. \A i \in DOMAIN Tail(list) : i + 1 \in DOMAIN list /\ Tail(list)[i] = list[i + 1]
    BY <2>2, <2>3
  <2>5. Range(Tail(list)) \subseteq Range(list)
    BY <2>4 DEF Range
  <2> QED
    BY <2>1, <2>2, <2>5
<1>3. /\ work' \in [Tasks -> Seq(Item)]
      /\ \A other \in Tasks : Range(work'[other]) \subseteq Range(work[other])
  BY <1>1, <1>2 DEF WorkOK
<1>4. WorkOK'
  BY <1>1, <1>3 DEF WorkOK, NextItem, Tasks, FromListed
<1> QED
  BY <1>3, <1>4

\* A listing of the resources, and the place that follows it.
LEMMA ListedOK ==
    ASSUME TypeInv, NEW task \in Tasks, NEW rules \in Listings, Listed(task, rules)
    PROVE  /\ rules \in Seq(ListedRule)
           /\ UNCHANGED resources /\ (Mishap \/ NoMishap)
           /\ ResourcesOK'
           /\ fresh' = [fresh EXCEPT ![task] = { rules[i].name : i \in DOMAIN rules }]
           /\ \A i \in DOMAIN rules : \E n \in ResourceNames :
                 Present(n) /\ rules[i] = AsListed(n)
<1>1. StoresTypeOK
  BY TypeInvIsAll DEF InformerTypeOK
<1>2. /\ rules \in Seq(ListedRule)
      /\ \A i \in DOMAIN rules : \E n \in ResourceNames :
            Present(n) /\ rules[i] = AsListed(n)
  BY <1>1, ListingIsThere
<1>3. /\ UNCHANGED resources /\ (Mishap \/ NoMishap)
      /\ fresh' = [fresh EXCEPT ![task] = { rules[i].name : i \in DOMAIN rules }]
  BY DEF Listed
<1>4. \A i \in DOMAIN rules : rules[i].name \in ResourceNames
  BY <1>2 DEF AsListed
<1>5. { rules[i].name : i \in DOMAIN rules } \in SUBSET ResourceNames
  BY <1>4
<1>6. ResourcesOK'
  BY <1>3, <1>5 DEF TypeInv, ResourcesOK
<1> QED
  BY <1>2, <1>3, <1>6

\* What the requests to Kubernetes write: the updater a listed resource, marked,
LEMMA UpdaterMarksWhat ==
    ASSUME TypeInv, UpdaterMarks
    PROVE  /\ UNCHANGED ruler
           /\ \/ UNCHANGED <<resources, fresh>>
              \/ \E i \in DOMAIN listed["updater"], object \in Rule :
                    LET rule == listed["updater"][i]
                    IN  /\ rule.name \in ResourceNames /\ rule.name \in fresh["updater"]
                        /\ Range(rule.groups) # {}
                        /\ Write(rule.name, object)
                        /\ object.tenants = rule.tenants /\ object.groups = rule.groups
<1>0. "updater" \in Tasks
  BY DEF Tasks
<1>1. PICK i \in DOMAIN listed["updater"] :
         i = NextItem("updater").at /\ Range(listed["updater"][i].groups) # {}
  <2>1. /\ NextItem("updater").kind = "update"
        /\ NextItem("updater") \in Range(work["updater"])
    BY <1>0, NextItemOK DEF UpdaterMarks, TypeInv, WorkOK
  <2> QED
    BY <2>1 DEF TypeInv, WorkOK, FromListed
<1>2. PICK rule \in ListedRule : rule = listed["updater"][i]
  BY <1>0, LenProperties, ElementOfSeq DEF TypeInv, ReadOK
<1>3. PICK object : object =
         [tenants |-> rule.tenants, groups |-> rule.groups, ruler_updated |-> TRUE]
  OBVIOUS
<1>4. object \in Rule
  BY <1>3 DEF ListedRule, Rule
<1>5. PICK marked \in Rule : /\ marked = [object EXCEPT !.ruler_updated = TRUE]
                             /\ marked.tenants = rule.tenants
                             /\ marked.groups = rule.groups
  BY <1>3, <1>4 DEF Rule
<1>6. \/ UNCHANGED <<resources, ruler, fresh>>
      \/ rule.name \in fresh["updater"] /\ Write(rule.name, marked) /\ UNCHANGED ruler
  BY <1>1, <1>2, <1>3, <1>5 DEF UpdaterMarks, resource_updated, RequestFails
<1>7. Range(rule.groups) # {}
  BY <1>1, <1>2
<1> QED
  BY <1>2, <1>5, <1>6, <1>7 DEF ListedRule

\* the tracker its patch,
LEMMA TrackerPatchesWhat ==
    ASSUME TypeInv, TrackerPatches
    PROVE  /\ UNCHANGED ruler
           /\ \/ UNCHANGED <<resources, fresh>>
              \/ /\ patch.kind = "delete" /\ patch.name \in ResourceNames
                 /\ Write(patch.name, Absent)
              \/ /\ patch.kind = "apply" /\ patch.name \in ResourceNames
                 /\ patch.versioned => patch.name \in fresh["tracker"]
                 /\ [patch.object EXCEPT !.ruler_updated = TRUE] \in Rule
                 /\ Write(patch.name, [patch.object EXCEPT !.ruler_updated = TRUE])
<1>1. patch.kind \in {"none", "delete", "apply"}
  BY DEF TypeInv, ReadOK, Patch
<1>2. patch.kind # "none" => patch.name \in ResourceNames
  BY DEF TypeInv, ReadOK, Patch
<1>3. patch.kind = "apply" => [patch.object EXCEPT !.ruler_updated = TRUE] \in Rule
  BY DEF TypeInv, ReadOK, Patch, Rule
<1> QED
  BY <1>1, <1>2, <1>3 DEF TrackerPatches, RequestFails, resource_updated

\* and users one of theirs, or nothing.
LEMMA UserWritesWhat ==
    ASSUME User
    PROVE  /\ edits < MaxEdits /\ edits' = edits + 1 /\ UNCHANGED mishaps
           /\ \/ UNCHANGED <<resources, fresh>>
              \/ \E n \in ResourceNames, object \in Rule \cup {Absent} :
                    /\ Write(n, object) /\ UNCHANGED ruler
                    /\ \/ object = Absent
                       \/ \E rule \in UserRules :
                             object.tenants = rule.tenants /\ object.groups = rule.groups
<1>1. /\ edits < MaxEdits /\ edits' = edits + 1 /\ UNCHANGED mishaps
  BY DEF User, UserAppliesRule, UserDeletesRule, UserPutsGroup, UserDropsGroup, Edit,
         NoMishap
<1>2. CASE UserAppliesRule
  <2>1. PICK n \in UserNames \cup There, rule \in UserRules :
           Write(n, [tenants |-> rule.tenants, groups |-> rule.groups,
                     ruler_updated |-> Present(n) /\ resources[n].ruler_updated])
    BY <1>2 DEF UserAppliesRule
  <2>2. PICK flag \in BOOLEAN : flag = (Present(n) /\ resources[n].ruler_updated)
    OBVIOUS
  <2>3. PICK object : /\ object = [tenants |-> rule.tenants, groups |-> rule.groups,
                                   ruler_updated |-> flag]
                      /\ Write(n, object)
    BY <2>1, <2>2
  <2>4. object \in Rule /\ n \in ResourceNames
    BY <2>3, RuleStoresAssumption DEF Rule, There
  <2> QED
    BY <1>1, <1>2, <2>3, <2>4 DEF UserAppliesRule
<1>3. CASE UserDeletesRule
  BY <1>1, <1>3 DEF UserDeletesRule
<1>4. CASE UserPutsGroup \/ UserDropsGroup
  BY <1>1, <1>4 DEF UserPutsGroup, UserDropsGroup
<1> QED
  BY <1>2, <1>3, <1>4 DEF User

\* The steps of the updater.
LEMMA UpdaterOK == ASSUME TypeInv, UpdaterNext, InTask PROVE TypeInv'
<1>0. "updater" \in Tasks
  BY DEF Tasks
<1>1. CASE UpdaterLists
  <2>1. PICK rules \in Listings :
          /\ Listed("updater", rules)
          /\ listed' = [listed EXCEPT !["updater"] = rules]
          /\ todo' = [todo EXCEPT !["updater"] =
                        UNION { rules[i].tenants : i \in DOMAIN rules }]
    BY <1>1 DEF UpdaterLists
  <2>2. /\ UNCHANGED <<ruler, found, work, patch>>
        /\ at' = [at EXCEPT !["updater"] = "discover"] /\ at["updater"] = "tick"
    BY <1>1 DEF UpdaterLists, Goto
  <2>3. rules \in Seq(ListedRule) /\ ResourcesOK' /\ (Mishap \/ NoMishap)
    BY <1>0, <2>1, ListedOK
  <2>4. \A i \in DOMAIN rules : rules[i].tenants \subseteq Tenants
    <3>1. \A i \in DOMAIN rules : rules[i] \in ListedRule
      BY <2>3, LenProperties, ElementOfSeq
    <3> QED
      BY <3>1 DEF ListedRule
  <2>5. UNION { rules[i].tenants : i \in DOMAIN rules } \in SUBSET Tenants
    BY <2>4
  <2>6. RulerOK'
    BY <2>2 DEF TypeInv, RulerOK
  <2>7. ReadOK'
    BY <2>1, <2>2, <2>3, <2>5 DEF TypeInv, ReadOK
  <2>8. WorkOK'
    <3>1. work["updater"] = << >>
      BY <1>0, <2>2 DEF TypeInv, WorkOK
    <3>2. Range(work["updater"]) = {}
      BY <3>1 DEF Range
    <3> QED
      BY <2>2, <3>2 DEF TypeInv, WorkOK, NextItem, Tasks
  <2> QED
    BY <2>3, <2>6, <2>7, <2>8, InTaskOK DEF TypeInv
<1>2. CASE UpdaterListFails
  <2>1. Mishap /\ UNCHANGED <<resources, ruler, fresh, taskVars>>
    BY <1>2 DEF UpdaterListFails, RequestFails
  <2>2. ResourcesOK' /\ RulerOK' /\ ReadOK' /\ WorkOK'
    BY <2>1 DEF TypeInv, ResourcesOK, RulerOK, ReadOK, WorkOK, NextItem, taskVars,
                FromListed
  <2> QED
    BY <2>1, <2>2, InTaskOK DEF TypeInv
<1>3. CASE UpdaterDiscovers
  <2>1. CASE discover_ruler_rules("updater")
    BY <1>0, <2>1, DiscoverOK
  <2>2. CASE /\ Discovered("updater")
             /\ Goto("updater", "plan")
             /\ UNCHANGED <<todo, found, listed, work, patch, storeVars>>
    <3>1. ResourcesOK' /\ RulerOK' /\ ReadOK' /\ NoMishap
      BY <2>2 DEF TypeInv, ResourcesOK, RulerOK, ReadOK, storeVars, NoMishap
    <3>2. WorkOK'
      BY <2>2 DEF TypeInv, WorkOK, NextItem, Discovered, Goto, Tasks, FromListed
    <3> QED
      BY <3>1, <3>2, InTaskOK DEF TypeInv
  <2> QED
    BY <1>3, <2>1, <2>2 DEF UpdaterDiscovers
<1>4. CASE UpdaterPlans
  <2>1. IsMap(RulerMap(found["updater"])) /\ IsMap(K8sMap("updater"))
    BY <1>0, MapsOK DEF TypeInv
  <2>2. enable_updater_remove_rules \in BOOLEAN
    BY DEF TypeInv, ProcessOK
  <2> QED
    BY <1>0, <1>4, <2>1, <2>2, PlanOK DEF UpdaterPlans
<1>5. CASE UpdaterUpdates
  <2>1. /\ work["updater"] # << >> /\ NextItem("updater").kind = "update"
        /\ at["updater"] = "work" /\ at' = [at EXCEPT !["updater"] = "patch"]
        /\ UNCHANGED <<todo, found, listed, work, patch, resources, fresh>>
        /\ Mishap \/ NoMishap
    BY <1>5 DEF UpdaterUpdates, Working, Goto, RequestFails
  <2>2. NextItem("updater") \in Item
    BY <1>0, <2>1, NextItemOK DEF TypeInv
  <2>3. RulerOK'
    <3>1. CASE PutGroup(NextItem("updater").tenant, NextItem("updater").group)
      BY <2>2, <3>1, PutGroupOK DEF TypeInv, Item
    <3>2. CASE UNCHANGED ruler
      BY <3>2 DEF TypeInv, RulerOK
    <3> QED
      BY <1>5, <3>1, <3>2 DEF UpdaterUpdates, RequestFails
  <2>4. ResourcesOK' /\ ReadOK'
    BY <2>1 DEF TypeInv, ResourcesOK, ReadOK
  <2>5. WorkOK'
    BY <2>1 DEF TypeInv, WorkOK, NextItem, Tasks, FromListed
  <2> QED
    BY <2>1, <2>3, <2>4, <2>5, InTaskOK DEF TypeInv
<1>6. CASE UpdaterMarks
  <2>1. /\ at["updater"] = "patch" /\ ItemDone("updater")
        /\ UNCHANGED <<todo, found, listed, patch>>
    BY <1>6 DEF UpdaterMarks
  <2>2. work["updater"] # << >> /\ NextItem("updater").kind = "update"
    BY <1>0, <2>1 DEF TypeInv, WorkOK
  <2>3. WorkOK'
    BY <1>0, <2>1, <2>2, ItemDoneOK DEF TypeInv
  <2>7. ResourcesOK' /\ UNCHANGED ruler
    <3>1. UNCHANGED <<resources, fresh>> => ResourcesOK'
      BY DEF TypeInv, ResourcesOK
    <3> QED
      BY <1>6, <3>1, UpdaterMarksWhat, WriteOK DEF TypeInv
  <2>8. Mishap \/ NoMishap
    BY <1>6 DEF UpdaterMarks, RequestFails
  <2>9. RulerOK' /\ ReadOK'
    BY <2>1, <2>7 DEF TypeInv, RulerOK, ReadOK
  <2> QED
    BY <2>3, <2>7, <2>8, <2>9, InTaskOK DEF TypeInv
<1>7. CASE UpdaterRemoves
  <2>1. /\ work["updater"] # << >> /\ ItemDone("updater")
        /\ UNCHANGED <<todo, found, listed, patch, resources, fresh>>
        /\ Mishap \/ NoMishap
    BY <1>7 DEF UpdaterRemoves, Working, RequestFails
  <2>2. NextItem("updater") \in Item
    BY <1>0, <2>1, NextItemOK DEF TypeInv
  <2>3. RulerOK'
    <3>1. CASE DropGroup(NextItem("updater").tenant, NextItem("updater").group.name)
      BY <2>2, <3>1, DropGroupOK DEF TypeInv, Item
    <3>2. CASE UNCHANGED ruler
      BY <3>2 DEF TypeInv, RulerOK
    <3> QED
      BY <1>7, <3>1, <3>2 DEF UpdaterRemoves, RequestFails
  <2>4. ResourcesOK' /\ ReadOK'
    BY <2>1 DEF TypeInv, ResourcesOK, ReadOK
  <2>5. WorkOK'
    BY <1>0, <2>1, ItemDoneOK DEF TypeInv
  <2> QED
    BY <2>1, <2>3, <2>4, <2>5, InTaskOK DEF TypeInv
<1>8. CASE NothingLeft("updater")
  BY <1>0, <1>8, TickEndsOK DEF NothingLeft
<1> QED
  BY <1>1, <1>2, <1>3, <1>4, <1>5, <1>6, <1>7, <1>8 DEF UpdaterNext

\* The steps of the tracker.
LEMMA TrackerOK == ASSUME TypeInv, TrackerNext, InTask PROVE TypeInv'
<1>0. "tracker" \in Tasks
  BY DEF Tasks
<1>1. CASE TrackerLoadsTenants
  <2>1. PICK reported \in SUBSET Tenants :
           todo' = [todo EXCEPT !["tracker"] = extract_tenants(reported)]
    BY <1>1 DEF TrackerLoadsTenants
  <2>2. /\ UNCHANGED <<resources, ruler, fresh, found, listed, work, patch>>
        /\ at["tracker"] = "tick" /\ at' = [at EXCEPT !["tracker"] = "discover"]
        /\ Mishap \/ NoMishap
    BY <1>1 DEF TrackerLoadsTenants, Goto
  <2>3. ResourcesOK' /\ RulerOK'
    BY <2>2 DEF TypeInv, ResourcesOK, RulerOK
  <2>4. ReadOK'
    BY <2>1, <2>2 DEF TypeInv, ReadOK, extract_tenants
  <2>5. WorkOK'
    BY <2>2 DEF TypeInv, WorkOK, NextItem, Tasks, FromListed
  <2> QED
    BY <2>2, <2>3, <2>4, <2>5, InTaskOK DEF TypeInv
<1>2. CASE TrackerLoadFails
  <2>1. Mishap /\ UNCHANGED <<resources, ruler, fresh, taskVars>>
    BY <1>2 DEF TrackerLoadFails, RequestFails
  <2>2. ResourcesOK' /\ RulerOK' /\ ReadOK' /\ WorkOK'
    BY <2>1 DEF TypeInv, ResourcesOK, RulerOK, ReadOK, WorkOK, NextItem, taskVars,
                FromListed
  <2> QED
    BY <2>1, <2>2, InTaskOK DEF TypeInv
<1>3. CASE TrackerDiscovers
  <2>1. CASE discover_ruler_rules("tracker")
    BY <1>0, <2>1, DiscoverOK
  <2>2. CASE /\ Discovered("tracker")
             /\ Goto("tracker", "list")
             /\ UNCHANGED <<todo, found, listed, work, patch, storeVars>>
    <3>1. ResourcesOK' /\ RulerOK' /\ ReadOK' /\ NoMishap
      BY <2>2 DEF TypeInv, ResourcesOK, RulerOK, ReadOK, storeVars, NoMishap
    <3>2. WorkOK'
      BY <2>2 DEF TypeInv, WorkOK, NextItem, Discovered, Goto, Tasks, FromListed
    <3> QED
      BY <3>1, <3>2, InTaskOK DEF TypeInv
  <2> QED
    BY <1>3, <2>1, <2>2 DEF TrackerDiscovers
<1>4. CASE TrackerLists
  <2>1. PICK rules \in Listings :
          /\ Listed("tracker", rules)
          /\ listed' = [listed EXCEPT !["tracker"] = rules]
    BY <1>4 DEF TrackerLists
  <2>2. /\ UNCHANGED <<ruler, todo, found, work, patch>>
        /\ at' = [at EXCEPT !["tracker"] = "plan"] /\ at["tracker"] = "list"
    BY <1>4 DEF TrackerLists, Goto
  <2>3. rules \in Seq(ListedRule) /\ ResourcesOK' /\ (Mishap \/ NoMishap)
    BY <1>0, <2>1, ListedOK
  <2>4. RulerOK'
    BY <2>2 DEF TypeInv, RulerOK
  <2>5. ReadOK'
    BY <2>1, <2>2, <2>3 DEF TypeInv, ReadOK
  <2>6. WorkOK'
    BY <2>1, <2>2 DEF TypeInv, WorkOK, ReadOK, NextItem, Tasks, FromListed
  <2> QED
    BY <2>3, <2>4, <2>5, <2>6, InTaskOK DEF TypeInv
<1>5. CASE TrackerListFails
  BY <1>0, <1>5, TickEndsOK DEF TrackerListFails
<1>6. CASE TrackerPlans
  BY <1>0, <1>6, MapsOK, PlanOK DEF TrackerPlans, TypeInv
<1>7. CASE TrackerLooksUp
  <2>1. PICK rules \in Listings :
          Listed("tracker", rules) /\ patch' = PatchFor(rules, NextItem("tracker"))
    BY <1>7 DEF TrackerLooksUp
  <2>2. /\ UNCHANGED <<ruler, todo, found, listed, work>>
        /\ at' = [at EXCEPT !["tracker"] = "patch"]
        /\ at["tracker"] = "work" /\ work["tracker"] # << >>
    BY <1>7 DEF TrackerLooksUp, Goto
  <2>3. rules \in Seq(ListedRule) /\ ResourcesOK' /\ (Mishap \/ NoMishap)
    BY <1>0, <2>1, ListedOK
  <2>4. patch' \in Patch
    <3>1. NextItem("tracker") \in Item
      BY <1>0, <2>2, NextItemOK DEF TypeInv
    <3> QED
      BY <2>1, <2>3, <3>1, PatchesOneGroup
  <2>5. RulerOK' /\ ReadOK'
    BY <2>2, <2>4 DEF TypeInv, RulerOK, ReadOK
  <2>6. WorkOK'
    BY <2>2 DEF TypeInv, WorkOK, NextItem, Tasks, FromListed
  <2> QED
    BY <2>3, <2>5, <2>6, InTaskOK DEF TypeInv
<1>8. CASE TrackerLookUpFails
  <2>1. /\ work["tracker"] # << >> /\ ItemDone("tracker") /\ Mishap
        /\ UNCHANGED <<resources, ruler, fresh, todo, found, listed, patch>>
    BY <1>8 DEF TrackerLookUpFails, RequestFails
  <2>2. ResourcesOK' /\ RulerOK' /\ ReadOK'
    BY <2>1 DEF TypeInv, ResourcesOK, RulerOK, ReadOK
  <2>3. WorkOK'
    BY <1>0, <2>1, ItemDoneOK DEF TypeInv
  <2> QED
    BY <2>1, <2>2, <2>3, InTaskOK DEF TypeInv
<1>9. CASE TrackerPatches
  <2>1. /\ at["tracker"] = "patch" /\ ItemDone("tracker") /\ patch' = NoPatch
        /\ UNCHANGED <<todo, found, listed>>
        /\ Mishap \/ NoMishap
    BY <1>9 DEF TrackerPatches, RequestFails
  <2>2. UNCHANGED ruler
    BY <1>9, TrackerPatchesWhat
  <2>3. ResourcesOK'
    <3>1. UNCHANGED <<resources, fresh>> => ResourcesOK'
      BY DEF TypeInv, ResourcesOK
    <3> QED
      BY <1>9, <3>1, TrackerPatchesWhat, WriteOK DEF TypeInv
  <2>4. RulerOK' /\ ReadOK'
    BY <2>1, <2>2 DEF TypeInv, RulerOK, ReadOK, NoPatch, Patch
  <2>5. WorkOK'
    <3>1. work["tracker"] # << >>
      BY <1>0, <2>1 DEF TypeInv, WorkOK
    <3> QED
      BY <1>0, <2>1, <3>1, ItemDoneOK DEF TypeInv
  <2> QED
    BY <2>1, <2>3, <2>4, <2>5, InTaskOK DEF TypeInv
<1>10. CASE NothingLeft("tracker")
  BY <1>0, <1>10, TickEndsOK DEF NothingLeft
<1> QED
  BY <1>1, <1>2, <1>3, <1>4, <1>5, <1>6, <1>7, <1>8, <1>9, <1>10 DEF TrackerNext

\* The steps of users: one write to one of the stores.
LEMMA UserOK ==
    ASSUME TypeInv, User, UNCHANGED <<options, taskVars, process>>
    PROVE  TypeInv'
<1>1. ReadOK' /\ WorkOK' /\ ProcessOK'
  BY DEF TypeInv, ReadOK, WorkOK, ProcessOK, NextItem, NothingBegun, taskVars, options,
         FromListed
<1>2. CountsOK'
  BY UserWritesWhat, RuleStoresAssumption DEF TypeInv, CountsOK
<1>3. ResourcesOK'
  <2>1. UNCHANGED <<resources, fresh>> => ResourcesOK'
    BY DEF TypeInv, ResourcesOK
  <2> QED
    BY <2>1, UserWritesWhat, WriteOK DEF TypeInv
<1>4. CASE UserAppliesRule \/ UserDeletesRule
  <2>1. RulerOK'
    BY <1>4 DEF UserAppliesRule, UserDeletesRule, TypeInv, RulerOK
  <2> QED
    BY <1>1, <1>2, <1>3, <2>1 DEF TypeInv
<1>5. CASE UserPutsGroup
  <2>1. PICK user \in UserGroups : PutGroup(user.tenant, user.group)
    BY <1>5 DEF UserPutsGroup
  <2>2. user.tenant \in Tenants /\ user.group \in Group
    BY RuleStoresAssumption
  <2>3. RulerOK'
    BY <2>1, <2>2, PutGroupOK DEF TypeInv
  <2> QED
    BY <1>1, <1>2, <1>3, <2>3 DEF TypeInv
<1>6. CASE UserDropsGroup
  <2>1. PICK t \in Tenants : \E g \in ruler[t] : DropGroup(t, g.name)
    BY <1>6 DEF UserDropsGroup
  <2>2. PICK g \in ruler[t] : DropGroup(t, g.name)
    BY <2>1
  <2>3. RulerOK'
    BY <2>2, DropGroupOK DEF TypeInv
  <2> QED
    BY <1>1, <1>2, <1>3, <2>3 DEF TypeInv
<1> QED
  BY <1>4, <1>5, <1>6 DEF User

\* A crash leaves the stores.
LEMMA CrashOK == ASSUME TypeInv, Crash PROVE TypeInv'
<1>1. ResourcesOK' /\ RulerOK'
  BY DEF Crash, TypeInv, ResourcesOK, RulerOK
<1>2. CountsOK'
  BY MishapOK DEF Crash, TypeInv
<1>3. ReadOK'
  <2>1. NoGroups \in [Tenants -> SUBSET Group] /\ \A t \in Tenants : IsFiniteSet(NoGroups[t])
    BY FS_EmptySet DEF NoGroups
  <2> QED
    BY <2>1 DEF Crash, ReadOK, NoPatch, Patch
<1>4. WorkOK'
  <2>1. /\ work' = [task \in Tasks |-> << >>] /\ at' = [task \in Tasks |-> "tick"]
        /\ Range(<< >>) = {}
    BY DEF Crash, Range
  <2> QED
    BY <2>1 DEF WorkOK, Tasks
<1>5. ProcessOK'
  BY DEF Crash, TypeInv, ProcessOK, NothingBegun, options
<1> QED
  BY <1>1, <1>2, <1>3, <1>4, <1>5 DEF TypeInv

\* A failed start changes nothing else, and a start nothing that was read.
LEMMA StartOK == ASSUME TypeInv, Start \/ StartFails PROVE TypeInv'
<1>1. CASE Start
  <2>1. ResourcesOK' /\ RulerOK' /\ CountsOK' /\ ReadOK'
    BY <1>1 DEF Start, TypeInv, ResourcesOK, RulerOK, CountsOK, ReadOK, taskVars, storeVars
  <2>2. WorkOK' /\ ProcessOK'
    BY <1>1 DEF Start, TypeInv, WorkOK, ProcessOK, NextItem, taskVars, options, FromListed
  <2> QED
    BY <2>1, <2>2 DEF TypeInv
<1>2. CASE StartFails
  <2>1. ResourcesOK' /\ RulerOK' /\ CountsOK' /\ ReadOK'
    BY <1>2, MishapOK
    DEF StartFails, RequestFails, TypeInv, ResourcesOK, RulerOK, ReadOK, taskVars
  <2>2. WorkOK' /\ ProcessOK'
    BY <1>2 DEF StartFails, RequestFails, TypeInv, WorkOK, ProcessOK, NextItem, taskVars,
                options, NothingBegun, FromListed
  <2> QED
    BY <2>1, <2>2 DEF TypeInv
<1> QED
  BY <1>1, <1>2

\* Every step preserves it.
LEMMA TypeInvStep == ASSUME TypeInv, [InformerNext]_informerVars PROVE TypeInv'
<1>1. CASE Start \/ StartFails
  BY <1>1, StartOK
<1>2. CASE Crash
  BY <1>2, CrashOK
<1>3. CASE UpdaterStep
  BY <1>3, UpdaterOK DEF UpdaterStep, Spawned, InTask
<1>4. CASE TrackerStep
  BY <1>4, TrackerOK DEF TrackerStep, Spawned, InTask
<1>5. CASE UserStep
  BY <1>5, UserOK DEF UserStep
<1>6. CASE UNCHANGED informerVars
  BY <1>6 DEF informerVars, taskVars, storeVars, options, TypeInv, ResourcesOK, RulerOK,
              CountsOK, ReadOK, WorkOK, ProcessOK, NextItem, NothingBegun, FromListed
<1> QED
  BY <1>1, <1>2, <1>3, <1>4, <1>5, <1>6 DEF InformerNext

\* The variables of the informer have the values the code can give them: the
\* groups of a tenant in the Ruler have different names, and each update of the
\* updater finds, in the listing it unwraps it from, the resource with its group.
THEOREM InformerTypes == InformerSpec => []InformerTypeOK
<1>1. InformerInit => TypeInv
  BY InitTypeInv
<1>2. TypeInv /\ [InformerNext]_informerVars => TypeInv'
  BY TypeInvStep
<1>3. TypeInv => InformerTypeOK
  BY TypeInvIsAll
<1> QED
  BY <1>1, <1>2, <1>3, PTL DEF InformerSpec

-----------------------------------------------------------------------------
(* What the steps may change, one variable at a time.                      *)

\* A step other than one of a task or of a user.
Other == Start \/ StartFails \/ Crash \/ UNCHANGED informerVars

\* The groups in the Ruler change by one request of a user or of the updater.
LEMMA RulerChanges ==
    ASSUME TypeInv, [InformerNext]_informerVars
    PROVE  \/ UNCHANGED ruler
           \/ edits' = edits + 1 /\ (UserPutsGroup \/ UserDropsGroup)
           \/ /\ Working("updater", "update") /\ UNCHANGED options
              /\ PutGroup(NextItem("updater").tenant, NextItem("updater").group)
           \/ /\ Working("updater", "removal") /\ UNCHANGED options
              /\ DropGroup(NextItem("updater").tenant, NextItem("updater").group.name)
<1>1. CASE Other
  BY <1>1 DEF Other, Start, StartFails, Crash, RequestFails, storeVars, informerVars
<1>2. CASE UpdaterStep
  <2>1. UNCHANGED options
    BY <1>2 DEF UpdaterStep
  <2>2. CASE UpdaterUpdates \/ UpdaterRemoves
    BY <2>1, <2>2 DEF UpdaterUpdates, UpdaterRemoves, RequestFails
  <2>3. CASE UpdaterMarks
    BY <2>3 DEF UpdaterMarks, resource_updated, RequestFails
  <2> QED
    BY <1>2, <2>2, <2>3
    DEF UpdaterStep, UpdaterNext, UpdaterLists, UpdaterListFails, UpdaterDiscovers,
        discover_ruler_rules, TenantDiscovered, TenantSkipped, DiscoveryFails, TickEnds,
        UpdaterPlans, Plan, NothingLeft, RequestFails, storeVars
<1>3. CASE TrackerStep
  <2>1. CASE TrackerPatches
    BY <2>1, TrackerPatchesWhat
  <2> QED
    BY <1>3, <2>1
    DEF TrackerStep, TrackerNext, TrackerLoadsTenants, TrackerLoadFails, TrackerDiscovers,
        discover_ruler_rules, TenantDiscovered, TenantSkipped, DiscoveryFails, TickEnds,
        TrackerLists, TrackerListFails, TrackerPlans, Plan, TrackerLooksUp,
        TrackerLookUpFails, NothingLeft, RequestFails, storeVars
<1>4. CASE UserStep
  BY <1>4 DEF UserStep, User, UserAppliesRule, UserDeletesRule, UserPutsGroup,
     UserDropsGroup, Edit
<1> QED
  BY <1>1, <1>2, <1>3, <1>4 DEF InformerNext, Other

\* A task's work becomes less, or is planned.
LEMMA WorkChanges ==
    ASSUME TypeInv, [InformerNext]_informerVars, NEW task \in Tasks
    PROVE  \/ Range(work'[task]) \subseteq Range(work[task])
           \/ task = "updater" /\ UpdaterPlans
           \/ task = "tracker" /\ TrackerPlans
<1>0. /\ Tasks = {"updater", "tracker"} /\ Range(<< >>) = {}
      /\ work \in [Tasks -> Seq(Item)]
  BY DEF Tasks, Range, TypeInv, WorkOK
<1>1. CASE Other
  BY <1>0, <1>1 DEF Other, Start, StartFails, Crash, taskVars, informerVars
<1>2. ASSUME NEW other \in Tasks, TickEnds(other)
      PROVE  Range(work'[task]) \subseteq Range(work[task])
  BY <1>0, <1>2 DEF TickEnds
<1>3. ASSUME NEW other \in Tasks, ItemDone(other), work[other] # << >>, UNCHANGED listed
      PROVE  Range(work'[task]) \subseteq Range(work[task])
  BY <1>3, ItemDoneOK DEF TypeInv
<1>4. ASSUME NEW other \in Tasks, NEW target, NEW origin, NEW removing,
             Plan(other, target, origin, removing), other # task
      PROVE  work'[task] = work[task]
  BY <1>0, <1>4 DEF Plan
<1>5. CASE UpdaterStep
  <2>1. CASE UNCHANGED work
    BY <2>1
  <2>2. CASE TickEnds("updater")
    BY <1>0, <1>2, <2>2
  <2>3. CASE (UpdaterMarks \/ UpdaterRemoves)
    <3>1. work["updater"] # << >>
      BY <1>0, <2>3 DEF UpdaterMarks, UpdaterRemoves, Working, TypeInv, WorkOK
    <3> QED
      BY <1>0, <1>3, <2>3, <3>1 DEF UpdaterMarks, UpdaterRemoves
  <2>4. CASE UpdaterPlans
    BY <1>0, <1>4, <2>4 DEF UpdaterPlans
  <2> QED
    BY <1>5, <2>1, <2>2, <2>3, <2>4
    DEF UpdaterStep, UpdaterNext, UpdaterLists, UpdaterListFails, UpdaterDiscovers,
        discover_ruler_rules, TenantDiscovered, TenantSkipped, StillToAsk, DiscoveryFails,
        UpdaterUpdates, NothingLeft, taskVars
<1>6. CASE TrackerStep
  <2>1. CASE UNCHANGED work
    BY <2>1
  <2>2. CASE TickEnds("tracker")
    BY <1>0, <1>2, <2>2
  <2>3. CASE (TrackerLookUpFails \/ TrackerPatches)
    <3>1. work["tracker"] # << >>
      BY <1>0, <2>3 DEF TrackerLookUpFails, TrackerPatches, TypeInv, WorkOK
    <3> QED
      BY <1>0, <1>3, <2>3, <3>1 DEF TrackerLookUpFails, TrackerPatches
  <2>4. CASE TrackerPlans
    BY <1>0, <1>4, <2>4 DEF TrackerPlans
  <2> QED
    BY <1>6, <2>1, <2>2, <2>3, <2>4
    DEF TrackerStep, TrackerNext, TrackerLoadsTenants, TrackerLoadFails, TrackerDiscovers,
        discover_ruler_rules, TenantDiscovered, TenantSkipped, StillToAsk, DiscoveryFails,
        TrackerLists, TrackerListFails, TrackerLooksUp, NothingLeft, taskVars
<1>7. CASE UserStep
  BY <1>7 DEF UserStep, taskVars
<1> QED
  BY <1>1, <1>5, <1>6, <1>7 DEF InformerNext, Other

\* A task reads the groups of a tenant as the Ruler has them.
LEMMA FoundChanges ==
    ASSUME TypeInv, [InformerNext]_informerVars, NEW task \in Tasks, NEW t \in Tenants
    PROVE  found'[task][t] \subseteq found[task][t] \cup ruler[t]
<1>0. /\ Tasks = {"updater", "tracker"} /\ found \in [Tasks -> [Tenants -> SUBSET Group]]
      /\ todo \in [Tasks -> SUBSET Tenants]
      /\ NoGroups \in [Tenants -> SUBSET Group] /\ NoGroups[t] = {}
  BY DEF Tasks, TypeInv, ReadOK, NoGroups
<1>1. CASE Other
  BY <1>0, <1>1 DEF Other, Start, StartFails, Crash, taskVars, informerVars
<1>2. ASSUME NEW other \in Tasks, found' = [found EXCEPT ![other] = NoGroups]
      PROVE  found'[task][t] \subseteq found[task][t]
  BY <1>0, <1>2
<1>3. ASSUME NEW other \in Tasks, discover_ruler_rules(other)
      PROVE  found'[task][t] \subseteq found[task][t] \cup ruler[t]
  <2>1. CASE DiscoveryFails(other)
    BY <1>2, <2>1 DEF DiscoveryFails, TickEnds
  <2>2. ASSUME NEW u \in todo[other], TenantDiscovered(other, u)
        PROVE  found'[task][t] \subseteq found[task][t] \cup ruler[t]
    <3>1. PICK map : /\ map = [found[other] EXCEPT ![u] = ruler[u]]
                     /\ found' = [found EXCEPT ![other] = map]
      BY <2>2 DEF TenantDiscovered
    <3>2. map[t] \subseteq found[other][t] \cup ruler[t]
      BY <1>0, <3>1
    <3> QED
      BY <1>0, <3>1, <3>2
  <2>3. ASSUME NEW u \in todo[other], TenantSkipped(other, u)
        PROVE  UNCHANGED found
    BY <2>3 DEF TenantSkipped
  <2> QED
    BY <1>3, <2>1, <2>2, <2>3 DEF discover_ruler_rules
<1>4. CASE UpdaterStep
  <2>1. CASE UNCHANGED found
    BY <2>1
  <2>2. CASE found' = [found EXCEPT !["updater"] = NoGroups]
    BY <1>0, <1>2, <2>2
  <2>3. CASE discover_ruler_rules("updater")
    BY <1>0, <1>3, <2>3
  <2> QED
    BY <1>4, <2>1, <2>2, <2>3
    DEF UpdaterStep, UpdaterNext, UpdaterLists, UpdaterListFails, UpdaterDiscovers,
        UpdaterPlans, Plan, UpdaterUpdates, UpdaterMarks, UpdaterRemoves, NothingLeft,
        TickEnds, taskVars
<1>5. CASE TrackerStep
  <2>1. CASE UNCHANGED found
    BY <2>1
  <2>2. CASE found' = [found EXCEPT !["tracker"] = NoGroups]
    BY <1>0, <1>2, <2>2
  <2>3. CASE discover_ruler_rules("tracker")
    BY <1>0, <1>3, <2>3
  <2> QED
    BY <1>5, <2>1, <2>2, <2>3
    DEF TrackerStep, TrackerNext, TrackerLoadsTenants, TrackerLoadFails, TrackerDiscovers,
        TrackerLists, TrackerListFails, TrackerPlans, Plan, TrackerLooksUp,
        TrackerLookUpFails, TrackerPatches, NothingLeft, TickEnds, taskVars
<1>6. CASE UserStep
  BY <1>6 DEF UserStep, taskVars
<1> QED
  BY <1>1, <1>4, <1>5, <1>6 DEF InformerNext, Other

IsListing(rules) ==
    /\ rules \in Seq(ListedRule)
    /\ \A i \in DOMAIN rules : \E n \in ResourceNames : Present(n) /\ rules[i] = AsListed(n)

\* A task's listing is kept, dropped, or made of the resources that are there.
LEMMA ListedChanges ==
    ASSUME TypeInv, [InformerNext]_informerVars, NEW task \in Tasks
    PROVE  \/ listed'[task] = listed[task]
           \/ listed'[task] = << >>
           \/ UNCHANGED resources /\ IsListing(listed'[task])
<1>0. Tasks = {"updater", "tracker"} /\ listed \in [Tasks -> Seq(ListedRule)]
  BY DEF Tasks, TypeInv, ReadOK
<1>1. CASE Other
  BY <1>0, <1>1 DEF Other, Start, StartFails, Crash, taskVars, informerVars
<1>2. ASSUME NEW other \in Tasks, listed' = [listed EXCEPT ![other] = << >>]
      PROVE  listed'[task] = listed[task] \/ listed'[task] = << >>
  BY <1>0, <1>2
<1>3. ASSUME NEW other \in Tasks, NEW rules \in Listings, Listed(other, rules),
             listed' = [listed EXCEPT ![other] = rules]
      PROVE  listed'[task] = listed[task] \/ (UNCHANGED resources /\ IsListing(listed'[task]))
  <2>1. UNCHANGED resources /\ IsListing(rules)
    BY <1>3, ListedOK DEF IsListing
  <2>2. listed'[task] = listed[task] \/ listed'[task] = rules
    BY <1>0, <1>3
  <2> QED
    BY <2>1, <2>2
<1>4. CASE UpdaterStep
  <2>1. CASE UNCHANGED listed
    BY <2>1
  <2>2. CASE listed' = [listed EXCEPT !["updater"] = << >>]
    BY <1>0, <1>2, <2>2
  <2>3. CASE UpdaterLists
    BY <1>0, <1>3, <2>3 DEF UpdaterLists
  <2>4. CASE UpdaterPlans
    BY <1>0, <2>4 DEF UpdaterPlans, Plan
  <2> QED
    BY <1>4, <2>1, <2>2, <2>3, <2>4
    DEF UpdaterStep, UpdaterNext, UpdaterListFails, UpdaterDiscovers, discover_ruler_rules,
        TenantDiscovered, TenantSkipped, StillToAsk, DiscoveryFails, UpdaterUpdates,
        UpdaterMarks, UpdaterRemoves, NothingLeft, TickEnds, taskVars
<1>5. CASE TrackerStep
  <2>1. CASE UNCHANGED listed
    BY <2>1
  <2>2. CASE listed' = [listed EXCEPT !["tracker"] = << >>]
    BY <1>0, <1>2, <2>2
  <2>3. CASE TrackerLists
    BY <1>0, <1>3, <2>3 DEF TrackerLists
  <2>4. CASE TrackerPlans
    BY <1>0, <2>4 DEF TrackerPlans, Plan
  <2> QED
    BY <1>5, <2>1, <2>2, <2>3, <2>4
    DEF TrackerStep, TrackerNext, TrackerLoadsTenants, TrackerLoadFails, TrackerDiscovers,
        discover_ruler_rules, TenantDiscovered, TenantSkipped, StillToAsk, DiscoveryFails,
        TrackerListFails, TrackerLooksUp, TrackerLookUpFails, TrackerPatches, NothingLeft,
        TickEnds, taskVars
<1>6. CASE UserStep
  BY <1>6 DEF UserStep, taskVars
<1> QED
  BY <1>1, <1>4, <1>5, <1>6 DEF InformerNext, Other

\* A patch is kept as long as its item is next, or made, or dropped.
LEMMA PatchChanges ==
    ASSUME TypeInv, [InformerNext]_informerVars
    PROVE  \/ UNCHANGED patch /\ at'["tracker"] = "patch" /\ at["tracker"] = "patch"
                 /\ work'["tracker"] = work["tracker"]
           \/ UNCHANGED patch /\ at'["tracker"] # "patch"
           \/ patch' = NoPatch
           \/ TrackerLooksUp
<1>0. /\ Tasks = {"updater", "tracker"} /\ work \in [Tasks -> Seq(Item)]
      /\ at \in [Tasks -> {"tick", "discover", "list", "plan", "work", "patch"}]
  BY DEF Tasks, TypeInv, WorkOK
<1>1. CASE Other
  BY <1>1 DEF Other, Start, StartFails, Crash, taskVars, informerVars
<1>2. CASE UpdaterStep
  <2>1. UNCHANGED patch
    BY <1>2 DEF UpdaterStep, UpdaterNext, UpdaterLists, UpdaterListFails, UpdaterDiscovers,
       discover_ruler_rules, TenantDiscovered, TenantSkipped, StillToAsk, DiscoveryFails,
       UpdaterPlans, Plan, UpdaterUpdates, UpdaterMarks, UpdaterRemoves, NothingLeft,
       TickEnds, taskVars
  <2>2. at'["tracker"] = at["tracker"]
    BY <1>0, <1>2 DEF UpdaterStep, UpdaterNext, UpdaterLists, UpdaterListFails,
       UpdaterDiscovers, discover_ruler_rules, TenantDiscovered, TenantSkipped, StillToAsk,
       DiscoveryFails, UpdaterPlans, Plan, UpdaterUpdates, UpdaterMarks, UpdaterRemoves,
       NothingLeft, TickEnds, ItemDone, Goto, taskVars
  <2>3. work'["tracker"] = work["tracker"]
    BY <1>0, <1>2 DEF UpdaterStep, UpdaterNext, UpdaterLists, UpdaterListFails,
       UpdaterDiscovers, discover_ruler_rules, TenantDiscovered, TenantSkipped, StillToAsk,
       DiscoveryFails, UpdaterPlans, Plan, UpdaterUpdates, UpdaterMarks, UpdaterRemoves,
       NothingLeft, TickEnds, ItemDone, taskVars
  <2> QED
    BY <2>1, <2>2, <2>3
<1>3. CASE TrackerStep
  <2>1. CASE TrackerPatches
    BY <2>1 DEF TrackerPatches
  <2>2. CASE TrackerLookUpFails
    BY <1>0, <2>2 DEF TrackerLookUpFails, ItemDone, Goto
  <2>3. CASE TrackerLoadFails
    BY <2>3 DEF TrackerLoadFails, taskVars
  <2>4. CASE TrackerLoadsTenants \/ TrackerDiscovers \/ TrackerLists \/ TrackerListFails
    <3>1. UNCHANGED patch
      BY <2>4 DEF TrackerLoadsTenants, TrackerDiscovers, TrackerLists, TrackerListFails,
         discover_ruler_rules, TenantDiscovered, TenantSkipped, StillToAsk, DiscoveryFails,
         TickEnds
    <3>2. at'["tracker"] # "patch"
      BY <1>0, <2>4 DEF TrackerLoadsTenants, TrackerDiscovers, TrackerLists,
         TrackerListFails, discover_ruler_rules, TenantDiscovered, TenantSkipped,
         StillToAsk, DiscoveryFails, TickEnds, Goto
    <3> QED
      BY <3>1, <3>2
  <2>5. CASE TrackerPlans \/ NothingLeft("tracker")
    BY <1>0, <2>5 DEF TrackerPlans, Plan, NothingLeft, TickEnds, Goto
  <2> QED
    BY <1>3, <2>1, <2>2, <2>3, <2>4, <2>5 DEF TrackerStep, TrackerNext
<1>4. CASE UserStep
  BY <1>4 DEF UserStep, taskVars
<1> QED
  BY <1>1, <1>2, <1>3, <1>4 DEF InformerNext, Other

UserWrites(n) ==
    /\ edits' = edits + 1
    /\ \/ resources'[n] = Absent
       \/ \E rule \in UserRules :
             resources'[n].tenants = rule.tenants /\ resources'[n].groups = rule.groups
UpdaterWrites(n) ==
    /\ "updater" \in enabled /\ at["updater"] = "patch"
    /\ n \in fresh["updater"] /\ resources'[n] \in Rule
    /\ \E i \in DOMAIN listed["updater"] :
          /\ listed["updater"][i].name = n
          /\ Range(listed["updater"][i].groups) # {}
          /\ resources'[n].tenants = listed["updater"][i].tenants
          /\ resources'[n].groups = listed["updater"][i].groups
TrackerWrites(n) ==
    /\ "tracker" \in enabled /\ at["tracker"] = "patch" /\ patch.name = n
    /\ \/ patch.kind = "delete" /\ resources'[n] = Absent
       \/ /\ patch.kind = "apply"
          /\ patch.versioned => n \in fresh["tracker"]
          /\ resources'[n] = [patch.object EXCEPT !.ruler_updated = TRUE]

\* A resource changes by one request of a user, of the updater that marks it as
\* listed, or of the tracker that applies its patch.
LEMMA ResourceChanges ==
    ASSUME TypeInv, [InformerNext]_informerVars, NEW n \in ResourceNames,
           resources'[n] # resources[n]
    PROVE  UserWrites(n) \/ UpdaterWrites(n) \/ TrackerWrites(n)
<1>0. ResourcesOK /\ "updater" \in Tasks /\ "tracker" \in Tasks
  BY DEF TypeInv, Tasks
<1>1. ASSUME NEW m \in ResourceNames, NEW object \in Rule \cup {Absent}, Write(m, object)
      PROVE  m = n /\ resources'[n] = object
  BY <1>0, <1>1, WriteOK DEF ResourcesOK
<1>2. CASE Other
  BY <1>2 DEF Other, Start, StartFails, Crash, RequestFails, storeVars, informerVars
<1>3. CASE UpdaterStep
  <2>1. UpdaterMarks
    BY <1>3 DEF UpdaterStep, UpdaterNext, UpdaterLists, Listed, UpdaterListFails,
       UpdaterDiscovers, discover_ruler_rules, TenantDiscovered, TenantSkipped,
       DiscoveryFails, UpdaterPlans, Plan, UpdaterUpdates, UpdaterRemoves, NothingLeft,
       TickEnds, RequestFails, storeVars
  <2>2. at["updater"] = "patch" /\ "updater" \in enabled
    BY <1>3, <2>1 DEF UpdaterMarks, UpdaterStep, Spawned
  <2> QED
    BY <1>1, <2>1, <2>2, UpdaterMarksWhat DEF UpdaterWrites
<1>4. CASE TrackerStep
  <2>1. TrackerPatches
    BY <1>4 DEF TrackerStep, TrackerNext, TrackerLoadsTenants, TrackerLoadFails,
       TrackerDiscovers, discover_ruler_rules, TenantDiscovered, TenantSkipped,
       DiscoveryFails, TrackerLists, Listed, TrackerListFails, TrackerPlans, Plan,
       TrackerLooksUp, TrackerLookUpFails, NothingLeft, TickEnds, RequestFails, storeVars
  <2>2. at["tracker"] = "patch" /\ "tracker" \in enabled
    BY <1>4, <2>1 DEF TrackerPatches, TrackerStep, Spawned
  <2> QED
    BY <1>1, <2>1, <2>2, TrackerPatchesWhat DEF TrackerWrites
<1>5. CASE UserStep
  <2>1. PICK m \in ResourceNames, object \in Rule \cup {Absent} :
           /\ Write(m, object)
           /\ \/ object = Absent
              \/ \E rule \in UserRules :
                    object.tenants = rule.tenants /\ object.groups = rule.groups
    BY <1>5, UserWritesWhat DEF UserStep
  <2>2. resources'[n] = object /\ edits' = edits + 1
    BY <1>1, <1>5, <2>1, UserWritesWhat DEF UserStep
  <2> QED
    BY <2>1, <2>2 DEF UserWrites
<1> QED
  BY <1>2, <1>3, <1>4, <1>5 DEF InformerNext, Other

\* What is fresh to a task has not changed, or the task has just listed it.
LEMMA FreshChanges ==
    ASSUME TypeInv, [InformerNext]_informerVars, NEW task \in Tasks,
           NEW n \in ResourceNames, n \in fresh'[task]
    PROVE  \/ n \in fresh[task] /\ resources'[n] = resources[n]
           \/ task = "updater" /\ UpdaterLists
           \/ task = "tracker" /\ (TrackerLists \/ TrackerLooksUp)
<1> SUFFICES ASSUME /\ task = "updater" => ~UpdaterLists
                    /\ task = "tracker" => ~(TrackerLists \/ TrackerLooksUp)
             PROVE  n \in fresh[task] /\ resources'[n] = resources[n]
  OBVIOUS
<1>0. ResourcesOK /\ Tasks = {"updater", "tracker"}
  BY DEF TypeInv, Tasks
<1>1. ASSUME NEW m \in ResourceNames, NEW object \in Rule \cup {Absent}, Write(m, object)
      PROVE  n \in fresh[task] /\ resources'[n] = resources[n]
  BY <1>0, <1>1, WriteOK DEF ResourcesOK
<1>2. CASE UNCHANGED <<resources, fresh>>
  BY <1>2
<1>3. CASE Other
  BY <1>0, <1>3 DEF Other, Start, StartFails, Crash, RequestFails, storeVars, informerVars
<1>4. ASSUME NEW other \in Tasks, TickEnds(other)
      PROVE  n \in fresh[task] /\ resources'[n] = resources[n]
  BY <1>0, <1>4 DEF TickEnds, ResourcesOK
<1>5. ASSUME NEW other \in Tasks, NEW rules, Listed(other, rules), other # task
      PROVE  n \in fresh[task] /\ resources'[n] = resources[n]
  BY <1>0, <1>5 DEF Listed, ResourcesOK
<1>6. CASE UpdaterStep
  <2>1. CASE TickEnds("updater")
    BY <1>0, <1>4, <2>1
  <2>2. CASE UpdaterLists
    BY <1>0, <1>5, <2>2 DEF UpdaterLists
  <2>3. CASE UpdaterMarks
    BY <1>1, <1>2, <2>3, UpdaterMarksWhat
  <2> QED
    BY <1>2, <1>6, <2>1, <2>2, <2>3
    DEF UpdaterStep, UpdaterNext, UpdaterListFails, UpdaterDiscovers, discover_ruler_rules,
        TenantDiscovered, TenantSkipped, DiscoveryFails, UpdaterPlans, Plan,
        UpdaterUpdates, UpdaterRemoves, NothingLeft, RequestFails, storeVars
<1>7. CASE TrackerStep
  <2>1. CASE TickEnds("tracker")
    BY <1>0, <1>4, <2>1
  <2>2. CASE TrackerLists \/ TrackerLooksUp
    BY <1>0, <1>5, <2>2 DEF TrackerLists, TrackerLooksUp
  <2>3. CASE TrackerPatches
    BY <1>1, <1>2, <2>3, TrackerPatchesWhat
  <2> QED
    BY <1>2, <1>7, <2>1, <2>2, <2>3
    DEF TrackerStep, TrackerNext, TrackerLoadsTenants, TrackerLoadFails, TrackerDiscovers,
        discover_ruler_rules, TenantDiscovered, TenantSkipped, DiscoveryFails,
        TrackerListFails, TrackerPlans, Plan, TrackerLookUpFails, NothingLeft,
        RequestFails, storeVars
<1>8. CASE UserStep
  BY <1>1, <1>2, <1>8, UserWritesWhat DEF UserStep
<1> QED
  BY <1>3, <1>6, <1>7, <1>8 DEF InformerNext, Other

-----------------------------------------------------------------------------
(* RulerKeepsRules.                                                        *)

\* The options do not change.
LEMMA OptionsStay == ASSUME [InformerNext]_informerVars PROVE UNCHANGED options
BY DEF InformerNext, Start, StartFails, Crash, UpdaterStep, TrackerStep, UserStep,
       informerVars, options

\* The updater's plan has removals only if the option says so.
LEMMA RemovalInvStep ==
    ASSUME TypeInv, RemovalInv, [InformerNext]_informerVars
    PROVE  RemovalInv'
<1>1. UNCHANGED enable_updater_remove_rules /\ "updater" \in Tasks
  BY OptionsStay DEF options, Tasks
<1>2. CASE UpdaterPlans
  <2>1. IsMap(RulerMap(found["updater"])) /\ IsMap(K8sMap("updater"))
    BY <1>1, MapsOK DEF TypeInv
  <2>2. PICK target, origin : /\ target = RulerMap(found["updater"])
                              /\ origin = K8sMap("updater")
    OBVIOUS
  <2>3. /\ enable_updater_remove_rules \in BOOLEAN
        /\ work \in [Tasks -> Seq(Item)]
    BY DEF TypeInv, ProcessOK, WorkOK
  <2>4. \A item : item \in Range(work'["updater"]) <=>
           Planned(target, origin, enable_updater_remove_rules, item)
    BY <1>1, <1>2, <2>1, <2>2, <2>3, PlannedItems, RuleStoresAssumption DEF UpdaterPlans
  <2> QED
    BY <1>1, <2>4 DEF RemovalInv, Planned, ItemOf
<1>3. CASE ~UpdaterPlans
  <2>1. Range(work'["updater"]) \subseteq Range(work["updater"])
    BY <1>1, <1>3, WorkChanges
  <2> QED
    BY <1>1, <2>1 DEF RemovalInv
<1> QED
  BY <1>2, <1>3

\* Unless the option to remove is set, no step but a user's takes a group's name
\* from a tenant in the Ruler: the updater puts groups, one for another.
THEOREM RulerRulesAreKept == InformerSpec => RulerKeepsRules
<1>1. InformerInit => TypeInv /\ RemovalInv
  <2>1. ASSUME InformerInit PROVE Range(work["updater"]) = {}
    BY <2>1 DEF InformerInit, TaskInit, NothingBegun, Tasks, Range
  <2> QED
    BY <2>1, InitTypeInv DEF RemovalInv
<1>2. TypeInv /\ RemovalInv /\ [InformerNext]_informerVars => (TypeInv /\ RemovalInv)'
  BY TypeInvStep, RemovalInvStep
<1>3. TypeInv /\ RemovalInv /\ [InformerNext]_informerVars =>
        [~enable_updater_remove_rules /\ edits' = edits
           => \A t \in Tenants : Names(ruler[t]) \subseteq Names(ruler'[t])]_informerVars
  <2> SUFFICES ASSUME TypeInv, RemovalInv, [InformerNext]_informerVars,
                      ~enable_updater_remove_rules, edits' = edits, NEW t \in Tenants
               PROVE  Names(ruler[t]) \subseteq Names(ruler'[t])
    OBVIOUS
  <2>0. "updater" \in Tasks /\ RulerOK /\ WorkOK /\ edits \in Nat
    BY RuleStoresAssumption DEF Tasks, TypeInv, CountsOK
  <2>1. CASE /\ Working("updater", "update")
             /\ PutGroup(NextItem("updater").tenant, NextItem("updater").group)
    <3>1. NextItem("updater") \in Item
      BY <2>0, <2>1, NextItemOK DEF Working
    <3>2. PICK item \in Item : item = NextItem("updater")
      BY <3>1
    <3>3. ruler' = [ruler EXCEPT ![item.tenant] =
                      Without(ruler[item.tenant], item.group.name) \cup {item.group}]
      BY <2>0, <2>1, <3>2, PutGroupOK DEF Item
    <3> QED
      BY <2>0, <3>3 DEF RulerOK, Without, Names
  <2>2. CASE Working("updater", "removal")
    <3>1. NextItem("updater") \in Range(work["updater"])
      BY <2>0, <2>2, NextItemOK DEF Working
    <3> QED
      BY <2>2, <3>1 DEF RemovalInv, Working
  <2>3. CASE UNCHANGED ruler
    BY <2>3
  <2> QED
    BY <2>0, <2>1, <2>2, <2>3, RulerChanges
<1> QED
  BY <1>1, <1>2, <1>3, PTL DEF InformerSpec, RulerKeepsRules

-----------------------------------------------------------------------------
(* TenantsStayApart.                                                       *)

\* A resource of a user is good: it shares its groups itself.
LEMMA UserRuleIsGood ==
    ASSUME NEW rule \in UserRules, NEW object, object.tenants = rule.tenants,
           object.groups = rule.groups
    PROVE  GoodRule(object)
BY DEF GoodRule, Together, AllAllowed, Allowed, Given, GivesIn, Apart, Names

\* A group allowed for one tenant of a good resource that has a group of its name
\* is allowed for all of them.
LEMMA HoldersShare ==
    ASSUME NEW rule, GoodRule(rule), NEW group, NEW t \in rule.tenants,
           NEW u \in rule.tenants, \E g \in Range(rule.groups) : g.name = group.name,
           Allowed(t, group)
    PROVE  Allowed(u, group)
<1> SUFFICES ASSUME NEW ts \in SUBSET Tenants, u \in ts, Apart(ts, group.name)
             PROVE  \E v \in ts : Given(v, group)
  BY DEF Allowed
<1>1. t \in ts
  BY DEF GoodRule, Together
<1> QED
  BY <1>1 DEF Allowed

\* What the tracker makes of good resources and a group it may take from the Ruler
\* is a good resource.
LEMMA PatchIsGood ==
    ASSUME NEW rules \in Seq(ListedRule), \A i \in DOMAIN rules : GoodRule(rules[i]),
           NEW item \in Item, item.kind = "update" => Allowed(item.tenant, item.group),
           NEW p, p = PatchFor(rules, item), p.kind = "apply"
    PROVE  GoodRule(p.object)
<1>1. PatchOf(rules, item, p)
  BY PatchesOneGroup
<1>2. CASE p.versioned
  <2>1. PICK i \in DOMAIN rules :
          /\ IsHolder(rules[i], item)
          /\ p.object.tenants = rules[i].tenants
          /\ \A g \in Range(p.object.groups) :
                g \in Range(rules[i].groups) \/ (item.kind = "update" /\ g = item.group)
    BY <1>1, <1>2 DEF PatchOf
  <2>2. PICK rule : rule = rules[i] /\ GoodRule(rule)
    BY <2>1
  <2>3. Together(p.object)
    BY <2>1, <2>2 DEF Together, GoodRule, IsHolder
  <2>4. ASSUME NEW t \in rule.tenants, item.kind = "update"
        PROVE  Allowed(t, item.group)
    BY <2>1, <2>2, <2>4, HoldersShare DEF IsHolder
  <2>5. AllAllowed(p.object)
    BY <2>1, <2>2, <2>4 DEF AllAllowed, GoodRule
  <2> QED
    BY <2>3, <2>5 DEF GoodRule
<1>3. CASE ~p.versioned
  <2>1. /\ item.kind = "update"
        /\ p.object.tenants = {item.tenant} /\ Range(p.object.groups) = {item.group}
    BY <1>1, <1>3 DEF PatchOf
  <2> QED
    BY <2>1 DEF GoodRule, Together, AllAllowed
<1> QED
  BY <1>2, <1>3

\* What a task plans to write comes from the store it has read.
LEMMA PlanIsAllowed ==
    ASSUME TypeInv, SharingInv, NEW task \in Tasks,
           \/ task = "updater" /\ UpdaterPlans
           \/ task = "tracker" /\ TrackerPlans,
           NEW item \in Range(work'[task]), item.kind = "update"
    PROVE  Allowed(item.tenant, item.group)
<1>0. /\ work \in [Tasks -> Seq(Item)] /\ enable_updater_remove_rules \in BOOLEAN
      /\ listed \in [Tasks -> Seq(ListedRule)]
      /\ found \in [Tasks -> [Tenants -> SUBSET Group]]
      /\ \A t \in Tenants : IsFiniteSet(found[task][t])
  BY DEF TypeInv, WorkOK, ProcessOK, ReadOK
<1>1. PICK ours, theirs : ours = K8sMap(task) /\ theirs = RulerMap(found[task])
  OBVIOUS
<1>2. IsMap(ours) /\ IsMap(theirs)
  BY <1>1, MapsOK DEF TypeInv
<1>3. ASSUME NEW t \in DOMAIN ours, NEW e \in Range(ours[t])
      PROVE  Allowed(t, e.group)
  <2>1. PICK rules \in Seq(ListedRule) : rules = listed[task]
    BY <1>0
  <2>2. t \in Tenants /\ ours = get_tenant_map_from_rules_list(rules)
    BY <1>1, <1>2, <2>1 DEF K8sMap, IsMap
  <2>3. PICK i \in DOMAIN rules : \E j \in DOMAIN rules[i].groups :
           t \in rules[i].tenants /\ e = Entry(rules[i].groups[j], i)
    BY <2>2, MapOfRules
  <2> QED
    BY <2>1, <2>3 DEF SharingInv, GoodRule, AllAllowed, Entry, Range
<1>4. ASSUME NEW t \in DOMAIN theirs, NEW e \in Range(theirs[t])
      PROVE  Allowed(t, e.group)
  <2>1. PICK groups \in [Tenants -> SUBSET Group] : groups = found[task]
    BY <1>0
  <2>2. t \in Tenants /\ theirs = RulerMap(groups)
    BY <1>1, <1>2, <2>1 DEF IsMap
  <2>3. \E group \in groups[t] : e = Entry(group, 0)
    BY <1>0, <2>1, <2>2, MapOfRuler
  <2> QED
    BY <2>1, <2>2, <2>3 DEF SharingInv, Entry
<1>5. CASE task = "updater" /\ UpdaterPlans
  <2>1. Planned(theirs, ours, enable_updater_remove_rules, item)
    BY <1>0, <1>1, <1>2, <1>5, PlannedItems, RuleStoresAssumption DEF UpdaterPlans
  <2> QED
    BY <1>3, <2>1 DEF Planned, ItemOf
<1>6. CASE task = "tracker" /\ TrackerPlans
  <2>1. Planned(ours, theirs, TRUE, item)
    BY <1>0, <1>1, <1>2, <1>6, PlannedItems, RuleStoresAssumption DEF TrackerPlans
  <2> QED
    BY <1>4, <2>1 DEF Planned, ItemOf
<1> QED
  BY <1>5, <1>6

\* What a listing returns is as good as the resources it is of.
LEMMA ListingIsGood ==
    ASSUME SharingInv, NEW rules, IsListing(rules), NEW i \in DOMAIN rules
    PROVE  GoodRule(rules[i])
<1>1. PICK n \in ResourceNames : Present(n) /\ rules[i] = AsListed(n)
  BY DEF IsListing
<1>2. PICK rule, object : rule = rules[i] /\ object = resources[n] /\ GoodRule(object)
  BY <1>1 DEF SharingInv
<1>3. rule.tenants = object.tenants /\ rule.groups = object.groups
  BY <1>1, <1>2 DEF AsListed
<1> QED
  BY <1>2, <1>3 DEF GoodRule, Together, AllAllowed

\* A resource that a step writes is good: it is a user's, one that the updater has
\* listed, or what the tracker made of those it has listed.
LEMMA WritesAreGood ==
    ASSUME TypeInv, SharingInv, [InformerNext]_informerVars, NEW n \in ResourceNames,
           resources'[n] # Absent
    PROVE  GoodRule(resources'[n])
<1>1. CASE resources'[n] = resources[n]
  BY <1>1 DEF SharingInv, Present
<1>2. CASE UserWrites(n)
  BY <1>2, UserRuleIsGood DEF UserWrites
<1>3. CASE UpdaterWrites(n)
  <2>1. PICK i \in DOMAIN listed["updater"] :
          /\ resources'[n].tenants = listed["updater"][i].tenants
          /\ resources'[n].groups = listed["updater"][i].groups
    BY <1>3 DEF UpdaterWrites
  <2>2. GoodRule(listed["updater"][i])
    BY DEF SharingInv, Tasks
  <2> QED
    BY <2>1, <2>2 DEF GoodRule, Together, AllAllowed
<1>4. CASE TrackerWrites(n)
  <2>1. /\ patch.kind = "apply"
        /\ resources'[n] = [patch.object EXCEPT !.ruler_updated = TRUE]
    BY <1>4 DEF TrackerWrites
  <2>2. PICK object \in Rule : object = patch.object /\ GoodRule(object)
    BY <2>1 DEF TypeInv, ReadOK, Patch, SharingInv
  <2>3. PICK new : new = [object EXCEPT !.ruler_updated = TRUE] /\ resources'[n] = new
    BY <2>1, <2>2
  <2>4. new.tenants = object.tenants /\ new.groups = object.groups
    BY <2>3 DEF Rule
  <2> QED
    BY <2>2, <2>3, <2>4 DEF GoodRule, Together, AllAllowed
<1> QED
  BY <1>1, <1>2, <1>3, <1>4, ResourceChanges

\* A group that a step puts into the Ruler is a user's for that tenant, or one
\* that the updater had planned for it.
LEMMA PutsAreAllowed ==
    ASSUME TypeInv, SharingInv, [InformerNext]_informerVars, NEW t \in Tenants,
           NEW group \in ruler'[t]
    PROVE  Allowed(t, group)
<1>0. "updater" \in Tasks /\ RulerOK /\ WorkOK
  BY DEF Tasks, TypeInv
<1>1. ASSUME group \in ruler[t] PROVE Allowed(t, group)
  BY <1>1 DEF SharingInv
<1>2. ASSUME NEW u \in Tenants, NEW g \in Group, PutGroup(u, g)
      PROVE  group \in ruler[t] \/ (t = u /\ group = g)
  BY <1>0, <1>2, PutGroupOK DEF Without, RulerOK
<1>3. ASSUME NEW u \in Tenants, NEW name, DropGroup(u, name)
      PROVE  group \in ruler[t]
  BY <1>0, <1>3, DropGroupOK DEF Without, RulerOK
<1>4. CASE UserPutsGroup
  <2>1. PICK user \in UserGroups : PutGroup(user.tenant, user.group)
    BY <1>4 DEF UserPutsGroup
  <2>2. /\ user.tenant \in Tenants /\ user.group \in Group
        /\ user = [tenant |-> user.tenant, group |-> user.group]
    BY RuleStoresAssumption
  <2> QED
    BY <1>1, <1>2, <2>1, <2>2 DEF Allowed, Given
<1>5. CASE UserDropsGroup
  BY <1>1, <1>3, <1>5 DEF UserDropsGroup
<1>6. CASE /\ Working("updater", "update")
           /\ PutGroup(NextItem("updater").tenant, NextItem("updater").group)
  <2>1. /\ NextItem("updater") \in Item /\ NextItem("updater") \in Range(work["updater"])
        /\ NextItem("updater").kind = "update"
    BY <1>0, <1>6, NextItemOK DEF Working
  <2>2. Allowed(NextItem("updater").tenant, NextItem("updater").group)
    BY <1>0, <2>1 DEF SharingInv
  <2> QED
    BY <1>1, <1>2, <1>6, <2>1, <2>2 DEF Item
<1>7. CASE /\ Working("updater", "removal")
           /\ DropGroup(NextItem("updater").tenant, NextItem("updater").group.name)
  <2>1. NextItem("updater") \in Item
    BY <1>0, <1>7, NextItemOK DEF Working
  <2> QED
    BY <1>1, <1>3, <1>7, <2>1 DEF Item
<1> QED
  BY <1>1, <1>4, <1>5, <1>6, <1>7, RulerChanges

\* The invariant is kept: groups pass between a task's memory and the two stores
\* only as it says.
LEMMA SharingInvStep ==
    ASSUME TypeInv, SharingInv, [InformerNext]_informerVars
    PROVE  SharingInv'
<1>1. \A n \in ResourceNames : Present(n)' => GoodRule(resources'[n])
  BY WritesAreGood DEF Present
<1>2. ASSUME NEW task \in Tasks, NEW i \in DOMAIN listed'[task]
      PROVE  GoodRule(listed'[task][i])
  BY <1>2, ListedChanges, ListingIsGood DEF SharingInv
<1>3. patch'.kind = "apply" => GoodRule(patch'.object)
  <2>1. CASE UNCHANGED patch
    BY <2>1 DEF SharingInv
  <2>2. CASE patch' = NoPatch
    BY <2>2 DEF NoPatch
  <2>3. CASE TrackerLooksUp
    <3>0. "tracker" \in Tasks
      BY DEF Tasks
    <3>1. PICK rules \in Listings :
             Listed("tracker", rules) /\ patch' = PatchFor(rules, NextItem("tracker"))
      BY <2>3 DEF TrackerLooksUp
    <3>2. IsListing(rules) /\ rules \in Seq(ListedRule)
      BY <3>0, <3>1, ListedOK DEF IsListing
    <3>3. PICK item \in Item :
             item = NextItem("tracker") /\ item \in Range(work["tracker"])
      BY <2>3, <3>0, NextItemOK DEF TrackerLooksUp, TypeInv
    <3>4. item.kind = "update" => Allowed(item.tenant, item.group)
      BY <3>0, <3>3 DEF SharingInv
    <3>5. \A i \in DOMAIN rules : GoodRule(rules[i])
      BY <3>2, ListingIsGood
    <3> QED
      BY <3>1, <3>2, <3>3, <3>4, <3>5, PatchIsGood
  <2> QED
    BY <2>1, <2>2, <2>3, PatchChanges
<1>4. \A t \in Tenants : \A group \in ruler'[t] : Allowed(t, group)
  BY PutsAreAllowed
<1>5. ASSUME NEW task \in Tasks, NEW t \in Tenants, NEW group \in found'[task][t]
      PROVE  Allowed(t, group)
  BY <1>5, FoundChanges DEF SharingInv
<1>6. ASSUME NEW task \in Tasks, NEW item \in Range(work'[task]), item.kind = "update"
      PROVE  Allowed(item.tenant, item.group)
  BY <1>6, WorkChanges, PlanIsAllowed DEF SharingInv
<1> QED
  BY <1>1, <1>2, <1>3, <1>4, <1>5, <1>6 DEF SharingInv

\* In either store a tenant has only groups that users gave to it, or to a tenant
\* that resources of users link to it by sharing a group of that name.
THEOREM TenantsKeepApart == InformerSpec => []TenantsStayApart
<1>1. InformerInit => TypeInv /\ SharingInv
  <2> SUFFICES ASSUME InformerInit PROVE SharingInv
    BY InitTypeInv
  <2>1. PICK rules \in [UserNames -> { RuleOf(rule) : rule \in UserRules } \cup {Absent}] :
           resources = [n \in ResourceNames |-> IF n \in UserNames THEN rules[n] ELSE Absent]
    BY DEF InformerInit, StoresInit
  <2>2. ASSUME NEW n \in ResourceNames, Present(n) PROVE GoodRule(resources[n])
    <3>1. PICK rule \in UserRules : resources[n] = RuleOf(rule)
      BY <2>1, <2>2 DEF Present
    <3> QED
      BY <3>1, UserRuleIsGood DEF RuleOf
  <2>3. /\ \A task \in Tasks : listed[task] = << >> /\ work[task] = << >>
        /\ \A task \in Tasks, t \in Tenants : found[task][t] = {}
        /\ \A t \in Tenants : ruler[t] = {}
        /\ patch.kind = "none"
    BY DEF InformerInit, StoresInit, TaskInit, NothingBegun, NoGroups, NoPatch
  <2>4. DOMAIN << >> = {} /\ Range(<< >>) = {}
    BY DEF Range
  <2> QED
    BY <2>2, <2>3, <2>4 DEF SharingInv
<1>2. TypeInv /\ SharingInv /\ [InformerNext]_informerVars => (TypeInv /\ SharingInv)'
  BY TypeInvStep, SharingInvStep
<1>3. TypeInv /\ SharingInv => TenantsStayApart
  BY DEF SharingInv, TenantsStayApart, Groups, GoodRule, AllAllowed
<1> QED
  BY <1>1, <1>2, <1>3, PTL DEF InformerSpec

-----------------------------------------------------------------------------
(* PatchKeepsOthers and TenantsStayNamed.                                  *)

\* The updater's listing shows what is fresh to it as it is.
LEMMA ListedIsFresh ==
    ASSUME TypeInv, FreshInv, [InformerNext]_informerVars,
           NEW i \in DOMAIN listed'["updater"], NEW n, n = listed'["updater"][i].name,
           n \in fresh'["updater"]
    PROVE  Present(n)' /\ AsListed(n)' = listed'["updater"][i]
<1>0. "updater" \in Tasks /\ listed["updater"] \in Seq(ListedRule)
  BY DEF Tasks, TypeInv, ReadOK
<1>1. CASE UNCHANGED resources /\ IsListing(listed'["updater"])
  <2>1. PICK m \in ResourceNames : Present(m) /\ listed'["updater"][i] = AsListed(m)
    BY <1>1 DEF IsListing
  <2>2. n = m
    BY <2>1 DEF AsListed
  <2> QED
    BY <1>1, <2>1, <2>2 DEF Present, AsListed
<1>2. CASE UpdaterLists
  <2>1. PICK rules \in Listings :
           Listed("updater", rules) /\ listed' = [listed EXCEPT !["updater"] = rules]
    BY <1>2 DEF UpdaterLists
  <2>2. UNCHANGED resources /\ IsListing(rules)
    BY <1>0, <2>1, ListedOK DEF IsListing
  <2>3. listed'["updater"] = rules
    BY <1>0, <2>1 DEF TypeInv, ReadOK
  <2> QED
    BY <1>1, <2>2, <2>3
<1>3. CASE listed'["updater"] = listed["updater"] /\ ~UpdaterLists
  <2>1. i \in DOMAIN listed["updater"] /\ n = listed["updater"][i].name
    BY <1>3
  <2>2. listed["updater"][i] \in ListedRule
    BY <1>0, <2>1, LenProperties, ElementOfSeq
  <2>3. n \in ResourceNames
    BY <2>1, <2>2 DEF ListedRule
  <2>4. n \in fresh["updater"] /\ resources'[n] = resources[n]
    BY <1>0, <1>3, <2>3, FreshChanges
  <2> QED
    BY <1>3, <2>1, <2>4 DEF FreshInv, Present, AsListed
<1>4. CASE listed'["updater"] = << >>
  BY <1>4
<1> QED
  BY <1>0, <1>1, <1>2, <1>3, <1>4, ListedChanges

\* The patch the tracker has made of a listing fits the resource as it was listed.
LEMMA LookedUpFits ==
    ASSUME TypeInv, TrackerLooksUp
    PROVE  /\ PatchFits'
           /\ patch'.kind = "apply" => patch'.object.ruler_updated
<1>0. "tracker" \in Tasks
  BY DEF Tasks
<1>1. PICK rules \in Listings :
         Listed("tracker", rules) /\ patch' = PatchFor(rules, NextItem("tracker"))
  BY DEF TrackerLooksUp
<1>2. IsListing(rules) /\ rules \in Seq(ListedRule) /\ UNCHANGED resources
  BY <1>0, <1>1, ListedOK DEF IsListing
<1>3. PICK item \in Item : item = NextItem("tracker")
  BY <1>0, NextItemOK DEF TrackerLooksUp, TypeInv
<1>4. NextItem("tracker")' = item
  BY <1>3 DEF TrackerLooksUp, NextItem
<1>5. PatchOf(rules, item, patch')
  BY <1>1, <1>2, <1>3, PatchesOneGroup
<1>6. ASSUME NEW i \in DOMAIN rules
      PROVE  /\ Groups(rules[i].name)' = Range(rules[i].groups)
             /\ resources'[rules[i].name].groups = rules[i].groups
             /\ resources'[rules[i].name].tenants = rules[i].tenants
  <2>1. PICK n \in ResourceNames : Present(n) /\ rules[i] = AsListed(n)
    BY <1>2 DEF IsListing
  <2>2. /\ rules[i].name = n /\ rules[i].groups = resources[n].groups
        /\ rules[i].tenants = resources[n].tenants
    BY <2>1 DEF AsListed
  <2> QED
    BY <1>2, <2>1, <2>2 DEF Groups, Present
<1>7. PICK p, name : p = patch' /\ name = item.group.name
  OBVIOUS
<1>8. ASSUME p.kind = "delete"
      PROVE  /\ Without(Groups(p.name)', name) = {}
             /\ Groups(p.name)' # {} /\ Len(resources'[p.name].groups) = 1
  <2>1. PICK i \in DOMAIN rules :
           /\ IsHolder(rules[i], item) /\ p.name = rules[i].name
           /\ Len(rules[i].groups) = 1
           /\ Without(Range(rules[i].groups), name) = {}
    BY <1>5, <1>7, <1>8 DEF PatchOf
  <2> QED
    BY <1>6, <2>1 DEF IsHolder
<1>9. ASSUME p.kind = "apply", p.versioned
      PROVE  /\ Without(Range(p.object.groups), name) = Without(Groups(p.name)', name)
             /\ Groups(p.name)' # {} /\ Range(p.object.groups) # {}
             /\ p.object.tenants = resources'[p.name].tenants
  <2>1. PICK i \in DOMAIN rules :
           /\ IsHolder(rules[i], item) /\ p.name = rules[i].name
           /\ p.object.tenants = rules[i].tenants
           /\ Range(p.object.groups) # {}
           /\ Without(Range(p.object.groups), name) = Without(Range(rules[i].groups), name)
    BY <1>5, <1>7, <1>9 DEF PatchOf
  <2> QED
    BY <1>6, <2>1 DEF IsHolder
<1>10. PatchFits'
  BY <1>4, <1>7, <1>8, <1>9 DEF PatchFits, Groups, Present
<1> QED
  BY <1>5, <1>10 DEF PatchOf

\* The invariant is kept: what changes is no longer fresh.
LEMMA FreshInvStep ==
    ASSUME TypeInv, FreshInv, [InformerNext]_informerVars
    PROVE  FreshInv'
<1>0. "tracker" \in Tasks
  BY DEF Tasks
<1>1. ASSUME NEW i \in DOMAIN listed'["updater"], NEW n, n = listed'["updater"][i].name,
             n \in fresh'["updater"]
      PROVE  Present(n)' /\ AsListed(n)' = listed'["updater"][i]
  BY <1>1, ListedIsFresh
<1>2. ASSUME at'["tracker"] = "patch", patch'.kind # "none",
             patch'.name \in fresh'["tracker"]
      PROVE  PatchFits'
  <2>1. CASE TrackerLooksUp
    BY <2>1, LookedUpFits
  <2>2. CASE /\ UNCHANGED patch /\ at["tracker"] = "patch"
             /\ work'["tracker"] = work["tracker"]
    <3>1. patch.name \in ResourceNames
      BY <1>2, <2>2 DEF TypeInv, ReadOK, Patch
    <3>2. ~TrackerLists /\ ~TrackerLooksUp
      BY <2>2 DEF TrackerLists, TrackerLooksUp
    <3>3. patch.name \in fresh["tracker"] /\ resources'[patch.name] = resources[patch.name]
      BY <1>0, <1>2, <2>2, <3>1, <3>2, FreshChanges
    <3>4. PatchFits
      BY <1>2, <2>2, <3>3 DEF FreshInv
    <3>5. Groups(patch.name)' = Groups(patch.name)
      BY <2>2, <3>3 DEF Groups, Present
    <3>6. NextItem("tracker")' = NextItem("tracker")
      BY <2>2 DEF NextItem
    <3> QED
      BY <2>2, <3>3, <3>4, <3>5, <3>6 DEF PatchFits
  <2>3. CASE patch' = NoPatch
    BY <1>2, <2>3 DEF NoPatch
  <2> QED
    BY <1>2, <2>1, <2>2, <2>3, PatchChanges
<1>3. patch'.kind = "apply" => patch'.object.ruler_updated
  <2>1. CASE TrackerLooksUp
    BY <2>1, LookedUpFits
  <2>2. CASE UNCHANGED patch
    BY <2>2 DEF FreshInv
  <2>3. CASE patch' = NoPatch
    BY <2>3 DEF NoPatch
  <2> QED
    BY <2>1, <2>2, <2>3, PatchChanges
<1> QED
  BY <1>1, <1>2, <1>3 DEF FreshInv, Present, AsListed

\* A step of a task that changes a resource changes only the groups of one name.
LEMMA WriteKeepsOthers ==
    ASSUME TypeInv, FreshInv, [InformerNext]_informerVars, edits' = edits,
           NEW n \in ResourceNames, Present(n), resources'[n] # resources[n],
           resources'[n] = Absent => n \in fresh["tracker"]
    PROVE  \E task \in enabled :
              /\ Doing(task)
              /\ LET name == NextItem(task).group.name
                 IN  \/ Without(Groups(n)', name) = Without(Groups(n), name)
                     \/ task = "tracker" /\ Creates(n)
<1>0. /\ Absent \notin Rule /\ edits \in Nat
      /\ "tracker" \in Tasks /\ "updater" \in Tasks
  BY RuleStoresAssumption DEF TypeInv, CountsOK, Tasks
<1>1. ~UserWrites(n)
  BY <1>0 DEF UserWrites
<1>2. \A task \in Tasks : at[task] = "patch" => Doing(task)
  BY DEF TypeInv, WorkOK, Doing
<1>3. CASE UpdaterWrites(n)
  <2>1. PICK i \in DOMAIN listed["updater"] :
          /\ listed["updater"][i].name = n
          /\ resources'[n].groups = listed["updater"][i].groups
    BY <1>3 DEF UpdaterWrites
  <2>2. AsListed(n) = listed["updater"][i]
    BY <1>3, <2>1 DEF UpdaterWrites, FreshInv
  <2>3. resources'[n].groups = resources[n].groups
    BY <2>1, <2>2 DEF AsListed
  <2>4. Groups(n)' = Groups(n)
    BY <1>0, <1>3, <2>3 DEF UpdaterWrites, Groups, Present
  <2> QED
    BY <1>0, <1>2, <1>3, <2>4 DEF UpdaterWrites
<1>4. CASE TrackerWrites(n)
  <2>1. Doing("tracker") /\ "tracker" \in enabled
    BY <1>0, <1>2, <1>4 DEF TrackerWrites
  <2>2. PICK name : name = NextItem("tracker").group.name
    OBVIOUS
  <2> SUFFICES \/ Without(Groups(n)', name) = Without(Groups(n), name)
               \/ Creates(n)
    BY <2>1, <2>2
  <2>3. CASE patch.kind = "delete"
    <3>1. patch.name = n /\ at["tracker"] = "patch" /\ resources'[n] = Absent
      BY <1>4, <2>3 DEF TrackerWrites
    <3>2. Without(Groups(n), name) = {}
      BY <2>2, <2>3, <3>1 DEF FreshInv, PatchFits
    <3>3. Groups(n)' = {}
      BY <3>1 DEF Groups, Present
    <3> QED
      BY <3>2, <3>3 DEF Without
  <2>4. CASE patch.kind = "apply"
    <3>1. PICK object \in Rule : object = patch.object /\ object.ruler_updated
      BY <2>4 DEF TypeInv, ReadOK, Patch, FreshInv
    <3>2. [object EXCEPT !.ruler_updated = TRUE] = object
      BY <3>1 DEF Rule
    <3>3. patch.name = n /\ at["tracker"] = "patch" /\ resources'[n] = object
      BY <1>4, <2>4, <3>1, <3>2 DEF TrackerWrites
    <3>4. CASE patch.versioned
      <4>1. n \in fresh["tracker"]
        BY <1>4, <2>4, <3>4 DEF TrackerWrites
      <4>2. Without(Range(object.groups), name) = Without(Groups(n), name)
        BY <2>2, <2>4, <3>1, <3>3, <3>4, <4>1 DEF FreshInv, PatchFits
      <4>3. Groups(n)' = Range(object.groups)
        BY <1>0, <3>1, <3>3 DEF Groups, Present
      <4> QED
        BY <4>2, <4>3
    <3>5. CASE ~patch.versioned
      BY <2>4, <3>1, <3>3, <3>5 DEF Creates
    <3> QED
      BY <3>4, <3>5
  <2> QED
    BY <1>4, <2>3, <2>4 DEF TrackerWrites
<1> QED
  BY <1>1, <1>3, <1>4, ResourceChanges

\* At the start nothing has been read.
LEMMA InitFreshInv == ASSUME InformerInit PROVE TypeInv /\ FreshInv
<1>1. /\ listed["updater"] = << >> /\ at["tracker"] = "tick" /\ patch.kind = "none"
      /\ DOMAIN << >> = {}
  BY DEF InformerInit, TaskInit, NothingBegun, NoPatch, Tasks
<1> QED
  BY <1>1, InitTypeInv DEF FreshInv

\* What somebody else has changed in a resource since it was listed, a task does
\* not undo: it changes one group, or makes a resource of its own.
THEOREM PatchesKeepOthers == InformerSpec => PatchKeepsOthers
<1>1. InformerInit => TypeInv /\ FreshInv
  BY InitFreshInv
<1>2. TypeInv /\ FreshInv /\ [InformerNext]_informerVars => (TypeInv /\ FreshInv)'
  BY TypeInvStep, FreshInvStep
<1>3. TypeInv /\ FreshInv /\ [InformerNext]_informerVars =>
        [\A n \in ResourceNames :
          /\ edits' = edits
          /\ Present(n) /\ resources'[n] # resources[n]
          /\ resources'[n] = Absent => n \in fresh["tracker"]
          => \E task \in enabled :
                /\ Doing(task)
                /\ LET name == NextItem(task).group.name
                   IN  \/ Without(Groups(n)', name) = Without(Groups(n), name)
                       \/ task = "tracker" /\ Creates(n)]_informerVars
  BY WriteKeepsOthers
<1> QED
  BY <1>1, <1>2, <1>3, PTL DEF InformerSpec, PatchKeepsOthers

\* A step of a task that changes a resource leaves it some group and its tenants,
\* or deletes it with its only group.
LEMMA WriteKeepsTenants ==
    ASSUME TypeInv, FreshInv, [InformerNext]_informerVars, edits' = edits,
           NEW n \in ResourceNames, Present(n), resources'[n] # resources[n], ~Creates(n),
           resources'[n] = Absent => n \in fresh["tracker"]
    PROVE  /\ Groups(n) # {}
           /\ IF Present(n)'
              THEN Groups(n)' # {} /\ resources'[n].tenants = resources[n].tenants
              ELSE Len(resources[n].groups) = 1
<1>0. Absent \notin Rule /\ edits \in Nat
  BY RuleStoresAssumption DEF TypeInv, CountsOK
<1>1. ~UserWrites(n)
  BY <1>0 DEF UserWrites
<1>2. CASE UpdaterWrites(n)
  <2>1. PICK i \in DOMAIN listed["updater"] :
          /\ listed["updater"][i].name = n
          /\ Range(listed["updater"][i].groups) # {}
          /\ resources'[n].tenants = listed["updater"][i].tenants
          /\ resources'[n].groups = listed["updater"][i].groups
    BY <1>2 DEF UpdaterWrites
  <2>2. AsListed(n) = listed["updater"][i]
    BY <1>2, <2>1 DEF UpdaterWrites, FreshInv
  <2>3. PICK old, new : old = resources[n] /\ new = resources'[n]
    OBVIOUS
  <2>4. Range(old.groups) # {} /\ new.groups = old.groups /\ new.tenants = old.tenants
    BY <2>1, <2>2, <2>3 DEF AsListed
  <2>5. Present(n)' /\ Groups(n) = Range(old.groups) /\ Groups(n)' = Range(new.groups)
    BY <1>0, <1>2, <2>3 DEF UpdaterWrites, Groups, Present
  <2> QED
    BY <2>3, <2>4, <2>5
<1>3. CASE TrackerWrites(n)
  <2>1. at["tracker"] = "patch" /\ patch.name = n
    BY <1>3 DEF TrackerWrites
  <2>2. CASE patch.kind = "delete"
    <3>1. resources'[n] = Absent /\ n \in fresh["tracker"]
      BY <1>3, <2>2 DEF TrackerWrites
    <3>2. Groups(n) # {} /\ Len(resources[n].groups) = 1
      BY <2>1, <2>2, <3>1 DEF FreshInv, PatchFits
    <3> QED
      BY <3>1, <3>2 DEF Present
  <2>3. CASE patch.kind = "apply"
    <3>1. PICK object \in Rule : object = patch.object /\ object.ruler_updated
      BY <2>3 DEF TypeInv, ReadOK, Patch, FreshInv
    <3>2. [object EXCEPT !.ruler_updated = TRUE] = object
      BY <3>1 DEF Rule
    <3>3. resources'[n] = object
      BY <1>3, <2>3, <3>1, <3>2 DEF TrackerWrites
    <3>4. patch.versioned
      BY <2>1, <2>3, <3>1, <3>3 DEF Creates
    <3>5. n \in fresh["tracker"]
      BY <1>3, <2>3, <3>4 DEF TrackerWrites
    <3>6. /\ Groups(n) # {} /\ Range(object.groups) # {}
          /\ object.tenants = resources[n].tenants
      BY <2>1, <2>3, <3>1, <3>4, <3>5 DEF FreshInv, PatchFits
    <3>7. Present(n)' /\ Groups(n)' = Range(object.groups)
      BY <1>0, <3>1, <3>3 DEF Groups, Present
    <3> QED
      BY <3>3, <3>6, <3>7
  <2> QED
    BY <1>3, <2>2, <2>3 DEF TrackerWrites
<1> QED
  BY <1>1, <1>2, <1>3, ResourceChanges

\* Whom a resource names, with groups or without, is for users to say: a task
\* leaves it its tenants and a group, or deletes it with the only one.
THEOREM TenantsKeepNamed == InformerSpec => TenantsStayNamed
<1>1. InformerInit => TypeInv /\ FreshInv
  BY InitFreshInv
<1>2. TypeInv /\ FreshInv /\ [InformerNext]_informerVars => (TypeInv /\ FreshInv)'
  BY TypeInvStep, FreshInvStep
<1>3. TypeInv /\ FreshInv /\ [InformerNext]_informerVars =>
        [\A n \in ResourceNames :
          /\ edits' = edits
          /\ Present(n) /\ resources'[n] # resources[n]
          /\ ~Creates(n)
          /\ resources'[n] = Absent => n \in fresh["tracker"]
          => /\ Groups(n) # {}
             /\ IF Present(n)'
                THEN Groups(n)' # {} /\ resources'[n].tenants = resources[n].tenants
                ELSE Len(resources[n].groups) = 1]_informerVars
  BY WriteKeepsTenants
<1> QED
  BY <1>1, <1>2, <1>3, PTL DEF InformerSpec, TenantsStayNamed

-----------------------------------------------------------------------------
(* PlanClosesGap.                                                          *)

\* The groups of a tenant in a map.
LEMMA GroupsInMap ==
    ASSUME NEW map, NEW t, NEW group
    PROVE  group \in GroupsIn(map, t) <=>
              t \in DOMAIN map /\ \E e \in Range(map[t]) : group = e.group
BY DEF GroupsIn, Range

\* If a tenant has one group of a name, the first that find_group_named() finds is
\* the one: it differs if, and only if, the tenant does not have that very group.
LEMMA DiffersIsAbsent ==
    ASSUME NEW map, IsMap(map), NEW t \in DOMAIN map, NEW group,
           OnePerName(GroupsIn(map, t))
    PROVE  /\ Differs(map[t], group) <=> group \notin GroupsIn(map, t)
           /\ find_group_named(map[t], group.name) = 0 <=>
                 group.name \notin Names(GroupsIn(map, t))
<1>1. PICK list : list = map[t] /\ list \in Seq(EntryType)
  BY DEF IsMap
<1>2. PICK i : i = find_group_named(list, group.name)
  OBVIOUS
<1>3. /\ i = 0 <=> \A j \in DOMAIN list : list[j].group.name # group.name
      /\ i # 0 => i \in DOMAIN list /\ list[i].group.name = group.name
  BY <1>1, <1>2, FindsGroup
<1>4. GroupsIn(map, t) = { list[j].group : j \in DOMAIN list }
  BY <1>1 DEF GroupsIn
<1>5. Differs(list, group) <=> (i = 0 \/ list[i].group # group)
  BY <1>2 DEF Differs
<1>6. Differs(list, group) <=> group \notin GroupsIn(map, t)
  BY <1>3, <1>4, <1>5 DEF OnePerName
<1>7. i = 0 <=> group.name \notin Names(GroupsIn(map, t))
  BY <1>3, <1>4 DEF Names
<1> QED
  BY <1>1, <1>2, <1>6, <1>7

\* If the updates of a plan are the groups that target lacks, and its removals the
\* groups with a name that origin lacks, then it takes target to origin.
LEMMA PlanReaches ==
    ASSUME NEW target, NEW origin, OnePerName(target), OnePerName(origin), NEW ours,
           NEW removing \in BOOLEAN,
           \A item \in ours :
              \/ item.kind = "update" /\ item.group \in origin \ target
              \/ /\ removing /\ item.kind = "removal"
                 /\ item.group \in target /\ item.group.name \notin Names(origin),
           \A g \in origin \ target :
              \E item \in ours : item.kind = "update" /\ item.group = g,
           removing => \A g \in target : g.name \notin Names(origin) =>
              \E item \in ours : item.kind = "removal" /\ item.group = g
    PROVE  /\ origin \subseteq After(target, ours)
           /\ After(target, ours) \subseteq origin \cup target
           /\ removing => After(target, ours) = origin
           /\ \A item \in ours : After(target, {item}) # target
<1>1. \A g \in After(target, ours) : g \in origin \/
         (g \in target /\ \A item \in ours : item.group.name # g.name)
  BY DEF After
<1>2. ASSUME NEW g \in origin PROVE g \in After(target, ours)
  <2>1. CASE g \notin target
    BY <2>1 DEF After
  <2>2. CASE g \in target
    BY <2>2 DEF After, OnePerName, Names
  <2> QED
    BY <2>1, <2>2
<1>3. ASSUME removing, NEW g \in After(target, ours) PROVE g \in origin
  <2> SUFFICES ASSUME g \in target, \A item \in ours : item.group.name # g.name,
                      g \notin origin
               PROVE  FALSE
    BY <1>1
  <2>1. CASE g.name \notin Names(origin)
    BY <1>3, <2>1
  <2>2. CASE g.name \in Names(origin)
    <3>1. PICK h \in origin : h.name = g.name
      BY <2>2 DEF Names
    <3>2. h \in target
      BY <3>1
    <3> QED
      BY <3>1, <3>2 DEF OnePerName
  <2> QED
    BY <2>1, <2>2
<1>4. ASSUME NEW item \in ours PROVE After(target, {item}) # target
  <2>1. CASE item.kind = "update"
    <3>1. item.group \in After(target, {item}) /\ item.group \notin target
      BY <2>1 DEF After
    <3> QED
      BY <3>1
  <2>2. CASE item.kind = "removal"
    <3>1. item.group \notin After(target, {item}) /\ item.group \in target
      BY <2>2 DEF After
    <3> QED
      BY <3>1
  <2> QED
    BY <2>1, <2>2
<1> QED
  BY <1>1, <1>2, <1>3, <1>4

\* What is planned for a tenant, in terms of its groups in the two stores.
LEMMA PlannedFor ==
    ASSUME NEW target, NEW origin, IsMap(target), IsMap(origin), NEW removing \in BOOLEAN,
           NEW t, OnePerName(GroupsIn(target, t)), OnePerName(GroupsIn(origin, t)),
           NEW item, Planned(target, origin, removing, item), item.tenant = t
    PROVE  \/ /\ item.kind = "update"
              /\ item.group \in GroupsIn(origin, t) \ GroupsIn(target, t)
           \/ /\ removing /\ item.kind = "removal"
              /\ item.group \in GroupsIn(target, t)
              /\ item.group.name \notin Names(GroupsIn(origin, t))
<1>1. ASSUME t \in DOMAIN origin, NEW e \in Range(origin[t]), ToUpdate(target, origin, t, e)
      PROVE  e.group \in GroupsIn(origin, t) \ GroupsIn(target, t)
  BY <1>1, GroupsInMap, DiffersIsAbsent DEF ToUpdate
<1>2. ASSUME t \in DOMAIN target, NEW e \in Range(target[t]), ToRemove(target, origin, t, e)
      PROVE  /\ e.group \in GroupsIn(target, t)
             /\ e.group.name \notin Names(GroupsIn(origin, t))
  <2>1. e.group \in GroupsIn(target, t)
    BY <1>2, GroupsInMap
  <2>2. CASE t \in DOMAIN origin
    BY <1>2, <2>1, <2>2, DiffersIsAbsent DEF ToRemove
  <2>3. CASE t \notin DOMAIN origin
    BY <2>1, <2>3 DEF GroupsIn, Names
  <2> QED
    BY <2>1, <2>2, <2>3
<1>3. CASE \E u \in DOMAIN origin : \E e \in Range(origin[u]) :
              ToUpdate(target, origin, u, e) /\ item = ItemOf("update", u, e)
  <2>1. PICK e \in Range(origin[t]) :
           /\ t \in DOMAIN origin
           /\ ToUpdate(target, origin, t, e) /\ item = ItemOf("update", t, e)
    BY <1>3 DEF ItemOf
  <2> QED
    BY <1>1, <2>1 DEF ItemOf
<1>4. CASE removing /\ \E u \in DOMAIN target : \E e \in Range(target[u]) :
              ToRemove(target, origin, u, e) /\ item = ItemOf("removal", u, e)
  <2>1. PICK e \in Range(target[t]) :
           /\ t \in DOMAIN target
           /\ ToRemove(target, origin, t, e) /\ item = ItemOf("removal", t, e)
    BY <1>4 DEF ItemOf
  <2> QED
    BY <1>2, <1>4, <2>1 DEF ItemOf
<1> QED
  BY <1>3, <1>4 DEF Planned

\* And every group that asks for it is in the plan.
LEMMA AllPlanned ==
    ASSUME NEW target, NEW origin, IsMap(target), IsMap(origin), NEW removing \in BOOLEAN,
           NEW t, OnePerName(GroupsIn(target, t)), OnePerName(GroupsIn(origin, t))
    PROVE  /\ \A g \in GroupsIn(origin, t) \ GroupsIn(target, t) :
                 \E item : /\ Planned(target, origin, removing, item) /\ item.tenant = t
                           /\ item.kind = "update" /\ item.group = g
           /\ removing => \A g \in GroupsIn(target, t) :
                 g.name \notin Names(GroupsIn(origin, t)) =>
                    \E item : /\ Planned(target, origin, removing, item) /\ item.tenant = t
                              /\ item.kind = "removal" /\ item.group = g
<1>1. ASSUME NEW g \in GroupsIn(origin, t) \ GroupsIn(target, t)
      PROVE  \E item : /\ Planned(target, origin, removing, item) /\ item.tenant = t
                       /\ item.kind = "update" /\ item.group = g
  <2>1. PICK e \in Range(origin[t]) : t \in DOMAIN origin /\ g = e.group
    BY GroupsInMap
  <2>2. ToUpdate(target, origin, t, e)
    BY <1>1, <2>1, DiffersIsAbsent DEF ToUpdate
  <2>3. PICK item : item = ItemOf("update", t, e)
    OBVIOUS
  <2>4. Planned(target, origin, removing, item)
    BY <2>1, <2>2, <2>3 DEF Planned
  <2> QED
    BY <2>1, <2>3, <2>4 DEF ItemOf
<1>2. ASSUME removing, NEW g \in GroupsIn(target, t), g.name \notin Names(GroupsIn(origin, t))
      PROVE  \E item : /\ Planned(target, origin, removing, item) /\ item.tenant = t
                       /\ item.kind = "removal" /\ item.group = g
  <2>1. PICK e \in Range(target[t]) : t \in DOMAIN target /\ g = e.group
    BY GroupsInMap
  <2>2. ToRemove(target, origin, t, e)
    BY <1>2, <2>1, DiffersIsAbsent DEF ToRemove
  <2>3. PICK item : item = ItemOf("removal", t, e)
    OBVIOUS
  <2>4. Planned(target, origin, removing, item)
    BY <1>2, <2>1, <2>2, <2>3 DEF Planned
  <2> QED
    BY <2>1, <2>3, <2>4 DEF ItemOf
<1> QED
  BY <1>1, <1>2

\* A task comes from planning to work only by making its plan.
LEMMA PlanStep ==
    ASSUME TypeInv, [InformerNext]_informerVars, NEW task \in Tasks,
           at[task] = "plan", at'[task] = "work"
    PROVE  Plan(task, TargetMap(task), OriginMap(task), Removing(task))
<1>0. /\ Tasks = {"updater", "tracker"}
      /\ at \in [Tasks -> {"tick", "discover", "list", "plan", "work", "patch"}]
  BY DEF Tasks, TypeInv, WorkOK
<1>1. ~Other
  BY <1>0 DEF Other, Start, StartFails, Crash, taskVars, informerVars
<1>2. ~UserStep
  BY <1>0 DEF UserStep, taskVars
<1>3. ASSUME NEW other \in Tasks, NEW place, Goto(other, place)
      PROVE  task = other
  BY <1>0, <1>3 DEF Goto
<1>4. CASE UpdaterStep
  <2>1. CASE task = "tracker"
    BY <1>0, <1>4, <2>1
    DEF UpdaterStep, UpdaterNext, UpdaterLists, UpdaterListFails, UpdaterDiscovers,
        discover_ruler_rules, TenantDiscovered, TenantSkipped, StillToAsk, DiscoveryFails,
        UpdaterPlans, Plan, UpdaterUpdates, UpdaterMarks, UpdaterRemoves, NothingLeft,
        TickEnds, ItemDone, Goto, taskVars
  <2>2. CASE task = "updater"
    <3>1. UpdaterPlans
      BY <1>4, <2>2
      DEF UpdaterStep, UpdaterNext, UpdaterLists, UpdaterListFails, UpdaterDiscovers,
          discover_ruler_rules, TenantDiscovered, TenantSkipped, StillToAsk,
          DiscoveryFails, Discovered, UpdaterUpdates, UpdaterMarks, UpdaterRemoves,
          Working, NothingLeft, taskVars
    <3>2. Removing(task) = enable_updater_remove_rules
      BY <2>2 DEF Removing, TypeInv, ProcessOK
    <3>3. /\ TargetMap(task) = RulerMap(found["updater"])
          /\ OriginMap(task) = K8sMap("updater")
      BY <2>2 DEF TargetMap, OriginMap
    <3> QED
      BY <2>2, <3>1, <3>2, <3>3 DEF UpdaterPlans
  <2> QED
    BY <1>0, <2>1, <2>2
<1>5. CASE TrackerStep
  <2>1. CASE task = "updater"
    BY <1>0, <1>5, <2>1
    DEF TrackerStep, TrackerNext, TrackerLoadsTenants, TrackerLoadFails, TrackerDiscovers,
        discover_ruler_rules, TenantDiscovered, TenantSkipped, StillToAsk, DiscoveryFails,
        TrackerLists, TrackerListFails, TrackerPlans, Plan, TrackerLooksUp,
        TrackerLookUpFails, TrackerPatches, NothingLeft, TickEnds, ItemDone, Goto, taskVars
  <2>2. CASE task = "tracker"
    <3>1. TrackerPlans
      BY <1>0, <1>5, <2>2
      DEF TrackerStep, TrackerNext, TrackerLoadsTenants, TrackerLoadFails,
          TrackerDiscovers, discover_ruler_rules, TenantDiscovered, TenantSkipped,
          StillToAsk, DiscoveryFails, Discovered, TrackerLists, TrackerListFails,
          TrackerLooksUp, TrackerLookUpFails, TrackerPatches, NothingLeft, taskVars
    <3> QED
      BY <2>2, <3>1 DEF TrackerPlans, TargetMap, OriginMap, Removing
  <2> QED
    BY <1>0, <2>1, <2>2
<1> QED
  BY <1>1, <1>2, <1>4, <1>5 DEF InformerNext, Other

\* The plan of a task closes the gap between the two stores as it has read them.
LEMMA PlanCloses ==
    ASSUME TypeInv, [InformerNext]_informerVars, NEW task \in Tasks,
           at[task] = "plan", at'[task] = "work"
    PROVE  ClosesGap(task, work'[task])
<1>1. PICK target, origin, removing :
         target = TargetMap(task) /\ origin = OriginMap(task) /\ removing = Removing(task)
  OBVIOUS
<1>2. IsMap(target) /\ IsMap(origin)
  BY <1>1, MapsOK DEF TypeInv, TargetMap, OriginMap
<1>3. removing \in BOOLEAN /\ work \in [Tasks -> Seq(Item)]
  BY <1>1 DEF Removing, TypeInv, ProcessOK, WorkOK
<1>4. PICK items : items = work'[task]
  OBVIOUS
<1>5. \A item : item \in Range(items) <=> Planned(target, origin, removing, item)
  BY <1>1, <1>2, <1>3, <1>4, PlanStep, PlannedItems, RuleStoresAssumption
<1> SUFFICES ASSUME NEW t \in Tenants, NEW ours, ours = ItemsFor(items, t),
                    OnePerName(GroupsIn(target, t)), OnePerName(GroupsIn(origin, t))
             PROVE  /\ GroupsIn(origin, t) \subseteq After(GroupsIn(target, t), ours)
                    /\ After(GroupsIn(target, t), ours)
                          \subseteq GroupsIn(origin, t) \cup GroupsIn(target, t)
                    /\ removing => After(GroupsIn(target, t), ours) = GroupsIn(origin, t)
                    /\ \A item \in ours :
                          After(GroupsIn(target, t), {item}) # GroupsIn(target, t)
  BY <1>1, <1>4 DEF ClosesGap
<1>6. \A item : item \in ours <=>
                   Planned(target, origin, removing, item) /\ item.tenant = t
  BY <1>5 DEF ItemsFor, Range
<1>7. PICK there, here : there = GroupsIn(target, t) /\ here = GroupsIn(origin, t)
  OBVIOUS
<1>8. \A item \in ours :
         \/ item.kind = "update" /\ item.group \in here \ there
         \/ /\ removing /\ item.kind = "removal"
            /\ item.group \in there /\ item.group.name \notin Names(here)
  BY <1>2, <1>3, <1>6, <1>7, PlannedFor
<1>9. /\ \A g \in here \ there :
            \E item : /\ Planned(target, origin, removing, item) /\ item.tenant = t
                      /\ item.kind = "update" /\ item.group = g
      /\ removing => \A g \in there : g.name \notin Names(here) =>
            \E item : /\ Planned(target, origin, removing, item) /\ item.tenant = t
                      /\ item.kind = "removal" /\ item.group = g
  BY <1>2, <1>3, <1>7, AllPlanned
<1>10. /\ \A g \in here \ there : \E item \in ours : item.kind = "update" /\ item.group = g
       /\ removing => \A g \in there : g.name \notin Names(here) =>
             \E item \in ours : item.kind = "removal" /\ item.group = g
  BY <1>6, <1>9
<1> QED
  BY <1>3, <1>7, <1>8, <1>10, PlanReaches

\* What a task plans makes the store it writes equal to the one it goes by, as it
\* has read them both (or, when it is not to remove, a superset), and nothing that
\* it plans is in vain.
THEOREM PlansCloseGaps == InformerSpec => PlanClosesGap
<1>1. InformerInit => TypeInv
  BY InitTypeInv
<1>2. TypeInv /\ [InformerNext]_informerVars => TypeInv'
  BY TypeInvStep
<1>3. TypeInv /\ [InformerNext]_informerVars =>
        [\A task \in Tasks : at[task] = "plan" /\ at'[task] = "work"
            => ClosesGap(task, work'[task])]_informerVars
  BY PlanCloses
<1> QED
  BY <1>1, <1>2, <1>3, PTL DEF InformerSpec, PlanClosesGap
=============================================================================
