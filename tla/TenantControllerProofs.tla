------------------------- MODULE TenantControllerProofs -------------------------
(***************************************************************************)
(* Proofs about the tenant controller and that it implements AllowList,    *)
(* for any tenants, rules, command line and number of other tasks on the   *)
(* lock.  The lemmas take one action each and leave open what else uses    *)
(* the lock, so that the proofs about the whole proxy can cite them.       *)
(***************************************************************************)
EXTENDS AllowListRefinement, ListLemmas, FiniteSetTheorems, TLAPS

-----------------------------------------------------------------------------
(* One listing: its Ok is one snapshot of the cluster, for any server.  Each *)
(* step has a lemma of its own, for the controller takes it under its lock.  *)

\* While pages are missing, the tenants found are those of the rules returned,
\* and there are rules that were not (or the last token would have been none).
PagesSoFar ==
    /\ phase \in {"none", "first", "next"} => ~lost
    /\ phase = "next" /\ ~EmptyLastToken =>
          rest # {} /\ found = TenantIds(snapshot, Rules \ rest)

ListingInv == ListingTypeOK /\ PagesSoFar /\ OkIsOneSnapshot

\* The tenants of two portions of rules are those of the portions together:
\* pushing a page to found_rules and flattening at the end come to the same.
LEMMA TenantIdsUnion ==
    ASSUME NEW cluster, NEW A, NEW B
    PROVE  TenantIds(cluster, A) \cup TenantIds(cluster, B) = TenantIds(cluster, A \cup B)
BY DEF TenantIds

\* A part of the rules names tenants of the cluster only.
LEMMA TenantIdsType ==
    ASSUME NEW cluster \in Clusters, NEW A \in SUBSET Rules
    PROVE  /\ TenantIds(cluster, A) \in SUBSET RuleTenants
           /\ TenantIds(cluster, A) \subseteq TenantIds(cluster, Rules)
BY DEF TenantIds, Clusters

\* The empty portion names nobody, so a listing that starts has found all that
\* the rules returned so far name.
LEMMA ListingInitInv == ListingInit => ListingInv
<1> SUFFICES ASSUME ListingInit PROVE ListingInv
  OBVIOUS
<1>1. ListingTypeOK
  BY DEF ListingInit, ListingTypeOK, Clusters
<1> QED
  BY <1>1 DEF ListingInit, ListingInv, PagesSoFar, OkIsOneSnapshot

\* An edit of the cluster does not reach into a listing (lib.rs, 52-101).
LEMMA EditRuleInv ==
    ASSUME ListingInv, NEW rule \in Rules, EditRule(rule)
    PROVE  ListingInv'
BY DEF ListingInv, ListingTypeOK, PagesSoFar, OkIsOneSnapshot, EditRule, listingVars,
       Clusters, TenantIds

\* The start of a listing (lib.rs, 55-62).
LEMMA BeginListingInv ==
    ASSUME ListingInv, BeginListing
    PROVE  ListingInv'
BY DEF ListingInv, ListingTypeOK, PagesSoFar, OkIsOneSnapshot, BeginListing

\* The end of a listing: its caller has the answer.
LEMMA EndListingInv ==
    ASSUME ListingInv, EndListing
    PROVE  ListingInv'
BY DEF ListingInv, ListingTypeOK, PagesSoFar, OkIsOneSnapshot, EndListing, Clusters

\* Every answer of the server, page or failure (lib.rs, 33-45 and 73-98).
LEMMA ListingStepInv ==
    ASSUME ListingInv, ListingStep
    PROVE  ListingInv'
<1> USE DEF ListingInv, OkIsOneSnapshot
<1>1. ASSUME FirstPage PROVE ListingInv'
  <2>1. PICK page \in SUBSET Rules \ {{}} :
            /\ found' = TenantIds(k8s, page)
            /\ rest' = Rules \ page
            /\ phase' = IF page = Rules THEN "ok" ELSE "next"
    BY <1>1 DEF FirstPage
  <2>2. phase = "first" /\ snapshot' = k8s /\ k8s' = k8s /\ lost' = lost /\ ~lost
    BY <1>1 DEF FirstPage, PagesSoFar
  <2>3. ListingTypeOK'
    BY <2>1, <2>2, TenantIdsType DEF ListingTypeOK
  <2>4. Rules \ rest' = page
    BY <2>1
  <2> QED
    BY <2>1, <2>2, <2>3, <2>4 DEF PagesSoFar
<1>2. ASSUME FirstPageFails PROVE ListingInv'
  BY <1>2 DEF FirstPageFails, ListingTypeOK, PagesSoFar
<1>3. ASSUME NextPage PROVE ListingInv'
  <2>1. PICK page \in SUBSET rest \ {{}} :
            /\ found' = found \cup TenantIds(snapshot, page)
            /\ rest' = rest \ page
            /\ phase' = IF page = rest /\ ~EmptyLastToken THEN "ok" ELSE "next"
    BY <1>3 DEF NextPage
  <2>2. phase = "next" /\ snapshot' = snapshot /\ k8s' = k8s /\ lost' = lost /\ ~lost
    BY <1>3 DEF NextPage, PagesSoFar
  <2>3. ListingTypeOK'
    BY <2>1, <2>2, TenantIdsType DEF ListingTypeOK
  <2>4. ASSUME ~EmptyLastToken PROVE found' = TenantIds(snapshot', Rules \ rest')
    <3>1. found' = TenantIds(snapshot, (Rules \ rest) \cup page)
      BY <2>1, <2>2, <2>4, TenantIdsUnion DEF PagesSoFar
    <3>2. (Rules \ rest) \cup page = Rules \ rest'
      BY <2>1 DEF ListingTypeOK
    <3> QED
      BY <2>2, <3>1, <3>2
  <2>5. /\ phase' = "ok" => ~EmptyLastToken /\ Rules \ rest' = Rules
        /\ phase' = "next" /\ ~EmptyLastToken => rest' # {}
    BY <2>1
  <2> QED
    BY <2>1, <2>2, <2>3, <2>4, <2>5 DEF PagesSoFar
<1>4. ASSUME NextPageOfEmptyToken PROVE ListingInv'
  <2>1. PICK page \in SUBSET Rules \ {{}} :
            /\ found' = found \cup TenantIds(k8s, page)
            /\ rest' = Rules \ page
    BY <1>4 DEF NextPageOfEmptyToken
  <2>2. /\ phase = "next" /\ rest = {} /\ snapshot' = k8s
        /\ phase' = phase /\ k8s' = k8s /\ lost' = lost /\ ~lost
    BY <1>4 DEF NextPageOfEmptyToken, PagesSoFar
  <2>3. ListingTypeOK'
    BY <2>1, <2>2, TenantIdsType DEF ListingTypeOK
  <2> QED
    BY <2>1, <2>2, <2>3 DEF PagesSoFar
<1>5. ASSUME NextPageFails PROVE ListingInv'
  <2>1. ~EmptyLastToken => found \subseteq TenantIds(snapshot, Rules)
    <3>1. Rules \ rest \in SUBSET Rules /\ snapshot \in Clusters
      BY DEF ListingTypeOK
    <3> QED
      BY <1>5, <3>1, TenantIdsType DEF PagesSoFar, NextPageFails
  <2> QED
    BY <1>5, <2>1 DEF NextPageFails, ListingTypeOK, PagesSoFar
<1> QED
  BY <1>1, <1>2, <1>3, <1>4, <1>5 DEF ListingStep

\* ListingInv is inductive.
THEOREM ListingInvariant == ListingSpec => []ListingInv
<1>1. ListingInit => ListingInv
  BY ListingInitInv
<1>2. ListingInv /\ [ListingNext]_<<k8s, listingVars>> => ListingInv'
  <2> SUFFICES ASSUME ListingInv, [ListingNext]_<<k8s, listingVars>>
               PROVE  ListingInv'
    OBVIOUS
  <2>1. CASE phase = "none" /\ BeginListing
    BY <2>1, BeginListingInv
  <2>2. CASE ListingStep
    BY <2>2, ListingStepInv
  <2>3. CASE phase \in {"ok", "err"} /\ EndListing
    BY <2>3, EndListingInv
  <2>4. CASE \E rule \in Rules : EditRule(rule)
    BY <2>4, EditRuleInv
  <2>5. CASE UNCHANGED <<k8s, listingVars>>
    BY <2>5 DEF ListingInv, ListingTypeOK, PagesSoFar, OkIsOneSnapshot, listingVars
  <2> QED
    BY <2>1, <2>2, <2>3, <2>4, <2>5 DEF ListingNext
<1> QED
  BY <1>1, <1>2, PTL DEF ListingSpec

\* An Ok in which no page failed is one state of the cluster, whatever pages the
\* server chose and whoever edited rules between two pages (lib.rs, 52-101).
THEOREM OkIsOneSnapshotAlways == ListingSpec => []OkIsOneSnapshot
BY ListingInvariant, PTL DEF ListingInv

-----------------------------------------------------------------------------
(* The inductive invariant.                                                *)

\* Nothing has happened before Boot, and what Boot sets stays to the end.
BootState ==
    /\ cpc = "boot" =>
          /\ initial_tenants = {} /\ tenants = {} /\ tenants_vec = << >>
          /\ published = {} /\ ~serving
    /\ cpc \notin {"boot", "exited"} => initial_tenants = Range(allow_listed_tenants)

\* Where the listing stands while the task is where it is.
ListingOfIteration ==
    /\ cpc \notin {"listing", "acquired", "observing"} => phase = "none"
    /\ cpc \in {"acquired", "observing"} => phase = "ok"

\* Only an update under way lets the list differ from what was published.
PublishedUnlessObserving == ~Observing => Range(tenants_vec) = published

ControllerInv ==
    /\ ControllerTypeOK
    /\ PagesSoFar
    /\ OkIsOneSnapshot
    /\ VecMatchesSets
    /\ BootState
    /\ ListingOfIteration
    /\ PublishedUnlessObserving

\* What the actions that leave fields, listing and position alone preserve.
listVars == <<fieldVars, k8s, listingVars, serving, published>>

-----------------------------------------------------------------------------
(* The lock.                                                               *)

\* Every operation on the lock keeps the type of its state.
LEMMA LockOperationsType ==
    ASSUME LockTypeOK, NEW p \in Procs, NEW m \in {"read", "write"},
           \/ Ask(p, m)
           \/ Release(p)
           \/ Withdraw(p)
           \/ GrantRead
           \/ GrantWrite
           \/ UNCHANGED lockVars
    PROVE  LockTypeOK'
<1> DEFINE Entries == [proc : Procs, mode : {"read", "write"}]
<1>1. CASE Ask(p, m)
  <2>1. [proc |-> p, mode |-> m] \in Entries
    OBVIOUS
  <2> QED
    BY <1>1, <2>1, AppendProperties DEF Ask, LockTypeOK
<1>2. CASE Release(p)
  BY <1>2 DEF Release, LockTypeOK
<1>3. CASE Withdraw(p)
  <2>1. PICK i \in DOMAIN waiting : waiting' = RemoveAt(waiting, i)
    BY <1>3 DEF Withdraw
  <2>2. waiting' \in Seq(Entries)
    BY <2>1, RemoveAtType DEF LockTypeOK
  <2> QED
    BY <1>3, <2>2 DEF Withdraw, LockTypeOK
<1>4. CASE GrantRead \/ GrantWrite
  <2>1. waiting \in Seq(Entries) /\ waiting # << >>
    BY <1>4 DEF GrantRead, GrantWrite, LockTypeOK
  <2>2. Head(waiting) \in Entries /\ Tail(waiting) \in Seq(Entries)
    BY <2>1, HeadTailProperties
  <2> QED
    BY <1>4, <2>2 DEF GrantRead, GrantWrite, LockTypeOK
<1>5. CASE UNCHANGED lockVars
  BY <1>5 DEF lockVars, LockTypeOK
<1> QED
  BY <1>1, <1>2, <1>3, <1>4, <1>5

\* A step that uses the lock and leaves list, sets and listing alone keeps the
\* invariant, provided it does not end the update's hold on the lock.
LEMMA LockStepInv ==
    ASSUME ControllerInv, LockTypeOK', UNCHANGED listVars,
           cpc' \in ControllerStates,
           cpc' = "boot" => cpc = "boot",
           cpc' \notin {"boot", "exited"} => cpc \notin {"boot", "exited"},
           cpc' \notin {"listing", "acquired", "observing"} => phase = "none",
           cpc' \in {"acquired", "observing"} => phase = "ok",
           Observing => Observing'
    PROVE  ControllerInv'
<1> USE DEF ControllerInv, listVars
<1>1. ControllerTypeOK'
  BY DEF ControllerTypeOK, FieldsTypeOK, ListingTypeOK, fieldVars, listingVars
<1>2. PagesSoFar' /\ OkIsOneSnapshot'
  BY DEF PagesSoFar, OkIsOneSnapshot, listingVars
<1>3. VecMatchesSets'
  BY DEF VecMatchesSets, fieldVars
<1>4. BootState'
  BY DEF BootState, fieldVars
<1>5. ListingOfIteration'
  BY DEF ListingOfIteration, listingVars
<1>6. PublishedUnlessObserving'
  BY DEF PublishedUnlessObserving, fieldVars
<1> QED
  BY <1>1, <1>2, <1>3, <1>4, <1>5, <1>6

-----------------------------------------------------------------------------
(* The methods that change the list.                                       *)

\* main() fills an empty list (controller.rs, 62-71).
LEMMA BootInv ==
    ASSUME ControllerInv, Boot
    PROVE  ControllerInv'
<1> DEFINE S == Range(allow_listed_tenants)
<1>1. /\ cpc = "boot" /\ cpc' \in {"iterate", "spawn"}
      /\ initial_tenants = {} /\ tenants = {} /\ tenants_vec = << >>
      /\ phase = "none"
  BY DEF Boot, Goto, ControllerInv, BootState, ListingOfIteration
<1>2. /\ initial_tenants' = S
      /\ tenants' = {}
      /\ stopping' = stopping
      /\ published' = S
      /\ UNCHANGED <<lockVars, k8s, listingVars, serving>>
  BY <1>1 DEF Boot, set_initial_allowed_tenants
<1>3. PICK order \in Bijection(1 .. Cardinality(S), S) : tenants_vec' = << >> \o order
  BY <1>1, <1>2 DEF Boot, set_initial_allowed_tenants
<1>4. S \in SUBSET Tenants /\ Cardinality(S) \in Nat
  BY ControllerAssumption, FS_Subset, FS_CardinalityType
<1>5. tenants_vec' \in Seq(S) /\ IsInjective(tenants_vec') /\ Range(tenants_vec') = S
  <2> HIDE DEF S
  <2> QED
    BY <1>3, <1>4, EnumerationIsList
<1>6. tenants_vec' \in Seq(Tenants)
  BY <1>4, <1>5
<1>7. ControllerTypeOK'
  <2> HIDE DEF S
  <2>1. LockTypeOK'
    BY <1>2 DEF ControllerInv, ControllerTypeOK, LockTypeOK, lockVars
  <2>2. FieldsTypeOK'
    BY <1>2, <1>4, <1>6 DEF ControllerInv, ControllerTypeOK, FieldsTypeOK
  <2> QED
    BY <1>1, <1>2, <1>4, <2>1, <2>2
    DEF ControllerInv, ControllerTypeOK, ListingTypeOK, listingVars, ControllerStates
<1>8. VecMatchesSets'
  BY <1>2, <1>5 DEF VecMatchesSets
<1>9. PagesSoFar' /\ OkIsOneSnapshot' /\ ListingOfIteration' /\ BootState'
  BY <1>1, <1>2 DEF ControllerInv, PagesSoFar, OkIsOneSnapshot, ListingOfIteration,
                    BootState, listingVars
<1>10. PublishedUnlessObserving'
  BY <1>2, <1>5 DEF PublishedUnlessObserving
<1> QED
  BY <1>7, <1>8, <1>9, <1>10 DEF ControllerInv

\* observe() adds one tenant (controller.rs, 75-107 and 171-178).
LEMMA ObserveAddInv ==
    ASSUME ControllerInv, NEW t \in Tenants, ObserveAdd(t)
    PROVE  ControllerInv'
<1>1. /\ Observing
      /\ t \notin initial_tenants \cup tenants
      /\ UNCHANGED <<lockVars, k8s, listingVars, controllerVars>>
  BY DEF ObserveAdd, NewTenants
<1>2. /\ tenants_vec' = Append(tenants_vec, t)
      /\ tenants' = tenants \cup {t}
      /\ UNCHANGED <<initial_tenants, stopping>>
  BY <1>1 DEF ObserveAdd, add_tenant
<1>3. /\ tenants_vec \in Seq(Tenants) /\ IsInjective(tenants_vec)
      /\ Range(tenants_vec) = initial_tenants \cup tenants
      /\ initial_tenants \cap tenants = {}
  BY DEF ControllerInv, ControllerTypeOK, FieldsTypeOK, VecMatchesSets
<1>4. /\ tenants_vec' \in Seq(Tenants) /\ IsInjective(tenants_vec')
      /\ Range(tenants_vec') = Range(tenants_vec) \cup {t}
  BY <1>1, <1>2, <1>3, AppendNew
<1>5. VecMatchesSets'
  BY <1>1, <1>2, <1>3, <1>4 DEF VecMatchesSets
<1>6. ControllerTypeOK'
  BY <1>1, <1>2, <1>4
  DEF ControllerInv, ControllerTypeOK, LockTypeOK, FieldsTypeOK, ListingTypeOK, lockVars,
      listingVars, controllerVars
<1>7. Observing'
  BY <1>1 DEF Observing, lockVars, controllerVars
<1>8. PagesSoFar' /\ OkIsOneSnapshot' /\ ListingOfIteration' /\ BootState'
  BY <1>1, <1>2 DEF ControllerInv, PagesSoFar, OkIsOneSnapshot, ListingOfIteration,
              BootState, Observing, listingVars, controllerVars
<1> QED
  BY <1>5, <1>6, <1>7, <1>8 DEF ControllerInv, PublishedUnlessObserving

\* observe() removes one tenant (controller.rs, 111-163 and 181-186).
LEMMA ObserveRemoveInv ==
    ASSUME ControllerInv, NEW t \in Tenants, ObserveRemove(t)
    PROVE  ControllerInv'
<1>1. /\ Observing
      /\ t \in tenants
      /\ UNCHANGED <<lockVars, k8s, listingVars, controllerVars>>
  BY DEF ObserveRemove
<1>2. /\ tenants_vec \in Seq(Tenants) /\ IsInjective(tenants_vec)
      /\ Range(tenants_vec) = initial_tenants \cup tenants
      /\ initial_tenants \cap tenants = {}
  BY DEF ControllerInv, ControllerTypeOK, FieldsTypeOK, VecMatchesSets
<1>3. /\ tenants' = tenants \ {t}
      /\ UNCHANGED <<initial_tenants, stopping>>
      /\ \/ t \notin Range(tenants_vec)
         \/ \E idx \in DOMAIN tenants_vec :
               /\ tenants_vec[idx] = t
               /\ tenants_vec' = RemoveAt(tenants_vec, idx)
  BY <1>1, <1>2 DEF ObserveRemove, remove_tenant
<1>4. PICK idx \in DOMAIN tenants_vec :
          tenants_vec[idx] = t /\ tenants_vec' = RemoveAt(tenants_vec, idx)
  BY <1>1, <1>2, <1>3
<1>5. /\ tenants_vec' \in Seq(Tenants) /\ IsInjective(tenants_vec')
      /\ Range(tenants_vec') = Range(tenants_vec) \ {t}
  BY <1>2, <1>4, RemoveAtInjective
<1>6. VecMatchesSets'
  BY <1>1, <1>2, <1>3, <1>5 DEF VecMatchesSets
<1>7. ControllerTypeOK'
  BY <1>1, <1>3, <1>5
  DEF ControllerInv, ControllerTypeOK, LockTypeOK, FieldsTypeOK, ListingTypeOK, lockVars,
      listingVars, controllerVars
<1>8. Observing'
  BY <1>1 DEF Observing, lockVars, controllerVars
<1>9. PagesSoFar' /\ OkIsOneSnapshot' /\ ListingOfIteration' /\ BootState'
  BY <1>1, <1>3 DEF ControllerInv, PagesSoFar, OkIsOneSnapshot, ListingOfIteration,
              BootState, Observing, listingVars, controllerVars
<1> QED
  BY <1>6, <1>7, <1>8, <1>9 DEF ControllerInv, PublishedUnlessObserving

\* What observe() leaves is the command line and the listing, no more, no less.
LEMMA ObserveDonePublishes ==
    ASSUME ControllerInv, ObserveDone
    PROVE  Range(tenants_vec) = initial_tenants \cup found
<1>1. /\ found \subseteq initial_tenants \cup tenants
      /\ tenants \subseteq found
  BY DEF ObserveDone, NewTenants
<1> QED
  BY <1>1 DEF ControllerInv, VecMatchesSets

\* observe() ends and the guard is dropped (controller.rs, 224-226).
LEMMA ObserveDoneInv ==
    ASSUME ControllerInv, ObserveDone
    PROVE  ControllerInv'
<1>1. /\ cpc = "observing" /\ cpc' \in {"sleeping", "spawn"}
      /\ UNCHANGED <<fieldVars, serving, k8s>>
      /\ published' = initial_tenants \cup found
      /\ Release(Ctl)
      /\ EndListing
  BY DEF ObserveDone, Observing, IterationEnds, EndListing
<1>2. PagesSoFar' /\ OkIsOneSnapshot' /\ ListingTypeOK'
  BY <1>1, EndListingInv DEF ListingInv, ControllerInv, ControllerTypeOK
<1>3. LockTypeOK'
  BY <1>1, LockOperationsType, ControllerAssumption DEF ControllerInv, ControllerTypeOK
<1>4. published' \in SUBSET Tenants
  BY <1>1, ControllerAssumption
  DEF ControllerInv, ControllerTypeOK, FieldsTypeOK, ListingTypeOK
<1>5. ControllerTypeOK'
  BY <1>1, <1>2, <1>3, <1>4
  DEF ControllerInv, ControllerTypeOK, FieldsTypeOK, fieldVars, ControllerStates
<1>6. VecMatchesSets'
  BY <1>1 DEF ControllerInv, VecMatchesSets, fieldVars
<1>7. Range(tenants_vec') = published'
  BY <1>1, ObserveDonePublishes DEF fieldVars
<1>8. BootState' /\ ListingOfIteration'
  BY <1>1 DEF ControllerInv, BootState, ListingOfIteration, EndListing, fieldVars
<1> QED
  BY <1>2, <1>5, <1>6, <1>7, <1>8 DEF ControllerInv, PublishedUnlessObserving

\* clean() empties the list (controller.rs, 48-53 and 262-264).
LEMMA CleanInv ==
    ASSUME ControllerInv, Clean
    PROVE  ControllerInv'
<1>1. /\ cpc = "clean_wait" /\ cpc' = "exited"
      /\ initial_tenants' = {} /\ tenants' = {} /\ tenants_vec' = << >>
      /\ stopping' = FALSE /\ published' = {}
      /\ Release(Ctl)
      /\ UNCHANGED <<k8s, listingVars, serving>>
  BY DEF Clean, clean, Goto
<1>2. LockTypeOK'
  BY <1>1, LockOperationsType, ControllerAssumption DEF ControllerInv, ControllerTypeOK
<1>3. /\ tenants_vec' \in Seq(Tenants) /\ IsInjective(tenants_vec')
      /\ Range(tenants_vec') = {}
  BY <1>1 DEF IsInjective, Range
<1>4. ControllerTypeOK'
  BY <1>1, <1>2, <1>3
  DEF ControllerInv, ControllerTypeOK, FieldsTypeOK, ListingTypeOK, listingVars,
      ControllerStates
<1>5. VecMatchesSets' /\ PublishedUnlessObserving' /\ BootState'
  BY <1>1, <1>3 DEF VecMatchesSets, PublishedUnlessObserving, BootState
<1>6. PagesSoFar' /\ OkIsOneSnapshot' /\ ListingOfIteration'
  BY <1>1 DEF ControllerInv, PagesSoFar, OkIsOneSnapshot, ListingOfIteration, listingVars
<1> QED
  BY <1>4, <1>5, <1>6 DEF ControllerInv

-----------------------------------------------------------------------------
(* The steps of the task that leave the list alone.                        *)

\* controller_iteration() and worker() ask for the lock (controller.rs, 209, 222,
\* 239, 243 and 262), are told to stop, or drop a guard.
LEMMA TaskLockStepInv ==
    ASSUME ControllerInv,
           \/ AskRead \/ StopSeen \/ ListingOk \/ AskWrite \/ AskInit \/ init_k8s
           \/ AskCheck \/ CheckClient \/ AskClean
    PROVE  ControllerInv'
<1>1. UNCHANGED listVars
  BY DEF AskRead, StopSeen, ListingOk, AskWrite, AskInit, init_k8s, AskCheck,
         CheckClient, AskClean, listVars, fieldVars, listingVars
<1>2. LockTypeOK'
  BY LockOperationsType, ControllerAssumption
  DEF AskRead, StopSeen, ListingOk, AskWrite, AskInit, init_k8s, AskCheck, CheckClient,
      AskClean, ControllerInv, ControllerTypeOK
<1>3. /\ cpc \notin {"listing", "acquired", "observing"} => phase = "none"
      /\ cpc \in {"acquired", "observing"} => phase = "ok"
  BY DEF ControllerInv, ListingOfIteration
<1>4. /\ cpc' \in ControllerStates
      /\ cpc' # "boot"
      /\ cpc \notin {"boot", "exited"}
      /\ cpc' \notin {"listing", "acquired", "observing"} => phase = "none"
      /\ cpc' \in {"acquired", "observing"} => phase = "ok"
      /\ cpc # "observing"
  BY <1>3 DEF AskRead, StopSeen, ListingOk, AskWrite, AskInit, init_k8s, AskCheck,
              CheckClient, AskClean, Goto, ControllerStates
<1> QED
  BY <1>1, <1>2, <1>4, LockStepInv DEF Observing

\* main() serves (main.rs, 351-357).
LEMMA StartServingInv ==
    ASSUME ControllerInv, StartServing
    PROVE  ControllerInv'
<1>1. /\ cpc = "spawn" /\ cpc' = "init" /\ serving' = TRUE
      /\ UNCHANGED <<lockVars, fieldVars, k8s, listingVars, published>>
  BY DEF StartServing, Goto
<1>2. ControllerTypeOK'
  BY <1>1 DEF ControllerInv, ControllerTypeOK, LockTypeOK, FieldsTypeOK, ListingTypeOK,
              lockVars, fieldVars, listingVars, ControllerStates
<1>3. VecMatchesSets' /\ PublishedUnlessObserving'
  BY <1>1 DEF ControllerInv, VecMatchesSets, PublishedUnlessObserving, Observing, fieldVars
<1> QED
  BY <1>1, <1>2, <1>3 DEF ControllerInv, PagesSoFar, OkIsOneSnapshot, BootState,
                          ListingOfIteration, listingVars, fieldVars

\* The listing starts, under the read guard (controller.rs, 209-215).
LEMMA StartListingInv ==
    ASSUME ControllerInv, StartListing
    PROVE  ControllerInv'
<1>1. /\ cpc = "reading" /\ cpc' = "listing"
      /\ BeginListing
      /\ UNCHANGED <<lockVars, fieldVars, serving, published, k8s>>
  BY DEF StartListing, Goto, BeginListing
<1>2. PagesSoFar' /\ OkIsOneSnapshot' /\ ListingTypeOK'
  BY <1>1, BeginListingInv DEF ListingInv, ControllerInv, ControllerTypeOK
<1>3. ControllerTypeOK'
  BY <1>1, <1>2 DEF ControllerInv, ControllerTypeOK, LockTypeOK, FieldsTypeOK,
                    lockVars, fieldVars, ControllerStates
<1>4. VecMatchesSets' /\ PublishedUnlessObserving'
  BY <1>1 DEF ControllerInv, VecMatchesSets, PublishedUnlessObserving, Observing, fieldVars
<1> QED
  BY <1>1, <1>2, <1>3, <1>4 DEF ControllerInv, BootState, ListingOfIteration, fieldVars

\* One answer of the cluster.
LEMMA ListRulesInv ==
    ASSUME ControllerInv, ListRules
    PROVE  ControllerInv'
<1>1. /\ cpc = "listing"
      /\ ListingStep
      /\ UNCHANGED <<lockVars, fieldVars, controllerVars>>
  BY DEF ListRules
<1>2. PagesSoFar' /\ OkIsOneSnapshot' /\ ListingTypeOK'
  BY <1>1, ListingStepInv DEF ListingInv, ControllerInv, ControllerTypeOK
<1>3. ControllerTypeOK'
  BY <1>1, <1>2 DEF ControllerInv, ControllerTypeOK, LockTypeOK, FieldsTypeOK,
                    lockVars, fieldVars, controllerVars
<1>4. VecMatchesSets' /\ PublishedUnlessObserving'
  BY <1>1 DEF ControllerInv, VecMatchesSets, PublishedUnlessObserving, Observing,
              fieldVars, lockVars, controllerVars
<1> QED
  BY <1>1, <1>2, <1>3, <1>4
  DEF ControllerInv, BootState, ListingOfIteration, fieldVars, controllerVars

\* A listing that failed changes nothing but the position (controller.rs, 228-232).
LEMMA ListingErrInv ==
    ASSUME ControllerInv, ListingErr
    PROVE  ControllerInv'
<1>1. /\ cpc = "listing" /\ cpc' \in {"sleeping", "spawn"}
      /\ Release(Ctl)
      /\ EndListing
      /\ UNCHANGED <<fieldVars, serving, published, k8s>>
  BY DEF ListingErr, IterationEnds, EndListing
<1>2. PagesSoFar' /\ OkIsOneSnapshot' /\ ListingTypeOK'
  BY <1>1, EndListingInv DEF ListingInv, ControllerInv, ControllerTypeOK
<1>3. LockTypeOK'
  BY <1>1, LockOperationsType, ControllerAssumption DEF ControllerInv, ControllerTypeOK
<1>4. ControllerTypeOK'
  BY <1>1, <1>2, <1>3 DEF ControllerInv, ControllerTypeOK, FieldsTypeOK, fieldVars,
                          ControllerStates
<1>5. VecMatchesSets' /\ PublishedUnlessObserving'
  BY <1>1 DEF ControllerInv, VecMatchesSets, PublishedUnlessObserving, Observing, fieldVars
<1> QED
  BY <1>1, <1>2, <1>4, <1>5
  DEF ControllerInv, BootState, ListingOfIteration, EndListing, fieldVars

-----------------------------------------------------------------------------
(* The task as a whole, and what goes on around it.                        *)

\* No step of the task breaks the invariant, whoever else uses the lock.
LEMMA ControllerStepInv ==
    ASSUME ControllerInv, ControllerStep
    PROVE  ControllerInv'
<1>1. CASE \E t \in Tenants : ObserveAdd(t) \/ ObserveRemove(t)
  BY <1>1, ObserveAddInv, ObserveRemoveInv
<1>2. CASE \/ AskRead \/ StopSeen \/ ListingOk \/ AskWrite \/ AskInit \/ init_k8s
           \/ AskCheck \/ CheckClient \/ AskClean
  BY <1>2, TaskLockStepInv
<1> QED
  BY <1>1, <1>2, BootInv, StartServingInv, StartListingInv, ListRulesInv, ListingErrInv,
     ObserveDoneInv, CleanInv
  DEF ControllerStep, ObserveStep

\* A grant of the lock, to this task or to another.
LEMMA GrantInv ==
    ASSUME ControllerInv, Grant
    PROVE  ControllerInv'
<1>1. /\ GrantRead \/ GrantWrite
      /\ UNCHANGED <<fieldVars, k8s, listingVars, controllerVars>>
  BY DEF Grant
<1>2. LockTypeOK'
  BY <1>1, LockOperationsType, ControllerAssumption DEF ControllerInv, ControllerTypeOK
<1>3. ~Observing
  BY <1>1 DEF GrantRead, GrantWrite, Observing
<1>4. UNCHANGED listVars /\ cpc' = cpc /\ cpc \in ControllerStates
  BY <1>1 DEF listVars, controllerVars, ControllerInv, ControllerTypeOK
<1> QED
  BY <1>2, <1>3, <1>4, LockStepInv DEF ControllerInv, ListingOfIteration

\* An edit of the cluster.
LEMMA EditInv ==
    ASSUME ControllerInv, Edit
    PROVE  ControllerInv'
<1>1. /\ \E rule \in Rules : EditRule(rule)
      /\ UNCHANGED <<lockVars, fieldVars, listingVars, controllerVars>>
  BY DEF Edit, EditRule
<1>2. ListingTypeOK'
  BY <1>1, EditRuleInv DEF ListingInv, ControllerInv, ControllerTypeOK
<1>3. ControllerTypeOK'
  BY <1>1, <1>2 DEF ControllerInv, ControllerTypeOK, LockTypeOK, FieldsTypeOK,
                    lockVars, fieldVars, controllerVars
<1>4. VecMatchesSets' /\ PublishedUnlessObserving'
  BY <1>1 DEF ControllerInv, VecMatchesSets, PublishedUnlessObserving, Observing,
              fieldVars, lockVars, controllerVars
<1> QED
  BY <1>1, <1>3, <1>4 DEF ControllerInv, PagesSoFar, OkIsOneSnapshot, BootState,
      ListingOfIteration, fieldVars, listingVars, controllerVars

\* The directive to stop.
LEMMA StopInv ==
    ASSUME ControllerInv, Stop
    PROVE  ControllerInv'
<1>1. /\ stopping' = TRUE
      /\ UNCHANGED <<lockVars, initial_tenants, tenants, tenants_vec>>
      /\ UNCHANGED <<k8s, listingVars, controllerVars>>
  BY DEF Stop
<1>2. ControllerTypeOK'
  BY <1>1 DEF ControllerInv, ControllerTypeOK, LockTypeOK, FieldsTypeOK, ListingTypeOK,
              lockVars, listingVars, controllerVars
<1> QED
  BY <1>1, <1>2 DEF ControllerInv, VecMatchesSets, PublishedUnlessObserving, Observing,
      PagesSoFar, OkIsOneSnapshot, BootState, ListingOfIteration, lockVars, listingVars,
      controllerVars

\* The invariant holds before main() has done anything.
LEMMA ControllerInitInv == ControllerInit => ControllerInv
<1> SUFFICES ASSUME ControllerInit PROVE ControllerInv
  OBVIOUS
<1>1. ListingTypeOK /\ PagesSoFar /\ OkIsOneSnapshot
  BY ListingInitInv DEF ControllerInit, ListingInv
<1>2. /\ readers = {} /\ writers = {} /\ waiting = << >>
      /\ initial_tenants = {} /\ tenants = {} /\ tenants_vec = << >> /\ stopping = FALSE
      /\ cpc = "boot" /\ serving = FALSE /\ published = {} /\ phase = "none"
  BY DEF ControllerInit, LockInit, EmptyController, ListingInit
<1>3. IsInjective(tenants_vec) /\ Range(tenants_vec) = {}
  BY <1>2 DEF IsInjective, Range
<1>4. LockTypeOK /\ FieldsTypeOK
  BY <1>2, EmptySeq DEF LockTypeOK, FieldsTypeOK
<1>5. ControllerTypeOK
  BY <1>1, <1>2, <1>4 DEF ControllerTypeOK, ControllerStates
<1>6. VecMatchesSets /\ PublishedUnlessObserving
  BY <1>2, <1>3 DEF VecMatchesSets, PublishedUnlessObserving
<1> QED
  BY <1>1, <1>2, <1>5, <1>6 DEF ControllerInv, BootState, ListingOfIteration

-----------------------------------------------------------------------------
(* The theorems.                                                           *)

\* While nothing happens nothing changes.
LEMMA ControllerStutterInv ==
    ASSUME ControllerInv, UNCHANGED allControllerVars
    PROVE  ControllerInv'
<1>1. UNCHANGED listVars /\ UNCHANGED lockVars /\ cpc' = cpc
  BY DEF allControllerVars, listVars, controllerVars
<1>2. LockTypeOK'
  BY <1>1 DEF ControllerInv, ControllerTypeOK, LockTypeOK, lockVars
<1>3. /\ cpc \in ControllerStates
      /\ cpc \notin {"listing", "acquired", "observing"} => phase = "none"
      /\ cpc \in {"acquired", "observing"} => phase = "ok"
  BY DEF ControllerInv, ControllerTypeOK, ListingOfIteration
<1>4. Observing => Observing'
  BY <1>1 DEF Observing, lockVars
<1> QED
  BY <1>1, <1>2, <1>3, <1>4, LockStepInv

\* ControllerInv is inductive.
THEOREM ControllerInvariant == ControllerSpec => []ControllerInv
<1>1. ControllerInv /\ [ControllerNext]_allControllerVars => ControllerInv'
  <2> SUFFICES ASSUME ControllerInv, [ControllerNext]_allControllerVars
               PROVE  ControllerInv'
    OBVIOUS
  <2>1. CASE UNCHANGED allControllerVars
    BY <2>1, ControllerStutterInv
  <2>2. CASE ControllerStep
    BY <2>2, ControllerStepInv
  <2>3. CASE Grant
    BY <2>3, GrantInv
  <2>4. CASE Stop
    BY <2>4, StopInv
  <2>5. CASE Edit
    BY <2>5, EditInv
  <2> QED
    BY <2>1, <2>2, <2>3, <2>4, <2>5 DEF ControllerNext
<1> QED
  BY <1>1, ControllerInitInv, PTL DEF ControllerSpec

\* Every variable of the controller keeps to its type.
THEOREM ControllerTypeCorrect == ControllerSpec => []ControllerTypeOK
BY ControllerInvariant, PTL DEF ControllerInv

\* The vector and the two sets agree at every step of every update, so a tenant
\* that is removed is gone from the list (controller.rs, 62-190).
THEOREM VecAlwaysMatchesSets == ControllerSpec => []VecMatchesSets
BY ControllerInvariant, PTL DEF ControllerInv

\* Without the write lock nobody meets an update half done: the list is the
\* command line and one listing (controller.rs, 167-190 and 222-226).
THEOREM ViewAlwaysPublished == ControllerSpec => []PublishedView
<1>1. ControllerInv => PublishedView
  BY DEF ControllerInv, PublishedUnlessObserving, Observing, PublishedView
<1> QED
  BY <1>1, ControllerInvariant, PTL

-----------------------------------------------------------------------------
(* The controller implements AllowList, given a server that ends its         *)
(* listings without an empty token.                                          *)

\* The snapshot that is no snapshot names nobody.
LEMMA NobodyInEmptySnapshot ==
    TenantIds([rule \in Rules |-> {}], Rules) = {}
BY DEF TenantIds

\* An edit of a rule leaves a cluster that names tenants of rules only.
LEMMA ClusterType ==
    ASSUME ListingTypeOK
    PROVE  TenantIds(k8s, Rules) \in SUBSET RuleTenants
BY TenantIdsType DEF ListingTypeOK

\* At the start nothing is allowed and nothing has been seen.
LEMMA InitPromise == ControllerInit => Promise!Init
<1> SUFFICES ASSUME ControllerInit PROVE Promise!Init
  OBVIOUS
<1>1. Visible = {}
  <2>1. tenants_vec = << >> /\ writers = {}
    BY DEF ControllerInit, EmptyController, LockInit
  <2> QED
    BY <2>1 DEF Visible, Range
<1>2. TenantIds(k8s, Rules) \in SUBSET RuleTenants
  BY ListingInitInv, ClusterType DEF ControllerInit, ListingInv
<1>3. TenantIds(snapshot, Rules) = {} /\ lost = FALSE
  BY NobodyInEmptySnapshot DEF ControllerInit, ListingInit
<1> QED
  BY <1>1, <1>2, <1>3 DEF Promise!Init

\* Every step of the controller is a step of the promise, or none.
LEMMA StepPromise ==
    ASSUME ~EmptyLastToken, ControllerInv, ControllerInv',
           [ControllerNext]_allControllerVars
    PROVE  [Promise!Next]_Promise!vars
\* What a reader meets is what was published last (<1>1): an update under way is
\* hidden by the write lock, and there is no other difference.
<1> DEFINE Unseen == /\ published' = published
                     /\ TenantIds(k8s', Rules) = TenantIds(k8s, Rules)
                     /\ TenantIds(snapshot', Rules) = TenantIds(snapshot, Rules)
                     /\ lost' = lost
<1>1. Visible = published /\ Visible' = published'
  BY DEF Visible, ControllerInv, PublishedUnlessObserving, Observing
<1>2. ASSUME Unseen PROVE UNCHANGED Promise!vars
  BY <1>1, <1>2 DEF Promise!vars
<1>3. CASE Boot
  <2>1. /\ published = {} /\ published' = Range(allow_listed_tenants)
        /\ UNCHANGED <<k8s, listingVars>>
    BY <1>3 DEF Boot, Goto, ControllerInv, BootState
  <2>2. Promise!Start
    BY <1>1, <2>1 DEF Promise!Start, listingVars
  <2> QED
    BY <2>2 DEF Promise!Next
<1>4. CASE \/ StartServing \/ AskRead \/ StopSeen \/ ListingOk \/ AskWrite \/ AskInit
           \/ init_k8s \/ AskCheck \/ CheckClient \/ AskClean \/ Grant \/ Stop
           \/ UNCHANGED allControllerVars
           \/ \E t \in Tenants : ObserveAdd(t) \/ ObserveRemove(t)
  <2>1. UNCHANGED <<k8s, listingVars, published>>
    BY <1>4 DEF StartServing, AskRead, StopSeen, ListingOk, AskWrite, AskInit, init_k8s,
                AskCheck, CheckClient, AskClean, Grant, Stop, ObserveAdd, ObserveRemove,
                allControllerVars, controllerVars
  <2>2. Unseen
    BY <2>1 DEF listingVars
  <2> QED
    BY <1>2, <2>2
<1>5. CASE StartListing
  <2>1. UNCHANGED <<k8s, snapshot, published>> /\ lost' = FALSE /\ cpc = "reading"
    BY <1>5 DEF StartListing, BeginListing, Goto
  <2>2. ~lost /\ lost \in BOOLEAN
    BY <2>1 DEF ControllerInv, PagesSoFar, ListingOfIteration, ControllerTypeOK,
                ListingTypeOK
  <2> QED
    BY <1>2, <2>1, <2>2
<1>6. CASE ListRules
  <2>1. ListingStep /\ published' = published
    BY <1>6 DEF ListRules, controllerVars
  <2>2. CASE FirstPage \/ NextPageOfEmptyToken
    <3>1. k8s' = k8s /\ snapshot' = k8s /\ lost' = lost
      BY <2>2 DEF FirstPage, NextPageOfEmptyToken
    <3>2. Promise!Look
      BY <1>1, <2>1, <3>1 DEF Promise!Look
    <3> QED
      BY <3>2 DEF Promise!Next
  <2>3. CASE FirstPageFails \/ NextPage
    <3>1. UNCHANGED <<k8s, snapshot, lost>>
      BY <2>3 DEF FirstPageFails, NextPage
    <3> QED
      BY <1>2, <2>1, <3>1
  <2>4. CASE NextPageFails
    <3>1. k8s' = k8s /\ snapshot' = snapshot /\ lost' = TRUE
      BY <2>4 DEF NextPageFails
    <3>2. Promise!LosePart
      BY <1>1, <2>1, <3>1 DEF Promise!LosePart
    <3> QED
      BY <3>2 DEF Promise!Next
  <2> QED
    BY <2>1, <2>2, <2>3, <2>4 DEF ListingStep
<1>7. CASE ListingErr
  <2>1. k8s' = k8s /\ snapshot' = [rule \in Rules |-> {}] /\ lost' = FALSE
        /\ published' = published
    BY <1>7 DEF ListingErr, EndListing
  <2>2. Promise!GiveUp
    BY <1>1, <2>1, NobodyInEmptySnapshot DEF Promise!GiveUp
  <2> QED
    BY <2>2 DEF Promise!Next
<1>8. CASE ObserveDone
  <2>1. /\ k8s' = k8s /\ snapshot' = [rule \in Rules |-> {}] /\ lost' = FALSE
        /\ published' = initial_tenants \cup found
        /\ phase = "ok"
    BY <1>8 DEF ObserveDone, Observing, EndListing, ControllerInv, ListingOfIteration
  <2>2. /\ found \in SUBSET TenantIds(snapshot, Rules)
        /\ ~lost => found = TenantIds(snapshot, Rules)
    BY <2>1 DEF ControllerInv, OkIsOneSnapshot
  <2>3. initial_tenants = Range(allow_listed_tenants)
    BY <1>8 DEF ObserveDone, Observing, ControllerInv, BootState
  <2>4. Promise!Publish
    BY <1>1, <2>1, <2>2, <2>3, NobodyInEmptySnapshot DEF Promise!Publish
  <2> QED
    BY <2>4 DEF Promise!Next
<1>9. CASE Clean
  <2>1. published' = {} /\ UNCHANGED <<k8s, listingVars>>
    BY <1>9 DEF Clean
  <2>2. Promise!Stop
    BY <1>1, <2>1 DEF Promise!Stop, listingVars
  <2> QED
    BY <2>2 DEF Promise!Next
<1>10. CASE Edit
  <2>1. published' = published /\ snapshot' = snapshot /\ lost' = lost
    BY <1>10 DEF Edit, EditRule, listingVars, controllerVars
  <2>2. TenantIds(k8s', Rules) \in SUBSET RuleTenants
    BY TenantIdsType DEF ControllerInv, ControllerTypeOK, ListingTypeOK
  <2>3. Promise!Edit
    BY <1>1, <2>1, <2>2 DEF Promise!Edit
  <2> QED
    BY <2>3 DEF Promise!Next
<1> QED
  BY <1>3, <1>4, <1>5, <1>6, <1>7, <1>8, <1>9, <1>10
  DEF ControllerNext, ControllerStep, ObserveStep

\* To its readers the controller is AllowList: the lock, the pages and the single
\* additions and removals do not show (controller.rs, 167-234).
THEOREM ControllerKeepsPromise ==
    ASSUME ~EmptyLastToken
    PROVE  ControllerSpec => ImplementsAllowList
<1>1. ControllerInit => Promise!Init
  BY InitPromise
<1>2. ControllerInv /\ ControllerInv' /\ [ControllerNext]_allControllerVars
         => [Promise!Next]_Promise!vars
  BY StepPromise
<1> QED
  BY <1>1, <1>2, ControllerInvariant, PTL
  DEF ControllerSpec, ImplementsAllowList, Promise!Spec
=============================================================================
