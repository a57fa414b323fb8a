--------------------------- MODULE TenantController ---------------------------
(***************************************************************************)
(* The task that keeps the allow-list: main() of proxy/src/main.rs until   *)
(* it serves, then worker() of proxy/src/controller/controller.rs, which   *)
(* polls the cluster through controller_iteration().  Every await is a     *)
(* place where another task may run, and so a step of its own.             *)
(***************************************************************************)
EXTENDS SharedController, RuleListing, ProxyConfig

CONSTANTS
    Ctl,         \* this task, as a user of the lock
    HasClient,   \* the poll interval is not zero and a client was made
    Stoppable    \* someone may give the directive to stop

ASSUME ControllerAssumption ==
    /\ Ctl \in Procs
    /\ HasClient \in BOOLEAN
    /\ Stoppable \in BOOLEAN
    /\ IsFiniteSet(Tenants)
    /\ RuleTenants \subseteq Tenants
    /\ Range(allow_listed_tenants) \subseteq Tenants

VARIABLES
    cpc,       \* where the task stands
    serving,   \* main() has spawned worker() and serves requests
    published  \* history: what the last complete update was to publish

controllerVars == <<cpc, serving, published>>
allControllerVars == <<lockVars, fieldVars, k8s, listingVars, controllerVars>>

ControllerStates ==
    { "boot", "iterate", "reading", "listing", "acquired", "observing", "spawn",
      "init", "init_wait", "check", "check_wait", "sleeping", "break",
      "clean_wait", "exited" }

ControllerTypeOK ==
    /\ LockTypeOK
    /\ FieldsTypeOK
    /\ ListingTypeOK
    /\ cpc \in ControllerStates
    /\ serving \in BOOLEAN
    /\ published \in SUBSET Tenants

ControllerInit ==
    /\ LockInit
    /\ EmptyController
    /\ ListingInit
    /\ cpc = "boot"
    /\ serving = FALSE
    /\ published = {}

Goto(from, to) == cpc = from /\ cpc' = to

\* The iteration main() runs before it serves ends at 351, the others at 258.
IterationEnds == cpc' = IF serving THEN "sleeping" ELSE "spawn"

-----------------------------------------------------------------------------
(* main(), before and up to serving.                                       *)

\* The write lock is free: nobody is served yet.
Boot ==
    /\ Goto("boot", IF HasClient THEN "iterate" ELSE "spawn")
    /\ set_initial_allowed_tenants(Range(allow_listed_tenants))
    /\ published' = Range(allow_listed_tenants)
    /\ UNCHANGED <<lockVars, k8s, listingVars, serving>>

StartServing ==
    /\ Goto("spawn", "init")
    /\ serving' = TRUE
    /\ UNCHANGED <<lockVars, fieldVars, k8s, listingVars, published>>

-----------------------------------------------------------------------------
(* controller_iteration().                                                 *)

AskRead ==
    /\ cpc \in {"iterate", "sleeping"}
    /\ cpc' = "reading"
    /\ Ask(Ctl, "read")
    /\ UNCHANGED <<fieldVars, k8s, listingVars, serving, published>>

StopSeen ==
    /\ Goto("reading", IF serving THEN "break" ELSE "spawn")
    /\ Ctl \in readers
    /\ stopping
    /\ Release(Ctl)
    /\ UNCHANGED <<fieldVars, k8s, listingVars, serving, published>>

\* The read guard is kept while the cluster is listed.
StartListing ==
    /\ Goto("reading", "listing")
    /\ Ctl \in readers
    /\ ~stopping
    /\ BeginListing
    /\ UNCHANGED <<lockVars, fieldVars, serving, published>>

ListRules ==
    /\ cpc = "listing"
    /\ ListingStep
    /\ UNCHANGED <<lockVars, fieldVars, controllerVars>>

ListingOk ==
    /\ Goto("listing", "acquired")
    /\ phase = "ok"
    /\ Release(Ctl)
    /\ UNCHANGED <<fieldVars, k8s, listingVars, serving, published>>

ListingErr ==
    /\ cpc = "listing"
    /\ phase = "err"
    /\ IterationEnds
    /\ Release(Ctl)
    /\ EndListing
    /\ UNCHANGED <<fieldVars, serving, published>>

AskWrite ==
    /\ Goto("acquired", "observing")
    /\ Ask(Ctl, "write")
    /\ UNCHANGED <<fieldVars, k8s, listingVars, serving, published>>

-----------------------------------------------------------------------------
(* observe(found), under the write lock.                                   *)

\* Mutated: observe() does not wait for the write lock.
ObservingUnlocked == cpc = "observing"

Observing == cpc = "observing" /\ Ctl \in writers

\* Mutated: the difference is taken the wrong way round.
MissingTenants == (initial_tenants \cup tenants) \ found

NewTenants == found \ (initial_tenants \cup tenants)

ObserveAdd(t) ==
    /\ Observing
    /\ t \in NewTenants
    /\ add_tenant(t)
    /\ UNCHANGED <<lockVars, k8s, listingVars, controllerVars>>

ObserveRemove(t) ==
    /\ Observing
    /\ NewTenants = {}
    /\ t \in tenants \ found
    /\ remove_tenant(t)
    /\ UNCHANGED <<lockVars, k8s, listingVars, controllerVars>>

\* Mutated: observe() ends without the pass over removed tenants.
ObserveDoneEarly ==
    /\ Observing
    /\ NewTenants = {}
    /\ IterationEnds
    /\ Release(Ctl)
    /\ published' = initial_tenants \cup found
    /\ EndListing
    /\ UNCHANGED <<fieldVars, serving>>

ObserveDone ==
    /\ Observing
    /\ NewTenants = {}
    /\ tenants \subseteq found
    /\ IterationEnds
    /\ Release(Ctl)
    /\ published' = initial_tenants \cup found
    /\ EndListing
    /\ UNCHANGED <<fieldVars, serving>>

-----------------------------------------------------------------------------
(* worker().                                                               *)

AskInit ==
    /\ Goto("init", "init_wait")
    /\ Ask(Ctl, "write")
    /\ UNCHANGED <<fieldVars, k8s, listingVars, serving, published>>

\* The client is the one main() has set already, or None, which sets nothing.
init_k8s ==
    /\ Goto("init_wait", "check")
    /\ Ctl \in writers
    /\ Release(Ctl)
    /\ UNCHANGED <<fieldVars, k8s, listingVars, serving, published>>

AskCheck ==
    /\ Goto("check", "check_wait")
    /\ Ask(Ctl, "read")
    /\ UNCHANGED <<fieldVars, k8s, listingVars, serving, published>>

CheckClient ==
    /\ Goto("check_wait", IF HasClient THEN "sleeping" ELSE "exited")
    /\ Ctl \in readers
    /\ Release(Ctl)
    /\ UNCHANGED <<fieldVars, k8s, listingVars, serving, published>>

AskClean ==
    /\ Goto("break", "clean_wait")
    /\ Ask(Ctl, "write")
    /\ UNCHANGED <<fieldVars, k8s, listingVars, serving, published>>

Clean ==
    /\ Goto("clean_wait", "exited")
    /\ Ctl \in writers
    /\ clean
    /\ published' = {}
    /\ Release(Ctl)
    /\ UNCHANGED <<k8s, listingVars, serving>>

\* External: the directive controller_iteration() looks for is given, under the
\* write lock and while nobody uses it.  The repository gives it in its tests.
Stop ==
    /\ Stoppable
    /\ serving
    /\ cpc # "exited"
    /\ readers = {} /\ writers = {} /\ waiting = << >>
    /\ stopping' = TRUE
    /\ UNCHANGED <<lockVars, initial_tenants, tenants, tenants_vec>>
    /\ UNCHANGED <<k8s, listingVars, controllerVars>>

-----------------------------------------------------------------------------

ObserveStep ==
    \/ \E t \in Tenants : ObserveAdd(t) \/ ObserveRemove(t)
    \/ ObserveDone

ControllerStep ==
    \/ Boot
    \/ StartServing
    \/ AskRead
    \/ StopSeen
    \/ StartListing
    \/ ListRules
    \/ ListingOk
    \/ ListingErr
    \/ AskWrite
    \/ ObserveStep
    \/ AskInit
    \/ init_k8s
    \/ AskCheck
    \/ CheckClient
    \/ AskClean
    \/ Clean

Edit ==
    /\ \E rule \in Rules : EditRule(rule)
    /\ UNCHANGED <<lockVars, fieldVars, controllerVars>>

Grant ==
    /\ GrantRead \/ GrantWrite
    /\ UNCHANGED <<fieldVars, k8s, listingVars, controllerVars>>

ControllerNext ==
    \/ ControllerStep
    \/ Grant
    \/ Stop
    \/ Edit
    \/ cpc = "exited" /\ UNCHANGED allControllerVars

\* The runtime polls a task that is ready and the lock serves its queue; a
\* sleep ends and the server answers.
ControllerFairness ==
    /\ WF_allControllerVars(ControllerStep)
    /\ WF_allControllerVars(Grant)

ControllerSpec ==
    /\ ControllerInit
    /\ [][ControllerNext]_allControllerVars
    /\ ControllerFairness

-----------------------------------------------------------------------------

\* The vector handlers route by and the two sets observe() compares against
\* agree, also between two steps of an update: no tenant is listed twice (a
\* tenant listed twice would survive its removal, which takes one entry out),
\* and none is in both sets (controller.rs, 62-163).
VecMatchesSets ==
    /\ IsInjective(tenants_vec)
    /\ Range(tenants_vec) = initial_tenants \cup tenants
    /\ initial_tenants \cap tenants = {}

\* Outside the write lock the allow-list is the whole of what the last update
\* was to publish, the command line's tenants and one listing: no reader meets
\* an update half done (controller.rs, 167-190 and 222-226).
PublishedView == writers = {} => Range(tenants_vec) = published

\* The message of a failed listing is "failed to acquire tenants, will not
\* observe()": a listing of which a page failed is not observed
\* (controller.rs:229).
FailureNotObserved == ~(Observing /\ lost)

\* A tenant that stays in the cluster is in the end allowed for good, when the
\* listings that succeed do not lose pages and do succeed again and again.
ListingsRecover == []<>(phase = "ok") /\ <>[]~lost

TenantGetsAllowed ==
    ListingsRecover =>
        \A t \in RuleTenants :
            <>[](t \in TenantIds(k8s, Rules)) => <>[](t \in Range(tenants_vec))

\* A tenant that stays out of the cluster, and is not of the command line, is
\* in the end barred for good.
TenantGetsRevoked ==
    ListingsRecover =>
        \A t \in RuleTenants \ Range(allow_listed_tenants) :
            <>[](t \notin TenantIds(k8s, Rules)) => <>[](t \notin Range(tenants_vec))
=============================================================================
