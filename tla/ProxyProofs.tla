------------------------------- MODULE ProxyProofs -------------------------------
(***************************************************************************)
(* Proofs about the proxy, for any number of handlers, tenants, payloads   *)
(* and posts in flight: a payload is routed and sent by one allow-list,    *)
(* and its answer says what became of the posts.                           *)
(***************************************************************************)
EXTENDS Proxy, TenantControllerProofs, RoutingLemmas

-----------------------------------------------------------------------------
(* The inductive invariant.                                                *)

InHand(r) == rpc[r] \in {"routing", "forwarding"}

\* The lock excludes readers and writers.
LockExclusive == readers = {} \/ writers = {}

\* No handler runs before the proxy serves: Boot changes the list unlocked.  What
\* an earlier handler left with the upstream may be there.
IdleUntilServing(r) == ~serving => rpc[r] \in {"idle", "abandoned"}

\* A payload is in hand only under the read guard, and the list is the one that
\* was there when the guard was taken.
ListBorrowed(r) ==
    InHand(r) =>
        /\ r \in readers
        /\ allowed[r] = Range(tenants_vec)
        /\ payload[r] \in Payloads

Due(r, t) == { i \in Nat : Entitled(r, i, t) }

\* The request of each tenant: the series it is entitled to, in order.
RoutedUpTo(r, last) ==
    \A t \in Tenants : Routed(tenant_data[r][t], last, Due(r, t))

RoutedSoFar(r) ==
    /\ rpc[r] \in {"idle", "waiting"} => tenant_data[r] = NoData
    /\ rpc[r] = "routing" =>
          next[r] \in 1 .. Len(payload[r]) + 1 /\ RoutedUpTo(r, next[r] - 1)
    /\ rpc[r] = "forwarding" => RoutedUpTo(r, Len(payload[r]))

\* What waits to be sent is not empty.
QueuedHasData(r) ==
    \A t \in Tenants : post[r][t] = "queued" => tenant_data[r][t] # << >>

HandlerInv(r) ==
    /\ IdleUntilServing(r)
    /\ ListBorrowed(r)
    /\ RoutedSoFar(r)
    /\ QueuedHasData(r)

ProxyInv ==
    /\ ControllerInv
    /\ ForwardTypeOK
    /\ LockExclusive
    /\ \A r \in Requests : HandlerInv(r)

\* What a step of somebody else leaves to handler r.
Untouched(r) ==
    /\ rpc'[r] = rpc[r]
    /\ payload'[r] = payload[r]
    /\ next'[r] = next[r]
    /\ tenant_data'[r] = tenant_data[r]
    /\ post'[r] = post[r]
    /\ allowed'[r] = allowed[r]

-----------------------------------------------------------------------------
(* Lists and options.                                                      *)

\* An empty option splits into one part: there is always an allow-list.
LEMMA AllowListingIsOn == uses_allow_listing = TRUE
BY DEF uses_allow_listing, allowed_tenants, Split

LEMMA ReplicateIsList == replicate_to \in Seq(Range(replicate_to))
<1>1. CASE DisableFullReplication
  BY <1>1 DEF replicate_to
<1>2. CASE ~DisableFullReplication /\ DefaultTenantList = << >>
  BY <1>2 DEF replicate_to, Split, Range
<1>3. CASE ~DisableFullReplication /\ DefaultTenantList # << >>
  BY <1>3, OptionsAssumption DEF replicate_to, Split, Range, ListedIn
<1> QED
  BY <1>1, <1>2, <1>3

\* The length of a payload counts its series.
LEMMA PayloadIsList ==
    ASSUME NEW p \in Payloads
    PROVE  Len(p) \in Nat /\ DOMAIN p = 1 .. Len(p)
BY ForwardingAssumption, LenProperties

-----------------------------------------------------------------------------
(* What a step does to the handlers it does not concern.                   *)

LEMMA UntouchedInv ==
    ASSUME NEW r \in Requests, HandlerInv(r), Untouched(r),
           serving => serving',
           InHand(r) => tenants_vec' = tenants_vec,
           InHand(r) /\ r \in readers => r \in readers'
    PROVE  HandlerInv(r)'
<1> USE DEF HandlerInv, Untouched
<1>1. IdleUntilServing(r)'
  BY DEF IdleUntilServing
<1>2. ListBorrowed(r)'
  BY DEF ListBorrowed, InHand
<1>3. \A t : Due(r, t)' = Due(r, t)
  BY DEF Due, Entitled
<1>4. \A last : RoutedUpTo(r, last) => RoutedUpTo(r, last)'
  BY <1>3 DEF RoutedUpTo
<1>5. RoutedSoFar(r)'
  BY <1>4 DEF RoutedSoFar
<1>6. QueuedHasData(r)'
  BY DEF QueuedHasData
<1> QED
  BY <1>1, <1>2, <1>5, <1>6

\* Handlers use the lock and leave the rest of the controller alone.
LEMMA HandlerLockStep ==
    ASSUME ProxyInv, NEW r \in Requests, UNCHANGED notLockVars,
           Ask(r, "read") \/ Release(r) \/ Withdraw(r) \/ UNCHANGED lockVars
    PROVE  /\ ControllerInv'
           /\ LockExclusive'
           /\ tenants_vec' = tenants_vec
           /\ serving' = serving
           /\ \A q \in Requests : q # r /\ q \in readers => q \in readers'
<1>1. r \in Procs /\ r # Ctl
  BY ForwardingAssumption, ProxyAssumption
<1>2. LockTypeOK'
  BY <1>1, LockOperationsType DEF ProxyInv, ControllerInv, ControllerTypeOK
<1>3. UNCHANGED listVars /\ cpc' = cpc
  BY DEF notLockVars, listVars, controllerVars
<1>4. Observing => Observing'
  BY <1>1, <1>3 DEF Observing, Ask, Release, Withdraw, lockVars
<1>5. ControllerInv'
  BY <1>2, <1>3, <1>4, LockStepInv
     DEF ProxyInv, ControllerInv, ControllerTypeOK, ListingOfIteration
<1>6. LockExclusive'
  BY DEF ProxyInv, LockExclusive, Ask, Release, Withdraw, lockVars
<1>7. \A q \in Requests : q # r /\ q \in readers => q \in readers'
  BY DEF Ask, Release, Withdraw, lockVars
<1> QED
  BY <1>3, <1>5, <1>6, <1>7 DEF listVars, fieldVars

\* The invariant after a step of handler r, from what it holds of r.
LEMMA HandlerStepFrame ==
    ASSUME ProxyInv, NEW r \in Requests, UNCHANGED notLockVars,
           Ask(r, "read") \/ Release(r) \/ Withdraw(r) \/ UNCHANGED lockVars,
           ForwardTypeOK',
           \A q \in Requests : q # r => Untouched(q),
           HandlerInv(r)'
    PROVE  ProxyInv'
<1>1. /\ ControllerInv' /\ LockExclusive'
      /\ tenants_vec' = tenants_vec /\ serving' = serving
      /\ \A q \in Requests : q # r /\ q \in readers => q \in readers'
  BY HandlerLockStep
<1>2. ASSUME NEW q \in Requests, q # r PROVE HandlerInv(q)'
  BY <1>1, <1>2, UntouchedInv DEF ProxyInv
<1> QED
  BY <1>1, <1>2 DEF ProxyInv

-----------------------------------------------------------------------------
(* The controller's steps.                                                 *)

\* While a handler has a payload in hand the list does not change and its guard
\* is not taken away: who changes the list has the write lock, or runs before
\* the proxy serves.
LEMMA ListKeptInHand ==
    ASSUME ProxyInv, NEW r \in Requests, InHand(r),
           ControllerStep \/ Edit \/ Stop \/ Grant
    PROVE  tenants_vec' = tenants_vec /\ r \in readers'
<1>1. r \in readers /\ writers = {} /\ serving /\ r # Ctl
  BY ProxyAssumption DEF ProxyInv, HandlerInv, ListBorrowed, IdleUntilServing, InHand,
                         LockExclusive
<1>2. cpc # "boot"
  BY <1>1 DEF ProxyInv, ControllerInv, BootState
<1>3. CASE ControllerStep
  <2>1. ~Boot /\ ~ObserveStep /\ ~Clean
    BY <1>1, <1>2 DEF Boot, Goto, ObserveStep, ObserveAdd, ObserveRemove, ObserveDone,
                      Observing, Clean
  <2>2. tenants_vec' = tenants_vec
    BY <1>3, <2>1
       DEF ControllerStep, StartServing, AskRead, StopSeen, StartListing, ListRules,
           ListingOk, ListingErr, AskWrite, AskInit, init_k8s, AskCheck, CheckClient,
           AskClean, fieldVars
  <2>3. readers' = readers \/ readers' = readers \ {Ctl}
    BY <1>3, <2>1
       DEF ControllerStep, StartServing, AskRead, StopSeen, StartListing, ListRules,
           ListingOk, ListingErr, AskWrite, AskInit, init_k8s, AskCheck, CheckClient,
           AskClean, lockVars, Ask, Release
  <2> QED
    BY <1>1, <2>2, <2>3
<1>4. CASE Edit \/ Stop
  BY <1>1, <1>4 DEF Edit, Stop, lockVars, fieldVars
<1>5. CASE Grant
  BY <1>1, <1>5 DEF Grant, GrantRead, GrantWrite, fieldVars
<1> QED
  BY <1>3, <1>4, <1>5

\* No step gives the lock to a reader and a writer at once.
LEMMA LockStaysExclusive ==
    ASSUME LockExclusive, ControllerStep \/ Edit \/ Stop \/ Grant
    PROVE  LockExclusive'
<1>1. CASE ControllerStep
  <2>1. readers' \subseteq readers /\ writers' \subseteq writers
    BY <1>1
       DEF ControllerStep, ObserveStep, ObserveAdd, ObserveRemove, ObserveDone, Boot,
           StartServing, AskRead, StopSeen, StartListing, ListRules, ListingOk,
           ListingErr, AskWrite, AskInit, init_k8s, AskCheck, CheckClient, AskClean,
           Clean, lockVars, Ask, Release
  <2> QED
    BY <2>1 DEF LockExclusive
<1>2. CASE Edit \/ Stop
  BY <1>2 DEF Edit, Stop, lockVars, LockExclusive
<1>3. CASE Grant
  BY <1>3 DEF Grant, GrantRead, GrantWrite, LockExclusive
<1> QED
  BY <1>1, <1>2, <1>3

LEMMA ControllerSideInv ==
    ASSUME ProxyInv, UNCHANGED forwardVars, ControllerStep \/ Edit \/ Stop \/ Grant
    PROVE  ProxyInv'
<1>1. ControllerInv'
  BY ControllerStepInv, EditInv, StopInv, GrantInv DEF ProxyInv
<1>2. LockExclusive'
  BY LockStaysExclusive DEF ProxyInv
<1>3. ForwardTypeOK'
  BY DEF ProxyInv, ForwardTypeOK, forwardVars
<1>4. serving => serving'
  BY DEF ControllerStep, ObserveStep, ObserveAdd, ObserveRemove, ObserveDone, Boot,
         StartServing, AskRead, StopSeen, StartListing, ListRules, ListingOk, ListingErr,
         AskWrite, AskInit, init_k8s, AskCheck, CheckClient, AskClean, Clean, Edit, Stop,
         Grant, controllerVars
<1>5. ASSUME NEW r \in Requests PROVE HandlerInv(r)'
  <2>1. HandlerInv(r) /\ Untouched(r)
    BY DEF ProxyInv, Untouched, forwardVars
  <2>2. InHand(r) => tenants_vec' = tenants_vec /\ r \in readers'
    BY ListKeptInHand
  <2> QED
    BY <1>4, <2>1, <2>2, UntouchedInv
<1> QED
  BY <1>1, <1>2, <1>3, <1>5 DEF ProxyInv

-----------------------------------------------------------------------------
(* The steps of a handler and of its client.                               *)

\* A handler that has a request runs only when the proxy serves.
LEMMA BusyMeansServing ==
    ASSUME ProxyInv, NEW r \in Requests, rpc[r] \notin {"idle", "abandoned"}
    PROVE  serving
BY DEF ProxyInv, HandlerInv, IdleUntilServing

\* Nothing but its data and its queue is asked of a handler that is done.
LEMMA DoneInv ==
    ASSUME NEW r \in Requests, HandlerInv(r), serving',
           rpc'[r] \in {"answered", "abandoned"},
           tenant_data'[r] = tenant_data[r],
           \A t \in Tenants : post'[r][t] = "queued" => post[r][t] = "queued"
    PROVE  HandlerInv(r)'
BY DEF HandlerInv, IdleUntilServing, ListBorrowed, InHand, RoutedSoFar, QueuedHasData

LEMMA ReceiveInv ==
    ASSUME ProxyInv, NEW r \in Requests, serving, Receive(r), UNCHANGED notLockVars
    PROVE  ProxyInv'
<1>1. ForwardTypeOK'
  BY DEF Receive, Move, ProxyInv, ForwardTypeOK
<1>2. \A q \in Requests : q # r => Untouched(q)
  BY DEF Receive, Move, ProxyInv, ForwardTypeOK, Untouched
<1>3. rpc[r] = "idle" /\ rpc'[r] = "waiting" /\ serving'
  BY DEF Receive, Move, ProxyInv, ForwardTypeOK, notLockVars, controllerVars
<1>4. HandlerInv(r)'
  <2>1. HandlerInv(r) /\ tenant_data'[r] = tenant_data[r] /\ post'[r] = post[r]
    BY DEF ProxyInv, Receive
  <2> QED
    BY <1>3, <2>1
       DEF HandlerInv, IdleUntilServing, ListBorrowed, InHand, RoutedSoFar, QueuedHasData,
           NoData
<1>5. Ask(r, "read")
  BY DEF Receive
<1> QED
  BY <1>1, <1>2, <1>4, <1>5, HandlerStepFrame

LEMMA RejectGarbageInv ==
    ASSUME ProxyInv, NEW r \in Requests, RejectGarbage(r), UNCHANGED notLockVars
    PROVE  ProxyInv'
<1>1. ForwardTypeOK'
  BY DEF RejectGarbage, Move, ProxyInv, ForwardTypeOK
<1>2. \A q \in Requests : q # r => Untouched(q)
  BY DEF RejectGarbage, Move, ProxyInv, ForwardTypeOK, Untouched
<1>3. serving' /\ rpc'[r] = "answered"
  <2>1. rpc[r] = "waiting" /\ rpc'[r] = "answered"
    BY DEF RejectGarbage, Move, ProxyInv, ForwardTypeOK
  <2>2. serving
    BY <2>1, BusyMeansServing
  <2> QED
    BY <2>1, <2>2 DEF notLockVars, controllerVars
<1>4. HandlerInv(r)'
  BY <1>3, DoneInv DEF RejectGarbage, ProxyInv
<1>5. Release(r)
  BY DEF RejectGarbage
<1> QED
  BY <1>1, <1>2, <1>4, <1>5, HandlerStepFrame

LEMMA DecodeInv ==
    ASSUME ProxyInv, NEW r \in Requests, Decode(r), UNCHANGED notLockVars
    PROVE  ProxyInv'
<1>1. tenants_vec' = tenants_vec /\ Range(tenants_vec) \subseteq Tenants
  <2>1. tenants_vec \in Seq(Tenants)
    BY DEF ProxyInv, ControllerInv, ControllerTypeOK, FieldsTypeOK
  <2> QED
    BY <2>1, LenProperties DEF Range, notLockVars, fieldVars
<1>2. ForwardTypeOK'
  BY <1>1 DEF Decode, Move, ProxyInv, ForwardTypeOK
<1>3. \A q \in Requests : q # r => Untouched(q)
  BY DEF Decode, Move, ProxyInv, ForwardTypeOK, Untouched
<1>4. /\ rpc[r] = "waiting" /\ rpc'[r] = "routing" /\ next'[r] = 1
      /\ payload'[r] = payload[r] /\ payload[r] \in Payloads
      /\ allowed'[r] = Range(tenants_vec)
      /\ tenant_data'[r] = tenant_data[r] /\ post'[r] = post[r]
      /\ r \in readers'
  BY DEF Decode, Move, ProxyInv, ForwardTypeOK, lockVars
<1>5. HandlerInv(r)'
  <2>1. IdleUntilServing(r)' /\ ListBorrowed(r)'
    BY <1>1, <1>4, BusyMeansServing
       DEF IdleUntilServing, ListBorrowed, notLockVars, controllerVars
  <2>2. tenant_data'[r] = NoData
    BY <1>4 DEF ProxyInv, HandlerInv, RoutedSoFar
  <2>3. RoutedUpTo(r, 0)'
    <3>1. ASSUME NEW D PROVE Routed(<< >>, 0, D)
      BY DEF Routed, Range, Nondecreasing
    <3> QED
      BY <2>2, <3>1 DEF RoutedUpTo, NoData
  <2>4. next'[r] \in 1 .. Len(payload'[r]) + 1 /\ next'[r] - 1 = 0
    BY <1>4, PayloadIsList
  <2>5. RoutedSoFar(r)'
    BY <1>4, <2>3, <2>4 DEF RoutedSoFar
  <2>6. QueuedHasData(r)'
    BY <1>4 DEF ProxyInv, HandlerInv, QueuedHasData
  <2> QED
    BY <2>1, <2>5, <2>6 DEF HandlerInv
<1> QED
  BY <1>2, <1>3, <1>5, HandlerStepFrame DEF Decode

LEMMA StartForwardingInv ==
    ASSUME ProxyInv, NEW r \in Requests, StartForwarding(r), UNCHANGED notLockVars
    PROVE  ProxyInv'
<1>1. ForwardTypeOK'
  BY DEF StartForwarding, Move, ProxyInv, ForwardTypeOK
<1>2. \A q \in Requests : q # r => Untouched(q)
  BY DEF StartForwarding, Move, ProxyInv, ForwardTypeOK, Untouched
<1>3. /\ rpc[r] = "routing" /\ rpc'[r] = "forwarding" /\ next[r] > Len(payload[r])
      /\ payload'[r] = payload[r] /\ allowed'[r] = allowed[r]
      /\ tenant_data'[r] = tenant_data[r]
      /\ \A t \in Tenants : post'[r][t] = "queued" => tenant_data[r][t] # << >>
      /\ readers' = readers /\ tenants_vec' = tenants_vec
  BY DEF StartForwarding, Move, ProxyInv, ForwardTypeOK, lockVars, notLockVars, fieldVars
<1>4. HandlerInv(r)
  BY DEF ProxyInv
<1>5. HandlerInv(r)'
  <2>1. IdleUntilServing(r)' /\ ListBorrowed(r)'
    BY <1>3, <1>4, BusyMeansServing
       DEF HandlerInv, IdleUntilServing, ListBorrowed, InHand, notLockVars, controllerVars
  <2>2. next[r] - 1 = Len(payload[r])
    <3>1. payload[r] \in Payloads /\ next[r] \in 1 .. Len(payload[r]) + 1
      BY <1>3, <1>4 DEF HandlerInv, ListBorrowed, InHand, RoutedSoFar
    <3> QED
      BY <1>3, <3>1, PayloadIsList
  <2>3. RoutedUpTo(r, Len(payload[r]))
    BY <1>3, <1>4, <2>2 DEF HandlerInv, RoutedSoFar
  <2>4. \A t : Due(r, t)' = Due(r, t)
    BY <1>3 DEF Due, Entitled
  <2>5. RoutedSoFar(r)'
    BY <1>3, <2>3, <2>4 DEF RoutedSoFar, RoutedUpTo
  <2>6. QueuedHasData(r)'
    BY <1>3 DEF QueuedHasData
  <2> QED
    BY <2>1, <2>5, <2>6 DEF HandlerInv
<1> QED
  BY <1>1, <1>2, <1>5, HandlerStepFrame DEF StartForwarding

LEMMA RouteSeriesInv ==
    ASSUME ProxyInv, NEW r \in Requests, RouteSeries(r), UNCHANGED notLockVars
    PROVE  ProxyInv'
<1>0. PICK new : new = next[r]
  OBVIOUS
<1> DEFINE n(t) == Copies(payload[r][new], t, tenant_labels, tenants_vec,
                          uses_allow_listing, replicate_to)
           more(t) == tenant_data[r][t] \o Repeated(new, n(t))
<1>1. HandlerInv(r) /\ ForwardTypeOK /\ tenants_vec' = tenants_vec
  BY DEF ProxyInv, notLockVars, fieldVars
<1>2. /\ rpc[r] = "routing" /\ new <= Len(payload[r])
      /\ rpc' = rpc /\ payload' = payload /\ post' = post /\ allowed' = allowed
      /\ UNCHANGED lockVars /\ num_of_failures' = num_of_failures /\ status' = status
      /\ next' = [next EXCEPT ![r] = new + 1]
      /\ tenant_data' = [tenant_data EXCEPT ![r] = [t \in Tenants |-> more(t)]]
  BY <1>0, <1>1 DEF RouteSeries, ForwardTypeOK
<1>3. /\ payload[r] \in Payloads /\ new \in 1 .. Len(payload[r]) + 1
      /\ RoutedUpTo(r, new - 1) /\ allowed[r] = Range(tenants_vec) /\ r \in readers
  BY <1>0, <1>1, <1>2 DEF HandlerInv, ListBorrowed, InHand, RoutedSoFar
<1>4. Len(payload[r]) \in Nat /\ new \in Nat /\ new - 1 \in Nat /\ new = (new - 1) + 1
  BY <1>3, PayloadIsList
<1>5. \A t : n(t) \in Nat /\ (n(t) > 0 <=> Entitled(r, new, t))
  <2>1. replicate_to \in Seq(Range(replicate_to)) /\ uses_allow_listing = TRUE
    BY ReplicateIsList, AllowListingIsOn
  <2> QED
    BY <1>3, <2>1, CopiesOfEntitled DEF Entitled
<1> HIDE DEF n
<1>6. ASSUME NEW t \in Tenants
      PROVE  /\ Routed(more(t), new, Due(r, t))
             /\ tenant_data[r][t] # << >> => more(t) # << >>
  <2>1. Routed(tenant_data[r][t], new - 1, Due(r, t)) /\ tenant_data[r][t] \in Seq(Nat)
    BY <1>3 DEF RoutedUpTo, Routed
  <2>2. more(t) \in Seq(Nat) /\ Extended(more(t), tenant_data[r][t], new, n(t))
    BY <1>4, <1>5, <2>1, ExtendedByRepeated
  <2>3. n(t) > 0 <=> new \in Due(r, t)
    BY <1>4, <1>5 DEF Due
  <2> HIDE DEF more
  <2> QED
    BY <1>4, <1>5, <2>1, <2>2, <2>3, RoutedOneMore
<1> HIDE DEF more
<1>7. ForwardTypeOK'
  <2>1. \A t \in Tenants : more(t) \in Seq(Nat)
    BY <1>6 DEF Routed
  <2> QED
    BY <1>1, <1>2, <1>4, <2>1 DEF ForwardTypeOK
<1>8. \A q \in Requests : q # r => Untouched(q)
  BY <1>1, <1>2 DEF ForwardTypeOK, Untouched
<1>9. HandlerInv(r)'
  <2>1. /\ next'[r] = new + 1
        /\ \A t \in Tenants : tenant_data'[r][t] = more(t)
    BY <1>1, <1>2 DEF ForwardTypeOK
  <2>2. IdleUntilServing(r)' /\ ListBorrowed(r)'
    BY <1>1, <1>2
       DEF HandlerInv, IdleUntilServing, ListBorrowed, InHand, notLockVars, controllerVars,
           lockVars
  <2>3. RoutedUpTo(r, new)'
    <3>1. \A t : Due(r, t)' = Due(r, t)
      BY <1>2 DEF Due, Entitled
    <3> QED
      BY <1>6, <2>1, <3>1 DEF RoutedUpTo
  <2>4. next'[r] \in 1 .. Len(payload'[r]) + 1 /\ next'[r] - 1 = new
    BY <1>2, <1>3, <1>4, <2>1
  <2>5. RoutedSoFar(r)'
    BY <1>2, <2>3, <2>4 DEF RoutedSoFar
  <2>6. QueuedHasData(r)'
    BY <1>1, <1>2, <1>6, <2>1 DEF HandlerInv, QueuedHasData
  <2> QED
    BY <2>2, <2>5, <2>6 DEF HandlerInv
<1> QED
  BY <1>2, <1>7, <1>8, <1>9, HandlerStepFrame

\* A step that only sends or answers one request.
LEMMA PostInv ==
    ASSUME ProxyInv, NEW r \in Requests, NEW t \in Tenants, NEW s, s # "queued",
           post' = [post EXCEPT ![r][t] = s],
           UNCHANGED <<lockVars, rpc, payload, next, tenant_data, allowed, notLockVars>>,
           ForwardTypeOK'
    PROVE  ProxyInv'
<1>1. \A q \in Requests : q # r => Untouched(q)
  BY DEF ProxyInv, ForwardTypeOK, Untouched
<1>2. /\ HandlerInv(r)
      /\ \A u \in Tenants : post'[r][u] = "queued" => post[r][u] = "queued"
  BY DEF ProxyInv, ForwardTypeOK
<1>3. HandlerInv(r)'
  <2>1. IdleUntilServing(r)' /\ ListBorrowed(r)'
    BY <1>2
       DEF HandlerInv, IdleUntilServing, ListBorrowed, InHand, lockVars, notLockVars,
           fieldVars, controllerVars
  <2>2. \A u : Due(r, u)' = Due(r, u)
    BY DEF Due, Entitled
  <2>3. RoutedSoFar(r)'
    BY <1>2, <2>2 DEF HandlerInv, RoutedSoFar, RoutedUpTo
  <2>4. QueuedHasData(r)'
    BY <1>2 DEF HandlerInv, QueuedHasData
  <2> QED
    BY <2>1, <2>3, <2>4 DEF HandlerInv
<1> QED
  BY <1>1, <1>3, HandlerStepFrame

LEMMA SpawnInv ==
    ASSUME ProxyInv, NEW r \in Requests, NEW t \in Tenants, Spawn(r, t),
           UNCHANGED notLockVars
    PROVE  ProxyInv'
<1>1. ForwardTypeOK'
  BY DEF Spawn, ProxyInv, ForwardTypeOK
<1> QED
  BY <1>1, PostInv DEF Spawn

LEMMA RemainderIsSmall ==
    ASSUME NEW k \in Nat, NEW m \in Nat, m > 0
    PROVE  k % m \in 0 .. m - 1
OBVIOUS

\* The u16 count of failures.
LEMMA CountWraps ==
    ASSUME NEW n \in 0 .. U16 - 1
    PROVE  (n + 1) % U16 \in 0 .. U16 - 1
<1>1. U16 \in Nat /\ U16 > 0
  BY DEF U16
<1> QED
  BY <1>1, RemainderIsSmall

LEMMA ReplyInv ==
    ASSUME ProxyInv, NEW r \in Requests, NEW t \in Tenants,
           NEW reply \in UpstreamReplies, Reply(r, t, reply), UNCHANGED notLockVars
    PROVE  ProxyInv'
<1>1. reply \in Replies /\ reply # "queued"
  BY ForwardingAssumption DEF Replies
<1>2. ForwardTypeOK'
  <2>1. ForwardTypeOK
    BY DEF ProxyInv
  <2>2. PICK more : more = (num_of_failures[r] + 1) % U16
    OBVIOUS
  <2>3. more \in 0 .. U16 - 1
    BY <2>1, <2>2, CountWraps DEF ForwardTypeOK
  <2>4. num_of_failures' \in [Requests -> 0 .. U16 - 1]
    <3>1. num_of_failures'
             = [num_of_failures EXCEPT ![r] =
                  IF rpc[r] = "forwarding" /\ IsFailure(reply) THEN more ELSE @]
      BY <2>2 DEF Reply
    <3> QED
      BY <2>1, <2>3, <3>1 DEF ForwardTypeOK
  <2>5. post' \in [Requests -> [Tenants -> {"none", "queued", "inflight"} \cup Replies]]
    BY <1>1, <2>1 DEF Reply, ForwardTypeOK
  <2> QED
    BY <2>1, <2>4, <2>5 DEF Reply, ForwardTypeOK
<1> QED
  BY <1>1, <1>2, PostInv DEF Reply

LEMMA RespondInv ==
    ASSUME ProxyInv, NEW r \in Requests, Respond(r), UNCHANGED notLockVars
    PROVE  ProxyInv'
<1>1. ForwardTypeOK'
  BY DEF Respond, Move, ProxyInv, ForwardTypeOK
<1>2. \A q \in Requests : q # r => Untouched(q)
  BY DEF Respond, Move, ProxyInv, ForwardTypeOK, Untouched
<1>3. serving' /\ rpc'[r] = "answered"
  <2>1. rpc[r] = "forwarding" /\ rpc'[r] = "answered"
    BY DEF Respond, Move, ProxyInv, ForwardTypeOK
  <2>2. serving
    BY <2>1, BusyMeansServing
  <2> QED
    BY <2>1, <2>2 DEF notLockVars, controllerVars
<1>4. HandlerInv(r)'
  BY <1>3, DoneInv DEF Respond, ProxyInv
<1>5. Release(r)
  BY DEF Respond
<1> QED
  BY <1>1, <1>2, <1>4, <1>5, HandlerStepFrame

\* A slot that keeps at most some requests in flight has nothing to account for.
LEMMA KeepOrphansInv ==
    ASSUME ProxyInv, NEW r \in Requests, rpc[r] # "idle", NEW orphans,
           KeepOrphans(r, orphans), UNCHANGED notLockVars,
           Release(r) \/ Withdraw(r) \/ UNCHANGED lockVars
    PROVE  ProxyInv'
<1>1. ForwardTypeOK'
  <2> DEFINE posts == {"none", "queued", "inflight"} \cup Replies
             left == [t \in Tenants |-> IF t \in orphans THEN "inflight" ELSE "none"]
  <2>1. /\ NoData \in [Tenants -> Seq(Nat)] /\ left \in [Tenants -> posts]
        /\ 0 \in 0 .. U16 - 1 /\ {} \in SUBSET Tenants
    BY DEF NoData, U16
  <2>2. ForwardTypeOK
    BY DEF ProxyInv
  <2>3. post' = [post EXCEPT ![r] = left]
    BY DEF KeepOrphans
  <2> HIDE DEF left
  <2>4. /\ tenant_data' \in [Requests -> [Tenants -> Seq(Nat)]]
        /\ post' \in [Requests -> [Tenants -> posts]]
    BY <2>1, <2>2, <2>3 DEF KeepOrphans, ForwardTypeOK
  <2>5. /\ num_of_failures' \in [Requests -> 0 .. U16 - 1]
        /\ allowed' \in [Requests -> SUBSET Tenants]
        /\ status' \in [Requests -> {0, 200, 400, 500}]
    BY <2>1, <2>2 DEF KeepOrphans, ForwardTypeOK
  <2>6. /\ rpc' \in [Requests -> {"idle", "waiting", "routing", "forwarding",
                                 "answered", "abandoned"}]
        /\ payload' \in [Requests -> Payloads \cup {Garbage}]
        /\ next' \in [Requests -> Nat]
    BY <2>2 DEF KeepOrphans, ForwardTypeOK
  <2> QED
    BY <2>4, <2>5, <2>6 DEF ForwardTypeOK
<1>2. \A q \in Requests : q # r => Untouched(q)
  BY DEF KeepOrphans, ProxyInv, ForwardTypeOK, Untouched
<1>3. /\ rpc'[r] \in {"idle", "abandoned"} /\ tenant_data'[r] = NoData
      /\ \A t \in Tenants : post'[r][t] # "queued"
  BY DEF KeepOrphans, ProxyInv, ForwardTypeOK
<1>4. HandlerInv(r)'
  BY <1>3
     DEF HandlerInv, IdleUntilServing, ListBorrowed, InHand, RoutedSoFar, QueuedHasData,
         NoData
<1> QED
  BY <1>1, <1>2, <1>4, HandlerStepFrame

LEMMA AbandonInv ==
    ASSUME ProxyInv, NEW r \in Requests, Abandon(r), UNCHANGED notLockVars
    PROVE  ProxyInv'
<1>1. rpc[r] # "idle" /\ KeepOrphans(r, InState(r, "inflight"))
  BY DEF Abandon
<1>2. Release(r) \/ Withdraw(r)
  BY DEF Abandon
<1> QED
  BY <1>1, <1>2, KeepOrphansInv

LEMMA RecycleInv ==
    ASSUME ProxyInv, NEW r \in Requests, Recycle(r), UNCHANGED notLockVars
    PROVE  ProxyInv'
<1>1. rpc[r] # "idle" /\ KeepOrphans(r, InState(r, "inflight")) /\ UNCHANGED lockVars
  BY DEF Recycle
<1> QED
  BY <1>1, KeepOrphansInv

LEMMA OrphanReplyInv ==
    ASSUME ProxyInv, NEW r \in Requests, NEW t \in Tenants, OrphanReply(r, t),
           UNCHANGED notLockVars
    PROVE  ProxyInv'
<1>1. /\ rpc[r] # "idle" /\ KeepOrphans(r, InState(r, "inflight") \ {t})
      /\ UNCHANGED lockVars
  BY DEF OrphanReply
<1> QED
  BY <1>1, KeepOrphansInv

-----------------------------------------------------------------------------
(* The proxy.                                                              *)

LEMMA ProxyInitInv == ProxyInit => ProxyInv
<1> SUFFICES ASSUME ProxyInit PROVE ProxyInv
  OBVIOUS
<1>1. ControllerInv
  BY ControllerInitInv DEF ProxyInit
<1>2. ForwardTypeOK
  <2>1. NoData \in [Tenants -> Seq(Nat)]
    BY DEF NoData
  <2> QED
    BY <2>1 DEF ProxyInit, ForwardInit, ForwardTypeOK, NoPosts, U16
<1>3. LockExclusive
  BY DEF ProxyInit, ControllerInit, LockInit, LockExclusive
<1>4. \A r \in Requests : HandlerInv(r)
  BY DEF ProxyInit, ForwardInit, HandlerInv, IdleUntilServing, ListBorrowed, InHand,
         RoutedSoFar, QueuedHasData, NoPosts
<1> QED
  BY <1>1, <1>2, <1>3, <1>4 DEF ProxyInv

LEMMA ProxyStepInv ==
    ASSUME ProxyInv, ProxyNext
    PROVE  ProxyInv'
<1>1. CASE ControllerTurn \/ Environment \/ Granting
  BY <1>1, ControllerSideInv DEF ControllerTurn, Environment, Granting
<1>2. ASSUME NEW r \in Requests, Handle(r) PROVE ProxyInv'
  BY <1>2, RejectGarbageInv, DecodeInv, RouteSeriesInv, StartForwardingInv, SpawnInv,
     RespondInv DEF Handle, HandlerStep
<1>3. ASSUME NEW r \in Requests, Client(r) PROVE ProxyInv'
  BY <1>3, ReceiveInv, AbandonInv, RecycleInv DEF Client
<1>4. ASSUME NEW r \in Requests, NEW t \in Tenants, Answer(r, t) PROVE ProxyInv'
  BY <1>4, ReplyInv, OrphanReplyInv DEF Answer
<1> QED
  BY <1>1, <1>2, <1>3, <1>4 DEF ProxyNext

\* While nothing happens nothing changes.
LEMMA ProxyStutterInv ==
    ASSUME ProxyInv, UNCHANGED proxyVars
    PROVE  ProxyInv'
<1>1. ControllerInv'
  BY ControllerStutterInv DEF ProxyInv, proxyVars
<1>2. ForwardTypeOK' /\ LockExclusive'
  BY DEF ProxyInv, proxyVars, allControllerVars, lockVars, forwardVars, ForwardTypeOK,
         LockExclusive
<1>3. ASSUME NEW r \in Requests PROVE HandlerInv(r)'
  <2>1. HandlerInv(r) /\ Untouched(r)
    BY DEF ProxyInv, Untouched, proxyVars, forwardVars
  <2>2. tenants_vec' = tenants_vec /\ readers' = readers /\ serving' = serving
    BY DEF proxyVars, allControllerVars, lockVars, fieldVars, controllerVars
  <2> QED
    BY <2>1, <2>2, UntouchedInv
<1> QED
  BY <1>1, <1>2, <1>3 DEF ProxyInv

\* ProxyInv is inductive.
THEOREM ProxyInvariant == ProxySpec => []ProxyInv
<1>1. ProxyInv /\ [ProxyNext]_proxyVars => ProxyInv'
  BY ProxyStepInv, ProxyStutterInv
<1> QED
  BY <1>1, ProxyInitInv, PTL DEF ProxySpec

\* Every variable of the proxy keeps to its type.
THEOREM ProxyTypeCorrect == ProxySpec => []ProxyTypeOK
<1>1. ProxyInv => ProxyTypeOK
  BY DEF ProxyInv, ControllerInv, ProxyTypeOK
<1> QED
  BY <1>1, ProxyInvariant, PTL

\* A complete request has exactly the series the tenant is entitled to, in order.
LEMMA RoutedByInv == ProxyInv => RoutedByOneAllowList
<1> SUFFICES ASSUME ProxyInv, NEW r \in Requests, rpc[r] = "forwarding",
                    NEW t \in Tenants
             PROVE  /\ Range(tenant_data[r][t])
                          = { i \in DOMAIN payload[r] : Entitled(r, i, t) }
                    /\ Nondecreasing(tenant_data[r][t])
  BY DEF RoutedByOneAllowList
<1>1. payload[r] \in Payloads
  BY DEF ProxyInv, HandlerInv, ListBorrowed, InHand
<1>2. DOMAIN payload[r] = 1 .. Len(payload[r]) /\ Len(payload[r]) \in Nat
  BY <1>1, PayloadIsList
<1>3. Routed(tenant_data[r][t], Len(payload[r]), Due(r, t))
  BY DEF ProxyInv, HandlerInv, RoutedSoFar, RoutedUpTo
<1>4. \A i \in 1 .. Len(payload[r]) : i \in Due(r, t) <=> Entitled(r, i, t)
  BY DEF Due
<1> QED
  BY <1>2, <1>3, <1>4 DEF Routed

\* The request of each tenant holds exactly the series it is entitled to, in
\* payload order, judged by the one allow-list there was when the handler got
\* the lock (main.rs, 284-285; metrics.rs, 33-99).
THEOREM RoutedAlwaysByOneAllowList == ProxySpec => []RoutedByOneAllowList
BY RoutedByInv, ProxyInvariant, PTL

\* What is in the request of a tenant entitles it to be sent one.
LEMMA DataMeansEntitled ==
    ASSUME ProxyInv, NEW r \in Requests, NEW t \in Tenants,
           rpc[r] = "forwarding", tenant_data[r][t] # << >>
    PROVE  t \in Range(tenants_vec) \cup Range(replicate_to)
<1>1. /\ Routed(tenant_data[r][t], Len(payload[r]), Due(r, t))
      /\ allowed[r] = Range(tenants_vec)
  BY DEF ProxyInv, HandlerInv, RoutedSoFar, RoutedUpTo, ListBorrowed, InHand
<1>2. PICK i : i \in Due(r, t)
  <2>1. tenant_data[r][t] \in Seq(Nat)
    BY <1>1 DEF Routed
  <2>2. Len(tenant_data[r][t]) \in Nat /\ Len(tenant_data[r][t]) # 0
    BY <1>1, <2>1, EmptySeq, LenProperties
  <2>3. tenant_data[r][t][1] \in Range(tenant_data[r][t])
    BY <2>1, <2>2, LenProperties DEF Range
  <2> QED
    BY <1>1, <2>3 DEF Routed
<1> QED
  BY <1>1, <1>2 DEF Due, Entitled

\* What a slot keeps in flight was in flight.
LEMMA OrphansWereSent ==
    ASSUME ForwardTypeOK, NEW q \in Requests, NEW orphans,
           orphans \subseteq InState(q, "inflight"), KeepOrphans(q, orphans),
           NEW r \in Requests, NEW t \in Tenants, post'[r][t] = "inflight"
    PROVE  post[r][t] = "inflight"
<1>1. post' = [post EXCEPT ![q] = [u \in Tenants |->
                 IF u \in orphans THEN "inflight" ELSE "none"]]
  BY DEF KeepOrphans
<1>2. CASE r = q
  BY <1>1, <1>2 DEF ForwardTypeOK, InState
<1>3. CASE r # q
  BY <1>1, <1>3 DEF ForwardTypeOK
<1> QED
  BY <1>2, <1>3

\* The only step that sends a request is Spawn.
LEMMA OnlySpawnSends ==
    ASSUME ForwardTypeOK, NEW r \in Requests, NEW t \in Tenants,
           post[r][t] # "inflight", post'[r][t] = "inflight",
           [ProxyNext]_proxyVars
    PROVE  Spawn(r, t) /\ UNCHANGED notLockVars
<1>1. post' # post
  OBVIOUS
<1>2. PICK q \in Requests : Handle(q) \/ Client(q) \/ \E u \in Tenants : Answer(q, u)
  BY <1>1
     DEF ProxyNext, ControllerTurn, Environment, Granting, proxyVars, forwardVars
<1>3. ~Client(q)
  <2>1. ~Receive(q)
    BY <1>1 DEF Receive
  <2>2. ~Abandon(q) /\ ~Recycle(q)
    BY OrphansWereSent DEF Abandon, Recycle
  <2> QED
    BY <2>1, <2>2 DEF Client
<1>4. ~ \E u \in Tenants : Answer(q, u)
  <2> SUFFICES ASSUME NEW u \in Tenants, Answer(q, u) PROVE FALSE
    OBVIOUS
  <2>1. CASE OrphanReply(q, u)
    <3>1. InState(q, "inflight") \ {u} \subseteq InState(q, "inflight")
      OBVIOUS
    <3> QED
      BY <2>1, <3>1, OrphansWereSent DEF OrphanReply
  <2>2. CASE \E reply \in UpstreamReplies : Reply(q, u, reply)
    <3>1. PICK reply \in UpstreamReplies : Reply(q, u, reply)
      BY <2>2
    <3>2. reply # "inflight"
      BY ForwardingAssumption DEF Replies
    <3>3. post'[r][t] \in {reply, post[r][t]}
      BY <3>1 DEF Reply, ForwardTypeOK
    <3> QED
      BY <3>2, <3>3
  <2> QED
    BY <2>1, <2>2 DEF Answer
<1>5. HandlerStep(q) /\ UNCHANGED notLockVars
  BY <1>2, <1>3, <1>4 DEF Handle
<1>6. ~StartForwarding(q)
  <2> SUFFICES ASSUME StartForwarding(q) PROVE FALSE
    OBVIOUS
  <2>1. post' = [post EXCEPT ![q] = [u \in Tenants |->
                   IF tenant_data[q][u] = << >> THEN "none" ELSE "queued"]]
    BY DEF StartForwarding
  <2>2. post'[r][t] \in {"none", "queued", post[r][t]}
    BY <2>1 DEF ForwardTypeOK
  <2> QED
    BY <2>2
<1>7. PICK u \in Tenants : Spawn(q, u)
  BY <1>1, <1>5, <1>6 DEF HandlerStep, RejectGarbage, Decode, RouteSeries, Respond
<1>8. q = r /\ u = t
  BY <1>7 DEF Spawn, ForwardTypeOK
<1> QED
  BY <1>5, <1>7, <1>8

\* A request is sent by the list of the moment.
LEMMA SentByTheList ==
    ASSUME ProxyInv, [ProxyNext]_proxyVars,
           NEW r \in Requests, NEW t \in Tenants,
           post[r][t] # "inflight", post'[r][t] = "inflight"
    PROVE  t \in Range(tenants_vec') \cup Range(replicate_to)
<1>1. Spawn(r, t) /\ tenants_vec' = tenants_vec
  BY OnlySpawnSends DEF ProxyInv, notLockVars, fieldVars
<1>2. t \in Range(tenants_vec) \cup Range(replicate_to)
  BY <1>1, DataMeansEntitled DEF Spawn, ProxyInv, HandlerInv, QueuedHasData
<1> QED
  BY <1>1, <1>2

\* No request is sent in the name of a tenant that is off the allow-list at that
\* moment, unless the whole stream is replicated to it (main.rs, 284-299).
THEOREM SentAlwaysWhileAllowed == ProxySpec => SentOnlyWhileAllowed
<1>1. ProxyInv /\ [ProxyNext]_proxyVars =>
        [\A r \in Requests : \A t \in Tenants :
          (post[r][t] # "inflight" /\ post'[r][t] = "inflight") =>
              t \in Range(tenants_vec') \cup Range(replicate_to)]_proxyVars
  BY SentByTheList
<1> QED
  BY <1>1, ProxyInvariant, PTL DEF ProxySpec, SentOnlyWhileAllowed

-----------------------------------------------------------------------------
(* The answer says what became of the posts, as long as there are fewer    *)
(* tenants than the 16 bits of the count of failures can tell apart.       *)

FewTenants == Cardinality(Tenants) < U16

Failures == {"3xx", "5xx", "error"}
Failed(r) == { t \in Tenants : post[r][t] \in Failures }

\* Every tenant with data has a post, and no other.
PostsAreDue(r) == \A t \in Tenants : post[r][t] = "none" <=> tenant_data[r][t] = << >>

NothingSent(r) ==
    rpc[r] \in {"idle", "waiting", "routing"} =>
        /\ \A t \in Tenants : post[r][t] = "none"
        /\ num_of_failures[r] = 0
        /\ status[r] = 0

\* The fold so far counts the failures so far.
Counting(r) ==
    rpc[r] = "forwarding" =>
        /\ PostsAreDue(r)
        /\ num_of_failures[r] = Cardinality(Failed(r))
        /\ status[r] = 0

Answered(r) ==
    rpc[r] = "answered" =>
        /\ PostsAreDue(r)
        /\ \A t \in Tenants : post[r][t] \in {"none"} \cup Replies
        /\ status[r] \in {200, 500} => (status[r] = 200 <=> Failed(r) = {})

AckInv(r) ==
    /\ NothingSent(r)
    /\ Counting(r)
    /\ Answered(r)
    /\ rpc[r] = "abandoned" => status[r] = 0

\* What a step of somebody else leaves to handler r.
SameAnswer(r) ==
    /\ rpc'[r] = rpc[r]
    /\ tenant_data'[r] = tenant_data[r]
    /\ post'[r] = post[r]
    /\ num_of_failures'[r] = num_of_failures[r]
    /\ status'[r] = status[r]

-----------------------------------------------------------------------------

LEMMA FailedIsFinite ==
    ASSUME NEW r
    PROVE  /\ IsFiniteSet(Failed(r))
           /\ Cardinality(Failed(r)) \in Nat
           /\ Cardinality(Failed(r)) <= Cardinality(Tenants)
           /\ Cardinality(Tenants) \in Nat
           /\ Cardinality(Failed(r)) = 0 <=> Failed(r) = {}
<1>1. IsFiniteSet(Tenants) /\ Failed(r) \subseteq Tenants
  BY ControllerAssumption DEF Failed
<1> QED
  BY <1>1, FS_Subset, FS_CardinalityType, FS_EmptySet

LEMMA SmallRemainder ==
    ASSUME NEW k \in Nat, NEW m \in Nat, k < m
    PROVE  k % m = k
OBVIOUS

LEMMA SameAnswerInv ==
    ASSUME NEW r \in Requests, AckInv(r), SameAnswer(r)
    PROVE  AckInv(r)'
<1>1. Failed(r)' = Failed(r)
  BY DEF SameAnswer, Failed
<1>2. PostsAreDue(r)' = PostsAreDue(r)
  BY DEF SameAnswer, PostsAreDue
<1> QED
  BY <1>1, <1>2 DEF SameAnswer, AckInv, NothingSent, Counting, Answered

\* The answer comes when every post is answered, and no failure got lost.
LEMMA RespondAck ==
    ASSUME ForwardTypeOK, NEW r \in Requests, AckInv(r), Respond(r)
    PROVE  AckInv(r)'
<1>1. /\ rpc[r] = "forwarding" /\ rpc'[r] = "answered"
      /\ status'[r] = IF num_of_failures[r] = 0 THEN 200 ELSE 500
      /\ post' = post /\ tenant_data' = tenant_data
      /\ \A t \in Tenants : post[r][t] \notin {"queued", "inflight"}
  BY DEF Respond, Move, InState, ForwardTypeOK
<1>2. PostsAreDue(r) /\ num_of_failures[r] = Cardinality(Failed(r))
  BY <1>1 DEF AckInv, Counting
<1>3. \A t \in Tenants : post[r][t] \in {"none"} \cup Replies
  BY <1>1, <1>2 DEF ForwardTypeOK
<1>4. status'[r] = 200 <=> Failed(r) = {}
  BY <1>1, <1>2, FailedIsFinite
<1>5. Failed(r)' = Failed(r) /\ PostsAreDue(r)' = PostsAreDue(r)
  BY <1>1 DEF Failed, PostsAreDue
<1> QED
  BY <1>1, <1>2, <1>3, <1>4, <1>5 DEF AckInv, NothingSent, Counting, Answered

\* One more post is answered; a failure is counted.
LEMMA ReplyAck ==
    ASSUME FewTenants, ForwardTypeOK, NEW r \in Requests, AckInv(r), NEW t \in Tenants,
           NEW reply \in Replies, Reply(r, t, reply)
    PROVE  AckInv(r)'
<1>1. /\ post[r][t] = "inflight" /\ post'[r][t] = reply
      /\ \A u \in Tenants : u # t => post'[r][u] = post[r][u]
      /\ rpc' = rpc /\ status' = status /\ tenant_data' = tenant_data
  BY DEF Reply, ForwardTypeOK
<1>2. rpc[r] \notin {"idle", "waiting", "routing", "answered"}
  BY <1>1 DEF AckInv, NothingSent, Answered, Replies
<1>3. ASSUME rpc[r] = "forwarding"
      PROVE  /\ PostsAreDue(r)'
             /\ num_of_failures'[r] = Cardinality(Failed(r)')
             /\ status'[r] = 0
  <2>1. PostsAreDue(r)' /\ status'[r] = 0
    BY <1>1, <1>3 DEF AckInv, Counting, PostsAreDue, Replies
  <2>2. num_of_failures[r] = Cardinality(Failed(r)) /\ t \notin Failed(r)
    BY <1>1, <1>3 DEF AckInv, Counting, Failed, Failures
  <2>3. CASE IsFailure(reply)
    <3>1. Failed(r)' = Failed(r) \cup {t}
      BY <1>1, <2>3 DEF Failed, Failures, IsFailure, Replies
    <3>2. Cardinality(Failed(r)') = Cardinality(Failed(r)) + 1
      BY <2>2, <3>1, FailedIsFinite, FS_AddElement
    <3>3. Cardinality(Failed(r)') <= Cardinality(Tenants)
      <4>1. Failed(r)' \subseteq Tenants /\ IsFiniteSet(Tenants)
        BY ControllerAssumption DEF Failed
      <4> QED
        BY <4>1, FS_Subset
    <3>4. num_of_failures'[r] = (num_of_failures[r] + 1) % U16
      BY <1>3, <2>3 DEF Reply, ForwardTypeOK
    <3>5. U16 \in Nat
      BY DEF U16
    <3>6. PICK k \in Nat : k = num_of_failures[r] + 1
      BY <2>2, FailedIsFinite
    <3>7. k < U16
      BY <2>2, <3>2, <3>3, <3>5, <3>6, FailedIsFinite DEF FewTenants
    <3>8. k % U16 = k
      BY <3>5, <3>7, SmallRemainder
    <3> QED
      BY <2>1, <2>2, <3>2, <3>4, <3>6, <3>8
  <2>4. CASE ~IsFailure(reply)
    <3>1. Failed(r)' = Failed(r)
      BY <1>1, <2>2, <2>4 DEF Failed, Failures, IsFailure, Replies
    <3>2. num_of_failures'[r] = num_of_failures[r]
      BY <2>4 DEF Reply, ForwardTypeOK
    <3> QED
      BY <2>1, <2>2, <3>1, <3>2
  <2> QED
    BY <2>3, <2>4
<1> QED
  BY <1>1, <1>2, <1>3 DEF AckInv, NothingSent, Counting, Answered

\* A post that is sent is still without an answer.
LEMMA SpawnAck ==
    ASSUME ForwardTypeOK, NEW r \in Requests, AckInv(r), NEW t \in Tenants, Spawn(r, t)
    PROVE  AckInv(r)'
<1>1. /\ rpc[r] = "forwarding" /\ post[r][t] = "queued" /\ post'[r][t] = "inflight"
      /\ \A u \in Tenants : u # t => post'[r][u] = post[r][u]
      /\ rpc' = rpc /\ status' = status /\ tenant_data' = tenant_data
      /\ num_of_failures' = num_of_failures
  BY DEF Spawn, ForwardTypeOK
<1>2. Failed(r)' = Failed(r)
  BY <1>1 DEF Failed, Failures
<1>3. PostsAreDue(r)'
  BY <1>1 DEF AckInv, Counting, PostsAreDue
<1> QED
  BY <1>1, <1>2, <1>3 DEF AckInv, NothingSent, Counting, Answered

\* Forwarding starts without a failure.
LEMMA StartForwardingAck ==
    ASSUME ForwardTypeOK, NEW r \in Requests, AckInv(r), StartForwarding(r)
    PROVE  AckInv(r)'
<1>1. /\ rpc[r] = "routing" /\ rpc'[r] = "forwarding"
      /\ status' = status /\ num_of_failures' = num_of_failures
      /\ tenant_data' = tenant_data
      /\ \A t \in Tenants :
            post'[r][t] = IF tenant_data[r][t] = << >> THEN "none" ELSE "queued"
  BY DEF StartForwarding, Move, ForwardTypeOK
<1>2. PostsAreDue(r)'
  BY <1>1 DEF PostsAreDue
<1>3. Failed(r)' = {}
  BY <1>1 DEF Failed, Failures
<1>4. num_of_failures'[r] = Cardinality(Failed(r)') /\ status'[r] = 0
  BY <1>1, <1>3, FS_EmptySet DEF AckInv, NothingSent
<1> QED
  BY <1>1, <1>2, <1>4 DEF AckInv, NothingSent, Counting, Answered

\* Before that nothing is sent, and 400 is no statement about posts.
LEMMA EarlyAck ==
    ASSUME ProxyInv, NEW r \in Requests, AckInv(r),
           RejectGarbage(r) \/ Decode(r) \/ RouteSeries(r) \/ Receive(r)
    PROVE  AckInv(r)'
<1>1. /\ rpc[r] \in {"idle", "waiting", "routing"}
      /\ post'[r] = post[r] /\ num_of_failures'[r] = num_of_failures[r]
  BY DEF RejectGarbage, Decode, RouteSeries, Receive, Move
<1>2. ForwardTypeOK
  BY DEF ProxyInv
<1>3. /\ \A t \in Tenants : post[r][t] = "none"
      /\ num_of_failures[r] = 0 /\ status[r] = 0
  BY <1>1 DEF AckInv, NothingSent
<1>4. CASE RejectGarbage(r)
  <2>1. /\ rpc[r] = "waiting" /\ rpc'[r] = "answered" /\ status'[r] = 400
        /\ tenant_data' = tenant_data
    BY <1>2, <1>4 DEF RejectGarbage, Move, ForwardTypeOK
  <2>2. tenant_data[r] = NoData
    BY <2>1 DEF ProxyInv, HandlerInv, RoutedSoFar
  <2>3. PostsAreDue(r)'
    BY <1>1, <1>3, <2>1, <2>2 DEF PostsAreDue, NoData
  <2> QED
    BY <1>1, <1>3, <2>1, <2>3 DEF AckInv, NothingSent, Counting, Answered
<1>5. CASE Decode(r) \/ RouteSeries(r) \/ Receive(r)
  <2>1. rpc'[r] \in {"waiting", "routing"} /\ status'[r] = status[r]
    <3>1. CASE Decode(r)
      BY <1>2, <3>1 DEF Decode, Move, ForwardTypeOK
    <3>2. CASE RouteSeries(r)
      BY <3>2 DEF RouteSeries
    <3>3. CASE Receive(r)
      BY <1>2, <3>3 DEF Receive, Move, ForwardTypeOK
    <3> QED
      BY <1>5, <3>1, <3>2, <3>3
  <2> QED
    BY <1>1, <1>3, <2>1 DEF AckInv, NothingSent, Counting, Answered
<1> QED
  BY <1>4, <1>5

\* What a handler leaves behind claims nothing, and a slot begins anew.
LEMMA KeepOrphansAck ==
    ASSUME ForwardTypeOK, NEW r \in Requests, NEW orphans, KeepOrphans(r, orphans)
    PROVE  AckInv(r)'
<1>1. /\ rpc'[r] = IF orphans = {} THEN "idle" ELSE "abandoned"
      /\ status'[r] = 0 /\ num_of_failures'[r] = 0
      /\ \A t \in Tenants : post'[r][t] = IF t \in orphans THEN "inflight" ELSE "none"
  BY DEF KeepOrphans, ForwardTypeOK
<1> QED
  BY <1>1 DEF AckInv, NothingSent, Counting, Answered

-----------------------------------------------------------------------------

\* A step of one handler leaves the answers of the others alone.
LEMMA OthersSameAnswer ==
    ASSUME ForwardTypeOK, NEW q \in Requests, NEW r \in Requests, r # q,
           Handle(q) \/ Client(q) \/ \E t \in Tenants : Answer(q, t)
    PROVE  SameAnswer(r)
<1>1. CASE Handle(q)
  <2>1. CASE RejectGarbage(q) \/ Decode(q) \/ Respond(q)
    BY <2>1 DEF RejectGarbage, Decode, Respond, Move, SameAnswer, ForwardTypeOK
  <2>2. CASE RouteSeries(q)
    BY <2>2 DEF RouteSeries, SameAnswer, ForwardTypeOK
  <2>3. CASE StartForwarding(q)
    BY <2>3 DEF StartForwarding, Move, SameAnswer, ForwardTypeOK
  <2>4. CASE \E t \in Tenants : Spawn(q, t)
    BY <2>4 DEF Spawn, SameAnswer, ForwardTypeOK
  <2> QED
    BY <1>1, <2>1, <2>2, <2>3, <2>4 DEF Handle, HandlerStep
<1>2. CASE Client(q)
  BY <1>2
     DEF Client, Receive, Abandon, Recycle, KeepOrphans, Move, SameAnswer, ForwardTypeOK
<1>3. CASE \E t \in Tenants : Answer(q, t)
  BY <1>3 DEF Answer, Reply, OrphanReply, KeepOrphans, SameAnswer, ForwardTypeOK
<1> QED
  BY <1>1, <1>2, <1>3

LEMMA AckStepInv ==
    ASSUME FewTenants, ProxyInv, \A r \in Requests : AckInv(r), [ProxyNext]_proxyVars,
           NEW r \in Requests
    PROVE  AckInv(r)'
<1>1. ForwardTypeOK /\ AckInv(r)
  BY DEF ProxyInv
<1>2. CASE UNCHANGED forwardVars
  <2>1. SameAnswer(r)
    BY <1>2 DEF SameAnswer, forwardVars
  <2> QED
    BY <1>1, <2>1, SameAnswerInv
<1>3. CASE Handle(r)
  BY <1>1, <1>3, EarlyAck, StartForwardingAck, SpawnAck, RespondAck DEF Handle, HandlerStep
<1>4. CASE Client(r)
  BY <1>1, <1>4, EarlyAck, KeepOrphansAck DEF Client, Abandon, Recycle
<1>5. CASE \E t \in Tenants : Answer(r, t)
  <2>1. PICK t \in Tenants : Answer(r, t)
    BY <1>5
  <2>2. CASE OrphanReply(r, t)
    BY <1>1, <2>2, KeepOrphansAck DEF OrphanReply
  <2>3. CASE \E reply \in UpstreamReplies : Reply(r, t, reply)
    BY <1>1, <2>3, ReplyAck, ForwardingAssumption
  <2> QED
    BY <2>1, <2>2, <2>3 DEF Answer
<1>6. ASSUME NEW q \in Requests, q # r,
             Handle(q) \/ Client(q) \/ \E t \in Tenants : Answer(q, t)
      PROVE  AckInv(r)'
  <2>1. SameAnswer(r)
    BY <1>1, <1>6, OthersSameAnswer
  <2> QED
    BY <1>1, <2>1, SameAnswerInv
<1>7. \/ UNCHANGED forwardVars
      \/ \E q \in Requests : Handle(q) \/ Client(q) \/ \E t \in Tenants : Answer(q, t)
  BY DEF ProxyNext, ControllerTurn, Environment, Granting, proxyVars
<1> QED
  BY <1>2, <1>3, <1>4, <1>5, <1>6, <1>7

LEMMA AckInitInv == ProxyInit => \A r \in Requests : AckInv(r)
BY DEF ProxyInit, ForwardInit, AckInv, NothingSent, Counting, Answered, NoPosts

\* What a complete count says of the answer.
LEMMA AckByInv ==
    ProxyInv /\ (\A r \in Requests : AckInv(r)) => AckMeansDelivered
<1> SUFFICES ASSUME ProxyInv, NEW r \in Requests, AckInv(r), status[r] \in {200, 500}
             PROVE  LET due == { t \in Tenants : tenant_data[r][t] # << >> }
                    IN  /\ \A t \in due : post[r][t] \in Replies
                        /\ status[r] = 200 <=> \A t \in due : post[r][t] \in {"2xx", "4xx"}
  BY DEF AckMeansDelivered
<1>1. rpc[r] = "answered"
  BY DEF ProxyInv, ForwardTypeOK, AckInv, NothingSent, Counting
<1>2. /\ PostsAreDue(r)
      /\ \A t \in Tenants : post[r][t] \in {"none"} \cup Replies
      /\ status[r] = 200 <=> Failed(r) = {}
  BY <1>1 DEF AckInv, Answered
<1>3. \A t \in Tenants : tenant_data[r][t] # << >> => post[r][t] \in Replies
  BY <1>2 DEF PostsAreDue
<1>4. \A t \in Tenants : post[r][t] \in Failures => tenant_data[r][t] # << >>
  BY <1>2 DEF PostsAreDue, Failures
<1> QED
  BY <1>2, <1>3, <1>4 DEF Failed, Failures, Replies

\* 200 is answered only when every tenant with a request took it (2xx) or
\* refused it for good (4xx), 500 only when one failed, and neither before all
\* were sent and answered, in whatever order (forward.rs, 144-194); for fewer
\* than 65536 tenants, as the count of failures has 16 bits (forward.rs, 226).
THEOREM AckAlwaysMeansDelivered ==
    ASSUME FewTenants
    PROVE  ProxySpec => []AckMeansDelivered
<1> DEFINE AllAckInv == \A r \in Requests : AckInv(r)
<1>1. ProxyInv /\ AllAckInv /\ [ProxyNext]_proxyVars => AllAckInv'
  BY AckStepInv
<1>2. ProxyInit => AllAckInv
  BY AckInitInv
<1>3. ProxyInv /\ AllAckInv => AckMeansDelivered
  BY AckByInv
<1> HIDE DEF AllAckInv
<1> QED
  BY <1>1, <1>2, <1>3, ProxyInvariant, PTL DEF ProxySpec
=============================================================================
