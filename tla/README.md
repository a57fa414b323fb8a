# Specifications of open-metrics-multi-tenancy-kit

TLA+ models of the kit's own logic, model-checked with TLC, with theorems about
them checked by TLAPS. Sources are named relative to the repository; line numbers
in comments and in `PROJECT.json` are those of the commit the models were written from.

## 1. The system

The kit stands between Prometheus and a multi-tenant Cortex, and is configured by
`OpenMetricsRule` resources in Kubernetes, each a list of tenants and of rule groups.

| component | state | operations | talks to |
|---|---|---|---|
| **tenant controller** `proxy/src/controller/controller.rs` | `initial_tenants`, `tenants`, `tenants_vec`, `stopping`; where `worker()` stands | `set_initial_allowed_tenants`, `observe` (`add_tenant`, `remove_tenant`), `init_k8s`, `clean`; `controller_iteration()`, `worker()` | the rule listing, the lock |
| **`CONTROLLER` lock** (tokio `RwLock`) | holders, FIFO queue | read, write, drop | the controller and every handler |
| **rule listing** `kube-metrics-multi-tenancy-lib/src/lib.rs` | `found_rules`, the continue token | `get_tenant_ids` over `discover_open_metrics_rules` | the Kubernetes API |
| **command line and start** `proxy/src/main.rs` | lists and flags of the options | `main()` until it serves | controller, handlers |
| **request handler** `proxy/src/main.rs:260-307`, `proxy/src/forward/forward.rs` | body, `tenant_data`, posts in flight, `num_of_failures`, status | decode, aggregate, fan out, fold, answer | lock, allow-list, upstream, client |
| **time series routing** `proxy/src/metrics/metrics.rs` | `tenant_data`, `visited_tenants` | `process_time_serie` | called by the handler |
| **rule discovery and diff** `informer/src/rules/rules.rs` | none | `discover_ruler_rules`, `diff_rule_groups`, `get_tenant_map_from_rules_list` | the Ruler |
| **operations** `informer/src/crud/crud.rs` | none | create, update and remove in Kubernetes and in the Ruler | both stores |
| **updater** `informer/src/updater/updater.rs` | one tick's listings | Kubernetes to Ruler | diff, operations |
| **tracker** `informer/src/tracker/tracker.rs` | one tick's listings | Ruler to Kubernetes | diff, operations |
| **informer process** `informer/src/main.rs` | which tasks are spawned | start, exit | both tasks |
| **statistics, health endpoints, generated protobuf, deployment files** | counters nobody reads back | | |

In the proxy the controller and all handlers share one static, `CONTROLLER`, behind a
read-write lock. A handler takes the read guard before it decodes its body and keeps
it until it answers, thus over all its posts to the upstream. The poll loop takes the
read guard for the whole of a listing, drops it, and takes the write guard to apply
what it found. In the informer updater and tracker run as two tasks that share nothing
but the two stores they read and change, request by request.

What is hard about it:

* **Interleaving.** Allow-list, routing and sending span many awaits of several tasks;
  the lock and the order in which it is taken are the whole of the synchronisation.
* **Partial failure.** A listing loses a page, some posts of a fan-out fail, a client
  goes away in the middle, one request of a tick fails and the tick goes on.
* **Crashes and retries.** Nothing is persisted: the proxy's list and the informer's tick
  live in their processes. Prometheus times out, retries, and lets a batch block the
  stream; what was sent before may be delivered late.
* **Staleness.** Rules change between two pages, and between a listing and its use.
* **Liveness.** Reader follows reader, the poll loop needs the write lock, and the
  upstream decides how long a read guard lives.
* **Bookkeeping.** `tenants_vec` and two sets say the same thing twice; overlapping
  lists decide how many copies of a series a tenant gets.

What makes each part correct:

* controller: vector and sets agree at every step; a reader sees a whole list, the one
  published last; a tenant that stays in (out of) the cluster is allowed (barred) in the end;
* listing: what `Ok` hands over is the cluster of one moment; the listing ends;
* routing: each tenant's request has exactly its series, in order, each as often as
  the lists say;
* handler: one payload, one allow-list; nothing is sent for a barred tenant; the status
  says what became of the posts; every request settles;
* stream of batches: none is left behind before its tenants have settled it, through
  retries and crashes, and one that a tenant refuses for good does not block it;
* informer: a tick changes only what differs, and two quiet stores become equal, although
  requests fail and a tick is cut short.

`PROJECT.json` lists the hazards one by one, with their lines and their properties.

## 2. The modules

| module | models | |
|---|---|---|
| `SharedController` | fields of `IngestionTenantController`, their methods, the lock | used by the next two |
| `RuleListing` | `get_tenant_ids()`, page by page; the cluster is its environment | has a specification of its own |
| `ProxyConfig` | the lists `main()` makes of its options | constants only |
| `TenantController` | `main()` up to serving, `controller_iteration()`, `worker()` | extends the three |
| `AllowList` | what the controller promises: a list that changes atomically | abstract |
| `AllowListRefinement` | the mapping from `TenantController` to `AllowList` | |
| `TenantRouting` | how many copies of a series a tenant gets, by counting | operators |
| `TimeSeries` | the loops of `process_time_serie()` themselves, round by round | against `TenantRouting` |
| `Forwarding` | the POST handler and `process_proxy_payload()` | uses `TenantRouting` |
| `Proxy` | controller and handlers on one lock | composition |
| `Delivery` | what a stream of batches relies on, with no proxy in between | abstract |
| `RemoteWrite` | the proxy under a Prometheus that times out and retries, and crashes of the proxy; refines `Delivery` | composition |
| `RuleDiff` | `diff_rule_groups()` and the maps it compares | operators |
| `RuleStores` | the resources in Kubernetes, the groups in the Ruler, the users who change both | external |
| `InformerTask` | what the two tasks share: discovery, plan, the requests to Kubernetes | uses the two |
| `Updater`, `Tracker` | one tick of `updater()`, of `tracker()` | extend `InformerTask` |
| `Informer` | the process that spawns both tasks, its crashes, and the users on the same stores | composition |
| `InformerTicks` | `Informer` with a history of each tick: what the store copied from has held and lacked | extends `Informer` |
| `ListLemmas`, `RoutingLemmas` | lemmas on lists and on routing | proved |
| `TimeSeriesProofs` | theorem that the loops make the counts of `TenantRouting` | proved |
| `TenantControllerProofs` | theorems about the listing, the controller, its refinement | proved |
| `ProxyProofs` | theorems about the composition `Proxy` and its answers | proved |
| `RemoteWriteProofs` | theorems about `RemoteWrite` and its refinement of `Delivery` | proved |
| `InformerProofs` | theorems about `Informer` and the operators of `RuleDiff` | proved |
| `InformerTicksProofs` | theorems about what a tick copies and removes | proved |
| `MCController`, `MCProxy`, `MCRemoteWrite`, `MCTimeSeries`, `MCInformer`, `MCInformerTicks` | constants for TLC | |

### State and actions against the code

*Lock.* `readers`, `writers` and `waiting` are tokio's semaphore as the proxy can
observe it: requests queue in the order in which they are polled first, only the head
is granted, at most `MaxReaders` readers at a time. `Ask` is the first poll of
`read().await` or `write().await`, `GrantRead` and `GrantWrite` its completion,
`Release` the drop of the guard, `Withdraw` the drop of a future that waits.

*Controller.* `cpc` names the await at which the task stands, and each await ends an
action, since any other task may run there. `observe()` has no await; it is taken apart
all the same, one `ObserveAdd` or `ObserveRemove` per tenant in any order (a hash set's
order is arbitrary), because handlers run on other threads: that no handler sees the
intermediate states is then a property of the lock and not of the model. The order of
the two loops is kept: nothing is removed before everything is added. `remove_tenant`
removes the last index that matches, as the code's loop does. `set_initial_allowed_tenants`
appends the set in any order. `published` is history: what the last complete update was
to publish. `Stop` is the directive `controller_iteration()` looks for; the only code
that gives it is in the repository's tests.

*Listing.* A page is any non-empty set of the rules not yet returned, which covers every
page size. `k8s` maps a rule to its `spec.tenants`, an absent rule to the empty set:
`get_tenant_ids()` cannot tell them apart. The server answers later pages from the
`snapshot` of the first one, as Kubernetes does. `lost` is history. The code sets no
limit on a page, so a server that pages does so of its own accord; the loop is modelled
as it is written. `EmptyLastToken` says whether a last page carries `continue: ""`, as
listings of custom resources may, or no token. That later pages come from one snapshot is the server's
promise; `OkIsOneSnapshot` tests the bookkeeping over the pages, not the server.

*Routing.* A series is the set of its labels; in `Forwarding` it is known by its position
in the payload, and `tenant_data[r][t]` is the sequence of positions in the request for
`t` (empty: no entry in the hash map). `TimeSeries` runs through the lists as the code
does, a tenant at a time: `AllowedTenant`, `Replica` and `AnyTenant` are the bodies of the
three loops, `loop` and `position` say where it is, and a series is a list of labels there,
since a label may come twice. `Copies` is what one series adds up to; that they agree is
checked by the `time_series` run and proved, so that `Forwarding` may use the short one.

*Handler.* One slot of `Requests` is one remote write at a time. `Receive` (body
complete, read lock asked for), `RejectGarbage` (the two early returns with 400),
`Decode` (guard acquired, list borrowed), `RouteSeries` (one round of the loop),
`StartForwarding` (the stream is built, nothing is sent), `Spawn` (`buffer_unordered`
pulls one more), `Reply` (one task ends; its result is folded while the handler lives),
`Respond`. `num_of_failures` is 16 bits wide. The list is read at each round through the
borrow, not copied, so that a model in which the guard were dropped would show it.
A client may leave at the handler's awaits (`Abandon`): the guard goes, the rest is never
sent, spawned tasks go on. The slot is `abandoned` until the last of them ends
(`OrphanReply`); what they are answered goes nowhere.

*Remote write.* Prometheus is external; its part is what the repository's example
(`config/prom-docker-for-mac.yml`, 37-39) sets up: one queue, and a `remote_timeout`. It
has one batch on its way at a time (`Send`), goes on when 200 or 400 is answered and sends
the same again after 500 (`Learn`), after the time-out (`TimesOut`, which closes the
connection and so is an `Abandon`), or when the answer is lost (`AnswerLost`). `Crash` ends
the proxy at any step: lock, list, listing and handlers are as before the start, and
only the posts on their way stay, since the upstream may still take them. `settled`,
`taken` and `troubled` are history, and are about the current batch only.

*Stores.* `resources` maps a name to a resource (tenants, a list of groups, whether it is
marked as updated) or to `Absent`; `ruler` maps a tenant to its groups, one of a name.
Both lists of a resource may be empty: one that only names tenants, as
`config/example-resources/tenant1.yaml` does, is there for the proxy, which allows whom the resources
name (`lib.rs:104-111`). A group is a name and a content; `Contents` stands for the normal forms the Ruler gives
back, since what it normalises is not in the repository. The version of a resource is
kept as what it is used for: `fresh[task]` has the resources nobody has changed since
the task listed them, and an object that carries its version is refused when its resource
is not in there. An object made anew carries none and overwrites. `Sourced` is the name
made of a tenant and of the hash of a group's name.

*Updater and tracker.* `at[task]` is the place in the tick: `tick`, `discover`, `list`,
`plan`, `work`, `patch`; each request is an action, and so the other task and the users
come between any two. `found`, `listed`, `work` and `patch` are the local variables of a
tick. The updater lists the resources, reads the groups of the tenants they name
(`TenantDiscovered`; or `TenantSkipped` when the request fails, which counts as no groups;
or `DiscoveryFails`, which ends the tick), plans, and for each update puts the group
(`UpdaterUpdates`) and marks the resource as it was listed (`UpdaterMarks`). The tracker
begins with the tenants the distributor reports, without the zero tenant; each item of
its plan takes a listing of its own (`TrackerLooksUp`) and one request
(`TrackerPatches`). A listing may come back short, its last pages lost (`Prefixes`). What
a request to change a store answers is only logged: a failure leaves the item undone and
the tick goes on. A failure, a lost page and a tenant not reported each count as one of
`MaxMishaps`. A listing is one step that ends: its loop over pages is that of `RuleListing`, and with
it the restart at an empty last token, which would keep a task from ever getting on, is left out
here. `Plan` takes the tenants in any order, as the iteration over a hash map does.

*Informer process.* `Start` is `main()` with a client for Kubernetes: it spawns the tasks
that have an interval. `StartFails` is its exit with code 1. `Crash` ends the process
between any two requests and drops all local variables; a request that was on its way then
has taken effect before, or never does. Crashes and failed starts count as mishaps.

*Ticks.* `InformerTicks` adds history only: at every step of a tick `offered[task]` takes up the
groups that the store the task copies from holds then, `lacked[task]` the names it has not,
both per tenant; `calm` has the tasks that have met no mishap since their tick began. All
three are reset when the tick ends.

*Abstracted.* Sample values, metadata, headers, compression, the statistics, and time:
a sleep is over whenever the task's step is taken.

## 3. What the runs show

| run | result | question |
|---|---|---|
| `allow_list` | holds | `ImplementsAllowList` (refinement); `OkIsOneSnapshot`, `ControllerTypeOK`; `ListingEnds`; `TenantGetsAllowed`, `TenantGetsRevoked` if listings go on succeeding. |
| `time_series` | holds | Does the loop produce the counts of `Copies`, in payload order, for all lists (repetitions included)? `RequestsAreTheCopies`. |
| `proxy_routing` | holds | One handler beside the poll loop; every payload, answer, departure, page, token and failure: `RoutedByOneAllowList`, `AckMeansDelivered`, `VecMatchesSets`, `PublishedView`, `ProxyTypeOK`. |
| `proxy` | holds | Two handlers and the poll loop: `RoutedByOneAllowList`, `SentOnlyWhileAllowed`; and nobody starves: `EveryRequestSettles`, `UpdateGetsThrough`. |
| `remote_write` | holds | Through time-outs, retries, late answers and a crash: `ImplementsDelivery` (refinement), `NoDuplicateWithoutTrouble`, `OnlyOrphansAreLate`; `StreamGetsThrough`; `UpdateGetsThrough` without any promise by the upstream. |
| `failure_observed` | violated | "failed to acquire tenants, will not observe()": a listing whose second page failed is observed. |
| `listing_empty_token` | violated | The loop over pages ends: not when a later page carries an empty token. |
| `informer` | holds | Updater, tracker and users at once, a failure or a crash: `TenantsStayApart`, `PlanClosesGap`, `PatchKeepsOthers`, `RulerKeepsRules`; does no task touch a resource that is there for the proxy alone, or change whom one names (`TenantsStayNamed`)? Does each update find the resource it came from (`InformerTypeOK`)? |
| `informer_alone` | holds | One task alone, with a history of its ticks, a failure or a crash in mid-tick: does it write only what the other store held in this tick (`CopiesWhatWasThere`) and, in a tick without a mishap, remove only what that lacked (`RemovesWhatWasGone`)? Users at rest in the end: `UpdaterConverges`, `TrackerConverges`. |
| `duplicate_series` | violated | "remember visited tenants to avoid duplicate requests": not for replication tenants with the allow-list on. |
| `tracker_removes` | violated | "Tracker never removes anything from Kubernetes": it takes out what the Ruler has not. |
| `default_bars_all` | violated | "by default proxy all tenants": without the option nobody is served but the replication targets. |

### Bounds

* `allow_list`: two rules (up to two pages), two tenants of rules, so that an update may take two
  steps and be seen half done, one tenant of the command line and the replication tenant, one task.
  A tenant of both rules and command line, or repetitions in it, are left to the theorem about
  `VecMatchesSets`. A listing of two pages has a first
  and a last one, of which either may fail.
* `MaxReaders = 2`: two handlers fill the lock, so the limit is met.
* `proxy_routing`: two rules, so that a listing has a second page and may start over at an
  empty token; three payloads and garbage; two posts at a time of up to three tenants, so
  that one waits while two are answered in either order; all five kinds of answer.
* `proxy`: two handlers, a payload of one series of a tenant that comes and goes, and a
  replication tenant; one post at a time, so that posts queue while the cluster changes,
  handlers wait behind updates, and updates behind handlers.
* `remote_write`: a stream of two batches, the first due to a tenant of the command line and
  to one of a rule, the second to the first alone; two slots, so that an abandoned attempt
  may be answered during the next one, also during the next batch; one crash. Time-outs,
  lost answers and retries are not bounded. Full replication is off.
* `time_series`: all payloads of up to two series with up to two labels, all lists of up
  to two tenants.
* `informer`: two tenants, of which one is the zero tenant, two names of groups and two
  contents; users write one resource under a name of their own, of one tenant, of two,
  with two groups or with none, and put groups into the Ruler. One edit after the start and one
  mishap: each may fall between any two requests of either task, which is where a listing
  becomes stale, a page is lost or an update fails; and the two tasks, without bound,
  change the stores under each other. A crash is a mishap too.
* `informer_alone`: three edits, of four resources (one names two tenants and has no group) and three
  groups, since one task alone has
  fewer states. What the other task may do to the two stores users do here: a group changes
  in either store between a reading and a write, and a plan is out of date when it is
  carried out. That it also holds beside the other task is left to the proof.
* Users may edit every resource that is there, the tracker's own included.
* In the proxy's runs a slot is used again and again, and the cluster is edited without
  limit: there is no bound on time. Nor is there on the ticks of the informer.

### Fairness

`ControllerFairness` and `ProxyFairness` are weak fairness of each task's next step and of
the lock's grants: tokio polls a task that was woken, and its semaphore serves its queue
in order. Two parts are assumptions on the environment. The server answers every
request of a listing, with a page or an error, and the upstream ends every post: the
HTTP clients are built without a time-out, so the code itself does not ensure it, and a
silent upstream does stop the proxy as long as its clients wait. Nothing is assumed of
clients, of edits, or of the success of a listing; `TenantGetsAllowed` and
`TenantGetsRevoked` have the premise `ListingsRecover` instead.

`RemoteFairness` drops the second: the upstream promises nothing, and instead
Prometheus goes on and its time-out passes. That is enough for `UpdateGetsThrough`: a
client that gives up frees the lock. `StreamGetsThrough` has the premise that failures
come to an end and every post is answered (`TroubleEnds`); a refusal with 4xx is no
failure there. A proxy that crashes is started again: `Boot` is part of the controller's
turns.

`InformerFairness` is weak fairness of the start and of each task: both tick for ever, and
every request is answered or fails, and every listing ends (see *Updater and tracker*). That users and network come to rest is what `MaxEdits` and
`MaxMishaps` mean, and convergence is stated of what holds after that. It is stated of
one task alone: with both enabled each may undo what the other has just done, for ever,
and neither code nor documentation says which store wins.

## 4. What is proved

For all values of the constants, from the named assumptions only:

| theorem | in |
|---|---|
| `ControllerSpec => []ControllerTypeOK` | `TenantControllerProofs` |
| `ControllerSpec => []VecMatchesSets` | `TenantControllerProofs` |
| `ControllerSpec => []PublishedView` | `TenantControllerProofs` |
| `ListingSpec => []OkIsOneSnapshot` | `TenantControllerProofs` |
| `ProxySpec => []ProxyTypeOK` | `ProxyProofs` |
| `ProxySpec => []RoutedByOneAllowList` | `ProxyProofs` |
| `ProxySpec => SentOnlyWhileAllowed` | `ProxyProofs` |
| `ProxySpec => []AckMeansDelivered`, if `FewTenants` | `ProxyProofs` |
| `ControllerSpec => ImplementsAllowList`, if `~EmptyLastToken` | `TenantControllerProofs` |
| `Spec => []RequestsAreTheCopies` of `TimeSeries` | `TimeSeriesProofs` |
| `RemoteSpec => []RoutedByOneAllowList` | `RemoteWriteProofs` |
| `RemoteSpec => SentOnlyWhileAllowed` | `RemoteWriteProofs` |
| `RemoteSpec => []AckMeansDelivered`, if `FewTenants` | `RemoteWriteProofs` |
| `RemoteSpec => OnlyOrphansAreLate` | `RemoteWriteProofs` |
| `RemoteSpec => NoDuplicateWithoutTrouble` | `RemoteWriteProofs` |
| `RemoteSpec => ImplementsDelivery`, if `FewTenants` and `~Stoppable` | `RemoteWriteProofs` |
| `InformerSpec => []InformerTypeOK` | `InformerProofs` |
| `InformerSpec => []TenantsStayApart` | `InformerProofs` |
| `InformerSpec => PatchKeepsOthers` | `InformerProofs` |
| `InformerSpec => PlanClosesGap` | `InformerProofs` |
| `InformerSpec => TenantsStayNamed` | `InformerProofs` |
| `InformerSpec => RulerKeepsRules` | `InformerProofs` |
| `TickSpec => CopiesWhatWasThere` | `InformerTicksProofs` |
| `TickSpec => RemovesWhatWasGone` | `InformerTicksProofs` |

The assumptions: the lock has a permit, the tenants are finitely many, rules name
tenants, the command line names tenants, the flags are Booleans, options and payloads are
sequences, handlers use the lock and the controller is none of them, and the limit of
parallel posts has 16 bits. Of the stream: no batch has the payload of another, so that
one can tell which batch a late answer is about. Of the informer: the tenants are finitely
many, resources have different names, what users write are rules and groups, and the name the
tracker makes of a tenant and a group is the name of a resource; that two groups never
get one name is not assumed. Of routing: labels, tenant labels and the two lists are
lists, and what the labels name is a tenant. Edits, mishaps and crashes may be any number.

*Listing.* `OkIsOneSnapshot` speaks of the end of a listing only. `ListingInv` adds what
holds at every page: `found` is what the rules returned so far have in the snapshot
(`PagesSoFar`), from which the end follows because then no rule is left.

*Controller.* `VecMatchesSets` is almost inductive by itself; that `remove_tenant`
preserves it rests on the vector having no repetition, and on the lemmas of `ListLemmas`
about `Append` and `RemoveAt`. `PublishedView` is not: that an update starts from
the published list and ends with the next one needs that the sets change under the
write lock only, that the listing is at `ok` and unchanged while the task waits for and
holds the lock, and that `initial_tenants` is the command line once `main()` has run.
`ControllerInv` is the conjunction of these parts. The steps that only use the lock are
proved once (`LockStepInv`). The lemmas speak of one step and of any other users of the
lock, so that they also hold of the composition `Proxy`.

*Proxy.* `ProxyInv` adds to `ControllerInv` that the lock excludes readers and writers,
and for each handler: it is idle until the proxy serves (`Boot` fills the list without
the lock); while it has a payload in hand it holds the read guard, and the list is the one
there was when it got the guard (`ListBorrowed`); the request of each tenant is, in order,
the series routed so far that the tenant is entitled to (`RoutedSoFar`); and only a tenant
with data has a post that waits (`QueuedHasData`). The heart is `ListKeptInHand`: a
step that changes the list is `Boot`, an update or `clean`; the first comes before serving
and the others hold the write lock, so none of them happens while a payload is in
hand. A step of one handler leaves the others alone (`HandlerStepFrame`), and one lemma
per action is left. That of `RouteSeries` rests on `RoutingLemmas`: `Copies` is positive
exactly for the entitled tenants, and what is put at the end keeps a request in
order. `SentOnlyWhileAllowed` follows: `Spawn` is the only step that sends
(`OnlySpawnSends`), and what waits to be sent has a series, which entitled its tenant by
the very list that is still there.

*Routing.* What a loop has done so far is an invariant, so that no induction over the lists
is needed: `LoopInv` says where the code is (`PlaceOK`), who is in `visited_tenants`
(`VisitedOK`: in the first loop the allowed tenants up to `position` that the series
names, in the last everyone up to `position`), and how often the series at hand is in
each request (`SoFar`: once for the visited; over `replicate_to` as often as the tenant has
come up so far, and once more for an allowed one). A round keeps it because `Append`
adds one to one count (`PushLast`); at the end of a series `SoFar` is `Copies`. That
`label_tenants` has the tenants of `LabelTenants`, whatever the repetitions among labels and
tenant labels, is `LabelTenantsListed`.

*Answers.* `AckMeansDelivered` speaks of the end; `AckInv` says of a handler that forwards
that exactly the tenants with data have a post, that none of these is lost, and that
`num_of_failures` is the number of posts that failed. The last is what 16 bits can break,
and the only use of `FewTenants` (fewer than 65536 tenants): each tenant fails once.

*Refinement.* To a reader the list is `Visible`: what was published, as long as the
controller holds the write lock, and the vector otherwise. By `ControllerInv` the two are
the same thing, hence an update is invisible until its guard is dropped, and that step is
`AllowList!Publish`.

*Remote write.* A crash is one more step under which `ProxyInv` holds (`CrashInv`); any
other step of `RemoteWrite` is a step of `Proxy` (`RemoteStepIsProxyStep`). From this the
three properties of `Proxy` follow with crashes as well: a request left behind by a crash or a
client keeps its slot and nothing else of the handler. `WriteInv` adds what holds between
Prometheus and the slots: there is one attempt, and it carries the current batch; what a
slot has left behind carries that one or an earlier one (`CarryInv`); a post that waits for
its answer belongs to a handler that forwards, and has data, or to none (`SlotInv`); and while
there has been no trouble, nothing of the current batch is left behind, who has taken it has
taken it from the present attempt, and that attempt has met no failure (`Calm`).
`OnlyOrphansAreLate` follows from the first two, as a handler that forwards has the list in
hand, and `NoDuplicateWithoutTrouble` from the third: a second taking needs a second
post, thus a second slot with this batch.

*Delivery.* `DeliveryInv` adds `AckInv`, that the tenants of the command line stay on the
list once the proxy serves (`CommandLineKept`), and of each handler (`Delivered`) that whose
post was taken or refused for good has settled the batch, and that an answer was given
with a request made for everyone the batch is due to. Then a 200 says that all have settled
it, and `Learn` is `Delivery!MoveOn` (`GoodAnswerSettles`); every other step settles for one
tenant or is a stutter. Both conditions are needed: 65536 failures would be counted as
none, and once `clean()` has emptied the list, batches are acknowledged without the
tenants of the command line. Of tenants of rules `Delivery` says nothing: between a restart and the
first listing they are not on the list, a batch that comes then is acknowledged without being sent
to them, and no text of the repository promises more.

*Informer.* `TypeInv` is `InformerTypeOK` with what the places of a tick mean: a patch comes
from an item of the plan, an update of the updater points into its listing, to a resource that has
its group, and what is
read of the Ruler is finite, so that it has an order. Three invariants stand on it.
`RemovalInv`: without the option the updater plans updates only; so the only requests that
could take a group from the Ruler are never planned. `SharingInv`: `TenantsStayApart` of all
the places a group passes through - resources, listings, what was found, plans, the patch -
and not only of the stores. It is not inductive until it also says (`Together`)
that the tenants of a resource stay together: the tracker replaces a group in a
resource that another tenant shares, and this gives the group to that tenant too; what it may
give is therefore closed under sharing, which is why `Allowed` is. `FreshInv`: as long as
a resource is in `fresh[task]`, what the task has read of it is still so, hence an object
that carries a version differs from the resource there in one group; and so `TenantsStayNamed`: it
names the same tenants and has a group left, or the resource had only the one. `PlanClosesGap`
needs no invariant but the types. It rests on lemmas about the operators: the map made of
a listing has exactly the groups that name the tenant (`MapOfRules`), the first group of
a name is the only one when names are not repeated, and a plan has an item for each
entry that differs or is absent and no other (`DiffEntries`, `PlannedItems`). The
operators put lists together with `FlattenSeq`; what the elements of its result are is
proved once, from the place of each part in the whole.

*Ticks.* Both tasks work from plans that may be out of date when a request goes out; what can
be said of them is that they are out of date by one tick at most. `TicksInv` follows a group
from where it was read to where it is written: in a tick, what the origin holds or lacks now
is remembered (`RememberInv`), hence what has been read was held (`CarriedInv`), and what a
reading without a mishap does not show was lacked (`AbsentInv`); so an update of the plan
was held and a removal was lacked (`WorkInv`, by the lemmas on `diff_rule_groups()`), and a
patch puts in no group but the planned one and those of a resource which nobody has changed
since (`PatchInv`, with `FreshInv`). That a reading without a mishap is whole is
`ListingIsWhole`; after a lost page the updater may, with the removal option, take from the
Ruler the groups of resources that are there, which is why `RemovesWhatWasGone` asks for a
calm tick. It says nothing of the two requests that carry no version, for which it is false.
`HistoryOnlyWatches`: what is proved of `InformerSpec` holds of `TickSpec`.

The invariants `InformerInv`, `RemoteInv` and `LoopInv` hold in TLC as well, on the instances
of the runs `informer`, `remote_write` and `time_series`.

Only model-checked: all liveness (`TenantGetsAllowed`, `TenantGetsRevoked`, `ListingEnds`,
`EveryRequestSettles`, `UpdateGetsThrough`, `StreamGetsThrough`, `UpdaterConverges`,
`TrackerConverges`), which needs ENABLED. `TrackerConverges` speaks of stores in which no resource with groups names two
tenants (`Untangled`); resources without groups may. All safety properties of the passing runs, and
both refinements, are theorems.

## 5. Disagreements between the code and what it says

1. `failure_observed`: a page that fails after the first one ends the listing with `Ok`
   (`lib.rs:75-83`), and `observe()` bars the tenants of the pages that are missing.
2. `listing_empty_token`: the test for an empty token at `lib.rs:70` has no counterpart at
   `lib.rs:81`.
3. `duplicate_series`: `metrics.rs:71` does not look at `visited_tenants`.
4. `tracker_removes`: `informer/README.md:12` says the tracker never removes anything from
   Kubernetes; `tracker.rs:84-96` removes every group the Ruler has not.

5. `default_bars_all`: `main.rs:74` says "by default proxy all tenants", but `"".split(",")`
   has one element, so `uses_allow_listing` (`main.rs:137`) is always true. The lemma
   `AllowListingIsOn` of `ProxyProofs` says the same for all options.

Two hazards that the models show and no text of the repository speaks of. The resource the
tracker makes for a new group is applied without a version (`crud.rs:165-187`). If a
user has edited the resource that the tracker made earlier, under the same name, so that
it no longer has the group, the edit is replaced as a whole. `PatchKeepsOthers` makes an
exception of it (`Creates`), without which TLC refutes it. Another follows from `tracker_removes`: a
resource is deleted with its last group, and with it the tenants it names leave the proxy's list,
unless another resource names them. `TenantsStayNamed` says that no other step of a task takes a
tenant away, but for those two requests without a version.

## 6. Not modelled

* Statistics and health endpoints: nothing reads them back.
* Protobuf, Snappy, HTTP headers: a payload is either garbage or a sequence of series.
* Metadata of a payload: every tenant's request carries it, and it plays no part in who
  gets one. A payload of metadata alone is acknowledged and sent to nobody
  (`forward.rs:128`).
* Intervals: they are multiplied by 1000 in 32 bits (`proxy/src/main.rs:341`,
  `informer/src/main.rs:189`), and there is no time in the models.
* A request of the informer that is carried out after the process that sent it has crashed
  and the next one has begun its tick.
* Deployment files.

## 7. Plan

1. *Done:* the proxy. Its allow-list is what keeps tenants apart, and its concurrency is
   the hardest part of the kit.
2. *Done:* the informer: the difference of two stores, discovery with the failures that
   abort and those that are skipped, updater and tracker request by request, their
   composition with users who edit and a process that crashes, a safety run with both
   tasks and a convergence run.
3. *Done:* proofs about the listing, the controller and its refinement of `AllowList`, and
   the safety of the composition `Proxy`; the fault model of the remote write (time-outs,
   retries, late answers, crashes) with its refinement of `Delivery`.
4. *Done:* proofs of every safety property of the informer, with the lemmas on
   `diff_rule_groups()`, of `RemoteWrite` with its refinement of `Delivery`, and of the
   loops of `process_time_serie()`.
5. *Done:* what the informer promises across a whole tick: it copies what the other store
   held and removes what it lacked since the tick began (`InformerTicks`). Together with
   `PlanClosesGap` and `PatchKeepsOthers` this is its synchronisation group by group. A
   refinement of an atomic specification is not stated: a plan is out of date when it is
   carried out, and two tasks may exchange a group for ever, so a step need not make the
   stores more alike.
