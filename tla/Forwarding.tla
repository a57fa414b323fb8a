------------------------------- MODULE Forwarding -------------------------------
(***************************************************************************)
(* The POST handler of proxy/src/main.rs and process_proxy_payload() of    *)
(* proxy/src/forward/forward.rs.  Each of the Requests is a slot for one   *)
(* remote write at a time.  The handler takes the read lock of CONTROLLER, *)
(* keeps it until it answers, and borrows the allow-list all that time.    *)
(* The client and the upstream are external: a client may go away at any   *)
(* await of its handler, and the upstream answers in any order.            *)
(***************************************************************************)
EXTENDS SharedController, ProxyConfig, TenantRouting

CONSTANTS
    Requests,        \* handlers, as users of the lock
    Payloads,        \* decodable payloads: sequences of time series
    Garbage,         \* a payload that is not Snappy, or not a WriteRequest
    UpstreamReplies  \* bound: which of Replies the upstream gives

Replies == {"2xx", "3xx", "4xx", "5xx", "error"}
U16 == 65536

ASSUME ForwardingAssumption ==
    /\ Requests \subseteq Procs
    /\ Garbage \notin Payloads
    /\ \A p \in Payloads : p \in Seq(Range(p))
    /\ UpstreamReplies \subseteq Replies
    /\ MaxParallelRequestPerLoad \in 0 .. U16 - 1

VARIABLES
    rpc,              \* where each handler stands
    payload,          \* the body received
    next,             \* position of the series to route next
    tenant_data,      \* per tenant, the series put into its request
    post,             \* per tenant, what became of its request
    num_of_failures,
    status,           \* the answer (0: none)
    allowed           \* history: the allow-list when the lock was acquired

forwardVars ==
    <<rpc, payload, next, tenant_data, post, num_of_failures, status, allowed>>

NoData == [t \in Tenants |-> << >>]
NoPosts == [t \in Tenants |-> "none"]

ForwardTypeOK ==
    /\ rpc \in [Requests -> {"idle", "waiting", "routing", "forwarding",
                             "answered", "abandoned"}]
    /\ payload \in [Requests -> Payloads \cup {Garbage}]
    /\ next \in [Requests -> Nat]
    /\ tenant_data \in [Requests -> [Tenants -> Seq(Nat)]]
    /\ post \in [Requests -> [Tenants -> {"none", "queued", "inflight"}
                                         \cup Replies]]
    /\ num_of_failures \in [Requests -> 0 .. U16 - 1]
    /\ status \in [Requests -> {0, 200, 400, 500}]
    /\ allowed \in [Requests -> SUBSET Tenants]

ForwardInit ==
    /\ rpc = [r \in Requests |-> "idle"]
    /\ payload = [r \in Requests |-> Garbage]
    /\ next = [r \in Requests |-> 0]
    /\ tenant_data = [r \in Requests |-> NoData]
    /\ post = [r \in Requests |-> NoPosts]
    /\ num_of_failures = [r \in Requests |-> 0]
    /\ status = [r \in Requests |-> 0]
    /\ allowed = [r \in Requests |-> {}]

Move(r, from, to) == rpc[r] = from /\ rpc' = [rpc EXCEPT ![r] = to]

InState(r, s) == { t \in Tenants : post[r][t] = s }

-----------------------------------------------------------------------------
(* The handler.                                                            *)

\* The body has arrived in full; the handler asks for the read lock.
Receive(r) ==
    /\ Move(r, "idle", "waiting")
    /\ \E body \in Payloads \cup {Garbage} : payload' = [payload EXCEPT ![r] = body]
    /\ Ask(r, "read")
    /\ UNCHANGED <<next, tenant_data, post, num_of_failures, status, allowed>>

RejectGarbage(r) ==
    /\ Move(r, "waiting", "answered")
    /\ r \in readers
    /\ payload[r] = Garbage
    /\ status' = [status EXCEPT ![r] = 400]
    /\ Release(r)
    /\ UNCHANGED <<payload, next, tenant_data, post, num_of_failures, allowed>>

\* Mutated: the guard is dropped before the payload is routed.
DecodeReleasing(r) ==
    /\ Move(r, "waiting", "routing")
    /\ r \in readers
    /\ payload[r] # Garbage
    /\ next' = [next EXCEPT ![r] = 1]
    /\ allowed' = [allowed EXCEPT ![r] = Range(tenants_vec)]
    /\ Release(r)
    /\ UNCHANGED <<payload, tenant_data, post, num_of_failures, status>>

Decode(r) ==
    /\ Move(r, "waiting", "routing")
    /\ r \in readers
    /\ payload[r] # Garbage
    /\ next' = [next EXCEPT ![r] = 1]
    /\ allowed' = [allowed EXCEPT ![r] = Range(tenants_vec)]
    /\ UNCHANGED <<lockVars, payload, tenant_data, post, num_of_failures, status>>

\* One round of the aggregation loop, by the borrowed allow-list.
RouteSeries(r) ==
    /\ rpc[r] = "routing"
    /\ next[r] <= Len(payload[r])
    /\ tenant_data' = [tenant_data EXCEPT ![r] = [t \in Tenants |->
           @[t] \o Repeated(next[r],
                            Copies(payload[r][next[r]], t, tenant_labels, tenants_vec,
                                   uses_allow_listing, replicate_to))]]
    /\ next' = [next EXCEPT ![r] = @ + 1]
    /\ UNCHANGED <<lockVars, rpc, payload, post, num_of_failures, status, allowed>>

\* Mutated: the guard is dropped before the requests are sent.
StartForwardingReleasing(r) ==
    /\ Move(r, "routing", "forwarding")
    /\ next[r] > Len(payload[r])
    /\ post' = [post EXCEPT ![r] = [t \in Tenants |->
                  IF tenant_data[r][t] = << >> THEN "none" ELSE "queued"]]
    /\ Release(r)
    /\ UNCHANGED <<payload, next, tenant_data, num_of_failures, status, allowed>>

\* One request per entry of tenant_data, of which none is sent yet.
StartForwarding(r) ==
    /\ Move(r, "routing", "forwarding")
    /\ next[r] > Len(payload[r])
    /\ post' = [post EXCEPT ![r] = [t \in Tenants |->
                  IF tenant_data[r][t] = << >> THEN "none" ELSE "queued"]]
    /\ UNCHANGED <<lockVars, payload, next, tenant_data, num_of_failures, status, allowed>>

\* Mutated: off by one in the limit of parallel requests.
SpawnBelowLimit(r, t) ==
    /\ rpc[r] = "forwarding"
    /\ post[r][t] = "queued"
    /\ Cardinality(InState(r, "inflight")) + 1 < MaxParallelRequestPerLoad
    /\ post' = [post EXCEPT ![r][t] = "inflight"]
    /\ UNCHANGED <<lockVars, rpc, payload, next, tenant_data, num_of_failures, status,
                   allowed>>

\* buffer_unordered() pulls the next request and with it spawns its task.
Spawn(r, t) ==
    /\ rpc[r] = "forwarding"
    /\ post[r][t] = "queued"
    /\ Cardinality(InState(r, "inflight")) < MaxParallelRequestPerLoad
    /\ post' = [post EXCEPT ![r][t] = "inflight"]
    /\ UNCHANGED <<lockVars, rpc, payload, next, tenant_data, num_of_failures, status,
                   allowed>>

\* Mutated: only a 5xx answer counts, a transport error does not.
IsFailureStatus(reply) == reply = "5xx"

\* Mutated: what a tenant refuses counts too.
IsFailureUnlessTaken(reply) == reply # "2xx"

\* process_upstream_response() and accumulate_errors().
IsFailure(reply) == reply \notin {"2xx", "4xx"}

\* The spawned task ends, and its answer is counted.
Reply(r, t, reply) ==
    /\ rpc[r] # "abandoned"
    /\ post[r][t] = "inflight"
    /\ post' = [post EXCEPT ![r][t] = reply]
    /\ num_of_failures' = [num_of_failures EXCEPT ![r] =
           IF rpc[r] = "forwarding" /\ IsFailure(reply) THEN (@ + 1) % U16 ELSE @]
    /\ UNCHANGED <<lockVars, rpc, payload, next, tenant_data, status, allowed>>

\* Mutated: the answer does not wait for requests in flight.
RespondEarly(r) ==
    /\ Move(r, "forwarding", "answered")
    /\ InState(r, "queued") = {}
    /\ status' = [status EXCEPT ![r] = IF num_of_failures[r] = 0 THEN 200 ELSE 500]
    /\ Release(r)
    /\ UNCHANGED <<payload, next, tenant_data, post, num_of_failures, allowed>>

\* Mutated: the count of failures is given as the status.
RespondCount(r) ==
    /\ Move(r, "forwarding", "answered")
    /\ InState(r, "queued") = {}
    /\ InState(r, "inflight") = {}
    /\ status' = [status EXCEPT ![r] = num_of_failures[r]]
    /\ Release(r)
    /\ UNCHANGED <<payload, next, tenant_data, post, num_of_failures, allowed>>

Respond(r) ==
    /\ Move(r, "forwarding", "answered")
    /\ InState(r, "queued") = {}
    /\ InState(r, "inflight") = {}
    /\ status' = [status EXCEPT ![r] = IF num_of_failures[r] = 0 THEN 200 ELSE 500]
    /\ Release(r)
    /\ UNCHANGED <<payload, next, tenant_data, post, num_of_failures, allowed>>

HandlerStep(r) ==
    \/ RejectGarbage(r)
    \/ Decode(r)
    \/ RouteSeries(r)
    \/ StartForwarding(r)
    \/ \E t \in Tenants : Spawn(r, t)
    \/ Respond(r)

-----------------------------------------------------------------------------
(* The client.                                                             *)

\* The slot keeps the requests in flight, tasks without a handler; without any
\* it is free.
KeepOrphans(r, orphans) ==
    /\ rpc' = [rpc EXCEPT ![r] = IF orphans = {} THEN "idle" ELSE "abandoned"]
    /\ payload' = [payload EXCEPT ![r] = IF orphans = {} THEN Garbage ELSE @]
    /\ post' = [post EXCEPT ![r] = [t \in Tenants |->
                  IF t \in orphans THEN "inflight" ELSE "none"]]
    /\ next' = [next EXCEPT ![r] = 0]
    /\ tenant_data' = [tenant_data EXCEPT ![r] = NoData]
    /\ num_of_failures' = [num_of_failures EXCEPT ![r] = 0]
    /\ status' = [status EXCEPT ![r] = 0]
    /\ allowed' = [allowed EXCEPT ![r] = {}]

\* Mutated: the guard outlives the handler.
AbandonHolding(r) ==
    /\ rpc[r] \in {"waiting", "forwarding"}
    /\ KeepOrphans(r, InState(r, "inflight"))
    /\ IF r \in readers THEN UNCHANGED lockVars ELSE Withdraw(r)

\* External: the connection closes and the server drops the handler at its
\* await.  Requests not yet pulled are never sent, what was spawned goes on.
Abandon(r) ==
    /\ rpc[r] \in {"waiting", "forwarding"}
    /\ KeepOrphans(r, InState(r, "inflight"))
    /\ IF r \in readers THEN Release(r) ELSE Withdraw(r)

\* A task without a handler ends; its answer goes nowhere.
OrphanReply(r, t) ==
    /\ rpc[r] = "abandoned"
    /\ post[r][t] = "inflight"
    /\ KeepOrphans(r, InState(r, "inflight") \ {t})
    /\ UNCHANGED lockVars

\* The client has its answer, and the slot is used again.
Recycle(r) ==
    /\ rpc[r] = "answered"
    /\ KeepOrphans(r, InState(r, "inflight"))
    /\ UNCHANGED lockVars
=============================================================================
