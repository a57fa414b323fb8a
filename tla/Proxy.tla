--------------------------------- MODULE Proxy ---------------------------------
(***************************************************************************)
(* The proxy process: the tenant controller and the request handlers on    *)
(* one CONTROLLER, with the cluster, the upstream and the clients around   *)
(* them.                                                                   *)
(***************************************************************************)
EXTENDS TenantController, Forwarding

ASSUME ProxyAssumption == Ctl \notin Requests

proxyVars == <<allControllerVars, forwardVars>>

ProxyTypeOK == ControllerTypeOK /\ ForwardTypeOK

ProxyInit == ControllerInit /\ ForwardInit

ControllerTurn == ControllerStep /\ UNCHANGED forwardVars

Environment == (Edit \/ Stop) /\ UNCHANGED forwardVars

Granting == Grant /\ UNCHANGED forwardVars

notLockVars == <<fieldVars, k8s, listingVars, controllerVars>>

Handle(r) == HandlerStep(r) /\ UNCHANGED notLockVars

Answer(r, t) ==
    /\ \/ \E reply \in UpstreamReplies : Reply(r, t, reply)
       \/ OrphanReply(r, t)
    /\ UNCHANGED notLockVars

Client(r) ==
    /\ serving
    /\ \/ Receive(r)
       \/ Abandon(r)
       \/ Recycle(r)
    /\ UNCHANGED notLockVars

ProxyNext ==
    \/ ControllerTurn
    \/ Environment
    \/ Granting
    \/ \E r \in Requests :
          \/ Handle(r)
          \/ Client(r)
          \/ \E t \in Tenants : Answer(r, t)

\* The runtime polls every task that is ready and the lock serves its queue;
\* the upstream ends every request sent to it.  Clients promise nothing.
ProxyFairness ==
    /\ WF_proxyVars(ControllerTurn)
    /\ WF_proxyVars(Granting)
    /\ \A r \in Requests :
          /\ WF_proxyVars(Handle(r))
          /\ \A t \in Tenants : WF_proxyVars(Answer(r, t))

ProxySpec == ProxyInit /\ [][ProxyNext]_proxyVars /\ ProxyFairness

-----------------------------------------------------------------------------

\* Whether the series at position i of the payload of r is to reach tenant t.
Entitled(r, i, t) ==
    \/ t \in Range(replicate_to)
    \/ t \in allowed[r] /\ t \in LabelTenants(payload[r][i], tenant_labels)

\* The request of each tenant holds exactly the series the tenant is entitled
\* to, in payload order, all judged by the one allow-list there was when the
\* handler got the lock (main.rs, 284-285; metrics.rs, 33-99).
RoutedByOneAllowList ==
    \A r \in Requests : rpc[r] = "forwarding" =>
        \A t \in Tenants :
            /\ Range(tenant_data[r][t]) = { i \in DOMAIN payload[r] : Entitled(r, i, t) }
            /\ Nondecreasing(tenant_data[r][t])

\* "allow listed tenants (optional, by default proxy all tenants)" (main.rs:74):
\* without the option every series goes to the tenants of its labels.
DefaultProxiesAll ==
    AllowListedTenants = << >> =>
        \A r \in Requests : rpc[r] = "forwarding" =>
            \A t \in Tenants :
                { i \in DOMAIN payload[r] : t \in LabelTenants(payload[r][i], tenant_labels) }
                    \subseteq Range(tenant_data[r][t])

\* 200 is answered only when every tenant with a request took it (2xx) or
\* refused it for good (4xx), 500 only when one failed, and neither before all
\* were sent and answered, in whatever order (forward.rs, 144-194).
AckMeansDelivered ==
    \A r \in Requests : status[r] \in {200, 500} =>
        LET due == { t \in Tenants : tenant_data[r][t] # << >> }
        IN  /\ \A t \in due : post[r][t] \in Replies
            /\ status[r] = 200 <=> \A t \in due : post[r][t] \in {"2xx", "4xx"}

\* No request is sent in the name of a tenant that is off the allow-list at that
\* moment, unless the whole stream is replicated to it: an update cannot come
\* between the routing of a payload and its sending (main.rs, 284-299).
SentOnlyWhileAllowed ==
    [][\A r \in Requests : \A t \in Tenants :
          (post[r][t] # "inflight" /\ post'[r][t] = "inflight") =>
              t \in Range(tenants_vec') \cup Range(replicate_to)]_proxyVars

\* A request that was received is answered or its client has left, although
\* the handler waits behind updates, other handlers and the upstream.
EveryRequestSettles ==
    \A r \in Requests : rpc[r] = "waiting" ~> rpc[r] \in {"answered", "abandoned", "idle"}

\* A listing that succeeded is published, however many handlers hold and ask
\* for the lock meanwhile (controller.rs, 219-226).
UpdateGetsThrough == cpc = "acquired" ~> cpc \in {"sleeping", "spawn"}
=============================================================================
