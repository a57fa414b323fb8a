------------------------------ MODULE RemoteWrite ------------------------------
(***************************************************************************)
(* A Prometheus that writes through the proxy, and a proxy that may crash. *)
(* Prometheus is external (config/prom-docker-for-mac.yml, 37-39): one     *)
(* shard sends a stream of batches, one at a time.  It goes on to the next *)
(* batch when 200 or 400 is answered, and sends the same one again when    *)
(* 500 is answered, when no answer came within remote_timeout, or when the *)
(* answer got lost with its connection.  What a proxy has sent before it   *)
(* crashes, or before its client leaves, may still be answered.            *)
(***************************************************************************)
EXTENDS Proxy

CONSTANTS
    Stream,     \* the batches, in the order they are sent
    MaxCrashes  \* bound: crashes of the proxy

ASSUME StreamAssumption == Stream \in Seq(Payloads) /\ IsInjective(Stream)

VARIABLES
    batch,     \* position in the stream
    crashes,   \* crashes so far
    settled,   \* history: the tenants that took or refused the current batch
    taken,     \* history: those of them that took it
    troubled   \* history: an attempt at it failed for a tenant, was given up, or
               \* was answered in vain

historyVars == <<settled, taken, troubled>>
remoteVars == <<proxyVars, batch, crashes, historyVars>>

Batches == DOMAIN Stream
Carried(r) == CHOOSE b \in Batches : Stream[b] = payload[r]

\* The slot of the request that Prometheus waits for.
Attempt(r) == rpc[r] \notin {"idle", "abandoned"}

\* Of the slots that are free it does not matter which is used.
FreeSlot(r) == rpc[r] = "idle" /\ r = CHOOSE slot \in Requests : rpc[slot] = "idle"

RemoteInit ==
    /\ ProxyInit
    /\ batch = 1
    /\ crashes = 0
    /\ settled = {}
    /\ taken = {}
    /\ troubled = FALSE

InVain == troubled' = TRUE /\ UNCHANGED <<settled, taken>>

Send(r) ==
    /\ serving
    /\ batch \in Batches
    /\ \A other \in Requests : ~Attempt(other)
    /\ FreeSlot(r)
    /\ Receive(r)
    /\ payload'[r] = Stream[batch]
    /\ UNCHANGED <<notLockVars, batch, crashes, historyVars>>

MoveOn ==
    /\ batch' = batch + 1
    /\ settled' = {}
    /\ taken' = {}
    /\ troubled' = FALSE

Learn(r) ==
    /\ rpc[r] = "answered"
    /\ IF status[r] = 500 THEN UNCHANGED <<batch, historyVars>> ELSE MoveOn
    /\ Recycle(r)
    /\ UNCHANGED <<notLockVars, crashes>>

AnswerLost(r) ==
    /\ rpc[r] = "answered"
    /\ Recycle(r)
    /\ InVain
    /\ UNCHANGED <<notLockVars, batch, crashes>>

TimesOut(r) ==
    /\ Abandon(r)
    /\ InVain
    /\ UNCHANGED <<notLockVars, batch, crashes>>

Upstream(r, t, reply) ==
    /\ Reply(r, t, reply) \/ OrphanReply(r, t)
    /\ IF Carried(r) = batch
       THEN /\ settled' = IF reply \in {"2xx", "4xx"} THEN settled \cup {t} ELSE settled
            /\ taken' = IF reply = "2xx" THEN taken \cup {t} ELSE taken
            /\ troubled' = (troubled \/ reply \notin {"2xx", "4xx"})
       ELSE UNCHANGED historyVars
    /\ UNCHANGED <<notLockVars, batch, crashes>>

\* The posts of a slot that may still be answered.
Orphans(r) == InState(r, "inflight")

\* The process ends and is started again: lock, allow-list and handlers are
\* gone, requests not yet sent are never sent.
Crash ==
    /\ crashes < MaxCrashes
    /\ crashes' = crashes + 1
    /\ readers' = {} /\ writers' = {} /\ waiting' = << >>
    /\ clean
    /\ EndListing
    /\ cpc' = "boot" /\ serving' = FALSE /\ published' = {}
    /\ rpc' = [r \in Requests |-> IF Orphans(r) = {} THEN "idle" ELSE "abandoned"]
    /\ payload' = [r \in Requests |-> IF Orphans(r) = {} THEN Garbage ELSE payload[r]]
    /\ next' = [r \in Requests |-> 0]
    /\ tenant_data' = [r \in Requests |-> NoData]
    /\ post' = [r \in Requests |-> [t \in Tenants |->
                  IF t \in Orphans(r) THEN "inflight" ELSE "none"]]
    /\ num_of_failures' = [r \in Requests |-> 0]
    /\ status' = [r \in Requests |-> 0]
    /\ allowed' = [r \in Requests |-> {}]
    /\ troubled' = (troubled \/ \E r \in Requests : Attempt(r))
    /\ UNCHANGED <<batch, settled, taken>>

Prometheus ==
    \E r \in Requests : Send(r) \/ Learn(r) \/ AnswerLost(r) \/ TimesOut(r)

RemoteNext ==
    \/ /\ ControllerTurn \/ Environment \/ Granting \/ \E r \in Requests : Handle(r)
       /\ UNCHANGED <<batch, crashes, historyVars>>
    \/ Prometheus
    \/ \E r \in Requests, t \in Tenants, reply \in UpstreamReplies : Upstream(r, t, reply)
    \/ Crash

\* The proxy and Prometheus go on, remote_timeout passes.  The upstream promises
\* nothing here.
RemoteFairness ==
    /\ WF_remoteVars(ControllerTurn /\ UNCHANGED <<batch, crashes, historyVars>>)
    /\ WF_remoteVars(Granting /\ UNCHANGED <<batch, crashes, historyVars>>)
    /\ \A r \in Requests :
          /\ WF_remoteVars(Handle(r) /\ UNCHANGED <<batch, crashes, historyVars>>)
          /\ WF_remoteVars(TimesOut(r))
    /\ WF_remoteVars(\E r \in Requests : Send(r))
    /\ WF_remoteVars(\E r \in Requests : Learn(r))

RemoteSpec == RemoteInit /\ [][RemoteNext]_remoteVars /\ RemoteFairness

-----------------------------------------------------------------------------

\* The proxy keeps nothing between two requests, so a batch sent again reaches
\* every tenant again (forward.rs, 185-189).  This happens only when an attempt
\* failed for somebody, or its answer did not arrive: what a tenant refuses for
\* good does not make the others take a batch twice.
NoDuplicateWithoutTrouble ==
    [][\A r \in Requests : \A t \in Tenants :
          post[r][t] = "inflight" /\ post'[r][t] = "2xx" /\ Carried(r) = batch /\ ~troubled
              => t \notin taken]_remoteVars

\* The upstream answers for a batch that is not the current one, or for a tenant
\* that is barred at that moment, only when the handler that sent it is gone: a
\* handler that lives has the lock and its client (forward.rs, 161 and 172).
OnlyOrphansAreLate ==
    [][\A r \in Requests : \A t \in Tenants :
          post[r][t] = "inflight" /\ post'[r][t] # "inflight" =>
              \/ rpc[r] = "abandoned"
              \/ /\ Carried(r) = batch
                 /\ t \in Range(tenants_vec) \cup Range(replicate_to)]_remoteVars

\* The failures that keep a batch from getting on: an upstream that fails, an
\* attempt given up, a good answer lost.  A refusal (4xx) is none.
Trouble ==
    \E r \in Requests :
       \/ \E t \in Tenants : post[r][t] = "inflight" /\ post'[r][t] \in {"3xx", "5xx", "error"}
       \/ rpc[r] \in {"waiting", "forwarding"} /\ rpc'[r] \in {"idle", "abandoned"}
       \/ status[r] = 200 /\ rpc'[r] = "idle" /\ batch' = batch

TroubleEnds ==
    /\ <>[][~Trouble]_remoteVars
    /\ []<>(\A r \in Requests : InState(r, "inflight") = {})

\* Once that is over and the upstream answers, the stream gets through to its
\* end, even if tenants refuse batch after batch and the allow-list changes: no
\* batch stays for ever (forward.rs, 185-189 and 222-237).
StreamGetsThrough == TroubleEnds => <>(batch \notin Batches)

-----------------------------------------------------------------------------

\* The tenants of the command line that a batch has series for.
DueTo(b) ==
    { t \in Tenants : \E i \in DOMAIN Stream[b] :
         \/ t \in Range(replicate_to)
         \/ /\ t \in Range(allow_listed_tenants)
            /\ t \in LabelTenants(Stream[b][i], tenant_labels) }

Wanted == INSTANCE Delivery WITH
    Readers <- Tenants,
    Due <- [b \in Batches |-> DueTo(b)],
    current <- batch

\* Prometheus does not go on to the next batch before every tenant of the command
\* line has settled this one, through retries, abandoned handlers and crashes;
\* late answers for an earlier batch do not count (forward.rs, 144-194).
ImplementsDelivery == Wanted!Spec
=============================================================================
