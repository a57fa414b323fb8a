------------------------------- MODULE TimeSeries -------------------------------
(***************************************************************************)
(* The aggregation of a payload's time series, round by round of the loops *)
(* in process_time_serie() of proxy/src/metrics/metrics.rs, against the    *)
(* counts of TenantRouting.  Here a series is the list of its labels.      *)
(***************************************************************************)
EXTENDS TenantRouting

CONSTANTS
    Tenants,       \* tenant identifiers, as label values and in the lists
    TenantLabels,  \* label names that identify a tenant, a list
    Series,        \* time series, as lists of labels [name, value]
    AllowLists,    \* values of allow_listed_tenants
    ReplicateTos,  \* values of replicate_to
    PayloadLength  \* bound: time series in a payload

ASSUME TimeSeriesAssumption ==
    /\ TenantLabels \in Seq(Range(TenantLabels))
    /\ \A serie \in Series :
          /\ serie \in Seq(Range(serie))
          /\ LabelTenants(Range(serie), Range(TenantLabels)) \subseteq Tenants
    /\ AllowLists \cup ReplicateTos \subseteq Seq(Tenants)
    /\ PayloadLength \in Nat

VARIABLES
    input,        \* payload and arguments of process_time_serie()
    next,         \* the series at hand, or to process next
    loop,         \* the loop it is in: over a list of tenants, or between two series
    position,     \* in that list
    visited,      \* visited_tenants
    tenant_data

vars == <<input, next, loop, position, visited, tenant_data>>

serie == input.payload[next]

\* The value of each label once per tenant label that has its name.
label_tenants ==
    FlattenSeq([i \in DOMAIN serie |->
        Repeated(serie[i].value, Times(TenantLabels, serie[i].name))])

\* The list that a loop runs through.
ListOf(l) ==
    CASE l = "allowed" -> input.allow
      [] l = "replicas" -> input.replicate
      [] l = "tenants" -> input.replicate \o label_tenants

tenant_id == ListOf(loop)[position]

process_time_serie_for_tenant ==
    /\ tenant_data' = [tenant_data EXCEPT ![tenant_id] = Append(@, next)]
    /\ visited' = visited \cup {tenant_id}

\* Mutated: visited tenants are not looked up.
AlthoughVisited == process_time_serie_for_tenant

UnlessVisited ==
    IF tenant_id \in visited
    THEN UNCHANGED <<tenant_data, visited>>
    ELSE process_time_serie_for_tenant

Init ==
    /\ input \in [payload : UNION { [1 .. n -> Series] : n \in 0 .. PayloadLength },
                  allow : AllowLists,
                  does_allow_list : BOOLEAN,
                  replicate : ReplicateTos]
    /\ next = 1
    /\ loop = "none"
    /\ position = 1
    /\ visited = {}
    /\ tenant_data = [t \in Tenants |-> << >>]

LoopOver(l) == loop' = l /\ position' = 1

\* process_time_serie() is called for the next series.
NextSerie ==
    /\ loop = "none"
    /\ next <= Len(input.payload)
    /\ LoopOver(IF input.does_allow_list THEN "allowed" ELSE "tenants")
    /\ visited' = {}
    /\ UNCHANGED <<input, next, tenant_data>>

Round(l) ==
    /\ loop = l
    /\ position <= Len(ListOf(l))
    /\ position' = position + 1
    /\ UNCHANGED <<input, next, loop>>

AllowedTenant ==
    /\ Round("allowed")
    /\ IF tenant_id \in Range(label_tenants)
       THEN UnlessVisited
       ELSE UNCHANGED <<tenant_data, visited>>

Replica == Round("replicas") /\ process_time_serie_for_tenant

AnyTenant == Round("tenants") /\ UnlessVisited

LoopIsOver(l) ==
    /\ loop = l
    /\ position > Len(ListOf(l))
    /\ UNCHANGED <<input, visited, tenant_data>>

ThenReplicas == LoopIsOver("allowed") /\ LoopOver("replicas") /\ UNCHANGED next

SerieDone ==
    /\ LoopIsOver("replicas") \/ LoopIsOver("tenants")
    /\ LoopOver("none")
    /\ next' = next + 1

Next ==
    \/ NextSerie
    \/ AllowedTenant
    \/ Replica
    \/ AnyTenant
    \/ ThenReplicas
    \/ SerieDone

Spec == Init /\ [][Next]_vars

-----------------------------------------------------------------------------

CopiesOf(i, t) ==
    Copies(Range(input.payload[i]), t, Range(TenantLabels),
           input.allow, input.does_allow_list, input.replicate)

\* Between two series each tenant's request holds, in the order of the payload,
\* every series so far as often as Copies says and no other (metrics.rs, 33-99).
RequestsAreTheCopies ==
    loop = "none" =>
        \A t \in Tenants :
            /\ Nondecreasing(tenant_data[t])
            /\ Range(tenant_data[t]) \subseteq 1 .. next - 1
            /\ \A i \in 1 .. next - 1 : Times(tenant_data[t], i) = CopiesOf(i, t)

\* "remember visited tenants to avoid duplicate requests" (metrics.rs:57): no
\* tenant gets one series twice in a payload.
NoDuplicateSeries == \A t \in Tenants : IsInjective(tenant_data[t])
=============================================================================
