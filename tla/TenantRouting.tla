----------------------------- MODULE TenantRouting -----------------------------
(***************************************************************************)
(* Which tenants one time series goes to, and how often: what              *)
(* process_time_serie() of proxy/src/metrics/metrics.rs decides.  A time   *)
(* series is the set of its labels [name, value]; it is known by its       *)
(* position in the payload, and tenant_data gives each tenant the          *)
(* positions put into its request, in order (none: no entry in the map).   *)
(***************************************************************************)
EXTENDS Naturals, SequencesExt

LabelTenants(serie, labels) ==
    { label.value : label \in { l \in serie : l.name \in labels } }

Times(seq, t) == Cardinality({ i \in DOMAIN seq : seq[i] = t })

\* Mutated: the allow-list is not consulted.
CopiesOfAny(serie, t, labels, allow, does_allow_list, replicate) ==
    Times(replicate, t) + IF t \in LabelTenants(serie, labels) THEN 1 ELSE 0

\* How often the series is put into the request of tenant t.  A tenant listed in
\* replicate gets it once per mention, on top of the copy its label earns.
Copies(serie, t, labels, allow, does_allow_list, replicate) ==
    IF does_allow_list
    THEN Times(replicate, t)
         + IF t \in Range(allow) \cap LabelTenants(serie, labels) THEN 1 ELSE 0
    ELSE IF t \in Range(replicate) \cup LabelTenants(serie, labels) THEN 1 ELSE 0

Repeated(x, n) == [k \in 1 .. n |-> x]

Nondecreasing(seq) == \A i, j \in DOMAIN seq : i <= j => seq[i] <= seq[j]
=============================================================================
