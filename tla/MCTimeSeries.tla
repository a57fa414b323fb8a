------------------------------ MODULE MCTimeSeries ------------------------------
(***************************************************************************)
(* Every series with at most two labels, every list of at most two tenants *)
(* (with repetitions: the function takes any list).                        *)
(***************************************************************************)
EXTENDS TimeSeries

UpToTwo(S) == UNION { [1 .. n -> S] : n \in 0 .. 2 }

MCTenantLabels == <<"tenant_id">>
MCSeries == UpToTwo([name : {"tenant_id", "job"}, value : Tenants])
MCLists == UpToTwo(Tenants)
MCDistinctLists == { list \in MCLists : IsInjective(list) }
=============================================================================
