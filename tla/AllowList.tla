------------------------------- MODULE AllowList -------------------------------
(***************************************************************************)
(* What the proxy's tenant controller promises, with no lock, no paging    *)
(* and no order of updates: a list of allowed tenants that changes in one  *)
(* step from one whole list to the next, each the tenants of the command   *)
(* line and those one look at the cluster saw.                             *)
(***************************************************************************)
CONSTANTS
    InitialTenants,   \* tenants of the command line
    ClusterTenants    \* tenants a cluster may name

VARIABLES
    allowed,  \* the list a request is routed by
    cluster,  \* the tenants named in the cluster
    seen,     \* the tenants the cluster named when it was last looked at
    partial   \* a part of what was to be seen got lost

vars == <<allowed, cluster, seen, partial>>

Init ==
    /\ allowed = {}
    /\ cluster \in SUBSET ClusterTenants
    /\ seen = {}
    /\ partial = FALSE

Edit ==
    /\ cluster' \in SUBSET ClusterTenants
    /\ UNCHANGED <<allowed, seen, partial>>

Start ==
    /\ allowed = {}
    /\ allowed' = InitialTenants
    /\ UNCHANGED <<cluster, seen, partial>>

Look ==
    /\ seen' = cluster
    /\ UNCHANGED <<allowed, cluster, partial>>

LosePart ==
    /\ partial' = TRUE
    /\ UNCHANGED <<allowed, cluster, seen>>

\* The list becomes what was seen, or less when a part of it was lost.
Publish ==
    /\ \E part \in SUBSET seen :
          /\ ~partial => part = seen
          /\ allowed' = InitialTenants \cup part
    /\ seen' = {}
    /\ partial' = FALSE
    /\ UNCHANGED cluster

GiveUp ==
    /\ seen' = {}
    /\ partial' = FALSE
    /\ UNCHANGED <<allowed, cluster>>

Stop ==
    /\ allowed' = {}
    /\ UNCHANGED <<cluster, seen, partial>>

Next == Edit \/ Start \/ Look \/ LosePart \/ Publish \/ GiveUp \/ Stop

Spec == Init /\ [][Next]_vars
=============================================================================
