------------------------------ MODULE MCRemoteWrite ------------------------------
(***************************************************************************)
(* A stream of two batches for a tenant of the command line and one of a   *)
(* rule.                                                                   *)
(***************************************************************************)
EXTENDS RemoteWrite

CONSTANTS front, back, ctl

MCProcs == {ctl} \cup Requests
MCDefaultTenantList == <<front>>
MCAllowListedTenants == <<front>>
MCTenantLabelList == <<"tenant_id">>

LabelOf(value) == [name |-> "tenant_id", value |-> value]
SerieOfBoth == {LabelOf(front), LabelOf(back)}
SerieOfFront == {LabelOf(front)}

MCStream == << <<SerieOfBoth>>, <<SerieOfFront>> >>
MCPayloads == Range(MCStream)
=============================================================================
