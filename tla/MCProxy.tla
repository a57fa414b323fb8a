-------------------------------- MODULE MCProxy --------------------------------
(***************************************************************************)
(* Constants for checking Proxy.                                           *)
(***************************************************************************)
EXTENDS Proxy

CONSTANTS zero, front, back, ctl

Label(name, value) == [name |-> name, value |-> value]

MCDefaultTenantList == <<zero>>
MCAllowListedTenants == <<front>>
MCNoTenants == << >>
MCTenantLabelList == <<"tenant_id">>
MCProcs == {ctl} \cup Requests

\* One series of two tenants, one whose tenant label is of the replication
\* tenant, one with no tenant label.
SerieOfBoth == {Label("tenant_id", front), Label("tenant_id", back)}
SerieOfBack == {Label("tenant_id", back)}
SerieOfZero == {Label("tenant_id", zero), Label("job", front)}
SerieOfNone == {Label("job", back)}

MCPayloads == {<<SerieOfBoth, SerieOfZero>>, <<SerieOfNone, SerieOfBack>>, << >>}
MCShortPayload == {<<SerieOfBack>>}
=============================================================================
