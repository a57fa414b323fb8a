------------------------------- MODULE MCInformer -------------------------------
(* The informer in a small instance: constants that are not model values.   *)
EXTENDS Informer

CONSTANTS t0, t1, g, h, a, b, mine

MCOrder == << <<t1, g>>, mine, <<t0, g>>, <<t0, h>>, <<t1, h>> >>
MCBoth == {Tasks}
MCAlone == {{"updater"}, {"tracker"}}

MCSourced(t, name) == <<t, name>>
MCGroup(name, rules) == [name |-> name, rules |-> rules]

\* t0 has b, t1 has a; h is shared.
MCRules ==
    { [tenants |-> {t0}, groups |-> <<MCGroup(g, b)>>],
      [tenants |-> {t0, t1}, groups |-> <<MCGroup(h, a)>>],
      [tenants |-> {t1}, groups |-> <<MCGroup(h, b), MCGroup(g, a)>>],
      [tenants |-> {t1}, groups |-> << >>] }
MCGroups ==
    { [tenant |-> t0, group |-> MCGroup(g, b)],
      [tenant |-> t1, group |-> MCGroup(h, a)] }
=============================================================================
