---------------------------- MODULE MCInformerTicks ----------------------------
(* One task of the informer at a time, with the history of its ticks.       *)
EXTENDS InformerTicks

CONSTANTS t0, t1, g, h, a, b, mine

MCOrder == << <<t1, g>>, mine, <<t0, g>>, <<t0, h>>, <<t1, h>> >>
MCAlone == {{"updater"}, {"tracker"}}

MCSourced(t, name) == <<t, name>>
MCGroup(name, rules) == [name |-> name, rules |-> rules]

\* t0 has b, t1 has a and b; h is shared.
MCRules ==
    { [tenants |-> {t0}, groups |-> <<MCGroup(g, b)>>],
      [tenants |-> {t0, t1}, groups |-> <<MCGroup(h, a)>>],
      [tenants |-> {t1}, groups |-> <<MCGroup(h, b), MCGroup(g, a)>>],
      [tenants |-> {t0, t1}, groups |-> << >>] }
MCGroups ==
    { [tenant |-> t0, group |-> MCGroup(g, b)],
      [tenant |-> t1, group |-> MCGroup(h, a)],
      [tenant |-> t1, group |-> MCGroup(g, b)] }
=============================================================================
