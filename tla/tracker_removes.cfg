SPECIFICATION InformerSpec
CONSTANTS
    t0 = t0
    t1 = t1
    g = g
    h = h
    a = a
    b = b
    mine = mine
    Absent = Absent
    Tenants = {t0, t1}
    GroupNames = {g, h}
    Contents = {a, b}
    ResourceOrder <- MCOrder
    UserNames = {mine}
    UserRules <- MCRules
    UserGroups <- MCGroups
    MaxEdits = 1
    MaxMishaps = 0
    ZeroTenant = t0
    TaskSets <- MCAlone
    Sourced <- MCSourced
PROPERTY TrackerNeverRemoves
