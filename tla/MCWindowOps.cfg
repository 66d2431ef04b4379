SPECIFICATION Spec
CONSTANTS
    h = h
    t = t
    u = u
    Windows = {h, t, u}
    Terminals = {t, u}
    Desktops = {d1, d2}
    First = d1
    None = None
    Template <- MCTemplate
    Careless = {}
INVARIANTS WellPlaced
PROPERTIES NothingLost
