\* Three pushers and two poppers over a ring of two slots, four orders.
CONSTANTS
    c1 = c1
    c2 = c2
    c3 = c3
    k1 = k1
    k2 = k2
    o1 = o1
    o2 = o2
    o3 = o3
    o4 = o4
    Pushers = {c1, c2, c3}
    Poppers = {k1, k2}
    Orders = {o1, o2, o3, o4}
    NoOrder = NoOrder
    LINEUP_MAX = 2
SPECIFICATION Spec
SYMMETRY Symmetry
INVARIANTS TypeOK MutualExclusion SlotsConserved RingConsistent
PROPERTIES NothingOverwritten ImplementsFifo
