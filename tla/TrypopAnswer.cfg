\* Two clients push while one cashier pops twice.
CONSTANTS
    c1 = c1
    c2 = c2
    k1 = k1
    o1 = o1
    o2 = o2
    Pushers = {c1, c2}
    Poppers = {k1}
    Orders = {o1, o2}
    NoOrder = NoOrder
    LINEUP_MAX = 2
SPECIFICATION Spec
PROPERTY FailedPopFoundNothing
