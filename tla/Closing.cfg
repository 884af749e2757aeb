\* Two dishes, two cashiers; one place in line, so a client may leave unserved.
CONSTANTS
    c1 = c1
    c2 = c2
    k1 = k1
    k2 = k2
    s1 = s1
    soup = soup
    salad = salad
    Clients = {c1, c2}
    Cashiers = {k1, k2}
    Servers = {s1}
    MenuItems = {soup, salad}
    Nobody = Nobody
    NoOrder = NoOrder
    NO_OF_TOKENS = 2
    LINEUP_MAX = 1
SPECIFICATION Spec
SYMMETRY Symmetry
INVARIANTS
    SignalsBalanced
    CleanAtClosing
    ReportExact
PROPERTIES
    StaffLeaveIdle
    ImplementsDining
