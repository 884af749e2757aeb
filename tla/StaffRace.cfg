\* Two cashiers and a server, started at once, three slots.
CONSTANTS
    k1 = k1
    k2 = k2
    s1 = s1
    Cashiers = {k1, k2}
    Servers = {s1}
    NoPid = NoPid
    TOTAL_STAFF_SIZE = 3
    Starts = {"at_once"}
SPECIFICATION Spec
INVARIANT AllStaffRegistered
