\* Up to three cashiers and a server, in turn or at once, three slots.
CONSTANTS
    k1 = k1
    k2 = k2
    k3 = k3
    s1 = s1
    Cashiers = {k1, k2, k3}
    Servers = {s1}
    NoPid = NoPid
    TOTAL_STAFF_SIZE = 3
    Starts = {"at_once", "in_turn"}
SPECIFICATION FairSpec
INVARIANTS
    TypeOK
    OrderlyStaffRegistered
    NobodyRefused
    NoGroupSignal
    RefusedOnlyWhenFull
    RegistryCleared
PROPERTY
    OrderlyStaffClose
