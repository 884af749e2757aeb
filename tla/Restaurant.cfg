\* Three clients share two tokens and two places in line; two cashiers.
CONSTANTS
    c1 = c1
    c2 = c2
    c3 = c3
    k1 = k1
    k2 = k2
    s1 = s1
    soup = soup
    Clients = {c1, c2, c3}
    Cashiers = {k1, k2}
    Servers = {s1}
    MenuItems = {soup}
    Nobody = Nobody
    NoOrder = NoOrder
    NO_OF_TOKENS = 2
    LINEUP_MAX = 2
SPECIFICATION Spec
SYMMETRY Symmetry
INVARIANTS
    TypeOK
    TokensConserved
    OrdersAwaited
    SignalsBalanced
    RoomForEveryToken
    ReturnNeverWaits
