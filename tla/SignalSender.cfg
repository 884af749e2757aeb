\* One client, one cashier, one server.
CONSTANTS
    c1 = c1
    k1 = k1
    s1 = s1
    soup = soup
    Clients = {c1}
    Cashiers = {k1}
    Servers = {s1}
    MenuItems = {soup}
    Nobody = Nobody
    NoOrder = NoOrder
    NO_OF_TOKENS = 1
    LINEUP_MAX = 1
SPECIFICATION Spec
PROPERTIES
    SenderIsWhoSent
