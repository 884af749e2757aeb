\* Three clients, two tokens, one place in line and with the server.
CONSTANTS
    c1 = c1
    c2 = c2
    c3 = c3
    k1 = k1
    s1 = s1
    soup = soup
    Clients = {c1, c2, c3}
    Cashiers = {k1}
    Servers = {s1}
    MenuItems = {soup}
    Nobody = Nobody
    NoOrder = NoOrder
    NO_OF_TOKENS = 2
    LINEUP_MAX = 1
SPECIFICATION FairSpecInTurn
PROPERTIES
    ShopCloses
