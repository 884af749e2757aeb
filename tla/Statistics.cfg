\* Two clients and a cashier; minutes of two seconds.
CONSTANTS
    c1 = c1
    c2 = c2
    k1 = k1
    soup = soup
    Clients = {c1, c2}
    Cashiers = {k1}
    MenuItems = {soup}
    Driver = Driver
    NoItem = NoItem
    MINUTE = 2
    LastSecond = 2
SPECIFICATION Spec
SYMMETRY Symmetry
INVARIANTS
    NoLostUpdate
    LosesWholeMinutes
    ReportFinal
