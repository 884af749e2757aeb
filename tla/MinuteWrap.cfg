\* One client, minutes of three seconds, a clock that runs just past the first.
CONSTANTS
    c1 = c1
    k1 = k1
    soup = soup
    Clients = {c1}
    Cashiers = {k1}
    MenuItems = {soup}
    Driver = Driver
    NoItem = NoItem
    MINUTE = 3
    LastSecond = 3
SPECIFICATION Spec
INVARIANT TimesAreReal
