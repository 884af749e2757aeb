\* Two openings of two clients and two staff each.
CONSTANTS
    c1 = c1
    c2 = c2
    s1 = s1
    s2 = s2
    s3 = s3
    s4 = s4
    Clients = {c1, c2}
    Staff = {s1, s2, s3, s4}
    NO_OF_STAFF = 2
    OPENINGS = 2
    None = None
SPECIFICATION Spec
SYMMETRY Symmetry
\* An unregistered staff member never goes home, and a patient user waits for it.
CHECK_DEADLOCK FALSE
INVARIANTS TypeOK OneLiveRestaurant OnlyOwnRemoved NothingLeft
