\* Three callers and two values in fifo.c; three clients for two tokens and for a ring of two; four threads at most.
CONSTANTS
    n1 = n1
    n2 = n2
    n3 = n3
    Nodes = {n1, n2, n3}
    THREADS = 3
    VALUES = 2
    NO_OF_TOKENS = 2
    CLIENTS = 3
    CASHIERS = 2
    NO_OF_THREADS = 3
    NO_OF_LOOPS = 2
    PRODUCERS = 3
    CONSUMERS = 2
    MAX = 2
    None = None
SPECIFICATION Spec
INVARIANTS HeapSafe NeverEmptyHanded OneClientPerToken NobodyLeftBehind MainHasWaited NumbersNotReused
PROPERTIES ImplementsFifo EveryProgramEnds
