CONSTANTS
    Requests = {i1, i2, t1, t2}
    Issuers = {i1, i2}
    Max = 3
SPECIFICATION Spec
INVARIANTS TypeOK ConnectionsAccounted SomebodyRuns
PROPERTY EveryRequestAnswered
CHECK_DEADLOCK FALSE
