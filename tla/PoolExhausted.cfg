CONSTANTS
    Requests = {i1, i2, i3}
    Issuers = {i1, i2, i3}
    Max = 3
SPECIFICATION Spec
PROPERTY EveryRequestAnswered
CHECK_DEADLOCK FALSE
