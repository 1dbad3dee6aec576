CONSTANTS
    Nil = Nil
    Requests = {r1, r2}
    Admins = {u1, u2}
    Reasons = {why}
SPECIFICATION Spec
PROPERTY ArchivedIsFinal
CHECK_DEADLOCK FALSE
