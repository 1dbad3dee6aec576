CONSTANTS
    Nil = Nil
    Requests = {r1, r2, r3, r4}
    Users = {u1, u2}
SYMMETRY Symmetry
SPECIFICATION Spec
INVARIANTS TypeOK LateRefreshRefused RevokeAllSticks
PROPERTIES RevokedForGood ImplementsSessionRegister
CHECK_DEADLOCK FALSE
