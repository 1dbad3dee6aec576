CONSTANTS
    Nil = Nil
    Requests = {r1, r2, r3}
    Admins = {u1, u2}
    Reasons = {why}
SPECIFICATION Spec
INVARIANTS TypeOK AuditTrailReplays AuditsAllowed
PROPERTIES ImplementsStatusRegister ArchivedSettles
CHECK_DEADLOCK FALSE
