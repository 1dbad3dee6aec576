CONSTANTS
    acme = acme
    beta = beta
    root = root
    ann = ann
    bob = bob
    f1 = f1
    f2 = f2
    f3 = f3
    d1 = d1
    d2 = d2
    d3 = d3
    Nil = Nil
    Requests = {f1, f2, f3, d1, d2, d3}
    Addresses = {root, ann, bob}
    Companies = {acme, beta}
    Texts = {"old", "new", "street"}
    Limit = 2
    Calls <- MCCalls
SYMMETRY MCFree
SPECIFICATION MCSpec
INVARIANTS TypeOK WaitsEnd MembersAccounted ActorsBelong ShareholderTrailReplays PagesMissOnlyTies
PROPERTIES ImplementsTenantDirectory
CHECK_DEADLOCK FALSE
