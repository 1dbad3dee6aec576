CONSTANTS
    acme = acme
    beta = beta
    ann = ann
    bob = bob
    xan = xan
    r1 = r1
    r2 = r2
    r3 = r3
    r4 = r4
    Nil = Nil
    Companies <- MCCompanies
    Shareholders <- MCShareholders
    CompanyOf <- MCCompanyOf
    AuthorizedCapital <- MCAuthorizedCapital
    ParValue <- MCParValue
    Calls <- MCCalls
    Requests = {r1, r2, r3, r4}
    CertNumbers = {1, 2, 3}
SPECIFICATION MCSpec
INVARIANT WithinAuthorized
CHECK_DEADLOCK FALSE
