CONSTANTS
    acme = acme
    beta = beta
    ann = ann
    xan = xan
    Nil = Nil
    Companies = {acme, beta}
    Shareholders = {ann, xan}
    CompanyOf <- MCCompanyOf
    AuthorizedCapital <- MCAuthorizedCapital
    ParValue <- MCParValue
    Amounts = {1, 3}
    Writers = {w1, w2}
    Readers = {g1, g2}
SPECIFICATION FairSpec
INVARIANT NextGetIsFresh
CHECK_DEADLOCK FALSE
