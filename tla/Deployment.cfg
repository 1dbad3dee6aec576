CONSTANTS
    Nil = Nil
    Seeders = {s1, s2}
    OtherEmails = {"other"}
    OtherCompany = "OTHER"
    Registrations <- MCRegistrations
    Foundings <- MCFoundings
    Supervised <- MCSupervised
    Releases = {9, 10}
SPECIFICATION FairSpec
INVARIANTS TypeOK MigrationsRepeatable RerunIdle StatusExplained
PROPERTIES EverySeedEnds
CHECK_DEADLOCK FALSE
