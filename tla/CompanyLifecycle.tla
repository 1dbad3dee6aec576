--------------------------- MODULE CompanyLifecycle ---------------------------
(* The status rules of a company: which changes a platform administrator may  *)
(* ask for, and which audit action records a change.  Pure functions, used by *)
(* CompanyStatus (the handler that changes the status) and by SharesService   *)
(* (whose guard reads it).                                                    *)
-------------------------------------------------------------------------------

Status == {"PENDING_REVIEW", "ACTIVE", "SUSPENDED", "ARCHIVED"}

ALLOWED_TRANSITIONS ==
    [PENDING_REVIEW |-> {"ACTIVE", "SUSPENDED", "ARCHIVED"},
     ACTIVE         |-> {"SUSPENDED", "ARCHIVED"},
     SUSPENDED      |-> {"ACTIVE", "ARCHIVED"},
     ARCHIVED       |-> {}]

\* The three throws of the assertion, in its order: a no-op, a change of an
\* archived company, a pair that is not in the table.
ValidTransition(from, to) ==
    /\ from # to
    /\ from # "ARCHIVED"
    /\ to \in ALLOWED_TRANSITIONS[from]

AuditActionFor(from, to) ==
    CASE to = "SUSPENDED"                    -> "COMPANY_SUSPENDED"
      [] to = "ARCHIVED"                     -> "COMPANY_ARCHIVED"
      [] to = "PENDING_REVIEW"               -> "COMPANY_MARKED_PENDING_REVIEW"
      [] from = "SUSPENDED" /\ to = "ACTIVE" -> "COMPANY_REACTIVATED"
      [] OTHER                               -> "COMPANY_STATUS_UPDATED"

===============================================================================
