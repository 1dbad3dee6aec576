----------------------------- MODULE TenantRequests -----------------------------
(* What the requests about companies and their people share: the tables, the   *)
(* guards of the tenant routes and the audit rows.  Onboarding, Members,       *)
(* Shareholders and AuditListing each extend this module with their handlers;  *)
(* Tenancy composes them.                                                      *)
(*                                                                             *)
(* A user is named by the e-mail in its row, an address in a spelling: the one *)
(* trim().toLowerCase() gives, or another one a client typed.  A company is    *)
(* named by its unique name.  No request removes a user, a company or a        *)
(* membership, or changes one: what a query found stays there.                 *)
EXTENDS Naturals, FiniteSets

CONSTANTS
    Requests,
    Calls,      \* the calls the clients may make
    Addresses,  \* what e-mails are about, whatever their spelling
    Companies,  \* the names of companies
    Nil         \* what is absent

Email == Addresses \X {"lower", "typed"}
Normal(e) == <<e[1], "lower">>

Role == {"OWNER", "ADMIN", "LEGAL", "FINANCE", "VIEWER"}
MemberStatus == {"INVITED", "ACTIVE", "SUSPENDED"}
Member == [company : Companies, user : Email, role : Role, status : MemberStatus]

VARIABLES
    users,      \* the e-mails of the committed users
    companies,  \* the committed companies
    members,    \* the committed company_users
    trail,      \* the committed audit_logs
    pc,         \* the statement each request awaits
    call,       \* its path parameters and its body
    tenant,     \* the membership its guard found
    began       \* its place in the order in which audit transactions started

tables == <<users, companies, members, trail>>
control == <<pc, call, tenant, began>>
base == <<tables, control>>

Goto(r, label) == pc' = [pc EXCEPT ![r] = label]

Ended == {"done", "refused", "failed", "unlogged"}
Logging == {"logMember", "logCreate", "logUpdate"}
InFlight(r) == pc[r] \notin Ended \cup {"start"}

\* companyId and userId are a unique index.
MembersAt(c, u) == {m \in members : m.company = c /\ m.user = u}
Id(m) == <<m.company, m.user>>

-------------------------------------------------------------------------------
(* The guards *)

\* findActiveMembership.
ActiveMembership(a) ==
    {m \in MembersAt(a.company, a.actor) : m.status = "ACTIVE"}

\* CompanyRolesGuard compares the role of the membership with the route's.
RoleAllowed(m, roles) == m.role \in roles

(* CompanyMembershipGuard and CompanyRolesGuard of a tenant route: the handler *)
(* starts with the membership that was found.                                  *)
PassGuards(r, a, roles, label) ==
    /\ pc[r] = "start"
    /\ call' = [call EXCEPT ![r] = a]
    /\ LET found == {m \in ActiveMembership(a) : RoleAllowed(m, roles)} IN
       \/ /\ found = {}
          /\ Goto(r, "refused")
          /\ UNCHANGED tenant
       \/ \E m \in found :
          /\ Goto(r, label)
          /\ tenant' = [tenant EXCEPT ![r] = m]
    /\ UNCHANGED <<tables, began>>

\* CompanyActiveGuard of the routes that write.  CompanyStatus changes the
\* status at any time: the guard may find the company active or not.
CompanyNotActive(r, a) ==
    /\ pc[r] = "start"
    /\ call' = [call EXCEPT ![r] = a]
    /\ Goto(r, "refused")
    /\ UNCHANGED <<tables, tenant, began>>

-------------------------------------------------------------------------------
(* The audit log *)

\* createdAt is the start of the transaction that inserts the row: rows of one
\* transaction tie, and a row may sort before rows that were committed earlier.
Began(r) == began' = [began EXCEPT ![r] = Cardinality({s \in Requests : began[s] # 0}) + 1]

\* The columns of a row.  by names the transaction; changes lists what the
\* metadata says of the columns of the entity, as <<column, before, after>>.
AuditRow(r, action, company, actor, membership, entity, changes) ==
    [by |-> r, action |-> action, company |-> company, actor |-> actor,
     membership |-> membership, entity |-> entity, changes |-> changes]

\* log and logInTransaction.
TenantRow(r, action, t, entity, changes) ==
    AuditRow(r, action, t.company, t.user, Id(t), entity, changes)

\* logPlatformInTransaction: the actor acts for no company.
PlatformRow(r, action, company, actor, entity) ==
    AuditRow(r, action, company, actor, Nil, entity, {})

-------------------------------------------------------------------------------
BaseInit ==
    /\ users \in SUBSET {Normal(e) : e \in Email}
    /\ companies = {} /\ members = {} /\ trail = {}
    /\ pc = [r \in Requests |-> "start"]
    /\ call = [r \in Requests |-> Nil]
    /\ tenant = [r \in Requests |-> Nil]
    /\ began = [r \in Requests |-> 0]

\* Any statement may fail (a lost connection, a crash of the process).  Its
\* transaction leaves nothing; what an earlier one has saved stays, without its
\* audit row.
Abort(r) ==
    /\ InFlight(r)
    /\ Goto(r, IF pc[r] \in Logging THEN "unlogged" ELSE "failed")
    /\ UNCHANGED <<tables, call, tenant, began>>

===============================================================================
