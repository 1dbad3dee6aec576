------------------------------- MODULE Deployment -------------------------------
(* What operators do to the database from outside the application (README,     *)
(* package.json: migration:run, migration:revert, seed) in any order and       *)
(* interleaved with it.  The application's transactions are commits here:      *)
(* Onboarding, Members and CompanyStatus look inside them.                     *)
EXTENDS Seed

CONSTANTS
    Registrations,  \* the e-mails that register
    Foundings,      \* the companies the application founds
    Supervised,     \* the changes of status, as <<registration number, status>>
    Releases        \* the last migrations of the releases that are deployed

FoundingType ==
    [reg : Regs, name : Names, email : Email, by : {"onboardCompany", "createCompanyWithAdmin"}]

ASSUME DeploymentAssumption ==
    /\ Registrations \subseteq Email
    /\ Foundings \subseteq FoundingType
    /\ Supervised \subseteq Regs \X Status
    /\ Releases \subseteq 1..Last
    /\ \A f \in Foundings : f.by = "onboardCompany" => f.email[2] = "lower"
    /\ Nil \notin Email /\ Nil \notin Status

VARIABLES
    settled,    \* history: a run has committed, and since then no table was dropped
                \* and the application did not found the company of the members
    expected,   \* history: the runs for which that has been so from their start on
    disturbed,  \* history: the runs that skipped the members for want of that company
                \* and had not committed when the application founded it
    lost        \* history: the companies whose past a revert has dropped

history == <<settled, expected, disturbed>>
vars == <<applied, schema, data, running, history, lost>>

Init ==
    /\ MigrationsInit /\ SeedInit
    /\ settled = FALSE /\ expected = {} /\ disturbed = {} /\ lost = {}

-------------------------------------------------------------------------------
(* The seed *)

BeginSeed(s) ==
    /\ Begin(s)
    /\ expected' = IF settled THEN expected \cup {s} ELSE expected \ {s}
    /\ UNCHANGED <<applied, schema, settled, disturbed, lost>>

SeedStep(s) ==
    /\ Step(s)
    /\ settled' = (settled \/ (pc[s] = "commit" /\ s \notin disturbed))
    /\ disturbed' = IF pc'[s] = "idle" THEN disturbed \ {s} ELSE disturbed
    /\ UNCHANGED <<applied, schema, expected, lost>>

DieSeed(s) ==
    /\ Die(s)
    /\ disturbed' = disturbed \ {s}
    /\ UNCHANGED <<applied, schema, settled, expected, lost>>

-------------------------------------------------------------------------------
(* Migrations.  Their locks wait for the runs of the seed that have used the   *)
(* tables they alter or refer to.                                              *)

UsesUsers(s) == pc[s] \notin {"idle", "admin"}
UsesCompanies(s) ==
    UsesUsers(s) /\ pc[s] # "insertAdmin" /\ ~(pc[s] = "company" /\ at[s] = 1)

NeedsUsers(k) ==
    \E x \in Creates(k) : x = <<"table", "users">> \/ (x[1] = "fk" /\ x[3] = "users")

NotLocked(first, last) ==
    \A s \in Seeders :
        /\ ~UsesCompanies(s)
        /\ \A k \in first..last : NeedsUsers(k) => ~UsesUsers(s)

MigrationRun(last) ==
    /\ NotLocked(applied + 1, last)
    /\ Run(last)
    /\ UNCHANGED <<data, running, history, lost>>

\* A dropped table loses its rows; the tenth migration's columns lose theirs.
Kept(table, content, empty) ==
    IF <<"table", table>> \in Creates(applied) THEN empty ELSE content

SuspendedAfterRevert == IF applied = 10 THEN {} ELSE Kept("companies", suspended, {})

MigrationRevert ==
    /\ NotLocked(applied, applied)
    /\ Revert
    /\ users' = Kept("users", users, {})
    /\ companies' = Kept("companies", companies, {})
    /\ names' = Kept("companies", names, {})
    /\ status' = Kept("companies", status, [reg \in Regs |-> Nil])
    /\ suspended' = SuspendedAfterRevert
    /\ members' = Kept("company_users", members, {})
    /\ trail' = Kept("audit_logs", trail, {})
    /\ lost' = Kept("companies",
                    lost \cup Kept("audit_logs", IF applied = 10 THEN suspended ELSE {}, companies),
                    {})
    /\ settled' = (settled /\ Creates(applied) = {})
    /\ expected' = IF Creates(applied) = {} THEN expected ELSE {}
    /\ UNCHANGED <<running, disturbed>>

-------------------------------------------------------------------------------
(* The application, once the schema is the one its entities describe.  A       *)
(* commit waits for the runs of the seed that hold a row of the same key: the  *)
(* e-mail of a user, the registration number or the name of a company, the two *)
(* ends of a membership.                                                       *)

Serving == CompaniesReady
Held(e) == \E s \in Seeders : e \in own[s].users
SameCompanyHeld(f) ==
    \E s \in Seeders : \E reg \in own[s].companies :
        reg = f.reg \/ DefinitionOf(reg).name = f.name

Register(e) ==
    /\ Serving
    /\ e[2] = "lower" /\ e \notin users /\ ~Held(e)
    /\ users' = users \cup {e}
    /\ UNCHANGED <<applied, schema, companies, names, status, suspended, members, trail,
                   running, history, lost>>

EmailFree(f) ==
    IF f.by = "onboardCompany" THEN \A u \in users : u[1] # f.email[1]
    ELSE f.email \notin users

Found(f) ==
    /\ Serving
    /\ EmailFree(f) /\ f.reg \notin companies /\ f.name \notin names
    /\ ~SameCompanyHeld(f) /\ ~Held(f.email)
    /\ users' = users \cup {f.email}
    /\ companies' = companies \cup {f.reg}
    /\ names' = names \cup {f.name}
    /\ status' = [status EXCEPT ![f.reg] = "ACTIVE"]
    /\ members' = members \cup {<<f.reg, f.email>>}
    /\ IF f.reg # ACTIVE THEN UNCHANGED history
       ELSE /\ settled' = FALSE /\ expected' = {}
            /\ disturbed' = {s \in Seeders : pc[s] = "commit"}
    /\ UNCHANGED <<applied, schema, suspended, trail, running, lost>>

Invite(reg, u) ==
    /\ Serving
    /\ reg \in companies /\ u \in users /\ <<reg, u>> \notin members
    /\ \A s \in Seeders : <<reg, u>> \notin own[s].members
    /\ members' = members \cup {<<reg, u>>}
    /\ UNCHANGED <<applied, schema, users, companies, names, status, suspended, trail,
                   running, history, lost>>

\* updateStatus writes the status, the suspension columns and the audit row.
ChangeStatus(reg, to) ==
    /\ Serving
    /\ reg \in companies /\ ValidTransition(status[reg], to)
    /\ status' = [status EXCEPT ![reg] = to]
    /\ suspended' = IF to = "SUSPENDED" THEN suspended \cup {reg} ELSE suspended \ {reg}
    /\ trail' = trail \cup {<<AuditActionFor(status[reg], to), reg>>}
    /\ lost' = lost \ {reg}
    /\ UNCHANGED <<applied, schema, users, companies, names, members, running,
                   history>>

-------------------------------------------------------------------------------
Next ==
    \/ \E s \in Seeders : BeginSeed(s) \/ SeedStep(s) \/ DieSeed(s)
    \/ \E last \in Releases : MigrationRun(last)
    \/ MigrationRevert
    \/ \E e \in Registrations : Register(e)
    \/ \E f \in Foundings : Found(f)
    \/ \E u \in Registrations : Invite(ACTIVE, u)
    \/ \E c \in Supervised : ChangeStatus(c[1], c[2])

Spec == Init /\ [][Next]_vars

\* A run goes on as PostgreSQL answers; nothing obliges an operator to start one.
Fairness == \A s \in Seeders : WF_vars(SeedStep(s))
FairSpec == Spec /\ Fairness

-------------------------------------------------------------------------------
(* Properties *)

Label ==
    {"idle", "admin", "insertAdmin", "company", "insertCompany", "insertOwner",
     "insertMembership", "findActive", "member", "insertMember", "findPlace",
     "insertPlace", "commit"}

StatusActions ==
    {"COMPANY_SUSPENDED", "COMPANY_ARCHIVED", "COMPANY_MARKED_PENDING_REVIEW",
     "COMPANY_REACTIVATED", "COMPANY_STATUS_UPDATED"}
Row == ({"COMPANY_ONBOARDED"} \cup StatusActions) \X Regs
Place == Regs \X Email
Rows == Row \cup ({"MEMBER_ADDED"} \X Place)

\* The type invariant.
TypeOK ==
    /\ applied \in 0..Last
    /\ users \subseteq Email /\ companies \subseteq Regs /\ names \subseteq Names
    /\ status \in [Regs -> Status \cup {Nil}]
    /\ suspended \subseteq Regs /\ lost \subseteq Regs
    /\ members \subseteq Place
    /\ \A t \in trail : t \in Rows
    /\ pc \in [Seeders -> Label]
    /\ at \in [Seeders -> 0..4]
    /\ found \in [Seeders -> Email \cup {Nil}]
    /\ own \in [Seeders -> [users : SUBSET Email, companies : SUBSET Regs,
                            members : SUBSET Place, trail : SUBSET Rows]]
    /\ settled \in BOOLEAN /\ expected \subseteq Seeders /\ disturbed \subseteq Seeders

\* Whatever has been run and reverted, the next migration:run and the next
\* migration:revert find the schema they need, and a database with all
\* migrations has the schema of a new installation.
MigrationsRepeatable ==
    /\ applied < Last => UpSucceeds(applied + 1, schema)
    /\ applied > 0 => DownSucceeds(applied, schema)
    /\ applied = Last => schema = Upgraded({}, 1, Last)

\* "Fixed registration numbers for idempotent re-runs": a run that starts after
\* another has committed comes to no INSERT, provided that no table was dropped
\* and the company of the extra members not founded by the application since the
\* other one looked for it, and that no two users share an address.
OneSpelling == \A u, v \in users : u[1] = v[1] => u = v

Inserting ==
    {"insertAdmin", "insertCompany", "insertOwner", "insertMembership", "insertMember",
     "insertPlace"}

RerunIdle ==
    \A s \in expected : OneSpelling => pc[s] \notin Inserting /\ own[s] = Nothing

\* The seed, the application and the migrations agree on what a status leaves
\* behind: a company that is pending, suspended or archived has the audit row
\* that says so, and the suspension columns are set on exactly the suspended
\* companies, unless a revert has dropped them.
StatusExplained ==
    /\ \A reg \in companies \ lost :
          /\ status[reg] # "ACTIVE" => <<AuditActionFor(Nil, status[reg]), reg>> \in trail
          /\ (status[reg] = "SUSPENDED") <=> (reg \in suspended)
    /\ suspended \subseteq companies

\* Once operators start no more runs, every run of the seed ends, those that
\* wait for another one's rows included.
NoMoreRuns == <>[][\A s \in Seeders : ~BeginSeed(s)]_vars

EverySeedEnds == NoMoreRuns => <>[](\A s \in Seeders : pc[s] = "idle")

===============================================================================
