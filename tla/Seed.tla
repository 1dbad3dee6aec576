---------------------------------- MODULE Seed ----------------------------------
(* npm run seed (seed.service.ts, seed-definitions.ts): one transaction that   *)
(* ensures a super administrator, four companies with their owners and four    *)
(* more members of the active one, each only if it is not there.  It may be    *)
(* run again, by several operators at once, and while the application runs.    *)
(*                                                                             *)
(* A run sees what is committed and what it has inserted itself.  An insert    *)
(* waits while another run holds a row of the same key and fails, and the run  *)
(* with it, when such a row is committed.                                      *)
EXTENDS Migrations, Sequences, CompanyLifecycle

CONSTANTS
    Seeders,
    OtherEmails,   \* addresses that are not in the seed's definitions
    OtherCompany,  \* a registration number, and a name, that is not
    Nil

Spelled(p) == <<p, "lower">>

SEED_SUPER_ADMIN == Spelled("mahdinurazaman")

SeedCompany(name, reg, status, owner) ==
    [name |-> name, reg |-> reg, status |-> status, owner |-> Spelled(owner)]

SEED_COMPANIES ==
    <<SeedCompany("Aurora", "REG-ACTIVE", "ACTIVE", "owner.active"),
      SeedCompany("Beacon", "REG-PENDING", "PENDING_REVIEW", "owner.pending"),
      SeedCompany("Cedar Ridge", "REG-SUSPENDED", "SUSPENDED", "owner.suspended"),
      SeedCompany("Delta", "REG-ARCHIVED", "ARCHIVED", "owner.archived")>>

SEED_EXTRA_MEMBERS ==
    <<Spelled("tenant.admin"), Spelled("tenant.finance"), Spelled("tenant.legal"),
      Spelled("tenant.viewer")>>

Definition == {SEED_COMPANIES[i] : i \in DOMAIN SEED_COMPANIES}
Regs  == {d.reg : d \in Definition} \cup {OtherCompany}
Names == {d.name : d \in Definition} \cup {OtherCompany}
SeedEmails ==
    {SEED_SUPER_ADMIN} \cup {d.owner : d \in Definition}
        \cup {SEED_EXTRA_MEMBERS[j] : j \in DOMAIN SEED_EXTRA_MEMBERS}
Email == ({e[1] : e \in SeedEmails} \cup OtherEmails) \X {"lower", "typed"}

ACTIVE == SEED_COMPANIES[1].reg

VARIABLES
    users,      \* the e-mails of the committed users
    companies,  \* the registration numbers of the committed companies
    names,      \* their names
    status,     \* the status of each
    suspended,  \* those with the suspension columns set
    members,    \* the committed company_users, as <<registration number, e-mail>>
    trail,      \* the committed audit rows of the seed and of status changes
    pc,         \* the statement each run of the seed awaits
    at,         \* the index of its loop
    found,      \* the user of the extra member it is at
    own         \* what it has inserted

data == <<users, companies, names, status, suspended, members, trail>>
running == <<pc, at, found, own>>

Nothing == [users |-> {}, companies |-> {}, members |-> {}, trail |-> {}]

SeedInit ==
    /\ users = {} /\ companies = {} /\ names = {} /\ suspended = {}
    /\ members = {} /\ trail = {}
    /\ status = [reg \in Regs |-> Nil]
    /\ pc = [s \in Seeders |-> "idle"]
    /\ at = [s \in Seeders |-> 0]
    /\ found = [s \in Seeders |-> Nil]
    /\ own = [s \in Seeders |-> Nothing]

-------------------------------------------------------------------------------
VisibleUsers(s) == users \cup own[s].users
VisibleCompanies(s) == companies \cup own[s].companies
VisibleMembers(s) == members \cup own[s].members

\* LOWER(user.email) = :email.
SameAddress(s, e) == {u \in VisibleUsers(s) : u[1] = e[1]}

Goto(s, label, i) ==
    /\ pc' = [pc EXCEPT ![s] = label]
    /\ at' = [at EXCEPT ![s] = i]

\* The transaction is over.
End(s) ==
    /\ Goto(s, "idle", 0)
    /\ found' = [found EXCEPT ![s] = Nil]
    /\ own' = [own EXCEPT ![s] = Nothing]

Fail(s) == End(s) /\ UNCHANGED data

\* A query needs the columns of its entity.
UsersReady == <<"table", "users">> \in schema
CompaniesReady == SuspensionColumns \subseteq schema

\* Variant: the loop over the extra members goes one too far.
NextMemberAndOne(s, j) ==
    IF j <= Len(SEED_EXTRA_MEMBERS) THEN Goto(s, "member", j + 1) ELSE Goto(s, "commit", 0)

\* The statement the loop over the companies, or over the extra members, is at
\* after its i-th element.
NextCompany(s, i) ==
    IF i < Len(SEED_COMPANIES) THEN Goto(s, "company", i + 1) ELSE Goto(s, "findActive", 0)
NextMember(s, j) ==
    IF j < Len(SEED_EXTRA_MEMBERS) THEN Goto(s, "member", j + 1) ELSE Goto(s, "commit", 0)

\* Variant: an insert of a user that is there is tried again.
InsertUserAgain(s, e, label, i) ==
    /\ \A t \in Seeders \ {s} : e \notin own[t].users
    /\ e \notin users
    /\ own' = [own EXCEPT ![s].users = @ \cup {e}]
    /\ Goto(s, label, i)
    /\ UNCHANGED <<data, found>>

\* An INSERT of a user, and where the run goes after it.
InsertUser(s, e, label, i) ==
    /\ \A t \in Seeders \ {s} : e \notin own[t].users
    /\ IF e \in users THEN Fail(s)
       ELSE /\ own' = [own EXCEPT ![s].users = @ \cup {e}]
            /\ Goto(s, label, i)
            /\ UNCHANGED <<data, found>>

-------------------------------------------------------------------------------
(* ensureSuperAdmin *)

Begin(s) ==
    /\ pc[s] = "idle"
    /\ Goto(s, "admin", 0)
    /\ UNCHANGED <<data, found, own>>

FindSuperAdmin(s) ==
    /\ pc[s] = "admin"
    /\ IF ~UsersReady THEN Fail(s)
       ELSE /\ IF SEED_SUPER_ADMIN \in VisibleUsers(s) THEN Goto(s, "company", 1)
               ELSE Goto(s, "insertAdmin", 0)
            /\ UNCHANGED <<data, found, own>>

InsertSuperAdmin(s) ==
    /\ pc[s] = "insertAdmin"
    /\ InsertUser(s, SEED_SUPER_ADMIN, "company", 1)

-------------------------------------------------------------------------------
(* ensureSeededCompany *)

\* A company whose registration number or whose owner's e-mail is there, by
\* whomever, is skipped.
FindCompany(s) ==
    LET d == SEED_COMPANIES[at[s]] IN
    /\ pc[s] = "company"
    /\ IF ~CompaniesReady THEN Fail(s)
       ELSE /\ IF d.reg \in VisibleCompanies(s) \/ SameAddress(s, d.owner) # {}
               THEN NextCompany(s, at[s]) ELSE Goto(s, "insertCompany", at[s])
            /\ UNCHANGED <<data, found, own>>

\* Its name is unique as well.
InsertCompany(s) ==
    LET d == SEED_COMPANIES[at[s]] IN
    /\ pc[s] = "insertCompany"
    /\ \A t \in Seeders \ {s} : d.reg \notin own[t].companies
    /\ IF d.reg \in companies \/ d.name \in names THEN Fail(s)
       ELSE /\ own' = [own EXCEPT ![s].companies = @ \cup {d.reg}]
            /\ Goto(s, "insertOwner", at[s])
            /\ UNCHANGED <<data, found>>

InsertOwner(s) ==
    /\ pc[s] = "insertOwner"
    /\ InsertUser(s, SEED_COMPANIES[at[s]].owner, "insertMembership", at[s])

\* Variant: no row for a company that is archived from the start.
StatusRowUnlessArchived(d) ==
    IF d.status \in {"ACTIVE", "ARCHIVED"} THEN {}
    ELSE {<<AuditActionFor(Nil, d.status), d.reg>>}

\* seedStatusAuditIfNeeded.
StatusRow(d) ==
    IF d.status = "ACTIVE" THEN {} ELSE {<<AuditActionFor(Nil, d.status), d.reg>>}

InsertOwnership(s) ==
    LET d == SEED_COMPANIES[at[s]]
        place == <<d.reg, d.owner>>
    IN
    /\ pc[s] = "insertMembership"
    /\ own' = [own EXCEPT ![s].members = @ \cup {place},
                          ![s].trail = @ \cup {<<"COMPANY_ONBOARDED", d.reg>>,
                                               <<"MEMBER_ADDED", place>>} \cup StatusRow(d)]
    /\ NextCompany(s, at[s])
    /\ UNCHANGED <<data, found>>

-------------------------------------------------------------------------------
(* The extra members *)

FindActive(s) ==
    /\ pc[s] = "findActive"
    /\ IF ACTIVE \in VisibleCompanies(s) THEN Goto(s, "member", 1) ELSE Goto(s, "commit", 0)
    /\ UNCHANGED <<data, found, own>>

\* getOne takes any of the users that differ in the spelling of their e-mail.
FindMember(s) ==
    LET e == SEED_EXTRA_MEMBERS[at[s]] IN
    /\ pc[s] = "member"
    /\ \/ /\ SameAddress(s, e) = {}
          /\ Goto(s, "insertMember", at[s])
          /\ UNCHANGED found
       \/ \E u \in SameAddress(s, e) :
          /\ Goto(s, "findPlace", at[s])
          /\ found' = [found EXCEPT ![s] = u]
    /\ UNCHANGED <<data, own>>

InsertMember(s) ==
    LET e == SEED_EXTRA_MEMBERS[at[s]] IN
    /\ pc[s] = "insertMember"
    /\ \A t \in Seeders \ {s} : e \notin own[t].users
    /\ IF e \in users THEN Fail(s)
       ELSE /\ own' = [own EXCEPT ![s].users = @ \cup {e}]
            /\ found' = [found EXCEPT ![s] = e]
            /\ Goto(s, "findPlace", at[s])
            /\ UNCHANGED data

\* Variant: the membership is not looked for.
FindPlaceNever(s) ==
    /\ pc[s] = "findPlace"
    /\ Goto(s, "insertPlace", at[s])
    /\ UNCHANGED <<data, found, own>>

FindPlace(s) ==
    /\ pc[s] = "findPlace"
    /\ IF <<ACTIVE, found[s]>> \in VisibleMembers(s) THEN NextMember(s, at[s])
       ELSE Goto(s, "insertPlace", at[s])
    /\ UNCHANGED <<data, found, own>>

InsertPlace(s) ==
    LET place == <<ACTIVE, found[s]>> IN
    /\ pc[s] = "insertPlace"
    /\ \A t \in Seeders \ {s} : place \notin own[t].members
    /\ IF place \in members THEN Fail(s)
       ELSE /\ own' = [own EXCEPT ![s].members = @ \cup {place},
                                  ![s].trail = @ \cup {<<"MEMBER_ADDED", place>>}]
            /\ NextMember(s, at[s])
            /\ UNCHANGED <<data, found>>

-------------------------------------------------------------------------------
DefinitionOf(reg) == CHOOSE d \in Definition : d.reg = reg

\* The columns suspensionFieldsForSeed sets.
SuspensionSet(regs) == {reg \in regs : DefinitionOf(reg).status = "SUSPENDED"}

Commit(s) ==
    LET new == own[s].companies IN
    /\ pc[s] = "commit"
    /\ users' = VisibleUsers(s)
    /\ companies' = VisibleCompanies(s)
    /\ names' = names \cup {DefinitionOf(reg).name : reg \in new}
    /\ status' = [reg \in Regs |-> IF reg \in new THEN DefinitionOf(reg).status
                                   ELSE status[reg]]
    /\ suspended' = suspended \cup SuspensionSet(new)
    /\ members' = VisibleMembers(s)
    /\ trail' = trail \cup own[s].trail
    /\ End(s)

Step(s) ==
    \/ FindSuperAdmin(s) \/ InsertSuperAdmin(s)
    \/ FindCompany(s) \/ InsertCompany(s) \/ InsertOwner(s) \/ InsertOwnership(s)
    \/ FindActive(s)
    \/ FindMember(s) \/ InsertMember(s) \/ FindPlace(s) \/ InsertPlace(s)
    \/ Commit(s)

\* A run may die at any statement: nothing of it stays.
Die(s) == pc[s] # "idle" /\ Fail(s)

===============================================================================
