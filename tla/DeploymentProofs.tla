----------------------------- MODULE DeploymentProofs -----------------------------
(* Theorems of Deployment, for any runs of the seed, foundings, registrations, *)
(* changes of status and releases.                                             *)
(*                                                                             *)
(* Local says what a run of the seed knows at each statement and which         *)
(* companies it holds.  StatusExplained is inductive on top of it.  Covered    *)
(* says what the statements behind a run have left for it to see; a run that   *)
(* starts after another has committed therefore finds everything.  Shaped says *)
(* what the schema is after n migrations, which n alone does not decide.       *)
EXTENDS Deployment, TLAPS

Companying == {"company", "insertCompany", "insertOwner", "insertMembership"}
Joining    == {"member", "insertMember", "findPlace", "insertPlace"}
OwnType ==
    [users : SUBSET Email, companies : SUBSET Regs, members : SUBSET Place,
     trail : SUBSET Rows]

\* The company a run has inserted whose audit rows it has not.
Open(l, i) ==
    IF l \in {"insertOwner", "insertMembership"} THEN {SEED_COMPANIES[i].reg} ELSE {}

\* A run at statement l and index i, with the member u and its own rows o.
StageOf(l, i, u, o) ==
    /\ l \in Companying \cup Joining => i \in 1..4
    /\ l \in {"findPlace", "insertPlace"} => u \in Email
    /\ l \in {"idle", "admin", "insertAdmin"} => o = Nothing
    /\ o.companies \subseteq {d.reg : d \in Definition}
    /\ o.companies \cap companies = {}
    /\ \A reg \in o.companies \ Open(l, i) : StatusRow(DefinitionOf(reg)) \subseteq o.trail

Stage(s) == StageOf(pc[s], at[s], found[s], own[s])

Apart == \A s, t \in Seeders : s # t => own[s].companies \cap own[t].companies = {}

Local == TypeOK /\ Apart /\ \A s \in Seeders : Stage(s)

\* A run's step that leaves the committed rows alone, and where it comes to.
Lands(s, l, i, u, o) ==
    /\ pc' = [pc EXCEPT ![s] = l] /\ at' = [at EXCEPT ![s] = i]
    /\ found' = [found EXCEPT ![s] = u] /\ own' = [own EXCEPT ![s] = o]
    /\ UNCHANGED data

LandsAt(s, l, i) == Lands(s, l, i, found[s], own[s])

\* Past the i-th element of the loops.
LandsPastCompany(s, i, o) ==
    \/ i < 4 /\ Lands(s, "company", i + 1, found[s], o)
    \/ i = 4 /\ Lands(s, "findActive", 0, found[s], o)
LandsPastMember(s, j, o) ==
    \/ j < 4 /\ Lands(s, "member", j + 1, found[s], o)
    \/ j = 4 /\ Lands(s, "commit", 0, found[s], o)

WithUser(o, e) == [o EXCEPT !.users = @ \cup {e}]
WithCompany(o, reg) == [o EXCEPT !.companies = @ \cup {reg}]
WithPlace(o, place, rows) == [o EXCEPT !.members = @ \cup {place}, !.trail = @ \cup rows]
OwnershipRows(d) ==
    {<<"COMPANY_ONBOARDED", d.reg>>, <<"MEMBER_ADDED", <<d.reg, d.owner>>>>} \cup StatusRow(d)

\* What the statement of a run may come to, a failure and the commit aside.
AdminOutcome(s) ==
    \/ pc[s] = "admin" /\ SEED_SUPER_ADMIN \in VisibleUsers(s) /\ LandsAt(s, "company", 1)
    \/ pc[s] = "admin" /\ SEED_SUPER_ADMIN \notin VisibleUsers(s) /\ LandsAt(s, "insertAdmin", 0)
    \/ /\ pc[s] = "insertAdmin"
       /\ Lands(s, "company", 1, found[s], WithUser(own[s], SEED_SUPER_ADMIN))

CompanyOutcome(s) ==
    LET d == SEED_COMPANIES[at[s]] IN
    \/ /\ pc[s] = "company"
       /\ d.reg \in VisibleCompanies(s) \/ SameAddress(s, d.owner) # {}
       /\ LandsPastCompany(s, at[s], own[s])
    \/ /\ pc[s] = "company"
       /\ d.reg \notin VisibleCompanies(s) /\ SameAddress(s, d.owner) = {}
       /\ LandsAt(s, "insertCompany", at[s])
    \/ /\ pc[s] = "insertCompany"
       /\ d.reg \notin companies /\ \A t \in Seeders \ {s} : d.reg \notin own[t].companies
       /\ Lands(s, "insertOwner", at[s], found[s], WithCompany(own[s], d.reg))
    \/ /\ pc[s] = "insertOwner"
       /\ Lands(s, "insertMembership", at[s], found[s], WithUser(own[s], d.owner))
    \/ /\ pc[s] = "insertMembership"
       /\ LandsPastCompany(s, at[s], WithPlace(own[s], <<d.reg, d.owner>>, OwnershipRows(d)))

MemberOutcome(s) ==
    LET e == SEED_EXTRA_MEMBERS[at[s]]
        place == <<ACTIVE, found[s]>>
    IN
    \/ pc[s] = "findActive" /\ ACTIVE \in VisibleCompanies(s) /\ LandsAt(s, "member", 1)
    \/ pc[s] = "findActive" /\ ACTIVE \notin VisibleCompanies(s) /\ LandsAt(s, "commit", 0)
    \/ /\ pc[s] = "member" /\ SameAddress(s, e) = {}
       /\ LandsAt(s, "insertMember", at[s])
    \/ /\ pc[s] = "member"
       /\ \E u \in SameAddress(s, e) : Lands(s, "findPlace", at[s], u, own[s])
    \/ /\ pc[s] = "insertMember"
       /\ Lands(s, "findPlace", at[s], e, WithUser(own[s], e))
    \/ /\ pc[s] = "findPlace" /\ place \in VisibleMembers(s)
       /\ LandsPastMember(s, at[s], own[s])
    \/ /\ pc[s] = "findPlace" /\ place \notin VisibleMembers(s)
       /\ LandsAt(s, "insertPlace", at[s])
    \/ /\ pc[s] = "insertPlace"
       /\ LandsPastMember(s, at[s], WithPlace(own[s], place, {<<"MEMBER_ADDED", place>>}))

Fails(s) == Lands(s, "idle", 0, Nil, Nothing)

-------------------------------------------------------------------------------
\* The definitions of the seed.
LEMMA Definitions ==
    /\ Len(SEED_COMPANIES) = 4 /\ Len(SEED_EXTRA_MEMBERS) = 4
    /\ \A i \in 1..4 : SEED_COMPANIES[i] \in Definition
    /\ \A d \in Definition : \E i \in 1..4 : d = SEED_COMPANIES[i]
    /\ \A d \in Definition : /\ d.reg \in Regs /\ d.name \in Names
                             /\ d.owner \in Email /\ d.status \in Status
    /\ \A j \in 1..4 : SEED_EXTRA_MEMBERS[j] \in Email
    /\ SEED_SUPER_ADMIN \in Email
    /\ \A d, e \in Definition : d.reg = e.reg => d = e
    /\ \A d \in Definition : DefinitionOf(d.reg) = d
    /\ ACTIVE \in Regs
<1>1. Len(SEED_COMPANIES) = 4 /\ DOMAIN SEED_COMPANIES = 1..4
  BY DEF SEED_COMPANIES
<1>2. Len(SEED_EXTRA_MEMBERS) = 4 /\ DOMAIN SEED_EXTRA_MEMBERS = 1..4
  BY DEF SEED_EXTRA_MEMBERS
<1>3. /\ \A i \in 1..4 : SEED_COMPANIES[i] \in Definition
      /\ \A d \in Definition : \E i \in 1..4 : d = SEED_COMPANIES[i]
  BY <1>1 DEF Definition
<1>4. \A d \in Definition : d.reg \in Regs /\ d.name \in Names
  BY DEF Regs, Names
<1>5. \A d \in Definition : d.owner \in SeedEmails
  BY DEF SeedEmails
<1>0. /\ SEED_COMPANIES[1].reg = "REG-ACTIVE" /\ SEED_COMPANIES[2].reg = "REG-PENDING"
      /\ SEED_COMPANIES[3].reg = "REG-SUSPENDED" /\ SEED_COMPANIES[4].reg = "REG-ARCHIVED"
      /\ SEED_COMPANIES[1].status = "ACTIVE" /\ SEED_COMPANIES[2].status = "PENDING_REVIEW"
      /\ SEED_COMPANIES[3].status = "SUSPENDED" /\ SEED_COMPANIES[4].status = "ARCHIVED"
      /\ SEED_COMPANIES[1].owner = <<"owner.active", "lower">>
      /\ SEED_COMPANIES[2].owner = <<"owner.pending", "lower">>
      /\ SEED_COMPANIES[3].owner = <<"owner.suspended", "lower">>
      /\ SEED_COMPANIES[4].owner = <<"owner.archived", "lower">>
  BY DEF SEED_COMPANIES, SeedCompany, Spelled
<1>00. \A i \in 1..4 : i = 1 \/ i = 2 \/ i = 3 \/ i = 4
  OBVIOUS
<1>6. \A i \in 1..4 : SEED_COMPANIES[i].status \in Status
  BY <1>0, <1>00 DEF Status
<1>7. \A j \in 1..4 : SEED_EXTRA_MEMBERS[j] \in SeedEmails
  BY <1>2 DEF SeedEmails
<1>8. SEED_SUPER_ADMIN \in SeedEmails
  BY DEF SeedEmails
<1>9. \A e \in SeedEmails : e \in Email
  <2>1. \A i \in 1..4 : \E p : SEED_COMPANIES[i].owner = <<p, "lower">>
    BY <1>0, <1>00
  <2>2. \A j \in 1..4 : \E p : SEED_EXTRA_MEMBERS[j] = <<p, "lower">>
    BY DEF SEED_EXTRA_MEMBERS, Spelled
  <2>3. \E p : SEED_SUPER_ADMIN = <<p, "lower">>
    BY DEF SEED_SUPER_ADMIN, Spelled
  <2>4. \A e \in SeedEmails : \E p : e = <<p, "lower">>
    BY <1>2, <1>3, <2>1, <2>2, <2>3 DEF SeedEmails
  <2> QED
    BY <2>4 DEF Email
<1>10. \A i, j \in 1..4 : SEED_COMPANIES[i].reg = SEED_COMPANIES[j].reg => i = j
  BY <1>0, <1>00
<1>11. \A d, e \in Definition : d.reg = e.reg => d = e
  BY <1>3, <1>10
<1>12. \A d \in Definition : DefinitionOf(d.reg) = d
  BY <1>11 DEF DefinitionOf
<1>13. \A d \in Definition : d.status \in Status
  BY <1>3, <1>6
<1>14. \A d \in Definition : d.owner \in Email
  BY <1>5, <1>9
<1>15. ACTIVE \in Regs
  BY <1>3, <1>4 DEF ACTIVE
<1> QED
  BY <1>1, <1>2, <1>3, <1>4, <1>7, <1>8, <1>9, <1>11, <1>12, <1>13, <1>14, <1>15

\* The audit rows of a company of the seed.
LEMMA StatusRows ==
    ASSUME NEW d \in Definition
    PROVE  /\ StatusRow(d) \subseteq Row
           /\ \A from, to \in Status \cup {Nil} :
                 /\ AuditActionFor(from, to) \in StatusActions
                 /\ to \in Status \ {"ACTIVE"} => AuditActionFor(from, to) = AuditActionFor(Nil, to)
<1>1. \A from, to : AuditActionFor(from, to) \in StatusActions
  BY DEF AuditActionFor, StatusActions
<1>2. \A from, to : to \in Status \ {"ACTIVE"} => AuditActionFor(from, to) = AuditActionFor(Nil, to)
  BY DEF AuditActionFor, Status
<1>3. StatusRow(d) \subseteq Row
  BY <1>1, Definitions DEF StatusRow, Row
<1> QED
  BY <1>1, <1>2, <1>3

\* A company's rows are rows.
LEMMA RowsOf ==
    ASSUME NEW reg \in Regs, NEW e \in Email, NEW d \in Definition
    PROVE  /\ <<reg, e>> \in Place
           /\ <<"COMPANY_ONBOARDED", reg>> \in Rows
           /\ <<"MEMBER_ADDED", <<reg, e>>>> \in Rows
           /\ StatusRow(d) \subseteq Rows
<1>1. <<reg, e>> \in Place /\ <<"COMPANY_ONBOARDED", reg>> \in Row
  BY DEF Place, Row
<1> QED
  BY <1>1, StatusRows DEF Rows

-------------------------------------------------------------------------------
\* Every statement comes to one of its outcomes.
LEMMA Outcomes ==
    ASSUME Local, NEW s \in Seeders, Step(s), pc[s] # "commit"
    PROVE  Fails(s) \/ AdminOutcome(s) \/ CompanyOutcome(s) \/ MemberOutcome(s)
<1>1. /\ pc \in [Seeders -> Label] /\ at \in [Seeders -> 0..4]
      /\ found \in [Seeders -> Email \cup {Nil}] /\ own \in [Seeders -> OwnType]
      /\ pc[s] \in Companying \cup Joining => at[s] \in 1..4
  BY DEF Local, TypeOK, OwnType, Stage, StageOf
<1>2. found' = found => found' = [found EXCEPT ![s] = found[s]]
  BY <1>1
<1>3. own' = own => own' = [own EXCEPT ![s] = own[s]]
  BY <1>1
<1>4. ASSUME Fail(s) PROVE Fails(s)
  BY <1>4 DEF Fail, End, Goto, Fails, Lands
<1>5. ASSUME NEW l, NEW i, Goto(s, l, i), UNCHANGED <<data, found, own>> PROVE LandsAt(s, l, i)
  BY <1>2, <1>3, <1>5 DEF Goto, LandsAt, Lands
<1>6. ASSUME NEW i \in 1..4, NextCompany(s, i), UNCHANGED <<data, found>>,
             NEW o, own' = [own EXCEPT ![s] = o]
      PROVE  LandsPastCompany(s, i, o)
  BY <1>2, <1>6, Definitions DEF NextCompany, Goto, LandsPastCompany, Lands
<1>7. ASSUME NEW i \in 1..4, NextMember(s, i), UNCHANGED <<data, found>>,
             NEW o, own' = [own EXCEPT ![s] = o]
      PROVE  LandsPastMember(s, i, o)
  BY <1>2, <1>7, Definitions DEF NextMember, Goto, LandsPastMember, Lands
<1>8. ASSUME NEW e, NEW l, NEW i, InsertUser(s, e, l, i)
      PROVE  Fails(s) \/ Lands(s, l, i, found[s], WithUser(own[s], e))
  BY <1>1, <1>2, <1>4, <1>8 DEF InsertUser, Goto, Lands, WithUser
<1>9. CASE FindSuperAdmin(s)
  BY <1>4, <1>5, <1>9 DEF FindSuperAdmin, AdminOutcome
<1>10. CASE InsertSuperAdmin(s)
  BY <1>8, <1>10 DEF InsertSuperAdmin, AdminOutcome
<1>11. CASE FindCompany(s)
  <2>1. pc[s] = "company" /\ at[s] \in 1..4
    BY <1>1, <1>11 DEF FindCompany, Companying
  <2>2. CASE ~CompaniesReady
    BY <1>4, <1>11, <2>2 DEF FindCompany
  <2>3. CASE CompaniesReady
    BY <1>3, <1>5, <1>6, <1>11, <2>1, <2>3 DEF FindCompany, CompanyOutcome
  <2> QED
    BY <2>2, <2>3
<1>12. CASE InsertCompany(s)
  BY <1>1, <1>2, <1>4, <1>12 DEF InsertCompany, CompanyOutcome, Goto, Lands, WithCompany
<1>13. CASE InsertOwner(s)
  BY <1>8, <1>13 DEF InsertOwner, CompanyOutcome
<1>14. CASE InsertOwnership(s)
  <2>1. pc[s] = "insertMembership" /\ at[s] \in 1..4
    BY <1>1, <1>14 DEF InsertOwnership, Companying
  <2> QED
    BY <1>1, <1>6, <1>14, <2>1 DEF InsertOwnership, CompanyOutcome, WithPlace, OwnershipRows
<1>15. CASE FindActive(s)
  BY <1>5, <1>15 DEF FindActive, MemberOutcome
<1>16. CASE FindMember(s)
  BY <1>3, <1>5, <1>16 DEF FindMember, MemberOutcome, Goto, Lands
<1>17. CASE InsertMember(s)
  BY <1>1, <1>4, <1>17 DEF InsertMember, MemberOutcome, Goto, Lands, WithUser
<1>18. CASE FindPlace(s)
  <2>1. pc[s] = "findPlace" /\ at[s] \in 1..4
    BY <1>1, <1>18 DEF FindPlace, Joining
  <2> QED
    BY <1>3, <1>5, <1>7, <1>18, <2>1 DEF FindPlace, MemberOutcome
<1>19. CASE InsertPlace(s)
  <2>1. pc[s] = "insertPlace" /\ at[s] \in 1..4
    BY <1>1, <1>19 DEF InsertPlace, Joining
  <2> QED
    BY <1>1, <1>4, <1>7, <1>19, <2>1 DEF InsertPlace, MemberOutcome, WithPlace
<1> QED
  BY <1>9, <1>10, <1>11, <1>12, <1>13, <1>14, <1>15, <1>16, <1>17, <1>18, <1>19 DEF Step, Commit

-------------------------------------------------------------------------------
(* Local *)

\* Of the committed rows, Stage reads the companies.
LEMMA StageOfOthers ==
    ASSUME Local, NEW t \in Seeders, own[t].companies \cap companies' = {},
           pc'[t] = pc[t], at'[t] = at[t], found'[t] = found[t], own'[t] = own[t]
    PROVE  Stage(t)'
BY DEF Local, Stage, StageOf

\* A run that comes to a consistent place.
LEMMA LandingKeepsLocal ==
    ASSUME Local, NEW s \in Seeders,
           NEW l \in Label, NEW i \in 0..4, NEW u \in Email \cup {Nil}, NEW o \in OwnType,
           Lands(s, l, i, u, o), StageOf(l, i, u, o),
           \A t \in Seeders \ {s} : o.companies \cap own[t].companies = {},
           applied' = applied, lost' = lost, settled' \in BOOLEAN,
           expected' \subseteq Seeders, disturbed' \subseteq Seeders
    PROVE  Local'
<1>1. TypeOK'
  BY DEF Local, TypeOK, Lands, data, OwnType
<1>2. /\ pc'[s] = l /\ at'[s] = i /\ found'[s] = u /\ own'[s] = o
      /\ \A t \in Seeders \ {s} : /\ pc'[t] = pc[t] /\ at'[t] = at[t]
                                  /\ found'[t] = found[t] /\ own'[t] = own[t]
  BY DEF Local, TypeOK, Lands
<1>3. companies' = companies
  BY DEF Lands, data
<1>4. Stage(s)'
  BY <1>2, <1>3 DEF Stage, StageOf
<1>5. ASSUME NEW t \in Seeders \ {s} PROVE Stage(t)'
  <2>1. own[t].companies \cap companies' = {}
    BY <1>3 DEF Local, Stage, StageOf
  <2> QED
    BY <1>2, <2>1, StageOfOthers
<1>6. Apart'
  BY <1>2 DEF Local, Apart
<1> QED
  BY <1>1, <1>4, <1>5, <1>6 DEF Local

\* The rows of a run as it inserts one.
LEMMA OwnTypes ==
    ASSUME NEW o \in OwnType
    PROVE  /\ \A e \in Email : /\ WithUser(o, e) \in OwnType
                              /\ WithUser(o, e).companies = o.companies
                              /\ WithUser(o, e).trail = o.trail
           /\ \A reg \in Regs : /\ WithCompany(o, reg) \in OwnType
                               /\ WithCompany(o, reg).companies = o.companies \cup {reg}
                               /\ WithCompany(o, reg).trail = o.trail
           /\ \A place \in Place, rows \in SUBSET Rows :
                 /\ WithPlace(o, place, rows) \in OwnType
                 /\ WithPlace(o, place, rows).companies = o.companies
                 /\ WithPlace(o, place, rows).trail = o.trail \cup rows
BY DEF OwnType, WithUser, WithCompany, WithPlace

LEMMA NothingType == Nothing \in OwnType /\ Nothing.companies = {}
BY DEF Nothing, OwnType

LEMMA OutcomesKeepLocal ==
    ASSUME Local, NEW s \in Seeders,
           Fails(s) \/ AdminOutcome(s) \/ CompanyOutcome(s) \/ MemberOutcome(s),
           applied' = applied, lost' = lost, settled' \in BOOLEAN,
           expected' \subseteq Seeders, disturbed' \subseteq Seeders
    PROVE  Local'
<1>1. /\ pc[s] \in Label /\ at[s] \in 0..4 /\ found[s] \in Email \cup {Nil} /\ own[s] \in OwnType
      /\ StageOf(pc[s], at[s], found[s], own[s])
  BY DEF Local, TypeOK, OwnType, Stage
<1>2. \A t \in Seeders \ {s} : own[s].companies \cap own[t].companies = {}
  BY DEF Local, Apart
<1>3. ASSUME NEW l \in Label \ {"idle", "admin", "insertAdmin"}, NEW i \in 0..4,
             NEW u \in Email \cup {Nil}, NEW o \in OwnType,
             l \in Companying \cup Joining => i \in 1..4,
             l \in {"findPlace", "insertPlace"} => u \in Email,
             o.companies = own[s].companies, own[s].trail \subseteq o.trail,
             \A reg \in own[s].companies : reg \in Open(pc[s], at[s]) \ Open(l, i) =>
                StatusRow(DefinitionOf(reg)) \subseteq o.trail,
             Lands(s, l, i, u, o)
      PROVE  Local'
  <2>1. StageOf(l, i, u, o)
    BY <1>1, <1>3 DEF StageOf
  <2> QED
    BY <1>2, <1>3, <2>1, LandingKeepsLocal
<1>4. CASE Fails(s)
  <2>1. StageOf("idle", 0, Nil, Nothing)
    BY NothingType DEF StageOf, Companying, Joining
  <2> QED
    BY <1>4, <2>1, LandingKeepsLocal, NothingType DEF Fails, Label
<1>5. CASE AdminOutcome(s)
  <2>1. CASE pc[s] = "admin" /\ LandsAt(s, "company", 1)
    BY <1>1, <1>3, <2>1 DEF LandsAt, Label, Open, Joining
  <2>2. CASE pc[s] = "admin" /\ LandsAt(s, "insertAdmin", 0)
    <3>1. StageOf("insertAdmin", 0, found[s], own[s])
      BY <1>1, <2>2 DEF StageOf, Open, Companying, Joining
    <3>2. Lands(s, "insertAdmin", 0, found[s], own[s])
      BY <2>2 DEF LandsAt
    <3>3. "insertAdmin" \in Label
      BY DEF Label
    <3> QED
      BY <1>1, <1>2, <3>1, <3>2, <3>3, LandingKeepsLocal
  <2>3. CASE /\ pc[s] = "insertAdmin"
             /\ Lands(s, "company", 1, found[s], WithUser(own[s], SEED_SUPER_ADMIN))
    <3> DEFINE o == WithUser(own[s], SEED_SUPER_ADMIN)
    <3>1. o \in OwnType /\ o.companies = own[s].companies /\ o.trail = own[s].trail
      BY <1>1, OwnTypes, Definitions
    <3> QED
      BY <1>1, <1>3, <2>3, <3>1 DEF Label, Open, Joining
  <2> QED
    BY <1>5, <2>1, <2>2, <2>3 DEF AdminOutcome
<1>6. CASE CompanyOutcome(s)
  <2> DEFINE d == SEED_COMPANIES[at[s]]
  <2>1. at[s] \in 1..4 /\ d \in Definition /\ d.reg \in Regs /\ d.owner \in Email
    BY <1>1, <1>6, Definitions DEF CompanyOutcome, StageOf, Companying
  <2>2. ASSUME NEW o \in OwnType, LandsPastCompany(s, at[s], o),
               o.companies = own[s].companies, own[s].trail \subseteq o.trail,
               \A reg \in own[s].companies : reg \in Open(pc[s], at[s]) =>
                  StatusRow(DefinitionOf(reg)) \subseteq o.trail
        PROVE  Local'
    <3>1. CASE at[s] < 4 /\ Lands(s, "company", at[s] + 1, found[s], o)
      BY <1>1, <1>3, <2>1, <2>2, <3>1 DEF Label, Joining
    <3>2. CASE Lands(s, "findActive", 0, found[s], o)
      BY <1>1, <1>3, <2>2, <3>2 DEF Label, Companying, Joining
    <3> QED
      BY <2>2, <3>1, <3>2 DEF LandsPastCompany
  <2>3. CASE pc[s] = "company" /\ LandsPastCompany(s, at[s], own[s])
    BY <1>1, <2>2, <2>3 DEF Open
  <2>4. CASE pc[s] = "company" /\ LandsAt(s, "insertCompany", at[s])
    BY <1>1, <1>3, <2>1, <2>4 DEF LandsAt, Label, Open, Joining
  <2>5. CASE /\ pc[s] = "insertCompany"
             /\ d.reg \notin companies /\ \A t \in Seeders \ {s} : d.reg \notin own[t].companies
             /\ Lands(s, "insertOwner", at[s], found[s], WithCompany(own[s], d.reg))
    <3> DEFINE o == WithCompany(own[s], d.reg)
    <3>1. o \in OwnType /\ o.companies = own[s].companies \cup {d.reg} /\ o.trail = own[s].trail
      BY <1>1, <2>1, OwnTypes
    <3>2. StageOf("insertOwner", at[s], found[s], o)
      BY <1>1, <2>1, <2>5, <3>1 DEF StageOf, Open, Joining
    <3>3. \A t \in Seeders \ {s} : o.companies \cap own[t].companies = {}
      BY <1>2, <2>5, <3>1
    <3>4. "insertOwner" \in Label
      BY DEF Label
    <3>5. Lands(s, "insertOwner", at[s], found[s], o)
      BY <2>5
    <3> HIDE DEF d, o
    <3> QED
      BY <1>1, <3>1, <3>2, <3>3, <3>4, <3>5, LandingKeepsLocal
  <2>6. CASE /\ pc[s] = "insertOwner"
             /\ Lands(s, "insertMembership", at[s], found[s], WithUser(own[s], d.owner))
    <3> DEFINE o == WithUser(own[s], d.owner)
    <3>1. o \in OwnType /\ o.companies = own[s].companies /\ o.trail = own[s].trail
      BY <1>1, <2>1, OwnTypes
    <3> QED
      BY <1>1, <1>3, <2>1, <2>6, <3>1 DEF Label, Open, Joining
  <2>7. CASE /\ pc[s] = "insertMembership"
             /\ LandsPastCompany(s, at[s], WithPlace(own[s], <<d.reg, d.owner>>, OwnershipRows(d)))
    <3> DEFINE o == WithPlace(own[s], <<d.reg, d.owner>>, OwnershipRows(d))
    <3>1. <<d.reg, d.owner>> \in Place /\ OwnershipRows(d) \subseteq Rows
      BY <2>1, RowsOf DEF OwnershipRows
    <3>2. /\ o \in OwnType /\ o.companies = own[s].companies
          /\ o.trail = own[s].trail \cup OwnershipRows(d)
      BY <1>1, <3>1, OwnTypes
    <3>3. \A reg \in Open(pc[s], at[s]) : StatusRow(DefinitionOf(reg)) \subseteq o.trail
      BY <2>1, <3>2, Definitions DEF Open, OwnershipRows
    <3> QED
      BY <2>2, <2>7, <3>2, <3>3
  <2> QED
    BY <1>6, <2>3, <2>4, <2>5, <2>6, <2>7 DEF CompanyOutcome
<1>7. CASE MemberOutcome(s)
  <2> DEFINE e == SEED_EXTRA_MEMBERS[at[s]]
             place == <<ACTIVE, found[s]>>
  <2>1. /\ pc[s] \in Joining => at[s] \in 1..4 /\ e \in Email
        /\ pc[s] \in {"findPlace", "insertPlace"} => found[s] \in Email
        /\ Open(pc[s], at[s]) = {}
    BY <1>1, <1>7, Definitions DEF MemberOutcome, StageOf, Open
  <2>2. ASSUME NEW o \in OwnType, LandsPastMember(s, at[s], o), pc[s] \in Joining,
               o.companies = own[s].companies, own[s].trail \subseteq o.trail
        PROVE  Local'
    <3>1. CASE at[s] < 4 /\ Lands(s, "member", at[s] + 1, found[s], o)
      BY <1>1, <1>3, <2>1, <2>2, <3>1 DEF Label
    <3>2. CASE Lands(s, "commit", 0, found[s], o)
      BY <1>1, <1>3, <2>1, <2>2, <3>2 DEF Label, Companying, Joining
    <3> QED
      BY <2>2, <3>1, <3>2 DEF LandsPastMember
  <2>3. CASE pc[s] = "findActive" /\ LandsAt(s, "member", 1)
    BY <1>1, <1>3, <2>1, <2>3 DEF LandsAt, Label
  <2>4. CASE pc[s] = "findActive" /\ LandsAt(s, "commit", 0)
    BY <1>1, <1>3, <2>1, <2>4 DEF LandsAt, Label, Companying, Joining
  <2>5. CASE pc[s] = "member" /\ LandsAt(s, "insertMember", at[s])
    BY <1>1, <1>3, <2>1, <2>5 DEF LandsAt, Label, Joining
  <2>6. CASE /\ pc[s] = "member"
             /\ \E u \in SameAddress(s, e) : Lands(s, "findPlace", at[s], u, own[s])
    <3>1. PICK u \in SameAddress(s, e) : Lands(s, "findPlace", at[s], u, own[s])
      BY <2>6
    <3>2. u \in Email
      BY DEF SameAddress, VisibleUsers, Local, TypeOK
    <3> QED
      BY <1>1, <1>3, <2>1, <2>6, <3>1, <3>2 DEF Label, Joining
  <2>7. CASE /\ pc[s] = "insertMember"
             /\ Lands(s, "findPlace", at[s], e, WithUser(own[s], e))
    BY <1>1, <1>3, <2>1, <2>7, OwnTypes DEF Label, Joining
  <2>8. CASE pc[s] = "findPlace" /\ LandsPastMember(s, at[s], own[s])
    BY <1>1, <2>2, <2>8 DEF Joining
  <2>9. CASE pc[s] = "findPlace" /\ LandsAt(s, "insertPlace", at[s])
    BY <1>1, <1>3, <2>1, <2>9 DEF LandsAt, Label, Joining
  <2>10. CASE /\ pc[s] = "insertPlace"
              /\ LandsPastMember(s, at[s], WithPlace(own[s], place, {<<"MEMBER_ADDED", place>>}))
    <3>1. place \in Place /\ {<<"MEMBER_ADDED", place>>} \subseteq Rows
      BY <2>1, <2>10, Definitions DEF Place, Rows
    <3> QED
      BY <1>1, <2>2, <2>10, <3>1, OwnTypes DEF Joining
  <2> QED
    BY <1>7, <2>3, <2>4, <2>5, <2>6, <2>7, <2>8, <2>9, <2>10 DEF MemberOutcome
<1> QED
  BY <1>4, <1>5, <1>6, <1>7

\* At the commit every company of the run has its audit rows.
LEMMA CommitKeepsLocal ==
    ASSUME Local, NEW s \in Seeders, Commit(s),
           applied' = applied, lost' = lost, settled' \in BOOLEAN,
           expected' \subseteq Seeders, disturbed' \subseteq Seeders
    PROVE  Local'
<1>1. /\ own[s] \in OwnType /\ own[s].companies \subseteq {d.reg : d \in Definition}
      /\ own[s].companies \subseteq Regs
  BY DEF Local, TypeOK, OwnType, Stage, StageOf
<1>2. \A reg \in own[s].companies :
         DefinitionOf(reg) \in Definition /\ DefinitionOf(reg).reg = reg
         /\ DefinitionOf(reg).status \in Status /\ DefinitionOf(reg).name \in Names
  BY <1>1, Definitions
<1>3. /\ users' \subseteq Email /\ companies' \subseteq Regs /\ members' \subseteq Place
      /\ \A t \in trail' : t \in Rows
  BY <1>1 DEF Commit, VisibleUsers, VisibleCompanies, VisibleMembers, OwnType, Local, TypeOK
<1>4. names' \subseteq Names /\ suspended' \subseteq Regs
  BY <1>1, <1>2 DEF Commit, SuspensionSet, Local, TypeOK
<1>5. status' \in [Regs -> Status \cup {Nil}]
  BY <1>1, <1>2 DEF Commit, Local, TypeOK
<1>6. /\ pc' = [pc EXCEPT ![s] = "idle"] /\ at' = [at EXCEPT ![s] = 0]
      /\ found' = [found EXCEPT ![s] = Nil] /\ own' = [own EXCEPT ![s] = Nothing]
  BY DEF Commit, End, Goto
<1>7. /\ pc' \in [Seeders -> Label] /\ at' \in [Seeders -> 0..4]
      /\ found' \in [Seeders -> Email \cup {Nil}] /\ own' \in [Seeders -> OwnType]
  BY <1>6, NothingType DEF Local, TypeOK, Label, OwnType
<1>8. TypeOK'
  BY <1>3, <1>4, <1>5, <1>7 DEF Local, TypeOK, OwnType
<1>9. /\ pc'[s] = "idle" /\ at'[s] = 0 /\ found'[s] = Nil /\ own'[s] = Nothing
      /\ \A t \in Seeders \ {s} : /\ pc'[t] = pc[t] /\ at'[t] = at[t]
                                  /\ found'[t] = found[t] /\ own'[t] = own[t]
  BY <1>6 DEF Local, TypeOK
<1>10. Stage(s)'
  BY <1>9, NothingType DEF Stage, StageOf, Companying, Joining
<1>11. ASSUME NEW t \in Seeders \ {s} PROVE Stage(t)'
  <2>1. own[t].companies \cap companies' = {}
    BY DEF Commit, VisibleCompanies, Local, Apart, Stage, StageOf
  <2> QED
    BY <1>9, <2>1, StageOfOthers
<1>12. Apart'
  BY <1>9, NothingType DEF Local, Apart
<1> QED
  BY <1>8, <1>10, <1>11, <1>12 DEF Local

\* The operators of the database and the application leave the runs alone.
LEMMA OutsideKeepsLocal ==
    ASSUME Local, TypeOK', UNCHANGED running,
           \A s \in Seeders : own[s].companies \cap companies' = {}
    PROVE  Local'
<1>1. pc' = pc /\ at' = at /\ found' = found /\ own' = own
  BY DEF running
<1>2. \A s \in Seeders : Stage(s)'
  BY <1>1, StageOfOthers
<1> QED
  BY <1>1, <1>2 DEF Local, Apart

LEMMA LocalStep == Local /\ [Next]_vars => Local'
<1> SUFFICES ASSUME Local, [Next]_vars PROVE Local'
  OBVIOUS
<1>0. TypeOK /\ \A s \in Seeders : own[s].companies \cap companies = {}
  BY DEF Local, Stage, StageOf
<1>1. ASSUME NEW s \in Seeders, BeginSeed(s) PROVE Local'
  <2>1. own[s] = Nothing /\ own[s] \in OwnType /\ found[s] \in Email \cup {Nil}
    BY <1>1 DEF BeginSeed, Begin, Local, TypeOK, OwnType, Stage, StageOf
  <2>2. Lands(s, "admin", 0, found[s], own[s])
    BY <1>1 DEF BeginSeed, Begin, Goto, Lands, Local, TypeOK
  <2>3. StageOf("admin", 0, found[s], own[s])
    BY <2>1, NothingType DEF StageOf, Companying, Joining
  <2>4. \A t \in Seeders \ {s} : own[s].companies \cap own[t].companies = {}
    BY DEF Local, Apart
  <2>5. /\ applied' = applied /\ lost' = lost /\ settled' \in BOOLEAN
        /\ expected' \subseteq Seeders /\ disturbed' \subseteq Seeders
    BY <1>0, <1>1 DEF BeginSeed, TypeOK
  <2>6. "admin" \in Label
    BY DEF Label
  <2> QED
    BY <2>1, <2>2, <2>3, <2>4, <2>5, <2>6, LandingKeepsLocal
<1>2. ASSUME NEW s \in Seeders, SeedStep(s) PROVE Local'
  <2>1. /\ applied' = applied /\ lost' = lost /\ settled' \in BOOLEAN
        /\ expected' \subseteq Seeders /\ disturbed' \subseteq Seeders
    BY <1>0, <1>2 DEF SeedStep, TypeOK
  <2>2. CASE pc[s] = "commit"
    <3>1. Commit(s)
      BY <1>2, <2>2 DEF SeedStep, Step, FindSuperAdmin, InsertSuperAdmin, FindCompany,
                        InsertCompany, InsertOwner, InsertOwnership, FindActive,
                        FindMember, InsertMember, FindPlace, InsertPlace
    <3> QED
      BY <2>1, <3>1, CommitKeepsLocal
  <2>3. CASE pc[s] # "commit"
    BY <1>2, <2>1, <2>3, Outcomes, OutcomesKeepLocal DEF SeedStep
  <2> QED
    BY <2>2, <2>3
<1>3. ASSUME NEW s \in Seeders, DieSeed(s) PROVE Local'
  <2>1. Fails(s)
    BY <1>3 DEF DieSeed, Die, Fail, End, Goto, Fails, Lands
  <2>2. /\ applied' = applied /\ lost' = lost /\ settled' \in BOOLEAN
        /\ expected' \subseteq Seeders /\ disturbed' \subseteq Seeders
    BY <1>0, <1>3 DEF DieSeed, TypeOK
  <2> QED
    BY <2>1, <2>2, OutcomesKeepLocal
<1>4. ASSUME NEW last \in Releases, MigrationRun(last) PROVE Local'
  <2>1. applied' \in 0..Last
    BY <1>4, DeploymentAssumption DEF MigrationRun, Run, Last
  <2>2. TypeOK' /\ UNCHANGED running /\ companies' = companies
    BY <1>0, <1>4, <2>1 DEF MigrationRun, TypeOK, data, running, history
  <2> QED
    BY <1>0, <2>2, OutsideKeepsLocal
<1>5. ASSUME MigrationRevert PROVE Local'
  <2>1. applied' \in 0..Last
    BY <1>0, <1>5 DEF MigrationRevert, Revert, Last, TypeOK
  <2>2. \A table, x, y : Kept(table, x, y) = x \/ Kept(table, x, y) = y
    BY DEF Kept
  <2>3. users' \subseteq users /\ companies' \subseteq companies /\ names' \subseteq names
    BY <1>5, <2>2 DEF MigrationRevert
  <2>4. status' \in [Regs -> Status \cup {Nil}]
    BY <1>0, <1>5, <2>2 DEF MigrationRevert, TypeOK
  <2>5. suspended' \subseteq suspended /\ members' \subseteq members /\ trail' \subseteq trail
    BY <1>5, <2>2 DEF MigrationRevert, SuspendedAfterRevert
  <2>6. lost' \subseteq lost \cup suspended \cup companies
    BY <1>5, <2>2 DEF MigrationRevert
  <2>7. UNCHANGED running /\ settled' \in BOOLEAN /\ expected' \subseteq Seeders
        /\ disturbed' \subseteq Seeders
    BY <1>0, <1>5 DEF MigrationRevert, TypeOK
  <2>8. TypeOK'
    BY <1>0, <2>1, <2>3, <2>4, <2>5, <2>6, <2>7 DEF TypeOK, running
  <2> QED
    BY <1>0, <2>3, <2>7, <2>8, OutsideKeepsLocal
<1>6. ASSUME NEW e \in Registrations, Register(e) PROVE Local'
  <2>1. TypeOK' /\ UNCHANGED running /\ companies' = companies
    BY <1>0, <1>6, DeploymentAssumption DEF Register, TypeOK, running, history
  <2> QED
    BY <1>0, <2>1, OutsideKeepsLocal
<1>7. ASSUME NEW f \in Foundings, Found(f) PROVE Local'
  <2>1. f.reg \in Regs /\ f.name \in Names /\ f.email \in Email /\ <<f.reg, f.email>> \in Place
    BY DeploymentAssumption DEF FoundingType, Place
  <2>2. UNCHANGED running /\ \A s \in Seeders : own[s].companies \cap companies' = {}
    BY <1>0, <1>7 DEF Found, SameCompanyHeld
  <2>3. settled' \in BOOLEAN /\ expected' \subseteq Seeders /\ disturbed' \subseteq Seeders
    BY <1>0, <1>7 DEF Found, TypeOK, history
  <2>4. status' \in [Regs -> Status \cup {Nil}]
    BY <1>0, <1>7, <2>1 DEF Found, TypeOK, Status
  <2>5. TypeOK'
    BY <1>0, <1>7, <2>1, <2>2, <2>3, <2>4 DEF Found, TypeOK, running
  <2> QED
    BY <2>2, <2>5, OutsideKeepsLocal
<1>8. ASSUME NEW u \in Registrations, Invite(ACTIVE, u) PROVE Local'
  <2>1. TypeOK' /\ UNCHANGED running /\ companies' = companies
    BY <1>0, <1>8, DeploymentAssumption, Definitions
    DEF Invite, TypeOK, running, history, Place
  <2> QED
    BY <1>0, <2>1, OutsideKeepsLocal
<1>9. ASSUME NEW c \in Supervised, ChangeStatus(c[1], c[2]) PROVE Local'
  <2>1. c[1] \in Regs /\ c[2] \in Status
    BY DeploymentAssumption
  <2>2. <<AuditActionFor(status[c[1]], c[2]), c[1]>> \in Rows
    BY <2>1 DEF AuditActionFor, StatusActions, Row, Rows
  <2>3. UNCHANGED running /\ companies' = companies
    BY <1>9 DEF ChangeStatus
  <2>4. status' \in [Regs -> Status \cup {Nil}] /\ suspended' \subseteq Regs /\ lost' \subseteq Regs
    BY <1>0, <1>9, <2>1 DEF ChangeStatus, TypeOK
  <2>5. TypeOK'
    BY <1>0, <1>9, <2>2, <2>3, <2>4 DEF ChangeStatus, TypeOK, running, history
  <2> QED
    BY <1>0, <2>3, <2>5, OutsideKeepsLocal
<1>10. CASE UNCHANGED vars
  <2>1. TypeOK' /\ UNCHANGED running /\ companies' = companies
    BY <1>0, <1>10 DEF vars, data, running, history, TypeOK
  <2> QED
    BY <1>0, <2>1, OutsideKeepsLocal
<1> QED
  BY <1>1, <1>2, <1>3, <1>4, <1>5, <1>6, <1>7, <1>8, <1>9, <1>10 DEF Next

LEMMA LocalInit == Init => Local
<1> SUFFICES ASSUME Init PROVE Local
  OBVIOUS
<1>1. TypeOK
  <2>1. /\ pc \in [Seeders -> Label] /\ at \in [Seeders -> 0..4]
        /\ found \in [Seeders -> Email \cup {Nil}] /\ own \in [Seeders -> OwnType]
    BY NothingType DEF Init, SeedInit, Label
  <2>2. applied \in 0..Last /\ status \in [Regs -> Status \cup {Nil}]
    BY DEF Init, MigrationsInit, SeedInit, Last
  <2> QED
    BY <2>1, <2>2 DEF Init, SeedInit, TypeOK, OwnType
<1>2. \A s \in Seeders : own[s] = Nothing /\ pc[s] = "idle"
  BY DEF Init, SeedInit
<1>3. \A s \in Seeders : Stage(s)
  BY <1>2, NothingType DEF Stage, StageOf, Companying, Joining
<1> QED
  BY <1>1, <1>2, <1>3, NothingType DEF Local, Apart

LEMMA SpecLocal == Spec => []Local
<1> QED
  BY LocalInit, LocalStep, PTL DEF Spec

\* The type invariant: every run, committed table and audit row is what the
\* definitions of the seed and the calls of the application can make it.
THEOREM DeploymentTypes == Spec => []TypeOK
<1>1. Local => TypeOK
  BY DEF Local
<1> QED
  BY <1>1, SpecLocal, PTL

-------------------------------------------------------------------------------
(* StatusExplained *)

\* A company that a run commits has the rows and the columns of its status.
LEMMA CommitExplains ==
    ASSUME Local, StatusExplained, NEW s \in Seeders, Commit(s), lost' = lost
    PROVE  StatusExplained'
<1> DEFINE new == own[s].companies
<1>1. /\ new \subseteq {d.reg : d \in Definition} /\ new \subseteq Regs /\ new \cap companies = {}
      /\ \A reg \in new : StatusRow(DefinitionOf(reg)) \subseteq own[s].trail
      /\ own[s] \in OwnType /\ companies \subseteq Regs
  BY DEF Commit, Local, TypeOK, OwnType, Stage, StageOf, Open
<1>2. \A reg \in new : DefinitionOf(reg).reg = reg /\ DefinitionOf(reg).status \in Status
  BY <1>1, Definitions
<1>3. /\ companies' = companies \cup new /\ trail' = trail \cup own[s].trail
      /\ suspended' = suspended \cup {reg \in new : DefinitionOf(reg).status = "SUSPENDED"}
      /\ \A reg \in Regs :
            status'[reg] = IF reg \in new THEN DefinitionOf(reg).status ELSE status[reg]
  BY DEF Commit, VisibleCompanies, SuspensionSet
<1>4. ASSUME NEW reg \in new
      PROVE  /\ status'[reg] # "ACTIVE" => <<AuditActionFor(Nil, status'[reg]), reg>> \in trail'
             /\ (status'[reg] = "SUSPENDED") <=> (reg \in suspended')
  <2>1. status'[reg] = DefinitionOf(reg).status /\ reg \notin suspended
    BY <1>1, <1>3 DEF StatusExplained
  <2>2. StatusRow(DefinitionOf(reg)) \subseteq trail'
    BY <1>1, <1>3
  <2> QED
    BY <1>2, <1>3, <2>1, <2>2 DEF StatusRow
<1>5. ASSUME NEW reg \in companies \ lost, reg \notin new
      PROVE  /\ status'[reg] # "ACTIVE" => <<AuditActionFor(Nil, status'[reg]), reg>> \in trail'
             /\ (status'[reg] = "SUSPENDED") <=> (reg \in suspended')
  BY <1>1, <1>3, <1>5 DEF StatusExplained
<1>6. suspended' \subseteq companies'
  BY <1>3 DEF StatusExplained
<1> QED
  BY <1>3, <1>4, <1>5, <1>6 DEF StatusExplained

\* Reverting the tenth migration clears the suspension columns, reverting the
\* first and the seventh the companies and the audit rows: lost has them.
LEMMA RevertExplains ==
    ASSUME StatusExplained, MigrationRevert PROVE StatusExplained'
<1> DEFINE dropped == <<"table", "companies">> \in Creates(applied)
           cleared == <<"table", "audit_logs">> \in Creates(applied)
<1>1. CASE dropped
  <2>1. companies' = {} /\ suspended' = {}
    BY <1>1 DEF MigrationRevert, SuspendedAfterRevert, Kept
  <2> QED
    BY <2>1 DEF StatusExplained
<1>2. CASE ~dropped
  <2>1. companies' = companies /\ status' = status /\ suspended' \subseteq suspended
    BY <1>2 DEF MigrationRevert, SuspendedAfterRevert, Kept
  <2>2. CASE cleared
    <3>1. companies \subseteq lost'
      BY <1>2, <2>2 DEF MigrationRevert, Kept
    <3> QED
      BY <2>1, <3>1 DEF StatusExplained
  <2>3. CASE ~cleared
    <3>1. /\ trail' = trail
          /\ suspended' = IF applied = 10 THEN {} ELSE suspended
          /\ lost' = lost \cup (IF applied = 10 THEN suspended ELSE {})
      BY <1>2, <2>3 DEF MigrationRevert, SuspendedAfterRevert, Kept
    <3> QED
      BY <2>1, <3>1 DEF StatusExplained
  <2> QED
    BY <2>2, <2>3
<1> QED
  BY <1>1, <1>2

LEMMA ChangeExplains ==
    ASSUME TypeOK, StatusExplained, NEW reg \in Regs, NEW to \in Status, ChangeStatus(reg, to)
    PROVE  StatusExplained'
<1>1. /\ companies' = companies /\ reg \in companies /\ lost' = lost \ {reg}
      /\ trail' = trail \cup {<<AuditActionFor(status[reg], to), reg>>}
      /\ suspended' = IF to = "SUSPENDED" THEN suspended \cup {reg} ELSE suspended \ {reg}
      /\ status'[reg] = to /\ \A x \in Regs \ {reg} : status'[x] = status[x]
  BY DEF ChangeStatus, TypeOK
<1>2. to # "ACTIVE" => AuditActionFor(status[reg], to) = AuditActionFor(Nil, to)
  BY DEF AuditActionFor, Status
<1>3. /\ to # "ACTIVE" => <<AuditActionFor(Nil, to), reg>> \in trail'
      /\ (to = "SUSPENDED") <=> (reg \in suspended')
  BY <1>1, <1>2
<1>4. ASSUME NEW x \in companies \ lost, x # reg
      PROVE  /\ status'[x] # "ACTIVE" => <<AuditActionFor(Nil, status'[x]), x>> \in trail'
             /\ (status'[x] = "SUSPENDED") <=> (x \in suspended')
  BY <1>1, <1>4 DEF StatusExplained, TypeOK
<1>5. suspended' \subseteq companies'
  BY <1>1 DEF StatusExplained
<1> QED
  BY <1>1, <1>3, <1>4, <1>5 DEF StatusExplained

LEMMA ExplainedStep == Local /\ StatusExplained /\ [Next]_vars => StatusExplained'
<1> SUFFICES ASSUME Local, StatusExplained, [Next]_vars PROVE StatusExplained'
  OBVIOUS
<1>0. TypeOK
  BY DEF Local
<1>1. ASSUME UNCHANGED <<companies, status, suspended, trail, lost>> PROVE StatusExplained'
  BY <1>1 DEF StatusExplained
<1>2. ASSUME NEW s \in Seeders, BeginSeed(s) PROVE StatusExplained'
  BY <1>1, <1>2 DEF BeginSeed, Begin, data
<1>3. ASSUME NEW s \in Seeders, SeedStep(s) PROVE StatusExplained'
  <2>1. CASE Commit(s)
    BY <1>3, <2>1, CommitExplains DEF SeedStep
  <2>2. CASE ~Commit(s)
    <3>1. pc[s] # "commit"
      BY <1>3, <2>2 DEF SeedStep, Step, FindSuperAdmin, InsertSuperAdmin, FindCompany,
                        InsertCompany, InsertOwner, InsertOwnership, FindActive,
                        FindMember, InsertMember, FindPlace, InsertPlace
    <3>2. Fails(s) \/ AdminOutcome(s) \/ CompanyOutcome(s) \/ MemberOutcome(s)
      BY <1>3, <3>1, Outcomes DEF SeedStep
    <3>3. UNCHANGED data
      BY <3>2 DEF Fails, AdminOutcome, CompanyOutcome, MemberOutcome, LandsAt,
                  LandsPastCompany, LandsPastMember, Lands
    <3> QED
      BY <1>1, <1>3, <3>3 DEF SeedStep, data
  <2> QED
    BY <2>1, <2>2
<1>4. ASSUME NEW s \in Seeders, DieSeed(s) PROVE StatusExplained'
  BY <1>1, <1>4 DEF DieSeed, Die, Fail, data
<1>5. ASSUME NEW last \in Releases, MigrationRun(last) PROVE StatusExplained'
  BY <1>1, <1>5 DEF MigrationRun, data
<1>6. ASSUME NEW e \in Registrations, Register(e) PROVE StatusExplained'
  BY <1>1, <1>6 DEF Register
<1>7. ASSUME NEW f \in Foundings, Found(f) PROVE StatusExplained'
  <2>1. f.reg \in Regs /\ f.reg \notin companies /\ f.reg \notin suspended
    BY <1>7, DeploymentAssumption DEF Found, FoundingType, StatusExplained
  <2>2. /\ companies' = companies \cup {f.reg} /\ UNCHANGED <<suspended, trail, lost>>
        /\ status'[f.reg] = "ACTIVE" /\ \A x \in Regs \ {f.reg} : status'[x] = status[x]
    BY <1>0, <1>7, <2>1 DEF Found, TypeOK
  <2> QED
    BY <1>0, <2>1, <2>2 DEF StatusExplained, TypeOK
<1>8. ASSUME NEW u \in Registrations, Invite(ACTIVE, u) PROVE StatusExplained'
  BY <1>1, <1>8 DEF Invite
<1>9. ASSUME NEW c \in Supervised, ChangeStatus(c[1], c[2]) PROVE StatusExplained'
  BY <1>0, <1>9, ChangeExplains, DeploymentAssumption
<1>10. CASE UNCHANGED vars
  BY <1>1, <1>10 DEF vars, data
<1> QED
  BY <1>2, <1>3, <1>4, <1>5, <1>6, <1>7, <1>8, <1>9, <1>10, RevertExplains DEF Next

\* However runs of the seed, reverts and the application interleave, a company
\* that is not active has the audit row that says so and the suspension columns
\* are those of the suspended companies, unless a revert has dropped them.
THEOREM StatusesExplained == Spec => []StatusExplained
<1>1. Init => StatusExplained
  BY DEF Init, SeedInit, StatusExplained
<1> QED
  BY <1>1, SpecLocal, ExplainedStep, PTL DEF Spec

-------------------------------------------------------------------------------
(* RerunIdle *)

\* With the users U, the companies C and the memberships M, the i-th company of
\* the seed is skipped and the j-th extra member has a place.
CompanyIn(U, C, i) ==
    SEED_COMPANIES[i].reg \in C \/ \E u \in U : u[1] = SEED_COMPANIES[i].owner[1]
PlaceIn(U, M, j) == \E u \in U : u[1] = SEED_EXTRA_MEMBERS[j][1] /\ <<ACTIVE, u>> \in M

\* What run s at statement l and index i, with the member u, has gone past; D are
\* the runs which the company of the extra members came too late for.
Reach(s, l, i, u, D, U, C, M) ==
    /\ l \notin {"idle", "admin", "insertAdmin"} => SEED_SUPER_ADMIN \in U
    /\ l \in {"company", "insertCompany"} => \A k \in 1..4 : k < i => CompanyIn(U, C, k)
    /\ l \in {"insertOwner", "insertMembership"} => \A k \in 1..4 : k <= i => CompanyIn(U, C, k)
    /\ l \in {"findActive", "commit"} \cup Joining => \A k \in 1..4 : CompanyIn(U, C, k)
    /\ l \in Joining => ACTIVE \in C /\ \A j \in 1..4 : j < i => PlaceIn(U, M, j)
    /\ l \in {"findPlace", "insertPlace"} => u \in U /\ u[1] = SEED_EXTRA_MEMBERS[i][1]
    /\ l = "commit" /\ ACTIVE \in C /\ s \notin D => \A j \in 1..4 : PlaceIn(U, M, j)

Covered(s) ==
    /\ Reach(s, pc[s], at[s], found[s], disturbed,
             VisibleUsers(s), VisibleCompanies(s), VisibleMembers(s))
    /\ s \in disturbed => pc[s] = "commit" /\ ACTIVE \notin own[s].companies

\* Nothing of the seed is missing.
Ready ==
    /\ SEED_SUPER_ADMIN \in users
    /\ \A k \in 1..4 : CompanyIn(users, companies, k)
    /\ ACTIVE \in companies => \A j \in 1..4 : PlaceIn(users, members, j)

Progress ==
    /\ \A s \in Seeders : Covered(s)
    /\ settled => Ready
    /\ expected # {} => settled

LEMMA ReachGrows ==
    ASSUME NEW s, NEW l, NEW i, NEW u,
           NEW D, NEW U, NEW C, NEW M, NEW D2, NEW U2, NEW C2, NEW M2,
           Reach(s, l, i, u, D, U, C, M), U \subseteq U2, C \subseteq C2, M \subseteq M2,
           s \in D => s \in D2,
           l = "commit" /\ ACTIVE \in C2 \ C =>
              s \in D2 \/ \A j \in 1..4 : PlaceIn(U2, M2, j)
    PROVE  Reach(s, l, i, u, D2, U2, C2, M2)
<1>1. \A k : CompanyIn(U, C, k) => CompanyIn(U2, C2, k)
  BY DEF CompanyIn
<1>2. \A k : PlaceIn(U, M, k) => PlaceIn(U2, M2, k)
  BY DEF PlaceIn
<1> QED
  BY <1>1, <1>2 DEF Reach

LEMMA ReadyGrows ==
    ASSUME Ready,
           users \subseteq users', companies \subseteq companies', members \subseteq members',
           ACTIVE \in companies' => ACTIVE \in companies
    PROVE  Ready'
<1>1. \A k : CompanyIn(users, companies, k) => CompanyIn(users', companies', k)
  BY DEF CompanyIn
<1>2. \A k : PlaceIn(users, members, k) => PlaceIn(users', members', k)
  BY DEF PlaceIn
<1> QED
  BY <1>1, <1>2 DEF Ready

\* A step of others that takes no row away.
LEMMA CoveredByOthers ==
    ASSUME NEW t \in Seeders, Covered(t),
           users \subseteq users', companies \subseteq companies', members \subseteq members',
           pc'[t] = pc[t], at'[t] = at[t], found'[t] = found[t], own'[t] = own[t],
           t \in disturbed => t \in disturbed',
           t \in disturbed' /\ t \notin disturbed =>
              pc[t] = "commit" /\ ACTIVE \notin own[t].companies,
           pc[t] = "commit" /\ ACTIVE \in companies' \ companies =>
              t \in disturbed' \/ \A j \in 1..4 : PlaceIn(users', members', j)
    PROVE  Covered(t)'
<1>1. /\ VisibleUsers(t) \subseteq VisibleUsers(t)' /\ users' \subseteq VisibleUsers(t)'
      /\ VisibleCompanies(t) \subseteq VisibleCompanies(t)'
      /\ VisibleCompanies(t)' \ VisibleCompanies(t) \subseteq companies' \ companies
      /\ VisibleMembers(t) \subseteq VisibleMembers(t)' /\ members' \subseteq VisibleMembers(t)'
  BY DEF VisibleUsers, VisibleCompanies, VisibleMembers
<1>2. \A j : PlaceIn(users', members', j) => PlaceIn(VisibleUsers(t)', VisibleMembers(t)', j)
  BY <1>1 DEF PlaceIn
<1>3. Reach(t, pc[t], at[t], found[t], disturbed,
            VisibleUsers(t), VisibleCompanies(t), VisibleMembers(t))
  BY DEF Covered
<1>4. Reach(t, pc[t], at[t], found[t], disturbed',
            VisibleUsers(t)', VisibleCompanies(t)', VisibleMembers(t)')
  <2>1. pc[t] = "commit" /\ ACTIVE \in VisibleCompanies(t)' \ VisibleCompanies(t) =>
           t \in disturbed' \/ \A j \in 1..4 : PlaceIn(VisibleUsers(t)', VisibleMembers(t)', j)
    BY <1>1, <1>2
  <2> QED
    BY <1>1, <1>3, <2>1, ReachGrows
<1> QED
  BY <1>4 DEF Covered

\* A run that comes to a place where it has gone past what Reach says.
LEMMA LandingCovers ==
    ASSUME Local, NEW s \in Seeders, NEW l, NEW i, NEW u, NEW o,
           Lands(s, l, i, u, o), s \notin disturbed',
           Reach(s, l, i, u, disturbed', users \cup o.users, companies \cup o.companies,
                 members \cup o.members)
    PROVE  Covered(s)'
<1>1. /\ pc'[s] = l /\ at'[s] = i /\ found'[s] = u /\ own'[s] = o
      /\ users' = users /\ companies' = companies /\ members' = members
  BY DEF Lands, Local, TypeOK, data
<1> QED
  BY <1>1 DEF Covered, VisibleUsers, VisibleCompanies, VisibleMembers

LEMMA OutcomesCover ==
    ASSUME Local, NEW s \in Seeders, Covered(s), s \notin disturbed',
           Fails(s) \/ AdminOutcome(s) \/ CompanyOutcome(s) \/ MemberOutcome(s)
    PROVE  Covered(s)'
<1> DEFINE U == users \cup own[s].users
           C == companies \cup own[s].companies
           M == members \cup own[s].members
<1>1. /\ Reach(s, pc[s], at[s], found[s], disturbed, U, C, M)
      /\ VisibleUsers(s) = U /\ VisibleCompanies(s) = C /\ VisibleMembers(s) = M
  BY DEF Covered, VisibleUsers, VisibleCompanies, VisibleMembers
<1>2. /\ own[s] \in OwnType /\ at[s] \in 0..4
      /\ pc[s] \in Companying \cup Joining => at[s] \in 1..4
  BY DEF Local, TypeOK, OwnType, Stage, StageOf
<1>3. ASSUME NEW l, NEW i, Reach(s, l, i, found[s], disturbed', U, C, M), LandsAt(s, l, i)
      PROVE  Covered(s)'
  BY <1>3, LandingCovers DEF LandsAt
<1>4. CASE Fails(s)
  <2>1. Reach(s, "idle", 0, Nil, disturbed', users \cup Nothing.users,
              companies \cup Nothing.companies, members \cup Nothing.members)
    BY DEF Reach, Joining
  <2> QED
    BY <1>4, <2>1, LandingCovers DEF Fails
<1>5. CASE AdminOutcome(s)
  <2>1. CASE SEED_SUPER_ADMIN \in U /\ LandsAt(s, "company", 1)
    <3>1. Reach(s, "company", 1, found[s], disturbed', U, C, M)
      BY <2>1 DEF Reach, Joining
    <3> QED
      BY <1>3, <2>1, <3>1
  <2>2. CASE LandsAt(s, "insertAdmin", 0)
    <3>1. Reach(s, "insertAdmin", 0, found[s], disturbed', U, C, M)
      BY DEF Reach, Joining
    <3> QED
      BY <1>3, <2>2, <3>1
  <2>3. CASE Lands(s, "company", 1, found[s], WithUser(own[s], SEED_SUPER_ADMIN))
    <3> DEFINE o == WithUser(own[s], SEED_SUPER_ADMIN)
    <3>1. SEED_SUPER_ADMIN \in o.users
      BY <1>2 DEF WithUser, OwnType
    <3>2. Reach(s, "company", 1, found[s], disturbed', users \cup o.users,
                companies \cup o.companies, members \cup o.members)
      BY <3>1 DEF Reach, Joining
    <3> QED
      BY <2>3, <3>2, LandingCovers
  <2> QED
    BY <1>1, <1>5, <2>1, <2>2, <2>3 DEF AdminOutcome
<1>6. CASE CompanyOutcome(s)
  <2> DEFINE d == SEED_COMPANIES[at[s]]
  <2>1. at[s] \in 1..4 /\ pc[s] \in Companying /\ SEED_SUPER_ADMIN \in U
    BY <1>1, <1>2, <1>6 DEF CompanyOutcome, Companying, Reach
  <2>2. ASSUME NEW o, LandsPastCompany(s, at[s], o),
               own[s].users \subseteq o.users, own[s].companies \subseteq o.companies,
               \A k \in 1..4 : k <= at[s] => CompanyIn(U, C, k)
        PROVE  Covered(s)'
    <3> DEFINE UU == users \cup o.users
               CC == companies \cup o.companies
    <3>1. \A k \in 1..4 : k <= at[s] => CompanyIn(UU, CC, k)
      BY <2>2 DEF CompanyIn
    <3>2. SEED_SUPER_ADMIN \in UU
      BY <2>1, <2>2
    <3>3. CASE at[s] < 4 /\ Lands(s, "company", at[s] + 1, found[s], o)
      <4>1. Reach(s, "company", at[s] + 1, found[s], disturbed', UU, CC, members \cup o.members)
        BY <2>1, <3>1, <3>2 DEF Reach, Joining
      <4> QED
        BY <3>3, <4>1, LandingCovers
    <3>4. CASE at[s] = 4 /\ Lands(s, "findActive", 0, found[s], o)
      <4>1. Reach(s, "findActive", 0, found[s], disturbed', UU, CC, members \cup o.members)
        BY <3>1, <3>2, <3>4 DEF Reach, Joining
      <4> QED
        BY <3>4, <4>1, LandingCovers
    <3> QED
      BY <2>2, <3>3, <3>4 DEF LandsPastCompany
  <2>3. CASE /\ pc[s] = "company"
             /\ d.reg \in C \/ SameAddress(s, d.owner) # {}
             /\ LandsPastCompany(s, at[s], own[s])
    <3>1. CompanyIn(U, C, at[s])
      BY <1>1, <2>3 DEF CompanyIn, SameAddress
    <3>2. \A k \in 1..4 : k < at[s] => CompanyIn(U, C, k)
      BY <1>1, <2>3 DEF Reach
    <3>3. \A k \in 1..4 : k <= at[s] => CompanyIn(U, C, k)
      BY <2>1, <3>1, <3>2
    <3> QED
      BY <2>2, <2>3, <3>3
  <2>4. CASE pc[s] = "company" /\ LandsAt(s, "insertCompany", at[s])
    <3>1. Reach(s, "insertCompany", at[s], found[s], disturbed', U, C, M)
      BY <1>1, <2>1, <2>4 DEF Reach, Joining
    <3> QED
      BY <1>3, <2>4, <3>1
  <2>5. CASE /\ pc[s] = "insertCompany"
             /\ Lands(s, "insertOwner", at[s], found[s], WithCompany(own[s], d.reg))
    <3> DEFINE o == WithCompany(own[s], d.reg)
               CC == companies \cup o.companies
    <3>1. o.users = own[s].users /\ o.companies = own[s].companies \cup {d.reg}
      BY <1>2 DEF WithCompany, OwnType
    <3>2. \A k \in 1..4 : k < at[s] => CompanyIn(U, C, k)
      BY <1>1, <2>5 DEF Reach
    <3>3. \A k \in 1..4 : k <= at[s] => CompanyIn(U, CC, k)
      BY <2>1, <3>1, <3>2 DEF CompanyIn
    <3>4. Reach(s, "insertOwner", at[s], found[s], disturbed', users \cup o.users, CC,
                members \cup o.members)
      BY <2>1, <3>1, <3>3 DEF Reach, Joining
    <3> QED
      BY <2>5, <3>4, LandingCovers
  <2>6. CASE /\ pc[s] = "insertOwner"
             /\ Lands(s, "insertMembership", at[s], found[s], WithUser(own[s], d.owner))
    <3> DEFINE o == WithUser(own[s], d.owner)
               UU == users \cup o.users
    <3>1. own[s].users \subseteq o.users /\ o.companies = own[s].companies
      BY <1>2 DEF WithUser, OwnType
    <3>2. \A k \in 1..4 : k <= at[s] => CompanyIn(U, C, k)
      BY <1>1, <2>6 DEF Reach
    <3>3. \A k \in 1..4 : k <= at[s] => CompanyIn(UU, companies \cup o.companies, k)
      BY <3>1, <3>2 DEF CompanyIn
    <3>4. Reach(s, "insertMembership", at[s], found[s], disturbed', UU,
                companies \cup o.companies, members \cup o.members)
      BY <2>1, <3>1, <3>3 DEF Reach, Joining
    <3> QED
      BY <2>6, <3>4, LandingCovers
  <2>7. CASE /\ pc[s] = "insertMembership"
             /\ LandsPastCompany(s, at[s], WithPlace(own[s], <<d.reg, d.owner>>, OwnershipRows(d)))
    <3> DEFINE o == WithPlace(own[s], <<d.reg, d.owner>>, OwnershipRows(d))
    <3>1. o.users = own[s].users /\ o.companies = own[s].companies
      BY <1>2 DEF WithPlace, OwnType
    <3>2. \A k \in 1..4 : k <= at[s] => CompanyIn(U, C, k)
      BY <1>1, <2>7 DEF Reach
    <3> HIDE DEF o
    <3> QED
      BY <2>2, <2>7, <3>1, <3>2 DEF o
  <2> QED
    BY <1>1, <1>6, <2>3, <2>4, <2>5, <2>6, <2>7 DEF CompanyOutcome
<1>7. CASE MemberOutcome(s)
  <2> DEFINE e == SEED_EXTRA_MEMBERS[at[s]]
             place == <<ACTIVE, found[s]>>
  <2>1. /\ pc[s] \in Joining => at[s] \in 1..4
        /\ SEED_SUPER_ADMIN \in U /\ \A k \in 1..4 : CompanyIn(U, C, k)
        /\ pc[s] \in Joining => ACTIVE \in C /\ \A j \in 1..4 : j < at[s] => PlaceIn(U, M, j)
    BY <1>1, <1>2, <1>7 DEF MemberOutcome, Joining, Reach
  <2>2. ASSUME NEW o, LandsPastMember(s, at[s], o), pc[s] \in Joining,
               o.users = own[s].users, o.companies = own[s].companies,
               own[s].members \subseteq o.members,
               PlaceIn(U, members \cup o.members, at[s])
        PROVE  Covered(s)'
    <3> DEFINE MM == members \cup o.members
    <3>1. \A j \in 1..4 : j <= at[s] => PlaceIn(U, MM, j)
      <4>1. \A j : PlaceIn(U, M, j) => PlaceIn(U, MM, j)
        BY <2>2 DEF PlaceIn
      <4> QED
        BY <2>1, <2>2, <4>1
    <3>2. CASE at[s] < 4 /\ Lands(s, "member", at[s] + 1, found[s], o)
      <4>1. Reach(s, "member", at[s] + 1, found[s], disturbed', U, C, MM)
        BY <2>1, <2>2, <3>1 DEF Reach, Joining
      <4> QED
        BY <2>2, <3>2, <4>1, LandingCovers
    <3>3. CASE at[s] = 4 /\ Lands(s, "commit", 0, found[s], o)
      <4>1. Reach(s, "commit", 0, found[s], disturbed', U, C, MM)
        BY <2>1, <3>1, <3>3 DEF Reach, Joining
      <4> QED
        BY <2>2, <3>3, <4>1, LandingCovers
    <3> QED
      BY <2>2, <3>2, <3>3 DEF LandsPastMember
  <2>3. CASE pc[s] = "findActive" /\ ACTIVE \in C /\ LandsAt(s, "member", 1)
    <3>1. Reach(s, "member", 1, found[s], disturbed', U, C, M)
      BY <2>1, <2>3 DEF Reach, Joining
    <3> QED
      BY <1>3, <2>3, <3>1
  <2>4. CASE pc[s] = "findActive" /\ ACTIVE \notin C /\ LandsAt(s, "commit", 0)
    <3>1. Reach(s, "commit", 0, found[s], disturbed', U, C, M)
      BY <2>1, <2>4 DEF Reach, Joining
    <3> QED
      BY <1>3, <2>4, <3>1
  <2>5. CASE pc[s] = "member" /\ LandsAt(s, "insertMember", at[s])
    <3>1. Reach(s, "insertMember", at[s], found[s], disturbed', U, C, M)
      BY <2>1, <2>5 DEF Reach, Joining
    <3> QED
      BY <1>3, <2>5, <3>1
  <2>6. CASE /\ pc[s] = "member"
             /\ \E u \in SameAddress(s, e) : Lands(s, "findPlace", at[s], u, own[s])
    <3>1. PICK u \in SameAddress(s, e) : Lands(s, "findPlace", at[s], u, own[s])
      BY <2>6
    <3>2. u \in U /\ u[1] = e[1]
      BY <1>1 DEF SameAddress
    <3>3. Reach(s, "findPlace", at[s], u, disturbed', U, C, M)
      BY <2>1, <2>6, <3>2 DEF Reach, Joining
    <3> QED
      BY <3>1, <3>3, LandingCovers
  <2>7. CASE pc[s] = "insertMember" /\ Lands(s, "findPlace", at[s], e, WithUser(own[s], e))
    <3> DEFINE o == WithUser(own[s], e)
               UU == users \cup o.users
    <3>1. /\ U \subseteq UU /\ e \in UU
          /\ o.companies = own[s].companies /\ o.members = own[s].members
      BY <1>2 DEF WithUser, OwnType
    <3>2. /\ \A k \in 1..4 : CompanyIn(UU, C, k)
          /\ \A j \in 1..4 : j < at[s] => PlaceIn(UU, M, j)
      BY <2>1, <2>7, <3>1 DEF CompanyIn, PlaceIn, Joining
    <3>3. Reach(s, "findPlace", at[s], e, disturbed', UU, C, M)
      BY <2>1, <2>7, <3>1, <3>2 DEF Reach, Joining
    <3> QED
      BY <2>7, <3>1, <3>3, LandingCovers
  <2>8. pc[s] \in {"findPlace", "insertPlace"} => found[s] \in U /\ found[s][1] = e[1]
    BY <1>1 DEF Reach
  <2>9. CASE /\ pc[s] = "findPlace" /\ place \in M
             /\ LandsPastMember(s, at[s], own[s])
    <3>1. PlaceIn(U, M, at[s])
      BY <2>8, <2>9 DEF PlaceIn
    <3> QED
      BY <2>2, <2>9, <3>1 DEF Joining
  <2>10. CASE pc[s] = "findPlace" /\ LandsAt(s, "insertPlace", at[s])
    <3>1. Reach(s, "insertPlace", at[s], found[s], disturbed', U, C, M)
      BY <2>1, <2>8, <2>10 DEF Reach, Joining
    <3> QED
      BY <1>3, <2>10, <3>1
  <2>11. CASE /\ pc[s] = "insertPlace"
              /\ LandsPastMember(s, at[s], WithPlace(own[s], place, {<<"MEMBER_ADDED", place>>}))
    <3> DEFINE o == WithPlace(own[s], place, {<<"MEMBER_ADDED", place>>})
    <3>1. /\ o.users = own[s].users /\ o.companies = own[s].companies
          /\ o.members = own[s].members \cup {place}
      BY <1>2 DEF WithPlace, OwnType
    <3>2. PlaceIn(U, members \cup o.members, at[s])
      BY <2>8, <2>11, <3>1 DEF PlaceIn
    <3> HIDE DEF o
    <3> QED
      BY <2>2, <2>11, <3>1, <3>2 DEF o, Joining
  <2> QED
    BY <1>1, <1>7, <2>3, <2>4, <2>5, <2>6, <2>7, <2>9, <2>10, <2>11 DEF MemberOutcome
<1> QED
  BY <1>4, <1>5, <1>6, <1>7

\* A step of one run that leaves the committed rows alone.
LEMMA LandingLeavesOthers ==
    ASSUME Local, NEW s \in Seeders, NEW l, NEW i, NEW u, NEW o, Lands(s, l, i, u, o),
           NEW t \in Seeders \ {s}, Covered(t), t \in disturbed' <=> t \in disturbed
    PROVE  Covered(t)'
<1>1. /\ pc'[t] = pc[t] /\ at'[t] = at[t] /\ found'[t] = found[t] /\ own'[t] = own[t]
      /\ users' = users /\ companies' = companies /\ members' = members
  BY DEF Lands, Local, TypeOK, data
<1> QED
  BY <1>1, CoveredByOthers

LEMMA OutcomeLands ==
    ASSUME NEW s \in Seeders,
           Fails(s) \/ AdminOutcome(s) \/ CompanyOutcome(s) \/ MemberOutcome(s)
    PROVE  \E l, i, u, o : Lands(s, l, i, u, o)
BY DEF Fails, AdminOutcome, CompanyOutcome, MemberOutcome, LandsAt, LandsPastCompany,
       LandsPastMember

\* A commit shows the others what the run has gone past.
LEMMA CommitCovers ==
    ASSUME Local, Progress, NEW s \in Seeders, Commit(s),
           settled' = (settled \/ s \notin disturbed), disturbed' = disturbed \ {s},
           expected' = expected
    PROVE  Progress'
<1>1. /\ users' = VisibleUsers(s) /\ companies' = VisibleCompanies(s)
      /\ members' = VisibleMembers(s)
      /\ users \subseteq users' /\ companies \subseteq companies' /\ members \subseteq members'
  BY DEF Commit, VisibleUsers, VisibleCompanies, VisibleMembers
<1>2. /\ pc[s] = "commit" /\ pc'[s] = "idle"
      /\ \A t \in Seeders \ {s} : /\ pc'[t] = pc[t] /\ at'[t] = at[t]
                                  /\ found'[t] = found[t] /\ own'[t] = own[t]
  BY DEF Commit, End, Goto, Local, TypeOK
<1>3. /\ SEED_SUPER_ADMIN \in users' /\ \A k \in 1..4 : CompanyIn(users', companies', k)
      /\ ACTIVE \in companies' /\ s \notin disturbed => \A j \in 1..4 : PlaceIn(users', members', j)
  BY <1>1, <1>2 DEF Progress, Covered, Reach
<1>4. s \in disturbed /\ ACTIVE \in companies' => ACTIVE \in companies
  BY <1>1 DEF Progress, Covered, VisibleCompanies
<1>5. Covered(s)'
  BY <1>2 DEF Covered, Reach, Joining
<1>6. ASSUME NEW t \in Seeders \ {s} PROVE Covered(t)'
  <2>1. ACTIVE \in companies' \ companies => \A j \in 1..4 : PlaceIn(users', members', j)
    BY <1>3, <1>4
  <2>2. Covered(t) /\ (t \in disturbed' <=> t \in disturbed)
    BY DEF Progress
  <2> QED
    BY <1>1, <1>2, <2>1, <2>2, CoveredByOthers
<1>7. settled' => Ready'
  <2>1. CASE s \notin disturbed
    BY <1>3, <2>1 DEF Ready
  <2>2. CASE s \in disturbed
    BY <1>1, <1>4, <2>2, ReadyGrows DEF Progress
  <2> QED
    BY <2>1, <2>2
<1> QED
  BY <1>5, <1>6, <1>7 DEF Progress

\* A revert waits for the runs that have used what it drops, and forgets the
\* history when it drops anything.
LEMMA RevertCovers ==
    ASSUME Local, Progress, MigrationRevert PROVE Progress'
<1>1. /\ pc' = pc /\ at' = at /\ found' = found /\ own' = own /\ disturbed' = disturbed
  BY DEF MigrationRevert, running
<1>2. ASSUME NEW s \in Seeders PROVE Covered(s)'
  <2>1. ~UsesCompanies(s) /\ (NeedsUsers(applied) => ~UsesUsers(s))
    BY DEF MigrationRevert, NotLocked, Local, TypeOK
  <2>2. pc[s] \in {"idle", "admin", "insertAdmin"} \/ (pc[s] = "company" /\ at[s] = 1)
    BY <2>1 DEF UsesCompanies, UsesUsers
  <2>3. CASE pc[s] \in {"idle", "admin", "insertAdmin"}
    <3>1. s \notin disturbed
      BY <2>3 DEF Progress, Covered
    <3> QED
      BY <1>1, <2>3, <3>1 DEF Covered, Reach, Joining
  <2>4. CASE pc[s] = "company" /\ at[s] = 1
    <3>1. s \notin disturbed /\ SEED_SUPER_ADMIN \in VisibleUsers(s)
      BY <2>4 DEF Progress, Covered, Reach
    <3>2. ~NeedsUsers(applied)
      BY <2>1, <2>4 DEF UsesUsers
    <3>3. users' = users
      BY <3>2 DEF NeedsUsers, MigrationRevert, Kept
    <3>4. SEED_SUPER_ADMIN \in VisibleUsers(s)'
      BY <1>1, <3>1, <3>3 DEF VisibleUsers
    <3> QED
      BY <1>1, <2>4, <3>1, <3>4 DEF Covered, Reach, Joining
  <2> QED
    BY <2>2, <2>3, <2>4
<1>3. CASE Creates(applied) = {}
  <2>1. /\ users' = users /\ companies' = companies /\ members' = members
        /\ expected' = expected
    BY <1>3 DEF MigrationRevert, Kept
  <2>2. settled' => settled
    BY <1>3 DEF MigrationRevert
  <2>3. settled => settled'
    BY <1>3 DEF MigrationRevert
  <2> QED
    BY <1>2, <2>1, <2>2, <2>3, ReadyGrows DEF Progress
<1>4. CASE Creates(applied) # {}
  BY <1>2, <1>4 DEF MigrationRevert, Progress
<1> QED
  BY <1>3, <1>4

\* The company of the extra members, when the application founds it, comes too
\* late for the runs that are about to commit.
LEMMA FoundCovers ==
    ASSUME Local, Progress, NEW f \in Foundings, Found(f) PROVE Progress'
<1>1. /\ pc' = pc /\ at' = at /\ found' = found /\ own' = own
      /\ users \subseteq users' /\ companies' = companies \cup {f.reg} /\ members \subseteq members'
      /\ \A s \in Seeders : f.reg \notin own[s].companies
  BY DEF Found, SameCompanyHeld, running
<1>2. CASE f.reg = ACTIVE
  <2>1. settled' = FALSE /\ expected' = {} /\ disturbed' = {s \in Seeders : pc[s] = "commit"}
    BY <1>2 DEF Found
  <2>2. ASSUME NEW s \in Seeders PROVE Covered(s)'
    <3>1. Covered(s) /\ (s \in disturbed => s \in disturbed')
      BY <2>1 DEF Progress, Covered
    <3>2. /\ ACTIVE \notin own[s].companies
          /\ s \in disturbed' => pc[s] = "commit"
          /\ pc[s] = "commit" => s \in disturbed'
      BY <1>1, <1>2, <2>1
    <3>3. /\ pc'[s] = pc[s] /\ at'[s] = at[s] /\ found'[s] = found[s] /\ own'[s] = own[s]
          /\ users \subseteq users' /\ companies \subseteq companies'
          /\ members \subseteq members'
      BY <1>1
    <3> QED
      BY <3>1, <3>2, <3>3, CoveredByOthers
  <2> QED
    BY <2>1, <2>2 DEF Progress
<1>3. CASE f.reg # ACTIVE
  <2>1. settled' = settled /\ expected' = expected /\ disturbed' = disturbed
    BY <1>3 DEF Found, history
  <2>2. \A s \in Seeders : Covered(s)'
    BY <1>1, <1>3, <2>1, CoveredByOthers DEF Progress
  <2> QED
    BY <1>1, <1>3, <2>1, <2>2, ReadyGrows DEF Progress
<1> QED
  BY <1>2, <1>3

LEMMA ProgressStep == Local /\ Progress /\ [Next]_vars => Progress'
<1> SUFFICES ASSUME Local, Progress, [Next]_vars PROVE Progress'
  OBVIOUS
<1>0. TypeOK /\ \A s \in Seeders : Covered(s)
  BY DEF Local, Progress
<1>1. ASSUME UNCHANGED <<running, history>>, companies' = companies,
             users \subseteq users', members \subseteq members'
      PROVE  Progress'
  <2>1. /\ pc' = pc /\ at' = at /\ found' = found /\ own' = own
        /\ settled' = settled /\ expected' = expected /\ disturbed' = disturbed
    BY <1>1 DEF running, history
  <2>2. \A s \in Seeders : Covered(s)'
    BY <1>0, <1>1, <2>1, CoveredByOthers
  <2> QED
    BY <1>1, <2>1, <2>2, ReadyGrows DEF Progress
<1>2. ASSUME NEW s \in Seeders, s \notin disturbed',
             \A t \in Seeders \ {s} : t \in disturbed' <=> t \in disturbed,
             NEW l, NEW i, NEW u, NEW o, Lands(s, l, i, u, o), Covered(s)',
             settled' = settled, expected' # {} => settled
      PROVE  Progress'
  <2>1. \A t \in Seeders : Covered(t)'
    BY <1>0, <1>2, LandingLeavesOthers
  <2>2. users' = users /\ companies' = companies /\ members' = members
    BY <1>2 DEF Lands, data
  <2> QED
    BY <1>2, <2>1, <2>2, ReadyGrows DEF Progress
<1>3. ASSUME NEW s \in Seeders, BeginSeed(s) PROVE Progress'
  <2>1. pc[s] = "idle" /\ s \notin disturbed /\ disturbed' = disturbed /\ settled' = settled
    BY <1>0, <1>3 DEF BeginSeed, Begin, Covered
  <2>2. Lands(s, "admin", 0, found[s], own[s])
    BY <1>0, <1>3 DEF BeginSeed, Begin, Goto, Lands, TypeOK
  <2>3. Reach(s, "admin", 0, found[s], disturbed', users \cup own[s].users,
              companies \cup own[s].companies, members \cup own[s].members)
    BY DEF Reach, Joining
  <2>4. Covered(s)'
    BY <2>1, <2>2, <2>3, LandingCovers
  <2>5. expected' # {} => settled
    BY <1>3 DEF BeginSeed, Progress
  <2> QED
    BY <1>2, <2>1, <2>2, <2>4, <2>5
<1>4. ASSUME NEW s \in Seeders, SeedStep(s) PROVE Progress'
  <2>1. CASE pc[s] = "commit"
    <3>1. Commit(s)
      BY <1>4, <2>1 DEF SeedStep, Step, FindSuperAdmin, InsertSuperAdmin, FindCompany,
                        InsertCompany, InsertOwner, InsertOwnership, FindActive,
                        FindMember, InsertMember, FindPlace, InsertPlace
    <3>2. pc'[s] = "idle"
      BY <1>0, <3>1 DEF Commit, End, Goto, TypeOK
    <3>3. /\ settled' = (settled \/ s \notin disturbed) /\ disturbed' = disturbed \ {s}
          /\ expected' = expected
      BY <1>4, <2>1, <3>2 DEF SeedStep
    <3> QED
      BY <3>1, <3>3, CommitCovers
  <2>2. CASE pc[s] # "commit"
    <3>1. Fails(s) \/ AdminOutcome(s) \/ CompanyOutcome(s) \/ MemberOutcome(s)
      BY <1>4, <2>2, Outcomes DEF SeedStep
    <3>2. s \notin disturbed
      BY <1>0, <2>2 DEF Covered
    <3>3. /\ s \notin disturbed' /\ \A t \in Seeders \ {s} : t \in disturbed' <=> t \in disturbed
          /\ settled' = settled /\ expected' = expected
      BY <1>0, <1>4, <2>2, <3>2 DEF SeedStep, TypeOK
    <3>4. Covered(s)'
      BY <1>0, <3>1, <3>3, OutcomesCover
    <3>5. PICK l, i, u, o : Lands(s, l, i, u, o)
      BY <3>1, OutcomeLands
    <3>6. expected' # {} => settled
      BY <3>3 DEF Progress
    <3> QED
      BY <1>2, <3>3, <3>4, <3>5, <3>6
  <2> QED
    BY <2>1, <2>2
<1>5. ASSUME NEW s \in Seeders, DieSeed(s) PROVE Progress'
  <2>1. Fails(s)
    BY <1>5 DEF DieSeed, Die, Fail, End, Goto, Fails, Lands
  <2>2. /\ s \notin disturbed' /\ \A t \in Seeders \ {s} : t \in disturbed' <=> t \in disturbed
        /\ settled' = settled
        /\ expected' # {} => settled
    BY <1>5 DEF DieSeed, Progress
  <2>3. Covered(s)'
    BY <1>0, <2>1, <2>2, OutcomesCover
  <2>4. PICK l, i, u, o : Lands(s, l, i, u, o)
    BY <2>1, OutcomeLands
  <2> QED
    BY <1>2, <2>2, <2>3, <2>4
<1>6. ASSUME NEW last \in Releases, MigrationRun(last) PROVE Progress'
  BY <1>1, <1>6 DEF MigrationRun, data
<1>7. ASSUME NEW e \in Registrations, Register(e) PROVE Progress'
  BY <1>1, <1>7 DEF Register
<1>8. ASSUME NEW u \in Registrations, Invite(ACTIVE, u) PROVE Progress'
  BY <1>1, <1>8 DEF Invite
<1>9. ASSUME NEW c \in Supervised, ChangeStatus(c[1], c[2]) PROVE Progress'
  BY <1>1, <1>9 DEF ChangeStatus
<1>10. CASE UNCHANGED vars
  BY <1>1, <1>10 DEF vars, data
<1> QED
  BY <1>3, <1>4, <1>5, <1>6, <1>7, <1>8, <1>9, <1>10, RevertCovers, FoundCovers DEF Next

\* What a run does that starts when nothing of the seed is missing and no two
\* users share an address: it comes to no INSERT.
LEMMA IdleOutcomes ==
    ASSUME Local, NEW s \in Seeders, Covered(s), Ready, OneSpelling,
           pc[s] \notin Inserting, own[s] = Nothing,
           Fails(s) \/ AdminOutcome(s) \/ CompanyOutcome(s) \/ MemberOutcome(s)
    PROVE  pc'[s] \notin Inserting /\ own'[s] = Nothing
<1>1. /\ VisibleUsers(s) = users /\ VisibleCompanies(s) = companies /\ VisibleMembers(s) = members
      /\ Nothing \in OwnType
  BY NothingType DEF VisibleUsers, VisibleCompanies, VisibleMembers, Nothing
<1>2. /\ Reach(s, pc[s], at[s], found[s], disturbed, users, companies, members)
      /\ pc[s] \in Companying \cup Joining => at[s] \in 1..4
  BY <1>1 DEF Covered, Local, Stage, StageOf
<1>3. ASSUME NEW l, NEW i, NEW u, Lands(s, l, i, u, own[s])
      PROVE  pc'[s] = l /\ own'[s] = Nothing
  BY <1>3 DEF Lands, Local, TypeOK
<1>4. CASE Fails(s)
  BY <1>4 DEF Fails, Lands, Local, TypeOK, Inserting
<1>5. CASE AdminOutcome(s)
  <2>1. LandsAt(s, "company", 1)
    BY <1>1, <1>5 DEF AdminOutcome, Inserting, Ready
  <2> QED
    BY <1>3, <2>1 DEF LandsAt, Inserting
<1>6. CASE CompanyOutcome(s)
  <2> DEFINE d == SEED_COMPANIES[at[s]]
  <2>1. pc[s] = "company" /\ at[s] \in 1..4
    BY <1>2, <1>6 DEF CompanyOutcome, Companying, Inserting
  <2>2. d.reg \in VisibleCompanies(s) \/ SameAddress(s, d.owner) # {}
    BY <1>1, <2>1 DEF Ready, CompanyIn, SameAddress
  <2>3. LandsPastCompany(s, at[s], own[s])
    BY <1>6, <2>1, <2>2 DEF CompanyOutcome
  <2> QED
    BY <1>3, <2>3 DEF LandsPastCompany, Inserting
<1>7. CASE MemberOutcome(s)
  <2> DEFINE e == SEED_EXTRA_MEMBERS[at[s]]
  <2>1. CASE pc[s] = "findActive"
    <3>1. LandsAt(s, "member", 1) \/ LandsAt(s, "commit", 0)
      BY <1>7, <2>1 DEF MemberOutcome
    <3> QED
      BY <1>3, <3>1 DEF LandsAt, Inserting
  <2>2. pc[s] \in {"member", "findPlace"} =>
           /\ at[s] \in 1..4 /\ PlaceIn(users, members, at[s])
    BY <1>2 DEF Reach, Joining, Ready
  <2>3. CASE pc[s] = "member"
    <3>1. SameAddress(s, e) # {}
      BY <1>1, <2>2, <2>3 DEF PlaceIn, SameAddress
    <3>2. \E u \in SameAddress(s, e) : Lands(s, "findPlace", at[s], u, own[s])
      BY <1>7, <2>3, <3>1 DEF MemberOutcome
    <3> QED
      BY <1>3, <3>2 DEF Inserting
  <2>4. CASE pc[s] = "findPlace"
    <3>1. found[s] \in users /\ found[s][1] = e[1]
      BY <1>2, <2>4 DEF Reach
    <3>2. <<ACTIVE, found[s]>> \in members
      BY <2>2, <2>4, <3>1 DEF PlaceIn, OneSpelling
    <3>3. LandsPastMember(s, at[s], own[s])
      BY <1>1, <1>7, <2>4, <3>2 DEF MemberOutcome
    <3> QED
      BY <1>3, <3>3 DEF LandsPastMember, Inserting
  <2> QED
    BY <1>7, <2>1, <2>3, <2>4 DEF MemberOutcome, Inserting
<1> QED
  BY <1>4, <1>5, <1>6, <1>7

LEMMA RerunStep == Local /\ Progress /\ RerunIdle /\ [Next]_vars => RerunIdle'
<1> SUFFICES ASSUME Local, Progress, RerunIdle, [Next]_vars,
                    NEW s \in expected', OneSpelling'
             PROVE  pc'[s] \notin Inserting /\ own'[s] = Nothing
  BY DEF RerunIdle
<1>0. TypeOK
  BY DEF Local
<1>1. ASSUME s \in expected, users \subseteq users'
      PROVE  s \in Seeders /\ pc[s] \notin Inserting /\ own[s] = Nothing /\ OneSpelling /\ Ready
             /\ Covered(s)
  BY <1>0, <1>1 DEF RerunIdle, OneSpelling, Progress, TypeOK
<1>2. ASSUME expected' \subseteq expected, users \subseteq users', UNCHANGED running
      PROVE  pc'[s] \notin Inserting /\ own'[s] = Nothing
  BY <1>1, <1>2 DEF running
<1>3. ASSUME NEW t \in Seeders, expected' \ {t} \subseteq expected, users \subseteq users',
             \A r \in Seeders \ {t} : pc'[r] = pc[r] /\ own'[r] = own[r], s # t
      PROVE  pc'[s] \notin Inserting /\ own'[s] = Nothing
  BY <1>1, <1>3
<1>4. ASSUME NEW t \in Seeders, BeginSeed(t)
      PROVE  pc'[s] \notin Inserting /\ own'[s] = Nothing
  <2>1. pc'[t] = "admin" /\ own'[t] = Nothing
    BY <1>0, <1>4 DEF BeginSeed, Begin, Goto, TypeOK, Local, Stage, StageOf
  <2>2. /\ expected' \ {t} \subseteq expected /\ users' = users
        /\ \A r \in Seeders \ {t} : pc'[r] = pc[r] /\ own'[r] = own[r]
    BY <1>0, <1>4 DEF BeginSeed, Begin, Goto, TypeOK, data
  <2> QED
    BY <1>3, <2>1, <2>2 DEF Inserting
<1>5. ASSUME NEW t \in Seeders, expected' = expected,
             NEW l, NEW i, NEW u, NEW o, Lands(t, l, i, u, o)
      PROVE  /\ users' = users
             /\ s # t => pc'[s] \notin Inserting /\ own'[s] = Nothing
  <2>1. users' = users /\ \A r \in Seeders \ {t} : pc'[r] = pc[r] /\ own'[r] = own[r]
    BY <1>0, <1>5 DEF Lands, TypeOK, data
  <2> QED
    BY <1>3, <1>5, <2>1
<1>6. ASSUME NEW t \in Seeders, SeedStep(t)
      PROVE  pc'[s] \notin Inserting /\ own'[s] = Nothing
  <2>1. expected' = expected
    BY <1>6 DEF SeedStep
  <2>2. CASE pc[t] = "commit"
    <3>1. Commit(t)
      BY <1>6, <2>2 DEF SeedStep, Step, FindSuperAdmin, InsertSuperAdmin, FindCompany,
                        InsertCompany, InsertOwner, InsertOwnership, FindActive,
                        FindMember, InsertMember, FindPlace, InsertPlace
    <3>2. /\ pc'[t] = "idle" /\ own'[t] = Nothing /\ users \subseteq users'
          /\ \A r \in Seeders \ {t} : pc'[r] = pc[r] /\ own'[r] = own[r]
      BY <1>0, <3>1 DEF Commit, End, Goto, TypeOK, VisibleUsers
    <3> QED
      BY <1>3, <2>1, <3>2 DEF Inserting
  <2>3. CASE pc[t] # "commit"
    <3>1. Fails(t) \/ AdminOutcome(t) \/ CompanyOutcome(t) \/ MemberOutcome(t)
      BY <1>6, <2>3, Outcomes DEF SeedStep
    <3>2. PICK l, i, u, o : Lands(t, l, i, u, o)
      BY <3>1, OutcomeLands
    <3>3. users' = users /\ (s # t => pc'[s] \notin Inserting /\ own'[s] = Nothing)
      BY <1>5, <2>1, <3>2
    <3>4. s = t => pc'[s] \notin Inserting /\ own'[s] = Nothing
      BY <1>1, <2>1, <3>1, <3>3, IdleOutcomes
    <3> QED
      BY <3>3, <3>4
  <2> QED
    BY <2>2, <2>3
<1>7. ASSUME NEW t \in Seeders, DieSeed(t)
      PROVE  pc'[s] \notin Inserting /\ own'[s] = Nothing
  <2>1. Lands(t, "idle", 0, Nil, Nothing) /\ expected' = expected
    BY <1>7 DEF DieSeed, Die, Fail, End, Goto, Lands
  <2>2. pc'[t] = "idle" /\ own'[t] = Nothing
    BY <1>0, <2>1 DEF Lands, TypeOK
  <2> QED
    BY <1>5, <2>1, <2>2 DEF Inserting
<1>8. ASSUME NEW last \in Releases, MigrationRun(last)
      PROVE  pc'[s] \notin Inserting /\ own'[s] = Nothing
  BY <1>2, <1>8 DEF MigrationRun, data, history
<1>9. ASSUME MigrationRevert
      PROVE  pc'[s] \notin Inserting /\ own'[s] = Nothing
  <2>1. Creates(applied) = {} /\ expected' = expected /\ UNCHANGED running
    BY <1>9 DEF MigrationRevert
  <2>2. users' = users
    BY <1>9, <2>1 DEF MigrationRevert, Kept
  <2> QED
    BY <1>2, <2>1, <2>2
<1>10. ASSUME NEW e \in Registrations, Register(e)
       PROVE  pc'[s] \notin Inserting /\ own'[s] = Nothing
  BY <1>2, <1>10 DEF Register, history
<1>11. ASSUME NEW f \in Foundings, Found(f)
       PROVE  pc'[s] \notin Inserting /\ own'[s] = Nothing
  <2>1. expected' \subseteq expected /\ users \subseteq users' /\ UNCHANGED running
    BY <1>11 DEF Found, history
  <2> QED
    BY <1>2, <2>1
<1>12. ASSUME NEW u \in Registrations, Invite(ACTIVE, u)
       PROVE  pc'[s] \notin Inserting /\ own'[s] = Nothing
  BY <1>2, <1>12 DEF Invite, history
<1>13. ASSUME NEW c \in Supervised, ChangeStatus(c[1], c[2])
       PROVE  pc'[s] \notin Inserting /\ own'[s] = Nothing
  BY <1>2, <1>13 DEF ChangeStatus, history
<1>14. CASE UNCHANGED vars
  BY <1>2, <1>14 DEF vars, data, history
<1> QED
  BY <1>4, <1>6, <1>7, <1>8, <1>9, <1>10, <1>11, <1>12, <1>13, <1>14 DEF Next

\* However the runs of the seed, the application and the operators interleave, a
\* run that starts after another has committed comes to no INSERT, as
\* long as no table was dropped, the application has not founded the company of
\* the extra members since it was looked for, and no two users share an address.
THEOREM RerunsIdle == Spec => []RerunIdle
<1>1. Init => Progress /\ RerunIdle
  BY DEF Init, SeedInit, Progress, RerunIdle, Covered, Reach, Joining
<1> QED
  BY <1>1, SpecLocal, ProgressStep, RerunStep, PTL DEF Spec

-------------------------------------------------------------------------------
(* The schema.  Shaped says what it is after n migrations, whatever was run     *)
(* and reverted on the way; up() and down() lead from one such schema to the    *)
(* next.                                                                        *)

\* The migration that creates the table or type of this name.
Creator ==
    [companies |-> 1, companies_status_enum |-> 1,
     users |-> 2, users_role_enum |-> 2, users_status_enum |-> 2,
     shareholders |-> 3,
     share_transactions |-> 4, share_transactions_type_enum |-> 4,
     share_certificates |-> 5, company_users |-> 6, audit_logs |-> 7, user_sessions |-> 9]

Parts == AuditLogsParts \cup EnumValues \cup SuspensionColumns

\* The schema a database has after the first n migrations, whatever was run and
\* reverted before: the migrations' objects, and of the parts what may be there.
Shaped(n, s) ==
    /\ \A x \in s : (\E k \in 1..n : x \in Creates(k)) \/ x \in Parts
    /\ \A k \in 1..n : Creates(k) \subseteq s
    /\ s \cap AuditLogsParts # {} => n = 7
    /\ s \cap EnumValues # {} => n > 0
    /\ s \cap SuspensionColumns # {} => n = 10
    /\ n = 10 => EnumValues \cup SuspensionColumns \subseteq s

\* An object belongs to the migration that creates its table or type, and refers
\* to tables of earlier ones.
LEMMA CreatesBy ==
    ASSUME NEW k \in Nat, NEW x \in Creates(k)
    PROVE  /\ k \in (1..7) \cup {9}
           /\ x[1] \in {"type", "table", "fk"}
           /\ Creator[x[2]] = k
           /\ x[1] = "fk" => /\ Creator[x[3]] \in 1..(k - 1)
                             /\ <<"table", x[3]>> \in Creates(Creator[x[3]])
           /\ x[1] = "table" => x = <<"table", x[2]>>
<1> DEFINE Holds(j) ==
           /\ x[1] \in {"type", "table", "fk"}
           /\ Creator[x[2]] = j
           /\ x[1] = "fk" => /\ Creator[x[3]] \in 1..(j - 1)
                             /\ <<"table", x[3]>> \in Creates(Creator[x[3]])
           /\ x[1] = "table" => x = <<"table", x[2]>>
<1>1. k \in (1..7) \cup {9}
  BY DEF Creates
<1>2. <<"table", "companies">> \in Creates(1) /\ <<"table", "users">> \in Creates(2)
      /\ <<"table", "shareholders">> \in Creates(3)
      /\ <<"table", "company_users">> \in Creates(6)
  BY DEF Creates, Creation, CreateCompanies, CreateUsers, CreateShareholders, CreateCompanyUsers
<1>3. CASE k = 1
  BY <1>3 DEF Creates, Creation, CreateCompanies, Creator
<1>4. CASE k = 2
  BY <1>2, <1>4 DEF Creates, Creation, CreateUsers, Creator
<1>5. CASE k = 3
  BY <1>2, <1>5 DEF Creates, Creation, CreateShareholders, Creator
<1>6. CASE k = 4
  BY <1>2, <1>6 DEF Creates, Creation, CreateShareTransactions, Creator
<1>7. CASE k = 5
  BY <1>2, <1>7 DEF Creates, Creation, CreateShareCertificates, Creator
<1>8. CASE k = 6
  BY <1>2, <1>8 DEF Creates, Creation, CreateCompanyUsers, Creator
<1>9. CASE k = 7
  BY <1>2, <1>9 DEF Creates, Creation, CreateAuditLogs, Creator
<1>10. CASE k = 9
  BY <1>2, <1>10 DEF Creates, Creation, CreateUserSessions, Creator
<1> QED
  BY <1>1, <1>3, <1>4, <1>5, <1>6, <1>7, <1>8, <1>9, <1>10

LEMMA Creators ==
    \A k \in Nat : \A x \in Creates(k) :
        Creator[x[2]] = k /\ x[1] \notin {"column", "notNull", "value"}
BY CreatesBy

LEMMA PartsKinds ==
    /\ \A x \in AuditLogsParts : x[1] \in {"column", "notNull"} /\ x[2] = "audit_logs"
    /\ \A x \in EnumValues : x[1] = "value" /\ x[2] = "companies_status_enum"
    /\ \A x \in SuspensionColumns : x[1] = "column" /\ x[2] = "companies"
    /\ \A k \in Nat : Creates(k) \cap Parts = {}
<1>1. \A x \in AuditLogsParts : x[1] \in {"column", "notNull"} /\ x[2] = "audit_logs"
  BY DEF AuditLogsParts
<1>2. \A x \in EnumValues : x[1] = "value" /\ x[2] = "companies_status_enum"
  BY DEF EnumValues
<1>3. \A x \in SuspensionColumns : x[1] = "column" /\ x[2] = "companies"
  BY DEF SuspensionColumns
<1>4. ASSUME NEW k \in Nat PROVE Creates(k) \cap Parts = {}
  BY <1>1, <1>2, <1>3, CreatesBy DEF Parts
<1> QED
  BY <1>1, <1>2, <1>3, <1>4

LEMMA NothingElse ==
    /\ Creates(8) = {} /\ Creates(10) = {}
    /\ <<"table", "audit_logs">> \in Creates(7) /\ <<"table", "companies">> \in Creates(1)
    /\ <<"type", "companies_status_enum">> \in Creates(1)
<1>1. Creates(8) = {} /\ Creates(10) = {}
  BY DEF Creates
<1>2. <<"table", "audit_logs">> \in Creates(7) /\ <<"table", "companies">> \in Creates(1)
  BY DEF Creates, Creation, CreateCompanies, CreateAuditLogs
<1>3. <<"type", "companies_status_enum">> \in Creates(1)
  BY DEF Creates, Creation, CreateCompanies
<1> QED
  BY <1>1, <1>2, <1>3

\* What adds migration n + 1 to such a schema succeeds.
LEMMA ShapedUp ==
    ASSUME NEW n \in 0..(Last - 1), NEW s, Shaped(n, s)
    PROVE  UpSucceeds(n + 1, s) /\ Shaped(n + 1, Up(n + 1, s))
<1> DEFINE k == n + 1
<1>0. k \in 1..10 /\ k \in Nat /\ n = k - 1 /\ n \in 0..9
  BY DEF Last
<1>1. UpSucceeds(k, s)
  <2>1. ASSUME NEW x \in Creates(k), x \in s PROVE FALSE
    <3>1. x \notin Parts
      BY <1>0, PartsKinds
    <3>2. PICK j \in 1..n : x \in Creates(j)
      BY <2>1, <3>1 DEF Shaped
    <3>3. Creator[x[2]] = j
      BY <1>0, <3>2, Creators
    <3>4. Creator[x[2]] = k
      BY <1>0, Creators
    <3> QED
      BY <1>0, <3>3, <3>4
  <2>2. ASSUME NEW x \in Creates(k), x[1] = "fk" PROVE <<"table", x[3]>> \in s
    BY <1>0, <2>2, CreatesBy DEF Shaped
  <2>3. k = 8 => <<"table", "audit_logs">> \in s
    BY <1>0, NothingElse DEF Shaped
  <2>4. k = 10 => <<"table", "companies">> \in s
    BY <1>0, NothingElse DEF Shaped
  <2> QED
    BY <2>1, <2>2, <2>3, <2>4 DEF UpSucceeds
<1>2. CASE k = 8
  <2>1. Up(k, s) = s \ AuditLogsParts
    BY <1>2 DEF Up
  <2>2. \A j \in 1..k : Creates(j) \subseteq Up(k, s)
    BY <1>0, <1>2, <2>1, NothingElse, PartsKinds DEF Shaped, Parts
  <2> QED
    BY <1>0, <1>1, <1>2, <2>1, <2>2 DEF Shaped
<1>3. CASE k = 10
  <2>1. Up(k, s) = s \cup EnumValues \cup SuspensionColumns
    BY <1>3 DEF Up
  <2>2. \A j \in 1..k : Creates(j) \subseteq Up(k, s)
    BY <1>0, <1>3, <2>1, NothingElse DEF Shaped
  <2>3. Up(k, s) \cap AuditLogsParts = {}
    BY <1>0, <1>3, <2>1, PartsKinds DEF Shaped
  <2> QED
    BY <1>0, <1>1, <1>3, <2>1, <2>2, <2>3 DEF Shaped, Parts
<1>4. CASE k # 8 /\ k # 10
  <2>1. Up(k, s) = s \cup Creates(k)
    BY <1>4 DEF Up
  <2>2. \A j \in 1..k : Creates(j) \subseteq Up(k, s)
    BY <1>0, <2>1 DEF Shaped
  <2>3. \A x \in Up(k, s) : (\E j \in 1..k : x \in Creates(j)) \/ x \in Parts
    BY <1>0, <2>1 DEF Shaped
  <2>4. Up(k, s) \cap Parts = s \cap Parts
    BY <1>0, <2>1, PartsKinds
  <2>5. s \cap AuditLogsParts = {}
    BY <1>0, <1>4 DEF Shaped
  <2> QED
    BY <1>0, <1>1, <1>4, <2>2, <2>3, <2>4, <2>5 DEF Shaped, Parts
<1> QED
  BY <1>2, <1>3, <1>4

\* What reverts the last of them succeeds.
LEMMA ShapedDown ==
    ASSUME NEW n \in 1..Last, NEW s, Shaped(n, s)
    PROVE  DownSucceeds(n, s) /\ Shaped(n - 1, Down(n, s))
<1>0. n \in 1..10 /\ n \in Nat
  BY DEF Last
<1>1. DownSucceeds(n, s)
  <2>1. Creates(n) \subseteq s
    BY <1>0 DEF Shaped
  <2>2. ASSUME NEW x \in s \ Creates(n), x[1] = "fk", <<"table", x[3]>> \in Creates(n)
        PROVE  FALSE
    <3>1. x \notin Parts
      BY <2>2, PartsKinds DEF Parts
    <3>2. PICK j \in 1..n : x \in Creates(j)
      BY <3>1 DEF Shaped
    <3>3. Creator[x[3]] < n
      BY <1>0, <2>2, <3>2, CreatesBy
    <3>4. Creator[x[3]] = n
      BY <1>0, <2>2, CreatesBy
    <3> QED
      BY <1>0, <3>3, <3>4
  <2>3. n = 8 => <<"table", "audit_logs">> \in s
    BY <1>0, NothingElse DEF Shaped
  <2>4. n = 10 => <<"table", "companies">> \in s
    BY <1>0, NothingElse DEF Shaped
  <2> QED
    BY <2>1, <2>2, <2>3, <2>4 DEF DownSucceeds
<1>2. CASE n = 8
  <2>1. Down(n, s) = s \cup AuditLogsParts
    BY <1>2 DEF Down
  <2>2. \A x \in Down(n, s) : (\E k \in 1..(n - 1) : x \in Creates(k)) \/ x \in Parts
    BY <1>0, <1>2, <2>1, NothingElse DEF Shaped, Parts
  <2>3. Down(n, s) \cap EnumValues = s \cap EnumValues
        /\ Down(n, s) \cap SuspensionColumns = s \cap SuspensionColumns
    BY <2>1, PartsKinds
  <2> QED
    BY <1>0, <1>1, <1>2, <2>1, <2>2, <2>3 DEF Shaped
<1>3. CASE n = 10
  <2>1. Down(n, s) = s \ SuspensionColumns
    BY <1>3 DEF Down
  <2>2. \A x \in Down(n, s) : (\E k \in 1..(n - 1) : x \in Creates(k)) \/ x \in Parts
    BY <1>0, <1>3, <2>1, NothingElse DEF Shaped
  <2>3. \A k \in 1..(n - 1) : Creates(k) \subseteq Down(n, s)
    BY <1>0, <2>1, PartsKinds DEF Shaped, Parts
  <2> QED
    BY <1>0, <1>1, <1>3, <2>1, <2>2, <2>3 DEF Shaped
<1>4. CASE n # 8 /\ n # 10
  <2>1. Down(n, s) = s \ WithParts(Creates(n), s)
    BY <1>4 DEF Down
  <2>2. Down(n, s) \subseteq s \ Creates(n)
    BY <2>1 DEF WithParts
  <2>3. \A x \in Down(n, s) : (\E k \in 1..(n - 1) : x \in Creates(k)) \/ x \in Parts
    BY <1>0, <2>2 DEF Shaped
  <2>4. ASSUME NEW k \in 1..(n - 1), NEW x \in Creates(k)
        PROVE  x \in Down(n, s)
    <3>1. x \in s
      BY <1>0 DEF Shaped
    <3>2. x \notin Creates(n)
      BY <1>0, Creators
    <3>3. x[1] \notin {"column", "notNull", "value"}
      BY <1>0, Creators
    <3> QED
      BY <2>1, <3>1, <3>2, <3>3 DEF WithParts
  <2>5. Down(n, s) \cap AuditLogsParts = {}
    <3>1. SUFFICES ASSUME NEW x \in Down(n, s) \cap AuditLogsParts PROVE FALSE
      OBVIOUS
    <3>2. n = 7
      BY <2>2 DEF Shaped
    <3>3. x[1] \in {"column", "notNull"} /\ x[2] = "audit_logs" /\ x \in s
      BY <2>2, PartsKinds
    <3>4. x \in WithParts(Creates(n), s)
      BY <3>2, <3>3, NothingElse DEF WithParts
    <3> QED
      BY <2>1, <3>4
  <2>6. n = 1 => Down(n, s) \cap EnumValues = {}
    <3>1. SUFFICES ASSUME n = 1, NEW x \in Down(n, s) \cap EnumValues PROVE FALSE
      OBVIOUS
    <3>2. x[1] = "value" /\ x[2] = "companies_status_enum" /\ x \in s
      BY <2>2, PartsKinds
    <3>3. x \in WithParts(Creates(n), s)
      BY <3>1, <3>2, NothingElse DEF WithParts
    <3> QED
      BY <2>1, <3>3
  <2> QED
    BY <1>0, <1>1, <1>4, <2>2, <2>3, <2>4, <2>5, <2>6 DEF Shaped
<1> QED
  BY <1>2, <1>3, <1>4

\* A schema that all migrations have made is determined.
LEMMA ShapedLast ==
    ASSUME NEW s, NEW t, Shaped(Last, s), Shaped(Last, t)
    PROVE  s = t
<1> DEFINE Full == (UNION {Creates(k) : k \in 1..10}) \cup EnumValues \cup SuspensionColumns
<1>1. ASSUME NEW u, Shaped(Last, u) PROVE u = Full
  <2>1. ASSUME NEW x \in u PROVE x \in Full
    <3>1. x \notin AuditLogsParts
      BY <1>1 DEF Shaped, Last
    <3> QED
      BY <1>1, <3>1 DEF Shaped, Last, Parts
  <2>2. Full \subseteq u
    BY <1>1 DEF Shaped, Last
  <2> QED
    BY <2>1, <2>2
<1> QED
  BY <1>1

\* The recursive function of Upgraded satisfies its equation: beyond the last
\* migration it is constant.
LEMMA UpgradedSteps ==
    ASSUME NEW s, NEW first \in 1..Last
    PROVE  /\ Upgraded(s, first, first - 1) = s
           /\ \A k \in first..Last :
                 Upgraded(s, first, k) = Up(k, Upgraded(s, first, k - 1))
<1> DEFINE Next1(k, x) == IF k < first THEN s ELSE Up(k, x)
           Upto(n, f) ==
               /\ f = [k \in Nat |-> f[k]]
               /\ \A k \in Nat : f[k] = IF k <= n THEN Next1(k, f[k - 1]) ELSE f[n]
           Reached(n) == \E f : Upto(n, f)
           Solves(f) == f = [k \in Nat |-> IF k < first THEN s ELSE Up(k, f[k - 1])]
           after == CHOOSE f : Solves(f)
<1>0. first \in 1..10
  BY DEF Last
<1>1. Reached(0)
  <2>1. Upto(0, [k \in Nat |-> s])
    BY <1>0
  <2> QED
    BY <2>1
<1>2. ASSUME NEW n \in 0..9, Reached(n) PROVE Reached(n + 1)
  <2>1. PICK f : Upto(n, f)
    BY <1>2
  <2>2. PICK x : x = Next1(n + 1, f[n])
    OBVIOUS
  <2> DEFINE g == [k \in Nat |-> IF k <= n THEN f[k] ELSE x]
  <2>3. g = [k \in Nat |-> g[k]]
    OBVIOUS
  <2>4. \A k \in Nat : g[k] = IF k <= n THEN f[k] ELSE x
    OBVIOUS
  <2> HIDE DEF g
  <2>5. ASSUME NEW k \in Nat
        PROVE  g[k] = IF k <= n + 1 THEN Next1(k, g[k - 1]) ELSE g[n + 1]
    <3>1. CASE k = 0
      <4>1. f[k] = s
        BY <1>0, <2>1, <3>1
      <4>2. g[k] = s
        BY <2>4, <3>1, <4>1
      <4> QED
        BY <1>0, <3>1, <4>2
    <3>2. CASE k > 0 /\ k <= n
      <4>1. g[k] = f[k] /\ g[k - 1] = f[k - 1]
        BY <2>4, <3>2
      <4>2. f[k] = Next1(k, f[k - 1])
        BY <2>1, <3>2
      <4> QED
        BY <3>2, <4>1, <4>2
    <3>3. CASE k = n + 1
      <4>1. g[k] = x /\ g[k - 1] = f[n]
        BY <2>4, <3>3
      <4> QED
        BY <2>2, <3>3, <4>1
    <3>4. CASE k > n + 1
      BY <2>4, <3>4
    <3> QED
      BY <3>1, <3>2, <3>3, <3>4
  <2>6. Upto(n + 1, g)
    BY <2>3, <2>5
  <2> QED
    BY <2>6
<1>3. Reached(10)
  <2> HIDE DEF Reached
  <2> QED
    BY <1>1, <1>2
<1>4. \E f : Solves(f)
  <2>1. PICK f : Upto(10, f)
    BY <1>3
  <2>2. ASSUME NEW k \in Nat
        PROVE  f[k] = IF k < first THEN s ELSE Up(k, f[k - 1])
    <3>1. CASE k <= 10
      BY <2>1, <3>1
    <3>2. CASE k > 10
      <4>1. f[k] = f[10] /\ f[k - 1] = f[10]
        BY <2>1, <3>2
      <4>2. Up(k, f[10]) = f[10]
        BY <3>2 DEF Up, Creates
      <4> QED
        BY <1>0, <3>2, <4>1, <4>2
    <3> QED
      BY <3>1, <3>2
  <2>3. Solves(f)
    BY <2>1, <2>2, Zenon
  <2> QED
    BY <2>3
<1>5. Solves(after)
  BY <1>4
<1>6. \A k : Upgraded(s, first, k) = after[k]
  BY DEF Upgraded
<1> HIDE DEF after
<1>7. \A k \in Nat : after[k] = IF k < first THEN s ELSE Up(k, after[k - 1])
  BY <1>5, Zenon
<1> QED
  BY <1>0, <1>6, <1>7 DEF Last

LEMMA EmptyShaped == Shaped(0, {})
BY DEF Shaped

LEMMA UpgradedShaped ==
    ASSUME NEW s, NEW first \in 1..Last, Shaped(first - 1, s)
    PROVE  \A k \in (first - 1)..Last : Shaped(k, Upgraded(s, first, k))
<1> DEFINE Good(k) == k \in (first - 1)..Last => Shaped(k, Upgraded(s, first, k))
<1>0. first \in 1..10 /\ Last = 10
  BY DEF Last
<1>1. Good(0)
  BY <1>0, UpgradedSteps
<1>2. ASSUME NEW k \in 0..9, Good(k) PROVE Good(k + 1)
  <2>1. CASE k + 1 < first
    BY <1>0, <2>1, UpgradedSteps
  <2>2. CASE k + 1 >= first
    <3>1. Shaped(k, Upgraded(s, first, k))
      BY <1>0, <1>2, <2>2
    <3>2. Upgraded(s, first, k + 1) = Up(k + 1, Upgraded(s, first, k))
      BY <1>0, <2>2, UpgradedSteps
    <3> QED
      BY <1>0, <3>1, <3>2, ShapedUp
  <2> QED
    BY <1>0, <2>1, <2>2
<1>3. \A k \in 0..10 : Good(k)
  <2> HIDE DEF Good
  <2> QED
    BY <1>1, <1>2
<1> QED
  BY <1>0, <1>3

-------------------------------------------------------------------------------
SchemaShaped == applied \in 0..Last /\ Shaped(applied, schema)

LEMMA SchemaStep == SchemaShaped /\ [Next]_vars => SchemaShaped'
<1> SUFFICES ASSUME SchemaShaped, [Next]_vars PROVE SchemaShaped'
  OBVIOUS
<1>1. CASE UNCHANGED <<applied, schema>>
  BY <1>1 DEF SchemaShaped
<1>2. ASSUME NEW last \in Releases, MigrationRun(last) PROVE SchemaShaped'
  <2>1. /\ last \in 1..Last /\ applied < last /\ applied' = last
        /\ schema' = Upgraded(schema, applied + 1, last)
    BY <1>2, DeploymentAssumption DEF MigrationRun, Run
  <2>2. applied + 1 \in 1..Last /\ (applied + 1) - 1 = applied /\ last \in applied..Last
    BY <2>1 DEF SchemaShaped, Last
  <2>3. Shaped(last, Upgraded(schema, applied + 1, last))
    BY <2>2, UpgradedShaped DEF SchemaShaped
  <2> QED
    BY <2>1, <2>3 DEF SchemaShaped, Last
<1>3. ASSUME MigrationRevert PROVE SchemaShaped'
  <2>1. applied > 0 /\ schema' = Down(applied, schema) /\ applied' = applied - 1
    BY <1>3 DEF MigrationRevert, Revert
  <2>2. applied \in 1..Last
    BY <2>1 DEF SchemaShaped, Last
  <2>3. Shaped(applied - 1, Down(applied, schema))
    BY <2>2, ShapedDown DEF SchemaShaped
  <2> QED
    BY <2>1, <2>2, <2>3 DEF SchemaShaped, Last
<1>4. CASE Next
  <2>1. ASSUME NEW s \in Seeders, BeginSeed(s) \/ SeedStep(s) \/ DieSeed(s)
        PROVE  UNCHANGED <<applied, schema>>
    BY <2>1 DEF BeginSeed, SeedStep, DieSeed
  <2>2. ASSUME NEW e \in Registrations, Register(e) PROVE UNCHANGED <<applied, schema>>
    BY <2>2 DEF Register
  <2>3. ASSUME NEW f \in Foundings, Found(f) PROVE UNCHANGED <<applied, schema>>
    BY <2>3 DEF Found
  <2>4. ASSUME NEW u \in Registrations, Invite(ACTIVE, u)
        PROVE  UNCHANGED <<applied, schema>>
    BY <2>4 DEF Invite
  <2>5. ASSUME NEW c \in Supervised, ChangeStatus(c[1], c[2])
        PROVE  UNCHANGED <<applied, schema>>
    BY <2>5 DEF ChangeStatus
  <2> QED
    BY <1>1, <1>2, <1>3, <1>4, <2>1, <2>2, <2>3, <2>4, <2>5 DEF Next
<1>5. CASE UNCHANGED vars
  BY <1>1, <1>5 DEF vars
<1> QED
  BY <1>4, <1>5

LEMMA SpecSchema == Spec => []SchemaShaped
<1>1. Init => SchemaShaped
  <2>1. Init => applied = 0 /\ schema = {}
    BY DEF Init, MigrationsInit
  <2> QED
    BY <2>1, EmptyShaped DEF SchemaShaped, Last
<1> QED
  BY <1>1, SchemaStep, PTL DEF Spec

\* Migrations can be run and reverted in any order, in releases of any size: the
\* statements of the next one in either direction find what they need, and all
\* of them together lead to the schema of a new installation.
THEOREM MigrationsAreRepeatable == Spec => []MigrationsRepeatable
<1>1. SchemaShaped => MigrationsRepeatable
  <2> SUFFICES ASSUME SchemaShaped PROVE MigrationsRepeatable
    OBVIOUS
  <2>1. applied < Last => UpSucceeds(applied + 1, schema)
    BY ShapedUp DEF SchemaShaped, Last
  <2>2. applied > 0 => DownSucceeds(applied, schema)
    BY ShapedDown DEF SchemaShaped, Last
  <2>3. Shaped(Last, Upgraded({}, 1, Last))
    <3>1. 1 \in 1..Last /\ 1 - 1 = 0 /\ Last \in 0..Last
      BY DEF Last
    <3> QED
      BY <3>1, EmptyShaped, UpgradedShaped
  <2>4. applied = Last => schema = Upgraded({}, 1, Last)
    BY <2>3, ShapedLast DEF SchemaShaped
  <2> QED
    BY <2>1, <2>2, <2>4 DEF MigrationsRepeatable
<1> QED
  BY <1>1, SpecSchema, PTL

===============================================================================
