------------------------------- MODULE Onboarding -------------------------------
(* How users and companies come to exist: register (auth.service.ts and        *)
(* users.service.ts), and the two ways to found a company with its owner in    *)
(* one transaction, onboardCompany of the platform routes and                  *)
(* createCompanyWithAdmin, which no route calls yet.                           *)
(*                                                                             *)
(* The e-mail of a user and the name of a company are unique.  An insert waits *)
(* while another open transaction holds a row of the same key, fails once such *)
(* a row is committed, and otherwise stays invisible until the commit.         *)
EXTENDS TenantRequests

FoundingOps == {"found", "onboard"}

RegisterCall == [op : {"register"}, email : Email]
\* A found call's actor is initiatedByUserId, which is optional; an onboard
\* call's actor is the platform administrator who makes it.
FoundingCall ==
    [op : FoundingOps, company : Companies, email : Email, actor : Email \cup {Nil}]

-------------------------------------------------------------------------------
(* register *)

Register(r, a) ==
    /\ pc[r] = "start"
    /\ a.op = "register"
    /\ call' = [call EXCEPT ![r] = a]
    /\ Goto(r, IF Normal(a.email) \in users THEN "refused" ELSE "insertUser")
    /\ UNCHANGED <<tables, tenant, began>>

-------------------------------------------------------------------------------
(* found and onboard *)

\* createCompanyWithAdmin stores the e-mail as it came.
OwnerEmail(a) == IF a.op = "onboard" THEN Normal(a.email) ELSE a.email

\* createCompanyWithAdmin looks for the e-mail as it came; onboardCompany
\* compares in lower case.
EmailTaken(a) ==
    IF a.op = "onboard" THEN \E u \in users : Normal(u) = Normal(a.email)
    ELSE a.email \in users

StartFounding(r, a) ==
    /\ pc[r] = "start"
    /\ a.op \in FoundingOps
    /\ call' = [call EXCEPT ![r] = a]
    /\ IF EmailTaken(a) THEN Goto(r, "refused") /\ UNCHANGED began
       ELSE Goto(r, "insertCompany") /\ Began(r)
    /\ UNCHANGED <<tables, tenant>>

\* The keys of the rows a transaction has inserted and not committed.
HoldsCompany(s, c) == pc[s] \in {"insertOwner", "commit"} /\ call[s].company = c
\* Variant: createCompanyWithAdmin inserts the owner first.
HoldsUserFirst(s, e) ==
    /\ pc[s] = "commit" \/ (pc[s] = "insertCompany" /\ call[s].op = "found")
    /\ OwnerEmail(call[s]) = e

HoldsUser(s, e) == pc[s] = "commit" /\ OwnerEmail(call[s]) = e

AwaitsCompany(r, s) == pc[r] = "insertCompany" /\ HoldsCompany(s, call[r].company)
AwaitsUser(r, s) ==
    \/ pc[r] = "insertOwner" /\ HoldsUser(s, OwnerEmail(call[r]))
    \/ pc[r] = "insertUser" /\ HoldsUser(s, Normal(call[r].email))

InsertUser(r) ==
    LET e == Normal(call[r].email) IN
    /\ pc[r] = "insertUser"
    /\ \A s \in Requests : ~AwaitsUser(r, s)
    /\ IF e \in users THEN Goto(r, "failed") /\ UNCHANGED users
       ELSE Goto(r, "done") /\ users' = users \cup {e}
    /\ UNCHANGED <<companies, members, trail, call, tenant, began>>

\* Variant: the company is saved outside the transaction.
InsertCompanyAtOnce(r) ==
    /\ pc[r] = "insertCompany"
    /\ IF call[r].company \in companies THEN Goto(r, "failed") /\ UNCHANGED companies
       ELSE Goto(r, "insertOwner") /\ companies' = companies \cup {call[r].company}
    /\ UNCHANGED <<users, members, trail, call, tenant, began>>

InsertCompany(r) ==
    /\ pc[r] = "insertCompany"
    /\ \A s \in Requests : ~AwaitsCompany(r, s)
    /\ Goto(r, IF call[r].company \in companies THEN "failed" ELSE "insertOwner")
    /\ UNCHANGED <<tables, call, tenant, began>>

InsertOwner(r) ==
    /\ pc[r] = "insertOwner"
    /\ \A s \in Requests : ~AwaitsUser(r, s)
    /\ Goto(r, IF OwnerEmail(call[r]) \in users THEN "failed" ELSE "commit")
    /\ UNCHANGED <<tables, call, tenant, began>>

FoundingMember(a) ==
    [company |-> a.company, user |-> OwnerEmail(a), role |-> "OWNER", status |-> "ACTIVE"]

(* The initiator cannot be a member of the company that is being created: the  *)
(* row of createCompanyWithAdmin names the initiator as the actor and, for     *)
(* want of a membership of its own, the new owner's.                           *)
FoundingRows(r, a) ==
    LET m == FoundingMember(a) IN
    IF a.op = "onboard"
    THEN {PlatformRow(r, "COMPANY_ONBOARDED", a.company, a.actor, a.company),
          PlatformRow(r, "MEMBER_ADDED", a.company, a.actor, Id(m))}
    ELSE IF a.actor = Nil THEN {}
    ELSE {AuditRow(r, "MEMBER_ADDED", a.company, a.actor, Id(m), Id(m), {})}

\* An actor that is no user ends the transaction: as the code's own check or as
\* the foreign key of the audit row.
ActorMissing(a) == a.actor # Nil /\ a.actor \notin users

CommitFounding(r) ==
    LET a == call[r] IN
    /\ pc[r] = "commit"
    /\ ~ActorMissing(a)
    /\ users' = users \cup {OwnerEmail(a)}
    /\ companies' = companies \cup {a.company}
    /\ members' = members \cup {FoundingMember(a)}
    /\ trail' = trail \cup FoundingRows(r, a)
    /\ Goto(r, "done")
    /\ UNCHANGED <<call, tenant, began>>

RollbackFounding(r) ==
    /\ pc[r] = "commit"
    /\ ActorMissing(call[r])
    /\ Goto(r, "failed")
    /\ UNCHANGED <<tables, call, tenant, began>>

OnboardingStep(r) ==
    \/ \E a \in Calls : Register(r, a) \/ StartFounding(r, a)
    \/ InsertUser(r)
    \/ InsertCompany(r)
    \/ InsertOwner(r)
    \/ CommitFounding(r)
    \/ RollbackFounding(r)

===============================================================================
