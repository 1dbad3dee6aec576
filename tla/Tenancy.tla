--------------------------------- MODULE Tenancy ---------------------------------
(* Onboarding, members, shareholders and audit listings at once: any number of *)
(* requests, each awaiting one statement at a time, over the same tables.      *)
EXTENDS Onboarding, Members, Shareholders, AuditListing

ASSUME CallsAssumption ==
    Calls \subseteq RegisterCall \cup FoundingCall \cup InviteCall
        \cup AddHolderCall \cup EditHolderCall \cup WalkCall \cup WalkAllCall
ASSUME NilAssumption == Nil \notin Calls \cup Requests \cup Email \cup Texts \cup Row
ASSUME RequestsAssumption == IsFiniteSet(Requests)

vars == <<base, holderVars, walk>>

Init ==
    /\ BaseInit
    /\ ShareholdersInit
    /\ walk = [r \in Requests |-> Nil]

\* The entity of an update dies with its request.
Die(r) ==
    /\ Abort(r)
    /\ entity' = [entity EXCEPT ![r] = Nil]
    /\ UNCHANGED <<holders, overlapped, walk>>

Next ==
    \E r \in Requests :
        \/ OnboardingStep(r)   /\ UNCHANGED <<holderVars, walk>>
        \/ MembersStep(r)      /\ UNCHANGED <<holderVars, walk>>
        \/ ShareholdersStep(r) /\ UNCHANGED walk
        \/ ListingStep(r)      /\ UNCHANGED holderVars
        \/ Die(r)

Spec == Init /\ [][Next]_vars

-------------------------------------------------------------------------------
(* Properties *)

Label ==
    {"start", "insertUser", "insertCompany", "insertOwner", "commit", "checkMember",
     "insertMember", "insertHolder", "find", "reload", "write", "page", "count"}
        \cup Logging \cup Ended

Change == Column \X (Texts \cup {Nil}) \X (Texts \cup {Nil})
Place == Companies \X Email

AuditRows ==
    [by : Requests, company : Companies, actor : Email \cup {Nil},
     action : {"COMPANY_ONBOARDED", "MEMBER_ADDED", "SHAREHOLDER_CREATED",
               "SHAREHOLDER_UPDATED"},
     membership : Place \cup {Nil}, entity : Companies \cup Place \cup Requests,
     changes : SUBSET Change]

\* The type invariant.
TypeOK ==
    /\ users \subseteq Email
    /\ companies \subseteq Companies
    /\ members \subseteq Member
    /\ trail \subseteq AuditRows
    /\ pc \in [Requests -> Label]
    /\ call \in [Requests -> Calls \cup {Nil}]
    /\ tenant \in [Requests -> Member \cup {Nil}]
    /\ began \in [Requests -> 0..Cardinality(Requests)]
    /\ holders \in [Requests -> Row \cup {Nil}]
    /\ entity \in [Requests ->
          [before : Row, after : Row, dirty : SUBSET Column] \cup {Nil}]
    /\ overlapped \subseteq Requests
    /\ walk \in [Requests ->
          [page : Nat, got : SUBSET trail, due : SUBSET trail] \cup {Nil}]

\* No set of requests waits for its own inserts: both ways to found a company
\* insert the company before the owner, so the requests that wait for an e-mail
\* wait for a transaction that waits for nothing.
Awaits(r, s) == AwaitsCompany(r, s) \/ AwaitsUser(r, s)

WaitsEnd ==
    LET waiting == {r \in Requests : \E s \in Requests : Awaits(r, s)} IN
    \A ring \in (SUBSET waiting) \ {{}} :
        \E r \in ring : \A s \in ring : ~Awaits(r, s)

\* Who let a member in is on record: a membership has exactly one MEMBER_ADDED
\* row, in its company's trail, unless its request is between the insert and the
\* log, or died there, or the company was founded without an initiator; and no
\* such row is about a membership that does not exist.
Additions(m) == {t \in trail : t.action = "MEMBER_ADDED" /\ t.entity = Id(m)}

Unrecorded(m) ==
    \E r \in Requests :
        \/ /\ pc[r] \in {"logMember", "unlogged"}
           /\ call[r].op = "invite" /\ Invited(call[r]) = m
        \/ /\ pc[r] = "done"
           /\ call[r].op = "found" /\ call[r].actor = Nil
           /\ FoundingMember(call[r]) = m

MembersAccounted ==
    /\ \A m, n \in members : Id(m) = Id(n) => m = n
    /\ \A m \in members :
          IF Unrecorded(m) THEN Additions(m) = {} ELSE \E t \in Additions(m) : Additions(m) = {t}
    /\ \A t \in trail : t.action = "MEMBER_ADDED" =>
          \E m \in members : t.entity = Id(m) /\ t.company = m.company

\* Tenants are kept apart: a row of a company's trail that names a membership
\* was caused by the active member of that company it names, in a role the route
\* allows, and is about something of that company.  A row of
\* createCompanyWithAdmin names the membership it is about, the new owner's of
\* that company, and its actor is always somebody else.
MayCause(role, action) ==
    role = "OWNER" \/ (role \in Writers /\ action # "MEMBER_ADDED")

MembersAct ==
    \A t \in trail : t.membership # Nil /\ call[t.by].op # "found" =>
        /\ \E m \in members :
              /\ t.membership = Id(m) /\ Id(m) = <<t.company, t.actor>>
              /\ m.status = "ACTIVE" /\ MayCause(m.role, t.action)
        /\ t.action # "MEMBER_ADDED" =>
              t.entity \in Existing /\ tenant[t.entity].company = t.company

FoundersBelong ==
    \A t \in trail : call[t.by].op = "found" =>
        /\ t.membership = t.entity
        /\ \E m \in members :
              /\ t.entity = Id(m) /\ m.company = t.company /\ m.user # t.actor
              /\ m.role = "OWNER" /\ m.status = "ACTIVE"

ActorsBelong == MembersAct /\ FoundersBelong

\* The trail of a shareholder tells what its columns are: the newest row that
\* names a column gives its value, and without one it is as it was created, until
\* an update begins before the creation or another update is over, or an update is
\* not logged.
Tells(t, h, c) == t.entity = h /\ \E x \in t.changes : x[1] = c

Untold(h) ==
    \/ h \in overlapped
    \/ \E r \in Requests : /\ pc[r] \in {"logUpdate", "unlogged"}
                           /\ call[r].op = "editHolder" /\ call[r].holder = h

ShareholderTrailReplays ==
    \A h \in Existing : ~Untold(h) => \A c \in Column :
        \/ holders[h][c] = call[h].set[c] /\ \A t \in trail : ~Tells(t, h, c)
        \/ \E t \in trail :
              /\ Tells(t, h, c) /\ <<c, holders[h][c]>> \in {<<x[1], x[3]>> : x \in t.changes}
              /\ \A u \in trail : Tells(u, h, c) => began[u.by] <= began[t.by]

\* A client that walks through all pages of the trail has got every row there was
\* when it began, except perhaps rows that were written in one transaction, whose
\* order changes from query to query.
PagesMissOnlyTies ==
    \A r \in Requests : pc[r] = "done" /\ walk[r] # Nil =>
        \A t \in walk[r].due \ walk[r].got : \E u \in trail : u # t /\ u.by = t.by

\* The handlers are atomic steps of TenantDirectory until an e-mail is stored as
\* it was typed: from then on a person may have two accounts.
TD == INSTANCE TenantDirectory WITH
        Persons <- Addresses, Roles <- Role, Statuses <- MemberStatus,
        accounts <- {u[1] : u \in users},
        founded <- companies,
        roster <- {<<m.company, m.user[1], m.role, m.status>> : m \in members}

StoredAsTyped == \E u \in users : u # Normal(u)

ImplementsTenantDirectory ==
    [][StoredAsTyped' \/ TD!Next]_<<users, companies, members>>

===============================================================================
