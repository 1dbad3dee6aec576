------------------------------ MODULE TenancyProofs ------------------------------
(* Theorems of Tenancy, for any requests, calls and tables.                    *)
(*                                                                             *)
(* Local says what a request knows at each statement: the call it serves, the  *)
(* membership its guard found, the row it has in memory.  Everything else is   *)
(* proved from it, one invariant on top of the other: the keys that open       *)
(* transactions hold, who has placed which membership, who has caused which    *)
(* audit row, the order of the audit transactions, what the trail tells of     *)
(* each shareholder, what a walk through the pages of a listing has missed.    *)
EXTENDS Tenancy, FiniteSetTheorems, TLAPS

Founding == {"insertCompany", "insertOwner", "commit"}
Inviting == {"checkMember", "insertMember", "logMember"}
Adding   == {"insertHolder", "logCreate"}
Editing  == {"find", "reload", "write", "logUpdate"}
Walking  == {"page", "count"}

\* The membership a guard found is still there and allows the route.
Joined(r, roles) ==
    /\ tenant[r] \in members /\ tenant[r].status = "ACTIVE" /\ tenant[r].role \in roles
    /\ tenant[r].company = call[r].company /\ tenant[r].user = call[r].actor

Loaded == [before : Row, after : Row, dirty : SUBSET Column]
Pages  == [page : Nat, got : SUBSET trail, due : SUBSET trail]

Stage(r) ==
    /\ pc[r] # "start" => call[r] \in Calls
    /\ pc[r] = "insertUser" => call[r].op = "register"
    /\ pc[r] \in Founding => call[r].op \in FoundingOps
    /\ pc[r] \in Inviting => call[r].op = "invite" /\ Joined(r, {"OWNER"})
    /\ pc[r] \in Adding => call[r].op = "addHolder" /\ Joined(r, Writers)
    /\ pc[r] \in Editing => call[r].op = "editHolder" /\ Joined(r, Writers)
    /\ pc[r] \in Walking => call[r].op \in {"walk", "walkAll"} /\ walk[r] \in Pages
    /\ pc[r] = "logCreate" => r \in Existing
    /\ pc[r] \in {"reload", "write", "logUpdate"} =>
          /\ entity[r] \in Loaded /\ call[r].holder \in Existing
          /\ tenant[call[r].holder].company = tenant[r].company
    /\ pc[r] \in {"start", "insertUser"} \cup Inviting \cup Adding \cup Editing => began[r] = 0
    /\ r \in Existing => pc[r] # "start"

Local == TypeOK /\ \A r \in Requests : Stage(r)

-------------------------------------------------------------------------------
\* What a call is follows from its name.
LEMMA CallKinds ==
    ASSUME NEW a \in Calls
    PROVE  /\ a.op = "register" => a \in RegisterCall
           /\ a.op \in FoundingOps => a \in FoundingCall
           /\ a.op = "invite" => a \in InviteCall
           /\ a.op = "addHolder" => a \in AddHolderCall
           /\ a.op = "editHolder" => a \in EditHolderCall
           /\ a.op = "walk" => a \in WalkCall
<1>1. a \in RegisterCall \cup FoundingCall \cup InviteCall \cup AddHolderCall
            \cup EditHolderCall \cup WalkCall \cup WalkAllCall
  BY CallsAssumption
<1>2. CASE a \in RegisterCall
  BY <1>2 DEF RegisterCall, FoundingOps
<1>3. CASE a \in FoundingCall
  BY <1>3 DEF FoundingCall, FoundingOps
<1>4. CASE a \in InviteCall
  BY <1>4 DEF InviteCall, FoundingOps
<1>5. CASE a \in AddHolderCall
  BY <1>5 DEF AddHolderCall, FoundingOps
<1>6. CASE a \in EditHolderCall
  BY <1>6 DEF EditHolderCall, FoundingOps
<1>7. CASE a \in WalkCall
  BY <1>7 DEF WalkCall, FoundingOps
<1>8. CASE a \in WalkAllCall
  BY <1>8 DEF WalkAllCall, FoundingOps
<1> QED
  BY <1>1, <1>2, <1>3, <1>4, <1>5, <1>6, <1>7, <1>8

\* The body of an update is assigned over a row.
LEMMA AssignRow ==
    ASSUME NEW row \in Row, NEW a \in EditHolderCall
    PROVE  Assign(row, a.set) \in Row
<1>1. PICK C \in SUBSET Column : a.set \in [C -> Texts]
  BY DEF EditHolderCall
<1>2. \A c \in Column : (IF c \in DOMAIN a.set THEN a.set[c] ELSE row[c]) \in Texts \cup {Nil}
  BY <1>1 DEF Row
<1> QED
  BY <1>2 DEF Assign, Row

\* A transaction that starts has a place in the order.
LEMMA BeginsInOrder ==
    ASSUME NEW r \in Requests, began \in [Requests -> 0..Cardinality(Requests)],
           began[r] = 0, Began(r)
    PROVE  began' \in [Requests -> 0..Cardinality(Requests)]
<1> DEFINE S == {s \in Requests : began[s] # 0}
<1>1. S \subseteq Requests \ {r}
  OBVIOUS
<1>2. IsFiniteSet(Requests \ {r}) /\ Cardinality(Requests \ {r}) = Cardinality(Requests) - 1
  BY FS_RemoveElement, RequestsAssumption
<1>3. Cardinality(S) <= Cardinality(Requests) - 1 /\ IsFiniteSet(S)
  BY <1>1, <1>2, FS_Subset
<1>4. Cardinality(S) \in Nat /\ Cardinality(Requests) \in Nat
  BY <1>3, FS_CardinalityType, RequestsAssumption
<1> HIDE DEF S
<1>5. Cardinality(S) + 1 \in 0..Cardinality(Requests)
  BY <1>3, <1>4
<1>6. began' = [began EXCEPT ![r] = Cardinality(S) + 1]
  BY DEF Began, S
<1> QED
  BY <1>5, <1>6

\* The rows that the handlers write are audit rows.
LEMMA TenantRowType ==
    ASSUME NEW r \in Requests, NEW t \in Member, NEW action, NEW e, NEW changes,
           action \in {"MEMBER_ADDED", "SHAREHOLDER_CREATED", "SHAREHOLDER_UPDATED"},
           e \in Companies \cup Place \cup Requests, changes \in SUBSET Change
    PROVE  TenantRow(r, action, t, e, changes) \in AuditRows
BY DEF TenantRow, AuditRow, AuditRows, Member, Id, Place

LEMMA FoundingRowsType ==
    ASSUME NEW r \in Requests, NEW a \in FoundingCall
    PROVE  FoundingRows(r, a) \subseteq AuditRows /\ FoundingMember(a) \in Member
<1>1. OwnerEmail(a) \in Email
  BY DEF OwnerEmail, FoundingCall, Normal, Email
<1>2. FoundingMember(a) \in Member
  BY <1>1 DEF FoundingMember, Member, FoundingCall, Role, MemberStatus
<1>3. Id(FoundingMember(a)) \in Place
  BY <1>1 DEF FoundingMember, Id, Place, FoundingCall
<1> QED
  BY <1>2, <1>3 DEF FoundingRows, PlatformRow, AuditRow, AuditRows, FoundingCall

-------------------------------------------------------------------------------
(* Local is inductive *)

\* What a step of r leaves to the other requests.
Frame(r) ==
    /\ \A q \in Requests \ {r} :
          /\ pc'[q] = pc[q] /\ call'[q] = call[q] /\ tenant'[q] = tenant[q]
          /\ began'[q] = began[q] /\ entity'[q] = entity[q] /\ walk'[q] = walk[q]
          /\ q \in Existing' <=> q \in Existing
    /\ members \subseteq members' /\ trail \subseteq trail'
    /\ r \in Existing => r \in Existing' /\ tenant'[r] = tenant[r]

LEMMA StageFrame ==
    ASSUME Local, NEW r \in Requests, Frame(r), NEW q \in Requests \ {r}
    PROVE  Stage(q)'
<1>1. Stage(q)
  BY DEF Local
<1>2. \A roles : Joined(q, roles) => Joined(q, roles)'
  BY DEF Joined, Frame
<1>3. walk[q] \in Pages => walk'[q] \in Pages'
  BY DEF Frame, Pages
<1>4. ASSUME call[q].holder \in Existing
      PROVE  call'[q].holder \in Existing' /\ tenant'[call'[q].holder] = tenant[call[q].holder]
  <2>1. call[q].holder \in Requests
    BY <1>4 DEF Existing
  <2> QED
    BY <1>4, <2>1 DEF Frame
<1> QED
  BY <1>1, <1>2, <1>3, <1>4 DEF Stage, Frame, Loaded

\* A request that fails or is refused knows nothing any more.
LEMMA GuardLocal ==
    ASSUME Local, NEW r \in Requests, NEW a \in Calls, NEW roles, NEW label \in Label,
           PassGuards(r, a, roles, label) \/ CompanyNotActive(r, a),
           UNCHANGED holderVars, walk' \in [Requests -> Pages \cup {Nil}],
           \A q \in Requests \ {r} : walk'[q] = walk[q]
    PROVE  /\ TypeOK' /\ Frame(r) /\ call'[r] = a /\ began'[r] = began[r]
           /\ ~(r \in Existing')
           /\ \/ pc'[r] = label /\ Joined(r, roles)'
              \/ pc'[r] = "refused"
<1>1. PICK label2 \in {label, "refused"} : pc' = [pc EXCEPT ![r] = label2]
  BY DEF PassGuards, CompanyNotActive, Goto
<1>2. pc[r] = "start" /\ r \notin Existing
  BY DEF PassGuards, CompanyNotActive, Local, Stage
<1>3. /\ call' = [call EXCEPT ![r] = a] /\ UNCHANGED <<tables, began>>
      /\ UNCHANGED tenant \/ \E m \in members : tenant' = [tenant EXCEPT ![r] = m]
  BY DEF PassGuards, CompanyNotActive, ActiveMembership, MembersAt
<1>4. pc' \in [Requests -> Label]
  BY <1>1 DEF Local, TypeOK, Label, Ended
<1>5. TypeOK'
  BY <1>3, <1>4 DEF Local, TypeOK, tables, holderVars, Pages
<1>6. Frame(r)
  BY <1>1, <1>2, <1>3 DEF Frame, Local, TypeOK, Existing, tables, holderVars
<1>7. ASSUME pc'[r] # "refused" PROVE pc'[r] = label /\ Joined(r, roles)'
  <2>1. \E m \in {m \in ActiveMembership(a) : RoleAllowed(m, roles)} :
           Goto(r, label) /\ tenant' = [tenant EXCEPT ![r] = m]
    BY <1>7, <1>1 DEF PassGuards, CompanyNotActive, Goto, Local, TypeOK
  <2>2. tenant \in [Requests -> Member \cup {Nil}] /\ pc \in [Requests -> Label]
    BY DEF Local, TypeOK
  <2> QED
    BY <2>1, <2>2, <1>3, <1>4
    DEF Joined, ActiveMembership, RoleAllowed, MembersAt, Goto, tables, Local, TypeOK
<1> QED
  BY <1>2, <1>3, <1>5, <1>6, <1>7 DEF Local, TypeOK, Existing, holderVars

LEMMA OnboardingLocal ==
    ASSUME Local, NEW r \in Requests, OnboardingStep(r), UNCHANGED <<holderVars, walk>>
    PROVE  TypeOK' /\ Frame(r) /\ Stage(r)'
<1> USE DEF Local, TypeOK, tables, holderVars, Goto
<1>0. Stage(r) /\ (r \in Existing' <=> r \in Existing)
  BY DEF Existing
<1>1. ASSUME NEW a \in Calls, Register(r, a)
      PROVE  TypeOK' /\ Frame(r) /\ Stage(r)'
  <2>1. TypeOK' /\ Frame(r)
    BY <1>1 DEF Register, Label, Ended, Frame, Existing
  <2> QED
    BY <1>0, <1>1, <2>1
    DEF Register, Stage, Founding, Inviting, Adding, Editing, Walking, Existing
<1>2. ASSUME NEW a \in Calls, StartFounding(r, a)
      PROVE  TypeOK' /\ Frame(r) /\ Stage(r)'
  <2>1. pc[r] = "start" /\ call' = [call EXCEPT ![r] = a] /\ a.op \in FoundingOps
    BY <1>2 DEF StartFounding
  <2>2. began' \in [Requests -> 0..Cardinality(Requests)]
        /\ \A q \in Requests \ {r} : began'[q] = began[q]
    <3>1. Began(r) \/ UNCHANGED began
      BY <1>2 DEF StartFounding
    <3>2. began[r] = 0
      BY <1>0, <2>1 DEF Stage
    <3>3. Began(r) => began' \in [Requests -> 0..Cardinality(Requests)]
      BY <3>2, BeginsInOrder
    <3> QED
      BY <3>1, <3>3 DEF Began
  <2>3. pc' = [pc EXCEPT ![r] = "refused"] \/ pc' = [pc EXCEPT ![r] = "insertCompany"]
    BY <1>2 DEF StartFounding
  <2>4. TypeOK' /\ Frame(r)
    BY <1>2, <2>1, <2>2, <2>3 DEF StartFounding, Label, Ended, Frame, Existing
  <2> QED
    BY <1>0, <1>2, <2>1, <2>3, <2>4
    DEF StartFounding, Stage, Founding, Inviting, Adding, Editing, Walking, Existing
<1>3. ASSUME pc[r] \in {"insertUser", "insertCompany", "insertOwner", "commit"},
             call[r] \in Calls,
             NEW l \in {"failed", "done", "insertOwner", "commit"},
             pc' = [pc EXCEPT ![r] = l], pc[r] = "insertUser" => l \in Ended,
             users' \subseteq Email, companies' \subseteq Companies,
             members' \subseteq Member, trail' \subseteq AuditRows,
             members \subseteq members', trail \subseteq trail',
             UNCHANGED <<call, tenant, began>>
      PROVE  TypeOK' /\ Frame(r) /\ Stage(r)'
  <2>1. walk' \in [Requests -> [page : Nat, got : SUBSET trail', due : SUBSET trail'] \cup {Nil}]
    BY <1>3
  <2>2. TypeOK'
    BY <1>3, <2>1 DEF Label, Ended
  <2>3. Frame(r)
    BY <1>3 DEF Frame, Existing
  <2>4. call[r].op \in FoundingOps \/ l \in Ended
    BY <1>0, <1>3 DEF Stage, Founding
  <2> QED
    BY <1>0, <1>3, <2>2, <2>3, <2>4
    DEF Stage, Founding, Inviting, Adding, Editing, Walking, Existing, Ended
<1>4. CASE InsertUser(r)
  <2>1. call[r] \in Calls /\ call[r] \in RegisterCall
    BY <1>0, <1>4, CallKinds DEF InsertUser, Stage
  <2>2. Normal(call[r].email) \in Email
    BY <2>1 DEF RegisterCall, Normal, Email
  <2> QED
    BY <1>3, <1>4, <2>1, <2>2 DEF InsertUser, Ended
<1>5. CASE InsertCompany(r) \/ InsertOwner(r) \/ RollbackFounding(r)
  <2>1. call[r] \in Calls
    BY <1>0, <1>5 DEF InsertCompany, InsertOwner, RollbackFounding, Stage
  <2> QED
    BY <1>3, <1>5, <2>1 DEF InsertCompany, InsertOwner, RollbackFounding
<1>6. CASE CommitFounding(r)
  <2>1. call[r] \in Calls /\ call[r] \in FoundingCall
    BY <1>0, <1>6, CallKinds DEF CommitFounding, Stage, Founding
  <2>2. FoundingRows(r, call[r]) \subseteq AuditRows /\ FoundingMember(call[r]) \in Member
    BY <2>1, FoundingRowsType
  <2>3. OwnerEmail(call[r]) \in Email /\ call[r].company \in Companies
    BY <2>1 DEF OwnerEmail, FoundingCall, Normal, Email
  <2> QED
    BY <1>3, <1>6, <2>1, <2>2, <2>3 DEF CommitFounding
<1> QED
  BY <1>1, <1>2, <1>4, <1>5, <1>6 DEF OnboardingStep

LEMMA MembersLocal ==
    ASSUME Local, NEW r \in Requests, MembersStep(r), UNCHANGED <<holderVars, walk>>
    PROVE  TypeOK' /\ Frame(r) /\ Stage(r)'
<1>0. Stage(r) /\ (r \in Existing' <=> r \in Existing)
  BY DEF Existing, Local, holderVars
<1>1. ASSUME NEW a \in Calls, Invite(r, a)
      PROVE  TypeOK' /\ Frame(r) /\ Stage(r)'
  <2>1. walk' \in [Requests -> Pages \cup {Nil}]
    BY DEF Local, TypeOK, Pages
  <2>2. /\ TypeOK' /\ Frame(r) /\ call'[r] = a /\ began'[r] = began[r] /\ ~(r \in Existing')
        /\ \/ pc'[r] = "checkMember" /\ Joined(r, {"OWNER"})'
           \/ pc'[r] = "refused"
    BY <1>1, <2>1, GuardLocal DEF Invite, Label
  <2>3. pc[r] = "start" /\ a.op = "invite"
    BY <1>1 DEF Invite, PassGuards, CompanyNotActive
  <2> QED
    BY <1>0, <2>2, <2>3 DEF Stage, Founding, Inviting, Adding, Editing, Walking
<1> USE DEF Local, TypeOK, tables, holderVars, Goto
<1>2. ASSUME CheckMember(r) \/ InsertMember(r)
      PROVE  TypeOK' /\ Frame(r) /\ Stage(r)'
  <2>1. /\ call[r] \in Calls /\ call[r].op = "invite" /\ Joined(r, {"OWNER"}) /\ began[r] = 0
        /\ pc[r] \in {"checkMember", "insertMember"}
    BY <1>0, <1>2 DEF CheckMember, InsertMember, Stage, Inviting
  <2>2. Invited(call[r]) \in Member
    BY <2>1, CallKinds DEF Invited, InviteCall, Member
  <2>3. PICK l \in {"insertMember", "refused", "logMember", "failed"} :
           pc' = [pc EXCEPT ![r] = l]
    BY <1>2 DEF CheckMember, InsertMember
  <2>4. /\ members \subseteq members' /\ members' \subseteq Member
        /\ UNCHANGED <<users, companies, trail, call, tenant, began>>
    BY <1>2, <2>2 DEF CheckMember, InsertMember
  <2>5. TypeOK' /\ Frame(r) /\ Joined(r, {"OWNER"})'
    BY <2>1, <2>3, <2>4 DEF Label, Ended, Logging, Frame, Existing, Joined
  <2> QED
    BY <1>0, <2>1, <2>3, <2>4, <2>5
    DEF Stage, Founding, Inviting, Adding, Editing, Walking, Existing
<1>3. CASE LogMember(r)
  <2>1. /\ call[r] \in Calls /\ call[r] \in InviteCall /\ Joined(r, {"OWNER"}) /\ began[r] = 0
    BY <1>0, <1>3, CallKinds DEF LogMember, Stage, Inviting
  <2>2. tenant[r] \in Member /\ Id(Invited(call[r])) \in Place
    BY <2>1 DEF Joined, Invited, Id, Place, InviteCall
  <2>3. TenantRow(r, "MEMBER_ADDED", tenant[r], Id(Invited(call[r])), {}) \in AuditRows
    BY <2>2, TenantRowType
  <2>4. began' \in [Requests -> 0..Cardinality(Requests)]
        /\ \A q \in Requests \ {r} : began'[q] = began[q]
    BY <1>3, <2>1, BeginsInOrder DEF LogMember, Began
  <2>5. trail \subseteq trail' /\ trail' \subseteq AuditRows
    BY <1>3, <2>3 DEF LogMember
  <2>6. walk' \in [Requests -> [page : Nat, got : SUBSET trail', due : SUBSET trail'] \cup {Nil}]
    BY <2>5
  <2>7. TypeOK'
    BY <1>3, <2>4, <2>5, <2>6 DEF LogMember, Label, Ended
  <2>8. Frame(r)
    BY <1>3, <2>4, <2>5 DEF LogMember, Frame, Existing
  <2> QED
    BY <1>0, <1>3, <2>1, <2>7, <2>8
    DEF LogMember, Stage, Founding, Inviting, Adding, Editing, Walking, Existing
<1> QED
  BY <1>1, <1>2, <1>3 DEF MembersStep

\* A row that a request of a tenant writes to the trail, at the end of what it does.
LEMMA LogLocal ==
    ASSUME Local, NEW r \in Requests, pc[r] \in Logging, NEW row \in AuditRows,
           trail' = trail \cup {row}, Began(r), Goto(r, "done"),
           entity' = entity \/ entity' = [entity EXCEPT ![r] = Nil],
           UNCHANGED <<users, companies, members, call, tenant, holders, overlapped, walk>>
    PROVE  TypeOK' /\ Frame(r) /\ Stage(r)'
<1> USE DEF Local, TypeOK, Goto
<1>1. Stage(r) /\ began[r] = 0 /\ call[r] \in Calls
  BY DEF Stage, Logging, Inviting, Adding, Editing
<1>2. began' \in [Requests -> 0..Cardinality(Requests)]
      /\ \A q \in Requests \ {r} : began'[q] = began[q]
  BY <1>1, BeginsInOrder DEF Began
<1>3. walk' \in [Requests -> [page : Nat, got : SUBSET trail', due : SUBSET trail'] \cup {Nil}]
  OBVIOUS
<1>4. TypeOK' /\ Frame(r)
  BY <1>2, <1>3 DEF Label, Ended, Frame, Existing
<1> QED
  BY <1>1, <1>4 DEF Stage, Founding, Inviting, Adding, Editing, Walking, Existing

LEMMA ShareholdersLocal ==
    ASSUME Local, NEW r \in Requests, ShareholdersStep(r), UNCHANGED walk
    PROVE  TypeOK' /\ Frame(r) /\ Stage(r)'
<1>0. Stage(r)
  BY DEF Local
<1>1. ASSUME NEW a \in Calls, AddHolder(r, a) \/ EditHolder(r, a)
      PROVE  TypeOK' /\ Frame(r) /\ Stage(r)'
  <2>1. walk' \in [Requests -> Pages \cup {Nil}]
    BY DEF Local, TypeOK, Pages
  <2>2. PICK label \in {"insertHolder", "find"} :
           /\ PassGuards(r, a, Writers, label) \/ CompanyNotActive(r, a)
           /\ a.op = IF label = "find" THEN "editHolder" ELSE "addHolder"
    BY <1>1 DEF AddHolder, EditHolder
  <2>3. /\ TypeOK' /\ Frame(r) /\ call'[r] = a /\ began'[r] = began[r] /\ ~(r \in Existing')
        /\ \/ pc'[r] = label /\ Joined(r, Writers)'
           \/ pc'[r] = "refused"
    <3>1. label \in Label /\ UNCHANGED holderVars
      BY <1>1 DEF Label, AddHolder, EditHolder
    <3> QED
      BY <2>1, <2>2, <3>1, GuardLocal
  <2>4. pc[r] = "start"
    BY <2>2 DEF PassGuards, CompanyNotActive
  <2> QED
    BY <1>0, <2>2, <2>3, <2>4 DEF Stage, Founding, Inviting, Adding, Editing, Walking
<1> USE DEF Local, TypeOK, tables, Goto
<1>2. CASE InsertHolder(r)
  <2>1. /\ call[r] \in Calls /\ call[r] \in AddHolderCall /\ began[r] = 0
        /\ call[r].op = "addHolder" /\ Joined(r, Writers) /\ call[r].set \in Row
    BY <1>0, <1>2, CallKinds DEF InsertHolder, Stage, Adding, AddHolderCall
  <2>2. PICK l \in {"logCreate", "failed"} : pc' = [pc EXCEPT ![r] = l]
    BY <1>2 DEF InsertHolder
  <2>3. /\ l = "logCreate" => holders' = [holders EXCEPT ![r] = call[r].set]
        /\ l = "failed" => holders' = holders
    BY <1>2, <2>2 DEF InsertHolder
  <2>4. call[r].set # Nil
    BY <2>1, NilAssumption
  <2>5. TypeOK'
    BY <1>2, <2>1, <2>2, <2>3 DEF InsertHolder, Label, Ended, Logging
  <2>6. Frame(r) /\ (l = "logCreate" => r \in Existing')
    BY <1>2, <2>2, <2>3, <2>4 DEF InsertHolder, Frame, Existing
  <2> QED
    BY <1>2, <2>1, <2>2, <2>5, <2>6
    DEF InsertHolder, Stage, Founding, Inviting, Adding, Editing, Walking, Joined
<1>3. CASE LogCreate(r)
  <2>1. tenant[r] \in Member /\ r \in Existing /\ call[r].set \in Row
    BY <1>0, <1>3, CallKinds DEF LogCreate, Stage, Adding, Joined, AddHolderCall
  <2>2. <<"email", Nil, call[r].set["email"]>> \in Change
    BY <2>1 DEF Row, Column, Change
  <2>3. TenantRow(r, "SHAREHOLDER_CREATED", tenant[r], r,
                  {<<"email", Nil, call[r].set["email"]>>}) \in AuditRows
    BY <2>1, <2>2, TenantRowType
  <2> QED
    BY <1>3, <2>3, LogLocal DEF LogCreate, Logging, holderVars
<1>4. CASE FindHolder(r)
  <2>1. /\ call[r] \in Calls /\ call[r] \in EditHolderCall /\ began[r] = 0
        /\ call[r].op = "editHolder" /\ Joined(r, Writers) /\ call[r].holder \in Requests
    BY <1>0, <1>4, CallKinds DEF FindHolder, Stage, Editing, EditHolderCall
  <2>2. CASE pc' = [pc EXCEPT ![r] = "refused"] /\ UNCHANGED <<entity, overlapped>>
    <3>1. TypeOK' /\ Frame(r)
      BY <1>4, <2>1, <2>2 DEF FindHolder, Label, Ended, Frame, Existing
    <3> QED
      BY <1>0, <1>4, <2>1, <2>2, <3>1
      DEF FindHolder, Stage, Founding, Inviting, Adding, Editing, Walking, Existing
  <2>3. CASE ~(call[r].holder \notin Existing
                 \/ tenant[call[r].holder].company # tenant[r].company)
    <3> DEFINE h == call[r].holder
               e == [before |-> holders[h], after |-> Assign(holders[h], call[r].set),
                     dirty |-> {}]
    <3>1. /\ pc' = [pc EXCEPT ![r] = "reload"] /\ entity' = [entity EXCEPT ![r] = e]
          /\ overlapped' \subseteq overlapped \cup {h}
      BY <1>4, <2>3 DEF FindHolder
    <3>2. holders[h] \in Row
      BY <2>3, <2>1 DEF Existing
    <3>3. e \in Loaded
      BY <2>1, <3>2, AssignRow DEF Loaded
    <3> HIDE DEF e
    <3>4. TypeOK'
      BY <1>4, <2>1, <3>1, <3>3 DEF FindHolder, Label, Loaded
    <3>5. Frame(r)
      BY <1>4, <3>1 DEF FindHolder, Frame, Existing
    <3> QED
      BY <1>0, <1>4, <2>1, <2>3, <3>1, <3>3, <3>4, <3>5
      DEF FindHolder, Stage, Founding, Inviting, Adding, Editing, Walking, Existing, Loaded, Joined
  <2> QED
    BY <1>4, <2>2, <2>3 DEF FindHolder
<1>5. CASE ReloadHolder(r) \/ WriteHolder(r)
  <2>1. /\ call[r] \in Calls /\ call[r].op = "editHolder" /\ Joined(r, Writers) /\ began[r] = 0
        /\ entity[r] \in Loaded /\ call[r].holder \in Existing
        /\ tenant[call[r].holder].company = tenant[r].company
        /\ UNCHANGED <<users, companies, members, trail, call, tenant, began, overlapped>>
        /\ pc[r] \in {"reload", "write"}
    BY <1>0, <1>5 DEF ReloadHolder, WriteHolder, Stage, Editing
  <2>2. PICK l \in {"logUpdate", "write", "failed"} : pc' = [pc EXCEPT ![r] = l]
    BY <1>5 DEF ReloadHolder, WriteHolder
  <2>3. entity' \in [Requests -> Loaded \cup {Nil}] /\ entity'[r] \in Loaded
        /\ \A q \in Requests \ {r} : entity'[q] = entity[q]
    <3>1. CASE ReloadHolder(r)
      <4>1. PICK dirty \in SUBSET Column : entity' = [entity EXCEPT ![r].dirty = dirty]
        BY <3>1 DEF ReloadHolder
      <4> QED
        BY <2>1, <4>1 DEF Loaded
    <3>2. CASE WriteHolder(r)
      BY <2>1, <3>2 DEF WriteHolder, Loaded
    <3> QED
      BY <1>5, <3>1, <3>2
  <2>4. holders' \in [Requests -> Row \cup {Nil}]
        /\ \A q \in Requests : q \in Existing' <=> q \in Existing
    <3>1. CASE UNCHANGED holders
      BY <3>1 DEF Existing
    <3>2. CASE holders' = [holders EXCEPT ![call[r].holder] =
                  [c \in Column |-> IF c \in entity[r].dirty THEN entity[r].after[c] ELSE @[c]]]
      <4>1. holders[call[r].holder] \in Row
        BY <2>1 DEF Existing
      <4>2. [c \in Column |-> IF c \in entity[r].dirty THEN entity[r].after[c]
                                ELSE holders[call[r].holder][c]] \in Row
        BY <2>1, <4>1 DEF Loaded, Row
      <4>3. Nil \notin Row
        BY NilAssumption
      <4> QED
        BY <2>1, <3>2, <4>2, <4>3 DEF Existing
    <3> QED
      BY <1>5, <3>1, <3>2 DEF ReloadHolder, WriteHolder
  <2>5. TypeOK'
    BY <2>1, <2>2, <2>3, <2>4, <1>5 DEF ReloadHolder, WriteHolder, Label, Ended, Logging, Loaded
  <2>6. Frame(r)
    BY <1>5, <2>1, <2>2, <2>3, <2>4 DEF ReloadHolder, WriteHolder, Frame
  <2>7. call[r].holder \in Existing'
    BY <2>1, <2>4 DEF Existing
  <2> QED
    BY <1>5, <2>1, <2>2, <2>3, <2>5, <2>6, <2>7
    DEF Stage, Founding, Inviting, Adding, Editing, Walking, Joined, Existing
<1>6. CASE LogUpdate(r)
  <2>1. /\ tenant[r] \in Member /\ entity[r] \in Loaded /\ call[r].holder \in Requests
    BY <1>0, <1>6 DEF LogUpdate, Stage, Editing, Joined, Existing
  <2>2. Changes(entity[r]) \in SUBSET Change
    BY <2>1 DEF Changes, Change, Loaded, Row
  <2>3. TenantRow(r, "SHAREHOLDER_UPDATED", tenant[r], call[r].holder,
                  Changes(entity[r])) \in AuditRows
    BY <2>1, <2>2, TenantRowType
  <2> QED
    BY <1>6, <2>3, LogLocal DEF LogUpdate, Logging
<1> QED
  BY <1>1, <1>2, <1>3, <1>4, <1>5, <1>6 DEF ShareholdersStep

LEMMA ListingLocal ==
    ASSUME Local, NEW r \in Requests, ListingStep(r), UNCHANGED holderVars
    PROVE  TypeOK' /\ Frame(r) /\ Stage(r)'
<1>0. Stage(r) /\ (\A a : Matching(a) \subseteq trail)
  BY DEF Local, Matching
<1>1. ASSUME NEW a \in Calls, Walk(r, a) \/ WalkAll(r, a)
      PROVE  TypeOK' /\ Frame(r) /\ Stage(r)'
  <2> DEFINE w == [page |-> 1, got |-> {}, due |-> Matching(a)]
  <2>1. w \in Pages /\ walk' = [walk EXCEPT ![r] = w]
    BY <1>0, <1>1 DEF Walk, WalkAll, Start, Pages
  <2> HIDE DEF w
  <2>2. /\ walk' \in [Requests -> Pages \cup {Nil}] /\ walk'[r] \in Pages
        /\ \A q \in Requests \ {r} : walk'[q] = walk[q]
    BY <2>1 DEF Local, TypeOK, Pages
  <2>3. pc[r] = "start" /\ trail' = trail
    BY <1>1 DEF Walk, WalkAll, PassGuards, tables
  <2>4. walk'[r] \in Pages'
    BY <2>2, <2>3 DEF Pages
  <2>5. CASE Walk(r, a)
    <3>1. /\ TypeOK' /\ Frame(r) /\ call'[r] = a /\ ~(r \in Existing')
          /\ pc'[r] = "page" \/ pc'[r] = "refused"
      BY <2>2, <2>5, GuardLocal DEF Walk, Label
    <3> QED
      BY <1>0, <2>4, <2>5, <3>1 DEF Walk, Stage, Founding, Inviting, Adding, Editing, Walking
  <2>6. CASE WalkAll(r, a)
    <3>1. TypeOK' /\ Frame(r)
      BY <2>2, <2>3, <2>6
      DEF WalkAll, Goto, Local, TypeOK, tables, holderVars, Label, Frame, Existing, Pages
    <3> QED
      BY <1>0, <2>3, <2>4, <2>6, <3>1
      DEF WalkAll, Goto, Local, TypeOK, holderVars, Stage, Founding, Inviting, Adding, Editing,
          Walking, Existing
  <2> QED
    BY <1>1, <2>5, <2>6
<1>2. CASE ReadPage(r) \/ CountRows(r)
  <2>1. /\ walk[r] \in Pages /\ call[r] \in Calls /\ call[r].op \in {"walk", "walkAll"}
        /\ pc[r] \in Walking
    BY <1>0, <1>2 DEF ReadPage, CountRows, Stage, Walking
  <2>2. PICK w \in Pages : walk' = [walk EXCEPT ![r] = w]
    <3>1. CASE ReadPage(r)
      <4>1. PICK rows \in PageOf(Matching(call[r]), walk[r].page) :
               walk' = [walk EXCEPT ![r].got = @ \cup rows]
        BY <3>1 DEF ReadPage
      <4>2. rows \subseteq trail
        BY <1>0 DEF PageOf
      <4> DEFINE w == [walk[r] EXCEPT !.got = @ \cup rows]
      <4>3. w \in Pages
        BY <2>1, <4>2 DEF Pages
      <4>4. walk' = [walk EXCEPT ![r] = w]
        BY <2>1, <4>1 DEF Pages
      <4> QED
        BY <4>3, <4>4
    <3>2. CASE CountRows(r)
      <4>1. UNCHANGED walk \/ walk' = [walk EXCEPT ![r].page = @ + 1]
        BY <3>2 DEF CountRows
      <4>2. CASE UNCHANGED walk
        BY <2>1, <4>2 DEF Local, TypeOK
      <4>3. CASE walk' = [walk EXCEPT ![r].page = @ + 1]
        <5> DEFINE w == [walk[r] EXCEPT !.page = @ + 1]
        <5>1. w \in Pages /\ walk' = [walk EXCEPT ![r] = w]
          BY <2>1, <4>3 DEF Pages
        <5> QED
          BY <5>1
      <4> QED
        BY <4>1, <4>2, <4>3
    <3> QED
      BY <1>2, <3>1, <3>2
  <2>3. PICK l \in {"page", "count", "done"} : pc' = [pc EXCEPT ![r] = l]
    BY <1>2 DEF ReadPage, CountRows, Goto
  <2>4. UNCHANGED <<tables, call, tenant, began>>
    BY <1>2 DEF ReadPage, CountRows
  <2>5. walk' \in [Requests -> Pages \cup {Nil}] /\ walk'[r] \in Pages'
    BY <2>2, <2>4 DEF Local, TypeOK, Pages, tables
  <2>6. TypeOK' /\ Frame(r)
    BY <2>2, <2>3, <2>4, <2>5
    DEF Local, TypeOK, tables, holderVars, Label, Ended, Frame, Existing, Pages
  <2> QED
    BY <1>0, <2>1, <2>3, <2>4, <2>5, <2>6
    DEF Local, TypeOK, holderVars, Stage, Founding, Inviting, Adding, Editing, Walking, Existing
<1> QED
  BY <1>1, <1>2 DEF ListingStep

LEMMA DieLocal ==
    ASSUME Local, NEW r \in Requests, Die(r)
    PROVE  TypeOK' /\ Frame(r) /\ Stage(r)'
<1> USE DEF Local, TypeOK, tables
<1>1. Stage(r) /\ pc[r] # "start"
  BY DEF Die, Abort, InFlight
<1>2. PICK l \in {"failed", "unlogged"} : pc' = [pc EXCEPT ![r] = l]
  BY DEF Die, Abort, Goto
<1>3. TypeOK' /\ Frame(r)
  BY <1>2 DEF Die, Abort, Label, Ended, Frame, Existing
<1> QED
  BY <1>1, <1>2, <1>3 DEF Die, Abort, Stage, Founding, Inviting, Adding, Editing, Walking, Existing

LEMMA LocalInit == Init => Local
<1> SUFFICES ASSUME Init PROVE Local
  OBVIOUS
<1>1. users \subseteq Email
  BY DEF Init, BaseInit, Normal, Email
<1>2. 0 \in 0..Cardinality(Requests)
  BY FS_CardinalityType, RequestsAssumption
<1>3. TypeOK
  BY <1>1, <1>2 DEF Init, BaseInit, ShareholdersInit, TypeOK, Label
<1>4. ASSUME NEW r \in Requests PROVE Stage(r)
  BY DEF Init, BaseInit, ShareholdersInit, Stage, Founding, Inviting, Adding, Editing, Walking,
         Existing
<1> QED
  BY <1>3, <1>4 DEF Local

LEMMA LocalStep == Local /\ [Next]_vars => Local'
<1> SUFFICES ASSUME Local, [Next]_vars PROVE Local'
  OBVIOUS
<1>1. ASSUME NEW r \in Requests, TypeOK' /\ Frame(r) /\ Stage(r)'
      PROVE  Local'
  BY <1>1, StageFrame DEF Local
<1>2. ASSUME NEW r \in Requests, OnboardingStep(r), UNCHANGED <<holderVars, walk>>
      PROVE  Local'
  BY <1>1, <1>2, OnboardingLocal
<1>3. ASSUME NEW r \in Requests, MembersStep(r), UNCHANGED <<holderVars, walk>>
      PROVE  Local'
  BY <1>1, <1>3, MembersLocal
<1>4. ASSUME NEW r \in Requests, ShareholdersStep(r), UNCHANGED walk
      PROVE  Local'
  BY <1>1, <1>4, ShareholdersLocal
<1>5. ASSUME NEW r \in Requests, ListingStep(r), UNCHANGED holderVars
      PROVE  Local'
  BY <1>1, <1>5, ListingLocal
<1>6. ASSUME NEW r \in Requests, Die(r)
      PROVE  Local'
  BY <1>1, <1>6, DieLocal
<1>7. CASE UNCHANGED vars
  BY <1>7 DEF vars, base, tables, control, holderVars, Local, TypeOK, Stage, Joined, Existing, Pages
<1> QED
  BY <1>2, <1>3, <1>4, <1>5, <1>6, <1>7 DEF Next

LEMMA LocalInvariant == Spec => []Local
<1> QED
  BY LocalInit, LocalStep, PTL DEF Spec

\* Every variable of Tenancy keeps its type, whatever the requests are and
\* however they interleave.
THEOREM TenancyTypes == Spec => []TypeOK
<1>1. Local => TypeOK
  BY DEF Local
<1> QED
  BY <1>1, LocalInvariant, PTL

\* No set of requests waits for its own inserts.
THEOREM TenancyWaitsEnd == Spec => []WaitsEnd
<1>1. WaitsEnd
  <2> SUFFICES ASSUME NEW ring \in SUBSET {r \in Requests : \E s \in Requests : Awaits(r, s)},
                      ring # {},
                      \A r \in ring : \E s \in ring : Awaits(r, s)
               PROVE  FALSE
    BY DEF WaitsEnd
  <2>1. \A r, s : AwaitsUser(r, s) => pc[s] = "commit"
    BY DEF AwaitsUser, HoldsUser
  <2>2. \A r, s : AwaitsCompany(r, s) =>
           pc[r] = "insertCompany" /\ pc[s] \in {"insertOwner", "commit"}
    BY DEF AwaitsCompany, HoldsCompany
  <2>3. \A s, t : pc[s] = "commit" => ~Awaits(s, t)
    BY DEF Awaits, AwaitsCompany, AwaitsUser
  <2>4. \A r \in ring : pc[r] = "insertCompany"
    BY <2>1, <2>2, <2>3 DEF Awaits
  <2> QED
    BY <2>1, <2>2, <2>4 DEF Awaits
<1> QED
  BY <1>1, PTL

-------------------------------------------------------------------------------
(* Two kinds of steps: those that commit nothing to users, companies,          *)
(* memberships and trail, and the six that may.                                *)

Silent(r) ==
    /\ UNCHANGED tables
    /\ pc[r] \notin Ended
    /\ \A q \in Requests : pc[q] # "start" => call'[q] = call[q]
    /\ \E l \in Label \ {"start", "logMember"} :
          /\ pc' = [pc EXCEPT ![r] = l]
          /\ l = "done" => call[r].op \in {"walk", "walkAll"} /\ pc[r] # "start"
          /\ l = "unlogged" => pc[r] \in Logging
          /\ pc[r] = "logMember" => l = "unlogged"
          /\ l = "insertOwner" => InsertCompany(r)
          /\ l = "commit" => InsertOwner(r)
          /\ l = "insertMember" => CheckMember(r)

Writes(r) ==
    \/ InsertUser(r) \/ CommitFounding(r) \/ InsertMember(r)
    \/ LogMember(r) \/ LogCreate(r) \/ LogUpdate(r)

\* The steps of all handlers that write nothing.
LEMMA SilentSteps ==
    ASSUME Local, NEW r \in Requests,
           \/ OnboardingStep(r) \/ MembersStep(r) \/ ShareholdersStep(r) \/ ListingStep(r)
           \/ Die(r)
    PROVE  Silent(r) \/ Writes(r)
<1> USE DEF Goto, Label, Ended, Logging
<1>0. Stage(r) /\ pc \in [Requests -> Label] /\ call \in [Requests -> Calls \cup {Nil}]
  BY DEF Local, TypeOK
<1>1. ASSUME NEW a, NEW roles, NEW label \in {"checkMember", "insertHolder", "find", "page"},
             PassGuards(r, a, roles, label) \/ CompanyNotActive(r, a)
      PROVE  Silent(r)
  <2>1. PICK l \in {label, "refused"} : pc' = [pc EXCEPT ![r] = l]
    BY <1>1 DEF PassGuards, CompanyNotActive
  <2>2. pc[r] = "start" /\ call' = [call EXCEPT ![r] = a] /\ UNCHANGED tables
    BY <1>1 DEF PassGuards, CompanyNotActive, tables
  <2> QED
    BY <1>0, <2>1, <2>2 DEF Silent
<1>2. ASSUME NEW a \in Calls, Register(r, a) \/ StartFounding(r, a) \/ WalkAll(r, a)
      PROVE  Silent(r)
  <2>1. PICK l \in {"refused", "insertUser", "insertCompany", "page"} : pc' = [pc EXCEPT ![r] = l]
    BY <1>2 DEF Register, StartFounding, WalkAll
  <2>2. pc[r] = "start" /\ call' = [call EXCEPT ![r] = a] /\ UNCHANGED tables
    BY <1>2 DEF Register, StartFounding, WalkAll, tables
  <2> QED
    BY <1>0, <2>1, <2>2 DEF Silent
<1>3. CASE \E a \in Calls : Invite(r, a) \/ AddHolder(r, a) \/ EditHolder(r, a) \/ Walk(r, a)
  BY <1>1, <1>3 DEF Invite, AddHolder, EditHolder, Walk
<1>4. CASE InsertCompany(r) \/ InsertOwner(r) \/ RollbackFounding(r) \/ CheckMember(r)
  <2>1. PICK l \in {"failed", "insertOwner", "commit", "insertMember", "refused"} :
           /\ pc' = [pc EXCEPT ![r] = l]
           /\ l = "insertOwner" => InsertCompany(r)
           /\ l = "commit" => InsertOwner(r)
           /\ l = "insertMember" => CheckMember(r)
    <3>1. InsertCompany(r) =>
             pc' = [pc EXCEPT ![r] = "failed"] \/ pc' = [pc EXCEPT ![r] = "insertOwner"]
      BY DEF InsertCompany
    <3>2. InsertOwner(r) => pc' = [pc EXCEPT ![r] = "failed"] \/ pc' = [pc EXCEPT ![r] = "commit"]
      BY DEF InsertOwner
    <3>3. RollbackFounding(r) => pc' = [pc EXCEPT ![r] = "failed"]
      BY DEF RollbackFounding
    <3>4. CheckMember(r) =>
             pc' = [pc EXCEPT ![r] = "refused"] \/ pc' = [pc EXCEPT ![r] = "insertMember"]
      BY DEF CheckMember
    <3> QED
      BY <1>4, <3>1, <3>2, <3>3, <3>4
  <2>2. /\ UNCHANGED tables /\ call' = call
        /\ pc[r] \in {"insertCompany", "insertOwner", "commit", "checkMember"}
    BY <1>4 DEF InsertCompany, InsertOwner, RollbackFounding, CheckMember, tables
  <2> QED
    BY <2>1, <2>2 DEF Silent
<1>5. CASE InsertHolder(r) \/ FindHolder(r) \/ ReloadHolder(r) \/ WriteHolder(r)
  <2>1. PICK l \in {"logCreate", "failed", "reload", "refused", "write", "logUpdate"} :
           pc' = [pc EXCEPT ![r] = l]
    BY <1>5 DEF InsertHolder, FindHolder, ReloadHolder, WriteHolder
  <2>2. /\ UNCHANGED tables /\ call' = call
        /\ pc[r] \in {"insertHolder", "find", "reload", "write"}
    BY <1>5 DEF InsertHolder, FindHolder, ReloadHolder, WriteHolder, tables
  <2> QED
    BY <2>1, <2>2 DEF Silent
<1>6. CASE ReadPage(r) \/ CountRows(r)
  BY <1>0, <1>6 DEF ReadPage, CountRows, Silent, Stage, Walking
<1>7. CASE Die(r)
  <2>1. PICK l \in {"failed", "unlogged"} :
           pc' = [pc EXCEPT ![r] = l] /\ (l = "unlogged" <=> pc[r] \in Logging)
    BY <1>7 DEF Die, Abort
  <2>2. UNCHANGED tables /\ call' = call /\ pc[r] \notin Ended
    BY <1>7 DEF Die, Abort, InFlight
  <2> QED
    BY <2>1, <2>2 DEF Silent
<1> QED
  BY <1>2, <1>3, <1>4, <1>5, <1>6, <1>7
  DEF OnboardingStep, MembersStep, ShareholdersStep, ListingStep, Writes

LEMMA KindsOfSteps ==
    ASSUME Local, [Next]_vars
    PROVE  \/ UNCHANGED <<tables, pc, call, tenant, holders>>
           \/ \E r \in Requests : (Silent(r) \/ Writes(r)) /\ Frame(r)
<1>1. ASSUME NEW r \in Requests, OnboardingStep(r), UNCHANGED <<holderVars, walk>>
      PROVE  (Silent(r) \/ Writes(r)) /\ Frame(r)
  BY <1>1, SilentSteps, OnboardingLocal
<1>2. ASSUME NEW r \in Requests, MembersStep(r), UNCHANGED <<holderVars, walk>>
      PROVE  (Silent(r) \/ Writes(r)) /\ Frame(r)
  BY <1>2, SilentSteps, MembersLocal
<1>3. ASSUME NEW r \in Requests, ShareholdersStep(r), UNCHANGED walk
      PROVE  (Silent(r) \/ Writes(r)) /\ Frame(r)
  BY <1>3, SilentSteps, ShareholdersLocal
<1>4. ASSUME NEW r \in Requests, ListingStep(r), UNCHANGED holderVars
      PROVE  (Silent(r) \/ Writes(r)) /\ Frame(r)
  BY <1>4, SilentSteps, ListingLocal
<1>5. ASSUME NEW r \in Requests, Die(r)
      PROVE  (Silent(r) \/ Writes(r)) /\ Frame(r)
  BY <1>5, SilentSteps, DieLocal
<1>6. CASE UNCHANGED vars
  BY <1>6 DEF vars, base, tables, control, holderVars
<1> QED
  BY <1>1, <1>2, <1>3, <1>4, <1>5, <1>6 DEF Next

-------------------------------------------------------------------------------
(* The keys of committed rows and of open transactions                         *)

Keys ==
    /\ \A m \in members : m.company \in companies /\ m.user \in users
    /\ \A r \in Requests :
          /\ pc[r] = "insertMember" => call[r].user \in users
          /\ pc[r] \in {"insertOwner", "commit"} =>
                /\ call[r].company \notin companies
                /\ \A s \in Requests \ {r} : ~HoldsCompany(s, call[r].company)
          /\ pc[r] = "commit" =>
                /\ OwnerEmail(call[r]) \notin users
                /\ \A s \in Requests \ {r} : ~HoldsUser(s, OwnerEmail(call[r]))

LEMMA KeysSilent ==
    ASSUME Local, Keys, NEW r \in Requests, Silent(r)
    PROVE  Keys'
<1> USE DEF Keys, tables
<1>1. PICK l \in Label \ {"start", "logMember"} :
         /\ pc' = [pc EXCEPT ![r] = l]
         /\ l = "insertOwner" => InsertCompany(r)
         /\ l = "commit" => InsertOwner(r)
         /\ l = "insertMember" => CheckMember(r)
  BY DEF Silent
<1>2. UNCHANGED tables /\ pc \in [Requests -> Label]
      /\ \A q \in Requests : pc[q] # "start" => call'[q] = call[q]
  BY DEF Silent, Local, TypeOK
<1>3. \A m \in members' : m.company \in companies' /\ m.user \in users'
  BY <1>2
<1>4. ASSUME NEW q \in Requests, pc'[q] = "insertMember"
      PROVE  call'[q].user \in users'
  BY <1>1, <1>2, <1>4 DEF CheckMember, Goto
<1>5. ASSUME NEW q \in Requests, pc'[q] \in {"insertOwner", "commit"}
      PROVE  /\ call'[q].company \notin companies'
             /\ \A s \in Requests \ {q} :
                   pc'[s] \in {"insertOwner", "commit"} => call'[s].company # call'[q].company
  <2>1. ASSUME NEW p \in Requests \ {r}, pc'[p] \in {"insertOwner", "commit"}
        PROVE  pc[p] \in {"insertOwner", "commit"} /\ call'[p] = call[p]
    BY <1>1, <1>2, <2>1
  <2>2. CASE l = "insertOwner"
    <3>1. /\ pc[r] = "insertCompany" /\ call[r].company \notin companies /\ call'[r] = call[r]
          /\ \A s \in Requests : ~HoldsCompany(s, call[r].company)
      BY <1>1, <1>2, <2>2 DEF InsertCompany, AwaitsCompany, Goto
    <3> QED
      BY <1>1, <1>2, <1>5, <2>1, <3>1 DEF HoldsCompany
  <2>3. CASE l = "commit"
    <3>1. pc[r] = "insertOwner" /\ call'[r] = call[r]
      BY <1>1, <1>2, <2>3 DEF InsertOwner
    <3> QED
      BY <1>1, <1>2, <1>5, <2>1, <3>1 DEF HoldsCompany
  <2>4. CASE l \notin {"insertOwner", "commit"}
    BY <1>1, <1>2, <1>5, <2>1, <2>4 DEF HoldsCompany
  <2> QED
    BY <2>2, <2>3, <2>4
<1>6. ASSUME NEW q \in Requests, pc'[q] = "commit"
      PROVE  /\ OwnerEmail(call'[q]) \notin users'
             /\ \A s \in Requests \ {q} :
                   pc'[s] = "commit" => OwnerEmail(call'[s]) # OwnerEmail(call'[q])
  <2>1. ASSUME NEW p \in Requests \ {r}, pc'[p] = "commit"
        PROVE  pc[p] = "commit" /\ call'[p] = call[p]
    BY <1>1, <1>2, <2>1
  <2>2. CASE l = "commit"
    <3>1. /\ pc[r] = "insertOwner" /\ OwnerEmail(call[r]) \notin users /\ call'[r] = call[r]
          /\ \A s \in Requests : ~HoldsUser(s, OwnerEmail(call[r]))
      BY <1>1, <1>2, <2>2 DEF InsertOwner, AwaitsUser, Goto
    <3> QED
      BY <1>1, <1>2, <1>6, <2>1, <3>1 DEF HoldsUser
  <2>3. CASE l # "commit"
    BY <1>1, <1>2, <1>6, <2>1, <2>3 DEF HoldsUser
  <2> QED
    BY <2>2, <2>3
<1> QED
  BY <1>3, <1>4, <1>5, <1>6 DEF HoldsCompany, HoldsUser

LEMMA KeysWrites ==
    ASSUME Local, Keys, NEW r \in Requests, Writes(r)
    PROVE  Keys'
<1> USE DEF Keys, HoldsCompany, HoldsUser, Goto
<1>0. /\ pc \in [Requests -> Label] /\ call' = call /\ Stage(r)
      /\ users \subseteq users' /\ companies \subseteq companies'
  BY DEF Local, TypeOK, Writes, InsertUser, CommitFounding, InsertMember, LogMember, LogCreate,
         LogUpdate
<1>1. CASE InsertUser(r)
  <2>1. /\ \A s \in Requests : ~HoldsUser(s, Normal(call[r].email))
        /\ users' \subseteq users \cup {Normal(call[r].email)}
        /\ pc' = [pc EXCEPT ![r] = "failed"] \/ pc' = [pc EXCEPT ![r] = "done"]
        /\ UNCHANGED <<companies, members>>
    BY <1>1 DEF InsertUser, AwaitsUser
  <2> QED
    BY <1>0, <2>1
<1>2. CASE CommitFounding(r)
  <2>1. /\ pc[r] = "commit" /\ pc' = [pc EXCEPT ![r] = "done"]
        /\ users' = users \cup {OwnerEmail(call[r])}
        /\ companies' = companies \cup {call[r].company}
        /\ members' = members \cup {FoundingMember(call[r])}
    BY <1>2 DEF CommitFounding
  <2>2. /\ FoundingMember(call[r]).company = call[r].company
        /\ FoundingMember(call[r]).user = OwnerEmail(call[r])
    BY DEF FoundingMember
  <2> QED
    BY <1>0, <2>1, <2>2
<1>3. CASE InsertMember(r)
  <2>1. /\ pc[r] = "insertMember" /\ UNCHANGED <<users, companies>>
        /\ pc' = [pc EXCEPT ![r] = "failed"] \/ pc' = [pc EXCEPT ![r] = "logMember"]
        /\ members' \subseteq members \cup {Invited(call[r])}
    BY <1>3 DEF InsertMember
  <2>2. tenant[r] \in members /\ tenant[r].company = call[r].company
    BY <1>0, <2>1 DEF Stage, Inviting, Joined
  <2>3. Invited(call[r]).company \in companies /\ Invited(call[r]).user \in users
    BY <2>1, <2>2 DEF Invited
  <2> QED
    BY <1>0, <2>1, <2>3
<1>4. CASE LogMember(r) \/ LogCreate(r) \/ LogUpdate(r)
  BY <1>0, <1>4 DEF LogMember, LogCreate, LogUpdate
<1> QED
  BY <1>1, <1>2, <1>3, <1>4 DEF Writes

LEMMA KeysInvariant == Spec => []Keys
<1>1. Init => Keys
  BY DEF Init, BaseInit, Keys
<1>2. Local /\ Keys /\ [Next]_vars => Keys'
  <2> SUFFICES ASSUME Local, Keys, [Next]_vars PROVE Keys'
    OBVIOUS
  <2>1. CASE UNCHANGED <<tables, pc, call, tenant, holders>>
    BY <2>1 DEF Keys, HoldsCompany, HoldsUser, tables
  <2>2. CASE \E r \in Requests : Silent(r) \/ Writes(r)
    BY <2>2, KeysSilent, KeysWrites
  <2> QED
    BY <2>1, <2>2, KindsOfSteps
<1> QED
  BY <1>1, <1>2, LocalInvariant, PTL DEF Spec

-------------------------------------------------------------------------------
(* Who has placed which membership                                             *)

Placed(r) ==
    \/ call[r].op = "invite" /\ pc[r] \in {"logMember", "unlogged", "done"}
    \/ call[r].op \in FoundingOps /\ pc[r] = "done"

Made(r) == IF call[r].op = "invite" THEN Invited(call[r]) ELSE FoundingMember(call[r])

Placings ==
    /\ \A r \in Requests : Placed(r) => Made(r) \in members
    /\ \A r, s \in Requests : r # s /\ Placed(r) /\ Placed(s) => Id(Made(r)) # Id(Made(s))

\* The MEMBER_ADDED row of a membership is still to come, or never will.
Owes(r, m) ==
    \/ /\ pc[r] \in {"logMember", "unlogged"}
       /\ call[r].op = "invite" /\ Invited(call[r]) = m
    \/ /\ pc[r] = "done"
       /\ call[r].op = "found" /\ call[r].actor = Nil
       /\ FoundingMember(call[r]) = m

Added == {t \in trail : t.action = "MEMBER_ADDED"}

Accounted == Placings /\ MembersAccounted

LEMMA OwesPlaces ==
    /\ \A m : Unrecorded(m) <=> \E r \in Requests : Owes(r, m)
    /\ \A m : Additions(m) = {t \in Added : t.entity = Id(m)}
    /\ \A r, m : Owes(r, m) => Placed(r) /\ Made(r) = m
<1>1. \A m : Unrecorded(m) <=> \E r \in Requests : Owes(r, m)
  BY DEF Unrecorded, Owes
<1>2. \A m : Additions(m) = {t \in Added : t.entity = Id(m)}
  BY DEF Additions, Added
<1>3. \A r, m : Owes(r, m) => Placed(r) /\ Made(r) = m
  BY DEF Owes, Placed, Made, FoundingOps
<1> QED
  BY <1>1, <1>2, <1>3

LEMMA OwesPlacesNext ==
    /\ \A m : Unrecorded(m)' <=> \E r \in Requests : Owes(r, m)'
    /\ \A m : Additions(m)' = {t \in Added' : t.entity = Id(m)}
<1>1. \A m : Unrecorded(m)' <=> \E r \in Requests : Owes(r, m)'
  BY DEF Unrecorded, Owes
<1>2. \A m : Additions(m)' = {t \in Added' : t.entity = Id(m)}
  BY DEF Additions, Added, Id
<1> QED
  BY <1>1, <1>2

\* A step that neither places nor records a membership.
LEMMA AccountedKept ==
    ASSUME Accounted, UNCHANGED members, Added' = Added,
           \A q \in Requests : Placed(q)' => Placed(q) /\ Made(q)' = Made(q),
           \A q \in Requests : \A m : Owes(q, m)' <=> Owes(q, m)
    PROVE  Accounted'
<1>1. /\ \A m : Unrecorded(m)' <=> Unrecorded(m)
      /\ \A m : Additions(m)' = Additions(m)
  BY OwesPlaces, OwesPlacesNext
<1>2. \A t : t \in trail' /\ t.action = "MEMBER_ADDED" <=> t \in trail /\ t.action = "MEMBER_ADDED"
  BY DEF Added
<1>3. MembersAccounted'
  BY <1>1, <1>2 DEF Accounted, MembersAccounted, Id
<1>4. Placings'
  BY DEF Accounted, Placings, Id
<1> QED
  BY <1>3, <1>4 DEF Accounted

LEMMA AccountedSilent ==
    ASSUME Local, Accounted, NEW r \in Requests, Silent(r)
    PROVE  Accounted'
<1>1. PICK l \in Label \ {"start", "logMember"} :
         /\ pc' = [pc EXCEPT ![r] = l]
         /\ l = "done" => call[r].op \in {"walk", "walkAll"} /\ pc[r] # "start"
         /\ l = "unlogged" => pc[r] \in Logging
         /\ pc[r] = "logMember" => l = "unlogged"
  BY DEF Silent
<1>2. /\ UNCHANGED tables /\ pc \in [Requests -> Label] /\ Stage(r) /\ pc[r] \notin Ended
      /\ \A q \in Requests : pc[q] # "start" => call'[q] = call[q]
  BY DEF Silent, Local, TypeOK
<1>3. l = "unlogged" => (call[r].op = "invite" => pc[r] = "logMember") /\ call'[r] = call[r]
  BY <1>1, <1>2 DEF Logging, Stage, Adding, Editing
<1>4. ASSUME NEW q \in Requests
      PROVE  Placed(q)' => Placed(q) /\ Made(q)' = Made(q)
  <2>1. CASE q = r
    <3>1. Placed(r)' => l \in {"unlogged", "done"}
      BY <1>1, <1>2 DEF Placed
    <3>2. Placed(r)' => l = "unlogged" /\ call[r].op \in {"invite"} \cup FoundingOps
      BY <1>1, <1>2, <1>3, <3>1 DEF Placed, FoundingOps
    <3>3. Placed(r)' => call[r].op = "invite"
      BY <1>1, <1>2, <1>3, <3>2 DEF Placed, FoundingOps
    <3> QED
      BY <1>2, <1>3, <2>1, <3>2, <3>3 DEF Placed, Made, Invited, FoundingMember
  <2>2. CASE q # r
    <3>1. pc'[q] = pc[q] /\ (pc[q] # "start" => call'[q] = call[q])
      BY <1>1, <1>2, <2>2
    <3> QED
      BY <3>1 DEF Placed, Made, Invited, FoundingMember, OwnerEmail, Normal
  <2> QED
    BY <2>1, <2>2
<1>5. ASSUME NEW q \in Requests, NEW m
      PROVE  Owes(q, m)' <=> Owes(q, m)
  <2>1. CASE q = r
    <3>1. pc[r] # "done" /\ pc[r] # "unlogged" /\ pc'[r] = l
      BY <1>1, <1>2 DEF Ended
    <3>2. l = "done" => call'[r].op # "found"
      BY <1>1, <1>2
    <3> QED
      BY <1>1, <1>3, <2>1, <3>1, <3>2 DEF Owes, Invited
  <2>2. CASE q # r
    <3>1. pc'[q] = pc[q] /\ (pc[q] # "start" => call'[q] = call[q])
      BY <1>1, <1>2, <2>2
    <3> QED
      BY <3>1 DEF Owes, Invited, FoundingMember, OwnerEmail, Normal
  <2> QED
    BY <2>1, <2>2
<1>6. UNCHANGED members /\ Added' = Added
  BY <1>2 DEF tables, Added
<1> QED
  BY <1>4, <1>5, <1>6, AccountedKept

\* The rows a founding writes for its one membership.
LEMMA FoundingAdds ==
    ASSUME NEW r \in Requests, NEW a \in FoundingCall
    PROVE  LET rows == {t \in FoundingRows(r, a) : t.action = "MEMBER_ADDED"} IN
           /\ \A t \in rows : t.entity = Id(FoundingMember(a)) /\ t.company = a.company
           /\ a.op = "found" /\ a.actor = Nil => rows = {}
           /\ ~(a.op = "found" /\ a.actor = Nil) => \E t \in rows : rows = {t}
<1>1. CASE a.op = "onboard"
  <2> DEFINE u == PlatformRow(r, "COMPANY_ONBOARDED", a.company, a.actor, a.company)
             t == PlatformRow(r, "MEMBER_ADDED", a.company, a.actor, Id(FoundingMember(a)))
  <2>1. FoundingRows(r, a) = {u, t}
    BY <1>1 DEF FoundingRows
  <2>2. /\ u.action = "COMPANY_ONBOARDED" /\ t.action = "MEMBER_ADDED"
        /\ t.entity = Id(FoundingMember(a)) /\ t.company = a.company
    BY DEF PlatformRow, AuditRow
  <2> HIDE DEF u, t
  <2>3. {x \in FoundingRows(r, a) : x.action = "MEMBER_ADDED"} = {t}
    BY <2>1, <2>2
  <2> QED
    BY <1>1, <2>2, <2>3
<1>2. CASE a.op = "found" /\ a.actor = Nil
  BY <1>2 DEF FoundingRows
<1>3. CASE a.op = "found" /\ a.actor # Nil
  <2> DEFINE t == AuditRow(r, "MEMBER_ADDED", a.company, a.actor, Id(FoundingMember(a)),
                           Id(FoundingMember(a)), {})
  <2>1. FoundingRows(r, a) = {t}
    BY <1>3 DEF FoundingRows
  <2>2. /\ t.action = "MEMBER_ADDED"
        /\ t.entity = Id(FoundingMember(a)) /\ t.company = a.company
    BY DEF AuditRow
  <2> HIDE DEF t
  <2>3. {x \in FoundingRows(r, a) : x.action = "MEMBER_ADDED"} = {t}
    BY <2>1, <2>2
  <2> QED
    BY <1>3, <2>2, <2>3
<1> QED
  BY <1>1, <1>2, <1>3 DEF FoundingCall, FoundingOps

LEMMA AccountedFounding ==
    ASSUME Local, Keys, Accounted, NEW r \in Requests, CommitFounding(r)
    PROVE  Accounted'
<1>a. PICK a : a = call[r]
  OBVIOUS
<1>m. PICK m : m = FoundingMember(a)
  OBVIOUS
<1>t. PICK rows : rows = {t \in FoundingRows(r, a) : t.action = "MEMBER_ADDED"}
  OBVIOUS
<1>1. /\ pc[r] = "commit" /\ pc' = [pc EXCEPT ![r] = "done"] /\ call' = call
      /\ members' = members \cup {m} /\ trail' = trail \cup FoundingRows(r, a)
      /\ pc \in [Requests -> Label]
  BY <1>a, <1>m DEF CommitFounding, Goto, Local, TypeOK
<1>2. a \in FoundingCall /\ a.op \in FoundingOps
  BY <1>a, <1>1, CallKinds DEF Local, Stage, Founding
<1>3. \A n \in members : Id(n) # Id(m)
  BY <1>a, <1>m, <1>1 DEF Keys, Id, FoundingMember
<1>4. /\ \A t \in rows : t.entity = Id(m) /\ t.company = a.company
      /\ a.op = "found" /\ a.actor = Nil => rows = {}
      /\ ~(a.op = "found" /\ a.actor = Nil) => \E t \in rows : rows = {t}
  BY <1>m, <1>t, <1>2, FoundingAdds
<1>5. m.company = a.company
  BY <1>m DEF FoundingMember
<1>6. Added' = Added \cup rows
  BY <1>t, <1>1 DEF Added
<1>7. ~Placed(r) /\ Made(r)' = m /\ Made(r) = m
  BY <1>a, <1>m, <1>1, <1>2 DEF Placed, Made, FoundingOps, FoundingMember, OwnerEmail, Normal
<1>8. \A q \in Requests \ {r} : /\ Placed(q)' <=> Placed(q)
                                /\ Made(q)' = Made(q)
                                /\ \A n : Owes(q, n)' <=> Owes(q, n)
  BY <1>1 DEF Placed, Made, Owes, Invited, FoundingMember, OwnerEmail, Normal
<1>9. \A n : ~Owes(r, n) /\ (Owes(r, n)' <=> a.op = "found" /\ a.actor = Nil /\ m = n)
  BY <1>a, <1>m, <1>1, <1>2 DEF Owes, FoundingOps, FoundingMember, OwnerEmail, Normal
<1>10. Placings'
  <2>1. \A q \in Requests : Placed(q)' => Made(q)' \in members'
    BY <1>1, <1>7, <1>8 DEF Accounted, Placings
  <2>2. \A q, s \in Requests : q # s /\ Placed(q)' /\ Placed(s)' => Id(Made(q)') # Id(Made(s)')
    BY <1>3, <1>7, <1>8 DEF Accounted, Placings
  <2> QED
    BY <2>1, <2>2 DEF Placings, Id
<1>11. \A t \in Added : \E n \in members : t.entity = Id(n) /\ t.company = n.company
  BY DEF Accounted, MembersAccounted, Added
<1>12. \A n \in members : /\ Unrecorded(n)' <=> Unrecorded(n)
                          /\ Additions(n)' = Additions(n)
  <2>1. ASSUME NEW n \in members PROVE Unrecorded(n)' <=> Unrecorded(n)
    <3>1. n # m
      BY <1>3
    <3> QED
      BY <1>8, <1>9, <3>1, OwesPlaces, OwesPlacesNext
  <2>2. ASSUME NEW n \in members PROVE Additions(n)' = Additions(n)
    BY <1>3, <1>4, <1>6, OwesPlaces, OwesPlacesNext
  <2> QED
    BY <2>1, <2>2
<1>13. Unrecorded(m)' <=> a.op = "found" /\ a.actor = Nil
  <2>1. \A q \in Requests : ~Owes(q, m)
    BY <1>3, OwesPlaces DEF Accounted, Placings
  <2> QED
    BY <1>8, <1>9, <2>1, OwesPlacesNext
<1>14. Additions(m)' = rows
  BY <1>3, <1>4, <1>6, <1>11, OwesPlacesNext
<1>15. MembersAccounted'
  <2>1. \A n, o \in members' : Id(n) = Id(o) => n = o
    BY <1>1, <1>3 DEF Accounted, MembersAccounted
  <2>2. \A n \in members' : IF Unrecorded(n)' THEN Additions(n)' = {}
                            ELSE \E t \in Additions(n)' : Additions(n)' = {t}
    <3>1. ASSUME NEW n \in members
          PROVE  IF Unrecorded(n)' THEN Additions(n)' = {}
                 ELSE \E t \in Additions(n)' : Additions(n)' = {t}
      <4>1. /\ Unrecorded(n) => Additions(n) = {}
            /\ ~Unrecorded(n) => \E t \in Additions(n) : Additions(n) = {t}
        BY <3>1 DEF Accounted, MembersAccounted
      <4>2. (Unrecorded(n)' <=> Unrecorded(n)) /\ Additions(n)' = Additions(n)
        BY <1>12, <3>1
      <4> QED
        BY <4>1, <4>2
    <3>2. IF Unrecorded(m)' THEN Additions(m)' = {}
          ELSE \E t \in Additions(m)' : Additions(m)' = {t}
      BY <1>4, <1>13, <1>14
    <3> QED
      BY <1>1, <3>1, <3>2
  <2>3. \A t \in Added' : \E n \in members' : t.entity = Id(n) /\ t.company = n.company
    BY <1>1, <1>4, <1>5, <1>6, <1>11
  <2>4. \A t \in trail' : t.action = "MEMBER_ADDED" =>
           \E n \in members' : t.entity = Id(n) /\ t.company = n.company
    BY <2>3 DEF Added
  <2> QED
    BY <2>1, <2>2, <2>4 DEF MembersAccounted, Id
<1> QED
  BY <1>10, <1>15 DEF Accounted

LEMMA AccountedInsert ==
    ASSUME Local, Accounted, NEW r \in Requests, InsertMember(r)
    PROVE  Accounted'
<1>a. PICK a : a = call[r]
  OBVIOUS
<1>m. PICK m : m = Invited(a)
  OBVIOUS
<1>0. /\ pc[r] = "insertMember" /\ call' = call /\ trail' = trail /\ a.op = "invite"
      /\ pc \in [Requests -> Label]
  BY <1>a DEF InsertMember, Local, TypeOK, Stage, Inviting
<1>1. CASE MembersAt(a.company, a.user) # {}
  <2>1. pc' = [pc EXCEPT ![r] = "failed"] /\ members' = members
    BY <1>a, <1>1 DEF InsertMember, Goto
  <2>2. \A q \in Requests : Placed(q)' => Placed(q) /\ Made(q)' = Made(q)
    BY <1>0, <2>1 DEF Placed, Made, Invited, FoundingMember, OwnerEmail, Normal
  <2>3. \A q \in Requests : \A n : Owes(q, n)' <=> Owes(q, n)
    BY <1>0, <2>1 DEF Owes, Invited, FoundingMember, OwnerEmail, Normal
  <2>4. Added' = Added
    BY <1>0 DEF Added
  <2> QED
    BY <2>1, <2>2, <2>3, <2>4, AccountedKept
<1>2. CASE MembersAt(a.company, a.user) = {}
  <2>1. pc' = [pc EXCEPT ![r] = "logMember"] /\ members' = members \cup {m}
    BY <1>a, <1>m, <1>2 DEF InsertMember, Goto
  <2>2. \A n \in members : Id(n) # Id(m)
    BY <1>m, <1>2 DEF MembersAt, Id, Invited
  <2>3. ~Placed(r) /\ Made(r)' = m /\ (\A n : ~Owes(r, n) /\ (Owes(r, n)' <=> n = m))
    BY <1>a, <1>m, <1>0, <2>1 DEF Placed, Made, Owes, Invited, FoundingOps
  <2>4. \A q \in Requests \ {r} : /\ Placed(q)' <=> Placed(q)
                                  /\ Made(q)' = Made(q)
                                  /\ \A n : Owes(q, n)' <=> Owes(q, n)
    BY <1>0, <2>1 DEF Placed, Made, Owes, Invited, FoundingMember, OwnerEmail, Normal
  <2>5. Placings'
    <3>1. \A q \in Requests : Placed(q)' => Made(q)' \in members'
      BY <2>1, <2>3, <2>4 DEF Accounted, Placings
    <3>2. \A q, s \in Requests : q # s /\ Placed(q)' /\ Placed(s)' => Id(Made(q)') # Id(Made(s)')
      BY <2>2, <2>3, <2>4 DEF Accounted, Placings
    <3> QED
      BY <3>1, <3>2 DEF Placings, Id
  <2>6. \A n : Unrecorded(n)' <=> Unrecorded(n) \/ n = m
    BY <2>3, <2>4, OwesPlaces, OwesPlacesNext
  <2>7. \A n : Additions(n)' = Additions(n)
    <3>1. Added' = Added
      BY <1>0 DEF Added
    <3> QED
      BY <3>1, OwesPlaces, OwesPlacesNext
  <2>8. \A t \in trail : t.action = "MEMBER_ADDED" =>
           \E n \in members : t.entity = Id(n) /\ t.company = n.company
    BY DEF Accounted, MembersAccounted
  <2>9. Additions(m) = {}
    BY <2>2, <2>8 DEF Additions
  <2>10. ASSUME NEW n \in members'
         PROVE  /\ Unrecorded(n)' => Additions(n)' = {}
                /\ ~Unrecorded(n)' => \E t \in Additions(n)' : Additions(n)' = {t}
    <3>1. CASE n = m
      BY <2>6, <2>7, <2>9, <3>1
    <3>2. CASE n \in members
      <4>1. /\ Unrecorded(n) => Additions(n) = {}
            /\ ~Unrecorded(n) => \E t \in Additions(n) : Additions(n) = {t}
        BY <3>2 DEF Accounted, MembersAccounted
      <4>2. n # m
        BY <2>2, <3>2
      <4> QED
        BY <2>6, <2>7, <4>1, <4>2
    <3> QED
      BY <2>1, <3>1, <3>2
  <2>11. \A n, o \in members' : Id(n) = Id(o) => n = o
    BY <2>1, <2>2 DEF Accounted, MembersAccounted
  <2>12. MembersAccounted'
    BY <1>0, <2>1, <2>8, <2>10, <2>11 DEF MembersAccounted, Id
  <2> QED
    BY <2>5, <2>12 DEF Accounted
<1> QED
  BY <1>1, <1>2

LEMMA AccountedLog ==
    ASSUME Local, Accounted, NEW r \in Requests, LogMember(r)
    PROVE  Accounted'
<1>a. PICK a : a = call[r]
  OBVIOUS
<1>m. PICK m : m = Invited(a)
  OBVIOUS
<1>t. PICK row : row = TenantRow(r, "MEMBER_ADDED", tenant[r], Id(m), {})
  OBVIOUS
<1>0. /\ pc[r] = "logMember" /\ pc' = [pc EXCEPT ![r] = "done"] /\ call' = call
      /\ trail' = trail \cup {row} /\ members' = members
      /\ a.op = "invite" /\ tenant[r].company = a.company /\ pc \in [Requests -> Label]
  BY <1>a, <1>m, <1>t DEF LogMember, Goto, Local, TypeOK, Stage, Inviting, Joined
<1>1. row.action = "MEMBER_ADDED" /\ row.entity = Id(m) /\ row.company = m.company
  BY <1>m, <1>t, <1>0 DEF TenantRow, AuditRow, Invited
<1>2. /\ Placed(r) /\ Made(r) = m /\ Made(r)' = m /\ Owes(r, m)
      /\ \A n : (Owes(r, n) <=> n = m) /\ ~Owes(r, n)'
  BY <1>a, <1>m, <1>0 DEF Placed, Made, Owes, Invited
<1>3. \A q \in Requests \ {r} : /\ Placed(q)' <=> Placed(q)
                                /\ Made(q)' = Made(q)
                                /\ \A n : Owes(q, n)' <=> Owes(q, n)
  BY <1>0 DEF Placed, Made, Owes, Invited, FoundingMember, OwnerEmail, Normal
<1>4. Placings'
  <2>1. \A q \in Requests : Placed(q)' => Placed(q) /\ Made(q)' = Made(q)
    BY <1>2, <1>3
  <2> QED
    BY <1>0, <2>1 DEF Accounted, Placings, Id
<1>5. m \in members /\ (\A q \in Requests \ {r} : ~Owes(q, m))
  BY <1>2, OwesPlaces DEF Accounted, Placings
<1>6. \A n : Unrecorded(n)' <=> Unrecorded(n) /\ n # m
  BY <1>2, <1>3, <1>5, OwesPlaces, OwesPlacesNext
<1>7. Added' = Added \cup {row}
  BY <1>0, <1>1 DEF Added
<1>8. \A n \in members : n # m => Additions(n)' = Additions(n)
  <2>1. \A n \in members : n # m => Id(n) # Id(m)
    BY <1>5 DEF Accounted, MembersAccounted
  <2> QED
    BY <1>1, <1>7, <2>1, OwesPlaces, OwesPlacesNext
<1>9. Additions(m)' = {row}
  <2>1. Unrecorded(m)
    BY <1>2, OwesPlaces
  <2>2. Additions(m) = {}
    BY <1>5, <2>1 DEF Accounted, MembersAccounted
  <2> QED
    BY <1>1, <1>7, <2>2, OwesPlaces, OwesPlacesNext
<1>10. ASSUME NEW n \in members
       PROVE  /\ Unrecorded(n)' => Additions(n)' = {}
              /\ ~Unrecorded(n)' => \E t \in Additions(n)' : Additions(n)' = {t}
  <2>1. /\ Unrecorded(n) => Additions(n) = {}
        /\ ~Unrecorded(n) => \E t \in Additions(n) : Additions(n) = {t}
    BY DEF Accounted, MembersAccounted
  <2> QED
    BY <1>6, <1>8, <1>9, <2>1
<1>11. \A t \in trail' : t.action = "MEMBER_ADDED" =>
          \E n \in members : t.entity = Id(n) /\ t.company = n.company
  BY <1>0, <1>1, <1>5 DEF Accounted, MembersAccounted
<1>12. MembersAccounted'
  BY <1>0, <1>10, <1>11 DEF Accounted, MembersAccounted, Id
<1> QED
  BY <1>4, <1>12 DEF Accounted

\* The other writers: of a user, and of audit rows about shareholders.
LEMMA AccountedOthers ==
    ASSUME Local, Accounted, NEW r \in Requests,
           InsertUser(r) \/ LogCreate(r) \/ LogUpdate(r)
    PROVE  Accounted'
<1>1. /\ call' = call /\ members' = members /\ pc \in [Requests -> Label]
      /\ call[r].op \in {"register", "addHolder", "editHolder"}
      /\ \E l \in Label : pc' = [pc EXCEPT ![r] = l]
  BY DEF InsertUser, LogCreate, LogUpdate, Goto, Local, TypeOK, Stage, Adding, Editing, Label, Ended
<1>2. Added' = Added
  <2>1. CASE InsertUser(r)
    BY <2>1 DEF InsertUser, Added
  <2>2. CASE LogCreate(r)
    BY <2>2 DEF LogCreate, Added, TenantRow, AuditRow
  <2>3. CASE LogUpdate(r)
    BY <2>3 DEF LogUpdate, Added, TenantRow, AuditRow
  <2> QED
    BY <2>1, <2>2, <2>3
<1>3. \A q \in Requests : Placed(q)' => Placed(q) /\ Made(q)' = Made(q)
  BY <1>1 DEF Placed, Made, FoundingOps, Invited, FoundingMember, OwnerEmail, Normal
<1>4. \A q \in Requests : \A n : Owes(q, n)' <=> Owes(q, n)
  BY <1>1 DEF Owes, Invited, FoundingMember, OwnerEmail, Normal
<1> QED
  BY <1>1, <1>2, <1>3, <1>4, AccountedKept

\* Every membership has exactly one MEMBER_ADDED row, unless its request is
\* between the insert and the log or died there, or the company was founded
\* without an initiator.
THEOREM MembershipsAccounted == Spec => []MembersAccounted
<1>1. Init => Accounted
  BY DEF Init, BaseInit, Accounted, Placings, Placed, MembersAccounted
<1>2. Local /\ Keys /\ Accounted /\ [Next]_vars => Accounted'
  <2> SUFFICES ASSUME Local, Keys, Accounted, [Next]_vars PROVE Accounted'
    OBVIOUS
  <2>1. CASE UNCHANGED <<tables, pc, call, tenant, holders>>
    <3>1. \A q \in Requests : Placed(q)' => Placed(q) /\ Made(q)' = Made(q)
      BY <2>1 DEF Placed, Made, Invited, FoundingMember, OwnerEmail, Normal
    <3>2. \A q \in Requests : \A n : Owes(q, n)' <=> Owes(q, n)
      BY <2>1 DEF Owes, Invited, FoundingMember, OwnerEmail, Normal
    <3>3. UNCHANGED members /\ Added' = Added
      BY <2>1 DEF Added, tables
    <3> QED
      BY <3>1, <3>2, <3>3, AccountedKept
  <2>2. CASE \E r \in Requests : Silent(r) \/ Writes(r)
    BY <2>2, AccountedSilent, AccountedFounding, AccountedInsert, AccountedLog, AccountedOthers
    DEF Writes
  <2> QED
    BY <2>1, <2>2, KindsOfSteps
<1>3. Accounted => MembersAccounted
  BY DEF Accounted
<1> QED
  BY <1>1, <1>2, <1>3, LocalInvariant, KeysInvariant, PTL DEF Spec

-------------------------------------------------------------------------------
(* Who has caused which audit row                                              *)

\* ActorsBelong of one row.
Belongs(t) ==
    /\ t.membership # Nil /\ call[t.by].op # "found" =>
          /\ \E m \in members :
                /\ t.membership = Id(m) /\ Id(m) = <<t.company, t.actor>>
                /\ m.status = "ACTIVE" /\ MayCause(m.role, t.action)
          /\ t.action # "MEMBER_ADDED" =>
                t.entity \in Existing /\ tenant[t.entity].company = t.company
    /\ call[t.by].op = "found" =>
          /\ t.membership = t.entity
          /\ \E m \in members :
                /\ t.entity = Id(m) /\ m.company = t.company /\ m.user # t.actor
                /\ m.role = "OWNER" /\ m.status = "ACTIVE"

Causes == \A t \in trail : pc[t.by] # "start" /\ Belongs(t)

\* A row keeps its cause: its request, the memberships and the shareholders stay.
LEMMA BelongsKept ==
    ASSUME Local, NEW r \in Requests, Frame(r), pc'[r] # "start",
           pc[r] # "start" => call'[r] = call[r],
           NEW t \in AuditRows, pc[t.by] # "start", Belongs(t)
    PROVE  pc'[t.by] # "start" /\ Belongs(t)'
<1>1. t.by \in Requests
  BY DEF AuditRows
<1>2. pc'[t.by] # "start" /\ call'[t.by] = call[t.by]
  BY <1>1 DEF Frame
<1>3. \A h : h \in Existing => h \in Existing' /\ tenant'[h] = tenant[h]
  BY DEF Frame, Existing
<1>4. members \subseteq members'
  BY DEF Frame
<1> QED
  BY <1>2, <1>3, <1>4 DEF Belongs, Id, MayCause

\* The row a handler of a tenant route writes in the name of its guard's membership.
LEMMA TenantRowBelongs ==
    ASSUME NEW r \in Requests, NEW roles, Joined(r, roles), NEW action, NEW e, NEW changes,
           \A role \in roles : MayCause(role, action),
           action # "MEMBER_ADDED" => e \in Existing /\ tenant[e].company = tenant[r].company,
           call[r].op # "found"
    PROVE  Belongs(TenantRow(r, action, tenant[r], e, changes))
BY DEF Belongs, TenantRow, AuditRow, Joined, Id

\* The row of createCompanyWithAdmin: its actor is a user there was, its owner is
\* not.
LEMMA FounderRowBelongs ==
    ASSUME NEW r \in Requests, pc[r] = "commit", Keys, CommitFounding(r), call' = call,
           call[r].op = "found", NEW t \in FoundingRows(r, call[r])
    PROVE  Belongs(t)'
<1> DEFINE m == FoundingMember(call[r])
<1>1. /\ call[r].actor # Nil
      /\ t = AuditRow(r, "MEMBER_ADDED", call[r].company, call[r].actor, Id(m), Id(m), {})
  BY DEF FoundingRows
<1>2. call[r].actor \in users /\ OwnerEmail(call[r]) \notin users
  BY <1>1 DEF CommitFounding, ActorMissing, Keys
<1>3. /\ m \in members' /\ m.company = call[r].company /\ m.user = OwnerEmail(call[r])
      /\ m.role = "OWNER" /\ m.status = "ACTIVE"
  BY DEF CommitFounding, FoundingMember
<1>4. /\ t.by = r /\ t.company = call[r].company /\ t.actor = call[r].actor
      /\ t.membership = Id(m) /\ t.entity = Id(m)
  BY <1>1 DEF AuditRow
<1> HIDE DEF m
<1>5. \E n \in members' :
         /\ t.entity = Id(n) /\ n.company = t.company /\ n.user # t.actor
         /\ n.role = "OWNER" /\ n.status = "ACTIVE"
  BY <1>2, <1>3, <1>4
<1> QED
  BY <1>4, <1>5 DEF Belongs, Id

LEMMA CausesStep == Local /\ Keys /\ Causes /\ [Next]_vars => Causes'
<1> SUFFICES ASSUME Local, Keys, Causes, [Next]_vars PROVE Causes'
  OBVIOUS
<1>0. trail \subseteq AuditRows /\ pc \in [Requests -> Label]
  BY DEF Local, TypeOK
<1>1. CASE UNCHANGED <<tables, pc, call, tenant, holders>>
  BY <1>1 DEF Causes, Belongs, Existing, tables
<1>2. ASSUME NEW r \in Requests, Frame(r), Silent(r)
      PROVE  Causes'
  <2>1. trail' = trail /\ pc'[r] # "start" /\ (pc[r] # "start" => call'[r] = call[r])
    <3>1. PICK l \in Label \ {"start"} : pc' = [pc EXCEPT ![r] = l]
      BY <1>2 DEF Silent
    <3> QED
      BY <1>0, <1>2, <3>1 DEF Silent, tables
  <2> QED
    BY <1>0, <1>2, <2>1, BelongsKept DEF Causes
<1>3. ASSUME NEW r \in Requests, Frame(r), InsertUser(r) \/ InsertMember(r)
      PROVE  Causes'
  <2>1. trail' = trail /\ pc'[r] # "start" /\ call' = call
    BY <1>0, <1>3 DEF InsertUser, InsertMember, Goto
  <2> QED
    BY <1>0, <1>3, <2>1, BelongsKept DEF Causes
<1>4. ASSUME NEW r \in Requests, Frame(r), CommitFounding(r)
      PROVE  Causes'
  <2>1. /\ trail' = trail \cup FoundingRows(r, call[r]) /\ pc'[r] # "start" /\ call' = call
        /\ pc[r] = "commit" /\ Stage(r)
    BY <1>0, <1>4 DEF CommitFounding, Goto, Local
  <2>2. \A t \in trail : pc'[t.by] # "start" /\ Belongs(t)'
    BY <1>0, <1>4, <2>1, BelongsKept DEF Causes
  <2>3. ASSUME NEW t \in FoundingRows(r, call[r])
        PROVE  t.by = r /\ Belongs(t)'
    <3>1. call[r].op \in {"found", "onboard"}
      BY <2>1 DEF Stage, Founding, FoundingOps
    <3>2. t.by = r
      BY <2>3 DEF FoundingRows, PlatformRow, AuditRow
    <3>3. CASE call[r].op = "found"
      BY <1>4, <2>1, <2>3, <3>2, <3>3, FounderRowBelongs
    <3>4. CASE call[r].op = "onboard"
      <4>1. t.membership = Nil
        BY <2>3, <3>4 DEF FoundingRows, PlatformRow, AuditRow
      <4> QED
        BY <2>1, <3>2, <3>4, <4>1 DEF Belongs
    <3> QED
      BY <3>1, <3>2, <3>3, <3>4
  <2> QED
    BY <2>1, <2>2, <2>3 DEF Causes
<1>5. ASSUME NEW r \in Requests, Frame(r), NEW row, Belongs(row), row.by = r,
             trail' = trail \cup {row}, pc' = [pc EXCEPT ![r] = "done"], pc[r] # "start",
             call' = call
      PROVE  Causes'
  <2>1. row \in AuditRows
    BY <1>5, LocalStep DEF Local, TypeOK
  <2>2. \A t \in trail \cup {row} : pc'[t.by] # "start" /\ Belongs(t)'
    BY <1>0, <1>5, <2>1, BelongsKept DEF Causes
  <2> QED
    BY <1>5, <2>2 DEF Causes
<1>6. ASSUME NEW r \in Requests, Frame(r), LogMember(r)
      PROVE  Causes'
  <2>1. PICK row : row = TenantRow(r, "MEMBER_ADDED", tenant[r], Id(Invited(call[r])), {})
    OBVIOUS
  <2>2. Joined(r, {"OWNER"}) /\ call[r].op # "found"
    BY <1>6 DEF LogMember, Local, Stage, Inviting, InviteCall
  <2>3. Belongs(row) /\ row.by = r
    <3> DEFINE e == Id(Invited(call[r]))
    <3>a. \A role \in {"OWNER"} : MayCause(role, "MEMBER_ADDED")
      BY DEF MayCause
    <3>b. row = TenantRow(r, "MEMBER_ADDED", tenant[r], e, {})
      BY <2>1
    <3> HIDE DEF e
    <3>1. Belongs(row)
      BY <2>2, <3>a, <3>b, TenantRowBelongs
    <3> QED
      BY <2>1, <3>1 DEF TenantRow, AuditRow
  <2> QED
    BY <1>5, <1>6, <2>1, <2>3 DEF LogMember, Goto
<1>7. ASSUME NEW r \in Requests, Frame(r), LogCreate(r)
      PROVE  Causes'
  <2>1. PICK row : row = TenantRow(r, "SHAREHOLDER_CREATED", tenant[r], r,
                                   {<<"email", Nil, call[r].set["email"]>>})
    OBVIOUS
  <2>2. Joined(r, Writers) /\ r \in Existing /\ call[r].op # "found"
    BY <1>7 DEF LogCreate, Local, Stage, Adding, AddHolderCall
  <2>3. Belongs(row) /\ row.by = r
    <3>1. Belongs(row)
      BY <2>1, <2>2, TenantRowBelongs DEF MayCause
    <3> QED
      BY <2>1, <3>1 DEF TenantRow, AuditRow
  <2> QED
    BY <1>5, <1>7, <2>1, <2>3 DEF LogCreate, Goto
<1>8. ASSUME NEW r \in Requests, Frame(r), LogUpdate(r)
      PROVE  Causes'
  <2>1. PICK row : row = TenantRow(r, "SHAREHOLDER_UPDATED", tenant[r], call[r].holder,
                                   Changes(entity[r]))
    OBVIOUS
  <2>2. /\ Joined(r, Writers) /\ call[r].holder \in Existing /\ call[r].op # "found"
        /\ tenant[call[r].holder].company = tenant[r].company
    BY <1>8 DEF LogUpdate, Local, Stage, Editing, EditHolderCall
  <2>3. Belongs(row) /\ row.by = r
    <3>1. Belongs(row)
      BY <2>1, <2>2, TenantRowBelongs DEF MayCause
    <3> QED
      BY <2>1, <3>1 DEF TenantRow, AuditRow
  <2> QED
    BY <1>5, <1>8, <2>1, <2>3 DEF LogUpdate, Goto
<1> QED
  BY <1>1, <1>2, <1>3, <1>4, <1>6, <1>7, <1>8, KindsOfSteps DEF Writes

\* A row of a company's trail that names a membership was caused by the active
\* member of that company it names, in a role its route allows, and is about
\* something of that company, whatever rows other tenants write meanwhile.
THEOREM TenantsKeptApart == Spec => []ActorsBelong
<1>1. Init => Causes
  BY DEF Init, BaseInit, Causes
<1>2. Causes => ActorsBelong
  BY DEF Causes, Belongs, ActorsBelong, MembersAct, FoundersBelong
<1> QED
  BY <1>1, <1>2, CausesStep, LocalInvariant, KeysInvariant, PTL DEF Spec

-------------------------------------------------------------------------------
(* The refinement                                                              *)

\* Until an e-mail is stored as it was typed, every step of a handler that
\* changes users, companies or memberships is one atomic step of TenantDirectory.
THEOREM TenancyRefinement == Spec => ImplementsTenantDirectory
<1>1. ASSUME Local, Local', Keys, [Next]_vars
      PROVE  [StoredAsTyped' \/ TD!Next]_<<users, companies, members>>
  <2>0. /\ users \subseteq Email /\ members \subseteq Member /\ users' \subseteq Email
        /\ companies \subseteq Companies
    BY <1>1 DEF Local, TypeOK
  <2>1. SUFFICES ASSUME ~StoredAsTyped'
                 PROVE  TD!Next \/ UNCHANGED <<users, companies, members>>
    OBVIOUS
  <2>2. \A u, v \in users' : u[1] = v[1] => u = v
    BY <2>0, <2>1 DEF StoredAsTyped, Normal
  <2>3. ASSUME NEW r \in Requests, InsertUser(r)
        PROVE  TD!Next \/ UNCHANGED <<users, companies, members>>
    <3>1. PICK e : e = Normal(call[r].email)
      OBVIOUS
    <3>2. SUFFICES ASSUME e \notin users, users' = users \cup {e},
                          UNCHANGED <<companies, members>>
                   PROVE  TD!Next
      BY <2>3, <3>1 DEF InsertUser
    <3>3. e[1] \notin {u[1] : u \in users} /\ e \in Email
      BY <2>0, <2>2, <3>2
    <3>4. {u[1] : u \in users'} = {u[1] : u \in users} \cup {e[1]}
      BY <3>2
    <3>5. TD!Enrol(e[1])
      BY <3>2, <3>3, <3>4 DEF TD!Enrol
    <3> QED
      BY <3>3, <3>5 DEF TD!Next, Email
  <2>4. ASSUME NEW r \in Requests, CommitFounding(r)
        PROVE  TD!Next
    <3>1. PICK e, c, m : e = OwnerEmail(call[r]) /\ c = call[r].company
                         /\ m = FoundingMember(call[r])
      OBVIOUS
    <3>2. /\ users' = users \cup {e} /\ companies' = companies \cup {c}
          /\ members' = members \cup {m} /\ pc[r] = "commit"
      BY <2>4, <3>1 DEF CommitFounding
    <3>3. e \notin users /\ c \notin companies
      BY <1>1, <3>1, <3>2 DEF Keys
    <3>4. e[1] \notin {u[1] : u \in users} /\ e \in Email
      BY <2>0, <2>2, <3>2, <3>3
    <3>5. {u[1] : u \in users'} = {u[1] : u \in users} \cup {e[1]}
      BY <3>2
    <3>6. m.company = c /\ m.user = e /\ m.role = "OWNER" /\ m.status = "ACTIVE"
      BY <3>1 DEF FoundingMember
    <3>7. {<<x.company, x.user[1], x.role, x.status>> : x \in members'}
             = {<<x.company, x.user[1], x.role, x.status>> : x \in members}
                  \cup {<<c, e[1], "OWNER", "ACTIVE">>}
      BY <3>2, <3>6
    <3>8. TD!Found(c, e[1])
      BY <3>2, <3>3, <3>4, <3>5, <3>7 DEF TD!Found
    <3>9. companies' \subseteq Companies
      BY <1>1 DEF Local, TypeOK
    <3> QED
      BY <3>2, <3>4, <3>8, <3>9 DEF TD!Next, Email
  <2>5. ASSUME NEW r \in Requests, InsertMember(r)
        PROVE  TD!Next \/ UNCHANGED <<users, companies, members>>
    <3>1. PICK a, m, t : a = call[r] /\ m = Invited(a) /\ t = tenant[r]
      OBVIOUS
    <3>2. SUFFICES ASSUME MembersAt(a.company, a.user) = {}, members' = members \cup {m},
                          UNCHANGED <<users, companies>>
                   PROVE  TD!Next
      BY <2>5, <3>1 DEF InsertMember
    <3>3. /\ a \in InviteCall /\ t \in members /\ t.status = "ACTIVE" /\ t.role = "OWNER"
          /\ t.company = a.company /\ a.user \in users
      BY <1>1, <2>5, <3>1, CallKinds DEF InsertMember, Local, Stage, Inviting, Joined, Keys
    <3>4. m.company = a.company /\ m.user = a.user /\ m.role = a.role /\ m.status = a.status
      BY <3>1 DEF Invited
    <3> DEFINE roster == {<<x.company, x.user[1], x.role, x.status>> : x \in members}
               owner == <<t.company, t.user[1], t.role, t.status>>
               p == a.user[1]
    <3>5. owner \in roster /\ owner[3] = "OWNER" /\ owner[4] = "ACTIVE" /\ owner[1] = a.company
      BY <3>3
    <3>6. p \in {u[1] : u \in users}
      BY <3>3
    <3>7. \A place \in roster : place[1] = owner[1] => place[2] # p
      <4> SUFFICES ASSUME NEW x \in members, x.company = a.company, x.user[1] = p
                   PROVE  FALSE
        BY <3>5
      <4>1. x.user \in users
        BY <1>1 DEF Keys
      <4>2. x.user = a.user
        BY <2>2, <3>2, <3>3, <4>1
      <4> QED
        BY <3>2, <4>2 DEF MembersAt
    <3>8. {<<x.company, x.user[1], x.role, x.status>> : x \in members'}
             = roster \cup {<<owner[1], p, a.role, a.status>>}
      BY <3>2, <3>4, <3>5
    <3>9. TD!Admit(owner, p, a.role, a.status)
      BY <3>2, <3>5, <3>6, <3>7, <3>8 DEF TD!Admit
    <3> QED
      BY <3>3, <3>5, <3>6, <3>9 DEF TD!Next, InviteCall
  <2>6. CASE \E r \in Requests : LogMember(r) \/ LogCreate(r) \/ LogUpdate(r) \/ Silent(r)
    BY <2>6 DEF LogMember, LogCreate, LogUpdate, Silent, tables
  <2>7. CASE UNCHANGED tables
    BY <2>7 DEF tables
  <2> QED
    BY <1>1, <2>3, <2>4, <2>5, <2>6, <2>7, KindsOfSteps DEF Writes
<1> QED
  BY <1>1, LocalInvariant, KeysInvariant, PTL DEF Spec, ImplementsTenantDirectory

-------------------------------------------------------------------------------
(* The order of the audit transactions                                         *)

Begun == {s \in Requests : began[s] # 0}

\* The places in the order are distinct and count the transactions, so that the
\* next one comes last; the rows of the trail are of transactions that began.
InOrder ==
    /\ \A r \in Requests : began[r] <= Cardinality(Begun)
    /\ \A r, s \in Requests : began[r] = began[s] /\ began[r] # 0 => r = s
    /\ \A r \in Requests : pc[r] \in Founding => began[r] # 0
    /\ \A t \in trail : t.by \in Begun

LEMMA BeginsLast ==
    ASSUME Local, InOrder, NEW r \in Requests, began[r] = 0, Began(r)
    PROVE  /\ began'[r] > 0
           /\ \A q \in Requests \ {r} : began'[q] = began[q] /\ began[q] < began'[r]
           /\ \A q \in Requests : began'[q] <= Cardinality(Begun')
           /\ Begun' = Begun \cup {r}
<1>1. IsFiniteSet(Begun) /\ Cardinality(Begun) \in Nat
  BY RequestsAssumption, FS_Subset, FS_CardinalityType DEF Begun
<1>2. began' = [began EXCEPT ![r] = Cardinality(Begun) + 1]
  BY DEF Began, Begun
<1>3. began \in [Requests -> 0..Cardinality(Requests)] /\ Cardinality(Requests) \in Nat
  BY RequestsAssumption, FS_CardinalityType DEF Local, TypeOK
<1>4. Begun' = Begun \cup {r}
  BY <1>1, <1>2, <1>3 DEF Begun
<1>5. Cardinality(Begun') = Cardinality(Begun) + 1
  BY <1>1, <1>4, FS_AddElement DEF Begun
<1> QED
  BY <1>1, <1>2, <1>3, <1>4, <1>5 DEF InOrder

\* Who begins a transaction and who writes to the trail.
LEMMA Beginners ==
    ASSUME Local, InOrder, NEW r \in Requests, Silent(r) \/ Writes(r),
           \/ OnboardingStep(r) \/ MembersStep(r) \/ ShareholdersStep(r) \/ ListingStep(r)
           \/ Die(r)
    PROVE  /\ UNCHANGED began \/ (began[r] = 0 /\ Began(r))
           /\ trail \subseteq trail' /\ \A t \in trail' \ trail : t.by = r /\ began'[r] # 0
           /\ pc'[r] \in Founding => began'[r] # 0
<1> USE DEF Goto
<1>0. Stage(r) /\ pc \in [Requests -> Label] /\ began \in [Requests -> 0..Cardinality(Requests)]
  BY DEF Local, TypeOK
<1>1. ASSUME NEW a \in Calls, NEW roles,
             NEW label \in {"checkMember", "insertHolder", "find", "page"},
             PassGuards(r, a, roles, label) \/ CompanyNotActive(r, a)
      PROVE  /\ UNCHANGED <<began, trail>> /\ pc'[r] \notin Founding
  BY <1>0, <1>1 DEF PassGuards, CompanyNotActive, tables, Founding
<1>2. CASE OnboardingStep(r)
  <2>1. ASSUME NEW a \in Calls, Register(r, a)
        PROVE  UNCHANGED <<began, trail>> /\ pc'[r] \notin Founding
    BY <1>0, <2>1 DEF Register, tables, Founding
  <2>2. ASSUME NEW a \in Calls, StartFounding(r, a)
        PROVE  /\ UNCHANGED trail /\ began[r] = 0
               /\ (UNCHANGED began /\ pc'[r] \notin Founding) \/ Began(r)
    BY <1>0, <2>2 DEF StartFounding, tables, Founding, Stage
  <2>3. ASSUME NEW a \in Calls, StartFounding(r, a), Began(r)
        PROVE  began'[r] # 0
    BY <2>2, <2>3, BeginsLast
  <2>4. CASE InsertUser(r)
    BY <1>0, <2>4 DEF InsertUser, Founding
  <2>5. CASE InsertCompany(r) \/ InsertOwner(r) \/ RollbackFounding(r)
    BY <1>0, <2>5 DEF InsertCompany, InsertOwner, RollbackFounding, Founding, tables, InOrder
  <2>6. CASE CommitFounding(r)
    <3>1. began[r] # 0 /\ UNCHANGED began
      BY <2>6 DEF CommitFounding, Founding, InOrder
    <3>2. \A t \in FoundingRows(r, call[r]) : t.by = r
      BY DEF FoundingRows, PlatformRow, AuditRow
    <3> QED
      BY <1>0, <2>6, <3>1, <3>2 DEF CommitFounding
  <2> QED
    BY <1>2, <2>1, <2>2, <2>3, <2>4, <2>5, <2>6 DEF OnboardingStep
<1>3. CASE MembersStep(r) \/ ShareholdersStep(r) \/ ListingStep(r) \/ Die(r)
  <2>1. CASE \E a \in Calls : \/ Invite(r, a) \/ AddHolder(r, a) \/ EditHolder(r, a)
                              \/ Walk(r, a)
    BY <1>1, <2>1 DEF Invite, AddHolder, EditHolder, Walk
  <2>2. CASE \E a \in Calls : WalkAll(r, a)
    BY <1>0, <2>2 DEF WalkAll, tables, Founding
  <2>3. CASE \/ CheckMember(r) \/ InsertMember(r) \/ InsertHolder(r) \/ FindHolder(r)
             \/ ReloadHolder(r) \/ WriteHolder(r)
    BY <1>0, <2>3
    DEF CheckMember, InsertMember, InsertHolder, FindHolder, ReloadHolder, WriteHolder, tables,
        Founding
  <2>4. CASE ReadPage(r) \/ CountRows(r) \/ Die(r)
    BY <1>0, <2>4 DEF ReadPage, CountRows, Die, Abort, tables, Founding
  <2>5. CASE LogMember(r) \/ LogCreate(r) \/ LogUpdate(r)
    <3>1. began[r] = 0 /\ Began(r) /\ pc'[r] = "done"
      BY <1>0, <2>5 DEF LogMember, LogCreate, LogUpdate, Stage, Inviting, Adding, Editing
    <3>2. PICK action, entity1, changes :
             trail' = trail \cup {TenantRow(r, action, tenant[r], entity1, changes)}
      BY <2>5 DEF LogMember, LogCreate, LogUpdate
    <3>3. \A t \in trail' \ trail : t.by = r
      BY <3>2 DEF TenantRow, AuditRow
    <3> QED
      BY <3>1, <3>2, <3>3, BeginsLast DEF Founding
  <2> QED
    BY <1>3, <2>1, <2>2, <2>3, <2>4, <2>5 DEF MembersStep, ShareholdersStep, ListingStep
<1> QED
  BY <1>2, <1>3

LEMMA OrderStep == Local /\ InOrder /\ [Next]_vars => InOrder'
<1> SUFFICES ASSUME Local, InOrder, [Next]_vars PROVE InOrder'
  OBVIOUS
<1>0. \A t \in trail : t.by \in Requests
  BY DEF Local, TypeOK, AuditRows
<1>1. ASSUME NEW r \in Requests, Frame(r),
             \/ OnboardingStep(r) \/ MembersStep(r) \/ ShareholdersStep(r) \/ ListingStep(r)
             \/ Die(r)
      PROVE  InOrder'
  <2>1. /\ UNCHANGED began \/ (began[r] = 0 /\ Began(r))
        /\ trail \subseteq trail' /\ \A t \in trail' \ trail : t.by = r /\ began'[r] # 0
        /\ pc'[r] \in Founding => began'[r] # 0
    BY <1>1, SilentSteps, Beginners
  <2>2. \A q \in Requests \ {r} : pc'[q] = pc[q] /\ began'[q] = began[q]
    BY <1>1 DEF Frame
  <2>3. CASE UNCHANGED began
    BY <1>0, <2>1, <2>2, <2>3 DEF InOrder, Begun
  <2>4. CASE began[r] = 0 /\ Began(r)
    <3>1. /\ began'[r] > 0
          /\ \A q \in Requests \ {r} : began'[q] = began[q] /\ began[q] < began'[r]
          /\ \A q \in Requests : began'[q] <= Cardinality(Begun')
          /\ Begun' = Begun \cup {r}
      BY <2>4, BeginsLast
    <3>2. began \in [Requests -> Nat] /\ began'[r] \in Nat
      BY <2>4, <3>1, RequestsAssumption, FS_CardinalityType, BeginsInOrder DEF Local, TypeOK
    <3>3. \A q \in Requests : pc'[q] \in Founding => began'[q] # 0
      BY <2>1, <2>2 DEF InOrder
    <3>4. \A p, q \in Requests : began'[p] = began'[q] /\ began'[p] # 0 => p = q
      <4>1. \A p, q \in Requests \ {r} : began'[p] = began'[q] /\ began'[p] # 0 => p = q
        BY <2>2 DEF InOrder
      <4>2. \A q \in Requests \ {r} : began'[q] # began'[r]
        BY <3>1, <3>2
      <4> QED
        BY <4>1, <4>2
    <3>5. \A t \in trail' : t.by \in Begun'
      BY <2>1, <3>1 DEF InOrder
    <3> QED
      BY <3>1, <3>3, <3>4, <3>5 DEF InOrder
  <2> QED
    BY <2>1, <2>3, <2>4
<1>2. CASE UNCHANGED vars
  BY <1>2 DEF vars, base, tables, control, InOrder, Begun
<1> QED
  BY <1>1, <1>2, OnboardingLocal, MembersLocal, ShareholdersLocal, ListingLocal, DieLocal DEF Next

-------------------------------------------------------------------------------
(* What the trail tells of the columns of a shareholder                        *)

\* The rows tell that column c of shareholder h, created as born, is v: the
\* newest row that names the column says so, or no row names it.
Says(t, c, v) == <<c, v>> \in {<<x[1], x[3]>> : x \in t.changes}

Tale(rows, order, born, h, c, v) ==
    \/ v = born[c] /\ \A t \in rows : ~Tells(t, h, c)
    \/ \E t \in rows :
          /\ Tells(t, h, c) /\ Says(t, c, v)
          /\ \A u \in rows : Tells(u, h, c) => order[u.by] <= order[t.by]

Told(h, row) == \A c \in Column : Tale(trail, began, call[h].set, h, c, row[c])

LEMMA TaleKept ==
    ASSUME NEW rows, NEW more, NEW order, NEW later, NEW born, NEW h, NEW c, NEW v,
           rows \subseteq more, \A t \in more \ rows : ~Tells(t, h, c),
           \A t \in rows : later[t.by] = order[t.by],
           Tale(rows, order, born, h, c, v)
    PROVE  Tale(more, later, born, h, c, v)
BY DEF Tale

LEMMA TaleOfNewest ==
    ASSUME NEW rows, NEW order, NEW born, NEW h, NEW c, NEW v, NEW t \in rows,
           Tells(t, h, c), Says(t, c, v), \A u \in rows : order[u.by] <= order[t.by]
    PROVE  Tale(rows, order, born, h, c, v)
BY DEF Tale

\* An update of h was not logged.
Abandoned(h) ==
    \E r \in Requests :
        pc[r] = "unlogged" /\ call[r].op = "editHolder" /\ call[r].holder = h

\* What the update s knows of h, when nothing else has worked on h since it read.
Knows(s, h) ==
    /\ Told(h, entity[s].before)
    /\ pc[s] \in {"reload", "write"} => holders[h] = entity[s].before
    /\ pc[s] = "write" =>
          entity[s].dirty = {c \in Column : entity[s].after[c] # entity[s].before[c]}
    /\ pc[s] = "logUpdate" => holders[h] = entity[s].after

Untouched(h) ==
    /\ holders[h] = call[h].set
    /\ \A t \in trail : t.entity = h => t.changes = {}
    /\ \A s \in Requests : ~Updating(s, h)

Story(h) ==
    /\ pc[h] = "logCreate" => Untouched(h)
    /\ \A s, q \in Requests : Updating(s, h) /\ Updating(q, h) => s = q
    /\ ~Abandoned(h) =>
          /\ \A s \in Requests : Updating(s, h) => Knows(s, h)
          /\ (\A s \in Requests : ~Updating(s, h)) => Told(h, holders[h])

Stories ==
    /\ \A h \in Existing : pc[h] # "insertHolder"
    /\ \A t \in trail : t.changes # {} => t.entity \in Existing
    /\ \A h \in Existing \ overlapped : Story(h)

-------------------------------------------------------------------------------
\* A step of r that has nothing to do with shareholder h.
Aside(r, h) ==
    /\ holders'[h] = holders[h] /\ call'[h] = call[h]
    /\ pc'[h] = "logCreate" => pc[h] = "logCreate"
    /\ \A q \in Requests \ {r} : pc'[q] = pc[q] /\ call'[q] = call[q] /\ entity'[q] = entity[q]
    /\ pc[r] # "unlogged" /\ ~Updating(r, h) /\ ~Updating(r, h)'
    /\ trail \subseteq trail'
    /\ \A t \in trail' \ trail : t.entity = h => t.changes = {}
    /\ \A t \in trail : began'[t.by] = began[t.by]

LEMMA ToldAside ==
    ASSUME NEW r, NEW h, Aside(r, h), NEW row, Told(h, row)
    PROVE  \A c \in Column : Tale(trail', began', call'[h].set, h, c, row[c])
<1>1. \A c : \A t \in trail' \ trail : ~Tells(t, h, c)
  BY DEF Aside, Tells
<1> QED
  BY <1>1, TaleKept DEF Told, Aside

LEMMA StoryAside ==
    ASSUME NEW r \in Requests, NEW h \in Existing, Aside(r, h), Story(h)
    PROVE  Story(h)'
<1>1. \A s \in Requests :
         /\ Updating(s, h)' <=> Updating(s, h)
         /\ Updating(s, h) => pc'[s] = pc[s] /\ entity'[s] = entity[s]
  BY DEF Aside, Updating
<1>2. Abandoned(h) => Abandoned(h)'
  BY DEF Abandoned, Aside
<1>3. Untouched(h) => Untouched(h)'
  BY <1>1 DEF Untouched, Aside
<1>4. ASSUME NEW s \in Requests, Updating(s, h), Knows(s, h)
      PROVE  Knows(s, h)'
  <2>1. Told(h, entity[s].before)
    BY <1>4 DEF Knows
  <2>2. \A c \in Column : Tale(trail', began', call'[h].set, h, c, entity[s].before[c])
    BY <2>1, ToldAside
  <2>3. Told(h, entity[s].before)'
    BY <1>1, <1>4, <2>2 DEF Told
  <2> QED
    BY <1>1, <1>4, <2>3 DEF Knows, Aside
<1>5. ASSUME Told(h, holders[h]) PROVE Told(h, holders[h])'
  <2>1. \A c \in Column : Tale(trail', began', call'[h].set, h, c, holders[h][c])
    BY <1>5, ToldAside
  <2> QED
    BY <2>1 DEF Told, Aside
<1> QED
  BY <1>1, <1>2, <1>3, <1>4, <1>5 DEF Story, Aside

\* The steps of the other handlers, and the guards, concern no shareholder.
Elsewhere(r) ==
    /\ UNCHANGED <<holders, overlapped>>
    /\ pc[r] \notin {"reload", "write", "logUpdate", "unlogged"}
    /\ \E l \in Label \ {"reload", "write", "logUpdate", "logCreate"} :
          /\ pc' = [pc EXCEPT ![r] = l]
          /\ l = "insertHolder" => pc[r] = "start"
    /\ \A t \in trail' \ trail : t.changes = {}

LEMMA GuardsElsewhere ==
    ASSUME Local, NEW r \in Requests, UNCHANGED holderVars,
           NEW a, NEW roles, NEW label \in {"checkMember", "insertHolder", "find", "page"},
           PassGuards(r, a, roles, label) \/ CompanyNotActive(r, a)
    PROVE  Elsewhere(r)
<1>1. PICK l \in {label, "refused"} : pc' = [pc EXCEPT ![r] = l]
  BY DEF PassGuards, CompanyNotActive, Goto
<1>2. pc[r] = "start" /\ trail' = trail
  BY DEF PassGuards, CompanyNotActive, tables
<1> QED
  BY <1>1, <1>2 DEF Elsewhere, Label, Ended, holderVars

LEMMA OthersElsewhere ==
    ASSUME Local, NEW r \in Requests,
           \/ /\ OnboardingStep(r) \/ MembersStep(r) \/ ListingStep(r)
              /\ UNCHANGED holderVars
           \/ \E a \in Calls : AddHolder(r, a) \/ EditHolder(r, a)
    PROVE  Elsewhere(r)
<1> USE DEF Goto
<1>0. UNCHANGED holderVars
  BY DEF AddHolder, EditHolder
<1>1. ASSUME NEW l \in {"insertUser", "insertCompany", "insertOwner", "commit", "insertMember",
                        "logMember", "page", "count", "done", "refused", "failed"},
             pc' = [pc EXCEPT ![r] = l],
             pc[r] \notin {"reload", "write", "logUpdate", "unlogged"},
             \A t \in trail' \ trail : t.changes = {}
      PROVE  Elsewhere(r)
  BY <1>0, <1>1 DEF Elsewhere, Label, Ended, Logging, holderVars
<1>2. CASE OnboardingStep(r)
  <2>1. ASSUME NEW a \in Calls, Register(r, a)
        PROVE  Elsewhere(r)
    <3>1. trail' = trail /\ pc[r] = "start"
      BY <2>1 DEF Register, tables
    <3>2. PICK l \in {"refused", "insertUser"} : pc' = [pc EXCEPT ![r] = l]
      BY <2>1 DEF Register
    <3> QED
      BY <1>1, <3>1, <3>2
  <2>2. ASSUME NEW a \in Calls, StartFounding(r, a)
        PROVE  Elsewhere(r)
    <3>1. trail' = trail /\ pc[r] = "start"
      BY <2>2 DEF StartFounding, tables
    <3>2. PICK l \in {"refused", "insertCompany"} : pc' = [pc EXCEPT ![r] = l]
      BY <2>2 DEF StartFounding
    <3> QED
      BY <1>1, <3>1, <3>2
  <2>3. CASE InsertUser(r) \/ InsertCompany(r) \/ InsertOwner(r) \/ RollbackFounding(r)
    <3>1. trail' = trail /\ pc[r] \in {"insertUser", "insertCompany", "insertOwner", "commit"}
      BY <2>3 DEF InsertUser, InsertCompany, InsertOwner, RollbackFounding, tables
    <3>2. PICK l \in {"failed", "done", "insertOwner", "commit"} : pc' = [pc EXCEPT ![r] = l]
      BY <2>3 DEF InsertUser, InsertCompany, InsertOwner, RollbackFounding
    <3> QED
      BY <1>1, <3>1, <3>2
  <2>4. CASE CommitFounding(r)
    <3>1. \A t \in FoundingRows(r, call[r]) : t.changes = {}
      BY DEF FoundingRows, PlatformRow, AuditRow
    <3>2. /\ pc' = [pc EXCEPT ![r] = "done"] /\ pc[r] = "commit"
          /\ trail' = trail \cup FoundingRows(r, call[r])
      BY <2>4 DEF CommitFounding
    <3> QED
      BY <1>1, <3>1, <3>2
  <2> QED
    BY <1>2, <2>1, <2>2, <2>3, <2>4 DEF OnboardingStep
<1>3. CASE MembersStep(r)
  <2>1. CASE CheckMember(r) \/ InsertMember(r)
    <3>1. trail' = trail /\ pc[r] \in {"checkMember", "insertMember"}
      BY <2>1 DEF CheckMember, InsertMember, tables
    <3>2. PICK l \in {"insertMember", "refused", "logMember", "failed"} :
             pc' = [pc EXCEPT ![r] = l]
      BY <2>1 DEF CheckMember, InsertMember
    <3> QED
      BY <1>1, <3>1, <3>2
  <2>2. CASE LogMember(r)
    <3>1. PICK row : row = TenantRow(r, "MEMBER_ADDED", tenant[r], Id(Invited(call[r])), {})
      OBVIOUS
    <3>2. row.changes = {}
      BY <3>1 DEF TenantRow, AuditRow
    <3>3. /\ pc' = [pc EXCEPT ![r] = "done"] /\ pc[r] = "logMember"
          /\ trail' = trail \cup {row}
      BY <2>2, <3>1 DEF LogMember
    <3> QED
      BY <1>1, <3>2, <3>3
  <2> QED
    BY <1>0, <1>3, <2>1, <2>2, GuardsElsewhere DEF MembersStep, Invite
<1>4. CASE ListingStep(r)
  <2>1. CASE ReadPage(r) \/ CountRows(r)
    <3>1. trail' = trail /\ pc[r] \in {"page", "count"}
      BY <2>1 DEF ReadPage, CountRows, tables
    <3>2. PICK l \in {"page", "count", "done"} : pc' = [pc EXCEPT ![r] = l]
      BY <2>1 DEF ReadPage, CountRows
    <3> QED
      BY <1>1, <3>1, <3>2
  <2>2. ASSUME NEW a \in Calls, WalkAll(r, a)
        PROVE  Elsewhere(r)
    <3>1. trail' = trail /\ pc[r] = "start" /\ pc' = [pc EXCEPT ![r] = "page"]
      BY <2>2 DEF WalkAll, tables
    <3> QED
      BY <1>1, <3>1
  <2> QED
    BY <1>0, <1>4, <2>1, <2>2, GuardsElsewhere DEF ListingStep, Walk
<1>5. CASE \E a \in Calls : AddHolder(r, a) \/ EditHolder(r, a)
  BY <1>0, <1>5, GuardsElsewhere DEF AddHolder, EditHolder
<1> QED
  BY <1>2, <1>3, <1>4, <1>5

LEMMA StoriesElsewhere ==
    ASSUME Local, InOrder, Stories, NEW r \in Requests, Frame(r), Elsewhere(r),
           \/ OnboardingStep(r) \/ MembersStep(r) \/ ShareholdersStep(r) \/ ListingStep(r)
           \/ Die(r)
    PROVE  Stories'
<1>1. /\ UNCHANGED began \/ (began[r] = 0 /\ Began(r))
      /\ trail \subseteq trail'
  BY SilentSteps, Beginners
<1>2. \A t \in trail : began'[t.by] = began[t.by]
  BY <1>1, BeginsLast DEF InOrder, Begun
<1>3. \A q \in Requests : pc[q] # "start" => call'[q] = call[q]
  BY SilentSteps DEF Silent, Writes, InsertUser, CommitFounding, InsertMember, LogMember,
     LogCreate, LogUpdate
<1>4. Existing' = Existing /\ \A h \in Existing : h \in Requests /\ pc[h] # "start"
  BY DEF Elsewhere, Existing, Local, Stage
<1>5. PICK l \in Label \ {"reload", "write", "logUpdate", "logCreate"} :
         pc' = [pc EXCEPT ![r] = l] /\ (l = "insertHolder" => pc[r] = "start")
  BY DEF Elsewhere
<1>6. pc \in [Requests -> Label]
  BY DEF Local, TypeOK
<1>7. ASSUME NEW h \in Existing PROVE Aside(r, h)
  BY <1>1, <1>2, <1>3, <1>4, <1>5, <1>6 DEF Aside, Elsewhere, Frame, Updating
<1>8. \A h \in Existing : pc'[h] # "insertHolder"
  BY <1>4, <1>5, <1>6 DEF Stories
<1>9. \A h \in Existing' \ overlapped' : Story(h)'
  BY <1>4, <1>7, StoryAside DEF Stories, Elsewhere
<1>10. \A t \in trail' : t.changes # {} => t.entity \in Existing'
  BY <1>4 DEF Stories, Elsewhere
<1> QED
  BY <1>4, <1>8, <1>9, <1>10 DEF Stories

\* A row that is logged is newer than all others.
LEMMA LoggedNewest ==
    ASSUME Local, InOrder, NEW r \in Requests, began[r] = 0, Began(r),
           NEW row, row.by = r, trail' = trail \cup {row}
    PROVE  \A u \in trail' : began'[u.by] <= began'[row.by]
<1>1. \A u \in trail : u.by \in Requests
  BY DEF Local, TypeOK, AuditRows
<1>2. /\ began'[r] > 0 /\ \A q \in Requests \ {r} : began'[q] = began[q] /\ began[q] < began'[r]
  BY BeginsLast
<1>3. began \in [Requests -> Nat] /\ began'[r] \in Nat
  BY RequestsAssumption, FS_CardinalityType, BeginsInOrder DEF Local, TypeOK
<1> QED
  BY <1>1, <1>2, <1>3

\* A step about shareholder g leaves the others alone.
LEMMA StoriesAbout ==
    ASSUME Local, InOrder, Stories, NEW r \in Requests, Frame(r), NEW g \in Requests,
           Existing' = Existing \cup {g}, overlapped \subseteq overlapped',
           \A h \in Existing \ {g} : holders'[h] = holders[h], UNCHANGED call,
           pc[r] # "unlogged", pc'[r] \notin {"insertHolder", "logCreate"} \/ r = g,
           pc'[g] # "insertHolder",
           pc[r] \in {"reload", "write", "logUpdate"} => call[r].holder = g,
           pc'[r] \in {"reload", "write", "logUpdate"} => call[r].holder = g,
           trail \subseteq trail', \A t \in trail' \ trail : t.entity = g,
           \A t \in trail : began'[t.by] = began[t.by],
           g \notin overlapped' => Story(g)'
    PROVE  Stories'
<1>1. ASSUME NEW h \in Existing \ {g} PROVE Aside(r, h)
  BY <1>1 DEF Aside, Frame, Updating, Existing
<1>2. \A h \in Existing' \ overlapped' : Story(h)'
  BY <1>1, StoryAside DEF Stories
<1>3. \A h \in Existing' : pc'[h] # "insertHolder"
  BY DEF Stories, Frame, Existing
<1>4. \A t \in trail' : t.changes # {} => t.entity \in Existing'
  BY DEF Stories
<1> QED
  BY <1>2, <1>3, <1>4 DEF Stories

LEMMA StoriesInsert ==
    ASSUME Local, InOrder, Stories, NEW r \in Requests, Frame(r), InsertHolder(r)
    PROVE  Stories'
<1> USE DEF Goto
<1>0. Stage(r) /\ pc \in [Requests -> Label] /\ holders \in [Requests -> Row \cup {Nil}]
  BY DEF Local, TypeOK
<1>1. CASE Goto(r, "failed") /\ UNCHANGED holders
  <2>1. Elsewhere(r)
    BY <1>1 DEF Elsewhere, InsertHolder, tables, Label, Ended
  <2> QED
    BY <2>1, StoriesElsewhere DEF ShareholdersStep
<1>2. CASE Goto(r, "logCreate") /\ holders' = [holders EXCEPT ![r] = call[r].set]
  <2>1. pc[r] = "insertHolder" /\ UNCHANGED <<trail, call, began, entity, overlapped>>
    BY DEF InsertHolder, tables
  <2>2. r \notin Existing
    BY <2>1 DEF Stories
  <2>3. call[r].set \in Row /\ call[r].set # Nil
    BY <1>0, <2>1, CallKinds, NilAssumption DEF Stage, Adding, AddHolderCall
  <2>4. Existing' = Existing \cup {r}
    BY <1>0, <1>2, <2>3 DEF Existing
  <2>5. \A s \in Requests : ~Updating(s, r)'
    <3>1. \A s \in Requests : Updating(s, r) => r \in Existing
      BY DEF Local, Stage, Updating
    <3> QED
      BY <1>0, <1>2, <2>1, <2>2, <3>1 DEF Updating
  <2>6. \A t \in trail' : t.entity = r => t.changes = {}
    BY <2>1, <2>2 DEF Stories
  <2>7. holders'[r] = call'[r].set
    BY <1>0, <1>2, <2>1
  <2>8. Told(r, holders[r])'
    BY <2>6, <2>7 DEF Told, Tale, Tells
  <2>9. Story(r)'
    BY <2>5, <2>6, <2>7, <2>8 DEF Story, Untouched
  <2> QED
    BY <1>0, <1>2, <2>1, <2>4, <2>9, StoriesAbout
<1> QED
  BY <1>1, <1>2 DEF InsertHolder

LEMMA StoriesLogCreate ==
    ASSUME Local, InOrder, Stories, NEW r \in Requests, Frame(r), LogCreate(r)
    PROVE  Stories'
<1> USE DEF Goto
<1>0. Stage(r) /\ pc \in [Requests -> Label]
  BY DEF Local, TypeOK
<1>1. /\ pc[r] = "logCreate" /\ pc' = [pc EXCEPT ![r] = "done"] /\ Began(r)
      /\ UNCHANGED <<call, holders, overlapped, entity>>
  BY DEF LogCreate, holderVars
<1>2. r \in Existing /\ began[r] = 0 /\ Existing' = Existing
  BY <1>0, <1>1 DEF Stage, Adding, Existing
<1>3. PICK row : row = TenantRow(r, "SHAREHOLDER_CREATED", tenant[r], r,
                                 {<<"email", Nil, call[r].set["email"]>>})
  OBVIOUS
<1>4. /\ row.by = r /\ row.entity = r
      /\ row.changes = {<<"email", Nil, call[r].set["email"]>>}
  BY <1>3 DEF TenantRow, AuditRow
<1>5. trail' = trail \cup {row}
  BY <1>3 DEF LogCreate
<1>6. \A u \in trail' : began'[u.by] <= began'[row.by]
  BY <1>1, <1>2, <1>4, <1>5, LoggedNewest
<1>7. \A t \in trail : began'[t.by] = began[t.by]
  BY <1>1, <1>2, BeginsLast DEF InOrder, Begun
<1>8. ASSUME r \notin overlapped PROVE Story(r)'
  <2>1. Untouched(r)
    BY <1>1, <1>2, <1>8 DEF Stories, Story
  <2>2. \A s \in Requests : ~Updating(s, r)'
    BY <1>0, <1>1, <2>1 DEF Untouched, Updating
  <2>3. holders'[r] = call'[r].set
    BY <1>1, <2>1 DEF Untouched
  <2>4. Tale(trail', began', call'[r].set, r, "email", holders'[r]["email"])
    <3>1. Tells(row, r, "email") /\ Says(row, "email", holders'[r]["email"])
      BY <1>1, <1>4, <2>3 DEF Tells, Says
    <3> QED
      BY <1>5, <1>6, <3>1, TaleOfNewest
  <2>5. Tale(trail', began', call'[r].set, r, "address", holders'[r]["address"])
    <3>1. \A t \in trail : ~Tells(t, r, "address")
      BY <2>1 DEF Untouched, Tells
    <3>2. ~Tells(row, r, "address")
      BY <1>4 DEF Tells
    <3> QED
      BY <1>5, <2>3, <3>1, <3>2 DEF Tale
  <2>6. Told(r, holders[r])'
    BY <2>4, <2>5 DEF Told, Column
  <2>7. pc'[r] # "logCreate"
    BY <1>0, <1>1
  <2> QED
    BY <2>2, <2>6, <2>7 DEF Story
<1>9. Existing' = Existing \cup {r} /\ pc'[r] = "done"
  BY <1>0, <1>1, <1>2
<1> QED
  BY <1>1, <1>4, <1>5, <1>7, <1>8, <1>9, StoriesAbout

\* An update that finds a shareholder nothing else works on reads what its trail
\* tells.
LEMMA StoriesFind ==
    ASSUME Local, InOrder, Stories, NEW r \in Requests, Frame(r), FindHolder(r)
    PROVE  Stories'
<1> USE DEF Goto
<1>0. Stage(r) /\ pc \in [Requests -> Label]
  BY DEF Local, TypeOK
<1>1. pc[r] = "find" /\ UNCHANGED <<trail, call, began, holders>>
  BY DEF FindHolder, tables
<1>2. CASE Goto(r, "refused") /\ UNCHANGED <<entity, overlapped>>
  <2>1. /\ pc' = [pc EXCEPT ![r] = "refused"]
        /\ "refused" \in Label \ {"reload", "write", "logUpdate", "logCreate"}
    BY <1>2 DEF Label, Ended
  <2>2. Elsewhere(r)
    BY <1>1, <1>2, <2>1 DEF Elsewhere
  <2> QED
    BY <2>2, StoriesElsewhere DEF ShareholdersStep
<1>3. CASE ~(Goto(r, "refused") /\ UNCHANGED <<entity, overlapped>>)
  <2>1. PICK g \in Existing : g = call[r].holder
    BY <1>3 DEF FindHolder
  <2>2. /\ pc' = [pc EXCEPT ![r] = "reload"]
        /\ entity' = [entity EXCEPT ![r] =
              [before |-> holders[g], after |-> Assign(holders[g], call[r].set),
               dirty |-> {}]]
        /\ overlapped' = IF Busy(g) THEN overlapped \cup {g} ELSE overlapped
    BY <1>3, <2>1 DEF FindHolder
  <2>3. Existing' = Existing /\ g \in Requests /\ pc[g] # "insertHolder"
    BY <1>1, <2>1 DEF Existing, Stories
  <2>4. entity'[r].before = holders[g]
    BY <2>2 DEF Local, TypeOK
  <2>5. ASSUME g \notin overlapped' PROVE Story(g)'
    <3>1. g \notin overlapped /\ pc[g] # "logCreate" /\ \A s \in Requests : ~Updating(s, g)
      BY <2>2, <2>5 DEF Busy
    <3>2. \A s \in Requests : Updating(s, g)' => s = r
      BY <1>1, <2>2, <3>1 DEF Updating
    <3>3. ~Abandoned(g)' => Told(g, holders[g])
      <4>1. Abandoned(g) => Abandoned(g)'
        BY <1>0, <1>1, <2>2 DEF Abandoned
      <4> QED
        BY <3>1, <4>1 DEF Stories, Story
    <3>4. ~Abandoned(g)' => Told(g, entity[r].before)'
      BY <1>1, <2>4, <3>3 DEF Told
    <3>5. ~Abandoned(g)' => Knows(r, g)'
      BY <1>0, <1>1, <2>2, <2>4, <3>4 DEF Knows
    <3>6. Updating(r, g)' /\ pc'[g] # "logCreate"
      BY <1>0, <1>1, <2>1, <2>2, <3>1 DEF Updating
    <3> QED
      BY <3>2, <3>5, <3>6 DEF Story
  <2>6. pc'[g] # "insertHolder" /\ pc'[r] = "reload"
    BY <1>0, <2>2, <2>3
  <2> QED
    BY <1>1, <2>1, <2>2, <2>3, <2>5, <2>6, StoriesAbout
<1> QED
  BY <1>2, <1>3

\* The step of the only update of g, from one of its statements to the next.
LEMMA StoriesUpdate ==
    ASSUME Local, InOrder, Stories, NEW r \in Requests, Frame(r), NEW g \in Existing,
           Updating(r, g), Updating(r, g)', UNCHANGED <<trail, call, began, overlapped>>,
           Existing' = Existing, \A h \in Existing \ {g} : holders'[h] = holders[h],
           g \notin overlapped /\ Knows(r, g) => Knows(r, g)'
    PROVE  Stories'
<1>1. g \in Requests /\ pc[g] # "insertHolder" /\ call[r].holder = g
  BY DEF Existing, Stories, Updating
<1>2. pc'[g] # "insertHolder" /\ (pc'[g] = "logCreate" => pc[g] = "logCreate")
  BY <1>1 DEF Frame, Updating
<1>3. ASSUME g \notin overlapped PROVE Story(g)'
  <2>1. pc[g] # "logCreate"
    BY <1>3 DEF Stories, Story, Untouched
  <2>2. \A s \in Requests : Updating(s, g) => s = r
    BY <1>3 DEF Stories, Story
  <2>3. \A s \in Requests : Updating(s, g)' => s = r
    BY <2>2 DEF Updating, Frame
  <2>4. Abandoned(g) => Abandoned(g)'
    BY DEF Abandoned, Frame, Updating
  <2>5. ~Abandoned(g) => Knows(r, g)
    BY <1>3 DEF Stories, Story
  <2> QED
    BY <1>2, <1>3, <2>1, <2>3, <2>4, <2>5 DEF Story
<1> QED
  BY <1>1, <1>2, <1>3, StoriesAbout DEF Updating

LEMMA StoriesReload ==
    ASSUME Local, InOrder, Stories, NEW r \in Requests, Frame(r), ReloadHolder(r)
    PROVE  Stories'
<1> USE DEF Goto
<1>0. Stage(r) /\ pc \in [Requests -> Label]
      /\ entity \in [Requests -> Loaded \cup {Nil}]
  BY DEF Local, TypeOK, Loaded
<1>1. pc[r] = "reload" /\ UNCHANGED <<trail, call, began, holders, overlapped>>
  BY DEF ReloadHolder, tables
<1>2. PICK g \in Existing : g = call[r].holder
  BY <1>0, <1>1 DEF Stage
<1>3. PICK dirty : dirty = {c \in Column : entity[r].after[c] # holders[g][c]}
  OBVIOUS
<1>4. /\ entity' = [entity EXCEPT ![r].dirty = dirty]
      /\ pc' = [pc EXCEPT ![r] = IF dirty = {} THEN "logUpdate" ELSE "write"]
  BY <1>2, <1>3 DEF ReloadHolder
<1>5. entity[r] \in Loaded
  BY <1>0, <1>1 DEF Stage
<1>6. /\ entity'[r].before = entity[r].before /\ entity'[r].after = entity[r].after
      /\ entity'[r].dirty = dirty
  BY <1>0, <1>4, <1>5 DEF Loaded
<1>7. ASSUME Knows(r, g) PROVE Knows(r, g)'
  <2>1. holders[g] = entity[r].before /\ Told(g, entity[r].before)
    BY <1>1, <1>7 DEF Knows
  <2>2. Told(g, entity[r].before)'
    BY <1>1, <1>6, <2>1 DEF Told
  <2>3. dirty = {} => entity[r].after = entity[r].before
    BY <1>3, <1>5, <2>1 DEF Loaded, Row
  <2> QED
    BY <1>0, <1>1, <1>3, <1>4, <1>6, <2>1, <2>2, <2>3 DEF Knows
<1>8. Updating(r, g) /\ Updating(r, g)' /\ Existing' = Existing
  BY <1>0, <1>1, <1>2, <1>4 DEF Updating, Existing
<1> QED
  BY <1>1, <1>7, <1>8, StoriesUpdate

\* What a step of r that ends an update of g must leave.
LEMMA StoriesEnd ==
    ASSUME Local, InOrder, Stories, NEW r \in Requests, Frame(r), NEW g \in Existing,
           Updating(r, g), pc'[r] \in Ended, UNCHANGED <<holders, call, overlapped>>,
           trail \subseteq trail', \A t \in trail' \ trail : t.entity = g,
           \A t \in trail : began'[t.by] = began[t.by],
           pc[g] # "logCreate" /\ Knows(r, g) /\ pc'[r] # "unlogged" => Told(g, holders[g])'
    PROVE  Stories'
<1>1. g \in Requests /\ pc[g] # "insertHolder" /\ call[r].holder = g /\ Existing' = Existing
  BY DEF Existing, Stories, Updating
<1>2. /\ pc'[g] # "insertHolder" /\ (pc'[g] = "logCreate" => pc[g] = "logCreate")
      /\ pc'[r] \notin {"insertHolder", "logCreate", "reload", "write", "logUpdate"}
      /\ pc[r] # "unlogged"
  BY <1>1 DEF Frame, Updating, Ended
<1>3. ASSUME g \notin overlapped PROVE Story(g)'
  <2>1. pc[g] # "logCreate"
    BY <1>3 DEF Stories, Story, Untouched
  <2>2. \A s \in Requests : Updating(s, g) => s = r
    BY <1>3 DEF Stories, Story
  <2>3. \A s \in Requests : ~Updating(s, g)'
    BY <1>2, <2>2 DEF Updating, Frame
  <2>4. Abandoned(g) => Abandoned(g)'
    BY <1>2 DEF Abandoned, Frame
  <2>5. ~Abandoned(g) => Knows(r, g)
    BY <1>3 DEF Stories, Story
  <2>6. pc'[r] = "unlogged" => Abandoned(g)'
    <3>1. call[r].op = "editHolder"
      BY DEF Local, Stage, Editing, Updating
    <3> QED
      BY <1>1, <3>1 DEF Abandoned
  <2> QED
    BY <1>2, <2>1, <2>3, <2>4, <2>5, <2>6 DEF Story
<1> QED
  BY <1>1, <1>2, <1>3, StoriesAbout

LEMMA StoriesWrite ==
    ASSUME Local, InOrder, Stories, NEW r \in Requests, Frame(r), WriteHolder(r)
    PROVE  Stories'
<1> USE DEF Goto
<1>0. Stage(r) /\ pc \in [Requests -> Label] /\ holders \in [Requests -> Row \cup {Nil}]
  BY DEF Local, TypeOK
<1>1. pc[r] = "write" /\ UNCHANGED <<trail, call, began, entity, overlapped>>
  BY DEF WriteHolder, tables
<1>2. PICK g \in Existing : g = call[r].holder
  BY <1>0, <1>1 DEF Stage
<1>3. g \in Requests /\ Updating(r, g) /\ entity[r] \in Loaded
  BY <1>0, <1>1, <1>2 DEF Updating, Existing, Stage
<1>4. CASE Goto(r, "failed") /\ UNCHANGED holders
  <2>1. Knows(r, g) => Told(g, holders[g])'
    BY <1>1, <1>4 DEF Knows, Told
  <2>2. pc'[r] = "failed"
    BY <1>0, <1>4
  <2> QED
    BY <1>1, <1>3, <1>4, <2>1, <2>2, StoriesEnd DEF Ended
<1>5. CASE /\ Goto(r, "logUpdate")
           /\ holders' = [holders EXCEPT ![g] =
                 [c \in Column |-> IF c \in entity[r].dirty THEN entity[r].after[c] ELSE @[c]]]
  <2>1. holders[g] \in Row /\ holders[g] # Nil
    BY <1>0, <1>3 DEF Existing
  <2>2. holders'[g] =
           [c \in Column |-> IF c \in entity[r].dirty THEN entity[r].after[c] ELSE holders[g][c]]
    BY <1>0, <1>3, <1>5
  <2>3. ASSUME Knows(r, g) PROVE Knows(r, g)'
    <3>1. /\ entity[r].dirty = {c \in Column : entity[r].after[c] # entity[r].before[c]}
          /\ holders[g] = entity[r].before /\ Told(g, entity[r].before)
      BY <1>1, <2>3 DEF Knows
    <3>2. holders'[g] = entity[r].after
      BY <1>3, <2>2, <3>1 DEF Loaded, Row
    <3>3. Told(g, entity[r].before)'
      BY <1>1, <3>1 DEF Told
    <3> QED
      BY <1>0, <1>1, <1>5, <3>2, <3>3 DEF Knows
  <2>4. holders'[g] \in Row
    BY <1>3, <2>1, <2>2 DEF Loaded, Row
  <2>5. Existing' = Existing /\ \A h \in Existing \ {g} : holders'[h] = holders[h]
    BY <1>0, <1>3, <1>5, <2>4, NilAssumption DEF Existing
  <2>6. Updating(r, g)'
    BY <1>0, <1>1, <1>2, <1>5 DEF Updating
  <2> QED
    BY <1>1, <1>3, <2>3, <2>5, <2>6, StoriesUpdate
<1> QED
  BY <1>2, <1>4, <1>5 DEF WriteHolder

\* The row that is logged names the columns the update changed, and no row is newer.
LEMMA StoriesLogUpdate ==
    ASSUME Local, InOrder, Stories, NEW r \in Requests, Frame(r), LogUpdate(r)
    PROVE  Stories'
<1> USE DEF Goto
<1>0. Stage(r) /\ pc \in [Requests -> Label]
  BY DEF Local, TypeOK
<1>1. /\ pc[r] = "logUpdate" /\ pc' = [pc EXCEPT ![r] = "done"] /\ Began(r)
      /\ UNCHANGED <<call, holders, overlapped>>
  BY DEF LogUpdate
<1>2. PICK g \in Existing : g = call[r].holder
  BY <1>0, <1>1 DEF Stage
<1>3. began[r] = 0 /\ entity[r] \in Loaded /\ Updating(r, g)
  BY <1>0, <1>1, <1>2 DEF Stage, Editing, Updating
<1>4. PICK row : row = TenantRow(r, "SHAREHOLDER_UPDATED", tenant[r], g, Changes(entity[r]))
  OBVIOUS
<1>5. row.by = r /\ row.entity = g /\ row.changes = Changes(entity[r])
  BY <1>4 DEF TenantRow, AuditRow
<1>6. trail' = trail \cup {row}
  BY <1>2, <1>4 DEF LogUpdate
<1>7. \A u \in trail' : began'[u.by] <= began'[row.by]
  BY <1>1, <1>3, <1>5, <1>6, LoggedNewest
<1>8. \A t \in trail : began'[t.by] = began[t.by]
  BY <1>1, <1>3, BeginsLast DEF InOrder, Begun
<1>9. ASSUME Knows(r, g) PROVE Told(g, holders[g])'
  <2>1. holders[g] = entity[r].after /\ Told(g, entity[r].before)
    BY <1>1, <1>9 DEF Knows
  <2>2. ASSUME NEW c \in Column
        PROVE  Tale(trail', began', call[g].set, g, c, holders[g][c])
    <3>1. CASE entity[r].before[c] # entity[r].after[c]
      <4>1. PICK x : x = <<c, entity[r].before[c], entity[r].after[c]>>
        OBVIOUS
      <4>2. x \in row.changes /\ x[1] = c /\ x[3] = holders[g][c]
        BY <1>5, <2>1, <3>1, <4>1 DEF Changes
      <4>3. Tells(row, g, c) /\ Says(row, c, holders[g][c])
        BY <1>5, <4>2 DEF Tells, Says
      <4> QED
        BY <1>6, <1>7, <4>3, TaleOfNewest
    <3>2. CASE entity[r].before[c] = entity[r].after[c]
      <4>1. \A x \in row.changes : x[1] # c
        BY <1>5, <3>2 DEF Changes
      <4>2. \A t \in trail' \ trail : ~Tells(t, g, c)
        BY <1>6, <4>1 DEF Tells
      <4>3. Tale(trail, began, call[g].set, g, c, holders[g][c])
        BY <2>1, <3>2 DEF Told
      <4> QED
        BY <1>6, <1>8, <4>2, <4>3, TaleKept
    <3> QED
      BY <3>1, <3>2
  <2> QED
    BY <1>1, <2>2 DEF Told
<1>10. pc'[r] = "done" /\ "done" \in Ended
  BY <1>0, <1>1 DEF Ended
<1> QED
  BY <1>1, <1>3, <1>5, <1>6, <1>8, <1>9, <1>10, StoriesEnd

LEMMA StoriesDie ==
    ASSUME Local, InOrder, Stories, NEW r \in Requests, Frame(r), Die(r)
    PROVE  Stories'
<1> USE DEF Goto
<1>0. Stage(r) /\ pc \in [Requests -> Label]
  BY DEF Local, TypeOK
<1>1. UNCHANGED <<trail, call, began, holders, overlapped>> /\ InFlight(r)
  BY DEF Die, Abort, tables
<1>2. PICK l \in {"failed", "unlogged"} :
         pc' = [pc EXCEPT ![r] = l] /\ (l = "unlogged" <=> pc[r] \in Logging)
  BY DEF Die, Abort
<1>3. CASE pc[r] \notin {"reload", "write", "logUpdate"}
  <2>1. Elsewhere(r)
    BY <1>1, <1>2, <1>3 DEF Elsewhere, Label, Ended, InFlight
  <2> QED
    BY <2>1, StoriesElsewhere
<1>4. CASE pc[r] \in {"reload", "write", "logUpdate"}
  <2>1. PICK g \in Existing : g = call[r].holder
    BY <1>0, <1>4 DEF Stage
  <2>2. Updating(r, g) /\ pc'[r] \in Ended
    BY <1>0, <1>2, <1>4, <2>1 DEF Updating, Ended
  <2>3. Knows(r, g) /\ pc'[r] # "unlogged" => Told(g, holders[g])'
    BY <1>0, <1>1, <1>2, <1>4 DEF Knows, Told, Logging
  <2> QED
    BY <1>1, <2>2, <2>3, StoriesEnd
<1> QED
  BY <1>3, <1>4

LEMMA StoriesStep == Local /\ InOrder /\ Stories /\ [Next]_vars => Stories'
<1> SUFFICES ASSUME Local, InOrder, Stories, [Next]_vars PROVE Stories'
  OBVIOUS
<1>1. ASSUME NEW r \in Requests,
             \/ /\ OnboardingStep(r) \/ MembersStep(r) \/ ListingStep(r)
                /\ UNCHANGED holderVars
             \/ \E a \in Calls : AddHolder(r, a) \/ EditHolder(r, a),
             Frame(r)
      PROVE  Stories'
  BY <1>1, OthersElsewhere, StoriesElsewhere DEF ShareholdersStep
<1>2. ASSUME NEW r \in Requests, ShareholdersStep(r), UNCHANGED walk
      PROVE  Stories'
  <2>1. Frame(r)
    BY <1>2, ShareholdersLocal
  <2> QED
    BY <1>1, <1>2, <2>1, StoriesInsert, StoriesLogCreate, StoriesFind, StoriesReload,
       StoriesWrite, StoriesLogUpdate DEF ShareholdersStep
<1>3. ASSUME NEW r \in Requests, Die(r)
      PROVE  Stories'
  BY <1>3, DieLocal, StoriesDie
<1>4. CASE UNCHANGED vars
  <2>1. \A h : Story(h)' <=> Story(h)
    BY <1>4 DEF vars, base, tables, control, holderVars, Story, Untouched, Updating, Abandoned,
       Knows, Told
  <2> QED
    BY <1>4, <2>1 DEF vars, base, tables, control, holderVars, Stories, Existing
<1> QED
  BY <1>1, <1>2, <1>3, <1>4, OnboardingLocal, MembersLocal, ListingLocal DEF Next

LEMMA StoriesInvariant == Spec => [](Local /\ InOrder /\ Stories)
<1>1. Init => InOrder
  <2> SUFFICES ASSUME Init PROVE InOrder
    OBVIOUS
  <2>1. Begun = {} /\ trail = {} /\ \A r \in Requests : began[r] = 0 /\ pc[r] = "start"
    BY DEF Init, BaseInit, Begun
  <2> QED
    BY <2>1, FS_EmptySet DEF InOrder, Founding
<1>2. Init => Stories
  BY DEF Init, BaseInit, ShareholdersInit, Stories, Existing
<1> QED
  BY <1>1, <1>2, LocalInvariant, OrderStep, StoriesStep, PTL DEF Spec

\* The newest rows of its trail tell what the columns of a shareholder are, as
\* long as create and update of the shareholder take turns and log what they do.
THEOREM ShareholderTrailsReplay == Spec => []ShareholderTrailReplays
<1>1. Local /\ InOrder /\ Stories => ShareholderTrailReplays
  <2> SUFFICES ASSUME Local, Stories, NEW h \in Existing, ~Untold(h), NEW c \in Column
               PROVE  Tale(trail, began, call[h].set, h, c, holders[h][c])
    BY DEF ShareholderTrailReplays, Tale, Says
  <2>1. h \notin overlapped /\ ~Abandoned(h)
    BY DEF Untold, Abandoned
  <2>2. Story(h)
    BY <2>1 DEF Stories
  <2>3. CASE \A s \in Requests : ~Updating(s, h)
    BY <2>1, <2>2, <2>3 DEF Story, Told
  <2>4. ASSUME NEW s \in Requests, Updating(s, h)
        PROVE  Told(h, holders[h])
    <3>1. Knows(s, h)
      BY <2>1, <2>2, <2>4 DEF Story
    <3>2. pc[s] # "logUpdate"
      BY <2>4 DEF Untold, Updating, Local, Stage, Editing
    <3> QED
      BY <2>4, <3>1, <3>2 DEF Knows, Updating
  <2> QED
    BY <2>3, <2>4 DEF Told
<1> QED
  BY <1>1, StoriesInvariant, PTL

-------------------------------------------------------------------------------
(* The walks through the pages                                                 *)

\* Another row of its transaction ties with t.
Tied(t) == \E u \in trail : u # t /\ u.by = t.by

Newer(t, rows) == {u \in rows : began[u.by] > began[t.by]}

\* The rows r misses are behind the first n of the listing, but for ties.
Behind(r, n) ==
    \A t \in walk[r].due \ walk[r].got :
        Tied(t) \/ Cardinality(Newer(t, Matching(call[r]))) >= n

WalkOf(r) ==
    /\ walk[r] # Nil => pc[r] \in Walking \cup Ended
    /\ pc[r] \in Walking => walk[r].due \subseteq Matching(call[r])
    /\ pc[r] = "page" => Behind(r, Offset(walk[r].page))
    /\ pc[r] = "count" => Behind(r, Offset(walk[r].page) + Limit)
    /\ pc[r] = "done" /\ walk[r] # Nil => \A t \in walk[r].due \ walk[r].got : Tied(t)

Walks == IsFiniteSet(trail) /\ \A r \in Requests : WalkOf(r)

\* The rows of the trail stay, where they are in the order, and are finitely many.
LEMMA TrailGrows ==
    ASSUME Local, InOrder, NEW r \in Requests,
           \/ OnboardingStep(r) \/ MembersStep(r) \/ ShareholdersStep(r) \/ ListingStep(r)
           \/ Die(r)
    PROVE  /\ trail \subseteq trail' /\ \A t \in trail : began'[t.by] = began[t.by]
           /\ IsFiniteSet(trail) => IsFiniteSet(trail')
<1>1. Silent(r) \/ Writes(r)
  BY SilentSteps
<1>2. /\ UNCHANGED began \/ (began[r] = 0 /\ Began(r))
      /\ trail \subseteq trail'
  BY <1>1, Beginners
<1>3. \A t \in trail : began'[t.by] = began[t.by]
  BY <1>2, BeginsLast DEF InOrder, Begun
<1>4. ASSUME IsFiniteSet(trail) PROVE IsFiniteSet(trail')
  <2>1. CASE UNCHANGED trail
    BY <1>4, <2>1
  <2>2. ASSUME NEW row, trail' = trail \cup {row}
        PROVE  IsFiniteSet(trail')
    BY <1>4, <2>2, FS_AddElement
  <2>3. CASE CommitFounding(r)
    <3>1. IsFiniteSet(FoundingRows(r, call[r]))
      <4>1. \A x : IsFiniteSet({x})
        BY FS_Singleton
      <4>2. \A x, y : {x, y} = {x} \cup {y}
        OBVIOUS
      <4>3. ASSUME NEW x, NEW y PROVE IsFiniteSet({x, y})
        <5>1. IsFiniteSet({x} \cup {y})
          BY <4>1, FS_AddElement
        <5> QED
          BY <4>2, <5>1
      <4> QED
        BY <4>1, <4>3, FS_EmptySet DEF FoundingRows
    <3> QED
      BY <1>4, <2>3, <3>1, FS_Union DEF CommitFounding
  <2>4. CASE LogMember(r) \/ LogCreate(r) \/ LogUpdate(r)
    BY <2>2, <2>4 DEF LogMember, LogCreate, LogUpdate
  <2> QED
    BY <1>1, <2>1, <2>3, <2>4 DEF Silent, Writes, InsertUser, InsertMember, tables
<1> QED
  BY <1>2, <1>3, <1>4

\* New rows only push the ones a walk has missed further back.
LEMMA BehindKept ==
    ASSUME Walks, NEW q \in Requests, call'[q] = call[q], walk[q].due \subseteq trail,
           walk'[q].due = walk[q].due, walk[q].got \subseteq walk'[q].got,
           trail \subseteq trail', \A t \in trail : began'[t.by] = began[t.by],
           IsFiniteSet(trail'), NEW n \in Int, Behind(q, n)
    PROVE  Behind(q, n)'
<1> SUFFICES ASSUME NEW t \in walk[q].due \ walk[q].got, ~Tied(t)'
             PROVE  Cardinality(Newer(t, Matching(call[q])))' >= n
  BY DEF Behind
<1>1. ~Tied(t)
  BY DEF Tied
<1>2. Cardinality(Newer(t, Matching(call[q]))) >= n
  BY <1>1 DEF Behind
<1>3. /\ Newer(t, Matching(call[q])) \subseteq Newer(t, Matching(call[q]))'
      /\ Newer(t, Matching(call[q]))' \subseteq trail'
  BY DEF Newer, Matching
<1> DEFINE A == Newer(t, Matching(call[q]))
           B == Newer(t, Matching(call[q]))'
<1> HIDE DEF A, B
<1>4. IsFiniteSet(B) /\ A \subseteq B
  BY <1>3, FS_Subset DEF A, B
<1>5. Cardinality(A) <= Cardinality(B) /\ IsFiniteSet(A)
  BY <1>4, FS_Subset
<1>6. Cardinality(A) \in Nat /\ Cardinality(B) \in Nat
  BY <1>4, <1>5, FS_CardinalityType
<1>7. Cardinality(A) >= n
  BY <1>2 DEF A
<1>8. Cardinality(B) >= n
  BY <1>5, <1>6, <1>7
<1> QED
  BY <1>8 DEF B

\* The cut of a listing at n: a row that does not tie is before it or has n newer.
LEMMA CutNewer ==
    ASSUME Local, InOrder, NEW rows, rows \subseteq trail, IsFiniteSet(rows),
           NEW n \in Int, NEW A \in SUBSET rows, Leads(A, rows \ A),
           NEW t \in rows, ~Tied(t)
    PROVE  /\ t \in A => Cardinality(Newer(t, rows)) < Cardinality(A)
           /\ t \notin A => Cardinality(A) <= Cardinality(Newer(t, rows))
           /\ t \notin A => Cardinality(A) < Cardinality(rows)
           /\ Cardinality(Newer(t, rows)) < Cardinality(rows)
           /\ Cardinality(A) \in Nat /\ Cardinality(Newer(t, rows)) \in Nat
           /\ Cardinality(rows) \in Nat
<1> DEFINE N == Newer(t, rows)
<1>1. N \subseteq rows /\ t \notin N /\ \A u \in rows : u.by \in Requests /\ began[u.by] \in Nat
  <2>1. \A u \in rows : u.by \in Requests
    BY DEF Local, TypeOK, AuditRows
  <2>2. began \in [Requests -> Nat]
    BY RequestsAssumption, FS_CardinalityType DEF Local, TypeOK
  <2> QED
    BY <2>1, <2>2 DEF Newer
<1>2. /\ IsFiniteSet(N) /\ IsFiniteSet(A) /\ Cardinality(A) \in Nat /\ Cardinality(N) \in Nat
      /\ Cardinality(rows) \in Nat
  BY <1>1, FS_Subset, FS_CardinalityType
<1>3. \A u \in rows \ (N \cup {t}) : began[u.by] < began[t.by]
  <2> SUFFICES ASSUME NEW u \in rows, u # t, began[u.by] = began[t.by]
               PROVE  FALSE
    BY <1>1 DEF Newer
  <2>1. t.by \in Begun /\ u.by \in Requests
    BY <1>1 DEF InOrder
  <2>2. u.by = t.by
    BY <1>1, <2>1 DEF InOrder, Begun
  <2> QED
    BY <2>2 DEF Tied
<1>4. ASSUME t \in A PROVE Cardinality(N) < Cardinality(A)
  <2>1. N \subseteq A \ {t}
    <3> SUFFICES ASSUME NEW u \in N, u \notin A
                 PROVE  FALSE
      BY <1>1
    <3>1. began[t.by] >= began[u.by] /\ began[u.by] > began[t.by]
      BY <1>1, <1>4 DEF Leads, Newer
    <3> QED
      BY <1>1, <3>1
  <2>2. IsFiniteSet(A \ {t}) /\ Cardinality(A \ {t}) = Cardinality(A) - 1
    BY <1>2, <1>4, FS_RemoveElement
  <2>3. Cardinality(N) <= Cardinality(A \ {t})
    BY <2>1, <2>2, FS_Subset
  <2> QED
    BY <1>2, <2>2, <2>3
<1>5. ASSUME t \notin A PROVE Cardinality(A) <= Cardinality(N) /\ Cardinality(A) < Cardinality(rows)
  <2>1. A \subseteq N
    <3> SUFFICES ASSUME NEW u \in A, u \notin N
                 PROVE  FALSE
      OBVIOUS
    <3>1. began[u.by] < began[t.by] /\ began[u.by] >= began[t.by]
      BY <1>3, <1>5 DEF Leads
    <3> QED
      BY <1>1, <3>1
  <2>2. Cardinality(A) <= Cardinality(N)
    BY <1>2, <2>1, FS_Subset
  <2>3. A \subseteq rows /\ A # rows
    BY <1>5
  <2>4. Cardinality(A) < Cardinality(rows)
    BY <1>2, <2>3, FS_Subset
  <2> QED
    BY <2>2, <2>4
<1>6. Cardinality(N) < Cardinality(rows)
  <2>1. N \subseteq rows /\ N # rows
    BY <1>1
  <2> QED
    BY <1>2, <2>1, FS_Subset
<1> HIDE DEF N
<1> QED
  BY <1>2, <1>4, <1>5, <1>6 DEF N

LEMMA WalkReads ==
    ASSUME Local, InOrder, Walks, NEW r \in Requests, ReadPage(r)
    PROVE  WalkOf(r)'
<1>0. /\ Stage(r) /\ WalkOf(r) /\ pc \in [Requests -> Label]
      /\ walk \in [Requests -> Pages \cup {Nil}]
  BY DEF Local, TypeOK, Pages, Walks
<1>1. pc[r] = "page" /\ pc' = [pc EXCEPT ![r] = "count"] /\ UNCHANGED <<trail, call, began>>
  BY DEF ReadPage, Goto, tables
<1>2. PICK rows : rows = Matching(call[r])
  OBVIOUS
<1>3. PICK window \in PageOf(rows, walk[r].page) : walk' = [walk EXCEPT ![r].got = @ \cup window]
  BY <1>2 DEF ReadPage
<1>4. walk[r] \in Pages
  BY <1>0, <1>1 DEF Stage, Walking
<1>5. /\ walk'[r].page = walk[r].page /\ walk'[r].due = walk[r].due
      /\ walk'[r].got = walk[r].got \cup window
  BY <1>0, <1>3, <1>4 DEF Pages
<1>6. rows \subseteq trail /\ IsFiniteSet(rows)
  BY <1>2, FS_Subset DEF Matching, Walks
<1>7. PICK off : off = Offset(walk[r].page)
  OBVIOUS
<1>8. off \in Int /\ Limit \in Nat /\ Limit > 0
  BY <1>4, <1>7, LimitAssumption DEF Offset, Pages
<1>9. PICK A \in SUBSET rows, B \in SUBSET rows :
         /\ Cardinality(A) = NoLaterThan(off, Cardinality(rows)) /\ Leads(A, rows \ A)
         /\ Cardinality(B) = NoLaterThan(off + Limit, Cardinality(rows)) /\ Leads(B, rows \ B)
         /\ window = B \ A
  BY <1>3, <1>7 DEF PageOf
<1>10. ASSUME NEW t \in walk'[r].due \ walk'[r].got, ~Tied(t)
       PROVE  Cardinality(Newer(t, rows)) >= off + Limit
  <2>1. t \in walk[r].due /\ t \notin walk[r].got /\ t \notin B \ A
    BY <1>5, <1>9, <1>10
  <2>2. walk[r].due \subseteq rows
    BY <1>0, <1>1, <1>2 DEF WalkOf, Walking
  <2>3. t \in rows /\ Cardinality(Newer(t, rows)) >= off
    BY <1>0, <1>1, <1>2, <1>7, <1>10, <2>1, <2>2 DEF WalkOf, Behind
  <2>4. /\ t \in A => Cardinality(Newer(t, rows)) < Cardinality(A)
        /\ Cardinality(A) \in Nat /\ Cardinality(Newer(t, rows)) \in Nat
        /\ Cardinality(rows) \in Nat
    BY <1>6, <1>8, <1>9, <1>10, <2>3, CutNewer
  <2>5. t \notin A
    BY <1>8, <1>9, <2>3, <2>4 DEF NoLaterThan
  <2>6. Cardinality(B) <= Cardinality(Newer(t, rows)) /\ Cardinality(B) < Cardinality(rows)
    BY <1>6, <1>8, <1>9, <1>10, <2>1, <2>3, <2>5, CutNewer
  <2> QED
    BY <1>8, <1>9, <2>4, <2>6 DEF NoLaterThan
<1>11. Behind(r, Offset(walk[r].page) + Limit)'
  BY <1>1, <1>2, <1>5, <1>7, <1>10 DEF Behind, Newer, Matching, Tied
<1>12. pc'[r] = "count" /\ (walk[r].due \subseteq Matching(call[r]))'
  BY <1>0, <1>1, <1>5 DEF WalkOf, Walking, Matching
<1> QED
  BY <1>11, <1>12 DEF WalkOf, Walking

LEMMA WalkCounts ==
    ASSUME Local, InOrder, Walks, NEW r \in Requests, CountRows(r)
    PROVE  WalkOf(r)'
<1>0. /\ Stage(r) /\ WalkOf(r) /\ pc \in [Requests -> Label]
      /\ walk \in [Requests -> Pages \cup {Nil}]
  BY DEF Local, TypeOK, Pages, Walks
<1>1. pc[r] = "count" /\ UNCHANGED <<trail, call, began>>
  BY DEF CountRows, tables
<1>2. walk[r] \in Pages /\ walk[r].due \subseteq Matching(call[r])
  BY <1>0, <1>1 DEF Stage, Walking, WalkOf
<1>3. PICK page \in Nat : page = walk[r].page
  BY <1>2 DEF Pages
<1>4. Limit \in Nat /\ Offset(page) + Limit = page * Limit /\ Offset(page + 1) = page * Limit
  BY LimitAssumption DEF Offset
<1>5. Behind(r, page * Limit)
  BY <1>0, <1>1, <1>3, <1>4 DEF WalkOf
<1>6. CASE /\ pc' = [pc EXCEPT ![r] = "page"]
           /\ walk' = [walk EXCEPT ![r].page = @ + 1]
  <2>1. /\ walk'[r].page = page + 1 /\ walk'[r].due = walk[r].due
        /\ walk'[r].got = walk[r].got /\ pc'[r] = "page"
    BY <1>0, <1>2, <1>3, <1>6 DEF Pages
  <2>2. Behind(r, Offset(walk[r].page))'
    BY <1>1, <1>4, <1>5, <2>1 DEF Behind, Newer, Matching, Tied, Offset
  <2>3. (walk[r].due \subseteq Matching(call[r]))'
    BY <1>1, <1>2, <2>1 DEF Matching
  <2> QED
    BY <2>1, <2>2, <2>3 DEF WalkOf, Walking
<1>7. CASE /\ ~(page * Limit < Cardinality(Matching(call[r])))
           /\ pc' = [pc EXCEPT ![r] = "done"] /\ UNCHANGED walk
  <2>1. ASSUME NEW t \in walk[r].due \ walk[r].got, ~Tied(t)
        PROVE  FALSE
    <3>1. PICK rows : rows = Matching(call[r])
      OBVIOUS
    <3>2. rows \subseteq trail /\ IsFiniteSet(rows) /\ t \in rows
      BY <1>2, <3>1, FS_Subset DEF Matching, Walks
    <3>3. /\ Cardinality(Newer(t, rows)) < Cardinality(rows)
          /\ Cardinality(Newer(t, rows)) \in Nat /\ Cardinality(rows) \in Nat
      <4>1. Leads({}, rows \ {}) /\ {} \in SUBSET rows /\ 0 \in Int
        BY DEF Leads
      <4> QED
        BY <2>1, <3>2, <4>1, CutNewer
    <3>4. Cardinality(Newer(t, rows)) >= page * Limit
      BY <1>5, <2>1, <3>1 DEF Behind
    <3>5. page * Limit \in Int
      BY <1>4
    <3> QED
      BY <1>7, <3>1, <3>3, <3>4, <3>5
  <2>2. pc'[r] = "done" /\ \A t \in walk'[r].due \ walk'[r].got : Tied(t)'
    BY <1>0, <1>1, <1>7, <2>1 DEF Tied
  <2> QED
    BY <2>2 DEF WalkOf, Walking, Ended
<1> QED
  BY <1>3, <1>6, <1>7 DEF CountRows, Goto

LEMMA WalkStarts ==
    ASSUME Local, InOrder, Walks, NEW r \in Requests, NEW a \in Calls, Walk(r, a) \/ WalkAll(r, a)
    PROVE  WalkOf(r)'
<1>0. /\ pc \in [Requests -> Label] /\ call \in [Requests -> Calls \cup {Nil}]
      /\ walk \in [Requests -> Pages \cup {Nil}]
  BY DEF Local, TypeOK, Pages
<1>1. /\ walk' = [walk EXCEPT ![r] = [page |-> 1, got |-> {}, due |-> Matching(a)]]
      /\ call' = [call EXCEPT ![r] = a] /\ UNCHANGED <<trail, began>>
  BY DEF Walk, WalkAll, PassGuards, Start, tables
<1>2. PICK l \in {"page", "refused"} : pc' = [pc EXCEPT ![r] = l]
  BY DEF Walk, WalkAll, PassGuards, Goto
<1>3. walk'[r].page = 1 /\ walk'[r].due = Matching(call[r])' /\ pc'[r] \in {"page", "refused"}
  BY <1>0, <1>1, <1>2 DEF Matching
<1>4. \A t \in trail : Cardinality(Newer(t, Matching(call[r])))' \in Nat
  <2>1. \A t : Newer(t, Matching(call[r]))' \subseteq trail
    BY <1>1 DEF Newer, Matching
  <2> QED
    BY <2>1, FS_Subset, FS_CardinalityType DEF Walks
<1>5. Offset(1) = 0
  BY LimitAssumption DEF Offset
<1>6. Behind(r, Offset(walk[r].page))'
  <2>1. walk'[r].due \subseteq trail
    BY <1>1, <1>3 DEF Matching
  <2> QED
    BY <1>3, <1>4, <1>5, <2>1 DEF Behind
<1> QED
  BY <1>3, <1>6 DEF WalkOf, Walking, Ended

\* The other handlers never read a page.
LEMMA OthersWalk ==
    ASSUME Local, NEW r \in Requests, OnboardingStep(r) \/ MembersStep(r) \/ ShareholdersStep(r)
    PROVE  pc[r] \notin Walking \cup Ended /\ call'[r].op \notin {"walk", "walkAll"}
<1>0. Stage(r) /\ call \in [Requests -> Calls \cup {Nil}]
  BY DEF Local, TypeOK
<1>1. ASSUME NEW a \in Calls, call' = [call EXCEPT ![r] = a], pc[r] = "start",
             a.op \notin {"walk", "walkAll"}
      PROVE  pc[r] \notin Walking \cup Ended /\ call'[r].op \notin {"walk", "walkAll"}
  BY <1>0, <1>1 DEF Walking, Ended
<1>2. ASSUME call' = call,
             pc[r] \in {"insertUser", "insertCompany", "insertOwner", "commit"}
                          \cup Inviting \cup Adding \cup Editing
      PROVE  pc[r] \notin Walking \cup Ended /\ call'[r].op \notin {"walk", "walkAll"}
  BY <1>0, <1>2
  DEF Stage, Founding, Inviting, Adding, Editing, Walking, Ended, FoundingOps
<1>3. CASE OnboardingStep(r)
  BY <1>1, <1>2, <1>3
  DEF OnboardingStep, Register, StartFounding, InsertUser, InsertCompany, InsertOwner,
      CommitFounding, RollbackFounding, FoundingOps
<1>4. CASE MembersStep(r)
  BY <1>1, <1>2, <1>4
  DEF MembersStep, Invite, PassGuards, CompanyNotActive, CheckMember, InsertMember, LogMember,
      Inviting
<1>5. CASE ShareholdersStep(r)
  BY <1>1, <1>2, <1>5
  DEF ShareholdersStep, AddHolder, EditHolder, PassGuards, CompanyNotActive, InsertHolder,
      LogCreate, FindHolder, ReloadHolder, WriteHolder, LogUpdate, Adding, Editing
<1> QED
  BY <1>3, <1>4, <1>5

LEMMA WalksStep == Local /\ InOrder /\ Walks /\ [Next]_vars => Walks'
<1> SUFFICES ASSUME Local, InOrder, Walks, [Next]_vars PROVE Walks'
  OBVIOUS
<1>1. ASSUME NEW r \in Requests, Frame(r), WalkOf(r)',
             \/ OnboardingStep(r) \/ MembersStep(r) \/ ShareholdersStep(r) \/ ListingStep(r)
             \/ Die(r)
      PROVE  Walks'
  <2>1. /\ trail \subseteq trail' /\ \A t \in trail : began'[t.by] = began[t.by]
        /\ IsFiniteSet(trail')
    BY <1>1, TrailGrows DEF Walks
  <2>2. ASSUME NEW q \in Requests \ {r} PROVE WalkOf(q)'
    <3>1. Stage(q) /\ WalkOf(q) /\ pc'[q] = pc[q] /\ walk'[q] = walk[q] /\ call'[q] = call[q]
      BY <1>1 DEF Local, Walks, Frame
    <3>2. ASSUME pc[q] \in Walking
          PROVE  /\ walk[q].due \subseteq trail /\ Offset(walk[q].page) \in Int
                 /\ Offset(walk[q].page) + Limit \in Int
      BY <3>1, <3>2, LimitAssumption DEF Stage, Pages, Offset
    <3>3. pc[q] = "page" => Behind(q, Offset(walk[q].page))'
      <4>1. ASSUME pc[q] = "page" PROVE Behind(q, Offset(walk[q].page))'
        <5>1. PICK n \in Int : n = Offset(walk[q].page)
          BY <3>2, <4>1 DEF Walking
        <5>2. Behind(q, n)'
          BY <2>1, <3>1, <3>2, <4>1, <5>1, BehindKept DEF WalkOf, Walking
        <5> QED
          BY <3>1, <5>1, <5>2
      <4> QED
        BY <4>1
    <3>4. pc[q] = "count" => Behind(q, Offset(walk[q].page) + Limit)'
      <4>1. ASSUME pc[q] = "count" PROVE Behind(q, Offset(walk[q].page) + Limit)'
        <5>1. PICK n \in Int : n = Offset(walk[q].page) + Limit
          BY <3>2, <4>1 DEF Walking
        <5>2. Behind(q, n)'
          BY <2>1, <3>1, <3>2, <4>1, <5>1, BehindKept DEF WalkOf, Walking
        <5> QED
          BY <3>1, <5>1, <5>2
      <4> QED
        BY <4>1
    <3>5. pc[q] \in Walking => (walk[q].due \subseteq Matching(call[q]))'
      BY <2>1, <3>1 DEF WalkOf, Matching
    <3>6. \A t : Tied(t) => Tied(t)'
      BY <2>1 DEF Tied
    <3> QED
      BY <3>1, <3>3, <3>4, <3>5, <3>6 DEF WalkOf
  <2> QED
    BY <1>1, <2>1, <2>2 DEF Walks
<1>2. ASSUME NEW r \in Requests, UNCHANGED walk, Stage(r)',
             OnboardingStep(r) \/ MembersStep(r) \/ ShareholdersStep(r)
      PROVE  WalkOf(r)'
  <2>1. walk[r] = Nil
    BY <1>2, OthersWalk DEF Walks, WalkOf
  <2>2. pc'[r] \notin Walking
    BY <1>2, OthersWalk DEF Stage
  <2> QED
    BY <1>2, <2>1, <2>2 DEF WalkOf, Walking
<1>3. ASSUME NEW r \in Requests, Die(r)
      PROVE  WalkOf(r)'
  <2>1. pc'[r] \in Ended \ {"done"} /\ UNCHANGED walk
    BY <1>3 DEF Die, Abort, Goto, Ended, Local, TypeOK
  <2> QED
    BY <2>1 DEF WalkOf, Walking, Ended
<1>4. CASE UNCHANGED vars
  BY <1>4
  DEF vars, base, tables, control, Walks, WalkOf, Behind, Newer, Matching, Tied
<1> QED
  BY <1>1, <1>2, <1>3, <1>4, OnboardingLocal, MembersLocal, ShareholdersLocal, ListingLocal,
     DieLocal, WalkReads, WalkCounts, WalkStarts DEF Next, ListingStep

\* A client that reads the pages of a listing one after the other, whatever is
\* written meanwhile, gets every row there was but for rows of one transaction.
THEOREM PagesMissOnlyRowsThatTie == Spec => []PagesMissOnlyTies
<1>1. Init => Walks
  BY FS_EmptySet DEF Init, BaseInit, Walks, WalkOf, Walking
<1>2. Walks => PagesMissOnlyTies
  BY DEF Walks, WalkOf, PagesMissOnlyTies, Tied
<1> QED
  BY <1>1, <1>2, WalksStep, StoriesInvariant, PTL DEF Spec

===============================================================================
