--------------------------------- MODULE Members ---------------------------------
(* POST /companies/:companyId/members (company-users.service.ts): an owner     *)
(* makes a user a member.                                                      *)
EXTENDS TenantRequests

InviteCall ==
    [op : {"invite"}, company : Companies, actor : Email, user : Email,
     role : Role, status : MemberStatus, inviter : Email \cup {Nil}]

Invite(r, a) ==
    /\ a.op = "invite"
    /\ \/ PassGuards(r, a, {"OWNER"}, "checkMember")
       \/ CompanyNotActive(r, a)

\* The lookups before the insert, of rows that never go away: the last one sees
\* whether there is a membership already.
CheckMember(r) ==
    LET a == call[r] IN
    /\ pc[r] = "checkMember"
    /\ Goto(r, IF /\ a.user \in users
                  /\ a.inviter # Nil =>
                        a.inviter \in users /\ MembersAt(a.company, a.inviter) # {}
                  /\ MembersAt(a.company, a.user) = {}
               THEN "insertMember" ELSE "refused")
    /\ UNCHANGED <<tables, call, tenant, began>>

Invited(a) ==
    [company |-> a.company, user |-> a.user, role |-> a.role, status |-> a.status]

\* Variant: there is no unique index on company and user.
InsertMemberAgain(r) ==
    /\ pc[r] = "insertMember"
    /\ members' = members \cup {Invited(call[r])}
    /\ Goto(r, "logMember")
    /\ UNCHANGED <<users, companies, trail, call, tenant, began>>

InsertMember(r) ==
    LET a == call[r] IN
    /\ pc[r] = "insertMember"
    /\ IF MembersAt(a.company, a.user) # {}
       THEN Goto(r, "failed") /\ UNCHANGED members
       ELSE Goto(r, "logMember") /\ members' = members \cup {Invited(a)}
    /\ UNCHANGED <<users, companies, trail, call, tenant, began>>

\* In a transaction of its own.
LogMember(r) ==
    /\ pc[r] = "logMember"
    /\ trail' = trail \cup
          {TenantRow(r, "MEMBER_ADDED", tenant[r], Id(Invited(call[r])), {})}
    /\ Began(r)
    /\ Goto(r, "done")
    /\ UNCHANGED <<users, companies, members, call, tenant>>

MembersStep(r) ==
    \/ \E a \in Calls : Invite(r, a)
    \/ CheckMember(r)
    \/ InsertMember(r)
    \/ LogMember(r)

===============================================================================
