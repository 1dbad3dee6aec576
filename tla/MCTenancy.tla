-------------------------------- MODULE MCTenancy --------------------------------
(* Instances of Tenancy for TLC: the first requests of a new installation, and *)
(* requests about two companies that have been onboarded.                      *)
EXTENDS Tenancy, TLC

CONSTANTS acme, beta, root, ann, bob, f1, f2, f3, d1, d2, d3

Plain(p) == <<p, "lower">>
Typed(p) == <<p, "typed">>

Onboard(c, e) ==
    [op |-> "onboard", company |-> c, email |-> e, actor |-> Plain(root)]
Create(c, e, initiator) ==
    [op |-> "found", company |-> c, email |-> e, actor |-> initiator]
InviteTo(c, owner, u, role, status, inviter) ==
    [op |-> "invite", company |-> c, actor |-> Plain(owner), user |-> Plain(u),
     role |-> role, status |-> status, inviter |-> inviter]
Add(c, u, email, address) ==
    [op |-> "addHolder", company |-> c, actor |-> Plain(u),
     set |-> [email |-> email, address |-> address]]
Edit(c, u, set) ==
    [op |-> "editHolder", company |-> c, actor |-> Plain(u), holder |-> d3, set |-> set]

\* Foundings that clash on the person or on the company, in both spellings and
\* with an initiator that is there, missing or none.
FoundingCalls ==
    {[op |-> "register", email |-> Typed(root)],
     [op |-> "register", email |-> Typed(ann)],
     Onboard(acme, Typed(ann)), Onboard(beta, Plain(ann)), Onboard(beta, Plain(bob)),
     Create(acme, Plain(ann), Plain(root)), Create(acme, Typed(ann), Nil),
     Create(beta, Plain(bob), Plain(ann))}

\* Members of both companies, two of whom write to the shareholder d3 of acme.
TenantCalls ==
    {InviteTo(acme, ann, bob, "ADMIN", "ACTIVE", Nil),
     InviteTo(acme, ann, bob, "OWNER", "SUSPENDED", Plain(ann)),
     InviteTo(beta, bob, ann, "VIEWER", "INVITED", Plain(root)),
     Add(acme, ann, "old", Nil), Add(beta, bob, "new", "street"),
     Edit(acme, ann, [email |-> "new"]), Edit(acme, ann, [address |-> "street"]),
     Edit(beta, bob, [address |-> "street"]),
     [op |-> "walk", company |-> acme, actor |-> Plain(ann)], [op |-> "walkAll"]}

MCCalls == FoundingCalls \cup TenantCalls
MCFree == Permutations({f1, f2, f3})

-------------------------------------------------------------------------------
(* States Spec reaches.  In the first only the administrator is there, and      *)
(* three requests to register again were refused.  In the second acme and beta *)
(* were onboarded, then ann added a shareholder to acme; in the third that is   *)
(* not logged yet, and one more request was refused.                           *)
Done == {d1, d2, d3}
Again == [op |-> "register", email |-> Typed(root)]

NewInstallation ==
    /\ users = {Plain(root)}
    /\ companies = {} /\ members = {} /\ trail = {} /\ overlapped = {}
    /\ pc = [r \in Requests |-> IF r \in Done THEN "refused" ELSE "start"]
    /\ call = [r \in Requests |-> IF r \in Done
                  THEN Again ELSE Nil]
    /\ tenant = [r \in Requests |-> Nil]
    /\ began = [r \in Requests |-> 0]
    /\ holders = [r \in Requests |-> Nil]
    /\ entity = [r \in Requests |-> Nil]
    /\ walk = [r \in Requests |-> Nil]

Past ==
    d1 :> Onboard(acme, Typed(ann)) @@ d2 :> Onboard(beta, Plain(bob))
        @@ d3 :> Add(acme, ann, "old", Nil)

TwoTenants(over, logged) ==
    LET annAtAcme == FoundingMember(Past[d1]) IN
    /\ users = {Plain(root), Plain(ann), Plain(bob)}
    /\ companies = {acme, beta}
    /\ members = {annAtAcme, FoundingMember(Past[d2])}
    /\ trail = FoundingRows(d1, Past[d1]) \cup FoundingRows(d2, Past[d2]) \cup
          {TenantRow(r, "SHAREHOLDER_CREATED", annAtAcme, r, {<<"email", Nil, "old">>}) :
              r \in logged}
    /\ pc = [r \in Requests |-> CASE r \in {d1, d2} \cup logged -> "done"
                                   [] r = d3 /\ r \notin logged -> "logCreate"
                                   [] r \in over -> "refused" [] OTHER -> "start"]
    /\ call = [r \in Requests |-> CASE r \in Done -> Past[r] [] r \in over -> Again
                                     [] OTHER -> Nil]
    /\ tenant = [r \in Requests |-> IF r = d3 THEN annAtAcme ELSE Nil]
    /\ began = [r \in Requests |-> CASE r = d1 -> 1 [] r = d2 -> 2 [] r \in logged -> 3
                                      [] OTHER -> 0]
    /\ holders = [r \in Requests |-> IF r = d3 THEN Past[d3].set ELSE Nil]
    /\ entity = [r \in Requests |-> Nil]
    /\ overlapped = {}
    /\ walk = [r \in Requests |-> Nil]

MCInit ==
    \/ NewInstallation
    \/ TwoTenants({}, {d3})
    \/ \E r \in {f1, f2, f3} : TwoTenants({r}, {})

MCSpec == MCInit /\ [][Next]_vars

===============================================================================
