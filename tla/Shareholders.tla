------------------------------ MODULE Shareholders ------------------------------
(* The register of shareholders (shareholders.service.ts): create and update.  *)
(* Both save the row first and write the audit row in a second transaction.    *)
(*                                                                             *)
(* A row is named by the request that created it and belongs to the company of *)
(* that request's tenant.  It is modelled by two columns that the audit of an  *)
(* update compares: email, which is unique over all companies, and address,    *)
(* which is not.                                                               *)
EXTENDS TenantRequests

CONSTANT Texts

Column == {"email", "address"}
Row == [Column -> Texts \cup {Nil}]

AddHolderCall ==
    [op : {"addHolder"}, company : Companies, actor : Email, set : Row]
\* The body of an update holds some of the columns.
EditHolderCall ==
    [op : {"editHolder"}, company : Companies, actor : Email, holder : Requests,
     set : UNION {[C -> Texts] : C \in SUBSET Column}]

VARIABLES
    holders,    \* the committed shareholders, by the request that created each
    entity,     \* the row an update has in memory: as it was read, and as it is
    overlapped  \* history: the rows that an update has read before the create or
                \* another update was over

holderVars == <<holders, entity, overlapped>>

Existing == {h \in Requests : holders[h] # Nil}

\* email is a unique column.
EmailUsed(h, text) ==
    text # Nil /\ \E g \in Existing \ {h} : holders[g]["email"] = text

Writers == {"OWNER", "ADMIN", "LEGAL"}

-------------------------------------------------------------------------------
(* create *)

AddHolder(r, a) ==
    /\ a.op = "addHolder"
    /\ PassGuards(r, a, Writers, "insertHolder") \/ CompanyNotActive(r, a)
    /\ UNCHANGED holderVars

InsertHolder(r) ==
    LET row == call[r].set IN
    /\ pc[r] = "insertHolder"
    /\ IF EmailUsed(r, row["email"]) THEN Goto(r, "failed") /\ UNCHANGED holders
       ELSE Goto(r, "logCreate") /\ holders' = [holders EXCEPT ![r] = row]
    /\ UNCHANGED <<tables, call, tenant, began, entity, overlapped>>

\* The metadata names the e-mail, as it was saved, and leaves the address out.
LogCreate(r) ==
    /\ pc[r] = "logCreate"
    /\ trail' = trail \cup
          {TenantRow(r, "SHAREHOLDER_CREATED", tenant[r], r,
                     {<<"email", Nil, call[r].set["email"]>>})}
    /\ Began(r)
    /\ Goto(r, "done")
    /\ UNCHANGED <<users, companies, members, call, tenant, holderVars>>

-------------------------------------------------------------------------------
(* update *)

EditHolder(r, a) ==
    /\ a.op = "editHolder"
    /\ PassGuards(r, a, Writers, "find") \/ CompanyNotActive(r, a)
    /\ UNCHANGED holderVars

\* Variant: the body is saved as the row.
AssignBodyOnly(row, set) == set

\* Object.assign(shareholder, dto).
Assign(row, set) == [c \in Column |-> IF c \in DOMAIN set THEN set[c] ELSE row[c]]

Updating(s, h) == pc[s] \in {"reload", "write", "logUpdate"} /\ call[s].holder = h
Busy(h) == pc[h] = "logCreate" \/ \E s \in Requests : Updating(s, h)

\* Variant: the company of the shareholder is not part of the query.
FindHolderAnywhere(r) ==
    LET h == call[r].holder IN
    /\ pc[r] = "find"
    /\ IF h \notin Existing
       THEN Goto(r, "refused") /\ UNCHANGED <<entity, overlapped>>
       ELSE /\ Goto(r, "reload")
            /\ entity' = [entity EXCEPT ![r] =
                  [before |-> holders[h], after |-> Assign(holders[h], call[r].set),
                   dirty |-> {}]]
            /\ overlapped' = IF Busy(h) THEN overlapped \cup {h} ELSE overlapped
    /\ UNCHANGED <<tables, call, tenant, began, holders>>

FindHolder(r) ==
    LET h == call[r].holder IN
    /\ pc[r] = "find"
    /\ IF h \notin Existing \/ tenant[h].company # tenant[r].company
       THEN Goto(r, "refused") /\ UNCHANGED <<entity, overlapped>>
       ELSE /\ Goto(r, "reload")
            /\ entity' = [entity EXCEPT ![r] =
                  [before |-> holders[h], after |-> Assign(holders[h], call[r].set),
                   dirty |-> {}]]
            /\ overlapped' = IF Busy(h) THEN overlapped \cup {h} ELSE overlapped
    /\ UNCHANGED <<tables, call, tenant, began, holders>>

\* repo.save reads the row again and will write the columns in which the entity
\* differs from it: a column another update has changed since is written back.
ReloadHolder(r) ==
    LET row == holders[call[r].holder]
        dirty == {c \in Column : entity[r].after[c] # row[c]}
    IN
    /\ pc[r] = "reload"
    /\ entity' = [entity EXCEPT ![r].dirty = dirty]
    /\ Goto(r, IF dirty = {} THEN "logUpdate" ELSE "write")
    /\ UNCHANGED <<tables, call, tenant, began, holders, overlapped>>

WriteHolder(r) ==
    LET h == call[r].holder
        e == entity[r]
    IN
    /\ pc[r] = "write"
    /\ IF "email" \in e.dirty /\ EmailUsed(h, e.after["email"])
       THEN Goto(r, "failed") /\ UNCHANGED holders
       ELSE /\ Goto(r, "logUpdate")
            /\ holders' = [holders EXCEPT ![h] =
                  [c \in Column |-> IF c \in e.dirty THEN e.after[c] ELSE @[c]]]
    /\ UNCHANGED <<tables, call, tenant, began, entity, overlapped>>

Changes(e) ==
    {<<c, e.before[c], e.after[c]>> : c \in {d \in Column : e.before[d] # e.after[d]}}

\* Variant: the audit compares the body with itself.
LogUpdateOfNothing(r) ==
    /\ pc[r] = "logUpdate"
    /\ trail' = trail \cup
          {TenantRow(r, "SHAREHOLDER_UPDATED", tenant[r], call[r].holder, {})}
    /\ Began(r)
    /\ entity' = [entity EXCEPT ![r] = Nil]
    /\ Goto(r, "done")
    /\ UNCHANGED <<users, companies, members, call, tenant, holders, overlapped>>

LogUpdate(r) ==
    /\ pc[r] = "logUpdate"
    /\ trail' = trail \cup
          {TenantRow(r, "SHAREHOLDER_UPDATED", tenant[r], call[r].holder,
                     Changes(entity[r]))}
    /\ Began(r)
    /\ entity' = [entity EXCEPT ![r] = Nil]
    /\ Goto(r, "done")
    /\ UNCHANGED <<users, companies, members, call, tenant, holders, overlapped>>

ShareholdersStep(r) ==
    \/ \E a \in Calls : AddHolder(r, a) \/ EditHolder(r, a)
    \/ InsertHolder(r)
    \/ LogCreate(r)
    \/ FindHolder(r)
    \/ ReloadHolder(r)
    \/ WriteHolder(r)
    \/ LogUpdate(r)

ShareholdersInit ==
    /\ holders = [r \in Requests |-> Nil]
    /\ entity = [r \in Requests |-> Nil]
    /\ overlapped = {}

===============================================================================
