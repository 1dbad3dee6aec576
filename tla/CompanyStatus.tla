----------------------------- MODULE CompanyStatus -----------------------------
(* PATCH /platform/companies/:id/status: any number of platform administrators *)
(* change the status of one company at once.                                   *)
(*                                                                             *)
(* updateStatus reads the row without a lock and assigns the new values to the *)
(* entity.  repo.save then reads the row again, and updates only the columns   *)
(* in which the entity differs from what it has just read.  The UPDATE waits   *)
(* for the row lock of an earlier one and applies to the newest row; the audit *)
(* row is inserted in the same transaction.  What a transaction writes is      *)
(* invisible, and its row lock held, until its commit: the UPDATE, the audit   *)
(* insert and the commit are one action.                                       *)
EXTENDS Naturals, Sequences, CompanyLifecycle

CONSTANTS
    Requests,   \* one PATCH each
    Admins,     \* the platform users who send them
    Reasons,    \* reasons with a character other than white space
    Nil         \* NULL; also a reason that is absent or blank

ASSUME NilAssumption == Nil \notin Reasons /\ Nil \notin Requests /\ Nil \notin Admins

VARIABLES
    row,       \* the committed row of companies
    audits,    \* its committed status audit rows, in commit order
    pc,        \* the statement each request awaits
    change,    \* its body and the user who sent it
    previous,  \* previousStatus, as it loaded it
    entity,    \* the entity after the assignments
    dirty,     \* the columns repo.save found changed
    version,   \* history: the number of commits so far
    read,      \* history: the version each request loaded
    raced      \* history: a request has committed over a version it had not read

vars == <<row, audits, pc, change, previous, entity, dirty, version, read, raced>>
locals == <<change, previous, entity, dirty, read>>

Change == [status : Status, actor : Admins, reason : Reasons \cup {Nil}]

\* suspendedAt is the time at which a request suspended the company: the request
\* stands for its time.
Row == [status            : Status,
        suspendedAt       : Requests \cup {Nil},
        suspendedByUserId : Admins \cup {Nil},
        suspensionReason  : Reasons \cup {Nil}]
Columns == {"status", "suspendedAt", "suspendedByUserId", "suspensionReason"}

NotSuspended(s) == [status |-> s, suspendedAt |-> Nil,
                    suspendedByUserId |-> Nil, suspensionReason |-> Nil]

Init ==
    /\ \E s \in {"PENDING_REVIEW", "ACTIVE"} : row = NotSuspended(s)
    /\ audits = <<>>
    /\ pc = [r \in Requests |-> "start"]
    /\ change = [r \in Requests |-> Nil]
    /\ previous = [r \in Requests |-> Nil]
    /\ entity = [r \in Requests |-> Nil]
    /\ dirty = [r \in Requests |-> {}]
    /\ version = 0
    /\ read = [r \in Requests |-> 0]
    /\ raced = FALSE

Goto(r, label) == pc' = [pc EXCEPT ![r] = label]

\* Variant: the lifecycle is not consulted.
AcceptableAnyPair(from, c) ==
    /\ from # c.status
    /\ c.status = "SUSPENDED" => c.reason # Nil

\* Variant: a company is suspended without a reason.
AcceptableWithoutReason(from, c) == ValidTransition(from, c.status)

\* A reason is required to suspend.
Acceptable(from, c) ==
    /\ ValidTransition(from, c.status)
    /\ c.status = "SUSPENDED" => c.reason # Nil

\* The entity after the assignments of the handler.
Assigned(r, c) ==
    IF c.status = "SUSPENDED"
    THEN [status |-> c.status, suspendedAt |-> r,
          suspendedByUserId |-> c.actor, suspensionReason |-> c.reason]
    ELSE NotSuspended(c.status)

\* repo.findOne, the validation and the assignments.
Load(r, c) ==
    /\ pc[r] = "start"
    /\ IF ~Acceptable(row.status, c)
       THEN Goto(r, "rejected") /\ UNCHANGED locals
       ELSE /\ Goto(r, "save")
            /\ change' = [change EXCEPT ![r] = c]
            /\ previous' = [previous EXCEPT ![r] = row.status]
            /\ entity' = [entity EXCEPT ![r] = Assigned(r, c)]
            /\ read' = [read EXCEPT ![r] = version]
            /\ UNCHANGED dirty
    /\ UNCHANGED <<row, audits, version, raced>>

\* repo.save loads the row again and compares.
Diff(r) ==
    /\ pc[r] = "save"
    /\ dirty' = [dirty EXCEPT ![r] = {c \in Columns : entity[r][c] # row[c]}]
    /\ Goto(r, "update")
    /\ UNCHANGED <<row, audits, change, previous, entity, version, read, raced>>

\* Variant: the suspension columns are left out of the update.
OverlayStatusOnly(r) == [row EXCEPT !.status = entity[r].status]

\* The UPDATE sets the dirty columns of the newest row; without any there is no
\* UPDATE, but the audit row is inserted all the same.
Overlay(r) == [c \in Columns |-> IF c \in dirty[r] THEN entity[r][c] ELSE row[c]]

AuditEntry(r) ==
    [action         |-> AuditActionFor(previous[r], entity[r].status),
     previousStatus |-> previous[r],
     newStatus      |-> entity[r].status,
     actor          |-> change[r].actor,
     reason         |-> change[r].reason]

Commit(r) ==
    /\ pc[r] = "update"
    /\ row' = Overlay(r)
    /\ audits' = Append(audits, AuditEntry(r))
    /\ version' = version + 1
    /\ raced' = (raced \/ read[r] # version)
    /\ Goto(r, "done")
    /\ UNCHANGED locals

\* Variant: the audit row is written outside the transaction, which fails.
AbortAfterAudit(r) ==
    /\ pc[r] \in {"save", "update"}
    /\ Goto(r, "failed")
    /\ audits' = Append(audits, AuditEntry(r))
    /\ UNCHANGED <<row, locals, version, raced>>

\* A failed statement rolls back.
Abort(r) ==
    /\ pc[r] \in {"save", "update"}
    /\ Goto(r, "failed")
    /\ UNCHANGED <<row, audits, locals, version, raced>>

Next ==
    \E r \in Requests :
        \/ \E c \in Change : Load(r, c)
        \/ Diff(r)
        \/ Commit(r)
        \/ Abort(r)

Spec == Init /\ [][Next]_vars

-------------------------------------------------------------------------------
(* Properties *)

\* The type invariant.
TypeOK ==
    /\ row \in Row
    /\ audits \in Seq([action : {"COMPANY_SUSPENDED", "COMPANY_ARCHIVED",
                                 "COMPANY_REACTIVATED", "COMPANY_STATUS_UPDATED"},
                       previousStatus : Status, newStatus : Status,
                       actor : Admins, reason : Reasons \cup {Nil}])
    /\ pc \in [Requests -> {"start", "save", "update", "done", "rejected", "failed"}]
    /\ change \in [Requests -> Change \cup {Nil}]
    /\ previous \in [Requests -> Status \cup {Nil}]
    /\ entity \in [Requests -> Row \cup {Nil}]
    /\ dirty \in [Requests -> SUBSET Columns]
    /\ version \in Nat
    /\ read \in [Requests -> Nat]
    /\ raced \in BOOLEAN

\* Until two requests overlap, a status change is one atomic step of
\* StatusRegister: allowed from the status it replaces, with the suspension
\* columns set or cleared together with it, and with one audit row.
SR == INSTANCE StatusRegister
ImplementsStatusRegister == [][raced' \/ SR!Next]_<<row, audits>>

\* Until two requests overlap, the audit trail is a history of the status: each
\* entry starts where the one before ended, and the last ends at the status.
AuditTrailReplays ==
    raced \/ /\ \A i \in 1..(Len(audits) - 1) :
                   audits[i + 1].previousStatus = audits[i].newStatus
             /\ audits # <<>> => audits[Len(audits)].newStatus = row.status

\* However requests overlap, every audit row records a change the lifecycle
\* allows, by its own action, and a suspension records its reason; and there is
\* one for every commit.
AuditsAllowed ==
    /\ Len(audits) = version
    /\ \A i \in 1..Len(audits) :
          LET e == audits[i] IN
          /\ e.newStatus \in ALLOWED_TRANSITIONS[e.previousStatus]
          /\ e.action = "COMPANY_REACTIVATED" <=>
                e.previousStatus = "SUSPENDED" /\ e.newStatus = "ACTIVE"
          /\ e.action = "COMPANY_SUSPENDED" => e.reason # Nil

\* However requests overlap, a company goes back to review only if it never left
\* it, and once it is archived with no request under way it stays as it is.
UnderWay == \E r \in Requests : pc[r] \in {"save", "update"}
ArchivedSettles ==
    [][/\ row.status # "PENDING_REVIEW" => row'.status # "PENDING_REVIEW"
       /\ row.status = "ARCHIVED" /\ ~UnderWay => row' = row /\ ~UnderWay']_vars

\* "Archived companies cannot change status" (company-status-lifecycle.ts).
ArchivedIsFinal == [][row.status = "ARCHIVED" => row'.status = "ARCHIVED"]_vars

===============================================================================
