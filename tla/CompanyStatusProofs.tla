-------------------------- MODULE CompanyStatusProofs --------------------------
(* Theorems of CompanyStatus, for any number of requests and administrators.   *)
(*                                                                             *)
(* The inductive invariant says of a request between its load and its commit   *)
(* what it has checked, and, when nothing has committed since it loaded the    *)
(* row, that what it holds still agrees with the row: then its UPDATE writes   *)
(* the whole entity and its step is one of StatusRegister.                     *)
EXTENDS CompanyStatus, TLAPS

Pending == {"save", "update"}

\* What a pending request has loaded and checked.
Checked(r) ==
    /\ change[r] \in Change
    /\ previous[r] \in Status
    /\ Acceptable(previous[r], change[r])
    /\ entity[r] = Assigned(r, change[r])
    /\ read[r] <= version

\* What it holds agrees with the row while no commit has come between.
Current(r) ==
    read[r] = version =>
        /\ previous[r] = row.status
        /\ pc[r] = "update" => dirty[r] = {c \in Columns : entity[r][c] # row[c]}

PendingOK == \A r \in Requests : pc[r] \in Pending => Checked(r) /\ Current(r)

IInv == TypeOK /\ PendingOK

AuditRow == [action : {"COMPANY_SUSPENDED", "COMPANY_ARCHIVED",
                       "COMPANY_REACTIVATED", "COMPANY_STATUS_UPDATED"},
             previousStatus : Status, newStatus : Status,
             actor : Admins, reason : Reasons \cup {Nil}]

-------------------------------------------------------------------------------
\* A permitted change never asks for PENDING_REVIEW, and leaves a status for
\* another.
LEMMA ChangeTarget ==
    ASSUME NEW from \in Status, NEW to \in Status, ValidTransition(from, to)
    PROVE  /\ to \in {"ACTIVE", "SUSPENDED", "ARCHIVED"}
           /\ from \in {"PENDING_REVIEW", "ACTIVE", "SUSPENDED"}
           /\ from # to
           /\ to \in ALLOWED_TRANSITIONS[from]
BY DEF ValidTransition, ALLOWED_TRANSITIONS, Status

\* The entity a request assigns is a row.
LEMMA AssignedRow ==
    ASSUME NEW r \in Requests, NEW c \in Change
    PROVE  Assigned(r, c) \in Row
BY DEF Assigned, NotSuspended, Row, Change

\* An UPDATE leaves a row, whichever columns it sets.
LEMMA OverlayRow ==
    ASSUME NEW r \in Requests, row \in Row, entity[r] \in Row
    PROVE  Overlay(r) \in Row
<1> DEFINE v(c) == IF c \in dirty[r] THEN entity[r][c] ELSE row[c]
<1>1. Overlay(r) = [status |-> v("status"), suspendedAt |-> v("suspendedAt"),
                    suspendedByUserId |-> v("suspendedByUserId"),
                    suspensionReason |-> v("suspensionReason")]
  BY DEF Overlay, Columns
<1>2. /\ v("status") \in Status
      /\ v("suspendedAt") \in Requests \cup {Nil}
      /\ v("suspendedByUserId") \in Admins \cup {Nil}
      /\ v("suspensionReason") \in Reasons \cup {Nil}
  BY DEF Row
<1> HIDE DEF v
<1> QED BY <1>1, <1>2 DEF Row

\* An UPDATE that sets every column in which entity and row differ writes the
\* entity.
LEMMA OverlayWhole ==
    ASSUME NEW r \in Requests, row \in Row, entity[r] \in Row,
           dirty[r] = {c \in Columns : entity[r][c] # row[c]}
    PROVE  Overlay(r) = entity[r]
<1>1. \A c \in Columns : (IF c \in dirty[r] THEN entity[r][c] ELSE row[c]) = entity[r][c]
  OBVIOUS
<1>2. Overlay(r) = [c \in Columns |-> entity[r][c]]
  BY <1>1 DEF Overlay
<1>3. entity[r] = [c \in Columns |-> entity[r][c]]
  BY DEF Row, Columns
<1> QED BY <1>2, <1>3

\* The audit row of a checked change.
LEMMA AuditRowTyped ==
    ASSUME NEW r \in Requests, Checked(r)
    PROVE  /\ AuditEntry(r) \in AuditRow
           /\ entity[r].status = change[r].status
           /\ entity[r] \in Row
<1>1. entity[r] \in Row
  BY AssignedRow DEF Checked
<1>2. entity[r].status = change[r].status
  BY DEF Checked, Assigned, NotSuspended
<1>3. change[r].status \in Status /\ change[r].actor \in Admins
      /\ change[r].reason \in Reasons \cup {Nil}
  BY DEF Checked, Change
<1>4. ValidTransition(previous[r], change[r].status)
  BY DEF Checked, Acceptable
<1>5. change[r].status \in {"ACTIVE", "SUSPENDED", "ARCHIVED"}
  BY <1>3, <1>4, ChangeTarget DEF Checked
<1>6. AuditActionFor(previous[r], change[r].status) \in
        {"COMPANY_SUSPENDED", "COMPANY_ARCHIVED",
         "COMPANY_REACTIVATED", "COMPANY_STATUS_UPDATED"}
  BY <1>5 DEF AuditActionFor
<1>7. previous[r] \in Status
  BY DEF Checked
<1>8. AuditEntry(r) = [action |-> AuditActionFor(previous[r], change[r].status),
                       previousStatus |-> previous[r],
                       newStatus |-> change[r].status,
                       actor |-> change[r].actor, reason |-> change[r].reason]
  BY <1>2 DEF AuditEntry
<1> HIDE DEF AuditEntry
<1> QED BY <1>1, <1>2, <1>3, <1>6, <1>7, <1>8 DEF AuditRow

-------------------------------------------------------------------------------
\* The inductive invariant holds at first,
LEMMA InvInit == Init => IInv
<1> SUFFICES ASSUME Init PROVE IInv
  OBVIOUS
<1>1. row \in Row
  BY DEF Init, NotSuspended, Row, Status
<1>2. audits \in Seq(AuditRow)
  BY DEF Init
<1>3. TypeOK
  BY <1>1, <1>2 DEF Init, TypeOK, AuditRow
<1>4. PendingOK
  BY DEF Init, PendingOK, Pending
<1> QED BY <1>3, <1>4 DEF IInv

\* every step of every request keeps it,
LEMMA InvStep == IInv /\ [Next]_vars => IInv'
<1> SUFFICES ASSUME IInv, [Next]_vars PROVE IInv'
  OBVIOUS
<1> USE DEF IInv
<1>1. ASSUME NEW r \in Requests, NEW c \in Change, Load(r, c) PROVE IInv'
  <2>1. CASE ~Acceptable(row.status, c)
    <3>1. pc' = [pc EXCEPT ![r] = "rejected"] /\ UNCHANGED <<locals, row, audits, version, raced>>
      BY <1>1, <2>1 DEF Load, Goto
    <3>2. TypeOK'
      BY <3>1 DEF TypeOK, locals
    <3>3. PendingOK'
      BY <3>1 DEF PendingOK, Pending, Checked, Current, TypeOK, Overlay, locals
    <3> QED BY <3>2, <3>3
  <2>2. CASE Acceptable(row.status, c)
    <3>1. /\ pc' = [pc EXCEPT ![r] = "save"]
          /\ change' = [change EXCEPT ![r] = c]
          /\ previous' = [previous EXCEPT ![r] = row.status]
          /\ entity' = [entity EXCEPT ![r] = Assigned(r, c)]
          /\ read' = [read EXCEPT ![r] = version]
          /\ UNCHANGED <<dirty, row, audits, version, raced>>
      BY <1>1, <2>2 DEF Load, Goto
    <3>2. row.status \in Status
      BY DEF TypeOK, Row
    <3>3. Assigned(r, c) \in Row
      BY AssignedRow
    <3>4. TypeOK'
      BY <3>1, <3>2, <3>3 DEF TypeOK
    <3>5. ASSUME NEW q \in Requests, pc'[q] \in Pending
          PROVE  Checked(q)' /\ Current(q)'
      <4>1. CASE q = r
        <5>1. /\ pc'[r] = "save" /\ change'[r] = c /\ previous'[r] = row.status
              /\ entity'[r] = Assigned(r, c) /\ read'[r] = version
          BY <3>1 DEF TypeOK
        <5>2. version' = version /\ row' = row /\ version \in Nat
          BY <3>1 DEF TypeOK
        <5> QED BY <4>1, <5>1, <5>2, <3>2, <2>2 DEF Checked, Current
      <4>2. CASE q # r
        <5>1. /\ pc'[q] = pc[q] /\ change'[q] = change[q] /\ previous'[q] = previous[q]
              /\ entity'[q] = entity[q] /\ read'[q] = read[q] /\ dirty'[q] = dirty[q]
              /\ version' = version /\ row' = row
          BY <3>1, <4>2 DEF TypeOK
        <5> QED BY <3>5, <5>1 DEF PendingOK, Checked, Current
      <4> QED BY <4>1, <4>2
    <3> QED BY <3>4, <3>5 DEF PendingOK
  <2> QED BY <2>1, <2>2
<1>2. ASSUME NEW r \in Requests, Diff(r) PROVE IInv'
  <2>1. /\ pc[r] = "save"
        /\ pc' = [pc EXCEPT ![r] = "update"]
        /\ dirty' = [dirty EXCEPT ![r] = {c \in Columns : entity[r][c] # row[c]}]
        /\ UNCHANGED <<row, audits, change, previous, entity, version, read, raced>>
    BY <1>2 DEF Diff, Goto
  <2>2. TypeOK'
    BY <2>1 DEF TypeOK
  <2>3. ASSUME NEW q \in Requests, pc'[q] \in Pending
        PROVE  Checked(q)' /\ Current(q)'
    <3>1. pc[q] \in Pending
      BY <2>1, <2>3 DEF TypeOK, Pending
    <3>2. Checked(q) /\ Current(q)
      BY <3>1 DEF PendingOK
    <3>3. Checked(q)'
      BY <3>2, <2>1 DEF Checked
    <3>4. q # r => pc'[q] = pc[q] /\ dirty'[q] = dirty[q]
      BY <2>1 DEF TypeOK
    <3>5. q = r => dirty'[q] = {c \in Columns : entity[q][c] # row[c]}
      BY <2>1 DEF TypeOK
    <3> QED BY <2>1, <3>2, <3>3, <3>4, <3>5 DEF Current
  <2> QED BY <2>2, <2>3 DEF PendingOK
<1>3. ASSUME NEW r \in Requests, Commit(r) PROVE IInv'
  <2>1. /\ pc[r] = "update"
        /\ pc' = [pc EXCEPT ![r] = "done"]
        /\ row' = Overlay(r)
        /\ audits' = Append(audits, AuditEntry(r))
        /\ version' = version + 1
        /\ raced' = (raced \/ read[r] # version)
        /\ UNCHANGED <<change, previous, entity, dirty, read>>
    BY <1>3 DEF Commit, Goto, locals
  <2>2. Checked(r)
    BY <2>1 DEF PendingOK, Pending
  <2>3. AuditEntry(r) \in AuditRow /\ entity[r] \in Row
    BY <2>2, AuditRowTyped
  <2>4. audits \in Seq(AuditRow)
    BY DEF TypeOK, AuditRow
  <2>5. audits' \in Seq(AuditRow)
    BY <2>1, <2>3, <2>4
  <2>6. row' \in Row
    BY <2>1, <2>3, OverlayRow DEF TypeOK
  <2>7. TypeOK'
    BY <2>1, <2>5, <2>6 DEF TypeOK, AuditRow
  <2>8. ASSUME NEW q \in Requests, pc'[q] \in Pending
        PROVE  Checked(q)' /\ Current(q)'
    <3>1. pc[q] \in Pending
      BY <2>1, <2>8 DEF TypeOK, Pending
    <3>2. Checked(q)
      BY <3>1 DEF PendingOK
    <3>3. version \in Nat /\ read[q] \in Nat
      BY DEF TypeOK
    <3>4. read[q] <= version
      BY <3>2 DEF Checked
    <3>5. Checked(q)'
      BY <3>2, <3>3, <2>1 DEF Checked
    <3>6. read'[q] # version'
      BY <3>3, <3>4, <2>1
    <3> QED BY <3>5, <3>6 DEF Current
  <2> QED BY <2>7, <2>8 DEF PendingOK
<1>4. ASSUME NEW r \in Requests, Abort(r) PROVE IInv'
  <2>1. /\ pc' = [pc EXCEPT ![r] = "failed"]
        /\ UNCHANGED <<row, audits, change, previous, entity, dirty, read, version, raced>>
    BY <1>4 DEF Abort, Goto, locals
  <2>2. TypeOK'
    BY <2>1 DEF TypeOK
  <2>3. ASSUME NEW q \in Requests, pc'[q] \in Pending
        PROVE  Checked(q)' /\ Current(q)'
    <3>1. pc'[q] = pc[q]
      BY <2>1, <2>3 DEF TypeOK, Pending
    <3>2. Checked(q) /\ Current(q)
      BY <3>1, <2>3 DEF PendingOK
    <3> QED BY <3>1, <3>2, <2>1 DEF Checked, Current
  <2> QED BY <2>2, <2>3 DEF PendingOK
<1>5. ASSUME UNCHANGED vars PROVE IInv'
  BY <1>5 DEF vars, TypeOK, PendingOK, Checked, Current
<1> QED BY <1>1, <1>2, <1>3, <1>4, <1>5 DEF Next

\* and so it always holds.
LEMMA Invariance == Spec => []IInv
BY InvInit, InvStep, PTL DEF Spec

\* Every state is well typed: in particular no audit row records an action or a
\* status that no permitted change has.
THEOREM StatusTypeCorrect == Spec => []TypeOK
<1>1. IInv => TypeOK
  BY DEF IInv
<1> QED BY <1>1, Invariance, PTL

-------------------------------------------------------------------------------
\* The commit of a request that was not overtaken is a step of StatusRegister.
LEMMA CommitRefines ==
    ASSUME IInv, NEW r \in Requests, Commit(r), read[r] = version
    PROVE  SR!Next
<1>1. pc[r] = "update" /\ row' = Overlay(r) /\ audits' = Append(audits, AuditEntry(r))
  BY DEF Commit
<1>2. Checked(r) /\ Current(r)
  BY <1>1 DEF IInv, PendingOK, Pending
<1>3. previous[r] = row.status /\ dirty[r] = {c \in Columns : entity[r][c] # row[c]}
  BY <1>1, <1>2 DEF Current
<1>4. entity[r] \in Row /\ entity[r].status = change[r].status
  BY <1>2, AuditRowTyped
<1>5. row' = Assigned(r, change[r])
  BY <1>1, <1>2, <1>3, <1>4, OverlayWhole DEF IInv, TypeOK, Checked
<1> DEFINE c == change[r]
<1>6. /\ c.status \in Status /\ c.actor \in Admins /\ c.reason \in Reasons \cup {Nil}
      /\ ValidTransition(row.status, c.status)
      /\ c.status = "SUSPENDED" => c.reason # Nil
  BY <1>2, <1>3 DEF Checked, Change, Acceptable
<1>7. audits' = Append(audits, SR!Entry(row.status, c.status, c.actor, c.reason))
  BY <1>1, <1>3, <1>4 DEF AuditEntry, SR!Entry, AuditActionFor, SR!AuditActionFor
<1>8. CASE c.status = "SUSPENDED"
  <2>1. SR!Suspend(r, c.actor, c.reason)
    BY <1>5, <1>6, <1>7, <1>8
       DEF SR!Suspend, Assigned, ValidTransition, SR!ValidTransition,
           ALLOWED_TRANSITIONS, SR!ALLOWED_TRANSITIONS
  <2> QED BY <2>1, <1>6, <1>8 DEF SR!Next
<1>9. CASE c.status # "SUSPENDED"
  <2>1. SR!Leave(c.status, c.actor, c.reason)
    BY <1>5, <1>6, <1>7, <1>9
       DEF SR!Leave, Assigned, NotSuspended, ValidTransition, SR!ValidTransition,
           ALLOWED_TRANSITIONS, SR!ALLOWED_TRANSITIONS
  <2> QED BY <2>1, <1>6 DEF SR!Next, Status, SR!Status
<1> QED BY <1>8, <1>9

\* updateStatus implements StatusRegister, up to the first commit over a version
\* of the row its request had not read.
THEOREM StatusRefinement == Spec => ImplementsStatusRegister
<1>1. ASSUME IInv, [Next]_vars
      PROVE  [raced' \/ SR!Next]_<<row, audits>>
  <2>1. ASSUME NEW r \in Requests, Commit(r) PROVE raced' \/ SR!Next
    <3>1. read[r] # version => raced'
      BY <2>1 DEF Commit
    <3> QED BY <3>1, <2>1, <1>1, CommitRefines
  <2>2. ASSUME NEW r \in Requests, NEW c \in Change, Load(r, c)
        PROVE  UNCHANGED <<row, audits>>
    BY <2>2 DEF Load
  <2>3. ASSUME NEW r \in Requests, Diff(r) \/ Abort(r)
        PROVE  UNCHANGED <<row, audits>>
    BY <2>3 DEF Diff, Abort
  <2>4. ASSUME UNCHANGED vars PROVE UNCHANGED <<row, audits>>
    BY <2>4 DEF vars
  <2> QED BY <1>1, <2>1, <2>2, <2>3, <2>4 DEF Next
<1> QED BY <1>1, Invariance, PTL DEF Spec, ImplementsStatusRegister

-------------------------------------------------------------------------------
\* What the committed audit rows say, one by one and as a chain.
Entries ==
    \A i \in 1..Len(audits) :
        /\ audits[i] \in AuditRow
        /\ audits[i].newStatus \in ALLOWED_TRANSITIONS[audits[i].previousStatus]
        /\ audits[i].action = "COMPANY_REACTIVATED" <=>
              audits[i].previousStatus = "SUSPENDED" /\ audits[i].newStatus = "ACTIVE"
        /\ audits[i].action = "COMPANY_SUSPENDED" => audits[i].reason # Nil

Trail == Len(audits) = version /\ Entries /\ AuditTrailReplays

\* The audit row a checked request writes says what Entries asks of it.
LEMMA EntryAllowed ==
    ASSUME NEW r \in Requests, Checked(r)
    PROVE  LET e == AuditEntry(r) IN
           /\ e.newStatus \in ALLOWED_TRANSITIONS[e.previousStatus]
           /\ e.action = "COMPANY_REACTIVATED" <=>
                 e.previousStatus = "SUSPENDED" /\ e.newStatus = "ACTIVE"
           /\ e.action = "COMPANY_SUSPENDED" => e.reason # Nil
<1> DEFINE from == previous[r]
           to == change[r].status
<1>1. AuditEntry(r) = [action |-> AuditActionFor(from, to),
                       previousStatus |-> from, newStatus |-> to,
                       actor |-> change[r].actor, reason |-> change[r].reason]
  BY AuditRowTyped DEF AuditEntry
<1>2. /\ from \in Status /\ to \in Status /\ ValidTransition(from, to)
      /\ to = "SUSPENDED" => change[r].reason # Nil
  BY DEF Checked, Acceptable, Change
<1>3. /\ to \in {"ACTIVE", "SUSPENDED", "ARCHIVED"}
      /\ to \in ALLOWED_TRANSITIONS[from]
  BY <1>2, ChangeTarget
<1>4. AuditActionFor(from, to) = "COMPANY_SUSPENDED" => to = "SUSPENDED"
  BY <1>3 DEF AuditActionFor
<1>5. AuditActionFor(from, to) = "COMPANY_REACTIVATED" <=>
          from = "SUSPENDED" /\ to = "ACTIVE"
  BY <1>3 DEF AuditActionFor
<1> HIDE DEF from, to
<1> QED BY <1>1, <1>2, <1>3, <1>4, <1>5

\* A commit appends one such row; while no request has been overtaken it starts
\* where the last one ended, at the status of the row.
LEMMA TrailStep == IInv /\ Trail /\ [Next]_vars => Trail'
<1> SUFFICES ASSUME IInv, Trail, [Next]_vars PROVE Trail'
  OBVIOUS
<1>1. ASSUME NEW r \in Requests, Commit(r) PROVE Trail'
  <2>1. /\ pc[r] = "update" /\ row' = Overlay(r)
        /\ audits' = Append(audits, AuditEntry(r))
        /\ version' = version + 1
        /\ raced' = (raced \/ read[r] # version)
    BY <1>1 DEF Commit
  <2>2. Checked(r) /\ Current(r)
    BY <2>1 DEF IInv, PendingOK, Pending
  <2>3. AuditEntry(r) \in AuditRow /\ entity[r] \in Row
    BY <2>2, AuditRowTyped
  <2>4. audits \in Seq(AuditRow) /\ raced \in BOOLEAN
    BY DEF IInv, TypeOK, AuditRow
  <2> DEFINE n == Len(audits)
             e == AuditEntry(r)
  <2>5. /\ n \in Nat /\ Len(audits') = n + 1
        /\ \A i \in 1..n : audits'[i] = audits[i]
        /\ audits'[n + 1] = e
    BY <2>1, <2>3, <2>4
  <2>6. Len(audits') = version'
    BY <2>1, <2>5 DEF Trail
  <2>7. Entries'
    <3> SUFFICES ASSUME NEW i \in 1..(n + 1)
                 PROVE  /\ audits'[i] \in AuditRow
                        /\ audits'[i].newStatus
                              \in ALLOWED_TRANSITIONS[audits'[i].previousStatus]
                        /\ audits'[i].action = "COMPANY_REACTIVATED" <=>
                              audits'[i].previousStatus = "SUSPENDED"
                                /\ audits'[i].newStatus = "ACTIVE"
                        /\ audits'[i].action = "COMPANY_SUSPENDED"
                              => audits'[i].reason # Nil
      BY <2>5 DEF Entries
    <3>1. CASE i = n + 1
      BY <3>1, <2>2, <2>3, <2>5, EntryAllowed
    <3>2. CASE i \in 1..n
      BY <3>2, <2>5 DEF Trail, Entries
    <3> QED BY <2>5, <3>1, <3>2
  <2>8. AuditTrailReplays'
    <3>1. CASE raced'
      BY <3>1 DEF AuditTrailReplays
    <3>2. CASE ~raced'
      <4>1. ~raced /\ read[r] = version
        BY <2>1, <2>4, <3>2
      <4>2. /\ \A i \in 1..(n - 1) :
                  audits[i + 1].previousStatus = audits[i].newStatus
            /\ audits # <<>> => audits[n].newStatus = row.status
        BY <4>1 DEF Trail, AuditTrailReplays
      <4>3. previous[r] = row.status /\ row' = entity[r]
        BY <4>1, <2>1, <2>2, <2>3, OverlayWhole DEF Current, IInv, TypeOK
      <4>4. e.previousStatus = row.status /\ e.newStatus = row'.status
        BY <4>3 DEF AuditEntry
      <4>5. ASSUME NEW i \in 1..n
            PROVE  audits'[i + 1].previousStatus = audits'[i].newStatus
        <5>1. CASE i = n
          <6>1. audits # <<>>
            BY <2>4, <2>5, <5>1
          <6> QED BY <6>1, <5>1, <4>2, <4>4, <2>5
        <5>2. CASE i \in 1..(n - 1)
          <6>1. i + 1 \in 1..n /\ i \in 1..n
            BY <2>5, <5>2
          <6> QED BY <6>1, <5>2, <4>2, <2>5
        <5> QED BY <2>5, <5>1, <5>2
      <4>6. audits'[Len(audits')].newStatus = row'.status
        BY <2>5, <4>4
      <4>7. Len(audits') - 1 = n
        BY <2>5
      <4> QED BY <4>5, <4>6, <4>7 DEF AuditTrailReplays
    <3> QED BY <3>1, <3>2
  <2> QED BY <2>6, <2>7, <2>8 DEF Trail
<1>2. ASSUME UNCHANGED <<row, audits, version, raced>> PROVE Trail'
  BY <1>2 DEF Trail, Entries, AuditTrailReplays
<1>3. ASSUME NEW r \in Requests, NEW c \in Change, Load(r, c) PROVE Trail'
  BY <1>2, <1>3 DEF Load
<1>4. ASSUME NEW r \in Requests, Diff(r) \/ Abort(r) PROVE Trail'
  BY <1>2, <1>4 DEF Diff, Abort
<1>5. ASSUME UNCHANGED vars PROVE Trail'
  BY <1>2, <1>5 DEF vars
<1> QED BY <1>1, <1>3, <1>4, <1>5 DEF Next

\* Trail holds of the empty audit log, and so always.
LEMMA TrailInvariance == Spec => []Trail
<1>1. Init => Trail
  BY DEF Init, Trail, Entries, AuditTrailReplays
<1> QED BY <1>1, TrailStep, Invariance, PTL DEF Spec

\* Until two requests overlap, the audit rows form a chain that ends at the
\* status of the company.
THEOREM TrailReplays == Spec => []AuditTrailReplays
<1>1. Trail => AuditTrailReplays
  BY DEF Trail
<1> QED BY <1>1, TrailInvariance, PTL

\* However requests overlap, there is one audit row for every commit, it records
\* a permitted change under its own action, and a suspension has a reason.
THEOREM TrailAllowed == Spec => []AuditsAllowed
<1>1. Trail => AuditsAllowed
  BY DEF Trail, Entries, AuditsAllowed
<1> QED BY <1>1, TrailInvariance, PTL

\* A company never returns to review, and is settled once it is archived and no
\* request is under way.
THEOREM ArchiveSettles == Spec => ArchivedSettles
<1>1. ASSUME IInv, [Next]_vars
      PROVE  [/\ row.status # "PENDING_REVIEW" => row'.status # "PENDING_REVIEW"
              /\ row.status = "ARCHIVED" /\ ~UnderWay => row' = row /\ ~UnderWay']_vars
  <2> DEFINE Goal == /\ row.status # "PENDING_REVIEW" => row'.status # "PENDING_REVIEW"
                     /\ row.status = "ARCHIVED" /\ ~UnderWay => row' = row /\ ~UnderWay'
  <2>0. pc \in [Requests -> {"start", "save", "update", "done", "rejected", "failed"}]
    BY <1>1 DEF IInv, TypeOK
  <2>1. ASSUME NEW r \in Requests, NEW c \in Change, Load(r, c) PROVE Goal
    <3>1. row' = row
      BY <2>1 DEF Load
    <3>2. row.status = "ARCHIVED" => pc' = [pc EXCEPT ![r] = "rejected"]
      BY <2>1 DEF Load, Goto, Acceptable, ValidTransition
    <3>3. ASSUME row.status = "ARCHIVED", UnderWay' PROVE UnderWay
      <4>1. PICK q \in Requests : pc'[q] \in {"save", "update"}
        BY <3>3 DEF UnderWay
      <4>2. pc'[q] = IF q = r THEN "rejected" ELSE pc[q]
        BY <3>2, <3>3, <2>0
      <4> QED BY <4>1, <4>2 DEF UnderWay
    <3> QED BY <3>1, <3>3
  <2>2. ASSUME NEW r \in Requests, Commit(r) PROVE Goal
    <3>1. pc[r] = "update" /\ row' = Overlay(r)
      BY <2>2 DEF Commit
    <3>2. UnderWay
      BY <3>1 DEF UnderWay
    <3>3. Checked(r)
      BY <3>1, <1>1 DEF IInv, PendingOK, Pending
    <3>4. entity[r].status = change[r].status
      BY <3>3, AuditRowTyped
    <3>5. change[r].status # "PENDING_REVIEW"
      BY <3>3, ChangeTarget DEF Checked, Acceptable, Change
    <3>6. row'.status \in {entity[r].status, row.status}
      BY <3>1 DEF Overlay, Columns
    <3> QED BY <3>2, <3>4, <3>5, <3>6
  <2>3. ASSUME NEW r \in Requests, Diff(r) \/ Abort(r) PROVE Goal
    <3>1. row' = row /\ pc[r] \in {"save", "update"}
      BY <2>3 DEF Diff, Abort
    <3> QED BY <3>1 DEF UnderWay
  <2> QED BY <1>1, <2>1, <2>2, <2>3 DEF Next
<1> QED BY <1>1, Invariance, PTL DEF Spec, ArchivedSettles
===============================================================================
