---------------------------- MODULE StatusRegister ----------------------------
(* What a status change promises: one indivisible step on the company's row,   *)
(* allowed by the lifecycle from the status the row has at that step, which    *)
(* sets the suspension columns together with the status and leaves one audit   *)
(* row.  CompanyStatus is shown to implement it as long as no request commits  *)
(* over a version of the row it had not read.                                  *)
EXTENDS Sequences, CompanyLifecycle

CONSTANTS Requests, Admins, Reasons, Nil

VARIABLES row, audits

Entry(from, to, actor, reason) ==
    [action |-> AuditActionFor(from, to), previousStatus |-> from,
     newStatus |-> to, actor |-> actor, reason |-> reason]

Suspend(time, actor, reason) ==
    /\ ValidTransition(row.status, "SUSPENDED")
    /\ row' = [status |-> "SUSPENDED", suspendedAt |-> time,
               suspendedByUserId |-> actor, suspensionReason |-> reason]
    /\ audits' = Append(audits, Entry(row.status, "SUSPENDED", actor, reason))

Leave(to, actor, reason) ==
    /\ to # "SUSPENDED"
    /\ ValidTransition(row.status, to)
    /\ row' = [status |-> to, suspendedAt |-> Nil,
               suspendedByUserId |-> Nil, suspensionReason |-> Nil]
    /\ audits' = Append(audits, Entry(row.status, to, actor, reason))

Next ==
    \E actor \in Admins :
        \/ \E time \in Requests, reason \in Reasons : Suspend(time, actor, reason)
        \/ \E to \in Status, reason \in Reasons \cup {Nil} : Leave(to, actor, reason)
===============================================================================
