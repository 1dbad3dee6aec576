----------------------------- MODULE SharesService -----------------------------
(* The share ledger and the two handlers that write to it, issueShares and     *)
(* transferShares, run by any number of requests at once against PostgreSQL at *)
(* READ COMMITTED.                                                             *)
(*                                                                             *)
(* A request is one HTTP call.  Each statement it awaits is an action of its   *)
(* own; everything computed between two awaits belongs to the action before.   *)
(* The inserts of a transaction are invisible until its commit, so the insert  *)
(* of the ledger row, of the certificate and of the audit row are one action   *)
(* with the commit.                                                            *)
(*                                                                             *)
(* A ledger row is named by the request that inserted it: its columns are the  *)
(* request's arguments, and rows are never updated or deleted.  received, sent *)
(* and issued are what the SUM queries of the code return over the committed   *)
(* rows; LedgerMatchesTotals ties them to the rows.                            *)
EXTENDS Integers, CompanyLifecycle, Sums

CONSTANTS
    Companies, Shareholders, Requests,
    CompanyOf,          \* the company a shareholder is registered with
    AuthorizedCapital,  \* Company.authorizedCapital
    ParValue,           \* Company.parValue
    Calls,              \* the calls the clients may make
    CertNumbers,        \* the values CERT-${Date.now()} takes, one per millisecond
    Nil                 \* the absent shareholder, argument or certificate

CallType ==
    [op : {"issue", "transfer"}, company : Companies,
     from : Shareholders \cup {Nil}, to : Shareholders, shares : Nat \ {0}]

ASSUME CompanyOfAssumption == CompanyOf \in [Shareholders -> Companies]
\* A table has finitely many rows.
ASSUME ShareholdersAssumption == IsFiniteSet(Shareholders)
ASSUME CapitalAssumption ==
    /\ AuthorizedCapital \in [Companies -> Nat]
    /\ ParValue \in [Companies -> Nat \ {0}]
ASSUME CallsAssumption ==
    /\ Calls \subseteq CallType
    /\ \A a \in Calls : (a.op = "issue") <=> (a.from = Nil)
ASSUME NilAssumption ==
    Nil \notin Shareholders /\ Nil \notin CertNumbers /\ Nil \notin Calls

VARIABLES
    status,       \* Company.status
    rows,         \* the committed share_transactions, by the request that wrote each
    received,     \* SUM(shares) of the rows to a shareholder, per company
    sent,         \* SUM(shares) of the rows from a shareholder, per company
    issued,       \* SUM(shares) of the ISSUE rows of a company
    certificate,  \* the number of the share certificate of an ISSUE row
    audited,      \* the requests with a committed audit row
    pc,           \* the statement each request awaits
    arg,          \* its path parameter and its validated body
    scan,         \* the ledger rows its FOR UPDATE query matched
    held,         \* the row locks it has been granted
    seen,         \* the number it read: the issued total, then received, then balance
    overtaken     \* history: the ISSUE rows committed on a total that had changed

ledger == <<rows, received, sent, issued, certificate, audited>>
vars == <<status, ledger, pc, arg, scan, held, seen, overtaken>>

-------------------------------------------------------------------------------
Issuing  == {"findShareholder", "sumIssued", "insertIssue"}
Locked   == {"sumReceived", "sumSent", "insertTransfer"}
Transferring == {"scan", "lock"} \cup Locked
InFlight == Issuing \cup Transferring
Ended    == {"committed", "failed", "refused"}

Keys == Companies \X Shareholders

Init ==
    /\ status \in [Companies -> Status]
    /\ rows = {}
    /\ received = [k \in Keys |-> 0]
    /\ sent = [k \in Keys |-> 0]
    /\ issued = [c \in Companies |-> 0]
    /\ certificate = [r \in Requests |-> Nil]
    /\ audited = {}
    /\ pc = [r \in Requests |-> "start"]
    /\ arg = [r \in Requests |-> Nil]
    /\ scan = [r \in Requests |-> {}]
    /\ held = [r \in Requests |-> {}]
    /\ seen = [r \in Requests |-> 0]
    /\ overtaken = {}

Goto(r, label) == pc' = [pc EXCEPT ![r] = label]

\* Variant: the locks outlive the transaction.
ReleaseKeepsLocks(r) ==
    /\ seen' = [seen EXCEPT ![r] = 0]
    /\ UNCHANGED held

\* The transaction is over: its row locks go with it.
Release(r) ==
    /\ held' = [held EXCEPT ![r] = {}]
    /\ seen' = [seen EXCEPT ![r] = 0]

\* An exception rolls the transaction back and the handler's locals are gone.
Fail(r) ==
    /\ Goto(r, "failed")
    /\ Release(r)
    /\ arg' = [arg EXCEPT ![r] = Nil]
    /\ scan' = [scan EXCEPT ![r] = {}]
    /\ UNCHANGED <<status, ledger, overtaken>>

-------------------------------------------------------------------------------
\* Variant: the route has no CompanyActiveGuard.
CallWithoutGuard(r, a) ==
    /\ pc[r] = "start"
    /\ Goto(r, IF a.op = "issue" THEN "findShareholder" ELSE "scan")
    /\ arg' = [arg EXCEPT ![r] = a]
    /\ UNCHANGED <<status, ledger, scan, held, seen, overtaken>>

(* CompanyActiveGuard reads the status; the handler then starts and does not   *)
(* look at it again.                                                           *)
Call(r, a) ==
    /\ pc[r] = "start"
    /\ IF status[a.company] # "ACTIVE"
       THEN Goto(r, "refused") /\ UNCHANGED arg
       ELSE /\ Goto(r, IF a.op = "issue" THEN "findShareholder" ELSE "scan")
            /\ arg' = [arg EXCEPT ![r] = a]
    /\ UNCHANGED <<status, ledger, scan, held, seen, overtaken>>

-------------------------------------------------------------------------------
(* issueShares *)

FindShareholder(r) ==
    /\ pc[r] = "findShareholder"
    /\ IF CompanyOf[arg[r].to] # arg[r].company THEN Fail(r)
       ELSE /\ Goto(r, "sumIssued")
            /\ UNCHANGED <<status, ledger, arg, scan, held, seen, overtaken>>

\* newTotal > authorizedCapital / parValue, without the division.
ExceedsAuthorized(c, total) == total * ParValue[c] > AuthorizedCapital[c]

\* Variant: the new shares are left out of the total that is compared.
SumIssuedWithoutNew(r) ==
    LET c == arg[r].company IN
    /\ pc[r] = "sumIssued"
    /\ IF ExceedsAuthorized(c, issued[c]) THEN Fail(r)
       ELSE /\ seen' = [seen EXCEPT ![r] = issued[c]]
            /\ Goto(r, "insertIssue")
            /\ UNCHANGED <<status, ledger, arg, scan, held, overtaken>>

\* getTotalIssuedShares runs outside the transaction and locks nothing.
SumIssued(r) ==
    LET c == arg[r].company IN
    /\ pc[r] = "sumIssued"
    /\ IF ExceedsAuthorized(c, issued[c] + arg[r].shares) THEN Fail(r)
       ELSE /\ seen' = [seen EXCEPT ![r] = issued[c]]
            /\ Goto(r, "insertIssue")
            /\ UNCHANGED <<status, ledger, arg, scan, held, overtaken>>

CommitIssue(r, number) ==
    LET a == arg[r]
        k == <<a.company, a.to>>
    IN
    /\ pc[r] = "insertIssue"
    /\ \A q \in Requests : certificate[q] # number
    /\ rows' = rows \cup {r}
    /\ received' = [received EXCEPT ![k] = @ + a.shares]
    /\ issued' = [issued EXCEPT ![a.company] = @ + a.shares]
    /\ certificate' = [certificate EXCEPT ![r] = number]
    /\ audited' = audited \cup {r}
    /\ overtaken' = IF seen[r] = issued[a.company] THEN overtaken
                    ELSE overtaken \cup {r}
    /\ Goto(r, "committed")
    /\ Release(r)
    /\ UNCHANGED <<status, sent, arg, scan>>

\* Variant: the inserts do not share a transaction.
CertificateClashKeepsRow(r, number) ==
    LET a == arg[r] IN
    /\ pc[r] = "insertIssue"
    /\ \E q \in Requests : certificate[q] = number
    /\ rows' = rows \cup {r}
    /\ received' = [received EXCEPT ![<<a.company, a.to>>] = @ + a.shares]
    /\ issued' = [issued EXCEPT ![a.company] = @ + a.shares]
    /\ Goto(r, "failed")
    /\ Release(r)
    /\ UNCHANGED <<status, sent, certificate, audited, arg, scan, overtaken>>

\* certificateNumber is unique over all companies: an issue that draws the
\* millisecond of an earlier one is rolled back, its ledger row included.
CertificateClash(r, number) ==
    /\ pc[r] = "insertIssue"
    /\ \E q \in Requests : certificate[q] = number
    /\ Fail(r)

-------------------------------------------------------------------------------
(* transferShares *)

Sender(r) == <<arg[r].company, arg[r].from>>

\* Row q moves shares to or from the shareholder of key k, in its company.
Touches(q, k) ==
    /\ arg[q].company = k[1]
    /\ arg[q].to = k[2] \/ arg[q].from = k[2]

\* The FOR UPDATE query takes its snapshot: rows committed later are not in it.
ScanSenderRows(r) ==
    /\ pc[r] = "scan"
    /\ scan' = [scan EXCEPT ![r] = {q \in rows : Touches(q, Sender(r))}]
    /\ Goto(r, "lock")
    /\ UNCHANGED <<status, ledger, arg, held, seen, overtaken>>

\* Variant: a shared lock instead of FOR UPDATE.
LockRowShared(r, q) ==
    /\ pc[r] = "lock"
    /\ q \in scan[r] \ held[r]
    /\ held' = [held EXCEPT ![r] = @ \cup {q}]
    /\ UNCHANGED <<status, ledger, pc, arg, scan, seen, overtaken>>

\* It locks the rows of the snapshot one by one, in no stated order (the query
\* has no ORDER BY), and waits for a row that another transfer holds.
LockRow(r, q) ==
    /\ pc[r] = "lock"
    /\ q \in scan[r] \ held[r]
    /\ \A s \in Requests : q \notin held[s]
    /\ held' = [held EXCEPT ![r] = @ \cup {q}]
    /\ UNCHANGED <<status, ledger, pc, arg, scan, seen, overtaken>>

LocksGranted(r) ==
    /\ pc[r] = "lock"
    /\ scan[r] \subseteq held[r]
    /\ Goto(r, "sumReceived")
    /\ UNCHANGED <<status, ledger, arg, scan, held, seen, overtaken>>

\* PostgreSQL aborts a transaction of a cycle of waits.
InLockCycle(r) ==
    \E cycle \in SUBSET {s \in Requests : pc[s] = "lock" /\ scan[s] # held[s]} :
        /\ r \in cycle
        /\ \A s \in cycle :
              \A q \in scan[s] \ held[s] : \E t \in cycle \ {s} : q \in held[t]

DeadlockVictim(r) ==
    /\ pc[r] = "lock"
    /\ InLockCycle(r)
    /\ Fail(r)

SumReceived(r) ==
    /\ pc[r] = "sumReceived"
    /\ seen' = [seen EXCEPT ![r] = received[Sender(r)]]
    /\ Goto(r, "sumSent")
    /\ UNCHANGED <<status, ledger, arg, scan, held, overtaken>>

\* Variant: a balance one share short passes.
SumSentOffByOne(r) ==
    LET balance == seen[r] - sent[Sender(r)] IN
    /\ pc[r] = "sumSent"
    /\ IF balance + 1 < arg[r].shares THEN Fail(r)
       ELSE /\ seen' = [seen EXCEPT ![r] = balance]
            /\ Goto(r, "insertTransfer")
            /\ UNCHANGED <<status, ledger, arg, scan, held, overtaken>>

SumSent(r) ==
    LET balance == seen[r] - sent[Sender(r)] IN
    /\ pc[r] = "sumSent"
    /\ IF balance < arg[r].shares THEN Fail(r)
       ELSE /\ seen' = [seen EXCEPT ![r] = balance]
            /\ Goto(r, "insertTransfer")
            /\ UNCHANGED <<status, ledger, arg, scan, held, overtaken>>

\* Variant: the transfer is booked as a smaller receipt of its sender.
CommitTransferAsDebit(r) ==
    LET a == arg[r] IN
    /\ pc[r] = "insertTransfer"
    /\ rows' = rows \cup {r}
    /\ received' = [received EXCEPT ![Sender(r)] = @ - a.shares,
                                   ![<<a.company, a.to>>] = @ + a.shares]
    /\ audited' = audited \cup {r}
    /\ Goto(r, "committed")
    /\ Release(r)
    /\ UNCHANGED <<status, sent, issued, certificate, arg, scan, overtaken>>

\* Variant: the receiver's column is not set.
CommitTransferToNobody(r) ==
    LET a == arg[r] IN
    /\ pc[r] = "insertTransfer"
    /\ rows' = rows \cup {r}
    /\ sent' = [sent EXCEPT ![Sender(r)] = @ + a.shares]
    /\ audited' = audited \cup {r}
    /\ Goto(r, "committed")
    /\ Release(r)
    /\ UNCHANGED <<status, received, issued, certificate, arg, scan, overtaken>>

\* Variant: the receipt is booked in the company of the receiver.
CommitTransferAbroad(r) ==
    LET a == arg[r] IN
    /\ pc[r] = "insertTransfer"
    /\ rows' = rows \cup {r}
    /\ sent' = [sent EXCEPT ![Sender(r)] = @ + a.shares]
    /\ received' = [received EXCEPT ![<<CompanyOf[a.to], a.to>>] = @ + a.shares]
    /\ audited' = audited \cup {r}
    /\ Goto(r, "committed")
    /\ Release(r)
    /\ UNCHANGED <<status, issued, certificate, arg, scan, overtaken>>

\* The receiver is only a foreign key: no company is compared.
CommitTransfer(r) ==
    LET a == arg[r] IN
    /\ pc[r] = "insertTransfer"
    /\ rows' = rows \cup {r}
    /\ sent' = [sent EXCEPT ![Sender(r)] = @ + a.shares]
    /\ received' = [received EXCEPT ![<<a.company, a.to>>] = @ + a.shares]
    /\ audited' = audited \cup {r}
    /\ Goto(r, "committed")
    /\ Release(r)
    /\ UNCHANGED <<status, issued, certificate, arg, scan, overtaken>>

-------------------------------------------------------------------------------
\* Any statement may fail (a lost connection, a crash of the process): the
\* transaction rolls back and leaves nothing.
Abort(r) ==
    /\ pc[r] \in InFlight
    /\ Fail(r)

\* What CompanyStatus does to the row the guard reads.
ChangeStatus(c, to) ==
    /\ ValidTransition(status[c], to)
    /\ status' = [status EXCEPT ![c] = to]
    /\ UNCHANGED <<ledger, pc, arg, scan, held, seen, overtaken>>

\* The statements of one request.
Step(r) ==
    \/ FindShareholder(r)
    \/ SumIssued(r)
    \/ \E number \in CertNumbers : CommitIssue(r, number)
    \/ \E number \in CertNumbers : CertificateClash(r, number)
    \/ ScanSenderRows(r)
    \/ \E q \in rows : LockRow(r, q)
    \/ LocksGranted(r)
    \/ DeadlockVictim(r)
    \/ SumReceived(r)
    \/ SumSent(r)
    \/ CommitTransfer(r)

Next ==
    \/ \E r \in Requests :
          \/ \E a \in Calls : Call(r, a)
          \/ Step(r)
          \/ Abort(r)
    \/ \E c \in Companies, to \in Status : ChangeStatus(c, to)

Spec == Init /\ [][Next]_vars

\* Node keeps running a handler whose awaited statement has answered, PostgreSQL
\* answers every statement that is not blocked, grants a freed lock, and breaks
\* a cycle of waits.  Nothing obliges clients to call or statements to fail.
Fairness == \A r \in Requests : WF_vars(Step(r))
FairSpec == Spec /\ Fairness

-------------------------------------------------------------------------------
(* Properties *)

\* The type invariant.
TypeOK ==
    /\ status \in [Companies -> Status]
    /\ rows \in SUBSET Requests
    /\ received \in [Keys -> Nat]
    /\ sent \in [Keys -> Nat]
    /\ issued \in [Companies -> Nat]
    /\ certificate \in [Requests -> CertNumbers \cup {Nil}]
    /\ audited \in SUBSET Requests
    /\ pc \in [Requests -> {"start"} \cup InFlight \cup Ended]
    /\ arg \in [Requests -> Calls \cup {Nil}]
    /\ scan \in [Requests -> SUBSET Requests]
    /\ held \in [Requests -> SUBSET Requests]
    /\ seen \in [Requests -> Int]
    /\ overtaken \in SUBSET Requests

Balance(k) == received[k] - sent[k]

\* Two transfers of the same shareholder in the same company.
SameSender(r, s) == r # s /\ Sender(r) = Sender(s)

\* What the comment above the FOR UPDATE query says the locks are for: no two
\* transfers of one sender are past their locks at the same time, provided each
\* of them found a row to lock.
SendersExclude ==
    \A r, s \in Requests :
        pc[r] \in Locked /\ pc[s] \in Locked /\ SameSender(r, s)
            => scan[r] = {} \/ scan[s] = {}

\* A committed transfer that had found no row of its sender to lock.
Unguarded(r) == r \in rows /\ arg[r].op = "transfer" /\ scan[r] = {}

\* No double spend (docs/architecture.md, "concurrent transfers cannot both pass
\* validation"): no shareholder has sent more than it received in a company.
NoDoubleSpend == \A k \in Keys : Balance(k) >= 0

\* The part of it the locks do give: a balance can only be negative after a
\* transfer that locked nothing.
GuardedNoDoubleSpend == (\E r \in Requests : Unguarded(r)) \/ NoDoubleSpend

\* Authorized capital is enforced: a company has not issued more than its
\* authorized capital divided by its par value.
WithinAuthorized ==
    \A c \in Companies : ~ExceedsAuthorized(c, issued[c])

\* The part of it the check does give: the limit can only be exceeded after an
\* issue that committed on a total another issue had changed meanwhile.
SerialWithinAuthorized == overtaken # {} \/ WithinAuthorized

\* Every movement is one atomic, checked step of ShareLedger, until a movement
\* commits on a check that nothing protected: the code's two handlers implement
\* the ledger they promise except for the two races above.
SL == INSTANCE ShareLedger WITH Amounts <- {a.shares : a \in Calls}

Lapsed == overtaken # {} \/ \E r \in Requests : Unguarded(r)

ImplementsShareLedger ==
    [][Lapsed' \/ SL!Next]_<<received, sent, issued>>

\* Every committed movement has its audit row, every issue a certificate with a
\* number of its own, and a request that did not commit left none of the three.
Documented ==
    /\ audited = rows
    /\ \A r \in Requests :
          /\ (r \in rows) <=> (pc[r] = "committed")
          /\ (certificate[r] # Nil) <=> (r \in rows /\ arg[r].op = "issue")
    /\ \A r, s \in rows : certificate[r] = certificate[s] /\ r # s
          => certificate[r] = Nil

\* The shares of the committed rows, and the rows that move shares to and from an
\* account or into a company.
ShareCount == [r \in rows |-> arg[r].shares]
RowsTo(k) == {r \in rows : arg[r].company = k[1] /\ arg[r].to = k[2]}
RowsFrom(k) == {r \in rows : arg[r].company = k[1] /\ arg[r].from = k[2]}
RowsIssued(c) == {r \in rows : arg[r].company = c /\ arg[r].op = "issue"}

\* A total of all the accounts of a company.
OverHolders(total, c) == Total([h \in Shareholders |-> total[<<c, h>>]], Shareholders)

\* The totals the SUM queries return are those of the committed rows, and
\* transfers neither create nor destroy shares: the balances of a company's
\* ledger add up to what it has issued.
LedgerMatchesTotals ==
    /\ \A k \in Keys : /\ received[k] = Total(ShareCount, RowsTo(k))
                      /\ sent[k] = Total(ShareCount, RowsFrom(k))
    /\ \A c \in Companies :
          /\ issued[c] = Total(ShareCount, RowsIssued(c))
          /\ issued[c] + OverHolders(sent, c) = OverHolders(received, c)

\* What the guard gives: a company that is not active and has no admitted request
\* left admits none, and its ledger does not change.  (A request admitted before
\* the suspension may still commit after it.)
Admitted(c) == \E r \in Requests : pc[r] \in InFlight /\ arg[r].company = c
FrozenWhenDrained ==
    [][\A c \in Companies : status[c] # "ACTIVE" /\ ~Admitted(c)
          => /\ ~Admitted(c)'
             /\ issued'[c] = issued[c]
             /\ \A h \in Shareholders :
                   /\ received'[<<c, h>>] = received[<<c, h>>]
                   /\ sent'[<<c, h>>] = sent[<<c, h>>]]_vars

\* A call that passed the guard ends, whatever the locks the others hold.
EveryCallEnds ==
    \A r \in Requests : pc[r] \in InFlight ~> pc[r] \in Ended

===============================================================================
