-------------------------- MODULE SharesServiceProofs --------------------------
(* Proofs about SharesService, for any set of companies, shareholders, calls   *)
(* and requests.                                                               *)
EXTENDS SharesService, SumsProofs

(* The part of the inductive invariant about the request's own state: which    *)
(* call a request at each statement is making, and that the committed rows are *)
(* those of the committed requests.                                            *)
ArgOK ==
    \A r \in Requests :
        /\ pc[r] \in InFlight \cup {"committed"} => arg[r] \in Calls
        /\ pc[r] \in Issuing => arg[r].op = "issue"
        /\ pc[r] \in Transferring => arg[r].op = "transfer"
RowsOK == rows = {r \in Requests : pc[r] = "committed"}

LocalInv == TypeOK /\ ArgOK /\ RowsOK

\* A call has a key of its own for each of its two ends.
LEMMA CallKeys ==
    ASSUME NEW a \in Calls
    PROVE  /\ a.company \in Companies /\ a.to \in Shareholders
           /\ a.shares \in Nat \ {0}
           /\ <<a.company, a.to>> \in Keys
           /\ a.op = "transfer" => <<a.company, a.from>> \in Keys
           /\ a.op \in {"issue", "transfer"}
<1>1. /\ a.op \in {"issue", "transfer"} /\ a.company \in Companies
      /\ a.from \in Shareholders \cup {Nil}
      /\ a.to \in Shareholders /\ a.shares \in Nat \ {0}
  BY CallsAssumption DEF CallType
<1>2. a.op = "transfer" => a.from \in Shareholders
  BY <1>1, CallsAssumption
<1> QED
  BY <1>1, <1>2 DEF Keys

\* The sender of a transfer under way has an account in the company.
LEMMA SenderKey ==
    ASSUME LocalInv, NEW r \in Requests, pc[r] \in Transferring
    PROVE  /\ arg[r] \in Calls /\ arg[r].shares \in Nat \ {0}
           /\ Sender(r) \in Keys
           /\ <<arg[r].company, arg[r].to>> \in Keys
           /\ received[Sender(r)] \in Nat /\ sent[Sender(r)] \in Nat
           /\ seen[r] \in Int
<1>1. arg[r] \in Calls /\ arg[r].op = "transfer"
  BY DEF LocalInv, ArgOK, InFlight
<1>2. Sender(r) \in Keys
  BY <1>1, CallKeys DEF Sender
<1> QED
  BY <1>1, <1>2, CallKeys DEF LocalInv, TypeOK

\* Every request is at its beginning when nothing has run.
LEMMA LocalInit == Init => LocalInv
<1> SUFFICES ASSUME Init PROVE LocalInv
  OBVIOUS
<1> USE DEF Init
<1>1. TypeOK
  BY DEF TypeOK, InFlight, Ended, Issuing, Transferring, Locked
<1>2. ArgOK
  BY DEF ArgOK, InFlight, Issuing, Transferring, Locked
<1>3. RowsOK
  BY DEF RowsOK
<1> QED
  BY <1>1, <1>2, <1>3 DEF LocalInv

\* Each statement leaves what a request remembers consistent with its stage.
LEMMA LocalStep == LocalInv /\ [Next]_vars => LocalInv'
<1> SUFFICES ASSUME LocalInv, [Next]_vars PROVE LocalInv'
  OBVIOUS
<1> USE DEF LocalInv, InFlight, Ended, Issuing, Transferring, Locked, ledger
<1>1. ASSUME NEW r \in Requests, NEW a \in Calls, Call(r, a) PROVE LocalInv'
  <2>1. TypeOK'
    BY <1>1, CallKeys DEF Call, Goto, TypeOK
  <2>2. ArgOK'
    <3>1. a.op = "issue" \/ a.op = "transfer"
      BY CallKeys
    <3>2. \A q \in Requests \ {r} : pc'[q] = pc[q] /\ arg'[q] = arg[q]
      BY <1>1 DEF Call, Goto, TypeOK
    <3>3. \/ pc'[r] = "refused"
          \/ pc'[r] = "findShareholder" /\ arg'[r] = a /\ a.op = "issue"
          \/ pc'[r] = "scan" /\ arg'[r] = a /\ a.op = "transfer"
      BY <1>1, <3>1 DEF Call, Goto, TypeOK
    <3> QED
      BY <3>2, <3>3 DEF ArgOK
  <2>3. RowsOK'
    BY <1>1 DEF Call, Goto, RowsOK, TypeOK
  <2> QED
    BY <2>1, <2>2, <2>3
<1>2. ASSUME NEW r \in Requests, pc[r] \in InFlight, Fail(r) PROVE LocalInv'
  <2>1. TypeOK'
    BY <1>2 DEF Fail, Goto, Release, TypeOK
  <2>2. ArgOK'
    BY <1>2 DEF Fail, Goto, ArgOK, TypeOK
  <2>3. RowsOK'
    BY <1>2 DEF Fail, Goto, RowsOK, TypeOK
  <2> QED
    BY <2>1, <2>2, <2>3
<1>3. ASSUME NEW r \in Requests, FindShareholder(r) PROVE LocalInv'
  <2>1. CASE CompanyOf[arg[r].to] # arg[r].company
    BY <1>2, <1>3, <2>1 DEF FindShareholder
  <2>2. CASE CompanyOf[arg[r].to] = arg[r].company
    <3>1. TypeOK'
      BY <1>3, <2>2 DEF FindShareholder, Goto, TypeOK
    <3>2. ArgOK' /\ RowsOK'
      BY <1>3, <2>2 DEF FindShareholder, Goto, TypeOK, ArgOK, RowsOK
    <3> QED
      BY <3>1, <3>2
  <2> QED
    BY <2>1, <2>2
<1>4. ASSUME NEW r \in Requests, SumIssued(r) PROVE LocalInv'
  <2>1. CASE ExceedsAuthorized(arg[r].company, issued[arg[r].company] + arg[r].shares)
    BY <1>2, <1>4, <2>1 DEF SumIssued
  <2>2. CASE ~ExceedsAuthorized(arg[r].company, issued[arg[r].company] + arg[r].shares)
    <3>1. arg[r].company \in Companies
      BY <1>4, CallKeys DEF SumIssued, ArgOK
    <3>2. TypeOK'
      BY <1>4, <2>2, <3>1 DEF SumIssued, Goto, TypeOK
    <3>3. ArgOK' /\ RowsOK'
      BY <1>4, <2>2 DEF SumIssued, Goto, TypeOK, ArgOK, RowsOK
    <3> QED
      BY <3>2, <3>3
  <2> QED
    BY <2>1, <2>2
<1>5. ASSUME NEW r \in Requests, NEW number \in CertNumbers, CommitIssue(r, number) PROVE LocalInv'
  <2>1. TypeOK'
    <3>1. /\ arg[r].company \in Companies /\ arg[r].shares \in Nat
          /\ <<arg[r].company, arg[r].to>> \in Keys
      BY <1>5, CallKeys DEF CommitIssue, ArgOK
    <3>2. received' \in [Keys -> Nat] /\ issued' \in [Companies -> Nat]
      BY <1>5, <3>1 DEF CommitIssue, TypeOK
    <3> QED
      BY <1>5, <3>2 DEF CommitIssue, Goto, Release, TypeOK
  <2>2. ArgOK'
    BY <1>5 DEF CommitIssue, Goto, Release, ArgOK, TypeOK
  <2>3. RowsOK'
    BY <1>5 DEF CommitIssue, Goto, Release, RowsOK, TypeOK
  <2> QED
    BY <2>1, <2>2, <2>3
<1>6. ASSUME NEW r \in Requests, NEW number \in CertNumbers, CertificateClash(r, number)
      PROVE  LocalInv'
  BY <1>2, <1>6 DEF CertificateClash
<1>7. ASSUME NEW r \in Requests, ScanSenderRows(r) PROVE LocalInv'
  <2>1. TypeOK'
    BY <1>7 DEF ScanSenderRows, Goto, TypeOK
  <2>2. ArgOK'
    BY <1>7 DEF ScanSenderRows, Goto, ArgOK, TypeOK
  <2>3. RowsOK'
    BY <1>7 DEF ScanSenderRows, Goto, RowsOK, TypeOK
  <2> QED
    BY <2>1, <2>2, <2>3
<1>8. ASSUME NEW r \in Requests, NEW q \in rows, LockRow(r, q) PROVE LocalInv'
  <2>1. TypeOK'
    BY <1>8 DEF LockRow, TypeOK
  <2>2. ArgOK'
    BY <1>8 DEF LockRow, ArgOK, TypeOK
  <2>3. RowsOK'
    BY <1>8 DEF LockRow, RowsOK, TypeOK
  <2> QED
    BY <2>1, <2>2, <2>3
<1>9. ASSUME NEW r \in Requests, LocksGranted(r) PROVE LocalInv'
  <2>1. TypeOK'
    BY <1>9 DEF LocksGranted, Goto, TypeOK
  <2>2. ArgOK'
    BY <1>9 DEF LocksGranted, Goto, ArgOK, TypeOK
  <2>3. RowsOK'
    BY <1>9 DEF LocksGranted, Goto, RowsOK, TypeOK
  <2> QED
    BY <2>1, <2>2, <2>3
<1>10. ASSUME NEW r \in Requests, DeadlockVictim(r) PROVE LocalInv'
  BY <1>2, <1>10 DEF DeadlockVictim
<1>11. ASSUME NEW r \in Requests, SumReceived(r) PROVE LocalInv'
  <2>1. TypeOK'
    <3>1. pc[r] \in Transferring
      BY <1>11 DEF SumReceived
    <3>2. received[Sender(r)] \in Nat
      BY <3>1, SenderKey
    <3> QED
      BY <1>11, <3>2 DEF SumReceived, Goto, TypeOK
  <2>2. ArgOK'
    BY <1>11 DEF SumReceived, Goto, ArgOK, TypeOK
  <2>3. RowsOK'
    BY <1>11 DEF SumReceived, Goto, RowsOK, TypeOK
  <2> QED
    BY <2>1, <2>2, <2>3
<1>12. ASSUME NEW r \in Requests, SumSent(r) PROVE LocalInv'
  <2> DEFINE balance == seen[r] - sent[Sender(r)]
  <2>1. CASE balance < arg[r].shares
    BY <1>2, <1>12, <2>1 DEF SumSent
  <2>2. CASE ~(balance < arg[r].shares)
    <3>1. pc[r] \in Transferring
      BY <1>12 DEF SumSent
    <3>2. balance \in Int
      <4>1. seen[r] \in Int /\ sent[Sender(r)] \in Nat
        BY <3>1, SenderKey
      <4> QED
        BY <4>1
    <3>3. TypeOK'
      BY <1>12, <2>2, <3>2 DEF SumSent, Goto, TypeOK
    <3>4. ArgOK' /\ RowsOK'
      BY <1>12, <2>2 DEF SumSent, Goto, TypeOK, ArgOK, RowsOK
    <3> QED
      BY <3>3, <3>4
  <2> QED
    BY <2>1, <2>2
<1>13. ASSUME NEW r \in Requests, CommitTransfer(r) PROVE LocalInv'
  <2>1. TypeOK'
    <3>1. received' \in [Keys -> Nat] /\ sent' \in [Keys -> Nat]
      BY <1>13, SenderKey DEF CommitTransfer, TypeOK
    <3> QED
      BY <1>13, <3>1 DEF CommitTransfer, Goto, Release, TypeOK
  <2>2. ArgOK'
    BY <1>13 DEF CommitTransfer, Goto, Release, ArgOK, TypeOK
  <2>3. RowsOK'
    BY <1>13 DEF CommitTransfer, Goto, Release, RowsOK, TypeOK
  <2> QED
    BY <2>1, <2>2, <2>3
<1>14. ASSUME NEW r \in Requests, Abort(r) PROVE LocalInv'
  BY <1>2, <1>14 DEF Abort
<1>15. ASSUME NEW c \in Companies, NEW to \in Status, ChangeStatus(c, to) PROVE LocalInv'
  <2>1. TypeOK'
    BY <1>15 DEF ChangeStatus, TypeOK
  <2>2. ArgOK' /\ RowsOK'
    BY <1>15 DEF ChangeStatus, ArgOK, RowsOK
  <2> QED
    BY <2>1, <2>2
<1>16. CASE UNCHANGED vars
  BY <1>16 DEF vars, TypeOK, ArgOK, RowsOK
<1> QED
  BY <1>1, <1>3, <1>4, <1>5, <1>6, <1>7, <1>8, <1>9, <1>10, <1>11, <1>12, <1>13,
     <1>14, <1>15, <1>16 DEF Next, Step

\* Every variable keeps its type.
THEOREM TypeCorrect == Spec => []TypeOK
<1>1. Spec => []LocalInv
  BY LocalInit, LocalStep, PTL DEF Spec
<1>2. LocalInv => TypeOK
  BY DEF LocalInv
<1> QED
  BY <1>1, <1>2, PTL

-------------------------------------------------------------------------------
(* Row locks.  A transfer past its locks holds every row it matched; no row is *)
(* held twice; and what two transfers of one sender matched are two states of  *)
(* one growing set, so that if both matched something they matched a common    *)
(* row, which only one of them can hold.                                       *)
Scanned == {"lock"} \cup Locked

HoldOK ==
    \A r \in Requests :
        /\ held[r] \subseteq scan[r]
        /\ pc[r] \notin Scanned => held[r] = {}
        /\ pc[r] \in Locked => held[r] = scan[r]
LockExclusive ==
    \A r, s \in Requests : r # s => held[r] \cap held[s] = {}
ScanOK ==
    /\ \A r \in Requests :
          pc[r] \in Scanned => scan[r] \subseteq {q \in rows : Touches(q, Sender(r))}
    /\ \A r, s \in Requests :
          pc[r] \in Scanned /\ pc[s] \in Scanned /\ Sender(r) = Sender(s)
              => scan[r] \subseteq scan[s] \/ scan[s] \subseteq scan[r]

LockInv == HoldOK /\ LockExclusive /\ ScanOK

\* At first nobody holds, or waits for, a lock.
LEMMA LockInit == Init => LockInv
<1> SUFFICES ASSUME Init PROVE LockInv
  OBVIOUS
<1> QED
  BY DEF Init, LockInv, HoldOK, LockExclusive, ScanOK, Scanned, Locked

\* Each statement keeps the row locks exclusive: a lock is granted to one
\* transaction, and kept to its end.
LEMMA LockStep == LocalInv /\ LockInv /\ [Next]_vars => LockInv'
<1> SUFFICES ASSUME LocalInv, LockInv, [Next]_vars PROVE LockInv'
  OBVIOUS
<1> USE DEF LockInv, LocalInv, Scanned, Locked, ledger, TypeOK
\* The rows a scan can see are those of committed requests, whose arguments
\* no longer change.
<1>0. \A q \in rows : q \in Requests /\ pc[q] = "committed"
  BY DEF RowsOK
<1>1. ASSUME NEW r \in Requests, NEW a \in Calls, Call(r, a) PROVE LockInv'
  <2>1. HoldOK' /\ LockExclusive'
    BY <1>1 DEF Call, Goto, HoldOK, LockExclusive
  <2>2. ScanOK'
    BY <1>1, <1>0 DEF Call, Goto, ScanOK, Touches, Sender
  <2> QED
    BY <2>1, <2>2
<1>2. ASSUME NEW r \in Requests, pc[r] \in InFlight, Fail(r) PROVE LockInv'
  <2>1. HoldOK' /\ LockExclusive'
    BY <1>2 DEF Fail, Goto, Release, InFlight, Issuing, Transferring, HoldOK, LockExclusive
  <2>2. ScanOK'
    BY <1>2, <1>0 DEF Fail, Goto, Release, InFlight, Issuing, Transferring, ScanOK, Touches, Sender
  <2> QED
    BY <2>1, <2>2
<1>3. ASSUME NEW r \in Requests, FindShareholder(r) PROVE LockInv'
  <2>1. CASE Fail(r)
    BY <1>2, <1>3, <2>1 DEF FindShareholder, InFlight, Issuing, Transferring
  <2>2. CASE ~Fail(r)
    <3>1. HoldOK' /\ LockExclusive'
      BY <1>3, <2>2 DEF FindShareholder, Goto, HoldOK, LockExclusive
    <3>2. ScanOK'
      BY <1>3, <2>2, <1>0 DEF FindShareholder, Goto, ScanOK, Touches, Sender
    <3> QED
      BY <3>1, <3>2
  <2> QED
    BY <2>1, <2>2
<1>4. ASSUME NEW r \in Requests, SumIssued(r) PROVE LockInv'
  <2>1. CASE Fail(r)
    BY <1>2, <1>4, <2>1 DEF SumIssued, InFlight, Issuing, Transferring
  <2>2. CASE ~Fail(r)
    <3>1. HoldOK' /\ LockExclusive'
      BY <1>4, <2>2 DEF SumIssued, Goto, HoldOK, LockExclusive
    <3>2. ScanOK'
      BY <1>4, <2>2, <1>0 DEF SumIssued, Goto, ScanOK, Touches, Sender
    <3> QED
      BY <3>1, <3>2
  <2> QED
    BY <2>1, <2>2
<1>5. ASSUME NEW r \in Requests, NEW number \in CertNumbers, CommitIssue(r, number) PROVE LockInv'
  <2>1. HoldOK' /\ LockExclusive'
    BY <1>5 DEF CommitIssue, Goto, Release, HoldOK, LockExclusive
  <2>2. ScanOK'
    <3>1. /\ rows \subseteq rows' /\ arg' = arg /\ scan' = scan
          /\ \A s \in Requests : pc'[s] \in Scanned => pc[s] \in Scanned
      BY <1>5 DEF CommitIssue, Goto
    <3> QED
      BY <3>1 DEF ScanOK, Touches, Sender
  <2> QED
    BY <2>1, <2>2
<1>6. ASSUME NEW r \in Requests, NEW number \in CertNumbers, CertificateClash(r, number)
      PROVE  LockInv'
  BY <1>2, <1>6 DEF CertificateClash, InFlight, Issuing
<1>7. ASSUME NEW r \in Requests, ScanSenderRows(r) PROVE LockInv'
  <2>1. HoldOK' /\ LockExclusive'
    BY <1>7 DEF ScanSenderRows, Goto, HoldOK, LockExclusive
  <2>2. ScanOK'
    BY <1>7, <1>0 DEF ScanSenderRows, Goto, ScanOK, Touches, Sender
  <2> QED
    BY <2>1, <2>2
<1>8. ASSUME NEW r \in Requests, NEW q \in rows, LockRow(r, q) PROVE LockInv'
  <2>1. HoldOK' /\ LockExclusive'
    BY <1>8 DEF LockRow, HoldOK, LockExclusive
  <2>2. ScanOK'
    BY <1>8, <1>0 DEF LockRow, ScanOK, Touches, Sender
  <2> QED
    BY <2>1, <2>2
<1>9. ASSUME NEW r \in Requests, LocksGranted(r) PROVE LockInv'
  <2>1. HoldOK' /\ LockExclusive'
    BY <1>9 DEF LocksGranted, Goto, HoldOK, LockExclusive
  <2>2. ScanOK'
    BY <1>9, <1>0 DEF LocksGranted, Goto, ScanOK, Touches, Sender
  <2> QED
    BY <2>1, <2>2
<1>10. ASSUME NEW r \in Requests, DeadlockVictim(r) PROVE LockInv'
  BY <1>2, <1>10 DEF DeadlockVictim, InFlight, Transferring
<1>11. ASSUME NEW r \in Requests, SumReceived(r) PROVE LockInv'
  <2>1. HoldOK' /\ LockExclusive'
    BY <1>11 DEF SumReceived, Goto, HoldOK, LockExclusive
  <2>2. ScanOK'
    BY <1>11, <1>0 DEF SumReceived, Goto, ScanOK, Touches, Sender
  <2> QED
    BY <2>1, <2>2
<1>12. ASSUME NEW r \in Requests, SumSent(r) PROVE LockInv'
  <2>1. CASE Fail(r)
    BY <1>2, <1>12, <2>1 DEF SumSent, InFlight, Issuing, Transferring
  <2>2. CASE ~Fail(r)
    <3>1. HoldOK' /\ LockExclusive'
      BY <1>12, <2>2 DEF SumSent, Goto, HoldOK, LockExclusive
    <3>2. ScanOK'
      BY <1>12, <2>2, <1>0 DEF SumSent, Goto, ScanOK, Touches, Sender
    <3> QED
      BY <3>1, <3>2
  <2> QED
    BY <2>1, <2>2
<1>13. ASSUME NEW r \in Requests, CommitTransfer(r) PROVE LockInv'
  <2>1. HoldOK' /\ LockExclusive'
    BY <1>13 DEF CommitTransfer, Goto, Release, HoldOK, LockExclusive
  <2>2. ScanOK'
    <3>1. /\ rows \subseteq rows' /\ arg' = arg /\ scan' = scan
          /\ \A s \in Requests : pc'[s] \in Scanned => pc[s] \in Scanned
      BY <1>13 DEF CommitTransfer, Goto
    <3> QED
      BY <3>1 DEF ScanOK, Touches, Sender
  <2> QED
    BY <2>1, <2>2
<1>14. ASSUME NEW r \in Requests, Abort(r) PROVE LockInv'
  BY <1>2, <1>14 DEF Abort
<1>15. ASSUME NEW c \in Companies, NEW to \in Status, ChangeStatus(c, to) PROVE LockInv'
  BY <1>15 DEF ChangeStatus, HoldOK, LockExclusive, ScanOK, Touches, Sender
<1>16. CASE UNCHANGED vars
  BY <1>16 DEF vars, HoldOK, LockExclusive, ScanOK, Touches, Sender
<1> QED
  BY <1>1, <1>3, <1>4, <1>5, <1>6, <1>7, <1>8, <1>9, <1>10, <1>11, <1>12, <1>13,
     <1>14, <1>15, <1>16 DEF Next, Step

\* Two transfers of one sender are never both past their locks, unless one of
\* them found nothing to lock.
THEOREM LocksExclude == Spec => []SendersExclude
<1>1. Spec => [](LocalInv /\ LockInv)
  BY LocalInit, LocalStep, LockInit, LockStep, PTL DEF Spec
<1>2. LockInv => SendersExclude
  BY DEF LockInv, HoldOK, LockExclusive, ScanOK, SendersExclude, SameSender, Scanned
<1> QED
  BY <1>1, <1>2, PTL

-------------------------------------------------------------------------------
(* Balances.  The received total a transfer read is a lower bound, since a     *)
(* total only grows; its sent total is exact while it holds its locks, since   *)
(* only a transfer of the same sender could change it.  So the balance it      *)
(* checked is still there when it commits.                                     *)
HasUnguarded == \E r \in Requests : Unguarded(r)

ReceivedOK ==
    \A r \in Requests : pc[r] = "sumSent" => seen[r] <= received[Sender(r)]
CheckedOK ==
    \A r \in Requests :
        pc[r] = "insertTransfer" /\ scan[r] # {}
            => arg[r].shares <= seen[r] /\ seen[r] <= Balance(Sender(r))
Solvent == \A k \in Keys : sent[k] <= received[k]

BalanceInv == ReceivedOK /\ (HasUnguarded \/ (CheckedOK /\ Solvent))

\* A committed row stays, with its columns and with what its scan had matched.
LEMMA RowsStable ==
    ASSUME LocalInv, [Next]_vars
    PROVE  /\ rows \subseteq rows'
           /\ \A q \in rows : arg'[q] = arg[q] /\ scan'[q] = scan[q]
<1> USE DEF LocalInv, TypeOK, ledger, InFlight, Issuing, Transferring, Locked
<1>0. \A q \in rows : pc[q] = "committed"
  BY DEF RowsOK
<1> DEFINE Stable == /\ rows \subseteq rows'
                     /\ \A q \in rows : arg'[q] = arg[q] /\ scan'[q] = scan[q]
<1>1. ASSUME NEW r \in Requests, NEW a \in Calls, Call(r, a) PROVE Stable
  BY <1>0, <1>1 DEF Call
<1>2. ASSUME NEW r \in Requests, pc[r] \in InFlight, Fail(r) PROVE Stable
  BY <1>0, <1>2 DEF Fail
<1>3. ASSUME NEW r \in Requests, Step(r) PROVE Stable
  <2>1. pc[r] \in InFlight
    BY <1>3 DEF Step, FindShareholder, SumIssued, CommitIssue, CertificateClash,
       ScanSenderRows, LockRow, LocksGranted, DeadlockVictim, SumReceived, SumSent,
       CommitTransfer
  <2>2. Fail(r) \/ (rows \subseteq rows' /\ arg' = arg
                      /\ \A q \in Requests : q # r => scan'[q] = scan[q])
    BY <1>3 DEF Step, FindShareholder, SumIssued, CommitIssue, CertificateClash,
       ScanSenderRows, LockRow, LocksGranted, DeadlockVictim, SumReceived, SumSent,
       CommitTransfer
  <2> QED
    BY <1>0, <1>2, <2>1, <2>2
<1>4. ASSUME NEW r \in Requests, Abort(r) PROVE Stable
  BY <1>2, <1>4 DEF Abort
<1>5. ASSUME NEW c \in Companies, NEW to \in Status, ChangeStatus(c, to) PROVE Stable
  BY <1>5 DEF ChangeStatus
<1>6. CASE UNCHANGED vars
  BY <1>6 DEF vars
<1> QED
  BY <1>1, <1>3, <1>4, <1>5, <1>6 DEF Next

\* So a lapse of protection is not forgotten.
LEMMA UnguardedStable ==
    ASSUME LocalInv, [Next]_vars, HasUnguarded
    PROVE  HasUnguarded'
BY RowsStable DEF HasUnguarded, Unguarded, LocalInv, TypeOK

\* At first nobody has sent or received a share.
LEMMA BalanceInit == Init => BalanceInv
<1> SUFFICES ASSUME Init PROVE BalanceInv
  OBVIOUS
<1>1. Solvent /\ ReceivedOK /\ CheckedOK
  BY DEF Init, Solvent, ReceivedOK, CheckedOK
<1> QED
  BY <1>1 DEF BalanceInv

\* A step that leaves the totals alone, and lets no transfer past a check.
LEMMA BalanceQuiet ==
    ASSUME LocalInv, [Next]_vars, BalanceInv,
           received' = received, sent' = sent,
           \A s \in Requests : pc'[s] \in {"sumSent", "insertTransfer"}
               => /\ pc'[s] = pc[s] /\ arg'[s] = arg[s]
                  /\ scan'[s] = scan[s] /\ seen'[s] = seen[s]
    PROVE  BalanceInv'
<1>1. ReceivedOK'
  BY DEF BalanceInv, ReceivedOK, Sender
<1>2. CASE HasUnguarded
  BY <1>1, <1>2, UnguardedStable DEF BalanceInv
<1>3. CASE CheckedOK /\ Solvent
  <2>1. CheckedOK'
    BY <1>3 DEF CheckedOK, Balance, Sender
  <2>2. Solvent'
    BY <1>3 DEF Solvent
  <2> QED
    BY <1>1, <2>1, <2>2 DEF BalanceInv
<1> QED
  BY <1>2, <1>3 DEF BalanceInv

\* Each statement keeps what the balance checks rely on: a transfer that has its
\* locks is the only one that can lessen the balance it has read.
LEMMA BalanceStep == LocalInv /\ LockInv /\ BalanceInv /\ [Next]_vars => BalanceInv'
<1> SUFFICES ASSUME LocalInv, LockInv, BalanceInv, [Next]_vars PROVE BalanceInv'
  OBVIOUS
<1> USE DEF ledger
<1>0. /\ pc \in [Requests -> {"start"} \cup InFlight \cup Ended]
      /\ received \in [Keys -> Nat] /\ sent \in [Keys -> Nat]
      /\ seen \in [Requests -> Int] /\ scan \in [Requests -> SUBSET Requests]
      /\ arg \in [Requests -> Calls \cup {Nil}] /\ rows \in SUBSET Requests
  BY DEF LocalInv, TypeOK
<1>1. ASSUME NEW r \in Requests, NEW a \in Calls, Call(r, a) PROVE BalanceInv'
  BY <1>0, <1>1, BalanceQuiet DEF Call, Goto
<1>2. ASSUME NEW r \in Requests, Fail(r) PROVE BalanceInv'
  BY <1>0, <1>2, BalanceQuiet DEF Fail, Goto, Release
<1>3. ASSUME NEW r \in Requests, FindShareholder(r) \/ SumIssued(r) PROVE BalanceInv'
  BY <1>0, <1>2, <1>3, BalanceQuiet DEF FindShareholder, SumIssued, Goto
<1>4. ASSUME NEW r \in Requests, NEW number \in CertNumbers, CommitIssue(r, number)
      PROVE  BalanceInv'
  <2> DEFINE k == <<arg[r].company, arg[r].to>>
  <2>1. arg[r] \in Calls /\ k \in Keys /\ arg[r].shares \in Nat
    BY <1>4, CallKeys DEF CommitIssue, LocalInv, ArgOK, InFlight, Issuing
  <2>2. /\ received' = [received EXCEPT ![k] = @ + arg[r].shares]
        /\ sent' = sent /\ arg' = arg /\ scan' = scan
    BY <1>4 DEF CommitIssue
  <2>3. \A s \in Requests : pc'[s] \in {"sumSent", "insertTransfer"}
           => pc'[s] = pc[s] /\ seen'[s] = seen[s]
    BY <1>0, <1>4 DEF CommitIssue, Goto, Release
  <2>4. \A key \in Keys : received[key] <= received'[key]
    BY <1>0, <2>1, <2>2
  <2> QED
    <3>1. ReceivedOK'
      <4> SUFFICES ASSUME NEW s \in Requests, pc'[s] = "sumSent"
                   PROVE  seen'[s] <= received'[Sender(s)']
        BY DEF ReceivedOK
      <4>1. pc[s] = "sumSent" /\ seen'[s] = seen[s] /\ Sender(s)' = Sender(s)
        BY <2>2, <2>3 DEF Sender
      <4>2. Sender(s) \in Keys /\ seen[s] \in Int
        BY <4>1, SenderKey DEF Transferring, Locked
      <4>3. seen[s] <= received[Sender(s)]
        BY <4>1 DEF BalanceInv, ReceivedOK
      <4>4. received[Sender(s)] \in Nat /\ received'[Sender(s)] \in Nat
            /\ received[Sender(s)] <= received'[Sender(s)]
        BY <1>0, <2>1, <2>2, <2>4, <4>2
      <4> QED
        BY <4>1, <4>2, <4>3, <4>4
    <3>2. CASE HasUnguarded
      BY <3>1, <3>2, UnguardedStable DEF BalanceInv
    <3>3. CASE CheckedOK /\ Solvent
      <4>1. ASSUME NEW s \in Requests, pc'[s] = "insertTransfer", scan'[s] # {}
            PROVE  arg'[s].shares <= seen'[s] /\ seen'[s] <= Balance(Sender(s))'
        <5>1. /\ pc[s] = "insertTransfer" /\ seen'[s] = seen[s] /\ scan[s] # {}
              /\ arg'[s] = arg[s] /\ Sender(s)' = Sender(s)
          BY <2>2, <2>3, <4>1 DEF Sender
        <5>2. /\ Sender(s) \in Keys /\ seen[s] \in Int
              /\ sent[Sender(s)] \in Nat /\ received[Sender(s)] \in Nat
          BY <5>1, SenderKey DEF Transferring, Locked
        <5>3. arg[s].shares <= seen[s] /\ seen[s] <= received[Sender(s)] - sent[Sender(s)]
          BY <3>3, <5>1 DEF CheckedOK, Balance
        <5>4. received'[Sender(s)] \in Nat
              /\ received[Sender(s)] <= received'[Sender(s)]
          BY <1>0, <2>1, <2>2, <2>4, <5>2
        <5>5. Balance(Sender(s))' = received'[Sender(s)] - sent[Sender(s)]
          BY <2>2, <5>1 DEF Balance
        <5> QED
          BY <5>1, <5>2, <5>3, <5>4, <5>5
      <4>2. Solvent'
        <5> SUFFICES ASSUME NEW key \in Keys PROVE sent'[key] <= received'[key]
          BY DEF Solvent
        <5>1. sent[key] <= received[key] /\ received[key] <= received'[key]
          BY <2>4, <3>3 DEF Solvent
        <5>2. sent[key] \in Nat /\ received[key] \in Nat /\ received'[key] \in Nat
          BY <1>0, <2>1, <2>2
        <5> QED
          BY <2>2, <5>1, <5>2
      <4> QED
        BY <3>1, <4>1, <4>2 DEF BalanceInv, CheckedOK
    <3> QED
      BY <3>2, <3>3 DEF BalanceInv
<1>5. ASSUME NEW r \in Requests, NEW number \in CertNumbers, CertificateClash(r, number)
      PROVE  BalanceInv'
  BY <1>2, <1>5 DEF CertificateClash
<1>6. ASSUME NEW r \in Requests,
             ScanSenderRows(r) \/ LocksGranted(r) \/ (\E q \in rows : LockRow(r, q))
      PROVE  BalanceInv'
  BY <1>0, <1>6, BalanceQuiet DEF ScanSenderRows, LocksGranted, LockRow, Goto
<1>7. ASSUME NEW r \in Requests, DeadlockVictim(r) \/ Abort(r) PROVE BalanceInv'
  BY <1>2, <1>7 DEF DeadlockVictim, Abort
<1>8. ASSUME NEW r \in Requests, SumReceived(r) PROVE BalanceInv'
  <2>1. pc[r] \in Transferring /\ pc[r] = "sumReceived"
    BY <1>8 DEF SumReceived, Transferring, Locked
  <2>2. received[Sender(r)] \in Nat
    BY <2>1, SenderKey
  <2>3. /\ received' = received /\ sent' = sent /\ arg' = arg /\ scan' = scan
        /\ seen' = [seen EXCEPT ![r] = received[Sender(r)]]
        /\ pc' = [pc EXCEPT ![r] = "sumSent"]
    BY <1>8 DEF SumReceived, Goto
  <2>4. ReceivedOK'
    BY <1>0, <2>2, <2>3 DEF BalanceInv, ReceivedOK, Sender
  <2>5. CheckedOK => CheckedOK'
    BY <1>0, <2>3 DEF CheckedOK, Balance, Sender
  <2>6. Solvent => Solvent'
    BY <2>3 DEF Solvent
  <2> QED
    BY <2>4, <2>5, <2>6, UnguardedStable DEF BalanceInv
<1>9. ASSUME NEW r \in Requests, SumSent(r) PROVE BalanceInv'
  <2> DEFINE balance == seen[r] - sent[Sender(r)]
  <2>1. pc[r] \in Transferring /\ pc[r] = "sumSent"
    BY <1>9 DEF SumSent, Transferring, Locked
  <2>2. /\ received[Sender(r)] \in Nat /\ sent[Sender(r)] \in Nat
        /\ seen[r] \in Int /\ arg[r].shares \in Nat \ {0}
    BY <2>1, SenderKey
  <2>3. CASE balance < arg[r].shares
    BY <1>2, <1>9, <2>3 DEF SumSent
  <2>4. CASE ~(balance < arg[r].shares)
    <3>1. /\ received' = received /\ sent' = sent /\ arg' = arg /\ scan' = scan
          /\ seen' = [seen EXCEPT ![r] = balance]
          /\ pc' = [pc EXCEPT ![r] = "insertTransfer"]
      BY <1>9, <2>4 DEF SumSent, Goto
    <3>2. ReceivedOK'
      BY <1>0, <3>1 DEF BalanceInv, ReceivedOK, Sender
    <3>3. seen[r] <= received[Sender(r)]
      BY <2>1 DEF BalanceInv, ReceivedOK
    <3>4. arg[r].shares <= balance /\ balance <= received[Sender(r)] - sent[Sender(r)]
      BY <2>2, <2>4, <3>3
    <3>5. CheckedOK => CheckedOK'
      <4> SUFFICES ASSUME CheckedOK, NEW s \in Requests,
                          pc'[s] = "insertTransfer", scan'[s] # {}
                   PROVE  arg'[s].shares <= seen'[s] /\ seen'[s] <= Balance(Sender(s))'
        BY DEF CheckedOK
      <4>1. Balance(Sender(s))' = received[Sender(s)] - sent[Sender(s)]
        BY <3>1 DEF Balance, Sender
      <4>2. CASE s = r
        BY <1>0, <3>1, <3>4, <4>1, <4>2
      <4>3. CASE s # r
        BY <1>0, <3>1, <4>1, <4>3 DEF CheckedOK, Balance
      <4> QED
        BY <4>2, <4>3
    <3>6. Solvent => Solvent'
      BY <3>1 DEF Solvent
    <3> QED
      BY <3>2, <3>5, <3>6, UnguardedStable DEF BalanceInv
  <2> QED
    BY <2>3, <2>4
<1>10. ASSUME NEW r \in Requests, CommitTransfer(r) PROVE BalanceInv'
  <2> DEFINE k == <<arg[r].company, arg[r].to>>
             f == Sender(r)
             n == arg[r].shares
  <2>1. /\ pc[r] \in Transferring /\ pc[r] = "insertTransfer"
        /\ pc[r] \in Locked /\ pc[r] \in Scanned
    BY <1>10 DEF CommitTransfer, Transferring, Locked, Scanned
  <2>2. /\ f \in Keys /\ k \in Keys /\ n \in Nat /\ seen[r] \in Int
        /\ received[f] \in Nat /\ sent[f] \in Nat
    BY <2>1, SenderKey
  <2>3. /\ sent' = [sent EXCEPT ![f] = @ + n]
        /\ received' = [received EXCEPT ![k] = @ + n]
        /\ arg' = arg /\ scan' = scan /\ rows' = rows \cup {r}
    BY <1>10 DEF CommitTransfer
  <2>4. \A s \in Requests : pc'[s] \in {"sumSent", "insertTransfer"}
           => s # r /\ pc'[s] = pc[s] /\ seen'[s] = seen[s]
    BY <1>0, <1>10 DEF CommitTransfer, Goto, Release
  <2>5. \A key \in Keys : /\ received'[key] \in Nat /\ sent'[key] \in Nat
                           /\ received[key] \in Nat /\ sent[key] \in Nat
                           /\ received[key] <= received'[key]
    BY <1>0, <2>2, <2>3
  <2>6. ReceivedOK'
    <3> SUFFICES ASSUME NEW s \in Requests, pc'[s] = "sumSent"
                 PROVE  seen'[s] <= received'[Sender(s)']
      BY DEF ReceivedOK
    <3>1. pc[s] = "sumSent" /\ seen'[s] = seen[s] /\ Sender(s)' = Sender(s)
      BY <2>3, <2>4 DEF Sender
    <3>2. Sender(s) \in Keys /\ seen[s] \in Int
      BY <3>1, SenderKey DEF Transferring, Locked
    <3>3. seen[s] <= received[Sender(s)]
      BY <3>1 DEF BalanceInv, ReceivedOK
    <3> QED
      BY <2>5, <3>1, <3>2, <3>3
  <2>7. CASE HasUnguarded
    BY <2>6, <2>7, UnguardedStable DEF BalanceInv
  \* A transfer that locked nothing is itself the lapse.
  <2>8. CASE scan[r] = {}
    <3>1. arg[r].op = "transfer"
      BY <2>1 DEF LocalInv, ArgOK
    <3>2. HasUnguarded'
      BY <2>3, <2>8, <3>1 DEF HasUnguarded, Unguarded
    <3> QED
      BY <2>6, <3>2 DEF BalanceInv
  <2>9. CASE CheckedOK /\ Solvent /\ scan[r] # {}
    <3>1. n <= received[f] - sent[f]
      <4>1. n <= seen[r] /\ seen[r] <= received[f] - sent[f]
        BY <2>1, <2>9 DEF CheckedOK, Balance
      <4> QED
        BY <2>2, <4>1
    <3>2. Solvent'
      <4> SUFFICES ASSUME NEW key \in Keys PROVE sent'[key] <= received'[key]
        BY DEF Solvent
      <4>1. CASE key = f
        <5>1. sent'[f] = sent[f] + n
          BY <1>0, <2>2, <2>3
        <5> QED
          BY <2>2, <2>5, <3>1, <4>1, <5>1
      <4>2. CASE key # f
        <5>1. sent'[key] = sent[key] /\ sent[key] <= received[key]
          BY <1>0, <2>3, <2>9, <4>2 DEF Solvent
        <5> QED
          BY <2>5, <5>1
      <4> QED
        BY <4>1, <4>2
    \* No other guarded transfer of this sender has checked its balance: it
    \* would hold a row that this one holds.
    <3>3. ASSUME NEW s \in Requests, pc'[s] = "insertTransfer", scan'[s] # {}
          PROVE  arg'[s].shares <= seen'[s] /\ seen'[s] <= Balance(Sender(s))'
      <4>1. /\ s # r /\ pc[s] = "insertTransfer" /\ seen'[s] = seen[s]
            /\ scan[s] # {} /\ arg'[s] = arg[s] /\ Sender(s)' = Sender(s)
        BY <2>3, <2>4, <3>3 DEF Sender
      <4>2. Sender(s) # f
        <5>1. pc[s] \in Locked /\ pc[s] \in Scanned
          BY <4>1 DEF Locked, Scanned
        <5>2. held[r] = scan[r] /\ held[s] = scan[s] /\ held[r] \cap held[s] = {}
          BY <2>1, <4>1, <5>1 DEF LockInv, HoldOK, LockExclusive
        <5> QED
          BY <2>1, <2>9, <4>1, <5>1, <5>2 DEF LockInv, ScanOK
      <4>3. Sender(s) \in Keys /\ seen[s] \in Int
        BY <4>1, SenderKey DEF Transferring, Locked
      <4>4. arg[s].shares <= seen[s] /\ seen[s] <= received[Sender(s)] - sent[Sender(s)]
        BY <2>9, <4>1 DEF CheckedOK, Balance
      <4>5. sent'[Sender(s)] = sent[Sender(s)]
        BY <1>0, <2>3, <4>2, <4>3
      <4>6. Balance(Sender(s))' = received'[Sender(s)] - sent'[Sender(s)]
        BY <4>1 DEF Balance
      <4> QED
        BY <2>5, <4>1, <4>3, <4>4, <4>5, <4>6
    <3> QED
      BY <2>6, <3>2, <3>3 DEF BalanceInv, CheckedOK
  <2> QED
    BY <2>7, <2>8, <2>9 DEF BalanceInv
<1>11. ASSUME NEW c \in Companies, NEW to \in Status, ChangeStatus(c, to)
       PROVE  BalanceInv'
  BY <1>0, <1>11, BalanceQuiet DEF ChangeStatus
<1>12. CASE UNCHANGED vars
  BY <1>0, <1>12, BalanceQuiet DEF vars
<1> QED
  BY <1>1, <1>3, <1>4, <1>5, <1>6, <1>7, <1>8, <1>9, <1>10, <1>11, <1>12
     DEF Next, Step

\* As long as every committed transfer had a row of its sender to lock, no
\* shareholder has sent more shares of a company than it received.
THEOREM GuardedTransfersSafe == Spec => []GuardedNoDoubleSpend
<1>1. Spec => [](LocalInv /\ LockInv /\ BalanceInv)
  BY LocalInit, LocalStep, LockInit, LockStep, BalanceInit, BalanceStep, PTL DEF Spec
<1>2. LocalInv /\ BalanceInv => GuardedNoDoubleSpend
  <2> SUFFICES ASSUME LocalInv, Solvent, NEW k \in Keys PROVE Balance(k) >= 0
    BY DEF BalanceInv, HasUnguarded, GuardedNoDoubleSpend, NoDoubleSpend
  <2>1. sent[k] <= received[k] /\ sent[k] \in Nat /\ received[k] \in Nat
    BY DEF Solvent, LocalInv, TypeOK
  <2> QED
    BY <2>1 DEF Balance
<1> QED
  BY <1>1, <1>2, PTL

-------------------------------------------------------------------------------
(* The authorized limit.  An issue about to commit was checked against the     *)
(* total it read; if that total is still the current one, the check stands.    *)
IssueOK ==
    \A r \in Requests :
        /\ pc[r] \in {"sumIssued", "insertIssue"}
              => CompanyOf[arg[r].to] = arg[r].company
        /\ pc[r] = "insertIssue"
              => ~ExceedsAuthorized(arg[r].company, seen[r] + arg[r].shares)

IssueInv == IssueOK /\ SerialWithinAuthorized

\* At first nothing is issued.
LEMMA IssueInit == Init => IssueInv
<1> SUFFICES ASSUME Init PROVE IssueInv
  OBVIOUS
<1>1. IssueOK
  BY DEF Init, IssueOK
<1>2. ASSUME NEW c \in Companies PROVE ~ExceedsAuthorized(c, issued[c])
  <2>1. issued[c] = 0 /\ AuthorizedCapital[c] \in Nat /\ ParValue[c] \in Nat
    BY CapitalAssumption DEF Init
  <2> QED
    BY <2>1 DEF ExceedsAuthorized
<1> QED
  BY <1>1, <1>2 DEF IssueInv, SerialWithinAuthorized, WithinAuthorized

\* A step that issues nothing and lets no issue past a check.
LEMMA IssueQuiet ==
    ASSUME IssueInv, issued' = issued, overtaken' = overtaken,
           \A s \in Requests : pc'[s] \in {"sumIssued", "insertIssue"}
               => pc'[s] = pc[s] /\ arg'[s] = arg[s] /\ seen'[s] = seen[s]
    PROVE  IssueInv'
<1>1. IssueOK'
  BY DEF IssueInv, IssueOK
<1>2. SerialWithinAuthorized'
  BY DEF IssueInv, SerialWithinAuthorized, WithinAuthorized, ExceedsAuthorized
<1> QED
  BY <1>1, <1>2 DEF IssueInv

\* Each statement keeps what the issue checks rely on: a total that no issue has
\* changed since it was read is the total of the company.
LEMMA IssueStep == LocalInv /\ IssueInv /\ [Next]_vars => IssueInv'
<1> SUFFICES ASSUME LocalInv, IssueInv, [Next]_vars PROVE IssueInv'
  OBVIOUS
<1> USE DEF ledger
<1>0. /\ pc \in [Requests -> {"start"} \cup InFlight \cup Ended]
      /\ issued \in [Companies -> Nat] /\ seen \in [Requests -> Int]
      /\ arg \in [Requests -> Calls \cup {Nil}]
  BY DEF LocalInv, TypeOK
<1>1. ASSUME NEW r \in Requests, NEW a \in Calls, Call(r, a) PROVE IssueInv'
  BY <1>0, <1>1, IssueQuiet DEF Call, Goto
<1>2. ASSUME NEW r \in Requests, Fail(r) PROVE IssueInv'
  BY <1>0, <1>2, IssueQuiet DEF Fail, Goto, Release
<1>3. ASSUME NEW r \in Requests, FindShareholder(r) PROVE IssueInv'
  <2>1. CASE CompanyOf[arg[r].to] # arg[r].company
    BY <1>2, <1>3, <2>1 DEF FindShareholder
  <2>2. CASE CompanyOf[arg[r].to] = arg[r].company
    <3>1. IssueOK'
      BY <1>0, <1>3, <2>2 DEF FindShareholder, Goto, IssueInv, IssueOK
    <3>2. SerialWithinAuthorized'
      BY <1>3, <2>2 DEF FindShareholder, IssueInv, SerialWithinAuthorized,
         WithinAuthorized, ExceedsAuthorized
    <3> QED
      BY <3>1, <3>2 DEF IssueInv
  <2> QED
    BY <2>1, <2>2
<1>4. ASSUME NEW r \in Requests, SumIssued(r) PROVE IssueInv'
  <2> DEFINE c == arg[r].company
  <2>1. CASE ExceedsAuthorized(c, issued[c] + arg[r].shares)
    BY <1>2, <1>4, <2>1 DEF SumIssued
  <2>2. CASE ~ExceedsAuthorized(c, issued[c] + arg[r].shares)
    <3>1. /\ issued' = issued /\ overtaken' = overtaken /\ arg' = arg
          /\ seen' = [seen EXCEPT ![r] = issued[c]]
          /\ pc' = [pc EXCEPT ![r] = "insertIssue"] /\ pc[r] = "sumIssued"
      BY <1>4, <2>2 DEF SumIssued, Goto
    <3>2. IssueOK'
      <4> SUFFICES ASSUME NEW s \in Requests
                   PROVE  /\ pc'[s] \in {"sumIssued", "insertIssue"}
                                => CompanyOf[arg[s].to] = arg[s].company
                          /\ pc'[s] = "insertIssue" =>
                                ~ExceedsAuthorized(arg[s].company, seen'[s] + arg[s].shares)
        BY <3>1 DEF IssueOK, ExceedsAuthorized
      <4>1. CASE s = r
        BY <1>0, <2>2, <3>1, <4>1 DEF IssueInv, IssueOK
      <4>2. CASE s # r
        BY <1>0, <3>1, <4>2 DEF IssueInv, IssueOK
      <4> QED
        BY <4>1, <4>2
    <3>3. SerialWithinAuthorized'
      BY <3>1 DEF IssueInv, SerialWithinAuthorized, WithinAuthorized, ExceedsAuthorized
    <3> QED
      BY <3>2, <3>3 DEF IssueInv
  <2> QED
    BY <2>1, <2>2
<1>5. ASSUME NEW r \in Requests, NEW number \in CertNumbers, CommitIssue(r, number)
      PROVE  IssueInv'
  <2> DEFINE c == arg[r].company
             n == arg[r].shares
  <2>1. c \in Companies /\ n \in Nat
    BY <1>5, CallKeys DEF CommitIssue, LocalInv, ArgOK, InFlight, Issuing
  <2>2. /\ issued' = [issued EXCEPT ![c] = @ + n] /\ arg' = arg
        /\ overtaken' = IF seen[r] = issued[c] THEN overtaken ELSE overtaken \cup {r}
        /\ pc[r] = "insertIssue"
    BY <1>5 DEF CommitIssue
  <2>3. \A s \in Requests : pc'[s] \in {"sumIssued", "insertIssue"}
           => pc'[s] = pc[s] /\ seen'[s] = seen[s]
    BY <1>0, <1>5 DEF CommitIssue, Goto, Release
  <2>4. IssueOK'
    BY <2>2, <2>3 DEF IssueInv, IssueOK, ExceedsAuthorized
  <2>5. ASSUME overtaken' = {}, NEW d \in Companies
        PROVE  ~ExceedsAuthorized(d, issued'[d])
    <3>1. seen[r] = issued[c] /\ overtaken = {}
      BY <2>2, <2>5
    <3>2. CASE d = c
      <4>1. issued'[d] = seen[r] + n
        BY <1>0, <2>1, <2>2, <3>1, <3>2
      <4> QED
        BY <2>2, <3>2, <4>1 DEF IssueInv, IssueOK
    <3>3. CASE d # c
      BY <1>0, <2>2, <3>1, <3>3 DEF IssueInv, SerialWithinAuthorized, WithinAuthorized
    <3> QED
      BY <3>2, <3>3
  <2> QED
    BY <2>4, <2>5 DEF IssueInv, SerialWithinAuthorized, WithinAuthorized, ExceedsAuthorized
<1>6. ASSUME NEW r \in Requests, NEW number \in CertNumbers, CertificateClash(r, number)
      PROVE  IssueInv'
  BY <1>2, <1>6 DEF CertificateClash
<1>7. ASSUME NEW r \in Requests,
             ScanSenderRows(r) \/ LocksGranted(r) \/ SumReceived(r) \/ SumSent(r)
                \/ CommitTransfer(r) \/ (\E q \in rows : LockRow(r, q))
      PROVE  IssueInv'
  BY <1>0, <1>2, <1>7, IssueQuiet DEF ScanSenderRows, LocksGranted, SumReceived, SumSent,
     CommitTransfer, LockRow, Goto, Release
<1>8. ASSUME NEW r \in Requests, DeadlockVictim(r) \/ Abort(r) PROVE IssueInv'
  BY <1>2, <1>8 DEF DeadlockVictim, Abort
<1>9. ASSUME NEW c \in Companies, NEW to \in Status, ChangeStatus(c, to) PROVE IssueInv'
  BY <1>0, <1>9, IssueQuiet DEF ChangeStatus
<1>10. CASE UNCHANGED vars
  BY <1>0, <1>10, IssueQuiet DEF vars
<1> QED
  BY <1>1, <1>3, <1>4, <1>5, <1>6, <1>7, <1>8, <1>9, <1>10 DEF Next, Step

\* As long as no issue commits on a total that another issue has changed since,
\* no company issues more than its authorized capital allows.
THEOREM SerialIssuesCapped == Spec => []SerialWithinAuthorized
<1>1. Spec => [](LocalInv /\ IssueInv)
  BY LocalInit, LocalStep, IssueInit, IssueStep, PTL DEF Spec
<1>2. IssueInv => SerialWithinAuthorized
  BY DEF IssueInv
<1> QED
  BY <1>1, <1>2, PTL

-------------------------------------------------------------------------------
(* Refinement: the checks made when the totals were read still hold when the   *)
(* movement commits, so a commit is a checked step of ShareLedger.             *)
AllInv == LocalInv /\ LockInv /\ BalanceInv /\ IssueInv

\* All parts of the invariant always hold.
LEMMA Invariance == Spec => []AllInv
<1>1. Init => AllInv
  BY LocalInit, LockInit, BalanceInit, IssueInit DEF AllInv
<1>2. AllInv /\ [Next]_vars => AllInv'
  BY LocalStep, LockStep, BalanceStep, IssueStep DEF AllInv
<1> QED
  BY <1>1, <1>2, PTL DEF Spec

totals == <<received, sent, issued>>

\* The commit of an issue is ShareLedger's Issue, or a lapse.
LEMMA CommitIssueRefines ==
    ASSUME AllInv, NEW r \in Requests, NEW number \in CertNumbers,
           CommitIssue(r, number), overtaken' = {}
    PROVE  SL!Next
<1> DEFINE a == arg[r]
<1>1. a \in Calls /\ a.company \in Companies /\ a.to \in Shareholders /\ a.shares \in Nat
  BY CallKeys DEF CommitIssue, AllInv, LocalInv, ArgOK, InFlight, Issuing
<1>2. /\ received' = [received EXCEPT ![<<a.company, a.to>>] = @ + a.shares]
      /\ issued' = [issued EXCEPT ![a.company] = @ + a.shares]
      /\ sent' = sent /\ pc[r] = "insertIssue" /\ seen[r] = issued[a.company]
  BY DEF CommitIssue
<1>3. CompanyOf[a.to] = a.company
  BY <1>2 DEF AllInv, IssueInv, IssueOK
<1>4. ~((issued[a.company] + a.shares) * ParValue[a.company] > AuthorizedCapital[a.company])
  BY <1>2 DEF AllInv, IssueInv, IssueOK, ExceedsAuthorized
<1>5. (issued[a.company] + a.shares) * ParValue[a.company] <= AuthorizedCapital[a.company]
  <2>1. /\ issued[a.company] \in Nat /\ ParValue[a.company] \in Nat
        /\ AuthorizedCapital[a.company] \in Nat
    BY <1>1, CapitalAssumption DEF AllInv, LocalInv, TypeOK
  <2> QED
    BY <1>1, <1>4, <2>1
<1>6. SL!Issue(a.company, a.to, a.shares)
  BY <1>2, <1>3, <1>5 DEF SL!Issue
<1>7. a.shares \in {b.shares : b \in Calls}
  BY <1>1
<1> QED
  BY <1>1, <1>6, <1>7 DEF SL!Next

\* The commit of a transfer is ShareLedger's Transfer, or a lapse.
LEMMA CommitTransferRefines ==
    ASSUME AllInv, [Next]_vars, NEW r \in Requests, CommitTransfer(r)
    PROVE  HasUnguarded' \/ SL!Next
<1> DEFINE a == arg[r]
<1>0. pc[r] \in Transferring /\ pc[r] = "insertTransfer" /\ LocalInv
  BY DEF CommitTransfer, Transferring, Locked, AllInv
<1>1. /\ a \in Calls /\ a.company \in Companies /\ a.to \in Shareholders
      /\ a.shares \in Nat /\ a.op = "transfer" /\ a.from \in Shareholders
  <2>1. a \in Calls /\ a.op = "transfer"
    BY <1>0 DEF LocalInv, ArgOK, InFlight
  <2>2. <<a.company, a.from>> \in Companies \X Shareholders
    BY <2>1, CallKeys DEF Keys
  <2> QED
    BY <2>1, <2>2, CallKeys
<1>2. /\ sent' = [sent EXCEPT ![<<a.company, a.from>>] = @ + a.shares]
      /\ received' = [received EXCEPT ![<<a.company, a.to>>] = @ + a.shares]
      /\ issued' = issued /\ arg' = arg /\ scan' = scan /\ rows' = rows \cup {r}
  BY DEF CommitTransfer, Sender
<1>3. CASE HasUnguarded
  BY <1>0, <1>3, UnguardedStable
<1>4. CASE scan[r] = {}
  BY <1>1, <1>2, <1>4 DEF HasUnguarded, Unguarded
<1>5. CASE CheckedOK /\ scan[r] # {}
  <2>1. a.shares <= seen[r] /\ seen[r] <= received[Sender(r)] - sent[Sender(r)]
    BY <1>0, <1>5 DEF CheckedOK, Balance
  <2>2. /\ seen[r] \in Int /\ received[Sender(r)] \in Nat /\ sent[Sender(r)] \in Nat
    BY <1>0, SenderKey
  <2>3. received[Sender(r)] - sent[Sender(r)] >= a.shares
    BY <1>1, <2>1, <2>2
  <2>4. SL!Transfer(a.company, a.from, a.to, a.shares)
    BY <1>2, <2>3 DEF SL!Transfer, Sender
  <2>5. a.shares \in {b.shares : b \in Calls}
    BY <1>1
  <2> QED
    BY <1>1, <2>4, <2>5 DEF SL!Next
<1> QED
  BY <1>3, <1>4, <1>5 DEF AllInv, BalanceInv

\* Every other statement leaves the totals of the ledger alone.
LEMMA StepRefines == AllInv /\ [Next]_vars => [Lapsed' \/ SL!Next]_totals
<1> SUFFICES ASSUME AllInv, [Next]_vars, ~Lapsed' PROVE [SL!Next]_totals
  BY DEF totals
<1>1. overtaken' = {} /\ ~HasUnguarded'
  BY DEF Lapsed, HasUnguarded
<1>2. ASSUME NEW r \in Requests, NEW number \in CertNumbers, CommitIssue(r, number)
      PROVE  SL!Next
  BY <1>1, <1>2, CommitIssueRefines
<1>3. ASSUME NEW r \in Requests, CommitTransfer(r) PROVE SL!Next
  BY <1>1, <1>3, CommitTransferRefines
<1>4. ASSUME NEW r \in Requests, Step(r), ~CommitTransfer(r),
             \A number \in CertNumbers : ~CommitIssue(r, number)
      PROVE  UNCHANGED totals
  BY <1>4 DEF Step, FindShareholder, SumIssued, CertificateClash, ScanSenderRows, LockRow,
     LocksGranted, DeadlockVictim, SumReceived, SumSent, Fail, totals, ledger
<1>5. ASSUME NEW r \in Requests, NEW a \in Calls, Call(r, a) PROVE UNCHANGED totals
  BY <1>5 DEF Call, totals, ledger
<1>6. ASSUME NEW r \in Requests, Abort(r) PROVE UNCHANGED totals
  BY <1>6 DEF Abort, Fail, totals, ledger
<1>7. ASSUME NEW c \in Companies, NEW to \in Status, ChangeStatus(c, to)
      PROVE  UNCHANGED totals
  BY <1>7 DEF ChangeStatus, totals, ledger
<1>8. CASE UNCHANGED vars
  BY <1>8 DEF vars, totals, ledger
<1> QED
  BY <1>2, <1>3, <1>4, <1>5, <1>6, <1>7, <1>8 DEF Next

\* The two handlers implement the atomic, checked ledger until a movement
\* commits on a check that nothing protected.
THEOREM LedgerRefinement == Spec => SL!Init /\ ImplementsShareLedger
<1>1. Init => SL!Init
  BY DEF Init, SL!Init, SL!Accounts, Keys
<1>2. Spec => [][Lapsed' \/ SL!Next]_totals
  BY Invariance, StepRefines, PTL DEF Spec
<1>3. Spec => ImplementsShareLedger
  BY <1>2 DEF ImplementsShareLedger, totals
<1> QED
  BY <1>1, <1>3, PTL DEF Spec

-------------------------------------------------------------------------------
(* Documents *)

Documents ==
    /\ audited = rows
    /\ \A r \in Requests : (certificate[r] # Nil) <=> (r \in rows /\ arg[r].op = "issue")
    /\ \A r, s \in rows : certificate[r] = certificate[s] /\ r # s => certificate[r] = Nil

\* A step that commits nothing leaves the documents as they are.
LEMMA NothingCommitted ==
    ASSUME LocalInv, Documents, UNCHANGED <<rows, certificate, audited>>,
           \A q \in rows : arg'[q] = arg[q]
    PROVE  Documents'
BY DEF Documents

\* A request that fails had committed nothing.
LEMMA FailUndocumented ==
    ASSUME LocalInv, Documents, NEW r \in Requests, pc[r] \in InFlight, Fail(r)
    PROVE  Documents'
<1>1. r \notin rows
  BY DEF LocalInv, RowsOK, InFlight, Issuing, Transferring, Locked
<1>2. UNCHANGED <<rows, certificate, audited>> /\ \A q \in rows : arg'[q] = arg[q]
  BY <1>1 DEF Fail, ledger, LocalInv, TypeOK
<1> QED
  BY <1>2, NothingCommitted

LEMMA IssueDocumented ==
    ASSUME LocalInv, Documents, NEW r \in Requests, NEW number \in CertNumbers,
           CommitIssue(r, number)
    PROVE  Documents'
<1>1. r \notin rows /\ arg[r].op = "issue" /\ number # Nil
  BY NilAssumption DEF CommitIssue, LocalInv, RowsOK, ArgOK, InFlight, Issuing
<1>2. /\ rows' = rows \cup {r} /\ audited' = audited \cup {r} /\ arg' = arg
      /\ certificate' = [certificate EXCEPT ![r] = number]
      /\ \A q \in Requests : certificate[q] # number
  BY DEF CommitIssue
<1>3. certificate \in [Requests -> CertNumbers \cup {Nil}] /\ rows \subseteq Requests
  BY DEF LocalInv, TypeOK
<1>4. \A q \in Requests :
        (certificate'[q] # Nil) <=> (q \in rows' /\ arg'[q].op = "issue")
  BY <1>1, <1>2, <1>3 DEF Documents
<1>5. \A q, s \in rows' :
        certificate'[q] = certificate'[s] /\ q # s => certificate'[q] = Nil
  BY <1>2, <1>3 DEF Documents
<1> QED
  BY <1>2, <1>4, <1>5 DEF Documents

LEMMA TransferDocumented ==
    ASSUME LocalInv, Documents, NEW r \in Requests, CommitTransfer(r)
    PROVE  Documents'
<1>1. r \notin rows /\ arg[r].op # "issue"
  BY DEF CommitTransfer, LocalInv, RowsOK, ArgOK, InFlight, Transferring, Locked
<1>2. rows' = rows \cup {r} /\ audited' = audited \cup {r} /\ UNCHANGED <<arg, certificate>>
  BY DEF CommitTransfer
<1>3. certificate[r] = Nil /\ rows \subseteq Requests
  BY <1>1 DEF Documents, LocalInv, TypeOK
<1> QED
  BY <1>1, <1>2, <1>3 DEF Documents

LEMMA DocumentsStep == LocalInv /\ Documents /\ [Next]_vars => Documents'
<1> SUFFICES ASSUME LocalInv, Documents, [Next]_vars PROVE Documents'
  OBVIOUS
<1>1. CASE UNCHANGED vars
  BY <1>1, NothingCommitted DEF vars, ledger
<1>2. ASSUME NEW r \in Requests, NEW a \in Calls, Call(r, a) PROVE Documents'
  <2>1. r \notin rows
    BY <1>2 DEF Call, LocalInv, RowsOK
  <2>2. UNCHANGED <<rows, certificate, audited>> /\ \A q \in rows : arg'[q] = arg[q]
    BY <1>2, <2>1 DEF Call, ledger, LocalInv, TypeOK
  <2> QED
    BY <2>2, NothingCommitted
<1>3. ASSUME NEW r \in Requests, NEW number \in CertNumbers, CommitIssue(r, number)
      PROVE  Documents'
  BY <1>3, IssueDocumented
<1>4. ASSUME NEW r \in Requests, CommitTransfer(r) PROVE Documents'
  BY <1>4, TransferDocumented
<1>5. ASSUME NEW r \in Requests, pc[r] \in InFlight, Fail(r) PROVE Documents'
  BY <1>5, FailUndocumented
<1>6. ASSUME NEW r \in Requests,
             \/ FindShareholder(r) \/ SumIssued(r) \/ ScanSenderRows(r) \/ LocksGranted(r)
             \/ SumReceived(r) \/ SumSent(r) \/ \E q \in rows : LockRow(r, q)
      PROVE  Documents'
  <2>1. \/ pc[r] \in InFlight /\ Fail(r)
        \/ UNCHANGED <<ledger, arg>>
    BY <1>6
    DEF FindShareholder, SumIssued, ScanSenderRows, LocksGranted, SumReceived, SumSent,
        LockRow, InFlight, Issuing, Transferring, Locked
  <2> QED
    BY <1>5, <2>1, NothingCommitted DEF ledger
<1>7. ASSUME NEW r \in Requests,
             \/ Abort(r) \/ DeadlockVictim(r)
             \/ \E number \in CertNumbers : CertificateClash(r, number)
      PROVE  Documents'
  <2>1. pc[r] \in InFlight /\ Fail(r)
    BY <1>7
    DEF Abort, DeadlockVictim, CertificateClash, InFlight, Issuing, Transferring, Locked
  <2> QED
    BY <1>5, <2>1
<1>8. ASSUME NEW c \in Companies, NEW to \in Status, ChangeStatus(c, to) PROVE Documents'
  BY <1>8, NothingCommitted DEF ChangeStatus, ledger
<1> QED
  BY <1>1, <1>2, <1>3, <1>4, <1>6, <1>7, <1>8 DEF Next, Step

\* Movement, certificate and audit row are committed together or not at all, and
\* no two certificates share a number: issueShares and transferShares insert them
\* in one transaction.
THEOREM MovementsDocumented == Spec => []Documented
<1>1. Init => Documents
  BY DEF Init, Documents
<1>2. LocalInv /\ Documents /\ [Next]_vars => Documents'
  BY DocumentsStep
<1>3. LocalInv /\ Documents => Documented
  BY DEF LocalInv, RowsOK, Documents, Documented
<1> QED
  BY <1>1, <1>2, <1>3, LocalInit, LocalStep, PTL DEF Spec

-------------------------------------------------------------------------------
(* A company that is not active and whose admitted requests have ended *)

TotalsOf(c) ==
    <<issued[c], [h \in Shareholders |-> <<received[<<c, h>>], sent[<<c, h>>]>>]>>

\* A step of a request concerns the company of the request only.
LEMMA StepOfOneCompany ==
    ASSUME LocalInv, NEW r \in Requests, Step(r) \/ Abort(r),
           NEW c \in Companies, c # arg[r].company
    PROVE  /\ pc[r] \in InFlight
           /\ \A q \in Requests \ {r} : pc'[q] = pc[q] /\ arg'[q] = arg[q]
           /\ arg'[r] = arg[r] \/ pc'[r] = "failed"
           /\ TotalsOf(c)' = TotalsOf(c)
<1> DEFINE Goal ==
      /\ pc[r] \in InFlight
      /\ \A q \in Requests \ {r} : pc'[q] = pc[q] /\ arg'[q] = arg[q]
      /\ arg'[r] = arg[r] \/ pc'[r] = "failed"
      /\ TotalsOf(c)' = TotalsOf(c)
<1>1. ASSUME pc[r] \in InFlight, Fail(r) PROVE Goal
  BY <1>1 DEF Fail, Goto, LocalInv, TypeOK, TotalsOf, ledger
<1>2. CASE \/ FindShareholder(r) \/ SumIssued(r) \/ ScanSenderRows(r) \/ LocksGranted(r)
           \/ SumReceived(r) \/ SumSent(r) \/ \E q \in rows : LockRow(r, q)
  <2>1. /\ pc[r] \in InFlight
        /\ Fail(r) \/ (UNCHANGED <<ledger, arg>> /\ (pc' = pc \/ \E l : Goto(r, l)))
    BY <1>2
    DEF FindShareholder, SumIssued, ScanSenderRows, LocksGranted, SumReceived, SumSent,
        LockRow, InFlight, Issuing, Transferring, Locked
  <2>2. CASE UNCHANGED <<ledger, arg>> /\ (pc' = pc \/ \E l : Goto(r, l))
    BY <2>1, <2>2 DEF Goto, LocalInv, TypeOK, TotalsOf, ledger
  <2> QED
    BY <1>1, <2>1, <2>2
<1>3. CASE \/ Abort(r) \/ DeadlockVictim(r)
           \/ \E number \in CertNumbers : CertificateClash(r, number)
  <2>1. pc[r] \in InFlight /\ Fail(r)
    BY <1>3
    DEF Abort, DeadlockVictim, CertificateClash, InFlight, Issuing, Transferring, Locked
  <2> QED
    BY <1>1, <2>1
<1>4. ASSUME NEW number \in CertNumbers, CommitIssue(r, number) PROVE Goal
  <2>1. /\ pc[r] \in InFlight /\ arg' = arg
        /\ pc' = [pc EXCEPT ![r] = "committed"]
    BY <1>4 DEF CommitIssue, Goto, InFlight, Issuing
  <2>2. TotalsOf(c)' = TotalsOf(c)
    <3>1. /\ issued'[c] = issued[c] /\ sent' = sent
          /\ \A h \in Shareholders : received'[<<c, h>>] = received[<<c, h>>]
      BY <1>4 DEF CommitIssue, LocalInv, TypeOK, Keys
    <3> QED
      BY <3>1 DEF TotalsOf
  <2> QED
    BY <2>1, <2>2 DEF LocalInv, TypeOK
<1>5. CASE CommitTransfer(r)
  <2>1. /\ pc[r] \in InFlight /\ arg' = arg
        /\ pc' = [pc EXCEPT ![r] = "committed"]
    BY <1>5 DEF CommitTransfer, Goto, InFlight, Transferring, Locked
  <2>2. TotalsOf(c)' = TotalsOf(c)
    <3>1. /\ issued' = issued
          /\ \A h \in Shareholders :
                received'[<<c, h>>] = received[<<c, h>>] /\ sent'[<<c, h>>] = sent[<<c, h>>]
      BY <1>5 DEF CommitTransfer, Sender, LocalInv, TypeOK, Keys
    <3> QED
      BY <3>1 DEF TotalsOf
  <2> QED
    BY <2>1, <2>2 DEF LocalInv, TypeOK
<1> QED
  BY <1>2, <1>3, <1>4, <1>5 DEF Step

\* What CompanyActiveGuard gives: once a company is not active and the requests it
\* had admitted have ended, no request is admitted and no total of it changes.
THEOREM InactiveLedgerFrozen == Spec => FrozenWhenDrained
<1>1. ASSUME LocalInv, [Next]_vars, NEW c \in Companies, status[c] # "ACTIVE", ~Admitted(c)
      PROVE  ~Admitted(c)' /\ TotalsOf(c)' = TotalsOf(c)
  <2>1. CASE UNCHANGED vars
    BY <1>1, <2>1 DEF vars, ledger, Admitted, TotalsOf
  <2>2. ASSUME NEW r \in Requests, NEW a \in Calls, Call(r, a)
        PROVE  ~Admitted(c)' /\ TotalsOf(c)' = TotalsOf(c)
    <3>1. TotalsOf(c)' = TotalsOf(c)
      BY <2>2 DEF Call, TotalsOf, ledger
    <3>2. \A q \in Requests \ {r} : pc'[q] = pc[q] /\ arg'[q] = arg[q]
      BY <1>1, <2>2 DEF Call, Goto, LocalInv, TypeOK
    <3>3. pc'[r] = "refused" \/ arg'[r].company # c
      BY <1>1, <2>2 DEF Call, Goto, LocalInv, TypeOK
    <3>4. "refused" \notin InFlight
      BY DEF InFlight, Issuing, Transferring, Locked
    <3> QED
      BY <1>1, <3>1, <3>2, <3>3, <3>4 DEF Admitted
  <2>3. ASSUME NEW r \in Requests, Step(r) \/ Abort(r)
        PROVE  ~Admitted(c)' /\ TotalsOf(c)' = TotalsOf(c)
    <3>1. pc[r] \in InFlight
      BY <2>3
      DEF Step, Abort, FindShareholder, SumIssued, CommitIssue, CertificateClash,
          ScanSenderRows, LockRow, LocksGranted, DeadlockVictim, SumReceived, SumSent,
          CommitTransfer, InFlight, Issuing, Transferring, Locked
    <3>2. arg[r].company # c
      BY <1>1, <3>1 DEF Admitted
    <3>3. /\ \A q \in Requests \ {r} : pc'[q] = pc[q] /\ arg'[q] = arg[q]
          /\ arg'[r] = arg[r] \/ pc'[r] = "failed"
          /\ TotalsOf(c)' = TotalsOf(c)
      BY <1>1, <2>3, <3>2, StepOfOneCompany
    <3>4. "failed" \notin InFlight
      BY DEF InFlight, Issuing, Transferring, Locked
    <3> QED
      BY <1>1, <3>2, <3>3, <3>4 DEF Admitted
  <2>4. ASSUME NEW d \in Companies, NEW to \in Status, ChangeStatus(d, to)
        PROVE  ~Admitted(c)' /\ TotalsOf(c)' = TotalsOf(c)
    BY <1>1, <2>4 DEF ChangeStatus, Admitted, TotalsOf, ledger
  <2> QED
    BY <1>1, <2>1, <2>2, <2>3, <2>4 DEF Next
<1>2. ASSUME LocalInv, [Next]_vars, NEW c \in Companies, status[c] # "ACTIVE", ~Admitted(c)
      PROVE  /\ ~Admitted(c)'
             /\ issued'[c] = issued[c]
             /\ \A h \in Shareholders :
                   /\ received'[<<c, h>>] = received[<<c, h>>]
                   /\ sent'[<<c, h>>] = sent[<<c, h>>]
  <2> DEFINE F == [h \in Shareholders |-> <<received[<<c, h>>], sent[<<c, h>>]>>]
             G == [h \in Shareholders |-> <<received'[<<c, h>>], sent'[<<c, h>>]>>]
  <2>1. ~Admitted(c)' /\ issued'[c] = issued[c] /\ G = F
    BY <1>1, <1>2 DEF TotalsOf
  <2>2. \A h \in Shareholders : G[h] = F[h]
    BY <2>1
  <2>3. \A h \in Shareholders :
          received'[<<c, h>>] = received[<<c, h>>] /\ sent'[<<c, h>>] = sent[<<c, h>>]
    BY <2>2
  <2> QED
    BY <2>1, <2>3
<1>3. LocalInv /\ [Next]_vars =>
        [\A c \in Companies : status[c] # "ACTIVE" /\ ~Admitted(c)
            => /\ ~Admitted(c)'
               /\ issued'[c] = issued[c]
               /\ \A h \in Shareholders :
                     /\ received'[<<c, h>>] = received[<<c, h>>]
                     /\ sent'[<<c, h>>] = sent[<<c, h>>]]_vars
  BY <1>2
<1> QED
  BY <1>3, LocalInit, LocalStep, PTL DEF Spec, FrozenWhenDrained

-------------------------------------------------------------------------------
(* The ledger adds up.  A committed row keeps its columns, so the set of rows  *)
(* an account's totals sum over changes only when a movement commits, by the   *)
(* one row of that movement.                                                   *)
RowTotals ==
    /\ \A k \in Keys : /\ received[k] = Total(ShareCount, RowsTo(k))
                      /\ sent[k] = Total(ShareCount, RowsFrom(k))
    /\ \A c \in Companies : issued[c] = Total(ShareCount, RowsIssued(c))
Conserved ==
    \A c \in Companies : issued[c] + OverHolders(sent, c) = OverHolders(received, c)

SumInv == IsFiniteSet(rows) /\ RowTotals /\ Conserved

\* The sum over the rows so far is not touched by one more row, and with it is
\* larger by the shares of that row.
LEMMA OneMoreRow ==
    ASSUME LocalInv, IsFiniteSet(rows), NEW r \in Requests, r \notin rows,
           arg[r] \in Calls, rows' = rows \cup {r}, arg' = arg,
           NEW S, S \subseteq rows
    PROVE  /\ Total(ShareCount', S) = Total(ShareCount, S)
           /\ Total(ShareCount', S \cup {r}) = Total(ShareCount, S) + arg[r].shares
<1>1. /\ ShareCount' = [q \in rows \cup {r} |-> arg[q].shares]
      /\ \A q \in S : ShareCount'[q] = ShareCount[q]
      /\ ShareCount'[r] = arg[r].shares
  BY DEF ShareCount
<1>2. \A q \in S \cup {r} : ShareCount'[q] \in Nat
  <2>1. \A q \in S : arg[q] \in Calls
    BY DEF LocalInv, TypeOK, ArgOK, RowsOK
  <2> QED
    BY <1>1, <2>1, CallKeys
<1>3. IsFiniteSet(S) /\ r \notin S
  BY FS_Subset
<1> DEFINE f == ShareCount
           g == ShareCount'
<1>4. \A q \in S : g[q] = f[q]
  BY <1>1
<1>5. g[r] = arg[r].shares /\ \A q \in S \cup {r} : g[q] \in Nat
  BY <1>1, <1>2
<1> HIDE DEF f, g
<1>6. Total(g, S) = Total(f, S)
  BY <1>4, TotalSame
<1>7. Total(g, S \cup {r}) = Total(g, S) + g[r]
  BY <1>3, <1>5, TotalOne
<1> QED
  BY <1>5, <1>6, <1>7 DEF f, g

\* A step that commits nothing leaves the sums as they are.
LEMMA SumQuiet ==
    ASSUME LocalInv, SumInv, [Next]_vars,
           UNCHANGED <<rows, received, sent, issued>>
    PROVE  SumInv'
<1>1. \A q \in rows : arg'[q] = arg[q]
  BY RowsStable
<1>2. ShareCount' = ShareCount
  BY <1>1 DEF ShareCount
<1>3. /\ \A k \in Keys : RowsTo(k)' = RowsTo(k) /\ RowsFrom(k)' = RowsFrom(k)
      /\ \A c \in Companies : RowsIssued(c)' = RowsIssued(c)
  BY <1>1 DEF RowsTo, RowsFrom, RowsIssued
<1>4. RowTotals'
  <2>1. \A k \in Keys : /\ Total(ShareCount, RowsTo(k))' = Total(ShareCount, RowsTo(k))
                        /\ Total(ShareCount, RowsFrom(k))' = Total(ShareCount, RowsFrom(k))
    BY <1>2, <1>3 DEF Total, Units
  <2>2. \A c \in Companies :
            Total(ShareCount, RowsIssued(c))' = Total(ShareCount, RowsIssued(c))
    BY <1>2, <1>3 DEF Total, Units
  <2> QED
    BY <2>1, <2>2 DEF SumInv, RowTotals
<1>5. Conserved'
  BY DEF SumInv, Conserved, OverHolders, Total, Units
<1> QED
  BY <1>4, <1>5 DEF SumInv

LEMMA HolderTotals ==
    ASSUME NEW f \in [Keys -> Nat], NEW c \in Companies
    PROVE  OverHolders(f, c) \in Nat
<1>1. \A h \in Shareholders : [x \in Shareholders |-> f[<<c, x>>]][h] \in Nat
  BY DEF Keys
<1> QED
  BY <1>1, ShareholdersAssumption, UnitsFinite DEF OverHolders

\* Raised(g, f, k, n): total f after a movement that adds n to account k.
Raised(g, f, k, n) == f \in [Keys -> Nat] /\ g = [f EXCEPT ![k] = @ + n]

\* One account of a company grows: the total over its holders grows as much, and
\* the totals of the other companies stay.
LEMMA OneAccountGrows ==
    ASSUME NEW c \in Companies, NEW h \in Shareholders, NEW n \in Nat, NEW e \in Companies,
           NEW f, NEW g, Raised(g, f, <<c, h>>, n)
    PROVE  /\ OverHolders(f, e) \in Nat
           /\ OverHolders(g, e) = OverHolders(f, e) + (IF e = c THEN n ELSE 0)
<1> DEFINE row(t, d) == [x \in Shareholders |-> t[<<d, x>>]]
<1>1. \A d \in Companies, x \in Shareholders :
          /\ <<d, x>> \in Keys /\ row(f, d)[x] \in Nat
          /\ row(g, d)[x] = IF d = c /\ x = h THEN row(f, d)[x] + n ELSE row(f, d)[x]
  BY DEF Keys, Raised
<1>2. \A t, d : OverHolders(t, d) = Total(row(t, d), Shareholders)
  BY DEF OverHolders
<1> HIDE DEF row
<1>3. \A d \in Companies : OverHolders(f, d) \in Nat
  BY <1>1, <1>2, ShareholdersAssumption, UnitsFinite
<1>4. OverHolders(g, c) = OverHolders(f, c) + n
  <2>1. /\ \A x \in Shareholders : row(f, c)[x] \in Nat
        /\ row(g, c)[h] = row(f, c)[h] + n
        /\ \A x \in Shareholders \ {h} : row(g, c)[x] = row(f, c)[x]
    BY <1>1
  <2> QED
    BY <2>1, <1>2, ShareholdersAssumption, TotalRaised
<1>5. ASSUME e # c PROVE OverHolders(g, e) = OverHolders(f, e)
  <2>1. \A x \in Shareholders : row(f, e)[x] = row(g, e)[x]
    BY <1>1, <1>5
  <2> QED
    BY <2>1, <1>2, TotalSame
<1> QED
  BY <1>3, <1>4, <1>5

LEMMA CommitIssueSums ==
    ASSUME LocalInv, SumInv, NEW r \in Requests, NEW number \in CertNumbers,
           CommitIssue(r, number)
    PROVE  SumInv'
<1> DEFINE a == arg[r]
           at == <<a.company, a.to>>
<1>1. /\ r \notin rows /\ rows' = rows \cup {r} /\ arg' = arg
      /\ a \in Calls /\ a.op = "issue" /\ a.from = Nil
      /\ received' = [received EXCEPT ![at] = @ + a.shares]
      /\ issued' = [issued EXCEPT ![a.company] = @ + a.shares]
      /\ sent' = sent
  <2>1. pc[r] = "insertIssue" /\ a \in Calls /\ a.op = "issue"
    BY DEF CommitIssue, LocalInv, ArgOK, InFlight, Issuing
  <2> QED
    BY <2>1, CallsAssumption DEF CommitIssue, LocalInv, RowsOK
<1>2. /\ a.company \in Companies /\ a.to \in Shareholders /\ a.shares \in Nat /\ at \in Keys
      /\ received \in [Keys -> Nat] /\ issued \in [Companies -> Nat]
  BY <1>1, CallKeys DEF LocalInv, TypeOK
<1> HIDE DEF a
<1>3. IsFiniteSet(rows')
  BY <1>1, FS_AddElement DEF SumInv
<1>4. \A S \in SUBSET rows :
          /\ Total(ShareCount', S) = Total(ShareCount, S)
          /\ Total(ShareCount', S \cup {r}) = Total(ShareCount, S) + a.shares
  BY <1>1, OneMoreRow DEF SumInv, a
<1>5. ASSUME NEW k \in Keys
      PROVE  /\ received'[k] = Total(ShareCount', RowsTo(k)')
             /\ sent'[k] = Total(ShareCount', RowsFrom(k)')
  <2>1. RowsTo(k) \in SUBSET rows /\ RowsFrom(k) \in SUBSET rows
    BY DEF RowsTo, RowsFrom
  <2>2. k[2] \in Shareholders /\ (k = at <=> a.company = k[1] /\ a.to = k[2])
    BY DEF Keys
  <2>3. RowsFrom(k)' = RowsFrom(k)
    BY <1>1, <2>2, NilAssumption DEF RowsFrom, a
  <2>4. RowsTo(k)' = IF k = at THEN RowsTo(k) \cup {r} ELSE RowsTo(k)
    BY <1>1, <2>2 DEF RowsTo, a
  <2>5. received'[k] = IF k = at THEN received[k] + a.shares ELSE received[k]
    BY <1>1, <1>2
  <2>6. received[k] = Total(ShareCount, RowsTo(k)) /\ sent[k] = Total(ShareCount, RowsFrom(k))
    BY DEF SumInv, RowTotals
  <2> QED
    BY <1>1, <1>4, <2>1, <2>3, <2>4, <2>5, <2>6
<1>6. ASSUME NEW c \in Companies PROVE issued'[c] = Total(ShareCount', RowsIssued(c)')
  <2>1. RowsIssued(c) \in SUBSET rows
    BY DEF RowsIssued
  <2>2. RowsIssued(c)' = IF c = a.company THEN RowsIssued(c) \cup {r} ELSE RowsIssued(c)
    BY <1>1 DEF RowsIssued, a
  <2>3. issued'[c] = IF c = a.company THEN issued[c] + a.shares ELSE issued[c]
    BY <1>1, <1>2
  <2>4. issued[c] = Total(ShareCount, RowsIssued(c))
    BY DEF SumInv, RowTotals
  <2> QED
    BY <1>4, <2>1, <2>2, <2>3, <2>4
<1>7. RowTotals'
  BY <1>5, <1>6 DEF RowTotals
<1>8. Conserved'
  <2> SUFFICES ASSUME NEW c \in Companies
               PROVE  issued'[c] + OverHolders(sent', c) = OverHolders(received', c)
    BY DEF Conserved, OverHolders
  <2>1. /\ OverHolders(received, c) \in Nat
        /\ OverHolders(received', c) = IF c = a.company
              THEN OverHolders(received, c) + a.shares ELSE OverHolders(received, c)
    <3>1. Raised(received', received, <<a.company, a.to>>, a.shares)
      BY <1>1, <1>2 DEF Raised
    <3> QED
      BY <1>2, <3>1, OneAccountGrows
  <2>2. issued'[c] = IF c = a.company THEN issued[c] + a.shares ELSE issued[c]
    BY <1>1, <1>2
  <2>3. OverHolders(sent', c) = OverHolders(sent, c) /\ OverHolders(sent, c) \in Nat
    BY <1>1, HolderTotals DEF LocalInv, TypeOK
  <2>4. issued[c] + OverHolders(sent, c) = OverHolders(received, c) /\ issued[c] \in Nat
    BY <1>2 DEF SumInv, Conserved
  <2> QED
    BY <1>2, <2>1, <2>2, <2>3, <2>4
<1> QED
  BY <1>3, <1>7, <1>8 DEF SumInv

LEMMA CommitTransferSums ==
    ASSUME LocalInv, SumInv, NEW r \in Requests, CommitTransfer(r)
    PROVE  SumInv'
<1> DEFINE a == arg[r]
           at == <<a.company, a.to>>
           by == <<a.company, a.from>>
<1>1. /\ r \notin rows /\ rows' = rows \cup {r} /\ arg' = arg
      /\ a \in Calls /\ a.op = "transfer"
      /\ received' = [received EXCEPT ![at] = @ + a.shares]
      /\ sent' = [sent EXCEPT ![by] = @ + a.shares]
      /\ issued' = issued
  <2>1. pc[r] = "insertTransfer" /\ a \in Calls /\ a.op = "transfer"
    BY DEF CommitTransfer, LocalInv, ArgOK, InFlight, Transferring, Locked
  <2> QED
    BY <2>1 DEF CommitTransfer, Sender, LocalInv, RowsOK
<1>2. /\ a.company \in Companies /\ a.to \in Shareholders /\ a.shares \in Nat
      /\ at \in Keys /\ by \in Keys
      /\ received \in [Keys -> Nat] /\ sent \in [Keys -> Nat] /\ issued \in [Companies -> Nat]
  BY <1>1, CallKeys DEF LocalInv, TypeOK
<1>3. a.from \in Shareholders
  BY <1>2 DEF Keys
<1> HIDE DEF a
<1>4. IsFiniteSet(rows')
  BY <1>1, FS_AddElement DEF SumInv
<1>5. \A S \in SUBSET rows :
          /\ Total(ShareCount', S) = Total(ShareCount, S)
          /\ Total(ShareCount', S \cup {r}) = Total(ShareCount, S) + a.shares
  BY <1>1, OneMoreRow DEF SumInv, a
<1>6. ASSUME NEW k \in Keys
      PROVE  /\ received'[k] = Total(ShareCount', RowsTo(k)')
             /\ sent'[k] = Total(ShareCount', RowsFrom(k)')
  <2>1. RowsTo(k) \in SUBSET rows /\ RowsFrom(k) \in SUBSET rows
    BY DEF RowsTo, RowsFrom
  <2>2. /\ k = at <=> a.company = k[1] /\ a.to = k[2]
        /\ k = by <=> a.company = k[1] /\ a.from = k[2]
    BY DEF Keys
  <2>3. RowsFrom(k)' = IF k = by THEN RowsFrom(k) \cup {r} ELSE RowsFrom(k)
    BY <1>1, <2>2 DEF RowsFrom, a
  <2>4. RowsTo(k)' = IF k = at THEN RowsTo(k) \cup {r} ELSE RowsTo(k)
    BY <1>1, <2>2 DEF RowsTo, a
  <2>5. /\ received'[k] = IF k = at THEN received[k] + a.shares ELSE received[k]
        /\ sent'[k] = IF k = by THEN sent[k] + a.shares ELSE sent[k]
    BY <1>1, <1>2
  <2>6. received[k] = Total(ShareCount, RowsTo(k)) /\ sent[k] = Total(ShareCount, RowsFrom(k))
    BY DEF SumInv, RowTotals
  <2> QED
    BY <1>5, <2>1, <2>3, <2>4, <2>5, <2>6
<1>7. ASSUME NEW c \in Companies PROVE issued'[c] = Total(ShareCount', RowsIssued(c)')
  <2>1. RowsIssued(c) \in SUBSET rows
    BY DEF RowsIssued
  <2>2. RowsIssued(c)' = RowsIssued(c)
    BY <1>1 DEF RowsIssued, a
  <2>3. issued[c] = Total(ShareCount, RowsIssued(c))
    BY DEF SumInv, RowTotals
  <2> QED
    BY <1>1, <1>5, <2>1, <2>2, <2>3
<1>8. RowTotals'
  BY <1>6, <1>7 DEF RowTotals
<1>9. Conserved'
  <2> SUFFICES ASSUME NEW c \in Companies
               PROVE  issued'[c] + OverHolders(sent', c) = OverHolders(received', c)
    BY DEF Conserved, OverHolders
  <2>1. /\ OverHolders(received, c) \in Nat
        /\ OverHolders(received', c) = IF c = a.company
              THEN OverHolders(received, c) + a.shares ELSE OverHolders(received, c)
    <3>1. Raised(received', received, <<a.company, a.to>>, a.shares)
      BY <1>1, <1>2 DEF Raised
    <3> QED
      BY <1>2, <3>1, OneAccountGrows
  <2>2. /\ OverHolders(sent, c) \in Nat
        /\ OverHolders(sent', c) = IF c = a.company
              THEN OverHolders(sent, c) + a.shares ELSE OverHolders(sent, c)
    <3>1. Raised(sent', sent, <<a.company, a.from>>, a.shares)
      BY <1>1, <1>2 DEF Raised
    <3> QED
      BY <1>2, <1>3, <3>1, OneAccountGrows
  <2>3. issued[c] + OverHolders(sent, c) = OverHolders(received, c) /\ issued[c] \in Nat
    BY <1>2 DEF SumInv, Conserved
  <2> QED
    BY <1>1, <1>2, <2>1, <2>2, <2>3
<1> QED
  BY <1>4, <1>8, <1>9 DEF SumInv

\* Only a commit inserts a row and moves shares.
LEMMA SumStep == LocalInv /\ SumInv /\ [Next]_vars => SumInv'
<1> SUFFICES ASSUME LocalInv, SumInv, [Next]_vars PROVE SumInv'
  OBVIOUS
<1> DEFINE Quiet == UNCHANGED <<rows, received, sent, issued>>
<1>1. ASSUME NEW r \in Requests, NEW a \in Calls, Call(r, a) PROVE Quiet
  BY <1>1 DEF Call, ledger
<1>2. ASSUME NEW r \in Requests, Step(r) PROVE Quiet \/ SumInv'
  <2>1. ASSUME NEW number \in CertNumbers, CommitIssue(r, number) PROVE SumInv'
    BY <2>1, CommitIssueSums
  <2>2. ASSUME CommitTransfer(r) PROVE SumInv'
    BY <2>2, CommitTransferSums
  <2>3. ASSUME FindShareholder(r) \/ SumIssued(r) \/ LocksGranted(r) \/ DeadlockVictim(r)
                 \/ SumReceived(r) \/ SumSent(r) \/ ScanSenderRows(r)
        PROVE  Quiet
    BY <2>3 DEF FindShareholder, SumIssued, LocksGranted, DeadlockVictim, SumReceived,
       SumSent, ScanSenderRows, Fail, ledger
  <2>4. ASSUME NEW number \in CertNumbers, CertificateClash(r, number) PROVE Quiet
    BY <2>4 DEF CertificateClash, Fail, ledger
  <2>5. ASSUME NEW q \in rows, LockRow(r, q) PROVE Quiet
    BY <2>5 DEF LockRow, ledger
  <2> QED
    BY <1>2, <2>1, <2>2, <2>3, <2>4, <2>5 DEF Step
<1>3. ASSUME NEW r \in Requests, Abort(r) PROVE Quiet
  BY <1>3 DEF Abort, Fail, ledger
<1>4. ASSUME NEW c \in Companies, NEW to \in Status, ChangeStatus(c, to) PROVE Quiet
  BY <1>4 DEF ChangeStatus, ledger
<1>5. ASSUME UNCHANGED vars PROVE Quiet
  BY <1>5 DEF vars, ledger
<1> QED
  BY <1>1, <1>2, <1>3, <1>4, <1>5, SumQuiet DEF Next

LEMMA SumInit == Init => SumInv
<1> SUFFICES ASSUME Init PROVE SumInv
  OBVIOUS
<1>1. IsFiniteSet(rows)
  BY FS_EmptySet DEF Init
<1>2. RowTotals
  <2>1. /\ \A k \in Keys : RowsTo(k) = {} /\ RowsFrom(k) = {}
        /\ \A c \in Companies : RowsIssued(c) = {}
    BY DEF Init, RowsTo, RowsFrom, RowsIssued
  <2>2. /\ \A k \in Keys : received[k] = 0 /\ sent[k] = 0
        /\ \A c \in Companies : issued[c] = 0
    BY DEF Init
  <2> QED
    BY <2>1, <2>2, TotalEmpty DEF RowTotals
<1>3. Conserved
  <2>1. received = sent /\ \A c \in Companies : issued[c] = 0
    BY DEF Init
  <2>2. sent \in [Keys -> Nat]
    BY DEF Init
  <2>3. \A c \in Companies : OverHolders(sent, c) \in Nat
    BY <2>2, HolderTotals
  <2> QED
    BY <2>1, <2>3 DEF Conserved
<1> QED
  BY <1>1, <1>2, <1>3 DEF SumInv

\* Every total the SUM queries return is that of the committed rows, and in each
\* company the holders' balances add up to what was issued, whatever the two
\* races let through.
THEOREM LedgerAddsUp == Spec => []LedgerMatchesTotals
<1>1. Spec => [](LocalInv /\ SumInv)
  BY LocalInit, LocalStep, SumInit, SumStep, PTL DEF Spec
<1>2. SumInv => LedgerMatchesTotals
  BY DEF SumInv, RowTotals, Conserved, LedgerMatchesTotals
<1> QED
  BY <1>1, <1>2, PTL

===============================================================================
