----------------------------- MODULE CapTableProofs -----------------------------
(* Theorems of CapTable, for any companies, shareholders, amounts, movements   *)
(* and reads.                                                                  *)
(*                                                                             *)
(* Local says what a request knows, and of a balance read that what it was     *)
(* told it received is still the least the holder has received.  Fresh adds    *)
(* that the answers of a cap-table read that no movement has overlapped are    *)
(* the ledger as it is; so is what it will store.  Books is about the ledger   *)
(* alone: its balances add up, and so then do the entries of a cap table.      *)
EXTENDS CapTable, SumsProofs

Totals == [Shareholders -> Int]
Label == {"start", "query", "committed", "second", "done", "failed"}

LedgerOK ==
    /\ received \in [SL!Accounts -> Int]
    /\ sent \in [SL!Accounts -> Int]
    /\ issued \in [Companies -> Int]

RequestsOK ==
    /\ pc \in [Requests -> Label]
    /\ company \in [Requests -> Companies \cup {Nil}]
    /\ \A r \in Requests : pc[r] \in {"query", "committed", "second"} => company[r] \in Companies

ReadsOK ==
    /\ parts \in [Readers -> [issued : Int \cup {Nil}, received : Totals \cup {Nil},
                              sent : Totals \cup {Nil}]]
    /\ \A r \in Readers : parts[r] # NoParts => pc[r] = "query"
    /\ overlapped \in [Readers -> BOOLEAN]

CacheOK ==
    /\ cache = [c \in Companies |-> cache[c]]
    /\ \A c \in Companies : cache[c] # Nil => cache[c].overlapped \in BOOLEAN

\* What a balance read has been told is a lower bound of the received total.
BalancesOK ==
    /\ answer \in [Readers -> [holder : Shareholders \cup {Nil}, shares : Int]]
    /\ \A b \in Readers : pc[b] = "second" =>
          /\ answer[b].holder \in Shareholders
          /\ answer[b].shares <= received[Account(b)]

Local == LedgerOK /\ RequestsOK /\ ReadsOK /\ CacheOK /\ BalancesOK

-------------------------------------------------------------------------------
(* Movements *)

\* A movement of company c never lowers what somebody has received, and leaves
\* the totals of the other companies alone.
LEMMA Moves ==
    ASSUME LedgerOK, NEW c \in Companies, NEW h \in Shareholders, NEW n \in Amounts,
           SL!Issue(c, h, n) \/ \E f \in Shareholders : SL!Transfer(c, f, h, n)
    PROVE  /\ LedgerOK'
           /\ \A k \in SL!Accounts : received[k] <= received'[k]
           /\ \A d \in Companies \ {c} :
                /\ issued'[d] = issued[d]
                /\ \A g \in Shareholders :
                      received'[<<d, g>>] = received[<<d, g>>] /\ sent'[<<d, g>>] = sent[<<d, g>>]
<1>1. n \in Nat /\ <<c, h>> \in SL!Accounts
  BY AmountsAssumption DEF SL!Accounts
<1>2. CASE SL!Issue(c, h, n)
  BY <1>1, <1>2 DEF SL!Issue, LedgerOK, SL!Accounts
<1>3. ASSUME NEW f \in Shareholders, SL!Transfer(c, f, h, n)
      PROVE  /\ LedgerOK'
             /\ \A k \in SL!Accounts : received[k] <= received'[k]
             /\ \A d \in Companies \ {c} :
                  /\ issued'[d] = issued[d]
                  /\ \A g \in Shareholders :
                        received'[<<d, g>>] = received[<<d, g>>] /\ sent'[<<d, g>>] = sent[<<d, g>>]
  BY <1>1, <1>3 DEF SL!Transfer, LedgerOK, SL!Accounts
<1> QED
  BY <1>2, <1>3

-------------------------------------------------------------------------------
(* Local *)

LEMMA LocalInit == Init => Local
<1> SUFFICES ASSUME Init PROVE Local
  OBVIOUS
<1>1. LedgerOK
  BY DEF Init, SL!Init, LedgerOK
<1>2. RequestsOK /\ CacheOK
  BY DEF Init, RequestsOK, CacheOK, Label
<1>3. ReadsOK
  BY DEF Init, ReadsOK, NoParts
<1>4. BalancesOK
  BY DEF Init, BalancesOK, Requests
<1> QED
  BY <1>1, <1>2, <1>3, <1>4 DEF Local

LEMMA LocalCommit ==
    ASSUME Local, NEW w \in Writers, Commit(w)
    PROVE  Local'
<1>1. PICK c \in Companies, h \in Shareholders, n \in Amounts :
        /\ SL!Issue(c, h, n) \/ \E f \in Shareholders : SL!Transfer(c, f, h, n)
        /\ company' = [company EXCEPT ![w] = c]
        /\ overlapped' = [r \in Readers |->
              overlapped[r] \/ (pc[r] = "query" /\ company[r] = c)]
  BY DEF Commit
<1>2. LedgerOK' /\ \A k \in SL!Accounts : received[k] <= received'[k]
  BY <1>1, Moves DEF Local
<1>3. pc[w] = "start" /\ pc' = [pc EXCEPT ![w] = "committed"] /\ UNCHANGED <<cache, parts, answer>>
  BY DEF Commit, Goto
<1>4. RequestsOK'
  BY <1>1, <1>3 DEF Local, RequestsOK, Requests, Label
<1>5. ReadsOK' /\ CacheOK'
  BY <1>1, <1>3 DEF Local, ReadsOK, CacheOK, RequestsOK, Requests
<1>6. BalancesOK'
  <2> SUFFICES ASSUME NEW b \in Readers, pc'[b] = "second"
               PROVE  /\ answer[b].holder \in Shareholders
                      /\ answer[b].shares <= received'[Account(b)']
    BY <1>3 DEF Local, BalancesOK
  <2>1. b # w /\ pc[b] = "second" /\ company'[b] = company[b] /\ company[b] \in Companies
    BY <1>1, <1>3 DEF Local, RequestsOK, Requests
  <2>2. answer[b].holder \in Shareholders /\ answer[b].shares <= received[Account(b)]
    BY <2>1 DEF Local, BalancesOK
  <2>3. Account(b)' = Account(b) /\ Account(b) \in SL!Accounts
    BY <1>3, <2>1, <2>2 DEF Account, SL!Accounts
  <2>4. received[Account(b)] \in Int /\ received'[Account(b)] \in Int /\ answer[b].shares \in Int
    BY <1>2, <2>3 DEF Local, LedgerOK, BalancesOK
  <2> QED
    BY <1>2, <2>2, <2>3, <2>4
<1> QED
  BY <1>2, <1>4, <1>5, <1>6 DEF Local

LEMMA LocalInvalidate ==
    ASSUME Local, NEW w \in Writers, Invalidate(w)
    PROVE  Local'
<1>1. /\ pc[w] = "committed" /\ pc' = [pc EXCEPT ![w] = "done"]
      /\ cache' = [cache EXCEPT ![company[w]] = Nil]
      /\ UNCHANGED <<ledger, company, parts, answer, overlapped>>
  BY DEF Invalidate, Goto
<1>2. LedgerOK' /\ RequestsOK' /\ ReadsOK'
  BY <1>1 DEF Local, LedgerOK, RequestsOK, ReadsOK, ledger, Requests, Label
<1>3. CacheOK'
  BY <1>1 DEF Local, CacheOK
<1>4. BalancesOK'
  BY <1>1 DEF Local, BalancesOK, Account, ledger, RequestsOK, Requests
<1> QED
  BY <1>2, <1>3, <1>4 DEF Local

LEMMA LocalLookup ==
    ASSUME Local, NEW r \in Readers, NEW c \in Companies, Lookup(r, c)
    PROVE  Local'
<1>1. /\ pc[r] = "start"
      /\ \/ pc' = [pc EXCEPT ![r] = "done"] /\ company' = company
         \/ pc' = [pc EXCEPT ![r] = "query"] /\ company' = [company EXCEPT ![r] = c]
      /\ UNCHANGED <<ledger, cache, parts, answer, overlapped>>
  BY DEF Lookup, Goto
<1>2. LedgerOK' /\ CacheOK'
  BY <1>1 DEF Local, LedgerOK, CacheOK, ledger
<1>3. RequestsOK' /\ ReadsOK'
  BY <1>1 DEF Local, RequestsOK, ReadsOK, Requests, Label
<1>4. BalancesOK'
  BY <1>1 DEF Local, BalancesOK, Account, ledger, RequestsOK, Requests
<1> QED
  BY <1>2, <1>3, <1>4 DEF Local

\* What an answer of the database is.
LEMMA Answers ==
    ASSUME Local, NEW r \in Readers, SumIssued(r) \/ SumReceived(r) \/ SumSent(r)
    PROVE  \E part \in {"issued", "received", "sent"} :
             /\ pc[r] = "query" /\ company[r] \in Companies
             /\ UNCHANGED <<ledger, cache, pc, company, answer, overlapped>>
             /\ parts' = [parts EXCEPT ![r] =
                    [@ EXCEPT ![part] =
                        IF part = "issued" THEN issued[company[r]]
                        ELSE IF part = "received"
                        THEN [h \in Shareholders |-> received[<<company[r], h>>]]
                        ELSE [h \in Shareholders |-> sent[<<company[r], h>>]]]]
<1>1. r \in Requests
  BY DEF Requests
<1>2. CASE SumIssued(r)
  BY <1>1, <1>2 DEF SumIssued, Answered, Local, RequestsOK
<1>3. CASE SumReceived(r)
  BY <1>1, <1>3 DEF SumReceived, Answered, Local, RequestsOK
<1>4. CASE SumSent(r)
  BY <1>1, <1>4 DEF SumSent, Answered, Local, RequestsOK
<1> QED
  BY <1>2, <1>3, <1>4

LEMMA LocalSum ==
    ASSUME Local, NEW r \in Readers, SumIssued(r) \/ SumReceived(r) \/ SumSent(r)
    PROVE  Local'
<1>1. PICK part \in {"issued", "received", "sent"} :
        /\ pc[r] = "query" /\ company[r] \in Companies
        /\ UNCHANGED <<ledger, cache, pc, company, answer, overlapped>>
        /\ parts' = [parts EXCEPT ![r] =
               [@ EXCEPT ![part] =
                   IF part = "issued" THEN issued[company[r]]
                   ELSE IF part = "received"
                   THEN [h \in Shareholders |-> received[<<company[r], h>>]]
                   ELSE [h \in Shareholders |-> sent[<<company[r], h>>]]]]
  BY Answers
<1>2. /\ issued[company[r]] \in Int
      /\ [h \in Shareholders |-> received[<<company[r], h>>]] \in Totals
      /\ [h \in Shareholders |-> sent[<<company[r], h>>]] \in Totals
  BY <1>1 DEF Local, LedgerOK, SL!Accounts, Totals
<1>3. ReadsOK'
  BY <1>1, <1>2 DEF Local, ReadsOK, NoParts
<1>4. LedgerOK' /\ RequestsOK' /\ CacheOK' /\ BalancesOK'
  BY <1>1 DEF Local, LedgerOK, RequestsOK, CacheOK, BalancesOK, ledger, Account
<1> QED
  BY <1>3, <1>4 DEF Local

LEMMA LocalFill ==
    ASSUME Local, NEW r \in Readers, Fill(r)
    PROVE  Local'
<1>1. /\ pc[r] = "query" /\ pc' = [pc EXCEPT ![r] = "done"]
      /\ parts' = [parts EXCEPT ![r] = NoParts]
      /\ overlapped' = [overlapped EXCEPT ![r] = FALSE]
      /\ UNCHANGED <<ledger, company, answer>>
  BY DEF Fill, Goto
<1>2. PICK e : cache' = [cache EXCEPT ![company[r]] = [entries |-> e, overlapped |-> overlapped[r]]]
  BY DEF Fill
<1>3. company[r] \in Companies /\ overlapped[r] \in BOOLEAN
  BY <1>1 DEF Local, RequestsOK, ReadsOK, Requests
<1>4. CacheOK'
  BY <1>2, <1>3 DEF Local, CacheOK
<1>5. LedgerOK' /\ RequestsOK'
  BY <1>1 DEF Local, LedgerOK, RequestsOK, ledger, Requests, Label
<1>6. ReadsOK'
  BY <1>1 DEF Local, ReadsOK, NoParts, RequestsOK, Requests
<1>7. BalancesOK'
  BY <1>1 DEF Local, BalancesOK, Account, ledger, RequestsOK, Requests
<1> QED
  BY <1>4, <1>5, <1>6, <1>7 DEF Local

LEMMA LocalFirstSum ==
    ASSUME Local, NEW b \in Readers, NEW c \in Companies, NEW h \in Shareholders,
           FirstSum(b, c, h)
    PROVE  Local'
<1>1. /\ pc[b] = "start" /\ pc' = [pc EXCEPT ![b] = "second"]
      /\ company' = [company EXCEPT ![b] = c]
      /\ answer' = [answer EXCEPT ![b] = [holder |-> h, shares |-> received[<<c, h>>]]]
      /\ UNCHANGED <<ledger, cache, parts, overlapped>>
  BY DEF FirstSum, Goto, Term, BalanceOrder
<1>2. LedgerOK' /\ CacheOK'
  BY <1>1 DEF Local, LedgerOK, CacheOK, ledger
<1>3. RequestsOK' /\ ReadsOK'
  BY <1>1 DEF Local, RequestsOK, ReadsOK, Requests, Label
<1>4. received[<<c, h>>] \in Int
  BY DEF Local, LedgerOK, SL!Accounts
<1>5. BalancesOK'
  <2>1. answer' \in [Readers -> [holder : Shareholders \cup {Nil}, shares : Int]]
    BY <1>1, <1>4 DEF Local, BalancesOK
  <2>2. ASSUME NEW q \in Readers, pc'[q] = "second"
        PROVE  answer'[q].holder \in Shareholders /\ answer'[q].shares <= received'[Account(q)']
    <3>1. CASE q = b
      BY <1>1, <1>4, <3>1 DEF Local, BalancesOK, Account, ledger, RequestsOK, Requests
    <3>2. CASE q # b
      BY <1>1, <2>2, <3>2 DEF Local, BalancesOK, Account, ledger, RequestsOK, Requests
    <3> QED
      BY <3>1, <3>2
  <2> QED
    BY <2>1, <2>2 DEF BalancesOK
<1> QED
  BY <1>2, <1>3, <1>5 DEF Local

\* The second query of a balance ends it with the balance as it is, or less.
LEMMA SecondAnswer ==
    ASSUME Local, NEW b \in Readers, SecondSum(b)
    PROVE  /\ Local'
           /\ answer'[b].shares <= received[Account(b)] - sent[Account(b)]
           /\ \A q \in Readers \ {b} : pc'[q] = pc[q]
<1>1. /\ pc[b] = "second" /\ pc' = [pc EXCEPT ![b] = "done"]
      /\ answer' = [answer EXCEPT ![b].shares = @ + (0 - sent[Account(b)])]
      /\ UNCHANGED <<ledger, cache, company, parts, overlapped>>
  BY DEF SecondSum, Goto, Term, BalanceOrder
<1>2. /\ Account(b) \in SL!Accounts
      /\ answer[b].shares <= received[Account(b)]
      /\ answer[b].shares \in Int /\ answer[b].holder \in Shareholders
  BY <1>1 DEF Local, BalancesOK, RequestsOK, Requests, Account, SL!Accounts
<1>3. received[Account(b)] \in Int /\ sent[Account(b)] \in Int
  BY <1>2 DEF Local, LedgerOK
<1>4. LedgerOK' /\ CacheOK' /\ RequestsOK' /\ ReadsOK'
  BY <1>1 DEF Local, LedgerOK, CacheOK, RequestsOK, ReadsOK, ledger, Requests, Label
<1>5. answer' \in [Readers -> [holder : Shareholders \cup {Nil}, shares : Int]]
  BY <1>1, <1>2, <1>3 DEF Local, BalancesOK
<1>6. answer'[b].shares = answer[b].shares + (0 - sent[Account(b)])
  BY <1>1 DEF Local, BalancesOK
<1>7. ASSUME NEW q \in Readers, pc'[q] = "second"
      PROVE  answer'[q].holder \in Shareholders /\ answer'[q].shares <= received'[Account(q)']
  <2>1. q # b /\ pc[q] = "second" /\ answer'[q] = answer[q]
    BY <1>1, <1>7 DEF Local, BalancesOK, RequestsOK, Requests
  <2>2. Account(q)' = Account(q) /\ received' = received
    BY <1>1, <2>1 DEF Account, ledger
  <2> QED
    BY <2>1, <2>2 DEF Local, BalancesOK
<1>8. BalancesOK'
  BY <1>5, <1>7 DEF BalancesOK
<1>9. \A q \in Readers \ {b} : pc'[q] = pc[q]
  BY <1>1 DEF Local, RequestsOK, Requests
<1> QED
  BY <1>2, <1>3, <1>4, <1>6, <1>8, <1>9 DEF Local

LEMMA LocalEnd ==
    ASSUME Local, Restart \/ \E r \in Readers : Fail(r)
    PROVE  Local'
<1>1. ASSUME NEW r \in Readers, Fail(r) PROVE Local'
  <2>1. /\ pc' = [pc EXCEPT ![r] = "failed"]
        /\ parts' = [q \in Readers |-> IF q = r THEN NoParts ELSE parts[q]]
        /\ overlapped' = [q \in Readers |-> q # r /\ overlapped[q]]
        /\ UNCHANGED <<ledger, cache, company, answer>>
    BY <1>1 DEF Fail, Goto
  <2>2. LedgerOK' /\ CacheOK' /\ RequestsOK'
    BY <2>1 DEF Local, LedgerOK, CacheOK, RequestsOK, ledger, Requests, Label
  <2>3. ReadsOK'
    BY <2>1 DEF Local, ReadsOK, NoParts, RequestsOK, Requests
  <2>4. BalancesOK'
    BY <2>1 DEF Local, BalancesOK, Account, ledger, RequestsOK, Requests
  <2> QED
    BY <2>2, <2>3, <2>4 DEF Local
<1>2. CASE Restart
  <2>1. /\ pc' = [r \in Requests |->
              IF pc[r] \in {"query", "second", "committed"} THEN "failed" ELSE pc[r]]
        /\ parts' = [r \in Readers |-> NoParts]
        /\ overlapped' = [r \in Readers |-> FALSE]
        /\ cache' = [c \in Companies |-> Nil]
        /\ UNCHANGED <<ledger, company, answer>>
    BY <1>2 DEF Restart
  <2>2. LedgerOK' /\ RequestsOK' /\ BalancesOK'
    BY <2>1 DEF Local, LedgerOK, RequestsOK, BalancesOK, ledger, Requests, Label
  <2>3. ReadsOK' /\ CacheOK'
    BY <2>1 DEF ReadsOK, CacheOK, NoParts
  <2> QED
    BY <2>2, <2>3 DEF Local
<1> QED
  BY <1>1, <1>2

LEMMA LocalExpire ==
    ASSUME Local, NEW c \in Companies, Expire(c)
    PROVE  Local'
<1>1. /\ cache' = [cache EXCEPT ![c] = Nil]
      /\ UNCHANGED <<ledger, pc, company, parts, answer, overlapped>>
  BY DEF Expire
<1>2. LedgerOK' /\ RequestsOK' /\ ReadsOK' /\ BalancesOK'
  BY <1>1 DEF Local, LedgerOK, RequestsOK, ReadsOK, BalancesOK, ledger, Account
<1>3. CacheOK'
  BY <1>1 DEF Local, CacheOK
<1> QED
  BY <1>2, <1>3 DEF Local

LEMMA LocalStep == Local /\ [Next]_vars => Local'
<1> SUFFICES ASSUME Local, [Next]_vars PROVE Local'
  OBVIOUS
<1>1. CASE UNCHANGED vars
  BY <1>1 DEF vars, ledger, Local, LedgerOK, RequestsOK, ReadsOK, CacheOK, BalancesOK, Account
<1>2. ASSUME NEW w \in Writers, Commit(w) \/ Invalidate(w) PROVE Local'
  BY <1>2, LocalCommit, LocalInvalidate
<1>3. ASSUME NEW r \in Readers, NEW c \in Companies, Lookup(r, c) PROVE Local'
  BY <1>3, LocalLookup
<1>4. ASSUME NEW r \in Readers, NEW c \in Companies, NEW h \in Shareholders, FirstSum(r, c, h)
      PROVE  Local'
  BY <1>4, LocalFirstSum
<1>5. ASSUME NEW r \in Readers, ReadStep(r) PROVE Local'
  BY <1>5, LocalSum, LocalFill, SecondAnswer DEF ReadStep
<1>6. CASE Restart \/ \E r \in Readers : Fail(r)
  BY <1>6, LocalEnd
<1>7. ASSUME NEW c \in Companies, Expire(c) PROVE Local'
  BY <1>7, LocalExpire
<1> QED
  BY <1>1, <1>2, <1>3, <1>4, <1>5, <1>6, <1>7 DEF Next

LEMMA LocalHolds == Spec => []Local
BY LocalInit, LocalStep, PTL DEF Spec

\* The types of the cap table's variables: what the requests, their answers and
\* the cache of getCapTable and getShareholderBalance may hold.
THEOREM CapTableTypes == Spec => []TypeOK
<1>1. Local => TypeOK
  BY DEF Local, RequestsOK, ReadsOK, CacheOK, BalancesOK, TypeOK, Label
<1> QED
  BY <1>1, LocalHolds, PTL

\* A balance is never overstated: getShareholderBalance reads what was received
\* before what was sent, and neither shrinks.
THEOREM BalancesNotOverstated == Spec => BalanceNotOverstated
<1>1. ASSUME Local, [Next]_vars, NEW b \in Readers, pc[b] = "second", pc'[b] = "done"
      PROVE  answer'[b].shares <= received[Account(b)] - sent[Account(b)]
  <2>0. b \in Requests /\ pc[b] # pc'[b]
    BY <1>1 DEF Requests
  <2>1. ~UNCHANGED vars
    BY <1>1 DEF vars
  <2>2. ASSUME NEW w \in Writers, Commit(w) \/ Invalidate(w) PROVE FALSE
    BY <1>1, <2>0, <2>2 DEF Commit, Invalidate, Goto, Local, RequestsOK, Requests
  <2>3. ASSUME NEW r \in Readers, NEW c \in Companies, Lookup(r, c) PROVE FALSE
    BY <1>1, <2>0, <2>3 DEF Lookup, Goto, Local, RequestsOK, Requests
  <2>4. ASSUME NEW r \in Readers, NEW c \in Companies, NEW h \in Shareholders, FirstSum(r, c, h)
        PROVE  FALSE
    BY <1>1, <2>0, <2>4 DEF FirstSum, Goto, Local, RequestsOK, Requests
  <2>5. ASSUME NEW r \in Readers, SumIssued(r) \/ SumReceived(r) \/ SumSent(r) \/ Fill(r)
        PROVE  FALSE
    BY <1>1, <2>0, <2>5
    DEF SumIssued, SumReceived, SumSent, Answered, Fill, Goto, Local, RequestsOK, Requests
  <2>6. ASSUME NEW r \in Readers, Fail(r) PROVE FALSE
    BY <1>1, <2>0, <2>6 DEF Fail, Goto, Local, RequestsOK, Requests
  <2>7. ASSUME NEW c \in Companies, Expire(c) PROVE FALSE
    BY <2>0, <2>7 DEF Expire
  <2>8. CASE Restart
    BY <1>1, <2>0, <2>8 DEF Restart
  <2>9. ASSUME NEW r \in Readers, SecondSum(r)
        PROVE  answer'[b].shares <= received[Account(b)] - sent[Account(b)]
    BY <1>1, <2>0, <2>9, SecondAnswer
  <2> QED
    BY <1>1, <2>1, <2>2, <2>3, <2>4, <2>5, <2>6, <2>7, <2>8, <2>9 DEF Next, ReadStep
<1>2. Local /\ [Next]_vars =>
        [\A b \in Readers : pc[b] = "second" /\ pc'[b] = "done"
            => answer'[b].shares <= received[Account(b)] - sent[Account(b)]]_vars
  BY <1>1
<1> QED
  BY <1>2, LocalHolds, PTL DEF Spec, BalanceNotOverstated

-------------------------------------------------------------------------------
(* Fresh *)

Received(c) == [h \in Shareholders |-> received[<<c, h>>]]
Sent(c) == [h \in Shareholders |-> sent[<<c, h>>]]

\* What an undisturbed read has is the ledger as it is.
PartsCurrent ==
    \A r \in Readers : pc[r] = "query" /\ ~overlapped[r] =>
        /\ parts[r].issued # Nil => parts[r].issued = issued[company[r]]
        /\ parts[r].received # Nil => parts[r].received = Received(company[r])
        /\ parts[r].sent # Nil => parts[r].sent = Sent(company[r])

Fresh == PartsCurrent /\ StaleOnlyByOverlap

LEMMA FreshInit == Init => Fresh
<1> SUFFICES ASSUME Init PROVE Fresh
  OBVIOUS
<1>1. PartsCurrent
  BY DEF Init, PartsCurrent, Requests
<1>2. StaleOnlyByOverlap
  BY DEF Init, StaleOnlyByOverlap
<1> QED
  BY <1>1, <1>2 DEF Fresh

\* The cap table of a company that no movement touches stays the same.
LEMMA SameTotals ==
    ASSUME NEW c \in Companies, issued'[c] = issued[c],
           \A h \in Shareholders :
              received'[<<c, h>>] = received[<<c, h>>] /\ sent'[<<c, h>>] = sent[<<c, h>>]
    PROVE  Current(c)' = Current(c) /\ Received(c)' = Received(c) /\ Sent(c)' = Sent(c)
<1>1. Received(c)' = Received(c) /\ Sent(c)' = Sent(c)
  BY DEF Received, Sent
<1>2. Current(c) = Entries(c, issued[c], Received(c), Sent(c))
  BY DEF Current, Received, Sent
<1>3. Current(c)' = Entries(c, issued'[c], Received(c)', Sent(c)')
  BY DEF Current, Received, Sent
<1> QED
  BY <1>1, <1>2, <1>3

\* A step that leaves the ledger alone, stores nothing but Nil, and ends no
\* invalidation without its deletion, keeps what is stored fresh.
LEMMA StoredStays ==
    ASSUME Local, StaleOnlyByOverlap, UNCHANGED ledger,
           \A c \in Companies : cache'[c] \in {cache[c], Nil},
           \A c \in Companies : Invalidating(c) => Invalidating(c)' \/ cache'[c] = Nil
    PROVE  StaleOnlyByOverlap'
<1> SUFFICES ASSUME NEW c \in Companies, cache'[c] # Nil, ~Invalidating(c)',
                    ~cache'[c].overlapped
             PROVE  cache'[c].entries = Current(c)'
  BY DEF StaleOnlyByOverlap
<1>1. cache'[c] = cache[c] /\ ~Invalidating(c)
  OBVIOUS
<1>2. cache[c].entries = Current(c)
  BY <1>1 DEF StaleOnlyByOverlap
<1>3. Current(c)' = Current(c)
  BY SameTotals DEF ledger
<1> QED
  BY <1>1, <1>2, <1>3

\* Reads that go on as they were have what they had.
LEMMA PartsStay ==
    ASSUME Local, PartsCurrent, UNCHANGED ledger,
           \A r \in Readers : pc'[r] = "query" /\ ~overlapped'[r] =>
              \/ /\ pc[r] = "query" /\ ~overlapped[r]
                 /\ company'[r] = company[r] /\ parts'[r] = parts[r]
              \/ parts'[r] = NoParts
    PROVE  PartsCurrent'
<1> SUFFICES ASSUME NEW r \in Readers, pc'[r] = "query", ~overlapped'[r]
             PROVE  /\ parts'[r].issued # Nil => parts'[r].issued = issued'[company'[r]]
                    /\ parts'[r].received # Nil => parts'[r].received = Received(company[r])'
                    /\ parts'[r].sent # Nil => parts'[r].sent = Sent(company[r])'
  BY DEF PartsCurrent
<1>1. CASE parts'[r] = NoParts
  BY <1>1 DEF NoParts
<1>2. CASE /\ pc[r] = "query" /\ ~overlapped[r]
           /\ company'[r] = company[r] /\ parts'[r] = parts[r]
  BY <1>2 DEF PartsCurrent, Received, Sent, ledger
<1> QED
  BY <1>1, <1>2

LEMMA FreshCommit ==
    ASSUME Local, Fresh, NEW w \in Writers, Commit(w)
    PROVE  Fresh'
<1>1. PICK c \in Companies, h \in Shareholders, n \in Amounts :
        /\ SL!Issue(c, h, n) \/ \E f \in Shareholders : SL!Transfer(c, f, h, n)
        /\ company' = [company EXCEPT ![w] = c]
        /\ overlapped' = [r \in Readers |->
              overlapped[r] \/ (pc[r] = "query" /\ company[r] = c)]
  BY DEF Commit
<1>2. pc[w] = "start" /\ pc' = [pc EXCEPT ![w] = "committed"] /\ UNCHANGED <<cache, parts, answer>>
  BY DEF Commit, Goto
<1>3. ASSUME NEW d \in Companies \ {c}
      PROVE  /\ Current(d)' = Current(d) /\ Received(d)' = Received(d) /\ Sent(d)' = Sent(d)
             /\ issued'[d] = issued[d]
  <2>1. /\ issued'[d] = issued[d]
        /\ \A g \in Shareholders :
              received'[<<d, g>>] = received[<<d, g>>] /\ sent'[<<d, g>>] = sent[<<d, g>>]
    BY <1>1, Moves DEF Local
  <2> QED
    BY <2>1, SameTotals
<1>4. PartsCurrent'
  <2> SUFFICES ASSUME NEW r \in Readers, pc'[r] = "query", ~overlapped'[r]
               PROVE  /\ parts'[r].issued # Nil => parts'[r].issued = issued'[company'[r]]
                      /\ parts'[r].received # Nil => parts'[r].received = Received(company[r])'
                      /\ parts'[r].sent # Nil => parts'[r].sent = Sent(company[r])'
    BY DEF PartsCurrent
  <2>1. r # w /\ pc[r] = "query" /\ company'[r] = company[r]
    BY <1>1, <1>2 DEF Local, RequestsOK, Requests
  <2>2. ~overlapped[r] /\ company[r] \in Companies \ {c}
    BY <1>1, <2>1 DEF Local, RequestsOK, Requests
  <2>3. /\ parts[r].issued # Nil => parts[r].issued = issued[company[r]]
        /\ parts[r].received # Nil => parts[r].received = Received(company[r])
        /\ parts[r].sent # Nil => parts[r].sent = Sent(company[r])
    BY <2>1, <2>2, Fresh DEF Fresh, PartsCurrent
  <2>4. Received(company[r])' = Received(company[r]) /\ Sent(company[r])' = Sent(company[r])
    BY <1>3, <2>1, <2>2 DEF Received, Sent
  <2> QED
    BY <1>2, <1>3, <2>1, <2>2, <2>3, <2>4
<1>5. StaleOnlyByOverlap'
  <2> SUFFICES ASSUME NEW d \in Companies, cache'[d] # Nil, ~Invalidating(d)',
                      ~cache'[d].overlapped
               PROVE  cache'[d].entries = Current(d)'
    BY DEF StaleOnlyByOverlap
  <2>1. pc'[w] = "committed" /\ company'[w] = c
    BY <1>1, <1>2 DEF Local, RequestsOK, Requests
  <2>2. d # c
    BY <2>1 DEF Invalidating
  <2>3. ~Invalidating(d)
    BY <1>1, <1>2, <2>1 DEF Invalidating, Local, RequestsOK, Requests
  <2>4. cache[d].entries = Current(d)
    BY <1>2, <2>3, Fresh DEF Fresh, StaleOnlyByOverlap
  <2> QED
    BY <1>2, <1>3, <2>2, <2>4
<1> QED
  BY <1>4, <1>5 DEF Fresh

LEMMA FreshInvalidate ==
    ASSUME Local, Fresh, NEW w \in Writers, Invalidate(w)
    PROVE  Fresh'
<1>1. /\ pc[w] = "committed" /\ pc' = [pc EXCEPT ![w] = "done"]
      /\ cache' = [cache EXCEPT ![company[w]] = Nil]
      /\ UNCHANGED <<ledger, company, parts, answer, overlapped>>
  BY DEF Invalidate, Goto
<1>2. PartsCurrent'
  BY <1>1, PartsStay DEF Fresh, Local, RequestsOK, Requests
<1>3. \A c \in Companies : cache'[c] \in {cache[c], Nil}
  BY <1>1 DEF Local, CacheOK
<1>4. \A c \in Companies : Invalidating(c) => Invalidating(c)' \/ cache'[c] = Nil
  BY <1>1 DEF Invalidating, Local, CacheOK, RequestsOK, Requests
<1> QED
  BY <1>1, <1>2, <1>3, <1>4, StoredStays DEF Fresh

LEMMA FreshLookup ==
    ASSUME Local, Fresh, NEW r \in Readers, NEW c \in Companies, Lookup(r, c)
    PROVE  Fresh'
<1>1. /\ pc[r] = "start"
      /\ \/ pc' = [pc EXCEPT ![r] = "done"] /\ company' = company
         \/ pc' = [pc EXCEPT ![r] = "query"] /\ company' = [company EXCEPT ![r] = c]
      /\ UNCHANGED <<ledger, cache, parts, answer, overlapped>>
  BY DEF Lookup, Goto
<1>2. parts'[r] = NoParts
  BY <1>1 DEF Local, ReadsOK
<1>3. PartsCurrent'
  BY <1>1, <1>2, PartsStay DEF Fresh, Local, RequestsOK, Requests
<1>4. \A d \in Companies : Invalidating(d) => Invalidating(d)'
  BY <1>1 DEF Invalidating, Local, RequestsOK, Requests
<1> QED
  BY <1>1, <1>3, <1>4, StoredStays DEF Fresh

LEMMA FreshSum ==
    ASSUME Local, Fresh, NEW r \in Readers, SumIssued(r) \/ SumReceived(r) \/ SumSent(r)
    PROVE  Fresh'
<1>1. PICK part \in {"issued", "received", "sent"} :
        /\ pc[r] = "query" /\ company[r] \in Companies
        /\ UNCHANGED <<ledger, cache, pc, company, answer, overlapped>>
        /\ parts' = [parts EXCEPT ![r] =
               [@ EXCEPT ![part] =
                   IF part = "issued" THEN issued[company[r]]
                   ELSE IF part = "received"
                   THEN [h \in Shareholders |-> received[<<company[r], h>>]]
                   ELSE [h \in Shareholders |-> sent[<<company[r], h>>]]]]
  BY Answers
<1>2. \A q \in Readers : /\ Received(company[q])' = Received(company[q])
                         /\ Sent(company[q])' = Sent(company[q])
  BY <1>1 DEF Received, Sent, ledger
<1>3. PartsCurrent'
  <2> SUFFICES ASSUME NEW q \in Readers, pc'[q] = "query", ~overlapped'[q]
               PROVE  /\ parts'[q].issued # Nil => parts'[q].issued = issued'[company'[q]]
                      /\ parts'[q].received # Nil => parts'[q].received = Received(company[q])'
                      /\ parts'[q].sent # Nil => parts'[q].sent = Sent(company[q])'
    BY DEF PartsCurrent
  <2>1. /\ parts[q].issued # Nil => parts[q].issued = issued[company[q]]
        /\ parts[q].received # Nil => parts[q].received = Received(company[q])
        /\ parts[q].sent # Nil => parts[q].sent = Sent(company[q])
    BY <1>1, Fresh DEF Fresh, PartsCurrent
  <2>2. CASE q # r
    BY <1>1, <1>2, <2>1, <2>2 DEF Local, ReadsOK, ledger
  <2>3. CASE q = r
    <3>1. /\ parts'[r].issued \in {parts[r].issued, issued[company[r]]}
          /\ parts'[r].received \in {parts[r].received, Received(company[r])}
          /\ parts'[r].sent \in {parts[r].sent, Sent(company[r])}
      BY <1>1 DEF Local, ReadsOK, Received, Sent
    <3> QED
      BY <1>1, <1>2, <2>1, <2>3, <3>1 DEF ledger
  <2> QED
    BY <2>2, <2>3
<1>4. \A c \in Companies : Invalidating(c) => Invalidating(c)'
  BY <1>1 DEF Invalidating
<1> QED
  BY <1>1, <1>3, <1>4, StoredStays DEF Fresh

LEMMA FreshFill ==
    ASSUME Local, Fresh, NEW r \in Readers, Fill(r)
    PROVE  Fresh'
<1>1. /\ pc[r] = "query" /\ pc' = [pc EXCEPT ![r] = "done"]
      /\ cache' = [cache EXCEPT ![company[r]] =
            [entries |-> Entries(company[r], parts[r].issued, parts[r].received, parts[r].sent),
             overlapped |-> overlapped[r]]]
      /\ \A part \in DOMAIN parts[r] : parts[r][part] # Nil
      /\ parts' = [parts EXCEPT ![r] = NoParts]
      /\ overlapped' = [overlapped EXCEPT ![r] = FALSE]
      /\ UNCHANGED <<ledger, company, answer>>
  BY DEF Fill, Goto
<1>2. company[r] \in Companies
  BY <1>1 DEF Local, RequestsOK, Requests
<1>3. parts[r].issued # Nil /\ parts[r].received # Nil /\ parts[r].sent # Nil
  BY <1>1 DEF Local, ReadsOK
<1>4. PartsCurrent'
  BY <1>1, PartsStay DEF Fresh, Local, RequestsOK, ReadsOK, Requests
<1>5. StaleOnlyByOverlap'
  <2> SUFFICES ASSUME NEW c \in Companies, cache'[c] # Nil, ~Invalidating(c)',
                      ~cache'[c].overlapped
               PROVE  cache'[c].entries = Current(c)'
    BY DEF StaleOnlyByOverlap
  <2>1. Current(c)' = Current(c)
    BY <1>1, SameTotals DEF ledger
  <2>2. CASE c = company[r]
    <3>1. /\ cache'[c].overlapped = overlapped[r]
          /\ cache'[c].entries = Entries(c, parts[r].issued, parts[r].received, parts[r].sent)
      BY <1>1, <2>2 DEF Local, CacheOK
    <3>2. /\ parts[r].issued = issued[c] /\ parts[r].received = Received(c)
          /\ parts[r].sent = Sent(c)
      BY <1>1, <1>3, <2>2, <3>1, Fresh DEF Fresh, PartsCurrent
    <3> QED
      BY <2>1, <3>1, <3>2 DEF Current, Received, Sent
  <2>3. CASE c # company[r]
    <3>1. cache'[c] = cache[c]
      BY <1>1, <2>3 DEF Local, CacheOK
    <3>2. ~Invalidating(c)
      BY <1>1 DEF Invalidating, Local, RequestsOK, Requests
    <3> QED
      BY <2>1, <3>1, <3>2, Fresh DEF Fresh, StaleOnlyByOverlap
  <2> QED
    BY <2>2, <2>3
<1> QED
  BY <1>4, <1>5 DEF Fresh

\* Balance reads do not touch the cap tables.
LEMMA FreshBalance ==
    ASSUME Local, Fresh, NEW b \in Readers,
           SecondSum(b) \/ \E c \in Companies, h \in Shareholders : FirstSum(b, c, h)
    PROVE  Fresh'
<1>1. /\ pc[b] \in {"start", "second"}
      /\ pc' = [pc EXCEPT ![b] = "done"] \/ pc' = [pc EXCEPT ![b] = "second"]
      /\ \A q \in Requests \ {b} : company'[q] = company[q]
      /\ UNCHANGED <<ledger, cache, parts, overlapped>>
  BY DEF SecondSum, FirstSum, Goto, Local, RequestsOK
<1>2. PartsCurrent'
  BY <1>1, PartsStay DEF Fresh, Local, RequestsOK, Requests
<1>3. \A c \in Companies : Invalidating(c) => Invalidating(c)'
  BY <1>1 DEF Invalidating, Local, RequestsOK, Requests
<1> QED
  BY <1>1, <1>2, <1>3, StoredStays DEF Fresh

LEMMA FreshEnd ==
    ASSUME Local, Fresh,
           \/ Restart
           \/ \E r \in Readers : Fail(r)
           \/ \E c \in Companies : Expire(c)
    PROVE  Fresh'
<1>1. ASSUME NEW r \in Readers, Fail(r) PROVE Fresh'
  <2>1. /\ pc[r] \in {"query", "second"} /\ pc' = [pc EXCEPT ![r] = "failed"]
        /\ parts' = [q \in Readers |-> IF q = r THEN NoParts ELSE parts[q]]
        /\ overlapped' = [q \in Readers |-> q # r /\ overlapped[q]]
        /\ UNCHANGED <<ledger, cache, company, answer>>
    BY <1>1 DEF Fail, Goto
  <2>2. PartsCurrent'
    BY <2>1, PartsStay DEF Fresh, Local, RequestsOK, Requests
  <2>3. \A c \in Companies : Invalidating(c) => Invalidating(c)'
    BY <2>1 DEF Invalidating, Local, RequestsOK, Requests
  <2> QED
    BY <2>1, <2>2, <2>3, StoredStays DEF Fresh
<1>2. ASSUME NEW c \in Companies, Expire(c) PROVE Fresh'
  <2>1. /\ cache' = [cache EXCEPT ![c] = Nil]
        /\ UNCHANGED <<ledger, pc, company, parts, answer, overlapped>>
    BY <1>2 DEF Expire
  <2>2. PartsCurrent'
    BY <2>1, PartsStay DEF Fresh
  <2>3. \A d \in Companies : cache'[d] \in {cache[d], Nil}
    BY <2>1 DEF Local, CacheOK
  <2>4. \A d \in Companies : Invalidating(d) => Invalidating(d)'
    BY <2>1 DEF Invalidating
  <2> QED
    BY <2>1, <2>2, <2>3, <2>4, StoredStays DEF Fresh
<1>3. CASE Restart
  <2>1. /\ \A r \in Readers : parts'[r] = NoParts
        /\ \A c \in Companies : cache'[c] = Nil
        /\ UNCHANGED ledger
    BY <1>3 DEF Restart
  <2>2. PartsCurrent'
    BY <2>1, PartsStay DEF Fresh
  <2> QED
    BY <2>1, <2>2, StoredStays DEF Fresh
<1> QED
  BY <1>1, <1>2, <1>3

LEMMA FreshStep == Local /\ Fresh /\ [Next]_vars => Fresh'
<1> SUFFICES ASSUME Local, Fresh, [Next]_vars PROVE Fresh'
  OBVIOUS
<1>1. CASE UNCHANGED vars
  <2>1. PartsCurrent'
    BY <1>1, PartsStay DEF Fresh, vars
  <2>2. \A c \in Companies : Invalidating(c) => Invalidating(c)'
    BY <1>1 DEF Invalidating, vars
  <2> QED
    BY <1>1, <2>1, <2>2, StoredStays DEF Fresh, vars
<1>2. ASSUME NEW w \in Writers, Commit(w) \/ Invalidate(w) PROVE Fresh'
  BY <1>2, FreshCommit, FreshInvalidate
<1>3. ASSUME NEW r \in Readers, NEW c \in Companies, Lookup(r, c) PROVE Fresh'
  BY <1>3, FreshLookup
<1>4. ASSUME NEW r \in Readers, NEW c \in Companies, NEW h \in Shareholders, FirstSum(r, c, h)
      PROVE  Fresh'
  BY <1>4, FreshBalance
<1>5. ASSUME NEW r \in Readers, ReadStep(r) PROVE Fresh'
  BY <1>5, FreshSum, FreshFill, FreshBalance DEF ReadStep
<1>6. CASE Restart \/ (\E r \in Readers : Fail(r)) \/ (\E c \in Companies : Expire(c))
  BY <1>6, FreshEnd
<1> QED
  BY <1>1, <1>2, <1>3, <1>4, <1>5, <1>6 DEF Next

\* A cached cap table is the ledger's unless a movement is about to delete it or
\* committed during the read that stored it: getCapTable reads no total twice and
\* every movement invalidates after its commit.
THEOREM StalenessExplained == Spec => []StaleOnlyByOverlap
<1>1. Init => Fresh
  BY FreshInit
<1>2. Local /\ Fresh /\ [Next]_vars => Fresh'
  BY FreshStep
<1>3. Fresh => StaleOnlyByOverlap
  BY DEF Fresh
<1> QED
  BY <1>1, <1>2, <1>3, LocalHolds, PTL DEF Spec

-------------------------------------------------------------------------------
(* Books: nobody has sent more than it received, and what the holders of a     *)
(* company are left with adds up to what it issued.  A transfer takes from one *)
(* holder what it gives to another.                                            *)
Worth(c) == [h \in Shareholders |-> received[<<c, h>>] - sent[<<c, h>>]]

Books ==
    \A c \in Companies :
        /\ \A h \in Shareholders : Worth(c)[h] \in Nat
        /\ issued[c] = Total(Worth(c), Shareholders)

LEMMA BooksInit == Init => Books
<1> SUFFICES ASSUME Init, NEW c \in Companies
             PROVE  /\ \A h \in Shareholders : Worth(c)[h] \in Nat
                    /\ issued[c] = Total(Worth(c), Shareholders)
  BY DEF Books
<1>1. issued[c] = 0 /\ \A h \in Shareholders : Worth(c)[h] = 0
  BY DEF Init, SL!Init, SL!Accounts, Worth
<1>2. {h \in Shareholders : Worth(c)[h] > 0} = {}
  BY <1>1
<1> QED
  BY <1>1, <1>2, TotalPositive, TotalEmpty

LEMMA BooksMove ==
    ASSUME LedgerOK, Books, NEW c \in Companies, NEW h \in Shareholders, NEW n \in Amounts,
           SL!Issue(c, h, n) \/ \E f \in Shareholders : SL!Transfer(c, f, h, n)
    PROVE  Books'
<1>1. n \in Nat /\ \A d \in Companies, g \in Shareholders : <<d, g>> \in SL!Accounts
  BY AmountsAssumption DEF SL!Accounts
<1>2. \A d \in Companies, g \in Shareholders :
          /\ received[<<d, g>>] \in Int /\ sent[<<d, g>>] \in Int
          /\ Worth(d)[g] = received[<<d, g>>] - sent[<<d, g>>]
          /\ Worth(d)'[g] = received'[<<d, g>>] - sent'[<<d, g>>]
  BY <1>1 DEF LedgerOK, Worth
<1>3. \A d \in Companies \ {c} : Worth(d)' = Worth(d) /\ issued'[d] = issued[d]
  BY Moves DEF Worth
<1>4. ASSUME SL!Issue(c, h, n)
      PROVE  /\ \A g \in Shareholders : Worth(c)'[g] \in Nat
             /\ issued'[c] = Total(Worth(c)', Shareholders)
  <2>1. /\ Worth(c)'[h] = Worth(c)[h] + n
        /\ \A g \in Shareholders \ {h} : Worth(c)'[g] = Worth(c)[g]
        /\ issued'[c] = issued[c] + n
    <3>1. /\ received'[<<c, h>>] = received[<<c, h>>] + n
          /\ \A g \in Shareholders \ {h} : received'[<<c, g>>] = received[<<c, g>>]
          /\ sent' = sent /\ issued'[c] = issued[c] + n
      BY <1>1, <1>4 DEF SL!Issue, LedgerOK
    <3>2. Worth(c)'[h] = Worth(c)[h] + n
      <4>1. /\ received[<<c, h>>] \in Int /\ sent[<<c, h>>] \in Int
            /\ Worth(c)[h] = received[<<c, h>>] - sent[<<c, h>>]
            /\ Worth(c)'[h] = received'[<<c, h>>] - sent'[<<c, h>>]
        BY <1>2
      <4> QED
        BY <1>1, <3>1, <4>1
    <3>3. ASSUME NEW g \in Shareholders \ {h} PROVE Worth(c)'[g] = Worth(c)[g]
      <4>1. /\ Worth(c)[g] = received[<<c, g>>] - sent[<<c, g>>]
            /\ Worth(c)'[g] = received'[<<c, g>>] - sent'[<<c, g>>]
        BY <1>2
      <4> QED
        BY <3>1, <4>1
    <3> QED
      BY <3>1, <3>2, <3>3
  <2>2. \A g \in Shareholders : Worth(c)[g] \in Nat
    BY DEF Books
  <2>3. issued[c] = Total(Worth(c), Shareholders)
    BY DEF Books
  <2> DEFINE w == Worth(c)
             v == Worth(c)'
  <2> HIDE DEF w, v
  <2>4. Total(v, Shareholders) = Total(w, Shareholders) + n
    BY <1>1, <2>1, <2>2, ShareholdersAssumption, TotalRaised DEF w, v
  <2> QED
    BY <1>1, <2>1, <2>2, <2>3, <2>4 DEF w, v
<1>5. ASSUME NEW f \in Shareholders, SL!Transfer(c, f, h, n)
      PROVE  /\ \A g \in Shareholders : Worth(c)'[g] \in Nat
             /\ issued'[c] = Total(Worth(c)', Shareholders)
  <2> DEFINE w == Worth(c)
             v == Worth(c)'
             u == [g \in Shareholders |-> IF g = f THEN w[g] - n ELSE w[g]]
  <2>1. \A g \in Shareholders : w[g] \in Nat
    BY DEF Books
  <2>2. w[f] >= n /\ issued' = issued
    BY <1>2, <1>5 DEF SL!Transfer
  <2>3. \A g \in Shareholders : v[g] = IF g = h THEN u[g] + n ELSE u[g]
    <3> SUFFICES ASSUME NEW g \in Shareholders
                 PROVE  v[g] = IF g = h THEN u[g] + n ELSE u[g]
      OBVIOUS
    <3>1. /\ received'[<<c, g>>] = IF g = h THEN received[<<c, g>>] + n ELSE received[<<c, g>>]
          /\ sent'[<<c, g>>] = IF g = f THEN sent[<<c, g>>] + n ELSE sent[<<c, g>>]
      BY <1>1, <1>5 DEF SL!Transfer, LedgerOK
    <3> QED
      BY <1>1, <1>2, <3>1
  <2>4. /\ \A g \in Shareholders : u[g] \in Nat
        /\ w[f] = u[f] + n /\ \A g \in Shareholders \ {f} : w[g] = u[g]
    BY <1>1, <2>1, <2>2
  <2>5. issued[c] = Total(w, Shareholders)
    BY DEF Books
  <2> HIDE DEF u, v, w
  <2>6. Total(w, Shareholders) = Total(u, Shareholders) + n
    BY <1>1, <2>4, ShareholdersAssumption, TotalRaised
  <2>7. v[h] = u[h] + n /\ \A g \in Shareholders \ {h} : v[g] = u[g]
    BY <2>3
  <2>8. Total(v, Shareholders) = Total(u, Shareholders) + n
    BY <1>1, <2>4, <2>7, ShareholdersAssumption, TotalRaised
  <2>9. \A g \in Shareholders : v[g] \in Nat
    BY <1>1, <2>3, <2>4
  <2> QED
    BY <2>2, <2>5, <2>6, <2>8, <2>9 DEF v, w
<1>6. ASSUME NEW d \in Companies
      PROVE  /\ \A g \in Shareholders : Worth(d)'[g] \in Nat
             /\ issued'[d] = Total(Worth(d)', Shareholders)
  <2>1. CASE d = c
    BY <1>4, <1>5, <2>1
  <2>2. CASE d # c
    BY <1>3, <2>2 DEF Books
  <2> QED
    BY <2>1, <2>2
<1> QED
  BY <1>6 DEF Books, Total, Units

LEMMA BooksStep == Local /\ Books /\ [Next]_vars => Books'
<1> SUFFICES ASSUME Local, Books, [Next]_vars PROVE Books'
  OBVIOUS
<1>1. ASSUME NEW w \in Writers, Commit(w) PROVE Books'
  BY <1>1, BooksMove DEF Commit, Local
<1>2. ASSUME UNCHANGED ledger PROVE Books'
  <2>1. \A c \in Companies : Worth(c)' = Worth(c) /\ issued'[c] = issued[c]
    BY <1>2 DEF Worth, ledger
  <2>2. \A c \in Companies : Total(Worth(c), Shareholders)' = Total(Worth(c), Shareholders)
    BY <2>1 DEF Total, Units
  <2> QED
    BY <2>1, <2>2 DEF Books
<1>3. \/ UNCHANGED ledger
      \/ \E w \in Writers : Commit(w)
  BY DEF Next, vars, Invalidate, Lookup, FirstSum, ReadStep, SumIssued, SumReceived, SumSent,
     Answered, Fill, SecondSum, Fail, Expire, Restart
<1> QED
  BY <1>1, <1>2, <1>3

LEMMA BooksHold == Spec => []Books
BY BooksInit, BooksStep, LocalHolds, PTL DEF Spec

-------------------------------------------------------------------------------
(* The percentages.  Each is rounded to the nearest hundredth, so twice the    *)
(* total times it is within one total of 20000 times the balance.              *)
Nearest(p, b, t) == p \in Nat /\ Near(2 * t, p, 20000, b, t)

LEMMA Rounded ==
    ASSUME NEW b \in Nat, NEW t \in Nat, t > 0
    PROVE  Nearest(Hundredths(b, t), b, t)
<1> DEFINE x == 20000 * b + t
           y == 2 * t
           q == x \div y
<1>1. x \in Nat /\ y \in Nat /\ y > 0
  OBVIOUS
<1>2. Hundredths(b, t) = q
  BY DEF Hundredths
<1> HIDE DEF x, y
<1>3. q \in Nat /\ y * q <= x /\ x < y * q + y
  BY <1>1
<1> HIDE DEF q
<1>4. y * q \in Int
  BY <1>1, <1>3
<1>5. y * q - 20000 * b <= t /\ 20000 * b - y * q <= t
  BY <1>3, <1>4 DEF x, y
<1> QED
  BY <1>2, <1>3, <1>5 DEF y, Nearest, Near

LEMMA NoMore ==
    ASSUME NEW t \in Nat, t > 0, NEW z \in Int, t * z <= 0
    PROVE  z <= 0
OBVIOUS

\* The cap table of the ledger as it is accounts for every issued share.
LEMMA CurrentAddsUp ==
    ASSUME LedgerOK, Books, NEW c \in Companies, issued[c] > 0,
           NEW entries, entries = Current(c), NEW percent,
           percent = Total([e \in entries |-> e.ownershipPercentage], entries)
    PROVE  /\ Total([e \in entries |-> e.shares], entries) = issued[c]
           /\ 2 * (percent - 10000) \in -Cardinality(entries)..Cardinality(entries)
<1> DEFINE t == issued[c]
           j == 2 * t
           w == Worth(c)
           holders == {h \in Shareholders : w[h] > 0}
           name == [h \in holders |-> Entry(c, h, w[h], t)]
           share == [h \in holders |-> Hundredths(w[h], t)]
<1>1. \A h \in Shareholders : w[h] \in Nat
  BY DEF Books
<1>2. IsFiniteSet(holders)
  BY ShareholdersAssumption, FS_Subset
<1>3. entries = {name[h] : h \in holders}
  <2>1. \A h \in Shareholders : /\ w[h] = received[<<c, h>>] - sent[<<c, h>>]
                                /\ w[h] > 0 <=> received[<<c, h>>] > sent[<<c, h>>]
    BY DEF Worth, LedgerOK, SL!Accounts
  <2> QED
    BY <2>1 DEF Current, Entries
<1>4. /\ \A g, h \in holders : name[g] = name[h] => g = h
      /\ \A h \in holders : /\ name[h].shares = w[h]
                            /\ name[h].ownershipPercentage = share[h]
  BY DEF Entry
<1>5. t = Total(w, Shareholders) /\ t \in Nat /\ t > 0
  <2>1. t = Total(w, Shareholders)
    BY DEF Books
  <2>2. Total(w, Shareholders) \in Nat
    BY <1>1, ShareholdersAssumption, UnitsFinite
  <2> QED
    BY <2>1, <2>2
<1>6. \A h \in holders : w[h] \in Nat /\ share[h] \in Nat /\ Near(j, share[h], 20000, w[h], t)
  <2> SUFFICES ASSUME NEW h \in holders
               PROVE  w[h] \in Nat /\ share[h] \in Nat /\ Near(j, share[h], 20000, w[h], t)
    OBVIOUS
  <2>1. w[h] \in Nat /\ share[h] = Hundredths(w[h], t) /\ j = 2 * t
    BY <1>1
  <2> HIDE DEF t, j, w, share
  <2>2. Nearest(Hundredths(w[h], t), w[h], t)
    BY <1>5, <2>1, Rounded
  <2> QED
    BY <2>1, <2>2 DEF Nearest
<1>7. t = Total(w, holders)
  BY <1>1, <1>5, TotalPositive
<1> HIDE DEF t, j, w, name, share, holders
<1>8. Names(name, holders, entries) /\ \A h \in holders : name[h] \in entries
  BY <1>3, <1>4 DEF Names
<1>9. /\ Total([e \in entries |-> e.shares], entries) = Total(w, holders)
      /\ Cardinality(entries) = Cardinality(holders)
  <2> DEFINE f == [e \in entries |-> e.shares]
  <2>1. \A h \in holders : w[h] \in Nat /\ f[name[h]] = w[h]
    BY <1>4, <1>6, <1>8
  <2> HIDE DEF f
  <2>2. Total(f, entries) = Total(w, holders) /\ Cardinality(entries) = Cardinality(holders)
    BY <1>2, <1>8, <2>1, TotalRenamed
  <2> QED
    BY <2>2 DEF f
<1>10. percent = Total(share, holders)
  <2> DEFINE f == [e \in entries |-> e.ownershipPercentage]
  <2>1. \A h \in holders : share[h] \in Nat /\ f[name[h]] = share[h]
    BY <1>4, <1>6, <1>8
  <2> HIDE DEF f
  <2>2. Total(f, entries) = Total(share, holders)
    BY <1>2, <1>8, <2>1, TotalRenamed
  <2> QED
    BY <2>2 DEF f
<1> DEFINE size == Cardinality(holders)
<1>11. size \in Nat /\ percent \in Nat
  BY <1>2, <1>6, <1>10, FS_CardinalityType, UnitsFinite
<1>12. (2 * t) * percent - 20000 * t <= t * size /\ 20000 * t - (2 * t) * percent <= t * size
  <2>1. j \in Nat /\ 20000 \in Nat
    BY <1>5 DEF j
  <2>2. Near(j, Total(share, holders), 20000, Total(w, holders), t * size)
    BY <1>2, <1>5, <1>6, <2>1, TotalNear
  <2> QED
    BY <1>7, <1>10, <2>2 DEF Near, j
<1> HIDE DEF size
<1>13. 2 * (percent - 10000) <= size
  <2>1. t * (2 * (percent - 10000) - size) <= 0
    BY <1>5, <1>11, <1>12
  <2> QED
    BY <1>5, <1>11, <2>1, NoMore
<1>14. -size <= 2 * (percent - 10000)
  <2>1. t * (-size - 2 * (percent - 10000)) <= 0
    BY <1>5, <1>11, <1>12
  <2> QED
    BY <1>5, <1>11, <2>1, NoMore
<1> QED
  BY <1>7, <1>9, <1>11, <1>13, <1>14 DEF size, t

\* A cached cap table that no movement overlapped accounts for every issued share
\* and its percentages add up to 100 within half a hundredth an entry.
THEOREM CapTablesAddUp == Spec => []CapTableAddsUp
<1>1. Local /\ Books /\ StaleOnlyByOverlap => CapTableAddsUp
  <2> SUFFICES ASSUME Local, Books, StaleOnlyByOverlap, NEW c \in Companies,
                      cache[c] # Nil, ~Invalidating(c), ~cache[c].overlapped, issued[c] > 0,
                      NEW entries, entries = cache[c].entries, NEW percent,
                      percent = Total([e \in entries |-> e.ownershipPercentage], entries)
               PROVE  /\ Total([e \in entries |-> e.shares], entries) = issued[c]
                      /\ 2 * (percent - 10000) \in -Cardinality(entries)..Cardinality(entries)
    BY DEF CapTableAddsUp
  <2>1. entries = Current(c)
    BY DEF StaleOnlyByOverlap
  <2> QED
    BY <2>1, CurrentAddsUp DEF Local
<1> QED
  BY <1>1, LocalHolds, BooksHold, StalenessExplained, PTL
===============================================================================
