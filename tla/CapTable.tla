-------------------------------- MODULE CapTable --------------------------------
(* Reading the ledger while it changes: the cap table with its response cache,  *)
(* and the balance of one shareholder.                                          *)
(*                                                                              *)
(* GET cap-table looks the response up under a key of the company.  On a miss   *)
(* getCapTable sends three SUM queries at once, on connections of their own, so *)
(* each sees the ledger as it is when that query runs; the response is computed *)
(* and stored when all three have answered.  A movement deletes the key after   *)
(* its commit.  The cache lives in the memory of the process and keeps an entry *)
(* for at most 30 seconds.  GET balance is not cached and sends its two queries *)
(* one after the other.  The movements are the atomic steps of ShareLedger.     *)
EXTENDS Integers, Sums

CONSTANTS
    Companies, Shareholders, CompanyOf, AuthorizedCapital, ParValue, Amounts,
    Writers,         \* movements: one issue or transfer each
    Readers,         \* GET requests: of the cap table or of a balance
    Nil

ASSUME CompanyOfAssumption == CompanyOf \in [Shareholders -> Companies]
\* A table has finitely many rows.
ASSUME ShareholdersAssumption == IsFiniteSet(Shareholders)
ASSUME AmountsAssumption == Amounts \subseteq Nat

VARIABLES
    received, sent, issued,  \* the ledger, by its totals
    cache,      \* the entry of each company, or Nil
    pc,         \* where each request is
    company,    \* the company each request is about
    parts,      \* the answers a cap-table read has so far
    answer,     \* per balance read: the holder, and the number it has read
    overlapped  \* history: a movement committed during the cap-table read

ledger == <<received, sent, issued>>
vars == <<ledger, cache, pc, company, parts, answer, overlapped>>

Requests == Writers \cup Readers
NoParts == [issued |-> Nil, received |-> Nil, sent |-> Nil]

SL == INSTANCE ShareLedger

Init ==
    /\ SL!Init
    /\ cache = [c \in Companies |-> Nil]
    /\ pc = [r \in Requests |-> "start"]
    /\ company = [r \in Requests |-> Nil]
    /\ parts = [r \in Readers |-> NoParts]
    /\ answer = [b \in Readers |-> [holder |-> Nil, shares |-> 0]]
    /\ overlapped = [r \in Readers |-> FALSE]

Goto(r, label) == pc' = [pc EXCEPT ![r] = label]

-------------------------------------------------------------------------------
(* The computation of the cap table *)

\* Variant: the share is rounded down to whole percents.
WholePercents(balance, total) ==
    IF total > 0 THEN 100 * ((100 * balance) \div total) ELSE 0

\* round(balance / totalIssued * 100, 2 decimals), counted in hundredths.
Hundredths(balance, total) ==
    IF total > 0 THEN (20000 * balance + total) \div (2 * total) ELSE 0

\* Only positive balances have an entry.  The name comes from the shareholders
\* of the company, so a holder registered elsewhere has none.
Entry(c, h, shares, total) ==
    [shareholderId |-> h, named |-> CompanyOf[h] = c, shares |-> shares,
     ownershipPercentage |-> Hundredths(shares, total)]

Entries(c, total, in, out) ==
    {Entry(c, h, in[h] - out[h], total) : h \in {g \in Shareholders : in[g] > out[g]}}

-------------------------------------------------------------------------------
(* Movements: issueShares and transferShares, from their commit on *)

Commit(w) ==
    /\ pc[w] = "start"
    /\ \E c \in Companies, h \in Shareholders, n \in Amounts :
          /\ SL!Issue(c, h, n) \/ \E f \in Shareholders : SL!Transfer(c, f, h, n)
          /\ company' = [company EXCEPT ![w] = c]
          /\ overlapped' = [r \in Readers |->
                overlapped[r] \/ (pc[r] = "query" /\ company[r] = c)]
    /\ Goto(w, "committed")
    /\ UNCHANGED <<cache, parts, answer>>

\* Variant: the key of the movement is never deleted.
InvalidateNothing(w) ==
    /\ pc[w] = "committed"
    /\ Goto(w, "done")
    /\ UNCHANGED <<ledger, cache, company, parts, answer, overlapped>>

\* invalidateCapTable.
Invalidate(w) ==
    /\ pc[w] = "committed"
    /\ cache' = [cache EXCEPT ![company[w]] = Nil]
    /\ Goto(w, "done")
    /\ UNCHANGED <<ledger, company, parts, answer, overlapped>>

-------------------------------------------------------------------------------
(* GET cap-table *)

\* CacheInterceptor: a hit is the response.
Lookup(r, c) ==
    /\ pc[r] = "start"
    /\ IF cache[c] # Nil THEN Goto(r, "done") /\ UNCHANGED company
       ELSE Goto(r, "query") /\ company' = [company EXCEPT ![r] = c]
    /\ UNCHANGED <<ledger, cache, parts, answer, overlapped>>

Answered(r, part, value) ==
    /\ pc[r] = "query"
    /\ parts[r][part] = Nil
    /\ parts' = [parts EXCEPT ![r][part] = value]
    /\ UNCHANGED <<ledger, cache, pc, company, answer, overlapped>>

SumIssued(r) == Answered(r, "issued", issued[company[r]])
SumReceived(r) ==
    Answered(r, "received", [h \in Shareholders |-> received[<<company[r], h>>]])
SumSent(r) ==
    Answered(r, "sent", [h \in Shareholders |-> sent[<<company[r], h>>]])

\* Variant: the answers of an earlier read are not dropped.
FillKeepingParts(r) ==
    LET p == parts[r]
        c == company[r]
    IN
    /\ pc[r] = "query"
    /\ \A part \in DOMAIN p : p[part] # Nil
    /\ cache' = [cache EXCEPT ![c] =
          [entries |-> Entries(c, p.issued, p.received, p.sent),
           overlapped |-> overlapped[r]]]
    /\ Goto(r, "done")
    /\ UNCHANGED <<ledger, company, parts, answer, overlapped>>

\* The last answer: compute the response, send it and store it.
Fill(r) ==
    LET p == parts[r]
        c == company[r]
    IN
    /\ pc[r] = "query"
    /\ \A part \in DOMAIN p : p[part] # Nil
    /\ cache' = [cache EXCEPT ![c] =
          [entries |-> Entries(c, p.issued, p.received, p.sent),
           overlapped |-> overlapped[r]]]
    /\ parts' = [parts EXCEPT ![r] = NoParts]
    /\ Goto(r, "done")
    /\ overlapped' = [overlapped EXCEPT ![r] = FALSE]
    /\ UNCHANGED <<ledger, company, answer>>

\* Variant: entries without a time to live.
ExpireNever(c) ==
    /\ cache[c] # Nil
    /\ UNCHANGED vars

\* Thirty seconds after it was stored, at the latest, an entry is gone.
Expire(c) ==
    /\ cache[c] # Nil
    /\ cache' = [cache EXCEPT ![c] = Nil]
    /\ UNCHANGED <<ledger, pc, company, parts, answer, overlapped>>

-------------------------------------------------------------------------------
(* GET balance: two queries, one after the other *)

\* Variant: the two queries in the other order.
BalanceOrderSwapped == <<"sent", "received">>

BalanceOrder == <<"received", "sent">>

Account(b) == <<company[b], answer[b].holder>>
Term(sum, k) == IF sum = "received" THEN received[k] ELSE 0 - sent[k]

\* A shareholder of another company is not found.
FirstSum(b, c, h) ==
    /\ pc[b] = "start"
    /\ CompanyOf[h] = c
    /\ company' = [company EXCEPT ![b] = c]
    /\ answer' = [answer EXCEPT ![b] =
          [holder |-> h, shares |-> Term(BalanceOrder[1], <<c, h>>)]]
    /\ Goto(b, "second")
    /\ UNCHANGED <<ledger, cache, parts, overlapped>>

SecondSum(b) ==
    /\ pc[b] = "second"
    /\ answer' = [answer EXCEPT ![b].shares = @ + Term(BalanceOrder[2], Account(b))]
    /\ Goto(b, "done")
    /\ UNCHANGED <<ledger, cache, company, parts, overlapped>>

-------------------------------------------------------------------------------
\* A query or the connection fails: the request ends with an error.
Fail(r) ==
    /\ pc[r] \in {"query", "second"}
    /\ Goto(r, "failed")
    /\ parts' = [q \in Readers |-> IF q = r THEN NoParts ELSE parts[q]]
    /\ overlapped' = [q \in Readers |-> q # r /\ overlapped[q]]
    /\ UNCHANGED <<ledger, cache, company, answer>>

\* The process restarts: the cache is empty again, and the requests it was
\* serving are gone, those that had committed and not yet invalidated included.
Restart ==
    /\ cache' = [c \in Companies |-> Nil]
    /\ pc' = [r \in Requests |->
          IF pc[r] \in {"query", "second", "committed"} THEN "failed" ELSE pc[r]]
    /\ parts' = [r \in Readers |-> NoParts]
    /\ overlapped' = [r \in Readers |-> FALSE]
    /\ UNCHANGED <<ledger, company, answer>>

ReadStep(r) == SumIssued(r) \/ SumReceived(r) \/ SumSent(r) \/ Fill(r) \/ SecondSum(r)

Next ==
    \/ \E w \in Writers : Commit(w) \/ Invalidate(w)
    \/ \E r \in Readers :
          \/ \E c \in Companies : Lookup(r, c)
          \/ \E c \in Companies, h \in Shareholders : FirstSum(r, c, h)
          \/ ReadStep(r)
          \/ Fail(r)
    \/ \E c \in Companies : Expire(c)
    \/ Restart

Spec == Init /\ [][Next]_vars

\* A handler whose query has answered goes on, and the time to live of an entry
\* passes.
FairSpec ==
    /\ Spec
    /\ \A w \in Writers : WF_vars(Invalidate(w))
    /\ \A r \in Readers : WF_vars(ReadStep(r))
    /\ \A c \in Companies : WF_vars(Expire(c))

-------------------------------------------------------------------------------
(* Properties *)

Current(c) == Entries(c, issued[c], [h \in Shareholders |-> received[<<c, h>>]],
                      [h \in Shareholders |-> sent[<<c, h>>]])

Invalidating(c) == \E w \in Writers : pc[w] = "committed" /\ company[w] = c

\* The type invariant.
TypeOK ==
    /\ \A c \in Companies : cache[c] # Nil => cache[c].overlapped \in BOOLEAN
    /\ pc \in [Requests -> {"start", "query", "committed", "second", "done", "failed"}]
    /\ company \in [Requests -> Companies \cup {Nil}]
    /\ \A r \in Readers : parts[r] # NoParts => pc[r] = "query"
    /\ \A b \in Readers : answer[b].shares \in Int

\* "So the next GET returns fresh data" (cap-table-cache.service.ts): when no
\* movement is between its commit and its invalidation, a hit is the cap table
\* of the ledger as it is.
NextGetIsFresh ==
    \A c \in Companies :
        cache[c] # Nil /\ ~Invalidating(c) => cache[c].entries = Current(c)

\* The part of it that holds: an entry is out of date only while a movement is
\* about to delete it, or when a movement committed during the read that filled
\* it.
StaleOnlyByOverlap ==
    \A c \in Companies :
        cache[c] # Nil /\ ~Invalidating(c) /\ ~cache[c].overlapped
            => cache[c].entries = Current(c)

\* A cap table that no movement overlapped accounts for every issued share, and
\* its percentages add up to 100 but for half a hundredth of rounding an entry.
CapTableAddsUp ==
    \A c \in Companies :
        cache[c] # Nil /\ ~Invalidating(c) /\ ~cache[c].overlapped /\ issued[c] > 0 =>
            LET entries == cache[c].entries
                percent == Total([e \in entries |-> e.ownershipPercentage], entries)
            IN  /\ Total([e \in entries |-> e.shares], entries) = issued[c]
                /\ 2 * (percent - 10000) \in -Cardinality(entries)..Cardinality(entries)

\* A balance read never overstates: sent is read last and received can only have
\* grown since, so the answer is at most the balance at the time it is given.
BalanceNotOverstated ==
    [][\A b \in Readers : pc[b] = "second" /\ pc'[b] = "done"
          => answer'[b].shares <= received[Account(b)] - sent[Account(b)]]_vars

\* When the movements stop, the cache ends up empty or right, and stays so,
\* whatever was stored meanwhile.
CacheConverges ==
    <>[](\A c \in Companies : cache[c] # Nil => cache[c].entries = Current(c))

===============================================================================
