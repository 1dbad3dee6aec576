----------------------------- MODULE ConnectionPool -----------------------------
(* The database connections of the process, shared by all requests.            *)
(*                                                                             *)
(* The data source (app.module.ts) sets neither a pool size nor a time limit   *)
(* for waiting: a query takes one of Max connections of the pool of node-pg,   *)
(* or waits in a first-come first-served queue for as long as it takes.  A     *)
(* transaction keeps its connection from its first statement to its commit.    *)
(* getTotalIssuedShares is called inside the transaction of issueShares but    *)
(* queries through the data source: it needs a second connection while the     *)
(* first one is kept.                                                          *)
(*                                                                             *)
(* SharesService abstracts from connections, and this module from everything   *)
(* but connections: a statement that waits for a row lock (which the owner,    *)
(* needing no further connection, releases in the end) is a stage that lasts.  *)
EXTENDS Naturals, Sequences, FiniteSets

CONSTANTS
    Requests,  \* HTTP calls that write to the ledger
    Issuers,   \* those of them that issue shares; the others transfer
    Max        \* the size of the pool

ASSUME IssuersAssumption == Issuers \subseteq Requests
ASSUME MaxAssumption == Max \in Nat \ {0}

VARIABLES
    stage,  \* how far each request is
    queue,  \* the requests that wait for a connection, in order of arrival
    free    \* the number of connections nobody has

vars == <<stage, queue, free>>

Stages == {"start", "guard", "statements", "sum", "finish",
           "committed", "failed", "refused"}
Answered == {"committed", "failed", "refused"}

Queued(r) == \E i \in 1..Len(queue) : queue[i] = r

Init ==
    /\ stage = [r \in Requests |-> "start"]
    /\ queue = <<>>
    /\ free = Max

\* Variant: the answer to the waiting requests is a connection each.
ServeWithoutConnection ==
    /\ queue # <<>>
    /\ queue' = Tail(queue)
    /\ free' = IF free > 0 THEN free - 1 ELSE free
    /\ UNCHANGED stage

\* The pool serves its queue from the front.
Serve ==
    /\ queue # <<>> /\ free > 0
    /\ queue' = Tail(queue)
    /\ free' = free - 1
    /\ UNCHANGED stage

\* Request r is at stage `from` with the connection it asked for, and goes on.
Running(r, from) == stage[r] = from /\ ~Queued(r)
Enter(r, to)     == stage' = [stage EXCEPT ![r] = to]
Ask(r)           == queue' = Append(queue, r)

\* The guards of the route query the database first, each query on its own.
Arrive(r) ==
    /\ stage[r] = "start"
    /\ Enter(r, "guard")
    /\ Ask(r)
    /\ UNCHANGED free

\* Then the handler asks for the connection of its transaction.
GuardPasses(r) ==
    /\ Running(r, "guard")
    /\ Enter(r, "statements")
    /\ Ask(r)
    /\ free' = free + 1

GuardRefuses(r) ==
    /\ Running(r, "guard")
    /\ Enter(r, "refused")
    /\ free' = free + 1
    /\ UNCHANGED queue

\* Variant: a transfer, too, sums outside its transaction.
AskForSumAlways(r) ==
    /\ Running(r, "statements")
    /\ Enter(r, "sum")
    /\ Ask(r)
    /\ UNCHANGED free

\* issueShares has found the company and the shareholder, and needs the sum.
AskForSum(r) ==
    /\ r \in Issuers
    /\ Running(r, "statements")
    /\ Enter(r, "sum")
    /\ Ask(r)
    /\ UNCHANGED free

SumIssued(r) ==
    /\ Running(r, "sum")
    /\ Enter(r, "finish")
    /\ free' = free + 1
    /\ UNCHANGED queue

Commit(r) ==
    /\ Running(r, IF r \in Issuers THEN "finish" ELSE "statements")
    /\ Enter(r, "committed")
    /\ free' = free + 1
    /\ UNCHANGED queue

\* The connections a request has.
Held(r) ==
    CASE stage[r] \in {"guard", "statements"} -> IF Queued(r) THEN 0 ELSE 1
      [] stage[r] = "sum"    -> IF Queued(r) THEN 1 ELSE 2
      [] stage[r] = "finish" -> 1
      [] OTHER               -> 0

\* Variant: only the connection of the transaction is given back.
RollbackKeepsOne(r) ==
    /\ stage[r] \in {"guard", "statements", "sum", "finish"} /\ ~Queued(r)
    /\ Enter(r, "failed")
    /\ free' = free + 1
    /\ UNCHANGED queue

\* A failed check or statement: the query gives its connection back, then the
\* transaction its own.
Rollback(r) ==
    /\ stage[r] \in {"guard", "statements", "sum", "finish"} /\ ~Queued(r)
    /\ Enter(r, "failed")
    /\ free' = free + Held(r)
    /\ UNCHANGED queue

Proceed(r) ==
    \/ GuardPasses(r)
    \/ GuardRefuses(r)
    \/ AskForSum(r)
    \/ SumIssued(r)
    \/ Commit(r)

Next ==
    \/ Serve
    \/ \E r \in Requests : Arrive(r) \/ Proceed(r) \/ Rollback(r)

\* The pool hands out what is free, and a request with its connection goes on.
Fairness == WF_vars(Serve) /\ \A r \in Requests : WF_vars(Proceed(r))

Spec == Init /\ [][Next]_vars /\ Fairness

-------------------------------------------------------------------------------
(* Properties *)

\* The type invariant: a request waits at most once.
TypeOK ==
    /\ stage \in [Requests -> Stages]
    /\ queue \in Seq(Requests)
    /\ \A i, j \in 1..Len(queue) : queue[i] = queue[j] => i = j
    /\ free \in 0..Max

\* No connection is lost or handed out twice, whichever way requests end: the
\* requests that have one connection, those that have two and the pool account
\* for all of them.
ConnectionsAccounted ==
    Cardinality({r \in Requests : Held(r) >= 1})
      + Cardinality({r \in Requests : Held(r) = 2}) + free = Max

\* While somebody waits, a connection is free or is with a request that does not
\* wait itself and so will give it back.
SomebodyRuns ==
    queue # <<>> => free > 0 \/ \E r \in Requests : Held(r) > 0 /\ ~Queued(r)

\* Every request is answered (docs/API-ENDPOINTS-SUMMARY.md lists the answer of
\* POST /shares/issue).  It holds as long as fewer requests issue shares at once
\* than the pool has connections.
EveryRequestAnswered ==
    \A r \in Requests : stage[r] = "guard" ~> stage[r] \in Answered
===============================================================================
