------------------------------ MODULE AuditListing ------------------------------
(* The paged listings of the audit log (audit-logs.service.ts): of one company *)
(* for its members, of all companies for the platform.  A client walks through *)
(* the pages until it has seen as many rows as the answers say there are; each *)
(* page is two queries, the rows and their number.  The lists of companies and *)
(* of users of the platform are paged in the same way.                         *)
EXTENDS TenantRequests

CONSTANT Limit    \* the page size
ASSUME LimitAssumption == Limit \in Nat \ {0}

WalkCall == [op : {"walk"}, company : Companies, actor : Email]
WalkAllCall == [op : {"walkAll"}]

VARIABLE
    walk    \* the page a client is at, the rows it got, and the rows there were
            \* when it began

Matching(a) == IF a.op = "walkAll" THEN trail ELSE {t \in trail : t.company = a.company}

Start(r, a) ==
    walk' = [walk EXCEPT ![r] = [page |-> 1, got |-> {}, due |-> Matching(a)]]

Walk(r, a) ==
    /\ a.op = "walk"
    /\ PassGuards(r, a, {"OWNER", "ADMIN", "LEGAL"}, "page")
    /\ Start(r, a)

\* PlatformRolesGuard compares the role in the token: no query.
WalkAll(r, a) ==
    /\ pc[r] = "start"
    /\ a.op = "walkAll"
    /\ call' = [call EXCEPT ![r] = a]
    /\ Goto(r, "page")
    /\ Start(r, a)
    /\ UNCHANGED <<tables, tenant, began>>

\* Variant: the first page is left out.
OffsetOfNext(page) == page * Limit

Offset(page) == (page - 1) * Limit

NoLaterThan(n, size) == IF n < size THEN n ELSE size

\* No row of B is newer than a row of A.
Leads(A, B) == \A t \in A, u \in B : began[t.by] >= began[u.by]

\* ORDER BY createdAt DESC with OFFSET and LIMIT: rows that tie come in any
\* order, and the next query may choose another.
PageOf(rows, page) ==
    LET count(n) == NoLaterThan(n, Cardinality(rows))
        Cuts(n) == {A \in SUBSET rows : Cardinality(A) = count(n) /\ Leads(A, rows \ A)}
        Windows == {w \in Cuts(Offset(page)) \X Cuts(Offset(page) + Limit) : w[1] \subseteq w[2]}
    IN {w[2] \ w[1] : w \in Windows}

ReadPage(r) ==
    /\ pc[r] = "page"
    /\ \E rows \in PageOf(Matching(call[r]), walk[r].page) :
          walk' = [walk EXCEPT ![r].got = @ \cup rows]
    /\ Goto(r, "count")
    /\ UNCHANGED <<tables, call, tenant, began>>

CountRows(r) ==
    /\ pc[r] = "count"
    /\ IF walk[r].page * Limit < Cardinality(Matching(call[r]))
       THEN Goto(r, "page") /\ walk' = [walk EXCEPT ![r].page = @ + 1]
       ELSE Goto(r, "done") /\ UNCHANGED walk
    /\ UNCHANGED <<tables, call, tenant, began>>

ListingStep(r) ==
    \/ \E a \in Calls : Walk(r, a) \/ WalkAll(r, a)
    \/ ReadPage(r)
    \/ CountRows(r)

===============================================================================
