-------------------------- MODULE ConnectionPoolProofs --------------------------
(* Theorems of ConnectionPool, for any number of requests and connections.     *)
(*                                                                             *)
(* The inductive invariant is the account of the connections, together with    *)
(* where a request can be while it is in the queue.  A request that has one    *)
(* and waits for another is an issue waiting for its sum: if everybody who has *)
(* a connection waited, all Max connections would be with issues, one each.    *)
EXTENDS ConnectionPool, FiniteSetTheorems, SequenceTheorems, TLAPS

One == {r \in Requests : Held(r) >= 1}
Two == {r \in Requests : Held(r) = 2}

Waiting == \A r \in Requests :
    /\ Queued(r) => stage[r] \in {"guard", "statements", "sum"}
    /\ stage[r] \in {"sum", "finish"} => r \in Issuers

PoolInv == TypeOK /\ Waiting /\ ConnectionsAccounted

-------------------------------------------------------------------------------
\* A request has no, one or two connections.
LEMMA HeldRange == \A r : Held(r) \in {0, 1, 2}
BY DEF Held

\* When the connections of one request change from a to b, the count of those
\* that are with requests changes by as much.
LEMMA CountStep ==
    ASSUME IsFiniteSet(Requests), NEW r \in Requests, NEW a, NEW b,
           Held(r) = a, Held(r)' = b,
           \A q \in Requests \ {r} : Held(q)' = Held(q)
    PROVE  Cardinality(One') + Cardinality(Two') + a
             = Cardinality(One) + Cardinality(Two) + b
<1>1. /\ IsFiniteSet(One) /\ IsFiniteSet(Two)
      /\ IsFiniteSet(One \cup {r}) /\ IsFiniteSet(Two \cup {r})
  BY FS_Subset, FS_AddElement DEF One, Two
<1>2. /\ Cardinality(One) \in Nat /\ Cardinality(Two) \in Nat
  BY <1>1, FS_CardinalityType
<1>3. a \in {0, 1, 2} /\ b \in {0, 1, 2}
  BY HeldRange DEF Held
<1>4. /\ One' = IF b >= 1 THEN One \cup {r} ELSE One \ {r}
      /\ Two' = IF b = 2 THEN Two \cup {r} ELSE Two \ {r}
  BY <1>3 DEF One, Two
<1>5. (r \in One <=> a >= 1) /\ (r \in Two <=> a = 2)
  BY DEF One, Two
<1>6. Cardinality(One') = IF b >= 1 THEN (IF a >= 1 THEN Cardinality(One)
                                                    ELSE Cardinality(One) + 1)
                                    ELSE (IF a >= 1 THEN Cardinality(One) - 1
                                                    ELSE Cardinality(One))
  BY <1>1, <1>4, <1>5, FS_AddElement, FS_RemoveElement
<1>7. Cardinality(Two') = IF b = 2 THEN (IF a = 2 THEN Cardinality(Two)
                                                  ELSE Cardinality(Two) + 1)
                                   ELSE (IF a = 2 THEN Cardinality(Two) - 1
                                                  ELSE Cardinality(Two))
  BY <1>1, <1>4, <1>5, FS_AddElement, FS_RemoveElement
<1>8. (a >= 1 => Cardinality(One) >= 1) /\ (a = 2 => Cardinality(Two) >= 1)
  BY <1>1, <1>2, <1>5, FS_EmptySet
<1> DEFINE x == Cardinality(One)
           y == Cardinality(Two)
           xx == Cardinality(One')
           yy == Cardinality(Two')
<1>9. /\ x \in Nat /\ y \in Nat /\ a \in {0, 1, 2} /\ b \in {0, 1, 2}
      /\ (a >= 1 => x >= 1) /\ (a = 2 => y >= 1)
      /\ xx = IF b >= 1 THEN (IF a >= 1 THEN x ELSE x + 1)
                       ELSE (IF a >= 1 THEN x - 1 ELSE x)
      /\ yy = IF b = 2 THEN (IF a = 2 THEN y ELSE y + 1)
                      ELSE (IF a = 2 THEN y - 1 ELSE y)
  BY <1>2, <1>3, <1>6, <1>7, <1>8
<1> HIDE DEF x, y, xx, yy
<1>10. xx + yy + a = x + y + b
  BY ONLY <1>9
<1> QED BY <1>10 DEF x, y, xx, yy

\* What the requests have and what is free change by opposite amounts.
LEMMA Balance ==
    \A x, y, xx, yy, a, b, f, ff, m \in Nat :
        /\ xx + yy + a = x + y + b
        /\ x + y + f = m
        /\ ff + b = f + a
        => xx + yy + ff = m
OBVIOUS

\* The account after a step in which only request r takes or gives connections.
LEMMA AccountStep ==
    ASSUME IsFiniteSet(Requests), PoolInv, NEW r \in Requests, NEW a, NEW b,
           Held(r) = a, Held(r)' = b,
           \A q \in Requests \ {r} : Held(q)' = Held(q),
           free' + b = free + a, free' \in Nat
    PROVE  ConnectionsAccounted' /\ free' \in 0..Max
<1>1. Cardinality(One') + Cardinality(Two') + a
        = Cardinality(One) + Cardinality(Two) + b
  BY CountStep
<1>2. /\ IsFiniteSet(One) /\ IsFiniteSet(Two)
      /\ IsFiniteSet(One') /\ IsFiniteSet(Two')
  BY FS_Subset DEF One, Two
<1>3. /\ Cardinality(One) \in Nat /\ Cardinality(Two) \in Nat
      /\ Cardinality(One') \in Nat /\ Cardinality(Two') \in Nat
  BY <1>2, FS_CardinalityType
<1>4. a \in {0, 1, 2} /\ b \in {0, 1, 2}
  BY HeldRange DEF Held
<1>5. Cardinality(One) + Cardinality(Two) + free = Max /\ free \in Nat
  BY DEF PoolInv, TypeOK, ConnectionsAccounted, One, Two
<1>6. Cardinality(One') + Cardinality(Two') + free' = Max
  <2>1. a \in Nat /\ b \in Nat /\ Max \in Nat
    BY <1>4, MaxAssumption
  <2> DEFINE x == Cardinality(One)
             y == Cardinality(Two)
             xx == Cardinality(One')
             yy == Cardinality(Two')
             ff == free'
  <2>2. x \in Nat /\ y \in Nat /\ xx \in Nat /\ yy \in Nat /\ ff \in Nat
    BY <1>3
  <2>3. xx + yy + a = x + y + b /\ x + y + free = Max /\ ff + b = free + a
    BY <1>1, <1>5
  <2> HIDE DEF x, y, xx, yy, ff
  <2>4. xx + yy + ff = Max
    BY <1>5, <2>1, <2>2, <2>3, Balance
  <2> QED BY <2>4 DEF xx, yy, ff
<1>7. ConnectionsAccounted'
  BY <1>6 DEF ConnectionsAccounted, One, Two
<1>8. free' \in 0..Max
  BY <1>3, <1>6, MaxAssumption
<1> QED BY <1>7, <1>8

-------------------------------------------------------------------------------
\* A request that joins the queue is in it, once, and nobody else is more or less.
LEMMA AskQueue ==
    ASSUME TypeOK, NEW r \in Requests, ~Queued(r), Ask(r)
    PROVE  /\ queue' \in Seq(Requests)
           /\ \A i, j \in 1..Len(queue') : queue'[i] = queue'[j] => i = j
           /\ Queued(r)'
           /\ \A q \in Requests \ {r} : Queued(q)' = Queued(q)
<1> DEFINE n == Len(queue)
<1>1. /\ queue \in Seq(Requests) /\ n \in Nat /\ queue' = Append(queue, r)
  BY DEF TypeOK, Ask
<1>2. /\ queue' \in Seq(Requests) /\ Len(queue') = n + 1
      /\ \A i \in 1..n : queue'[i] = queue[i]
      /\ queue'[n + 1] = r
  BY <1>1, AppendProperties
<1>3. \A i \in 1..(n + 1) : i \in 1..n \/ i = n + 1
  BY <1>1
<1>4. \A i \in 1..n : queue[i] # r
  BY DEF Queued
<1>5. \A i, j \in 1..(n + 1) : queue'[i] = queue'[j] => i = j
  BY <1>2, <1>3, <1>4 DEF TypeOK
<1>6. n + 1 \in 1..(n + 1) /\ \A i \in 1..n : i \in 1..(n + 1)
  BY <1>1
<1>7. Queued(r)'
  BY <1>2, <1>6 DEF Queued
<1>8. ASSUME NEW q \in Requests \ {r} PROVE Queued(q)' <=> Queued(q)
  BY <1>2, <1>3, <1>6 DEF Queued
<1>9. ASSUME NEW q \in Requests \ {r} PROVE Queued(q)' = Queued(q)
  BY <1>8 DEF Queued
<1> QED BY <1>2, <1>5, <1>7, <1>9

\* Serving takes the first request out of the queue, and nobody else.
LEMMA ServeQueue ==
    ASSUME TypeOK, Serve, NEW h, h = Head(queue)
    PROVE  /\ queue' \in Seq(Requests)
           /\ \A i, j \in 1..Len(queue') : queue'[i] = queue'[j] => i = j
           /\ h \in Requests
           /\ Queued(h) /\ ~Queued(h)'
           /\ \A q \in Requests \ {h} : Queued(q)' = Queued(q)
<1> DEFINE n == Len(queue)
<1>1. queue \in Seq(Requests) /\ queue # <<>> /\ queue' = Tail(queue)
  BY DEF TypeOK, Serve
<1>2. n \in Nat \ {0}
  BY <1>1, EmptySeq
<1>3. /\ h \in Requests /\ h = queue[1]
      /\ queue' \in Seq(Requests) /\ Len(queue') = n - 1
      /\ \A i \in 1..(n - 1) : queue'[i] = queue[i + 1]
  BY <1>1, <1>2, HeadTailProperties
<1>4. \A i \in 1..(n - 1) : i + 1 \in 1..n /\ i + 1 # 1
  BY <1>2
<1>5. \A i \in 1..n : i = 1 \/ (i - 1 \in 1..(n - 1) /\ (i - 1) + 1 = i)
  BY <1>2
<1>6. 1 \in 1..n
  BY <1>2
<1>7. \A i, j \in 1..n : queue[i] = queue[j] => i = j
  BY DEF TypeOK
<1>8. \A i, j \in 1..(n - 1) : queue'[i] = queue'[j] => i = j
  <2> SUFFICES ASSUME NEW i \in 1..(n - 1), NEW j \in 1..(n - 1), queue'[i] = queue'[j]
               PROVE  i = j
    OBVIOUS
  <2>1. i + 1 = j + 1
    BY <1>3, <1>4, <1>7
  <2> QED BY <2>1
<1>9. Queued(h)
  BY <1>3, <1>6 DEF Queued
<1>10. ~Queued(h)'
  <2> SUFFICES ASSUME NEW i \in 1..(n - 1), queue'[i] = h PROVE FALSE
    BY <1>3 DEF Queued
  <2> QED BY <1>3, <1>4, <1>6, <1>7
<1>11. ASSUME NEW q \in Requests \ {h} PROVE Queued(q)' <=> Queued(q)
  <2>1. Queued(q)' => Queued(q)
    BY <1>3, <1>4 DEF Queued
  <2>2. ASSUME Queued(q) PROVE Queued(q)'
    <3>1. PICK i \in 1..n : queue[i] = q
      BY <2>2 DEF Queued
    <3>2. i # 1
      BY <3>1, <1>3
    <3>3. i - 1 \in 1..(n - 1) /\ (i - 1) + 1 = i
      BY <3>2, <1>5
    <3>4. queue'[i - 1] = q
      BY <3>1, <3>3, <1>3
    <3> QED BY <3>3, <3>4, <1>3 DEF Queued
  <2> QED BY <2>1, <2>2
<1>12. ASSUME NEW q \in Requests \ {h} PROVE Queued(q)' = Queued(q)
  BY <1>11 DEF Queued
<1> QED BY <1>3, <1>8, <1>9, <1>10, <1>12

\* The connections of a request depend on its stage and on its being queued.
LEMMA HeldSame ==
    ASSUME NEW q, stage'[q] = stage[q], Queued(q)' = Queued(q)
    PROVE  Held(q)' = Held(q)
BY DEF Held

-------------------------------------------------------------------------------
\* A request that goes on to a stage for which it asks for a connection keeps the
\* invariant if what it gave back is what it no longer has.
LEMMA AskStep ==
    ASSUME IsFiniteSet(Requests), PoolInv, NEW r \in Requests, NEW to,
           to \in {"guard", "statements", "sum"}, to = "sum" => r \in Issuers,
           ~Queued(r), Ask(r), Enter(r, to),
           free' \in Nat, free' + Held(r)' = free + Held(r)
    PROVE  PoolInv'
<1>1. /\ stage \in [Requests -> Stages] /\ stage' = [stage EXCEPT ![r] = to]
      /\ to \in Stages
  BY DEF PoolInv, TypeOK, Enter, Stages
<1>2. /\ queue' \in Seq(Requests)
      /\ \A i, j \in 1..Len(queue') : queue'[i] = queue'[j] => i = j
      /\ \A q \in Requests \ {r} : Queued(q)' = Queued(q)
  BY AskQueue DEF PoolInv
<1>3. \A q \in Requests \ {r} : Held(q)' = Held(q)
  BY <1>1, <1>2, HeldSame
<1>4. ConnectionsAccounted' /\ free' \in 0..Max
  BY <1>3, AccountStep
<1>5. TypeOK'
  BY <1>1, <1>2, <1>4 DEF TypeOK
<1>6. Waiting'
  <2> SUFFICES ASSUME NEW q \in Requests
               PROVE  /\ Queued(q)' => stage'[q] \in {"guard", "statements", "sum"}
                      /\ stage'[q] \in {"sum", "finish"} => q \in Issuers
    BY DEF Waiting
  <2>1. CASE q = r
    BY <1>1, <2>1
  <2>2. CASE q # r
    BY <1>1, <1>2, <2>2 DEF PoolInv, Waiting
  <2> QED BY <2>1, <2>2
<1> QED BY <1>4, <1>5, <1>6 DEF PoolInv

\* A request that goes on without asking keeps the invariant, too.
LEMMA GoOnStep ==
    ASSUME IsFiniteSet(Requests), PoolInv, NEW r \in Requests, NEW to,
           to \in {"finish", "committed", "failed", "refused"},
           to = "finish" => r \in Issuers,
           ~Queued(r), UNCHANGED queue, Enter(r, to),
           free' \in Nat, free' + Held(r)' = free + Held(r)
    PROVE  PoolInv'
<1>1. /\ stage \in [Requests -> Stages] /\ stage' = [stage EXCEPT ![r] = to]
      /\ to \in Stages
  BY DEF PoolInv, TypeOK, Enter, Stages
<1>2. \A q : Queued(q)' = Queued(q)
  BY DEF Queued
<1>3. \A q \in Requests \ {r} : Held(q)' = Held(q)
  BY <1>1, <1>2, HeldSame
<1>4. ConnectionsAccounted' /\ free' \in 0..Max
  BY <1>3, AccountStep
<1>5. TypeOK'
  BY <1>1, <1>4 DEF TypeOK, PoolInv
<1>6. Waiting'
  <2> SUFFICES ASSUME NEW q \in Requests
               PROVE  /\ Queued(q)' => stage'[q] \in {"guard", "statements", "sum"}
                      /\ stage'[q] \in {"sum", "finish"} => q \in Issuers
    BY DEF Waiting
  <2>1. CASE q = r
    BY <1>1, <1>2, <2>1
  <2>2. CASE q # r
    BY <1>1, <1>2, <2>2 DEF PoolInv, Waiting
  <2> QED BY <2>1, <2>2
<1> QED BY <1>4, <1>5, <1>6 DEF PoolInv

\* Being served, the first request of the queue has one connection more.
LEMMA ServeStep ==
    ASSUME IsFiniteSet(Requests), PoolInv, Serve
    PROVE  PoolInv'
<1>0. PICK h : h = Head(queue)
  OBVIOUS
<1>1. /\ queue' \in Seq(Requests)
      /\ \A i, j \in 1..Len(queue') : queue'[i] = queue'[j] => i = j
      /\ h \in Requests /\ Queued(h) /\ ~Queued(h)'
      /\ \A q \in Requests \ {h} : Queued(q)' = Queued(q)
  BY <1>0, ServeQueue DEF PoolInv
<1>2. stage' = stage /\ free > 0 /\ free' = free - 1 /\ free \in Nat /\ free' \in Nat
  BY DEF Serve, PoolInv, TypeOK
<1>3. stage[h] \in {"guard", "statements", "sum"}
  BY <1>1 DEF PoolInv, Waiting
<1>4. \/ Held(h) = 0 /\ Held(h)' = 1
      \/ Held(h) = 1 /\ Held(h)' = 2
  BY <1>1, <1>2, <1>3 DEF Held
<1>5. free' + Held(h)' = free + Held(h)
  BY <1>2, <1>4
<1>6. \A q \in Requests \ {h} : Held(q)' = Held(q)
  BY <1>1, <1>2, HeldSame
<1>7. ConnectionsAccounted' /\ free' \in 0..Max
  BY <1>1, <1>2, <1>5, <1>6, AccountStep
<1>8. TypeOK'
  BY <1>1, <1>2, <1>7 DEF TypeOK, PoolInv
<1>9. Waiting'
  BY <1>1, <1>2 DEF Waiting, PoolInv
<1> QED BY <1>7, <1>8, <1>9 DEF PoolInv

\* At the start no request has or awaits a connection.
LEMMA PoolInit ==
    ASSUME IsFiniteSet(Requests), Init
    PROVE  PoolInv
<1>1. /\ \A r \in Requests : stage[r] = "start"
      /\ stage \in [Requests -> Stages] /\ queue = <<>> /\ free = Max
  BY DEF Init, Stages
<1>2. \A r \in Requests : ~Queued(r) /\ Held(r) = 0
  BY <1>1 DEF Queued, Held
<1>3. {r \in Requests : Held(r) >= 1} = {} /\ {r \in Requests : Held(r) = 2} = {}
  BY <1>2
<1>4. ConnectionsAccounted
  BY <1>1, <1>3, FS_EmptySet, MaxAssumption DEF ConnectionsAccounted
<1>5. TypeOK
  BY <1>1, MaxAssumption DEF TypeOK
<1>6. Waiting
  BY <1>1, <1>2 DEF Waiting
<1> QED BY <1>4, <1>5, <1>6 DEF PoolInv

\* Every step keeps the invariant: one case per action.
LEMMA PoolStep ==
    ASSUME IsFiniteSet(Requests), PoolInv, [Next]_vars
    PROVE  PoolInv'
<1>1. CASE Serve
  BY <1>1, ServeStep
<1>2. CASE UNCHANGED vars
  BY <1>2 DEF vars, PoolInv, TypeOK, Waiting, ConnectionsAccounted, Held, Queued
<1>3. ASSUME NEW r \in Requests, Arrive(r) \/ Proceed(r) \/ Rollback(r)
      PROVE  PoolInv'
  <2>1. /\ free \in Nat
        /\ stage \in [Requests -> Stages]
        /\ Queued(r) => stage[r] \in {"guard", "statements", "sum"}
        /\ stage[r] \in {"sum", "finish"} => r \in Issuers
    BY DEF PoolInv, TypeOK, Waiting
  <2>2. CASE Arrive(r)
    <3>1. /\ ~Queued(r) /\ Ask(r) /\ Enter(r, "guard") /\ free' = free
          /\ stage[r] = "start" /\ stage'[r] = "guard"
      BY <2>1, <2>2 DEF Arrive, Enter
    <3>2. Queued(r)'
      BY <3>1, AskQueue DEF PoolInv
    <3>3. Held(r) = 0 /\ Held(r)' = 0
      BY <3>1, <3>2 DEF Held
    <3> QED BY <2>1, <3>1, <3>3, AskStep
  <2>3. CASE GuardPasses(r)
    <3>1. /\ ~Queued(r) /\ Ask(r) /\ Enter(r, "statements") /\ free' = free + 1
          /\ stage[r] = "guard" /\ stage'[r] = "statements"
      BY <2>1, <2>3 DEF GuardPasses, Running, Enter
    <3>2. Queued(r)'
      BY <3>1, AskQueue DEF PoolInv
    <3>3. Held(r) = 1 /\ Held(r)' = 0
      BY <3>1, <3>2 DEF Held
    <3> QED BY <2>1, <3>1, <3>3, AskStep
  <2>4. CASE AskForSum(r)
    <3>1. /\ ~Queued(r) /\ Ask(r) /\ Enter(r, "sum") /\ free' = free
          /\ stage[r] = "statements" /\ stage'[r] = "sum" /\ r \in Issuers
      BY <2>1, <2>4 DEF AskForSum, Running, Enter
    <3>2. Queued(r)'
      BY <3>1, AskQueue DEF PoolInv
    <3>3. Held(r) = 1 /\ Held(r)' = 1
      BY <3>1, <3>2 DEF Held
    <3> QED BY <2>1, <3>1, <3>3, AskStep
  <2>5. CASE GuardRefuses(r)
    <3>1. /\ ~Queued(r) /\ UNCHANGED queue /\ Enter(r, "refused") /\ free' = free + 1
          /\ stage[r] = "guard" /\ stage'[r] = "refused"
      BY <2>1, <2>5 DEF GuardRefuses, Running, Enter
    <3>2. Held(r) = 1 /\ Held(r)' = 0
      BY <3>1 DEF Held
    <3> QED BY <2>1, <3>1, <3>2, GoOnStep
  <2>6. CASE SumIssued(r)
    <3>1. /\ ~Queued(r) /\ UNCHANGED queue /\ Enter(r, "finish") /\ free' = free + 1
          /\ stage[r] = "sum" /\ stage'[r] = "finish"
      BY <2>1, <2>6 DEF SumIssued, Running, Enter
    <3>2. Held(r) = 2 /\ Held(r)' = 1
      BY <3>1 DEF Held
    <3> QED BY <2>1, <3>1, <3>2, GoOnStep
  <2>7. CASE Commit(r)
    <3>1. /\ ~Queued(r) /\ UNCHANGED queue /\ Enter(r, "committed") /\ free' = free + 1
          /\ stage[r] \in {"finish", "statements"} /\ stage'[r] = "committed"
      BY <2>1, <2>7 DEF Commit, Running, Enter
    <3>2. Held(r) = 1 /\ Held(r)' = 0
      BY <3>1 DEF Held
    <3> QED BY <2>1, <3>1, <3>2, GoOnStep
  <2>8. CASE Rollback(r)
    <3>1. /\ ~Queued(r) /\ UNCHANGED queue /\ Enter(r, "failed")
          /\ free' = free + Held(r) /\ stage'[r] = "failed"
      BY <2>1, <2>8 DEF Rollback, Enter
    <3>2. Held(r) \in {0, 1, 2} /\ Held(r)' = 0
      BY <3>1, HeldRange DEF Held
    <3>3. free' \in Nat /\ free' + Held(r)' = free + Held(r)
      BY <2>1, <3>1, <3>2
    <3> QED BY <3>1, <3>3, GoOnStep
  <2> QED BY <1>3, <2>2, <2>3, <2>4, <2>5, <2>6, <2>7, <2>8 DEF Proceed
<1> QED BY <1>1, <1>2, <1>3 DEF Next

\* The invariant holds in every state of every behaviour.
LEMMA PoolInvariant ==
    ASSUME IsFiniteSet(Requests)
    PROVE  Spec => []PoolInv
<1>1. Init => PoolInv
  BY PoolInit
<1>2. PoolInv /\ [Next]_vars => PoolInv'
  BY PoolStep
<1> QED BY <1>1, <1>2, PTL DEF Spec

-------------------------------------------------------------------------------
\* Every state is well typed: nobody waits twice, and what is free is never
\* negative and never more than the pool has.
THEOREM PoolTypeCorrect ==
    ASSUME IsFiniteSet(Requests)
    PROVE  Spec => []TypeOK
<1>1. PoolInv => TypeOK
  BY DEF PoolInv
<1> QED BY <1>1, PoolInvariant, PTL

\* No connection is lost or handed out twice, however requests end (the finally
\* of DataSource.transaction and the release of every query).
THEOREM NoConnectionLost ==
    ASSUME IsFiniteSet(Requests)
    PROVE  Spec => []ConnectionsAccounted
<1>1. PoolInv => ConnectionsAccounted
  BY DEF PoolInv
<1> QED BY <1>1, PoolInvariant, PTL

\* The pool is never exhausted for good by issues that each keep one connection
\* and wait for another (shares.service.ts:49) if they are fewer than Max.
THEOREM PoolNeverStuck ==
    ASSUME IsFiniteSet(Requests), Cardinality(Issuers) < Max
    PROVE  Spec => []SomebodyRuns
<1>1. PoolInv => SomebodyRuns
  <2> SUFFICES ASSUME PoolInv, ~SomebodyRuns
               PROVE  FALSE
    OBVIOUS
  <2>1. /\ free = 0
        /\ \A r \in Requests : Held(r) > 0 => Queued(r)
    BY DEF SomebodyRuns, PoolInv, TypeOK
  <2>2. \A r \in Requests : Held(r) >= 1 => Held(r) = 1 /\ stage[r] = "sum"
    BY <2>1, HeldRange DEF Held, PoolInv, Waiting
  <2>3. One \subseteq Issuers /\ Two = {}
    BY <2>2 DEF One, Two, PoolInv, Waiting
  <2>4. IsFiniteSet(Issuers)
    BY IssuersAssumption, FS_Subset
  <2>5. Cardinality(One) <= Cardinality(Issuers) /\ Cardinality(Two) = 0
    BY <2>3, <2>4, FS_Subset, FS_EmptySet
  <2>6. Cardinality(One) + Cardinality(Two) + free = Max
    BY DEF PoolInv, ConnectionsAccounted, One, Two
  <2>7. Cardinality(One) \in Nat /\ Cardinality(Issuers) \in Nat
    BY <2>3, <2>4, FS_Subset, FS_CardinalityType
  <2> QED BY <2>1, <2>5, <2>6, <2>7, MaxAssumption
<1> QED BY <1>1, PoolInvariant, PTL
===============================================================================
