----------------------------- MODULE SessionsProofs -----------------------------
(* Theorems of Sessions, for any number of requests and users.                 *)
(*                                                                             *)
(* LocalInv says what a request has found out at each statement.  From it: no  *)
(* step makes an existing session valid that was not (Sticks), whence the      *)
(* three facts about revocations; and, with the sessions still owed by         *)
(* refreshes, the refinement of SessionRegister.                               *)
EXTENDS Sessions, TLAPS

Creators == {"register", "login", "refresh"}

\* What a request knows of its arguments at each statement.
StageOK ==
    \A r \in Requests :
        /\ pc[r] = "insertUser" => op[r] = "register" /\ who[r] \in Users
        /\ pc[r] = "create" => op[r] \in Creators
        /\ pc[r] \in {"create", "done"} /\ op[r] \in Creators => who[r] \in Users
        /\ pc[r] = "find" => op[r] \in {"refresh", "logout"} /\ tok[r] \in Created
        /\ pc[r] = "findAll" => op[r] = "revokeAll" /\ who[r] \in Users
        /\ pc[r] \in {"load", "write"} =>
              op[r] \in {"refresh", "logout", "revokeAll"} /\ who[r] \in Users

\* What it knows of the sessions it has read.
TargetsOK ==
    \A r \in Requests :
        /\ pc[r] \in {"load", "write"} =>
              /\ targets[r] \subseteq Created
              /\ \A s \in targets[r] : who[s] = who[r]
              /\ op[r] \in {"refresh", "logout"} =>
                    /\ tok[r] \in Created /\ targets[r] = {tok[r]}
                    /\ who[r] = who[tok[r]]
        /\ pc[r] = "write" => absent[r] \subseteq targets[r]

LocalInv == TypeOK /\ StageOK /\ TargetsOK

-------------------------------------------------------------------------------
\* At first there is no session, and nobody has asked for one.
LEMMA LocalInit == Init => LocalInv
<1> SUFFICES ASSUME Init PROVE LocalInv
  OBVIOUS
<1> USE DEF Init
<1>1. TypeOK
  BY DEF TypeOK, Created
<1>2. StageOK /\ TargetsOK
  BY DEF StageOK, TargetsOK
<1> QED BY <1>1, <1>2 DEF LocalInv

\* A session, once created, is for ever a created one of its user.
LEMMA CreatedStable ==
    ASSUME LocalInv, [Next]_vars
    PROVE  /\ Created \subseteq Created'
           /\ \A s \in Created : who'[s] = who[s]
<1> USE DEF LocalInv, TypeOK, Created, table, call, Finish, Goto, Present
<1>1. ASSUME NEW r \in Requests, pc[r] # "done",
             \A q \in Requests \ {r} : pc'[q] = pc[q] /\ op'[q] = op[q] /\ who'[q] = who[q]
      PROVE  Created \subseteq Created' /\ \A s \in Created : who'[s] = who[s]
  BY <1>1
<1>2. ASSUME NEW r \in Requests, NEW u \in Users,
             Register(r, u) \/ Login(r, u) \/ RevokeAll(r, u)
      PROVE  Created \subseteq Created' /\ \A s \in Created : who'[s] = who[s]
  <2>1. pc[r] # "done" /\ \A q \in Requests \ {r} :
            pc'[q] = pc[q] /\ op'[q] = op[q] /\ who'[q] = who[q]
    BY <1>2 DEF Register, Login, RevokeAll
  <2> QED BY <1>1, <2>1
<1>3. ASSUME NEW r \in Requests, NEW s \in Requests, Refresh(r, s) \/ Logout(r, s)
      PROVE  Created \subseteq Created' /\ \A q \in Created : who'[q] = who[q]
  <2>1. pc[r] # "done" /\ \A q \in Requests \ {r} :
            pc'[q] = pc[q] /\ op'[q] = op[q] /\ who'[q] = who[q]
    BY <1>3 DEF Refresh, Logout
  <2> QED BY <1>1, <2>1
<1>4. ASSUME NEW r \in Requests,
             \/ InsertUser(r) \/ Create(r) \/ Find(r) \/ FindAll(r)
             \/ Load(r) \/ Write(r) \/ Fail(r)
      PROVE  Created \subseteq Created' /\ \A s \in Created : who'[s] = who[s]
  <2>1. pc[r] # "done" /\ \A q \in Requests \ {r} :
            pc'[q] = pc[q] /\ op'[q] = op[q] /\ who'[q] = who[q]
    BY <1>4 DEF InsertUser, Create, Find, FindAll, Load, Write, Fail, Awaiting
  <2> QED BY <1>1, <2>1
<1>5. CASE UNCHANGED <<pc, op, who>>
  BY <1>5
<1>6. ASSUME NEW r \in Requests, Expire(r) PROVE UNCHANGED <<pc, op, who>>
  BY <1>6 DEF Expire
<1>7. Cleanup \/ UNCHANGED vars => UNCHANGED <<pc, op, who>>
  BY DEF Cleanup, vars
<1> QED BY <1>2, <1>3, <1>4, <1>5, <1>6, <1>7 DEF Next

\* Each statement keeps what the requests know.
LEMMA LocalStep == LocalInv /\ [Next]_vars => LocalInv'
<1> SUFFICES ASSUME LocalInv, [Next]_vars PROVE LocalInv'
  OBVIOUS
<1>0. /\ Created \subseteq Created'
      /\ \A s \in Created : who'[s] = who[s]
  BY CreatedStable
<1> USE DEF LocalInv, TypeOK, table, call, Goto, Awaiting, Ended, Ops, Creators
<1>1. ASSUME NEW r \in Requests, NEW u \in Users, Register(r, u) PROVE LocalInv'
  <2>1. TypeOK'
    BY <1>0, <1>1 DEF Register
  <2>2. StageOK' /\ TargetsOK'
    BY <1>0, <1>1 DEF Register, StageOK, TargetsOK
  <2> QED BY <2>1, <2>2
<1>2. ASSUME NEW r \in Requests, NEW u \in Users, Login(r, u) PROVE LocalInv'
  <2>1. TypeOK'
    BY <1>0, <1>2 DEF Login
  <2>2. StageOK' /\ TargetsOK'
    BY <1>0, <1>2 DEF Login, StageOK, TargetsOK
  <2> QED BY <2>1, <2>2
<1>3. ASSUME NEW r \in Requests, NEW u \in Users, RevokeAll(r, u) PROVE LocalInv'
  <2>1. TypeOK'
    BY <1>0, <1>3 DEF RevokeAll, SessionsOf, Valid, Created
  <2>2. StageOK' /\ TargetsOK'
    BY <1>0, <1>3 DEF RevokeAll, StageOK, TargetsOK
  <2> QED BY <2>1, <2>2
<1>4. ASSUME NEW r \in Requests, NEW s \in Requests, Refresh(r, s) \/ Logout(r, s)
      PROVE  LocalInv'
  <2>1. TypeOK'
    BY <1>0, <1>4 DEF Refresh, Logout, Present
  <2>2. StageOK' /\ TargetsOK'
    BY <1>0, <1>4 DEF Refresh, Logout, Present, StageOK, TargetsOK
  <2> QED BY <2>1, <2>2
<1>5. ASSUME NEW r \in Requests, InsertUser(r) PROVE LocalInv'
  <2>1. TypeOK'
    BY <1>0, <1>5 DEF InsertUser, StageOK
  <2>2. StageOK' /\ TargetsOK'
    BY <1>0, <1>5 DEF InsertUser, StageOK, TargetsOK
  <2> QED BY <2>1, <2>2
<1>6. ASSUME NEW r \in Requests, Create(r) PROVE LocalInv'
  <2>1. r \in Created'
    BY <1>6 DEF Create, StageOK, Created
  <2>2. TypeOK'
    BY <1>0, <1>6, <2>1 DEF Create
  <2>3. StageOK' /\ TargetsOK'
    BY <1>0, <1>6 DEF Create, StageOK, TargetsOK
  <2> QED BY <2>2, <2>3
<1>7. ASSUME NEW r \in Requests, Find(r) PROVE LocalInv'
  <2>1. tok[r] \in Created /\ who[tok[r]] \in Users
    BY <1>7 DEF Find, StageOK, Created
  <2>2. TypeOK'
    BY <1>0, <1>7, <2>1 DEF Find, Created
  <2>3. StageOK'
    BY <1>0, <1>7, <2>1 DEF Find, StageOK
  <2>4. tok[r] # r
    BY <1>7, <2>1 DEF Find, Created
  <2>5. TargetsOK'
    BY <1>0, <1>7, <2>1, <2>4 DEF Find, StageOK, TargetsOK
  <2> QED BY <2>2, <2>3, <2>5
<1>8. ASSUME NEW r \in Requests, FindAll(r) PROVE LocalInv'
  <2>1. SessionsOf(who[r]) \subseteq Created /\ \A s \in SessionsOf(who[r]) : who[s] = who[r]
    BY DEF SessionsOf, Valid
  <2>2. TypeOK'
    BY <1>0, <1>8, <2>1 DEF FindAll, Created
  <2>3. StageOK' /\ TargetsOK'
    BY <1>0, <1>8, <2>1 DEF FindAll, StageOK, TargetsOK
  <2> QED BY <2>2, <2>3
<1>9. ASSUME NEW r \in Requests, Load(r) PROVE LocalInv'
  <2>1. TypeOK'
    BY <1>0, <1>9 DEF Load
  <2>2. StageOK' /\ TargetsOK'
    BY <1>0, <1>9 DEF Load, StageOK, TargetsOK
  <2> QED BY <2>1, <2>2
<1>10. ASSUME NEW r \in Requests, Write(r) PROVE LocalInv'
  <2>1. absent[r] \subseteq targets[r] /\ targets[r] \subseteq Created
    BY <1>10 DEF Write, TargetsOK
  <2>2. TypeOK'
    BY <1>0, <1>10, <2>1 DEF Write, WriteTargets, Finish, StageOK
  <2>3. StageOK' /\ TargetsOK'
    BY <1>0, <1>10 DEF Write, Finish, StageOK, TargetsOK
  <2> QED BY <2>2, <2>3
<1>11. ASSUME NEW r \in Requests, Fail(r) PROVE LocalInv'
  <2>1. TypeOK'
    BY <1>0, <1>11 DEF Fail, Finish
  <2>2. StageOK' /\ TargetsOK'
    BY <1>0, <1>11 DEF Fail, Finish, StageOK, TargetsOK
  <2> QED BY <2>1, <2>2
<1>12. ASSUME NEW r \in Requests, Expire(r) PROVE LocalInv'
  BY <1>0, <1>12 DEF Expire, StageOK, TargetsOK
<1>13. CASE Cleanup
  BY <1>0, <1>13 DEF Cleanup, StageOK, TargetsOK, Live, Valid
<1>14. CASE UNCHANGED vars
  BY <1>0, <1>14 DEF vars, StageOK, TargetsOK
<1> QED BY <1>1, <1>2, <1>3, <1>4, <1>5, <1>6, <1>7, <1>8, <1>9, <1>10, <1>11,
           <1>12, <1>13, <1>14 DEF Next

\* Every state is well typed: in particular every row is a session that was
\* granted, and only rows are revoked.
THEOREM SessionTypeCorrect == Spec => []TypeOK
<1>1. LocalInv => TypeOK
  BY DEF LocalInv
<1> QED BY <1>1, LocalInit, LocalStep, PTL DEF Spec

-------------------------------------------------------------------------------
\* A step neither revives a session nor turns back its expiry.
LEMMA Sticks ==
    ASSUME LocalInv, [Next]_vars
    PROVE  /\ \A s \in Created \ Valid : s \notin Valid'
           /\ \A s \in Created \ Live : s \notin Live'
<1> DEFINE Same == rows' = rows /\ revoked' = revoked
<1>1. expired \subseteq expired'
  BY DEF Next, vars, table, call, Present, Register, Login, RevokeAll, Refresh, Logout,
     InsertUser, Create, Find, FindAll, Load, Write, Fail, Expire, Cleanup
<1>2. ASSUME NEW r \in Requests, Create(r)
      PROVE  \A s \in Created \ Valid : s \notin Valid'
  BY <1>2 DEF Create, Created, Valid
<1>3. ASSUME NEW r \in Requests, Write(r)
      PROVE  \A s \in Created \ Valid : s \notin Valid'
  <2>1. absent[r] \subseteq targets[r]
    BY <1>3 DEF Write, LocalInv, TargetsOK
  <2> QED BY <1>3, <2>1 DEF Write, WriteTargets, Valid
<1>4. CASE Cleanup
  BY <1>4 DEF Cleanup, Live, Valid
<1>5. \/ Same
      \/ \E r \in Requests : Create(r) \/ Write(r)
      \/ Cleanup
  BY DEF Next, vars, table, call, Present, Register, Login, RevokeAll, Refresh, Logout,
     InsertUser, Find, FindAll, Load, Fail, Expire
<1>6. \A s \in Created \ Valid : s \notin Valid'
  BY <1>2, <1>3, <1>4, <1>5 DEF Valid
<1> QED BY <1>1, <1>6 DEF Live

\* No save, insert or cleanup makes a revoked or deleted session valid again.
THEOREM RevocationsStick == Spec => RevokedForGood
<1>1. LocalInv /\ [Next]_vars => [\A s \in Created \ Valid : s \notin Valid']_vars
  BY Sticks
<1>2. Spec => []LocalInv
  BY LocalInit, LocalStep, PTL DEF Spec
<1> QED BY <1>1, <1>2, PTL DEF Spec, RevokedForGood

-------------------------------------------------------------------------------
(* Tokens of dead sessions.  Their session stays dead, so the check of refresh *)
(* finds it revoked, expired or gone.                                          *)
LateOK ==
    \A r \in late :
        /\ pc[r] # "start"
        /\ tok[r] \in Created \ Live
        /\ op[r] = "refresh" => pc[r] \in {"find", "rejected", "failed"}

\* A dead session's token stays one, and refresh refuses it.
LEMMA LateStep == LocalInv /\ LateOK /\ [Next]_vars => LateOK'
<1> SUFFICES ASSUME LocalInv, LateOK, [Next]_vars PROVE LateOK'
  OBVIOUS
<1>0. /\ Created \subseteq Created'
      /\ \A s \in Created \ Live : s \notin Live'
  BY CreatedStable, Sticks
<1> USE DEF LateOK, LocalInv, TypeOK, table, call, Goto, Finish, Awaiting
<1>1. ASSUME NEW r \in Requests, NEW u \in Users,
             Register(r, u) \/ Login(r, u) \/ RevokeAll(r, u)
      PROVE  LateOK'
  BY <1>0, <1>1 DEF Register, Login, RevokeAll
<1>2. ASSUME NEW r \in Requests, NEW s \in Requests, Refresh(r, s) PROVE LateOK'
  BY <1>0, <1>2 DEF Refresh, Present
<1>3. ASSUME NEW r \in Requests, NEW s \in Requests, Logout(r, s) PROVE LateOK'
  BY <1>0, <1>3 DEF Logout, Present
<1>4. ASSUME NEW r \in Requests, Find(r) PROVE LateOK'
  <2>1. r \in late => ~(op[r] = "refresh" /\ Usable(r))
    BY DEF Usable, Live
  <2> QED BY <1>0, <1>4, <2>1 DEF Find
<1>5. ASSUME NEW r \in Requests,
             InsertUser(r) \/ Create(r) \/ FindAll(r) \/ Load(r) \/ Write(r) \/ Fail(r)
      PROVE  LateOK'
  <2>1. /\ UNCHANGED <<op, tok, late>>
        /\ pc'[r] # "start" /\ \A q \in Requests \ {r} : pc'[q] = pc[q]
        /\ op[r] = "refresh" /\ pc[r] \in {"find", "rejected", "failed"}
              => pc'[r] = "failed"
    BY <1>5 DEF InsertUser, Create, FindAll, Load, Write, Fail
  <2> QED BY <1>0, <2>1
<1>6. ASSUME NEW r \in Requests, Expire(r) PROVE LateOK'
  BY <1>0, <1>6 DEF Expire
<1>7. CASE Cleanup \/ UNCHANGED vars
  BY <1>0, <1>7 DEF Cleanup, vars
<1> QED BY <1>1, <1>2, <1>3, <1>4, <1>5, <1>6, <1>7 DEF Next

\* The token of a session that was dead when the refresh came gives no session.
THEOREM LateRefreshGetsNothing == Spec => []LateRefreshRefused
<1>1. Init => LateOK
  BY DEF Init, LateOK
<1>2. LateOK => LateRefreshRefused
  BY DEF LateOK, LateRefreshRefused
<1> QED BY <1>1, <1>2, LocalInit, LocalStep, LateStep, PTL DEF Spec

-------------------------------------------------------------------------------
(* Ending all sessions.  What the call has to end is among what it has read,   *)
(* but for what others have ended meanwhile.                                   *)
KnownOK ==
    \A r \in Requests :
        /\ known[r] \subseteq Created
        /\ \A s \in known[r] : who[s] = who[r]
        /\ known[r] # {} => op[r] = "revokeAll" /\ pc[r] # "start"
        /\ op[r] = "revokeAll" /\ pc[r] \in {"load", "write"} =>
              known[r] \cap Valid \subseteq targets[r]
        /\ op[r] = "revokeAll" /\ pc[r] = "done" => known[r] \cap Valid = {}

\* What a call has to end is read, and then ended, and nothing joins it.
LEMMA KnownStep == LocalInv /\ KnownOK /\ [Next]_vars => KnownOK'
<1> SUFFICES ASSUME LocalInv, KnownOK, [Next]_vars PROVE KnownOK'
  OBVIOUS
<1>0. /\ Created \subseteq Created'
      /\ \A s \in Created : who'[s] = who[s]
      /\ \A s \in Created \ Valid : s \notin Valid'
  BY CreatedStable, Sticks
<1> USE DEF KnownOK, LocalInv, TypeOK, table, call, Goto, Finish, Awaiting
<1>1. ASSUME NEW r \in Requests, NEW u \in Users, Register(r, u) \/ Login(r, u)
      PROVE  KnownOK'
  BY <1>0, <1>1 DEF Register, Login
<1>2. ASSUME NEW r \in Requests, NEW u \in Users, RevokeAll(r, u) PROVE KnownOK'
  <2>1. SessionsOf(u) \subseteq Created /\ \A s \in SessionsOf(u) : who[s] = u
    BY DEF SessionsOf, Valid
  <2> QED BY <1>0, <1>2, <2>1 DEF RevokeAll
<1>3. ASSUME NEW r \in Requests, NEW s \in Requests, Refresh(r, s) \/ Logout(r, s)
      PROVE  KnownOK'
  BY <1>0, <1>3 DEF Refresh, Logout, Present
<1>4. ASSUME NEW r \in Requests, Find(r) PROVE KnownOK'
  <2>1. op[r] # "revokeAll"
    BY <1>4 DEF Find, StageOK
  <2> QED BY <1>0, <1>4, <2>1 DEF Find
<1>5. ASSUME NEW r \in Requests, FindAll(r) PROVE KnownOK'
  <2>1. known[r] \cap Valid \subseteq SessionsOf(who[r])
    BY DEF SessionsOf
  <2> QED BY <1>0, <1>5, <2>1 DEF FindAll
<1>6. ASSUME NEW r \in Requests, Write(r) PROVE KnownOK'
  <2>1. op[r] = "revokeAll" /\ pc'[r] = "done" => targets[r] \cap Valid' = {}
    BY <1>6 DEF Write, WriteTargets, Valid
  <2> QED BY <1>0, <1>6, <2>1 DEF Write
<1>7. ASSUME NEW r \in Requests, InsertUser(r) \/ Create(r) PROVE KnownOK'
  <2>1. op[r] # "revokeAll"
    BY <1>7 DEF InsertUser, Create, StageOK, Creators
  <2> QED BY <1>0, <1>7, <2>1 DEF InsertUser, Create
<1>8. ASSUME NEW r \in Requests, Load(r) \/ Fail(r) PROVE KnownOK'
  BY <1>0, <1>8 DEF Load, Fail
<1>9. ASSUME NEW r \in Requests, Expire(r) PROVE KnownOK'
  BY <1>0, <1>9 DEF Expire
<1>10. CASE Cleanup \/ UNCHANGED vars
  BY <1>0, <1>10 DEF Cleanup, vars
<1> QED BY <1>1, <1>2, <1>3, <1>4, <1>5, <1>6, <1>7, <1>8, <1>9, <1>10 DEF Next

\* When revokeAllSessionsForUser has returned, every session the user had when it
\* was called has ended, and stays so.
THEOREM RevokeAllEnds == Spec => []RevokeAllSticks
<1>1. Init => KnownOK
  BY DEF Init, KnownOK
<1>2. KnownOK => RevokeAllSticks
  BY DEF KnownOK, RevokeAllSticks
<1> QED BY <1>1, <1>2, LocalInit, LocalStep, KnownStep, PTL DEF Spec

-------------------------------------------------------------------------------
(* The refinement.  A refresh that owes a session holds a dead one, and until  *)
(* two requests have overlapped no two of them hold the same.                  *)
OwedOK ==
    /\ \A r \in Requests : Owing(r) =>
          tok[r] \in Created \ Live /\ who[r] = who[tok[r]]
    /\ raced \/ \A r, q \in Requests :
                   Owing(r) /\ Owing(q) /\ tok[r] = tok[q] => r = q

live == {<<s, who[s]>> : s \in Live}
owed == {<<tok[r], who[r]>> : r \in {q \in Requests : Owing(q)}}

RefInv == LocalInv /\ OwedOK

\* What a save does to the live sessions: those it is about end.
LEMMA WriteEnds ==
    ASSUME LocalInv, NEW r \in Requests, Write(r), ~InsertFails(r)
    PROVE  Live' = Live \ targets[r]
<1>1. absent[r] \subseteq targets[r]
  BY DEF Write, LocalInv, TargetsOK
<1>2. /\ rows' = rows \cup absent[r] /\ expired' = expired
      /\ revoked' = revoked \cup (targets[r] \cap rows')
  BY DEF Write, WriteTargets
<1> QED BY <1>1, <1>2 DEF Live, Valid

\* Each statement keeps OwedOK.
LEMMA OwedStep == RefInv /\ [Next]_vars => OwedOK'
<1> SUFFICES ASSUME LocalInv, OwedOK, [Next]_vars PROVE OwedOK'
  BY DEF RefInv
<1>0. /\ Created \subseteq Created'
      /\ \A s \in Created : who'[s] = who[s]
      /\ \A s \in Created \ Live : s \notin Live'
  BY CreatedStable, Sticks
<1> USE DEF OwedOK, Owing, LocalInv, TypeOK, table, call, Goto, Finish, Awaiting
<1>1. ASSUME NEW r \in Requests, NEW u \in Users,
             Register(r, u) \/ Login(r, u) \/ RevokeAll(r, u)
      PROVE  OwedOK'
  BY <1>0, <1>1 DEF Register, Login, RevokeAll
<1>2. ASSUME NEW r \in Requests, NEW s \in Requests, Refresh(r, s) \/ Logout(r, s)
      PROVE  OwedOK'
  BY <1>0, <1>2 DEF Refresh, Logout, Present
<1>3. ASSUME NEW r \in Requests, InsertUser(r) PROVE OwedOK'
  <2>1. op[r] = "register"
    BY <1>3 DEF InsertUser, StageOK
  <2> QED BY <1>0, <1>3, <2>1 DEF InsertUser
<1>4. ASSUME NEW r \in Requests, Find(r) PROVE OwedOK'
  BY <1>0, <1>4 DEF Find
<1>5. ASSUME NEW r \in Requests, Create(r) \/ FindAll(r) \/ Load(r) \/ Fail(r)
      PROVE  OwedOK'
  BY <1>0, <1>5 DEF Create, FindAll, Load, Fail
<1>6. ASSUME NEW r \in Requests, Write(r) PROVE OwedOK'
  <2>1. CASE InsertFails(r)
    BY <1>0, <1>6, <2>1 DEF Write
  <2>2. CASE ~InsertFails(r) /\ op[r] # "refresh"
    BY <1>0, <1>6, <2>2 DEF Write
  <2>3. CASE ~InsertFails(r) /\ op[r] = "refresh"
    <3>1. /\ tok[r] \in Created /\ targets[r] = {tok[r]} /\ who[r] = who[tok[r]]
      BY <1>6, <2>3 DEF Write, TargetsOK
    <3>2. tok[r] \notin Live'
      BY <1>6, <2>3, <3>1, WriteEnds
    <3>3. /\ UNCHANGED <<op, tok, who>> /\ pc' = [pc EXCEPT ![r] = "create"]
          /\ raced' = (raced \/ Overlaps(r))
      BY <1>6, <2>3 DEF Write
    <3>4. ~raced' => tok[r] \in Live
      BY <2>3, <3>3 DEF Overlaps
    <3> QED BY <1>0, <3>1, <3>2, <3>3, <3>4
  <2> QED BY <2>1, <2>2, <2>3
<1>7. ASSUME NEW r \in Requests, Expire(r) PROVE OwedOK'
  BY <1>0, <1>7 DEF Expire
<1>8. CASE Cleanup \/ UNCHANGED vars
  BY <1>0, <1>8 DEF Cleanup, vars
<1> QED BY <1>1, <1>2, <1>3, <1>4, <1>5, <1>6, <1>7, <1>8 DEF Next

\* A step that touches none of the three things the register is about.
LEMMA Still ==
    ASSUME LocalInv, Created' = Created, Live' = Live,
           \A s \in Created : who'[s] = who[s],
           \A r \in Requests : /\ Owing(r)' <=> Owing(r)
                               /\ Owing(r) => tok'[r] = tok[r] /\ who'[r] = who[r]
    PROVE  UNCHANGED <<Created, live, owed>>
<1>1. Live \subseteq Created
  BY DEF LocalInv, TypeOK, Live, Valid
<1>2. live' = live
  BY <1>1 DEF live
<1>3. owed' = owed
  BY DEF owed
<1> QED BY <1>2, <1>3

\* A session ends.
LEMMA OneEnds ==
    ASSUME LocalInv, NEW s \in Created, Created' = Created, Live' = Live \ {s},
           who' = who, owed' = owed, who[s] \in Users
    PROVE  SR!Next
<1>1. live' = live \ {<<s, who[s]>>}
  BY DEF live
<1>2. s \in Requests
  BY DEF Created
<1> QED BY <1>1, <1>2 DEF SR!Next, SR!End, live, owed

\* The save of a request that has not been overtaken.
LEMMA WriteRefines ==
    ASSUME RefInv, NEW r \in Requests, Write(r), ~raced'
    PROVE  SR!Next \/ UNCHANGED <<Created, live, owed>>
<1> USE DEF RefInv, LocalInv, TypeOK, table, call, Goto, Finish
<1>1. /\ op[r] \in {"refresh", "logout", "revokeAll"} /\ who[r] \in Users
      /\ pc[r] = "write" /\ UNCHANGED <<op, tok, who>>
      /\ \A q \in Requests \ {r} : pc'[q] = pc[q]
  BY DEF Write, StageOK
<1>2. CASE InsertFails(r)
  <2>1. pc' = [pc EXCEPT ![r] = "failed"] /\ Live' = Live
    BY <1>2 DEF Write, Live, Valid
  <2> QED BY <1>1, <2>1, Still DEF Created, Owing
<1>3. CASE ~InsertFails(r) /\ op[r] = "refresh"
  <2>1. /\ tok[r] \in Created /\ targets[r] = {tok[r]} /\ who[r] = who[tok[r]]
    BY <1>1, <1>3 DEF TargetsOK
  <2>2. /\ pc' = [pc EXCEPT ![r] = "create"] /\ tok[r] \in Live
    BY <1>3 DEF Write, Overlaps
  <2>3. Live' = Live \ {tok[r]}
    BY <1>3, <2>1, WriteEnds
  <2>4. Created' = Created
    BY <1>1, <2>2 DEF Created
  <2>5. live' = live \ {<<tok[r], who[r]>>}
    BY <1>1, <2>1, <2>3 DEF live
  <2>6. \A q \in Requests : Owing(q)' <=> Owing(q) \/ q = r
    BY <1>1, <1>3, <2>2 DEF Owing
  <2>7. owed' = owed \cup {<<tok[r], who[r]>>}
    BY <1>1, <2>6 DEF owed
  <2>8. tok[r] \in Requests
    BY <2>1 DEF Created
  <2> QED BY <1>1, <2>1, <2>2, <2>4, <2>5, <2>7, <2>8
          DEF SR!Next, SR!Take, live, owed
<1>4. CASE ~InsertFails(r) /\ op[r] = "logout"
  <2>1. tok[r] \in Created /\ targets[r] = {tok[r]} /\ who[tok[r]] \in Users
    BY <1>1, <1>4 DEF TargetsOK
  <2>2. pc' = [pc EXCEPT ![r] = "done"]
    BY <1>4 DEF Write
  <2>3. Live' = Live \ {tok[r]}
    BY <1>4, <2>1, WriteEnds
  <2>4. Created' = Created
    BY <1>1, <1>4, <2>2 DEF Created
  <2>5. \A q \in Requests : Owing(q)' <=> Owing(q)
    BY <1>1, <1>4, <2>2 DEF Owing
  <2>6. owed' = owed
    BY <1>1, <2>5 DEF owed
  <2> QED BY <1>1, <2>1, <2>3, <2>4, <2>6, OneEnds
<1>5. CASE ~InsertFails(r) /\ op[r] = "revokeAll"
  <2>1. pc' = [pc EXCEPT ![r] = "done"] /\ ~Overlaps(r)
    BY <1>5 DEF Write
  <2>2. /\ \A s \in Live \ targets[r] : who[s] # who[r]
        /\ \A q \in Requests : Owing(q) => who[q] # who[r]
        /\ \A s \in targets[r] : who[s] = who[r]
    BY <1>1, <1>5, <2>1 DEF Overlaps, TargetsOK
  <2>3. Live' = {s \in Live : who[s] # who[r]}
    BY <1>5, <2>2, WriteEnds
  <2>4. Created' = Created
    BY <1>1, <1>5, <2>1 DEF Created
  <2>5. live' = {p \in live : p[2] # who[r]}
    BY <1>1, <2>3 DEF live
  <2>6. \A q \in Requests : Owing(q)' <=> Owing(q)
    BY <1>1, <1>5, <2>1 DEF Owing
  <2>7. owed' = owed
    BY <1>1, <2>6 DEF owed
  <2>8. owed' = {p \in owed : p[2] # who[r]}
    BY <2>2, <2>7 DEF owed
  <2> QED BY <1>1, <2>4, <2>5, <2>8 DEF SR!Next, SR!EndAll, live, owed
<1> QED BY <1>1, <1>2, <1>3, <1>4, <1>5

\* A login opens a session; a refresh gives the one it owes.
LEMMA CreateRefines ==
    ASSUME RefInv, NEW r \in Requests, Create(r), ~raced
    PROVE  SR!Next
<1> USE DEF RefInv, LocalInv, TypeOK, table, call, Goto
<1>1. /\ pc[r] = "create" /\ pc' = [pc EXCEPT ![r] = "done"]
      /\ rows' = rows \cup {r}
      /\ UNCHANGED <<revoked, expired, op, tok, who>>
      /\ op[r] \in Creators /\ who[r] \in Users
  BY DEF Create, StageOK
<1>2. Created' = Created \cup {r} /\ r \notin Created
  BY <1>1 DEF Created, Creators
<1>3. Live' = Live \cup {r}
  BY <1>1, <1>2 DEF Live, Valid
<1>4. live' = live \cup {<<r, who[r]>>}
  BY <1>1, <1>3 DEF live
<1>5. CASE op[r] # "refresh"
  <2>1. \A q \in Requests : Owing(q)' <=> Owing(q)
    BY <1>1, <1>5 DEF Owing
  <2>2. owed' = owed
    BY <1>1, <2>1 DEF owed
  <2> QED BY <1>1, <1>2, <1>4, <2>2 DEF SR!Next, SR!Grant, live, owed
<1>6. CASE op[r] = "refresh"
  <2>1. Owing(r) /\ tok[r] \in Requests
    BY <1>1, <1>6 DEF Owing, OwedOK, Created
  <2>2. \A q \in Requests : Owing(q)' <=> Owing(q) /\ q # r
    BY <1>1 DEF Owing
  <2>3. \A q \in Requests : Owing(q) /\ q # r => tok[q] # tok[r]
    BY <2>1 DEF OwedOK
  <2>4. owed' = owed \ {<<tok[r], who[r]>>} /\ <<tok[r], who[r]>> \in owed
    BY <1>1, <2>1, <2>2, <2>3 DEF owed
  <2> QED BY <1>1, <1>2, <1>4, <2>1, <2>4 DEF SR!Next, SR!Give, live, owed
<1> QED BY <1>5, <1>6

\* A failing request forfeits what it owed, if it owed anything.
LEMMA FailRefines ==
    ASSUME RefInv, NEW r \in Requests, Fail(r), ~raced
    PROVE  SR!Next \/ UNCHANGED <<Created, live, owed>>
<1> USE DEF RefInv, LocalInv, TypeOK, table, call, Goto, Finish, Awaiting
<1>1. /\ pc[r] # "done" /\ pc' = [pc EXCEPT ![r] = "failed"]
      /\ UNCHANGED <<rows, revoked, expired, op, tok, who>>
  BY DEF Fail
<1>2. Created' = Created /\ Live' = Live
  BY <1>1 DEF Created, Live, Valid
<1>3. CASE ~Owing(r)
  <2>1. \A q \in Requests : Owing(q)' <=> Owing(q)
    BY <1>1, <1>3 DEF Owing
  <2> QED BY <1>1, <1>2, <2>1, Still
<1>4. CASE Owing(r)
  <2>1. /\ tok[r] \in Requests /\ who[r] \in Users
    BY <1>4 DEF Owing, OwedOK, Created, StageOK, Creators
  <2>2. \A q \in Requests : Owing(q)' <=> Owing(q) /\ q # r
    BY <1>1 DEF Owing
  <2>3. \A q \in Requests : Owing(q) /\ q # r => tok[q] # tok[r]
    BY <1>4 DEF OwedOK
  <2>4. owed' = owed \ {<<tok[r], who[r]>>}
    BY <1>1, <1>4, <2>2, <2>3 DEF owed
  <2>5. live' = live
    BY <1>1, <1>2 DEF live
  <2> QED BY <1>2, <2>1, <2>4, <2>5 DEF SR!Next, SR!Forfeit, live, owed
<1> QED BY <1>3, <1>4

\* Every step is one of SessionRegister, or changes nothing of it.
LEMMA StepRefines ==
    ASSUME RefInv, [Next]_vars, ~raced'
    PROVE  SR!Next \/ UNCHANGED <<Created, live, owed>>
<1> USE DEF RefInv, LocalInv, TypeOK, table, call, Goto
<1>0. \A s \in Created : who'[s] = who[s]
  BY CreatedStable
<1>1. ASSUME NEW r \in Requests, NEW u \in Users,
             Register(r, u) \/ Login(r, u) \/ RevokeAll(r, u)
      PROVE  UNCHANGED <<Created, live, owed>>
  <2>1. /\ pc[r] = "start" /\ pc'[r] # "done"
        /\ pc'[r] = "create" => op'[r] # "refresh"
        /\ UNCHANGED <<rows, revoked, expired, tok>>
        /\ \A q \in Requests \ {r} : pc'[q] = pc[q] /\ op'[q] = op[q] /\ who'[q] = who[q]
    BY <1>1 DEF Register, Login, RevokeAll
  <2>2. Created' = Created /\ Live' = Live
    BY <1>1, <2>1 DEF Created, Live, Valid
  <2>3. ASSUME NEW q \in Requests
        PROVE  /\ Owing(q)' <=> Owing(q)
               /\ Owing(q) => tok'[q] = tok[q] /\ who'[q] = who[q]
    BY <2>1 DEF Owing
  <2> QED BY <1>0, <2>2, <2>3, Still
<1>2. ASSUME NEW r \in Requests, NEW s \in Requests, Refresh(r, s) \/ Logout(r, s)
      PROVE  UNCHANGED <<Created, live, owed>>
  <2>1. /\ pc[r] = "start" /\ UNCHANGED <<rows, revoked, expired, who>>
        /\ pc'[r] \in {"rejected", "find"} \/ (pc'[r] = "done" /\ op'[r] = "logout")
        /\ \A q \in Requests \ {r} : pc'[q] = pc[q] /\ op'[q] = op[q] /\ tok'[q] = tok[q]
    BY <1>2 DEF Refresh, Logout, Present
  <2>2. Created' = Created /\ Live' = Live
    BY <2>1 DEF Created, Live, Valid
  <2>3. ASSUME NEW q \in Requests
        PROVE  /\ Owing(q)' <=> Owing(q)
               /\ Owing(q) => tok'[q] = tok[q] /\ who'[q] = who[q]
    BY <2>1 DEF Owing
  <2> QED BY <1>0, <2>2, <2>3, Still
<1>3. ASSUME NEW r \in Requests, InsertUser(r) \/ Find(r) \/ FindAll(r) \/ Load(r)
      PROVE  UNCHANGED <<Created, live, owed>>
  <2>1. /\ pc[r] \in {"insertUser", "find", "findAll", "load"}
        /\ UNCHANGED <<rows, revoked, expired, op, tok>>
        /\ pc'[r] = "create" => op[r] = "register"
        /\ pc'[r] = "done" => op[r] \in {"logout", "revokeAll"}
        /\ \A q \in Requests \ {r} : pc'[q] = pc[q] /\ who'[q] = who[q]
    BY <1>3 DEF InsertUser, Find, FindAll, Load, StageOK
  <2>2. Created' = Created /\ Live' = Live
    BY <2>1 DEF Created, Live, Valid
  <2>3. ASSUME NEW q \in Requests
        PROVE  /\ Owing(q)' <=> Owing(q)
               /\ Owing(q) => tok'[q] = tok[q] /\ who'[q] = who[q]
    BY <2>1 DEF Owing
  <2> QED BY <1>0, <2>2, <2>3, Still
<1>4. ASSUME NEW r \in Requests, Create(r) PROVE SR!Next
  BY <1>4, CreateRefines DEF Create
<1>5. ASSUME NEW r \in Requests, Write(r)
      PROVE  SR!Next \/ UNCHANGED <<Created, live, owed>>
  BY <1>5, WriteRefines
<1>6. ASSUME NEW r \in Requests, Fail(r)
      PROVE  SR!Next \/ UNCHANGED <<Created, live, owed>>
  BY <1>6, FailRefines DEF Fail
<1>7. ASSUME NEW s \in Requests, Expire(s) PROVE SR!Next
  <2>1. s \in Created /\ UNCHANGED <<pc, op, tok, who>> /\ Live' = Live \ {s}
    BY <1>7 DEF Expire, Live, Valid
  <2>2. who[s] \in Users
    BY <2>1 DEF Created, StageOK, Creators
  <2>3. Created' = Created /\ owed' = owed
    BY <2>1 DEF Created, owed, Owing
  <2> QED BY <2>1, <2>2, <2>3, OneEnds
<1>8. CASE Cleanup
  <2>1. UNCHANGED <<pc, op, tok, who>> /\ Live' = Live
    BY <1>8 DEF Cleanup, Live, Valid
  <2> QED BY <2>1 DEF Created, live, owed, Owing
<1>9. CASE UNCHANGED vars
  BY <1>9 DEF vars, Created, live, owed, Owing, Live, Valid
<1> QED BY <1>1, <1>2, <1>3, <1>4, <1>5, <1>6, <1>7, <1>8, <1>9 DEF Next

\* Until two requests overlap on a session, auth.service.ts is the atomic
\* register of sessions: one new session for a token at most, and none left or
\* owed after all sessions of a user have been ended.
THEOREM SessionRefinement == Spec => ImplementsSessionRegister
<1>1. Init => RefInv
  <2>1. Init => OwedOK
    BY DEF Init, OwedOK, Owing
  <2> QED BY <2>1, LocalInit DEF RefInv
<1>2. RefInv /\ [Next]_vars => RefInv'
  BY LocalStep, OwedStep DEF RefInv
<1>3. RefInv /\ [Next]_vars => [raced' \/ SR!Next]_<<Created, live, owed>>
  BY StepRefines
<1> QED BY <1>1, <1>2, <1>3, PTL DEF Spec, ImplementsSessionRegister, live, owed
===============================================================================
