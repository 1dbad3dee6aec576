-------------------------------- MODULE Sessions --------------------------------
(* The sessions of the users (auth.service.ts): register, login, refresh,      *)
(* logout, ending all sessions of a user and the cleanup, at any number of     *)
(* requests at once.                                                           *)
(*                                                                             *)
(* A session is a row of user_sessions, named by the request that created it,  *)
(* and its refresh token names it.  The row is inserted, completed with the    *)
(* hash and the expiry of its token, and committed in one transaction: one     *)
(* action.  A revocation sets a column of an entity that was read before and   *)
(* saves it: repo.save first selects the rows of its entities again, then      *)
(* updates those it found and inserts those it did not, in one transaction.    *)
(* No other request waits in between.                                          *)
(*                                                                             *)
(* A token that does not verify ends its request without a query and is left   *)
(* out.  A token that verifies and names a row matches the hash in the row,    *)
(* for both come from the transaction that created the row.                    *)
CONSTANTS
    Requests, Users,
    Nil

ASSUME NilAssumption == Nil \notin Requests /\ Nil \notin Users

VARIABLES
    users,    \* the users that have registered
    rows,     \* the committed rows of user_sessions
    revoked,  \* those of them with revokedAt
    expired,  \* the sessions past their expiresAt, which is that of their token
    pc,       \* the statement each request awaits
    op,       \* what it is a request for
    who,      \* its user, once it is known; so the user of the session it creates
    tok,      \* the session its refresh token names
    targets,  \* the sessions whose entities it has read and will save
    absent,   \* those of them the save did not find
    known,    \* history: the user's sessions to be revoked, when it was called
    late,     \* history: requests that came with the token of a dead session
    raced     \* history: two requests have overlapped on a session

table == <<users, rows, revoked, expired>>
call == <<op, who, tok, known, late>>
vars == <<table, pc, call, targets, absent, raced>>

Ops == {"register", "login", "refresh", "logout", "revokeAll"}
Awaiting == {"insertUser", "create", "find", "findAll", "load", "write"}
Ended == {"done", "rejected", "failed"}

Init ==
    /\ users \in SUBSET Users
    /\ rows = {} /\ revoked = {} /\ expired = {}
    /\ pc = [r \in Requests |-> "start"]
    /\ op = [r \in Requests |-> Nil]
    /\ who = [r \in Requests |-> Nil]
    /\ tok = [r \in Requests |-> Nil]
    /\ targets = [r \in Requests |-> {}]
    /\ absent = [r \in Requests |-> {}]
    /\ known = [r \in Requests |-> {}]
    /\ late = {}
    /\ raced = FALSE

Goto(r, label) == pc' = [pc EXCEPT ![r] = label]

\* The handler has saved its entities, or it has thrown.
Finish(r, label) ==
    /\ Goto(r, label)
    /\ targets' = [targets EXCEPT ![r] = {}]
    /\ absent' = [absent EXCEPT ![r] = {}]

\* The sessions there ever were: their tokens are with the clients.
Created == {r \in Requests : pc[r] = "done" /\ op[r] \in {"register", "login", "refresh"}}

Valid == rows \ revoked
Live  == Valid \ expired

-------------------------------------------------------------------------------
(* register and login *)

Register(r, u) ==
    /\ pc[r] = "start"
    /\ op' = [op EXCEPT ![r] = "register"]
    /\ who' = [who EXCEPT ![r] = u]
    /\ Goto(r, IF u \in users THEN "rejected" ELSE "insertUser")
    /\ UNCHANGED <<table, tok, known, late, targets, absent, raced>>

\* The e-mail is unique: one of two registrations that found none fails.
InsertUser(r) ==
    /\ pc[r] = "insertUser"
    /\ IF who[r] \in users THEN Goto(r, "failed") /\ UNCHANGED users
       ELSE Goto(r, "create") /\ users' = users \cup {who[r]}
    /\ UNCHANGED <<rows, revoked, expired, call, targets, absent, raced>>

\* The password matches or does not.
Login(r, u) ==
    /\ pc[r] = "start"
    /\ op' = [op EXCEPT ![r] = "login"]
    /\ who' = [who EXCEPT ![r] = u]
    /\ Goto(r, "rejected") \/ (u \in users /\ Goto(r, "create"))
    /\ UNCHANGED <<table, tok, known, late, targets, absent, raced>>

\* generateTokensAndSession, in a transaction of its own.
Create(r) ==
    /\ pc[r] = "create"
    /\ rows' = rows \cup {r}
    /\ Goto(r, "done")
    /\ UNCHANGED <<users, revoked, expired, call, targets, absent, raced>>

-------------------------------------------------------------------------------
(* refresh and logout *)

Present(r, s, name) ==
    /\ pc[r] = "start"
    /\ s \in Created
    /\ op' = [op EXCEPT ![r] = name]
    /\ tok' = [tok EXCEPT ![r] = s]
    /\ late' = IF s \in Live THEN late ELSE late \cup {r}
    /\ UNCHANGED <<table, who, known, targets, absent, raced>>

\* An expired token does not verify.
Refresh(r, s) ==
    /\ Present(r, s, "refresh")
    /\ Goto(r, IF s \in expired THEN "rejected" ELSE "find")

Logout(r, s) ==
    /\ Present(r, s, "logout")
    /\ Goto(r, IF s \in expired THEN "done" ELSE "find")

\* Variant: revokedAt is not looked at.
UsableEvenRevoked(r) ==
    tok[r] \in rows /\ (op[r] = "refresh" => tok[r] \notin expired)

\* What is checked of the session found; only refresh compares the expiry.
Usable(r) ==
    tok[r] \in Valid /\ (op[r] = "refresh" => tok[r] \notin expired)

Find(r) ==
    /\ pc[r] = "find"
    /\ IF Usable(r)
       THEN /\ who' = [who EXCEPT ![r] = who[tok[r]]]
            /\ targets' = [targets EXCEPT ![r] = {tok[r]}]
            /\ Goto(r, "load")
       ELSE /\ Goto(r, IF op[r] = "refresh" THEN "rejected" ELSE "done")
            /\ UNCHANGED <<who, targets>>
    /\ UNCHANGED <<table, op, tok, known, late, absent, raced>>

-------------------------------------------------------------------------------
(* revokeAllSessionsForUser, which nothing calls yet *)

SessionsOf(u) == {s \in Valid : who[s] = u}

RevokeAll(r, u) ==
    /\ pc[r] = "start"
    /\ op' = [op EXCEPT ![r] = "revokeAll"]
    /\ who' = [who EXCEPT ![r] = u]
    /\ known' = [known EXCEPT ![r] = SessionsOf(u)]
    /\ Goto(r, "findAll")
    /\ UNCHANGED <<table, tok, late, targets, absent, raced>>

\* Variant: only one session of the user is fetched.
FindOne(r) ==
    /\ pc[r] = "findAll"
    /\ IF SessionsOf(who[r]) = {} THEN Goto(r, "done") /\ UNCHANGED targets
       ELSE /\ Goto(r, "load")
            /\ \E s \in SessionsOf(who[r]) : targets' = [targets EXCEPT ![r] = {s}]
    /\ UNCHANGED <<table, call, absent, raced>>

\* Saving no entity is no statement.
FindAll(r) ==
    /\ pc[r] = "findAll"
    /\ IF SessionsOf(who[r]) = {} THEN Goto(r, "done") /\ UNCHANGED targets
       ELSE /\ Goto(r, "load")
            /\ targets' = [targets EXCEPT ![r] = SessionsOf(who[r])]
    /\ UNCHANGED <<table, call, absent, raced>>

-------------------------------------------------------------------------------
(* repo.save of the revoked entities *)

Load(r) ==
    /\ pc[r] = "load"
    /\ absent' = [absent EXCEPT ![r] = targets[r] \ rows]
    /\ Goto(r, "write")
    /\ UNCHANGED <<table, call, targets, raced>>

\* Variant: a row is inserted as it was read.
InsertAsRead(r) ==
    /\ rows' = rows \cup absent[r]
    /\ revoked' = revoked \cup (targets[r] \cap rows)

\* What the save writes: a row deleted since it was loaded is not updated.
WriteTargets(r) ==
    /\ rows' = rows \cup absent[r]
    /\ revoked' = revoked \cup (targets[r] \cap rows')

\* An insert fails on a row that is there again, and without the user of the
\* session, which only findOne of refresh and logout loads with it.
InsertFails(r) ==
    absent[r] # {} /\ (op[r] = "revokeAll" \/ absent[r] \cap rows # {})

\* A refresh saves a session that has ended since it was checked; a revocation of
\* all sessions misses one that is new, or still to be given by a refresh.
Owing(r) == op[r] = "refresh" /\ pc[r] = "create"
Overlaps(r) ==
    \/ op[r] = "refresh" /\ tok[r] \notin Live
    \/ op[r] = "revokeAll" /\ \/ \E s \in Live \ targets[r] : who[s] = who[r]
                              \/ \E q \in Requests : Owing(q) /\ who[q] = who[r]

\* Variant: the new session comes although the save failed.
WriteAnyway(r) ==
    /\ pc[r] = "write"
    /\ IF InsertFails(r) THEN UNCHANGED <<rows, revoked, raced>>
       ELSE /\ WriteTargets(r)
            /\ raced' = (raced \/ Overlaps(r))
    /\ Finish(r, IF op[r] = "refresh" THEN "create" ELSE "done")
    /\ UNCHANGED <<users, expired, call>>

Write(r) ==
    /\ pc[r] = "write"
    /\ IF InsertFails(r)
       THEN Finish(r, "failed") /\ UNCHANGED <<rows, revoked, raced>>
       ELSE /\ WriteTargets(r)
            /\ raced' = (raced \/ Overlaps(r))
            /\ Finish(r, IF op[r] = "refresh" THEN "create" ELSE "done")
    /\ UNCHANGED <<users, expired, call>>

-------------------------------------------------------------------------------
Expire(s) ==
    /\ s \in Created \ expired
    /\ expired' = expired \cup {s}
    /\ UNCHANGED <<users, rows, revoked, pc, call, targets, absent, raced>>

\* cleanupExpiredAndRevokedSessions: one DELETE.  Nothing calls it yet.
Cleanup ==
    /\ rows' = Live
    /\ revoked' = {}
    /\ UNCHANGED <<users, expired, pc, call, targets, absent, raced>>

\* Variant: the row inserted for a new session is not rolled back.
FailKeepsRow(r) ==
    /\ pc[r] \in Awaiting
    /\ rows' = IF pc[r] = "create" THEN rows \cup {r} ELSE rows
    /\ Finish(r, "failed")
    /\ UNCHANGED <<users, revoked, expired, call, raced>>

\* A failed statement, or the end of the process.
Fail(r) ==
    /\ pc[r] \in Awaiting
    /\ Finish(r, "failed")
    /\ UNCHANGED <<table, call, raced>>

Next ==
    \/ \E r \in Requests :
          \/ \E u \in Users : Register(r, u) \/ Login(r, u) \/ RevokeAll(r, u)
          \/ \E s \in Requests : Refresh(r, s) \/ Logout(r, s)
          \/ InsertUser(r) \/ Create(r) \/ Find(r) \/ FindAll(r)
          \/ Load(r) \/ Write(r) \/ Fail(r) \/ Expire(r)
    \/ Cleanup

Spec == Init /\ [][Next]_vars

-------------------------------------------------------------------------------
(* Properties *)

\* The type invariant.
TypeOK ==
    /\ users \subseteq Users
    /\ rows \subseteq Created
    /\ revoked \subseteq rows
    /\ expired \subseteq Created
    /\ pc \in [Requests -> {"start"} \cup Awaiting \cup Ended]
    /\ op \in [Requests -> Ops \cup {Nil}]
    /\ who \in [Requests -> Users \cup {Nil}]
    /\ tok \in [Requests -> Requests \cup {Nil}]
    /\ targets \in [Requests -> SUBSET Requests]
    /\ absent \in [Requests -> SUBSET Requests]
    /\ known \in [Requests -> SUBSET Requests]
    /\ late \subseteq Requests
    /\ raced \in BOOLEAN

\* A session that was revoked or deleted never comes back as a valid one, though
\* a save may insert a deleted row anew.
RevokedForGood == [][\A s \in Created \ Valid : s \notin Valid']_vars

\* A refresh token that was used, logged out, revoked or expired before the
\* refresh came gives no session, whatever else is under way.
LateRefreshRefused ==
    \A r \in late : op[r] = "refresh" => pc[r] \in {"find", "rejected", "failed"}

\* revokeAllSessionsForUser, once it has returned, has ended every session the
\* user had when it was called, and none of them comes back.
RevokeAllSticks ==
    \A r \in Requests : op[r] = "revokeAll" /\ pc[r] = "done" => known[r] \cap Valid = {}

\* Until two requests overlap on a session, every step is one of SessionRegister:
\* a token is good for one new session at most, and ending all sessions of a user
\* leaves none.
SR == INSTANCE SessionRegister WITH
          Ids <- Requests,
          granted <- Created,
          live <- {<<s, who[s]>> : s \in Live},
          owed <- {<<tok[r], who[r]>> : r \in {q \in Requests : Owing(q)}}

ImplementsSessionRegister ==
    [][raced' \/ SR!Next]_<<Created, {<<s, who[s]>> : s \in Live},
                            {<<tok[r], who[r]>> : r \in {q \in Requests : Owing(q)}}>>
===============================================================================
