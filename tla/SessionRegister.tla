---------------------------- MODULE SessionRegister ----------------------------
(* What the sessions of the users promise: a login opens a session, a refresh  *)
(* takes one live session and gives one new session for it at most, and ending *)
(* all sessions of a user leaves none, not even one that is owed.  Sessions is *)
(* shown to implement it as long as no two requests overlap on one session.    *)
CONSTANTS Ids, Users

VARIABLES
    granted,  \* the ids of all sessions there ever were
    live,     \* the live sessions, each with its user
    owed      \* the sessions taken for a refresh that has not given its new one

Grant(s, u) ==
    /\ s \notin granted
    /\ granted' = granted \cup {s}
    /\ live' = live \cup {<<s, u>>}
    /\ UNCHANGED owed

Take(s, u) ==
    /\ <<s, u>> \in live
    /\ live' = live \ {<<s, u>>}
    /\ owed' = owed \cup {<<s, u>>}
    /\ UNCHANGED granted

Give(s, t, u) ==
    /\ <<s, u>> \in owed
    /\ owed' = owed \ {<<s, u>>}
    /\ t \notin granted
    /\ granted' = granted \cup {t}
    /\ live' = live \cup {<<t, u>>}

\* The refresh fails: the user has lost its session.
Forfeit(s, u) ==
    /\ owed' = owed \ {<<s, u>>}
    /\ UNCHANGED <<granted, live>>

\* A logout, or the end of its time.
End(s, u) ==
    /\ live' = live \ {<<s, u>>}
    /\ UNCHANGED <<granted, owed>>

EndAll(u) ==
    /\ live' = {p \in live : p[2] # u}
    /\ owed' = {p \in owed : p[2] # u}
    /\ UNCHANGED granted

Next ==
    \E u \in Users :
        \/ EndAll(u)
        \/ \E s \in Ids :
              \/ Grant(s, u) \/ Take(s, u) \/ Forfeit(s, u) \/ End(s, u)
              \/ \E t \in Ids : Give(s, t, u)
===============================================================================
