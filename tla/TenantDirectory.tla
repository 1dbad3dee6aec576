----------------------------- MODULE TenantDirectory -----------------------------
(* What the tenants are promised, one atomic step at a time: a person has one  *)
(* account, a company comes into being with its owner, and from then on only   *)
(* its active owners let others in, each once.                                 *)
CONSTANTS Persons, Companies, Roles, Statuses

VARIABLES
    accounts,  \* the persons that have an account
    founded,   \* the companies
    roster     \* who is in which company, as what and in which standing

Place == Companies \X Persons \X Roles \X Statuses

Init == accounts \subseteq Persons /\ founded = {} /\ roster = {}

Enrol(p) ==
    /\ p \notin accounts
    /\ accounts' = accounts \cup {p}
    /\ UNCHANGED <<founded, roster>>

Found(c, p) ==
    /\ c \notin founded /\ p \notin accounts
    /\ founded' = founded \cup {c}
    /\ accounts' = accounts \cup {p}
    /\ roster' = roster \cup {<<c, p, "OWNER", "ACTIVE">>}

Admit(owner, p, role, standing) ==
    /\ owner[3] = "OWNER" /\ owner[4] = "ACTIVE"
    /\ p \in accounts
    /\ \A place \in roster : place[1] = owner[1] => place[2] # p
    /\ roster' = roster \cup {<<owner[1], p, role, standing>>}
    /\ UNCHANGED <<accounts, founded>>

Next ==
    \/ \E p \in Persons : Enrol(p)
    \/ \E c \in Companies, p \in Persons : Found(c, p)
    \/ \E owner \in roster, p \in accounts, role \in Roles, standing \in Statuses :
          Admit(owner, p, role, standing)

Spec == Init /\ [][Next]_<<accounts, founded, roster>>

===============================================================================
