------------------------------- MODULE Migrations -------------------------------
(* The schema and its ten migrations.  migration:run applies the pending       *)
(* migrations of the release in one transaction, migration:revert undoes the   *)
(* last one; a statement that fails undoes the command.                        *)
(*                                                                             *)
(* The schema is a set of objects: enum types, tables with their columns and   *)
(* indexes, foreign keys, and the parts that migrations add to a table or to a *)
(* type that exists.                                                           *)
EXTENDS Naturals

Last == 10

VARIABLES
    applied,  \* how many migrations are in the migrations table
    schema    \* the objects there are

\* CREATE TYPE, CREATE TABLE and FOREIGN KEY statements of a migration.
Creation(types, table, refs) ==
    {<<"type", t>> : t \in types} \cup {<<"table", table>>}
        \cup {<<"fk", table, ref>> : ref \in refs}

CreateCompanies == Creation({"companies_status_enum"}, "companies", {})
CreateUsers ==
    Creation({"users_role_enum", "users_status_enum"}, "users", {"companies"})
CreateShareholders == Creation({}, "shareholders", {"companies"})
CreateShareTransactions ==
    Creation({"share_transactions_type_enum"}, "share_transactions",
             {"companies", "shareholders"})
CreateShareCertificates ==
    Creation({}, "share_certificates", {"companies", "shareholders"})
CreateCompanyUsers == Creation({}, "company_users", {"companies", "users"})
CreateAuditLogs ==
    Creation({}, "audit_logs", {"companies", "users", "company_users"})
CreateUserSessions == Creation({}, "user_sessions", {"users"})

\* What migration k creates and its down() drops; the eighth and the tenth alter
\* what there is.
Creates(k) ==
    CASE k = 1 -> CreateCompanies         [] k = 2 -> CreateUsers
      [] k = 3 -> CreateShareholders      [] k = 4 -> CreateShareTransactions
      [] k = 5 -> CreateShareCertificates [] k = 6 -> CreateCompanyUsers
      [] k = 7 -> CreateAuditLogs         [] k = 9 -> CreateUserSessions
      [] OTHER -> {}

\* What AlterAuditLogsImmutabilityAndActorFk removes if it is there, and puts
\* back whether or not it was.
AuditLogsParts ==
    {<<"notNull", "audit_logs", "actorUserId">>,
     <<"column", "audit_logs", "updatedAt">>, <<"column", "audit_logs", "deletedAt">>}

\* What ExtendCompanyStatusAndSuspensionFields adds if it is not there.
EnumValues ==
    {<<"value", "companies_status_enum", v>> : v \in {"PENDING_REVIEW", "ARCHIVED"}}
SuspensionColumns ==
    {<<"column", "companies", c>> :
        c \in {"suspendedAt", "suspendedByUserId", "suspensionReason"}}

Up(k, s) ==
    CASE k = 8  -> s \ AuditLogsParts
      [] k = 10 -> s \cup EnumValues \cup SuspensionColumns
      [] OTHER  -> s \cup Creates(k)

\* A dropped table or type takes its parts with it.
WithParts(dropped, s) ==
    dropped \cup {x \in s : /\ x[1] \in {"column", "notNull", "value"}
                            /\ \E y \in dropped : x[2] = y[2]}

\* Variant: down() of a migration leaves its enum types.
DownKeepsTypes(k, s) ==
    CASE k = 8  -> s \cup AuditLogsParts
      [] k = 10 -> s \ SuspensionColumns
      [] OTHER  -> s \ {x \in WithParts(Creates(k), s) : x[1] # "type"}

\* The enum values of the tenth stay.
Down(k, s) ==
    CASE k = 8  -> s \cup AuditLogsParts
      [] k = 10 -> s \ SuspensionColumns
      [] OTHER  -> s \ WithParts(Creates(k), s)

\* No statement of up() fails: what it creates is new, and the tables it refers
\* to or alters are there.
UpSucceeds(k, s) ==
    /\ Creates(k) \cap s = {}
    /\ \A x \in Creates(k) : x[1] = "fk" => <<"table", x[3]>> \in s \cup Creates(k)
    /\ k = 8 => <<"table", "audit_logs">> \in s
    /\ k = 10 => <<"table", "companies">> \in s

\* No statement of down() fails: what it drops is there and no other table
\* refers to it.  That of the eighth would also fail on an audit row without an
\* actor; every caller of the audit log names one and no user is ever deleted,
\* so that there is no such row and the rows are left out here.
DownSucceeds(k, s) ==
    /\ Creates(k) \subseteq s
    /\ \A x \in s \ Creates(k) : x[1] = "fk" => <<"table", x[3]>> \notin Creates(k)
    /\ k = 8 => <<"table", "audit_logs">> \in s
    /\ k = 10 => <<"table", "companies">> \in s

\* The schema after the migrations from first to last were added to s.
Upgraded(s, first, last) ==
    LET after[k \in Nat] == IF k < first THEN s ELSE Up(k, after[k - 1])
    IN after[last]

\* migration:run of a release that ships the migrations up to last.
Run(last) ==
    /\ applied < last
    /\ \A k \in (applied + 1)..last : UpSucceeds(k, Upgraded(schema, applied + 1, k - 1))
    /\ schema' = Upgraded(schema, applied + 1, last)
    /\ applied' = last

Revert ==
    /\ applied > 0
    /\ DownSucceeds(applied, schema)
    /\ schema' = Down(applied, schema)
    /\ applied' = applied - 1

MigrationsInit == applied = 0 /\ schema = {}

===============================================================================
