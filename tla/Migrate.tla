------------------------------- MODULE Migrate -------------------------------
(* The start of the servers: each applies the migrations it finds missing,   *)
(* one transaction per migration with its row of schema_migrations, and      *)
(* serves only after all of them. Servers may start at once, and any step    *)
(* may fail; main exits then, and the container is started again.            *)
EXTENDS Naturals, FiniteSets

CONSTANTS Replicas,
          MigrationCount,   \* the *.up.sql files, numbered in the order of their names
          Rerunnable        \* those whose statements say IF NOT EXISTS throughout
ASSUME MigrateAssumption ==
    MigrationCount \in Nat /\ Rerunnable \subseteq 1..MigrationCount

VARIABLES
    schema,      \* the migrations whose changes are in the database
    recorded,    \* the rows of schema_migrations
    replica      \* per server, where it is and the migration it is at

migrateVars == <<schema, recorded, replica>>

Migrations == 1..MigrationCount
At(pc, migration) == [pc |-> pc, migration |-> migration]
Down == At("down", 1)

MigrateTypeOK ==
    /\ schema \subseteq Migrations /\ recorded \subseteq Migrations
    /\ replica \in [Replicas -> [pc : {"down", "check", "apply", "record", "commit", "up"},
                                 migration : 1..(MigrationCount + 1)]]

MigrateInit ==
    /\ schema = {} /\ recorded = {}
    /\ replica = [r \in Replicas |-> Down]

Moves(r, from, to) ==
    /\ replica[r].pc = from
    /\ replica' = [replica EXCEPT ![r].pc = to]

StartServer(r) == Moves(r, "down", "check") /\ UNCHANGED <<schema, recorded>>

\* SELECT EXISTS: skip the migration, or read its file and begin.
CheckMigration(r) ==
    LET m == replica[r].migration
    IN  /\ replica[r].pc = "check" /\ m \in Migrations
        /\ replica' = [replica EXCEPT ![r] = IF m \in recorded THEN At("check", m + 1)
                                                               ELSE At("apply", m)]
        /\ UNCHANGED <<schema, recorded>>

\* A bug: the statements are executed on the pool, outside the transaction.
ApplyOutside(r) ==
    /\ Moves(r, "apply", "record")
    /\ schema' = schema \union {replica[r].migration}
    /\ UNCHANGED recorded

\* The statements wait for another open transaction that executed the same
\* ones, and fail on what exists, and without the tables of those before.
ApplyMigration(r) ==
    LET m == replica[r].migration
    IN  /\ \A s \in Replicas : replica[s] \notin {At("record", m), At("commit", m)}
        /\ m \notin schema \/ m \in Rerunnable
        /\ 1..(m - 1) \subseteq schema
        /\ Moves(r, "apply", "record")
        /\ UNCHANGED <<schema, recorded>>

\* A bug: the row is inserted ON CONFLICT DO NOTHING.
RecordAnyway(r) ==
    /\ Moves(r, "record", "commit")
    /\ UNCHANGED <<schema, recorded>>

RecordMigration(r) ==   \* the primary key refuses a second row
    /\ replica[r].migration \notin recorded
    /\ Moves(r, "record", "commit")
    /\ UNCHANGED <<schema, recorded>>

CommitMigration(r) ==
    LET m == replica[r].migration
    IN  /\ replica[r].pc = "commit"
        /\ schema' = schema \union {m} /\ recorded' = recorded \union {m}
        /\ replica' \in {[replica EXCEPT ![r] = next] :   \* the answer may be lost
                             next \in {At("check", m + 1), Down}}

Serve(r) ==
    /\ replica[r].migration = MigrationCount + 1
    /\ Moves(r, "check", "up")
    /\ UNCHANGED <<schema, recorded>>

\* An error or a crash rolls the open transaction back; so ends a server, too.
ServerEnds(r) ==
    /\ replica[r] # Down
    /\ replica' = [replica EXCEPT ![r] = Down]
    /\ UNCHANGED <<schema, recorded>>

MigrateNext == \E r \in Replicas :
    \/ StartServer(r) \/ CheckMigration(r) \/ ApplyMigration(r)
    \/ RecordMigration(r) \/ CommitMigration(r) \/ Serve(r) \/ ServerEnds(r)

MigrateSpec == MigrateInit /\ [][MigrateNext]_migrateVars

-----------------------------------------------------------------------------
(* However many servers start at once, fail and start again: the schema is   *)
(* always what schema_migrations says, a prefix of the migrations, so that   *)
(* the next start goes on where the last one failed; and a server that       *)
(* serves finds all of them applied. (Migrate: body and row in one           *)
(* transaction, in the order of the names; main: exit on any error.)         *)
SchemaComplete ==
    /\ schema = recorded
    /\ \E n \in 0..MigrationCount : recorded = 1..n
    /\ \A r \in Replicas : replica[r].pc = "up" => schema = Migrations

(* No migration is committed twice, none before those ahead of it, and what  *)
(* is committed stays: each commit adds the next migration and nothing else. *)
(* (The check comes before the transaction; the locks of the statements and  *)
(* the primary key of schema_migrations hold back who checked too early.)    *)
CommittedOnce ==
    [][IF \E r \in Replicas : CommitMigration(r)
         THEN recorded' = 1..(Cardinality(recorded) + 1)
         ELSE UNCHANGED <<schema, recorded>>]_migrateVars
=============================================================================
