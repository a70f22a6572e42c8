------------------------------ MODULE Migrations ------------------------------
(* The database's scripts (db/scripts): migrate.ts up, down and status, seed.ts,  *)
(* apply-schema.ts and verify-schema.ts, run by several shells from checkouts of  *)
(* different age against one database.                                            *)
EXTENDS Integers, FiniteSets, Sequences, SequencesExt

CONSTANTS
  Shells,
  Checkouts,       \* directories of migrations: complete or not, and the pairs in order
  Tables,          \* what loadExpectedTableNames finds in the normative schema
  SeedTables,      \* the table every seed file inserts into, in order of the files
  ScriptsOf(_),    \* the scripts a shell runs
  AbortsOf(_),     \* where a shell may be killed or lose its connection
  MaxScripts       \* bound on the scripts run

VARIABLES
  installed,       \* tables of the public schema, without schema_migrations
  ledgerThere,     \* whether schema_migrations exists
  ledger,          \* its rows: version and name
  seeded,          \* tables that hold their seed
  holder,          \* who holds the advisory lock
  shells,
  scripts          \* how many scripts were run

migrationVars == <<installed, ledgerThere, ledger, seeded, holder, shells, scripts>>

IdleShell == [op |-> "none", at |-> "idle", local |-> <<>>, rest |-> <<>>, outcome |-> "none"]
PairRow(m) == [version |-> m.version, name |-> m.name]

MigrationInit ==
  /\ installed = {} /\ ledgerThere = FALSE /\ ledger = {} /\ seeded = {}
  /\ holder = {} /\ scripts = 0
  /\ shells = [p \in Shells |-> IdleShell]

\* assertAppliedMigrationsExistLocally
KnownLocally(local, rows) ==
  \A r \in rows : \E m \in Range(local) : PairRow(m) = r

\* the tables that the schema expects and that are missing, and those it does not know
MissingTables(there) == Tables \ there
ExtraTables(there) == there \ Tables

PendingOf(local, rows) == SelectSeq(local, LAMBDA m : \A r \in rows : r.version # m.version)
LastApplied(rows) == CHOOSE r \in rows : \A s \in rows : s.version <= r.version

\* the SQL runs when what it creates is not there and what it refers to is, and is
\* taken back when nothing refers to what it created
UpRuns(m) == m.creates \cap installed = {} /\ m.needs \subseteq installed
DownRuns(m, others) == \A o \in others : o.needs \cap m.creates = {}

Goes(p, at) == shells' = [shells EXCEPT ![p].at = at]
\* the client is closed; the session's lock and an open transaction go with it
Finishes(p, outcome) ==
  /\ shells' = [shells EXCEPT ![p] = [IdleShell EXCEPT !.outcome = outcome]]
  /\ holder' = holder \ {p}
StoreKept == UNCHANGED <<installed, ledgerThere, ledger, seeded>>

\* loadMigrationFiles: before the connection and the lock; an incomplete pair, a
\* version with two names or another SQL file ends the script
LaunchScript(p, op, c) ==
  /\ shells[p].at = "idle" /\ op \in ScriptsOf(p) /\ scripts < MaxScripts
  /\ scripts' = scripts + 1
  /\ LET migrates == op \in {"up", "down", "status"} IN
     IF migrates /\ ~c.complete THEN Finishes(p, "refused")
     ELSE /\ shells' = [shells EXCEPT ![p] =
               [op |-> op, local |-> IF migrates THEN c.pairs ELSE <<>>, rest |-> <<>>, outcome |-> "none",
                at |-> CASE op \in {"up", "down"} -> "locking"
                         [] op = "status" -> "ensuring"
                         [] OTHER -> "working"]]
          /\ UNCHANGED holder
  /\ StoreKept

\* withAdvisoryLock
LockMigrations(p) ==
  /\ shells[p].at = "locking" /\ holder = {}
  /\ holder' = {p} /\ Goes(p, "ensuring")
  /\ StoreKept /\ UNCHANGED scripts

\* ensureSchemaMigrationsTable: for the status without the lock
EnsureLedger(p) ==
  /\ shells[p].at = "ensuring"
  /\ ledgerThere' = TRUE /\ Goes(p, "listing")
  /\ UNCHANGED <<installed, ledger, seeded, holder, scripts>>

\* listAppliedMigrations
ListApplied(p) ==
  /\ shells[p].at = "listing"
  /\ LET local == shells[p].local IN
     CASE ~KnownLocally(local, ledger) -> Finishes(p, "refused")
       [] shells[p].op = "status" -> Finishes(p, "done")
       [] shells[p].op = "up" ->
            /\ shells' = [shells EXCEPT ![p].at = "applying", ![p].rest = PendingOf(local, ledger)]
            /\ UNCHANGED holder
       [] OTHER ->
            IF ledger = {} THEN Finishes(p, "done")
            ELSE /\ shells' = [shells EXCEPT ![p].at = "undoing",
                               ![p].rest = SelectSeq(local, LAMBDA m : PairRow(m) = LastApplied(ledger))]
                 /\ UNCHANGED holder
  /\ StoreKept /\ UNCHANGED scripts

\* withTransaction: the SQL and its row, or neither
ApplyMigration(p) ==
  /\ shells[p].at = "applying" /\ shells[p].rest # <<>>
  /\ LET m == Head(shells[p].rest) IN
     IF UpRuns(m)
     THEN /\ installed' = installed \cup m.creates
          /\ ledger' = ledger \cup {PairRow(m)}
          /\ shells' = [shells EXCEPT ![p].rest = Tail(@)]
          /\ UNCHANGED holder
     ELSE Finishes(p, "failed") /\ UNCHANGED <<installed, ledger>>
  /\ UNCHANGED <<ledgerThere, seeded, scripts>>

EndUp(p) ==
  /\ shells[p].at = "applying" /\ shells[p].rest = <<>>
  /\ Finishes(p, "done")
  /\ StoreKept /\ UNCHANGED scripts

UndoMigration(p) ==
  /\ shells[p].at = "undoing"
  /\ LET m == Head(shells[p].rest)
         others == {o \in Range(shells[p].local) : PairRow(o) \in ledger \ {PairRow(m)}}
     IN IF DownRuns(m, others)
        THEN /\ installed' = installed \ m.creates
             /\ ledger' = ledger \ {PairRow(m)}
             /\ seeded' = seeded \ m.creates
             /\ Finishes(p, "done")
        ELSE Finishes(p, "failed") /\ UNCHANGED <<installed, ledger, seeded>>
  /\ UNCHANGED <<ledgerThere, scripts>>

\* seed.ts: one transaction for each file, which inserts what is not there yet
SeedFile(p) ==
  /\ shells[p].op = "seed" /\ shells[p].at = "working"
  /\ LET n == Len(shells[p].rest) + 1 IN
     IF SeedTables[n] \notin installed THEN Finishes(p, "failed") /\ UNCHANGED seeded
     ELSE /\ seeded' = seeded \cup {SeedTables[n]}
          /\ IF n = Len(SeedTables) THEN Finishes(p, "done")
             ELSE shells' = [shells EXCEPT ![p].rest = Append(@, SeedTables[n])] /\ UNCHANGED holder
  /\ UNCHANGED <<installed, ledgerThere, ledger, scripts>>

\* apply-schema.ts: the normative schema in one transaction, then a look at the tables
ApplySchema(p) ==
  /\ shells[p].op = "apply" /\ shells[p].at = "working"
  /\ IF Tables \cap installed = {} THEN installed' = installed \cup Tables /\ Goes(p, "checking") /\ UNCHANGED holder
     ELSE Finishes(p, "failed") /\ UNCHANGED installed
  /\ UNCHANGED <<ledgerThere, ledger, seeded, scripts>>

CheckTables(p) ==
  /\ shells[p].at = "checking"
  /\ Finishes(p, IF MissingTables(installed) = {} THEN "done" ELSE "failed")
  /\ StoreKept /\ UNCHANGED scripts

VerifySchema(p) ==
  /\ shells[p].op = "verify" /\ shells[p].at = "working"
  /\ Finishes(p, IF MissingTables(installed) = {} /\ ExtraTables(installed) = {} THEN "done" ELSE "failed")
  /\ StoreKept /\ UNCHANGED scripts

AbortScript(p) ==
  /\ shells[p].at \in AbortsOf(p)
  /\ Finishes(p, "aborted")
  /\ StoreKept /\ UNCHANGED scripts

MigrationNext ==
  \E p \in Shells :
    \/ \E op \in ScriptsOf(p), c \in Checkouts : LaunchScript(p, op, c)
    \/ LockMigrations(p) \/ EnsureLedger(p) \/ ListApplied(p)
    \/ ApplyMigration(p) \/ EndUp(p) \/ UndoMigration(p)
    \/ SeedFile(p) \/ ApplySchema(p) \/ CheckTables(p) \/ VerifySchema(p)
    \/ AbortScript(p)

-------------------------------------------------------------------------------
\* The types, and that two shells never migrate at once, that every recorded
\* migration has its tables (a down or an up that fails takes its row back), and
\* that no version is recorded twice.
MigrationTypeOK ==
  /\ installed \subseteq Tables \cup UNION {UNION {m.creates : m \in Range(c.pairs)} : c \in Checkouts}
  /\ seeded \subseteq installed
  /\ ledger # {} => ledgerThere
  /\ holder \subseteq Shells /\ Cardinality(holder) <= 1
  /\ \A p \in Shells : shells[p].at \in {"applying", "undoing"} => p \in holder
  /\ \A r \in ledger : \E c \in Checkouts : \E m \in Range(c.pairs) :
       PairRow(m) = r /\ m.creates \subseteq installed
  /\ \A r, s \in ledger : r.version = s.version => r = s
  /\ \A p \in Shells : shells[p].at = "applying" => KnownLocally(shells[p].local, ledger)
===============================================================================
