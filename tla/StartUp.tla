------------------------------ MODULE StartUp ------------------------------
(* Processes start side by side on one database: each takes the advisory     *)
(* lock, upgrades the schema to the last revision in one transaction,        *)
(* releases the lock, verifies the tables and serves.  A start that fails,   *)
(* or a process that crashes, is started again.                              *)
EXTENDS Schema

CONSTANTS
    Processes,
    MaxFaults   \* bound: crashes and lost connections

ASSUME StartUpAssumption == MaxFaults \in Nat

VARIABLES
    revision,  \* the last revision committed to the database
    auto,      \* AUTO_MIGRATE of each process
    starting,  \* where each process is
    from,      \* the revision its upgrade has read
    locked,    \* the processes that hold the advisory lock: one at most
    faults

startUpVars == <<revision, auto, starting, from, locked, faults>>

StartUpInit ==
    /\ revision \in 0..HeadRevision
    /\ auto \in [Processes -> BOOLEAN]
    /\ starting = [p \in Processes |-> "lock"]
    /\ from = [p \in Processes |-> 0]
    /\ locked = {}
    /\ faults = 0

GoOn(p, to) == starting' = [starting EXCEPT ![p] = to]

-----------------------------------------------------------------------------
(* lifespan *)

\* Mutant of LockIsFree: the lock is tried, and its absence ignored.
LockIsFreeAlways == TRUE
LockIsFree == locked = {}

AcquireLock(p) ==
    /\ starting[p] = "lock"
    /\ LockIsFree
    /\ locked' = locked \union {p}
    /\ GoOn(p, IF auto[p] THEN "upgrade" ELSE "unlock")
    /\ UNCHANGED <<revision, auto, from, faults>>

\* alembic reads the revision of the database...
BeginUpgrade(p) ==
    /\ starting[p] = "upgrade"
    /\ from' = [from EXCEPT ![p] = revision]
    /\ GoOn(p, "commit")
    /\ UNCHANGED <<revision, auto, locked, faults>>

\* ... and runs the revisions that follow in one transaction.  If another
\* upgrade was committed in between, its tables are there and this one fails;
\* the lock is then released all the same.
CommitUpgrade(p) ==
    /\ starting[p] = "commit"
    /\ IF revision = from[p]
       THEN /\ revision' = HeadRevision
            /\ GoOn(p, "unlock")
            /\ UNCHANGED locked
       ELSE /\ GoOn(p, "failed")
            /\ locked' = locked \ {p}
            /\ UNCHANGED revision
    /\ UNCHANGED <<auto, from, faults>>

\* The statement fails on a connection that was lost.
Unlock(p) ==
    /\ starting[p] = "unlock"
    /\ locked' = locked \ {p}
    /\ GoOn(p, IF p \in locked THEN "verify" ELSE "failed")
    /\ UNCHANGED <<revision, auto, from, faults>>

REQUIRED_TABLES == {"tenants", "users", "event_outbox", "products", "orders", "payments"}

\* Mutant of SchemaVerified: payments are not required.
SchemaVerifiedBarPayments == REQUIRED_TABLES \ {"payments"} \subseteq TablesAt(revision)
SchemaVerified == REQUIRED_TABLES \subseteq TablesAt(revision)

\* verify_bootstrap only warns.  The outbox worker is started.
Verify(p) ==
    /\ starting[p] = "verify"
    /\ GoOn(p, IF SchemaVerified THEN "up" ELSE "failed")
    /\ UNCHANGED <<revision, auto, from, locked, faults>>

-----------------------------------------------------------------------------
(* Outside of the program *)

Restart(p) ==
    /\ starting[p] = "failed"
    /\ GoOn(p, "lock")
    /\ UNCHANGED <<revision, auto, from, locked, faults>>

\* Mutant of LocksAfterCrash: the lock outlives its session.
LocksAfterCrashKept(p) == locked
\* PostgreSQL releases the locks of a session that ends.
LocksAfterCrash(p) == locked \ {p}

ProcessCrashes(p) ==
    /\ faults < MaxFaults
    /\ faults' = faults + 1
    /\ GoOn(p, "lock")
    /\ locked' = LocksAfterCrash(p)
    /\ UNCHANGED <<revision, auto, from>>

\* The connection that holds the lock idles during the upgrade and is lost.
LockIsLost(p) ==
    /\ faults < MaxFaults
    /\ p \in locked
    /\ faults' = faults + 1
    /\ locked' = LocksAfterCrash(p)
    /\ UNCHANGED <<revision, auto, starting, from>>

StartStep(p) == BeginUpgrade(p) \/ CommitUpgrade(p) \/ Unlock(p) \/ Verify(p) \/ Restart(p)

StartUpNext == \E p \in Processes :
    AcquireLock(p) \/ StartStep(p) \/ ProcessCrashes(p) \/ LockIsLost(p)

StartUpSpec == StartUpInit /\ [][StartUpNext]_startUpVars

\* Processes run on; the queue of an advisory lock is first in, first out; a
\* process that failed is started again, which is up to the deployment:
\* docker-compose.yml configures no restart.
StartUpFairness == \A p \in Processes :
    WF_startUpVars(StartStep(p)) /\ SF_startUpVars(AcquireLock(p))
StartUpFairSpec == StartUpSpec /\ StartUpFairness

-----------------------------------------------------------------------------
(* Properties *)

\* Every variable has its type.
StartUpTypeOK ==
    /\ revision \in 0..HeadRevision
    /\ auto \in [Processes -> BOOLEAN]
    /\ starting \in [Processes ->
           {"lock", "upgrade", "commit", "unlock", "verify", "up", "failed"}]
    /\ from \in [Processes -> 0..HeadRevision]
    /\ locked \in SUBSET Processes
    /\ faults \in Nat

\* A process that serves, migrated or not by itself, has every table of the
\* models with all of its columns, but for the columns of the ledger: the six
\* tables that are looked up at the start stand for all of them.
UpMeansMigrated ==
    \A p \in Processes : starting[p] = "up" =>
        /\ ModelTables \subseteq TablesAt(revision)
        /\ \A t \in ModelTables \ {"inventory_transactions"} : Missing(revision, t) = {}

\* However many processes start at once, an upgrade never fails on the tables
\* of another, unless a connection or a process was lost.
UpgradesDoNotCollide ==
    \A p \in Processes :
        starting[p] = "commit" /\ faults = 0 => revision = from[p]

\* If one process may migrate, every process serves in the end.
EveryProcessServes ==
    (\E p \in Processes : auto[p]) => \A p \in Processes : <>[](starting[p] = "up")

\* There is no drift between the models and the migrations.
NoDrift ==
    \A p \in Processes : starting[p] = "up" =>
        \A t \in ModelTables : Missing(revision, t) = {}

=============================================================================
