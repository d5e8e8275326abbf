------------------------------ MODULE Migrate ------------------------------
(***************************************************************************)
(* migrate.Apply (migrate/apply.go, adopt.go): instances of an app that    *)
(* start on one database, each on its one writer connection, and may be    *)
(* killed at any step.                                                     *)
(*                                                                         *)
(* SQLite is external: a BEGIN IMMEDIATE waits for the write lock, what a  *)
(* transaction wrote shows when it commits, foreign_keys belongs to the    *)
(* connection and cannot be set inside a transaction.  A body changes the  *)
(* structure, and fails on a database that has that, or data only.  A      *)
(* database is compared by which of the former it has.  Checksums and      *)
(* Validate judge the set alone and are left out.                          *)
(***************************************************************************)
EXTENDS Integers

CONSTANTS
    Instances,     \* processes of the app
    None,          \* nobody
    N,             \* how many migrations there are
    DataOnly,      \* those that change no structure; a Go one is taken for such
    PostAdoption,  \* those marked post-adoption
    Rebuilds,      \* those that need foreign keys off
    MaxFaults      \* bound: kills, failed statements and failed cleanups

Migrations == 1..N
Schema == Migrations \ DataOnly
Base == Migrations \ PostAdoption

ASSUME MigrateAssumption ==
    /\ N \in Nat /\ MaxFaults \in Nat
    /\ DataOnly \subseteq Migrations /\ PostAdoption \subseteq Migrations
    /\ Rebuilds \subseteq Schema
    /\ None \notin Instances

VARIABLES
    built,    \* the structure the database had before it had a ledger
    runs,     \* history: per migration how often a run of it committed
    ledger,   \* the migrations that rastrillo_migrations has
    lock,     \* who holds the write lock
    at,       \* per instance where Apply is
    next,     \* per instance the migration the loop is at
    seen,     \* per instance the ledger as it read it
    stamp,    \* per instance what it is about to stamp
    outcome,  \* per instance how the transaction it leaves ended
    fk,       \* per instance whether its connection has foreign keys on
    evicted,  \* the instances whose connection the pool discards
    crossed,  \* history: one adopted what another had begun to apply
    faults

databaseVars == <<built, runs, ledger>>
applyVars == <<at, next, seen, stamp, outcome>>
connectionVars == <<lock, fk, evicted>>
migrateVars == <<databaseVars, applyVars, connectionVars, crossed, faults>>

InTransaction == {"stamping", "check", "body", "commit", "undo"}

Places ==
    InTransaction \cup {"down", "ledger", "empty", "compare", "stamp", "reread", "next",
                        "begin", "restore", "up", "failed", "refused"}

MigrateTypeOK ==
    /\ built \subseteq Schema
    /\ runs \in [Migrations -> Nat]
    /\ ledger \subseteq Migrations
    /\ lock \in Instances \cup {None}
    /\ at \in [Instances -> Places]
    /\ next \in [Instances -> 1..(N + 1)]
    /\ seen \in [Instances -> SUBSET Migrations]
    /\ stamp \in [Instances -> SUBSET Migrations]
    /\ outcome \in [Instances -> {"went", "error"}]
    /\ fk \in [Instances -> BOOLEAN]
    /\ evicted \subseteq Instances
    /\ crossed \in BOOLEAN
    /\ faults \in 0..MaxFaults

\* A database is new, or from before it had a ledger.
MigrateInit ==
    /\ built \in SUBSET Schema
    /\ runs = [m \in Migrations |-> 0]
    /\ ledger = {}
    /\ lock = None
    /\ at = [i \in Instances |-> "down"]
    /\ next = [i \in Instances |-> 1]
    /\ seen = [i \in Instances |-> {}]
    /\ stamp = [i \in Instances |-> {}]
    /\ outcome = [i \in Instances |-> "went"]
    /\ fk = [i \in Instances |-> TRUE]
    /\ evicted = {}
    /\ crossed = FALSE
    /\ faults = 0

Structure == built \cup {m \in Schema : runs[m] > 0}

Goes(i, from, to) == at[i] = from /\ at' = [at EXCEPT ![i] = to]

Blame == faults < MaxFaults /\ faults' = faults + 1

-----------------------------------------------------------------------------
(* Up to the loop.                                                         *)

\* A process starts, or starts again, on a connection of its own.
Boot(i) ==
    /\ at[i] \in {"down", "failed", "refused"}
    /\ at' = [at EXCEPT ![i] = "ledger"]
    /\ next' = [next EXCEPT ![i] = 1]
    /\ seen' = [seen EXCEPT ![i] = {}]
    /\ fk' = [fk EXCEPT ![i] = TRUE]
    /\ evicted' = evicted \ {i}
    /\ UNCHANGED <<databaseVars, stamp, outcome, lock, crossed, faults>>

\* The ledger's table, which may be there, and what it holds: before any
\* transaction, so a row may come between.
ReadLedger(i) ==
    /\ Goes(i, "ledger", IF ledger = {} THEN "empty" ELSE "next")
    /\ seen' = [seen EXCEPT ![i] = ledger]
    /\ UNCHANGED <<databaseVars, next, stamp, outcome, connectionVars, crossed, faults>>

\* A database with no tables is a new app's.
IsEmpty(i) ==
    /\ Goes(i, "empty", IF Structure = {} THEN "next" ELSE "compare")
    /\ UNCHANGED <<databaseVars, next, seen, stamp, outcome, connectionVars, crossed, faults>>

\* A mutant of Match: what the base matches is stamped with the whole set.
MatchStampsAll ==
    IF Structure = Schema \/ (PostAdoption # {} /\ Structure = Schema \cap Base)
    THEN {Migrations} ELSE {}

\* What the structure is that of: the whole set, or the set without its
\* post-adoption migrations.
Match ==
    IF Structure = Schema THEN {Migrations}
    ELSE {B \in {Base} : PostAdoption # {} /\ Structure = Schema \cap B}

\* adopt replays the set in memory and compares; the database may be one
\* that another instance is building.
Compare(i) ==
    /\ Goes(i, "compare", IF Match = {} THEN "refused" ELSE "stamp")
    /\ \E s \in IF Match = {} THEN {{}} ELSE Match : stamp' = [stamp EXCEPT ![i] = s]
    /\ crossed' = (crossed \/ (Match # {} /\ ledger # {}))
    /\ UNCHANGED <<databaseVars, next, seen, outcome, connectionVars, faults>>

\* Stamp's transaction: rows that are there are left alone.
StampBegin(i) ==
    /\ Goes(i, "stamp", "stamping")
    /\ lock = None /\ lock' = i
    /\ UNCHANGED <<databaseVars, next, seen, stamp, outcome, fk, evicted, crossed, faults>>

Stamp(i) ==
    /\ Goes(i, "stamping", IF stamp[i] = Migrations THEN "up" ELSE "reread")
    /\ ledger' = ledger \cup stamp[i]
    /\ lock' = None
    /\ UNCHANGED <<built, runs, next, seen, stamp, outcome, fk, evicted, crossed, faults>>

\* Adopted through the base set: the ledger is read again.
Reread(i) ==
    /\ Goes(i, "reread", "next")
    /\ seen' = [seen EXCEPT ![i] = ledger]
    /\ UNCHANGED <<databaseVars, next, stamp, outcome, connectionVars, crossed, faults>>

-----------------------------------------------------------------------------
(* The loop, and runOne.                                                   *)

Pending(i) == next[i] \in Migrations /\ next[i] \notin seen[i]

Skip(i) ==
    /\ at[i] = "next" /\ next[i] \in seen[i]
    /\ next' = [next EXCEPT ![i] = @ + 1]
    /\ UNCHANGED <<databaseVars, at, seen, stamp, outcome, connectionVars, crossed, faults>>

Finish(i) ==
    /\ Goes(i, "next", "up")
    /\ next[i] = N + 1
    /\ UNCHANGED <<databaseVars, next, seen, stamp, outcome, connectionVars, crossed, faults>>

\* A rebuild turns foreign keys off before its transaction.
Enter(i) ==
    /\ Goes(i, "next", "begin")
    /\ Pending(i) /\ i \notin evicted
    /\ fk' = [fk EXCEPT ![i] = next[i] \notin Rebuilds]
    /\ UNCHANGED <<databaseVars, next, seen, stamp, outcome, lock, evicted, crossed, faults>>

\* A connection that was discarded answers nothing.
Dead(i) ==
    /\ Goes(i, "next", "failed")
    /\ Pending(i) /\ i \in evicted
    /\ UNCHANGED <<databaseVars, next, seen, stamp, outcome, connectionVars, crossed, faults>>

Begin(i) ==
    /\ Goes(i, "begin", "check")
    /\ lock = None /\ lock' = i
    /\ UNCHANGED <<databaseVars, next, seen, stamp, outcome, fk, evicted, crossed, faults>>

\* A mutant of Recheck: the ledger that was read at the start is trusted.
RecheckTrusts(i) ==
    /\ Goes(i, "check", "body")
    /\ outcome' = [outcome EXCEPT ![i] = "went"]
    /\ UNCHANGED <<databaseVars, next, seen, stamp, connectionVars, crossed, faults>>

\* The ledger again, under the lock: a row that is there by now is another
\* instance's, and the migration is skipped.
Recheck(i) ==
    /\ Goes(i, "check", IF next[i] \in ledger THEN "undo" ELSE "body")
    /\ outcome' = [outcome EXCEPT ![i] = "went"]
    /\ UNCHANGED <<databaseVars, next, seen, stamp, connectionVars, crossed, faults>>

\* The body, the check of foreign keys, and the ledger row.
RunBody(i) ==
    LET there == next[i] \in Structure IN
    /\ Goes(i, "body", IF there THEN "undo" ELSE "commit")
    /\ outcome' = [outcome EXCEPT ![i] = IF there THEN "error" ELSE "went"]
    /\ UNCHANGED <<databaseVars, next, seen, stamp, connectionVars, crossed, faults>>

\* runOne returns: the loop goes on, or Apply fails.
Concludes(i, how) ==
    /\ at' = [at EXCEPT ![i] = IF how = "went" THEN "next" ELSE "failed"]
    /\ next' = [next EXCEPT ![i] = IF how = "went" THEN @ + 1 ELSE @]

\* The transaction is over.  What ran with foreign keys off turns them on.
Ends(i, how) ==
    IF fk[i] THEN Concludes(i, how)
    ELSE at' = [at EXCEPT ![i] = "restore"] /\ UNCHANGED next

\* A mutant of Commit: the row is put after the transaction, and may be lost.
CommitRowLater(i) ==
    /\ at[i] = "commit"
    /\ runs' = [runs EXCEPT ![next[i]] = @ + 1]
    /\ lock' = None
    /\ \/ ledger' = ledger \cup {next[i]} /\ Ends(i, "went") /\ UNCHANGED faults
       \/ Blame /\ Ends(i, "error") /\ UNCHANGED ledger
    /\ UNCHANGED <<built, seen, stamp, outcome, fk, evicted, crossed>>

Commit(i) ==
    /\ at[i] = "commit"
    /\ runs' = [runs EXCEPT ![next[i]] = @ + 1]
    /\ ledger' = ledger \cup {next[i]}
    /\ lock' = None
    /\ Ends(i, "went")
    /\ UNCHANGED <<built, seen, stamp, outcome, fk, evicted, crossed, faults>>

\* The deferred ROLLBACK, which a cancelled context does not stop.
Undo(i) ==
    /\ at[i] = "undo"
    /\ lock' = None
    /\ Ends(i, outcome[i])
    /\ UNCHANGED <<databaseVars, seen, stamp, outcome, fk, evicted, crossed, faults>>

\* A mutant of UndoFails: the connection goes back as it is.
UndoFailsQuietly(i) ==
    /\ at[i] = "undo" /\ Blame
    /\ Ends(i, outcome[i])
    /\ UNCHANGED <<databaseVars, lock, evicted, seen, stamp, outcome, fk, crossed>>

\* The rollback fails: the connection is closed, and with it the transaction.
UndoFails(i) ==
    /\ at[i] = "undo" /\ Blame
    /\ lock' = None
    /\ evicted' = evicted \cup {i}
    /\ Ends(i, outcome[i])
    /\ UNCHANGED <<databaseVars, seen, stamp, outcome, fk, crossed>>

\* The deferred PRAGMA, which does nothing inside a transaction.
Restore(i) ==
    /\ at[i] = "restore"
    /\ fk' = [fk EXCEPT ![i] = lock # i]
    /\ Concludes(i, outcome[i])
    /\ UNCHANGED <<databaseVars, seen, stamp, outcome, lock, evicted, crossed, faults>>

RestoreFails(i) ==
    /\ at[i] = "restore" /\ Blame
    /\ evicted' = evicted \cup {i}
    /\ Concludes(i, outcome[i])
    /\ UNCHANGED <<databaseVars, seen, stamp, outcome, lock, fk, crossed>>

-----------------------------------------------------------------------------
(* What may go wrong.                                                      *)

\* A statement outside a transaction fails: a read, the wait for the lock,
\* a pragma, a context that is over.
Fails(i) ==
    /\ at[i] \in {"ledger", "empty", "compare", "stamp", "reread", "next", "begin"}
    /\ at[i] = "next" => Pending(i)
    /\ Blame
    /\ outcome' = [outcome EXCEPT ![i] = "error"]
    /\ Ends(i, "error")
    /\ UNCHANGED <<databaseVars, seen, stamp, connectionVars, crossed>>

\* One inside a transaction does, which is rolled back.
FailsInside(i) ==
    /\ at[i] \in InTransaction \ {"undo"} /\ Blame
    /\ at' = [at EXCEPT ![i] = "undo"]
    /\ outcome' = [outcome EXCEPT ![i] = "error"]
    /\ UNCHANGED <<databaseVars, next, seen, stamp, connectionVars, crossed>>

\* The process is killed, and its connection with it.
Kill(i) ==
    /\ at[i] # "down" /\ Blame
    /\ at' = [at EXCEPT ![i] = "down"]
    /\ lock' = IF lock = i THEN None ELSE lock
    /\ UNCHANGED <<databaseVars, next, seen, stamp, outcome, fk, evicted, crossed>>

-----------------------------------------------------------------------------

\* What an instance does when nothing goes wrong.
Works(i) ==
    \/ Boot(i) \/ ReadLedger(i) \/ IsEmpty(i) \/ Compare(i)
    \/ StampBegin(i) \/ Stamp(i) \/ Reread(i)
    \/ Skip(i) \/ Finish(i) \/ Enter(i) \/ Dead(i)
    \/ Begin(i) \/ Recheck(i) \/ RunBody(i) \/ Commit(i) \/ Undo(i) \/ Restore(i)

MigrateNext ==
    \E i \in Instances :
        Works(i) \/ UndoFails(i) \/ RestoreFails(i) \/ Fails(i) \/ FailsInside(i) \/ Kill(i)

MigrateSpec == MigrateInit /\ [][MigrateNext]_migrateVars

\* Whoever runs the app starts it again, a transaction ends, and the lock
\* comes free in the time a BEGIN waits for it.  No failure is owed.
FairMigrateSpec == MigrateSpec /\ \A i \in Instances : WF_migrateVars(Works(i))

-----------------------------------------------------------------------------
(* Properties. *)

\* Apply implements Upgrade: a migration runs after all before it, in the
\* step that records it, and nothing else changes the ledger but adoption.
Ordered == INSTANCE Upgrade WITH recorded <- ledger

RunsInOrder == Ordered!UpgradeSpec

\* However instances race and are killed, a migration's effect is there once
\* at most, one from before the ledger included, and what the ledger has is
\* there.  A migration of data counts as done in a database older than the
\* ledger; a new one may miss it only if an instance took another's
\* half-built database for an old one.
AppliedOnce == \A m \in Migrations : runs[m] <= 1 /\ (m \in built => runs[m] = 0)

RecordedIsDone ==
    \A m \in ledger :
        m \in built \/ runs[m] = 1 \/ (m \in DataOnly /\ (built # {} \/ crossed))

LedgerIsTrue == AppliedOnce /\ RecordedIsDone

\* The app gets its writer back with foreign keys on and no transaction
\* open, or a new one in its place.
CleanReturn ==
    \A i \in Instances :
        at[i] \in {"up", "failed", "refused"} /\ i \notin evicted => fk[i] /\ lock # i

\* No set matches the structure that the database came with.
Foreign == built # {} /\ built # Schema /\ (PostAdoption # {} => built # Schema \cap Base)

\* Apply refuses only a database no set matches, or one that another
\* instance has begun to build since the refused one looked at its ledger.
RefusalIsJust == (\E i \in Instances : at[i] = "refused") => Foreign \/ ledger # {}

\* Wakes that are cut short converge: all is recorded in the end.
Converges == Foreign \/ <>(ledger = Migrations)

=============================================================================
