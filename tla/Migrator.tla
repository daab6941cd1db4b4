------------------------------- MODULE Migrator -------------------------------
(* run_migrations (database/migrator.py) as several instances boot at once,  *)
(* of the same or of different releases: the advisory lock of the session,   *)
(* what is read under it, one transaction per file, and instances that crash *)
(* at any statement.  A connection that ends gives its lock back and undoes  *)
(* its open transaction.                                                     *)
EXTENDS SchemaHistory

CONSTANTS
  Instances,
  Files,           \* Files[i]: the last numbered file of the release i runs
  NoInstance,
  MaxBoots         \* how often an instance is started

ASSUME LatestAssumption == Latest \in Nat
ASSUME FilesAssumption == Files \in [Instances -> 0..Latest]
ASSUME InstanceAssumption == NoInstance \notin Instances
ASSUME BootsAssumption == MaxBoots \in Nat

VARIABLES
  advisory_lock,   \* the instance whose session holds ADVISORY_LOCK_KEY
  boot,            \* the stage of each instance
  boots,           \* how often each has been started
  applied,         \* the versions each read from schema_migrations
  baseline_only,   \* whether each found a users table
  next_version     \* the loop's version: all below it are dealt with

tables == <<recorded, schema>>
loop == <<applied, baseline_only, next_version>>
migratorVars == <<tables, advisory_lock, boot, boots, loop>>

\* Of the stages, those under the lock; at "ran" a transaction is open.
Locked == {"listing", "probing", "migrating", "ran", "done", "broken"}
Stages == Locked \cup {"off", "waiting", "serving", "failed"}

MigratorTypeOK ==
  /\ recorded \in SUBSET Migrations
  /\ schema \in SUBSET Migrations
  /\ advisory_lock \in Instances \cup {NoInstance}
  /\ boot \in [Instances -> Stages]
  /\ boots \in [Instances -> 0..MaxBoots]
  /\ applied \in [Instances -> SUBSET Migrations]
  /\ baseline_only \in [Instances -> BOOLEAN]
  /\ next_version \in [Instances -> 0..(Latest + 1)]

MigratorInit ==
  /\ HistoryInit
  /\ advisory_lock = NoInstance
  /\ boot = [i \in Instances |-> "off"]
  /\ boots = [i \in Instances |-> 0]
  /\ applied = [i \in Instances |-> {}]
  /\ baseline_only = [i \in Instances |-> FALSE]
  /\ next_version = [i \in Instances |-> 0]

Goto(i, stage) == boot' = [boot EXCEPT ![i] = stage]

\* discover_migrations: the baseline, then the numbered files in order.
discover_migrations(i) == 0..Files[i]

\* What `if version in applied: continue` leaves of the loop.
Pending(i) == {v \in discover_migrations(i) : v >= next_version[i] /\ v \notin applied[i]}

\* lifespan: the pool is made and a connection taken from it.
Start(i) ==
  /\ boot[i] \in {"off", "failed"} /\ boots[i] < MaxBoots
  /\ boots' = [boots EXCEPT ![i] = @ + 1]
  /\ Goto(i, "waiting")
  /\ UNCHANGED <<tables, advisory_lock, loop>>

\* Mutant of LockFree: nobody waits.
NoAdvisoryLock == TRUE
LockFree == advisory_lock = NoInstance

pg_advisory_lock(i) ==
  /\ boot[i] = "waiting" /\ LockFree
  /\ advisory_lock' = i
  /\ Goto(i, "listing")
  /\ UNCHANGED <<tables, boots, loop>>

\* command_timeout: the wait for the lock lasts 60 s at most, and the boot
\* fails before it reaches the try block.
LockTimesOut(i) ==
  /\ boot[i] = "waiting" /\ ~LockFree
  /\ Goto(i, "failed")
  /\ UNCHANGED <<tables, advisory_lock, boots, loop>>

\* The tracking table is created, if it is not there, and read.
ReadApplied(i) ==
  /\ boot[i] = "listing"
  /\ applied' = [applied EXCEPT ![i] = recorded]
  /\ Goto(i, "probing")
  /\ UNCHANGED <<tables, advisory_lock, boots, baseline_only, next_version>>

_has_existing_tables(i) ==
  /\ boot[i] = "probing"
  /\ baseline_only' = [baseline_only EXCEPT ![i] = 0 \in schema]
  /\ next_version' = [next_version EXCEPT ![i] = 0]
  /\ Goto(i, "migrating")
  /\ UNCHANGED <<tables, advisory_lock, boots, applied>>

\* The next file's transaction opens and its statements run, unless it is the
\* baseline of a database that has tables.
Execute(i) ==
  /\ boot[i] = "migrating"
  /\ \E v \in Pending(i) :
       /\ \A w \in Pending(i) : v <= w
       /\ next_version' = [next_version EXCEPT ![i] = v]
  /\ Goto(i, "ran")
  /\ UNCHANGED <<tables, advisory_lock, boots, applied, baseline_only>>

\* Mutant of Skipped: a database that was booted against once is taken to have
\* all its tables.
SkippedOnceTracked(i) == next_version[i] \in {0, 1} /\ baseline_only[i]
Skipped(i) == next_version[i] = 0 /\ baseline_only[i]

Effect(i) ==
  IF Skipped(i) THEN {} ELSE IF next_version[i] = 0 THEN 0..Files[i] ELSE {next_version[i]}

\* The record is inserted, its version a primary key, and the transaction
\* commits.
Record(i) ==
  /\ boot[i] = "ran" /\ next_version[i] \notin recorded
  /\ recorded' = recorded \cup {next_version[i]}
  /\ schema' = schema \cup Effect(i)
  /\ next_version' = [next_version EXCEPT ![i] = @ + 1]
  /\ Goto(i, "migrating")
  /\ UNCHANGED <<advisory_lock, boots, applied, baseline_only>>

\* A statement of the file raises, or the record is there already: the
\* transaction rolls back and the exception leaves the loop.
Abort(i) ==
  /\ boot[i] = "ran"
  /\ Goto(i, "broken")
  /\ UNCHANGED <<tables, advisory_lock, boots, loop>>

Finish(i) ==
  /\ boot[i] = "migrating" /\ Pending(i) = {}
  /\ Goto(i, "done")
  /\ UNCHANGED <<tables, advisory_lock, boots, loop>>

\* Mutant of Released: an exception passes the unlock by.
ReleasedWhenDone(i) == IF boot[i] = "done" THEN NoInstance ELSE advisory_lock
Released(i) == NoInstance

\* finally: unlock, then the instance serves or its start-up fails.
pg_advisory_unlock(i) ==
  /\ boot[i] \in {"done", "broken"}
  /\ advisory_lock' = Released(i)
  /\ Goto(i, IF boot[i] = "done" THEN "serving" ELSE "failed")
  /\ UNCHANGED <<tables, boots, loop>>

\* The process dies, or is stopped: its session ends.
Crash(i) ==
  /\ boot[i] \in Locked \cup {"waiting", "serving"}
  /\ advisory_lock' = IF advisory_lock = i THEN NoInstance ELSE advisory_lock
  /\ Goto(i, "off")
  /\ UNCHANGED <<tables, boots, loop>>

run_migrations(i) ==
  \/ pg_advisory_lock(i) \/ ReadApplied(i) \/ _has_existing_tables(i)
  \/ Execute(i) \/ Record(i) \/ Abort(i) \/ Finish(i) \/ pg_advisory_unlock(i)

MigratorNext ==
  \E i \in Instances : \/ Start(i) \/ run_migrations(i)
                       \/ LockTimesOut(i) \/ Crash(i)

\* A live instance goes on with its statements.  The waiting ones are served
\* by the database in turn; neither the timeout nor a crash is relied upon.
MigratorFairness ==
  \A i \in Instances : /\ WF_migratorVars(run_migrations(i))
                       /\ SF_migratorVars(pg_advisory_lock(i))

MigratorSpec == MigratorInit /\ [][MigratorNext]_migratorVars
MigratorFairSpec == MigratorSpec /\ MigratorFairness

-------------------------------------------------------------------------------
\* However many start at once, no boot runs a file that somebody else recorded
\* after it looked, so none fails on the primary key of schema_migrations; and
\* an instance that serves finds every table and column its release relies on,
\* whichever releases booted before, crashed half-way or run beside it.
BootsAgree ==
  \A i \in Instances :
    /\ boot[i] = "ran" => next_version[i] \notin recorded
    /\ boot[i] = "serving" =>
         discover_migrations(i) \subseteq recorded \cap schema

\* The interleaved, crashing boots implement the atomic history of the schema.
History == INSTANCE SchemaHistory WITH
             Latest <- Latest, recorded <- recorded, schema <- schema
MigratesInOrder == History!HistorySpec

\* A boot that waits for the lock ends: whoever holds it finishes, fails or
\* loses its session.
BootsEnd ==
  \A i \in Instances :
    boot[i] = "waiting" ~> boot[i] \in {"serving", "failed", "off"}
===============================================================================
