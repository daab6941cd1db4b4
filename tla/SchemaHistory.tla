----------------------------- MODULE SchemaHistory -----------------------------
(* What the migrator promises of a database, whoever boots against it: the   *)
(* baseline and then the numbered files are applied in order, each once, and *)
(* each together with its record in schema_migrations.                       *)
EXTENDS Integers

CONSTANT Latest    \* the newest numbered file of any release

VARIABLES
  recorded,        \* the versions in schema_migrations
  schema           \* the versions whose tables and columns there are

historyVars == <<recorded, schema>>

\* BASELINE_VERSION is 0; the numbered files follow.
Migrations == 0..Latest

Databases(rec, sch) ==
  \/ rec = {} /\ sch = {}                             \* empty
  \/ rec = {} /\ sch \in SUBSET Migrations /\ 0 \in sch \* migrated by hand
  \/ rec = sch /\ \E v \in Migrations : rec = 0..v      \* booted against before

HistoryInit ==
  /\ recorded \in SUBSET Migrations /\ schema \in SUBSET Migrations
  /\ Databases(recorded, schema)

\* schema.sql holds all that a release's numbered files add, and is run on an
\* empty database only; a numbered file changes nothing that is there already.
Apply(v) ==
  /\ v \notin recorded
  /\ \A w \in Migrations : w < v => w \in recorded
  /\ recorded' = recorded \cup {v}
  /\ \/ v = 0 /\ 0 \notin schema /\ \E n \in Migrations : schema' = 0..n
     \/ v = 0 /\ 0 \in schema /\ schema' = schema
     \/ v # 0 /\ schema' = schema \cup {v}

HistorySpec ==
  HistoryInit /\ [][\E v \in Migrations : Apply(v)]_historyVars
===============================================================================
