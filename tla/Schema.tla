------------------------------- MODULE Schema -------------------------------
(***************************************************************************)
(* run_migrations, which every process runs before it opens the database   *)
(* (container.py: _run_migrations_on_init, under a lock of the process).   *)
(*                                                                         *)
(* A migration is a script of statements.  executescript commits what is   *)
(* open and runs each statement in a transaction of its own; the row of    *)
(* _migrations follows in another.  Scripts says of each statement whether *)
(* it may be run again (IF NOT EXISTS, DROP IF EXISTS, INSERT OR IGNORE),  *)
(* only once (ALTER TABLE ADD COLUMN, CREATE TABLE: OperationalError when  *)
(* it has been run), or only once and on rows that allow it (CREATE UNIQUE *)
(* INDEX: IntegrityError when they do not).                                *)
(***************************************************************************)
EXTENDS Naturals, Sequences

CONSTANTS
  Starters,   \* processes that open the database
  Scripts,    \* the migrations in order of version, each a sequence of kinds
  MaxStarts   \* bound: runs of run_migrations

Versions == DOMAIN Scripts

ASSUME SchemaAssumption ==
  /\ Scripts \in Seq(Seq({"again", "once", "unique"}))
  /\ MaxStarts \in Nat

VARIABLES
  recorded,   \* the versions in _migrations
  done,       \* <<version, statement>> pairs that have been executed
  starter,    \* how far each process is
  starts

schemaVars == <<recorded, done, starter, starts>>

-----------------------------------------------------------------------------

\* next: the statement of the first pending version that comes next.
Start ==
  [at      : {"off", "list", "apply", "script", "record", "up", "raised"},
   pending : SUBSET Versions,
   next    : Nat]

NotStarted == [at |-> "off", pending |-> {}, next |-> 0]

\* The type invariant.
SchemaTypeOK ==
  /\ recorded \subseteq Versions
  /\ \A d \in done : d[1] \in Versions /\ d[2] \in DOMAIN Scripts[d[1]]
  /\ starter \in [Starters -> Start]
  /\ starts \in 0..MaxStarts

SchemaInit ==
  /\ recorded = {}
  /\ done = {}
  /\ starter = [p \in Starters |-> NotStarted]
  /\ starts = 0

\* The migration run_migrations has come to.
Current(p) ==
  CHOOSE v \in starter[p].pending : \A w \in starter[p].pending : v <= w

\* The loop goes on with the migrations in pending.
Continue(p, pending) ==
  starter' = [starter EXCEPT ![p] =
    [at |-> IF pending = {} THEN "up" ELSE "apply", pending |-> pending, next |-> 0]]

Skip(p) == Continue(p, starter[p].pending \ {Current(p)})

-----------------------------------------------------------------------------

\* The process starts, perhaps once more, and makes the table _migrations.
ensure_migrations_table(p) ==
  /\ starter[p].at \in {"off", "up", "raised"} /\ starts < MaxStarts
  /\ starts' = starts + 1
  /\ starter' = [starter EXCEPT ![p] = [NotStarted EXCEPT !.at = "list"]]
  /\ UNCHANGED <<recorded, done>>

\* get_applied_versions, and what it leaves of load_migrations.
get_applied_versions(p) ==
  /\ starter[p].at = "list"
  /\ Continue(p, Versions \ recorded)
  /\ UNCHANGED <<recorded, done, starts>>

\* apply_migration asks again; MigrationAlreadyAppliedError is suppressed.
apply_migration(p) ==
  /\ starter[p].at = "apply"
  /\ IF Current(p) \in recorded THEN Skip(p)
     ELSE starter' = [starter EXCEPT ![p] = [@ EXCEPT !.at = "script", !.next = 1]]
  /\ UNCHANGED <<recorded, done, starts>>

\* Mutant: the version is recorded before the script has ended.
RecordEarly(p) ==
  /\ starter[p].at = "script"
  /\ starter' = [starter EXCEPT ![p] = [@ EXCEPT !.at = "record"]]
  /\ UNCHANGED <<recorded, done, starts>>

\* The script has come to its end.
ScriptEnds(p) ==
  /\ starter[p].at = "script"
  /\ starter[p].next > Len(Scripts[Current(p)])
  /\ starter' = [starter EXCEPT ![p] = [@ EXCEPT !.at = "record"]]
  /\ UNCHANGED <<recorded, done, starts>>

\* A statement of executescript.  An IntegrityError is suppressed and leaves
\* the version to the next start; an OperationalError ends the process.
Statement(p) ==
  /\ starter[p].at = "script"
  /\ LET v == Current(p)
         i == starter[p].next
     IN  /\ i <= Len(Scripts[v])
         /\ \/ /\ Scripts[v][i] = "again" \/ <<v, i>> \notin done
               /\ done' = done \cup {<<v, i>>}
               /\ starter' = [starter EXCEPT ![p].next = @ + 1]
            \/ /\ Scripts[v][i] # "again" /\ <<v, i>> \in done
               /\ starter' = [starter EXCEPT ![p].at = "raised"]
               /\ UNCHANGED done
            \/ /\ Scripts[v][i] = "unique" /\ <<v, i>> \notin done
               /\ Skip(p)
               /\ UNCHANGED done
  /\ UNCHANGED <<recorded, starts>>

\* INSERT INTO _migrations; the IntegrityError of a second one is suppressed.
RecordVersion(p) ==
  /\ starter[p].at = "record"
  /\ recorded' = recorded \cup {Current(p)}
  /\ Skip(p)
  /\ UNCHANGED <<done, starts>>

\* The process dies, in the middle of a migration perhaps.
StarterDies(p) ==
  /\ starter[p].at \in {"list", "apply", "script", "record"}
  /\ starter' = [starter EXCEPT ![p] = NotStarted]
  /\ UNCHANGED <<recorded, done, starts>>

Migrating(p) ==
  \/ ensure_migrations_table(p) \/ get_applied_versions(p) \/ apply_migration(p)
  \/ Statement(p) \/ ScriptEnds(p) \/ RecordVersion(p)

SchemaNext == \E p \in Starters : Migrating(p) \/ StarterDies(p)

SchemaSpec == SchemaInit /\ [][SchemaNext]_schemaVars

-----------------------------------------------------------------------------
(* Properties *)

\* A version is recorded only when every statement of its script has been
\* executed, whoever executed it, whatever died on the way and whatever
\* IntegrityError was swallowed: no later start skips half a migration.
RecordedIsApplied ==
  \A v \in recorded : \A i \in DOMAIN Scripts[v] : <<v, i>> \in done

\* "Concurrent run_migrations calls don't raise errors."
ConcurrentStartsSucceed == \A p \in Starters : starter[p].at # "raised"

=============================================================================
