------------------------------- MODULE Database -------------------------------
(***************************************************************************)
(* Opening the queue database (src/db.rs).  Every command opens it, and    *)
(* whichever finds it old brings it up to date: the version is read first, *)
(* and the migrations it lacks are then run in one transaction, whose      *)
(* write lock keeps other writers out until it ends.                       *)
(***************************************************************************)
EXTENDS Naturals

CONSTANTS
    Opener,      \* commands that open the database
    Migrations,  \* how many migrations there are
    Rerunnable   \* those whose script succeeds on a schema that has them

ASSUME DatabaseAssumption ==
    /\ Migrations \in Nat
    /\ Rerunnable \subseteq 1..Migrations

\* The last script adds a column (migrations/0004_retained_log_tail.sql).
ASSUME LastScriptAssumption == Migrations \notin Rerunnable

VARIABLES
    schema,  \* user_version, and how often each script was run
    opening  \* opening[p]: how far command p has come

databaseVars == <<schema, opening>>

Schema == [version : 0..Migrations, ran : [1..Migrations -> Nat]]
Opening ==
    [pc : {"start", "lock", "migrate", "open", "failed", "closed"},
     seen : 0..Migrations,  \* the version it read
     draft : Schema]        \* what its transaction has made of the schema

\* A database as some release of the program left it.
AtVersion(version) ==
    [version |-> version,
     ran |-> [m \in 1..Migrations |-> IF m <= version THEN 1 ELSE 0]]

\* A command that holds nothing in memory.
At(pc) == [pc |-> pc, seen |-> 0, draft |-> AtVersion(0)]

DatabaseInit ==
    /\ \E version \in 0..Migrations : schema = AtVersion(version)
    /\ opening = [p \in Opener |-> At("start")]

\* PRAGMA user_version, outside the transaction of what follows.
ReadVersion(p) ==
    /\ opening[p].pc = "start"
    /\ opening' = [opening EXCEPT
          ![p] = IF schema.version >= Migrations THEN At("open")
                 ELSE [At("lock") EXCEPT !.seen = schema.version]]
    /\ UNCHANGED schema

Locked == \E p \in Opener : opening[p].pc = "migrate"

\* Mutant: the version is written before the transaction begins.
LockVersionFirst(p) ==
    /\ opening[p].pc = "lock"
    /\ ~Locked
    /\ schema' = [schema EXCEPT !.version = Migrations]
    /\ opening' = [opening EXCEPT ![p].pc = "migrate", ![p].draft = schema']

Lock(p) ==
    /\ opening[p].pc = "lock"
    /\ ~Locked
    /\ opening' = [opening EXCEPT ![p].pc = "migrate", ![p].draft = schema]
    /\ UNCHANGED schema

\* The next migration is decided by the version read before the lock.
NextScript(p) == opening[p].seen + 1

Runs(m, draft) == m \in Rerunnable \/ draft.ran[m] = 0

\* The script is run, and user_version set to its number.
Applied(m, draft) ==
    [version |-> m, ran |-> [draft.ran EXCEPT ![m] = @ + 1]]

ApplyNext(p) ==
    /\ opening[p].pc = "migrate"
    /\ NextScript(p) <= Migrations
    /\ Runs(NextScript(p), opening[p].draft)
    /\ opening' = [opening EXCEPT
          ![p].seen = NextScript(p),
          ![p].draft = Applied(NextScript(p), @)]
    /\ UNCHANGED schema

Commit(p) ==
    /\ opening[p].pc = "migrate"
    /\ NextScript(p) > Migrations
    /\ schema' = opening[p].draft
    /\ opening' = [opening EXCEPT ![p] = At("open")]

\* The script of a migration that another command ran in the meantime fails,
\* and rolls the transaction back.
Clash(p) ==
    /\ opening[p].pc = "migrate"
    /\ NextScript(p) <= Migrations
    /\ ~Runs(NextScript(p), opening[p].draft)
    /\ opening' = [opening EXCEPT ![p] = At("failed")]
    /\ UNCHANGED schema

\* The lock is not had in time, a statement fails, a reference dangles, or
\* the process is killed: nothing of the transaction stays.
OpenFails(p) ==
    /\ opening[p].pc \in {"lock", "migrate"}
    /\ opening' = [opening EXCEPT ![p] = At("failed")]
    /\ UNCHANGED schema

\* The command is run again.
OpenAgain(p) ==
    /\ opening[p].pc = "failed"
    /\ opening' = [opening EXCEPT ![p] = At("start")]
    /\ UNCHANGED schema

OpenStep(p) ==
    \/ ReadVersion(p) \/ Lock(p) \/ ApplyNext(p) \/ Commit(p) \/ Clash(p)

-----------------------------------------------------------------------------
\* A command that is past open has every table, whatever other commands were
\* opening the database at the time.
Ready(p) == opening[p].pc = "open"
=============================================================================
