------------------------------- MODULE Migration ------------------------------
(***************************************************************************)
(* The migration runner (persistence/migrate.go), started by several       *)
(* processes at once, of releases that embed more files or fewer.          *)
(*                                                                         *)
(* Postgres commits a migration's SQL and its ledger row together.  Two    *)
(* open transactions that create the same objects exclude each other; the  *)
(* one that comes second finds them or fails.                              *)
(***************************************************************************)
EXTENDS Integers, Sequences

CONSTANTS
    Runners, Newest     \* runner -> the number of its files; file n is version n

ASSUME MigrationAssumption == Newest \in [Runners -> Nat]

VARIABLES
    ledger,     \* the versions in schema_migrations
    schema,     \* the committed migrations, in the order of their commits
    runner      \* runner -> [pc, applied, file, ran]
migrationVars == <<ledger, schema, runner>>

MigrationInit ==
    /\ ledger = {} /\ schema = <<>>
    /\ runner = [u \in Runners |-> [pc |-> "start", applied |-> {}, file |-> 1, ran |-> <<>>]]

\* ensureLedger, which an earlier start or another runner may have done, and
\* appliedVersions.
ReadLedger(u) ==
    /\ runner[u].pc = "start"
    /\ \/ runner' = [runner EXCEPT ![u].pc = "loop", ![u].applied = ledger]
       \/ runner' = [runner EXCEPT ![u].pc = "error"]
    /\ UNCHANGED <<ledger, schema>>

\* The loop of Up over the files: applied[m.Version], then applyOne.
Skip(u) ==
    /\ runner[u].pc = "loop" /\ runner[u].file <= Newest[u]
    /\ runner[u].file \in runner[u].applied
    /\ runner' = [runner EXCEPT ![u].file = @ + 1]
    /\ UNCHANGED <<ledger, schema>>

Begin(u) ==
    /\ runner[u].pc = "loop" /\ runner[u].file <= Newest[u]
    /\ runner[u].file \notin runner[u].applied
    /\ \A w \in Runners : ~(runner[w].pc = "open" /\ runner[w].file = runner[u].file)
    /\ runner' = [runner EXCEPT ![u].pc = "open"]
    /\ UNCHANGED <<ledger, schema>>

Commit(u) ==
    /\ runner[u].pc = "open"
    /\ schema' = Append(schema, runner[u].file)
    /\ ledger' = ledger \union {runner[u].file}
    /\ runner' = [runner EXCEPT ![u].pc = "loop", ![u].file = @ + 1,
                                ![u].ran = Append(@, runner[u].file)]

\* An error of the SQL, of the ledger's row or of the commit ends the run;
\* so does the end of the process.  Postgres rolls back.
\* Mutant: the loop goes on.
Rollback_GoOn(u) ==
    /\ runner[u].pc = "open"
    /\ runner' = [runner EXCEPT ![u].pc = "loop", ![u].file = @ + 1]
    /\ UNCHANGED <<ledger, schema>>
Rollback(u) ==
    /\ runner[u].pc = "open"
    /\ runner' = [runner EXCEPT ![u].pc = "error"]
    /\ UNCHANGED <<ledger, schema>>

Finish(u) ==
    /\ runner[u].pc = "loop" /\ runner[u].file > Newest[u]
    /\ runner' = [runner EXCEPT ![u].pc = "done"]
    /\ UNCHANGED <<ledger, schema>>

\* The runner is started again.
Rerun(u) ==
    /\ runner[u].pc = "error"
    /\ runner' = [runner EXCEPT ![u] = [pc |-> "start", applied |-> {}, file |-> 1, ran |-> <<>>]]
    /\ UNCHANGED <<ledger, schema>>

MigrationNext == \E u \in Runners :
    ReadLedger(u) \/ Skip(u) \/ Begin(u) \/ Commit(u) \/ Rollback(u) \/ Finish(u) \/ Rerun(u)
MigrationSpec == MigrationInit /\ [][MigrationNext]_migrationVars

-----------------------------------------------------------------------------
(***************************************************************************)
(* Properties.                                                             *)
(***************************************************************************)
\* However runners overlap, fail and are run again, the ledger is a prefix of
\* the files, every version was first applied after all versions before it,
\* and a run that reports success leaves its files applied (Up, applyOne).
MigratedInOrder ==
    /\ \A v \in ledger : 1 .. v \subseteq ledger
    /\ \A i \in DOMAIN schema : \A v \in 1 .. schema[i] - 1 :
         \E j \in 1 .. i - 1 : schema[j] = v
    /\ \A u \in Runners : runner[u].pc = "done" => 1 .. Newest[u] \subseteq ledger
================================================================================
