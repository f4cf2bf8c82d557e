-------------------------- MODULE SchemaMigration --------------------------
(***************************************************************************)
(* migrate (database.py): the server instances that start on one PostgreSQL*)
(* database, each with the migration files of its own release, bring the   *)
(* schema up to date before they use it.  One transaction under an advisory*)
(* lock, which a crash rolls back and releases.                            *)
(***************************************************************************)
EXTENDS Naturals, Sequences, FiniteSets, SequencesExt

CONSTANTS
    Instance,     \* the processes
    Directories   \* what releases ship: sequences of files, sorted by name

VARIABLES
    phase,      \* per instance: "down", "waiting", "migrating", "ready" or "failed"
    directory,  \* per instance: the files of its release, sorted by name
    existing,   \* per instance: what it found to be applied
    staged,     \* per instance: what it applied and has not committed
    migrator,   \* who holds the advisory lock
    schema      \* the migrations committed, in order

migrationVars == <<phase, directory, existing, staged, migrator, schema>>

(* migration_files: there are some, and no two of one version.             *)
ValidFiles(files) ==
    files # <<>> /\ \A j, k \in DOMAIN files : files[j].version = files[k].version => j = k

(* The files of one directory have different names.  And releases follow   *)
(* each other: of two, one adds files after those of the other, or they    *)
(* disagree on what is in a file.                                          *)
MigrationFile == [version : Nat, name : STRING, sum : STRING]
Disagree(files, others) ==
    \E j \in DOMAIN files, k \in DOMAIN others :
        files[j].name = others[k].name /\ files[j].sum # others[k].sum

ASSUME ReleaseAssumption ==
    /\ Directories \subseteq Seq(MigrationFile)
    /\ \A files \in Directories : \A j, k \in DOMAIN files :
          files[j].name = files[k].name => j = k
    /\ \A files, others \in {d \in Directories : ValidFiles(d)} :
          IsPrefix(files, others) \/ IsPrefix(others, files) \/ Disagree(files, others)

Nobody == "nobody"

ASSUME InstanceAssumption == Nobody \notin Instance

MigrationInit ==
    /\ phase = [i \in Instance |-> "down"]
    /\ directory = [i \in Instance |-> <<>>]
    /\ existing = [i \in Instance |-> <<>>]
    /\ staged = [i \in Instance |-> <<>>]
    /\ migrator = Nobody
    /\ schema = <<>>

(* A release is started.                                                   *)
Start(i) ==
    /\ phase[i] = "down"
    /\ \E files \in Directories :
          /\ directory' = [directory EXCEPT ![i] = files]
          /\ phase' = [phase EXCEPT ![i] = IF ValidFiles(files) THEN "waiting" ELSE "failed"]
    /\ UNCHANGED <<existing, staged, migrator, schema>>

(* A faulty version: nobody waits for the lock.                            *)
ReadUnlocked(i) ==
    /\ phase[i] = "waiting"
    /\ phase' = [phase EXCEPT ![i] = "migrating"]
    /\ migrator' = i
    /\ existing' = [existing EXCEPT ![i] = schema]
    /\ UNCHANGED <<directory, staged, schema>>

(* The lock, then what is applied already.                                 *)
ReadApplied(i) ==
    /\ phase[i] = "waiting" /\ migrator = Nobody
    /\ phase' = [phase EXCEPT ![i] = "migrating"]
    /\ migrator' = i
    /\ existing' = [existing EXCEPT ![i] = schema]
    /\ UNCHANGED <<directory, staged, schema>>

(* The transaction is over, with or without effect.                        *)
Settle(i, outcome, applied) ==
    /\ phase' = [phase EXCEPT ![i] = outcome]
    /\ schema' = schema \o applied
    /\ existing' = [existing EXCEPT ![i] = <<>>]
    /\ staged' = [staged EXCEPT ![i] = <<>>]
    /\ migrator' = IF migrator = i THEN Nobody ELSE migrator
    /\ UNCHANGED directory

(* The places of the files that are still to be applied.                   *)
Pending(i) ==
    {j \in DOMAIN directory[i] : directory[i][j] \notin ToSet(existing[i]) \cup ToSet(staged[i])}
Changed(f, applied) == \E g \in ToSet(applied) : g.name = f.name /\ g.sum # f.sum

(* One file after the other is executed and recorded ...                   *)
ApplyNext(i) ==
    /\ phase[i] = "migrating"
    /\ \E j \in Pending(i) :
          /\ \A k \in Pending(i) : j <= k
          /\ ~Changed(directory[i][j], existing[i])
          /\ staged' = [staged EXCEPT ![i] = Append(@, directory[i][j])]
    /\ UNCHANGED <<phase, directory, existing, migrator, schema>>

(* ... but one that was applied with another checksum, or an error of the  *)
(* database, takes everything back.                                        *)
FailMigration(i) ==
    /\ phase[i] = "migrating" /\ Pending(i) # {}
    /\ Settle(i, "failed", <<>>)

CommitMigration(i) ==
    /\ phase[i] = "migrating" /\ Pending(i) = {}
    /\ Settle(i, "ready", staged[i])

(* The process dies, or is taken down to be started again.                 *)
Stop(i) ==
    /\ phase[i] # "down"
    /\ Settle(i, "down", <<>>)

Migration == \E i \in Instance : Start(i) \/ ReadApplied(i) \/ ApplyNext(i)
                                 \/ FailMigration(i) \/ CommitMigration(i)

-----------------------------------------------------------------------------
(* The schema is always that of one release, whole and in its order: no    *)
(* migration is applied twice, half of them or over one that was changed,  *)
(* however many instances start, fail and crash at the same time.  And an  *)
(* instance that serves finds all of its release applied.                  *)
SchemaAsShipped ==
    /\ schema \in Directories \cup {<<>>}
    /\ \A i \in Instance : phase[i] = "ready" => ToSet(directory[i]) \subseteq ToSet(schema)
=============================================================================
