--------------------------- MODULE DatabaseChecks ---------------------------
(***************************************************************************)
(* The Immich database through an upgrade, and what is said about it:      *)
(*   scripts/immich-vectorchord-upgrade.sql  one transaction that updates  *)
(*     the extension and rebuilds the two indexes in its new format        *)
(*   scripts/check-immich-database.py        image, versions, indexes      *)
(*   scripts/check-postgres.py               image, version, and a full    *)
(*     backup of the present major version in both repositories            *)
(* The operator replaces the pod when the image changes and backs up; the  *)
(* retention of pgBackRest drops old backups; psql and the pod fail; a     *)
(* volume snapshot from before the upgrade may be restored.                *)
(* An operator named "...Mutant" is a wrong variant of the one after it.   *)
(***************************************************************************)
EXTENDS Naturals, Sequences

CONSTANTS
    MaxDatabases,  \* bound: databases the repositories have known
    MaxMishaps     \* bound: changes of the image, failures of psql, restores

ASSUME DatabaseAssumption == MaxDatabases \in Nat \ {0} /\ MaxMishaps \in Nat

Releases == {"old", "pinned"}  \* of the image, and the formats that come with it
Indexes  == {"face", "clip"}
Repos    == {1, 2}

VARIABLES
    databases,  \* the major versions of the databases in the repositories, a sequence
    fulls,      \* [Repos -> positions in it that have a full backup]
    image,      \* [spec, pod]: of the PostgresCluster, and running
    stored,     \* the committed state: the extension and the format of each index
    psql,       \* [at, work]: next statement of the script, its uncommitted state
    query,      \* the check: which one, and how far it is
    mishaps

databaseVars == <<databases, fulls, image, stored, psql, query, mishaps>>

Formats   == [extension : Releases, index : [Indexes -> Releases]]
Before    == [extension |-> "old", index |-> [x \in Indexes |-> "old"]]
Known       == 1 .. Len(databases)
Quiet     == [at |-> "none", work |-> Before]

DatabaseTypeOK ==
    /\ databases \in Seq({16, 18}) /\ Len(databases) \in 1 .. MaxDatabases
    /\ fulls \in [Repos -> SUBSET Known]
    /\ image \in [spec : Releases, pod : Releases]
    /\ stored \in Formats
    /\ psql \in [at : {"none", "alter", "face", "clip", "commit"}, work : Formats]
    /\ query \in {"none", "repo1", "repo2", "backups", "sql", "rebuilt", "failed"}
    /\ mishaps \in Nat

DatabaseInit ==
    /\ databases = <<16>> /\ fulls = [r \in Repos |-> {1}]
    /\ image = [spec |-> "old", pod |-> "old"]
    /\ stored = Before /\ psql = Quiet
    /\ query = "none" /\ mishaps = 0

-----------------------------------------------------------------------------
(* The operator and its repositories.                                      *)

Mishap == mishaps < MaxMishaps /\ mishaps' = mishaps + 1

(* To 18, or to a new database of that version: a further one in the stanza.*)
NewDatabase ==
    /\ Len(databases) < MaxDatabases /\ psql = Quiet
    /\ databases' = Append(databases, 18)
    /\ UNCHANGED <<fulls, image, stored, psql, query, mishaps>>

(* The first backup of a database is full, whatever was asked for; others  *)
(* hang on a full one.                                                     *)
Backup(r) ==
    /\ fulls' = [fulls EXCEPT ![r] = @ \cup {Len(databases)}]
    /\ UNCHANGED <<databases, image, stored, psql, query, mishaps>>

(* Retention by time drops a full backup only if a newer one stays.        *)
ExpireFull(r) ==
    /\ \E i, j \in fulls[r] : i < j /\ fulls' = [fulls EXCEPT ![r] = @ \ {i}]
    /\ UNCHANGED <<databases, image, stored, psql, query, mishaps>>

SetImage ==
    /\ Mishap
    /\ \E i \in Releases : image' = [image EXCEPT !.spec = i]
    /\ UNCHANGED <<databases, fulls, stored, psql, query>>

(* What is not committed is lost with the pod.                             *)
ReplacePod ==
    /\ image.pod # image.spec /\ image' = [image EXCEPT !.pod = image.spec]
    /\ psql' = Quiet
    /\ UNCHANGED <<databases, fulls, stored, query, mishaps>>

RestoreSnapshot ==
    /\ Mishap
    /\ stored' = Before /\ psql' = Quiet
    /\ UNCHANGED <<databases, fulls, image, query>>

-----------------------------------------------------------------------------
(* The upgrade script; it may be run again.                                *)

Statement(at) ==
    /\ psql.at = at
    /\ UNCHANGED <<databases, fulls, image, query, mishaps>>

BeginUpgrade ==
    /\ psql' = [at |-> "alter", work |-> stored] /\ UNCHANGED stored
    /\ Statement("none")

(* Between BEGIN and COMMIT.  Mutant: every statement by itself.           *)
WriteMutant(next, work) == psql' = [at |-> next, work |-> work] /\ stored' = work
Write(next, work) == psql' = [at |-> next, work |-> work] /\ UNCHANGED stored

(* Only the new image has the files of the new extension.                  *)
AlterExtension ==
    /\ image.pod = "pinned" /\ Write("face", [psql.work EXCEPT !.extension = "pinned"])
    /\ Statement("alter")

(* In the format of the extension that the transaction sees.               *)
Reindex(x, next) ==
    /\ Write(next, [psql.work EXCEPT !.index[x] = psql.work.extension])
    /\ Statement(x)

CommitUpgrade ==
    /\ stored' = psql.work /\ psql' = Quiet
    /\ Statement("commit")

(* ON_ERROR_STOP, or a lost connection.                                    *)
FailUpgrade ==
    /\ psql # Quiet /\ psql' = Quiet /\ Mishap
    /\ UNCHANGED <<databases, fulls, image, stored, query>>

-----------------------------------------------------------------------------
(* The checks, of a repository that pins "pinned" and version 18.          *)

Asks(step, next, ok) ==
    /\ query = step \/ (step = "none" /\ query \in {"backups", "rebuilt", "failed"})
    /\ query' = IF ok THEN next ELSE "failed"
    /\ UNCHANGED <<databases, fulls, image, stored, psql, mishaps>>

Running == image.spec = "pinned" /\ image.pod = "pinned"

StartPostgres == Asks("none", "repo1", Running /\ databases[Len(databases)] = 18)

(* Mutant: a full backup of whatever version.                              *)
CurrentIdsMutant == Known
CurrentIds == {i \in Known : databases[i] = 18}

ReadInfo(r, step, next) == Asks(step, next, fulls[r] \cap CurrentIds # {})

StartImmich == Asks("none", "sql", Running)

(* indisvalid stays true: REINDEX without CONCURRENTLY replaces an index   *)
(* or leaves it.                                                           *)
Rebuilt == stored.extension = "pinned"

ReadIndexes == Asks("sql", "rebuilt", Rebuilt)

DatabaseNext ==
    \/ NewDatabase \/ SetImage \/ ReplacePod \/ RestoreSnapshot
    \/ \E r \in Repos : Backup(r) \/ ExpireFull(r)
    \/ BeginUpgrade \/ AlterExtension \/ CommitUpgrade \/ FailUpgrade
    \/ Reindex("face", "clip") \/ Reindex("clip", "commit")
    \/ StartPostgres \/ ReadInfo(1, "repo1", "repo2") \/ ReadInfo(2, "repo2", "backups")
    \/ StartImmich \/ ReadIndexes

DatabaseSpec == DatabaseInit /\ [][DatabaseNext]_databaseVars

-----------------------------------------------------------------------------
(* Properties.                                                             *)

(* "full PG18 backups in both repositories" (check-postgres.py:62): read   *)
(* one after the other while retention runs, it is so at the end, and      *)
(* stays so.                                                               *)
BackupsInBoth == query = "backups" => \A r \in Repos : fulls[r] \cap {i \in Known : databases[i] = 18} # {}

(* "valid search indexes": when check-immich-database.py passes, both are  *)
(* in the format of the extension, though it sees only that they are       *)
(* valid; a script that stopped half-way leaves none of its statements.    *)
IndexesAreRebuilt ==
    [][query' = "rebuilt" /\ query # "rebuilt"
          => \A x \in Indexes : stored.index[x] = "pinned"]_databaseVars
=============================================================================
