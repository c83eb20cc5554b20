------------------------- MODULE CheckScripts_proofs -------------------------
(***************************************************************************)
(* What a passing check of manifests, rollouts or databases means, for     *)
(* every value of the constants.                                           *)
(***************************************************************************)
EXTENDS PolicyChecks, RolloutChecks, DatabaseChecks, FiniteSetTheorems, TLAPS

-----------------------------------------------------------------------------
(* Manifests (PolicyChecks).                                               *)

(* The loop over the rules of an untrusted application is what confines    *)
(* it: a rule that passes opens only endpoints of the zone.                *)
LEMMA ConfinedRuleOpensZone ==
    ASSUME NEW r, NEW e \in Endpoints, Confined(r), Opens(r, e)
    PROVE  e.ns \in Reach
  BY PolicyAssumption DEF Confined, Opens

(* check-workload-isolation.py passes only for policies that keep an       *)
(* untrusted application in its zone.                                      *)
THEOREM UntrustedConfined == PolicySpec => []UntrustedIsConfined
<1>1. PolicyInit => UntrustedIsConfined
  BY DEF PolicyInit, UntrustedIsConfined
<1>2. UntrustedIsConfined /\ [PolicyNext]_policyVars => UntrustedIsConfined'
  <2> SUFFICES ASSUME UntrustedIsConfined, [PolicyNext]_policyVars
               PROVE  UntrustedIsConfined'
    OBVIOUS
  <2>1. CASE EditRules \/ EditHolds
    BY <2>1 DEF EditRules, EditHolds, Edit, UntrustedIsConfined
  <2>2. CASE RunCheck
    <3>1. rules' = rules /\ (outcome' = "passed" => UntrustedPasses)
      BY <2>2 DEF RunCheck
    <3>2. ASSUME UntrustedPasses, NEW e \in Endpoints, Reaches(e)
          PROVE  e.ns \in Reach
      <4>1. PICK r \in rules : r.exception \/ Opens(r, e)
        BY <3>2 DEF Reaches
      <4>2. Confined(r)
        BY <3>2, <4>1 DEF UntrustedPasses
      <4> QED
        BY <4>1, <4>2, ConfinedRuleOpensZone DEF Confined
    <3> QED
      BY <3>1, <3>2 DEF UntrustedIsConfined, Reaches, Opens
  <2>3. CASE UNCHANGED policyVars
    BY <2>3 DEF policyVars, UntrustedIsConfined, Reaches, Opens
  <2> QED
    BY <2>1, <2>2, <2>3 DEF PolicyNext
<1> QED
  BY <1>1, <1>2, PTL DEF PolicySpec

-----------------------------------------------------------------------------
(* Rollouts (RolloutChecks).                                               *)

LEMMA RolloutTyped == RolloutSpec => []RolloutTypeOK
<1>1. RolloutInit => RolloutTypeOK
  <2> SUFFICES ASSUME RolloutInit
               PROVE  RolloutTypeOK
    OBVIOUS
  <2>1. Only("other", "ready") \in [Images -> PodStates]
    BY DEF Only, PodStates
  <2>4. pods \in [Workloads -> [Images -> PodStates]]
    BY <2>1 DEF RolloutInit
  <2>5. artifact \in Images /\ template \in [Workloads -> Images]
    BY DEF RolloutInit, Images
  <2>6. report \in [Workloads -> [fresh : BOOLEAN, full : BOOLEAN]]
    BY DEF RolloutInit
  <2> QED
    BY <2>4, <2>5, <2>6 DEF RolloutInit, RolloutTypeOK
<1>2. RolloutTypeOK /\ [RolloutNext]_rolloutVars => RolloutTypeOK'
  <2> SUFFICES ASSUME RolloutTypeOK, [RolloutNext]_rolloutVars
               PROVE  RolloutTypeOK'
    OBVIOUS
  <2> USE RolloutAssumption DEF RolloutTypeOK
  <2>1. CASE ChangeDistribution
    BY <2>1 DEF ChangeDistribution
  <2>2. CASE Unready
    BY <2>2 DEF Unready
  <2>3. CASE Applied
    <3>1. ready' \in BOOLEAN
      BY <2>3 DEF Applied
    <3> QED
      BY <2>3, <3>1 DEF Applied
  <2>4. ASSUME NEW w \in Workloads, Report(w)
        PROVE  RolloutTypeOK'
    <3>1. Full(w) \in BOOLEAN
      BY DEF Full
    <3>2. [fresh |-> TRUE, full |-> Full(w)] \in [fresh : BOOLEAN, full : BOOLEAN]
      BY <3>1
    <3>3. report' \in [Workloads -> [fresh : BOOLEAN, full : BOOLEAN]]
      BY <2>4, <3>2 DEF Report
    <3> QED
      BY <2>4, <3>3 DEF Report
  <2>5. ASSUME NEW w \in Workloads, NEW i \in Images, Upgrade(w, i)
        PROVE  RolloutTypeOK'
    <3>1. report' \in [Workloads -> [fresh : BOOLEAN, full : BOOLEAN]]
      BY <2>5 DEF Upgrade
    <3>2. template' \in [Workloads -> Images] /\ rolled' \in SUBSET Workloads /\ changes' \in Nat
      BY <2>5 DEF Upgrade
    <3> QED
      BY <2>5, <3>1, <3>2 DEF Upgrade
  <2>6. ASSUME NEW w \in Workloads, NEW i \in Images, PodStep(w, i)
        PROVE  RolloutTypeOK'
    <3>1. rolled' \in SUBSET Workloads
      BY <2>6 DEF PodStep
    <3>2. PICK state \in PodStates : pods' = [pods EXCEPT ![w][i] = state]
      BY <2>6 DEF PodStep, PodStates
    <3>3. pods' \in [Workloads -> [Images -> PodStates]]
      BY <3>2
    <3> QED
      BY <2>6, <3>1, <3>3 DEF PodStep
  <2>7. CASE GitopsStart \/ ReadInstance \/ ListPods
    BY <2>7 DEF GitopsStart, ReadInstance, ListPods
  <2>8. ASSUME NEW w \in Workloads, ReadDeployment(w)
        PROVE  RolloutTypeOK'
    BY <2>8 DEF ReadDeployment
  <2>9. CASE UNCHANGED rolloutVars
    BY <2>9 DEF rolloutVars
  <2> QED
    BY <2>1, <2>2, <2>3, <2>4, <2>5, <2>6, <2>7, <2>8, <2>9 DEF RolloutNext
<1> QED
  BY <1>1, <1>2, PTL DEF RolloutSpec

(* The three counts leave no other possibility than one ready pod of the   *)
(* image in the spec: a pod that is counted twice is not there.            *)
LEMMA FullIsRolledOut ==
    ASSUME RolloutTypeOK, NEW w \in Workloads, Full(w)
    PROVE  RolledOut(w)
<1>1. IsFiniteSet(Alive(w)) /\ IsFiniteSet(Ready(w))
  <2>1. IsFiniteSet(Images)
    <3>1. Images = ({} \cup {"pinned"}) \cup {"other"}
      BY DEF Images
    <3> QED
      BY <3>1, FS_EmptySet, FS_AddElement, Zenon
  <2> QED
    BY <2>1, FS_Subset DEF Alive, Ready
<1>2. PICK a : Alive(w) = {a}
  BY <1>1, FS_Singleton DEF Full
<1>3. PICK b : Ready(w) = {b}
  BY <1>1, FS_Singleton DEF Full
<1>4. a = template[w] /\ b = a
  BY <1>2, <1>3 DEF Full, Alive, Ready
<1>5. pods[w][template[w]] = "ready" /\ \A i \in Images \ {template[w]} : pods[w][i] = "none"
  BY <1>2, <1>3, <1>4 DEF Alive, Ready
<1> QED
  BY <1>5 DEF RolledOut, Only, RolloutTypeOK

(* What the history says: a rollout that is complete now, or of which a    *)
(* fresh report says so, has come to its end since the spec changed; the   *)
(* FluxInstance is Ready only while that holds of all it installs.         *)
RolledIsSeen ==
    \A w \in Workloads : /\ RolledOut(w) => w \in rolled
                         /\ report[w].fresh /\ report[w].full => w \in rolled
ReadyIsRolled == ready => \A w \in Managed : w \in rolled /\ template[w] = "pinned"
RolloutInv == RolloutTypeOK /\ RolledIsSeen /\ ReadyIsRolled

LEMMA RolloutInvariant == RolloutSpec => []RolloutInv
<1>1. RolloutInit => RolledIsSeen /\ ReadyIsRolled
  BY DEF RolloutInit, RolledIsSeen, ReadyIsRolled
<1>2. RolloutInv /\ RolloutTypeOK' /\ [RolloutNext]_rolloutVars
         => RolledIsSeen' /\ ReadyIsRolled'
  <2> SUFFICES ASSUME RolloutInv, RolloutTypeOK', [RolloutNext]_rolloutVars
               PROVE  RolledIsSeen' /\ ReadyIsRolled'
    OBVIOUS
  <2> USE RolloutAssumption DEF RolloutInv, RolledIsSeen, ReadyIsRolled
  <2>1. CASE ChangeDistribution \/ Unready
    BY <2>1 DEF ChangeDistribution, Unready, RolledOut
  <2>2. CASE Applied
    BY <2>2 DEF Applied, RolledOut
  <2>3. ASSUME NEW w \in Workloads, Report(w)
        PROVE  RolledIsSeen' /\ ReadyIsRolled'
    <3>1. Full(w) => w \in rolled
      BY FullIsRolledOut
    <3> QED
      BY <2>3, <3>1 DEF Report, RolledOut, RolloutTypeOK
  <2>4. ASSUME NEW w \in Workloads, NEW i \in Images, Upgrade(w, i)
        PROVE  RolledIsSeen' /\ ReadyIsRolled'
    BY <2>4 DEF Upgrade, RolledOut, RolloutTypeOK
  <2>5. ASSUME NEW w \in Workloads, NEW i \in Images, PodStep(w, i)
        PROVE  RolledIsSeen' /\ ReadyIsRolled'
    <3>1. \A v \in Workloads \ {w} : RolledOut(v)' => RolledOut(v)
      BY <2>5 DEF PodStep, RolledOut, RolloutTypeOK
    <3>2. rolled \subseteq rolled' /\ (RolledOut(w)' => w \in rolled')
      BY <2>5 DEF PodStep
    <3> QED
      BY <2>5, <3>1, <3>2 DEF PodStep
  <2>6. CASE GitopsStart \/ ReadInstance \/ ListPods \/ \E w \in Workloads : ReadDeployment(w)
    BY <2>6 DEF GitopsStart, ReadInstance, ListPods, ReadDeployment, RolledOut
  <2>7. CASE UNCHANGED rolloutVars
    BY <2>7 DEF rolloutVars, RolledOut
  <2> QED
    BY <2>1, <2>2, <2>3, <2>4, <2>5, <2>6, <2>7 DEF RolloutNext
<1> QED
  BY <1>1, <1>2, RolloutTyped, PTL DEF RolloutSpec, RolloutInv

(* check-gitops-images.py accepts a Deployment, and in the end all that    *)
(* the FluxInstance installs, only when their rollouts came to an end.     *)
THEOREM RolloutsArePassed == RolloutSpec => PassedRollouts
<1>1. RolloutInv /\ [RolloutNext]_rolloutVars
         => [\A w \in Workloads : Accepts(w) => w \in rolled /\ template[w] = "pinned"]_rolloutVars
  <2> SUFFICES ASSUME RolloutInv, RolloutNext, NEW w \in Workloads, Accepts(w)
               PROVE  w \in rolled /\ template[w] = "pinned"
    OBVIOUS
  <2> USE DEF RolloutInv, RolloutTypeOK, Accepts
  <2>1. CASE GitopsStart \/ ListPods
    BY <2>1 DEF GitopsStart, ListPods
  <2>2. CASE ReadInstance
    BY <2>2 DEF ReadInstance, SettledInstance, ReadyIsRolled
  <2>3. ASSUME NEW v \in Workloads, ReadDeployment(v)
        PROVE  w \in rolled /\ template[w] = "pinned"
    <3>1. Complete(v) /\ w = v
      BY <2>3 DEF ReadDeployment
    <3> QED
      BY <3>1 DEF Complete, RolledIsSeen
  <2>4. CASE check' = check
    BY <2>4
  <2> QED
    BY <2>1, <2>2, <2>3, <2>4 DEF RolloutNext, ChangeDistribution, Unready, Applied,
                                  Report, Upgrade, PodStep
<1> QED
  BY <1>1, RolloutInvariant, PTL DEF RolloutSpec, PassedRollouts

-----------------------------------------------------------------------------
(* The database (DatabaseChecks).                                          *)

Version18(r) == \E i \in fulls[r] : databases[i] = 18

(* Databases only get newer, and repositories know no others.              *)
HistoryInv ==
    /\ databases \in Seq({16, 18}) /\ Len(databases) \in Nat \ {0}
    /\ fulls \in [Repos -> SUBSET Known]
    /\ \A i, j \in Known : i < j /\ databases[i] = 18 => databases[j] = 18

(* What the check has read of the repositories is still so.                *)
BackupInv ==
    /\ query \in {"repo2", "backups"} => Version18(1)
    /\ query = "backups" => Version18(2)

LEMMA HistoryInvariant == DatabaseSpec => []HistoryInv
<1>1. DatabaseInit => HistoryInv
  BY DEF DatabaseInit, HistoryInv, Repos, Known
<1>2. HistoryInv /\ [DatabaseNext]_databaseVars => HistoryInv'
  <2> SUFFICES ASSUME HistoryInv, [DatabaseNext]_databaseVars
               PROVE  HistoryInv'
    OBVIOUS
  <2> USE DEF HistoryInv, Known, Repos
  <2>1. CASE NewDatabase
    <3>1. /\ databases' \in Seq({16, 18})
          /\ Len(databases') = Len(databases) + 1
          /\ databases'[Len(databases) + 1] = 18
          /\ \A i \in 1 .. Len(databases) : databases'[i] = databases[i]
      BY <2>1 DEF NewDatabase
    <3>2. fulls' \in [Repos -> SUBSET Known']
      BY <2>1, <3>1 DEF NewDatabase
    <3>3. \A i, j \in Known' : i < j /\ databases'[i] = 18 => databases'[j] = 18
      BY <3>1
    <3> QED
      BY <3>1, <3>2, <3>3
  <2>2. ASSUME NEW r \in Repos, Backup(r) \/ ExpireFull(r)
        PROVE  HistoryInv'
    BY <2>2 DEF Backup, ExpireFull
  <2>3. CASE UNCHANGED <<databases, fulls>>
    BY <2>3
  <2> QED
    BY <2>1, <2>2, <2>3
    DEF DatabaseNext, databaseVars, SetImage, ReplacePod, RestoreSnapshot, Statement,
        BeginUpgrade, AlterExtension, Reindex, CommitUpgrade, FailUpgrade, Asks,
        StartPostgres, ReadInfo, StartImmich, ReadIndexes
<1> QED
  BY <1>1, <1>2, PTL DEF DatabaseSpec

(* Retention never takes the last full backup of a PostgreSQL 18 database: *)
(* whatever stays is newer, and newer ones are not older versions.         *)
LEMMA RetentionKeepsVersion18 ==
    ASSUME HistoryInv, NEW r \in Repos, NEW s \in Repos, Version18(r),
           Backup(s) \/ ExpireFull(s)
    PROVE  Version18(r)'
<1>1. CASE Backup(s)
  BY <1>1 DEF Backup, Version18, HistoryInv
<1>2. CASE ExpireFull(s)
  <2>1. PICK i, j \in fulls[s] : i < j /\ fulls' = [fulls EXCEPT ![s] = @ \ {i}]
    BY <1>2 DEF ExpireFull
  <2>2. databases' = databases
    BY <1>2 DEF ExpireFull
  <2>3. PICK k \in fulls[r] : databases[k] = 18
    BY DEF Version18
  <2>4. i \in Known /\ j \in Known
    BY <2>1 DEF HistoryInv
  <2>5. CASE r = s /\ k = i
    <3>1. databases[j] = 18
      BY <2>1, <2>3, <2>4, <2>5 DEF HistoryInv
    <3>2. j \in fulls'[r]
      BY <2>1, <2>4, <2>5 DEF HistoryInv, Known
    <3> QED
      BY <2>2, <3>1, <3>2 DEF Version18
  <2>6. CASE ~(r = s /\ k = i)
    <3>1. k \in fulls'[r]
      BY <2>1, <2>3, <2>6 DEF HistoryInv
    <3> QED
      BY <2>2, <2>3, <3>1 DEF Version18
  <2> QED
    BY <2>5, <2>6
<1> QED
  BY <1>1, <1>2

(* When check-postgres.py has passed, both repositories hold a full backup *)
(* of a PostgreSQL 18 database, though it reads one after the other.       *)
THEOREM BackupsAreInBoth == DatabaseSpec => []BackupsInBoth
<1>1. DatabaseInit => BackupInv
  BY DEF DatabaseInit, BackupInv
<1>2. BackupInv /\ HistoryInv /\ HistoryInv' /\ [DatabaseNext]_databaseVars => BackupInv'
  <2> SUFFICES ASSUME BackupInv, HistoryInv, HistoryInv', [DatabaseNext]_databaseVars
               PROVE  BackupInv'
    OBVIOUS
  <2>1. CASE NewDatabase
    <3>1. fulls' = fulls /\ query' = query
      BY <2>1 DEF NewDatabase
    <3>2. \A i \in 1 .. Len(databases) : databases'[i] = databases[i]
      BY <2>1 DEF NewDatabase, HistoryInv
    <3>3. \A r \in Repos : Version18(r) => Version18(r)'
      BY <3>1, <3>2 DEF Version18, HistoryInv, Known
    <3> QED
      BY <3>1, <3>3 DEF BackupInv, Repos
  <2>2. ASSUME NEW s \in Repos, Backup(s) \/ ExpireFull(s)
        PROVE  BackupInv'
    <3>1. query' = query
      BY <2>2 DEF Backup, ExpireFull
    <3> QED
      BY <2>2, <3>1, RetentionKeepsVersion18 DEF BackupInv, Repos
  <2>3. CASE ReadInfo(1, "repo1", "repo2") \/ ReadInfo(2, "repo2", "backups")
    BY <2>3 DEF ReadInfo, Asks, CurrentIds, BackupInv, Version18
  <2>4. CASE StartPostgres \/ StartImmich \/ ReadIndexes
    BY <2>4 DEF StartPostgres, StartImmich, ReadIndexes, Asks, BackupInv, Version18
  <2>5. CASE UNCHANGED <<databases, fulls, query>>
    BY <2>5 DEF BackupInv, Version18
  <2> QED
    BY <2>1, <2>2, <2>3, <2>4, <2>5
    DEF DatabaseNext, databaseVars, SetImage, ReplacePod, RestoreSnapshot, Statement,
        BeginUpgrade, AlterExtension, Reindex, CommitUpgrade, FailUpgrade
<1>3. BackupInv /\ HistoryInv => BackupsInBoth
  BY DEF BackupInv, HistoryInv, BackupsInBoth, Version18, Repos
<1> QED
  BY <1>1, <1>2, <1>3, HistoryInvariant, PTL DEF DatabaseSpec

(* The transaction: what is committed has its indexes in the format of its *)
(* extension, and the script gets the uncommitted state there before       *)
(* COMMIT.                                                                 *)
Uniform(f) == \A x \in Indexes : f.index[x] = f.extension
UpgradeInv ==
    /\ stored \in Formats /\ Uniform(stored)
    /\ psql \in [at : {"none", "alter", "face", "clip", "commit"}, work : Formats]
    /\ psql.at \in {"clip", "commit"} => psql.work.index["face"] = psql.work.extension
    /\ psql.at = "commit" => Uniform(psql.work)

(* check-immich-database.py passes only when both indexes are rebuilt in   *)
(* the format of the extension it asks for.                                *)
THEOREM IndexesRebuilt == DatabaseSpec => IndexesAreRebuilt
<1>1. DatabaseInit => UpgradeInv
  BY DEF DatabaseInit, UpgradeInv, Uniform, Before, Quiet, Formats, Indexes, Releases
<1>2. UpgradeInv /\ [DatabaseNext]_databaseVars => UpgradeInv'
  <2> SUFFICES ASSUME UpgradeInv, [DatabaseNext]_databaseVars
               PROVE  UpgradeInv'
    OBVIOUS
  <2> USE DEF UpgradeInv
  <2>0. Before \in Formats /\ Uniform(Before) /\ Quiet.at = "none"
        /\ Quiet \in [at : {"none", "alter", "face", "clip", "commit"}, work : Formats]
    BY DEF Before, Formats, Indexes, Releases, Quiet, Uniform
  <2>1. CASE ReplacePod \/ FailUpgrade
    BY <2>0, <2>1 DEF ReplacePod, FailUpgrade
  <2>2. CASE RestoreSnapshot
    BY <2>0, <2>2 DEF RestoreSnapshot
  <2>3. CASE BeginUpgrade
    BY <2>3 DEF BeginUpgrade
  <2>4. CASE AlterExtension
    <3>1. [psql.work EXCEPT !.extension = "pinned"] \in Formats
      BY DEF Formats, Releases
    <3> QED
      BY <2>4, <3>1 DEF AlterExtension, Write
  <2>5. ASSUME NEW x \in Indexes, NEW next \in {"clip", "commit"}, Reindex(x, next),
               (x = "face" /\ next = "clip") \/ (x = "clip" /\ next = "commit")
        PROVE  UpgradeInv'
    <3> DEFINE work == [psql.work EXCEPT !.index[x] = psql.work.extension]
    <3>1. psql.work \in Formats /\ psql.at = x
      BY <2>5 DEF Reindex, Statement
    <3>2. work \in Formats /\ work.extension = psql.work.extension
      BY <3>1 DEF Formats
    <3>3. work.index[x] = work.extension
          /\ \A y \in Indexes \ {x} : work.index[y] = psql.work.index[y]
      BY <3>1 DEF Formats
    <3>4. psql' = [at |-> next, work |-> work] /\ stored' = stored
      BY <2>5 DEF Reindex, Write
    <3> HIDE DEF work
    <3>5. CASE x = "face"
      BY <2>5, <3>2, <3>3, <3>4, <3>5
    <3>6. CASE x = "clip"
      <4>1. work.index["face"] = work.extension
        BY <3>1, <3>2, <3>3, <3>6 DEF Indexes
      <4> QED
        BY <2>5, <3>2, <3>3, <3>4, <3>6, <4>1 DEF Uniform, Indexes
    <3> QED
      BY <2>5, <3>5, <3>6
  <2>6. CASE CommitUpgrade
    BY <2>0, <2>6 DEF CommitUpgrade, Statement
  <2>7. CASE UNCHANGED <<stored, psql>>
    BY <2>7
  <2> QED
    BY <2>1, <2>2, <2>3, <2>4, <2>5, <2>6, <2>7
    DEF DatabaseNext, databaseVars, NewDatabase, Backup, ExpireFull, SetImage, Asks,
        StartPostgres, ReadInfo, StartImmich, ReadIndexes, Indexes
<1>3. UpgradeInv /\ [DatabaseNext]_databaseVars
         => [query' = "rebuilt" /\ query # "rebuilt"
               => \A x \in Indexes : stored.index[x] = "pinned"]_databaseVars
  <2> SUFFICES ASSUME UpgradeInv, DatabaseNext, query' = "rebuilt", query # "rebuilt"
               PROVE  \A x \in Indexes : stored.index[x] = "pinned"
    OBVIOUS
  <2>1. ReadIndexes
    BY DEF DatabaseNext, NewDatabase, Backup, ExpireFull, SetImage, ReplacePod,
           RestoreSnapshot, Statement, BeginUpgrade, AlterExtension, Reindex,
           CommitUpgrade, FailUpgrade, Asks, StartPostgres, ReadInfo, StartImmich
  <2> QED
    BY <2>1 DEF ReadIndexes, Asks, Rebuilt, UpgradeInv, Uniform
<1> QED
  BY <1>1, <1>2, <1>3, PTL DEF DatabaseSpec, IndexesAreRebuilt
=============================================================================
