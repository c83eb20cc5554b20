# A formal model of Nimbus Casa

TLA+ modules for the parts of this repository that have state, an order of steps
and ways to fail: the rollout of the Nexus application, the bootstrap of the Talos
cluster, the media zone behind its VPN, the live checks that cause outages on
purpose, the Ansible rollout of the edge hosts, the import of an external Ceph
cluster, and the scripts that verify admission, isolation, images and databases. TLC
checks small instances; TLAPS proves the safety properties that matter most for
every value of the constants.

Most of the repository is declarative. What can go wrong there is not a line of a
manifest but an order: who applied what first, which command failed half-way, what
the rerun finds. The models are about that.

## Inventory

| Component | State it keeps | Operations | Hard behaviour | Correct when |
| --- | --- | --- | --- | --- |
| **Nexus rollout** `ansible/roles/nexus` | staged and installed files, checkout, image tags, containers, flock, cron entry | the role's tasks, `nexus-deploy` under flock, the scheduled mirror | two processes share files and a lock; the controller may be lost and leave an orphaned build or helper; every command may fail; reboots; overlapping plays | mirror and rollout exclude each other, a verified rollout is consistent, reruns converge |
| **Cluster bootstrap** `scripts/bootstrap-apps.sh`, `bootstrap/helmfile.d` | nodes, namespaces, SOPS secrets, CRDs, a chain of Helm releases | wait, apply, sync; run again by hand | nodes become Ready while the script looks; failures and interrupts between steps; the repository moves between runs | Flux starts only in a prepared cluster, success is complete, reruns converge |
| **Media zone and VPN gateway** `kubernetes/apps/media*`, `media-vpn` | what Flux has applied, injector, gateway pod and its guard, tunnel, application pods | Flux applies, admission, pod start, gateway start, maintenance by hand | Kustomizations applied independently, image bumps that arrive at different times, restarts of gateway and injector | no packet leaves except through the tunnel, no pod without sidecar, applications come back |
| **Live isolation checks** `scripts/verify-workload-isolation.py` | a pod name, a route, a deny policy, a replica count | probes, three deliberate outages, `finally` blocks | kubectl calls that fail before or after taking effect; killed runs; the pod replaced under the script | a passing run left nothing broken, a run undoes what it changed |
| **Edge host rollout** `ansible/roles/{common,firewall,wireguard,haproxy,gatus}` | configuration on disk and loaded, notified handlers | template tasks, validating and reloading handlers | a failing play drops its notifications; a rerun sees unchanged files; reboots and unattended upgrades load what is on disk | a success means loaded files, the playbook takes nothing down, what runs survives a reboot |
| **Rook external cluster import** `scripts/import-external-cluster.sh` | namespace, secrets, config maps, pools, storage classes | look up, create or skip, create or patch, wait for pools | fails part-way (`set -e`); rerun with rotated keys; two imports at once | reruns complete, credentials stay whole, classes have their pool |
| **Secret admission** `external-secrets/access`, `scripts/verify-secret-isolation.py` | contract list, admission policy, ExternalSecrets | CREATE and UPDATE, comparison and refused requests | contracts and consumers reach the cluster at different times; controller finalizers; edits by hand; the script reads at several moments | a pass means what its requests can tell; nobody waits for ever |
| **Temporary probe checks** `verify-application-isolation.py`, `verify-karakeep-isolation.py`, `verify-secret-transport.py` | Jobs, a Role, a pod under fixed names | create or apply, wait, delete | four threads, overlapping runs, leftovers of killed runs, calls that fail after taking effect | PASS is about this run, nothing stays behind |
| **Workload isolation check** `check-workload-isolation.py` | manifests | find rules, build with the root's patches | what a rule leaves out means "nothing" to the script and "everything" to Cilium | a pass confines the application; the holds survive the root's patches |
| **Image checks** `check-gitops-images.py`, `check-privileged-images.py` | Deployments, pods, the FluxInstance | read one after the other, or one list | rollouts and upgrades go on meanwhile; status lags behind the spec | what is accepted has been rolled out |
| **Immich database** `immich-vectorchord-upgrade.sql`, `check-immich-database.py`, `check-postgres.py` | image, formats, backups in two repositories | one transaction; queries | failures half-way, changes of the image, retention between two queries | what the checks say of indexes and backups is so |
| **VolSync** `components/volsync` | PVC, restore-once trigger, hourly snapshots | restore, backup | restore races the application's first write and the first backup | not modelled, see below |
| **Flux apply order** `flux/cluster/ks.yaml`, the `ks.yaml` files | Kustomizations and Helm releases | apply in `dependsOn` order, retry, suspend | `wait: false` dependencies, retries, holds | partly, in `MediaVpn` and `PolicyChecks` |
| **Staged migration** `*/isolation-legacy.yaml`, `docs/workload-isolation-migration.md` | legacy holds, suspended Kustomizations | resume step by step | two writers, two injectors | the holds only, in `PolicyChecks` |
| **Volume audit, notifications, Talos and OpenTofu inputs, remaining applications** | none, or none of their own | | | not modelled, see below |

How they interact: Bootstrap ends by installing Flux, which applies everything
under `kubernetes/`; the media zone is one part of it, and the live checks act on
the running zone. The Ansible hosts are independent of the cluster except for
traffic through HAProxy and WireGuard. The Nexus play, its helper and its cron job
interact only through files and one lock. The verifying scripts share nothing with
each other: each is modelled with the part of the cluster it looks at.

`PROJECT.json` lists every component with its status, and under `hazards` what is
hard to test, each at its line with the properties that cover it.

## Modules

| Module | Models | Extends |
| --- | --- | --- |
| `MaintenanceWindow` | abstract: rollout and mirror take turns; tokens change only in a rollout; a verified one leaves them equal | |
| `NexusRollout` | `roles/nexus/tasks/main.yml`, `files/deploy.sh`, the cron job | instantiates `MaintenanceWindow` |
| `NexusRollout_proofs` | its theorems | `NexusRollout` |
| `Bootstrap` | `bootstrap-apps.sh`, `lib/common.sh`, the helmfiles | |
| `Bootstrap_proofs` | its theorems | `Bootstrap` |
| `MediaVpn` | Flux, admission, injector, gateway and pods of the media zone | |
| `MediaVpn_proofs` | its theorems | `MediaVpn` |
| `OutageExercise` | `verify-workload-isolation.py` composed with the media zone | `MediaVpn` |
| `OutageExercise_proofs` | its theorems, reusing the zone's | `OutageExercise`, `MediaVpn_proofs` |
| `ProbeJobs` | the three scripts that make temporary objects, many runs of one script at a time | |
| `SecretContracts` | contract list, admission policy, consumers, `verify-secret-isolation.py` | |
| `PolicyChecks` | `check-workload-isolation.py` against Cilium and the root's patches | |
| `RolloutChecks` | the live parts of `check-gitops-images.py` and `check-privileged-images.py` against rollouts | |
| `DatabaseChecks` | the VectorChord upgrade, `check-immich-database.py`, `check-postgres.py` | |
| `EdgeHosts` | `ansible/site.yml` for the VPS and the connector, their reboots and restarts | |
| `ClusterImport` | `import-external-cluster.sh` | |
| `ProbeJobs_proofs`, `SecretContracts_proofs` | their theorems | the module named |
| `CheckScripts_proofs` | theorems about the three `...Checks` modules | `PolicyChecks`, `RolloutChecks`, `DatabaseChecks` |
| `HostScripts_proofs` | theorems about edge hosts and import | `EdgeHosts`, `ClusterImport` |
| `MCScripts` | one instance of the seven modules above, see Runs | the seven |
| other `MC...` | the instances TLC checks | the module named |

An operator called `XMutant` is a wrong variant of `X`: the bug each property is
there to catch. No specification uses one.

### NexusRollout

| Code | Model |
| --- | --- |
| `git` task and its `changed` result | `Checkout`, `checkout`, `job[p].changed` |
| staging of `nexus.env`, `maintenance.env`, the runner into `.deploy` | `StageEnv`, `StageMaintenance`, `StageRunner`, `staged` |
| build `when` changed, image missing or forced | `MustBuild`, `SkipBuild`; `StartBuild` (reads the staged environment), `SendContext` (the checkout), `TagImage` |
| `flock --wait 600` / `flock -n` | `AwaitLock`, `Flock`, `AcquireLock`, `LockTimeout`, `MirrorStart` |
| `install_managed` (compare, replace) | `Managed`, `InstallEnv`, `InstallMaintenance`, `InstallRunner` |
| database only when the application is disabled | `StartDatabase` |
| `compose up` one service after another | `Up`, `container[s]` is the environment a container was created with |
| health and admin checks | `ChecksPass`, `Verify` |
| cron task, present or absent | `Scheduled`, `Schedule` |
| `set -e`, lost SSH, reboot | `DeployFails`, `PlayFails`, `ControllerLost`, `Reboot` |

A lost controller leaves what it had started: a helper keeps its lock, and a build
goes on, sends whatever is checked out by then, and tags it (`task[p] = "orphan"`).
Those are the two commands of the role that run long enough for another play to
begin beside them; the module of any other task is taken to end with its play. So
`TaggedAsBuilt` has two exceptions (`Outlived`), each tied to the orphan's own step,
and `nexus_images` shows the shorter one. A failed
`compose up` may leave the service it was replacing without a container. The
mirror's runner belongs to the application's own repository: only when it reads
the token and when it posts are modelled. The compose file and restart policies
are outside too; a container is what `compose up` made of it. `grokmirror.conf`
does not differ between releases and is part of staging the runner. The two image
tags of a revision are built by one command and are one entry of `image`.

### Bootstrap

`pc` is the function `main` is in. `wait_for_nodes` is `SkipWait` (all Ready at the
first look), `EnterWait`, and `LeaveWait` (all NotReady, the loop's condition).
`log error` exits, `log fatal` does not (`common.sh` compares with "error"): so a
failed CRD step is an ordinary alternative of `ApplyCrds`. `SyncRelease` goes
through the `needs` chain of `01-apps.yaml`; a failed release may leave some of its
objects behind ("old"). Values of "old" and "current" stand for whatever the diffs
compare. `Bump` is a commit between two runs.

### MediaVpn

| Code | Model |
| --- | --- |
| Renovate's custom manager keeps Helm value and admission pin in one commit | `Bump`, `Pin` |
| Kustomizations `media-isolation`, `vpn-gateway`, the applications | `ApplyIsolation`, `UpgradeRelease`, `DependenciesReady`, `EnableApps` |
| webhook with `failurePolicy: Fail` on the untrusted zone | `Injected`, `InjectorAnswers` |
| `media-requires-vpn` on CREATE and UPDATE | `Admitted`, used by `CreatePod` and `CompleteJob` |
| `gateway_init.sh; forward-guard.sh`, gluetun, WireGuard | `gateway` = down, init, guarded, tunnel |
| Cilium policies of pods and gateway | `Underlay`, `ThroughGateway` |
| where a packet ends up | `Egress` |

Only public traffic is modelled; the matrix of who may talk to whom inside the
cluster and split DNS are data without steps. What the two images do inside
(`gateway_init.sh`, gluetun, the webhook) is external and reduced to the states
above. Policies and Kustomizations are not removed again (`prune` acts only on a
commit that removes them).

### OutageExercise

One action per step of the script, in its order, on the state of `MediaVpn`:
`Detour` is its `ip route add`/`del`, `DenyRelays` its policy, `Scale` its replicas.
`Error` lets a kubectl call report a failure before or after it took effect; `Kill`
ends the script without its `finally` blocks; a run may follow any run. `lost` says
that the pod whose name was captured at line 42 has been replaced. Checks of one
stage that depend on the modelled state are one step; those on other pods pass.

### ProbeJobs

| Code | Model |
| --- | --- |
| `pool.map(probe, APPS)`; the parts of the transport script in turn | `pc[r][s]` for each run and subject, `MayStep` |
| `create` refuses an existing name, `apply` does not | `AcceptsExisting`, `Create` |
| `finally: delete` (always; only if `created`; exit code ignored) | `AfterFailedCreate`, `Delete`, `DeleteFailed` |
| `kubectl wait` and `logs`; the dry run refused by the policy | `Wait`, `Seen` |
| a raised exception, `record`, `results` | `Raise`, `Result`, `AllGood`, `Finish` |
| probe code, deadline and TTL of the Job | `Connect`, `Expire` |

`sound` is what the probe is there to find out; it may change at any time (`Drift`).
A boundary seen by a probe is one subject whose value is sound or not; targets and
labels are data. Checks that only read have any outcome.

### SecretContracts

`Rules` are the validations of `admission.yaml`, the two with several parts split;
`Relevant` is its variable `contract` (the only match, else the first of the list),
`Maintains` its match condition. What Flux and the controller still have to do are
the guards `PolicyDue`, `ConsumerDue`, `PruneDue`, `FinalizerDue` and `ReleaseDue`;
`Settled` says that none holds. A contract is a record, and a request has one entry
of `data` or `dataFrom`, since each is judged by itself. `Commit` changes contract
list and manifests together; `EditByHand` takes a validation out of the policy or lets
a set of requests through (`Slips`, in `exempt`), which is what a weaker expression,
another match condition or constraint and `failurePolicy` come to; an edit that only
refuses more is not modelled. Flux applies policy (`ApplyPolicy`) and consumers
(`ApplyConsumer`, `Prune`) separately; the controller adds and removes its finalizer.
The script is one action per group of requests (`ReadPolicy`, `ListLive`, `TryLive`,
`TryCases`), each at its own moment; `calm` records whether the cluster changed in
between. `PassMeansContracts` says what the script's handful of requests shows, and what not. Each
validation but the first is there, because one request tells it from the others. The
inventory validation may be missing: the unknown name is also refused for not fitting
the first contract. Of any other edit a pass shows only that none of the script's own
requests gets through: whatever else was exempted is still let in, and the property
says that nothing but that is. It is about a cluster in which nothing changed during the
run (`calm`): the script reads at several moments, and a change in between goes
unnoticed.

### PolicyChecks

`EndpointAllowed` is `endpoint_allowed`: it asks for a selector that names namespace
and application and ignores further labels; `Opens` is what Cilium makes of the same
rule, at most. `Confined` is the loop at lines 53-57. Manifests are edited freely
(`EditRules`, `EditHolds`) and the script run on any of them. The many asserts that
compare one text with one constant are left out. The check of the legacy holds
(`HoldPasses`, on the patched build) is part of the model but no property: what it
asserts is all that matters about them.

### RolloutChecks

Every workload wants one pod and has one image; `report` is the status of its
Deployment reduced to what the script asks: is it about the present spec, and are all
counts what is wanted. For the FluxInstance, `Unready`, `Upgrade` and `Applied` are
the operator's order: not ready, Deployments changed, ready when their reports are
complete. `check-gitops-images.py` reads one Deployment per step and the instance
last; `check-privileged-images.py` has one list of pods.

### DatabaseChecks

`psql.work` is the uncommitted state of the transaction. `databases` is the stanza's
history (a major upgrade or a new database appends to it), `fulls` the full backups
of each repository. Formats stand for extension versions; `indisvalid` stays true
through all of it. `NewDatabase` waits for a running upgrade script.

### EdgeHosts

| Code | Model |
| --- | --- |
| order of plays and roles | `Roles`, `NextTask`, `NextPlay` |
| template task, its `changed` result, `notify` | `Configure`, `Notifies`, `play.notified` |
| `assert` on WireGuard keys: defined, no `CHANGE_ME` | `Unfilled`, the text "placeholder" |
| `validate: haproxy -c -f %s` on the template | `Refused` |
| `wg0.conf` without `validate`, its handler a plain restart | "bad" is installed by `Configure`, `Reloaded` stops the tunnel |
| the connector's HAProxy binds `10.200.0.2:443` | `Tied`, `Binds`; `Start` needs the tunnel, `Booted` may be too early |
| `state: started` | `Enable` |
| handlers "Validate ..." and "Reload/Restart ..." in the roles' order | `Validate`, `Invalid`, `Reload` |
| a failed task or handler drops the remaining handlers and ends the playbook | `FailPlay`, `Interrupt`, `Unreachable` |
| boot, unattended upgrades | `Reboot`, `RestartService` |

Assumptions: one playbook at a time; variables and templates change between runs
only; a service that rejects its file does not start, except Gatus, which has no
readiness; a running HAProxy keeps its socket when the tunnel goes. A "bad" text is
one the service rejects (a key, port or endpoint of WireGuard with a mistake in it,
say); the role's other assert, on the connector's addresses (`wireguard/tasks/main.yml:20-27`),
compares with constants and only fails a play, as `Interrupt` does. Files written beside the main one (maps, the Gatus unit) go with it. `lost`
is a history of dropped notifications and restricts no action.

The three properties say what validation there is and what it is worth, WireGuard's
lack of it included. HAProxy's file on disk always loads. Those of sshd and nftables
are validated after they are installed: a bad one is never loaded by the playbook,
but stays on disk, and no rerun looks at it again. `wg0.conf` is looked at by nothing:
it is the one service that the playbook itself can take down, by the restart in its
own handler, and the play then fails. The connector's HAProxy is the one service that
a success may leave down or old with its notification not lost, while its tunnel is down.

### ClusterImport

`Order` is the order of `MAIN`, `Wanted` what the environment asks for. `Lookup`,
`CreateObject` and `Patch` are the three calls each function makes, `AwaitPool` the
wait of `importClusterID`. `kept[o]` are the generations that user name and data of
an object come from. `blind` marks a lookup that failed although the object exists,
`peers` the imports that overlapped: histories for the properties. Two objects are
outside `ImportedCredentials` because the script does not keep them whole: the mon
secret gets a new user name only (line 157), and monitor endpoints, RGW credentials
and storage classes are never updated (line 166). With KUBECONTEXT set, all calls go to
that context except those of `createRBDTopologyStorageClass`, which uses plain `kubectl`
(lines 388-389, although line 72 announces the context for "kubectl commands"):
`OtherContext` says that the two are different clusters, `Here` what is then in the
cluster of KUBECONTEXT, and the properties are about that one. The run has one cluster;
the theorems cover both.

## Runs

| Run | Instance and bounds | What it shows |
| --- | --- | --- |
| `nexus_sequential` | 2 plays that do not overlap, 2 tokens, 2 revisions, 1 inventory change, 2 faults (2.1 million states) | `MutualExclusion`, `MirrorAuthenticates`, `NoMirrorBeforeActivation`, `TaggedAsBuilt`, `VerifiedRolloutIsConsistent`, `CompletedPlayConverges`, `RerunKeepsConverged` (the theorems, `TaggedAsBuilt` and the last two excepted, cover plays that overlap as well) |
| `nexus_converges` | 2 plays, 2 tokens, 1 change, 1 fault, fairness | `RerunConverges`, `StableUnderMirror`, and that the role implements `MaintenanceWindow` |
| `nexus_images` | 2 plays that do not overlap, 2 tokens, 2 revisions, 1 inventory change, 1 fault | **violated**: "builds revision-tagged images" (`ansible/README.md:73`): an orphaned build sends a later play's checkout and tags it with its own revision; an orphaned helper can do the like with a missing tag |
| `nexus_comment` | 1 play, 1 fault | **violated**: `deploy.sh:4-5` says the mirror cannot read a new token while the old server runs; after a helper that failed past the install it can |
| `bootstrap_reruns` | 2 nodes, 2 namespaces, 2 secret files (one missing), 1 commit, 2 faults, fairness | `FluxStartsPrepared`, `DoneIsUpToDate`, `OnlyWaitHangs`, `ConvergesOrWaits` |
| `bootstrap_crds` | the same, without fairness | **violated**: CRDs before charts (`bootstrap-apps.sh:87`): `log fatal` does not exit |
| `bootstrap_wait` | no commit, 1 fault, fairness | **violated**: "skip waiting if all nodes are Ready" (`:13`) is decided once; nodes that become Ready later are waited for for ever |
| `media_zone` | 1 application, 1 job, 2 image versions, 2 faults, fairness; once from nothing with any operator, once in use with the live checks as the operator: 2 failed calls or kills, no image bump | `NoDirectEgress`, `SidecarInEveryPod`, `SettledZoneRuns`, `AppsComeBack`, `HonestReport`, `UndoesItsChanges` |
| `media_job` | 1 job, 2 image versions, fairness | **violated**: "Job completes" (`workload-isolation-migration.md:155`): the pin also checks UPDATEs of pods created before a bump |
| `outage_probe` | 1 pod, no failed calls | **violated**: "must reach the command" (`verify-workload-isolation.py:56`): exit code 1 is also kubectl's own |
| `scripts_all` | see below | the fourteen properties of the seven script modules |
| `scripts_listed` | 2 workloads | **violated**: "not Ready" (`check-privileged-images.py:117`): a pod without container statuses passes and is counted |

The findings, with the lines they quote, are in `PROJECT.json`.

Why these bounds are enough to be interesting. Two plays with one of them orphaned
are what it takes for a rerun to meet a helper of an earlier play; two revisions and
two tokens for a mixture to be visible; one change of the inventory separates
"before" from "after". Two faults let a rerun fail as well. For Bootstrap two nodes
allow a mixture of Ready and NotReady; one of two secret files is missing because a
missing file is only a warning. Two image versions are the smallest number with a
bump in flight, and two faults take gateway and injector down together. Two errors
in the outage exercise are a killed run followed by a run that fails; the pods of
the zone do not interact, so one is enough. What the proofs cover does not depend on
any bound. Symmetry (plays, tokens, revisions; runs of a probe script) is used in runs
of safety properties only.

**`scripts_all`.** The seven script modules have no variable in common, so `MCScripts`
puts them into one specification in which `group`, fixed at the start, names the one
that moves: the states are those of seven separate runs, one after the other. Bounds:

- probes: 2 runs of one of the three scripts, 2 subjects, 1 failed call or kill; a run
  that meets what another left, or that deletes what another made, needs no more. The
  threads of the application script are alike, so only the first one's boundary drifts.
- secrets: 2 consumers, 2 keys, 3 commits or edits: a contract that comes and goes
  with an edit in between. The edits exempt a set of requests that the script tries, one
  that it does not, or a consumer without a contract.
- policies: 2 namespaces, 2 applications, 2 ports, 2 edits of any kind.
- rollouts: 2 workloads, one of them the FluxInstance's, 2 upgrades: a second one
  while the first is read.
- databases: 3 databases in the stanza, so that two of version 18 occur; 3 mishaps.
- edge: both hosts, the connector new or not, 3 incidents: a change, a failure and a
  reboot; a lost notification and its consequences need all three.
- import: 2 imports, 8 of the 14 objects (one of each kind, all three classes), 2
  generations, 1 failure.

| Property | Says |
| --- | --- |
| `HonestPass`, `LeavesNothing` | a probe script's PASS is about boundaries in force while it ran; a run leaves no object unless a call failed |
| `PassMeansContracts`, `SettledIsApplied` | what a passed script shows of the policy, edited by hand or not; no order of arrival locks anybody out |
| `UntrustedIsConfined` | a passed check confines the application |
| `PassedRollouts` | a Deployment is passed over only after its rollout ended |
| `BackupsInBoth`, `IndexesAreRebuilt` | what the database checks print is so when they print it |
| `FilesSurviveReboot`, `PlaybookStopsNothing`, `SuccessIsLoaded` | what is validated before loading and what is not (WireGuard), and what a success of the playbook means after failed runs |
| `ClassesAreBacked`, `RerunsComplete`, `ImportedCredentials` | any prefix an import leaves can be completed, with whole credentials |

`CHECK_DEADLOCK FALSE` is set where the program really may stop: a bootstrap stuck in
`wait_for_nodes`, a zone whose gateway a killed exercise left at 0 replicas, and the
scripts, whose runs end.

### Fairness

- Nexus: every task, helper command and mirror step that can go on does (weak
  fairness: they are processes), and the operator keeps rerunning the play as
  `ansible/README.md:108-109` asks. Waiting for the lock needs strong fairness where
  a mirror may take it in between: the mirror runs every four hours, `flock --wait`
  waits ten minutes. Faults and changes are bounded, so they end.
- Bootstrap: nodes boot and join, commands return, and the operator reruns the script
  until the cluster is as the repository says. Nothing assumes that a node that is
  Ready becomes NotReady again, which alone would end the wait.
- Media zone: Flux reconciles every hour and retries, controllers keep creating pods,
  gateway containers restart. Operators and faults have no fairness.

The seven script modules state no fairness: their properties are about what a finished
run may say or leave, and a script that is killed simply stops.

`AppsComeBack` asks for a gateway that is not scaled to 0 for ever.
`RerunConverges` asks for an inventory that ends with the application enabled.

## Proofs

All obligations are discharged by SMT (Z3), Zenon and LS4. Assumptions are those the
modules name (`ConstantsAssumption`, `BootstrapAssumption`, `VpnAssumption`,
`ExerciseAssumption`, and one of that form in each script module): bounds are naturals, `None` and `Mirror` are no plays, there
is a node, no pod is both an application's and a job's, the target is an application, a gateway is an endpoint of the zone. Only the
workloads of `RolloutChecks` are assumed finite, since they are counted; no bound is small.

- **NexusRollout_proofs.** None of the invariants is inductive alone. `IInv` adds to
  types: the lock names the one helper or mirror that is at work and nothing is
  "verified" while a helper works (`LockNamesHolder`); in "up" and "verify" the
  services no longer to do were created with the installed environment
  (`ServicesBroughtUp`); a token the mirror holds is the installed one
  (`TokenIsInstalled`); scheduling comes after activation
  (`ScheduledAfterActivation`). From it follow mutual exclusion, consistency of a
  verified rollout (with overlapping plays: the helper reads the staged files only
  under the lock, and its own check compares what it installed), acceptance of the
  mirror's token, order of activation and schedule, stability under the mirror, and
  that every step is a step or a stutter of `MaintenanceWindow`. A second invariant,
  `Prepared`, is for plays that do not overlap: the connected play is the only one to
  check out, stage and build, so what its helper installs is its own release and the
  image of that release exists before the helper waits for the lock; while it builds,
  the environment it read is its own. An orphaned helper may install a later play's
  files and an orphaned build may send a later play's checkout: the two exceptions
  `TaggedAsBuilt` makes, and nothing else changes a tag otherwise.
  `Followed` carries the same play on to its end: which of its files are staged, then
  installed, at each task and helper step. What an orphan installed before the
  play's own helper is installed over by it; one that gets the lock later finds the
  play's files staged and can only install the same again. So a completed play has converged
  (`CompletedConverges`), and a rerun of the same inventory rewrites each file and
  container with what is there (`RerunsKeepConverged`).
- **Bootstrap_proofs.** `AppliedSoFar`: at each step of a run, what the run has gone
  through is current, whatever earlier runs left behind. Both action properties
  follow, since Flux is the last of the chain. `LoopItems` says that a loop's remaining
  items are its own; with `AppliedSoFar`, cilium is synced before anything that needs a
  Ready node, so nodes that have settled are Ready and `OnlyTheWaitHangs`.
- **MediaVpn_proofs.** `Staged`: applications exist only after policies and release,
  and each pod got its sidecar on creation. Egress then fails closed by cases of
  where the packet goes. `SettledRuns` follows from the guards: where none holds, pin,
  release and injector agree and the gateway is past its init container.
- **OutageExercise_proofs.** The script's steps are operator steps of the zone, so
  the zone's invariant carries over (`ExerciseFailsClosed`), and `Undoing` says, for
  each step of a run without failed calls, which of route, policy and replicas
  still differ from what the run found (`RunsUndo`). A replaced pod has no route.
  `Honest` is about runs whose calls may fail: past its "finally" the policy is gone
  and the route deleted whoever made them, since a failed or raised run does not get
  there, and only a tunnel of a scaled-up gateway answers the last check, so a pass is
  over a whole zone (`PassedIsWhole`).
- **ProbeJobs_proofs.** A run's good result is earned: with each object goes the run
  that made it, and an object that answers "good" while a run waits for it was made
  during that run or by a run that is still under way, so its boundary was in force
  since the run began. `NothingLeft` follows the one object a step can touch.
- **SecretContracts_proofs.** `RulesMeanContracts`: all validations together admit what
  a contract is for and nothing else but what an edit exempts. `CasesPinRules`: if a validation is missing, one
  of the script's requests gets through. `Evidence` carries this through the steps of a
  run in a calm cluster. `SettledApplied` needs that contracts and manifests of the
  repository go together (`Matching`) and that the reviewed policy admits each consumer
  with a contract (`ContractsAreAdmitted`); its premise is stated by the named guards
  of the actions, so no ENABLED occurs.
- **CheckScripts_proofs.** `UntrustedConfined` compares the script's reading of a rule
  with Cilium's. `RolloutInv` ties a fresh, full report to a rollout that has ended
  (`FullIsRolledOut`: one pod alive, one ready, the new image among them, hence the
  new one). `HistoryInv` says that 18 stays 18 in the stanza's history, so retention,
  which only removes what something newer replaces, never takes the last backup.
- **HostScripts_proofs.** `EdgeInv`: what a host has loaded differs from its disk only
  for a service that is notified or whose notification was lost; at each step of a play
  the files of earlier roles are the wanted ones, the handlers already run have loaded
  theirs, and what is reloaded next was validated, WireGuard's file excepted. `TunnelFirst`
  orders tunnel and proxy on the connector: from its own task on, a tunnel whose file is
  good is up, and once all tasks are done HAProxy is down only with the tunnel. `ImportInv`: pools whose import has
  gone past them are Ready, and each credential an import has gone past is whole, its
  own or a peer's; what it has not looked up yet is in no one's way.

Only model-checked: the three liveness properties, `RerunConverges`,
`ConvergesOrWaits` and `AppsComeBack`, which are about fairness and so out of the
prover's reach. What a finite behaviour can break of them is stated separately and
proved: `CompletedPlayConverges` and `RerunKeepsConverged`, `OnlyWaitHangs`,
`SettledZoneRuns`. Every other property of a passing run is a theorem. The three also
hold in larger instances than the runs use: `RerunConverges` with two
revisions (2.3 million states; two faults or two changes of the inventory are too many
states for liveness); `ConvergesOrWaits` with three faults; `AppsComeBack`
with three image versions and four faults.

## Not modelled, and why

- Talos configuration generation, OpenTofu, Helm values and policies of single
  applications: declarative input of other programs.
- The parts of the `check-*.py` scripts that compare rendered text, digests and
  Renovate's log with constants; `audit-volsync-openebs.sh`: they keep no state.
- VolSync: nothing in the repository orders restore, application and backup; what
  happens then is inside VolSync, restic and the storage driver.
- Flux's `dependsOn`, health checks and Helm remediation beyond the edges `MediaVpn`
  has; the migration's steps, which are prose for an operator.
- Notification scripts: stateless, one HTTP request.
- The Nexus host's play in `site.yml` beyond the role `nexus`; packages, directories,
  hostname and timezone of the edge hosts, except as tasks that may fail.
- The exposure checks after the probes, RBAC queries and Ready conditions: results
  that may be either.
- `check_env`, `check_cli` and the `talos` task of the bootstrap; package
  installation and directories of the Nexus role: no state the properties use.

## Plan

1. `EdgeHosts` with two playbooks at once, and templates that change during one.
2. `RolloutChecks` with Deployments of several pods.
3. `FluxOrder`: a dependency graph with `wait` and suspension, `MediaVpn`'s
   `DependenciesReady` as an instance of it, if the graph of the `ks.yaml` files turns
   out to hide more than the edges already modelled.
