---------------------------- MODULE NexusRollout ----------------------------
(***************************************************************************)
(* Rollout of the Nexus application on its host: the Ansible role          *)
(* ansible/roles/nexus/tasks/main.yml, the helper nexus-deploy it runs     *)
(* under flock (files/deploy.sh), and the cron job that runs the           *)
(* authenticated mirror under the same lock.                               *)
(*                                                                         *)
(* A play stages files, builds images and then waits for the lock; the     *)
(* helper installs the staged files, starts the services and verifies      *)
(* them, and every one of its commands may fail (set -euo pipefail).  The  *)
(* controller may be lost while the build or the helper runs on: it is     *)
(* then an orphan that still reads the checkout, or still holds or waits   *)
(* for the lock.  The modules of the other tasks are short and end with    *)
(* their play.  A reboot ends every process; files, container              *)
(* configurations and the cron entry stay.                                 *)
(* An operator named "...Mutant" is a wrong variant of the one after it.   *)
(***************************************************************************)
EXTENDS Naturals

CONSTANTS
    Plays,        \* identifiers of plays, reused once a play has ended
    Tokens,       \* admin bearer tokens
    Revisions,    \* pinned revisions of the application
    None,         \* absent file, container, image or lock holder
    Mirror,       \* the cron job, as a lock holder
    Overlap,      \* may a play start while another one is under way?
    MaxChanges,   \* bound: how often the inventory changes
    MaxFaults     \* bound: failures, time-outs, interruptions and reboots

Releases == [token : Tokens, revision : Revisions]

ASSUME ConstantsAssumption ==
    /\ None \notin Plays \cup Tokens \cup Revisions \cup Releases \cup {Mirror}
    /\ Mirror \notin Plays
    /\ Overlap \in BOOLEAN
    /\ MaxChanges \in Nat /\ MaxFaults \in Nat

VARIABLES
    inventory,    \* group_vars: token and revision, and nexus_app_enabled
    task,         \* task[p]: the role's task that play p runs next
    job,          \* job[p]: what play p was started with
    step,         \* step[p]: where p's image build or nexus-deploy is
    todo,         \* todo[p]: the services its "compose up" has yet to reach
    checkout,     \* revision in /opt/nexus/app
    image,        \* image[r]: source revision built under tag r
    staged,       \* files in /opt/nexus/.deploy
    installed,    \* the same files where services and mirror read them
    container,    \* container[s]: nexus.env service s was created with
    lock,         \* holder of /run/lock/nexus-grokmirror.lock
    cron,         \* is the mirror's cron entry present?
    mirror,       \* the mirror process
    outcome,      \* history: result of the last helper that took the lock
    activated,    \* history: has a helper ever passed its checks?
    changes, faults

plays   == <<task, job, step, todo>>
source  == <<checkout, image, staged>>
live    == <<installed, container>>
history == <<outcome, activated>>
bounds  == <<changes, faults>>
vars    == <<inventory, plays, source, live, lock, cron, mirror, history, bounds>>

Services  == {"server", "worker", "web"}
Files     == [env         : Releases \cup {None},
              maintenance : Tokens \cup {None},
              runner      : Revisions \cup {None}]
Preparing == {"checkout", "stage_env", "stage_maintenance", "stage_runner", "build"}
Tasks     == Preparing \cup {"idle", "rollout", "orphan", "schedule"}
Locked    == {"env", "maintenance", "runner", "db", "migrate", "up", "verify"}
Building  == {"building", "tagging"}
Steps     == Locked \cup Building \cup {"none", "waiting"}
Jobs      == [release : Releases, app : BOOLEAN, force : BOOLEAN, changed : BOOLEAN,
              env : Releases \cup {None}, context : Revisions \cup {None}]
NoFiles   == [env |-> None, maintenance |-> None, runner |-> None]
NoMirror  == [phase |-> "idle", token |-> None]

TypeOK ==
    /\ inventory \in [release : Releases, app : BOOLEAN]
    /\ task \in [Plays -> Tasks] /\ job \in [Plays -> Jobs]
    /\ step \in [Plays -> Steps] /\ todo \in [Plays -> SUBSET Services]
    /\ checkout \in Revisions \cup {None}
    /\ image \in [Revisions -> Revisions \cup {None}]
    /\ staged \in Files /\ installed \in Files
    /\ container \in [Services -> Releases \cup {None}]
    /\ lock \in Plays \cup {Mirror, None}
    /\ cron \in BOOLEAN
    /\ mirror \in [phase : {"idle", "started", "posting"}, token : Tokens \cup {None}]
    /\ outcome \in {"none", "unfinished", "database", "ok"}
    /\ activated \in BOOLEAN
    /\ changes \in Nat /\ faults \in Nat

(* A provisioned host on which the role has never run.                     *)
Init ==
    /\ inventory \in [release : Releases, app : BOOLEAN]
    /\ task = [p \in Plays |-> "idle"] /\ step = [p \in Plays |-> "none"]
    /\ job = [p \in Plays |-> [release |-> inventory.release, app |-> FALSE,
                               force |-> FALSE, changed |-> FALSE,
                               env |-> None, context |-> None]]
    /\ todo = [p \in Plays |-> {}]
    /\ checkout = None /\ image = [r \in Revisions |-> None]
    /\ staged = NoFiles /\ installed = NoFiles
    /\ container = [s \in Services |-> None]
    /\ lock = None /\ cron = FALSE /\ mirror = NoMirror
    /\ outcome = "none" /\ activated = FALSE
    /\ changes = 0 /\ faults = 0

-----------------------------------------------------------------------------
(* The operator and the tasks that run outside the lock.                   *)

ChangeInventory ==
    /\ changes < MaxChanges /\ changes' = changes + 1
    /\ inventory' \in [release : Releases, app : BOOLEAN]
    /\ UNCHANGED <<plays, source, live, lock, cron, mirror, history, faults>>

StartPlay(p, force) ==
    /\ task[p] = "idle"
    /\ Overlap \/ \A q \in Plays : task[q] \in {"idle", "orphan"}
    /\ task' = [task EXCEPT ![p] = "checkout"]
    /\ job' = [job EXCEPT ![p] = [release |-> inventory.release, app |-> inventory.app,
                                  force |-> force, changed |-> FALSE,
                                  env |-> None, context |-> None]]
    /\ UNCHANGED <<step, todo, source, cron>>

(* Mutant: git with "update: no" keeps an existing checkout.               *)
CheckedOutMutant(p) == IF checkout = None THEN job[p].release.revision ELSE checkout
CheckedOut(p) == job[p].release.revision

Checkout(p) ==
    /\ task[p] = "checkout"
    /\ checkout' = CheckedOut(p)
    /\ job' = [job EXCEPT ![p].changed = (checkout # checkout')]
    /\ task' = [task EXCEPT ![p] = "stage_env"]
    /\ UNCHANGED <<step, todo, image, staged, cron>>

Stage(p, at, next, files) ==
    /\ task[p] = at /\ task' = [task EXCEPT ![p] = next]
    /\ staged' = files
    /\ UNCHANGED <<job, step, todo, checkout, image, cron>>

StageEnv(p) == Stage(p, "stage_env", "stage_maintenance",
    [staged EXCEPT !.env = job[p].release])

StageMaintenance(p) == Stage(p, "stage_maintenance", "stage_runner",
    [staged EXCEPT !.maintenance = job[p].release.token])

(* The runner is copied from whatever revision is checked out now;         *)
(* grokmirror.conf, the same for every release, is staged along with it.   *)
StageRunner(p) == Stage(p, "stage_runner", "build",
    [staged EXCEPT !.runner = checkout])

MustBuild(p) ==
    job[p].changed \/ image[job[p].release.revision] = None \/ job[p].force

(* The play starts flock, which waits for the lock.                        *)
AwaitLock(p) ==
    /\ task' = [task EXCEPT ![p] = "rollout"]
    /\ step' = [step EXCEPT ![p] = "waiting"]

SkipBuild(p) ==
    /\ task[p] = "build" /\ step[p] = "none" /\ ~MustBuild(p)
    /\ AwaitLock(p)
    /\ UNCHANGED <<job, todo, checkout, image, staged, cron>>

(* docker compose build reads the staged nexus.env, then sends what is     *)
(* checked out to the builder, and gives the result the tag of that env.   *)
StartBuild(p) ==
    /\ task[p] = "build" /\ step[p] = "none" /\ MustBuild(p)
    /\ step' = [step EXCEPT ![p] = "building"]
    /\ job' = [job EXCEPT ![p].env = staged.env]
    /\ UNCHANGED <<task, todo, source, cron>>

SendContext(p) ==
    /\ step[p] = "building" /\ step' = [step EXCEPT ![p] = "tagging"]
    /\ job' = [job EXCEPT ![p].context = checkout]
    /\ UNCHANGED <<task, todo, source, cron>>

TagImage(p) ==
    /\ step[p] = "tagging"
    /\ image' = [image EXCEPT ![job[p].env.revision] = job[p].context]
    /\ IF task[p] = "build"
       THEN AwaitLock(p)
       ELSE task' = [task EXCEPT ![p] = "idle"] /\ step' = [step EXCEPT ![p] = "none"]
    /\ UNCHANGED <<job, todo, checkout, staged, cron>>

(* The last task of the role, after the rollout: the entry is present or   *)
(* absent.  Mutant: it is kept only by a play that checked something out.  *)
ScheduledMutant(p) == job[p].app /\ job[p].changed
Scheduled(p) == job[p].app

Schedule(p) ==
    /\ task[p] = "schedule" /\ task' = [task EXCEPT ![p] = "idle"]
    /\ cron' = Scheduled(p)
    /\ UNCHANGED <<job, step, todo, source>>

PlayStep(p) ==
    /\ \/ Checkout(p) \/ StageEnv(p) \/ StageMaintenance(p) \/ StageRunner(p)
       \/ SkipBuild(p) \/ StartBuild(p) \/ SendContext(p) \/ TagImage(p) \/ Schedule(p)
    /\ UNCHANGED <<inventory, live, lock, mirror, history, bounds>>

Operator(p) ==
    /\ \E force \in BOOLEAN : StartPlay(p, force)
    /\ UNCHANGED <<inventory, live, lock, mirror, history, bounds>>

-----------------------------------------------------------------------------
(* nexus-deploy, under the lock.                                           *)

(* Mutant: the command is run without flock.                               *)
FlockMutant(holder) == lock' = holder
Flock(holder) == lock = None /\ lock' = holder

AcquireLock(p) ==
    /\ step[p] = "waiting" /\ step' = [step EXCEPT ![p] = "env"]
    /\ Flock(p)
    /\ outcome' = "unfinished"
    /\ UNCHANGED <<inventory, task, job, todo, source, live, cron, mirror,
                   activated, bounds>>

(* Mutant: a file that exists is left alone.                               *)
ManagedMutant(old, new) == IF old = None THEN new ELSE old
Managed(old, new) == IF old = new THEN old ELSE new

Install(p, at, next, files) ==
    /\ step[p] = at /\ step' = [step EXCEPT ![p] = next]
    /\ installed' = files
    /\ UNCHANGED <<task, todo, image, container, lock, history>>

InstallEnv(p) == Install(p, "env", "maintenance",
    [installed EXCEPT !.env = Managed(@, staged.env)])

InstallMaintenance(p) == Install(p, "maintenance", "runner",
    [installed EXCEPT !.maintenance = Managed(@, staged.maintenance)])

InstallRunner(p) == Install(p, "runner", "db",
    [installed EXCEPT !.runner = Managed(@, staged.runner)])

(* Mutant: the rollout task ignores the helper's exit status.              *)
NextTaskMutant(p, success) == IF task[p] = "rollout" THEN "schedule" ELSE "idle"
NextTask(p, success) == IF task[p] = "rollout" /\ success THEN "schedule" ELSE "idle"

(* The helper is over: flock drops the lock, and a play still connected    *)
(* goes on to its next task or fails.                                      *)
EndHelper(p, success) ==
    /\ lock' = None
    /\ step' = [step EXCEPT ![p] = "none"]
    /\ todo' = [todo EXCEPT ![p] = {}]
    /\ task' = [task EXCEPT ![p] = NextTask(p, success)]

StartDatabase(p) ==
    /\ step[p] = "db"
    /\ IF job[p].app
       THEN step' = [step EXCEPT ![p] = "migrate"] /\ UNCHANGED <<task, todo, lock, outcome>>
       ELSE EndHelper(p, TRUE) /\ outcome' = "database"
    /\ UNCHANGED <<image, live, activated>>

(* The bare mainline repository exists and the migrations succeed.         *)
Migrate(p) ==
    /\ step[p] = "migrate" /\ step' = [step EXCEPT ![p] = "up"]
    /\ todo' = [todo EXCEPT ![p] = Services]
    /\ UNCHANGED <<task, image, live, lock, history>>

(* compose up reaches one service: a container whose configuration differs *)
(* is recreated from nexus.env; an image that is missing is built from the *)
(* checkout first.                                                         *)
Up(p, s) ==
    /\ step[p] = "up" /\ s \in todo[p]
    /\ container' = [container EXCEPT ![s] = installed.env]
    /\ image' = IF image[installed.env.revision] = None
                THEN [image EXCEPT ![installed.env.revision] = checkout]
                ELSE image
    /\ todo' = [todo EXCEPT ![p] = @ \ {s}]
    /\ step' = IF todo[p] = {s} THEN [step EXCEPT ![p] = "verify"] ELSE step
    /\ UNCHANGED <<task, installed, lock, history>>

(* The server accepts exactly the token it was created with.               *)
Serves(token) == container["server"] # None /\ container["server"].token = token

(* Mutant: only the public API is checked.                                 *)
ChecksPassMutant == container["server"] # None
ChecksPass == Serves(installed.maintenance)

Verify(p) ==
    /\ step[p] = "verify"
    /\ EndHelper(p, ChecksPass)
    /\ outcome' = IF ChecksPass THEN "ok" ELSE outcome
    /\ activated' = (activated \/ ChecksPass)
    /\ UNCHANGED <<image, live>>

DeployStep(p) ==
    /\ \/ InstallEnv(p) \/ InstallMaintenance(p) \/ InstallRunner(p)
       \/ StartDatabase(p) \/ Migrate(p) \/ (\E s \in Services : Up(p, s)) \/ Verify(p)
    /\ UNCHANGED <<inventory, job, checkout, staged, cron, mirror, bounds>>

-----------------------------------------------------------------------------
(* The cron job: flock -n skips a run while the lock is held.  The runner  *)
(* belongs to the application's repository; it reads /etc/default/nexus    *)
(* and posts to the webhook with the token found there.                    *)

MirrorStart ==
    /\ cron /\ mirror.phase = "idle"
    /\ Flock(Mirror)
    /\ mirror' = [mirror EXCEPT !.phase = "started"]

(* Mutant: the runner takes the application's environment for a token.     *)
TokenReadMutant == installed.env
TokenRead == installed.maintenance

MirrorReadToken ==
    /\ mirror.phase = "started"
    /\ mirror' = [phase |-> "posting", token |-> TokenRead]
    /\ UNCHANGED lock

MirrorFinish ==
    /\ mirror.phase = "posting"
    /\ lock' = None
    /\ mirror' = NoMirror

MirrorStep ==
    /\ MirrorStart \/ MirrorReadToken \/ MirrorFinish
    /\ UNCHANGED <<inventory, plays, source, live, cron, history, bounds>>

-----------------------------------------------------------------------------
(* Faults.                                                                 *)

(* A task outside the rollout fails, or the controller is lost during it,  *)
(* or an orphaned build fails.                                             *)
PlayFails(p) ==
    /\ task[p] \in Preparing \cup {"schedule"} \/ step[p] \in Building
    /\ task' = [task EXCEPT ![p] = "idle"] /\ step' = [step EXCEPT ![p] = "none"]
    /\ UNCHANGED <<todo, container, lock>>

(* The controller is lost while docker compose build, or flock and         *)
(* nexus-deploy, run on.                                                   *)
ControllerLost(p) ==
    /\ task[p] = "rollout" \/ (task[p] = "build" /\ step[p] \in Building)
    /\ task' = [task EXCEPT ![p] = "orphan"]
    /\ UNCHANGED <<step, todo, container, lock>>

(* flock --wait 600 gives up.                                              *)
LockTimeout(p) ==
    /\ step[p] = "waiting" /\ lock # None
    /\ step' = [step EXCEPT ![p] = "none"]
    /\ task' = [task EXCEPT ![p] = "idle"]
    /\ UNCHANGED <<todo, container, lock>>

(* A command of nexus-deploy fails; a failed compose up may have removed   *)
(* the container it was about to replace.                                  *)
DeployFails(p) ==
    /\ step[p] \in Locked
    /\ EndHelper(p, FALSE)
    /\ \/ UNCHANGED container
       \/ \E s \in todo[p] : container' = [container EXCEPT ![s] = None]

(* /run/lock is a tmpfs and a flock dies with its processes.               *)
Reboot ==
    /\ task' = [p \in Plays |-> "idle"] /\ step' = [p \in Plays |-> "none"]
    /\ todo' = [p \in Plays |-> {}]
    /\ lock' = None /\ mirror' = NoMirror
    /\ UNCHANGED container

FaultStep ==
    /\ faults < MaxFaults /\ faults' = faults + 1
    /\ \/ /\ \E p \in Plays :
                PlayFails(p) \/ ControllerLost(p) \/ LockTimeout(p) \/ DeployFails(p)
          /\ UNCHANGED mirror
       \/ Reboot
    /\ UNCHANGED <<inventory, job, source, installed, cron, history, changes>>

-----------------------------------------------------------------------------
Next ==
    \/ ChangeInventory
    \/ \E p \in Plays : Operator(p) \/ PlayStep(p) \/ AcquireLock(p) \/ DeployStep(p)
    \/ MirrorStep
    \/ FaultStep

Spec == Init /\ [][Next]_vars

(* flock serves its waiters, commands end, and the operator reruns a       *)
(* failed or outdated play, as ansible/README.md:108-109 tells him to.     *)
Fairness ==
    /\ \A p \in Plays : /\ WF_vars(PlayStep(p) \/ DeployStep(p))
                        /\ SF_vars(AcquireLock(p))
    /\ WF_vars(mirror.phase # "idle" /\ MirrorStep)
    /\ WF_vars(\E p \in Plays : Operator(p))

FairSpec == Spec /\ Fairness

-----------------------------------------------------------------------------
(* Properties.                                                             *)

(* The helper and the mirror never run together, nor do two helpers: not   *)
(* after a lost controller, a time-out, a failed command or a reboot       *)
(* (deploy.sh:4-5; the two flock command lines, main.yml:117-120 and 141). *)
MutualExclusion ==
    /\ \A p, q \in Plays : step[p] \in Locked /\ step[q] \in Locked => p = q
    /\ mirror.phase # "idle" => \A p \in Plays : step[p] \notin Locked

(* Once a rollout has passed its checks, and until the next one takes the  *)
(* lock, every service runs with the installed nexus.env and the server    *)
(* takes the token in /etc/default/nexus, even when several plays staged   *)
(* their files into the same directory at once (deploy.sh:20-50).          *)
VerifiedRolloutIsConsistent ==
    outcome = "ok" =>
        /\ \A s \in Services : container[s] # None /\ container[s] = installed.env
        /\ Serves(installed.maintenance)

(* A mirror run that follows a verified rollout posts a token which the    *)
(* server accepts: it cannot hold one from before that rollout.            *)
MirrorAuthenticates ==
    outcome = "ok" /\ mirror.phase = "posting" => Serves(mirror.token)

(* The cron entry, and so any mirror run, waits for a first rollout that   *)
(* started the application and passed its checks (main.yml:134-142).       *)
NoMirrorBeforeActivation ==
    cron \/ mirror.phase # "idle" => activated

(* With one play at a time, a tag changes only to an image built from the  *)
(* revision it names, whatever play failed between checkout and build, was *)
(* repeated or was lost.  The exceptions are the two commands that can     *)
(* outlive their play: a build that sent the checkout after a later play   *)
(* had moved it, and a helper that installed a later play's nexus.env and  *)
(* whose compose up then builds the missing image (main.yml:39-44, 105-112 *)
(* and 114-124, deploy.sh:38).                                             *)
Outlived(p) ==
    /\ task[p] = "orphan"
    /\ \/ step[p] = "tagging" /\ job[p].context # job[p].release.revision
       \/ step[p] = "up" /\ installed.env # job[p].release

TaggedAsBuilt ==
    [][\/ \A r \in Revisions : image'[r] \in {image[r], r}
       \/ \E p \in Plays : Outlived(p) /\ (step'[p] # step[p] \/ todo'[p] # todo[p])]_vars

(* Nothing a mirror run depends on changes under it: neither the installed *)
(* files nor the containers (deploy.sh:4-5).                               *)
StableUnderMirror ==
    [][mirror.phase # "idle" => UNCHANGED <<installed, container>>]_vars

(* What the inventory says: services, files and schedule.                  *)
FilesOf(release) ==
    [env |-> release, maintenance |-> release.token, runner |-> release.revision]

Converged ==
    /\ \A s \in Services : container[s] = inventory.release
    /\ installed = FilesOf(inventory.release)
    /\ cron

(* Rerunning the play converges (ansible/README.md:108-109): once faults   *)
(* and changes of the inventory are over, services, files and schedule are *)
(* what the inventory says and stay so while plays keep being run.         *)
RerunConverges == <>[]inventory.app => <>[]Converged

(* The two halves of it that a finite behaviour can break, for plays one   *)
(* after the other.  A play that gets to its end has converged, whatever   *)
(* earlier plays left staged, half installed or tagged, and although an    *)
(* orphaned helper may have run after its own: unless that one failed.     *)
CompletedPlayConverges ==
    [][\A p \in Plays :
         /\ task[p] = "schedule" /\ task'[p] = "idle" /\ UNCHANGED faults
         /\ outcome = "ok" /\ job[p].release = inventory.release /\ job[p].app
         => Converged']_vars

(* And plays of the same inventory disturb nothing, at no step, as long as *)
(* no orphan installs what is not theirs.                                  *)
OnlyReruns ==
    \A p \in Plays : task[p] # "idle" =>
        task[p] # "orphan" /\ job[p].release = inventory.release /\ job[p].app

RerunKeepsConverged ==
    [][Converged /\ inventory.app /\ OnlyReruns /\ UNCHANGED <<inventory, faults>>
         => Converged' /\ OnlyReruns']_vars

(* The role implements the maintenance window: the lock's holder is in it, *)
(* the server was created with the token it serves.                        *)
Window == INSTANCE MaintenanceWindow WITH
    holder   <- IF lock = None THEN "free" ELSE IF lock = Mirror THEN "mirror" ELSE "rollout",
    served   <- IF container["server"] = None THEN None ELSE container["server"].token,
    held     <- installed.maintenance,
    verified <- (outcome = "ok")

ImplementsWindow == Window!Spec

(* deploy.sh:4-5: "The scheduled mirror cannot read a new token while the  *)
(* old server still runs."                                                 *)
MirrorTokenIsServed ==
    mirror.phase = "posting" => Serves(mirror.token)

(* "checks out the revision pinned in group_vars/nexus_kb.yml [...] builds *)
(* revision-tagged images" (ansible/README.md:72-73): a tag names what the *)
(* image was built from.                                                   *)
ImagesHoldTheirRevision ==
    \A r \in Revisions : image[r] \in {None, r}

=============================================================================
