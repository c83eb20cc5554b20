------------------------ MODULE NexusRollout_proofs ------------------------
(***************************************************************************)
(* Proofs about NexusRollout, for every set of plays, tokens and           *)
(* revisions, with or without overlapping plays (tags and convergence need *)
(* plays that do not overlap), and for any number of faults and changes of *)
(* the inventory.                                                          *)
(***************************************************************************)
EXTENDS NexusRollout, TLAPS

-----------------------------------------------------------------------------
(* One lemma per kind of step: each keeps the variables in their types.    *)

LEMMA PlayStepType ==
    ASSUME TypeOK, NEW p \in Plays, PlayStep(p)
    PROVE  TypeOK'
<1> USE DEF TypeOK, Steps, Tasks, Preparing, Building
<1>0. /\ job[p].release \in Releases
      /\ job[p].release.token \in Tokens
      /\ job[p].release.revision \in Revisions
      /\ job[p].app \in BOOLEAN
    <2>1. job[p] \in Jobs
        OBVIOUS
    <2>2. QED
        BY <2>1 DEF Jobs, Releases
<1>1. CASE Checkout(p)
    <2>1. checkout' \in Revisions \cup {None}
        BY <1>0, <1>1 DEF Checkout, CheckedOut
    <2>2. job' \in [Plays -> Jobs]
        <3>1. ASSUME NEW b \in BOOLEAN
              PROVE  [job EXCEPT ![p].changed = b] \in [Plays -> Jobs]
            BY DEF Jobs
        <3>2. (checkout # checkout') \in BOOLEAN
            OBVIOUS
        <3>3. QED
            BY <1>1, <3>1, <3>2 DEF Checkout
    <2>3. task' \in [Plays -> Tasks]
        BY <1>1 DEF Checkout
    <2>4. QED
        BY <1>1, <2>1, <2>2, <2>3 DEF PlayStep, Checkout, live, history, bounds
<1>2. CASE StageEnv(p)
    <2>1. staged' \in Files
        BY <1>0, <1>2 DEF StageEnv, Stage, Files
    <2>2. QED
        BY <1>2, <2>1 DEF PlayStep, StageEnv, Stage, live, history, bounds
<1>3. CASE StageMaintenance(p)
    <2>1. staged' \in Files
        BY <1>0, <1>3 DEF StageMaintenance, Stage, Files
    <2>2. QED
        BY <1>3, <2>1 DEF PlayStep, StageMaintenance, Stage, live, history, bounds
<1>4. CASE StageRunner(p)
    BY <1>4 DEF PlayStep, StageRunner, Stage, Files, live, history, bounds
<1>5. CASE SkipBuild(p)
    BY <1>5 DEF PlayStep, SkipBuild, AwaitLock, live, history, bounds
<1>6. CASE StartBuild(p)
    <2>1. ASSUME NEW r \in Releases \cup {None}
          PROVE  [job EXCEPT ![p].env = r] \in [Plays -> Jobs]
        BY DEF Jobs
    <2>2. staged.env \in Releases \cup {None}
        BY DEF Files
    <2>3. job' \in [Plays -> Jobs]
        BY <1>6, <2>1, <2>2 DEF StartBuild
    <2>4. QED
        BY <1>6, <2>3 DEF PlayStep, StartBuild, source, live, history, bounds
<1>7. CASE SendContext(p)
    <2>1. ASSUME NEW r \in Revisions \cup {None}
          PROVE  [job EXCEPT ![p].context = r] \in [Plays -> Jobs]
        BY DEF Jobs
    <2>2. job' \in [Plays -> Jobs]
        BY <1>7, <2>1 DEF SendContext
    <2>3. QED
        BY <1>7, <2>2 DEF PlayStep, SendContext, source, live, history, bounds
<1>8. CASE TagImage(p)
    <2>1. image' \in [Revisions -> Revisions \cup {None}]
        <3>1. job[p].context \in Revisions \cup {None}
            BY DEF Jobs
        <3>2. QED
            BY <1>8, <3>1 DEF TagImage
    <2>2. task' \in [Plays -> Tasks] /\ step' \in [Plays -> Steps]
        BY <1>8 DEF TagImage, AwaitLock
    <2>3. QED
        BY <1>8, <2>1, <2>2 DEF PlayStep, TagImage, live, history, bounds
<1>9. CASE Schedule(p)
    <2>1. cron' \in BOOLEAN
        BY <1>0, <1>9 DEF Schedule, Scheduled
    <2>2. QED
        BY <1>9, <2>1 DEF PlayStep, Schedule, source, live, history, bounds
<1>10. QED
    BY <1>1, <1>2, <1>3, <1>4, <1>5, <1>6, <1>7, <1>8, <1>9 DEF PlayStep

LEMMA EndHelperType ==
    ASSUME TypeOK, NEW p \in Plays, NEW success \in BOOLEAN, EndHelper(p, success)
    PROVE  /\ task' \in [Plays -> Tasks]
           /\ step' \in [Plays -> Steps]
           /\ todo' \in [Plays -> SUBSET Services]
           /\ lock' = None
BY DEF TypeOK, EndHelper, NextTask, Tasks, Steps, Preparing

LEMMA DeployStepType ==
    ASSUME TypeOK, NEW p \in Plays, DeployStep(p)
    PROVE  TypeOK'
<1> USE DEF TypeOK
<1>1. CASE InstallEnv(p)
    BY <1>1 DEF DeployStep, InstallEnv, Install, Managed, Files, Steps, Locked, history, bounds
<1>2. CASE InstallMaintenance(p)
    BY <1>2 DEF DeployStep, InstallMaintenance, Install, Managed, Files, Steps, Locked,
                history, bounds
<1>3. CASE InstallRunner(p)
    BY <1>3 DEF DeployStep, InstallRunner, Install, Managed, Files, Steps, Locked, history, bounds
<1>4. CASE StartDatabase(p)
    <2>1. CASE job[p].app
        BY <1>4, <2>1 DEF DeployStep, StartDatabase, Steps, Locked, live, bounds
    <2>2. CASE ~job[p].app
        <3>1. EndHelper(p, TRUE) /\ outcome' = "database"
            BY <1>4, <2>2 DEF StartDatabase
        <3>2. QED
            BY <1>4, <3>1, EndHelperType DEF DeployStep, StartDatabase, live, bounds
    <2>3. QED
        BY <2>1, <2>2
<1>5. CASE Migrate(p)
    BY <1>5 DEF DeployStep, Migrate, Steps, Locked, live, history, bounds
<1>6. ASSUME NEW s \in Services, Up(p, s)
      PROVE  TypeOK'
    <2>1. container' \in [Services -> Releases \cup {None}]
        BY <1>6 DEF Up, Files
    <2>2. image' \in [Revisions -> Revisions \cup {None}]
        BY <1>6 DEF Up
    <2>3. todo' \in [Plays -> SUBSET Services] /\ step' \in [Plays -> Steps]
        BY <1>6 DEF Up, Steps, Locked
    <2>4. QED
        BY <1>6, <2>1, <2>2, <2>3 DEF DeployStep, Up, history, bounds
<1>7. CASE Verify(p)
    <2>1. ChecksPass \in BOOLEAN
        BY DEF ChecksPass, Serves
    <2>2. EndHelper(p, ChecksPass) /\ outcome' \in {"ok", outcome} /\ activated' \in BOOLEAN
        BY <1>7, <2>1 DEF Verify
    <2>3. QED
        BY <1>7, <2>1, <2>2, EndHelperType DEF DeployStep, Verify, live, bounds
<1>8. QED
    BY <1>1, <1>2, <1>3, <1>4, <1>5, <1>6, <1>7 DEF DeployStep

LEMMA FaultStepType ==
    ASSUME TypeOK, FaultStep
    PROVE  TypeOK'
<1> USE DEF TypeOK
<1>1. faults' \in Nat
    BY DEF FaultStep
<1>2. ASSUME NEW p \in Plays,
             PlayFails(p) \/ ControllerLost(p) \/ LockTimeout(p), UNCHANGED mirror
      PROVE  TypeOK'
    BY <1>1, <1>2 DEF FaultStep, PlayFails, ControllerLost, LockTimeout, Tasks, Steps,
                      Building, source, history
<1>3. ASSUME NEW p \in Plays, DeployFails(p), UNCHANGED mirror
      PROVE  TypeOK'
    <2>1. container' \in [Services -> Releases \cup {None}]
        BY <1>3 DEF DeployFails
    <2>2. QED
        BY <1>1, <1>3, <2>1, EndHelperType DEF FaultStep, DeployFails, source, history
<1>4. CASE Reboot
    BY <1>1, <1>4 DEF FaultStep, Reboot, Tasks, Steps, NoMirror, source, history
<1>5. QED
    BY <1>2, <1>3, <1>4 DEF FaultStep

(* Every variable keeps its type in every reachable state (the state of    *)
(* the role, deploy.sh and the cron job).                                  *)
THEOREM TypeCorrect == Spec => []TypeOK
<1>1. Init => TypeOK
    <2> SUFFICES ASSUME Init
                 PROVE  TypeOK
        OBVIOUS
    <2>1. inventory.release \in Releases
        BY DEF Init
    <2>2. job \in [Plays -> Jobs]
        BY <2>1 DEF Init, Jobs
    <2>3. staged \in Files /\ installed \in Files
        BY DEF Init, Files, NoFiles
    <2>4. QED
        BY <2>2, <2>3 DEF Init, TypeOK, Tasks, Steps, NoMirror
<1>2. TypeOK /\ [Next]_vars => TypeOK'
    <2> SUFFICES ASSUME TypeOK, [Next]_vars
                 PROVE  TypeOK'
        OBVIOUS
    <2>1. CASE ChangeInventory
        BY <2>1 DEF ChangeInventory, TypeOK, plays, source, live, history
    <2>2. ASSUME NEW p \in Plays, Operator(p)
          PROVE  TypeOK'
        <3>1. job' \in [Plays -> Jobs]
            BY <2>2 DEF Operator, StartPlay, TypeOK, Jobs
        <3>2. task' \in [Plays -> Tasks]
            BY <2>2 DEF Operator, StartPlay, TypeOK, Tasks, Preparing
        <3>3. QED
            BY <2>2, <3>1, <3>2 DEF Operator, StartPlay, TypeOK, source, live, history, bounds
    <2>3. ASSUME NEW p \in Plays, AcquireLock(p)
          PROVE  TypeOK'
        BY <2>3 DEF AcquireLock, Flock, TypeOK, Steps, Locked, source, live, bounds
    <2>4. CASE MirrorStep
        <3>1. CASE MirrorStart
            BY <2>4, <3>1 DEF MirrorStep, MirrorStart, Flock, TypeOK, plays, source, live,
                              history, bounds
        <3>2. CASE MirrorReadToken
            BY <2>4, <3>2 DEF MirrorStep, MirrorReadToken, TokenRead, TypeOK, Files, plays,
                              source, live, history, bounds
        <3>3. CASE MirrorFinish
            BY <2>4, <3>3 DEF MirrorStep, MirrorFinish, NoMirror, TypeOK, plays, source,
                              live, history, bounds
        <3>4. QED
            BY <2>4, <3>1, <3>2, <3>3 DEF MirrorStep
    <2>5. CASE UNCHANGED vars
        BY <2>5 DEF TypeOK, vars, plays, source, live, history, bounds
    <2>6. QED
        BY <2>1, <2>2, <2>3, <2>4, <2>5, PlayStepType, DeployStepType, FaultStepType
        DEF Next
<1>3. QED
    BY <1>1, <1>2, PTL DEF Spec

-----------------------------------------------------------------------------
(* The inductive invariant.  Mutual exclusion alone is not inductive: that *)
(* the lock names its holder makes it so.  That a verified rollout is      *)
(* consistent needs what "compose up" has achieved so far, and that no     *)
(* result stands while a helper holds the lock.                            *)

LockNamesHolder ==
    /\ \A p \in Plays : step[p] \in Locked => lock = p /\ outcome = "unfinished"
    /\ mirror.phase # "idle" => lock = Mirror

ServicesBroughtUp ==
    \A p \in Plays :
        /\ step[p] = "up" => \A s \in Services \ todo[p] : container[s] = installed.env
        /\ step[p] = "verify" => \A s \in Services : container[s] = installed.env

TokenIsInstalled == mirror.phase = "posting" => mirror.token = installed.maintenance

ScheduledAfterActivation ==
    /\ NoMirrorBeforeActivation
    /\ \A p \in Plays : task[p] = "schedule" /\ job[p].app => activated

IInv ==
    /\ LockNamesHolder
    /\ ServicesBroughtUp
    /\ VerifiedRolloutIsConsistent
    /\ TokenIsInstalled
    /\ ScheduledAfterActivation

(* While somebody holds the lock, every helper under it is that somebody.  *)
LEMMA OneHolder ==
    ASSUME TypeOK, LockNamesHolder, NEW p \in Plays, step[p] \in Locked
    PROVE  /\ lock = p /\ outcome = "unfinished"
           /\ mirror.phase = "idle"
           /\ \A q \in Plays : q # p => step[q] \notin Locked
BY ConstantsAssumption DEF LockNamesHolder

LEMMA FreeLock ==
    ASSUME TypeOK, LockNamesHolder, lock = None
    PROVE  mirror.phase = "idle" /\ \A q \in Plays : step[q] \notin Locked
BY ConstantsAssumption DEF LockNamesHolder

(* A helper that ends frees the lock and leaves no other helper under it.  *)
LEMMA EndHelperFrees ==
    ASSUME TypeOK, LockNamesHolder, NEW p \in Plays, step[p] \in Locked,
           NEW success \in BOOLEAN, EndHelper(p, success), UNCHANGED mirror
    PROVE  /\ LockNamesHolder'
           /\ \A q \in Plays : step'[q] \notin Locked
           /\ \A q \in Plays : task'[q] = "schedule" => task[q] = "schedule" \/ (q = p /\ success)
<1>1. \A q \in Plays : step'[q] = IF q = p THEN "none" ELSE step[q]
    BY DEF EndHelper, TypeOK
<1>2. \A q \in Plays : step'[q] \notin Locked
    BY <1>1, OneHolder DEF Locked
<1>3. mirror'.phase = "idle"
    BY OneHolder
<1>4. \A q \in Plays : task'[q] = IF q = p THEN NextTask(p, success) ELSE task[q]
    BY DEF EndHelper, TypeOK
<1>5. QED
    BY <1>2, <1>3, <1>4 DEF LockNamesHolder, NextTask

(* A play learns what it changed and builds, not what it was started with. *)
LEMMA PlayStepKeepsJob ==
    ASSUME TypeOK, NEW p \in Plays, PlayStep(p)
    PROVE  \A q \in Plays : job'[q].release = job[q].release /\ job'[q].app = job[q].app
<1>1. CASE Checkout(p)
    BY <1>1 DEF Checkout, TypeOK, Jobs
<1>2. CASE StartBuild(p)
    BY <1>2 DEF StartBuild, TypeOK, Jobs
<1>3. CASE SendContext(p)
    BY <1>3 DEF SendContext, TypeOK, Jobs
<1>4. CASE ~Checkout(p) /\ ~StartBuild(p) /\ ~SendContext(p)
    BY <1>4 DEF PlayStep, StageEnv, StageMaintenance, StageRunner, Stage, SkipBuild, TagImage,
                Schedule
<1>5. QED
    BY <1>1, <1>2, <1>3, <1>4

LEMMA PlayStepInv ==
    ASSUME TypeOK, IInv, NEW p \in Plays, PlayStep(p)
    PROVE  IInv'
<1> USE DEF IInv
<1>1. UNCHANGED <<installed, container, lock, mirror, outcome, activated, todo>>
    BY DEF PlayStep, live, history, source, Checkout, StageEnv, StageMaintenance, StageRunner,
           Stage, SkipBuild, StartBuild, SendContext, TagImage, AwaitLock, Schedule
<1>2. \A q \in Plays : step'[q] \in {step[q], "none", "waiting", "building", "tagging"}
    BY DEF PlayStep, TypeOK, Checkout, StageEnv, StageMaintenance, StageRunner, Stage,
           SkipBuild, StartBuild, SendContext, TagImage, AwaitLock, Schedule
<1>3. LockNamesHolder' /\ ServicesBroughtUp'
    BY <1>1, <1>2 DEF LockNamesHolder, ServicesBroughtUp, Locked
<1>4. VerifiedRolloutIsConsistent' /\ TokenIsInstalled'
    BY <1>1 DEF VerifiedRolloutIsConsistent, TokenIsInstalled, Serves
<1>5. ScheduledAfterActivation'
    <2>1. CASE Schedule(p)
        <3>1. cron' => activated
            BY <2>1 DEF Schedule, Scheduled, ScheduledAfterActivation
        <3>2. \A q \in Plays : task'[q] = "schedule" => task[q] = "schedule"
            BY <2>1 DEF Schedule, TypeOK
        <3>3. QED
            BY <1>1, <2>1, <3>1, <3>2
            DEF Schedule, Scheduled, ScheduledAfterActivation, NoMirrorBeforeActivation
    <2>2. CASE ~Schedule(p)
        <3>1. UNCHANGED cron
            BY <2>2 DEF PlayStep, Checkout, StageEnv, StageMaintenance, StageRunner, Stage,
                        SkipBuild, StartBuild, SendContext, TagImage, AwaitLock
        <3>2. \A q \in Plays : task'[q] = "schedule" => task[q] = "schedule"
            BY <2>2 DEF PlayStep, Checkout, StageEnv, StageMaintenance, StageRunner, Stage,
                        SkipBuild, StartBuild, SendContext, TagImage, AwaitLock, TypeOK
        <3>3. \A q \in Plays : job'[q].app = job[q].app
            BY PlayStepKeepsJob
        <3>4. QED
            BY <1>1, <3>1, <3>2, <3>3 DEF ScheduledAfterActivation, NoMirrorBeforeActivation
    <2>3. QED
        BY <2>1, <2>2
<1>6. QED
    BY <1>3, <1>4, <1>5

(* A step that leaves the helper's lock in place and brings no play to its *)
(* last task keeps the parts of the invariant it does not touch.           *)
LEMMA HelperStepInv ==
    ASSUME TypeOK, IInv, NEW p \in Plays, step[p] \in Locked,
           NEW next \in Locked, step' \in {step, [step EXCEPT ![p] = next]},
           UNCHANGED <<task, job, lock, cron, mirror, history>>
    PROVE  LockNamesHolder' /\ VerifiedRolloutIsConsistent' /\ ScheduledAfterActivation'
<1> USE DEF IInv
<1>1. \A q \in Plays : step'[q] \in Locked => step[q] \in Locked
    BY DEF TypeOK
<1>2. LockNamesHolder'
    BY <1>1 DEF LockNamesHolder, history
<1>3. outcome' # "ok"
    BY OneHolder DEF history
<1>4. QED
    BY <1>2, <1>3 DEF VerifiedRolloutIsConsistent, ScheduledAfterActivation,
                      NoMirrorBeforeActivation, history

LEMMA InstallInv ==
    ASSUME TypeOK, IInv, NEW p \in Plays, NEW at \in {"env", "maintenance", "runner"},
           NEW next \in {"maintenance", "runner", "db"}, NEW files \in Files,
           Install(p, at, next, files), UNCHANGED <<job, cron, mirror>>
    PROVE  IInv'
<1> USE DEF IInv
<1>1. step[p] \in Locked /\ next \in Locked
    BY DEF Install, Locked
<1>2. LockNamesHolder' /\ VerifiedRolloutIsConsistent' /\ ScheduledAfterActivation'
    BY <1>1, HelperStepInv DEF Install
<1>3. \A q \in Plays : step'[q] \notin {"up", "verify"}
    BY <1>1, OneHolder DEF Install, TypeOK, Locked
<1>4. mirror'.phase = "idle"
    BY <1>1, OneHolder
<1>5. QED
    BY <1>2, <1>3, <1>4 DEF ServicesBroughtUp, TokenIsInstalled

LEMMA DeployStepInv ==
    ASSUME TypeOK, TypeOK', IInv, NEW p \in Plays, DeployStep(p)
    PROVE  IInv'
<1> USE DEF IInv
<1>0. UNCHANGED <<job, cron, mirror>>
    BY DEF DeployStep
<1>1. CASE InstallEnv(p)
    BY <1>0, <1>1, InstallInv DEF InstallEnv, Install, TypeOK
<1>2. CASE InstallMaintenance(p)
    BY <1>0, <1>2, InstallInv DEF InstallMaintenance, Install, TypeOK
<1>3. CASE InstallRunner(p)
    BY <1>0, <1>3, InstallInv DEF InstallRunner, Install, TypeOK
<1>4. CASE StartDatabase(p)
    <2>0. step[p] \in Locked
        BY <1>4 DEF StartDatabase, Locked
    <2>1. CASE job[p].app
        <3>1. LockNamesHolder' /\ VerifiedRolloutIsConsistent' /\ ScheduledAfterActivation'
            BY <1>0, <1>4, <2>0, <2>1, HelperStepInv DEF StartDatabase, Locked, history, live
        <3>2. \A q \in Plays : step'[q] \notin {"up", "verify"}
            BY <1>4, <2>0, <2>1, OneHolder DEF StartDatabase, TypeOK, Locked
        <3>3. QED
            BY <1>0, <1>4, <3>1, <3>2
            DEF StartDatabase, ServicesBroughtUp, TokenIsInstalled, live
    <2>2. CASE ~job[p].app
        <3>1. EndHelper(p, TRUE) /\ outcome' = "database"
            BY <1>4, <2>2 DEF StartDatabase
        <3>2. /\ LockNamesHolder'
              /\ \A q \in Plays : step'[q] \notin Locked
              /\ \A q \in Plays : task'[q] = "schedule" => task[q] = "schedule" \/ q = p
            BY <1>0, <2>0, <3>1, EndHelperFrees
        <3>3. ServicesBroughtUp'
            BY <3>2 DEF ServicesBroughtUp, Locked
        <3>4. ScheduledAfterActivation'
            BY <1>0, <1>4, <2>2, <3>2
            DEF StartDatabase, ScheduledAfterActivation, NoMirrorBeforeActivation
        <3>5. QED
            BY <1>0, <1>4, <3>1, <3>2, <3>3, <3>4
            DEF StartDatabase, VerifiedRolloutIsConsistent, TokenIsInstalled, live
    <2>3. QED
        BY <2>1, <2>2
<1>5. CASE Migrate(p)
    <2>0. step[p] \in Locked
        BY <1>5 DEF Migrate, Locked
    <2>1. LockNamesHolder' /\ VerifiedRolloutIsConsistent' /\ ScheduledAfterActivation'
        BY <1>0, <1>5, <2>0, HelperStepInv DEF Migrate, Locked
    <2>2. \A q \in Plays : step'[q] \in {"up", "verify"} => q = p /\ step'[q] = "up"
        BY <1>5, <2>0, OneHolder DEF Migrate, TypeOK, Locked
    <2>3. todo'[p] = Services
        BY <1>5 DEF Migrate, TypeOK
    <2>4. QED
        BY <1>0, <1>5, <2>1, <2>2, <2>3
        DEF Migrate, ServicesBroughtUp, TokenIsInstalled, live
<1>6. ASSUME NEW s \in Services, Up(p, s)
      PROVE  IInv'
    <2>0. step[p] \in Locked /\ step[p] = "up"
        BY <1>6 DEF Up, Locked
    <2>1. LockNamesHolder' /\ VerifiedRolloutIsConsistent' /\ ScheduledAfterActivation'
        BY <1>0, <1>6, <2>0, HelperStepInv DEF Up, Locked
    <2>2. \A q \in Plays : step'[q] \in {"up", "verify"} => q = p
        BY <1>6, <2>0, OneHolder DEF Up, TypeOK, Locked
    <2>3. \A x \in Services \ todo'[p] : container'[x] = installed.env
        BY <1>6, <2>0 DEF Up, TypeOK, ServicesBroughtUp
    <2>4. step'[p] = "verify" => todo'[p] = {}
        BY <1>6, <2>0 DEF Up, TypeOK
    <2>5. ServicesBroughtUp'
        BY <1>6, <2>2, <2>3, <2>4 DEF ServicesBroughtUp, Up
    <2>6. QED
        BY <1>0, <1>6, <2>1, <2>5 DEF Up, TokenIsInstalled
<1>7. CASE Verify(p)
    <2>0. step[p] \in Locked /\ step[p] = "verify" /\ ChecksPass \in BOOLEAN
        BY <1>7 DEF Verify, Locked, ChecksPass, Serves
    <2>1. EndHelper(p, ChecksPass)
        BY <1>7 DEF Verify
    <2>2. /\ LockNamesHolder'
          /\ \A q \in Plays : step'[q] \notin Locked
          /\ \A q \in Plays : task'[q] = "schedule"
                                => task[q] = "schedule" \/ (q = p /\ ChecksPass)
        BY <1>0, <2>0, <2>1, EndHelperFrees
    <2>3. ServicesBroughtUp'
        BY <2>2 DEF ServicesBroughtUp, Locked
    <2>4. ScheduledAfterActivation'
        BY <1>0, <1>7, <2>0, <2>2
        DEF Verify, ScheduledAfterActivation, NoMirrorBeforeActivation
    <2>5. outcome' = "ok" => ChecksPass
        BY <1>7, <2>0, OneHolder DEF Verify
    <2>6. VerifiedRolloutIsConsistent'
        BY <1>7, <2>0, <2>5
        DEF Verify, live, ServicesBroughtUp, VerifiedRolloutIsConsistent, ChecksPass, Serves,
            Services
    <2>7. QED
        BY <1>0, <1>7, <2>2, <2>3, <2>4, <2>6 DEF Verify, live, TokenIsInstalled
<1>8. QED
    BY <1>1, <1>2, <1>3, <1>4, <1>5, <1>6, <1>7 DEF DeployStep

LEMMA AcquireLockInv ==
    ASSUME TypeOK, IInv, NEW p \in Plays, AcquireLock(p)
    PROVE  IInv'
<1> USE DEF IInv
<1>1. lock = None /\ lock' = p /\ outcome' = "unfinished" /\ UNCHANGED mirror
    BY DEF AcquireLock, Flock
<1>2. mirror.phase = "idle" /\ \A q \in Plays : step[q] \notin Locked
    BY <1>1, FreeLock
<1>3. \A q \in Plays : step'[q] \in Locked => q = p /\ step'[q] = "env"
    BY <1>2 DEF AcquireLock, TypeOK
<1>4. LockNamesHolder' /\ ServicesBroughtUp'
    BY <1>1, <1>2, <1>3 DEF LockNamesHolder, ServicesBroughtUp, Locked
<1>5. QED
    BY <1>1, <1>2, <1>4
    DEF AcquireLock, VerifiedRolloutIsConsistent, TokenIsInstalled,
        ScheduledAfterActivation, NoMirrorBeforeActivation

LEMMA MirrorStepInv ==
    ASSUME TypeOK, IInv, MirrorStep
    PROVE  IInv'
<1> USE DEF IInv
<1>1. UNCHANGED <<task, job, step, todo, installed, container, cron, outcome, activated>>
    BY DEF MirrorStep, plays, live, history
<1>2. LockNamesHolder'
    <2>1. CASE MirrorStart
        BY <1>1, <2>1, FreeLock DEF MirrorStart, Flock, LockNamesHolder, TypeOK
    <2>2. CASE MirrorReadToken
        BY <1>1, <2>2 DEF MirrorReadToken, LockNamesHolder
    <2>3. CASE MirrorFinish
        <3>1. \A q \in Plays : step[q] \notin Locked
            BY <2>3, ConstantsAssumption DEF MirrorFinish, LockNamesHolder
        <3>2. QED
            BY <1>1, <2>3, <3>1 DEF MirrorFinish, NoMirror, LockNamesHolder
    <2>4. QED
        BY <2>1, <2>2, <2>3 DEF MirrorStep
<1>3. TokenIsInstalled'
    BY <1>1 DEF MirrorStep, MirrorStart, MirrorReadToken, MirrorFinish, NoMirror, TokenRead,
                TokenIsInstalled, TypeOK
<1>4. ScheduledAfterActivation'
    BY <1>1 DEF MirrorStep, MirrorStart, MirrorReadToken, MirrorFinish, NoMirror, TypeOK,
                ScheduledAfterActivation, NoMirrorBeforeActivation
<1>5. QED
    BY <1>1, <1>2, <1>3, <1>4
    DEF ServicesBroughtUp, VerifiedRolloutIsConsistent, Serves

LEMMA FaultStepInv ==
    ASSUME TypeOK, IInv, FaultStep
    PROVE  IInv'
<1> USE DEF IInv
<1>1. UNCHANGED <<job, installed, cron, outcome, activated>>
    BY DEF FaultStep, history
<1>2. ASSUME NEW p \in Plays,
             PlayFails(p) \/ ControllerLost(p) \/ LockTimeout(p), UNCHANGED mirror
      PROVE  IInv'
    <2>1. UNCHANGED <<todo, container, lock>>
        BY <1>2 DEF PlayFails, ControllerLost, LockTimeout
    <2>2. \A q \in Plays : /\ step'[q] \in {step[q], "none"}
                           /\ task'[q] = "schedule" => task[q] = "schedule"
        BY <1>2 DEF PlayFails, ControllerLost, LockTimeout, TypeOK
    <2>3. LockNamesHolder' /\ ServicesBroughtUp'
        BY <1>1, <1>2, <2>1, <2>2 DEF LockNamesHolder, ServicesBroughtUp, Locked
    <2>4. QED
        BY <1>1, <1>2, <2>1, <2>2, <2>3
        DEF VerifiedRolloutIsConsistent, TokenIsInstalled, ScheduledAfterActivation,
            NoMirrorBeforeActivation, Serves
<1>3. ASSUME NEW p \in Plays, DeployFails(p), UNCHANGED mirror
      PROVE  IInv'
    <2>1. step[p] \in Locked /\ EndHelper(p, FALSE)
        BY <1>3 DEF DeployFails
    <2>2. /\ LockNamesHolder'
          /\ \A q \in Plays : step'[q] \notin Locked
          /\ \A q \in Plays : task'[q] = "schedule" => task[q] = "schedule"
        BY <1>3, <2>1, EndHelperFrees
    <2>3. outcome' # "ok"
        BY <1>1, <2>1, OneHolder
    <2>4. QED
        BY <1>1, <1>3, <2>2, <2>3
        DEF ServicesBroughtUp, VerifiedRolloutIsConsistent, TokenIsInstalled, Locked,
            ScheduledAfterActivation, NoMirrorBeforeActivation
<1>4. CASE Reboot
    <2>1. \A q \in Plays : step'[q] = "none" /\ task'[q] = "idle"
        BY <1>4 DEF Reboot
    <2>2. mirror'.phase = "idle" /\ UNCHANGED container
        BY <1>4 DEF Reboot, NoMirror
    <2>3. QED
        BY <1>1, <2>1, <2>2
        DEF LockNamesHolder, ServicesBroughtUp, VerifiedRolloutIsConsistent, TokenIsInstalled,
            Locked, ScheduledAfterActivation, NoMirrorBeforeActivation, Serves
<1>5. QED
    BY <1>2, <1>3, <1>4 DEF FaultStep

LEMMA InvariantInductive == TypeOK /\ TypeOK' /\ IInv /\ [Next]_vars => IInv'
<1> SUFFICES ASSUME TypeOK, TypeOK', IInv, [Next]_vars
             PROVE  IInv'
    OBVIOUS
<1> USE DEF IInv
<1>1. CASE ChangeInventory
    BY <1>1 DEF ChangeInventory, plays, live, history, LockNamesHolder, ServicesBroughtUp,
                VerifiedRolloutIsConsistent, TokenIsInstalled, ScheduledAfterActivation,
                NoMirrorBeforeActivation, Serves
<1>2. ASSUME NEW p \in Plays, Operator(p)
      PROVE  IInv'
    <2>1. UNCHANGED <<step, todo, installed, container, lock, cron, mirror, outcome, activated>>
        BY <1>2 DEF Operator, StartPlay, live, history
    <2>2. \A q \in Plays : task'[q] = "schedule" => task[q] = "schedule" /\ job'[q] = job[q]
        BY <1>2 DEF Operator, StartPlay, TypeOK
    <2>3. QED
        BY <2>1, <2>2
        DEF LockNamesHolder, ServicesBroughtUp, VerifiedRolloutIsConsistent, TokenIsInstalled,
            ScheduledAfterActivation, NoMirrorBeforeActivation, Serves
<1>3. CASE UNCHANGED vars
    BY <1>3 DEF vars, plays, live, history, LockNamesHolder, ServicesBroughtUp,
                VerifiedRolloutIsConsistent, TokenIsInstalled, ScheduledAfterActivation,
                NoMirrorBeforeActivation, Serves
<1>4. QED
    BY <1>1, <1>2, <1>3, PlayStepInv, AcquireLockInv, DeployStepInv, MirrorStepInv,
       FaultStepInv DEF Next

LEMMA Invariant == Spec => []IInv
<1>1. Init => IInv
    BY ConstantsAssumption
    DEF Init, IInv, LockNamesHolder, ServicesBroughtUp, VerifiedRolloutIsConsistent,
        TokenIsInstalled, ScheduledAfterActivation, NoMirrorBeforeActivation, Locked, NoMirror
<1>2. QED
    BY <1>1, InvariantInductive, TypeCorrect, PTL DEF Spec

-----------------------------------------------------------------------------
(* The safety properties of NexusRollout, from the invariant.              *)

(* deploy.sh and the mirror exclude each other, and so do two helpers: the *)
(* lock names its holder (deploy.sh:4-5, main.yml:117-120 and 141).        *)
THEOREM RolloutExcludesMirror == Spec => []MutualExclusion
<1>1. TypeOK /\ IInv => MutualExclusion
    BY OneHolder DEF IInv, MutualExclusion
<1>2. QED
    BY <1>1, TypeCorrect, Invariant, PTL

(* A rollout that passed its checks left services and credentials that     *)
(* agree, however many plays staged their files at once (deploy.sh:20-50). *)
THEOREM VerifiedConsistent == Spec => []VerifiedRolloutIsConsistent
BY Invariant, PTL DEF IInv

(* After a verified rollout the mirror's token is the server's: the token  *)
(* read under the lock cannot become stale under it.                       *)
THEOREM MirrorIsAccepted == Spec => []MirrorAuthenticates
<1>1. IInv => MirrorAuthenticates
    BY DEF IInv, VerifiedRolloutIsConsistent, TokenIsInstalled, MirrorAuthenticates
<1>2. QED
    BY <1>1, Invariant, PTL

(* No mirror is scheduled or runs before a first verified activation       *)
(* (main.yml:134-142).                                                     *)
THEOREM ActivationBeforeMirror == Spec => []NoMirrorBeforeActivation
<1>1. IInv => NoMirrorBeforeActivation
    BY DEF IInv, ScheduledAfterActivation
<1>2. QED
    BY <1>1, Invariant, PTL

(* Only a helper under the lock changes the installed files or containers. *)
LEMMA OnlyHelperReconfigures ==
    ASSUME TypeOK, [Next]_vars, <<installed, container>>' # <<installed, container>>
    PROVE  \E p \in Plays : step[p] \in Locked
<1>1. ~ChangeInventory /\ ~MirrorStep /\ ~UNCHANGED vars
    BY DEF ChangeInventory, MirrorStep, vars, live
<1>2. \A p \in Plays : ~Operator(p) /\ ~PlayStep(p) /\ ~AcquireLock(p)
    BY DEF Operator, PlayStep, AcquireLock, live
<1>3. ASSUME NEW p \in Plays, DeployStep(p)
      PROVE  step[p] \in Locked
    BY <1>3 DEF DeployStep, InstallEnv, InstallMaintenance, InstallRunner, Install,
                StartDatabase, Migrate, Up, Verify, Locked
<1>4. CASE FaultStep
    BY <1>4 DEF FaultStep, PlayFails, ControllerLost, LockTimeout, DeployFails, Reboot
<1>5. QED
    BY <1>1, <1>2, <1>3, <1>4 DEF Next

(* No installed file and no container changes under a mirror run.          *)
THEOREM NothingMovesUnderMirror == Spec => StableUnderMirror
<1>1. TypeOK /\ IInv /\ [Next]_vars
      => [mirror.phase # "idle" => UNCHANGED <<installed, container>>]_vars
    BY OnlyHelperReconfigures, OneHolder DEF IInv
<1>2. QED
    BY <1>1, TypeCorrect, Invariant, PTL DEF Spec, StableUnderMirror

-----------------------------------------------------------------------------
(* Tags, when plays do not overlap.  A play that is connected is the only  *)
(* one to check out, stage and start builds; what it staged is still there *)
(* when its helper installs it, and the image its release names exists by  *)
(* then.  A build has its own play's tag, and until that play is lost its  *)
(* own play's checkout.                                                    *)

Connected(p) == task[p] \notin {"idle", "orphan"}

OneAtATime == \A p, q \in Plays : Connected(p) /\ Connected(q) => p = q

Underway(p) ==
    /\ step[p] \in Building => /\ task[p] \in {"build", "orphan"}
                               /\ job[p].env = job[p].release /\ checkout # None
    /\ step[p] = "tagging" => job[p].context # None
    /\ step[p] = "tagging" /\ task[p] = "build" => job[p].context = job[p].release.revision
    /\ step[p] \notin Building \cup {"none"} => /\ task[p] \in {"rollout", "orphan"}
                                              /\ image[job[p].release.revision] # None
    /\ task[p] \in {"stage_env", "stage_maintenance", "stage_runner", "build"}
           => checkout = job[p].release.revision
    /\ task[p] \in {"stage_maintenance", "stage_runner", "build", "rollout"}
           => staged.env = job[p].release
    /\ task[p] = "rollout" /\ step[p] \in Locked \ {"env"}
           => installed.env = job[p].release

Prepared == OneAtATime /\ \A p \in Plays : Underway(p)

LEMMA PreparedStarts == Init => Prepared
BY DEF Init, Prepared, OneAtATime, Underway, Connected, Locked, Building

(* What a release names is a revision, and a revision is not None.         *)
LEMMA ReleaseTypes ==
    ASSUME TypeOK, NEW p \in Plays
    PROVE  /\ job[p].release \in Releases
           /\ job[p].release.revision \in Revisions
           /\ job[p].release.revision # None
           /\ job[p].release # None
<1>1. job[p] \in Jobs
    BY DEF TypeOK
<1>2. job[p].release \in Releases
    BY <1>1 DEF Jobs
<1>3. QED
    BY <1>2, ConstantsAssumption DEF Releases

(* Another play that is connected, or has a helper, is not disturbed by a  *)
(* step of p that leaves its files, its image and itself alone.            *)
LEMMA OperatorPrepares ==
    ASSUME ~Overlap, TypeOK, Prepared, NEW p \in Plays, Operator(p)
    PROVE  Prepared'
<1>1. /\ task[p] = "idle" /\ task' = [task EXCEPT ![p] = "checkout"]
      /\ \A q \in Plays : task[q] \in {"idle", "orphan"}
      /\ UNCHANGED <<step, checkout, image, staged, installed>>
      /\ \A q \in Plays : q # p => job'[q] = job[q]
    BY DEF Operator, StartPlay, source, live, TypeOK
<1>2. step[p] = "none"
    BY <1>1 DEF Prepared, Underway, Building
<1>3. OneAtATime'
    BY <1>1 DEF OneAtATime, Connected, TypeOK
<1>4. ASSUME NEW q \in Plays PROVE Underway(q)'
    <2>1. CASE q = p
        BY <1>1, <1>2, <2>1 DEF Underway, TypeOK, Locked, Building
    <2>2. CASE q # p
        BY <1>1, <2>2 DEF Prepared, Underway, TypeOK
    <2>3. QED
        BY <2>1, <2>2
<1>5. QED
    BY <1>3, <1>4 DEF Prepared

(* The tasks of a connected play up to its build, and its last one.        *)
LEMMA TaskPrepares ==
    ASSUME TypeOK, Prepared, NEW p \in Plays, PlayStep(p), ~SendContext(p), ~TagImage(p)
    PROVE  Prepared' /\ image' = image
<1>0. /\ image' = image
      /\ task[p] \in {"checkout", "stage_env", "stage_maintenance", "stage_runner", "build",
                      "schedule"}
    BY DEF PlayStep, Checkout, StageEnv, StageMaintenance, StageRunner, Stage, SkipBuild,
           StartBuild, Schedule, source
<1>1. Connected(p) /\ \A q \in Plays : q # p => ~Connected(q)
    BY <1>0 DEF Prepared, OneAtATime, Connected
<1>2. step[p] = "none"
    BY <1>0 DEF Prepared, Underway, Building, PlayStep, Checkout, StageEnv, StageMaintenance,
                StageRunner, Stage, SkipBuild, StartBuild, Schedule
<1>3. /\ UNCHANGED installed
      /\ \A q \in Plays : q # p => task'[q] = task[q] /\ step'[q] = step[q] /\ job'[q] = job[q]
      /\ checkout' = checkout \/ checkout' # None
    BY ReleaseTypes DEF PlayStep, live, source, CheckedOut, Checkout, StageEnv, StageMaintenance, StageRunner, Stage, SkipBuild,
           StartBuild, AwaitLock, Schedule, TypeOK
<1>4. job'[p].release = job[p].release
    BY PlayStepKeepsJob
<1>5. OneAtATime'
    BY <1>1, <1>3 DEF OneAtATime, Connected
<1>6. ASSUME NEW q \in Plays, q # p PROVE Underway(q)'
    BY <1>0, <1>1, <1>3, <1>6 DEF Prepared, Underway, Connected
<1>7. Underway(p)'
    <2>1. CASE Checkout(p)
        BY <1>2, <1>4, <2>1 DEF Checkout, CheckedOut, Underway, TypeOK, Locked, Building
    <2>2. CASE StageEnv(p)
        <3>1. staged'.env = job[p].release
            BY <2>2 DEF StageEnv, Stage, TypeOK, Files
        <3>2. QED
            BY <1>2, <2>2, <3>1
            DEF StageEnv, Stage, Prepared, Underway, TypeOK, Locked, Building
    <2>3. CASE StageMaintenance(p)
        <3>1. staged'.env = staged.env
            BY <2>3 DEF StageMaintenance, Stage, TypeOK, Files
        <3>2. QED
            BY <1>2, <2>3, <3>1
            DEF StageMaintenance, Stage, Prepared, Underway, TypeOK, Locked, Building
    <2>4. CASE StageRunner(p)
        <3>1. staged'.env = staged.env
            BY <2>4 DEF StageRunner, Stage, TypeOK, Files
        <3>2. QED
            BY <1>2, <2>4, <3>1
            DEF StageRunner, Stage, Prepared, Underway, TypeOK, Locked, Building
    <2>5. CASE SkipBuild(p)
        BY <2>5 DEF SkipBuild, AwaitLock, MustBuild, Prepared, Underway, TypeOK, Locked,
                    Building
    <2>6. CASE StartBuild(p)
        <3>1. job'[p].env = job[p].release /\ task'[p] = "build" /\ step'[p] = "building"
            BY <2>6 DEF StartBuild, Prepared, Underway, TypeOK, Jobs
        <3>2. QED
            BY <1>4, <2>6, <3>1, ReleaseTypes
            DEF StartBuild, Prepared, Underway, TypeOK, Locked, Building, source
    <2>7. CASE Schedule(p)
        BY <1>2, <2>7 DEF Schedule, Underway, TypeOK, Locked, Building
    <2>8. QED
        BY <2>1, <2>2, <2>3, <2>4, <2>5, <2>6, <2>7 DEF PlayStep
<1>8. QED
    BY <1>0, <1>5, <1>6, <1>7 DEF Prepared

(* The build of a play, connected or lost: its tag is the play's, and what *)
(* it is given that tag is the play's revision unless the play was lost.   *)
LEMMA BuildPrepares ==
    ASSUME TypeOK, Prepared, NEW p \in Plays, PlayStep(p), SendContext(p) \/ TagImage(p)
    PROVE  /\ Prepared'
           /\ \/ \A r \in Revisions : image'[r] \in {image[r], r}
              \/ Outlived(p) /\ step'[p] # step[p]
<1>1. /\ step[p] \in Building /\ UNCHANGED <<checkout, staged, installed>>
      /\ \A q \in Plays : q # p => task'[q] = task[q] /\ step'[q] = step[q] /\ job'[q] = job[q]
      /\ step'[p] # step[p]
    BY DEF SendContext, TagImage, AwaitLock, Building, PlayStep, live, source, TypeOK
<1>2. /\ task[p] \in {"build", "orphan"} /\ job[p].env = job[p].release
      /\ task[p] = "build" => checkout = job[p].release.revision
    BY <1>1 DEF Prepared, Underway
<1>3. job'[p].release = job[p].release
    BY PlayStepKeepsJob
<1>4. CASE SendContext(p)
    <2>1. /\ task' = task /\ image' = image /\ step'[p] = "tagging"
          /\ job'[p].context = checkout /\ job'[p].env = job[p].env
        BY <1>4 DEF SendContext, source, TypeOK, Jobs
    <2>2. OneAtATime'
        BY <2>1 DEF Prepared, OneAtATime, Connected
    <2>3. ASSUME NEW q \in Plays, q # p PROVE Underway(q)'
        BY <1>1, <2>1, <2>3 DEF Prepared, Underway
    <2>4. Underway(p)'
        BY <1>1, <1>2, <1>3, <2>1 DEF Prepared, Underway, Building, Locked
    <2>5. QED
        BY <2>1, <2>2, <2>3, <2>4 DEF Prepared
<1>5. CASE TagImage(p)
    <2>1. /\ step[p] = "tagging" /\ job' = job
          /\ image' = [image EXCEPT ![job[p].release.revision] = job[p].context]
        BY <1>2, <1>5 DEF TagImage
    <2>2. /\ task[p] = "build" => /\ job[p].context = job[p].release.revision
                                  /\ task'[p] = "rollout" /\ step'[p] = "waiting"
          /\ task[p] = "orphan" => task'[p] = "idle" /\ step'[p] = "none"
        BY <1>5, <2>1 DEF TagImage, AwaitLock, Prepared, Underway, TypeOK
    <2>3. \A r \in Revisions : image[r] # None => image'[r] # None
        BY <2>1 DEF Prepared, Underway, TypeOK
    <2>4. OneAtATime'
        BY <1>1, <1>2, <2>2 DEF Prepared, OneAtATime, Connected
    <2>5. ASSUME NEW q \in Plays, q # p PROVE Underway(q)'
        <3>1. job[q].release.revision \in Revisions
            BY ReleaseTypes
        <3>2. QED
            BY <1>1, <2>1, <2>3, <2>5, <3>1 DEF Prepared, Underway
    <2>6. Underway(p)'
        <3>1. task[p] = "build" => image'[job[p].release.revision] # None
            BY <2>1, <2>2, ReleaseTypes DEF TypeOK
        <3>2. QED
            BY <1>1, <1>2, <2>1, <2>2, <3>1 DEF Prepared, Underway, Building, Locked
    <2>7. \/ \A r \in Revisions : image'[r] \in {image[r], r}
          \/ task[p] = "orphan" /\ job[p].context # job[p].release.revision
        BY <1>2, <2>1, <2>2 DEF TypeOK
    <2>8. QED
        BY <1>1, <2>1, <2>4, <2>5, <2>6, <2>7 DEF Prepared, Outlived
<1>6. QED
    BY <1>4, <1>5

(* A step that only ends plays or helpers, or moves one from connected to  *)
(* orphan, keeps Prepared.                                                 *)
LEMMA EndingPrepares ==
    ASSUME TypeOK, Prepared,
           UNCHANGED <<checkout, image, staged, installed>>,
           \A q \in Plays : job'[q] = job[q],
           \A q \in Plays :
               \/ task'[q] = task[q] /\ step'[q] \in {step[q], "none"}
               \/ task'[q] \in {"idle", "schedule"} /\ step'[q] = "none"
                  /\ (task'[q] = "schedule" => Connected(q))
               \/ /\ task[q] \in {"rollout", "build"} /\ task'[q] = "orphan"
                  /\ step'[q] = step[q]
    PROVE  Prepared'
<1>1. OneAtATime'
    BY DEF Prepared, OneAtATime, Connected
<1>2. ASSUME NEW q \in Plays PROVE Underway(q)'
    BY DEF Prepared, Underway, Locked, Building
<1>3. QED
    BY <1>1, <1>2 DEF Prepared

LEMMA EndHelperPrepares ==
    ASSUME TypeOK, Prepared, NEW p \in Plays, step[p] \in Locked,
           NEW success \in BOOLEAN, EndHelper(p, success),
           UNCHANGED <<job, checkout, image, staged, installed>>
    PROVE  Prepared'
<1>1. \A q \in Plays : q # p => task'[q] = task[q] /\ step'[q] = step[q]
    BY DEF EndHelper, TypeOK
<1>2. /\ step'[p] = "none" /\ task'[p] \in {"idle", "schedule"}
      /\ task'[p] = "schedule" => task[p] = "rollout"
    BY DEF EndHelper, NextTask, TypeOK
<1>3. QED
    BY <1>1, <1>2, EndingPrepares DEF Connected

(* The helper p alone is under the lock; it neither stages nor checks out. *)
LEMMA HelperMoves ==
    ASSUME TypeOK, Prepared, LockNamesHolder, NEW p \in Plays, step[p] \in Locked,
           NEW next \in Locked, step' \in {step, [step EXCEPT ![p] = next]},
           UNCHANGED <<task, job, checkout, staged>>,
           \A r \in Revisions : image[r] # None => image'[r] # None,
           task[p] = "rollout" => installed'.env = job[p].release \/ step'[p] = "env"
    PROVE  Prepared'
<1>1. OneAtATime'
    BY DEF Prepared, OneAtATime, Connected
<1>2. \A q \in Plays : q # p => step'[q] = step[q] /\ step[q] \notin Locked
    BY OneHolder DEF TypeOK
<1>3. step'[p] \in Locked
    BY DEF TypeOK
<1>4. ASSUME NEW q \in Plays PROVE Underway(q)'
    <2>1. job[q].release.revision \in Revisions
        BY ReleaseTypes
    <2>2. CASE q = p
        BY <1>3, <2>1, <2>2 DEF Prepared, Underway, Locked, Building
    <2>3. CASE q # p
        BY <1>2, <2>1, <2>3 DEF Prepared, Underway
    <2>4. QED
        BY <2>2, <2>3
<1>5. QED
    BY <1>1, <1>4 DEF Prepared

LEMMA DeployStepPrepares ==
    ASSUME TypeOK, Prepared, LockNamesHolder, NEW p \in Plays, DeployStep(p)
    PROVE  /\ Prepared'
           /\ image' = image \/ (Outlived(p) /\ todo'[p] # todo[p])
<1>0. UNCHANGED <<job, checkout, staged>>
    BY DEF DeployStep
<1>1. CASE InstallEnv(p)
    <2>1. installed'.env = staged.env
        BY <1>1 DEF InstallEnv, Install, Managed, TypeOK, Files
    <2>2. task[p] = "rollout" => staged.env = job[p].release
        BY DEF Prepared, Underway
    <2>3. QED
        BY <1>0, <1>1, <2>1, <2>2, HelperMoves DEF InstallEnv, Install, Locked
<1>2. CASE InstallMaintenance(p) \/ InstallRunner(p)
    <2>1. installed'.env = installed.env
        BY <1>2 DEF InstallMaintenance, InstallRunner, Install, TypeOK, Files
    <2>2. /\ step[p] \in Locked \ {"env"} /\ image' = image /\ task' = task
          /\ \E next \in Locked : step' = [step EXCEPT ![p] = next]
        BY <1>2 DEF InstallMaintenance, InstallRunner, Install, Locked
    <2>3. task[p] = "rollout" => installed.env = job[p].release
        BY <2>2 DEF Prepared, Underway
    <2>4. QED
        BY <1>0, <2>1, <2>2, <2>3, HelperMoves
<1>3. CASE StartDatabase(p)
    <2>1. step[p] \in Locked \ {"env"} /\ image' = image /\ installed' = installed
        BY <1>3 DEF StartDatabase, live, Locked
    <2>2. CASE job[p].app
        <3>1. step' = [step EXCEPT ![p] = "migrate"] /\ task' = task
            BY <1>3, <2>2 DEF StartDatabase
        <3>2. task[p] = "rollout" => installed.env = job[p].release
            BY <2>1 DEF Prepared, Underway
        <3>3. QED
            BY <1>0, <2>1, <3>1, <3>2, HelperMoves DEF Locked
    <2>3. CASE ~job[p].app
        <3>1. EndHelper(p, TRUE)
            BY <1>3, <2>3 DEF StartDatabase
        <3>2. QED
            BY <1>0, <2>1, <3>1, EndHelperPrepares
    <2>4. QED
        BY <2>2, <2>3
<1>4. CASE Migrate(p)
    <2>1. /\ step[p] \in Locked \ {"env"} /\ step' = [step EXCEPT ![p] = "up"]
          /\ image' = image /\ installed' = installed /\ task' = task
        BY <1>4 DEF Migrate, live, Locked
    <2>2. task[p] = "rollout" => installed.env = job[p].release
        BY <2>1 DEF Prepared, Underway
    <2>3. QED
        BY <1>0, <2>1, <2>2, HelperMoves DEF Locked
<1>5. ASSUME NEW s \in Services, Up(p, s)
      PROVE  /\ Prepared'
             /\ image' = image \/ (Outlived(p) /\ todo'[p] # todo[p])
    <2>1. /\ step[p] = "up" /\ step[p] \in Locked \ {"env"}
          /\ installed' = installed /\ task' = task
          /\ step' \in {step, [step EXCEPT ![p] = "verify"]}
        BY <1>5 DEF Up, Locked
    <2>2. /\ task[p] \in {"rollout", "orphan"}
          /\ image[job[p].release.revision] # None
          /\ task[p] = "rollout" => installed.env = job[p].release
        BY <2>1 DEF Prepared, Underway, Building
    <2>3. image' = IF image[installed.env.revision] = None
                   THEN [image EXCEPT ![installed.env.revision] = checkout]
                   ELSE image
        BY <1>5 DEF Up
    <2>4. \A r \in Revisions : image[r] # None => image'[r] # None
        BY <2>3 DEF TypeOK
    <2>5. Prepared'
        BY <1>0, <2>1, <2>2, <2>4, HelperMoves DEF Locked
    <2>6. installed.env = job[p].release => image' = image
        BY <2>2, <2>3
    <2>7. todo'[p] # todo[p]
        BY <1>5 DEF Up, TypeOK
    <2>8. QED
        BY <2>1, <2>2, <2>5, <2>6, <2>7 DEF Outlived
<1>6. CASE Verify(p)
    <2>1. ChecksPass \in BOOLEAN
        BY DEF ChecksPass, Serves
    <2>2. step[p] \in Locked /\ EndHelper(p, ChecksPass) /\ image' = image /\ installed' = installed
        BY <1>6 DEF Verify, live, Locked
    <2>3. QED
        BY <1>0, <2>1, <2>2, EndHelperPrepares
<1>7. QED
    BY <1>1, <1>2, <1>3, <1>4, <1>5, <1>6 DEF DeployStep

LEMMA FaultStepPrepares ==
    ASSUME TypeOK, Prepared, FaultStep
    PROVE  Prepared' /\ image' = image
<1>1. UNCHANGED <<job, checkout, image, staged, installed>>
    BY DEF FaultStep, source
<1>2. ASSUME NEW p \in Plays, PlayFails(p)
      PROVE  Prepared'
    BY <1>1, <1>2, EndingPrepares DEF PlayFails, TypeOK
<1>3. ASSUME NEW p \in Plays, ControllerLost(p) \/ LockTimeout(p)
      PROVE  Prepared'
    BY <1>1, <1>3, EndingPrepares DEF ControllerLost, LockTimeout, TypeOK
<1>4. ASSUME NEW p \in Plays, DeployFails(p)
      PROVE  Prepared'
    BY <1>1, <1>4, EndHelperPrepares DEF DeployFails
<1>5. CASE Reboot
    BY <1>1, <1>5, EndingPrepares DEF Reboot, TypeOK
<1>6. QED
    BY <1>1, <1>2, <1>3, <1>4, <1>5 DEF FaultStep

LEMMA PreparedStep ==
    ASSUME ~Overlap, TypeOK, IInv, Prepared, [Next]_vars
    PROVE  /\ Prepared'
           /\ \/ \A r \in Revisions : image'[r] \in {image[r], r}
              \/ \E p \in Plays :
                    Outlived(p) /\ (step'[p] # step[p] \/ todo'[p] # todo[p])
<1>1. CASE ChangeInventory \/ MirrorStep \/ UNCHANGED vars
    <2>1. UNCHANGED <<task, job, step, checkout, image, staged, installed>>
        BY <1>1 DEF ChangeInventory, MirrorStep, vars, plays, source, live
    <2>2. QED
        BY <2>1, EndingPrepares
<1>2. ASSUME NEW p \in Plays, Operator(p)
      PROVE  Prepared' /\ image' = image
    BY <1>2, OperatorPrepares DEF Operator, StartPlay, source
<1>3. ASSUME NEW p \in Plays, AcquireLock(p)
      PROVE  Prepared' /\ image' = image
    <2>1. /\ UNCHANGED <<task, job, checkout, image, staged, installed>>
          /\ step[p] = "waiting" /\ step' = [step EXCEPT ![p] = "env"]
        BY <1>3 DEF AcquireLock, source, live
    <2>2. OneAtATime'
        BY <2>1 DEF Prepared, OneAtATime, Connected
    <2>3. ASSUME NEW q \in Plays PROVE Underway(q)'
        BY <2>1 DEF Prepared, Underway, TypeOK, Building
    <2>4. QED
        BY <2>1, <2>2, <2>3 DEF Prepared
<1>4. QED
    BY <1>1, <1>2, <1>3, TaskPrepares, BuildPrepares, DeployStepPrepares, FaultStepPrepares
    DEF Next, IInv

(* One play at a time never puts a tag on an image of another revision,    *)
(* except through the two commands that can outlive their play: a build    *)
(* that read a later play's checkout, or a helper that installed what a    *)
(* later one staged (main.yml:39-44, 105-112 and 114-124, deploy.sh:38).   *)
THEOREM PlaysTagAsBuilt ==
    ASSUME ~Overlap
    PROVE  Spec => TaggedAsBuilt
<1>1. TypeOK /\ IInv /\ Prepared /\ [Next]_vars => Prepared'
    BY PreparedStep
<1>2. TypeOK /\ IInv /\ Prepared /\ [Next]_vars
      => [\/ \A r \in Revisions : image'[r] \in {image[r], r}
          \/ \E p \in Plays :
                Outlived(p) /\ (step'[p] # step[p] \/ todo'[p] # todo[p])]_vars
    BY PreparedStep
<1>3. QED
    BY <1>1, <1>2, PreparedStarts, TypeCorrect, Invariant, PTL DEF Spec, TaggedAsBuilt

-----------------------------------------------------------------------------
(* Convergence, when plays do not overlap.  Beyond Prepared, a connected   *)
(* play finds every file it staged where it left it, and its helper's      *)
(* files are its own; an orphan that gets the lock once the play is at its *)
(* last task can only install the same files again.                        *)

OwnFiles(p) ==
    /\ task[p] \in {"stage_runner", "build", "rollout"}
           => staged.maintenance = job[p].release.token
    /\ task[p] \in {"build", "rollout"} => staged.runner = job[p].release.revision
    /\ task[p] = "rollout" /\ step[p] \in Locked \ {"env", "maintenance"}
           => installed.maintenance = job[p].release.token
    /\ task[p] = "rollout" /\ step[p] \in Locked \ {"env", "maintenance", "runner"}
           => installed.runner = job[p].release.revision
    /\ task[p] = "schedule"
           => staged = FilesOf(job[p].release) /\ installed = FilesOf(job[p].release)

Followed == \A p \in Plays : OwnFiles(p)

(* Three fields are all there is to a set of files.                        *)
LEMMA FilesAreFields ==
    ASSUME NEW files \in Files, NEW release,
           files.env = release, files.maintenance = release.token,
           files.runner = release.revision
    PROVE  files = FilesOf(release)
BY DEF Files, FilesOf

LEMMA OperatorFollows ==
    ASSUME ~Overlap, TypeOK, NEW p \in Plays, Operator(p)
    PROVE  Followed'
<1>1. task' = [task EXCEPT ![p] = "checkout"] /\ \A q \in Plays : task[q] \in {"idle", "orphan"}
    BY DEF Operator, StartPlay
<1>2. \A q \in Plays : task'[q] \in {"idle", "orphan", "checkout"}
    BY <1>1 DEF TypeOK
<1>3. QED
    BY <1>2 DEF Followed, OwnFiles

LEMMA PlayStepFollows ==
    ASSUME TypeOK, TypeOK', Prepared, Prepared', Followed, NEW p \in Plays, PlayStep(p),
           task[p] # "orphan"
    PROVE  Followed'
<1>1. /\ \A q \in Plays : q # p => ~Connected(q) /\ task'[q] = task[q]
      /\ step[p] \notin Locked /\ installed' = installed
    <2>1. Connected(p) /\ step[p] \notin Locked
        BY DEF PlayStep, Checkout, StageEnv, StageMaintenance, StageRunner, Stage, SkipBuild,
               StartBuild, SendContext, TagImage, Schedule, Prepared, Underway, Connected,
               Building, Locked
    <2>2. \A q \in Plays : q # p => task'[q] = task[q]
        BY DEF PlayStep, Checkout, StageEnv, StageMaintenance, StageRunner, Stage, SkipBuild,
               StartBuild, SendContext, TagImage, AwaitLock, Schedule, TypeOK
    <2>3. QED
        BY <2>1, <2>2 DEF Prepared, OneAtATime, PlayStep, live
<1>2. \A q \in Plays : q # p => OwnFiles(q)'
    BY <1>1 DEF Connected, OwnFiles
<1>3. OwnFiles(p)'
    <2>1. CASE Checkout(p) \/ StageEnv(p) \/ Schedule(p)
        <3>1. task'[p] \in {"stage_env", "stage_maintenance", "idle"}
            BY <2>1 DEF Checkout, StageEnv, Stage, Schedule, TypeOK
        <3>2. QED
            BY <3>1 DEF OwnFiles
    <2>2. CASE StageMaintenance(p)
        <3>1. task'[p] = "stage_runner" /\ staged'.maintenance = job'[p].release.token
            BY <2>2 DEF StageMaintenance, Stage, TypeOK, Files
        <3>2. QED
            BY <3>1 DEF OwnFiles
    <2>3. CASE StageRunner(p)
        <3>1. checkout = job[p].release.revision /\ staged.maintenance = job[p].release.token
            BY <2>3 DEF StageRunner, Stage, Prepared, Underway, Followed, OwnFiles
        <3>2. /\ task'[p] = "build" /\ job' = job
              /\ staged'.maintenance = staged.maintenance /\ staged'.runner = checkout
            BY <2>3 DEF StageRunner, Stage, TypeOK, Files
        <3>3. QED
            BY <3>1, <3>2 DEF OwnFiles
    <2>4. CASE SkipBuild(p) \/ StartBuild(p) \/ SendContext(p) \/ TagImage(p)
        <3>1. /\ task[p] = "build" /\ task'[p] \in {"build", "rollout"}
              /\ step'[p] \notin Locked /\ staged' = staged
            BY <2>4 DEF SkipBuild, StartBuild, SendContext, TagImage, AwaitLock, source, TypeOK,
                        Prepared, Underway, Building, Locked
        <3>2. job'[p].release = job[p].release
            BY PlayStepKeepsJob
        <3>3. QED
            BY <3>1, <3>2 DEF Followed, OwnFiles
    <2>5. QED
        BY <2>1, <2>2, <2>3, <2>4 DEF PlayStep
<1>4. QED
    BY <1>2, <1>3 DEF Followed

(* Nothing staged or installed changes; plays stop, lose their controller, *)
(* or take the lock.                                                       *)
LEMMA PausingFollows ==
    ASSUME Followed, UNCHANGED <<staged, installed>>,
           \A q \in Plays : job'[q].release = job[q].release,
           \A q \in Plays :
               \/ task'[q] \in {"idle", "orphan"}
               \/ task'[q] = task[q] /\ (step'[q] = step[q] \/ step'[q] = "env")
    PROVE  Followed'
<1>1. ASSUME NEW q \in Plays PROVE OwnFiles(q)'
    BY DEF Followed, OwnFiles
<1>2. QED
    BY <1>1 DEF Followed

(* What the helper p leaves installed is p's; or p is an orphan, and then  *)
(* the connected play is not under the lock.                               *)
LEMMA InstallingFollows ==
    ASSUME TypeOK, TypeOK', Prepared, Followed, LockNamesHolder,
           NEW p \in Plays, step[p] \in Locked,
           UNCHANGED <<task, job, staged>>,
           \A q \in Plays : q # p => step'[q] = step[q],
           installed' \in {installed,
                          [installed EXCEPT !.env = staged.env],
                          [installed EXCEPT !.maintenance = staged.maintenance],
                          [installed EXCEPT !.runner = staged.runner]},
           task[p] = "rollout" /\ step'[p] \in Locked \ {"env", "maintenance"}
               => installed'.maintenance = job[p].release.token,
           task[p] = "rollout" /\ step'[p] \in Locked \ {"env", "maintenance", "runner"}
               => installed'.runner = job[p].release.revision
    PROVE  Followed'
<1>1. \A q \in Plays : q # p => step[q] \notin Locked
    BY OneHolder DEF TypeOK
<1>2. task[p] \in {"rollout", "orphan"}
    BY DEF Prepared, Underway, Locked, Building
<1>3. OwnFiles(p)'
    BY <1>2 DEF Followed, OwnFiles
<1>4. ASSUME NEW q \in Plays, q # p PROVE OwnFiles(q)'
    <2>1. CASE task[q] = "schedule"
        <3>1. staged = FilesOf(job[q].release) /\ installed = FilesOf(job[q].release)
            BY <2>1 DEF Followed, OwnFiles
        <3>2. installed' = installed
            BY <3>1 DEF FilesOf
        <3>3. QED
            BY <2>1, <3>1, <3>2 DEF OwnFiles
    <2>2. CASE task[q] # "schedule"
        BY <1>1, <1>4, <2>2 DEF Followed, OwnFiles
    <2>3. QED
        BY <2>1, <2>2
<1>5. QED
    BY <1>3, <1>4 DEF Followed

(* A helper that succeeded under a connected play has installed all of the *)
(* play's files.                                                           *)
LEMMA EndingFollows ==
    ASSUME TypeOK, Prepared, Followed, NEW p \in Plays, step[p] \in {"db", "verify"},
           NEW success \in BOOLEAN, EndHelper(p, success),
           UNCHANGED <<job, staged, installed>>
    PROVE  Followed'
<1>1. \A q \in Plays : q # p => task'[q] = task[q] /\ step'[q] = step[q]
    BY DEF EndHelper, TypeOK
<1>2. \A q \in Plays : q # p => OwnFiles(q)'
    BY <1>1 DEF Followed, OwnFiles
<1>3. task'[p] \in {"idle", "schedule"} /\ (task'[p] = "schedule" => task[p] = "rollout")
    BY DEF EndHelper, NextTask, TypeOK
<1>4. CASE task'[p] = "schedule"
    <2>1. task[p] = "rollout"
        BY <1>3, <1>4
    <2>2. staged.env = job[p].release /\ installed.env = job[p].release
        BY <2>1 DEF Prepared, Underway, Locked
    <2>3. /\ staged.maintenance = job[p].release.token
          /\ staged.runner = job[p].release.revision
          /\ installed.maintenance = job[p].release.token
          /\ installed.runner = job[p].release.revision
        BY <2>1 DEF Followed, OwnFiles, Locked
    <2>4. staged = FilesOf(job[p].release) /\ installed = FilesOf(job[p].release)
        BY <2>2, <2>3, FilesAreFields DEF TypeOK
    <2>5. OwnFiles(p)'
        BY <1>4, <2>4 DEF OwnFiles
    <2>6. QED
        BY <1>2, <2>5 DEF Followed
<1>5. CASE task'[p] = "idle"
    <2>1. OwnFiles(p)'
        BY <1>5 DEF OwnFiles
    <2>2. QED
        BY <1>2, <2>1 DEF Followed
<1>6. QED
    BY <1>3, <1>4, <1>5

(* An orphaned build touches no file that a play or helper installs.       *)
LEMMA OrphanFollows ==
    ASSUME TypeOK, Prepared, Followed, NEW p \in Plays, PlayStep(p), task[p] = "orphan"
    PROVE  Followed'
<1>1. SendContext(p) \/ TagImage(p)
    BY DEF PlayStep, Checkout, StageEnv, StageMaintenance, StageRunner, Stage, SkipBuild,
           StartBuild, Schedule
<1>2. UNCHANGED <<staged, installed>>
    BY <1>1 DEF SendContext, TagImage, PlayStep, live, source
<1>3. \A q \in Plays : job'[q].release = job[q].release
    BY PlayStepKeepsJob
<1>4. ASSUME NEW q \in Plays PROVE OwnFiles(q)'
    <2>1. task'[q] \in {"idle", "orphan"} \/ (task'[q] = task[q] /\ step'[q] = step[q])
        BY <1>1 DEF SendContext, TagImage, TypeOK
    <2>2. QED
        BY <1>2, <1>3, <2>1 DEF Followed, OwnFiles
<1>5. QED
    BY <1>4 DEF Followed

LEMMA DeployStepFollows ==
    ASSUME TypeOK, TypeOK', Prepared, Followed, LockNamesHolder,
           NEW p \in Plays, DeployStep(p)
    PROVE  Followed'
<1>0. UNCHANGED <<job, staged>>
    BY DEF DeployStep
<1>1. CASE InstallEnv(p)
    <2>1. /\ step[p] \in Locked /\ step' = [step EXCEPT ![p] = "maintenance"] /\ task' = task
          /\ installed' = [installed EXCEPT !.env = staged.env]
        BY <1>1 DEF InstallEnv, Install, Managed, Locked, TypeOK, Files
    <2>2. step'[p] = "maintenance" /\ \A q \in Plays : q # p => step'[q] = step[q]
        BY <2>1 DEF TypeOK
    <2>3. QED
        BY <1>0, <2>1, <2>2, InstallingFollows
<1>2. CASE InstallMaintenance(p)
    <2>1. /\ step[p] = "maintenance" /\ step' = [step EXCEPT ![p] = "runner"] /\ task' = task
          /\ installed' = [installed EXCEPT !.maintenance = staged.maintenance]
        BY <1>2 DEF InstallMaintenance, Install, Managed, TypeOK, Files
    <2>2. step'[p] = "runner" /\ \A q \in Plays : q # p => step'[q] = step[q]
        BY <2>1 DEF TypeOK
    <2>3. installed'.maintenance = staged.maintenance
        BY <2>1 DEF TypeOK, Files
    <2>4. task[p] = "rollout" => staged.maintenance = job[p].release.token
        BY DEF Followed, OwnFiles
    <2>5. QED
        BY <1>0, <2>1, <2>2, <2>3, <2>4, InstallingFollows DEF Locked
<1>3. CASE InstallRunner(p)
    <2>1. /\ step[p] = "runner" /\ step' = [step EXCEPT ![p] = "db"] /\ task' = task
          /\ installed' = [installed EXCEPT !.runner = staged.runner]
        BY <1>3 DEF InstallRunner, Install, Managed, TypeOK, Files
    <2>2. step'[p] = "db" /\ \A q \in Plays : q # p => step'[q] = step[q]
        BY <2>1 DEF TypeOK
    <2>3. installed'.runner = staged.runner /\ installed'.maintenance = installed.maintenance
        BY <2>1 DEF TypeOK, Files
    <2>4. task[p] = "rollout" => /\ staged.runner = job[p].release.revision
                                 /\ installed.maintenance = job[p].release.token
        BY <2>1 DEF Followed, OwnFiles, Locked
    <2>5. QED
        BY <1>0, <2>1, <2>2, <2>3, <2>4, InstallingFollows DEF Locked
<1>4. CASE Migrate(p) \/ (\E s \in Services : Up(p, s)) \/ (StartDatabase(p) /\ job[p].app)
    <2>1. /\ step[p] \in {"db", "migrate", "up"} /\ task' = task /\ installed' = installed
          /\ \A q \in Plays : q # p => step'[q] = step[q]
        BY <1>4 DEF Migrate, Up, StartDatabase, live, TypeOK
    <2>2. task[p] = "rollout" => /\ installed.maintenance = job[p].release.token
                                 /\ installed.runner = job[p].release.revision
        BY <2>1 DEF Followed, OwnFiles, Locked
    <2>3. QED
        BY <1>0, <2>1, <2>2, InstallingFollows DEF Locked
<1>5. CASE Verify(p) \/ (StartDatabase(p) /\ ~job[p].app)
    <2>1. step[p] \in {"db", "verify"} /\ installed' = installed
        BY <1>5 DEF Verify, StartDatabase, live
    <2>2. ChecksPass \in BOOLEAN
        BY DEF ChecksPass, Serves
    <2>3. EndHelper(p, ChecksPass) \/ EndHelper(p, TRUE)
        BY <1>5 DEF Verify, StartDatabase
    <2>4. QED
        BY <1>0, <2>1, <2>2, <2>3, EndingFollows
<1>6. QED
    BY <1>1, <1>2, <1>3, <1>4, <1>5 DEF DeployStep

LEMMA FaultStepFollows ==
    ASSUME TypeOK, Followed, FaultStep
    PROVE  Followed'
<1>1. UNCHANGED <<job, staged, installed>>
    BY DEF FaultStep, source
<1>2. ASSUME NEW p \in Plays, PlayFails(p) \/ ControllerLost(p) \/ LockTimeout(p)
      PROVE  Followed'
    <2>1. \A q \in Plays : \/ task'[q] \in {"idle", "orphan"}
                           \/ task'[q] = task[q] /\ step'[q] = step[q]
        BY <1>2 DEF PlayFails, ControllerLost, LockTimeout, TypeOK
    <2>2. QED
        BY <1>1, <2>1, PausingFollows
<1>3. ASSUME NEW p \in Plays, DeployFails(p)
      PROVE  Followed'
    <2>1. \A q \in Plays : \/ task'[q] = "idle"
                           \/ task'[q] = task[q] /\ step'[q] = step[q]
        BY <1>3 DEF DeployFails, EndHelper, NextTask, TypeOK
    <2>2. QED
        BY <1>1, <2>1, PausingFollows
<1>4. CASE Reboot
    BY <1>1, <1>4, PausingFollows DEF Reboot
<1>5. QED
    BY <1>1, <1>2, <1>3, <1>4 DEF FaultStep

LEMMA FollowedStep ==
    ASSUME ~Overlap, TypeOK, TypeOK', IInv, Prepared, Prepared', Followed, [Next]_vars
    PROVE  Followed'
<1>1. CASE ChangeInventory \/ MirrorStep \/ UNCHANGED vars
    <2>1. UNCHANGED <<task, job, step, staged, installed>>
        BY <1>1 DEF ChangeInventory, MirrorStep, vars, plays, source, live
    <2>2. QED
        BY <2>1, PausingFollows
<1>2. ASSUME NEW p \in Plays, AcquireLock(p)
      PROVE  Followed'
    <2>1. /\ UNCHANGED <<task, job, staged, installed>>
          /\ \A q \in Plays : step'[q] \in {step[q], "env"}
        BY <1>2 DEF AcquireLock, source, live, TypeOK
    <2>2. QED
        BY <2>1, PausingFollows
<1>3. QED
    BY <1>1, <1>2, OperatorFollows, PlayStepFollows, OrphanFollows, DeployStepFollows, FaultStepFollows
    DEF Next, IInv

LEMMA PreparedInvariant == ASSUME ~Overlap PROVE Spec => [](Prepared /\ Followed)
<1>1. Init => Prepared /\ Followed
    BY PreparedStarts DEF Init, Followed, OwnFiles
<1>2. TypeOK /\ TypeOK' /\ IInv /\ Prepared /\ Followed /\ [Next]_vars
      => Prepared' /\ Followed'
    BY PreparedStep, FollowedStep
<1>3. QED
    BY <1>1, <1>2, TypeCorrect, Invariant, PTL DEF Spec

(* A task "schedule" is left by its own play's last step, or by a fault.   *)
LEMMA LeavingSchedule ==
    ASSUME TypeOK, Prepared, [Next]_vars, UNCHANGED faults,
           NEW p \in Plays, task[p] = "schedule", task'[p] = "idle"
    PROVE  /\ UNCHANGED <<inventory, installed, container>> /\ cron' = job[p].app
<1>1. ~FaultStep
    BY DEF FaultStep, TypeOK
<1>2. ~ChangeInventory /\ ~MirrorStep /\ ~UNCHANGED vars
    BY DEF ChangeInventory, MirrorStep, vars, plays
<1>3. ASSUME NEW q \in Plays
      PROVE  ~Operator(q) /\ ~AcquireLock(q) /\ ~DeployStep(q)
    <2>1. ~AcquireLock(q)
        BY DEF AcquireLock
    <2>2. ~Operator(q)
        BY DEF Operator, StartPlay, TypeOK
    <2>3. ~DeployStep(q)
        <3>1. step[p] = "none"
            BY DEF Prepared, Underway, TypeOK, Building
        <3>2. ASSUME DeployStep(q) PROVE task'[p] = task[p] \/ q = p
            BY <3>2 DEF DeployStep, InstallEnv, InstallMaintenance, InstallRunner, Install,
                        StartDatabase, Migrate, Up, Verify, EndHelper, TypeOK
        <3>3. DeployStep(p) => step[p] # "none"
            BY DEF DeployStep, InstallEnv, InstallMaintenance, InstallRunner, Install,
                   StartDatabase, Migrate, Up, Verify
        <3>4. QED
            BY <3>1, <3>2, <3>3
    <2>4. QED
        BY <2>1, <2>2, <2>3
<1>4. PICK q \in Plays : PlayStep(q)
    BY <1>1, <1>2, <1>3 DEF Next
<1>5. UNCHANGED <<inventory, installed, container>>
    BY <1>4 DEF PlayStep, live
<1>6. q = p
    BY <1>4 DEF PlayStep, Checkout, StageEnv, StageMaintenance, StageRunner, Stage, SkipBuild,
                StartBuild, SendContext, TagImage, AwaitLock, Schedule, TypeOK
<1>7. Schedule(p)
    BY <1>4, <1>6 DEF PlayStep, Checkout, StageEnv, StageMaintenance, StageRunner, Stage,
                      SkipBuild, StartBuild, SendContext, TagImage, Prepared, Underway, Building
<1>8. QED
    BY <1>5, <1>7 DEF Schedule, Scheduled

(* A play of the inventory that gets to its end, its helper's checks being *)
(* the last ones passed, leaves services, files and schedule as the        *)
(* inventory says (ansible/README.md:108-109).                             *)
THEOREM CompletedConverges ==
    ASSUME ~Overlap
    PROVE  Spec => CompletedPlayConverges
<1>1. TypeOK /\ IInv /\ Prepared /\ Followed /\ [Next]_vars
      => [\A p \in Plays :
            /\ task[p] = "schedule" /\ task'[p] = "idle" /\ UNCHANGED faults
            /\ outcome = "ok" /\ job[p].release = inventory.release /\ job[p].app
            => Converged']_vars
    <2> SUFFICES ASSUME TypeOK, IInv, Prepared, Followed, [Next]_vars, NEW p \in Plays,
                        task[p] = "schedule", task'[p] = "idle", UNCHANGED faults,
                        outcome = "ok", job[p].release = inventory.release, job[p].app
                 PROVE  Converged'
        OBVIOUS
    <2>1. UNCHANGED <<inventory, installed, container>> /\ cron'
        BY LeavingSchedule
    <2>2. installed = FilesOf(inventory.release)
        BY DEF Followed, OwnFiles
    <2>3. \A s \in Services : container[s] = inventory.release
        BY <2>2 DEF IInv, VerifiedRolloutIsConsistent, FilesOf
    <2>4. QED
        BY <2>1, <2>2, <2>3 DEF Converged
<1>2. QED
    BY <1>1, TypeCorrect, Invariant, PreparedInvariant, PTL DEF Spec, CompletedPlayConverges

(* Steps that leave installation and schedule alone, and every play what   *)
(* it was, with at most its task done.                                     *)
LEMMA KeepsConverged ==
    ASSUME Converged, OnlyReruns, UNCHANGED <<inventory, installed, container>>, cron',
           \A q \in Plays : /\ task'[q] = task[q] \/ (task'[q] # "orphan" /\ task[q] # "idle")
                            /\ job'[q].release = job[q].release /\ job'[q].app = job[q].app
    PROVE  Converged' /\ OnlyReruns'
<1>1. Converged'
    BY DEF Converged
<1>2. ASSUME NEW q \in Plays, task'[q] # "idle"
      PROVE  task'[q] # "orphan" /\ job'[q].release = inventory'.release /\ job'[q].app
    <2>1. task[q] # "idle" /\ (task'[q] = task[q] \/ task'[q] # "orphan")
        BY <1>2
    <2>2. task[q] # "orphan" /\ job[q].release = inventory.release /\ job[q].app
        BY <2>1, Zenon DEF OnlyReruns
    <2>3. job'[q].app
        BY <2>2, Zenon
    <2>4. QED
        BY <2>1, <2>2, <2>3
<1>3. QED
    BY <1>1, <1>2, Zenon DEF OnlyReruns

LEMMA PlayStepKeeps ==
    ASSUME TypeOK, Prepared, Converged, OnlyReruns, UNCHANGED inventory, NEW p \in Plays, PlayStep(p)
    PROVE  Converged' /\ OnlyReruns'
<1>1. /\ task[p] \notin {"idle", "orphan"} /\ task'[p] # "orphan"
      /\ UNCHANGED <<installed, container>>
      /\ \A q \in Plays : q # p => task'[q] = task[q]
    <2>1. task[p] # "idle"
        BY DEF PlayStep, Checkout, StageEnv, StageMaintenance, StageRunner, Stage, SkipBuild,
               StartBuild, SendContext, TagImage, Schedule, Prepared, Underway, Building
    <2>2. task[p] # "orphan"
        BY <2>1, Zenon DEF OnlyReruns
    <2>3. QED
        BY <2>1, <2>2 DEF PlayStep, Checkout, StageEnv, StageMaintenance, StageRunner, Stage,
               SkipBuild, StartBuild, SendContext, TagImage, AwaitLock, Schedule, TypeOK, live
<1>2. cron'
    <2>1. cron /\ job[p].app
        BY <1>1, Zenon DEF Converged, OnlyReruns
    <2>2. cron' = cron \/ cron' = job[p].app
        BY DEF PlayStep, Checkout, StageEnv, StageMaintenance, StageRunner, Stage, SkipBuild,
               StartBuild, SendContext, TagImage, Schedule, Scheduled
    <2>3. QED
        BY <2>1, <2>2
<1>3. \A q \in Plays : job'[q].release = job[q].release /\ job'[q].app = job[q].app
    BY PlayStepKeepsJob
<1>4. QED
    BY <1>1, <1>2, <1>3, KeepsConverged

(* A helper of such a play installs what is installed already, and creates *)
(* containers from it.                                                     *)
LEMMA DeployStepKeeps ==
    ASSUME TypeOK, Prepared, Followed, Converged, OnlyReruns, UNCHANGED inventory,
           NEW p \in Plays, DeployStep(p)
    PROVE  Converged' /\ OnlyReruns'
<1>1. step[p] \in Locked
    BY DEF DeployStep, InstallEnv, InstallMaintenance, InstallRunner, Install,
           StartDatabase, Migrate, Up, Verify, Locked
<1>2. task[p] = "rollout" /\ job[p].release = inventory.release
    <2>1. task[p] \in {"rollout", "orphan"}
        BY <1>1 DEF Prepared, Underway, Locked, Building
    <2>2. QED
        BY <2>1 DEF OnlyReruns
<1>3. /\ UNCHANGED <<job, cron>>
      /\ \A q \in Plays : task'[q] = task[q] \/ (task'[q] # "orphan" /\ task[q] # "idle")
    <2>1. \A q \in Plays : q # p => task'[q] = task[q]
        BY DEF DeployStep, InstallEnv, InstallMaintenance, InstallRunner, Install,
               StartDatabase, Migrate, Up, Verify, EndHelper, TypeOK
    <2>2. task'[p] \in {"rollout", "idle", "schedule"}
        BY <1>2 DEF DeployStep, InstallEnv, InstallMaintenance, InstallRunner, Install,
               StartDatabase, Migrate, Up, Verify, EndHelper, NextTask, TypeOK
    <2>3. QED
        BY <1>2, <2>1, <2>2 DEF DeployStep
<1>4. UNCHANGED installed
    <2>1. installed = FilesOf(job[p].release)
        BY <1>2 DEF Converged
    <2>2. CASE InstallEnv(p)
        <3>1. staged.env = installed.env
            BY <1>2, <2>1 DEF Prepared, Underway, FilesOf
        <3>2. installed' = [installed EXCEPT !.env = installed.env]
            BY <2>2, <3>1 DEF InstallEnv, Install, Managed
        <3>3. QED
            BY <3>2 DEF TypeOK, Files
    <2>3. CASE InstallMaintenance(p)
        <3>1. staged.maintenance = installed.maintenance
            BY <1>2, <2>1 DEF Followed, OwnFiles, FilesOf
        <3>2. installed' = [installed EXCEPT !.maintenance = installed.maintenance]
            BY <2>3, <3>1 DEF InstallMaintenance, Install, Managed
        <3>3. QED
            BY <3>2 DEF TypeOK, Files
    <2>4. CASE InstallRunner(p)
        <3>1. staged.runner = installed.runner
            BY <1>2, <2>1 DEF Followed, OwnFiles, FilesOf
        <3>2. installed' = [installed EXCEPT !.runner = installed.runner]
            BY <2>4, <3>1 DEF InstallRunner, Install, Managed
        <3>3. QED
            BY <3>2 DEF TypeOK, Files
    <2>5. QED
        BY <2>2, <2>3, <2>4 DEF DeployStep, StartDatabase, Migrate, Up, Verify, live
<1>5. UNCHANGED container
    <2>1. ASSUME NEW s \in Services, Up(p, s) PROVE container' = container
        <3>1. container[s] = installed.env
            BY DEF Converged, FilesOf
        <3>2. container' = [container EXCEPT ![s] = container[s]]
            BY <2>1, <3>1 DEF Up
        <3>3. QED
            BY <3>2 DEF TypeOK
    <2>2. QED
        BY <2>1 DEF DeployStep, InstallEnv, InstallMaintenance, InstallRunner, Install,
                    StartDatabase, Migrate, Verify, live
<1>6. QED
    BY <1>3, <1>4, <1>5, KeepsConverged DEF Converged

(* Once converged, plays of an inventory that does not change disturb      *)
(* neither services nor files nor schedule at any of their steps, as long  *)
(* as nothing fails (main.yml:39-148, deploy.sh:11-51).                    *)
THEOREM RerunsKeepConverged ==
    ASSUME ~Overlap
    PROVE  Spec => RerunKeepsConverged
<1>1. TypeOK /\ Prepared /\ Followed /\ [Next]_vars
      => [Converged /\ inventory.app /\ OnlyReruns /\ UNCHANGED <<inventory, faults>>
            => Converged' /\ OnlyReruns']_vars
    <2> SUFFICES ASSUME TypeOK, Prepared, Followed, [Next]_vars,
                        Converged, inventory.app, OnlyReruns, UNCHANGED <<inventory, faults>>
                 PROVE  Converged' /\ OnlyReruns'
        OBVIOUS
    <2>1. ~FaultStep
        BY DEF FaultStep, TypeOK
    <2>2. CASE ChangeInventory \/ MirrorStep \/ UNCHANGED vars
        <3>1. UNCHANGED <<task, job, installed, container, cron>>
            BY <2>2 DEF ChangeInventory, MirrorStep, vars, plays, live
        <3>2. QED
            BY <3>1, KeepsConverged DEF Converged
    <2>3. ASSUME NEW p \in Plays, Operator(p)
          PROVE  Converged' /\ OnlyReruns'
        <3>1. UNCHANGED <<installed, container, cron>>
            BY <2>3 DEF Operator, StartPlay, live
        <3>2. /\ task'[p] = "checkout" /\ job'[p].release = inventory.release /\ job'[p].app
              /\ \A q \in Plays : q # p => task'[q] = task[q] /\ job'[q] = job[q]
            BY <2>3 DEF Operator, StartPlay, TypeOK
        <3>3. QED
            BY <3>1, <3>2 DEF Converged, OnlyReruns
    <2>4. ASSUME NEW p \in Plays, AcquireLock(p)
          PROVE  Converged' /\ OnlyReruns'
        <3>1. UNCHANGED <<task, job, installed, container, cron>>
            BY <2>4 DEF AcquireLock, live
        <3>2. QED
            BY <3>1, KeepsConverged DEF Converged
    <2>5. QED
        BY <2>1, <2>2, <2>3, <2>4, PlayStepKeeps, DeployStepKeeps DEF Next
<1>2. QED
    BY <1>1, TypeCorrect, PreparedInvariant, PTL DEF Spec, RerunKeepsConverged

-----------------------------------------------------------------------------
(* The role implements MaintenanceWindow.                                  *)

Holder == IF lock = None THEN "free" ELSE IF lock = Mirror THEN "mirror" ELSE "rollout"
Served == IF container["server"] = None THEN None ELSE container["server"].token

LEMMA WindowTypes ==
    ASSUME TypeOK
    PROVE  Served \in Window!MaybeToken /\ installed.maintenance \in Window!MaybeToken
BY DEF TypeOK, Files, Releases, Services, Served, Window!MaybeToken

(* While a helper holds the lock the window is in a rollout.               *)
LEMMA HolderIsRollout ==
    ASSUME TypeOK, LockNamesHolder, NEW p \in Plays, step[p] \in Locked
    PROVE  Holder = "rollout" /\ outcome = "unfinished"
BY OneHolder, ConstantsAssumption DEF Holder

LEMMA DeployStepImplements ==
    ASSUME TypeOK, TypeOK', IInv, NEW p \in Plays, DeployStep(p)
    PROVE  [Window!Next]_(Window!vars)
<1> USE DEF Window!vars
<1>0. Window!Reconfigure <=>
        /\ Holder = "rollout" /\ UNCHANGED <<Holder, outcome = "ok">>
        /\ Served' \in Window!MaybeToken /\ installed'.maintenance \in Window!MaybeToken
    BY DEF Window!Reconfigure, Holder, Served, Window!MaybeToken
<1>1. CASE UNCHANGED <<lock, outcome>>
    <2>1. step[p] \in Locked
        BY DEF DeployStep, InstallEnv, InstallMaintenance, InstallRunner, Install,
               StartDatabase, Migrate, Up, Verify, Locked
    <2>2. Holder = "rollout"
        BY <2>1, HolderIsRollout DEF IInv
    <2>3. Window!Reconfigure
        BY <1>0, <1>1, <2>2, WindowTypes DEF Holder, Served, TypeOK, Files, Releases, Services,
           Window!MaybeToken
    <2>4. QED
        BY <2>3 DEF Window!Next
<1>2. CASE lock' = None /\ step[p] \in Locked /\ UNCHANGED live /\ outcome' # "ok"
    <2>1. Window!Abandon
        BY <1>2, HolderIsRollout, WindowTypes
        DEF Window!Abandon, IInv, Holder, Served, live
    <2>2. QED
        BY <2>1 DEF Window!Next
<1>3. CASE lock' = None /\ step[p] \in Locked /\ UNCHANGED live /\ outcome' = "ok" /\ ChecksPass
    <2>1. installed.maintenance # None
        BY <1>3, ConstantsAssumption DEF ChecksPass, Serves, TypeOK, Releases, Services
    <2>2. Window!Accept
        BY <1>3, <2>1, HolderIsRollout
        DEF Window!Accept, IInv, Holder, Served, live, ChecksPass, Serves
    <2>3. QED
        BY <2>2 DEF Window!Next
<1>4. CASE InstallEnv(p) \/ InstallMaintenance(p) \/ InstallRunner(p)
    BY <1>1, <1>4 DEF InstallEnv, InstallMaintenance, InstallRunner, Install, history
<1>5. CASE StartDatabase(p)
    BY <1>1, <1>2, <1>5 DEF StartDatabase, EndHelper, Locked
<1>6. CASE Migrate(p) \/ \E s \in Services : Up(p, s)
    BY <1>1, <1>6 DEF Migrate, Up, history
<1>7. CASE Verify(p)
    <2>1. step[p] \in Locked /\ outcome = "unfinished"
        BY <1>7, OneHolder DEF Verify, Locked, IInv
    <2>2. QED
        BY <1>2, <1>3, <1>7, <2>1 DEF Verify, EndHelper
<1>8. QED
    BY <1>4, <1>5, <1>6, <1>7 DEF DeployStep

LEMMA MirrorStepImplements ==
    ASSUME TypeOK, IInv, MirrorStep
    PROVE  [Window!Next]_(Window!vars)
<1>1. UNCHANGED <<Served, installed, outcome>>
    BY DEF MirrorStep, live, history, Served
<1>2. CASE MirrorStart
    BY <1>1, <1>2, ConstantsAssumption
    DEF MirrorStart, Flock, Served, Window!BeginMirror, Window!Next
<1>3. CASE MirrorReadToken
    BY <1>1, <1>3 DEF MirrorReadToken, Served, Window!vars
<1>4. CASE MirrorFinish
    BY <1>1, <1>4, ConstantsAssumption
    DEF MirrorFinish, IInv, LockNamesHolder, Served, Window!EndMirror, Window!Next
<1>5. QED
    BY <1>2, <1>3, <1>4 DEF MirrorStep

LEMMA FaultStepImplements ==
    ASSUME TypeOK, TypeOK', IInv, FaultStep
    PROVE  [Window!Next]_(Window!vars)
<1>1. UNCHANGED <<installed, outcome>>
    BY DEF FaultStep, history
<1>2. Served' \in Window!MaybeToken
    BY WindowTypes DEF TypeOK, Files, Releases, Services, Served, Window!MaybeToken
<1>3. ASSUME NEW p \in Plays, PlayFails(p) \/ ControllerLost(p) \/ LockTimeout(p)
      PROVE  [Window!Next]_(Window!vars)
    BY <1>1, <1>3 DEF PlayFails, ControllerLost, LockTimeout, Window!vars
<1>4. ASSUME NEW p \in Plays, DeployFails(p)
      PROVE  [Window!Next]_(Window!vars)
    <2>1. lock' = None /\ Holder = "rollout"
        BY <1>4, HolderIsRollout DEF DeployFails, EndHelper, IInv
    <2>2. Window!Abandon
        BY <1>1, <1>2, <2>1 DEF Window!Abandon, Holder, Served
    <2>3. QED
        BY <2>2 DEF Window!Next
<1>5. CASE Reboot
    <2>1. lock' = None /\ UNCHANGED container
        BY <1>5 DEF Reboot
    <2>2. CASE lock = None
        BY <1>1, <2>1, <2>2 DEF Window!vars
    <2>3. CASE lock = Mirror
        BY <1>1, <2>1, <2>3, ConstantsAssumption DEF Window!EndMirror, Window!Next
    <2>4. CASE lock \in Plays
        <3>1. Window!Abandon
            BY <1>1, <1>2, <2>1, <2>4, ConstantsAssumption DEF Window!Abandon, Served
        <3>2. QED
            BY <3>1 DEF Window!Next
    <2>5. QED
        BY <2>2, <2>3, <2>4 DEF TypeOK
<1>6. QED
    BY <1>3, <1>4, <1>5 DEF FaultStep

(* The role, its helper and the cron job implement the maintenance window: *)
(* rollout and mirror take turns, tokens change in rollouts only, and a    *)
(* verified rollout leaves them equal (deploy.sh, main.yml:114-142).       *)
THEOREM RoleImplementsWindow == Spec => ImplementsWindow
<1>1. Init => Window!Init
    BY DEF Init, NoFiles, Services, Window!Init, Window!MaybeToken
<1>2. TypeOK /\ TypeOK' /\ IInv /\ [Next]_vars => [Window!Next]_(Window!vars)
    <2> SUFFICES ASSUME TypeOK, TypeOK', IInv, [Next]_vars
                 PROVE  [Window!Next]_(Window!vars)
        OBVIOUS
    <2>1. CASE ChangeInventory \/ UNCHANGED vars
        BY <2>1 DEF ChangeInventory, vars, live, history, Window!vars
    <2>2. ASSUME NEW p \in Plays, Operator(p) \/ PlayStep(p)
          PROVE  [Window!Next]_(Window!vars)
        BY <2>2 DEF Operator, PlayStep, live, history, Window!vars
    <2>3. ASSUME NEW p \in Plays, AcquireLock(p)
          PROVE  [Window!Next]_(Window!vars)
        BY <2>3, ConstantsAssumption
        DEF AcquireLock, Flock, live, Window!BeginRollout, Window!Next
    <2>4. QED
        BY <2>1, <2>2, <2>3, DeployStepImplements, MirrorStepImplements,
           FaultStepImplements DEF Next
<1>3. QED
    BY <1>1, <1>2, TypeCorrect, Invariant, PTL DEF Spec, ImplementsWindow, Window!Spec

=============================================================================
