---------------------------- MODULE RolloutChecks ----------------------------
(***************************************************************************)
(* What the live parts of two scripts conclude about workloads that are    *)
(* being rolled out while they look:                                       *)
(*   scripts/check-gitops-images.py      controllers of Flux and External  *)
(*     Secrets, from the status of their Deployments, one after the other, *)
(*     and then the FluxInstance                                           *)
(*   scripts/check-privileged-images.py  GPU and storage workloads, from   *)
(*     one list of all pods                                                *)
(* Every workload wants one pod.  Its controllers (external) replace pods  *)
(* and report on them later.                                               *)
(* An operator named "...Mutant" is a wrong variant of the one after it.   *)
(***************************************************************************)
EXTENDS Naturals, FiniteSets

CONSTANTS
    Workloads,
    Managed,     \* the ones that the FluxInstance installs; the others are Helm's
    MaxChanges   \* bound: changes of the distribution and Helm upgrades

ASSUME RolloutAssumption ==
    IsFiniteSet(Workloads) /\ Managed \subseteq Workloads /\ MaxChanges \in Nat

Images == {"pinned", "other"}  \* what the repository pins, and an older one

VARIABLES
    artifact,  \* the images of the distribution that the FluxInstance asks for
    template,  \* [Workloads -> image in the spec]
    pods,      \* [Workloads -> [Images -> the pod with that image]]
    report,    \* [Workloads -> [fresh, full]], the status: is the observed generation
               \* that of the spec, and are all counts what the spec wants?
    ready,     \* the FluxInstance is Ready and has applied the pinned revision
    rolled,    \* workloads that since their last change of spec had at some moment
               \* one pod, ready and of the image of the spec (history)
    check,     \* the script: its step, the Deployments still to read
    changes

rolloutVars == <<artifact, template, pods, report, ready, rolled, check, changes>>

PodStates == {"none", "unstarted", "unready", "ready"}  \* unstarted: no containerStatuses
Alive(w) == {i \in Images : pods[w][i] # "none"}
Ready(w) == {i \in Images : pods[w][i] = "ready"}

RolloutTypeOK ==
    /\ artifact \in Images
    /\ template \in [Workloads -> Images]
    /\ pods \in [Workloads -> [Images -> PodStates]]
    /\ report \in [Workloads -> [fresh : BOOLEAN, full : BOOLEAN]]
    /\ ready \in BOOLEAN
    /\ rolled \in SUBSET Workloads
    /\ check \in [step : {"idle", "reading", "passed", "listed", "failed"},
                 left : SUBSET Workloads]
    /\ changes \in Nat

Only(i, state) == [j \in Images |-> IF j = i THEN state ELSE "none"]

RolledOut(w) == pods[w] = Only(template[w], "ready")

(* What is pinned has just been merged; nothing runs it yet.               *)
RolloutInit ==
    /\ artifact = "pinned"
    /\ template = [w \in Workloads |-> "other"]
    /\ pods = [w \in Workloads |-> Only("other", "ready")]
    /\ report = [w \in Workloads |-> [fresh |-> TRUE, full |-> TRUE]]
    /\ ready = FALSE
    /\ rolled = Workloads
    /\ check = [step |-> "idle", left |-> {}]
    /\ changes = 0

-----------------------------------------------------------------------------
(* The cluster.                                                            *)

ChangeDistribution ==
    /\ changes < MaxChanges /\ changes' = changes + 1
    /\ artifact' \in Images \ {artifact}
    /\ UNCHANGED <<template, pods, report, ready, rolled, check>>

(* The operator begins with a new distribution: not ready ...              *)
Unready ==
    /\ ready /\ \E w \in Managed : template[w] # artifact
    /\ ready' = FALSE
    /\ UNCHANGED <<artifact, template, pods, report, rolled, check, changes>>

(* ... then changes the Deployments one by one ...  Helm does so too.      *)
Upgrade(w, i) ==
    /\ template[w] # i
    /\ \/ w \in Managed /\ ~ready /\ i = artifact /\ UNCHANGED changes
       \/ w \notin Managed /\ changes < MaxChanges /\ changes' = changes + 1
    /\ template' = [template EXCEPT ![w] = i]
    /\ report' = [report EXCEPT ![w].fresh = FALSE]
    /\ UNCHANGED <<artifact, pods, ready, check>>
    /\ rolled' = IF RolledOut(w)' THEN rolled \cup {w} ELSE rolled \ {w}

(* ... and says so when their reports are complete.                        *)
Applied ==
    /\ ~ready /\ artifact = "pinned"
    /\ \A w \in Managed : template[w] = artifact /\ report[w].fresh /\ report[w].full
    /\ ready' = TRUE
    /\ UNCHANGED <<artifact, template, pods, report, rolled, check, changes>>

(* A pod is made, gets its statuses, becomes ready or not, or goes; the    *)
(* one with the other image goes when the new one is ready, any is lost.   *)
PodStep(w, i) ==
    /\ \/ pods[w][i] = "none" /\ i = template[w] /\ pods' = [pods EXCEPT ![w][i] = "unstarted"]
       \/ pods[w][i] = "unstarted" /\ pods' = [pods EXCEPT ![w][i] = "unready"]
       \/ pods[w][i] = "unready" /\ pods' = [pods EXCEPT ![w][i] = "ready"]
       \/ pods[w][i] = "ready" /\ pods' = [pods EXCEPT ![w][i] = "unready"]
       \/ pods[w][i] # "none" /\ pods' = [pods EXCEPT ![w][i] = "none"]
    /\ UNCHANGED <<artifact, template, report, ready, check, changes>>
    /\ rolled' = IF RolledOut(w)' THEN rolled \cup {w} ELSE rolled

(* The counts that the script compares with the one pod that is wanted:    *)
(* replicas, updatedReplicas, readyReplicas.                               *)
Full(w) == /\ Cardinality(Alive(w)) = 1
           /\ template[w] \in Alive(w)
           /\ Cardinality(Ready(w)) = 1

(* The controller looks at spec and pods and writes what it counts.        *)
Report(w) ==
    /\ report' = [report EXCEPT ![w] = [fresh |-> TRUE, full |-> Full(w)]]
    /\ report' # report
    /\ UNCHANGED <<artifact, template, pods, ready, rolled, check, changes>>

-----------------------------------------------------------------------------
(* check-gitops-images.py --live.                                          *)

GitopsStart ==
    /\ check.step # "reading"
    /\ check' = [step |-> "reading", left |-> Workloads]
    /\ UNCHANGED <<artifact, template, pods, report, ready, rolled, changes>>

(* The asserts about one Deployment.  Mutant: without the generation.      *)
CompleteMutant(w) == template[w] = "pinned" /\ report[w].full
Complete(w) == template[w] = "pinned" /\ report[w].fresh /\ report[w].full

ReadDeployment(w) ==
    /\ check.step = "reading" /\ w \in check.left
    /\ check' = IF Complete(w) THEN [check EXCEPT !.left = @ \ {w}]
                 ELSE [step |-> "failed", left |-> {}]
    /\ UNCHANGED <<artifact, template, pods, report, ready, rolled, changes>>

(* Its artifact, the revision it last applied, its Ready condition.        *)
SettledInstance == artifact = "pinned" /\ ready

ReadInstance ==
    /\ check.step = "reading" /\ check.left = {}
    /\ check' = [check EXCEPT !.step = IF SettledInstance THEN "passed" ELSE "failed"]
    /\ UNCHANGED <<artifact, template, pods, report, ready, rolled, changes>>

-----------------------------------------------------------------------------
(* check-privileged-images.py --live: a pinned image, all container        *)
(* statuses ready (no status, no objection), and enough pods in all.       *)
Shown == {p \in Workloads \X Images : pods[p[1]][p[2]] # "none"}
ListPasses ==
    /\ \A p \in Shown : p[2] = "pinned" /\ pods[p[1]][p[2]] # "unready"
    /\ Cardinality(Shown) >= Cardinality(Workloads)

ListPods ==
    /\ check.step # "reading"
    /\ check' = [check EXCEPT !.step = IF ListPasses THEN "listed" ELSE "failed"]
    /\ UNCHANGED <<artifact, template, pods, report, ready, rolled, changes>>

RolloutNext ==
    \/ ChangeDistribution \/ Unready \/ Applied
    \/ \E w \in Workloads : Report(w) \/ \E i \in Images : Upgrade(w, i) \/ PodStep(w, i)
    \/ GitopsStart \/ (\E w \in Workloads : ReadDeployment(w)) \/ ReadInstance
    \/ ListPods

RolloutSpec == RolloutInit /\ [][RolloutNext]_rolloutVars

-----------------------------------------------------------------------------
(* Properties.                                                             *)

(* check-gitops-images.py goes past a Deployment only if its rollout       *)
(* really came to an end since the spec last changed: a report about the   *)
(* spec before, or one that the old pod helped to fill, does not do.  And  *)
(* when it passes that still holds of all that the FluxInstance installs,  *)
(* however long ago it read them: read last, it would not be Ready.        *)
Accepts(w) == \/ w \in check.left \ check'.left /\ check'.step = "reading"
              \/ check.step = "reading" /\ check'.step = "passed" /\ w \in Managed

PassedRollouts ==
    [][\A w \in Workloads : Accepts(w) => w \in rolled /\ template[w] = "pinned"]_rolloutVars

(* check-privileged-images.py:117-119 takes its list for workloads that    *)
(* are Ready ("not Ready", "Missing expected GPU/storage workloads").      *)
ListedAreReady ==
    [][check'.step = "listed" /\ check.step # "listed"
          => \A w \in Workloads : Ready(w) # {}]_rolloutVars
=============================================================================
