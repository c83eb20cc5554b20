----------------------------- MODULE Bootstrap -----------------------------
(***************************************************************************)
(* One-time bootstrap of the Talos cluster: scripts/bootstrap-apps.sh with *)
(* scripts/lib/common.sh, run and rerun by hand (task bootstrap:apps).     *)
(* The script waits for the nodes, then applies namespaces, SOPS secrets   *)
(* and CRDs, and syncs a chain of Helm releases.  It keeps no state: each  *)
(* run looks at the cluster.  Nodes join, and become Ready once the CNI    *)
(* (cilium) runs; a run can fail anywhere, be interrupted, or lose the API *)
(* server for a while.                                                     *)
(* An operator named "...Mutant" is a wrong variant of the one after it.   *)
(***************************************************************************)
EXTENDS Naturals, Sequences

CONSTANTS
    Nodes,
    Namespaces,   \* directories under kubernetes/apps
    Secrets,      \* SOPS files the script knows
    Missing,      \* those of them that are not in the checkout
    MaxBumps,     \* bound: changes of charts and secrets in the repository
    MaxFaults     \* bound: failed commands, interruptions, reboots of nodes

ASSUME BootstrapAssumption ==
    /\ Nodes # {} /\ Missing \subseteq Secrets
    /\ MaxBumps \in Nat /\ MaxFaults \in Nat

VARIABLES
    node,         \* node[n]: has it joined, is it Ready?
    namespaces,   \* namespaces that exist
    secret,       \* secret[s]: is the file's content applied?
    crds,         \* are the CRDs of 00-crds.yaml applied?
    release,      \* release[i]: state of the i-th release of 01-apps.yaml
    pc,           \* where the script is
    todo,         \* what its current loop has yet to visit
    next,         \* index of the release helmfile syncs next
    bumps, faults

cluster == <<node, namespaces, secret, crds, release>>
script  == <<pc, todo, next>>
vars    == <<cluster, script, bumps, faults>>

(* 01-apps.yaml: each release "needs" the one before it.                   *)
(* Mutant: coredns no longer "needs" cilium, and is synced before it.      *)
ChainMutant == <<"coredns", "cilium", "cert-manager", "flux-operator", "flux-instance">>
Chain == <<"cilium", "coredns", "cert-manager", "flux-operator", "flux-instance">>
(* Releases whose values ask for a ServiceMonitor, a kind of 00-crds.yaml. *)
Monitored == {"cilium", "cert-manager", "flux-operator"}
(* "old": applied, but not (or not all of it) as the repository has it.    *)
Versions  == {"none", "old", "current"}
Running   == {"check", "wait", "namespaces", "secrets", "crds", "releases"}
PCs       == Running \cup {"idle", "failed", "done"}

TypeOK ==
    /\ node \in [Nodes -> {"absent", "notready", "ready"}]
    /\ namespaces \subseteq Namespaces
    /\ secret \in [Secrets -> Versions]
    /\ crds \in Versions
    /\ release \in [1..Len(Chain) -> Versions]
    /\ pc \in PCs
    /\ todo \in SUBSET (Namespaces \cup Secrets)
    /\ next \in 1..(Len(Chain) + 1)
    /\ bumps \in Nat /\ faults \in Nat

Init ==
    /\ node = [n \in Nodes |-> "absent"]
    /\ namespaces = {}
    /\ secret = [s \in Secrets |-> "none"]
    /\ crds = "none"
    /\ release = [i \in 1..Len(Chain) |-> "none"]
    /\ pc = "idle" /\ todo = {} /\ next = 1
    /\ bumps = 0 /\ faults = 0

-----------------------------------------------------------------------------
(* The cluster and the repository around the script.                       *)

Fault == faults < MaxFaults /\ faults' = faults + 1

NodeJoins(n) ==
    /\ node[n] = "absent"
    /\ node' = [node EXCEPT ![n] = "notready"]
    /\ UNCHANGED <<namespaces, secret, crds, release, script, bumps, faults>>

CniRuns == \E i \in 1..Len(Chain) : Chain[i] = "cilium" /\ release[i] # "none"

NodeReady(n) ==
    /\ node[n] = "notready" /\ CniRuns
    /\ node' = [node EXCEPT ![n] = "ready"]
    /\ UNCHANGED <<namespaces, secret, crds, release, script, bumps, faults>>

NodeReboots(n) ==
    /\ Fault
    /\ node[n] = "ready"
    /\ node' = [node EXCEPT ![n] = "notready"]
    /\ UNCHANGED <<namespaces, secret, crds, release, script, bumps>>

Aged(version) == IF version = "current" THEN "old" ELSE version

(* Between runs a commit brings new secrets, CRDs and chart versions.      *)
Bump ==
    /\ pc \notin Running /\ bumps < MaxBumps /\ bumps' = bumps + 1
    /\ secret' = [s \in Secrets |-> Aged(secret[s])]
    /\ crds' = Aged(crds)
    /\ release' = [i \in 1..Len(Chain) |-> Aged(release[i])]
    /\ UNCHANGED <<node, namespaces, script, faults>>

-----------------------------------------------------------------------------
(* The script.                                                             *)

Run ==
    /\ pc \notin Running
    /\ pc' = "check"
    /\ UNCHANGED <<cluster, todo, next, bumps, faults>>

(* kubectl wait nodes --all: about the nodes that have joined, and failing *)
(* when there is none.                                                     *)
AllNodesAre(status) ==
    /\ \E n \in Nodes : node[n] # "absent"
    /\ \A n \in Nodes : node[n] \in {"absent", status}

StartNamespaces == pc' = "namespaces" /\ todo' = Namespaces /\ UNCHANGED next

(* The first look: skip the wait when every node is Ready.  A kubectl that *)
(* fails for another reason counts as "not Ready".                         *)
SkipWait ==
    /\ pc = "check" /\ AllNodesAre("ready")
    /\ StartNamespaces
    /\ UNCHANGED <<cluster, bumps, faults>>

EnterWait ==
    /\ pc = "check" /\ pc' = "wait"
    /\ (~AllNodesAre("ready") /\ UNCHANGED faults) \/ Fault
    /\ UNCHANGED <<cluster, todo, next, bumps>>

(* until kubectl wait nodes --for=condition=Ready=False                    *)
LeaveWait ==
    /\ pc = "wait" /\ AllNodesAre("notready")
    /\ StartNamespaces
    /\ UNCHANGED <<cluster, bumps, faults>>

(* log error prints and exits.  Mutant: it only prints.                    *)
LogErrorMutant == UNCHANGED pc
LogError == pc' = "failed"

ApplyNamespace(ns) ==
    /\ pc = "namespaces" /\ ns \in todo
    /\ \/ /\ namespaces' = namespaces \cup {ns}
          /\ UNCHANGED <<pc, faults>>
       \/ Fault /\ LogError /\ UNCHANGED namespaces
    /\ todo' = todo \ {ns}
    /\ UNCHANGED <<node, secret, crds, release, next, bumps>>

NamespacesDone ==
    /\ pc = "namespaces" /\ todo = {}
    /\ pc' = "secrets" /\ todo' = Secrets
    /\ UNCHANGED <<cluster, next, bumps, faults>>

(* A missing file is a warning; kubectl diff decides whether to apply.     *)
ApplySecret(s) ==
    /\ pc = "secrets" /\ s \in todo
    /\ \/ /\ secret' = [secret EXCEPT ![s] = IF s \in Missing THEN @ ELSE "current"]
          /\ UNCHANGED <<pc, faults>>
       \/ s \notin Missing /\ Fault /\ LogError /\ UNCHANGED secret
    /\ todo' = todo \ {s}
    /\ UNCHANGED <<node, namespaces, crds, release, next, bumps>>

SecretsDone ==
    /\ pc = "secrets" /\ todo = {}
    /\ pc' = "crds"
    /\ UNCHANGED <<cluster, todo, next, bumps, faults>>

(* Rendering or applying the CRDs may fail.  log fatal is no level that    *)
(* exits, so the script goes on to the releases either way.                *)
ApplyCrds ==
    /\ pc = "crds" /\ pc' = "releases"
    /\ next' = 1
    /\ \/ crds' = "current" /\ UNCHANGED faults
       \/ Fault /\ UNCHANGED crds
    /\ UNCHANGED <<node, namespaces, secret, release, todo, bumps>>

(* "needs": helmfile goes from a release to the one that needs it.         *)
(* Mutants: a release that exists already ends the sync; one is left out.  *)
NextReleaseMutant(i) == IF release[i] # "none" THEN Len(Chain) + 1 ELSE i + 1
SkippingMutant(i) == i + 2
NextRelease(i) == i + 1

(* A kind of 00-crds.yaml that the API server does not know fails the      *)
(* release at once.                                                        *)
Renders(i) == Chain[i] \in Monitored => crds # "none"

(* wait: only the CNI's own pods run on a node that is not Ready.          *)
Schedules(i) == Chain[i] = "cilium" \/ \E n \in Nodes : node[n] = "ready"

(* helmfile sync installs or upgrades one release after another and waits  *)
(* for each.  A failed one may leave part of its objects behind.           *)
SyncRelease ==
    /\ pc = "releases" /\ next <= Len(Chain)
    /\ \/ /\ Renders(next) /\ Schedules(next)
          /\ release' = [release EXCEPT ![next] = "current"]
          /\ next' = NextRelease(next)
          /\ UNCHANGED <<pc, faults>>
       \/ /\ ~Renders(next) /\ UNCHANGED <<release, faults>>
          /\ LogError /\ UNCHANGED next
       \/ /\ Renders(next) /\ Fault
          /\ \/ UNCHANGED release
             \/ release' = [release EXCEPT ![next] = "old"]
          /\ LogError /\ UNCHANGED next
    /\ UNCHANGED <<node, namespaces, secret, crds, todo, bumps>>

Finish ==
    /\ pc = "releases" /\ next > Len(Chain)
    /\ pc' = "done"
    /\ UNCHANGED <<cluster, todo, next, bumps, faults>>

Interrupt ==
    /\ Fault
    /\ pc \in Running /\ pc' = "failed"
    /\ UNCHANGED <<cluster, todo, next, bumps>>

ScriptStep ==
    \/ SkipWait \/ EnterWait \/ LeaveWait
    \/ \E ns \in Namespaces : ApplyNamespace(ns)
    \/ NamespacesDone
    \/ \E s \in Secrets : ApplySecret(s)
    \/ SecretsDone \/ ApplyCrds \/ SyncRelease \/ Finish

Next ==
    \/ \E n \in Nodes : NodeJoins(n) \/ NodeReady(n) \/ NodeReboots(n)
    \/ Bump \/ Run \/ ScriptStep \/ Interrupt

Spec == Init /\ [][Next]_vars

UpToDate ==
    /\ namespaces = Namespaces
    /\ \A s \in Secrets \ Missing : secret[s] = "current"
    /\ \A i \in 1..Len(Chain) : release[i] = "current"

(* Machines boot and join, the script's commands return, and the operator  *)
(* reruns it until the cluster is as the repository says.                  *)
Fairness ==
    /\ \A n \in Nodes : WF_vars(NodeJoins(n)) /\ WF_vars(NodeReady(n))
    /\ WF_vars(ScriptStep)
    /\ WF_vars(~UpToDate /\ Run)

FairSpec == Spec /\ Fairness

-----------------------------------------------------------------------------
(* Properties.                                                             *)

(* Flux starts to reconcile only in a cluster that has every namespace,    *)
(* every secret whose file exists and every release before Flux, as the    *)
(* repository has them, after any number of failed, interrupted and        *)
(* repeated runs (bootstrap-apps.sh:26, 56 and 148-153; common.sh:64-67).  *)
FluxStartsPrepared ==
    [][release[Len(Chain)] = "none" /\ release'[Len(Chain)] # "none" =>
        /\ namespaces = Namespaces
        /\ \A s \in Secrets \ Missing : secret[s] = "current"
        /\ \A i \in 1..(Len(Chain) - 1) : release[i] = "current"]_vars

(* What "Congrats" promises (bootstrap-apps.sh:155): a run that got to its *)
(* end left namespaces, secrets and releases as the repository has them.   *)
DoneIsUpToDate == [][pc # "done" /\ pc' = "done" => UpToDate]_vars

(* Reruns converge, unless a run stays in wait_for_nodes: nowhere else can *)
(* the script hang, and nothing a failed run left behind blocks the next.  *)
ConvergesOrWaits == <>[]UpToDate \/ <>[](pc = "wait")

(* What the script needs for its next step is there, but for a fault.      *)
StepDue ==
    \/ pc \in {"check", "crds"}
    \/ pc = "namespaces" /\ (todo = {} \/ todo \cap Namespaces # {})
    \/ pc = "secrets" /\ (todo = {} \/ todo \cap Secrets # {})
    \/ pc = "releases" /\ (next <= Len(Chain) /\ Renders(next) => Schedules(next))

(* All nodes have joined, and those that can be Ready are.                 *)
NodesSettled == \A n \in Nodes : node[n] = "ready" \/ (node[n] = "notready" /\ ~CniRuns)

(* The half of it that a finite behaviour can break: helmfile, which waits *)
(* for the pods of each release (01-apps.yaml:5-6), never waits for pods   *)
(* that no node can run, whatever a reboot or a failed, partial sync left; *)
(* and no loop is left with nothing to do but not over.                    *)
OnlyWaitHangs == pc \in Running \ {"wait"} /\ NodesSettled => StepDue

(* "CRDs to be applied before the helmfile charts are installed"           *)
(* (bootstrap-apps.sh:87).                                                 *)
CrdsBeforeReleases == pc = "releases" => crds = "current"

(* "Skip waiting if all nodes are 'Ready=True'" (bootstrap-apps.sh:13): a  *)
(* cluster whose nodes are all Ready for good is not waited for for ever.  *)
ReadyNodesEndTheWait ==
    <>[](\A n \in Nodes : node[n] = "ready") => []<>(pc # "wait")

=============================================================================
