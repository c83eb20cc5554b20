------------------------------ MODULE MediaVpn ------------------------------
(***************************************************************************)
(* The media zone and its VPN: Flux applies three kinds of Kustomization   *)
(* (media-isolation: network policies and the admission pin; vpn-gateway:  *)
(* injector, gateway pod and their policies; the applications), pods pass  *)
(* the injector and the admission policy, and public traffic leaves, if at *)
(* all, through the gateway's WireGuard tunnel.                            *)
(* An operator named "...Mutant" is a wrong variant of the one after it.   *)
(***************************************************************************)
EXTENDS Naturals

CONSTANTS
    Apps,         \* pods of Deployments (qbittorrent, ...)
    Jobs,         \* pods of CronJobs that forbid concurrency (recyclarr)
    MaxImage,     \* bound: versions of the pod-gateway image that Git names
    MaxFaults     \* bound: lost tunnels, dying gateways and webhooks, deleted pods

ASSUME VpnAssumption ==
    /\ Apps \cap Jobs = {}
    /\ MaxImage \in Nat \ {0} /\ MaxFaults \in Nat

VARIABLES
    repo,         \* image version in Git: Helm value and admission pin agree
    isolation,    \* version media-isolation is applied at, 0 if it is not
    release,      \* version the vpn-gateway release is at, 0 if there is none
    webhook,      \* version that the running injector injects, 0 if none runs
    gateway,      \* the gateway pod
    replicas,     \* of the Deployment media-vpn-main: 0 or 1
    denied,       \* does a policy cut the gateway off from the relays?
    enabled,      \* have the applications' Kustomizations been applied?
    pod,          \* pod[p]: phase, image of its sidecar (0: no sidecar), and
                  \* whether some public address is routed past the VXLAN
    faults

Pods     == Apps \cup Jobs
platform == <<repo, isolation, release, webhook, enabled>>
tunnel   == <<gateway, replicas, denied>>
vars     == <<platform, tunnel, pod, faults>>

NoPod == [phase |-> "none", sidecar |-> 0, detour |-> FALSE]

TypeOK ==
    /\ repo \in 1..MaxImage
    /\ isolation \in 0..MaxImage /\ release \in 0..MaxImage /\ webhook \in 0..MaxImage
    /\ gateway \in {"down", "init", "guarded", "tunnel"}
    /\ replicas \in {0, 1} /\ denied \in BOOLEAN /\ enabled \in BOOLEAN
    /\ pod \in [Pods -> {NoPod} \cup [phase : {"init", "running", "finished"},
                                      sidecar : 0..MaxImage, detour : BOOLEAN]]
    /\ faults \in Nat

Init ==
    /\ repo = 1 /\ isolation = 0 /\ release = 0 /\ webhook = 0
    /\ gateway = "down" /\ replicas = 1 /\ denied = FALSE /\ enabled = FALSE
    /\ pod = [p \in Pods |-> NoPod]
    /\ faults = 0

Fault == faults < MaxFaults /\ faults' = faults + 1

-----------------------------------------------------------------------------
(* Git and Flux.                                                           *)

(* Renovate bumps the Helm value and the admission pin in one commit.      *)
Bump ==
    /\ repo < MaxImage /\ repo' = repo + 1
    /\ UNCHANGED <<isolation, release, webhook, enabled, tunnel, pod, faults>>

(* The image that the admission policy of Git pins.  Mutant: without the   *)
(* custom manager, Renovate leaves the pin behind.                         *)
PinMutant == 1
Pin == repo

(* media-isolation and vpn-gateway do not depend on each other.            *)
ApplyIsolation ==
    /\ isolation # Pin /\ isolation' = Pin
    /\ UNCHANGED <<repo, release, webhook, enabled, tunnel, pod, faults>>

(* A new release replaces the gateway pod; the injector rolls over later.  *)
UpgradeRelease ==
    /\ release # repo /\ release' = repo
    /\ gateway' = "down"
    /\ UNCHANGED <<repo, isolation, webhook, enabled, replicas, denied, pod, faults>>

(* dependsOn of every application, with wait: true on both.  Mutants:      *)
(* without media-isolation; without either.                                *)
NoIsolationMutant == release # 0 /\ webhook # 0
NoDependenciesMutant == TRUE
DependenciesReady == isolation # 0 /\ release # 0 /\ webhook # 0

EnableApps ==
    /\ ~enabled /\ DependenciesReady
    /\ enabled' = TRUE
    /\ UNCHANGED <<repo, isolation, release, webhook, tunnel, pod, faults>>

-----------------------------------------------------------------------------
(* Admission and life of the pods.                                         *)

RollWebhook ==
    /\ webhook # release /\ webhook' = release
    /\ UNCHANGED <<repo, isolation, release, enabled, tunnel, pod, faults>>

WebhookDies ==
    /\ Fault
    /\ webhook # 0 /\ webhook' = 0
    /\ UNCHANGED <<repo, isolation, release, enabled, tunnel, pod>>

(* failurePolicy Fail: once the configuration is registered, no pod of the *)
(* untrusted zone is created without an answer.                            *)
Injected == IF release = 0 THEN 0 ELSE webhook
InjectorAnswers == release = 0 \/ webhook # 0

(* media-requires-vpn looks at every CREATE and UPDATE of a pod.           *)
Admitted(sidecar) == isolation = 0 \/ sidecar = isolation

CreateDue(p) == enabled /\ pod[p] = NoPod /\ InjectorAnswers /\ Admitted(Injected)

CreatePod(p) ==
    /\ CreateDue(p)
    /\ pod' = [pod EXCEPT ![p] = [phase |-> "init", sidecar |-> Injected, detour |-> FALSE]]
    /\ UNCHANGED <<platform, tunnel, faults>>

(* A pod with the sidecar waits for the gateway before its app starts.     *)
StartDue(p) ==
    /\ pod[p].phase = "init"
    /\ pod[p].sidecar # 0 => gateway \in {"guarded", "tunnel"}

StartPod(p) ==
    /\ StartDue(p)
    /\ pod' = [pod EXCEPT ![p].phase = "running"]
    /\ UNCHANGED <<platform, tunnel, faults>>

(* Anything in the pod with NET_ADMIN may route an address past the VXLAN. *)
Detour(p, on) ==
    /\ pod[p].phase = "running" /\ pod[p].detour # on
    /\ pod' = [pod EXCEPT ![p].detour = on]
    /\ UNCHANGED <<platform, tunnel, faults>>

(* Mutant: what the next pod of the same name starts from is not reset.    *)
GoneMutant(p) == [pod EXCEPT ![p].phase = "none"]
Gone(p) == [pod EXCEPT ![p] = NoPod]

(* A drain, Reloader or a rollout deletes a Deployment's pod.              *)
DeletePod(p) ==
    /\ Fault
    /\ pod[p] # NoPod
    /\ pod' = Gone(p)
    /\ UNCHANGED <<platform, tunnel>>

FinishJob(p) ==
    /\ pod[p].phase = "running"
    /\ pod' = [pod EXCEPT ![p].phase = "finished"]
    /\ UNCHANGED <<platform, tunnel, faults>>

(* The Job controller completes a Job, and the CronJob may start the next, *)
(* once it has removed its finalizer from the pod: an UPDATE of the pod.   *)
CompleteJob(p) ==
    /\ pod[p].phase = "finished"
    /\ Admitted(pod[p].sidecar)
    /\ pod' = Gone(p)
    /\ UNCHANGED <<platform, tunnel, faults>>

-----------------------------------------------------------------------------
(* The gateway pod: init container "routes" (gateway_init.sh, then the     *)
(* forward guard), then gluetun, whose post-rules repeat the guard.        *)

Gateway(from, to) ==
    /\ gateway = from /\ gateway' = to
    /\ UNCHANGED <<platform, replicas, denied, pod>>

GatewayStarts == release # 0 /\ replicas # 0 /\ Gateway("down", "init") /\ UNCHANGED faults
GatewayGuards == Gateway("init", "guarded") /\ UNCHANGED faults
TunnelUp      == ~denied /\ Gateway("guarded", "tunnel") /\ UNCHANGED faults
TunnelLost    == Fault /\ Gateway("tunnel", "guarded")
GatewayDies   == Fault /\ gateway # "down" /\ Gateway(gateway, "down")

(* What an operator does in a maintenance window.                          *)
Scale(n) ==
    /\ replicas' = n
    /\ gateway' = IF n = 0 THEN "down" ELSE gateway
    /\ UNCHANGED <<platform, denied, pod, faults>>

DenyRelays(on) ==
    /\ denied' = on
    /\ UNCHANGED <<platform, gateway, replicas, pod, faults>>

FluxStep == Bump \/ ApplyIsolation \/ UpgradeRelease \/ EnableApps \/ RollWebhook

PodStep ==
    \/ WebhookDies
    \/ \E p \in Pods : CreatePod(p) \/ StartPod(p)
    \/ \E p \in Apps : DeletePod(p)
    \/ \E p \in Jobs : FinishJob(p) \/ CompleteJob(p)

GatewayStep == GatewayStarts \/ GatewayGuards \/ TunnelUp \/ TunnelLost \/ GatewayDies

OperatorStep ==
    \/ \E n \in {0, 1} : Scale(n)
    \/ \E on \in BOOLEAN : DenyRelays(on) \/ \E p \in Pods : Detour(p, on)

Next == FluxStep \/ PodStep \/ GatewayStep \/ OperatorStep

Spec == Init /\ [][Next]_vars

(* Flux and the controllers keep reconciling, and pods start when they can. *)
Fairness ==
    /\ WF_vars(ApplyIsolation) /\ WF_vars(UpgradeRelease) /\ WF_vars(EnableApps)
    /\ WF_vars(RollWebhook)
    /\ WF_vars(GatewayStarts) /\ WF_vars(GatewayGuards) /\ WF_vars(TunnelUp)
    /\ \A p \in Pods : WF_vars(CreatePod(p)) /\ WF_vars(StartPod(p))
    /\ \A p \in Jobs : WF_vars(FinishJob(p)) /\ WF_vars(CompleteJob(p))

FairSpec == Spec /\ Fairness

-----------------------------------------------------------------------------
(* Where a packet of pod p for a public address ends up.                   *)

(* The application's policies know the gateway, never a public address.    *)
Underlay(p) == IF isolation = 0 THEN "direct" ELSE "blocked"

(* Before the guard the gateway may forward to eth0, where only its own    *)
(* policy (the relays on 51820) stops the packet.                          *)
ThroughGateway ==
    IF gateway = "init" THEN IF release = 0 THEN "direct" ELSE "blocked"
    ELSE IF gateway = "tunnel" /\ ~denied THEN "vpn" ELSE "blocked"

Egress(p, detoured) ==
    IF pod[p].sidecar = 0 \/ (detoured /\ pod[p].detour) THEN Underlay(p)
    ELSE ThroughGateway

-----------------------------------------------------------------------------
(* Properties.                                                             *)

(* Public traffic of a media pod never leaves except through the VPN: not  *)
(* while things are being applied, restarted, denied or scaled down, and   *)
(* not for an address routed past the VXLAN (workload-isolation-migration  *)
(* .md:27-30, 147, 152-153).                                               *)
NoDirectEgress ==
    \A p \in Pods : pod[p] # NoPod =>
        \A detoured \in BOOLEAN : Egress(p, detoured) # "direct"

(* No media pod exists without the VPN sidecar, whatever order Flux        *)
(* applied things in and whenever the injector was down (:154).            *)
SidecarInEveryPod == \A p \in Pods : pod[p] # NoPod => pod[p].sidecar # 0

(* Once Git and the operators stay put, every application is up again: an  *)
(* image bump that reaches the injector and the admission pin at different *)
(* times refuses pods only in between (admission.yaml:25-26, .renovaterc   *)
(* .json5:257).                                                            *)
AppsComeBack ==
    \A p \in Apps : <>[](replicas = 1) => <>[](pod[p].phase = "running")

(* The half of it that a finite behaviour can break: when Flux, injector,  *)
(* gateway and pods have nothing left to do that admission and start order *)
(* allow, every application runs.  None waits for what the others hold     *)
(* back, whatever was bumped, rerouted, denied or killed before.           *)
ZoneSettled ==
    /\ isolation = Pin /\ release = repo /\ webhook = release
    /\ DependenciesReady => enabled
    /\ gateway # "init" /\ (release # 0 /\ replicas # 0 => gateway # "down")
    /\ \A p \in Apps : ~CreateDue(p) /\ ~StartDue(p)

SettledZoneRuns ==
    ZoneSettled /\ replicas = 1 => \A p \in Apps : pod[p].phase = "running"

(* "Recyclarr CronJob finishes | Native VPN sidecar terminates and Job     *)
(* completes" (workload-isolation-migration.md:155).                       *)
JobCompletes == \A p \in Jobs : pod[p].phase = "finished" ~> pod[p] = NoPod

=============================================================================
