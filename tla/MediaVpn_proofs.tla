-------------------------- MODULE MediaVpn_proofs --------------------------
(***************************************************************************)
(* The safety properties of MediaVpn for any pods, any number of image     *)
(* versions and any number of faults.                                      *)
(***************************************************************************)
EXTENDS MediaVpn, TLAPS

(* Applications are only created once policies and gateway are in place    *)
(* (neither is taken away again), and the injector gave each its sidecar.  *)
Staged ==
    /\ enabled => isolation # 0 /\ release # 0
    /\ \A p \in Pods : pod[p] # NoPod => enabled /\ pod[p].sidecar # 0

IInv == TypeOK /\ Staged

LEMMA InitInvariant == Init => IInv
<1> SUFFICES ASSUME Init PROVE IInv
  OBVIOUS
<1>1. \A p \in Pods : pod[p] = NoPod
  BY DEF Init
<1>2. pod \in [Pods -> {NoPod} \cup [phase : {"init", "running", "finished"},
                                   sidecar : 0..MaxImage, detour : BOOLEAN]]
  BY DEF Init
<1>3. /\ repo \in 1..MaxImage
      /\ isolation \in 0..MaxImage /\ release \in 0..MaxImage /\ webhook \in 0..MaxImage
      /\ gateway \in {"down", "init", "guarded", "tunnel"}
      /\ replicas \in {0, 1} /\ faults \in Nat
  BY VpnAssumption, SMT DEF Init
<1>4. denied \in BOOLEAN /\ enabled \in BOOLEAN
  BY Zenon DEF Init
<1>5. TypeOK
  BY <1>2, <1>3, <1>4 DEF TypeOK
<1> QED BY <1>1, <1>5 DEF Init, IInv, Staged

LEMMA FluxPreserves == ASSUME IInv, FluxStep PROVE IInv'
<1> USE VpnAssumption DEF IInv, Staged, tunnel
<1>1. CASE Bump
  BY <1>1 DEF Bump, TypeOK
<1>2. CASE ApplyIsolation
  BY <1>2 DEF ApplyIsolation, Pin, TypeOK
<1>3. CASE UpgradeRelease
  BY <1>3 DEF UpgradeRelease, TypeOK
<1>4. CASE EnableApps
  BY <1>4 DEF EnableApps, DependenciesReady, TypeOK
<1>5. CASE RollWebhook
  BY <1>5 DEF RollWebhook, TypeOK
<1> QED BY <1>1, <1>2, <1>3, <1>4, <1>5 DEF FluxStep

LEMMA PodPreserves == ASSUME IInv, PodStep PROVE IInv'
<1> USE VpnAssumption DEF IInv, Staged, platform, tunnel
<1>1. CASE WebhookDies
  BY <1>1 DEF WebhookDies, Fault, TypeOK
<1>2. ASSUME NEW p \in Pods, CreatePod(p) PROVE IInv'
  <2>1. Injected \in 0..MaxImage /\ Injected # 0
    BY <1>2 DEF CreatePod, CreateDue, Injected, InjectorAnswers, TypeOK
  <2>2. pod' \in [Pods -> {NoPod} \cup [phase : {"init", "running", "finished"},
                                      sidecar : 0..MaxImage, detour : BOOLEAN]]
    BY <1>2, <2>1 DEF CreatePod, TypeOK
  <2>3. TypeOK'
    BY <1>2, <2>2 DEF CreatePod, TypeOK
  <2>4. \A q \in Pods : pod'[q] # NoPod => pod'[q].sidecar # 0
    BY <1>2, <2>1 DEF CreatePod, TypeOK
  <2> QED BY <1>2, <2>3, <2>4 DEF CreatePod, CreateDue
<1>3. ASSUME NEW p \in Pods, StartPod(p) \/ FinishJob(p) PROVE IInv'
  <2>1. pod[p] # NoPod
    BY <1>3 DEF StartPod, StartDue, FinishJob, NoPod
  <2>2. pod[p] \in [phase : {"init", "running", "finished"},
                    sidecar : 0..MaxImage, detour : BOOLEAN]
    BY <2>1 DEF TypeOK
  <2>3. \E phase \in {"running", "finished"} : pod' = [pod EXCEPT ![p].phase = phase]
    BY <1>3 DEF StartPod, FinishJob
  <2>4. TypeOK'
    BY <1>3, <2>2, <2>3 DEF StartPod, FinishJob, TypeOK
  <2>5. \A q \in Pods : pod'[q] # NoPod => pod[q] # NoPod /\ pod'[q].sidecar = pod[q].sidecar
    BY <2>1, <2>2, <2>3 DEF TypeOK
  <2> QED BY <1>3, <2>4, <2>5 DEF StartPod, FinishJob
<1>4. ASSUME NEW p \in Pods, DeletePod(p) \/ CompleteJob(p) PROVE IInv'
  <2>1. pod' = [pod EXCEPT ![p] = NoPod]
    BY <1>4 DEF DeletePod, CompleteJob, Gone
  <2>2. TypeOK'
    BY <1>4, <2>1 DEF DeletePod, CompleteJob, Fault, TypeOK
  <2>3. \A q \in Pods : pod'[q] # NoPod => pod'[q] = pod[q]
    BY <2>1 DEF TypeOK
  <2> QED BY <1>4, <2>2, <2>3 DEF DeletePod, CompleteJob
<1> QED BY <1>1, <1>2, <1>3, <1>4 DEF PodStep, Pods

LEMMA GatewayPreserves == ASSUME IInv, GatewayStep PROVE IInv'
  BY DEF GatewayStep, GatewayStarts, GatewayGuards, TunnelUp, TunnelLost, GatewayDies,
     Gateway, Fault, IInv, TypeOK, Staged, platform

LEMMA OperatorPreserves == ASSUME IInv, OperatorStep PROVE IInv'
<1> USE DEF IInv, Staged, platform, tunnel
<1>1. ASSUME NEW n \in {0, 1}, Scale(n) PROVE IInv'
  BY <1>1 DEF Scale, TypeOK
<1>2. ASSUME NEW on \in BOOLEAN, DenyRelays(on) PROVE IInv'
  BY <1>2 DEF DenyRelays, TypeOK
<1>3. ASSUME NEW on \in BOOLEAN, NEW p \in Pods, Detour(p, on) PROVE IInv'
  <2>1. pod[p] # NoPod
    BY <1>3 DEF Detour, NoPod
  <2>2. pod[p] \in [phase : {"init", "running", "finished"},
                    sidecar : 0..MaxImage, detour : BOOLEAN]
    BY <2>1 DEF TypeOK
  <2>3. TypeOK'
    BY <1>3, <2>2 DEF Detour, TypeOK
  <2>4. \A q \in Pods : pod'[q] # NoPod => pod[q] # NoPod /\ pod'[q].sidecar = pod[q].sidecar
    BY <1>3, <2>1, <2>2 DEF Detour, TypeOK
  <2> QED BY <1>3, <2>3, <2>4 DEF Detour
<1> QED BY <1>1, <1>2, <1>3 DEF OperatorStep

LEMMA StepInvariant == IInv /\ [Next]_vars => IInv'
<1> SUFFICES ASSUME IInv, [Next]_vars PROVE IInv'
  OBVIOUS
<1>1. CASE UNCHANGED vars
  BY <1>1 DEF vars, platform, tunnel, IInv, TypeOK, Staged
<1> QED
  BY <1>1, FluxPreserves, PodPreserves, GatewayPreserves, OperatorPreserves DEF Next

THEOREM Invariant == Spec => []IInv
  BY InitInvariant, StepInvariant, PTL DEF Spec

(* Every variable of the zone keeps its type.                              *)
THEOREM TypeCorrect == Spec => []TypeOK
<1>1. IInv => TypeOK
  BY DEF IInv
<1> QED BY <1>1, Invariant, PTL

(* No media pod exists without its sidecar.                                *)
THEOREM SidecarAlways == Spec => []SidecarInEveryPod
<1>1. IInv => SidecarInEveryPod
  BY DEF IInv, Staged, SidecarInEveryPod
<1> QED BY <1>1, Invariant, PTL

(* A state in which policies and gateway came first lets no public traffic *)
(* out directly.                                                           *)
LEMMA StagedIsClosed == IInv => NoDirectEgress
  BY DEF IInv, Staged, NoDirectEgress, Egress, Underlay, ThroughGateway

(* Public traffic of a media pod never leaves except through the VPN.      *)
THEOREM EgressFailsClosed == Spec => []NoDirectEgress
  BY StagedIsClosed, Invariant, PTL

-----------------------------------------------------------------------------
(* Only the pod of a Job is ever finished.                                 *)
OnlyJobsFinish == \A p \in Apps : pod[p].phase # "finished"

LEMMA FinishedInvariant == Spec => []OnlyJobsFinish
<1>1. Init => OnlyJobsFinish
  BY DEF Init, OnlyJobsFinish, NoPod, Pods
<1>2. TypeOK /\ OnlyJobsFinish /\ [Next]_vars => OnlyJobsFinish'
  <2> SUFFICES ASSUME TypeOK, OnlyJobsFinish, [Next]_vars PROVE OnlyJobsFinish'
    OBVIOUS
  <2> USE DEF OnlyJobsFinish, TypeOK, Pods
  <2>1. CASE UNCHANGED pod
    BY <2>1
  <2>2. ASSUME NEW p \in Pods, CreatePod(p) PROVE OnlyJobsFinish'
    BY <2>2 DEF CreatePod
  <2>3. ASSUME NEW p \in Pods, StartPod(p) PROVE OnlyJobsFinish'
    BY <2>3 DEF StartPod
  <2>4. ASSUME NEW p \in Pods, DeletePod(p) \/ CompleteJob(p) PROVE OnlyJobsFinish'
    BY <2>4 DEF DeletePod, CompleteJob, Gone, NoPod
  <2>5. ASSUME NEW p \in Jobs, FinishJob(p) PROVE OnlyJobsFinish'
    BY <2>5, VpnAssumption DEF FinishJob
  <2>6. ASSUME NEW p \in Pods, NEW on \in BOOLEAN, Detour(p, on) PROVE OnlyJobsFinish'
    BY <2>6 DEF Detour
  <2>7. CASE FluxStep \/ GatewayStep \/ WebhookDies
    BY <2>1, <2>7 DEF FluxStep, Bump, ApplyIsolation, UpgradeRelease, EnableApps, RollWebhook,
       WebhookDies, GatewayStep, GatewayStarts, GatewayGuards, TunnelUp, TunnelLost,
       GatewayDies, Gateway
  <2>8. ASSUME NEW n \in {0, 1}, NEW on \in BOOLEAN, Scale(n) \/ DenyRelays(on)
        PROVE  OnlyJobsFinish'
    BY <2>1, <2>8 DEF Scale, DenyRelays
  <2> QED
    BY <2>1, <2>2, <2>3, <2>4, <2>5, <2>6, <2>7, <2>8 DEF Next, PodStep, OperatorStep, vars
<1> QED BY <1>1, <1>2, TypeCorrect, PTL DEF Spec

(* In a zone where nothing is left to do, every application runs: pin,     *)
(* injector, gateway and pods never wait for one another.                  *)
THEOREM SettledRuns == Spec => []SettledZoneRuns
<1>1. IInv /\ OnlyJobsFinish => SettledZoneRuns
  <2> SUFFICES ASSUME IInv, OnlyJobsFinish, ZoneSettled, replicas = 1, NEW p \in Apps
               PROVE  pod[p].phase = "running"
    BY DEF SettledZoneRuns
  <2>1. repo \in Nat \ {0} /\ isolation = repo /\ release = repo /\ webhook = repo
    BY VpnAssumption DEF IInv, TypeOK, ZoneSettled, Pin
  <2>2. gateway \in {"guarded", "tunnel"}
    BY <2>1 DEF IInv, TypeOK, ZoneSettled
  <2>3. enabled
    BY <2>1 DEF ZoneSettled, DependenciesReady
  <2>4. pod[p] # NoPod
    BY <2>1, <2>3 DEF ZoneSettled, CreateDue, InjectorAnswers, Admitted, Injected
  <2>5. pod[p].phase \in {"init", "running", "finished"}
    BY <2>4 DEF IInv, TypeOK, Pods
  <2>6. pod[p].phase # "init"
    BY <2>2 DEF ZoneSettled, StartDue
  <2> QED BY <2>5, <2>6 DEF OnlyJobsFinish
<1> QED BY <1>1, Invariant, FinishedInvariant, PTL

=============================================================================
