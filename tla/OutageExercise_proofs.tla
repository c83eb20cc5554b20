----------------------- MODULE OutageExercise_proofs -----------------------
(***************************************************************************)
(* The script of OutageExercise keeps the promises of MediaVpn, undoes     *)
(* what it did and reports honestly, for any number of runs, failed calls  *)
(* and faults.                                                             *)
(***************************************************************************)
EXTENDS OutageExercise, MediaVpn_proofs

-----------------------------------------------------------------------------
(* The script as an operator of MediaVpn.                                  *)

(* The number restored is one that was read.                               *)
ExerciseInv == IInv /\ saved \in {0, 1}

LEMMA ExerciseStarts == ExerciseInit => ExerciseInv
<1> SUFFICES ASSUME ExerciseInit PROVE ExerciseInv
  OBVIOUS
<1>1. \A p \in Pods : pod[p].sidecar = 1
  BY DEF ExerciseInit
<1>2. [phase |-> "running", sidecar |-> 1, detour |-> FALSE]
        \in [phase : {"init", "running", "finished"}, sidecar : 0..MaxImage, detour : BOOLEAN]
  BY VpnAssumption
<1>3. pod \in [Pods -> {NoPod} \cup [phase : {"init", "running", "finished"},
                                   sidecar : 0..MaxImage, detour : BOOLEAN]]
  BY <1>2 DEF ExerciseInit
<1>4. /\ repo \in 1..MaxImage
      /\ isolation \in 0..MaxImage /\ release \in 0..MaxImage /\ webhook \in 0..MaxImage
      /\ gateway \in {"down", "init", "guarded", "tunnel"}
      /\ replicas \in {0, 1} /\ faults \in Nat
  BY VpnAssumption, SMT DEF ExerciseInit
<1>5. denied \in BOOLEAN /\ enabled \in BOOLEAN
  BY Zenon DEF ExerciseInit
<1>6. TypeOK
  BY <1>3, <1>4, <1>5 DEF TypeOK
<1> QED BY <1>1, <1>6 DEF ExerciseInit, ExerciseInv, IInv, Staged

(* Every step of the script leaves the zone alone or is an operator's.     *)
LEMMA ScriptIsOperator ==
  ASSUME ExerciseInv, ScriptStep PROVE OperatorStep \/ UNCHANGED vars
<1> USE DEF OperatorStep
<1>1. Target \in Pods
  BY ExerciseAssumption DEF Pods
<1>2. CASE AddRoute
  BY <1>1, <1>2 DEF AddRoute
<1>3. CASE DeleteRoute
  BY <1>1, <1>3 DEF DeleteRoute
<1>4. CASE CreatePolicy
  BY <1>4 DEF CreatePolicy
<1>5. CASE DeletePolicy
  BY <1>5 DEF DeletePolicy
<1>6. CASE StopGateway
  BY <1>6 DEF StopGateway
<1>7. CASE RestoreGateway
  BY <1>7 DEF RestoreGateway, Restored, ExerciseInv
<1> QED
  BY <1>2, <1>3, <1>4, <1>5, <1>6, <1>7
     DEF ScriptStep, Start, Baseline, Blocked, ProbeUnderlay, AssertNoPolicy, RelayOutage,
         ReadReplicas, GatewayStopped, AwaitRollout, Recovered, Report, Raise, Kill

LEMMA SavedIsRead == ASSUME ExerciseInv, ExerciseNext PROVE saved' \in {0, 1}
<1>1. CASE ReadReplicas
  BY <1>1 DEF ReadReplicas, ExerciseInv, IInv, TypeOK
<1>2. CASE ~ReadReplicas
  <2>1. saved' = saved
    BY <1>2 DEF ExerciseNext, EnvStep, ScriptStep, Start, Baseline, Blocked, AddRoute,
       ProbeUnderlay, DeleteRoute, AssertNoPolicy, CreatePolicy, RelayOutage, DeletePolicy,
       StopGateway, GatewayStopped, RestoreGateway, AwaitRollout, Recovered, Report, Raise, Kill
  <2> QED BY <2>1 DEF ExerciseInv
<1> QED BY <1>1, <1>2

LEMMA ExerciseStep == ExerciseInv /\ [ExerciseNext]_all => ExerciseInv'
<1> SUFFICES ASSUME ExerciseInv, [ExerciseNext]_all PROVE ExerciseInv'
  OBVIOUS
<1>1. CASE UNCHANGED all
  <2>1. UNCHANGED vars /\ saved' = saved
    BY <1>1 DEF all, script
  <2> QED BY <2>1, StepInvariant DEF ExerciseInv
<1>2. CASE ExerciseNext
  <2>1. [Next]_vars
    BY <1>2, ScriptIsOperator DEF ExerciseNext, EnvStep, Next
  <2> QED BY <2>1, <1>2, StepInvariant, SavedIsRead DEF ExerciseInv
<1> QED BY <1>1, <1>2

THEOREM ExerciseInvariant == ExerciseSpec => []ExerciseInv
  BY ExerciseStarts, ExerciseStep, PTL DEF ExerciseSpec

(* No outage that the script causes, and no way in which it can fail, lets *)
(* public traffic out except through the VPN.                              *)
THEOREM ExerciseFailsClosed == ExerciseSpec => []NoDirectEgress
<1>1. ExerciseInv => NoDirectEgress
  BY StagedIsClosed DEF ExerciseInv
<1> QED BY <1>1, ExerciseInvariant, PTL

-----------------------------------------------------------------------------
(* What a run whose calls have all worked still has to undo, at each step. *)

CleanRun ==
    /\ pc \notin {"relay", "undeny"} => denied = found.denied
    /\ pc \in {"deny", "relay", "undeny"} => found.denied = FALSE
    /\ pc \notin {"stopped", "restore"} => replicas = found.replicas
    /\ pc \in {"stop", "stopped", "restore"} => saved = found.replicas
    /\ pc \notin {"probe", "del"} => (pod[Target].detour => found.detour)

Undoing ==
    /\ lost => ~pod[Target].detour
    /\ clean /\ pc \in Steps \cup {"passed", "failed"} => CleanRun

(* The world around the script neither touches the operator's knobs nor    *)
(* adds a route, and a replaced pod comes without one.                     *)
LEMMA EnvKeeps ==
  ASSUME ExerciseInv, EnvStep, lost => ~pod[Target].detour
  PROVE  /\ denied' = denied /\ replicas' = replicas
         /\ pod'[Target].detour => pod[Target].detour
         /\ lost' => ~pod'[Target].detour
<1> USE ExerciseAssumption DEF EnvStep
<1>1. Target \in Pods /\ DOMAIN pod = Pods
  BY DEF Pods, ExerciseInv, IInv, TypeOK
<1>2. CASE FluxStep \/ GatewayStep \/ WebhookDies
  <2>1. pod' = pod /\ denied' = denied /\ replicas' = replicas
    BY <1>2 DEF FluxStep, Bump, ApplyIsolation, UpgradeRelease, EnableApps, RollWebhook,
       GatewayStep, GatewayStarts, GatewayGuards, TunnelUp, TunnelLost, GatewayDies, Gateway,
       WebhookDies, tunnel
  <2> QED BY <2>1
<1>3. ASSUME NEW p \in Pods, CreatePod(p) \/ DeletePod(p) \/ CompleteJob(p) PROVE
         /\ denied' = denied /\ replicas' = replicas
         /\ pod'[Target].detour => pod[Target].detour
         /\ lost' => ~pod'[Target].detour
  <2>1. denied' = denied /\ replicas' = replicas
    BY <1>3 DEF CreatePod, DeletePod, CompleteJob, tunnel
  <2>2. \E r : r.detour = FALSE /\ pod' = [pod EXCEPT ![p] = r]
    BY <1>3 DEF CreatePod, CreateDue, DeletePod, CompleteJob, Gone, NoPod
  <2>3. CASE p = Target
    <3>1. pod'[Target].detour = FALSE
      BY <2>2, <2>3, <1>1
    <3> QED BY <2>1, <3>1
  <2>4. CASE p # Target
    <3>1. pod'[Target] = pod[Target]
      BY <2>2, <2>4, <1>1
    <3> QED BY <2>1, <3>1
  <2> QED BY <2>3, <2>4
<1>4. ASSUME NEW p \in Pods, StartPod(p) \/ FinishJob(p) PROVE
         /\ denied' = denied /\ replicas' = replicas
         /\ pod'[Target].detour => pod[Target].detour
         /\ lost' => ~pod'[Target].detour
  <2>1. denied' = denied /\ replicas' = replicas
    BY <1>4 DEF StartPod, FinishJob, tunnel
  <2>2. pod[p] # NoPod
    BY <1>4 DEF StartPod, StartDue, FinishJob, NoPod
  <2>3. pod[p] \in [phase : {"init", "running", "finished"},
                    sidecar : 0..MaxImage, detour : BOOLEAN]
    BY <2>2 DEF ExerciseInv, IInv, TypeOK
  <2>4. \E phase \in {"running", "finished"} : pod' = [pod EXCEPT ![p].phase = phase]
    BY <1>4 DEF StartPod, FinishJob
  <2>5. pod'[p] # NoPod
    BY <1>1, <2>3, <2>4 DEF NoPod
  <2>6. pod'[Target].detour = pod[Target].detour /\ (pod'[Target] = NoPod => pod[Target] = NoPod)
    BY <1>1, <2>3, <2>4, <2>5
  <2> QED BY <2>1, <2>6
<1> QED BY <1>2, <1>3, <1>4 DEF PodStep, Pods

LEMMA UndoingStarts == ExerciseInit => Undoing
  BY DEF ExerciseInit, Undoing, Steps

(* One step per action of the script; those that change nothing but the    *)
(* step and the results are taken together.                                *)
LEMMA UndoingStep == ExerciseInv /\ Undoing /\ [ExerciseNext]_all => Undoing'
<1> SUFFICES ASSUME ExerciseInv, Undoing, [ExerciseNext]_all PROVE Undoing'
  OBVIOUS
<1> USE DEF Undoing, CleanRun, Steps
<1>0. Target \in Pods /\ pod \in [Pods -> {NoPod} \cup [phase : {"init", "running", "finished"},
                                       sidecar : 0..MaxImage, detour : BOOLEAN]]
  BY ExerciseAssumption DEF Pods, ExerciseInv, IInv, TypeOK
<1>1. CASE UNCHANGED all
  BY <1>1 DEF all, vars, tunnel, script
<1>2. CASE EnvStep
  <2>1. /\ denied' = denied /\ replicas' = replicas
        /\ pod'[Target].detour => pod[Target].detour
        /\ lost' => ~pod'[Target].detour
    BY <1>2, EnvKeeps
  <2> QED BY <1>2, <2>1 DEF EnvStep
<1>3. ASSUME NEW opts \in Options, Start(opts) PROVE Undoing'
  BY <1>3 DEF Start, Now, vars, tunnel
<1>4. CASE Baseline \/ Blocked \/ ProbeUnderlay \/ AssertNoPolicy \/ RelayOutage
           \/ ReadReplicas \/ GatewayStopped \/ AwaitRollout \/ Recovered \/ Report \/ Raise
           \/ Kill
  <2>1. /\ pod' = pod /\ denied' = denied /\ replicas' = replicas
        /\ lost' = lost /\ found' = found
    BY <1>4 DEF Baseline, Blocked, ProbeUnderlay, AssertNoPolicy, RelayOutage, ReadReplicas,
       GatewayStopped, AwaitRollout, Recovered, Report, Raise, Kill, vars, tunnel
  <2>2. CASE Baseline \/ Blocked \/ Recovered \/ Report \/ Raise \/ Kill \/ AwaitRollout
    BY <2>1, <2>2 DEF Baseline, Blocked, Recovered, Report, Raise, Kill, AwaitRollout, Works,
       Error, AfterBlocked, Verdict
  <2>3. CASE ProbeUnderlay
    <3>1. pc = "probe" /\ pc' = "del"
      BY <2>3, Zenon DEF ProbeUnderlay
    <3>2. Works \/ Error
      BY <2>3, Zenon DEF ProbeUnderlay
    <3> QED BY <2>1, <3>1, <3>2 DEF Works, Error
  <2>4. CASE AssertNoPolicy
    BY <2>1, <2>4 DEF AssertNoPolicy, Works, Error
  <2>5. CASE RelayOutage
    BY <2>1, <2>5 DEF RelayOutage, Works, Error
  <2>6. CASE ReadReplicas
    BY <2>1, <2>6 DEF ReadReplicas, Works
  <2>7. CASE GatewayStopped
    BY <2>1, <2>7 DEF GatewayStopped, Works, Error
  <2> QED BY <1>4, <2>2, <2>3, <2>4, <2>5, <2>6, <2>7
<1>5. CASE AddRoute
  <2>1. UNCHANGED vars \/ (~lost /\ Detour(Target, TRUE))
    BY <1>5 DEF AddRoute
  <2>2. denied' = denied /\ replicas' = replicas
    BY <2>1 DEF Detour, vars, tunnel
  <2>3. lost => pod' = pod
    BY <2>1 DEF vars
  <2>4. pc' = "failed" /\ clean' => pod' = pod
    BY <1>5 DEF AddRoute, Error, vars
  <2>5. pc = "add" /\ pc' \in {"probe", "failed"} /\ lost' = lost /\ found' = found
    BY <1>5, Zenon DEF AddRoute
  <2>6. Works \/ Error
    BY <1>5, Zenon DEF AddRoute
  <2> QED BY <2>2, <2>3, <2>4, <2>5, <2>6 DEF Works, Error
<1>6. CASE DeleteRoute
  <2>1. UNCHANGED vars \/ (~lost /\ Detour(Target, FALSE))
    BY <1>6 DEF DeleteRoute
  <2>2. denied' = denied /\ replicas' = replicas
    BY <2>1 DEF Detour, vars, tunnel
  <2>3. lost => pod' = pod
    BY <2>1 DEF vars
  <2>4. Detour(Target, FALSE) => pod'[Target].detour = FALSE
    BY <1>0 DEF Detour, NoPod
  <2>5. clean' => pod'[Target].detour = FALSE \/ (lost /\ pod' = pod)
    BY <1>6, <2>4 DEF DeleteRoute, Error, vars
  <2>6. /\ pc = "del" /\ pc' \in {"assert", "report", "failed"}
        /\ lost' = lost /\ found' = found
    BY <1>6, Zenon DEF DeleteRoute, Leave, AfterRoute
  <2>7. Works \/ Error
    BY <1>6, Zenon DEF DeleteRoute
  <2> QED BY <2>2, <2>3, <2>5, <2>6, <2>7 DEF Works, Error
<1>7. CASE CreatePolicy
  <2>1. replicas' = replicas /\ pod' = pod
    BY <1>7 DEF CreatePolicy, DenyRelays, vars, tunnel
  <2>2. /\ pc = "deny" /\ lost' = lost /\ found' = found /\ saved' = saved
        /\ clean' => clean /\ (pc' = "relay" \/ (pc' = "undeny" /\ denied))
    BY <1>7 DEF CreatePolicy, DenyRelays, Works, Error
  <2> QED BY <2>1, <2>2
<1>8. CASE DeletePolicy
  <2>1. replicas' = replicas /\ pod' = pod
    BY <1>8 DEF DeletePolicy, DenyRelays, vars, tunnel
  <2>2. clean' => denied' = FALSE
    BY <1>8 DEF DeletePolicy, DenyRelays, Error
  <2>3. /\ pc = "undeny" /\ pc' \in {"read", "failed"} /\ (clean' => clean)
        /\ lost' = lost /\ found' = found
    BY <1>8 DEF DeletePolicy, DenyRelays, Works, Error, Leave
  <2> QED BY <2>1, <2>2, <2>3
<1>9. CASE StopGateway
  <2>1. denied' = denied /\ pod' = pod
    BY <1>9 DEF StopGateway, Scale, vars, tunnel
  <2> QED BY <1>9, <2>1 DEF StopGateway, Works, Error
<1>10. CASE RestoreGateway
  <2>1. denied' = denied /\ pod' = pod
    BY <1>10 DEF RestoreGateway, Scale, vars, tunnel
  <2>2. clean' => replicas' = saved
    BY <1>10 DEF RestoreGateway, Scale, Restored, Error
  <2> QED BY <1>10, <2>1, <2>2 DEF RestoreGateway, Works, Error, Leave
<1> QED
  BY <1>1, <1>2, <1>3, <1>4, <1>5, <1>6, <1>7, <1>8, <1>9, <1>10 DEF ExerciseNext, ScriptStep

(* A run without failed calls leaves everything as it found it.            *)
THEOREM RunsUndo == ExerciseSpec => []UndoesItsChanges
<1>1. Undoing => UndoesItsChanges
  BY DEF Undoing, CleanRun, UndoesItsChanges
<1> QED BY <1>1, UndoingStarts, UndoingStep, ExerciseInvariant, PTL DEF ExerciseSpec

-----------------------------------------------------------------------------
(* What a run that goes on to report has already put right.  None of it    *)
(* depends on whether its kubectl calls worked: a failed call ends the run *)
(* or raises, and a raised run never gets past its finally block.          *)

Restoring == {"read", "stop", "stopped", "restore", "rollout", "recovered"}
Reporting == {"report", "passed"}

Whole ==
    /\ pc \in {"assert", "deny", "relay", "undeny"} \cup Restoring \cup Reporting
           => (options.underlay => ~pod[Target].detour)
    /\ pc \in Restoring => ~denied
    /\ pc \in Reporting /\ options.outages => ~denied
    /\ pc = "report" /\ options.outages => (ok => replicas = 1)
    /\ pc = "passed" /\ options.outages => replicas = 1

Honest ==
    /\ replicas = 0 => gateway = "down"
    /\ Whole

LEMMA HonestStarts == ExerciseInit => Honest
  BY DEF ExerciseInit, Honest, Whole, Restoring, Reporting

(* A Deployment scaled to 0 has no pod, and gets none.                     *)
LEMMA ScaledDownStaysDown ==
  ASSUME ExerciseInv, [Next]_vars, replicas = 0 => gateway = "down"
  PROVE  (replicas = 0 => gateway = "down")'
<1>1. CASE OperatorStep
  BY <1>1 DEF OperatorStep, Scale, DenyRelays, Detour, tunnel
<1>2. CASE GatewayStep
  BY <1>2 DEF GatewayStep, GatewayStarts, GatewayGuards, TunnelUp, TunnelLost, GatewayDies, Gateway
<1>3. CASE FluxStep
  BY <1>3 DEF FluxStep, Bump, ApplyIsolation, UpgradeRelease, EnableApps, RollWebhook, tunnel
<1>4. CASE PodStep
  BY <1>4 DEF PodStep, WebhookDies, CreatePod, StartPod, DeletePod, FinishJob, CompleteJob, tunnel
<1>5. CASE UNCHANGED vars
  BY <1>5 DEF vars, tunnel
<1> QED BY <1>1, <1>2, <1>3, <1>4, <1>5 DEF Next

(* Only a gateway pod with its tunnel up answers with the VPN's address.   *)
LEMMA VpnNeedsGateway ==
  ASSUME Egress(Target, FALSE) = "vpn" PROVE gateway = "tunnel"
  BY DEF Egress, Underlay, ThroughGateway

LEMMA HonestStep ==
  ExerciseInv /\ Undoing /\ Honest /\ [ExerciseNext]_all => Honest'
<1> SUFFICES ASSUME ExerciseInv, Undoing, Honest, [ExerciseNext]_all PROVE Honest'
  OBVIOUS
<1>1. (replicas = 0 => gateway = "down")'
  <2>1. [Next]_vars
    BY ScriptIsOperator DEF ExerciseNext, EnvStep, Next, all
  <2> QED BY <2>1, ScaledDownStaysDown DEF Honest
<1> SUFFICES Whole'
  BY <1>1 DEF Honest
<1> USE DEF Whole, Restoring, Reporting
<1>2. CASE UNCHANGED all
  BY <1>2 DEF Honest, all, vars, tunnel, script
<1>3. CASE EnvStep
  <2>1. /\ denied' = denied /\ replicas' = replicas
        /\ pod'[Target].detour => pod[Target].detour
    BY <1>3, EnvKeeps DEF Undoing
  <2> QED BY <1>3, <2>1 DEF Honest, EnvStep
<1>4. ASSUME NEW opts \in Options, Start(opts) PROVE Whole'
  BY <1>4 DEF Start
<1>5. CASE Baseline \/ AddRoute \/ ProbeUnderlay \/ Raise \/ Kill
  <2>1. pc' \in {"blocked", "probe", "del", "failed", "killed"}
    BY <1>5, Zenon DEF Baseline, AddRoute, ProbeUnderlay, Raise, Kill
  <2> QED BY <2>1
<1>6. CASE Blocked
  <2>1. pc' = AfterBlocked /\ options' = options
    BY <1>6, Zenon DEF Blocked
  <2> QED BY <2>1 DEF AfterBlocked
<1>7. CASE DeleteRoute
  <2>1. options' = options /\ pc' \in {"failed", AfterRoute}
    BY <1>7, Zenon DEF DeleteRoute, Leave
  <2>2. pc' # "failed" => ~pod'[Target].detour
    <3>1. pc' # "failed" => Detour(Target, FALSE)
      BY <1>7, Zenon DEF DeleteRoute
    <3>2. Target \in Pods /\ pod \in [Pods -> {NoPod} \cup [phase : {"init", "running", "finished"},
                                               sidecar : 0..MaxImage, detour : BOOLEAN]]
      BY ExerciseAssumption DEF Pods, ExerciseInv, IInv, TypeOK
    <3> QED BY <3>1, <3>2 DEF Detour, NoPod
  <2> QED BY <2>1, <2>2 DEF AfterRoute
<1>8. CASE AssertNoPolicy \/ CreatePolicy \/ RelayOutage
  <2>1. /\ pc \in {"assert", "deny", "relay"} /\ pc' \in {"deny", "relay", "undeny", "failed"}
        /\ options' = options /\ pod' = pod
    <3>1. CASE AssertNoPolicy
      BY <3>1 DEF AssertNoPolicy, vars
    <3>2. CASE CreatePolicy
      BY <3>2 DEF CreatePolicy, DenyRelays, vars
    <3>3. CASE RelayOutage
      BY <3>3, Zenon DEF RelayOutage, vars
    <3> QED BY <1>8, <3>1, <3>2, <3>3
  <2> QED BY <2>1 DEF Honest
<1>9. CASE DeletePolicy
  <2>1. /\ pc = "undeny" /\ pc' \in {"read", "failed"}
        /\ options' = options /\ pod' = pod
    BY <1>9 DEF DeletePolicy, DenyRelays, Leave, vars
  <2>2. pc' = "read" => ~denied'
    BY <1>9 DEF DeletePolicy, DenyRelays
  <2> QED BY <2>1, <2>2 DEF Honest
<1>10. CASE ReadReplicas \/ StopGateway \/ GatewayStopped \/ RestoreGateway \/ AwaitRollout
  <2>1. /\ pc \in Restoring
        /\ pc' \in {"stop", "stopped", "restore", "rollout", "recovered", "failed"}
        /\ options' = options
    BY <1>10, Zenon
       DEF ReadReplicas, StopGateway, GatewayStopped, RestoreGateway, AwaitRollout, Leave
  <2>2. pod' = pod /\ denied' = denied
    BY <1>10 DEF ReadReplicas, StopGateway, GatewayStopped, RestoreGateway, AwaitRollout, Scale,
       vars, tunnel
  <2> QED BY <2>1, <2>2 DEF Honest
<1>11. CASE Recovered
  <2>1. /\ pc = "recovered" /\ pc' = "report" /\ options' = options
        /\ pod' = pod /\ denied' = denied /\ replicas' = replicas
    BY <1>11 DEF Recovered, vars, tunnel
  <2>2. ok' => Egress(Target, FALSE) = "vpn"
    BY <1>11 DEF Recovered, Check
  <2>3. ok' => replicas = 1
    BY <2>2, VpnNeedsGateway DEF Honest, ExerciseInv, IInv, TypeOK
  <2> QED BY <2>1, <2>3 DEF Honest
<1>12. CASE Report
  <2>1. /\ pc = "report" /\ pc' = Verdict /\ options' = options
        /\ pod' = pod /\ denied' = denied /\ replicas' = replicas
    BY <1>12 DEF Report, vars, tunnel
  <2> QED BY <2>1 DEF Honest, Verdict
<1> QED
  BY <1>2, <1>3, <1>4, <1>5, <1>6, <1>7, <1>8, <1>9, <1>10, <1>11, <1>12
     DEF ExerciseNext, ScriptStep

(* "All checks passed" is only printed over a zone that is whole, whatever *)
(* runs before it left behind and however many of them were killed.        *)
THEOREM PassedIsWhole == ExerciseSpec => []HonestReport
<1>1. Honest => HonestReport
  BY DEF Honest, Whole, Restoring, Reporting, HonestReport
<1> QED
  BY <1>1, HonestStarts, HonestStep, UndoingStarts, UndoingStep, ExerciseInvariant, PTL
     DEF ExerciseSpec

-----------------------------------------------------------------------------
(* Types of the script's own variables.                                    *)

LEMMA TypesStart == ExerciseInit => ScriptTypeOK
<1> SUFFICES ASSUME ExerciseInit PROVE ScriptTypeOK
  OBVIOUS
<1>1. TypeOK
  BY ExerciseStarts DEF ExerciseInv, IInv
<1>2. Target \in Pods
  BY ExerciseAssumption DEF Pods
<1>3. found \in [replicas : {0, 1}, denied : BOOLEAN, detour : BOOLEAN]
  BY <1>2 DEF ExerciseInit, Now
<1>4. pc \in Ended \cup Steps /\ saved \in {0, 1} /\ errors \in Nat
  BY DEF ExerciseInit, Ended
<1>5. options \in Options
  BY DEF ExerciseInit, Options
<1>6. lost \in BOOLEAN /\ raised \in BOOLEAN /\ ok \in BOOLEAN /\ probed \in BOOLEAN /\ clean \in BOOLEAN
  BY Zenon DEF ExerciseInit
<1> QED BY <1>1, <1>3, <1>4, <1>5, <1>6 DEF ScriptTypeOK

(* Where each step leads, and which flags it may set.                      *)
LEMMA TypesStep == ScriptTypeOK /\ ExerciseInv /\ [ExerciseNext]_all => ScriptTypeOK'
<1> SUFFICES ASSUME ScriptTypeOK, ExerciseInv, [ExerciseNext]_all PROVE ScriptTypeOK'
  OBVIOUS
<1>1. CASE UNCHANGED all
  BY <1>1 DEF all, script, vars, platform, tunnel, ScriptTypeOK, TypeOK
<1>2. CASE ExerciseNext
  <2>1. TypeOK' /\ saved' \in {0, 1}
    BY ExerciseStep DEF ExerciseInv, IInv
  <2>2. pc' \in Ended \cup Steps
    <3>1. CASE EnvStep
      BY <3>1, Zenon DEF EnvStep, ScriptTypeOK
    <3>2. CASE ScriptStep
      BY <3>2 DEF ScriptStep, Start, Baseline, Blocked, AddRoute, ProbeUnderlay, DeleteRoute,
         AssertNoPolicy, CreatePolicy, RelayOutage, DeletePolicy, ReadReplicas, StopGateway,
         GatewayStopped, RestoreGateway, AwaitRollout, Recovered, Report, Raise, Kill,
         AfterBlocked, AfterRoute, Leave, Verdict, Ended, Steps
    <3> QED BY <1>2, <3>1, <3>2 DEF ExerciseNext
  <2>3. options' \in Options
    BY <1>2, Zenon DEF ExerciseNext, EnvStep, ScriptStep, Start, Baseline, Blocked, AddRoute,
       ProbeUnderlay, DeleteRoute, AssertNoPolicy, CreatePolicy, RelayOutage, DeletePolicy,
       ReadReplicas, StopGateway, GatewayStopped, RestoreGateway, AwaitRollout, Recovered, Report,
       Raise, Kill, ScriptTypeOK
  <2>4. lost' \in BOOLEAN
    BY <1>2, Zenon DEF ExerciseNext, EnvStep, ScriptStep, Start, Baseline, Blocked, AddRoute,
       ProbeUnderlay, DeleteRoute, AssertNoPolicy, CreatePolicy, RelayOutage, DeletePolicy,
       ReadReplicas, StopGateway, GatewayStopped, RestoreGateway, AwaitRollout, Recovered, Report,
       Raise, Kill, ScriptTypeOK
  <2>5. raised' \in BOOLEAN
    BY <1>2, Zenon DEF ExerciseNext, EnvStep, ScriptStep, Start, Baseline, Blocked, AddRoute,
       ProbeUnderlay, DeleteRoute, AssertNoPolicy, CreatePolicy, RelayOutage, DeletePolicy,
       ReadReplicas, StopGateway, GatewayStopped, RestoreGateway, AwaitRollout, Recovered, Report,
       Raise, Kill, ScriptTypeOK
  <2>6. ok' \in BOOLEAN
    BY <1>2, Zenon DEF ExerciseNext, EnvStep, ScriptStep, Start, Baseline, Blocked, AddRoute,
       ProbeUnderlay, DeleteRoute, AssertNoPolicy, CreatePolicy, RelayOutage, DeletePolicy,
       ReadReplicas, StopGateway, GatewayStopped, RestoreGateway, AwaitRollout, Recovered, Report,
       Raise, Kill, Check, CheckBlocked, ScriptTypeOK
  <2>7. probed' \in BOOLEAN
    BY <1>2, Zenon DEF ExerciseNext, EnvStep, ScriptStep, Start, Baseline, Blocked, AddRoute,
       ProbeUnderlay, DeleteRoute, AssertNoPolicy, CreatePolicy, RelayOutage, DeletePolicy,
       ReadReplicas, StopGateway, GatewayStopped, RestoreGateway, AwaitRollout, Recovered, Report,
       Raise, Kill, Check, CheckBlocked, ScriptTypeOK
  <2>8. \/ UNCHANGED <<errors, clean>>
        \/ errors' = errors + 1 /\ clean' = FALSE
        \/ errors' = errors /\ clean' = TRUE
    BY <1>2, Zenon DEF ExerciseNext, EnvStep, ScriptStep, Start, Baseline, Blocked, AddRoute,
       ProbeUnderlay, DeleteRoute, AssertNoPolicy, CreatePolicy, RelayOutage, DeletePolicy,
       ReadReplicas, StopGateway, GatewayStopped, RestoreGateway, AwaitRollout, Recovered, Report,
       Raise, Kill, Works, Error
  <2>9. errors' \in Nat /\ clean' \in BOOLEAN
    <3>1. errors' = errors \/ errors' = errors + 1
      BY <2>8
    <3>2. errors' \in Nat
      BY <3>1 DEF ScriptTypeOK
    <3>3. clean' \in BOOLEAN
      BY <2>8, Zenon DEF ScriptTypeOK
    <3> QED BY <3>2, <3>3
  <2>10. found' \in [replicas : {0, 1}, denied : BOOLEAN, detour : BOOLEAN]
    <3>1. found' \in {found, Now}
      BY <1>2, Zenon DEF ExerciseNext, EnvStep, ScriptStep, Start, Baseline, Blocked, AddRoute,
         ProbeUnderlay, DeleteRoute, AssertNoPolicy, CreatePolicy, RelayOutage, DeletePolicy,
         ReadReplicas, StopGateway, GatewayStopped, RestoreGateway, AwaitRollout, Recovered,
         Report, Raise, Kill
    <3>2. Now \in [replicas : {0, 1}, denied : BOOLEAN, detour : BOOLEAN]
      <4>1. pod[Target] \in {NoPod} \cup [phase : {"init", "running", "finished"},
                                          sidecar : 0..MaxImage, detour : BOOLEAN]
        BY ExerciseAssumption DEF Pods, ScriptTypeOK, TypeOK
      <4>2. pod[Target].detour \in BOOLEAN
        <5>1. CASE pod[Target] = NoPod
          BY <5>1 DEF NoPod
        <5>2. CASE pod[Target] # NoPod
          BY <4>1, <5>2
        <5> QED BY <5>1, <5>2
      <4> QED BY <4>2 DEF Now, ScriptTypeOK, TypeOK
    <3> QED BY <3>1, <3>2 DEF ScriptTypeOK
  <2> QED BY <2>1, <2>2, <2>3, <2>4, <2>5, <2>6, <2>7, <2>9, <2>10 DEF ScriptTypeOK
<1> QED BY <1>1, <1>2

(* Every variable of the script, and the zone under it, keeps its type.    *)
LEMMA ScriptTypes == ExerciseSpec => []ScriptTypeOK
  BY TypesStart, TypesStep, ExerciseInvariant, PTL DEF ExerciseSpec

=============================================================================
