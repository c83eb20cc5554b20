--------------------------- MODULE OutageExercise ---------------------------
(***************************************************************************)
(* scripts/verify-workload-isolation.py: live checks of the media zone     *)
(* that may cause outages on purpose (--exercise-underlay adds a route,    *)
(* --exercise-outages cuts the relays off and scales the gateway to 0) and *)
(* undo them in "finally" blocks.  The script is one operator of MediaVpn; *)
(* its kubectl calls may fail, before or after they took effect, it may be *)
(* killed and run again, and the pod it looked up at its start may be      *)
(* replaced under it.                                                      *)
(* An operator named "...Mutant" is a wrong variant of the one after it.   *)
(***************************************************************************)
EXTENDS MediaVpn

CONSTANTS
    Target,       \* the pod of qbittorrent
    MaxErrors     \* bound: failed kubectl calls and killed runs

ASSUME ExerciseAssumption == Target \in Apps /\ MaxErrors \in Nat

VARIABLES
    pc,           \* the step the script is at
    options,      \* [underlay, outages]: its flags
    lost,         \* has the pod whose name it holds been replaced?
    raised,       \* is an exception on its way through a finally block?
    saved,        \* replicas read before scaling down
    ok,           \* have all results passed so far?
    probed,       \* did every "blocked" result come from a probe in the pod?
    found,        \* what the run found: [replicas, denied, detour]
    clean,        \* has no kubectl call of this run failed?
    errors

script == <<pc, options, lost, raised, saved, ok, probed, found, clean>>
all    == <<vars, script, errors>>

Ended   == {"idle", "passed", "failed", "killed"}
Steps   == {"baseline", "blocked", "add", "probe", "del", "assert", "deny", "relay",
            "undeny", "read", "stop", "stopped", "restore", "rollout", "recovered", "report"}
Options == [underlay : BOOLEAN, outages : BOOLEAN]
Now     == [replicas |-> replicas, denied |-> denied, detour |-> pod[Target].detour]

ScriptTypeOK ==
    /\ TypeOK
    /\ pc \in Ended \cup Steps /\ options \in Options
    /\ lost \in BOOLEAN /\ raised \in BOOLEAN /\ ok \in BOOLEAN
    /\ probed \in BOOLEAN /\ clean \in BOOLEAN
    /\ saved \in {0, 1}
    /\ found \in [replicas : {0, 1}, denied : BOOLEAN, detour : BOOLEAN]
    /\ errors \in Nat

(* The zone is up when the script is first run.                            *)
ExerciseInit ==
    /\ repo = 1 /\ isolation = 1 /\ release = 1 /\ webhook = 1
    /\ gateway = "tunnel" /\ replicas = 1 /\ denied = FALSE /\ enabled = TRUE
    /\ pod = [p \in Pods |-> [phase |-> "running", sidecar |-> 1, detour |-> FALSE]]
    /\ faults = 0
    /\ pc = "idle" /\ options = [underlay |-> FALSE, outages |-> FALSE]
    /\ lost = FALSE /\ raised = FALSE /\ saved = 1 /\ ok = TRUE /\ probed = TRUE
    /\ found = Now /\ clean = TRUE /\ errors = 0

(* The world around the script.                                            *)
EnvStep ==
    /\ FluxStep \/ PodStep \/ GatewayStep
    /\ lost' = (lost \/ (pod[Target] # NoPod /\ pod'[Target] = NoPod))
    /\ UNCHANGED <<pc, options, raised, saved, ok, probed, found, clean, errors>>

-----------------------------------------------------------------------------
(* Results.                                                                *)

(* public(stage, allowed) and the checks of local(stage) that run in the   *)
(* pod: a lost pod makes kubectl exit with 1, which fails both kinds.      *)
Check(egress) == ok' = (ok /\ ~lost /\ Egress(Target, FALSE) = egress) /\ UNCHANGED probed

(* tcp(..., allowed=False): any of the exit codes 0, 1, 124 is taken for   *)
(* the probe's own, so with a lost pod the check passes unprobed.          *)
CheckBlocked(egress) ==
    /\ ok' = (ok /\ (lost \/ egress # "direct"))
    /\ probed' = (probed /\ ~lost)

(* all(r['passed'] for r in results).  Mutant: no assertion.               *)
VerdictMutant == "passed"
Verdict == IF ok THEN "passed" ELSE "failed"

-----------------------------------------------------------------------------
(* Control.                                                                *)

AfterBlocked == IF options.underlay THEN "add"
                ELSE IF options.outages THEN "assert" ELSE "report"
AfterRoute   == IF options.outages THEN "assert" ELSE "report"

(* A kubectl call fails.                                                   *)
Error == errors < MaxErrors /\ errors' = errors + 1 /\ clean' = FALSE
Works == UNCHANGED <<errors, clean>>

(* Leaving a finally block, with or without an exception.                  *)
Leave(step) == pc' = IF raised THEN "failed" ELSE step

Start(opts) ==
    /\ pc \in Ended /\ pod[Target].phase = "running"
    /\ pc' = "baseline" /\ options' = opts
    /\ lost' = FALSE /\ raised' = FALSE /\ ok' = TRUE /\ probed' = TRUE
    /\ found' = Now /\ clean' = TRUE
    /\ UNCHANGED <<vars, saved, errors>>

Baseline ==
    /\ pc = "baseline" /\ pc' = "blocked"
    /\ Check("vpn") /\ Works
    /\ UNCHANGED <<vars, options, lost, raised, saved, found>>

Blocked ==
    /\ pc = "blocked" /\ pc' = AfterBlocked
    /\ CheckBlocked(Underlay(Target)) /\ Works
    /\ UNCHANGED <<vars, options, lost, raised, saved, found>>

(* ip route add refuses an address that has a route; route_added is only   *)
(* set after the call has returned.                                        *)
AddRoute ==
    /\ pc = "add"
    /\ \/ ~lost /\ Detour(Target, TRUE) /\ pc' = "probe" /\ Works
       \/ (lost \/ pod[Target].detour) /\ pc' = "failed" /\ UNCHANGED vars /\ Works
       \/ pc' = "failed" /\ Error /\ (UNCHANGED vars \/ (~lost /\ Detour(Target, TRUE)))
    /\ UNCHANGED <<options, lost, raised, saved, ok, probed, found>>

ProbeUnderlay ==
    /\ pc = "probe" /\ pc' = "del"
    /\ \/ CheckBlocked(Egress(Target, TRUE)) /\ Works /\ UNCHANGED raised
       \/ Error /\ raised' = TRUE /\ UNCHANGED <<ok, probed>>
    /\ UNCHANGED <<vars, options, lost, saved, found>>

DeleteRoute ==
    /\ pc = "del"
    /\ \/ ~lost /\ Detour(Target, FALSE) /\ Leave(AfterRoute) /\ Works
       \/ lost /\ pc' = "failed" /\ UNCHANGED vars /\ Works
       \/ pc' = "failed" /\ Error /\ (UNCHANGED vars \/ (~lost /\ Detour(Target, FALSE)))
    /\ UNCHANGED <<options, lost, raised, saved, ok, probed, found>>

(* kubectl get of the policy must fail, for whatever reason.               *)
AssertNoPolicy ==
    /\ pc = "assert"
    /\ \/ pc' = (IF denied THEN "failed" ELSE "deny") /\ Works
       \/ pc' = "deny" /\ Error
    /\ UNCHANGED <<vars, options, lost, raised, saved, ok, probed, found>>

CreatePolicy ==
    /\ pc = "deny"
    /\ \/ ~denied /\ DenyRelays(TRUE) /\ pc' = "relay" /\ Works /\ UNCHANGED raised
       \/ denied /\ UNCHANGED vars /\ pc' = "undeny" /\ Works /\ raised' = TRUE
       \/ /\ Error /\ (UNCHANGED vars \/ DenyRelays(TRUE))
          /\ pc' = "undeny" /\ raised' = TRUE
    /\ UNCHANGED <<options, lost, saved, ok, probed, found>>

RelayOutage ==
    /\ pc = "relay" /\ pc' = "undeny"
    /\ \/ Check("blocked") /\ Works /\ UNCHANGED raised
       \/ Error /\ raised' = TRUE /\ UNCHANGED <<ok, probed>>
    /\ UNCHANGED <<vars, options, lost, saved, found>>

DeletePolicy ==
    /\ pc = "undeny"
    /\ \/ DenyRelays(FALSE) /\ Leave("read") /\ Works
       \/ Error /\ (UNCHANGED vars \/ DenyRelays(FALSE)) /\ pc' = "failed"
    /\ UNCHANGED <<options, lost, raised, saved, ok, probed, found>>

ReadReplicas ==
    /\ pc = "read" /\ pc' = "stop"
    /\ saved' = replicas /\ Works
    /\ UNCHANGED <<vars, options, lost, raised, ok, probed, found>>

StopGateway ==
    /\ pc = "stop"
    /\ \/ Scale(0) /\ pc' = "stopped" /\ Works /\ UNCHANGED raised
       \/ Error /\ (UNCHANGED vars \/ Scale(0)) /\ pc' = "restore" /\ raised' = TRUE
    /\ UNCHANGED <<options, lost, saved, ok, probed, found>>

GatewayStopped ==
    /\ pc = "stopped" /\ pc' = "restore"
    /\ \/ Check("blocked") /\ Works /\ UNCHANGED raised
       \/ Error /\ raised' = TRUE /\ UNCHANGED <<ok, probed>>
    /\ UNCHANGED <<vars, options, lost, saved, found>>

(* Mutant: the number is read when it is needed.                           *)
RestoredMutant == replicas
Restored == saved

RestoreGateway ==
    /\ pc = "restore"
    /\ \/ Scale(Restored) /\ Leave("rollout") /\ Works
       \/ Error /\ (UNCHANGED vars \/ Scale(Restored)) /\ pc' = "failed"
    /\ UNCHANGED <<options, lost, raised, saved, ok, probed, found>>

(* rollout status gives up after 60 s.                                     *)
AwaitRollout ==
    /\ pc = "rollout"
    /\ \/ (replicas = 0 \/ gateway \in {"guarded", "tunnel"}) /\ pc' = "recovered"
       \/ replicas # 0 /\ gateway # "tunnel" /\ pc' = "failed"
    /\ Works
    /\ UNCHANGED <<vars, options, lost, raised, saved, ok, probed, found>>

(* Up to 12 attempts, then the check itself, whatever they found.          *)
Recovered ==
    /\ pc = "recovered" /\ pc' = "report"
    /\ Check("vpn") /\ Works
    /\ UNCHANGED <<vars, options, lost, raised, saved, found>>

Report ==
    /\ pc = "report" /\ pc' = Verdict
    /\ Works
    /\ UNCHANGED <<vars, options, lost, raised, saved, ok, probed, found>>

(* A call outside the try blocks fails.                                    *)
Raise ==
    /\ pc \in {"baseline", "blocked", "read", "rollout", "recovered"} /\ pc' = "failed"
    /\ Error
    /\ UNCHANGED <<vars, options, lost, raised, saved, ok, probed, found>>

(* No finally block runs.                                                  *)
Kill ==
    /\ pc \in Steps /\ pc' = "killed"
    /\ Error
    /\ UNCHANGED <<vars, options, lost, raised, saved, ok, probed, found>>

ScriptStep ==
    \/ \E opts \in Options : Start(opts)
    \/ Baseline \/ Blocked
    \/ AddRoute \/ ProbeUnderlay \/ DeleteRoute
    \/ AssertNoPolicy \/ CreatePolicy \/ RelayOutage \/ DeletePolicy
    \/ ReadReplicas \/ StopGateway \/ GatewayStopped \/ RestoreGateway
    \/ AwaitRollout \/ Recovered \/ Report \/ Raise \/ Kill

ExerciseNext == EnvStep \/ ScriptStep

ExerciseSpec == ExerciseInit /\ [][ExerciseNext]_all

-----------------------------------------------------------------------------
(* Properties.                                                             *)

(* "All checks passed" is printed only when what the run broke on purpose  *)
(* is whole again, even if runs before it were killed or failed half-way   *)
(* and left a policy, a route or a stopped gateway behind (lines 98-149).  *)
HonestReport ==
    pc = "passed" =>
        /\ options.outages => replicas = 1 /\ ~denied
        /\ options.underlay => ~pod[Target].detour

(* A run that ends, passed or failed, while all its kubectl calls worked   *)
(* leaves the gateway, the policy and the routes as it found them, also if *)
(* its pod was replaced (the finally blocks, lines 107-135).               *)
UndoesItsChanges ==
    pc \in {"passed", "failed"} /\ clean =>
        /\ replicas = found.replicas /\ denied = found.denied
        /\ pod[Target].detour => found.detour

(* "A blocked test must reach the command, not fail because kubectl lost   *)
(* the pod" (verify-workload-isolation.py:56).                             *)
BlockedMeansProbed == pc = "passed" => probed

=============================================================================
