------------------------------ MODULE MCScripts ------------------------------
(***************************************************************************)
(* The scripts that verify, import and configure, for TLC.  They have no   *)
(* state in common, so a behaviour follows one group of them; "Groups"     *)
(* says which ones a run looks at.                                         *)
(***************************************************************************)
EXTENDS ProbeJobs, SecretContracts, PolicyChecks, RolloutChecks, DatabaseChecks,
        EdgeHosts, ClusterImport, TLC

CONSTANT Groups

VARIABLE group

MCGateway   == [ns |-> "media-vpn", app |-> "gateway", port |-> 4789]
MCDns       == [ns |-> "media-vpn", app |-> "dns", port |-> 1053]
(* Two of the script's own requests, one that it does not try, and the     *)
(* other consumer before its contract.                                     *)
MCSlips == LET b == Consumer(Own, OwnKey) IN
    {{[b EXCEPT !.import = TRUE], [b EXCEPT !.id = Fresh]},
     {[b EXCEPT !.target = Other]},
     {Consumer(Other, OtherKey)}}

MCProtected == {[ns |-> "immich", app |-> "gateway", port |-> 4789]}

MCInit ==
    /\ group \in Groups
    /\ ProbeInit /\ SecretInit /\ PolicyInit /\ RolloutInit /\ DatabaseInit
    /\ EdgeInit /\ ImportInit
    /\ group # "probes" => script = "application"
    /\ group # "edge" => disk["connector"]["ssh"] = "none"

(* Bound: the threads of the application checks are all alike, so only the *)
(* first subject's boundary is opened.                                     *)
MCDrift == script = "application" => Second \in sound'

MCNext ==
    /\ \/ /\ group = "probes" /\ ProbeNext /\ MCDrift
          /\ UNCHANGED <<secretVars, policyVars, rolloutVars, databaseVars,
                         edgeVars, importVars>>
       \/ /\ group = "secrets" /\ SecretNext
          /\ UNCHANGED <<probeVars, policyVars, rolloutVars, databaseVars,
                         edgeVars, importVars>>
       \/ /\ group = "policies" /\ PolicyNext
          /\ UNCHANGED <<probeVars, secretVars, rolloutVars, databaseVars,
                         edgeVars, importVars>>
       \/ /\ group = "rollouts" /\ RolloutNext
          /\ UNCHANGED <<probeVars, secretVars, policyVars, databaseVars,
                         edgeVars, importVars>>
       \/ /\ group = "databases" /\ DatabaseNext
          /\ UNCHANGED <<probeVars, secretVars, policyVars, rolloutVars,
                         edgeVars, importVars>>
       \/ /\ group = "edge" /\ EdgeNext
          /\ UNCHANGED <<probeVars, secretVars, policyVars, rolloutVars,
                         databaseVars, importVars>>
       \/ /\ group = "import" /\ ImportNext
          /\ UNCHANGED <<probeVars, secretVars, policyVars, rolloutVars,
                         databaseVars, edgeVars>>
    /\ UNCHANGED group

MCSpec ==
    MCInit /\ [][MCNext]_<<group, probeVars, secretVars, policyVars, rolloutVars, databaseVars,
                           edgeVars, importVars>>

RunSymmetry == Permutations(Runs)
=============================================================================
