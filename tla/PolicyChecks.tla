---------------------------- MODULE PolicyChecks ----------------------------
(***************************************************************************)
(* scripts/check-workload-isolation.py: what it concludes from the text of *)
(* the manifests, against what the cluster makes of them.                  *)
(* - The egress policy of an untrusted application.  The script looks for  *)
(*   rules that name their endpoint and port; Cilium also opens what a     *)
(*   rule leaves out (a selector without a name, a rule without ports).    *)
(* - The legacy holds: suspended Kustomizations that must not take their   *)
(*   objects along when they go, under the patches of the root             *)
(*   Kustomization (flux/cluster/ks.yaml).                                 *)
(* The manifests change; the script is run on what is there.               *)
(* An operator named "...Mutant" is a wrong variant of the one after it.   *)
(***************************************************************************)
EXTENDS Naturals

CONSTANTS
    Namespaces,   \* of endpoints
    Apps,         \* their app.kubernetes.io/name
    Unset,        \* a label or a port list that is not there
    Ports,
    Home,         \* the namespace of the untrusted application
    Reach,        \* namespaces it may talk to at all
    Gateway, Dns, \* [ns, app, port] it must reach
    Protected,    \* [ns, app, port] tried as forbidden examples
    MaxEdits      \* bound: edits of the manifests

Endpoints == [ns : Namespaces, app : Apps, port : Ports]

ASSUME PolicyAssumption ==
    /\ Reach \subseteq Namespaces /\ Unset \notin Namespaces \cup Apps
    /\ Gateway \in Endpoints /\ Dns \in Endpoints
    /\ Protected \subseteq Endpoints
    /\ {Home, Gateway.ns, Dns.ns} \subseteq Reach
    /\ MaxEdits \in Nat

(* A rule with one selector stands for those with several; or it has an    *)
(* exception ("toCIDR", "toEntities", "toFQDNs").                          *)
EgressRules == [ns : Namespaces \cup {Unset}, app : Apps \cup {Unset},
                ports : {{Unset}} \cup SUBSET Ports, exception : BOOLEAN]

(* A patch of the root: for everything or only for what is not a hold; it  *)
(* sets deletionPolicy or something else.                                  *)
Patches == [spares : BOOLEAN, deletion : BOOLEAN]
LegacyHolds == [labelled : BOOLEAN, suspend : BOOLEAN, prune : BOOLEAN, orphan : BOOLEAN]

VARIABLES
    deny,     \* does egressDeny name host, remote-node and kube-apiserver?
    rules,    \* the egress rules of the application's policy
    patches,  \* of the root Kustomization, the first and a further one
    hold,     \* a legacy hold
    outcome,  \* of the last run of the script on these manifests
    edits

policyVars == <<deny, rules, patches, hold, outcome, edits>>

-----------------------------------------------------------------------------
(* What the script finds.                                                  *)

EndpointAllowed(e) ==
    \E r \in rules : r.ns = e.ns /\ r.app = e.app /\ e.port \in r.ports

(* No exceptions, and the selector in a namespace of the zone.             *)
(* Mutant: rely on the forbidden examples alone.                           *)
ConfinedMutant(r) == ~r.exception
Confined(r) == ~r.exception /\ r.ns \in Reach

UntrustedPasses ==
    /\ deny
    /\ \A r \in rules : Confined(r)
    /\ EndpointAllowed(Gateway) /\ EndpointAllowed(Dns)
    /\ \A e \in Protected : ~EndpointAllowed(e)

(* The patched build.                                                      *)
RenderedOrphan == hold.orphan /\ ~\E p \in patches : p.deletion /\ ~(p.spares /\ hold.labelled)
RenderedPasses == hold.labelled => RenderedOrphan

HoldPasses ==
    /\ patches # {} /\ \E p \in patches : p.spares
    /\ hold.suspend /\ ~hold.prune /\ hold.orphan /\ hold.labelled
    /\ RenderedPasses

-----------------------------------------------------------------------------
(* What the cluster does.                                                  *)

(* At most: a selector matches what has all its labels (others than the    *)
(* two may exclude more), without a namespace it means its own; a rule     *)
(* without ports opens all.                                                *)
Opens(r, e) ==
    /\ r.ns = e.ns \/ (r.ns = Unset /\ e.ns = Home)
    /\ r.app \in {e.app, Unset}
    /\ r.ports = {Unset} \/ e.port \in r.ports

Reaches(e) == \E r \in rules : r.exception \/ Opens(r, e)

-----------------------------------------------------------------------------
PolicyTypeOK ==
    /\ deny \in BOOLEAN /\ rules \in SUBSET EgressRules
    /\ patches \in SUBSET Patches /\ hold \in LegacyHolds
    /\ outcome \in {"none", "passed", "failed"} /\ edits \in Nat

Bare(e) == [ns |-> e.ns, app |-> e.app, ports |-> {e.port}, exception |-> FALSE]

(* The manifests as they are.                                              *)
PolicyInit ==
    /\ deny = TRUE /\ rules = {Bare(Gateway), Bare(Dns)}
    /\ patches = {[spares |-> TRUE, deletion |-> TRUE]}
    /\ hold = [labelled |-> TRUE, suspend |-> TRUE, prune |-> FALSE, orphan |-> TRUE]
    /\ outcome = "none" /\ edits = 0

Edit == edits < MaxEdits /\ edits' = edits + 1 /\ outcome' = "none"

EditRules ==
    /\ \/ deny' = ~deny /\ UNCHANGED rules
       \/ UNCHANGED deny /\ \E r \in rules : rules' = rules \ {r}
       \/ UNCHANGED deny /\ \E r \in EgressRules : rules' = rules \cup {r}
    /\ Edit /\ UNCHANGED <<patches, hold>>

EditHolds ==
    /\ \/ UNCHANGED patches /\ \E f \in DOMAIN hold : hold' = [hold EXCEPT ![f] = ~@]
       \/ UNCHANGED hold /\ \E p \in Patches : patches' = (patches \ {p}) \cup ({p} \ patches)
    /\ Edit /\ UNCHANGED <<deny, rules>>

RunCheck ==
    /\ outcome' = IF UntrustedPasses /\ HoldPasses THEN "passed" ELSE "failed"
    /\ UNCHANGED <<deny, rules, patches, hold, edits>>

PolicyNext == EditRules \/ EditHolds \/ RunCheck

PolicySpec == PolicyInit /\ [][PolicyNext]_policyVars

-----------------------------------------------------------------------------
(* Properties.                                                             *)

(* If check-workload-isolation.py passes, the policy of an untrusted       *)
(* application opens nothing outside its zone, whatever its rules leave    *)
(* out: the two forbidden examples do not carry this, the loop does.       *)
(* (Other policies may select the same pod; the script does not look.)     *)
UntrustedIsConfined ==
    outcome = "passed" => \A e \in Endpoints : Reaches(e) => e.ns \in Reach
=============================================================================
