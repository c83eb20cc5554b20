---------------------------- MODULE ClusterImport ----------------------------
(***************************************************************************)
(* scripts/import-external-cluster.sh: the credentials and endpoints of an *)
(* external Ceph cluster become objects of Rook's namespace, and storage   *)
(* classes that use them.  Everything comes from the environment of one    *)
(* import: what the external cluster had when it was exported.  Its keys   *)
(* are rotated (CEPHX_KEY_GENERATION) and its monitors move meanwhile.     *)
(* An object is looked up, and created if the lookup fails for whatever    *)
(* reason; what exists is left alone, or patched.  "set -e": whatever      *)
(* fails ends the import.  Imports are started again, and may overlap.     *)
(* An operator named "...Mutant" is a wrong variant of the one after it.   *)
(***************************************************************************)
EXTENDS Naturals, Sequences

CONSTANTS
    Imports,        \* processes; a rerun is another one
    Wanted,         \* the objects that the environment asks for
    OtherContext,   \* does KUBECONTEXT name another cluster than kubectl's own context?
    MaxGenerations, \* bound: generations of the external cluster
    MaxFailures     \* bound: kubectl calls that fail, interruptions

(* In the order of the script.                                             *)
Order == <<"namespace", "radosNamespace", "subvolumeGroup", "monSecret", "monEndpoints",
           "command", "rbdNode", "rbdProvisioner", "rgwUser", "cephfsNode",
           "cephfsProvisioner", "rbdClass", "cephfsClass", "topologyClass">>
Targets == {Order[i] : i \in 1 .. Len(Order)}

Pools       == {"radosNamespace", "subvolumeGroup"}
Credentials == {"command", "rbdNode", "rbdProvisioner", "cephfsNode", "cephfsProvisioner"}
Generations == 1 .. MaxGenerations

(* The cluster of KUBECONTEXT gets all but the topology's class: that is   *)
(* looked up and created with a plain "kubectl".                           *)
Here == {o \in Targets : o = "topologyClass" => ~OtherContext}

ASSUME ImportAssumption ==
    /\ Wanted \subseteq Targets /\ OtherContext \in BOOLEAN
    /\ MaxGenerations \in Nat \ {0} /\ MaxFailures \in Nat

VARIABLES
    external,  \* present generation of the external cluster
    kept,      \* [Targets -> generations that its user and its data are of; 0: absent],
               \* in the cluster where the script keeps it
    poolReady,    \* [Pools -> has Rook made it Ready?]
    import,    \* [Imports -> step, place in Order, generation of its environment, and
               \* whether its last lookup failed]
    peers,     \* [Imports -> imports under way at the same time] (history)
    failures

importVars == <<external, kept, poolReady, import, peers, failures>>

Absent == [user |-> 0, data |-> 0]
Importing(r) == import[r].step \in {"get", "create", "patch", "wait"}

Stages == [step : {"new", "get", "create", "patch", "wait", "done", "failed"},
           at : 1 .. Len(Order), generation : Generations, blind : BOOLEAN]

ImportTypeOK ==
    /\ external \in Generations
    /\ kept \in [Targets -> [user : 0 .. MaxGenerations, data : 0 .. MaxGenerations]]
    /\ poolReady \in [Pools -> BOOLEAN]
    /\ import \in [Imports -> Stages]
    /\ peers \in [Imports -> SUBSET Imports]
    /\ failures \in Nat

ImportInit ==
    /\ external = 1
    /\ kept = [o \in Targets |-> Absent]
    /\ poolReady = [o \in Pools |-> FALSE]
    /\ import = [r \in Imports |-> [step |-> "new", at |-> 1, generation |-> 1, blind |-> FALSE]]
    /\ peers = [r \in Imports |-> {}]
    /\ failures = 0

-----------------------------------------------------------------------------
(* The two clusters.                                                       *)

Rotate ==
    /\ external < MaxGenerations /\ external' = external + 1
    /\ UNCHANGED <<kept, poolReady, import, peers, failures>>

MakeReady(o) ==
    /\ kept[o] # Absent /\ poolReady' = [poolReady EXCEPT ![o] = TRUE]
    /\ UNCHANGED <<external, kept, import, peers, failures>>

-----------------------------------------------------------------------------
(* An import.                                                              *)

Go(r, step) == import' = [import EXCEPT ![r].step = step] /\ UNCHANGED <<external, poolReady, peers>>
Smooth  == UNCHANGED failures
Failure == failures < MaxFailures /\ failures' = failures + 1

Target(r) == Order[import[r].at]
Whole(r)  == [user |-> import[r].generation, data |-> import[r].generation]

(* The next object that the environment asks for.                          *)
Advance(r) ==
    LET rest == {i \in 1 .. Len(Order) : i > import[r].at /\ Order[i] \in Wanted} IN
    /\ \/ rest = {} /\ import' = [import EXCEPT ![r].step = "done"]
       \/ \E i \in rest :
            /\ \A j \in rest : i <= j
            /\ import' = [import EXCEPT ![r].step = "get", ![r].blind = FALSE, ![r].at = i]
    /\ UNCHANGED <<external, poolReady, peers>>

(* A pool must be Ready before its cluster ID is read.                     *)
(* Mutant: the cluster ID is read at once.                                 *)
AfterObjectMutant(r) == Advance(r)
AfterObject(r) == IF Target(r) \in Pools THEN Go(r, "wait") ELSE Advance(r)

StartImport(r) ==
    LET others == {q \in Imports : Importing(q)} IN
    /\ import[r].step = "new"
    /\ import' = [import EXCEPT ![r].step = "get", ![r].generation = external]
    /\ peers' = [q \in Imports |-> IF q = r THEN others
                                   ELSE IF q \in others THEN peers[q] \cup {r} ELSE peers[q]]
    /\ UNCHANGED <<external, kept, poolReady>> /\ Smooth

(* Mutant: looks in the wrong namespace.                                   *)
FoundMutant(o) == FALSE
Found(o) == kept[o] # Absent

(* What exists and is not patched stays as it is: "already exists".        *)
Lookup(r) ==
    /\ import[r].step = "get" /\ UNCHANGED kept
    /\ \/ ~Found(Target(r)) /\ Go(r, "create") /\ Smooth
       \/ Found(Target(r)) /\ Target(r) \in Credentials \cup {"monSecret"} /\ Go(r, "patch") /\ Smooth
       \/ Found(Target(r)) /\ Target(r) \notin Credentials \cup {"monSecret"}
            /\ AfterObject(r) /\ Smooth
       \/ /\ Failure /\ UNCHANGED <<external, poolReady, peers>>
          /\ import' = [import EXCEPT ![r].step = "create", ![r].blind = TRUE]

CreateObject(r) ==
    /\ import[r].step = "create"
    /\ LET made == [kept EXCEPT ![Target(r)] = Whole(r)] IN
       \/ kept[Target(r)] = Absent /\ kept' = made /\ AfterObject(r) /\ Smooth
       \/ kept[Target(r)] # Absent /\ UNCHANGED kept /\ Go(r, "failed") /\ Smooth
       \/ Failure /\ Go(r, "failed") /\ kept' \in {kept} \cup IF kept[Target(r)] = Absent
                                                             THEN {made} ELSE {}

(* The secret for the monitors gets the user only.                         *)
(* Mutant: the others do as well.                                          *)
PatchedMutant(r) == [kept[Target(r)] EXCEPT !.user = import[r].generation]
Patched(r) == IF Target(r) = "monSecret" THEN [kept[Target(r)] EXCEPT !.user = import[r].generation]
              ELSE Whole(r)

Patch(r) ==
    /\ import[r].step = "patch"
    /\ LET made == [kept EXCEPT ![Target(r)] = Patched(r)] IN
       \/ kept' = made /\ AfterObject(r) /\ Smooth
       \/ Failure /\ Go(r, "failed") /\ kept' \in {kept, made}

(* "timeout 20 ... until Ready", and the cluster ID.                       *)
AwaitPool(r) ==
    /\ import[r].step = "wait" /\ UNCHANGED kept
    /\ \/ poolReady[Target(r)] /\ Advance(r) /\ Smooth
       \/ ~poolReady[Target(r)] /\ Go(r, "failed") /\ Smooth

Stop(r) == Importing(r) /\ Failure /\ Go(r, "failed") /\ UNCHANGED kept

ImportStep(r) ==
    StartImport(r) \/ Lookup(r) \/ CreateObject(r) \/ Patch(r) \/ AwaitPool(r) \/ Stop(r)

ImportNext ==
    \/ Rotate \/ \E o \in Pools : MakeReady(o)
    \/ \E r \in Imports : ImportStep(r)

ImportSpec == ImportInit /\ [][ImportNext]_importVars

-----------------------------------------------------------------------------
(* Properties.                                                             *)

Becomes(r, step) == import'[r].step = step /\ import[r].step # step

(* An import that ends well leaves everything it was asked for in the      *)
(* cluster of KUBECONTEXT, but for a topology's class that went elsewhere, *)
(* and every credential as a whole from its own environment or from that   *)
(* of an import that ran beside it: not from an earlier generation, and    *)
(* not the user of one with the key of another.  This does not hold for    *)
(* the secret of the monitors, nor for what is only ever created.          *)
ImportedCredentials ==
    [][\A r \in Imports : Becomes(r, "done") => \A o \in Wanted \cap Here :
           /\ kept'[o] # Absent
           /\ o \in Credentials => \E q \in {r} \cup peers[r] : kept'[o] = Whole(q)]_importVars

(* No storage class comes before the pool whose cluster ID it carries is   *)
(* Ready, in whichever of several imports the one or the other was made:   *)
(* in one cluster, where a class of another says nothing about the pool.   *)
ClassesAreBacked ==
    /\ \A o \in {"rbdClass", "topologyClass"} \cap Here :
          kept[o] # Absent /\ "radosNamespace" \in Wanted => poolReady["radosNamespace"]
    /\ kept["cephfsClass"] # Absent /\ "subvolumeGroup" \in Wanted => poolReady["subvolumeGroup"]

(* What an import that stopped anywhere has left is never in the way of    *)
(* the next: it fails only if a call fails, a pool is not Ready in time,   *)
(* or another import creates between its lookup and its create.            *)
RerunsComplete ==
    [][\A r \in Imports : Becomes(r, "failed") =>
           \/ failures' # failures \/ import[r].blind
           \/ import[r].step = "wait" /\ ~poolReady[Target(r)]
           \/ peers[r] # {}]_importVars
=============================================================================
