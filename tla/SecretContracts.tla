-------------------------- MODULE SecretContracts --------------------------
(***************************************************************************)
(* Which ExternalSecret may read which keys: the contract list, the        *)
(* admission policy that holds a copy of it                                *)
(* (kubernetes/apps/external-secrets/access/app), the ExternalSecrets that *)
(* Flux applies, and scripts/verify-secret-isolation.py, which compares    *)
(* them and tries requests that must be refused.  Policy and consumers are *)
(* applied by different Kustomizations, so either may come first, and the  *)
(* policy may be edited by hand.                                           *)
(* An operator named "...Mutant" is a wrong variant of the one after it.   *)
(***************************************************************************)
EXTENDS Naturals, FiniteSets

CONSTANTS
    Own, Other,       \* the consumer that the script's requests are made from
                      \* (media/radarr-secret), and one that comes and goes
    Fresh,            \* a namespace/name without a contract
    OwnKey, OtherKey, \* items of the password store
    NoKey,
    Slips,            \* what edits by hand let through: sets of requests
    MaxCommits        \* bound: commits to the repository and edits by hand

Ids    == {Own, Other}
Names  == {Own, Other, Fresh}
Keys   == {OwnKey, OtherKey}
Stores == {"onepassword", "crunchy-pgo-secrets"}
Kinds  == {"ClusterSecretStore", "SecretStore"}

(* One entry of dataFrom or data stands for all: each is judged by itself. *)
(* The Secret a consumer may write is named like the consumer.             *)
Extracts == [extract : Keys \cup {NoKey}, find : BOOLEAN, override : BOOLEAN]
Data     == [key : Keys, override : BOOLEAN]
Requests == [id : Names, store : Stores, kind : Kinds, target : Names,
             from : {{}} \cup {{d} : d \in Extracts},
             data : {{}} \cup {{d} : d \in Data}, import : BOOLEAN]

ASSUME SecretAssumption ==
    /\ Own # Other /\ Fresh \notin Ids /\ OwnKey # OtherKey /\ NoKey \notin Keys
    /\ Slips \subseteq SUBSET Requests /\ MaxCommits \in Nat

Contract(i, k) == [id |-> i, store |-> "onepassword", kind |-> "ClusterSecretStore",
                   target |-> i, keys |-> {k}]
Consumer(i, k) == [id |-> i, store |-> "onepassword", kind |-> "ClusterSecretStore",
                   target |-> i,
                   from |-> {[extract |-> k, find |-> FALSE, override |-> FALSE]},
                   data |-> {}, import |-> FALSE]

-----------------------------------------------------------------------------
(* The validations of the policy, those of two parts split.                *)
Rules == {"inventory", "store", "kind", "target", "entry", "override",
          "remoteKey", "remoteOverride", "import"}

Matches(list, x) == {c \in list : c.id = x.id}

(* The contract in question: the only match, else the first of the list.   *)
Relevant(list, x) ==
    CHOOSE c \in list :
        IF Cardinality(Matches(list, x)) = 1 THEN c.id = x.id
        ELSE c.id = Other \/ \A b \in list : b.id # Other

Fits(rule, x, c) ==
    \/ rule = "store"          /\ x.store = c.store
    \/ rule = "kind"           /\ x.kind = c.kind
    \/ rule = "target"         /\ x.target = c.target
    \/ rule = "entry"          /\ \A d \in x.from : d.extract \in c.keys /\ ~d.find
    \/ rule = "override"       /\ \A d \in x.from : ~d.override
    \/ rule = "remoteKey"      /\ \A d \in x.data : d.key \in c.keys
    \/ rule = "remoteOverride" /\ \A d \in x.data : ~d.override
    \/ rule = "import"         /\ ~x.import

Holds(rule, list, x) ==
    IF rule = "inventory" THEN Cardinality(Matches(list, x)) = 1
    ELSE Fits(rule, x, Relevant(list, x))

Admits(p, x) == x \in p.exempt \/ \A rule \in p.rules : Holds(rule, p.list, x)

(* What a contract is for: its consumer reads its keys from its store into *)
(* its Secret, and nothing else.                                           *)
Conforms(list, x) ==
    \E c \in list :
        /\ x.id = c.id /\ x.store = c.store /\ x.kind = c.kind /\ x.target = c.target
        /\ \A d \in x.from : d.extract \in c.keys /\ ~d.find /\ ~d.override
        /\ \A d \in x.data : d.key \in c.keys /\ ~d.override
        /\ ~x.import

-----------------------------------------------------------------------------
VARIABLES
    git,      \* [list, wants]: the contracts in the repository, and what the
              \* manifest of each consumer extracts (NoKey: no manifest)
    policy,   \* [list, rules] in the cluster, and the requests that edits exempt
    live,     \* [Ids -> what the consumer in the cluster extracts, its state]
    verify,   \* the script: its step, the list of its checkout, what it found
              \* live, whether all results passed
    calm,     \* nothing has changed in the cluster since the script began (history)
    commits

secretVars == <<git, policy, live, verify, calm, commits>>

Present(i) == live[i].key # NoKey
Gone == [key |-> NoKey, finalizer |-> FALSE, deleting |-> FALSE]
Listed(k) == {Contract(Own, OwnKey)} \cup IF k = NoKey THEN {} ELSE {Contract(Other, k)}
Lists == {Listed(k) : k \in Keys \cup {NoKey}}

SecretTypeOK ==
    /\ git \in [list : Lists, wants : [Ids -> Keys \cup {NoKey}]]
    /\ policy \in [list : Lists, rules : SUBSET Rules, exempt : SUBSET Requests]
    /\ live \in [Ids -> [key : Keys \cup {NoKey}, finalizer : BOOLEAN, deleting : BOOLEAN]]
    /\ verify \in [step : {"idle", "policy", "list", "admitted", "cases", "rest",
                           "passed", "failed"},
                   list : Lists, seen : [Ids -> Keys \cup {NoKey}], ok : BOOLEAN]
    /\ calm \in BOOLEAN /\ commits \in Nat

(* Everything is applied; the other consumer is not there yet.             *)
SecretInit ==
    /\ git = [list |-> Listed(NoKey), wants |-> [i \in Ids |-> IF i = Own THEN OwnKey ELSE NoKey]]
    /\ policy = [list |-> Listed(NoKey), rules |-> Rules, exempt |-> {}]
    /\ live = [i \in Ids |-> IF i = Own
                 THEN [key |-> OwnKey, finalizer |-> TRUE, deleting |-> FALSE] ELSE Gone]
    /\ verify = [step |-> "idle", list |-> Listed(NoKey), seen |-> [i \in Ids |-> NoKey],
                 ok |-> TRUE]
    /\ calm = FALSE /\ commits = 0

-----------------------------------------------------------------------------
(* Repository and cluster.                                                 *)

ClusterChange == calm' = FALSE /\ UNCHANGED <<verify, commits>>

(* A reviewed change brings a contract with its consumer, or removes both. *)
Commit(k) ==
    /\ commits < MaxCommits /\ commits' = commits + 1
    /\ git' = [list |-> Listed(k), wants |-> [git.wants EXCEPT ![Other] = k]]
    /\ UNCHANGED <<policy, live, verify, calm>>

(* Somebody takes a validation out of the policy, or lets requests through *)
(* in another way: a weaker expression, another matchCondition, narrower   *)
(* matchConstraints, failurePolicy.  (An edit that refuses more is not     *)
(* modelled.)                                                              *)
EditByHand ==
    /\ commits < MaxCommits /\ commits' = commits + 1
    /\ \/ \E rule \in Rules : policy' = [policy EXCEPT !.rules = @ \ {rule}]
       \/ \E slip \in Slips : policy' = [policy EXCEPT !.exempt = @ \cup slip]
    /\ calm' = FALSE /\ UNCHANGED <<git, live, verify>>

(* What Flux and the controller still have to do.  The condition allow-    *)
(* controller-finalizer-maintenance: an update by the controller that      *)
(* leaves the spec alone is not judged.  Mutant: every update is.          *)
Reviewed == [list |-> git.list, rules |-> Rules, exempt |-> {}]
PolicyDue == policy # Reviewed

ConsumerDue(i) ==
    /\ git.wants[i] \notin {NoKey, live[i].key} /\ ~live[i].deleting
    /\ Admits(policy, Consumer(i, git.wants[i]))

PruneDue(i) == git.wants[i] = NoKey /\ Present(i) /\ ~live[i].deleting

MaintainsMutant(i) == Admits(policy, Consumer(i, live[i].key))
Maintains(i) == Present(i)

FinalizerDue(i) == Present(i) /\ ~live[i].finalizer /\ ~live[i].deleting /\ Maintains(i)
ReleaseDue(i)   == live[i].deleting /\ Maintains(i)

ApplyPolicy ==
    /\ PolicyDue
    /\ policy' = Reviewed
    /\ ClusterChange /\ UNCHANGED <<git, live>>

(* Creates or updates what differs; a refused request is tried again.      *)
ApplyConsumer(i) ==
    /\ ConsumerDue(i)
    /\ live' = [live EXCEPT ![i].key = git.wants[i]]
    /\ ClusterChange /\ UNCHANGED <<git, policy>>

(* DELETE is not the policy's business; a finalizer holds the object.      *)
Prune(i) ==
    /\ PruneDue(i)
    /\ live' = [live EXCEPT ![i] = IF @.finalizer THEN [@ EXCEPT !.deleting = TRUE] ELSE Gone]
    /\ ClusterChange /\ UNCHANGED <<git, policy>>

AddFinalizer(i) ==
    /\ FinalizerDue(i)
    /\ live' = [live EXCEPT ![i].finalizer = TRUE]
    /\ ClusterChange /\ UNCHANGED <<git, policy>>

RemoveFinalizer(i) ==
    /\ ReleaseDue(i)
    /\ live' = [live EXCEPT ![i] = Gone]
    /\ ClusterChange /\ UNCHANGED <<git, policy>>

-----------------------------------------------------------------------------
(* The script, on a checkout that is up to date with git or the cluster.   *)

At(step, next) == verify.step = step /\ verify' = [verify EXCEPT !.step = next]
Record(step, next, ok) ==
    /\ verify.step = step
    /\ \E others \in BOOLEAN :   \* compiled, Ready, RBAC, stores
         verify' = [verify EXCEPT !.step = next, !.ok = @ /\ ok /\ others]
    /\ UNCHANGED <<git, policy, live, calm, commits>>

Begin(list) ==
    /\ verify.step \in {"idle", "passed", "failed"}
    /\ verify' = [verify EXCEPT !.step = "policy", !.list = list, !.ok = TRUE]
    /\ calm' = TRUE /\ UNCHANGED <<git, policy, live, commits>>

ReadPolicy == Record("policy", "list", policy.list = verify.list)

(* The specs listed here are the ones tried later.                         *)
ListLive ==
    /\ verify.step = "list"
    /\ LET seen == [i \in Ids |-> live[i].key] IN
       verify' = [verify EXCEPT !.step = "admitted", !.seen = seen,
           !.ok = @ /\ {i \in Ids : seen[i] # NoKey} = {c.id : c \in verify.list}]
    /\ UNCHANGED <<git, policy, live, calm, commits>>

(* A dry run of each listed spec.  Mutant: of none.                        *)
AdmittedMutant == TRUE
Admitted == \A c \in verify.list :
    /\ verify.seen[c.id] # NoKey
    /\ Admits(policy, Consumer(c.id, verify.seen[c.id]))

TryLive == Record("admitted", "cases", Admitted)

(* The variations of the script's own consumer.                            *)
Variations(b) ==
    LET entry == [extract |-> OwnKey, find |-> FALSE, override |-> FALSE] IN
    {[b EXCEPT !.from = {[entry EXCEPT !.extract = OtherKey]}],
     [b EXCEPT !.id = Fresh],
     [b EXCEPT !.target = Fresh],
     [b EXCEPT !.store = "crunchy-pgo-secrets"],
     [b EXCEPT !.kind = "SecretStore"],
     [b EXCEPT !.data = {[key |-> OtherKey, override |-> FALSE]}],
     [b EXCEPT !.from = {[entry EXCEPT !.extract = NoKey, !.find = TRUE]}],
     [b EXCEPT !.from = {[entry EXCEPT !.override = TRUE]}],
     [b EXCEPT !.data = {[key |-> OwnKey, override |-> TRUE]}],
     [b EXCEPT !.import = TRUE]}

TryCases ==
    Record("cases", "rest", \A x \in Variations(Consumer(Own, verify.seen[Own])) :
                                ~Admits(policy, x))

Conclude ==
    /\ At("rest", IF verify.ok THEN "passed" ELSE "failed")
    /\ UNCHANGED <<git, policy, live, calm, commits>>

ScriptStep ==
    \/ \E list \in {git.list, policy.list} : Begin(list)
    \/ ReadPolicy \/ ListLive \/ TryLive \/ TryCases \/ Conclude

Reconcile ==
    \/ ApplyPolicy
    \/ \E i \in Ids : \/ ApplyConsumer(i) \/ Prune(i)
                      \/ AddFinalizer(i) \/ RemoveFinalizer(i)

SecretNext ==
    \/ \E k \in Keys \cup {NoKey} : Commit(k)
    \/ EditByHand \/ Reconcile \/ ScriptStep

SecretSpec == SecretInit /\ [][SecretNext]_secretVars

-----------------------------------------------------------------------------
(* Properties.                                                             *)

(* What a pass of verify-secret-isolation.py shows of a cluster in which   *)
(* nothing changed meanwhile.  No validation is missing but the first: its *)
(* requests tell each of the others, whereas an unknown name is refused    *)
(* for not fitting the first contract of the list as well.  Of what was    *)
(* edited in another way it shows that none of its own requests gets       *)
(* through, no more: a live consumer, and with the first validation any    *)
(* request that is let in, keeps to the reviewed contracts unless such an  *)
(* edit exempts it.                                                        *)
PassMeansContracts ==
    verify.step = "passed" /\ calm =>
        /\ Rules \ {"inventory"} \subseteq policy.rules
        /\ policy.exempt \cap Variations(Consumer(Own, live[Own].key)) = {}
        /\ \A i \in Ids : Present(i) =>
              \/ Conforms(verify.list, Consumer(i, live[i].key))
              \/ Consumer(i, live[i].key) \in policy.exempt
        /\ "inventory" \in policy.rules =>
             \A x \in Requests \ policy.exempt : Admits(policy, x) => Conforms(verify.list, x)

(* Nobody waits for somebody else for ever: whatever was applied first,    *)
(* once Flux and the controller have nothing left that admission allows    *)
(* (no action of Reconcile has its guard), the cluster is what the         *)
(* repository says.  A consumer whose contract is gone before it can still *)
(* lose its finalizer (matchConditions).                                   *)
Settled ==
    /\ ~PolicyDue
    /\ \A i \in Ids : ~ConsumerDue(i) /\ ~PruneDue(i) /\ ~FinalizerDue(i) /\ ~ReleaseDue(i)

SettledIsApplied ==
    Settled => /\ policy.list = git.list
               /\ \A i \in Ids : live[i].key = git.wants[i] /\ ~live[i].deleting
=============================================================================
