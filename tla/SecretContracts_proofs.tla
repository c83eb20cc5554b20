------------------------ MODULE SecretContracts_proofs ------------------------
(***************************************************************************)
(* For every pair of keys, any number of commits and of edits by hand, and *)
(* whatever the edits let through: which of them a pass of                 *)
(* verify-secret-isolation.py rules out, and that the reviewed contracts   *)
(* and consumers are applied in the end.                                   *)
(***************************************************************************)
EXTENDS SecretContracts, FiniteSetTheorems, TLAPS

LEMMA ListFacts ==
    ASSUME NEW list \in Lists
    PROVE  /\ IsFiniteSet(list) /\ Contract(Own, OwnKey) \in list
           /\ \A c \in list : /\ c.id \in Ids /\ c.target = c.id
                              /\ c.store = "onepassword" /\ c.kind = "ClusterSecretStore"
           /\ \A b, c \in list : b.id = c.id => b = c
<1>1. PICK k \in Keys \cup {NoKey} : list = Listed(k)
  BY DEF Lists
<1>2. list = {Contract(Own, OwnKey)} \/ list = {Contract(Own, OwnKey), Contract(Other, k)}
  BY <1>1 DEF Listed
<1>3. IsFiniteSet({Contract(Own, OwnKey)} \cup {Contract(Other, k)})
  <2>1. IsFiniteSet({Contract(Own, OwnKey)})
    BY FS_Singleton, Zenon
  <2> QED
    BY <2>1, FS_AddElement, Zenon
<1>4. {Contract(Own, OwnKey), Contract(Other, k)}
           = {Contract(Own, OwnKey)} \cup {Contract(Other, k)}
  BY Zenon
<1>5. IsFiniteSet(list)
  BY <1>2, <1>3, <1>4, FS_Singleton, Zenon
<1>6. \A c \in list : c = Contract(Own, OwnKey) \/ c = Contract(Other, k)
  BY <1>2
<1>7. Contract(Own, OwnKey).id # Contract(Other, k).id
  BY SecretAssumption DEF Contract, Ids
<1>8. \A c \in list : /\ c.id \in Ids /\ c.target = c.id
                      /\ c.store = "onepassword" /\ c.kind = "ClusterSecretStore"
  BY <1>6 DEF Contract, Ids
<1> QED
  BY <1>2, <1>5, <1>6, <1>7, <1>8, Zenon

(* The contract in question is the one of the consumer, if there is one.   *)
LEMMA RelevantIsTheMatch ==
    ASSUME NEW list \in Lists, NEW c \in list, NEW x, x.id = c.id
    PROVE  Cardinality(Matches(list, x)) = 1 /\ Relevant(list, x) = c
<1>1. Matches(list, x) = {c}
  BY ListFacts DEF Matches
<1>2. Cardinality(Matches(list, x)) = 1
  BY <1>1, FS_Singleton
<1>3. \A b \in list : b.id = x.id <=> b = c
  BY ListFacts
<1>4. Relevant(list, x) = CHOOSE b \in list : b.id = x.id
  BY <1>2 DEF Relevant
<1> QED
  BY <1>2, <1>3, <1>4

(* The validations say no less than the contract: what a policy with all   *)
(* of them admits conforms.  The first is only needed for names without a  *)
(* contract.                                                               *)
LEMMA RulesMeanContracts ==
    ASSUME NEW p, p.list \in Lists, Rules \ {"inventory"} \subseteq p.rules,
           NEW x, Admits(p, x), x \notin p.exempt,
           "inventory" \in p.rules \/ \E c \in p.list : c.id = x.id
    PROVE  Conforms(p.list, x)
<1>1. PICK c \in p.list : c.id = x.id
  <2>1. CASE "inventory" \in p.rules
    <3>1. Cardinality(Matches(p.list, x)) = 1
      BY <2>1 DEF Admits, Holds
    <3>2. IsFiniteSet(Matches(p.list, x))
      BY ListFacts, FS_Subset DEF Matches
    <3>3. Matches(p.list, x) # {}
      BY <3>1, FS_EmptySet
    <3> QED
      BY <3>3 DEF Matches
  <2> QED
    BY <2>1
<1>2. Relevant(p.list, x) = c
  BY <1>1, RelevantIsTheMatch
<1>3. \A rule \in Rules \ {"inventory"} : Fits(rule, x, c)
  BY <1>2 DEF Admits, Holds
<1>4. x.store = c.store /\ x.kind = c.kind /\ x.target = c.target
  BY <1>3 DEF Fits, Rules
<1>5. \A d \in x.from : d.extract \in c.keys /\ ~d.find /\ ~d.override
  BY <1>3 DEF Fits, Rules
<1>6. \A d \in x.data : d.key \in c.keys /\ ~d.override
  BY <1>3 DEF Fits, Rules
<1>7. ~x.import
  BY <1>3 DEF Fits, Rules
<1> QED
  BY <1>1, <1>4, <1>5, <1>6, <1>7 DEF Conforms

(* A request of the script's consumer that is refused although it differs  *)
(* from the contract in one point shows the validation of that point.      *)
LEMMA RefusalShowsRule ==
    ASSUME NEW p, p.list \in Lists, p.rules \subseteq Rules, NEW rule \in Rules,
           NEW x, x.id = Own, ~Admits(p, x),
           \A other \in Rules \ {rule, "inventory"} : Fits(other, x, Contract(Own, OwnKey))
    PROVE  rule \in p.rules
<1> DEFINE c == Contract(Own, OwnKey)
<1>1. c \in p.list /\ c.id = x.id
  BY ListFacts DEF Contract
<1>2. Relevant(p.list, x) = c /\ Cardinality(Matches(p.list, x)) = 1
  BY <1>1, RelevantIsTheMatch
<1>3. PICK other \in p.rules : ~Holds(other, p.list, x)
  BY DEF Admits
<1>4. other # "inventory" /\ ~Fits(other, x, c)
  BY <1>2, <1>3 DEF Holds
<1> QED
  BY <1>3, <1>4

(* The requests of the script pin down every validation but the first.     *)
LEMMA CasesPinRules ==
    ASSUME NEW p, p.list \in Lists, p.rules \subseteq Rules,
           \A x \in Variations(Consumer(Own, OwnKey)) : ~Admits(p, x)
    PROVE  Rules \ {"inventory"} \subseteq p.rules
<1> DEFINE b     == Consumer(Own, OwnKey)
           entry == [extract |-> OwnKey, find |-> FALSE, override |-> FALSE]
           c     == Contract(Own, OwnKey)
<1>1. c.store = "onepassword" /\ c.kind = "ClusterSecretStore" /\ c.target = Own
        /\ c.keys = {OwnKey}
  BY DEF Contract
<1> HIDE DEF c
<1>2. "store" \in p.rules
  <2> DEFINE x == [b EXCEPT !.store = "crunchy-pgo-secrets"]
  <2>1. x \in Variations(b)
    BY DEF Variations
  <2>2. x.id = Own /\ x.kind = "ClusterSecretStore" /\ x.target = Own /\ x.from = {entry}
          /\ x.data = {} /\ x.import = FALSE
    BY DEF Consumer
  <2> HIDE DEF x
  <2>3. \A other \in Rules \ {"store", "inventory"} : Fits(other, x, c)
    BY <1>1, <2>2 DEF Fits, Rules
  <2> QED
    BY <2>1, <2>2, <2>3, RefusalShowsRule DEF Rules, c
<1>3. "kind" \in p.rules
  <2> DEFINE x == [b EXCEPT !.kind = "SecretStore"]
  <2>1. x \in Variations(b)
    BY DEF Variations
  <2>2. x.id = Own /\ x.store = "onepassword" /\ x.target = Own /\ x.from = {entry}
          /\ x.data = {} /\ x.import = FALSE
    BY DEF Consumer
  <2> HIDE DEF x
  <2>3. \A other \in Rules \ {"kind", "inventory"} : Fits(other, x, c)
    BY <1>1, <2>2 DEF Fits, Rules
  <2> QED
    BY <2>1, <2>2, <2>3, RefusalShowsRule DEF Rules, c
<1>4. "target" \in p.rules
  <2> DEFINE x == [b EXCEPT !.target = Fresh]
  <2>1. x \in Variations(b)
    BY DEF Variations
  <2>2. x.id = Own /\ x.store = "onepassword" /\ x.kind = "ClusterSecretStore" /\ x.from = {entry}
          /\ x.data = {} /\ x.import = FALSE
    BY DEF Consumer
  <2> HIDE DEF x
  <2>3. \A other \in Rules \ {"target", "inventory"} : Fits(other, x, c)
    BY <1>1, <2>2 DEF Fits, Rules
  <2> QED
    BY <2>1, <2>2, <2>3, RefusalShowsRule DEF Rules, c
<1>5. "entry" \in p.rules
  <2> DEFINE x == [b EXCEPT !.from = {[entry EXCEPT !.extract = OtherKey]}]
  <2>1. x \in Variations(b)
    BY DEF Variations
  <2>2. x.id = Own /\ x.store = "onepassword" /\ x.kind = "ClusterSecretStore" /\ x.target = Own
          /\ x.from = {[entry EXCEPT !.extract = OtherKey]} /\ x.data = {} /\ x.import = FALSE
    BY DEF Consumer
  <2> HIDE DEF x
  <2>3. \A other \in Rules \ {"entry", "inventory"} : Fits(other, x, c)
    BY <1>1, <2>2 DEF Fits, Rules
  <2> QED
    BY <2>1, <2>2, <2>3, RefusalShowsRule DEF Rules, c
<1>6. "override" \in p.rules
  <2> DEFINE x == [b EXCEPT !.from = {[entry EXCEPT !.override = TRUE]}]
  <2>1. x \in Variations(b)
    BY DEF Variations
  <2>2. x.id = Own /\ x.store = "onepassword" /\ x.kind = "ClusterSecretStore" /\ x.target = Own
          /\ x.from = {[entry EXCEPT !.override = TRUE]} /\ x.data = {} /\ x.import = FALSE
    BY DEF Consumer
  <2> HIDE DEF x
  <2>3. \A other \in Rules \ {"override", "inventory"} : Fits(other, x, c)
    BY <1>1, <2>2 DEF Fits, Rules
  <2> QED
    BY <2>1, <2>2, <2>3, RefusalShowsRule DEF Rules, c
<1>7. "remoteKey" \in p.rules
  <2> DEFINE x == [b EXCEPT !.data = {[key |-> OtherKey, override |-> FALSE]}]
  <2>1. x \in Variations(b)
    BY DEF Variations
  <2>2. x.id = Own /\ x.store = "onepassword" /\ x.kind = "ClusterSecretStore" /\ x.target = Own
          /\ x.from = {entry} /\ x.data = {[key |-> OtherKey, override |-> FALSE]} /\ x.import = FALSE
    BY DEF Consumer
  <2> HIDE DEF x
  <2>3. \A other \in Rules \ {"remoteKey", "inventory"} : Fits(other, x, c)
    BY <1>1, <2>2 DEF Fits, Rules
  <2> QED
    BY <2>1, <2>2, <2>3, RefusalShowsRule DEF Rules, c
<1>8. "remoteOverride" \in p.rules
  <2> DEFINE x == [b EXCEPT !.data = {[key |-> OwnKey, override |-> TRUE]}]
  <2>1. x \in Variations(b)
    BY DEF Variations
  <2>2. x.id = Own /\ x.store = "onepassword" /\ x.kind = "ClusterSecretStore" /\ x.target = Own
          /\ x.from = {entry} /\ x.data = {[key |-> OwnKey, override |-> TRUE]} /\ x.import = FALSE
    BY DEF Consumer
  <2> HIDE DEF x
  <2>3. \A other \in Rules \ {"remoteOverride", "inventory"} : Fits(other, x, c)
    BY <1>1, <2>2 DEF Fits, Rules
  <2> QED
    BY <2>1, <2>2, <2>3, RefusalShowsRule DEF Rules, c
<1>9. "import" \in p.rules
  <2> DEFINE x == [b EXCEPT !.import = TRUE]
  <2>1. x \in Variations(b)
    BY DEF Variations
  <2>2. x.id = Own /\ x.store = "onepassword" /\ x.kind = "ClusterSecretStore" /\ x.target = Own
          /\ x.from = {entry} /\ x.data = {}
    BY DEF Consumer
  <2> HIDE DEF x
  <2>3. \A other \in Rules \ {"import", "inventory"} : Fits(other, x, c)
    BY <1>1, <2>2 DEF Fits, Rules
  <2> QED
    BY <2>1, <2>2, <2>3, RefusalShowsRule DEF Rules, c
<1> QED
  BY <1>2, <1>3, <1>4, <1>5, <1>6, <1>7, <1>8, <1>9 DEF Rules

-----------------------------------------------------------------------------
(* A step of the script that records a result.                             *)
LEMMA RecordFacts ==
    ASSUME SecretTypeOK, NEW step, NEW ok \in BOOLEAN,
           NEW next \in {"list", "cases", "rest"}, Record(step, next, ok)
    PROVE  /\ SecretTypeOK' /\ verify.step = step /\ verify'.step = next
           /\ verify'.list = verify.list /\ verify'.seen = verify.seen
           /\ verify'.ok => verify.ok /\ ok
           /\ UNCHANGED <<policy, live, calm>>
<1>1. PICK others \in BOOLEAN :
          verify' = [verify EXCEPT !.step = next, !.ok = @ /\ ok /\ others]
  BY DEF Record
<1> DEFINE all == verify.ok /\ ok /\ others
<1>2. verify' = [verify EXCEPT !.step = next, !.ok = all] /\ all \in BOOLEAN
  BY <1>1
<1> HIDE DEF all
<1>3. /\ verify' \in [step : {"idle", "policy", "list", "admitted", "cases", "rest",
                            "passed", "failed"},
                    list : Lists, seen : [Ids -> Keys \cup {NoKey}], ok : BOOLEAN]
      /\ verify'.step = next /\ verify'.ok = all
      /\ verify'.list = verify.list /\ verify'.seen = verify.seen
  BY <1>2 DEF SecretTypeOK
<1>4. verify'.ok => verify.ok /\ ok
  BY <1>3, Zenon DEF all
<1> QED
  BY <1>3, <1>4 DEF Record, SecretTypeOK

LEMMA ChecksAreBoolean ==
    /\ (policy.list = verify.list) \in BOOLEAN /\ Admitted \in BOOLEAN
    /\ (\A x \in Variations(Consumer(Own, verify.seen[Own])) : ~Admits(policy, x)) \in BOOLEAN
BY Zenon DEF Admitted

(* The repository, the cluster and the script keep their types.            *)
THEOREM SecretTyped == SecretSpec => []SecretTypeOK
<1>1. SecretInit => SecretTypeOK
  <2> SUFFICES ASSUME SecretInit PROVE SecretTypeOK
    OBVIOUS
  <2>1. Listed(NoKey) \in Lists
    BY DEF Lists
  <2>2. git \in [list : Lists, wants : [Ids -> Keys \cup {NoKey}]]
    BY <2>1 DEF SecretInit, Keys
  <2>3. policy \in [list : Lists, rules : SUBSET Rules, exempt : SUBSET Requests]
    BY <2>1 DEF SecretInit
  <2>4. live \in [Ids -> [key : Keys \cup {NoKey}, finalizer : BOOLEAN, deleting : BOOLEAN]]
    BY DEF SecretInit, Gone, Keys
  <2>5. [i \in Ids |-> NoKey] \in [Ids -> Keys \cup {NoKey}]
    OBVIOUS
  <2> QED
    BY <2>1, <2>2, <2>3, <2>4, <2>5 DEF SecretInit, SecretTypeOK
<1>2. SecretTypeOK /\ [SecretNext]_secretVars => SecretTypeOK'
  <2> SUFFICES ASSUME SecretTypeOK, [SecretNext]_secretVars
               PROVE  SecretTypeOK'
    OBVIOUS
  <2> USE DEF SecretTypeOK
  <2>1. CASE UNCHANGED secretVars
    BY <2>1 DEF secretVars
  <2>2. ASSUME NEW k \in Keys \cup {NoKey}, Commit(k) PROVE SecretTypeOK'
    <3>1. Listed(k) \in Lists /\ [git.wants EXCEPT ![Other] = k] \in [Ids -> Keys \cup {NoKey}]
      BY DEF Lists
    <3> QED
      BY <2>2, <3>1 DEF Commit
  <2>3. CASE EditByHand
    <3>1. calm' = FALSE /\ commits' = commits + 1 /\ UNCHANGED <<git, live, verify>>
      BY <2>3 DEF EditByHand
    <3>2. policy' \in [list : Lists, rules : SUBSET Rules, exempt : SUBSET Requests]
      <4>1. policy \in [list : Lists, rules : SUBSET Rules, exempt : SUBSET Requests]
        OBVIOUS
      <4> HIDE DEF SecretTypeOK
      <4>2. CASE \E rule \in Rules : policy' = [policy EXCEPT !.rules = @ \ {rule}]
        BY <4>1, <4>2
      <4>3. CASE \E slip \in Slips : policy' = [policy EXCEPT !.exempt = @ \cup slip]
        <5>1. PICK slip \in Slips : policy' = [policy EXCEPT !.exempt = @ \cup slip]
          BY <4>3
        <5>2. slip \in SUBSET Requests
          BY SecretAssumption
        <5> HIDE DEF Requests
        <5> QED
          BY <4>1, <5>1, <5>2
      <4> QED
        BY <2>3, <4>2, <4>3 DEF EditByHand
    <3>3. commits' \in Nat
      BY <3>1
    <3> QED
      BY <3>1, <3>2, <3>3
  <2>4. CASE ApplyPolicy
    BY <2>4 DEF ApplyPolicy, ClusterChange, Reviewed
  <2>5. ASSUME NEW i \in Ids, ApplyConsumer(i) \/ Prune(i) \/ AddFinalizer(i) \/ RemoveFinalizer(i)
        PROVE  SecretTypeOK'
    <3>1. /\ live' \in [Ids -> [key : Keys \cup {NoKey}, finalizer : BOOLEAN, deleting : BOOLEAN]]
          /\ UNCHANGED <<git, policy>> /\ ClusterChange
      <4>1. CASE ApplyConsumer(i)
        BY <4>1 DEF ApplyConsumer, ConsumerDue
      <4>2. CASE Prune(i)
        BY <4>2 DEF Prune, Gone
      <4>3. CASE AddFinalizer(i)
        BY <4>3 DEF AddFinalizer
      <4>4. CASE RemoveFinalizer(i)
        BY <4>4 DEF RemoveFinalizer, Gone
      <4> QED
        BY <2>5, <4>1, <4>2, <4>3, <4>4
    <3> QED
      BY <3>1 DEF ClusterChange
  <2>6. CASE ScriptStep
    <3>1. ASSUME NEW list \in {git.list, policy.list}, Begin(list) PROVE SecretTypeOK'
      BY <3>1 DEF Begin
    <3>2. CASE ReadPolicy \/ TryLive \/ TryCases
      <4> HIDE DEF SecretTypeOK
      <4>1. CASE ReadPolicy
        BY <4>1, RecordFacts, ChecksAreBoolean, Zenon DEF ReadPolicy
      <4>2. CASE TryLive
        BY <4>2, RecordFacts, ChecksAreBoolean, Zenon DEF TryLive
      <4>3. CASE TryCases
        <5> DEFINE refused == \A x \in Variations(Consumer(Own, verify.seen[Own])) :
                                  ~Admits(policy, x)
        <5>1. Record("cases", "rest", refused) /\ refused \in BOOLEAN
          BY <4>3, ChecksAreBoolean, Zenon DEF TryCases
        <5> HIDE DEF refused
        <5> QED
          BY <5>1, RecordFacts, Zenon
      <4> QED
        BY <3>2, <4>1, <4>2, <4>3
    <3>3. CASE ListLive
      <4>1. [i \in Ids |-> live[i].key] \in [Ids -> Keys \cup {NoKey}]
        OBVIOUS
      <4> QED
        BY <3>3, <4>1 DEF ListLive
    <3>4. CASE Conclude
      BY <3>4 DEF Conclude, At
    <3> QED
      BY <2>6, <3>1, <3>2, <3>3, <3>4 DEF ScriptStep
  <2> QED
    BY <2>1, <2>2, <2>3, <2>4, <2>5, <2>6 DEF SecretNext, Reconcile
<1> QED
  BY <1>1, <1>2, PTL DEF SecretSpec

(* The consumer that the script's requests are made from is always there.  *)
OwnIsLive == live[Own].key = OwnKey /\ git.wants[Own] = OwnKey /\ ~live[Own].deleting

(* What a script whose results are all good so far has shown, if nothing   *)
(* has changed in the cluster since it began.                              *)
Evidence ==
    /\ verify.step = "passed" => verify.ok
    /\ calm /\ verify.ok =>
        /\ verify.step \in {"list", "admitted", "cases", "rest", "passed"}
             => policy.list = verify.list
        /\ verify.step \in {"admitted", "cases", "rest", "passed"}
             => /\ \A i \in Ids : verify.seen[i] = live[i].key
                /\ {i \in Ids : verify.seen[i] # NoKey} = {c.id : c \in verify.list}
        /\ verify.step \in {"cases", "rest", "passed"} => Admitted
        /\ verify.step \in {"rest", "passed"} =>
             \A x \in Variations(Consumer(Own, verify.seen[Own])) : ~Admits(policy, x)

LEMMA OwnInvariant == SecretSpec => []OwnIsLive
<1>1. SecretInit => OwnIsLive
  BY SecretAssumption DEF SecretInit, OwnIsLive, Ids
<1>2. SecretTypeOK /\ OwnIsLive /\ [SecretNext]_secretVars => OwnIsLive'
  <2> SUFFICES ASSUME SecretTypeOK, OwnIsLive, [SecretNext]_secretVars
               PROVE  OwnIsLive'
    OBVIOUS
  <2> USE SecretAssumption DEF OwnIsLive, SecretTypeOK
  <2>1. CASE UNCHANGED <<git, live>>
    BY <2>1
  <2>2. ASSUME NEW k \in Keys \cup {NoKey}, Commit(k) PROVE OwnIsLive'
    BY <2>2 DEF Commit, Ids
  <2>3. ASSUME NEW i \in Ids, ApplyConsumer(i) PROVE OwnIsLive'
    BY <2>3 DEF ApplyConsumer, ConsumerDue, Ids
  <2>4. ASSUME NEW i \in Ids, Prune(i) PROVE OwnIsLive'
    <3>1. i # Own
      BY <2>4 DEF Prune, PruneDue, Keys
    <3> QED
      BY <2>4, <3>1 DEF Prune, Ids
  <2>5. ASSUME NEW i \in Ids, AddFinalizer(i) PROVE OwnIsLive'
    BY <2>5 DEF AddFinalizer, Ids
  <2>6. ASSUME NEW i \in Ids, RemoveFinalizer(i) PROVE OwnIsLive'
    BY <2>6 DEF RemoveFinalizer, ReleaseDue, Ids
  <2>7. CASE ScriptStep
    BY <2>7 DEF ScriptStep, Begin, ReadPolicy, ListLive, TryLive, TryCases, Conclude, Record
  <2> QED
    BY <2>1, <2>2, <2>3, <2>4, <2>5, <2>6, <2>7
       DEF SecretNext, Reconcile, EditByHand, ApplyPolicy, secretVars
<1> QED
  BY <1>1, <1>2, SecretTyped, PTL DEF SecretSpec

LEMMA EvidenceInvariant == SecretSpec => []Evidence
<1>1. SecretInit => Evidence
  BY DEF SecretInit, Evidence
<1>2. SecretTypeOK /\ Evidence /\ [SecretNext]_secretVars => Evidence'
  <2> SUFFICES ASSUME SecretTypeOK, Evidence, [SecretNext]_secretVars
               PROVE  Evidence'
    OBVIOUS
  <2>1. CASE UNCHANGED <<policy, live, verify, calm>>
    BY <2>1 DEF Evidence, Admitted
  <2>2. CASE ~calm' /\ verify' = verify
    BY <2>2 DEF Evidence
  <2>3. ASSUME NEW list \in {git.list, policy.list}, Begin(list) PROVE Evidence'
    BY <2>3 DEF Begin, Evidence, SecretTypeOK
  <2>4. CASE ReadPolicy
    <3>1. /\ verify'.step = "list" /\ UNCHANGED <<policy, live, calm>>
          /\ verify'.list = verify.list /\ verify'.seen = verify.seen
          /\ verify'.ok => verify.ok /\ policy.list = verify.list
      BY <2>4, RecordFacts, ChecksAreBoolean, Zenon DEF ReadPolicy
    <3> QED
      BY <3>1 DEF Evidence
  <2>5. CASE ListLive
    <3>1. \A i \in Ids : verify'.seen[i] = live'[i].key
      BY <2>5 DEF ListLive, SecretTypeOK
    <3> QED
      BY <2>5, <3>1 DEF ListLive, Evidence, SecretTypeOK
  <2>6. CASE TryLive
    <3>1. /\ verify.step = "admitted" /\ verify'.step = "cases"
          /\ verify'.list = verify.list /\ verify'.seen = verify.seen
          /\ verify'.ok => verify.ok /\ Admitted
          /\ UNCHANGED <<policy, live, calm>>
      BY <2>6, RecordFacts, ChecksAreBoolean, Zenon DEF TryLive
    <3>2. Admitted => Admitted'
      BY <3>1 DEF Admitted
    <3> QED
      BY <3>1, <3>2 DEF Evidence
  <2>7. CASE TryCases
    <3> DEFINE refused == \A x \in Variations(Consumer(Own, verify.seen[Own])) :
                              ~Admits(policy, x)
    <3>1. Record("cases", "rest", refused) /\ refused \in BOOLEAN
      BY <2>7, ChecksAreBoolean, Zenon DEF TryCases
    <3> HIDE DEF refused
    <3>2. /\ verify.step = "cases" /\ verify'.step = "rest"
          /\ verify'.list = verify.list /\ verify'.seen = verify.seen
          /\ verify'.ok => verify.ok /\ refused
          /\ UNCHANGED <<policy, live, calm>>
      BY <3>1, RecordFacts, Zenon
    <3>3. Admitted => Admitted'
      BY <3>2 DEF Admitted
    <3>4. refused => refused'
      BY <3>2 DEF refused
    <3> QED
      BY <3>2, <3>3, <3>4 DEF Evidence, refused
  <2>8. CASE Conclude
    BY <2>8 DEF Conclude, At, Evidence, Admitted, SecretTypeOK
  <2> QED
    BY <2>1, <2>2, <2>3, <2>4, <2>5, <2>6, <2>7, <2>8
       DEF SecretNext, ScriptStep, Reconcile, Commit, EditByHand, ApplyPolicy, ApplyConsumer,
           Prune, AddFinalizer, RemoveFinalizer, ClusterChange, secretVars
<1> QED
  BY <1>1, <1>2, SecretTyped, PTL DEF SecretSpec

(* When verify-secret-isolation.py passes in a quiet cluster, no           *)
(* validation but the first is missing and none of its requests is exempt, *)
(* and nothing else gets in, or is live, that does not keep to the         *)
(* reviewed contracts.                                                     *)
THEOREM PassShowsContracts == SecretSpec => []PassMeansContracts
<1>1. SecretTypeOK /\ OwnIsLive /\ Evidence => PassMeansContracts
  <2> SUFFICES ASSUME SecretTypeOK, OwnIsLive, Evidence, verify.step = "passed", calm
               PROVE  /\ Rules \ {"inventory"} \subseteq policy.rules
                      /\ policy.exempt \cap Variations(Consumer(Own, live[Own].key)) = {}
                      /\ \A i \in Ids : Present(i) =>
                            \/ Conforms(verify.list, Consumer(i, live[i].key))
                            \/ Consumer(i, live[i].key) \in policy.exempt
                      /\ "inventory" \in policy.rules =>
                           \A x \in Requests \ policy.exempt :
                              Admits(policy, x) => Conforms(verify.list, x)
    BY DEF PassMeansContracts
  <2>1. policy.list = verify.list /\ policy.list \in Lists /\ policy.rules \subseteq Rules
    BY DEF Evidence, SecretTypeOK
  <2>2. \A i \in Ids : verify.seen[i] = live[i].key
    BY DEF Evidence
  <2>3. \A x \in Variations(Consumer(Own, live[Own].key)) : ~Admits(policy, x)
    BY <2>2 DEF Evidence, Ids
  <2>4. Rules \ {"inventory"} \subseteq policy.rules
    BY <2>1, <2>3, CasesPinRules DEF OwnIsLive
  <2>5. policy.exempt \cap Variations(Consumer(Own, live[Own].key)) = {}
    BY <2>3 DEF Admits
  <2>6. ASSUME NEW i \in Ids, Present(i), Consumer(i, live[i].key) \notin policy.exempt
        PROVE  Conforms(verify.list, Consumer(i, live[i].key))
    <3>1. PICK c \in verify.list : c.id = i
      BY <2>2, <2>6 DEF Evidence, Present
    <3>2. Admits(policy, Consumer(i, live[i].key))
      BY <2>2, <3>1 DEF Evidence, Admitted
    <3>3. Consumer(i, live[i].key).id = i
      BY DEF Consumer
    <3> QED
      BY <2>1, <2>4, <2>6, <3>1, <3>2, <3>3, RulesMeanContracts
  <2>7. ASSUME "inventory" \in policy.rules, NEW x \in Requests \ policy.exempt, Admits(policy, x)
        PROVE  Conforms(verify.list, x)
    BY <2>1, <2>4, <2>7, RulesMeanContracts
  <2> QED
    BY <2>4, <2>5, <2>6, <2>7
<1> QED
  BY <1>1, SecretTyped, OwnInvariant, EvidenceInvariant, PTL

-----------------------------------------------------------------------------
(* The reviewed policy lets every consumer with a contract in.             *)
LEMMA ContractsAreAdmitted ==
    ASSUME NEW p, p.list \in Lists, p.rules = Rules,
           NEW i \in Ids, NEW k \in Keys, Contract(i, k) \in p.list
    PROVE  Admits(p, Consumer(i, k))
<1> DEFINE c == Contract(i, k)
<1> DEFINE x == Consumer(i, k)
<1>1. x.id = c.id
  BY DEF Consumer, Contract
<1>2. Cardinality(Matches(p.list, x)) = 1 /\ Relevant(p.list, x) = c
  <2> HIDE DEF c, x
  <2> QED
    BY <1>1, RelevantIsTheMatch DEF c
<1>3. \A rule \in Rules \ {"inventory"} : Fits(rule, x, c)
  BY DEF Consumer, Contract, Fits, Rules
<1> HIDE DEF c, x
<1>4. \A rule \in Rules : Holds(rule, p.list, x)
  BY <1>2, <1>3 DEF Holds
<1> QED
  BY <1>4 DEF Admits, x

(* Contracts and manifests of the repository go together, and what is      *)
(* being deleted is still there.                                           *)
Matching ==
    /\ git.list = Listed(git.wants[Other])
    /\ \A i \in Ids : live[i].deleting => Present(i)

LEMMA MatchingInvariant == SecretSpec => []Matching
<1>1. SecretInit => Matching
  BY SecretAssumption DEF SecretInit, Matching, Gone, Ids
<1>2. SecretTypeOK /\ Matching /\ [SecretNext]_secretVars => Matching'
  <2> SUFFICES ASSUME SecretTypeOK, Matching, [SecretNext]_secretVars
               PROVE  Matching'
    OBVIOUS
  <2> USE DEF Matching, SecretTypeOK, Present
  <2>1. CASE UNCHANGED <<git, live>>
    BY <2>1
  <2>2. ASSUME NEW k \in Keys \cup {NoKey}, Commit(k) PROVE Matching'
    BY <2>2 DEF Commit, Ids
  <2>3. ASSUME NEW i \in Ids, ApplyConsumer(i) PROVE Matching'
    BY <2>3 DEF ApplyConsumer, ConsumerDue
  <2>4. ASSUME NEW i \in Ids, Prune(i) PROVE Matching'
    BY <2>4 DEF Prune, PruneDue, Gone
  <2>5. ASSUME NEW i \in Ids, AddFinalizer(i) PROVE Matching'
    BY <2>5 DEF AddFinalizer
  <2>6. ASSUME NEW i \in Ids, RemoveFinalizer(i) PROVE Matching'
    BY <2>6 DEF RemoveFinalizer, Gone
  <2>7. CASE ScriptStep
    BY <2>7 DEF ScriptStep, Begin, ReadPolicy, ListLive, TryLive, TryCases, Conclude, Record
  <2> QED
    BY <2>1, <2>2, <2>3, <2>4, <2>5, <2>6, <2>7
       DEF SecretNext, Reconcile, EditByHand, ApplyPolicy, secretVars
<1> QED
  BY <1>1, <1>2, SecretTyped, PTL DEF SecretSpec

(* In any cluster where Flux and the controller have nothing left to do,   *)
(* the reviewed contracts and consumers are applied: admission never holds *)
(* up for good what the repository asks for (admission.yaml:377-379).      *)
THEOREM SettledApplied == SecretSpec => []SettledIsApplied
<1>1. SecretTypeOK /\ OwnIsLive /\ Matching => SettledIsApplied
  <2> SUFFICES ASSUME SecretTypeOK, OwnIsLive, Matching, Settled
               PROVE  /\ policy.list = git.list
                      /\ \A i \in Ids : live[i].key = git.wants[i] /\ ~live[i].deleting
    BY DEF SettledIsApplied
  <2>1. policy.list = git.list /\ policy.rules = Rules
    BY DEF Settled, PolicyDue, Reviewed
  <2>2. policy.list \in Lists /\ git.wants[Other] \in Keys \cup {NoKey}
    BY DEF SecretTypeOK, Ids
  <2>3. ~live[Other].deleting
    <3>1. ~ReleaseDue(Other) /\ (live[Other].deleting => Present(Other))
      BY DEF Settled, Matching, Ids
    <3> QED
      BY <3>1 DEF ReleaseDue, Maintains
  <2>4. live[Other].key = git.wants[Other]
    <3>1. CASE git.wants[Other] = NoKey
      <4>1. ~PruneDue(Other)
        BY DEF Settled, Ids
      <4> QED
        BY <2>3, <3>1, <4>1 DEF PruneDue, Present
    <3>2. CASE git.wants[Other] # NoKey
      <4>1. Contract(Other, git.wants[Other]) \in policy.list
        BY <2>1, <3>2 DEF Matching, Listed
      <4>2. Admits(policy, Consumer(Other, git.wants[Other]))
        BY <2>1, <2>2, <3>2, <4>1, ContractsAreAdmitted DEF Ids
      <4>3. ~ConsumerDue(Other)
        BY DEF Settled, Ids
      <4> QED
        BY <2>3, <3>2, <4>2, <4>3 DEF ConsumerDue
    <3> QED
      BY <3>1, <3>2
  <2> QED
    BY <2>1, <2>3, <2>4 DEF OwnIsLive, Ids
<1> QED
  BY <1>1, SecretTyped, OwnInvariant, MatchingInvariant, PTL
=============================================================================
