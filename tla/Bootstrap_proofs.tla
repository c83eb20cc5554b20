-------------------------- MODULE Bootstrap_proofs --------------------------
(***************************************************************************)
(* The safety properties of Bootstrap for any sets of nodes, namespaces    *)
(* and secrets and any number of faults and repository changes.            *)
(***************************************************************************)
EXTENDS Bootstrap, TLAPS

(* What the current run has applied.                                       *)
AppliedSoFar ==
    /\ pc = "namespaces" => Namespaces \ todo \subseteq namespaces
    /\ pc \in {"secrets", "crds", "releases"} => Namespaces \subseteq namespaces
    /\ pc = "secrets" => \A s \in Secrets \ (Missing \cup todo) : secret[s] = "current"
    /\ pc \in {"crds", "releases"} => \A s \in Secrets \ Missing : secret[s] = "current"
    /\ pc = "releases" => \A i \in 1..Len(Chain) : i < next => release[i] = "current"

(* What is inductive.                                                      *)
IInv == TypeOK /\ AppliedSoFar

(* The length of the chain is used as a number, never unfolded below.      *)
LEMMA ChainLength == Len(Chain) = 5
  BY DEF Chain

LEMMA InitInvariant == Init => IInv
  BY ChainLength, BootstrapAssumption, SMT
     DEF Init, IInv, TypeOK, AppliedSoFar, PCs, Running, Versions

LEMMA StepInvariant == IInv /\ [Next]_vars => IInv'
<1> SUFFICES ASSUME IInv, [Next]_vars PROVE IInv'
  OBVIOUS
<1> USE ChainLength, BootstrapAssumption DEF IInv, TypeOK, PCs, Running, Versions
<1>1. ASSUME NEW n \in Nodes, NodeJoins(n) \/ NodeReady(n) \/ NodeReboots(n) PROVE IInv'
  BY <1>1 DEF NodeJoins, NodeReady, NodeReboots, Fault, script, AppliedSoFar
<1>2. CASE Bump
  <2>1. TypeOK'
    BY <1>2 DEF Bump, Aged, script
  <2>2. AppliedSoFar'
    BY <1>2 DEF Bump, AppliedSoFar, script
  <2> QED BY <2>1, <2>2
<1>3. CASE Run
  BY <1>3 DEF Run, cluster, AppliedSoFar
<1>4. CASE SkipWait
  BY <1>4 DEF SkipWait, StartNamespaces, cluster, AppliedSoFar
<1>5. CASE EnterWait
  BY <1>5 DEF EnterWait, Fault, cluster, AppliedSoFar
<1>6. CASE LeaveWait
  BY <1>6 DEF LeaveWait, StartNamespaces, cluster, AppliedSoFar
<1>7. ASSUME NEW ns \in Namespaces, ApplyNamespace(ns) PROVE IInv'
  <2>1. TypeOK'
    BY <1>7 DEF ApplyNamespace, LogError, Fault
  <2>2. AppliedSoFar'
    BY <1>7 DEF ApplyNamespace, LogError, AppliedSoFar
  <2> QED BY <2>1, <2>2
<1>8. CASE NamespacesDone
  BY <1>8 DEF NamespacesDone, cluster, AppliedSoFar
<1>9. ASSUME NEW s \in Secrets, ApplySecret(s) PROVE IInv'
  <2>1. TypeOK'
    BY <1>9 DEF ApplySecret, LogError, Fault
  <2>2. AppliedSoFar'
    BY <1>9 DEF ApplySecret, LogError, AppliedSoFar
  <2> QED BY <2>1, <2>2
<1>10. CASE SecretsDone
  BY <1>10 DEF SecretsDone, cluster, AppliedSoFar
<1>11. CASE ApplyCrds
  BY <1>11 DEF ApplyCrds, Fault, AppliedSoFar
<1>12. CASE SyncRelease
  <2>1. TypeOK'
    BY <1>12 DEF SyncRelease, NextRelease, LogError, Fault
  <2>2. AppliedSoFar'
    BY <1>12 DEF SyncRelease, NextRelease, LogError, AppliedSoFar
  <2> QED BY <2>1, <2>2
<1>13. CASE Finish
  BY <1>13 DEF Finish, cluster, AppliedSoFar
<1>14. CASE Interrupt
  BY <1>14 DEF Interrupt, Fault, cluster, AppliedSoFar
<1>15. CASE UNCHANGED vars
  BY <1>15 DEF vars, cluster, script, AppliedSoFar
<1> QED
  BY <1>1, <1>2, <1>3, <1>4, <1>5, <1>6, <1>7, <1>8, <1>9, <1>10, <1>11, <1>12,
     <1>13, <1>14, <1>15 DEF Next, ScriptStep

THEOREM Invariant == Spec => []IInv
  BY InitInvariant, StepInvariant, PTL DEF Spec

(* Every variable of the bootstrap model keeps its type.                   *)
THEOREM TypeCorrect == Spec => []TypeOK
<1>1. IInv => TypeOK
  BY DEF IInv
<1> QED BY <1>1, Invariant, PTL

(* The release of Flux appears only when the namespaces, the secrets and   *)
(* the releases before it are as the repository has them.                  *)
THEOREM FluxPrepared == Spec => FluxStartsPrepared
<1>1. IInv /\ [Next]_vars
      => [release[Len(Chain)] = "none" /\ release'[Len(Chain)] # "none" =>
            /\ namespaces = Namespaces
            /\ \A s \in Secrets \ Missing : secret[s] = "current"
            /\ \A i \in 1..(Len(Chain) - 1) : release[i] = "current"]_vars
  <2> SUFFICES ASSUME IInv, Next,
                      release[Len(Chain)] = "none", release'[Len(Chain)] # "none"
               PROVE  /\ namespaces = Namespaces
                      /\ \A s \in Secrets \ Missing : secret[s] = "current"
                      /\ \A i \in 1..(Len(Chain) - 1) : release[i] = "current"
    OBVIOUS
  <2>1. CASE SyncRelease
    <3>1. pc = "releases" /\ next = Len(Chain)
      BY <2>1, ChainLength DEF SyncRelease, IInv, TypeOK
    <3> QED
      BY <3>1, ChainLength DEF IInv, TypeOK, AppliedSoFar
  <2>2. CASE Bump
    BY <2>2, ChainLength DEF Bump, Aged
  <2>3. CASE ~SyncRelease /\ ~Bump
    <3>1. release' = release
      BY <2>3 DEF Next, ScriptStep, NodeJoins, NodeReady, NodeReboots, Run, SkipWait,
         EnterWait, LeaveWait, ApplyNamespace, NamespacesDone, ApplySecret, SecretsDone,
         ApplyCrds, Finish, Interrupt, cluster
    <3> QED BY <3>1
  <2> QED BY <2>1, <2>2, <2>3
<1> QED BY <1>1, Invariant, PTL DEF Spec, FluxStartsPrepared

(* A run that reports success leaves the cluster up to date.               *)
THEOREM SuccessIsComplete == Spec => DoneIsUpToDate
<1>1. IInv /\ [Next]_vars => [pc # "done" /\ pc' = "done" => UpToDate]_vars
  <2> SUFFICES ASSUME IInv, Next, pc # "done", pc' = "done" PROVE UpToDate
    OBVIOUS
  <2>1. pc = "releases" /\ next > Len(Chain)
    BY DEF Next, ScriptStep, NodeJoins, NodeReady, NodeReboots, Bump, Run, SkipWait,
       EnterWait, LeaveWait, StartNamespaces, ApplyNamespace, NamespacesDone, ApplySecret,
       SecretsDone, ApplyCrds, SyncRelease, Finish, Interrupt, LogError, script
  <2> QED
    BY <2>1, ChainLength DEF IInv, TypeOK, AppliedSoFar, UpToDate
<1> QED BY <1>1, Invariant, PTL DEF Spec, DoneIsUpToDate

(* A loop has only its own items left.                                     *)
LoopItems ==
    /\ pc = "namespaces" => todo \subseteq Namespaces
    /\ pc = "secrets" => todo \subseteq Secrets

LEMMA LoopItemsInvariant == Spec => []LoopItems
<1>1. Init => LoopItems
  BY DEF Init, LoopItems
<1>2. LoopItems /\ [Next]_vars => LoopItems'
  <2> SUFFICES ASSUME LoopItems, [Next]_vars PROVE LoopItems'
    OBVIOUS
  <2>1. CASE UNCHANGED <<pc, todo>> \/ pc' \notin {"namespaces", "secrets"}
    BY <2>1 DEF LoopItems
  <2>2. CASE SkipWait \/ LeaveWait \/ NamespacesDone
    BY <2>2 DEF SkipWait, LeaveWait, StartNamespaces, NamespacesDone, LoopItems
  <2>3. ASSUME NEW x, todo' = todo \ {x}, pc' \in {pc, "failed"} PROVE LoopItems'
    BY <2>3 DEF LoopItems
  <2>4. (\E ns \in Namespaces : ApplyNamespace(ns)) \/ (\E s \in Secrets : ApplySecret(s))
          => LoopItems'
    BY <2>3 DEF ApplyNamespace, ApplySecret, LogError
  <2> QED
    BY <2>1, <2>2, <2>4 DEF Next, ScriptStep, NodeJoins, NodeReady, NodeReboots, Bump, Run,
       EnterWait, SecretsDone, ApplyCrds, SyncRelease, Finish, Interrupt, LogError, script, vars
<1> QED BY <1>1, <1>2, PTL DEF Spec

(* A run stops for good nowhere but in wait_for_nodes: past the first      *)
(* release the CNI runs, so there is a node for the pods of the others     *)
(* (01-apps.yaml:5-6 and 8-20).                                            *)
THEOREM OnlyTheWaitHangs == Spec => []OnlyWaitHangs
<1>1. IInv /\ LoopItems => OnlyWaitHangs
  <2> SUFFICES ASSUME IInv, LoopItems, pc \in Running \ {"wait"}, NodesSettled
               PROVE  StepDue
    BY DEF OnlyWaitHangs
  <2>1. CASE pc = "namespaces" \/ pc = "secrets"
    BY <2>1 DEF LoopItems, StepDue
  <2>2. CASE pc = "releases"
    <3> SUFFICES ASSUME next <= Len(Chain) PROVE Schedules(next)
      BY <2>2 DEF StepDue
    <3>1. Chain[1] = "cilium"
      BY DEF Chain
    <3>2. CASE next = 1
      BY <3>1, <3>2 DEF Schedules
    <3>3. CASE next # 1
      <4>1. release[1] = "current"
        BY <2>2, <3>3, ChainLength DEF IInv, TypeOK, AppliedSoFar
      <4>2. CniRuns
        BY <3>1, <4>1, ChainLength DEF CniRuns
      <4>3. PICK n \in Nodes : TRUE
        BY BootstrapAssumption
      <4> QED
        BY <4>2, <4>3 DEF NodesSettled, Schedules
    <3> QED
      BY <3>2, <3>3
  <2> QED
    BY <2>1, <2>2 DEF Running, StepDue
<1> QED BY <1>1, Invariant, LoopItemsInvariant, PTL

=============================================================================
