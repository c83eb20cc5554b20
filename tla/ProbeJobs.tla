----------------------------- MODULE ProbeJobs -----------------------------
(***************************************************************************)
(* The live checks that put temporary objects into the cluster under fixed *)
(* names and take them away again:                                         *)
(*   scripts/verify-application-isolation.py  a Job per namespace, four    *)
(*                                            threads, always deletes      *)
(*   scripts/verify-karakeep-isolation.py     one Job, deletes if created  *)
(*   scripts/verify-secret-transport.py       a Role with its binding,     *)
(*                                            then a pod, applied          *)
(* Runs of one script overlap, are killed, and meet what earlier runs left *)
(* behind; kubectl fails before or after it took effect; meanwhile the     *)
(* boundaries under test may be opened and closed.  Different scripts use  *)
(* different names, so all runs of a behaviour are runs of one script.     *)
(* An operator named "...Mutant" is a wrong variant of the one after it.   *)
(***************************************************************************)
EXTENDS Naturals

CONSTANTS
    Runs,           \* processes; a rerun is another one
    First, Second,  \* what the scripts verify: two namespaces of the application
                    \* checks; Karakeep's ingress; provider admission and Connect's TLS
    Nobody,
    MaxErrors       \* bound: failed kubectl calls and killed runs

ASSUME ProbeAssumption == First # Second /\ Nobody \notin Runs /\ MaxErrors \in Nat

Subjects == {First, Second}

VARIABLES
    script,   \* "application", "karakeep" or "transport"
    run,      \* [Runs -> state of the process]
    pc,       \* [Runs -> [Subjects -> step]]: the threads, or the parts in turn
    good,     \* [Runs -> [Subjects -> BOOLEAN]]: results recorded so far
    object,   \* [Subjects -> the temporary object with the fixed name]
    sound,    \* subjects whose boundary is in force now
    held,     \* [Runs -> subjects whose boundary was in force while it ran] (history)
    errors

process   == <<run, pc, good>>
probeVars == <<script, process, object, sound, held, errors>>

None    == [by |-> Nobody, phase |-> "none"]
Objects == {None} \cup [by : Runs, phase : {"new", "good", "bad"}]
Over    == {"passed", "failed", "killed"}

(* The temporary object of the first transport part is a Role.             *)
IsRole(s) == script = "transport" /\ s = First

(* The subjects a run goes through, at once or one after the other.        *)
Tested == IF script = "karakeep" THEN {First} ELSE Subjects

ProbeTypeOK ==
    /\ script \in {"application", "karakeep", "transport"}
    /\ run \in [Runs -> {"idle", "running"} \cup Over]
    /\ pc \in [Runs -> [Subjects -> {"check", "create", "wait", "delete", "end"}]]
    /\ good \in [Runs -> [Subjects -> BOOLEAN]]
    /\ object \in [Subjects -> Objects]
    /\ sound \in SUBSET Subjects
    /\ held \in [Runs -> SUBSET Subjects]
    /\ errors \in Nat

ProbeInit ==
    /\ script \in {"application", "karakeep", "transport"}
    /\ run = [r \in Runs |-> "idle"]
    /\ pc = [r \in Runs |-> [s \in Subjects |-> "end"]]
    /\ good = [r \in Runs |-> [s \in Subjects |-> FALSE]]
    /\ object = [s \in Subjects |-> None]
    /\ sound = Subjects
    /\ held = [r \in Runs |-> {}]
    /\ errors = 0

(* Every step lets the runs under way live through the boundaries in force *)
(* after it.                                                               *)
Witness == held' = [r \in Runs |-> IF run'[r] = "running" THEN held[r] \cup sound'
                                   ELSE held[r]]

-----------------------------------------------------------------------------
(* The cluster.                                                            *)

(* A boundary is opened or closed: somebody changes policies or admission. *)
Drift ==
    /\ \E s \in Subjects : sound' = (sound \ {s}) \cup ({s} \ sound)
    /\ UNCHANGED <<script, process, object, errors>> /\ Witness

(* The probe tries its connections, or runs into the deadline of its Job.  *)
(* A Role does nothing.                                                    *)
Connect(s) ==
    /\ object[s].phase = "new" /\ ~IsRole(s)
    /\ \/ object' = [object EXCEPT ![s].phase = IF s \in sound THEN "good" ELSE "bad"]
       \/ object' = [object EXCEPT ![s].phase = "bad"]
    /\ UNCHANGED <<script, process, sound, errors>> /\ Witness

(* ttlSecondsAfterFinished of the Jobs; the transport pod has none.        *)
Expire(s) ==
    /\ script # "transport" /\ object[s].phase \in {"good", "bad"}
    /\ object' = [object EXCEPT ![s] = None]
    /\ UNCHANGED <<script, process, sound, errors>> /\ Witness

-----------------------------------------------------------------------------
(* Steps of run r about subject s.                                         *)

Works == UNCHANGED errors
Error == errors < MaxErrors /\ errors' = errors + 1

(* A thread of the application checks starts at once; the transport parts  *)
(* follow each other, unless the first raised.                             *)
MayStep(r, s) ==
    /\ run[r] = "running"
    /\ script = "transport" /\ s = Second => pc[r][First] = "end" /\ good[r][First]

Goto(r, s, step) == pc' = [pc EXCEPT ![r][s] = step] /\ UNCHANGED <<script, run, sound>>
Result(r, s, ok) == good' = [good EXCEPT ![r][s] = @ /\ ok]

(* A raised exception ends the thread, through "finally" if it is in the   *)
(* try block; the result is lost.                                          *)
Raise(r, s, step) == Goto(r, s, step) /\ Result(r, s, FALSE)

(* The image, the service and pod addresses are looked up once.            *)
StartRun(r) ==
    /\ run[r] = "idle"
    /\ run' = [run EXCEPT ![r] = "running"]
    /\ pc' = [pc EXCEPT ![r] = [s \in Subjects |-> IF s \in Tested THEN "check" ELSE "end"]]
    /\ good' = [good EXCEPT ![r] = [s \in Subjects |-> s \in Tested]]
    /\ held' = [held EXCEPT ![r] = sound]
    /\ UNCHANGED <<script, object, sound, errors>>

(* Read-only checks before the object is made: labels, default deny, PSA   *)
(* dry run and token mounts (application, which raises), pods, browser,    *)
(* dependencies and denied targets (karakeep, which records), the image    *)
(* (transport).                                                            *)
ReadChecks(r, s) ==
    /\ MayStep(r, s) /\ pc[r][s] = "check"
    /\ \/ Goto(r, s, "create") /\ UNCHANGED good
       \/ ~IsRole(s) /\ Raise(r, s, "end")
       \/ script = "karakeep" /\ Goto(r, s, "create") /\ Result(r, s, FALSE)
    /\ Works /\ UNCHANGED object /\ Witness

(* Is a name in use an error?  "create" says so, "apply" does not.         *)
(* Mutant: the Jobs are applied as well.                                   *)
AcceptsExistingMutant == TRUE
AcceptsExisting == script = "transport"

Made(r, s) == object' = [object EXCEPT ![s] = IF @ = None THEN [by |-> r, phase |-> "new"]
                                              ELSE @]

(* Where a failed create leads: Karakeep's "created" is still False.       *)
AfterFailedCreate == IF script = "karakeep" THEN "end" ELSE "delete"

Create(r, s) ==
    /\ MayStep(r, s) /\ pc[r][s] = "create"
    /\ \/ /\ object[s] = None \/ AcceptsExisting
          /\ Made(r, s) /\ Goto(r, s, "wait") /\ Works /\ UNCHANGED good
       \/ /\ object[s] # None /\ ~AcceptsExisting
          /\ UNCHANGED object /\ Raise(r, s, AfterFailedCreate) /\ Works
       \/ /\ Error /\ Raise(r, s, AfterFailedCreate)
          /\ Made(r, s) \/ UNCHANGED object
    /\ Witness

(* What the script takes for a sound boundary: the Job complete, the pod   *)
(* succeeded; for the Role, the dry run refused by the admission policy    *)
(* (it names the policy), which is asked only if the Role still allows the *)
(* request.                                                                *)
Seen(s) == IF IsRole(s) THEN s \in sound /\ object[s] # None
           ELSE object[s].phase = "good"

(* "kubectl wait" and "logs", or the dry run.                              *)
Wait(r, s) ==
    /\ MayStep(r, s) /\ pc[r][s] = "wait"
    /\ \/ Result(r, s, Seen(s)) /\ Works
       \/ Result(r, s, FALSE) /\ Error
    /\ Goto(r, s, "delete") /\ UNCHANGED object /\ Witness

(* The finally block.  A failed delete raises; only the transport script   *)
(* ignores the exit code (a timeout still raises).  Only karakeep's delete *)
(* fails when nothing is there.  "--wait=false" (the transport pod) is     *)
(* taken as done.  Mutant: no script looks at the exit code.               *)
DeleteFailedMutant(r, s) == Goto(r, s, "end") /\ UNCHANGED good
DeleteFailed(r, s) == \/ Raise(r, s, "end")
                      \/ script = "transport" /\ Goto(r, s, "end") /\ UNCHANGED good

Delete(r, s) ==
    /\ MayStep(r, s) /\ pc[r][s] = "delete"
    /\ \/ /\ object' = [object EXCEPT ![s] = None] /\ Works
          /\ IF script = "karakeep" /\ object[s] = None
             THEN DeleteFailed(r, s) ELSE Goto(r, s, "end") /\ UNCHANGED good
       \/ /\ Error /\ DeleteFailed(r, s)
          /\ object' \in {object, [object EXCEPT ![s] = None]}
    /\ Witness

-----------------------------------------------------------------------------
(* The process.                                                            *)

Quit(r, verdict) ==
    /\ run' = [run EXCEPT ![r] = verdict]
    /\ pc' = [pc EXCEPT ![r] = [s \in Subjects |-> "end"]]
    /\ good' = [good EXCEPT ![r] = [s \in Subjects |-> FALSE]]
    /\ UNCHANGED <<script, object, sound>> /\ Witness

(* The pool waits for every thread; then the can-i checks, the report or   *)
(* the exposure checks, whose outcome is not modelled.                     *)
AllGood(r) == \A s \in Tested : good[r][s]

Finish(r) ==
    /\ run[r] = "running" /\ Works
    /\ \/ \A s \in Tested : pc[r][s] = "end"
       \/ script = "transport" /\ pc[r][First] = "end" /\ ~good[r][First]
    /\ \/ AllGood(r) /\ Quit(r, "passed")
       \/ Quit(r, "failed")

Kill(r) == run[r] = "running" /\ Error /\ Quit(r, "killed")

ClusterStep == Drift \/ \E s \in Subjects : Connect(s) \/ Expire(s)

RunStep(r) ==
    \/ StartRun(r) \/ Finish(r) \/ Kill(r)
    \/ \E s \in Subjects : ReadChecks(r, s) \/ Create(r, s) \/ Wait(r, s) \/ Delete(r, s)

ProbeNext == ClusterStep \/ \E r \in Runs : RunStep(r)

ProbeSpec == ProbeInit /\ [][ProbeNext]_probeVars

-----------------------------------------------------------------------------
(* Properties.                                                             *)

(* A script that says PASS saw what it says: each boundary a Job tested    *)
(* was in force at some moment of the run itself, whatever other runs      *)
(* created or deleted under the same name and whatever was left behind.    *)
(* For verify-secret-transport.py this is only so for provider admission:  *)
(* a succeeded pod that is still there answers for the new one.            *)
Proven == IF script = "transport" THEN {First} ELSE Tested
HonestPass == \A r \in Runs : run[r] = "passed" => Proven \subseteq held[r]

(* "always deletes them": a run that passed left nothing, and one that     *)
(* failed left something only if a kubectl call or a kill was in the way.  *)
(* (verify-secret-transport.py ignores a failed delete and still passes.)  *)
LeavesNothing ==
    \A r \in Runs, s \in Subjects :
        run[r] \in {"passed", "failed"} /\ object[s].by = r
            => errors > 0 /\ (run[r] = "passed" => script = "transport")
=============================================================================
