--------------------------- MODULE ProbeJobs_proofs ---------------------------
(***************************************************************************)
(* For any number of overlapping runs of the scripts with temporary        *)
(* objects, and any number of errors: a PASS is honest, and what is left   *)
(* behind is an error's.                                                   *)
(***************************************************************************)
EXTENDS ProbeJobs, TLAPS

LEMMA ProbeTyped == ProbeSpec => []ProbeTypeOK
<1>1. ProbeInit => ProbeTypeOK
  BY DEF ProbeInit, ProbeTypeOK, Objects
<1>2. ProbeTypeOK /\ [ProbeNext]_probeVars => ProbeTypeOK'
  <2> SUFFICES ASSUME ProbeTypeOK, [ProbeNext]_probeVars
               PROVE  ProbeTypeOK'
    OBVIOUS
  <2> USE ProbeAssumption DEF ProbeTypeOK
  <2>1. ASSUME held \in [Runs -> SUBSET Subjects], sound' \in SUBSET Subjects, Witness
        PROVE  held' \in [Runs -> SUBSET Subjects]
    BY <2>1 DEF Witness
  <2>2. \A s \in Subjects : \A o \in Objects : [object EXCEPT ![s] = o] \in [Subjects -> Objects]
    OBVIOUS
  <2>3. None \in Objects /\ \A r \in Runs : [by |-> r, phase |-> "new"] \in Objects
    BY DEF Objects
  <2>4. \A s \in Subjects : \A ph \in {"new", "good", "bad"} :
           object[s].phase = "new" => [object[s] EXCEPT !.phase = ph] \in Objects
    BY DEF Objects, None
  <2>5. CASE Drift
    BY <2>1, <2>5 DEF Drift, process
  <2>6. ASSUME NEW s \in Subjects, Connect(s)
        PROVE  ProbeTypeOK'
    <3>1. object' \in [Subjects -> Objects]
      BY <2>2, <2>4, <2>6 DEF Connect
    <3> QED
      BY <2>1, <2>6, <3>1 DEF Connect, process
  <2>7. ASSUME NEW s \in Subjects, Expire(s)
        PROVE  ProbeTypeOK'
    <3>1. object' \in [Subjects -> Objects]
      BY <2>2, <2>3, <2>7 DEF Expire
    <3> QED
      BY <2>1, <2>7, <3>1 DEF Expire, process
  <2>8. ASSUME NEW r \in Runs, StartRun(r)
        PROVE  ProbeTypeOK'
    BY <2>8 DEF StartRun
  <2>9. ASSUME NEW r \in Runs, NEW verdict \in Over, Quit(r, verdict), errors' \in Nat
        PROVE  ProbeTypeOK'
    <3>1. run' \in [Runs -> {"idle", "running"} \cup Over]
      BY <2>9 DEF Quit
    <3> QED
      BY <2>1, <2>9, <3>1 DEF Quit
  <2>10. ASSUME NEW r \in Runs, Finish(r) \/ Kill(r)
         PROVE  ProbeTypeOK'
    BY <2>9, <2>10 DEF Finish, Kill, Works, Error, Over
  <2>11. ASSUME NEW r \in Runs, NEW s \in Subjects,
                NEW step \in {"check", "create", "wait", "delete", "end"}, Goto(r, s, step)
         PROVE  /\ pc' \in [Runs -> [Subjects -> {"check", "create", "wait", "delete", "end"}]]
                /\ script' = script /\ run' = run /\ sound' = sound
    BY <2>11 DEF Goto
  <2>12. ASSUME NEW r \in Runs, NEW s \in Subjects, NEW ok \in BOOLEAN, Result(r, s, ok)
         PROVE  good' \in [Runs -> [Subjects -> BOOLEAN]]
    BY <2>12 DEF Result
  <2>13. ASSUME NEW r \in Runs, NEW s \in Subjects, Made(r, s)
         PROVE  object' \in [Subjects -> Objects]
    BY <2>2, <2>3, <2>13 DEF Made
  <2>14. ASSUME NEW r \in Runs, NEW s \in Subjects,
                NEW step \in {"create", "wait", "delete", "end"}, Goto(r, s, step),
                NEW ok \in BOOLEAN, good' = good \/ Result(r, s, ok),
                object' \in [Subjects -> Objects], errors' \in Nat, Witness
         PROVE  ProbeTypeOK'
    <3>1. /\ pc' \in [Runs -> [Subjects -> {"check", "create", "wait", "delete", "end"}]]
          /\ script' = script /\ run' = run /\ sound' = sound
      BY <2>11, <2>14
    <3>2. good' \in [Runs -> [Subjects -> BOOLEAN]]
      BY <2>12, <2>14
    <3>3. held' \in [Runs -> SUBSET Subjects]
      BY <2>1, <2>14, <3>1
    <3> QED
      BY <2>14, <3>1, <3>2, <3>3
  <2>15. ASSUME NEW r \in Runs, NEW s \in Subjects, ReadChecks(r, s)
         PROVE  ProbeTypeOK'
    <3>1. /\ Goto(r, s, "create") \/ Goto(r, s, "end")
          /\ good' = good \/ Result(r, s, FALSE)
          /\ object' = object /\ errors' = errors /\ Witness
      BY <2>15 DEF ReadChecks, Raise, Works
    <3> QED
      BY <2>14, <3>1
  <2>16. ASSUME NEW r \in Runs, NEW s \in Subjects, Create(r, s)
         PROVE  ProbeTypeOK'
    <3>1. /\ Goto(r, s, "wait") \/ Goto(r, s, "end") \/ Goto(r, s, "delete")
          /\ good' = good \/ Result(r, s, FALSE)
      BY <2>16 DEF Create, Raise, AfterFailedCreate
    <3>2. errors' \in Nat /\ Witness
      BY <2>16 DEF Create, Works, Error
    <3>3. object' \in [Subjects -> Objects]
      <4>1. object' = object \/ Made(r, s)
        BY <2>16 DEF Create
      <4> QED
        BY <2>13, <4>1
    <3> QED
      BY <2>14, <3>1, <3>2, <3>3
  <2>17. ASSUME NEW r \in Runs, NEW s \in Subjects, Wait(r, s)
         PROVE  ProbeTypeOK'
    <3>1. Seen(s) \in BOOLEAN
      BY DEF Seen
    <3>2. Goto(r, s, "delete") /\ object' = object /\ Witness /\ (Works \/ Error)
      BY <2>17 DEF Wait
    <3>3. PICK ok \in BOOLEAN : Result(r, s, ok)
      BY <2>17, <3>1 DEF Wait
    <3>4. errors' \in Nat
      BY <3>2 DEF Works, Error
    <3> QED
      BY <2>14, <3>2, <3>3, <3>4
  <2>18. ASSUME NEW r \in Runs, NEW s \in Subjects, Delete(r, s)
         PROVE  ProbeTypeOK'
    <3>1. object' \in [Subjects -> Objects]
      BY <2>2, <2>3, <2>18 DEF Delete
    <3>2. /\ Goto(r, s, "end")
          /\ good' = good \/ Result(r, s, FALSE)
      BY <2>18 DEF Delete, DeleteFailed, Raise
    <3>3. Works \/ Error
      BY <2>18 DEF Delete
    <3>4. errors' \in Nat
      BY <3>3 DEF Works, Error
    <3>5. Witness
      BY <2>18 DEF Delete
    <3> QED
      BY <2>14, <3>1, <3>2, <3>4, <3>5
  <2>19. CASE UNCHANGED probeVars
    BY <2>19 DEF probeVars, process
  <2> QED
    BY <2>5, <2>6, <2>7, <2>8, <2>10, <2>15, <2>16, <2>17, <2>18, <2>19
    DEF ProbeNext, ClusterStep, RunStep
<1> QED
  BY <1>1, <1>2, PTL DEF ProbeSpec

-----------------------------------------------------------------------------
(* Honesty.  A result that counts, or that is about to, is one of the run: *)
(* whoever waits for an object saw it made.                                *)
Lived == \A r \in Runs : run[r] = "running" => sound \subseteq held[r]
Credit(r, s) ==
    /\ pc[r][s] = "wait" /\ script # "transport" /\ object[s].phase = "good" => s \in held[r]
    /\ pc[r][s] \in {"delete", "end"} /\ good[r][s] => s \in held[r]
Credits == \A r \in Runs : run[r] = "running" => \A s \in Proven : Credit(r, s)

(* What a step of run r about subject s leaves alone.                      *)
LEMMA StepIsLocal ==
    ASSUME ProbeTypeOK, NEW r \in Runs, NEW s \in Subjects,
           ReadChecks(r, s) \/ Create(r, s) \/ Wait(r, s) \/ Delete(r, s)
    PROVE  /\ script' = script /\ run' = run /\ sound' = sound /\ Witness
           /\ \A q \in Runs, t \in Subjects : q # r \/ t # s =>
                 pc'[q][t] = pc[q][t] /\ good'[q][t] = good[q][t]
           /\ \A t \in Subjects : object'[t] \in {object[t], None, [by |-> r, phase |-> "new"]}
           /\ \A t \in Subjects : t # s => object'[t] = object[t]
           /\ good'[r][s] => good[r][s]
<1> USE DEF ProbeTypeOK
<1>1. ASSUME NEW step, Goto(r, s, step), good' = good \/ \E ok \in BOOLEAN : Result(r, s, ok)
      PROVE  /\ script' = script /\ run' = run /\ sound' = sound
             /\ \A q \in Runs, t \in Subjects : q # r \/ t # s =>
                   pc'[q][t] = pc[q][t] /\ good'[q][t] = good[q][t]
             /\ good'[r][s] => good[r][s]
  BY <1>1 DEF Goto, Result
<1>2. ASSUME object' = object \/ Made(r, s) \/ object' = [object EXCEPT ![s] = None]
      PROVE  /\ \A t \in Subjects :
                   object'[t] \in {object[t], None, [by |-> r, phase |-> "new"]}
             /\ \A t \in Subjects : t # s => object'[t] = object[t]
  BY <1>2 DEF Made
<1>3. CASE ReadChecks(r, s)
  <2>1. \E step : Goto(r, s, step)
    BY <1>3 DEF ReadChecks, Raise
  <2>2. good' = good \/ Result(r, s, FALSE)
    BY <1>3 DEF ReadChecks, Raise
  <2>3. object' = object /\ Witness
    BY <1>3 DEF ReadChecks
  <2> QED
    BY <1>1, <1>2, <2>1, <2>2, <2>3
<1>4. CASE Create(r, s)
  <2>1. \E step : Goto(r, s, step)
    BY <1>4 DEF Create, Raise
  <2>2. good' = good \/ Result(r, s, FALSE)
    BY <1>4 DEF Create, Raise
  <2>3. object' = object \/ Made(r, s)
    BY <1>4 DEF Create
  <2>4. Witness
    BY <1>4 DEF Create
  <2> QED
    BY <1>1, <1>2, <2>1, <2>2, <2>3, <2>4
<1>5. CASE Wait(r, s)
  <2>1. Seen(s) \in BOOLEAN
    BY DEF Seen
  <2>2. Goto(r, s, "delete") /\ object' = object /\ Witness
    BY <1>5 DEF Wait
  <2>3. \E ok \in BOOLEAN : Result(r, s, ok)
    BY <1>5, <2>1 DEF Wait
  <2> QED
    BY <1>1, <1>2, <2>2, <2>3
<1>6. CASE Delete(r, s)
  <2>1. Goto(r, s, "end")
    BY <1>6 DEF Delete, DeleteFailed, Raise
  <2>2. good' = good \/ Result(r, s, FALSE)
    BY <1>6 DEF Delete, DeleteFailed, Raise
  <2>3. object' = object \/ object' = [object EXCEPT ![s] = None]
    BY <1>6 DEF Delete
  <2>4. Witness
    BY <1>6 DEF Delete
  <2> QED
    BY <1>1, <1>2, <2>1, <2>2, <2>3, <2>4
<1> QED
  BY <1>3, <1>4, <1>5, <1>6

LEMMA StepEarnsCredit ==
    ASSUME ProbeTypeOK, Lived, Credits, NEW r \in Runs, NEW s \in Proven,
           run[r] = "running",
           ReadChecks(r, s) \/ Create(r, s) \/ Wait(r, s) \/ Delete(r, s)
    PROVE  Credit(r, s)'
<1> s \in Subjects
  BY DEF Proven, Tested, Subjects
<1>1. held[r] \subseteq held'[r] /\ script' = script
  BY StepIsLocal DEF Witness, ProbeTypeOK
<1>2. ASSUME NEW step, Raise(r, s, step)
      PROVE  pc'[r][s] = step /\ ~good'[r][s]
  BY <1>2 DEF Raise, Goto, Result, ProbeTypeOK
<1>3. CASE ReadChecks(r, s)
  <2>1. Goto(r, s, "create") \/ Raise(r, s, "end")
    BY <1>3 DEF ReadChecks
  <2>2. Goto(r, s, "create") => pc'[r][s] = "create"
    BY DEF Goto, ProbeTypeOK
  <2> QED
    BY <1>2, <2>1, <2>2 DEF Credit
<1>4. CASE Create(r, s)
  <2>1. CASE Goto(r, s, "wait") /\ Made(r, s) /\ (object[s] = None \/ AcceptsExisting)
    <3>1. pc'[r][s] = "wait"
      BY <2>1 DEF Goto, ProbeTypeOK
    <3>2. script # "transport" => object'[s] = [by |-> r, phase |-> "new"]
      BY <2>1 DEF Made, AcceptsExisting, ProbeTypeOK
    <3> QED
      BY <1>1, <3>1, <3>2 DEF Credit
  <2>2. CASE Raise(r, s, AfterFailedCreate)
    BY <1>2, <2>2 DEF AfterFailedCreate, Credit
  <2> QED
    BY <1>4, <2>1, <2>2 DEF Create
<1>5. CASE Wait(r, s)
  <2>1. pc'[r][s] = "delete"
    BY <1>5 DEF Wait, Goto, ProbeTypeOK
  <2>2. good'[r][s] => Seen(s)
    BY <1>5 DEF Wait, Result, ProbeTypeOK
  <2>3. Seen(s) => s \in held[r]
    <3>1. CASE script = "transport"
      BY <3>1 DEF Seen, IsRole, Proven, Lived
    <3>2. CASE script # "transport"
      <4>1. pc[r][s] = "wait"
        BY <1>5 DEF Wait
      <4> QED
        BY <3>2, <4>1 DEF Seen, IsRole, Credits, Credit
    <3> QED
      BY <3>1, <3>2
  <2> QED
    BY <1>1, <2>1, <2>2, <2>3 DEF Credit
<1>6. CASE Delete(r, s)
  <2>1. pc[r][s] = "delete" /\ Goto(r, s, "end")
    BY <1>6 DEF Delete, DeleteFailed, Raise
  <2>2. good'[r][s] => good[r][s]
    BY <1>6, StepIsLocal
  <2>3. pc'[r][s] = "end"
    BY <2>1 DEF Goto, ProbeTypeOK
  <2> QED
    BY <1>1, <2>1, <2>2, <2>3 DEF Credits, Credit
<1> QED
  BY <1>3, <1>4, <1>5, <1>6

(* verify-application-isolation.py, verify-karakeep-isolation.py and, for  *)
(* provider admission, verify-secret-transport.py pass only for boundaries *)
(* that were in force during the run.                                      *)
THEOREM Honest == ProbeSpec => []HonestPass
<1>1. ProbeInit => Lived /\ Credits /\ HonestPass
  BY DEF ProbeInit, Lived, Credits, HonestPass
<1>2. ProbeTypeOK /\ Lived /\ Credits /\ HonestPass /\ [ProbeNext]_probeVars
         => Lived' /\ Credits' /\ HonestPass'
  <2> SUFFICES ASSUME ProbeTypeOK, Lived, Credits, HonestPass, [ProbeNext]_probeVars
               PROVE  Lived' /\ Credits' /\ HonestPass'
    OBVIOUS
  <2>0. Proven \subseteq Tested /\ Tested \subseteq Subjects
    BY DEF Proven, Tested, Subjects
  <2>1. ASSUME run' = run, script' = script, Witness
        PROVE  /\ Lived' /\ HonestPass' /\ Proven' = Proven
               /\ \A r \in Runs : held[r] \subseteq held'[r]
    BY <2>1 DEF Witness, Lived, HonestPass, Proven, Tested, ProbeTypeOK
  <2>2. ASSUME NEW r \in Runs, NEW s \in Proven, run[r] = "running",
               held[r] \subseteq held'[r], script' = script,
               pc'[r][s] = pc[r][s], good'[r][s] = good[r][s],
               object'[s].phase = "good" =>
                   object[s].phase = "good" \/ s \in held'[r]
        PROVE  Credit(r, s)'
    BY <2>2 DEF Credits, Credit
  <2>3. CASE Drift \/ \E s \in Subjects : Connect(s) \/ Expire(s)
    <3>1. run' = run /\ script' = script /\ pc' = pc /\ good' = good /\ Witness
      BY <2>3 DEF Drift, Connect, Expire, process
    <3>2. ASSUME NEW r \in Runs, NEW t \in Proven, run[r] = "running",
                 object'[t].phase = "good"
          PROVE  object[t].phase = "good" \/ t \in held'[r]
      <4>1. CASE Drift
        BY <3>2, <4>1 DEF Drift
      <4>2. ASSUME NEW s \in Subjects, Expire(s)
            PROVE  object[t].phase = "good"
        BY <2>0, <3>2, <4>2 DEF Expire, None, ProbeTypeOK
      <4>3. ASSUME NEW s \in Subjects, Connect(s), object[t].phase # "good"
            PROVE  t \in held'[r]
        <5>1. sound' = sound /\ \E v \in {"good", "bad"} :
                 /\ object' = [object EXCEPT ![s].phase = v]
                 /\ v = "good" => s \in sound
          BY <4>3 DEF Connect
        <5>2. t # s => object'[t] = object[t]
          BY <2>0, <5>1 DEF ProbeTypeOK
        <5>3. s = t
          BY <3>2, <4>3, <5>2
        <5>4. object[s].phase = "new"
          BY <4>3 DEF Connect
        <5>5. object[s] \in [by : Runs, phase : {"new", "good", "bad"}]
          BY <5>4 DEF ProbeTypeOK, Objects, None
        <5>6. t \in sound'
          BY <3>2, <5>1, <5>3, <5>5 DEF ProbeTypeOK
        <5> QED
          BY <3>1, <3>2, <5>6 DEF Witness
      <4> QED
        BY <2>3, <4>1, <4>2, <4>3
    <3>3. \A r \in Runs : run[r] = "running" => \A t \in Proven : Credit(r, t)'
      BY <2>1, <2>2, <3>1, <3>2
    <3> QED
      BY <2>1, <3>1, <3>3 DEF Credits
  <2>4. ASSUME NEW r \in Runs, NEW s \in Subjects,
               ReadChecks(r, s) \/ Create(r, s) \/ Wait(r, s) \/ Delete(r, s)
        PROVE  Lived' /\ Credits' /\ HonestPass'
    <3>1. run' = run /\ script' = script /\ Witness /\ run[r] = "running"
      BY <2>4, StepIsLocal DEF ReadChecks, Create, Wait, Delete, MayStep
    <3>2. ASSUME NEW q \in Runs, NEW t \in Proven, run[q] = "running", q # r \/ t # s
          PROVE  Credit(q, t)'
      <4>1. pc'[q][t] = pc[q][t] /\ good'[q][t] = good[q][t]
        BY <2>0, <2>4, <3>2, StepIsLocal
      <4>2. object'[t].phase = "good" => object[t].phase = "good"
        BY <2>0, <2>4, StepIsLocal DEF None
      <4> QED
        BY <2>1, <2>2, <3>1, <3>2, <4>1, <4>2
    <3>3. s \in Proven => Credit(r, s)'
      BY <2>4, <3>1, StepEarnsCredit
    <3> QED
      BY <2>1, <3>1, <3>2, <3>3 DEF Credits
  <2>5. ASSUME NEW r \in Runs, StartRun(r)
        PROVE  Lived' /\ Credits' /\ HonestPass'
    <3>1. /\ script' = script /\ sound' = sound /\ object' = object /\ Proven' = Proven
          /\ run' = [run EXCEPT ![r] = "running"] /\ held' = [held EXCEPT ![r] = sound]
          /\ \A q \in Runs \ {r} : pc'[q] = pc[q] /\ good'[q] = good[q]
          /\ \A s \in Tested : pc'[r][s] = "check"
      BY <2>0, <2>5 DEF StartRun, Proven, Tested, ProbeTypeOK
    <3>2. Lived' /\ HonestPass'
      BY <3>1 DEF Lived, HonestPass, ProbeTypeOK
    <3>3. Credits'
      BY <2>0, <3>1 DEF Credits, Credit, ProbeTypeOK
    <3> QED
      BY <3>2, <3>3
  <2>6. ASSUME NEW r \in Runs, NEW verdict \in Over, Quit(r, verdict),
               verdict = "passed" => Proven \subseteq held[r]
        PROVE  Lived' /\ Credits' /\ HonestPass'
    <3>1. /\ script' = script /\ sound' = sound /\ object' = object /\ Proven' = Proven
          /\ run'[r] = verdict /\ held'[r] = held[r]
          /\ \A q \in Runs \ {r} : /\ run'[q] = run[q] /\ pc'[q] = pc[q] /\ good'[q] = good[q]
                                   /\ held[q] \subseteq held'[q]
                                   /\ run[q] = "running" => sound \subseteq held'[q]
      BY <2>6 DEF Quit, Witness, Proven, Tested, Over, ProbeTypeOK
    <3>2. Lived' /\ HonestPass'
      BY <2>6, <3>1 DEF Lived, HonestPass, Over
    <3>3. Credits'
      BY <2>2, <3>1 DEF Credits, Over
    <3> QED
      BY <3>2, <3>3
  <2>7. ASSUME NEW r \in Runs, Finish(r) \/ Kill(r)
        PROVE  Lived' /\ Credits' /\ HonestPass'
    <3>1. CASE AllGood(r) /\ Finish(r)
      <4>1. \A s \in Tested : pc[r][s] = "end"
        BY <3>1 DEF Finish, AllGood, Tested, Subjects
      <4>2. Proven \subseteq held[r]
        BY <2>0, <3>1, <4>1 DEF Finish, AllGood, Credits, Credit
      <4> QED
        BY <2>6, <3>1, <4>2 DEF Finish, Over
    <3>2. CASE Quit(r, "failed") \/ Quit(r, "killed")
      BY <2>6, <3>2 DEF Over
    <3> QED
      BY <2>7, <3>1, <3>2 DEF Finish, Kill
  <2>8. CASE UNCHANGED probeVars
    BY <2>8 DEF probeVars, process, Lived, Credits, Credit, HonestPass, Proven, Tested
  <2> QED
    BY <2>3, <2>4, <2>5, <2>7, <2>8 DEF ProbeNext, ClusterStep, RunStep
<1> QED
  BY <1>1, <1>2, ProbeTyped, PTL DEF ProbeSpec

-----------------------------------------------------------------------------
(* Cleanliness.  A run has an object only between its create and its       *)
(* delete; without errors, and for the two scripts that look at the exit   *)
(* code of the delete, nothing is left when a thread ends well.            *)
Mine(r, s) == object[s].by = r
Clean(r, s) ==
    /\ run[r] = "idle" => ~Mine(r, s)
    /\ run[r] = "running" =>
         /\ pc[r][s] \in {"check", "create"} => ~Mine(r, s)
         /\ pc[r][s] = "end" /\ errors = 0 => ~Mine(r, s)
         /\ pc[r][s] = "end" /\ good[r][s] /\ script # "transport" => ~Mine(r, s)
    /\ run[r] \in {"passed", "failed"} /\ Mine(r, s) =>
         errors > 0 /\ (run[r] = "passed" => script = "transport")

(* Subjects that the script does not test stay out of it, and the second   *)
(* part of the transport checks waits for the first.                       *)
InOrder(r) ==
    run[r] = "running" =>
        /\ \A s \in Subjects \ Tested : pc[r][s] = "end"
        /\ script = "transport" /\ pc[r][Second] # "check"
             => pc[r][First] = "end" /\ good[r][First]
OnlyTested == \A s \in Subjects \ Tested : object[s] = None

CleanInv ==
    /\ \A r \in Runs, s \in Subjects : Clean(r, s)
    /\ \A r \in Runs : InOrder(r)
    /\ OnlyTested

LEMMA StepIsClean ==
    ASSUME ProbeTypeOK, CleanInv, NEW r \in Runs, NEW s \in Subjects,
           ReadChecks(r, s) \/ Create(r, s) \/ Wait(r, s) \/ Delete(r, s)
    PROVE  Clean(r, s)'
<1>1. run'[r] = "running" /\ script' = script
  BY StepIsLocal DEF ReadChecks, Create, Wait, Delete, MayStep
<1>2. ASSUME NEW step, Goto(r, s, step)
      PROVE  pc'[r][s] = step
  BY <1>2 DEF Goto, ProbeTypeOK
<1>3. ASSUME NEW step, Raise(r, s, step)
      PROVE  pc'[r][s] = step /\ ~good'[r][s]
  BY <1>3 DEF Raise, Goto, Result, ProbeTypeOK
<1>4. CASE ReadChecks(r, s)
  <2>1. ~Mine(r, s) /\ object' = object
    BY <1>4 DEF ReadChecks, MayStep, CleanInv, Clean
  <2> QED
    BY <1>1, <2>1 DEF Clean, Mine
<1>5. CASE Create(r, s)
  <2>1. ~Mine(r, s)
    BY <1>5 DEF Create, MayStep, CleanInv, Clean
  <2>2. CASE Goto(r, s, "wait")
    BY <1>1, <1>2, <2>2 DEF Clean
  <2>3. CASE object' = object /\ Raise(r, s, AfterFailedCreate)
    BY <1>1, <2>1, <2>3 DEF Clean, Mine
  <2>4. CASE Error /\ Raise(r, s, AfterFailedCreate)
    <3>1. errors' # 0
      BY <2>4 DEF Error, ProbeTypeOK
    <3>2. pc'[r][s] \in {"end", "delete"} /\ ~good'[r][s]
      BY <1>3, <2>4 DEF AfterFailedCreate
    <3> QED
      BY <1>1, <3>1, <3>2 DEF Clean
  <2> QED
    BY <1>5, <2>2, <2>3, <2>4 DEF Create
<1>6. CASE Wait(r, s)
  <2>1. pc'[r][s] = "delete"
    BY <1>2, <1>6 DEF Wait
  <2> QED
    BY <1>1, <2>1 DEF Clean
<1>7. CASE Delete(r, s)
  <2>1. CASE object' = [object EXCEPT ![s] = None]
    <3>1. ~Mine(r, s)'
      BY <2>1, ProbeAssumption DEF Mine, None, ProbeTypeOK
    <3> QED
      BY <1>1, <3>1 DEF Clean
  <2>2. CASE Error /\ DeleteFailed(r, s)
    <3>1. errors' # 0
      BY <2>2 DEF Error, ProbeTypeOK
    <3>2. pc'[r][s] = "end" /\ (script # "transport" => ~good'[r][s])
      BY <1>2, <1>3, <2>2 DEF DeleteFailed
    <3> QED
      BY <1>1, <3>1, <3>2 DEF Clean
  <2> QED
    BY <1>7, <2>1, <2>2 DEF Delete
<1> QED
  BY <1>4, <1>5, <1>6, <1>7

LEMMA StepIsInOrder ==
    ASSUME ProbeTypeOK, CleanInv, NEW r \in Runs, NEW s \in Subjects,
           ReadChecks(r, s) \/ Create(r, s) \/ Wait(r, s) \/ Delete(r, s)
    PROVE  s \in Tested /\ InOrder(r)'
<1>1. run[r] = "running" /\ pc[r][s] # "end" /\ script' = script
  BY StepIsLocal DEF ReadChecks, Create, Wait, Delete, MayStep
<1>2. s \in Tested
  BY <1>1 DEF CleanInv, InOrder
<1>3. script = "transport" /\ s = Second => pc[r][First] = "end" /\ good[r][First]
  BY DEF ReadChecks, Create, Wait, Delete, MayStep
<1>4. script = "transport" /\ s = First => pc[r][Second] = "check"
  BY <1>1 DEF CleanInv, InOrder
<1>5. \A t \in Subjects \ {s} : pc'[r][t] = pc[r][t] /\ good'[r][t] = good[r][t]
  BY StepIsLocal
<1>6. \A t \in Subjects \ Tested' : pc'[r][t] = "end"
  BY <1>1, <1>2, <1>5 DEF CleanInv, InOrder, Tested
<1>7. script = "transport" /\ pc'[r][Second] # "check" => pc'[r][First] = "end" /\ good'[r][First]
  BY <1>1, <1>3, <1>4, <1>5, ProbeAssumption DEF CleanInv, InOrder, Subjects
<1> QED
  BY <1>1, <1>2, <1>6, <1>7 DEF InOrder

(* A passed run leaves nothing behind (with verify-secret-transport.py,    *)
(* which ignores a failed delete, only without errors), and a failed run   *)
(* only after an error.                                                    *)
THEOREM NothingLeft == ProbeSpec => []LeavesNothing
<1>1. ProbeInit => CleanInv
  BY ProbeAssumption DEF ProbeInit, CleanInv, Clean, Mine, None, InOrder, OnlyTested
<1>2. ProbeTypeOK /\ ProbeTypeOK' /\ CleanInv /\ [ProbeNext]_probeVars => CleanInv'
  <2> SUFFICES ASSUME ProbeTypeOK, ProbeTypeOK', CleanInv, [ProbeNext]_probeVars
               PROVE  CleanInv'
    OBVIOUS
  <2>1. ASSUME NEW r \in Runs, NEW s \in Subjects, script' = script,
               run'[r] = run[r], pc'[r][s] = pc[r][s], good'[r][s] = good[r][s],
               Mine(r, s)' => Mine(r, s), errors' >= errors
        PROVE  Clean(r, s)'
    BY <2>1 DEF CleanInv, Clean, ProbeTypeOK
  <2>2. ASSUME NEW r \in Runs, script' = script, run'[r] = run[r],
               pc'[r] = pc[r], good'[r] = good[r]
        PROVE  InOrder(r)'
    BY <2>2 DEF CleanInv, InOrder, Tested
  <2>3. CASE Drift \/ \E s \in Subjects : Connect(s) \/ Expire(s)
    <3>1. /\ run' = run /\ script' = script /\ pc' = pc /\ good' = good
          /\ errors' = errors
      BY <2>3 DEF Drift, Connect, Expire, process
    <3>2. \A t \in Subjects : /\ object'[t].by \in {object[t].by, Nobody}
                              /\ object[t] = None => object'[t] = None
      <4>1. CASE object' = object
        BY <4>1
      <4>2. ASSUME NEW s \in Subjects, Connect(s)
            PROVE  \A t \in Subjects : object'[t].by = object[t].by
                                       /\ (object[t] = None => object'[t] = None)
        <5>1. object[s].phase = "new" /\ object[s] # None
          BY <4>2 DEF Connect, None
        <5>2. \E v \in {"good", "bad"} : object' = [object EXCEPT ![s].phase = v]
          BY <4>2 DEF Connect
        <5>3. object[s] \in [by : Runs, phase : {"new", "good", "bad"}]
          BY <5>1 DEF ProbeTypeOK, Objects
        <5> QED
          BY <5>1, <5>2, <5>3 DEF ProbeTypeOK
      <4>3. ASSUME NEW s \in Subjects, Expire(s)
            PROVE  \A t \in Subjects : object'[t] \in {object[t], None}
        BY <4>3 DEF Expire, ProbeTypeOK
      <4> QED
        BY <2>3, <4>1, <4>2, <4>3 DEF Drift, None
    <3>3. \A r \in Runs, s \in Subjects : Mine(r, s)' => Mine(r, s)
      BY <3>2, ProbeAssumption DEF Mine
    <3>4. OnlyTested'
      BY <3>1, <3>2 DEF CleanInv, OnlyTested, Tested
    <3>5. errors' >= errors
      BY <3>1 DEF ProbeTypeOK
    <3> QED
      BY <2>1, <2>2, <3>1, <3>3, <3>4, <3>5 DEF CleanInv
  <2>4. ASSUME NEW r \in Runs, NEW s \in Subjects,
               ReadChecks(r, s) \/ Create(r, s) \/ Wait(r, s) \/ Delete(r, s)
        PROVE  CleanInv'
    <3>1. run' = run /\ script' = script
      BY <2>4, StepIsLocal
    <3>2. Works \/ Error
      BY <2>4 DEF ReadChecks, Create, Wait, Delete
    <3>3. errors' >= errors
      BY <3>2 DEF Works, Error, ProbeTypeOK
    <3>4. ASSUME NEW q \in Runs, NEW t \in Subjects, q # r \/ t # s
          PROVE  Clean(q, t)'
      <4>1. pc'[q][t] = pc[q][t] /\ good'[q][t] = good[q][t]
        BY <2>4, <3>4, StepIsLocal
      <4>2. Mine(q, t)' => Mine(q, t)
        <5>1. t # s => object'[t] = object[t]
          BY <2>4, StepIsLocal
        <5>2. object'[t] \in {object[t], None, [by |-> r, phase |-> "new"]}
          BY <2>4, StepIsLocal
        <5> QED
          BY <3>4, <5>1, <5>2, ProbeAssumption DEF Mine, None
      <4> QED
        BY <2>1, <3>1, <3>3, <4>1, <4>2
    <3>5. Clean(r, s)'
      BY <2>4, StepIsClean
    <3>6. ASSUME NEW q \in Runs \ {r}
          PROVE  InOrder(q)'
      <4>1. \A t \in Subjects : pc'[q][t] = pc[q][t] /\ good'[q][t] = good[q][t]
        BY <2>4, StepIsLocal
      <4>2. InOrder(q)
        BY DEF CleanInv
      <4> QED
        BY <3>1, <4>1, <4>2 DEF InOrder, Tested, Subjects
    <3>7. InOrder(r)' /\ s \in Tested
      BY <2>4, StepIsInOrder
    <3>8. OnlyTested'
      BY <2>4, <3>1, <3>7, StepIsLocal DEF CleanInv, OnlyTested, Tested
    <3> QED
      BY <3>4, <3>5, <3>6, <3>7, <3>8 DEF CleanInv
  <2>5. ASSUME NEW r \in Runs, StartRun(r)
        PROVE  CleanInv'
    <3>1. /\ script' = script /\ object' = object /\ errors' = errors /\ Tested' = Tested
          /\ run[r] = "idle" /\ run'[r] = "running"
          /\ \A q \in Runs \ {r} : run'[q] = run[q] /\ pc'[q] = pc[q] /\ good'[q] = good[q]
          /\ \A s \in Subjects : pc'[r][s] = IF s \in Tested THEN "check" ELSE "end"
      BY <2>5 DEF StartRun, Tested, ProbeTypeOK
    <3>2. \A s \in Subjects : ~Mine(r, s)' /\ Clean(r, s)'
      BY <3>1 DEF CleanInv, Clean, Mine
    <3>3. InOrder(r)'
      BY <3>1 DEF InOrder, Tested, Subjects
    <3>4. errors' >= errors /\ \A q \in Runs, s \in Subjects : Mine(q, s)' => Mine(q, s)
      BY <3>1 DEF Mine, ProbeTypeOK
    <3>5. ASSUME NEW q \in Runs \ {r}
          PROVE  InOrder(q)' /\ \A s \in Subjects : Clean(q, s)'
      BY <2>1, <2>2, <3>1, <3>4, <3>5
    <3>6. OnlyTested'
      BY <3>1 DEF CleanInv, OnlyTested
    <3> QED
      BY <3>2, <3>3, <3>5, <3>6 DEF CleanInv
  <2>6. ASSUME NEW r \in Runs, NEW verdict \in Over, Quit(r, verdict), errors' >= errors,
               \A s \in Subjects : Mine(r, s) /\ verdict # "killed" =>
                   errors > 0 /\ (verdict = "passed" => script = "transport")
        PROVE  CleanInv'
    <3>1. /\ script' = script /\ object' = object /\ Tested' = Tested
          /\ run'[r] = verdict
          /\ \A q \in Runs \ {r} : run'[q] = run[q] /\ pc'[q] = pc[q] /\ good'[q] = good[q]
      BY <2>6 DEF Quit, Tested, Over, ProbeTypeOK
    <3>2. \A s \in Subjects : Clean(r, s)'
      BY <2>6, <3>1 DEF Clean, Mine, Over, ProbeTypeOK
    <3>3. InOrder(r)'
      BY <3>1 DEF InOrder, Over
    <3>4. \A q \in Runs \ {r} : InOrder(q)' /\ \A s \in Subjects : Clean(q, s)'
      BY <2>1, <2>2, <2>6, <3>1 DEF Mine
    <3>5. OnlyTested'
      BY <3>1 DEF CleanInv, OnlyTested
    <3> QED
      BY <3>2, <3>3, <3>4, <3>5 DEF CleanInv
  <2>7. ASSUME NEW r \in Runs, Finish(r)
        PROVE  CleanInv'
    <3>1. run[r] = "running" /\ errors' = errors
      BY <2>7 DEF Finish, Works
    <3>2. \A s \in Subjects \ Tested : ~Mine(r, s)
      BY ProbeAssumption DEF CleanInv, OnlyTested, Mine, None
    <3>3. ASSUME NEW s \in Tested, errors = 0
          PROVE  ~Mine(r, s)
      <4>1. s \in Subjects
        BY DEF Tested, Subjects
      <4>2. pc[r][s] \in {"end", "check"}
        BY <2>7, <3>1, <4>1 DEF Finish, CleanInv, InOrder, Tested, Subjects
      <4> QED
        BY <3>1, <3>3, <4>1, <4>2 DEF CleanInv, Clean
    <3>4. ASSUME NEW s \in Tested, AllGood(r), script # "transport"
          PROVE  ~Mine(r, s)
      BY <2>7, <3>1, <3>4 DEF Finish, AllGood, CleanInv, Clean, Tested, Subjects
    <3>5. CASE AllGood(r) /\ Quit(r, "passed")
      BY <2>6, <3>1, <3>2, <3>3, <3>4, <3>5 DEF Over, ProbeTypeOK
    <3>6. CASE Quit(r, "failed")
      BY <2>6, <3>1, <3>2, <3>3, <3>6 DEF Over, ProbeTypeOK
    <3> QED
      BY <2>7, <3>5, <3>6 DEF Finish
  <2>8. ASSUME NEW r \in Runs, Kill(r)
        PROVE  CleanInv'
    BY <2>6, <2>8 DEF Kill, Error, Over, ProbeTypeOK
  <2>9. CASE UNCHANGED probeVars
    BY <2>9 DEF probeVars, process, CleanInv, Clean, Mine, InOrder, OnlyTested, Tested
  <2> QED
    BY <2>3, <2>4, <2>5, <2>7, <2>8, <2>9 DEF ProbeNext, ClusterStep, RunStep
<1>3. CleanInv => LeavesNothing
  BY DEF CleanInv, Clean, Mine, LeavesNothing
<1> QED
  BY <1>1, <1>2, <1>3, ProbeTyped, PTL DEF ProbeSpec
=============================================================================
