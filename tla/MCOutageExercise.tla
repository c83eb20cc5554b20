-------------------------- MODULE MCOutageExercise --------------------------
(***************************************************************************)
(* The media zone for TLC, twice: as it is built up from nothing with      *)
(* operators who do anything, and as it stands while the live checks run.  *)
(***************************************************************************)
EXTENDS OutageExercise

VARIABLE scripted    \* is the operator the script?  Fixed at the start.

MCInit ==
    \/ scripted = TRUE /\ ExerciseInit
    \/ /\ scripted = FALSE /\ Init
       /\ pc = "idle" /\ options = [underlay |-> FALSE, outages |-> FALSE]
       /\ lost = FALSE /\ raised = FALSE /\ saved = 1 /\ ok = TRUE /\ probed = TRUE
       /\ found = Now /\ clean = TRUE /\ errors = 0

(* Bound: Git names no new image while the script is in use.               *)
MCNext ==
    /\ \/ scripted /\ ExerciseNext /\ UNCHANGED repo
       \/ ~scripted /\ Next /\ UNCHANGED <<script, errors>>
    /\ UNCHANGED scripted

MCSpec == MCInit /\ [][MCNext]_<<all, scripted>> /\ Fairness
=============================================================================
