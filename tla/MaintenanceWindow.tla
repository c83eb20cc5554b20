------------------------- MODULE MaintenanceWindow -------------------------
(***************************************************************************)
(* What the lock of the Nexus host promises (ansible/roles/nexus): a       *)
(* rollout and the mirror take turns, the token the server takes and the   *)
(* token the mirror reads change only during a rollout, and a rollout that *)
(* ends verified leaves the two equal.  A rollout may also be abandoned at *)
(* any point; nothing is then promised until the next verified one.        *)
(***************************************************************************)
CONSTANTS Tokens, None

VARIABLES
    holder,     \* who is in the window
    served,     \* token the running server takes
    held,       \* token the mirror would read
    verified    \* did the last rollout end verified?

vars == <<holder, served, held, verified>>

MaybeToken == Tokens \cup {None}

Init ==
    /\ holder = "free"
    /\ served \in MaybeToken /\ held \in MaybeToken
    /\ verified = FALSE

BeginRollout ==
    /\ holder = "free" /\ holder' = "rollout"
    /\ verified' = FALSE
    /\ UNCHANGED <<served, held>>

Reconfigure ==
    /\ holder = "rollout"
    /\ served' \in MaybeToken /\ held' \in MaybeToken
    /\ UNCHANGED <<holder, verified>>

Accept ==
    /\ holder = "rollout" /\ holder' = "free"
    /\ served = held /\ held # None
    /\ verified' = TRUE
    /\ UNCHANGED <<served, held>>

Abandon ==
    /\ holder = "rollout" /\ holder' = "free"
    /\ served' \in MaybeToken
    /\ UNCHANGED <<held, verified>>

BeginMirror ==
    /\ holder = "free" /\ holder' = "mirror"
    /\ UNCHANGED <<served, held, verified>>

EndMirror ==
    /\ holder = "mirror" /\ holder' = "free"
    /\ UNCHANGED <<served, held, verified>>

Next ==
    \/ BeginRollout \/ Reconfigure \/ Accept \/ Abandon
    \/ BeginMirror \/ EndMirror

Spec == Init /\ [][Next]_vars

=============================================================================
