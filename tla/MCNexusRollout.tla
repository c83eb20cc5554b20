--------------------------- MODULE MCNexusRollout ---------------------------
(* Instances of NexusRollout for TLC.                                      *)
EXTENDS NexusRollout, TLC

CONSTANTS p1, p2, r1, r2, t1, t2

(* Plays, revisions and tokens are only compared with one another, never   *)
(* ordered or chosen.  Used in runs that check safety properties alone.    *)
Symmetric ==
    Permutations({p1, p2}) \cup Permutations({r1, r2}) \cup Permutations({t1, t2})
=============================================================================
