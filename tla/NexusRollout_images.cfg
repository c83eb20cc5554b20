SPECIFICATION Spec
CONSTANTS
    p1 = p1  p2 = p2  r1 = r1  r2 = r2  t1 = t1  t2 = t2
    Plays = {p1, p2}
    Tokens = {t1, t2}
    Revisions = {r1, r2}
    None = None
    Mirror = Mirror
    Overlap = FALSE
    MaxChanges = 1
    MaxFaults = 1
SYMMETRY Symmetric
INVARIANTS ImagesHoldTheirRevision
