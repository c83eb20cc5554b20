SPECIFICATION ExerciseSpec
CONSTANTS
    Apps = {qbittorrent}
    Jobs = {}
    MaxImage = 1
    MaxFaults = 2
    Target = qbittorrent
    MaxErrors = 0
INVARIANT BlockedMeansProbed
