SPECIFICATION MCSpec
CONSTANTS
    Apps = {qbittorrent}
    Jobs = {recyclarr}
    MaxImage = 2
    MaxFaults = 2
    Target = qbittorrent
    MaxErrors = 2
INVARIANTS
    TypeOK
    NoDirectEgress
    SidecarInEveryPod
    SettledZoneRuns
    HonestReport
    UndoesItsChanges
PROPERTY AppsComeBack
\* A killed run may leave the gateway at 0 replicas: a replaced pod then waits, and
\* neither it nor a new run of the script gets further until someone scales it up.
CHECK_DEADLOCK FALSE
