SPECIFICATION FairSpec
CONSTANTS
    Nodes = {n1, n2}
    Namespaces = {"flux-system", "network"}
    Secrets = {"sops-age", "github-deploy-key"}
    Missing = {"github-deploy-key"}
    MaxBumps = 1
    MaxFaults = 2
INVARIANTS TypeOK OnlyWaitHangs
PROPERTIES FluxStartsPrepared DoneIsUpToDate ConvergesOrWaits
\* A run whose wait_for_nodes polls for ever does not move: the loop may stop there.
CHECK_DEADLOCK FALSE
