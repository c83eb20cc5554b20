SPECIFICATION Spec
CONSTANTS
    Nodes = {n1, n2}
    Namespaces = {"flux-system", "network"}
    Secrets = {"sops-age", "github-deploy-key"}
    Missing = {"github-deploy-key"}
    MaxBumps = 1
    MaxFaults = 2
INVARIANT CrdsBeforeReleases
