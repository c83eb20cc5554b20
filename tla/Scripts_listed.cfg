SPECIFICATION MCSpec
CONSTANTS
    Groups = {"rollouts"}
    Runs = {r1, r2}
    First = first
    Second = second
    Nobody = nobody
    MaxErrors = 1
    Own = own
    Other = other
    Fresh = fresh
    OwnKey = ownKey
    OtherKey = otherKey
    NoKey = noKey
    Slips <- MCSlips
    MaxCommits = 3
    Namespaces = {"media-vpn", "immich"}
    Apps = {"gateway", "dns"}
    Unset = unset
    Ports = {4789, 1053}
    Home = "media-vpn"
    Reach = {"media-vpn"}
    Gateway <- MCGateway
    Dns <- MCDns
    Protected <- MCProtected
    MaxEdits = 2
    Workloads = {w1, w2}
    Managed = {w1}
    MaxChanges = 2
    MaxDatabases = 3
    MaxMishaps = 3
    MaxIncidents = 3
    Imports = {i1, i2}
    Wanted = {"namespace", "radosNamespace", "subvolumeGroup", "monSecret", "rbdNode",
              "rbdClass", "cephfsClass", "topologyClass"}
    OtherContext = FALSE
    MaxGenerations = 2
    MaxFailures = 1
PROPERTY
    ListedAreReady
