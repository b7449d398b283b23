CONSTANTS
    Hosts <- MCHosts
    ClusterSize = 3
    StorageReplicas = 2
    MaxFaults = 2
    MaxFlips = 2
    NodeName <- MCNodeName
    ReplicaNum = 3
    MaxInits = 2
SPECIFICATION MCSpec
PROPERTY NeverUnderProvisioned
PROPERTY EventuallyEnough
PROPERTY EventuallyTornDown
