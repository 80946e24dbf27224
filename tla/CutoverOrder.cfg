SPECIFICATION Spec
CONSTANTS
    Workloads = {db, ss}
    Stateless = {}
    Graph = {}
    Scalable = {db, ss}
    Deploys = {db}
    Postgres = {}
    Plain = {}
    ClaimOf <- NoClaims
    Replicas <- OneReplica
    Mark <- NeverCut
    MaxReplicas = 2
    DryRun = FALSE
    Reliable = FALSE
    MaxWrites = 0
INVARIANTS SwitchedMeansFrozen OriginalRemembered
PROPERTIES CutoverEvidence
