SPECIFICATION SettlingSpec
CONSTANTS
    Workloads = {db, graph}
    Stateless = {}
    Graph = {graph}
    Scalable = {db}
    Deploys = {}
    Postgres = {}
    Plain = {}
    ClaimOf <- NoClaims
    Replicas <- OneReplica
    Mark <- NeverCut
    MaxReplicas = 2
    DryRun = FALSE
    Reliable = FALSE
    MaxWrites = 0
PROPERTIES CutoverSettles
CHECK_DEADLOCK FALSE
