SPECIFICATION Spec
CONSTANTS
    Workloads = {db}
    Stateless = {}
    Graph = {}
    Scalable = {db}
    Deploys = {}
    Postgres = {}
    Plain = {}
    ClaimOf <- NoClaims
    Replicas <- OneReplica
    Mark <- NeverCut
    MaxReplicas = 2
    DryRun = FALSE
    Reliable = TRUE
    MaxWrites = 1
PROPERTIES NoLostWrites
