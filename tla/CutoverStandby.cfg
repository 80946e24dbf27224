SPECIFICATION Spec
CONSTANTS
    Workloads = {pg}
    Stateless = {}
    Graph = {}
    Scalable = {pg}
    Deploys = {}
    Postgres = {pg}
    Plain = {}
    ClaimOf <- NoClaims
    Replicas <- TwoReplicas
    Mark <- CutBefore
    MaxReplicas = 2
    DryRun = FALSE
    Reliable = FALSE
    MaxWrites = 1
INVARIANTS SwitchedMeansTold
PROPERTIES HandoverSpec
