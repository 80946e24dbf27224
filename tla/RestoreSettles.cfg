SPECIFICATION SettlingSpec
CONSTANTS
    Workloads = {pg}
    Stateless = {}
    Graph = {}
    Plugin = {}
    Dumped = {pg}
    Replayable = {pg}
    Strict = {pg}
    Quiet = {}
    DryRun = FALSE
    MaxReplays = 2
PROPERTIES RestoreSettles
