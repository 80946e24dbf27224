SPECIFICATION Spec
CONSTANTS
    Workloads = {pg, web}
    Stateless = {web}
    Graph = {}
    Plugin = {}
    Dumped = {pg}
    Replayable = {pg}
    Strict = {pg}
    Quiet = {}
    DryRun = FALSE
    MaxReplays = 2
INVARIANTS TypeOK DumpLanded ReplayedAgainOnlyIfCut
PROPERTIES UsefulCounts LiveDataKept
