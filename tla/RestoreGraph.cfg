SPECIFICATION Spec
CONSTANTS
    Workloads = {graph, plug}
    Stateless = {}
    Graph = {graph}
    Plugin = {plug}
    Dumped = {}
    Replayable = {}
    Strict = {}
    Quiet = {plug}
    DryRun = FALSE
    MaxReplays = 2
PROPERTIES FreshEvidence
