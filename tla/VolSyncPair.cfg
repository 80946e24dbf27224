CONSTANTS
    Keys = {k1, k2}
    NoKey = NoKey
    Mixed = Mixed
    MaxData = 2
    MaxFaults = 2
SPECIFICATION FairSpec
INVARIANTS TypeOK DestinationServed
PROPERTIES WarmCopySpec ProbedMeansCopied CatchesUp QuietUnderPod GoneWithClaim
