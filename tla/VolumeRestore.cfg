SPECIFICATION FairSpec
CONSTANTS
    Claims <- TwoClaims
    Templates <- TwoTemplates
    Pairs = {TRUE, FALSE}
    SourceClass = "premium"
    StorageClassMap <- Storage
    RuntimeClassMap <- Runtimes
    AwayClasses = {"standard"}
    AwayRuntimes = {"kata"}
    MaxEvents = 2
INVARIANTS TypeOK HealAgrees KeyStaysPrivate
PROPERTY InPlaceRestored
PROPERTY DatabaseRestored
PROPERTY RestoreEnds
CHECK_DEADLOCK FALSE
