SPECIFICATION Spec
CONSTANTS
    Claims <- TwoClaims
    Templates <- TwoTemplates
    Pairs = {TRUE}
    SourceClass = "premium"
    StorageClassMap <- Storage
    RuntimeClassMap <- Runtimes
    AwayClasses = {"standard"}
    AwayRuntimes = {"kata"}
    MaxEvents = 2
PROPERTY DataRestored
CHECK_DEADLOCK FALSE
