SPECIFICATION Spec
CONSTANTS
    Nil = Nil
    Failed = Failed
    Hubs <- MCHubs
    VersionNames <- MCVersions
    VersionDirs = {"v1"}
    VDirs = {"v1", "vehicles"}
    Scaffold <- MCScaffold
    Bare <- MCBare
    BareHubs = {1, 3}
    Manifests <- MCManifests
    AddTargets = {"postgres", "kafka", "rest", "obs", "auth"}
    GenFlags <- MCGenFlags
    ManualFiles <- MCManualFiles
    MaxCommands = 2
    MaxEdits = 1
INVARIANTS
    ConversionSound
    OpenAPIClosed
PROPERTIES
    HandWrittenKept
    CheckHonest
    DevConverges
CHECK_DEADLOCK FALSE
