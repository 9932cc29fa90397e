CONSTANTS
    MaxPushes = 3
    MaxRuns = 3
    MaxFailures = 2
    AssetPushes = 1
    AssetRuns = 2
    Kinds <- KindsOf
    Digests = {1, 2}
    AssetNames = {"wheel", "manifest"}
SPECIFICATION Spec
INVARIANTS
    HistoryCanGoOn
    PublishedIsOneBuild
PROPERTIES
    ReleasesImmutable
CHECK_DEADLOCK FALSE
