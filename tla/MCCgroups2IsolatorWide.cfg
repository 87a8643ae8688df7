CONSTANTS
    p = p
    q = q
    NoParent = NoParent
    Containers <- MCContainers
    Parent <- MCParent
    Controllers <- MCControllers
    SkipEnable <- MCSkipEnable
    MaxCrashes = 1

SPECIFICATION Spec

INVARIANT SubtreeControlConsistent
INVARIANT CleanupFindsInfo
PROPERTY LifecycleRefined
