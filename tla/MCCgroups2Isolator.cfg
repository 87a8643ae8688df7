CONSTANTS
    p = p
    c = c
    NoParent = NoParent
    Containers <- MCContainers
    Parent <- MCParent
    Controllers <- MCControllers
    SkipEnable <- MCSkipEnable
    MaxCrashes = 1

SPECIFICATION Spec

INVARIANT TypeOK
INVARIANT SubtreeControlConsistent
INVARIANT CleanupFindsInfo
INVARIANT RecoveredOnce
INVARIANT StatusAnswered
PROPERTY DestroyCompletes
PROPERTY RecoveryCompletes
PROPERTY LifecycleRefined
