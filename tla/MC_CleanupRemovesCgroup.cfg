CONSTANTS
    p = p
    c = c
    NoParent = NoParent
    Containers <- MCContainers
    Parent <- MCParent
    Controllers <- MCControllers
    SkipEnable <- MCSkipEnable
    MaxCrashes = 1

SPECIFICATION Spec

INVARIANT CleanupRemovesCgroup
